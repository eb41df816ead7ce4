----------------------------- MODULE SienaHash -----------------------------
(***************************************************************************)
(* How Siena encodes a filter (efx_filter.c): the spec of a generic one,   *)
(* its key and the hash of the key.                                        *)
(***************************************************************************)
EXTENDS Integers, Bitwise

(* siena_filter_spec_from_gen_spec: the type of a filter and its dwords.   *)
(* The ports of a UDP wildcard are swapped.                                *)
Types == [dir : {"rx", "tx"}, proto : {"TCP", "UDP", "MAC"}, full : BOOLEAN]

Valid(g) ==
  /\ ~(g.rss /\ g.ctx # 0)
  /\ g.match # "MAC" => g.ipv4 /\ g.lport # 0 /\ (g.full => g.rport # 0)

Dwords(t, g) ==
  IF g.match = "MAC" THEN <<IF g.full THEN g.vid ELSE 0, g.mac, 0>>
  ELSE LET rhost == IF g.full THEN g.rhost ELSE 0
           rport == IF g.full THEN g.rport ELSE 0
           tx    == t.dir = "tx"
           host1 == IF tx THEN g.lhost ELSE rhost
           host2 == IF tx THEN rhost ELSE g.lhost
           swap  == t.proto = "UDP" /\ ~t.full
           port1 == IF tx # swap THEN g.lport ELSE rport
           port2 == IF tx # swap THEN rport ELSE g.lport
       IN <<(host1 % 2^16) * 2^16 + port1, port2 * 2^16 + host1 \div 2^16, host2>>

FromGen(g) ==
  LET t == [dir |-> g.dir, proto |-> g.match, full |-> g.full]
  IN [type |-> t, dword |-> Dwords(t, g), dmaq |-> g.dmaq, rss |-> g.rss]

TblId(t) == CASE t.dir = "rx" /\ t.proto # "MAC" -> "RX_IP"
              [] t.dir = "rx" /\ t.proto = "MAC" -> "RX_MAC"
              [] t.dir = "tx" /\ t.proto # "MAC" -> "TX_IP"
              [] OTHER -> "TX_MAC"

(* siena_filter_build: the key.                                            *)
Key(s) ==
  LET bit    == IF s.type.proto = "UDP" \/ (s.type.proto = "MAC" /\ ~s.type.full)
                THEN 1 ELSE 0
      dword3 == IF s.type.dir = "tx" THEN bit | (s.dmaq * 2) ELSE bit
  IN ((s.dword[1] ^^ s.dword[2]) ^^ s.dword[3]) ^^ dword3

(* siena_filter_tbl_hash, 16 bits wide, and siena_filter_tbl_increment.    *)
Round(x)  == LET y == (x ^^ (x \div 8)) ^^ (x \div 64) IN y ^^ (y \div 512)
Hash(key) ==
  LET t == Round(8191 ^^ (key \div 2^16))
  IN Round((t ^^ ((t * 2^13) % 2^16)) ^^ (key % 2^16))
Increment(key) == ((key % 2^15) * 2 - 1) % 2^16
=============================================================================
