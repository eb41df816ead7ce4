----------------------------- MODULE MCFilters -----------------------------
EXTENDS Filters
MCLists == {<< >>, <<"m1">>, <<"m2", "m1">>}
MCHash == [k \in {"u1", "u2", "m1", "m2", "ucdef", "mcdef", "bcast"} |->
             IF k \in {"u1", "m1"} THEN 0 ELSE IF k = "bcast" THEN 2 ELSE 3]

(* Three TCP wildcards, one of them for another queue as well, UDP with    *)
(* its swapped ports, a full match, MAC matches and two that are refused.  *)
Tcp == [dir |-> "rx", match |-> "TCP", full |-> FALSE, ipv4 |-> TRUE, rss |-> FALSE,
        ctx |-> 0, lhost |-> 70000, lport |-> 1, rhost |-> 3, rport |-> 5,
        vid |-> 0, mac |-> 9, dmaq |-> 0]
MCGen == [tcp1 |-> Tcp, other |-> [Tcp EXCEPT !.dmaq = 1], tcp2 |-> [Tcp EXCEPT !.lport = 6],
          tcp3 |-> [Tcp EXCEPT !.lport = 11], udp |-> [Tcp EXCEPT !.match = "UDP", !.lport = 2],
          full |-> [Tcp EXCEPT !.full = TRUE], mac |-> [Tcp EXCEPT !.match = "MAC"],
          vlan |-> [Tcp EXCEPT !.match = "MAC", !.full = TRUE, !.vid = 8],
          noport |-> [Tcp EXCEPT !.lport = 0], rssctx |-> [Tcp EXCEPT !.rss = TRUE, !.ctx = 7]]
MCHome == [tcp1 |-> 10241, other |-> 10241, tcp2 |-> 55289, tcp3 |-> 17853, udp |-> 3217,
           full |-> 17841, mac |-> 15130, vlan |-> 15122, noport |-> 3218, rssctx |-> 10241]
MCStride == [tcp1 |-> 8927, other |-> 8927, tcp2 |-> 8927, tcp3 |-> 8927, udp |-> 8933,
             full |-> 8937, mac |-> 15, vlan |-> 1, noport |-> 8927, rssctx |-> 8927]
MCSize == [t \in {"RX_IP", "RX_MAC", "TX_IP", "TX_MAC"} |->
             IF t = "RX_IP" THEN 4 ELSE IF t = "RX_MAC" THEN 2 ELSE 0]
=============================================================================
