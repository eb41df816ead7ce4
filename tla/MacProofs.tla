------------------------------ MODULE MacProofs ------------------------------
(***************************************************************************)
(* Proofs about Mac for any groups, speeds and number of failing commands: *)
(* what was last asked for is in force while the MAC runs, and a stopped   *)
(* MAC is quiet.                                                           *)
(*                                                                         *)
(* Every call maps a port to ports it relates to: each setting of the      *)
(* controller is what it was or what the port holds, and the latter when   *)
(* the call succeeds.  The first part of the module proves this relation   *)
(* of each call, the second that the requests and the starts of the MAC    *)
(* keep the invariant because of it.                                       *)
(***************************************************************************)
EXTENDS Mac, TLAPS

Addrs == {BIA, "laa"}
Advs  == SUBSET (Speeds \cup Pause)
Flows == (SUBSET Flow) \cup {AutoFlow}

(* Shape of the state.                                                     *)
Mcs == [drain : BOOLEAN, addr : Addrs, ucaddr : Addrs \cup {"none"},
        uc : BOOLEAN, groups : SUBSET Groups,
        flow : Flows, adv : Advs, periodic : BOOLEAN]

Ports == [port : BOOLEAN, drain : BOOLEAN, addr : Addrs, uc : BOOLEAN,
          mulcst : BOOLEAN, allmc : BOOLEAN, list : SUBSET Groups,
          fcntl : SUBSET Flow, auto : BOOLEAN, adv : Advs, rxq : BOOLEAN,
          mc : Mcs, lost : BOOLEAN, rebooted : BOOLEAN, ok : BOOLEAN,
          left : 0..MaxFailures, panic : {"none", "caps", "drain"}]

Sms == [state : {"INITIALIZED", "STARTED"}, stopping : BOOLEAN,
        promisc : BOOLEAN, mcast : SUBSET Groups, laa : {"none", "laa"},
        fcntl : SUBSET Flow, toSet : SUBSET Speeds, toUnset : SUBSET Speeds,
        link : {"UNKNOWN", "UP"}]

Cfgs == [ef10 : BOOLEAN, an : BOOLEAN, vadaptor : BOOLEAN]

(* What most calls leave alone: everything that the driver keeps.          *)
Same(p, q) ==
  /\ q.port = p.port /\ q.drain = p.drain /\ q.addr = p.addr
  /\ q.uc = p.uc /\ q.mulcst = p.mulcst /\ q.allmc = p.allmc
  /\ q.list = p.list /\ q.fcntl = p.fcntl /\ q.auto = p.auto
  /\ q.adv = p.adv /\ q.rxq = p.rxq /\ q.rebooted = p.rebooted
  /\ q.panic = p.panic

(* A call that fails has used up a failure.                                *)
Fewer(p, q) == q.left <= p.left /\ (~q.ok => q.left < p.left)

-----------------------------------------------------------------------------
(* One command.                                                            *)
LEMMA CmdIs ==
  ASSUME NEW p \in Ports, NEW m \in Mcs, NEW q \in Cmd(p, m)
  PROVE  /\ q \in Ports /\ Same(p, q) /\ Fewer(p, q) /\ q.lost = p.lost
         /\ q.mc = IF q.ok THEN m ELSE p.mc
<1>1. CASE q = [p EXCEPT !.mc = m, !.ok = TRUE]
  <2>1. q \in Ports
    BY <1>1 DEF Ports
  <2> QED
    BY <1>1, <2>1, MacAssumption DEF Ports, Same, Fewer
<1>2. CASE p.left > 0 /\ q = [p EXCEPT !.ok = FALSE, !.left = @ - 1]
  <2>1. p.left \in 0..MaxFailures
    BY DEF Ports
  <2>2. p.left - 1 \in 0..MaxFailures /\ p.left - 1 < p.left
    BY <1>2, <2>1, MacAssumption
  <2>3. q \in Ports
    BY <1>2, <2>2 DEF Ports
  <2> QED
    BY <1>2, <2>1, <2>2, <2>3, MacAssumption DEF Ports, Same, Fewer
<1> QED
  BY <1>1, <1>2 DEF Cmd

-----------------------------------------------------------------------------
(* Reconfiguration: SET_MAC, then the multicast hash or the filters.       *)
FlowOf(p) == IF p.auto THEN AutoFlow ELSE p.fcntl

(* The families: only an EF10 has a vadaptor, and its MAC follows the PHY. *)
Family == cfg \in Cfgs /\ (cfg.vadaptor => cfg.ef10) /\ (cfg.ef10 => cfg.an)

(* The groups that the stack asked for are groups.                         *)
LEMMA GroupsType == \A p \in Ports : GroupsOf(p) \in SUBSET Groups
BY DEF GroupsOf, Ports

(* The fields of a port.                                                   *)
LEMMA PortTypes ==
  ASSUME NEW p \in Ports
  PROVE  /\ p.mc \in Mcs /\ p.addr \in Addrs /\ p.drain \in BOOLEAN
         /\ p.uc \in BOOLEAN /\ p.adv \in Advs /\ p.rxq \in BOOLEAN
         /\ p.lost \in BOOLEAN /\ p.ok \in BOOLEAN /\ p.fcntl \in SUBSET Flow
         /\ p.left \in Nat /\ FlowOf(p) \in Flows
<1>1. /\ p.mc \in Mcs /\ p.addr \in Addrs /\ p.drain \in BOOLEAN
      /\ p.uc \in BOOLEAN /\ p.adv \in Advs /\ p.rxq \in BOOLEAN
      /\ p.lost \in BOOLEAN /\ p.ok \in BOOLEAN /\ p.fcntl \in SUBSET Flow
      /\ p.left \in 0..MaxFailures
  BY DEF Ports
<1>2. p.left \in Nat
  BY <1>1, MacAssumption
<1>3. FlowOf(p) \in Flows
  BY <1>1 DEF FlowOf, Flows
<1> QED
  BY <1>1, <1>2, <1>3

(* What SET_MAC carries: all of it on a Siena, the drain and perhaps the   *)
(* address on an EF10.                                                     *)
LEMMA SetMacIs ==
  ASSUME Family, NEW p \in Ports
  PROVE  LET m == SetMac(p) IN
         /\ m \in Mcs /\ m.drain = p.drain
         /\ m.groups = p.mc.groups /\ m.adv = p.mc.adv
         /\ m.periodic = p.mc.periodic
         /\ m.addr = IF cfg.vadaptor THEN p.mc.addr ELSE p.addr
         /\ m.ucaddr = IF cfg.ef10 THEN p.mc.ucaddr ELSE p.addr
         /\ m.uc = IF cfg.ef10 THEN p.mc.uc ELSE p.uc
         /\ m.flow = IF cfg.ef10 THEN p.mc.flow ELSE FlowOf(p)
<1> DEFINE base == [p.mc EXCEPT !.drain = p.drain]
           flow == FlowOf(p)
<1>1. /\ p.mc \in Mcs /\ p.addr \in Addrs /\ p.drain \in BOOLEAN
      /\ p.uc \in BOOLEAN /\ flow \in Flows
  BY PortTypes
<1> HIDE DEF flow
<1>2. /\ base \in Mcs /\ base.drain = p.drain
      /\ base.groups = p.mc.groups /\ base.adv = p.mc.adv
      /\ base.periodic = p.mc.periodic /\ base.addr = p.mc.addr
      /\ base.ucaddr = p.mc.ucaddr /\ base.uc = p.mc.uc
      /\ base.flow = p.mc.flow
  BY <1>1 DEF Mcs
<1> HIDE DEF base
<1>3. CASE cfg.ef10 /\ cfg.vadaptor
  <2>1. SetMac(p) = base
    BY <1>3 DEF SetMac, base
  <2> QED
    BY <1>2, <1>3, <2>1
<1>4. CASE cfg.ef10 /\ ~cfg.vadaptor
  <2>1. SetMac(p) = [base EXCEPT !.addr = p.addr]
    BY <1>4 DEF SetMac, base
  <2> QED
    BY <1>1, <1>2, <1>4, <2>1 DEF Mcs
<1>5. CASE ~cfg.ef10
  <2>1. SetMac(p) = [base EXCEPT !.addr = p.addr, !.ucaddr = p.addr,
                                 !.uc = p.uc, !.flow = flow]
    BY <1>5 DEF SetMac, base, flow, FlowOf
  <2>2. ~cfg.vadaptor
    BY <1>5 DEF Family
  <2> QED
    BY <1>1, <1>2, <1>5, <2>1, <2>2 DEF Mcs, flow
<1> QED
  BY <1>3, <1>4, <1>5

(* Receive filters of an EF10 are installed only for a receive queue, and  *)
(* a command about them that failed leaves unknown ones.                   *)
Filters(p) == cfg.ef10 => p.rxq /\ ~p.lost

(* What the controller has after a reconfiguration, whatever failed.       *)
Pushed(p, q) ==
  /\ q \in Ports /\ Same(p, q) /\ Fewer(p, q)
  /\ q.mc.adv = p.mc.adv /\ q.mc.periodic = p.mc.periodic
  /\ q.mc.drain \in {p.mc.drain, p.drain}
  /\ q.mc.addr \in {p.mc.addr, p.addr}
  /\ cfg.vadaptor => q.mc.addr = p.mc.addr
  /\ q.mc.flow \in {p.mc.flow, FlowOf(p)}
  /\ Filters(q) =>
       \/ /\ q.mc.ucaddr = p.addr /\ q.mc.uc = p.uc
          /\ q.mc.groups = GroupsOf(p)
       \/ /\ ~q.ok /\ Filters(p) /\ q.mc.ucaddr \in {p.mc.ucaddr, p.addr}
          /\ q.mc.uc \in {p.mc.uc, p.uc}
          /\ q.mc.groups \in {p.mc.groups, GroupsOf(p)}
  /\ q.ok => /\ q.mc.drain = p.drain
             /\ ~cfg.vadaptor => q.mc.addr = p.addr
             /\ ~cfg.ef10 => q.mc.flow = FlowOf(p)

(* The filters of an EF10: with a receive queue they are what the port     *)
(* holds, or are lost.                                                     *)
LEMMA FilterReconfigureIs ==
  ASSUME Family, cfg.ef10, NEW p \in Ports, NEW q \in FilterReconfigure(p)
  PROVE  /\ q \in Ports /\ Same(p, q) /\ Fewer(p, q)
         /\ q.mc.adv = p.mc.adv /\ q.mc.periodic = p.mc.periodic
         /\ q.mc.drain = p.mc.drain /\ q.mc.addr = p.mc.addr
         /\ q.mc.flow = p.mc.flow /\ (~p.rxq => q.ok)
         /\ Filters(q) => /\ q.ok /\ q.mc.ucaddr = p.addr /\ q.mc.uc = p.uc
                          /\ q.mc.groups = GroupsOf(p)
<1>1. /\ p.mc \in Mcs /\ p.addr \in Addrs /\ p.uc \in BOOLEAN
      /\ GroupsOf(p) \in SUBSET Groups
  BY PortTypes, GroupsType
<1>2. CASE p.rxq
  <2> DEFINE m == [p.mc EXCEPT !.ucaddr = p.addr, !.uc = p.uc,
                               !.groups = GroupsOf(p)]
  <2>1. /\ m \in Mcs /\ m.ucaddr = p.addr /\ m.uc = p.uc
        /\ m.groups = GroupsOf(p) /\ m.adv = p.mc.adv
        /\ m.periodic = p.mc.periodic /\ m.drain = p.mc.drain
        /\ m.addr = p.mc.addr /\ m.flow = p.mc.flow
    BY <1>1 DEF Mcs
  <2>2. PICK r \in Cmd(p, m) : q = [r EXCEPT !.lost = ~r.ok]
    BY <1>2 DEF FilterReconfigure
  <2> HIDE DEF m
  <2>3. /\ r \in Ports /\ Same(p, r) /\ Fewer(p, r)
        /\ r.mc = IF r.ok THEN m ELSE p.mc
    BY <2>1, CmdIs
  <2>4. q \in Ports
    BY <2>2, <2>3 DEF Ports
  <2>5. /\ q.lost = ~r.ok /\ q.ok = r.ok /\ q.mc = r.mc
        /\ q.left = r.left /\ Same(r, q)
    BY <2>2, <2>3, <2>4 DEF Ports, Same
  <2>6. Same(p, q) /\ Fewer(p, q)
    BY <2>3, <2>5 DEF Same, Fewer
  <2> QED
    BY <1>2, <2>1, <2>3, <2>4, <2>5, <2>6 DEF Filters
<1>3. CASE ~p.rxq
  <2> DEFINE m == [p.mc EXCEPT !.ucaddr = "none", !.uc = FALSE,
                               !.groups = {}]
  <2>1. /\ m \in Mcs /\ m.adv = p.mc.adv
        /\ m.periodic = p.mc.periodic /\ m.drain = p.mc.drain
        /\ m.addr = p.mc.addr /\ m.flow = p.mc.flow
    BY <1>1 DEF Mcs
  <2>2. q = [p EXCEPT !.mc = m, !.ok = TRUE]
    BY <1>3 DEF FilterReconfigure
  <2> HIDE DEF m
  <2>3. /\ q \in Ports /\ q.ok = TRUE /\ q.mc = m /\ q.left = p.left
        /\ Same(p, q) /\ q.rxq = p.rxq
    BY <2>1, <2>2 DEF Ports, Same
  <2>4. Fewer(p, q)
    <3>1. p.left \in Nat
      BY PortTypes
    <3>2. p.left <= p.left
      BY <3>1
    <3> QED
      BY <2>3, <3>2 DEF Fewer
  <2> QED
    BY <1>3, <2>1, <2>3, <2>4 DEF Filters
<1> QED
  BY <1>2, <1>3


(* Both families push every setting.                                       *)
LEMMA SienaReconfigureIs ==
  ASSUME Family, ~cfg.ef10, NEW p \in Ports, NEW q \in SienaReconfigure(p)
  PROVE  Pushed(p, q)
<1> DEFINE m == SetMac(p)
<1>1. /\ m \in Mcs /\ m.drain = p.drain /\ m.groups = p.mc.groups
      /\ m.adv = p.mc.adv /\ m.periodic = p.mc.periodic /\ m.addr = p.addr
      /\ m.ucaddr = p.addr /\ m.uc = p.uc /\ m.flow = FlowOf(p)
  BY SetMacIs, Zenon DEF Family
<1>2. PICK r \in Cmd(p, SetMac(p)) :
        IF r.ok THEN q \in Cmd(r, [r.mc EXCEPT !.groups = GroupsOf(r)])
        ELSE q = r
  BY DEF SienaReconfigure, Then
<1>3. r \in Cmd(p, m)
  BY <1>2
<1> HIDE DEF m
<1>4. /\ r \in Ports /\ Same(p, r) /\ Fewer(p, r)
      /\ r.mc = IF r.ok THEN m ELSE p.mc
  BY <1>1, <1>3, CmdIs
<1>5. r.mc \in Mcs /\ p.mc \in Mcs /\ p.left \in Nat /\ r.left \in Nat
  BY <1>4, PortTypes
<1>6. GroupsOf(r) = GroupsOf(p) /\ GroupsOf(r) \in SUBSET Groups
  BY <1>4, GroupsType DEF GroupsOf, Same
<1>7. CASE ~r.ok
  <2>1. q = r
    BY <1>2, <1>7
  <2> QED
    BY <1>4, <1>7, <2>1 DEF Pushed, Filters
<1>8. CASE r.ok
  <2> DEFINE n == [r.mc EXCEPT !.groups = GroupsOf(r)]
  <2>1. q \in Cmd(r, n)
    BY <1>2, <1>8
  <2>2. /\ n \in Mcs /\ n.drain = r.mc.drain /\ n.groups = GroupsOf(p)
        /\ n.adv = r.mc.adv /\ n.periodic = r.mc.periodic
        /\ n.addr = r.mc.addr /\ n.ucaddr = r.mc.ucaddr /\ n.uc = r.mc.uc
        /\ n.flow = r.mc.flow
    BY <1>5, <1>6 DEF Mcs
  <2> HIDE DEF n
  <2>3. /\ q \in Ports /\ Same(r, q) /\ Fewer(r, q)
        /\ q.mc = IF q.ok THEN n ELSE r.mc
    BY <1>4, <2>1, <2>2, CmdIs
  <2>4. q.left \in Nat
    BY <2>3, PortTypes
  <2>5. Same(p, q) /\ Fewer(p, q)
    BY <1>4, <1>5, <2>3, <2>4 DEF Same, Fewer
  <2>6. r.mc = m
    BY <1>4, <1>8
  <2>7. ~cfg.vadaptor
    BY DEF Family
  <2>8. CASE q.ok
    BY <1>1, <2>2, <2>3, <2>5, <2>6, <2>7, <2>8 DEF Pushed
  <2>9. CASE ~q.ok
    BY <1>1, <2>3, <2>5, <2>6, <2>7, <2>9 DEF Pushed, Filters
  <2> QED
    BY <2>8, <2>9
<1> QED
  BY <1>7, <1>8

(* An EF10 reports no failure of its filters, which are lost then.         *)
LEMMA Ef10ReconfigureIs ==
  ASSUME Family, cfg.ef10, NEW p \in Ports, NEW q \in Ef10Reconfigure(p)
  PROVE  Pushed(p, q)
<1> DEFINE m == SetMac(p)
<1>1. /\ m \in Mcs /\ m.drain = p.drain /\ m.groups = p.mc.groups
      /\ m.adv = p.mc.adv /\ m.periodic = p.mc.periodic
      /\ m.addr = IF cfg.vadaptor THEN p.mc.addr ELSE p.addr
      /\ m.ucaddr = p.mc.ucaddr /\ m.uc = p.mc.uc /\ m.flow = p.mc.flow
  BY SetMacIs, Zenon
<1>2. PICK r \in Cmd(p, SetMac(p)) :
        IF r.ok THEN q \in Quietly(FilterReconfigure(r)) ELSE q = r
  BY DEF Ef10Reconfigure, Then
<1>3. r \in Cmd(p, m)
  BY <1>2
<1> HIDE DEF m
<1>4. /\ r \in Ports /\ Same(p, r) /\ Fewer(p, r) /\ r.lost = p.lost
      /\ r.mc = IF r.ok THEN m ELSE p.mc
  BY <1>1, <1>3, CmdIs
<1>5. r.mc \in Mcs /\ p.mc \in Mcs /\ p.left \in Nat /\ r.left \in Nat
  BY <1>4, PortTypes
<1>6. GroupsOf(r) = GroupsOf(p)
  BY <1>4 DEF GroupsOf, Same
<1>7. CASE ~r.ok
  <2>1. q = r
    BY <1>2, <1>7
  <2>2. Filters(r) => Filters(p)
    BY <1>4 DEF Filters, Same
  <2> QED
    BY <1>4, <1>7, <2>1, <2>2 DEF Pushed
<1>8. CASE r.ok
  <2>1. PICK s \in FilterReconfigure(r) : q = [s EXCEPT !.ok = TRUE]
    BY <1>2, <1>8 DEF Quietly
  <2>2. /\ s \in Ports /\ Same(r, s) /\ Fewer(r, s)
        /\ s.mc.adv = r.mc.adv /\ s.mc.periodic = r.mc.periodic
        /\ s.mc.drain = r.mc.drain /\ s.mc.addr = r.mc.addr
        /\ s.mc.flow = r.mc.flow
        /\ Filters(s) => /\ s.ok /\ s.mc.ucaddr = r.addr /\ s.mc.uc = r.uc
                         /\ s.mc.groups = GroupsOf(r)
    BY <1>4, <2>1, FilterReconfigureIs
  <2>3. q \in Ports
    BY <2>1, <2>2 DEF Ports
  <2>4. /\ q.ok = TRUE /\ q.mc = s.mc /\ q.left = s.left /\ q.lost = s.lost
        /\ Same(s, q)
    BY <2>1, <2>2, <2>3 DEF Ports, Same
  <2>5. q.left \in Nat
    BY <2>3, PortTypes
  <2>6. Same(p, q) /\ Fewer(p, q)
    BY <1>4, <1>5, <2>2, <2>4, <2>5 DEF Same, Fewer
  <2>7. r.mc = m
    BY <1>4, <1>8
  <2>8. Filters(q) = Filters(s)
    BY <2>4 DEF Filters, Same
  <2>9. Filters(q) => /\ q.mc.ucaddr = p.addr /\ q.mc.uc = p.uc
                      /\ q.mc.groups = GroupsOf(p)
    BY <1>4, <1>6, <2>2, <2>4, <2>8 DEF Same
  <2>10. /\ q.mc.adv = p.mc.adv /\ q.mc.periodic = p.mc.periodic
         /\ q.mc.drain = p.drain /\ q.mc.flow = p.mc.flow
         /\ q.mc.addr = IF cfg.vadaptor THEN p.mc.addr ELSE p.addr
    BY <1>1, <2>2, <2>4, <2>7
  <2> QED
    BY <2>3, <2>4, <2>6, <2>9, <2>10 DEF Pushed
<1> QED
  BY <1>7, <1>8

(* efx_mac_t has one reconfiguration for each family.                      *)
LEMMA ReconfigureIs ==
  ASSUME Family, NEW p \in Ports, NEW q \in Reconfigure(p)
  PROVE  Pushed(p, q)
BY SienaReconfigureIs, Ef10ReconfigureIs DEF Reconfigure

-----------------------------------------------------------------------------
(* What is in force, and what a call keeps in force.                       *)
AddrForce(p)   == p.mc.addr = p.addr /\ (Filters(p) => p.mc.ucaddr = p.addr)
FilterForce(p) == Filters(p) => p.mc.uc = p.uc /\ p.mc.groups = GroupsOf(p)
FlowForce(p, f) ==
  /\ Decode(p.mc.adv) = f /\ Decode(p.adv) = f
  /\ ~cfg.an => p.mc.flow = f /\ p.fcntl = f /\ ~p.auto

KeepsAddr(p, q)   == AddrForce(p) => AddrForce(q)
KeepsFilter(p, q) == FilterForce(p) => FilterForce(q)
KeepsFlow(p, q)   == \A f \in SUBSET Flow : FlowForce(p, f) => FlowForce(q, f)

(* The settings of the port that one request changes and the others keep.  *)
SameFilter(p, q) == /\ q.uc = p.uc /\ q.mulcst = p.mulcst
                    /\ q.allmc = p.allmc /\ q.list = p.list
SameFlow(p, q)   == q.fcntl = p.fcntl /\ q.auto = p.auto /\ q.adv = p.adv

(* No request starts or stops the port, its statistics or its packets.     *)
Steady(p, q) ==
  /\ q \in Ports /\ q.port = p.port /\ q.drain = p.drain /\ q.rxq = p.rxq
  /\ q.rebooted = p.rebooted /\ q.left <= p.left
  /\ q.mc.periodic = p.mc.periodic
  /\ ~p.drain /\ ~p.mc.drain => ~q.mc.drain

(* A reconfiguration keeps in force what was, and when it succeeds puts    *)
(* everything in force that the family configures with it.                 *)
LEMMA PushKeeps ==
  ASSUME Family, NEW p \in Ports, NEW q, Pushed(p, q)
  PROVE  /\ Steady(p, q) /\ Fewer(p, q) /\ SameFilter(p, q)
         /\ SameFlow(p, q) /\ q.addr = p.addr /\ q.panic = p.panic
         /\ KeepsAddr(p, q) /\ KeepsFilter(p, q) /\ KeepsFlow(p, q)
<1>1. /\ Steady(p, q) /\ Fewer(p, q) /\ SameFilter(p, q)
      /\ SameFlow(p, q) /\ q.addr = p.addr /\ q.panic = p.panic
  BY DEF Pushed, Same, Steady, Fewer, SameFilter, SameFlow
<1>2. KeepsAddr(p, q)
  BY <1>1 DEF Pushed, KeepsAddr, AddrForce
<1>3. KeepsFilter(p, q)
  <2>1. GroupsOf(q) = GroupsOf(p)
    BY <1>1 DEF SameFilter, GroupsOf
  <2> QED
    BY <1>1, <2>1 DEF Pushed, KeepsFilter, FilterForce, SameFilter
<1>4. KeepsFlow(p, q)
  BY <1>1 DEF Pushed, KeepsFlow, FlowForce, SameFlow, FlowOf
<1> QED
  BY <1>1, <1>2, <1>3, <1>4

(* A reconfiguration that succeeds.                                        *)
LEMMA PushDone ==
  ASSUME Family, NEW p \in Ports, NEW q, Pushed(p, q), q.ok
  PROVE  /\ FilterForce(q)
         /\ Filters(q) => q.mc.ucaddr = p.addr
         /\ q.mc.drain = p.drain /\ q.mc.adv = p.mc.adv
         /\ ~cfg.vadaptor => q.mc.addr = p.addr
         /\ ~cfg.ef10 => q.mc.flow = FlowOf(p)
<1>1. /\ q.mc.drain = p.drain /\ q.mc.adv = p.mc.adv
      /\ ~cfg.vadaptor => q.mc.addr = p.addr
      /\ ~cfg.ef10 => q.mc.flow = FlowOf(p)
  BY DEF Pushed
<1>2. GroupsOf(q) = GroupsOf(p) /\ q.uc = p.uc
  BY DEF Pushed, Same, GroupsOf
<1>3. Filters(q) => /\ q.mc.ucaddr = p.addr /\ q.mc.uc = p.uc
                    /\ q.mc.groups = GroupsOf(p)
  BY DEF Pushed
<1> QED
  BY <1>1, <1>2, <1>3 DEF FilterForce

(* Promiscuous mode and the groups.  A request that fails takes the old    *)
(* values back, whatever the controller got, and keeps the other settings. *)
LEMMA FilterSetIs ==
  ASSUME Family, NEW p \in Ports, NEW uc \in BOOLEAN, NEW mulcst \in BOOLEAN,
         NEW allmc \in BOOLEAN, NEW q \in FilterSet(p, uc, mulcst, allmc)
  PROVE  /\ Steady(p, q) /\ SameFlow(p, q) /\ q.addr = p.addr
         /\ q.panic = p.panic /\ KeepsAddr(p, q) /\ KeepsFlow(p, q)
         /\ q.ok => /\ q.uc = uc /\ q.mulcst = mulcst /\ q.allmc = allmc
                    /\ FilterForce(q)
<1> DEFINE new == [p EXCEPT !.uc = uc, !.mulcst = mulcst, !.allmc = allmc]
<1>1. new \in Ports
  BY DEF Ports
<1>2. /\ new.uc = uc /\ new.mulcst = mulcst /\ new.allmc = allmc
      /\ new.port = p.port /\ new.drain = p.drain /\ new.addr = p.addr
      /\ new.rxq = p.rxq /\ new.rebooted = p.rebooted /\ new.left = p.left
      /\ new.panic = p.panic /\ new.mc = p.mc /\ new.lost = p.lost
      /\ SameFlow(p, new)
  BY DEF Ports, SameFlow
<1>3. PICK r \in Reconfigure(new) :
        q = IF r.ok THEN r
            ELSE [r EXCEPT !.uc = p.uc, !.mulcst = p.mulcst,
                           !.allmc = p.allmc]
  BY DEF FilterSet, OnFailure
<1> HIDE DEF new
<1>4. Pushed(new, r)
  BY <1>1, <1>3, ReconfigureIs
<1>5. /\ Steady(new, r) /\ SameFlow(new, r) /\ SameFilter(new, r)
      /\ r.addr = new.addr /\ r.panic = new.panic
      /\ KeepsAddr(new, r) /\ KeepsFlow(new, r)
  BY <1>1, <1>4, PushKeeps
<1>6. r.ok => FilterForce(r)
  BY <1>1, <1>4, PushDone
<1>7. q \in Ports
  BY <1>3, <1>5 DEF Ports, Steady
<1>8. /\ q.port = r.port /\ q.drain = r.drain /\ q.addr = r.addr
      /\ q.rxq = r.rxq /\ q.rebooted = r.rebooted /\ q.left = r.left
      /\ q.panic = r.panic /\ q.mc = r.mc /\ q.lost = r.lost /\ q.ok = r.ok
      /\ SameFlow(r, q) /\ (r.ok => q = r)
  BY <1>3, <1>5, <1>7 DEF Ports, SameFlow, Steady
<1>9. Steady(p, q) /\ SameFlow(p, q) /\ q.addr = p.addr /\ q.panic = p.panic
  BY <1>2, <1>5, <1>7, <1>8 DEF Steady, SameFlow
<1>10. KeepsAddr(p, q)
  BY <1>2, <1>5, <1>8 DEF KeepsAddr, AddrForce, Filters
<1>11. KeepsFlow(p, q)
  BY <1>2, <1>5, <1>8 DEF KeepsFlow, FlowForce, SameFlow
<1>12. q.ok => /\ q.uc = uc /\ q.mulcst = mulcst /\ q.allmc = allmc
               /\ FilterForce(q)
  BY <1>2, <1>5, <1>6, <1>8 DEF SameFilter
<1> QED
  BY <1>9, <1>10, <1>11, <1>12

(* The list of groups, put back in the same way.                           *)
LEMMA MulticastListSetIs ==
  ASSUME Family, NEW p \in Ports, NEW list \in SUBSET Groups,
         NEW q \in MulticastListSet(p, list)
  PROVE  /\ Steady(p, q) /\ SameFlow(p, q) /\ q.addr = p.addr
         /\ q.panic = p.panic /\ KeepsAddr(p, q) /\ KeepsFlow(p, q)
         /\ q.uc = p.uc /\ q.mulcst = p.mulcst /\ q.allmc = p.allmc
         /\ q.ok => q.list = list /\ FilterForce(q)
<1> DEFINE new == [p EXCEPT !.list = list]
<1>1. new \in Ports
  BY DEF Ports
<1>2. /\ new.uc = p.uc /\ new.mulcst = p.mulcst /\ new.allmc = p.allmc
      /\ new.list = list
      /\ new.port = p.port /\ new.drain = p.drain /\ new.addr = p.addr
      /\ new.rxq = p.rxq /\ new.rebooted = p.rebooted /\ new.left = p.left
      /\ new.panic = p.panic /\ new.mc = p.mc /\ new.lost = p.lost
      /\ SameFlow(p, new)
  BY DEF Ports, SameFlow
<1>3. PICK r \in Reconfigure(new) :
        q = IF r.ok THEN r ELSE [r EXCEPT !.list = p.list]
  BY DEF MulticastListSet, OnFailure
<1> HIDE DEF new
<1>4. Pushed(new, r)
  BY <1>1, <1>3, ReconfigureIs
<1>5. /\ Steady(new, r) /\ SameFlow(new, r) /\ SameFilter(new, r)
      /\ r.addr = new.addr /\ r.panic = new.panic
      /\ KeepsAddr(new, r) /\ KeepsFlow(new, r)
  BY <1>1, <1>4, PushKeeps
<1>6. r.ok => FilterForce(r)
  BY <1>1, <1>4, PushDone
<1>7. q \in Ports
  BY <1>3, <1>5 DEF Ports, Steady
<1>8. /\ q.port = r.port /\ q.drain = r.drain /\ q.addr = r.addr
      /\ q.rxq = r.rxq /\ q.rebooted = r.rebooted /\ q.left = r.left
      /\ q.panic = r.panic /\ q.mc = r.mc /\ q.lost = r.lost /\ q.ok = r.ok
      /\ q.uc = r.uc /\ q.mulcst = r.mulcst /\ q.allmc = r.allmc
      /\ SameFlow(r, q) /\ (r.ok => q = r)
  BY <1>3, <1>5, <1>7 DEF Ports, SameFlow, Steady
<1>9. /\ Steady(p, q) /\ SameFlow(p, q) /\ q.addr = p.addr
      /\ q.panic = p.panic /\ q.uc = p.uc /\ q.mulcst = p.mulcst
      /\ q.allmc = p.allmc
  BY <1>2, <1>5, <1>7, <1>8 DEF Steady, SameFlow, SameFilter
<1>10. KeepsAddr(p, q)
  BY <1>2, <1>5, <1>8 DEF KeepsAddr, AddrForce, Filters
<1>11. KeepsFlow(p, q)
  BY <1>2, <1>5, <1>8 DEF KeepsFlow, FlowForce, SameFlow
<1>12. q.ok => q.list = list /\ FilterForce(q)
  BY <1>2, <1>5, <1>6, <1>8 DEF SameFilter
<1> QED
  BY <1>9, <1>10, <1>11, <1>12

(* sfxge_mac_filter_apply: the mode, then the list.                        *)
LEMMA FilterApplyIs ==
  ASSUME Family, NEW p \in Ports, NEW s \in Sms, s.state = "STARTED",
         NEW q \in FilterApply(p, s)
  PROVE  /\ Steady(p, q) /\ SameFlow(p, q) /\ q.addr = p.addr
         /\ q.panic = p.panic /\ KeepsAddr(p, q) /\ KeepsFlow(p, q)
         /\ q.ok => /\ q.uc = s.promisc /\ q.allmc = s.promisc
                    /\ q.mulcst = (s.mcast # {}) /\ q.list = s.mcast
                    /\ FilterForce(q)
<1> DEFINE mulcst == s.mcast # {}
<1>1. s.promisc \in BOOLEAN /\ s.mcast \in SUBSET Groups
  BY DEF Sms
<1>2. PICK r \in FilterSet(p, s.promisc, mulcst, s.promisc) :
        IF r.ok THEN q \in MulticastListSet(r, s.mcast) ELSE q = r
  BY DEF FilterApply, Then
<1>3. mulcst \in BOOLEAN
  OBVIOUS
<1>4. mulcst = (s.mcast # {})
  OBVIOUS
<1> HIDE DEF mulcst
<1>5. /\ Steady(p, r) /\ SameFlow(p, r) /\ r.addr = p.addr
      /\ r.panic = p.panic /\ KeepsAddr(p, r) /\ KeepsFlow(p, r)
      /\ r.ok => /\ r.uc = s.promisc /\ r.mulcst = mulcst
                 /\ r.allmc = s.promisc
  BY <1>1, <1>2, <1>3, FilterSetIs
<1>6. CASE ~r.ok
  BY <1>2, <1>5, <1>6
<1>7. CASE r.ok
  <2>1. r \in Ports /\ q \in MulticastListSet(r, s.mcast)
    BY <1>2, <1>5, <1>7 DEF Steady
  <2>2. /\ Steady(r, q) /\ SameFlow(r, q) /\ q.addr = r.addr
        /\ q.panic = r.panic /\ KeepsAddr(r, q) /\ KeepsFlow(r, q)
        /\ q.uc = r.uc /\ q.mulcst = r.mulcst /\ q.allmc = r.allmc
        /\ q.ok => q.list = s.mcast /\ FilterForce(q)
    BY <1>1, <2>1, MulticastListSetIs
  <2>3. Steady(p, q)
    <3>1. p.left \in Nat /\ q.left \in Nat /\ r.left \in Nat
      BY <2>1, <2>2, PortTypes DEF Steady
    <3> QED
      BY <1>5, <2>2, <3>1 DEF Steady
  <2>4. SameFlow(p, q) /\ q.addr = p.addr /\ q.panic = p.panic
    BY <1>5, <2>2 DEF SameFlow
  <2>5. KeepsAddr(p, q) /\ KeepsFlow(p, q)
    BY <1>5, <2>2 DEF KeepsAddr, KeepsFlow
  <2> QED
    BY <1>4, <1>5, <1>7, <2>2, <2>3, <2>4, <2>5
<1> QED
  BY <1>6, <1>7

(* The address.  A vadaptor refuses it while filters are installed, which  *)
(* is the one failure that no command is to blame for.                     *)
LEMMA AddrSetIs ==
  ASSUME Family, NEW p \in Ports, NEW addr \in Addrs, NEW q \in AddrSet(p, addr)
  PROVE  /\ Steady(p, q) /\ SameFlow(p, q) /\ SameFilter(p, q)
         /\ q.panic = p.panic /\ KeepsFilter(p, q) /\ KeepsFlow(p, q)
         /\ q.addr = IF q.ok THEN addr ELSE p.addr
         /\ q.ok => AddrForce(q)
         /\ ~q.ok /\ ~p.rxq => q.left < p.left
<1> DEFINE new == [p EXCEPT !.addr = addr]
<1>1. new \in Ports
  BY DEF Ports
<1>2. /\ new.addr = addr /\ SameFilter(p, new) /\ SameFlow(p, new)
      /\ new.port = p.port /\ new.drain = p.drain
      /\ new.rxq = p.rxq /\ new.rebooted = p.rebooted /\ new.left = p.left
      /\ new.panic = p.panic /\ new.mc = p.mc /\ new.lost = p.lost
  BY DEF Ports, SameFlow, SameFilter
<1>3. PICK r \in IF cfg.ef10 /\ cfg.vadaptor
                 THEN IF p.rxq THEN {[new EXCEPT !.ok = FALSE]}
                      ELSE Cmd(new, [p.mc EXCEPT !.addr = addr])
                 ELSE Reconfigure(new) :
        q = IF r.ok THEN r ELSE [r EXCEPT !.addr = p.addr]
  BY DEF AddrSet, OnFailure
<1> HIDE DEF new
<1>4. new.left \in Nat /\ new.mc \in Mcs
  BY <1>1, PortTypes
<1>5. /\ Steady(new, r) /\ SameFlow(new, r) /\ SameFilter(new, r)
      /\ r.addr = addr /\ r.panic = new.panic
      /\ KeepsFilter(new, r) /\ KeepsFlow(new, r)
      /\ r.ok => AddrForce(r)
      /\ ~r.ok /\ ~p.rxq => r.left < p.left
  <2>1. CASE ~cfg.vadaptor
    <3>1. Pushed(new, r)
      BY <1>1, <1>3, <2>1, ReconfigureIs
    <3>2. /\ Steady(new, r) /\ SameFlow(new, r) /\ SameFilter(new, r)
          /\ r.addr = new.addr /\ r.panic = new.panic /\ Fewer(new, r)
          /\ KeepsFilter(new, r) /\ KeepsFlow(new, r)
      BY <1>1, <3>1, PushKeeps
    <3>3. r.ok => AddrForce(r)
      BY <1>1, <1>2, <2>1, <3>1, <3>2, PushDone DEF AddrForce
    <3> QED
      BY <1>2, <3>2, <3>3 DEF Fewer
  <2>2. CASE cfg.vadaptor /\ p.rxq
    <3>1. r = [new EXCEPT !.ok = FALSE]
      BY <1>3, <2>2 DEF Family
    <3>2. r \in Ports
      BY <1>1, <3>1 DEF Ports
    <3>3. /\ r.ok = FALSE /\ r.addr = addr /\ SameFilter(new, r)
          /\ SameFlow(new, r) /\ r.port = new.port /\ r.drain = new.drain
          /\ r.rxq = new.rxq /\ r.rebooted = new.rebooted
          /\ r.left = new.left /\ r.panic = new.panic /\ r.mc = new.mc
          /\ r.lost = new.lost
      BY <1>1, <1>2, <3>1, <3>2 DEF Ports, SameFlow, SameFilter
    <3>4. Steady(new, r)
      BY <1>4, <3>2, <3>3 DEF Steady
    <3>5. KeepsFlow(new, r)
      BY <3>3 DEF KeepsFlow, FlowForce, SameFlow
    <3>6. KeepsFilter(new, r)
      BY <3>3 DEF KeepsFilter, FilterForce, SameFilter, GroupsOf, Filters
    <3> QED
      BY <2>2, <3>3, <3>4, <3>5, <3>6
  <2>3. CASE cfg.vadaptor /\ ~p.rxq
    <3> DEFINE m == [p.mc EXCEPT !.addr = addr]
    <3>1. r \in Cmd(new, m)
      BY <1>3, <2>3 DEF Family
    <3>2. /\ m \in Mcs /\ m.addr = addr /\ m.drain = p.mc.drain
          /\ m.uc = p.mc.uc /\ m.groups = p.mc.groups /\ m.flow = p.mc.flow
          /\ m.adv = p.mc.adv /\ m.periodic = p.mc.periodic
      BY <1>2, <1>4 DEF Mcs
    <3> HIDE DEF m
    <3>3. /\ r \in Ports /\ Same(new, r) /\ Fewer(new, r)
          /\ r.mc = IF r.ok THEN m ELSE new.mc
      BY <1>1, <3>1, <3>2, CmdIs
    <3>4. Steady(new, r)
      BY <1>2, <3>2, <3>3 DEF Steady, Same, Fewer
    <3>5. SameFlow(new, r) /\ SameFilter(new, r) /\ r.panic = new.panic
      BY <3>3 DEF SameFlow, SameFilter, Same
    <3>6. KeepsFlow(new, r)
      BY <1>2, <3>2, <3>3, <3>5 DEF KeepsFlow, FlowForce, SameFlow
    <3>7. ~Filters(r) /\ r.addr = addr
      BY <1>2, <2>3, <3>3 DEF Filters, Same, Family
    <3> QED
      BY <1>2, <3>2, <3>3, <3>4, <3>5, <3>6, <3>7
         DEF KeepsFilter, FilterForce, AddrForce, Fewer
  <2> QED
    BY <2>1, <2>2, <2>3
<1>6. q \in Ports
  BY <1>3, <1>5 DEF Ports, Steady
<1>7. /\ q.port = r.port /\ q.drain = r.drain
      /\ q.rxq = r.rxq /\ q.rebooted = r.rebooted /\ q.left = r.left
      /\ q.panic = r.panic /\ q.mc = r.mc /\ q.lost = r.lost /\ q.ok = r.ok
      /\ SameFlow(r, q) /\ SameFilter(r, q) /\ (r.ok => q = r)
      /\ (~r.ok => q.addr = p.addr)
  BY <1>3, <1>5, <1>6 DEF Ports, SameFlow, SameFilter, Steady
<1>8. /\ Steady(p, q) /\ SameFlow(p, q) /\ SameFilter(p, q)
      /\ q.panic = p.panic
  BY <1>2, <1>5, <1>6, <1>7 DEF Steady, SameFlow, SameFilter
<1>9. KeepsFilter(p, q)
  BY <1>2, <1>5, <1>7
     DEF KeepsFilter, FilterForce, SameFilter, GroupsOf, Filters
<1>10. KeepsFlow(p, q)
  BY <1>2, <1>5, <1>7 DEF KeepsFlow, FlowForce, SameFlow
<1> QED
  BY <1>5, <1>7, <1>8, <1>9, <1>10

(* The PHY: SET_LINK pushes the capabilities and nothing else.             *)
LEMMA PhyReconfigureIs ==
  ASSUME NEW p \in Ports, NEW q \in PhyReconfigure(p)
  PROVE  /\ q \in Ports /\ Same(p, q) /\ Fewer(p, q) /\ q.lost = p.lost
         /\ q.mc.drain = p.mc.drain /\ q.mc.addr = p.mc.addr
         /\ q.mc.ucaddr = p.mc.ucaddr /\ q.mc.uc = p.mc.uc
         /\ q.mc.groups = p.mc.groups /\ q.mc.flow = p.mc.flow
         /\ q.mc.periodic = p.mc.periodic
         /\ q.mc.adv \in {p.mc.adv, p.adv}
         /\ q.ok => q.mc.adv = p.adv
<1> DEFINE m == [p.mc EXCEPT !.adv = p.adv]
<1>1. PICK r \in Cmd(p, m) : IF r.ok THEN q \in Cmd(r, r.mc) ELSE q = r
  BY DEF PhyReconfigure, Then
<1>2. p.mc \in Mcs /\ p.adv \in Advs /\ p.left \in Nat
  BY PortTypes
<1>3. /\ m \in Mcs /\ m.drain = p.mc.drain /\ m.addr = p.mc.addr
      /\ m.ucaddr = p.mc.ucaddr /\ m.uc = p.mc.uc /\ m.groups = p.mc.groups
      /\ m.flow = p.mc.flow /\ m.periodic = p.mc.periodic /\ m.adv = p.adv
  BY <1>2 DEF Mcs
<1> HIDE DEF m
<1>4. /\ r \in Ports /\ Same(p, r) /\ Fewer(p, r) /\ r.lost = p.lost
      /\ r.mc = IF r.ok THEN m ELSE p.mc
  BY <1>1, <1>3, CmdIs
<1>5. CASE ~r.ok
  BY <1>1, <1>4, <1>5
<1>6. CASE r.ok
  <2>1. r.mc \in Mcs /\ r.left \in Nat
    BY <1>4, PortTypes
  <2>2. /\ q \in Ports /\ Same(r, q) /\ Fewer(r, q) /\ q.lost = r.lost
        /\ q.mc = r.mc
    BY <1>1, <1>4, <1>6, <2>1, CmdIs
  <2>3. q.left \in Nat
    BY <2>2, PortTypes
  <2>4. Same(p, q) /\ Fewer(p, q)
    BY <1>2, <1>4, <2>1, <2>2, <2>3 DEF Same, Fewer
  <2> QED
    BY <1>3, <1>4, <1>6, <2>2, <2>4
<1> QED
  BY <1>5, <1>6

(* Flow control survives the trip through the capability mask, whatever    *)
(* else the mask holds.                                                    *)
LEMMA DecodeAdvOf ==
  ASSUME NEW adv, NEW f \in SUBSET Flow
  PROVE  Decode((adv \ Pause) \cup AdvOf(f)) = f
<1>1. f \in {{}, {"RESPOND"}, {"GENERATE"}, {"RESPOND", "GENERATE"}}
  BY DEF Flow
<1>2. CASE f = {}
  BY <1>2 DEF Decode, AdvOf, Pause
<1>3. CASE f = {"RESPOND"}
  BY <1>3 DEF Decode, AdvOf, Pause, Flow
<1>4. CASE f = {"GENERATE"}
  BY <1>4 DEF Decode, AdvOf, Pause, Flow
<1>5. CASE f = {"RESPOND", "GENERATE"}
  BY <1>5 DEF Decode, AdvOf, Pause, Flow
<1> QED
  BY <1>1, <1>2, <1>3, <1>4, <1>5

(* Flow control is advertised by the pause bits.                           *)
LEMMA AdvOfType == \A f \in SUBSET Flow : AdvOf(f) \in SUBSET Pause
BY DEF AdvOf, Pause

(* Flow control: the PHY advertises it, then the MAC is told.              *)
LEMMA FcntlSetIs ==
  ASSUME Family, NEW p \in Ports, NEW f \in SUBSET Flow,
         NEW q \in FcntlSet(p, f)
  PROVE  /\ Steady(p, q) /\ SameFilter(p, q) /\ q.addr = p.addr
         /\ q.panic = p.panic /\ Fewer(p, q)
         /\ KeepsAddr(p, q) /\ KeepsFilter(p, q)
         /\ q.ok => FlowForce(q, f)
<1> DEFINE adv == (p.adv \ Pause) \cup AdvOf(f)
           new == [p EXCEPT !.fcntl = f, !.auto = cfg.an, !.adv = adv]
<1>1. adv \in Advs /\ Decode(adv) = f
  BY DecodeAdvOf, AdvOfType, PortTypes DEF Advs
<1>2. new = [p EXCEPT !.fcntl = f, !.auto = cfg.an,
                      !.adv = (@ \ Pause) \cup AdvOf(f)]
  BY DEF Ports
<1>3. PICK r \in Then(PhyReconfigure(new), Reconfigure) :
        q = IF r.ok THEN r ELSE [r EXCEPT !.fcntl = p.fcntl, !.auto = p.auto,
                                          !.adv = p.adv]
  BY <1>2 DEF FcntlSet, OnFailure
<1> HIDE DEF adv
<1>4. new \in Ports
  BY <1>1 DEF Ports, Family, Cfgs
<1>5. /\ new.fcntl = f /\ new.auto = cfg.an /\ new.adv = adv
      /\ new.addr = p.addr /\ SameFilter(p, new)
      /\ new.port = p.port /\ new.drain = p.drain
      /\ new.rxq = p.rxq /\ new.rebooted = p.rebooted /\ new.left = p.left
      /\ new.panic = p.panic /\ new.mc = p.mc /\ new.lost = p.lost
  BY DEF Ports, SameFilter
<1> HIDE DEF new
<1>6. PICK a \in PhyReconfigure(new) :
        IF a.ok THEN r \in Reconfigure(a) ELSE r = a
  BY <1>3 DEF Then
<1>7. /\ a \in Ports /\ Same(new, a) /\ Fewer(new, a) /\ a.lost = new.lost
      /\ a.mc.drain = new.mc.drain /\ a.mc.addr = new.mc.addr
      /\ a.mc.ucaddr = new.mc.ucaddr /\ a.mc.uc = new.mc.uc
      /\ a.mc.groups = new.mc.groups /\ a.mc.flow = new.mc.flow
      /\ a.mc.periodic = new.mc.periodic
      /\ a.ok => a.mc.adv = new.adv
  BY <1>4, <1>6, PhyReconfigureIs
<1>8. p.left \in Nat /\ new.left \in Nat /\ a.left \in Nat
  BY <1>4, <1>7, PortTypes
<1>9. /\ Steady(new, a) /\ SameFilter(new, a) /\ a.addr = new.addr
      /\ a.panic = new.panic
  BY <1>7 DEF Same, Steady, SameFilter, Fewer
<1>10. KeepsAddr(new, a)
  BY <1>7 DEF KeepsAddr, AddrForce, Filters, Same
<1>11. KeepsFilter(new, a)
  BY <1>7 DEF KeepsFilter, FilterForce, Filters, Same, GroupsOf
<1>12. /\ Steady(new, r) /\ SameFilter(new, r) /\ r.addr = new.addr
       /\ r.panic = new.panic /\ Fewer(new, r)
       /\ KeepsAddr(new, r) /\ KeepsFilter(new, r)
       /\ r.ok => FlowForce(r, f)
  <2>1. CASE ~a.ok
    BY <1>6, <1>7, <1>9, <1>10, <1>11, <2>1
  <2>2. CASE a.ok
    <3>1. Pushed(a, r)
      BY <1>6, <1>7, <2>2, ReconfigureIs
    <3>2. /\ Steady(a, r) /\ Fewer(a, r) /\ SameFilter(a, r)
          /\ SameFlow(a, r) /\ r.addr = a.addr /\ r.panic = a.panic
          /\ KeepsAddr(a, r) /\ KeepsFilter(a, r)
      BY <1>7, <3>1, PushKeeps
    <3>3. r.left \in Nat
      BY <3>2, PortTypes DEF Steady
    <3>4. Steady(new, r) /\ Fewer(new, r)
      BY <1>7, <1>8, <1>9, <3>2, <3>3 DEF Steady, Fewer
    <3>5. /\ SameFilter(new, r) /\ r.addr = new.addr /\ r.panic = new.panic
          /\ KeepsAddr(new, r) /\ KeepsFilter(new, r)
      BY <1>9, <1>10, <1>11, <3>2 DEF SameFilter, KeepsAddr, KeepsFilter
    <3>6. ASSUME r.ok
          PROVE  FlowForce(r, f)
      <4>1. r.mc.adv = a.mc.adv /\ (~cfg.ef10 => r.mc.flow = FlowOf(a))
        BY <1>7, <3>1, <3>6, PushDone
      <4>2. a.adv = adv /\ a.fcntl = f /\ a.auto = cfg.an
        BY <1>5, <1>7 DEF Same
      <4>3. r.mc.adv = adv /\ r.adv = adv /\ r.fcntl = f /\ r.auto = cfg.an
        BY <1>5, <1>7, <2>2, <3>2, <4>1, <4>2 DEF SameFlow
      <4>4. ~cfg.an => r.mc.flow = f
        BY <4>1, <4>2 DEF Family, FlowOf
      <4> QED
        BY <1>1, <4>3, <4>4 DEF FlowForce
    <3> QED
      BY <3>4, <3>5, <3>6
  <2> QED
    BY <2>1, <2>2
<1>13. q \in Ports
  BY <1>3, <1>12 DEF Ports, Steady
<1>14. /\ q.port = r.port /\ q.drain = r.drain /\ q.addr = r.addr
       /\ q.rxq = r.rxq /\ q.rebooted = r.rebooted /\ q.left = r.left
       /\ q.panic = r.panic /\ q.mc = r.mc /\ q.lost = r.lost /\ q.ok = r.ok
       /\ SameFilter(r, q) /\ (r.ok => q = r)
  BY <1>3, <1>12, <1>13 DEF Ports, SameFilter, Steady
<1>15. /\ Steady(p, q) /\ SameFilter(p, q) /\ q.addr = p.addr
       /\ q.panic = p.panic /\ Fewer(p, q)
  BY <1>5, <1>12, <1>13, <1>14 DEF Steady, SameFilter, Fewer
<1>16. KeepsAddr(p, q)
  BY <1>5, <1>12, <1>14 DEF KeepsAddr, AddrForce, Filters
<1>17. KeepsFilter(p, q)
  BY <1>5, <1>12, <1>14
     DEF KeepsFilter, FilterForce, SameFilter, GroupsOf, Filters
<1> QED
  BY <1>12, <1>14, <1>15, <1>16, <1>17

(* The capabilities: only what the PHY advertises changes, and after a     *)
(* failure it is the new mask or, again, the old one.                      *)
LEMMA AdvCapSetIs ==
  ASSUME NEW p \in Ports, NEW mask \in Advs, NEW q \in AdvCapSet(p, mask)
  PROVE  /\ Steady(p, q) /\ SameFilter(p, q) /\ q.addr = p.addr
         /\ Fewer(p, q) /\ KeepsAddr(p, q) /\ KeepsFilter(p, q)
         /\ q.ok => q.panic = p.panic
         /\ Decode(mask) = Decode(p.adv) => KeepsFlow(p, q)
<1>1. p.left \in Nat /\ p.mc \in Mcs
  BY PortTypes
<1>2. CASE p.adv = mask
  <2>1. q = [p EXCEPT !.ok = TRUE]
    BY <1>2 DEF AdvCapSet
  <2>2. q \in Ports
    BY <2>1 DEF Ports
  <2>3. q.lost = p.lost /\ q.ok = TRUE /\ q.left = p.left /\ q.mc = p.mc
        /\ Same(p, q)
    BY <2>1, <2>2 DEF Ports, Same
  <2> QED
    BY <1>1, <2>2, <2>3
       DEF Same, Steady, SameFilter, Fewer, KeepsAddr, KeepsFilter,
           KeepsFlow, AddrForce, FilterForce, FlowForce, Filters, GroupsOf
<1>3. CASE p.adv # mask
  <2> DEFINE new == [p EXCEPT !.adv = mask]
  <2>1. PICK a \in PhyReconfigure(new) :
          IF a.ok THEN q = a
          ELSE \E r \in PhyReconfigure([a EXCEPT !.adv = p.adv]) :
                 q = [r EXCEPT !.ok = FALSE,
                               !.panic = IF r.ok THEN @ ELSE "caps"]
    BY <1>3 DEF AdvCapSet
  <2>2. new \in Ports
    BY DEF Ports
  <2>3. /\ new.adv = mask /\ new.fcntl = p.fcntl /\ new.auto = p.auto
        /\ new.addr = p.addr /\ SameFilter(p, new)
        /\ new.port = p.port /\ new.drain = p.drain
        /\ new.rxq = p.rxq /\ new.rebooted = p.rebooted
        /\ new.left = p.left /\ new.panic = p.panic /\ new.mc = p.mc
        /\ new.lost = p.lost
    BY DEF Ports, SameFilter
  <2> HIDE DEF new
  <2>4. /\ a \in Ports /\ Same(new, a) /\ Fewer(new, a) /\ a.lost = new.lost
        /\ a.mc.drain = new.mc.drain /\ a.mc.addr = new.mc.addr
        /\ a.mc.ucaddr = new.mc.ucaddr /\ a.mc.uc = new.mc.uc
        /\ a.mc.groups = new.mc.groups /\ a.mc.flow = new.mc.flow
        /\ a.mc.periodic = new.mc.periodic
        /\ a.mc.adv \in {new.mc.adv, new.adv}
    BY <2>1, <2>2, PhyReconfigureIs
  <2>5. a.left \in Nat
    BY <2>4, PortTypes
  <2>6. CASE a.ok
    <3>1. q = a
      BY <2>1, <2>6
    <3>2. Steady(p, q) /\ SameFilter(p, q) /\ Fewer(p, q)
      BY <1>1, <2>3, <2>4, <3>1 DEF Steady, SameFilter, Same, Fewer
    <3>3. KeepsAddr(p, q) /\ q.addr = p.addr /\ q.panic = p.panic
      BY <2>3, <2>4, <3>1 DEF KeepsAddr, AddrForce, Filters, Same
    <3>4. KeepsFilter(p, q)
      BY <2>3, <2>4, <3>1, <3>2
         DEF KeepsFilter, FilterForce, Filters, Same, SameFilter, GroupsOf
    <3>5. Decode(mask) = Decode(p.adv) => KeepsFlow(p, q)
      BY <2>3, <2>4, <3>1 DEF KeepsFlow, FlowForce, Same
    <3> QED
      BY <3>2, <3>3, <3>4, <3>5
  <2>7. CASE ~a.ok
    <3> DEFINE old == [a EXCEPT !.adv = p.adv]
    <3>1. PICK r \in PhyReconfigure(old) :
            q = [r EXCEPT !.ok = FALSE,
                          !.panic = IF r.ok THEN @ ELSE "caps"]
      BY <2>1, <2>7
    <3>2. old \in Ports
      BY <2>4 DEF Ports
    <3>3. /\ old.adv = p.adv /\ old.fcntl = a.fcntl /\ old.auto = a.auto
          /\ old.addr = a.addr /\ SameFilter(a, old)
          /\ old.port = a.port /\ old.drain = a.drain
          /\ old.rxq = a.rxq /\ old.rebooted = a.rebooted
          /\ old.left = a.left /\ old.panic = a.panic /\ old.mc = a.mc
          /\ old.lost = a.lost
      BY <2>4, <3>2 DEF Ports, SameFilter
    <3> HIDE DEF old
    <3>4. /\ r \in Ports /\ Same(old, r) /\ Fewer(old, r)
          /\ r.lost = old.lost
          /\ r.mc.drain = old.mc.drain /\ r.mc.addr = old.mc.addr
          /\ r.mc.ucaddr = old.mc.ucaddr /\ r.mc.uc = old.mc.uc
          /\ r.mc.groups = old.mc.groups /\ r.mc.flow = old.mc.flow
          /\ r.mc.periodic = old.mc.periodic
          /\ r.mc.adv \in {old.mc.adv, old.adv}
      BY <3>1, <3>2, PhyReconfigureIs
    <3>5. r.left \in Nat
      BY <3>4, PortTypes
    <3>6. q \in Ports
      BY <3>1, <3>4 DEF Ports
    <3>7. /\ q.port = r.port /\ q.drain = r.drain /\ q.addr = r.addr
          /\ q.rxq = r.rxq /\ q.rebooted = r.rebooted /\ q.left = r.left
          /\ q.mc = r.mc /\ q.lost = r.lost /\ q.ok = FALSE
          /\ SameFilter(r, q) /\ SameFlow(r, q)
      BY <3>1, <3>4, <3>6 DEF Ports, SameFilter, SameFlow
    <3>8. Fewer(p, q)
      BY <1>1, <2>3, <2>4, <2>5, <2>7, <3>3, <3>4, <3>5, <3>7 DEF Fewer
    <3>9. SameFilter(p, q) /\ q.addr = p.addr /\ q.adv = p.adv
          /\ q.fcntl = p.fcntl /\ q.auto = p.auto /\ q.rxq = p.rxq
      BY <2>3, <2>4, <3>3, <3>4, <3>7 DEF SameFilter, SameFlow, Same
    <3>10. /\ q.mc.drain = p.mc.drain /\ q.mc.addr = p.mc.addr
           /\ q.mc.ucaddr = p.mc.ucaddr /\ q.mc.uc = p.mc.uc
           /\ q.mc.groups = p.mc.groups /\ q.mc.flow = p.mc.flow
           /\ q.mc.periodic = p.mc.periodic /\ q.lost = p.lost
           /\ q.mc.adv \in {p.mc.adv, mask, p.adv}
      BY <2>3, <2>4, <3>3, <3>4, <3>7
    <3>11. Steady(p, q)
      BY <2>3, <2>4, <3>3, <3>4, <3>6, <3>7, <3>8, <3>10
         DEF Steady, Same, Fewer
    <3>12. KeepsAddr(p, q)
      BY <3>9, <3>10 DEF KeepsAddr, AddrForce, Filters
    <3>13. KeepsFilter(p, q)
      BY <3>9, <3>10
         DEF KeepsFilter, FilterForce, Filters, SameFilter, GroupsOf
    <3>14. Decode(mask) = Decode(p.adv) => KeepsFlow(p, q)
      BY <3>9, <3>10 DEF KeepsFlow, FlowForce
    <3> QED
      BY <3>7, <3>8, <3>9, <3>11, <3>12, <3>13, <3>14
  <2> QED
    BY <2>6, <2>7
<1> QED
  BY <1>2, <1>3

(* The MTU: an EF10 may set it alone.                                      *)
LEMMA PduSetIs ==
  ASSUME Family, NEW p \in Ports, NEW q \in PduSet(p)
  PROVE  /\ Steady(p, q) /\ Fewer(p, q) /\ SameFilter(p, q)
         /\ SameFlow(p, q) /\ q.addr = p.addr /\ q.panic = p.panic
         /\ KeepsAddr(p, q) /\ KeepsFilter(p, q) /\ KeepsFlow(p, q)
         /\ q.ok /\ ~p.rxq => FilterForce(q)
<1>1. CASE q \in Reconfigure(p)
  <2>1. Pushed(p, q)
    BY <1>1, ReconfigureIs
  <2> QED
    BY <2>1, PushKeeps, PushDone
<1>2. CASE cfg.ef10 /\ q \in Cmd(p, p.mc)
  <2>1. p.mc \in Mcs
    BY PortTypes
  <2>2. /\ q \in Ports /\ Same(p, q) /\ Fewer(p, q) /\ q.lost = p.lost
        /\ q.mc = p.mc
    BY <1>2, <2>1, CmdIs
  <2>3. /\ Steady(p, q) /\ Fewer(p, q) /\ SameFilter(p, q)
        /\ SameFlow(p, q) /\ q.addr = p.addr /\ q.panic = p.panic
    BY <2>2 DEF Same, Steady, SameFilter, SameFlow, Fewer
  <2>4. KeepsAddr(p, q) /\ KeepsFlow(p, q)
    BY <2>2 DEF KeepsAddr, KeepsFlow, AddrForce, FlowForce, Filters, Same
  <2>5. KeepsFilter(p, q)
    BY <2>2 DEF KeepsFilter, FilterForce, Filters, Same, GroupsOf
  <2>6. ~p.rxq => FilterForce(q)
    BY <1>2, <2>2 DEF FilterForce, Filters, Same
  <2> QED
    BY <2>3, <2>4, <2>5, <2>6
<1> QED
  BY <1>1, <1>2 DEF PduSet

(* The periodic statistics.                                                *)
LEMMA StatsPeriodicIs ==
  ASSUME NEW p \in Ports, NEW on \in BOOLEAN, NEW q \in StatsPeriodic(p, on)
  PROVE  /\ q \in Ports /\ Same(p, q) /\ Fewer(p, q) /\ q.lost = p.lost
         /\ q.mc.drain = p.mc.drain /\ q.mc.addr = p.mc.addr
         /\ q.mc.ucaddr = p.mc.ucaddr /\ q.mc.uc = p.mc.uc
         /\ q.mc.groups = p.mc.groups /\ q.mc.flow = p.mc.flow
         /\ q.mc.adv = p.mc.adv
         /\ q.mc.periodic = IF q.ok THEN on ELSE p.mc.periodic
         /\ KeepsAddr(p, q) /\ KeepsFilter(p, q) /\ KeepsFlow(p, q)
<1> DEFINE m == [p.mc EXCEPT !.periodic = on]
<1>1. p.mc \in Mcs
  BY PortTypes
<1>2. /\ m \in Mcs /\ m.drain = p.mc.drain /\ m.addr = p.mc.addr
      /\ m.ucaddr = p.mc.ucaddr /\ m.uc = p.mc.uc /\ m.groups = p.mc.groups
      /\ m.flow = p.mc.flow /\ m.periodic = on /\ m.adv = p.mc.adv
  BY <1>1 DEF Mcs
<1>3. q \in Cmd(p, m)
  BY DEF StatsPeriodic
<1> HIDE DEF m
<1>4. /\ q \in Ports /\ Same(p, q) /\ Fewer(p, q) /\ q.lost = p.lost
      /\ q.mc = IF q.ok THEN m ELSE p.mc
  BY <1>2, <1>3, CmdIs
<1>5. /\ q.mc.drain = p.mc.drain /\ q.mc.addr = p.mc.addr
      /\ q.mc.ucaddr = p.mc.ucaddr /\ q.mc.uc = p.mc.uc
      /\ q.mc.groups = p.mc.groups /\ q.mc.flow = p.mc.flow
      /\ q.mc.adv = p.mc.adv
      /\ q.mc.periodic = IF q.ok THEN on ELSE p.mc.periodic
  BY <1>2, <1>4
<1>6. KeepsAddr(p, q) /\ KeepsFlow(p, q)
  BY <1>4, <1>5 DEF KeepsAddr, KeepsFlow, AddrForce, FlowForce, Filters, Same
<1>7. KeepsFilter(p, q)
  BY <1>4, <1>5 DEF KeepsFilter, FilterForce, Filters, Same, GroupsOf
<1> QED
  BY <1>4, <1>5, <1>6, <1>7

(* The drain: packets are let in or kept out.                              *)
LEMMA DrainIs ==
  ASSUME Family, NEW p \in Ports, NEW on \in BOOLEAN, NEW q \in Drain(p, on)
  PROVE  /\ q \in Ports /\ q.drain = on /\ Fewer(p, q)
         /\ q.port = p.port /\ q.rxq = p.rxq /\ q.rebooted = p.rebooted
         /\ q.panic = p.panic /\ q.addr = p.addr
         /\ SameFilter(p, q) /\ SameFlow(p, q)
         /\ q.mc.periodic = p.mc.periodic
         /\ KeepsAddr(p, q) /\ KeepsFilter(p, q) /\ KeepsFlow(p, q)
         /\ q.ok /\ p.drain # on => q.mc.drain = on
<1>1. CASE p.drain = on
  <2>1. q = [p EXCEPT !.ok = TRUE]
    BY <1>1 DEF Drain
  <2>2. q \in Ports
    BY <2>1 DEF Ports
  <2>3. /\ q.lost = p.lost /\ q.ok = TRUE /\ q.left = p.left /\ q.mc = p.mc
        /\ Same(p, q)
    BY <2>1, <2>2 DEF Ports, Same
  <2>4. Fewer(p, q)
    BY <2>3, PortTypes DEF Fewer
  <2> QED
    BY <1>1, <2>2, <2>3, <2>4
       DEF Same, SameFilter, SameFlow, KeepsAddr, KeepsFilter, KeepsFlow,
           AddrForce, FilterForce, FlowForce, Filters, GroupsOf
<1>2. CASE p.drain # on
  <2> DEFINE new == [p EXCEPT !.drain = on]
  <2>1. new \in Ports
    BY DEF Ports
  <2>2. /\ new.drain = on /\ new.port = p.port /\ new.addr = p.addr
        /\ new.rxq = p.rxq /\ new.rebooted = p.rebooted
        /\ new.left = p.left /\ new.panic = p.panic /\ new.mc = p.mc
        /\ new.lost = p.lost /\ SameFlow(p, new) /\ SameFilter(p, new)
    BY DEF Ports, SameFlow, SameFilter
  <2>3. q \in Reconfigure(new)
    BY <1>2 DEF Drain
  <2> HIDE DEF new
  <2>4. Pushed(new, q)
    BY <2>1, <2>3, ReconfigureIs
  <2>5. /\ Steady(new, q) /\ Fewer(new, q) /\ SameFilter(new, q)
        /\ SameFlow(new, q) /\ q.addr = new.addr /\ q.panic = new.panic
        /\ KeepsAddr(new, q) /\ KeepsFilter(new, q) /\ KeepsFlow(new, q)
    BY <2>1, <2>4, PushKeeps
  <2>6. q.ok => q.mc.drain = on
    BY <2>2, <2>4 DEF Pushed
  <2>7. /\ q \in Ports /\ q.drain = on /\ Fewer(p, q)
        /\ q.port = p.port /\ q.rxq = p.rxq /\ q.rebooted = p.rebooted
        /\ q.panic = p.panic /\ q.addr = p.addr
        /\ SameFilter(p, q) /\ SameFlow(p, q)
        /\ q.mc.periodic = p.mc.periodic
    BY <2>2, <2>5 DEF Steady, SameFilter, SameFlow, Fewer
  <2>8. KeepsAddr(p, q) /\ KeepsFlow(p, q)
    BY <2>2, <2>5
       DEF KeepsAddr, KeepsFlow, AddrForce, FlowForce, Filters, SameFlow
  <2>9. KeepsFilter(p, q)
    BY <2>2, <2>5 DEF KeepsFilter, FilterForce, Filters, GroupsOf, SameFilter
  <2> QED
    BY <2>6, <2>7, <2>8, <2>9
<1> QED
  BY <1>1, <1>2

(* The poll: the port learns what the controller has.                      *)
LEMMA LinkFlowType == \A p \in Ports : LinkFlow(p) \in SUBSET Flow
<1> SUFFICES ASSUME NEW p \in Ports
             PROVE  LinkFlow(p) \in SUBSET Flow
  OBVIOUS
<1>1. p.mc.flow \in Flows
  BY PortTypes DEF Mcs
<1>2. Decode(p.mc.adv) \in SUBSET Flow
  BY DEF Decode, Flow
<1> QED
  BY <1>1, <1>2 DEF LinkFlow, Flows

(* A poll keeps in force what was, though it overwrites what the port      *)
(* holds.                                                                  *)
LEMMA PortPollIs ==
  ASSUME NEW p \in Ports, NEW q \in PortPoll(p)
  PROVE  /\ Steady(p, q) /\ Fewer(p, q) /\ SameFilter(p, q)
         /\ q.addr = p.addr /\ q.panic = p.panic
         /\ KeepsAddr(p, q) /\ KeepsFilter(p, q) /\ KeepsFlow(p, q)
<1>1. PICK r \in Cmd(p, p.mc) :
        q = IF r.ok THEN [r EXCEPT !.adv = r.mc.adv, !.fcntl = LinkFlow(r)]
            ELSE r
  BY DEF PortPoll, Then
<1>2. p.mc \in Mcs
  BY PortTypes
<1>3. /\ r \in Ports /\ Same(p, r) /\ Fewer(p, r) /\ r.lost = p.lost
      /\ r.mc = p.mc
  BY <1>1, <1>2, CmdIs
<1>4. r.mc.adv \in Advs /\ LinkFlow(r) \in SUBSET Flow
  BY <1>2, <1>3, LinkFlowType DEF Mcs
<1>5. q \in Ports
  BY <1>1, <1>3, <1>4 DEF Ports
<1>6. /\ q.port = r.port /\ q.drain = r.drain /\ q.addr = r.addr
      /\ q.rxq = r.rxq /\ q.rebooted = r.rebooted /\ q.left = r.left
      /\ q.panic = r.panic /\ q.mc = r.mc /\ q.lost = r.lost /\ q.ok = r.ok
      /\ SameFilter(r, q) /\ q.auto = r.auto
      /\ \/ q.adv = r.mc.adv /\ q.fcntl = LinkFlow(r)
         \/ q.adv = r.adv /\ q.fcntl = r.fcntl
  BY <1>1, <1>3, <1>5 DEF Ports, SameFilter
<1>7. /\ Steady(p, q) /\ Fewer(p, q) /\ SameFilter(p, q)
      /\ q.addr = p.addr /\ q.panic = p.panic
  BY <1>3, <1>5, <1>6 DEF Same, Steady, Fewer, SameFilter
<1>8. KeepsAddr(p, q)
  BY <1>3, <1>6 DEF KeepsAddr, AddrForce, Filters, Same
<1>9. KeepsFilter(p, q)
  BY <1>3, <1>6, <1>7
     DEF KeepsFilter, FilterForce, Filters, Same, SameFilter, GroupsOf
<1>10. KeepsFlow(p, q)
  <2> SUFFICES ASSUME NEW f \in SUBSET Flow, FlowForce(p, f)
               PROVE  FlowForce(q, f)
    BY DEF KeepsFlow
  <2>1. f # AutoFlow
    BY DEF Flow, AutoFlow
  <2>2. ~cfg.an => LinkFlow(r) = f
    BY <1>3, <2>1 DEF LinkFlow, FlowForce
  <2> QED
    BY <1>3, <1>6, <2>2 DEF FlowForce, Same
<1> QED
  BY <1>7, <1>8, <1>9, <1>10

-----------------------------------------------------------------------------
(* The start of the MAC.                                                   *)

(* What a started port keeps of the port it was, whatever failed.          *)
Chain(p, q) ==
  /\ q \in Ports /\ q.port = p.port /\ q.drain = p.drain /\ q.rxq = p.rxq
  /\ q.rebooted = p.rebooted /\ q.left <= p.left

(* The calls of a start follow each other.                                 *)
LEMMA ChainTrans ==
  ASSUME NEW p \in Ports, NEW q, NEW r, Chain(p, q), Chain(q, r)
  PROVE  Chain(p, r)
<1>1. p.left \in Nat /\ q.left \in Nat /\ r.left \in Nat
  BY PortTypes DEF Chain
<1> QED
  BY <1>1 DEF Chain

(* efx_port_init: the port drains from here on, and a failure leaves none. *)
LEMMA PortInitIs ==
  ASSUME Family, NEW p \in Ports, NEW q \in PortInit(p)
  PROVE  /\ q \in Ports /\ q.port = q.ok /\ q.drain /\ q.rxq = p.rxq
         /\ q.rebooted = p.rebooted /\ q.panic = p.panic /\ q.addr = p.addr
         /\ SameFilter(p, q) /\ Fewer(p, q)
<1> DEFINE new == [p EXCEPT !.port = TRUE, !.drain = TRUE]
           on == Quietly(Reconfigure(new))
           polled == Quietly(UNION {PortPoll(x) : x \in on})
           Begun(x) == /\ Chain(new, x) /\ x.panic = new.panic
                       /\ x.addr = new.addr /\ SameFilter(new, x)
<1>1. new \in Ports
  BY DEF Ports
<1>2. /\ new.port /\ new.drain /\ new.rxq = p.rxq
      /\ new.rebooted = p.rebooted /\ new.panic = p.panic
      /\ new.addr = p.addr /\ new.left = p.left /\ SameFilter(p, new)
  BY DEF Ports, SameFilter
<1>3. PICK r \in Then(UNION {Cmd(x, x.mc) : x \in polled}, PhyReconfigure) :
        q = IF r.ok THEN r ELSE [r EXCEPT !.port = FALSE]
  BY DEF PortInit, OnFailure
<1> HIDE DEF new
<1>4. new.left \in Nat
  BY <1>1, PortTypes
<1>5. \A x \in on : Begun(x)
  <2> SUFFICES ASSUME NEW v \in Reconfigure(new),
                      NEW x, x = [v EXCEPT !.ok = TRUE]
               PROVE  Begun(x)
    BY DEF Quietly
  <2>1. Pushed(new, v)
    BY <1>1, ReconfigureIs
  <2>2. /\ Steady(new, v) /\ SameFilter(new, v)
        /\ v.addr = new.addr /\ v.panic = new.panic
    BY <1>1, <2>1, PushKeeps
  <2>3. x \in Ports
    BY <2>2 DEF Ports, Steady
  <2>4. /\ x.port = v.port /\ x.drain = v.drain /\ x.rxq = v.rxq
        /\ x.rebooted = v.rebooted /\ x.left = v.left /\ x.panic = v.panic
        /\ x.addr = v.addr /\ SameFilter(v, x)
    BY <2>2, <2>3 DEF Ports, SameFilter, Steady
  <2> QED
    BY <2>2, <2>3, <2>4 DEF Steady, Chain, SameFilter
<1> HIDE DEF on
<1>6. \A x \in polled : Begun(x)
  <2> SUFFICES ASSUME NEW z \in on, NEW v \in PortPoll(z),
                      NEW x, x = [v EXCEPT !.ok = TRUE]
               PROVE  Begun(x)
    BY DEF Quietly
  <2>1. Begun(z) /\ z \in Ports
    BY <1>5 DEF Chain
  <2>2. /\ Steady(z, v) /\ SameFilter(z, v)
        /\ v.addr = z.addr /\ v.panic = z.panic
    BY <2>1, PortPollIs
  <2>3. x \in Ports
    BY <2>2 DEF Ports, Steady
  <2>4. /\ x.port = v.port /\ x.drain = v.drain /\ x.rxq = v.rxq
        /\ x.rebooted = v.rebooted /\ x.left = v.left /\ x.panic = v.panic
        /\ x.addr = v.addr /\ SameFilter(v, x)
    BY <2>2, <2>3 DEF Ports, SameFilter, Steady
  <2>5. Chain(z, x)
    BY <2>2, <2>3, <2>4 DEF Steady, Chain
  <2>6. Chain(new, x)
    BY <1>1, <2>1, <2>5, ChainTrans
  <2> QED
    BY <2>1, <2>2, <2>4, <2>6 DEF SameFilter
<1> HIDE DEF polled
<1>7. PICK z \in polled : \E y \in Cmd(z, z.mc) :
        IF y.ok THEN r \in PhyReconfigure(y) ELSE r = y
  BY <1>3 DEF Then
<1>8. Begun(z) /\ z \in Ports /\ z.mc \in Mcs /\ z.left \in Nat
  BY <1>6, PortTypes DEF Chain
<1>9. PICK y \in Cmd(z, z.mc) :
        IF y.ok THEN r \in PhyReconfigure(y) ELSE r = y
  BY <1>7
<1>10. y \in Ports /\ Same(z, y) /\ Fewer(z, y)
  BY <1>8, <1>9, CmdIs
<1>11. r \in Ports /\ Same(z, r) /\ Fewer(z, r)
  <2>1. CASE ~y.ok
    BY <1>9, <1>10, <2>1
  <2>2. CASE y.ok
    <3>1. r \in Ports /\ Same(y, r) /\ Fewer(y, r)
      BY <1>9, <1>10, <2>2, PhyReconfigureIs
    <3>2. y.left \in Nat /\ r.left \in Nat
      BY <1>10, <3>1, PortTypes
    <3> QED
      BY <1>8, <1>10, <3>1, <3>2 DEF Same, Fewer
  <2> QED
    BY <2>1, <2>2
<1>12. r.left \in Nat /\ r.ok \in BOOLEAN
  BY <1>11, PortTypes
<1>13. q \in Ports
  BY <1>3, <1>11 DEF Ports
<1>14. /\ q.port = (r.ok /\ r.port) /\ q.drain = r.drain
       /\ q.rxq = r.rxq /\ q.rebooted = r.rebooted /\ q.left = r.left
       /\ q.panic = r.panic /\ q.addr = r.addr /\ q.ok = r.ok
       /\ SameFilter(r, q)
  BY <1>3, <1>11, <1>13 DEF Ports, SameFilter
<1>15. Fewer(p, q)
  BY <1>2, <1>4, <1>8, <1>11, <1>12, <1>14 DEF Fewer, Chain
<1>16. /\ q.drain = new.drain /\ q.rxq = new.rxq
       /\ q.rebooted = new.rebooted /\ q.panic = new.panic
       /\ q.addr = new.addr /\ SameFilter(new, q) /\ r.port = new.port
  BY <1>8, <1>11, <1>14 DEF Same, Chain, SameFilter
<1> QED
  BY <1>2, <1>12, <1>13, <1>14, <1>15, <1>16 DEF SameFilter

(* The mask that a start applies is a mask.                                *)
LEMMA CapsType ==
  ASSUME sm \in Sms, NEW p \in Ports, NEW default \in BOOLEAN
  PROVE  ((IF default THEN DefaultAdv ELSE p.adv) \cup sm.toSet)
           \ sm.toUnset \in Advs
<1>1. p.adv \in Advs /\ sm.toSet \in SUBSET Speeds
  BY PortTypes DEF Sms
<1>2. DefaultAdv \in Advs
  BY DEF DefaultAdv, Advs, Pause
<1> QED
  BY <1>1, <1>2 DEF Advs

(* The settings of a start, in their order: each one keeps those before.   *)
LEMMA ConfiguredIs ==
  ASSUME Family, sm \in Sms, NEW p \in Ports, ~p.rxq, NEW default \in BOOLEAN,
         NEW q \in Configured(p, default)
  PROVE  /\ Chain(p, q) /\ SameFilter(p, q)
         /\ ~q.ok => q.left < p.left
         /\ q.ok => /\ q.panic = p.panic /\ q.addr = Wanted /\ AddrForce(q)
                    /\ FilterForce(q) /\ FlowForce(q, sm.fcntl)
<1>1. PICK a \in PhyCapApply(p, default) :
        IF ~a.ok THEN q = a
        ELSE \E b \in PduSet(a) :
               IF ~b.ok THEN q = b
               ELSE \E c \in FcntlSet(b, sm.fcntl) :
                      IF ~c.ok THEN q = c ELSE q \in AddrSet(c, Wanted)
  BY DEF Configured, Then
<1>2. sm.fcntl \in SUBSET Flow /\ Wanted \in Addrs
  BY DEF Sms, Wanted, Addrs
<1>3. /\ Steady(p, a) /\ SameFilter(p, a) /\ Fewer(p, a)
      /\ a.ok => a.panic = p.panic
  <2>1. a \in AdvCapSet(p, ((IF default THEN DefaultAdv ELSE p.adv)
                              \cup sm.toSet) \ sm.toUnset)
    BY <1>1 DEF PhyCapApply
  <2> QED
    BY <2>1, CapsType, AdvCapSetIs
<1>4. Chain(p, a) /\ a \in Ports /\ ~a.rxq
  BY <1>3 DEF Steady, Chain
<1>5. CASE ~a.ok
  BY <1>1, <1>3, <1>4, <1>5 DEF Fewer
<1>6. CASE a.ok
  <2>1. PICK b \in PduSet(a) :
          IF ~b.ok THEN q = b
          ELSE \E c \in FcntlSet(b, sm.fcntl) :
                 IF ~c.ok THEN q = c ELSE q \in AddrSet(c, Wanted)
    BY <1>1, <1>6
  <2>2. /\ Steady(a, b) /\ Fewer(a, b) /\ SameFilter(a, b)
        /\ b.panic = a.panic /\ (b.ok => FilterForce(b))
    BY <1>4, <2>1, PduSetIs
  <2>3. Chain(a, b) /\ b \in Ports /\ ~b.rxq
    BY <1>4, <2>2 DEF Steady, Chain
  <2>4. Chain(p, b) /\ SameFilter(p, b)
    BY <1>3, <1>4, <2>2, <2>3, ChainTrans DEF SameFilter
  <2>5. p.left \in Nat /\ a.left \in Nat /\ b.left \in Nat
    BY <1>4, <2>3, PortTypes
  <2>6. CASE ~b.ok
    <3>1. b.left < p.left
      BY <1>4, <2>2, <2>5, <2>6 DEF Fewer, Chain
    <3> QED
      BY <2>1, <2>4, <2>6, <3>1
  <2>7. CASE b.ok
    <3>1. PICK c \in FcntlSet(b, sm.fcntl) :
            IF ~c.ok THEN q = c ELSE q \in AddrSet(c, Wanted)
      BY <2>1, <2>7
    <3>2. /\ Steady(b, c) /\ SameFilter(b, c) /\ c.panic = b.panic
          /\ Fewer(b, c) /\ KeepsFilter(b, c)
          /\ c.ok => FlowForce(c, sm.fcntl)
      BY <1>2, <2>3, <3>1, FcntlSetIs
    <3>3. Chain(b, c) /\ c \in Ports /\ ~c.rxq
      BY <2>3, <3>2 DEF Steady, Chain
    <3>4. Chain(p, c) /\ SameFilter(p, c)
      BY <2>3, <2>4, <3>2, <3>3, ChainTrans DEF SameFilter
    <3>5. c.left \in Nat
      BY <3>3, PortTypes
    <3>6. CASE ~c.ok
      <4>1. c.left < p.left
        BY <2>4, <2>5, <3>2, <3>5, <3>6 DEF Fewer, Chain
      <4> QED
        BY <3>1, <3>4, <3>6, <4>1
    <3>7. CASE c.ok
      <4>1. q \in AddrSet(c, Wanted)
        BY <3>1, <3>7
      <4>2. /\ Steady(c, q) /\ SameFilter(c, q) /\ q.panic = c.panic
            /\ KeepsFilter(c, q) /\ KeepsFlow(c, q)
            /\ q.addr = IF q.ok THEN Wanted ELSE c.addr
            /\ q.ok => AddrForce(q)
            /\ ~q.ok /\ ~c.rxq => q.left < c.left
        BY <1>2, <3>3, <4>1, AddrSetIs
      <4>3. Chain(c, q) /\ q \in Ports
        BY <4>2 DEF Steady, Chain
      <4>4. Chain(p, q) /\ SameFilter(p, q)
        BY <3>3, <3>4, <4>2, <4>3, ChainTrans DEF SameFilter
      <4>5. q.left \in Nat
        BY <4>3, PortTypes
      <4>6. ~q.ok => q.left < p.left
        BY <2>5, <3>3, <3>4, <3>5, <4>2, <4>5 DEF Chain
      <4>7. FilterForce(q) /\ FlowForce(q, sm.fcntl)
        BY <1>2, <2>2, <2>7, <3>2, <3>7, <4>2 DEF KeepsFilter, KeepsFlow
      <4>8. q.ok => q.panic = p.panic /\ q.addr = Wanted /\ AddrForce(q)
        BY <1>3, <1>6, <2>2, <3>2, <4>2
      <4> QED
        BY <4>4, <4>6, <4>7, <4>8
    <3> QED
      BY <3>6, <3>7
  <2> QED
    BY <2>6, <2>7
<1> QED
  BY <1>5, <1>6

-----------------------------------------------------------------------------
(* The inductive invariant.                                                *)

Shape ==
  /\ Family /\ sm \in Sms /\ port \in Ports /\ task \in BOOLEAN
  /\ dirty \subseteq Settings

(* A stopped MAC has no receive queue, a MAC that runs or stops does not   *)
(* drain, and one that stops uploads no statistics unless a command failed.*)
PhaseInv ==
  /\ sm.stopping => ~Started
  /\ ~Started => ~port.rxq
  /\ port.panic = "none" =>
       /\ Started \/ sm.stopping => ~port.drain
       /\ sm.stopping /\ port.left = MaxFailures => ~port.mc.periodic
  /\ QuietWhenStopped

(* The port holds what the stack asked for, save for requests that failed  *)
(* or, for the address, were made while the MAC was stopped.               *)
AskedInv ==
  /\ "filter" \notin dirty =>
       /\ port.uc = sm.promisc /\ port.allmc = sm.promisc
       /\ port.mulcst = (sm.mcast # {}) /\ port.list = sm.mcast
  /\ Started /\ "addr" \notin dirty => port.addr = Wanted

(* And the controller was told.                                            *)
ForceInv ==
  Running =>
    /\ ~port.mc.drain
    /\ "addr" \notin dirty => AddrForce(port)
    /\ "filter" \notin dirty => FilterForce(port)
    /\ "fcntl" \notin dirty => FlowForce(port, sm.fcntl)

IInv == Shape /\ PhaseInv /\ AskedInv /\ ForceInv

(* A request of a running MAC leaves its phase alone.                      *)
LEMMA RequestPhase ==
  ASSUME IInv, Started, port.panic = "none", Steady(port, port'),
         cfg' = cfg, sm' \in Sms, sm'.state = sm.state,
         sm'.stopping = sm.stopping, task' \in {task, FALSE},
         dirty' \subseteq Settings
  PROVE  Shape' /\ PhaseInv'
<1>1. Shape'
  BY DEF IInv, Shape, Steady, Family
<1>2. Started' /\ ~sm'.stopping
  BY DEF IInv, PhaseInv, Started
<1>3. port'.drain = FALSE
  BY DEF IInv, PhaseInv, Steady, Shape, Ports
<1>4. QuietWhenStopped'
  BY <1>2 DEF QuietWhenStopped
<1> QED
  BY <1>1, <1>2, <1>3, <1>4 DEF PhaseInv

(* And one of a stopped MAC reaches nobody.                                *)
LEMMA IdlePhase ==
  ASSUME IInv, ~Started, port.panic = "none", port' \in Ports,
         port'.mc = port.mc, port'.port = port.port,
         port'.drain = port.drain, port'.rxq = port.rxq,
         port'.left = port.left, port'.panic = port.panic,
         cfg' = cfg, sm' \in Sms, sm'.state = sm.state,
         sm'.stopping = sm.stopping, sm'.link = sm.link,
         task' \in BOOLEAN, task' => task, dirty' \subseteq Settings
  PROVE  /\ Shape' /\ PhaseInv' /\ ForceInv' /\ ~Started'
<1>1. Shape'
  BY DEF IInv, Shape, Family
<1>2. ~Started'
  BY DEF Started
<1>3. QuietWhenStopped'
  BY <1>2 DEF IInv, PhaseInv, QuietWhenStopped
<1>4. PhaseInv'
  BY <1>2, <1>3 DEF IInv, PhaseInv
<1>5. ForceInv'
  BY <1>2 DEF ForceInv, Running
<1> QED
  BY <1>1, <1>2, <1>4, <1>5

(* Nothing but the port matters to what is in force.                       *)
LEMMA ForcePrimed ==
  ASSUME cfg' = cfg
  PROVE  /\ AddrForce(port') = AddrForce(port)'
         /\ FilterForce(port') = FilterForce(port)'
         /\ FlowForce(port', sm'.fcntl) = FlowForce(port, sm.fcntl)'
BY DEF AddrForce, FilterForce, FlowForce, Filters, GroupsOf, Decode

(* A step that keeps everything in force keeps what is to be in force.     *)
LEMMA RunningKeeps ==
  ASSUME IInv, Started, port.panic = "none", Steady(port, port'),
         cfg' = cfg, dirty' = dirty, sm'.fcntl = sm.fcntl,
         KeepsAddr(port, port'), KeepsFilter(port, port'),
         KeepsFlow(port, port')
  PROVE  ForceInv'
<1>1. SUFFICES ASSUME Running'
               PROVE  /\ ~port'.mc.drain
                      /\ "addr" \notin dirty => AddrForce(port)'
                      /\ "filter" \notin dirty => FilterForce(port)'
                      /\ "fcntl" \notin dirty => FlowForce(port, sm.fcntl)'
  BY DEF ForceInv
<1>2. Running
  BY <1>1 DEF Running, Steady
<1>3. /\ AddrForce(port') = AddrForce(port)'
      /\ FilterForce(port') = FilterForce(port)'
      /\ FlowForce(port', sm.fcntl) = FlowForce(port, sm.fcntl)'
  BY ForcePrimed
<1>4. ~port.drain
  BY DEF IInv, PhaseInv
<1>5. sm.fcntl \in SUBSET Flow
  BY DEF IInv, Shape, Sms
<1> QED
  BY <1>2, <1>3, <1>4, <1>5
     DEF IInv, ForceInv, KeepsAddr, KeepsFilter, KeepsFlow, Steady

-----------------------------------------------------------------------------
(* The requests.                                                           *)

(* Promiscuous mode and the groups.                                        *)
LEMMA FilterRequestKeeps ==
  ASSUME IInv, port.panic = "none", NEW s \in Sms, s.state = sm.state,
         s.stopping = sm.stopping, s.link = sm.link, s.laa = sm.laa,
         s.fcntl = sm.fcntl, FilterRequest(s)
  PROVE  IInv'
<1>1. /\ sm' = s /\ cfg' = cfg /\ task' = task
      /\ dirty' = IF Started /\ port'.ok THEN dirty \ {"filter"}
                  ELSE dirty \cup {"filter"}
      /\ port' \in FilterApply(port, s)
  BY DEF FilterRequest, Settle
<1>2. Family /\ port \in Ports /\ dirty' \subseteq Settings
  BY <1>1 DEF IInv, Shape, Settings
<1>3. CASE ~Started
  <2>1. port' = [port EXCEPT !.ok = TRUE]
    BY <1>1, <1>3 DEF FilterApply, Started
  <2>2. port' \in Ports
    BY <1>2, <2>1 DEF Ports
  <2>3. /\ port'.mc = port.mc /\ port'.port = port.port
        /\ port'.drain = port.drain /\ port'.rxq = port.rxq
        /\ port'.left = port.left /\ port'.panic = port.panic
    BY <1>2, <2>1 DEF Ports
  <2>4. Shape' /\ PhaseInv' /\ ForceInv' /\ ~Started'
    BY <1>1, <1>2, <1>3, <2>2, <2>3, IdlePhase DEF IInv, Shape
  <2>5. AskedInv'
    BY <1>1, <1>3, <2>4 DEF AskedInv
  <2> QED
    BY <2>4, <2>5 DEF IInv
<1>4. CASE Started
  <2>1. /\ Steady(port, port') /\ port'.addr = port.addr
        /\ port'.panic = port.panic /\ KeepsAddr(port, port')
        /\ KeepsFlow(port, port')
        /\ port'.ok => /\ port'.uc = s.promisc /\ port'.allmc = s.promisc
                       /\ port'.mulcst = (s.mcast # {})
                       /\ port'.list = s.mcast /\ FilterForce(port')
    <3>1. s.state = "STARTED"
      BY <1>4 DEF Started
    <3> QED
      BY <1>1, <1>2, <3>1, FilterApplyIs
  <2>2. Shape' /\ PhaseInv'
    BY <1>1, <1>2, <1>4, <2>1, RequestPhase
  <2>3. Started' /\ Wanted' = Wanted
    BY <1>1, <1>4 DEF Started, Wanted
  <2>4. AskedInv'
    BY <1>1, <1>4, <2>1, <2>3 DEF AskedInv, IInv
  <2>5. ForceInv'
    <3>1. SUFFICES ASSUME Running'
                   PROVE  /\ ~port'.mc.drain
                          /\ "addr" \notin dirty' => AddrForce(port)'
                          /\ "filter" \notin dirty' => FilterForce(port)'
                          /\ "fcntl" \notin dirty' => FlowForce(port, sm.fcntl)'
      BY DEF ForceInv
    <3>2. Running
      BY <1>4, <2>1, <3>1 DEF Running, Steady
    <3>3. /\ AddrForce(port') = AddrForce(port)'
          /\ FilterForce(port') = FilterForce(port)'
          /\ FlowForce(port', s.fcntl) = FlowForce(port, sm.fcntl)'
      BY <1>1, ForcePrimed
    <3>4. ~port.drain
      BY <1>4 DEF IInv, PhaseInv
    <3>5. sm.fcntl \in SUBSET Flow
      BY DEF IInv, Shape, Sms
    <3> QED
      BY <1>1, <1>4, <2>1, <3>2, <3>3, <3>4, <3>5
         DEF IInv, ForceInv, KeepsAddr, KeepsFlow, Steady
  <2> QED
    BY <2>2, <2>4, <2>5 DEF IInv
<1> QED
  BY <1>3, <1>4

(* sfxge_mac_promisc_set.                                                  *)
LEMMA PromiscSetKeeps ==
  ASSUME IInv, port.panic = "none", NEW on \in BOOLEAN, PromiscSet(on)
  PROVE  IInv'
<1> DEFINE s == [sm EXCEPT !.promisc = on]
<1>1. /\ s \in Sms /\ s.state = sm.state /\ s.stopping = sm.stopping
      /\ s.link = sm.link /\ s.laa = sm.laa /\ s.fcntl = sm.fcntl
  BY DEF IInv, Shape, Sms
<1>2. FilterRequest(s)
  BY DEF PromiscSet
<1> QED
  BY ONLY <1>1, <1>2, IInv, port.panic = "none", FilterRequestKeeps

(* sfxge_mac_multicst_add.                                                 *)
LEMMA MulticstAddKeeps ==
  ASSUME IInv, port.panic = "none", NEW g \in Groups, MulticstAdd(g)
  PROVE  IInv'
<1> DEFINE s == [sm EXCEPT !.mcast = @ \cup {g}]
<1>1. /\ s \in Sms /\ s.state = sm.state /\ s.stopping = sm.stopping
      /\ s.link = sm.link /\ s.laa = sm.laa /\ s.fcntl = sm.fcntl
  BY DEF IInv, Shape, Sms
<1>2. FilterRequest(s)
  BY DEF MulticstAdd
<1> QED
  BY ONLY <1>1, <1>2, IInv, port.panic = "none", FilterRequestKeeps

(* sfxge_mac_multicst_remove.                                              *)
LEMMA MulticstRemoveKeeps ==
  ASSUME IInv, port.panic = "none", NEW g \in Groups, MulticstRemove(g)
  PROVE  IInv'
<1> DEFINE s == [sm EXCEPT !.mcast = @ \ {g}]
<1>1. /\ s \in Sms /\ s.state = sm.state /\ s.stopping = sm.stopping
      /\ s.link = sm.link /\ s.laa = sm.laa /\ s.fcntl = sm.fcntl
  BY DEF IInv, Shape, Sms
<1>2. FilterRequest(s)
  BY DEF MulticstRemove
<1> QED
  BY ONLY <1>1, <1>2, IInv, port.panic = "none", FilterRequestKeeps

(* The address: a start programs the address that a stopped MAC was given. *)
LEMMA UnicstSetKeeps ==
  ASSUME IInv, port.panic = "none", UnicstSet("laa")
  PROVE  IInv'
<1>1. /\ sm' = [sm EXCEPT !.laa = "laa"] /\ cfg' = cfg /\ task' = task
      /\ IF Started
         THEN /\ port' \in AddrSet(port, "laa")
              /\ dirty' = IF port'.ok THEN dirty \ {"addr"}
                          ELSE dirty \cup {"addr"}
         ELSE port' = port /\ dirty' = dirty
  BY DEF UnicstSet, Settle
<1>2. Family /\ port \in Ports /\ dirty' \subseteq Settings
  BY <1>1 DEF IInv, Shape, Settings
<1>3. /\ sm' \in Sms /\ sm'.state = sm.state /\ sm'.stopping = sm.stopping
      /\ sm'.link = sm.link /\ sm'.laa = "laa" /\ sm'.fcntl = sm.fcntl
      /\ sm'.promisc = sm.promisc /\ sm'.mcast = sm.mcast
  BY <1>1 DEF IInv, Shape, Sms
<1>4. CASE ~Started
  <2>1. Shape' /\ PhaseInv' /\ ForceInv' /\ ~Started'
    BY <1>1, <1>2, <1>3, <1>4, IdlePhase DEF IInv, Shape
  <2>2. AskedInv'
    BY <1>1, <1>3, <1>4, <2>1 DEF IInv, AskedInv
  <2> QED
    BY <2>1, <2>2 DEF IInv
<1>5. CASE Started
  <2>1. /\ Steady(port, port') /\ SameFilter(port, port')
        /\ port'.panic = port.panic /\ KeepsFilter(port, port')
        /\ KeepsFlow(port, port')
        /\ port'.ok => port'.addr = "laa" /\ AddrForce(port')
    <3>1. port' \in AddrSet(port, "laa") /\ "laa" \in Addrs
      BY <1>1, <1>5 DEF Addrs
    <3> QED
      BY <1>2, <3>1, AddrSetIs
  <2>2. Shape' /\ PhaseInv'
    BY <1>1, <1>2, <1>3, <1>5, <2>1, RequestPhase
  <2>3. Started' /\ Wanted' = "laa"
    BY <1>3, <1>5 DEF Started, Wanted
  <2>4. AskedInv'
    BY <1>1, <1>3, <1>5, <2>1, <2>3 DEF AskedInv, IInv, SameFilter
  <2>5. ForceInv'
    <3>1. SUFFICES ASSUME Running'
                   PROVE  /\ ~port'.mc.drain
                          /\ "addr" \notin dirty' => AddrForce(port)'
                          /\ "filter" \notin dirty' => FilterForce(port)'
                          /\ "fcntl" \notin dirty' => FlowForce(port, sm.fcntl)'
      BY DEF ForceInv
    <3>2. Running
      BY <1>5, <2>1, <3>1 DEF Running, Steady
    <3>3. /\ AddrForce(port') = AddrForce(port)'
          /\ FilterForce(port') = FilterForce(port)'
          /\ FlowForce(port', sm.fcntl) = FlowForce(port, sm.fcntl)'
      BY <1>1, <1>3, ForcePrimed
    <3>4. ~port.drain
      BY <1>5 DEF IInv, PhaseInv
    <3>5. sm.fcntl \in SUBSET Flow
      BY DEF IInv, Shape, Sms
    <3> QED
      BY <1>1, <1>5, <2>1, <3>2, <3>3, <3>4, <3>5
         DEF IInv, ForceInv, KeepsFilter, KeepsFlow, Steady
  <2> QED
    BY <2>2, <2>4, <2>5 DEF IInv
<1> QED
  BY <1>4, <1>5

(* sfxge_mac_fcntl_set: what is asked of a stopped MAC waits for the start.*)
LEMMA MacFcntlSetKeeps ==
  ASSUME IInv, port.panic = "none", NEW f \in SUBSET Flow, MacFcntlSet(f)
  PROVE  IInv'
<1>1. /\ sm' = [sm EXCEPT !.fcntl = f] /\ cfg' = cfg /\ task' = task
      /\ IF Started
         THEN /\ port' \in FcntlSet(port, f)
              /\ dirty' = IF port'.ok THEN dirty \ {"fcntl"}
                          ELSE dirty \cup {"fcntl"}
         ELSE port' = port /\ dirty' = dirty
  BY DEF MacFcntlSet, Settle
<1>2. Family /\ port \in Ports /\ dirty' \subseteq Settings
  BY <1>1 DEF IInv, Shape, Settings
<1>3. /\ sm' \in Sms /\ sm'.state = sm.state /\ sm'.stopping = sm.stopping
      /\ sm'.link = sm.link /\ sm'.laa = sm.laa /\ sm'.fcntl = f
      /\ sm'.promisc = sm.promisc /\ sm'.mcast = sm.mcast
  BY <1>1 DEF IInv, Shape, Sms
<1>4. CASE ~Started
  <2>1. Shape' /\ PhaseInv' /\ ForceInv' /\ ~Started'
    BY <1>1, <1>2, <1>3, <1>4, IdlePhase DEF IInv, Shape
  <2>2. AskedInv'
    BY <1>1, <1>3, <1>4, <2>1 DEF IInv, AskedInv
  <2> QED
    BY <2>1, <2>2 DEF IInv
<1>5. CASE Started
  <2>1. /\ Steady(port, port') /\ SameFilter(port, port')
        /\ port'.addr = port.addr /\ port'.panic = port.panic
        /\ KeepsAddr(port, port') /\ KeepsFilter(port, port')
        /\ port'.ok => FlowForce(port', f)
    BY <1>1, <1>2, <1>5, FcntlSetIs
  <2>2. Shape' /\ PhaseInv'
    BY <1>1, <1>2, <1>3, <1>5, <2>1, RequestPhase
  <2>3. Started' /\ Wanted' = Wanted
    BY <1>3, <1>5 DEF Started, Wanted
  <2>4. AskedInv'
    BY <1>1, <1>3, <1>5, <2>1, <2>3 DEF AskedInv, IInv, SameFilter
  <2>5. ForceInv'
    <3>1. SUFFICES ASSUME Running'
                   PROVE  /\ ~port'.mc.drain
                          /\ "addr" \notin dirty' => AddrForce(port)'
                          /\ "filter" \notin dirty' => FilterForce(port)'
                          /\ "fcntl" \notin dirty' => FlowForce(port, sm.fcntl)'
      BY DEF ForceInv
    <3>2. Running
      BY <1>5, <2>1, <3>1 DEF Running, Steady
    <3>3. /\ AddrForce(port') = AddrForce(port)'
          /\ FilterForce(port') = FilterForce(port)'
          /\ FlowForce(port', f) = FlowForce(port, sm.fcntl)'
      BY <1>1, <1>3, ForcePrimed
    <3>4. ~port.drain
      BY <1>5 DEF IInv, PhaseInv
    <3> QED
      BY <1>1, <1>5, <2>1, <3>2, <3>3, <3>4
         DEF IInv, ForceInv, KeepsFilter, KeepsAddr, Steady
  <2> QED
    BY <2>2, <2>4, <2>5 DEF IInv
<1> QED
  BY <1>4, <1>5

(* Speeds say nothing about flow control.                                  *)
LEMMA DecodeSpeeds ==
  ASSUME NEW adv, NEW c \in Speeds
  PROVE  Decode(adv \cup {c}) = Decode(adv) /\ Decode(adv \ {c}) = Decode(adv)
<1>1. c \notin Pause
  BY MacAssumption
<1>2. c # "PAUSE" /\ c # "ASYM"
  BY <1>1 DEF Pause
<1> QED
  BY <1>2 DEF Decode

(* sfxge_phy_cap_set: the mask is shared with flow control.                *)
LEMMA PhyCapSetKeeps ==
  ASSUME IInv, port.panic = "none", NEW c \in Speeds, NEW on \in BOOLEAN,
         PhyCapSet(c, on)
  PROVE  IInv'
<1> DEFINE mask == IF on THEN port.adv \cup {c} ELSE port.adv \ {c}
<1>1. /\ cfg' = cfg /\ task' = task /\ dirty' = dirty
      /\ IF Started THEN port' \in AdvCapSet(port, mask) /\ sm' = sm
         ELSE /\ sm' = IF on THEN [sm EXCEPT !.toSet = @ \cup {c}]
                       ELSE [sm EXCEPT !.toUnset = @ \cup {c}]
              /\ port' = port
  BY DEF PhyCapSet
<1>2. /\ Family /\ port \in Ports /\ dirty' \subseteq Settings
      /\ task' \in BOOLEAN
  BY <1>1 DEF IInv, Shape
<1>3. mask \in Advs /\ Decode(mask) = Decode(port.adv)
  BY <1>2, DecodeSpeeds, PortTypes DEF Advs
<1> HIDE DEF mask
<1>4. CASE ~Started
  <2>1. /\ sm' \in Sms /\ sm'.state = sm.state /\ sm'.stopping = sm.stopping
        /\ sm'.link = sm.link /\ sm'.laa = sm.laa /\ sm'.fcntl = sm.fcntl
        /\ sm'.promisc = sm.promisc /\ sm'.mcast = sm.mcast
    BY <1>1, <1>4 DEF IInv, Shape, Sms
  <2>2. Shape' /\ PhaseInv' /\ ForceInv' /\ ~Started'
    BY <1>1, <1>2, <1>4, <2>1, IdlePhase
  <2>3. AskedInv'
    BY <1>1, <1>4, <2>1, <2>2 DEF IInv, AskedInv
  <2> QED
    BY <2>2, <2>3 DEF IInv
<1>5. CASE Started
  <2>1. /\ Steady(port, port') /\ SameFilter(port, port')
        /\ port'.addr = port.addr /\ KeepsAddr(port, port')
        /\ KeepsFilter(port, port') /\ KeepsFlow(port, port')
    BY <1>1, <1>2, <1>3, <1>5, AdvCapSetIs
  <2>2. sm' = sm /\ sm \in Sms
    BY <1>1, <1>5 DEF IInv, Shape
  <2>3. Shape' /\ PhaseInv'
    BY <1>1, <1>2, <1>5, <2>1, <2>2, RequestPhase
  <2>4. AskedInv'
    BY <1>1, <2>1, <2>2 DEF AskedInv, IInv, SameFilter, Started, Wanted
  <2>5. ForceInv'
    BY <1>1, <1>5, <2>1, <2>2, RunningKeeps
  <2> QED
    BY <2>3, <2>4, <2>5 DEF IInv
<1> QED
  BY <1>4, <1>5

(* The receive queues: EF10 filters come and go with them.                 *)
LEMMA RxqSetKeeps ==
  ASSUME IInv, port.panic = "none", NEW on \in BOOLEAN, RxqSet(on)
  PROVE  IInv'
<1> DEFINE new == [port EXCEPT !.rxq = on]
<1>1. /\ cfg.ef10 /\ Started /\ port.rxq # on
      /\ cfg' = cfg /\ sm' = sm /\ task' = task /\ dirty' = dirty
  BY DEF RxqSet
<1>2. PICK r \in FilterReconfigure(new) :
        port' = IF r.ok THEN r ELSE [r EXCEPT !.rxq = port.rxq]
  BY DEF RxqSet, OnFailure
<1>3. /\ Family /\ port \in Ports /\ sm \in Sms /\ task \in BOOLEAN
      /\ dirty \subseteq Settings
  BY DEF IInv, Shape
<1>4. new \in Ports
  BY <1>3 DEF Ports
<1>5. /\ new.rxq = on /\ new.port = port.port /\ new.drain = port.drain
      /\ new.rebooted = port.rebooted /\ new.left = port.left
      /\ new.panic = port.panic /\ new.mc = port.mc /\ new.addr = port.addr
      /\ SameFilter(port, new) /\ SameFlow(port, new)
  BY <1>3 DEF Ports, SameFilter, SameFlow
<1> HIDE DEF new
<1>6. /\ r \in Ports /\ Same(new, r) /\ Fewer(new, r)
      /\ r.mc.adv = new.mc.adv /\ r.mc.periodic = new.mc.periodic
      /\ r.mc.drain = new.mc.drain /\ r.mc.addr = new.mc.addr
      /\ r.mc.flow = new.mc.flow /\ (~new.rxq => r.ok)
      /\ Filters(r) => /\ r.ok /\ r.mc.ucaddr = new.addr /\ r.mc.uc = new.uc
                       /\ r.mc.groups = GroupsOf(new)
  BY <1>1, <1>2, <1>3, <1>4, FilterReconfigureIs
<1>7. port' \in Ports
  BY <1>2, <1>3, <1>6 DEF Ports
<1>8. /\ port'.port = r.port /\ port'.drain = r.drain /\ port'.addr = r.addr
      /\ port'.rebooted = r.rebooted /\ port'.left = r.left
      /\ port'.panic = r.panic /\ port'.mc = r.mc
      /\ SameFilter(r, port') /\ SameFlow(r, port')
      /\ r.ok => port' = r
      /\ ~r.ok => port'.rxq = port.rxq
  BY <1>2, <1>6, <1>7 DEF Ports, SameFilter, SameFlow
<1>9. Filters(port') => r.ok
  <2>1. CASE on = FALSE
    BY <1>5, <1>6, <2>1
  <2>2. CASE on = TRUE /\ ~r.ok
    <3>1. port.rxq = FALSE
      BY <1>1, <1>3, <2>2 DEF Ports
    <3> QED
      BY <1>1, <1>8, <2>2, <3>1 DEF Filters
  <2> QED
    BY <2>1, <2>2
<1>10. /\ port'.addr = port.addr /\ SameFilter(port, port')
       /\ SameFlow(port, port') /\ port'.drain = port.drain
       /\ port'.rebooted = port.rebooted /\ port'.panic = port.panic
       /\ port'.mc.drain = port.mc.drain /\ port'.mc.addr = port.mc.addr
       /\ port'.mc.flow = port.mc.flow /\ port'.mc.adv = port.mc.adv
  BY <1>5, <1>6, <1>8 DEF Same, SameFilter, SameFlow
<1>11. KeepsFlow(port, port')
  BY <1>10 DEF KeepsFlow, FlowForce, SameFlow
<1>12. Filters(port') => port'.mc.ucaddr = port'.addr /\ FilterForce(port')
  BY <1>6, <1>8, <1>9 DEF FilterForce, Same, GroupsOf
<1>13. KeepsAddr(port, port') /\ FilterForce(port')
  BY <1>10, <1>12 DEF KeepsAddr, AddrForce, FilterForce
<1>14. Shape'
  BY <1>1, <1>3, <1>7 DEF Shape, Family
<1>15. Started' /\ Wanted' = Wanted
  BY <1>1 DEF Started, Wanted
<1>16. PhaseInv'
  BY <1>1, <1>10, <1>15 DEF IInv, PhaseInv, QuietWhenStopped
<1>17. AskedInv'
  BY <1>1, <1>10, <1>15 DEF IInv, AskedInv, SameFilter
<1>18. ForceInv'
  <2>1. /\ AddrForce(port') = AddrForce(port)'
        /\ FilterForce(port') = FilterForce(port)'
        /\ FlowForce(port', sm.fcntl) = FlowForce(port, sm.fcntl)'
    BY <1>1, ForcePrimed
  <2>2. sm.fcntl \in SUBSET Flow
    BY <1>3 DEF Sms
  <2>3. Running' => Running
    BY <1>1, <1>10 DEF Running
  <2> QED
    BY <1>1, <1>10, <1>11, <1>13, <2>1, <2>2, <2>3
       DEF IInv, ForceInv, KeepsAddr, KeepsFlow
<1> QED
  BY <1>14, <1>16, <1>17, <1>18 DEF IInv

-----------------------------------------------------------------------------
(* The poll, the link and a reboot of the controller.                      *)
LEMMA MacPollKeeps ==
  ASSUME IInv, port.panic = "none", MacPoll("UP")
  PROVE  IInv'
<1>1. /\ task' = FALSE /\ cfg' = cfg /\ dirty' = dirty
      /\ IF Started
         THEN port' \in PortPoll(port) /\ sm' \in {sm, LinkUpdate("UP")}
         ELSE sm' = sm /\ port' = port
  BY DEF MacPoll
<1>2. /\ Family /\ port \in Ports /\ sm \in Sms /\ dirty' \subseteq Settings
  BY <1>1 DEF IInv, Shape
<1>3. CASE ~Started
  <2>1. Shape' /\ PhaseInv' /\ ForceInv' /\ ~Started'
    BY <1>1, <1>2, <1>3, IdlePhase
  <2>2. AskedInv'
    BY <1>1, <1>3, <2>1 DEF IInv, AskedInv
  <2> QED
    BY <2>1, <2>2 DEF IInv
<1>4. CASE Started
  <2>1. /\ Steady(port, port') /\ SameFilter(port, port')
        /\ port'.addr = port.addr /\ KeepsAddr(port, port')
        /\ KeepsFilter(port, port') /\ KeepsFlow(port, port')
    BY <1>1, <1>2, <1>4, PortPollIs
  <2>2. /\ sm' \in Sms /\ sm'.state = sm.state /\ sm'.stopping = sm.stopping
        /\ sm'.laa = sm.laa /\ sm'.fcntl = sm.fcntl
        /\ sm'.promisc = sm.promisc /\ sm'.mcast = sm.mcast
    BY <1>1, <1>2, <1>4 DEF LinkUpdate, Sms
  <2>3. Shape' /\ PhaseInv'
    BY <1>1, <1>2, <1>4, <2>1, <2>2, RequestPhase
  <2>4. AskedInv'
    BY <1>1, <2>1, <2>2 DEF AskedInv, IInv, SameFilter, Started, Wanted
  <2>5. ForceInv'
    BY <1>1, <1>4, <2>1, <2>2, RunningKeeps
  <2> QED
    BY <2>3, <2>4, <2>5 DEF IInv
<1> QED
  BY <1>3, <1>4

(* A link event comes whenever it likes, and changes no flow control that  *)
(* the MAC does not take from the PHY.                                     *)
LEMMA LinkEventKeeps ==
  ASSUME IInv, port.panic = "none", LinkEvent("UP")
  PROVE  IInv'
<1>1. /\ task' = task /\ cfg' = cfg /\ dirty' = dirty
      /\ sm' = LinkUpdate("UP")
      /\ port' = IF cfg.an THEN [port EXCEPT !.fcntl = LinkFlow(port)]
                 ELSE port
  BY DEF LinkEvent
<1>2. /\ Family /\ port \in Ports /\ sm \in Sms /\ task' \in BOOLEAN
      /\ dirty' \subseteq Settings
  BY <1>1 DEF IInv, Shape
<1>3. port' \in Ports
  BY <1>1, <1>2, LinkFlowType DEF Ports
<1>4. /\ port'.port = port.port /\ port'.drain = port.drain
      /\ port'.addr = port.addr /\ port'.rxq = port.rxq
      /\ port'.rebooted = port.rebooted /\ port'.left = port.left
      /\ port'.panic = port.panic /\ port'.mc = port.mc
      /\ port'.lost = port.lost /\ port'.auto = port.auto
      /\ port'.adv = port.adv /\ SameFilter(port, port')
      /\ ~cfg.an => port'.fcntl = port.fcntl
  BY <1>1, <1>2 DEF Ports, SameFilter
<1>5. CASE ~Started
  <2>1. sm' = sm
    BY <1>1, <1>5 DEF LinkUpdate
  <2>2. Shape' /\ PhaseInv' /\ ForceInv' /\ ~Started'
    BY <1>1, <1>2, <1>3, <1>4, <1>5, <2>1, IdlePhase
  <2>3. AskedInv'
    BY <1>1, <1>4, <1>5, <2>1, <2>2 DEF IInv, AskedInv, SameFilter
  <2> QED
    BY <2>2, <2>3 DEF IInv
<1>6. CASE Started
  <2>1. Steady(port, port')
    <3>1. port.left \in Nat
      BY <1>2, PortTypes
    <3> QED
      BY <1>3, <1>4, <3>1 DEF Steady
  <2>2. KeepsAddr(port, port') /\ KeepsFlow(port, port')
    BY <1>4 DEF KeepsAddr, KeepsFlow, AddrForce, FlowForce, Filters
  <2>3. KeepsFilter(port, port')
    BY <1>4 DEF KeepsFilter, FilterForce, Filters, GroupsOf, SameFilter
  <2>4. /\ sm' \in Sms /\ sm'.state = sm.state /\ sm'.stopping = sm.stopping
        /\ sm'.laa = sm.laa /\ sm'.fcntl = sm.fcntl
        /\ sm'.promisc = sm.promisc /\ sm'.mcast = sm.mcast
    BY <1>1, <1>2, <1>6 DEF LinkUpdate, Sms
  <2>5. Shape' /\ PhaseInv'
    BY <1>1, <1>2, <1>6, <2>1, <2>4, RequestPhase
  <2>6. AskedInv'
    BY <1>1, <1>4, <2>4 DEF AskedInv, IInv, SameFilter, Started, Wanted
  <2>7. ForceInv'
    BY <1>1, <1>6, <2>1, <2>2, <2>3, <2>4, RunningKeeps
  <2> QED
    BY <2>5, <2>6, <2>7 DEF IInv
<1> QED
  BY <1>5, <1>6

(* A controller that rebooted has forgotten everything until the restart.  *)
LEMMA McRebootKeeps ==
  ASSUME IInv, port.panic = "none", McReboot
  PROVE  IInv'
<1>1. /\ Started /\ cfg' = cfg /\ sm' = sm /\ task' = task /\ dirty' = dirty
      /\ port' = [port EXCEPT !.mc = McReset, !.rebooted = TRUE]
  BY DEF McReboot
<1>2. /\ Family /\ port \in Ports /\ sm \in Sms /\ task \in BOOLEAN
      /\ dirty \subseteq Settings
  BY DEF IInv, Shape
<1>3. McReset \in Mcs
  BY DEF McReset, Mcs, Addrs, Flows, Advs, DefaultAdv, Pause
<1>4. port' \in Ports
  BY <1>1, <1>2, <1>3 DEF Ports
<1>5. /\ port'.drain = port.drain /\ port'.addr = port.addr
      /\ port'.rebooted = TRUE /\ SameFilter(port, port')
  BY <1>1, <1>2, <1>4 DEF Ports, SameFilter
<1>6. Shape'
  BY <1>1, <1>2, <1>4 DEF Shape, Family
<1>7. Started' /\ Wanted' = Wanted /\ ~Running'
  BY <1>1, <1>5 DEF Started, Wanted, Running
<1>8. PhaseInv'
  BY <1>1, <1>5, <1>7 DEF IInv, PhaseInv, QuietWhenStopped
<1>9. AskedInv'
  BY <1>1, <1>5, <1>7 DEF IInv, AskedInv, SameFilter
<1>10. ForceInv'
  BY <1>7 DEF ForceInv
<1> QED
  BY <1>6, <1>8, <1>9, <1>10 DEF IInv

-----------------------------------------------------------------------------
(* The stop, in its two halves.                                            *)
LEMMA MacStopBeginKeeps ==
  ASSUME IInv, port.panic = "none", MacStopBegin
  PROVE  IInv'
<1>1. /\ Started /\ ~port.rxq /\ cfg' = cfg /\ task' = task
      /\ dirty' = dirty /\ port' \in StatsPeriodic(port, FALSE)
      /\ sm' = [sm EXCEPT !.state = "INITIALIZED", !.stopping = TRUE]
  BY DEF MacStopBegin
<1>2. /\ Family /\ port \in Ports /\ sm \in Sms /\ task \in BOOLEAN
      /\ dirty \subseteq Settings
  BY DEF IInv, Shape
<1>3. /\ port' \in Ports /\ Same(port, port') /\ Fewer(port, port')
      /\ port'.mc.periodic = IF port'.ok THEN FALSE ELSE port.mc.periodic
  BY <1>1, <1>2, StatsPeriodicIs
<1>4. /\ sm' \in Sms /\ sm'.state = "INITIALIZED" /\ sm'.stopping = TRUE
      /\ sm'.promisc = sm.promisc /\ sm'.mcast = sm.mcast
  BY <1>1, <1>2 DEF Sms
<1>5. Shape'
  BY <1>1, <1>2, <1>3, <1>4 DEF Shape, Family
<1>6. ~Started' /\ ~Running'
  BY <1>4 DEF Started, Running
<1>7. port'.left = MaxFailures => ~port'.mc.periodic
  <2>1. port.left \in 0..MaxFailures /\ port'.left \in 0..MaxFailures
    BY <1>2, <1>3 DEF Ports
  <2> QED
    BY <1>3, <2>1, MacAssumption DEF Fewer
<1>8. ~port'.drain /\ ~port'.rxq
  BY <1>1, <1>3 DEF IInv, PhaseInv, Same
<1>9. PhaseInv'
  BY <1>4, <1>6, <1>7, <1>8 DEF PhaseInv, QuietWhenStopped
<1>10. AskedInv'
  BY <1>1, <1>3, <1>4, <1>6 DEF IInv, AskedInv, Same
<1>11. ForceInv'
  BY <1>6 DEF ForceInv
<1> QED
  BY <1>5, <1>9, <1>10, <1>11 DEF IInv

(* The end of the port, and of a start that failed.                        *)
LEMMA PortFiniIs ==
  ASSUME NEW p \in Ports, NEW q, q = PortFini(p)
  PROVE  /\ q \in Ports /\ ~q.port /\ ~q.drain /\ q.rxq = p.rxq
         /\ q.left = p.left /\ q.ok = p.ok /\ q.mc = p.mc
         /\ SameFilter(p, q)
<1>1. q \in Ports
  BY DEF PortFini, Ports
<1> QED
  BY <1>1 DEF PortFini, Ports, SameFilter

(* The second half: the drain, and the end of the port.                    *)
LEMMA MacStopEndKeeps ==
  ASSUME IInv, port.panic = "none", MacStopEnd
  PROVE  IInv'
<1>1. /\ sm.stopping /\ ~task /\ cfg' = cfg /\ task' = task
      /\ dirty' = dirty
      /\ sm' = [sm EXCEPT !.stopping = FALSE, !.link = "UNKNOWN"]
  BY DEF MacStopEnd
<1>2. PICK d \in Drain(port, TRUE) : port' = PortFini([d EXCEPT !.ok = TRUE])
  BY DEF MacStopEnd, Quietly
<1>3. /\ Family /\ port \in Ports /\ sm \in Sms /\ task \in BOOLEAN
      /\ dirty \subseteq Settings
  BY DEF IInv, Shape
<1>4. /\ ~Started /\ ~port.drain /\ ~port.rxq
      /\ port.left = MaxFailures => ~port.mc.periodic
  BY <1>1 DEF IInv, PhaseInv
<1>5. /\ d \in Ports /\ Fewer(port, d) /\ d.rxq = port.rxq
      /\ SameFilter(port, d) /\ d.mc.periodic = port.mc.periodic
      /\ d.ok => d.mc.drain = TRUE
  <2> DEFINE on == TRUE
  <2>1. on \in BOOLEAN /\ d \in Drain(port, on) /\ port.drain # on
    BY <1>2, <1>4
  <2>2. on = TRUE
    OBVIOUS
  <2> HIDE DEF on
  <2>3. /\ d \in Ports /\ Fewer(port, d) /\ d.rxq = port.rxq
        /\ SameFilter(port, d) /\ d.mc.periodic = port.mc.periodic
        /\ d.ok /\ port.drain # on => d.mc.drain = on
    BY ONLY <1>3, <2>1, DrainIs
  <2> QED
    BY <2>1, <2>2, <2>3
<1> DEFINE e == [d EXCEPT !.ok = TRUE]
<1>6. /\ e \in Ports /\ e.rxq = d.rxq /\ e.left = d.left /\ e.mc = d.mc
      /\ SameFilter(d, e)
  BY <1>5 DEF Ports, SameFilter
<1>7. port' = PortFini(e)
  BY <1>2
<1> HIDE DEF e
<1>8. /\ port' \in Ports /\ ~port'.port /\ port'.rxq = e.rxq
      /\ port'.left = e.left /\ port'.mc = e.mc /\ SameFilter(e, port')
  BY <1>6, <1>7, PortFiniIs
<1>9. /\ sm' \in Sms /\ sm'.state = sm.state /\ sm'.stopping = FALSE
      /\ sm'.link = "UNKNOWN"
      /\ sm'.promisc = sm.promisc /\ sm'.mcast = sm.mcast
  BY <1>1, <1>3 DEF Sms
<1>10. Shape'
  BY <1>1, <1>3, <1>8, <1>9 DEF Shape, Family
<1>11. ~Started' /\ ~Running'
  BY <1>4, <1>9 DEF Started, Running
<1>12. port'.left = MaxFailures => ~port'.mc.periodic /\ port'.mc.drain
  <2>1. port.left \in 0..MaxFailures /\ d.left \in 0..MaxFailures
    BY <1>3, <1>5 DEF Ports
  <2>2. d.left = MaxFailures => d.ok /\ port.left = MaxFailures
    BY <1>5, <2>1, MacAssumption DEF Fewer
  <2> QED
    BY <1>4, <1>5, <1>6, <1>8, <2>2
<1>13. PhaseInv'
  BY <1>1, <1>4, <1>5, <1>6, <1>8, <1>9, <1>11, <1>12
     DEF PhaseInv, QuietWhenStopped
<1>14. AskedInv'
  BY <1>1, <1>5, <1>6, <1>8, <1>9, <1>11 DEF IInv, AskedInv, SameFilter
<1>15. ForceInv'
  BY <1>11 DEF ForceInv
<1> QED
  BY <1>10, <1>13, <1>14, <1>15 DEF IInv

-----------------------------------------------------------------------------
(* A start that succeeds has configured all that was asked for, and one    *)
(* that fails has used up a failure and leaves no port.                    *)
LEMMA StartedPort ==
  ASSUME Family, sm \in Sms, NEW p \in Ports, p.port, p.drain, ~p.rxq,
         NEW q, Chain(p, q), SameFilter(p, q), q.ok, q.addr = Wanted,
         AddrForce(q), FilterForce(q), FlowForce(q, sm.fcntl),
         NEW s, \E r \in StatsPeriodic(q, TRUE) :
                  IF ~r.ok THEN s = PortFini(r)
                  ELSE \E d \in Drain(r, FALSE) :
                    IF d.ok THEN s = d
                    ELSE s \in {[PortFini(e) EXCEPT !.ok = FALSE] :
                                  e \in StatsPeriodic(d, FALSE)}
  PROVE  /\ s \in Ports /\ ~s.rxq /\ SameFilter(p, s)
         /\ ~s.ok => ~s.port /\ s.left < p.left
         /\ s.ok => /\ ~s.drain /\ ~s.mc.drain /\ s.addr = Wanted
                    /\ AddrForce(s) /\ FilterForce(s)
                    /\ FlowForce(s, sm.fcntl)
<1>1. PICK r \in StatsPeriodic(q, TRUE) :
        IF ~r.ok THEN s = PortFini(r)
        ELSE \E d \in Drain(r, FALSE) :
          IF d.ok THEN s = d
          ELSE s \in {[PortFini(e) EXCEPT !.ok = FALSE] :
                        e \in StatsPeriodic(d, FALSE)}
  OBVIOUS
<1>2. q \in Ports /\ ~q.rxq /\ q.drain
  BY DEF Chain
<1>3. sm.fcntl \in SUBSET Flow
  BY DEF Sms
<1>4. /\ r \in Ports /\ Same(q, r) /\ Fewer(q, r)
      /\ KeepsAddr(q, r) /\ KeepsFilter(q, r) /\ KeepsFlow(q, r)
  BY <1>1, <1>2, StatsPeriodicIs
<1>5. p.left \in Nat /\ q.left \in Nat /\ r.left \in Nat
  BY <1>2, <1>4, PortTypes
<1>6. CASE ~r.ok
  <2>1. s = PortFini(r)
    BY <1>1, <1>6
  <2>2. /\ s \in Ports /\ ~s.port /\ s.rxq = r.rxq /\ s.left = r.left
        /\ s.ok = r.ok /\ SameFilter(r, s)
    BY <1>4, <2>1, PortFiniIs
  <2>3. s.left < p.left
    BY <1>4, <1>5, <1>6, <2>2 DEF Chain, Fewer
  <2> QED
    BY <1>2, <1>4, <1>6, <2>2, <2>3 DEF Same, SameFilter
<1>7. CASE r.ok
  <2>1. PICK d \in Drain(r, FALSE) :
          IF d.ok THEN s = d
          ELSE s \in {[PortFini(e) EXCEPT !.ok = FALSE] :
                        e \in StatsPeriodic(d, FALSE)}
    BY <1>1, <1>7
  <2>2. r.drain # FALSE /\ ~r.rxq /\ r.addr = Wanted
    BY <1>2, <1>4 DEF Same
  <2>3. /\ d \in Ports /\ d.drain = FALSE /\ Fewer(r, d)
        /\ d.rxq = r.rxq /\ d.addr = r.addr /\ SameFilter(r, d)
        /\ KeepsAddr(r, d) /\ KeepsFilter(r, d) /\ KeepsFlow(r, d)
        /\ d.ok => d.mc.drain = FALSE
    <3> DEFINE off == FALSE
    <3>1. off \in BOOLEAN /\ d \in Drain(r, off)
      BY <2>1
    <3>2. off = FALSE
      OBVIOUS
    <3> HIDE DEF off
    <3>3. /\ d \in Ports /\ d.drain = off /\ Fewer(r, d)
          /\ d.rxq = r.rxq /\ d.addr = r.addr /\ SameFilter(r, d)
          /\ KeepsAddr(r, d) /\ KeepsFilter(r, d) /\ KeepsFlow(r, d)
          /\ d.ok /\ r.drain # off => d.mc.drain = off
      BY ONLY <1>4, <3>1, Family, DrainIs
    <3> QED
      BY <2>2, <3>2, <3>3
  <2>4. d.left \in Nat
    BY <2>3, PortTypes
  <2>5. CASE d.ok
    <3>1. s = d
      BY <2>1, <2>5
    <3>2. AddrForce(d) /\ FilterForce(d) /\ FlowForce(d, sm.fcntl)
      BY <1>3, <1>4, <2>3 DEF KeepsAddr, KeepsFilter, KeepsFlow
    <3>3. SameFilter(p, s)
      BY <1>4, <2>3, <3>1 DEF SameFilter, Same
    <3> QED
      BY <2>2, <2>3, <2>5, <3>1, <3>2, <3>3
  <2>6. CASE ~d.ok
    <3>1. PICK e \in StatsPeriodic(d, FALSE) :
            s = [PortFini(e) EXCEPT !.ok = FALSE]
      BY <2>1, <2>6
    <3>2. e \in Ports /\ Same(d, e) /\ Fewer(d, e)
      BY <2>3, <3>1, StatsPeriodicIs
    <3> DEFINE f == PortFini(e)
    <3>3. /\ f \in Ports /\ ~f.port /\ f.rxq = e.rxq /\ f.left = e.left
          /\ SameFilter(e, f)
      BY <3>2, PortFiniIs
    <3>4. s = [f EXCEPT !.ok = FALSE]
      BY <3>1
    <3> HIDE DEF f
    <3>5. /\ s \in Ports /\ ~s.port /\ s.rxq = f.rxq /\ s.left = f.left
          /\ s.ok = FALSE /\ SameFilter(f, s)
      BY <3>3, <3>4 DEF Ports, SameFilter
    <3>6. e.left \in Nat
      BY <3>2, PortTypes
    <3>7. s.left < p.left
      BY <1>4, <1>5, <2>3, <2>4, <2>6, <3>2, <3>3, <3>5, <3>6
         DEF Chain, Fewer
    <3>8. SameFilter(p, s) /\ ~s.rxq
      BY <1>4, <2>2, <2>3, <3>2, <3>3, <3>5 DEF SameFilter, Same
    <3> QED
      BY <3>5, <3>7, <3>8
  <2> QED
    BY <2>5, <2>6
<1> QED
  BY <1>6, <1>7

(* sfxge_mac_start, whichever of its commands fail.                        *)
LEMMA MacStartKeeps ==
  ASSUME IInv, port.panic = "none", NEW restart \in BOOLEAN, MacStart(restart)
  PROVE  IInv'
<1> DEFINE new == [port EXCEPT !.rebooted = FALSE]
<1>1. ~Started /\ ~sm.stopping /\ cfg' = cfg
  BY DEF MacStart
<1>2. /\ Family /\ port \in Ports /\ sm \in Sms /\ task \in BOOLEAN
      /\ dirty \subseteq Settings
  BY DEF IInv, Shape
<1>3. PICK p \in PortInit(new) :
        IF ~p.ok THEN port' = p /\ sm' = sm /\ task' = task /\ dirty' = dirty
        ELSE \E q \in Configured(p, ~restart) :
          /\ IF ~q.ok THEN port' = PortFini(q)
             ELSE \E r \in StatsPeriodic(q, TRUE) :
               IF ~r.ok THEN port' = PortFini(r)
               ELSE \E d \in Drain(r, FALSE) :
                 IF d.ok THEN port' = d
                 ELSE port' \in {[PortFini(e) EXCEPT !.ok = FALSE] :
                                   e \in StatsPeriodic(d, FALSE)}
          /\ sm' = [sm EXCEPT !.toSet = {}, !.toUnset = {},
                              !.state = IF port'.ok THEN "STARTED" ELSE @]
          /\ task' = (task \/ port'.ok)
          /\ dirty' = IF port'.ok THEN dirty \ {"addr", "fcntl"} ELSE dirty
  BY DEF MacStart
<1>4. /\ new \in Ports /\ new.rxq = port.rxq /\ new.left = port.left
      /\ new.panic = port.panic /\ SameFilter(port, new)
  BY <1>2 DEF Ports, SameFilter
<1> HIDE DEF new
<1>5. /\ p \in Ports /\ p.port = p.ok /\ p.drain /\ p.rxq = new.rxq
      /\ p.panic = new.panic /\ SameFilter(new, p) /\ Fewer(new, p)
  BY <1>2, <1>3, <1>4, PortInitIs
<1>6. /\ port.left \in 0..MaxFailures /\ p.left \in Nat
      /\ ~port.rxq /\ ~p.rxq /\ sm.link = "UNKNOWN" /\ ~task
  BY <1>1, <1>2, <1>4, <1>5, PortTypes
     DEF Ports, IInv, PhaseInv, QuietWhenStopped
<1>7. SameFilter(port, p) /\ p.left <= port.left
  BY <1>4, <1>5 DEF SameFilter, Fewer
<1>8. CASE ~p.ok
  <2>1. port' = p /\ sm' = sm /\ task' = task /\ dirty' = dirty
    BY <1>3, <1>8
  <2>2. port'.left # MaxFailures /\ ~port'.port /\ ~port'.rxq
    BY <1>4, <1>5, <1>6, <1>8, <2>1, MacAssumption DEF Fewer
  <2>3. ~Started' /\ ~Running' /\ ~sm'.stopping
    BY <1>1, <2>1 DEF Started, Running
  <2>4. Shape'
    BY <1>1, <1>2, <1>5, <2>1 DEF Shape, Family
  <2>5. PhaseInv'
    BY <1>6, <2>1, <2>2, <2>3 DEF PhaseInv, QuietWhenStopped
  <2>6. AskedInv'
    BY <1>7, <2>1, <2>3 DEF IInv, AskedInv, SameFilter
  <2>7. ForceInv'
    BY <2>3 DEF ForceInv
  <2> QED
    BY <2>4, <2>5, <2>6, <2>7 DEF IInv
<1>9. CASE p.ok
  <2>1. PICK q \in Configured(p, ~restart) :
          /\ IF ~q.ok THEN port' = PortFini(q)
             ELSE \E r \in StatsPeriodic(q, TRUE) :
               IF ~r.ok THEN port' = PortFini(r)
               ELSE \E d \in Drain(r, FALSE) :
                 IF d.ok THEN port' = d
                 ELSE port' \in {[PortFini(e) EXCEPT !.ok = FALSE] :
                                   e \in StatsPeriodic(d, FALSE)}
          /\ sm' = [sm EXCEPT !.toSet = {}, !.toUnset = {},
                              !.state = IF port'.ok THEN "STARTED" ELSE @]
          /\ task' = (task \/ port'.ok)
          /\ dirty' = IF port'.ok THEN dirty \ {"addr", "fcntl"} ELSE dirty
    BY <1>3, <1>9
  <2>2. /\ Chain(p, q) /\ SameFilter(p, q)
        /\ ~q.ok => q.left < p.left
        /\ q.ok => /\ q.addr = Wanted /\ AddrForce(q)
                   /\ FilterForce(q) /\ FlowForce(q, sm.fcntl)
    <3>1. (~restart) \in BOOLEAN
      OBVIOUS
    <3> QED
      BY <1>2, <1>5, <1>6, <2>1, <3>1, ConfiguredIs
  <2>3. q \in Ports
    BY <2>2 DEF Chain
  <2>4. /\ port' \in Ports /\ ~port'.rxq /\ SameFilter(p, port')
        /\ ~port'.ok => ~port'.port /\ port'.left < p.left
        /\ port'.ok => /\ ~port'.drain /\ ~port'.mc.drain
                       /\ port'.addr = Wanted /\ AddrForce(port')
                       /\ FilterForce(port') /\ FlowForce(port', sm.fcntl)
    <3>1. CASE ~q.ok
      <4>1. port' = PortFini(q)
        BY <2>1, <3>1
      <4>2. /\ port' \in Ports /\ ~port'.port /\ port'.rxq = q.rxq
            /\ port'.left = q.left /\ port'.ok = q.ok /\ SameFilter(q, port')
        BY <2>3, <4>1, PortFiniIs
      <4> QED
        BY <1>6, <2>2, <3>1, <4>2 DEF Chain, SameFilter
    <3>2. CASE q.ok
      <4>1. \E r \in StatsPeriodic(q, TRUE) :
               IF ~r.ok THEN port' = PortFini(r)
               ELSE \E d \in Drain(r, FALSE) :
                 IF d.ok THEN port' = d
                 ELSE port' \in {[PortFini(e) EXCEPT !.ok = FALSE] :
                                   e \in StatsPeriodic(d, FALSE)}
        BY <2>1, <3>2
      <4>2. p.port /\ p.drain /\ ~p.rxq /\ p \in Ports
        BY <1>5, <1>6, <1>9
      <4> QED
        BY <1>2, <2>2, <3>2, <4>1, <4>2, StartedPort
    <3> QED
      BY <3>1, <3>2
  <2>5. /\ sm' \in Sms /\ sm'.stopping = FALSE /\ sm'.link = sm.link
        /\ sm'.state = (IF port'.ok THEN "STARTED" ELSE sm.state)
        /\ sm'.promisc = sm.promisc /\ sm'.mcast = sm.mcast
        /\ sm'.laa = sm.laa /\ sm'.fcntl = sm.fcntl
    BY <1>1, <1>2, <2>1 DEF Sms
  <2>6. task' \in BOOLEAN /\ dirty' \subseteq Settings /\ task' = port'.ok
    <3>1. port'.ok \in BOOLEAN
      BY <2>4, PortTypes
    <3> QED
      BY <1>2, <1>6, <2>1, <3>1
  <2>7. Shape'
    BY <1>1, <1>2, <2>4, <2>5, <2>6 DEF Shape, Family
  <2>8. SameFilter(port, port')
    BY <1>7, <2>4 DEF SameFilter
  <2>9. CASE ~port'.ok
    <3>1. ~Started' /\ ~Running'
      BY <1>1, <2>5, <2>9 DEF Started, Running
    <3>2. port'.left # MaxFailures
      <4>1. port'.left \in Nat
        BY <2>4, PortTypes
      <4> QED
        BY <1>6, <1>7, <2>4, <2>9, <4>1, MacAssumption
    <3>3. PhaseInv'
      BY <1>6, <2>4, <2>5, <2>6, <2>9, <3>1, <3>2
         DEF PhaseInv, QuietWhenStopped
    <3>4. dirty' = dirty
      BY <2>1, <2>9
    <3>5. AskedInv'
      BY <2>5, <2>8, <3>1, <3>4 DEF IInv, AskedInv, SameFilter
    <3>6. ForceInv'
      BY <3>1 DEF ForceInv
    <3> QED
      BY <2>7, <3>3, <3>5, <3>6 DEF IInv
  <2>10. CASE port'.ok
    <3>1. Started' /\ Wanted' = Wanted
      BY <2>5, <2>10 DEF Started, Wanted
    <3>2. PhaseInv'
      BY <2>4, <2>5, <2>10, <3>1 DEF PhaseInv, QuietWhenStopped
    <3>3. dirty' = dirty \ {"addr", "fcntl"}
      BY <2>1, <2>10
    <3>4. AskedInv'
      BY <2>4, <2>5, <2>8, <2>10, <3>1, <3>3 DEF IInv, AskedInv, SameFilter
    <3>5. /\ AddrForce(port') = AddrForce(port)'
          /\ FilterForce(port') = FilterForce(port)'
          /\ FlowForce(port', sm.fcntl) = FlowForce(port, sm.fcntl)'
      BY <1>1, <2>5, ForcePrimed
    <3>6. ForceInv'
      BY <2>4, <2>10, <3>5 DEF ForceInv
    <3> QED
      BY <2>7, <3>2, <3>4, <3>6 DEF IInv
  <2> QED
    BY <2>9, <2>10
<1> QED
  BY <1>8, <1>9

-----------------------------------------------------------------------------
(* The invariant holds.                                                    *)
LEMMA InitInv == Init => IInv
<1> SUFFICES ASSUME Init
             PROVE  IInv
  OBVIOUS
<1>1. Family
  BY DEF Init, Family, Cfgs
<1>2. sm \in Sms /\ sm.state = "INITIALIZED" /\ ~sm.stopping
      /\ sm.link = "UNKNOWN" /\ ~sm.promisc /\ sm.mcast = {}
  BY DEF Init, Sms, Flow
<1>3. McReset \in Mcs /\ McReset.drain /\ ~McReset.periodic
  BY DEF McReset, Mcs, Addrs, Flows, Advs, DefaultAdv, Pause
<1>4. DefaultAdv \in Advs /\ BIA \in Addrs /\ MaxFailures \in 0..MaxFailures
  BY MacAssumption DEF DefaultAdv, Advs, Pause, Addrs
<1>5. /\ NewPort \in Ports /\ ~NewPort.port /\ ~NewPort.drain
      /\ ~NewPort.rxq /\ NewPort.mc = McReset /\ ~NewPort.uc
      /\ ~NewPort.allmc /\ ~NewPort.mulcst /\ NewPort.list = {}
  BY <1>3, <1>4 DEF NewPort, Ports
<1>6. port = NewPort /\ task = FALSE /\ dirty = {}
  BY DEF Init
<1>7. Shape
  BY <1>1, <1>2, <1>5, <1>6 DEF Shape
<1>8. ~Started /\ ~Running
  BY <1>2 DEF Started, Running
<1>9. PhaseInv
  BY <1>2, <1>3, <1>5, <1>6, <1>8 DEF PhaseInv, QuietWhenStopped
<1>10. AskedInv
  BY <1>2, <1>5, <1>6, <1>8 DEF AskedInv
<1>11. ForceInv
  BY <1>8 DEF ForceInv
<1> QED
  BY <1>7, <1>9, <1>10, <1>11 DEF IInv

(* Every step keeps the invariant.                                         *)
LEMMA Invariance == IInv /\ [Next]_vars => IInv'
<1> SUFFICES ASSUME IInv, [Next]_vars
             PROVE  IInv'
  OBVIOUS
<1>1. CASE UNCHANGED vars
  BY <1>1 DEF vars, IInv, Shape, PhaseInv, AskedInv, ForceInv, Family,
              QuietWhenStopped, Started, Running, Wanted, AddrForce,
              FilterForce, FlowForce, Filters, GroupsOf, Decode
<1>2. CASE Next
  <2>1. port.panic = "none"
    BY <1>2 DEF Next
  <2>2. CASE \E on \in BOOLEAN : PromiscSet(on) \/ RxqSet(on) \/ MacStart(on)
    BY <2>1, <2>2, PromiscSetKeeps, RxqSetKeeps, MacStartKeeps
  <2>3. CASE \E g \in Groups : MulticstAdd(g) \/ MulticstRemove(g)
    BY <2>1, <2>3, MulticstAddKeeps, MulticstRemoveKeeps
  <2>4. CASE UnicstSet("laa")
    BY <2>1, <2>4, UnicstSetKeeps
  <2>5. CASE \E f \in {{}, Flow} : MacFcntlSet(f)
    <3>1. \A f \in {{}, Flow} : f \in SUBSET Flow
      OBVIOUS
    <3> QED
      BY <2>1, <2>5, <3>1, MacFcntlSetKeeps
  <2>6. CASE \E c \in Speeds, on \in BOOLEAN : PhyCapSet(c, on)
    BY <2>1, <2>6, PhyCapSetKeeps
  <2>7. CASE MacStopBegin \/ MacStopEnd
    BY <2>1, <2>7, MacStopBeginKeeps, MacStopEndKeeps
  <2>8. CASE MacPoll("UP") \/ LinkEvent("UP")
    BY <2>1, <2>8, MacPollKeeps, LinkEventKeeps
  <2>9. CASE McReboot
    BY <2>1, <2>9, McRebootKeeps
  <2> QED
    BY <1>2, <2>2, <2>3, <2>4, <2>5, <2>6, <2>7, <2>8, <2>9 DEF Next, Steps
<1> QED
  BY <1>1, <1>2

(* The invariant of the MAC holds of every behaviour.                      *)
THEOREM MacInvariant == Spec => []IInv
BY InitInv, Invariance, PTL DEF Spec

(* While the MAC runs, the controller has the address, the promiscuous     *)
(* mode and the groups last asked for (sfxge_mac_start,                    *)
(* sfxge_mac_filter_apply, efx_mac_addr_set), whatever failed, restarted   *)
(* or rebooted in between.                                                 *)
THEOREM ProgrammedAlways == Spec => []Programmed
<1>1. IInv => Programmed
  <2> SUFFICES ASSUME IInv
               PROVE  Programmed
    OBVIOUS
  <2>1. TypeOK
    BY DEF IInv, Shape, TypeOK, Sms, Ports, Advs
  <2>2. ASSUME Running
        PROVE  /\ ~port.mc.drain
               /\ "addr" \notin dirty =>
                    /\ port.mc.addr = Wanted
                    /\ Filtering => port.mc.ucaddr = Wanted
               /\ "filter" \notin dirty /\ Filtering =>
                    /\ port.mc.uc = sm.promisc
                    /\ port.mc.groups = IF sm.promisc THEN Groups ELSE sm.mcast
    <3>1. Started /\ Filters(port) = Filtering
      BY <2>2 DEF Running, Filters, Filtering
    <3>2. "addr" \notin dirty => port.addr = Wanted /\ AddrForce(port)
      BY <2>2, <3>1 DEF IInv, AskedInv, ForceInv
    <3>3. "filter" \notin dirty =>
            /\ FilterForce(port) /\ port.uc = sm.promisc
            /\ GroupsOf(port) = IF sm.promisc THEN Groups ELSE sm.mcast
      BY <2>2 DEF IInv, AskedInv, ForceInv, GroupsOf
    <3> QED
      BY <2>2, <3>1, <3>2, <3>3 DEF IInv, ForceInv, AddrForce, FilterForce
  <2> QED
    BY <2>1, <2>2 DEF Programmed
<1> QED
  BY <1>1, MacInvariant, PTL

(* The flow control asked for is what the PHY advertises and, without      *)
(* auto-negotiation, what a Siena's MAC was told, whatever capabilities    *)
(* share the mask with it (efx_mac_fcntl_set, sfxge_phy_cap_set).          *)
THEOREM FlowControlAlways == Spec => []FlowControl
<1>1. IInv => FlowControl
  BY DEF IInv, ForceInv, FlowForce, FlowControl
<1> QED
  BY <1>1, MacInvariant, PTL

(* Once sfxge_mac_stop has returned the link is down, no poll task is left *)
(* and, unless a command failed, the controller is quiet, however late a   *)
(* link event comes.                                                       *)
THEOREM QuietWhenStoppedAlways == Spec => []QuietWhenStopped
<1>1. IInv => QuietWhenStopped
  BY DEF IInv, PhaseInv
<1> QED
  BY <1>1, MacInvariant, PTL
=============================================================================
