-------------------------- MODULE Ef10FilterProofs --------------------------
(***************************************************************************)
(* Proofs about Ef10Filter for any addresses, lists, table, search limit   *)
(* and hash.                                                               *)
(*                                                                         *)
(* The first invariant, HInv, relates the software table to the NIC.  An   *)
(* entry that is being inserted or deleted belongs to one call, every key  *)
(* is in one row at most, one where a search for it looks, and the NIC has *)
(* exactly the filters of the rows that are not being inserted.  It needs  *)
(* no assumption about when calls are made.                                *)
(*                                                                         *)
(* The second, SInv, says at every step of a reconfiguration which rows    *)
(* the marks and the index lists account for, of which kind their filters  *)
(* are, and what has been inserted of what was asked for.  It holds when   *)
(* requests do not overlap a start or stop of the receive queues, so that  *)
(* one call is in progress at a time.                                      *)
(***************************************************************************)
EXTENDS Ef10Filter, WellFoundedInduction, TLAPS

(* A call in progress.                                                     *)
Cfgs == [addr : Addrs, allu : BOOLEAN, mulcst : BOOLEAN, allm : BOOLEAN,
         bc : BOOLEAN, list : Lists \cup {<< >>}]
Pcs  == {"idle", "begin", "own", "allu", "wa", "fail", "preold", "allm", "list",
         "bcast", "listed", "undo", "midold", "old", "ret", "clru", "clrm"}
Calls == [pc : Pcs, sub : {"none", "add", "del"}, row : RowSet \cup {NoRow},
          arg : Cfgs \cup {<< >>}, i : Nat \ {0}, got : Seq(RowSet),
          roll : BOOLEAN, uerr : BOOLEAN, arc : BOOLEAN, mrc : BOOLEAN,
          rc : {"ok", "error", "ENOTSUP"}, next : Seq(Lists)]

Types ==
  /\ ep \in Cfgs /\ rxq \in BOOLEAN /\ allmc \in BOOLEAN /\ chain \in BOOLEAN
  /\ down \in BOOLEAN /\ panic \in BOOLEAN
  /\ tab \in [RowSet -> Keys \cup {Unset}]
  /\ busy \subseteq RowSet /\ old \subseteq RowSet /\ orphans \subseteq RowSet
  /\ ucl \in Seq(RowSet) /\ mcl \in Seq(RowSet)
  /\ cst \in {"down", "starting", "up", "clearing", "drain"}
  /\ th \in [Thr -> Calls]
  /\ \A p \in Thr : th[p].pc # "idle" => th[p].arg \in Cfgs

(* A set of naturals has a least element.                                  *)
LEMMA LeastElement ==
  ASSUME NEW T, T \subseteq Nat, T # {}
  PROVE  \E n \in T : \A m \in T : n <= m
<1> DEFINE R == {ss \in Nat \X Nat : ss[1] < ss[2]}
<1>1. IsWellFoundedOn(R, Nat)
  BY NatLessThanWellFounded DEF OpToRel
<1>2. PICK x \in T : \A y \in T : <<y, x>> \notin R
  BY <1>1, WFMin
<1>3. \A x1, y1 \in Nat : x1 < y1 => <<x1, y1>> \in R
  OBVIOUS
<1> HIDE DEF R
<1>4. ASSUME NEW m \in T PROVE x <= m
  <2>1. x \in Nat /\ m \in Nat
    OBVIOUS
  <2>2. <<m, x>> \notin R
    BY <1>2
  <2>3. ~(m < x)
    BY <2>1, <2>2, <1>3
  <2> QED
    BY <2>1, <2>3
<1> QED
  BY <1>4

(* A probe of a key is a row.                                              *)
LEMMA ProbeRow ==
  ASSUME NEW k \in Keys, NEW d \in 1..Limit
  PROVE  Probes(k)[d] \in RowSet
<1>1. /\ TblRows \in Nat \ {0} /\ HomeRow[k] \in Int /\ d \in Int
  BY Ef10FilterAssumption DEF Ef10FilterAssumption, RowSet
<1>2. \A a \in Int : a % TblRows \in 0..(TblRows - 1)
  BY <1>1
<1>3. Probes(k)[d] = (HomeRow[k] + d) % TblRows
  BY DEF Probes
<1> QED
  BY <1>1, <1>2, <1>3 DEF RowSet

LEMMA EmptySeqs ==
  << >> \in Seq(RowSet) /\ << >> \in Seq(Lists)
OBVIOUS

LEMMA CalmCall == Calm \in Calls
BY EmptySeqs DEF Calm, Calls, Pcs

(* A step of call p, which leaves it as t.                                 *)
Turn(p, t) == t \in Calls /\ th' = [th EXCEPT ![p] = t]

LEMMA TurnOne ==
  ASSUME Types, NEW p \in Thr, NEW t, Turn(p, t)
  PROVE  /\ th' \in [Thr -> Calls] /\ th'[p] = t
         /\ \A q \in Thr : q # p => th'[q] = th[q]
BY DEF Types, Turn

(* What the steps leave: a new call, or fields of the old one.             *)
LEMMA CallTurn ==
  ASSUME NEW p \in Thr, NEW e \in Cfgs, NEW n \in Seq(Lists), Call(p, e, n)
  PROVE  Turn(p, [Calm EXCEPT !.pc = "begin", !.arg = e, !.next = n])
<1>1. [Calm EXCEPT !.pc = "begin", !.arg = e, !.next = n] \in Calls
  BY CalmCall DEF Calls, Pcs
<1> QED
  BY <1>1 DEF Turn, Call

LEMMA GoTurn ==
  ASSUME Types, NEW p \in Thr, NEW x \in Pcs, Go(p, x)
  PROVE  Turn(p, [th[p] EXCEPT !.pc = x, !.sub = "none"])
<1>1. [th[p] EXCEPT !.pc = x, !.sub = "none"] \in Calls
  BY DEF Types, Calls
<1> QED
  BY <1>1 DEF Turn, Go, Types

(* After an insertion.                                                     *)
OwnNext(t, ok) ==
  [t EXCEPT !.sub = "none", !.uerr = ~ok,
            !.pc = IF t.arg.allu \/ ~ok THEN "allu" ELSE "wa"]
AlluNext(t, ok) ==
  [t EXCEPT !.sub = "none", !.arc = ~ok,
            !.pc = IF t.uerr /\ ~ok THEN "fail" ELSE "wa"]
AllmNext(t, ok) ==
  IF ok THEN [t EXCEPT !.pc = "old", !.sub = "none"]
  ELSE [t EXCEPT !.sub = "none", !.pc = "list", !.i = 1, !.got = << >>,
                 !.roll = FALSE, !.mrc = TRUE]
ListNext(t, ok, r) ==
  [t EXCEPT !.sub = "none", !.got = IF ok THEN Append(@, r) ELSE @, !.i = @ + 1,
            !.pc = IF ~ok /\ t.roll THEN "undo"
                   ELSE IF t.pc = "bcast" THEN "listed" ELSE "list"]

LEMMA OwnTurn ==
  ASSUME Types, NEW p \in Thr, NEW ok \in BOOLEAN, NEW r, OwnAdded(p, ok, r)
  PROVE  Turn(p, OwnNext(th[p], ok))
<1>1. OwnNext(th[p], ok) \in Calls
  <2>1. (IF th[p].arg.allu \/ ~ok THEN "allu" ELSE "wa") \in Pcs
    BY DEF Pcs
  <2>2. (~ok) \in BOOLEAN
    OBVIOUS
  <2> QED
    BY <2>1, <2>2 DEF Types, Calls, OwnNext
<1> QED
  BY <1>1 DEF Turn, OwnAdded, OwnNext, Types

LEMMA AlluTurn ==
  ASSUME Types, NEW p \in Thr, NEW ok \in BOOLEAN, NEW r, AlluAdded(p, ok, r)
  PROVE  Turn(p, AlluNext(th[p], ok))
<1>1. AlluNext(th[p], ok) \in Calls
  <2>1. (IF th[p].uerr /\ ~ok THEN "fail" ELSE "wa") \in Pcs
    BY DEF Pcs
  <2>2. (~ok) \in BOOLEAN
    OBVIOUS
  <2> QED
    BY <2>1, <2>2 DEF Types, Calls, AlluNext
<1> QED
  BY <1>1 DEF Turn, AlluAdded, AlluNext, Types

LEMMA AllmTurn ==
  ASSUME Types, NEW p \in Thr, NEW ok \in BOOLEAN, NEW r, AllmAdded(p, ok, r)
  PROVE  Turn(p, AllmNext(th[p], ok))
<1>1. AllmNext(th[p], ok) \in Calls
  <2>1. /\ th[p] \in Calls /\ "old" \in Pcs /\ "list" \in Pcs
        /\ << >> \in Seq(RowSet)
    BY EmptySeqs DEF Types, Pcs
  <2>2. [th[p] EXCEPT !.pc = "old", !.sub = "none"] \in Calls
    BY <2>1 DEF Calls
  <2> DEFINE e == << >>
  <2>3. [th[p] EXCEPT !.sub = "none", !.pc = "list", !.i = 1, !.got = e,
                      !.roll = FALSE, !.mrc = TRUE] \in Calls
    <3>1. e \in Seq(RowSet) /\ th[p] \in Calls /\ "list" \in Pcs /\ 1 \in Nat \ {0}
      BY <2>1
    <3> HIDE DEF e
    <3> QED
      BY <3>1 DEF Calls
  <2> QED
    BY <2>2, <2>3 DEF AllmNext
<1> QED
  BY <1>1 DEF Turn, AllmAdded, AllmNext, Types, Go

LEMMA ListTurn ==
  ASSUME Types, NEW p \in Thr, NEW ok \in BOOLEAN, NEW r, ok => r \in RowSet,
         ListAdded(p, ok, r)
  PROVE  Turn(p, ListNext(th[p], ok, r))
<1>1. th[p].got \in Seq(RowSet) /\ th[p].i \in Nat \ {0}
  BY DEF Types, Calls
<1>2. ok => Append(th[p].got, r) \in Seq(RowSet)
  BY <1>1
<1>3. ListNext(th[p], ok, r) \in Calls
  <2> DEFINE x == IF ~ok /\ th[p].roll THEN "undo"
                  ELSE IF th[p].pc = "bcast" THEN "listed" ELSE "list"
             g == IF ok THEN Append(th[p].got, r) ELSE th[p].got
             n == th[p].i + 1
  <2>1. ListNext(th[p], ok, r)
          = [th[p] EXCEPT !.sub = "none", !.got = g, !.i = n, !.pc = x]
    BY DEF ListNext
  <2>2. x \in Pcs
    BY DEF Pcs
  <2>3. g \in Seq(RowSet) /\ n \in Nat \ {0} /\ th[p] \in Calls
    BY <1>1, <1>2 DEF Types
  <2> HIDE DEF x, g, n
  <2> QED
    BY <2>1, <2>2, <2>3 DEF Calls
<1> QED
  BY <1>3 DEF Turn, ListAdded, ListNext, Types

(* The loops.                                                              *)
LEMMA StepCall ==
  ASSUME NEW t \in Calls, t.pc \in Loops,
         t.pc \in {"preold", "midold", "old"} => t.row \in RowSet
  PROVE  Step(t) \in Calls
<1>1. CASE t.pc \in {"clru", "clrm"}
  <2>1. Step(t) = [t EXCEPT !.i = t.i + 1, !.sub = "none"]
    BY <1>1 DEF Step
  <2>2. t.i + 1 \in Nat \ {0}
    BY DEF Calls
  <2> QED
    BY <2>1, <2>2 DEF Calls
<1>2. CASE t.pc = "undo"
  <2> DEFINE g == SubSeq(t.got, 1, Len(t.got) - 1)
  <2>1. Step(t) = [t EXCEPT !.got = g, !.sub = "none"]
    BY <1>2 DEF Step
  <2>2. g \in Seq(RowSet)
    <3>1. t.got \in Seq(RowSet)
      BY DEF Calls
    <3>2. \A i \in 1..(Len(t.got) - 1) : t.got[i] \in RowSet
      BY <3>1
    <3> QED
      BY <3>1, <3>2
  <2> HIDE DEF g
  <2> QED
    BY <2>1, <2>2 DEF Calls
<1>3. CASE t.pc \in {"preold", "midold", "old"}
  <2>1. Step(t) = [t EXCEPT !.i = t.row + 2, !.sub = "none"]
    BY <1>3 DEF Step
  <2>2. t.row + 2 \in Nat \ {0}
    BY <1>3, Ef10FilterAssumption DEF RowSet, Ef10FilterAssumption
  <2> QED
    BY <2>1, <2>2 DEF Calls
<1> QED
  BY <1>1, <1>2, <1>3 DEF Loops

LEMMA StepKeeps ==
  ASSUME NEW t \in Calls, t.pc \in Loops
  PROVE  Step(t).pc = t.pc /\ Step(t).sub = "none" /\ Step(t).arg = t.arg
BY DEF Step, Calls, Loops

LEMMA ClearedTurn ==
  ASSUME Types, NEW p \in Thr, Cleared(p)
  PROVE  Turn(p, [th[p] EXCEPT !.pc = IF @ = "clru" THEN "clrm" ELSE "ret", !.i = 1])
<1> DEFINE x == IF th[p].pc = "clru" THEN "clrm" ELSE "ret"
<1>1. x \in Pcs /\ th[p] \in Calls /\ 1 \in Nat \ {0}
  BY DEF Pcs, Types
<1>2. th' = [th EXCEPT ![p] = [th[p] EXCEPT !.pc = x, !.i = 1]]
  BY DEF Cleared, Types
<1> HIDE DEF x
<1>3. [th[p] EXCEPT !.pc = x, !.i = 1] \in Calls
  BY <1>1 DEF Calls
<1> QED
  BY <1>2, <1>3 DEF Turn, x

WaNext(t, c, a) ==
  [t EXCEPT !.i = 1, !.got = << >>, !.roll = ~t.arg.allm,
            !.pc = IF c /\ a # t.arg.allm THEN "preold"
                   ELSE IF t.arg.allm THEN "allm" ELSE "list"]

LEMMA WaTurn ==
  ASSUME Types, NEW p \in Thr, Workarounds(p, TRUE)
  PROVE  Turn(p, WaNext(th[p], chain, allmc))
<1> DEFINE x == IF chain /\ allmc # th[p].arg.allm THEN "preold"
                ELSE IF th[p].arg.allm THEN "allm" ELSE "list"
           b == ~th[p].arg.allm
           e == << >>
<1>1. x \in Pcs /\ b \in BOOLEAN /\ e \in Seq(RowSet) /\ th[p] \in Calls
      /\ 1 \in Nat \ {0}
  BY EmptySeqs DEF Pcs, Types
<1>2. th' = [th EXCEPT ![p] = [th[p] EXCEPT !.i = 1, !.got = e, !.roll = b, !.pc = x]]
  BY DEF Workarounds, RemoveFirst, Multicast, Types
<1>3. WaNext(th[p], chain, allmc)
        = [th[p] EXCEPT !.i = 1, !.got = e, !.roll = b, !.pc = x]
  BY DEF WaNext
<1> HIDE DEF x, b, e
<1>4. [th[p] EXCEPT !.i = 1, !.got = e, !.roll = b, !.pc = x] \in Calls
  BY <1>1 DEF Calls
<1> QED
  BY <1>2, <1>3, <1>4 DEF Turn

OldNext(t) ==
  [t EXCEPT !.i = 1,
            !.pc = CASE t.pc = "preold" -> IF t.arg.allm THEN "allm" ELSE "list"
                     [] t.pc = "midold" -> "allm"
                     [] OTHER -> "ret",
            !.rc = IF t.pc = "old" /\ Rejected(t) THEN "ENOTSUP" ELSE "ok"]

LEMMA OldTurn ==
  ASSUME Types, NEW p \in Thr, OldRemoved(p)
  PROVE  Turn(p, OldNext(th[p]))
<1> DEFINE x == CASE th[p].pc = "preold" -> IF th[p].arg.allm THEN "allm" ELSE "list"
                  [] th[p].pc = "midold" -> "allm"
                  [] OTHER -> "ret"
           c == IF th[p].pc = "old" /\ Rejected(th[p]) THEN "ENOTSUP" ELSE "ok"
<1>1. x \in Pcs /\ c \in {"ok", "error", "ENOTSUP"} /\ th[p] \in Calls
      /\ 1 \in Nat \ {0}
  BY DEF Pcs, Types, OldRemoved
<1>2. th' = [th EXCEPT ![p] = [th[p] EXCEPT !.i = 1, !.pc = x, !.rc = c]]
  BY DEF OldRemoved, Multicast, Types
<1>3. OldNext(th[p]) = [th[p] EXCEPT !.i = 1, !.pc = x, !.rc = c]
  BY DEF OldNext
<1> HIDE DEF x, c
<1>4. [th[p] EXCEPT !.i = 1, !.pc = x, !.rc = c] \in Calls
  BY <1>1 DEF Calls
<1> QED
  BY <1>2, <1>3, <1>4 DEF Turn

LEMMA AddedTurn ==
  ASSUME Types, NEW p \in Thr, NEW ok \in BOOLEAN, NEW r, ok => r \in RowSet,
         Added(p, ok, r)
  PROVE  /\ \E t : Turn(p, t) /\ t.sub = "none" /\ t.pc \notin {"idle", "begin"}
                   /\ t.arg = th[p].arg /\ t.pc # "ret"
         /\ ucl' \in Seq(RowSet) /\ mcl' \in Seq(RowSet) /\ allmc' \in BOOLEAN
         /\ th[p].pc \in {"own", "allu", "allm", "list", "bcast"}
<1>0. th[p] \in Calls
  BY DEF Types
<1>1. CASE OwnAdded(p, ok, r)
  <2>1. Turn(p, OwnNext(th[p], ok))
    BY <1>1, OwnTurn
  <2>2. /\ OwnNext(th[p], ok).sub = "none" /\ OwnNext(th[p], ok).arg = th[p].arg
        /\ OwnNext(th[p], ok).pc \in {"allu", "wa"}
    BY <1>0 DEF OwnNext, Calls
  <2>3. ucl' \in Seq(RowSet) /\ mcl' = mcl /\ allmc' = allmc
    BY <1>1 DEF OwnAdded, Types
  <2>4. th[p].pc = "own"
    BY <1>1 DEF OwnAdded
  <2> QED
    BY <2>1, <2>2, <2>3, <2>4 DEF Types
<1>2. CASE AlluAdded(p, ok, r)
  <2>1. Turn(p, AlluNext(th[p], ok))
    BY <1>2, AlluTurn
  <2>2. /\ AlluNext(th[p], ok).sub = "none" /\ AlluNext(th[p], ok).arg = th[p].arg
        /\ AlluNext(th[p], ok).pc \in {"fail", "wa"}
    BY <1>0 DEF AlluNext, Calls
  <2> QED
    BY <2>1, <2>2, <1>2 DEF AlluAdded, Types
<1>3. CASE AllmAdded(p, ok, r)
  <2>1. Turn(p, AllmNext(th[p], ok))
    BY <1>3, AllmTurn
  <2>2. /\ AllmNext(th[p], ok).sub = "none" /\ AllmNext(th[p], ok).arg = th[p].arg
        /\ AllmNext(th[p], ok).pc \in {"old", "list"}
    BY <1>0 DEF AllmNext, Calls
  <2>3. mcl' \in Seq(RowSet) /\ allmc' \in BOOLEAN /\ ucl' = ucl
    <3>1. r \in RowSet => << r >> \in Seq(RowSet)
      OBVIOUS
    <3>2. /\ ucl' = ucl
          /\ \/ r \in RowSet /\ mcl' = << r >> /\ allmc' = TRUE
             \/ mcl' = mcl /\ allmc' = allmc
      BY <1>3 DEF AllmAdded
    <3> QED
      BY <3>1, <3>2 DEF Types
  <2> QED
    BY <2>1, <2>2, <2>3, <1>3 DEF AllmAdded, Types
<1>4. CASE ListAdded(p, ok, r)
  <2>1. Turn(p, ListNext(th[p], ok, r))
    BY <1>4, ListTurn
  <2>2. /\ ListNext(th[p], ok, r).sub = "none"
        /\ ListNext(th[p], ok, r).arg = th[p].arg
        /\ ListNext(th[p], ok, r).pc \in {"undo", "listed", "list"}
    BY <1>0 DEF ListNext, Calls
  <2> QED
    BY <2>1, <2>2, <1>4 DEF ListAdded, Types
<1> QED
  BY <1>1, <1>2, <1>3, <1>4 DEF Added

(* What is inserted is a key.                                              *)
LEMMA ListSeq ==
  ASSUME NEW l \in Lists \cup {<< >>}, NEW i \in 1..Len(l)
  PROVE  l[i] \in Mcasts
<1>1. l \in Lists
  OBVIOUS
<1>2. l \in Seq(Mcasts)
  BY <1>1, Ef10FilterAssumption DEF Ef10FilterAssumption
<1> QED
  BY <1>2

LEMMA ListLen ==
  ASSUME NEW l \in Lists \cup {<< >>}
  PROVE  Len(l) \in Nat
<1>1. << >> \in Seq(Mcasts)
  OBVIOUS
<1>2. l \in Seq(Mcasts)
  BY <1>1, Ef10FilterAssumption DEF Ef10FilterAssumption
<1> QED
  BY <1>2

LEMMA ListedNat ==
  ASSUME NEW p, th[p].arg \in Cfgs
  PROVE  Listed(p) \in Nat /\ Listed(p) <= Len(th[p].arg.list)
<1>1. th[p].arg.list \in Lists \cup {<< >>}
  BY DEF Cfgs
<1>2. Len(th[p].arg.list) \in Nat
  BY <1>1, ListLen
<1> QED
  BY <1>2 DEF Listed

LEMMA GoalKey ==
  ASSUME Types, NEW p \in Thr, Adding(p), th[p].arg \in Cfgs
  PROVE  /\ Goal(p) \in Keys
         /\ th[p].pc = "own" => Goal(p) = th[p].arg.addr
         /\ th[p].pc = "allu" => Goal(p) = "ucdef"
         /\ th[p].pc = "allm" => Goal(p) = "mcdef"
         /\ th[p].pc = "bcast" => Goal(p) = "bcast"
         /\ th[p].pc = "list" => Goal(p) \in Mcasts
<1>1. /\ ep.list \in Lists \cup {<< >>} /\ th[p].arg.list \in Lists \cup {<< >>}
      /\ th[p].arg.addr \in Addrs
  BY DEF Types, Cfgs
<1>2. th[p].i \in Nat \ {0}
  BY DEF Types, Calls
<1>3. CASE th[p].pc = "list"
  <2>1. th[p].i <= Len(th[p].arg.list)
    <3>1. Len(th[p].arg.list) \in Nat
      BY <1>1, ListLen
    <3> QED
      BY <1>2, <1>3, <3>1 DEF Adding, Listed
  <2>2. th[p].i \in 1..Len(th[p].arg.list)
    BY <1>1, <1>2, <2>1, ListLen
  <2>3. th[p].i <= Len(ep.list) => th[p].i \in 1..Len(ep.list)
    BY <1>1, <1>2, ListLen
  <2>4. Goal(p) = IF th[p].i <= Len(ep.list) THEN ep.list[th[p].i]
                  ELSE th[p].arg.list[th[p].i]
    BY <1>3 DEF Goal
  <2>5. Goal(p) \in Mcasts
    <3>1. CASE th[p].i <= Len(ep.list)
      BY <3>1, <1>1, <2>3, <2>4, ListSeq
    <3>2. CASE ~(th[p].i <= Len(ep.list))
      BY <3>2, <1>1, <2>2, <2>4, ListSeq
    <3> QED
      BY <3>1, <3>2
  <2> QED
    BY <2>5, <1>3 DEF Keys
<1>4. CASE th[p].pc # "list"
  BY <1>1, <1>4 DEF Adding, Goal, Keys
<1> QED
  BY <1>3, <1>4

(* The row an insertion takes was free and is one that a search for the    *)
(* key probes.                                                             *)
LEMMA FirstUnused ==
  ASSUME tab \in [RowSet -> Keys \cup {Unset}], NEW k \in Keys, Unused(k) # {}
  PROVE  /\ First(k) \in RowSet /\ tab[First(k)] = Unset
         /\ \E d \in 1..Limit : Probes(k)[d] = First(k)
<1>1. Unused(k) \subseteq 1..Limit /\ 1..Limit \subseteq Nat
  BY Ef10FilterAssumption DEF Unused, Ef10FilterAssumption
<1>2. \E d \in Unused(k) : \A c \in Unused(k) : d <= c
  BY <1>1, LeastElement
<1> DEFINE m == CHOOSE d \in Unused(k) : \A c \in Unused(k) : d <= c
<1>3. m \in Unused(k)
  BY <1>2
<1>4. First(k) = Probes(k)[m]
  BY DEF First
<1> HIDE DEF m
<1>5. m \in 1..Limit /\ tab[Probes(k)[m]] = Unset
  BY <1>3 DEF Unused
<1> QED
  BY <1>4, <1>5, ProbeRow

-----------------------------------------------------------------------------
(* Every variable keeps its type.                                          *)
LEMMA TypesTurn ==
  ASSUME Types, NEW p \in Thr, NEW t, Turn(p, t), t.pc # "idle" => t.arg \in Cfgs
  PROVE  /\ th' \in [Thr -> Calls]
         /\ \A q \in Thr : th'[q].pc # "idle" => th'[q].arg \in Cfgs
BY TurnOne DEF Types

LEMMA InitTypes == ASSUME Init PROVE Types
<1>1. ep \in Cfgs
  <2>1. PICK a \in Addrs : ep = [addr |-> a, allu |-> FALSE, mulcst |-> FALSE,
                                 allm |-> FALSE, bc |-> FALSE, list |-> << >>]
    BY DEF Init
  <2> QED
    BY <2>1 DEF Cfgs
<1>2. th \in [Thr -> Calls] /\ \A p \in Thr : th[p].pc = "idle"
  BY CalmCall DEF Init, Calm
<1>3. ucl \in Seq(RowSet) /\ mcl \in Seq(RowSet)
  BY EmptySeqs DEF Init
<1>4. tab \in [RowSet -> Keys \cup {Unset}]
  BY DEF Init, Empty
<1> QED
  BY <1>1, <1>2, <1>3, <1>4 DEF Init, Types

(* The calls of the stack and of the receive queues.                       *)
Fresh(e, n) == [Calm EXCEPT !.pc = "begin", !.arg = e, !.next = n]

LEMMA FreshFields ==
  ASSUME NEW e, NEW n
  PROVE  /\ Fresh(e, n).pc = "begin" /\ Fresh(e, n).sub = "none"
         /\ Fresh(e, n).arg = e /\ Fresh(e, n).i = 1
         /\ Calm.pc = "idle" /\ Calm.sub = "none"
BY DEF Fresh, Calm

(* A request that is refused leaves the settings, and the call as it was   *)
(* but for the list that was to come.                                      *)
Stays(t, n) == [t EXCEPT !.next = n]

LEMMA StaysFields ==
  ASSUME NEW t \in Calls, NEW n \in Seq(Lists)
  PROVE  /\ Stays(t, n) \in Calls
         /\ Stays(t, n).pc = t.pc /\ Stays(t, n).sub = t.sub
         /\ Stays(t, n).row = t.row /\ Stays(t, n).arg = t.arg
         /\ Stays(t, n).i = t.i /\ Stays(t, n).got = t.got
         /\ Stays(t, n).roll = t.roll /\ Stays(t, n).uerr = t.uerr
         /\ Stays(t, n).arc = t.arc /\ Stays(t, n).mrc = t.mrc
         /\ Stays(t, n).rc = t.rc
BY DEF Stays, Calls

LEMMA RefusedTurn ==
  ASSUME Types, NEW e, NEW n, MacReconfigure(e, n, FALSE)
  PROVE  ep' = ep /\ Turn("mac", Stays(th["mac"], << >>))
<1>1. th["mac"] \in Calls
  BY DEF Types, Thr
<1>2. Stays(th["mac"], << >>) \in Calls
  BY <1>1, EmptySeqs, StaysFields
<1>3. ep' = ep /\ th' = [th EXCEPT !["mac"] = [th["mac"] EXCEPT !.next = << >>]]
  BY DEF MacReconfigure, Types
<1> QED
  BY <1>2, <1>3 DEF Turn, Stays

LEMMA UnchangedTurn ==
  ASSUME Types, NEW p \in Thr, th' = th
  PROVE  \E n \in Seq(Lists) : Turn(p, Stays(th[p], n))
<1>1. th[p] \in Calls /\ th[p].next \in Seq(Lists)
  BY DEF Types, Calls
<1>2. Stays(th[p], th[p].next) = th[p]
  BY <1>1 DEF Stays, Calls
<1> QED
  BY <1>1, <1>2 DEF Turn, Types

LEMMA ApplyTurn ==
  ASSUME Types, NEW promisc \in Promiscs, NEW list \in Lists,
         FilterApply(promisc, list, TRUE)
  PROVE  ep' \in Cfgs /\ Turn("mac", Fresh(ep', << list >>))
<1> DEFINE e == [ep EXCEPT !.allu = (promisc = "ALL_PHYS"), !.bc = TRUE,
                           !.mulcst = (list # << >>), !.allm = (promisc # "OFF")]
<1>1. e \in Cfgs
  BY DEF Types, Cfgs
<1>2. ep' = e /\ Call("mac", e, << list >>)
  BY DEF FilterApply, MacReconfigure
<1>3. << list >> \in Seq(Lists)
  OBVIOUS
<1> HIDE DEF e
<1> QED
  BY <1>1, <1>2, <1>3, CallTurn DEF Thr, Fresh

LEMMA ListSetTurn ==
  ASSUME Types, ListSet(TRUE)
  PROVE  ep' \in Cfgs /\ Turn("mac", Fresh(ep', << >>))
<1>1. th["mac"].next \in Seq(Lists) /\ th["mac"].next # << >>
  BY DEF Types, Calls, Thr, ListSet
<1>2. th["mac"].next[1] \in Lists
  BY <1>1
<1> DEFINE e == [ep EXCEPT !.list = th["mac"].next[1]]
<1>3. e \in Cfgs
  BY <1>2 DEF Types, Cfgs
<1>4. ep' = e /\ Call("mac", e, << >>)
  BY DEF ListSet, MacReconfigure
<1> HIDE DEF e
<1> QED
  BY <1>3, <1>4, EmptySeqs, CallTurn DEF Thr, Fresh

LEMMA AddrTurn ==
  ASSUME Types, NEW a \in Addrs, NEW v \in BOOLEAN, AddrSet(a, v, TRUE)
  PROVE  ep' \in Cfgs /\ (th' = th \/ Turn("mac", Fresh(ep', << >>)))
<1> DEFINE e == [ep EXCEPT !.addr = a]
<1>1. e \in Cfgs
  BY DEF Types, Cfgs
<1>2. ep' = e /\ (th' = th \/ Call("mac", e, << >>))
  BY DEF AddrSet, MacReconfigure
<1> HIDE DEF e
<1> QED
  BY <1>1, <1>2, EmptySeqs, CallTurn DEF Thr, Fresh

LEMMA RxTurn ==
  ASSUME Types, RxStart \/ RxStop \/ MacDrain(TRUE)
  PROVE  ep' \in Cfgs /\ Turn("ctl", Fresh(ep', << >>))
<1>1. Call("ctl", ep, << >>) /\ ep' = ep
  BY DEF RxStart, RxStop, MacDrain
<1> QED
  BY <1>1, EmptySeqs, CallTurn DEF Thr, Fresh, Types

(* The requests that are refused before they reach the filters.            *)
Refused ==
  \/ \E promisc \in Promiscs, list \in Lists : FilterApply(promisc, list, FALSE)
  \/ \E a \in Addrs, v \in BOOLEAN : AddrSet(a, v, FALSE)
  \/ ListSet(FALSE) \/ MacDrain(FALSE)

LEMMA RefusedStays ==
  ASSUME Types, Refused
  PROVE  \E p \in Thr, n \in Seq(Lists) :
           /\ Turn(p, Stays(th[p], n)) /\ th[p].pc \in {"idle", "ret"}
           /\ ep' = ep /\ chain' = chain /\ down' = down /\ panic' = panic
           /\ tabvars' = tabvars /\ lstvars' = lstvars /\ orphans' = orphans
           /\ \/ /\ p = "mac" /\ cst' = cst /\ rxq' = rxq
                 /\ th[p].pc = "ret" \/ Free(p)
              \/ /\ p = "ctl" /\ cst' = "drain" /\ rxq' = FALSE
                 /\ th["mac"].pc = "idle" /\ th[p].pc = "ret"
<1> DEFINE Mac(n) == /\ Turn("mac", Stays(th["mac"], n)) /\ th["mac"].pc \in {"idle", "ret"}
                     /\ ep' = ep /\ chain' = chain /\ down' = down /\ panic' = panic
                     /\ tabvars' = tabvars /\ lstvars' = lstvars /\ orphans' = orphans
                     /\ cst' = cst /\ rxq' = rxq
                     /\ th["mac"].pc = "ret" \/ Free("mac")
<1>0. "mac" \in Thr /\ "ctl" \in Thr /\ << >> \in Seq(Lists)
  BY EmptySeqs DEF Thr
<1>1. ASSUME NEW promisc \in Promiscs, NEW list \in Lists, FilterApply(promisc, list, FALSE)
      PROVE  Mac(<< >>)
  <2>1. ep' = ep /\ Turn("mac", Stays(th["mac"], << >>))
    BY <1>1, RefusedTurn DEF FilterApply
  <2> QED
    BY <1>1, <2>1 DEF FilterApply, Free
<1>2. ASSUME NEW a \in Addrs, NEW v \in BOOLEAN, AddrSet(a, v, FALSE)
      PROVE  \E n \in Seq(Lists) : Mac(n)
  <2>1. ep' = ep /\ \E n \in Seq(Lists) : Turn("mac", Stays(th["mac"], n))
    <3>1. CASE v
      BY <1>0, <1>2, <3>1, UnchangedTurn DEF AddrSet
    <3>2. CASE ~v
      BY <1>0, <1>2, <3>2, RefusedTurn DEF AddrSet
    <3> QED
      BY <3>1, <3>2
  <2> QED
    BY <1>2, <2>1 DEF AddrSet, Free
<1>3. CASE ListSet(FALSE)
  <2>1. ep' = ep /\ Turn("mac", Stays(th["mac"], << >>))
    BY <1>3, RefusedTurn DEF ListSet
  <2> QED
    BY <1>0, <1>3, <2>1 DEF ListSet
<1>4. CASE MacDrain(FALSE)
  <2>1. \E n \in Seq(Lists) : Turn("ctl", Stays(th["ctl"], n))
    BY <1>0, <1>4, UnchangedTurn DEF MacDrain
  <2> QED
    BY <1>0, <1>4, <2>1 DEF MacDrain
<1>5. ASSUME NEW n \in Seq(Lists), Mac(n) PROVE \E m \in Seq(Lists) : Mac(m)
  BY <1>5
<1>6. CASE \E n \in Seq(Lists) : Mac(n)
  BY <1>0, <1>6
<1> HIDE DEF Mac
<1> QED
  BY <1>0, <1>1, <1>2, <1>3, <1>4, <1>6 DEF Refused

LEMMA CalmTurn ==
  ASSUME NEW p \in Thr, th' = [th EXCEPT ![p] = Calm]
  PROVE  Turn(p, Calm)
BY CalmCall DEF Turn

(* The steps of a reconfiguration.                                         *)
LEMMA BeginTurn ==
  ASSUME Types, NEW p \in Thr, Begin(p)
  PROVE  /\ Turn(p, [th[p] EXCEPT !.pc = IF rxq THEN "own" ELSE "clru",
                                  !.sub = "none"])
         /\ ucl' \in Seq(RowSet) /\ old' \subseteq RowSet
<1>1. Turn(p, [th[p] EXCEPT !.pc = IF rxq THEN "own" ELSE "clru", !.sub = "none"])
  <2>1. CASE rxq
    <3>1. "own" \in Pcs /\ Go(p, "own")
      BY <2>1 DEF Pcs, Begin
    <3> QED
      BY <2>1, <3>1, GoTurn
  <2>2. CASE ~rxq
    <3>1. "clru" \in Pcs /\ Go(p, "clru")
      BY <2>2 DEF Pcs, Begin
    <3> QED
      BY <2>2, <3>1, GoTurn
  <2> QED
    BY <2>1, <2>2
<1>2. InMcl \subseteq RowSet /\ InUcl \subseteq RowSet
  BY DEF Types, InMcl, InUcl
<1> QED
  BY <1>1, <1>2, EmptySeqs DEF Begin, Types, Marked, NoUcl

LEMMA ListDoneTurn ==
  ASSUME Types, NEW p \in Thr, ListDone(p)
  PROVE  \/ /\ th[p].pc = "list" /\ th[p].i > Listed(p) /\ mcl' = mcl
            /\ Turn(p, [th[p] EXCEPT !.pc = "bcast", !.sub = "none"])
         \/ /\ th[p].pc = "listed" \/ (th[p].pc = "bcast" /\ ~th[p].arg.bc)
            /\ mcl' = th[p].got /\ allmc' = FALSE
            /\ Turn(p, [th[p] EXCEPT !.pc = "old", !.i = 1])
         \/ /\ th[p].pc = "undo" /\ th[p].sub = "none" /\ th[p].got = << >>
            /\ mcl' = << >> /\ allmc' = allmc
            /\ Turn(p, [th[p] EXCEPT !.i = 1,
                          !.pc = IF chain /\ ~allmc THEN "midold" ELSE "allm"])
<1>0. th[p] \in Calls /\ 1 \in Nat \ {0} /\ {"bcast", "old", "midold", "allm"} \subseteq Pcs
  BY DEF Types, Pcs
<1>1. CASE th[p].pc = "list" /\ th[p].i > Listed(p) /\ Go(p, "bcast") /\ mcl' = mcl
  BY <1>0, <1>1, GoTurn
<1>2. CASE /\ th[p].pc = "listed" \/ (th[p].pc = "bcast" /\ ~th[p].arg.bc)
           /\ mcl' = Indexes(p) /\ allmc' = FALSE
           /\ th' = [th EXCEPT ![p].pc = "old", ![p].i = 1]
  <2>1. [th[p] EXCEPT !.pc = "old", !.i = 1] \in Calls
    BY <1>0 DEF Calls
  <2>2. th' = [th EXCEPT ![p] = [th[p] EXCEPT !.pc = "old", !.i = 1]]
    BY <1>2 DEF Types
  <2> QED
    BY <1>2, <2>1, <2>2 DEF Turn, Indexes
<1>3. CASE /\ th[p].pc = "undo" /\ th[p].sub = "none" /\ th[p].got = << >>
           /\ mcl' = << >> /\ UNCHANGED allmc
           /\ th' = [th EXCEPT ![p].i = 1,
                       ![p].pc = IF chain /\ ~allmc THEN "midold" ELSE "allm"]
  <2> DEFINE x == IF chain /\ ~allmc THEN "midold" ELSE "allm"
  <2>1. x \in Pcs
    BY <1>0
  <2>2. th' = [th EXCEPT ![p] = [th[p] EXCEPT !.i = 1, !.pc = x]]
    BY <1>3 DEF Types
  <2> HIDE DEF x
  <2>3. [th[p] EXCEPT !.i = 1, !.pc = x] \in Calls
    BY <1>0, <2>1 DEF Calls
  <2> QED
    BY <1>3, <2>2, <2>3 DEF Turn, x
<1> QED
  BY <1>1, <1>2, <1>3 DEF ListDone

LEMMA FailTurn ==
  ASSUME Types, NEW p \in Thr, Fail(p)
  PROVE  Turn(p, [th[p] EXCEPT !.pc = "ret", !.rc = "error"])
<1>1. th[p] \in Calls /\ "ret" \in Pcs
  BY DEF Types, Pcs
<1>2. [th[p] EXCEPT !.pc = "ret", !.rc = "error"] \in Calls
  BY <1>1 DEF Calls
<1> QED
  BY <1>2 DEF Turn, Fail, Types

LEMMA WaFailTurn ==
  ASSUME Types, NEW p \in Thr, Workarounds(p, FALSE)
  PROVE  Turn(p, [th[p] EXCEPT !.pc = "fail", !.sub = "none"])
<1>1. Go(p, "fail") /\ "fail" \in Pcs
  BY DEF Workarounds, Pcs
<1> QED
  BY <1>1, GoTurn

LEMMA AddEntryTurn ==
  ASSUME Types, NEW p \in Thr, AddEntry(p), Unused(Goal(p)) # {},
         th[p].arg \in Cfgs
  PROVE  /\ First(Goal(p)) \in RowSet /\ tab[First(Goal(p))] = Unset
         /\ Turn(p, [th[p] EXCEPT !.sub = "add", !.row = First(Goal(p))])
<1>1. Goal(p) \in Keys
  BY GoalKey DEF AddEntry
<1>2. First(Goal(p)) \in RowSet /\ tab[First(Goal(p))] = Unset
  BY <1>1, FirstUnused DEF Types
<1>3. th[p] \in Calls /\ First(Goal(p)) \in RowSet \cup {NoRow}
  BY <1>2 DEF Types
<1>4. [th[p] EXCEPT !.sub = "add", !.row = First(Goal(p))] \in Calls
  BY <1>3 DEF Calls
<1>5. th' = [th EXCEPT ![p] = [th[p] EXCEPT !.sub = "add", !.row = First(Goal(p))]]
  BY DEF AddEntry, Types
<1> QED
  BY <1>2, <1>4, <1>5 DEF Turn

LEMMA DeleteEntryTurn ==
  ASSUME Types, NEW p \in Thr, DeleteEntry(p)
  PROVE  /\ tab[RowIn(p)] = Unset =>
              /\ [th[p] EXCEPT !.row = RowIn(p)] \in Calls
              /\ Turn(p, Step([th[p] EXCEPT !.row = RowIn(p)]))
         /\ tab[RowIn(p)] # Unset =>
              Turn(p, [th[p] EXCEPT !.sub = "del", !.row = RowIn(p)])
<1>1. th[p] \in Calls /\ RowIn(p) \in RowSet /\ th[p].pc \in Loops
  BY DEF Types, DeleteEntry
<1> DEFINE u == [th[p] EXCEPT !.row = RowIn(p)]
           v == [th[p] EXCEPT !.sub = "del", !.row = RowIn(p)]
<1>2. u \in Calls /\ u.pc \in Loops /\ u.row \in RowSet
  BY <1>1 DEF Calls
<1>3. v \in Calls
  BY <1>1 DEF Calls
<1>4. Step(u) \in Calls
  <2> HIDE DEF u
  <2> QED
    BY <1>2, StepCall
<1>5. CASE tab[RowIn(p)] = Unset
  <2>1. th' = [th EXCEPT ![p] = Step(u)]
    BY <1>5 DEF DeleteEntry, Types
  <2> QED
    BY <2>1, <1>2, <1>4, <1>5 DEF Turn
<1>6. CASE tab[RowIn(p)] # Unset
  <2>1. th' = [th EXCEPT ![p] = v]
    BY <1>6 DEF DeleteEntry, Types
  <2> QED
    BY <2>1, <1>3, <1>6 DEF Turn
<1> QED
  BY <1>5, <1>6

LEMMA DeleteMcdiTurn ==
  ASSUME Types, NEW p \in Thr, DeleteMcdi(p), th[p].pc \in Loops,
         th[p].row \in RowSet
  PROVE  Turn(p, Step(th[p]))
<1>1. Step(th[p]) \in Calls
  BY StepCall DEF Types
<1> QED
  BY <1>1 DEF Turn, DeleteMcdi, Types

-----------------------------------------------------------------------------
(* The table and the NIC.                                                  *)

(* A call that has dropped the lock for an MCDI request owns the entry     *)
(* that it inserts or deletes: that entry is in use and busy.              *)
Claims(p) ==
  /\ th[p].sub = "add" => Adding(p)
  /\ th[p].sub = "del" => th[p].pc \in Loops
  /\ th[p].sub # "none" =>
       th[p].row \in RowSet /\ th[p].row \in busy /\ tab[th[p].row] # Unset

Claimed == \A p \in Thr : Claims(p)

Apart == \A p, q \in Thr :
           p # q /\ th[p].sub # "none" /\ th[q].sub # "none" => th[p].row # th[q].row

Owned == \A r \in busy : \E p \in Thr : th[p].sub # "none" /\ th[p].row = r

(* A key is in one row only, where a search for it looks.                  *)
Placed ==
  \A r \in RowSet : tab[r] # Unset => \E d \in 1..Limit : Probes(tab[r])[d] = r

Unique ==
  \A r, s \in RowSet : tab[r] # Unset /\ tab[r] = tab[s] => r = s

(* The NIC has the filters of the entries that are not being inserted.     *)
Coming(r) == \E p \in Thr : th[p].sub = "add" /\ th[p].row = r
Live      == {r \in RowSet : tab[r] # Unset /\ ~Coming(r)}
InNic     == hw = IF down THEN {} ELSE {tab[r] : r \in Live}

(* The drain of the MAC waits for the requests of the stack.               *)
Drained == cst = "drain" => th["mac"].pc = "idle"

HInv ==
  /\ Types /\ Claimed /\ Apart /\ Owned /\ Placed /\ Unique /\ InNic /\ Drained

(* Only a call that inserts or deletes has an entry.                       *)
LEMMA NoEntry ==
  ASSUME HInv, NEW p \in Thr, th[p].pc \notin Loops, ~Adding(p)
  PROVE  th[p].sub = "none"
<1>1. th[p].sub \in {"none", "add", "del"}
  BY DEF HInv, Types, Calls
<1>2. Claims(p)
  BY DEF HInv, Claimed
<1> QED
  BY <1>1, <1>2 DEF Claims

(* Steps that leave the table, the NIC and the entries of calls alone.     *)
LEMMA HQuiet ==
  ASSUME HInv, Types', NEW p \in Thr, NEW t, Turn(p, t), t.sub = "none",
         th[p].sub = "none", tab' = tab, busy' = busy, hw' = hw, down' = down,
         Drained'
  PROVE  HInv'
<1>0. Types /\ th'[p] = t /\ \A q \in Thr : q # p => th'[q] = th[q]
  BY TurnOne DEF HInv
<1>1. \A q \in Thr : th'[q].sub = th[q].sub /\ (th'[q].sub # "none" => th'[q] = th[q])
  BY <1>0
<1>2. Claimed'
  <2> SUFFICES ASSUME NEW q \in Thr PROVE Claims(q)'
    BY DEF Claimed
  <2>1. Claims(q)
    BY DEF HInv, Claimed
  <2>2. CASE th'[q].sub = "none"
    BY <2>2 DEF Claims
  <2>3. CASE th'[q].sub # "none"
    <3>1. th'[q] = th[q]
      BY <1>1, <2>3
    <3> QED
      BY <3>1, <2>1 DEF Claims, Adding, Listed
  <2> QED
    BY <2>2, <2>3
<1>3. Apart' /\ Owned'
  BY <1>1 DEF HInv, Apart, Owned
<1>4. Placed' /\ Unique'
  BY DEF HInv, Placed, Unique, Probes
<1>5. Live' = Live
  <2>1. \A r : Coming(r)' <=> Coming(r)
    BY <1>1 DEF Coming
  <2> QED
    BY <2>1 DEF Live
<1>6. InNic'
  BY <1>5 DEF HInv, InNic
<1> QED
  BY <1>2, <1>3, <1>4, <1>6 DEF HInv

LEMMA HInit == ASSUME Init PROVE HInv
<1>1. Types
  BY InitTypes
<1>2. \A p \in Thr : th[p].sub = "none"
  BY DEF Init, Calm
<1>3. \A r \in RowSet : tab[r] = Unset
  BY DEF Init, Empty
<1>4. hw = {} /\ busy = {} /\ down = FALSE /\ cst = "down"
  BY DEF Init
<1>5. Live = {}
  BY <1>3 DEF Live
<1> QED
  BY <1>1, <1>2, <1>3, <1>4, <1>5
     DEF HInv, Claimed, Claims, Apart, Owned, Placed, Unique, InNic, Drained

(* The steps of the requests and of the receive queues.                    *)
LEMMA HCallers ==
  ASSUME HInv, Callers
  PROVE  HInv'
<1>0. Types /\ "mac" \in Thr /\ "ctl" \in Thr
  BY DEF HInv, Thr
<1>1. ASSUME NEW p \in Thr, th[p].pc \in {"idle", "ret"} PROVE th[p].sub = "none"
  BY <1>1, NoEntry DEF Adding, Loops
<1>2. ASSUME NEW promisc \in Promiscs, NEW list \in Lists, FilterApply(promisc, list, TRUE)
      PROVE  HInv'
  <2>1. ep' \in Cfgs /\ Turn("mac", Fresh(ep', << list >>))
    BY <1>0, <1>2, ApplyTurn
  <2>2. Types'
    <3>1. Fresh(ep', << list >>).arg \in Cfgs
      BY <2>1, FreshFields
    <3>2. /\ th' \in [Thr -> Calls]
          /\ \A q \in Thr : th'[q].pc # "idle" => th'[q].arg \in Cfgs
      BY <2>1, <3>1, <1>0, TypesTurn
    <3> QED
      BY <2>1, <3>2, <1>0, <1>2 DEF FilterApply, Types, tabvars, lstvars
  <2>3. th["mac"].sub = "none"
    BY <1>0, <1>1, <1>2 DEF FilterApply, Free
  <2>4. Drained'
    BY <1>2 DEF FilterApply, Drained
  <2> QED
    <3>1. tab' = tab /\ busy' = busy /\ hw' = hw /\ down' = down
      BY <1>2 DEF FilterApply, tabvars
    <3>2. Fresh(ep', << list >>).sub = "none"
      BY FreshFields
    <3> QED
      BY <1>0, <3>1, <3>2, <2>1, <2>2, <2>3, <2>4, HQuiet
<1>3. ASSUME NEW a \in Addrs, NEW v \in BOOLEAN, AddrSet(a, v, TRUE) PROVE HInv'
  <2>1. ep' \in Cfgs /\ (th' = th \/ Turn("mac", Fresh(ep', << >>)))
    BY <1>0, <1>3, AddrTurn
  <2>2. Types'
    BY <2>1, <1>0, <1>3, TypesTurn, FreshFields DEF AddrSet, Types, tabvars, lstvars
  <2>3. th["mac"].sub = "none"
    BY <1>0, <1>1, <1>3 DEF AddrSet, Free
  <2>4. Drained'
    BY <1>3 DEF AddrSet, Drained
  <2>5. CASE th' = th
    BY <2>2, <2>4, <2>5, <1>3
       DEF HInv, AddrSet, tabvars, Claimed, Claims, Apart, Owned, Placed, Unique,
           InNic, Live, Coming, Probes, Adding, Listed
  <2>6. CASE Turn("mac", Fresh(ep', << >>))
    BY <1>0, <1>3, <2>6, <2>2, <2>3, <2>4, HQuiet, FreshFields DEF AddrSet, tabvars
  <2> QED
    BY <2>1, <2>5, <2>6
<1>4. CASE ListSet(TRUE)
  <2>1. ep' \in Cfgs /\ Turn("mac", Fresh(ep', << >>))
    BY <1>0, <1>4, ListSetTurn
  <2>2. Types'
    BY <2>1, <1>0, <1>4, TypesTurn, FreshFields
       DEF ListSet, Types, tabvars, lstvars, cntvars
  <2>3. th["mac"].sub = "none"
    BY <1>0, <1>1, <1>4 DEF ListSet
  <2>4. Drained'
    BY <1>4 DEF ListSet, Drained, HInv
  <2> QED
    BY <1>0, <1>4, <2>1, <2>2, <2>3, <2>4, HQuiet, FreshFields DEF ListSet, tabvars
<1>5. CASE MacReturn
  <2>1. Turn("mac", Calm)
    BY <1>0, <1>5, CalmTurn DEF MacReturn
  <2>2. Types'
    BY <2>1, <1>0, <1>5, TypesTurn, FreshFields
       DEF MacReturn, Types, tabvars, lstvars, cntvars, cfgvars
  <2>3. th["mac"].sub = "none"
    BY <1>0, <1>1, <1>5 DEF MacReturn
  <2>4. Drained'
    BY <1>5 DEF MacReturn, Drained, HInv, cfgvars
  <2> QED
    BY <1>0, <1>5, <2>1, <2>2, <2>3, <2>4, HQuiet, FreshFields
       DEF MacReturn, tabvars, cfgvars
<1>6. CASE RxStart \/ RxStop \/ MacDrain(TRUE)
  <2>1. ep' \in Cfgs /\ Turn("ctl", Fresh(ep', << >>))
    BY <1>0, <1>6, RxTurn
  <2>2. Types'
    <3>1. /\ rxq' \in BOOLEAN /\ chain' = chain /\ down' = down /\ allmc' = allmc
          /\ cst' \in {"down", "starting", "up", "clearing", "drain"}
          /\ tab' = tab /\ busy' = busy /\ old' = old /\ orphans' = orphans
          /\ ucl' = ucl /\ mcl' = mcl /\ panic' = panic
      BY <1>6 DEF RxStart, RxStop, MacDrain, tabvars, lstvars, cntvars
    <3> QED
      <4>1. Fresh(ep', << >>).arg \in Cfgs
        BY <2>1, FreshFields
      <4>2. /\ th' \in [Thr -> Calls]
            /\ \A q \in Thr : th'[q].pc # "idle" => th'[q].arg \in Cfgs
        BY <2>1, <4>1, <1>0, TypesTurn
      <4> QED
        BY <2>1, <3>1, <4>2, <1>0 DEF Types
  <2>3. th["ctl"].sub = "none"
    BY <1>0, <1>1, <1>6 DEF RxStart, RxStop, MacDrain, Free
  <2>4. Drained'
    <3>1. th'["mac"] = th["mac"]
      BY <1>0, <2>1, TurnOne
    <3> QED
      BY <1>6, <3>1 DEF RxStart, RxStop, MacDrain, Drained, HInv
  <2>5. tab' = tab /\ busy' = busy /\ hw' = hw /\ down' = down
    BY <1>6 DEF RxStart, RxStop, MacDrain, tabvars
  <2> QED
    BY <1>0, <2>5, <2>1, <2>2, <2>3, <2>4, HQuiet, FreshFields
<1>7. CASE RxStarted
  <2>1. Turn("ctl", Calm)
    BY <1>0, <1>7, CalmTurn DEF RxStarted
  <2>2. Types'
    BY <2>1, <1>0, <1>7, TypesTurn, FreshFields
       DEF RxStarted, Types, tabvars, lstvars, cntvars
  <2>3. th["ctl"].sub = "none"
    BY <1>0, <1>1, <1>7 DEF RxStarted
  <2>4. Drained'
    BY <1>7 DEF RxStarted, Drained
  <2> QED
    BY <1>0, <1>7, <2>1, <2>2, <2>3, <2>4, HQuiet, FreshFields DEF RxStarted, tabvars
<1>8. CASE Refused
  <2>1. PICK p \in Thr, n \in Seq(Lists) :
          /\ Turn(p, Stays(th[p], n)) /\ th[p].pc \in {"idle", "ret"}
          /\ ep' = ep /\ chain' = chain /\ down' = down /\ panic' = panic
          /\ tabvars' = tabvars /\ lstvars' = lstvars /\ orphans' = orphans
          /\ \/ p = "mac" /\ cst' = cst /\ rxq' = rxq
             \/ p = "ctl" /\ cst' = "drain" /\ rxq' = FALSE /\ th["mac"].pc = "idle"
    BY <1>0, <1>8, RefusedStays
  <2> DEFINE t == Stays(th[p], n)
  <2>2. /\ t.pc = th[p].pc /\ t.sub = th[p].sub /\ t.arg = th[p].arg /\ th[p].sub = "none"
    BY <1>0, <1>1, <2>1, StaysFields DEF Types
  <2> HIDE DEF t
  <2>3. Types'
    <3>1. t.pc # "idle" => t.arg \in Cfgs
      BY <1>0, <2>2 DEF Types
    <3>2. /\ th' \in [Thr -> Calls]
          /\ \A q \in Thr : th'[q].pc # "idle" => th'[q].arg \in Cfgs
      BY <1>0, <2>1, <3>1, TypesTurn DEF t
    <3> QED
      BY <1>0, <2>1, <3>2 DEF Types, tabvars, lstvars
  <2>4. Drained'
    <3>1. th'[p] = t /\ \A q \in Thr : q # p => th'[q] = th[q]
      BY <1>0, <2>1, TurnOne DEF t
    <3> QED
      BY <1>0, <2>1, <2>2, <3>1 DEF HInv, Drained
  <2> QED
    BY <2>1, <2>2, <2>3, <2>4, HQuiet DEF t, tabvars
<1> QED
  BY <1>2, <1>3, <1>4, <1>5, <1>6, <1>7, <1>8 DEF Callers, Refused

(* The steps of a reconfiguration that leave the table alone.              *)
LEMMA TypesHold ==
  ASSUME Types, NEW p \in Thr, NEW t, Turn(p, t), t.arg = th[p].arg,
         th[p].pc # "idle", ep' = ep, rxq' = rxq, chain' = chain, cst' = cst,
         allmc' \in BOOLEAN, down' \in BOOLEAN, panic' \in BOOLEAN,
         tab' \in [RowSet -> Keys \cup {Unset}], busy' \subseteq RowSet,
         old' \subseteq RowSet, orphans' \subseteq RowSet,
         ucl' \in Seq(RowSet), mcl' \in Seq(RowSet)
  PROVE  Types'
<1>1. t.pc # "idle" => t.arg \in Cfgs
  BY DEF Types
<1>2. /\ th' \in [Thr -> Calls]
      /\ \A q \in Thr : th'[q].pc # "idle" => th'[q].arg \in Cfgs
  BY <1>1, TypesTurn
<1> QED
  BY <1>2 DEF Types

LEMMA DrainedHolds ==
  ASSUME HInv, NEW p \in Thr, NEW t, Turn(p, t), th[p].pc # "idle", cst' = cst
  PROVE  Drained'
<1>1. \A q \in Thr : q # p => th'[q] = th[q]
  BY TurnOne DEF HInv
<1>2. "mac" \in Thr /\ (cst = "drain" => th["mac"].pc = "idle")
  BY DEF Thr, HInv, Drained
<1> QED
  BY <1>1, <1>2 DEF Drained

LEMMA HReconfigure ==
  ASSUME HInv, NEW p \in Thr,
         \/ Begin(p) \/ Cleared(p) \/ OldRemoved(p) \/ ListDone(p) \/ Fail(p)
         \/ \E ok \in BOOLEAN : Workarounds(p, ok)
  PROVE  HInv'
<1>0. Types
  BY DEF HInv
<1>1. ASSUME NEW t, Turn(p, t), t.arg = th[p].arg, t.sub = "none",
             th[p].pc # "idle", th[p].sub = "none", cfgvars' = cfgvars,
             tab' = tab, busy' = busy, hw' = hw, panic' = panic,
             allmc' \in BOOLEAN, old' \subseteq RowSet, orphans' \subseteq RowSet,
             ucl' \in Seq(RowSet), mcl' \in Seq(RowSet)
      PROVE  HInv'
  <2>1. /\ ep' = ep /\ rxq' = rxq /\ chain' = chain /\ down' = down /\ cst' = cst
        /\ down' \in BOOLEAN /\ panic' \in BOOLEAN
        /\ tab' \in [RowSet -> Keys \cup {Unset}] /\ busy' \subseteq RowSet
    BY <1>0, <1>1 DEF cfgvars, Types
  <2>2. Types'
    BY <1>0, <1>1, <2>1, TypesHold
  <2>3. Drained'
    BY <1>1, <2>1, DrainedHolds
  <2> QED
    BY <1>1, <2>1, <2>2, <2>3, HQuiet
<1>2. th[p].pc \notin Loops /\ ~Adding(p) => th[p].sub = "none"
  BY NoEntry
<1>3. /\ th[p] \in Calls /\ ucl \in Seq(RowSet) /\ mcl \in Seq(RowSet)
      /\ allmc \in BOOLEAN /\ old \subseteq RowSet /\ orphans \subseteq RowSet
  BY <1>0 DEF Types
<1>4. CASE Begin(p)
  <2> DEFINE t == [th[p] EXCEPT !.pc = IF rxq THEN "own" ELSE "clru", !.sub = "none"]
  <2>1. Turn(p, t) /\ ucl' \in Seq(RowSet) /\ old' \subseteq RowSet
    BY <1>0, <1>4, BeginTurn
  <2>2. t.arg = th[p].arg /\ t.sub = "none"
    BY <1>3 DEF Calls
  <2>3. th[p].pc = "begin" /\ th[p].sub = "none"
    BY <1>4, <1>2 DEF Begin, Adding, Loops
  <2> HIDE DEF t
  <2> QED
    BY <1>1, <1>3, <1>4, <2>1, <2>2, <2>3 DEF Begin, cntvars
<1>5. CASE Cleared(p)
  <2> DEFINE t == [th[p] EXCEPT !.pc = IF @ = "clru" THEN "clrm" ELSE "ret", !.i = 1]
  <2>1. Turn(p, t)
    BY <1>0, <1>5, ClearedTurn
  <2>2. t.arg = th[p].arg /\ t.sub = th[p].sub
    BY <1>3 DEF Calls
  <2>3. th[p].pc # "idle" /\ th[p].sub = "none"
    BY <1>5 DEF Cleared
  <2>4. ucl' \in Seq(RowSet) /\ mcl' \in Seq(RowSet)
    BY <1>3, <1>5, EmptySeqs DEF Cleared
  <2> HIDE DEF t
  <2> QED
    BY <1>1, <1>3, <1>5, <2>1, <2>2, <2>3, <2>4 DEF Cleared, cntvars, tabvars
<1>6. CASE OldRemoved(p)
  <2>1. Turn(p, OldNext(th[p]))
    BY <1>0, <1>6, OldTurn
  <2>2. OldNext(th[p]).arg = th[p].arg /\ OldNext(th[p]).sub = th[p].sub
    BY <1>3 DEF Calls, OldNext
  <2>3. th[p].pc # "idle" /\ th[p].sub = "none"
    BY <1>6 DEF OldRemoved
  <2> QED
    BY <1>1, <1>3, <1>6, <2>1, <2>2, <2>3 DEF OldRemoved, cntvars, tabvars, lstvars
<1>7. CASE ListDone(p)
  <2>1. PICK t : Turn(p, t) /\ t.arg = th[p].arg /\ t.sub \in {"none", th[p].sub}
    <3>1. CASE Turn(p, [th[p] EXCEPT !.pc = "bcast", !.sub = "none"])
      <4> DEFINE u == [th[p] EXCEPT !.pc = "bcast", !.sub = "none"]
      <4>1. Turn(p, u) /\ u.arg = th[p].arg /\ u.sub \in {"none", th[p].sub}
        BY <3>1, <1>3 DEF Calls
      <4> HIDE DEF u
      <4> QED
        BY <4>1
    <3>2. CASE Turn(p, [th[p] EXCEPT !.pc = "old", !.i = 1])
      <4> DEFINE u == [th[p] EXCEPT !.pc = "old", !.i = 1]
      <4>1. Turn(p, u) /\ u.arg = th[p].arg /\ u.sub \in {"none", th[p].sub}
        BY <3>2, <1>3 DEF Calls
      <4> HIDE DEF u
      <4> QED
        BY <4>1
    <3>3. CASE Turn(p, [th[p] EXCEPT !.i = 1,
                          !.pc = IF chain /\ ~allmc THEN "midold" ELSE "allm"])
      <4> DEFINE u == [th[p] EXCEPT !.i = 1,
                             !.pc = IF chain /\ ~allmc THEN "midold" ELSE "allm"]
      <4>1. Turn(p, u) /\ u.arg = th[p].arg /\ u.sub \in {"none", th[p].sub}
        BY <3>3, <1>3 DEF Calls
      <4> HIDE DEF u
      <4> QED
        BY <4>1
    <3> QED
      BY <1>0, <1>7, <3>1, <3>2, <3>3, ListDoneTurn
  <2>2. th[p].pc # "idle" /\ th[p].sub = "none"
    <3>1. th[p].pc \in {"list", "bcast", "listed", "undo"}
      BY <1>7 DEF ListDone
    <3>2. CASE th[p].pc = "list"
      <4>1. th[p].i > Listed(p)
        BY <1>7, <3>2 DEF ListDone
      <4>2. Listed(p) \in Nat /\ th[p].i \in Nat
        BY <1>0, <1>3, <3>2, ListedNat DEF Calls, Types
      <4> QED
        BY <1>2, <3>2, <4>1, <4>2 DEF Adding, Loops
    <3>3. CASE th[p].pc # "list"
      BY <1>2, <1>7, <3>3 DEF ListDone, Adding, Loops
    <3> QED
      BY <3>1, <3>2, <3>3
  <2>3. mcl' \in Seq(RowSet) /\ allmc' \in BOOLEAN
    BY <1>0, <1>3, <1>7, ListDoneTurn, EmptySeqs DEF Calls, ListDone
  <2> QED
    BY <1>1, <1>3, <1>7, <2>1, <2>2, <2>3 DEF ListDone, cntvars, tabvars
<1>8. CASE Fail(p)
  <2> DEFINE t == [th[p] EXCEPT !.pc = "ret", !.rc = "error"]
  <2>1. Turn(p, t)
    BY <1>0, <1>8, FailTurn
  <2>2. t.arg = th[p].arg /\ t.sub = th[p].sub
    BY <1>3 DEF Calls
  <2>3. th[p].pc # "idle" /\ th[p].sub = "none"
    BY <1>8, <1>2 DEF Fail, Adding, Loops
  <2>4. old' \subseteq RowSet /\ orphans' \subseteq RowSet
    BY <1>3, <1>8 DEF Fail
  <2> HIDE DEF t
  <2> QED
    BY <1>1, <1>3, <1>8, <2>1, <2>2, <2>3, <2>4 DEF Fail, cntvars, lstvars
<1>9. CASE Workarounds(p, TRUE)
  <2>1. Turn(p, WaNext(th[p], chain, allmc))
    BY <1>0, <1>9, WaTurn
  <2>2. /\ WaNext(th[p], chain, allmc).arg = th[p].arg
        /\ WaNext(th[p], chain, allmc).sub = th[p].sub
    BY <1>3 DEF Calls, WaNext
  <2>3. th[p].pc # "idle" /\ th[p].sub = "none"
    BY <1>9, <1>2 DEF Workarounds, Adding, Loops
  <2> QED
    BY <1>1, <1>3, <1>9, <2>1, <2>2, <2>3 DEF Workarounds, tabvars, lstvars
<1>10. CASE Workarounds(p, FALSE)
  <2> DEFINE t == [th[p] EXCEPT !.pc = "fail", !.sub = "none"]
  <2>1. Turn(p, t)
    BY <1>0, <1>10, WaFailTurn
  <2>2. t.arg = th[p].arg /\ t.sub = "none"
    BY <1>3 DEF Calls
  <2>3. th[p].pc # "idle" /\ th[p].sub = "none"
    BY <1>10, <1>2 DEF Workarounds, Adding, Loops
  <2> HIDE DEF t
  <2> QED
    BY <1>1, <1>3, <1>10, <2>1, <2>2, <2>3 DEF Workarounds, tabvars, lstvars
<1> QED
  BY <1>4, <1>5, <1>6, <1>7, <1>8, <1>9, <1>10

(* The steps that change the table.                                        *)
LEMMA Emptied ==
  ASSUME Types, Placed, Unique, NEW r \in RowSet, tab' = [tab EXCEPT ![r] = Unset]
  PROVE  Placed' /\ Unique'
<1>1. \A s \in RowSet : tab'[s] = IF s = r THEN Unset ELSE tab[s]
  BY DEF Types
<1>2. Placed'
  BY <1>1 DEF Placed, Probes
<1>3. Unique'
  BY <1>1 DEF Unique
<1> QED
  BY <1>2, <1>3

(* Of the calls only p changes: it lets its row r go or had none.          *)
LEMMA OthersClaim ==
  ASSUME HInv, NEW p \in Thr, NEW t, Turn(p, t),
         \A q \in Thr : q # p /\ th[q].sub # "none" /\ th[q].row \in busy
            /\ th[q].row \in RowSet /\ tab[th[q].row] # Unset
              => th[q].row \in busy' /\ tab'[th[q].row] # Unset
  PROVE  \A q \in Thr : q # p => Claims(q)'
<1> SUFFICES ASSUME NEW q \in Thr, q # p PROVE Claims(q)'
  OBVIOUS
<1>1. th'[q] = th[q]
  BY TurnOne DEF HInv
<1>2. Claims(q)
  BY DEF HInv, Claimed
<1> QED
  BY <1>1, <1>2 DEF Claims, Adding, Listed

LEMMA HAddFound ==
  ASSUME HInv, NEW p \in Thr, AddFound(p)
  PROVE  HInv'
<1>0. Types
  BY DEF HInv
<1>1. PICK r \in Equal(Goal(p)) \ busy : old' = Refresh(r) /\ Added(p, TRUE, r)
  BY DEF AddFound
<1>2. r \in RowSet
  BY <1>1 DEF Equal
<1>3. /\ \E t : Turn(p, t) /\ t.sub = "none" /\ t.pc \notin {"idle", "begin"}
                  /\ t.arg = th[p].arg /\ t.pc # "ret"
      /\ ucl' \in Seq(RowSet) /\ mcl' \in Seq(RowSet) /\ allmc' \in BOOLEAN
      /\ th[p].pc \in {"own", "allu", "allm", "list", "bcast"}
  BY <1>0, <1>1, <1>2, AddedTurn
<1>4. PICK t : Turn(p, t) /\ t.sub = "none" /\ t.arg = th[p].arg
  BY <1>3
<1>5. /\ ep' = ep /\ rxq' = rxq /\ chain' = chain /\ down' = down /\ cst' = cst
      /\ down' \in BOOLEAN /\ panic' \in BOOLEAN
      /\ tab' \in [RowSet -> Keys \cup {Unset}] /\ busy' \subseteq RowSet
      /\ old' \subseteq RowSet /\ orphans' \subseteq RowSet
      /\ tab' = tab /\ busy' = busy /\ hw' = hw /\ th[p].sub = "none"
  BY <1>0, <1>1 DEF AddFound, cfgvars, Types, Refresh, InitRx
<1>6. Types'
  BY <1>0, <1>3, <1>4, <1>5, TypesHold
<1>7. Drained'
  BY <1>3, <1>4, <1>5, DrainedHolds
<1> QED
  BY <1>4, <1>5, <1>6, <1>7, HQuiet

LEMMA HAddEntry ==
  ASSUME HInv, NEW p \in Thr, AddEntry(p)
  PROVE  HInv'
<1>0. /\ Types /\ Adding(p) /\ th[p].sub = "none" /\ Equal(Goal(p)) = {}
      /\ ep' = ep /\ rxq' = rxq /\ chain' = chain /\ down' = down /\ cst' = cst
      /\ down' \in BOOLEAN /\ panic' \in BOOLEAN /\ hw' = hw
      /\ old' \subseteq RowSet /\ orphans' \subseteq RowSet /\ th[p].pc # "idle"
  BY DEF HInv, AddEntry, InitRx, cfgvars, Types, Adding
<1>1. CASE Unused(Goal(p)) = {}
  <2>1. Added(p, FALSE, NoRow) /\ tab' = tab /\ busy' = busy
    BY <1>1 DEF AddEntry
  <2>2. /\ \E t : Turn(p, t) /\ t.sub = "none" /\ t.pc \notin {"idle", "begin"}
                    /\ t.arg = th[p].arg /\ t.pc # "ret"
        /\ ucl' \in Seq(RowSet) /\ mcl' \in Seq(RowSet) /\ allmc' \in BOOLEAN
        /\ th[p].pc \in {"own", "allu", "allm", "list", "bcast"}
    BY <1>0, <2>1, AddedTurn
  <2>3. PICK t : Turn(p, t) /\ t.sub = "none" /\ t.arg = th[p].arg
    BY <2>2
  <2>4. tab' \in [RowSet -> Keys \cup {Unset}] /\ busy' \subseteq RowSet
    BY <1>0, <2>1 DEF Types
  <2>5. Types'
    BY <1>0, <2>2, <2>3, <2>4, TypesHold
  <2>6. Drained'
    BY <1>0, <2>3, DrainedHolds
  <2> QED
    BY <1>0, <2>1, <2>3, <2>5, <2>6, HQuiet
<1>2. CASE Unused(Goal(p)) # {}
  <2>0. PICK f, k, t : /\ f = First(Goal(p)) /\ k = Goal(p)
                       /\ t = [th[p] EXCEPT !.sub = "add", !.row = f]
    OBVIOUS
  <2>1. th[p].arg \in Cfgs /\ th[p] \in Calls
    BY <1>0 DEF Types
  <2>2. f \in RowSet /\ tab[f] = Unset /\ Turn(p, t)
    BY <1>0, <1>2, <2>0, <2>1, AddEntryTurn
  <2>3. k \in Keys /\ \E d \in 1..Limit : Probes(k)[d] = f
    BY <1>0, <1>2, <2>0, <2>1, GoalKey, FirstUnused DEF Types
  <2>4. /\ tab' = [tab EXCEPT ![f] = k] /\ busy' = busy \cup {f}
        /\ ucl' = ucl /\ mcl' = mcl /\ allmc' = allmc
    BY <1>2, <2>0 DEF AddEntry, lstvars
  <2>5. /\ t.sub = "add" /\ t.row = f /\ t.arg = th[p].arg /\ t.pc = th[p].pc
        /\ t.i = th[p].i
    BY <2>0, <2>1 DEF Calls
  <2>6. k # Unset
    BY <2>3, Ef10FilterAssumption DEF Ef10FilterAssumption, Keys, Unset
  <2>7. \A r \in RowSet : tab[r] # k
    <3> SUFFICES ASSUME NEW r \in RowSet, tab[r] = k PROVE FALSE
      OBVIOUS
    <3>1. \E d \in 1..Limit : Probes(k)[d] = r
      BY <2>6 DEF HInv, Placed
    <3> QED
      BY <1>0, <2>0, <3>1 DEF Equal
  <2>8. Types'
    <3>1. /\ tab' \in [RowSet -> Keys \cup {Unset}] /\ busy' \subseteq RowSet
          /\ ucl' \in Seq(RowSet) /\ mcl' \in Seq(RowSet) /\ allmc' \in BOOLEAN
      BY <1>0, <2>2, <2>3, <2>4 DEF Types
    <3> QED
      BY <1>0, <2>2, <2>5, <3>1, TypesHold
  <2>9. Drained'
    BY <1>0, <2>2, DrainedHolds
  <2>10. \A s \in RowSet : tab'[s] = IF s = f THEN k ELSE tab[s]
    BY <1>0, <2>4 DEF Types
  <2>11. th'[p] = t /\ \A q \in Thr : q # p => th'[q] = th[q]
    BY <1>0, <2>2, TurnOne
  <2>12. Claimed'
    <3>1. \A q \in Thr : q # p => Claims(q)'
      BY <2>2, <2>4, <2>6, <2>10, OthersClaim
    <3>2. Claims(p)'
      BY <1>0, <2>2, <2>4, <2>5, <2>6, <2>10, <2>11 DEF Claims, Adding, Listed
    <3> QED
      BY <3>1, <3>2 DEF Claimed
  <2>13. \A q \in Thr : th[q].sub # "none" => th[q].row # f
    BY <2>2 DEF HInv, Claimed, Claims
  <2>14. Apart'
    BY <2>11, <2>13, <2>5 DEF HInv, Apart
  <2>15. Owned'
    BY <1>0, <2>11, <2>4, <2>5 DEF HInv, Owned
  <2>16. Placed' /\ Unique'
    <3>1. Placed'
      BY <2>3, <2>10 DEF HInv, Placed, Probes
    <3>2. Unique'
      BY <2>7, <2>10 DEF HInv, Unique
    <3> QED
      BY <3>1, <3>2
  <2>17. Live' = Live /\ \A r \in Live : tab'[r] = tab[r]
    <3>1. Coming(f)' /\ f \notin Live
      BY <2>2, <2>5, <2>11 DEF Coming, Live
    <3>2. \A r \in RowSet : r # f => (Coming(r)' <=> Coming(r))
      BY <1>0, <2>11, <2>5 DEF Coming
    <3> QED
      BY <3>1, <3>2, <2>10 DEF Live
  <2>18. InNic'
    BY <2>17, <1>0 DEF HInv, InNic
  <2> QED
    BY <2>8, <2>9, <2>12, <2>14, <2>15, <2>16, <2>18 DEF HInv
<1> QED
  BY <1>1, <1>2

LEMMA HAddMcdi ==
  ASSUME HInv, NEW p \in Thr, NEW ok \in BOOLEAN, AddMcdi(p, ok)
  PROVE  HInv'
<1>0. PICK r : r = th[p].row
  OBVIOUS
<1>1. /\ Types /\ th[p].sub = "add" /\ Claims(p) /\ Adding(p)
      /\ r \in RowSet /\ r \in busy /\ tab[r] # Unset /\ th[p].pc # "idle"
  BY <1>0 DEF HInv, AddMcdi, Claimed, Claims, Adding
<1>2. /\ ep' = ep /\ rxq' = rxq /\ chain' = chain /\ down' = down /\ cst' = cst
      /\ down' \in BOOLEAN /\ panic' \in BOOLEAN /\ busy' = busy \ {r}
      /\ old' \subseteq RowSet /\ orphans' \subseteq RowSet
      /\ Added(p, ok, r)
  BY <1>0, <1>1 DEF AddMcdi, cfgvars, Types
<1>3. /\ \E t : Turn(p, t) /\ t.sub = "none" /\ t.pc \notin {"idle", "begin"}
                  /\ t.arg = th[p].arg /\ t.pc # "ret"
      /\ ucl' \in Seq(RowSet) /\ mcl' \in Seq(RowSet) /\ allmc' \in BOOLEAN
      /\ th[p].pc \in {"own", "allu", "allm", "list", "bcast"}
  BY <1>1, <1>2, AddedTurn
<1>4. PICK t : Turn(p, t) /\ t.sub = "none" /\ t.arg = th[p].arg
  BY <1>3
<1>5. th'[p] = t /\ \A q \in Thr : q # p => th'[q] = th[q]
  BY <1>1, <1>4, TurnOne
<1>6. \A q \in Thr : q # p /\ th[q].sub # "none" => th[q].row # r
  BY <1>0, <1>1 DEF HInv, Apart
<1>7. \A s \in RowSet : Coming(s)' <=> (Coming(s) /\ s # r)
  BY <1>0, <1>4, <1>5, <1>6 DEF Coming
<1>8. /\ tab' \in [RowSet -> Keys \cup {Unset}]
      /\ \A s \in RowSet : s # r => tab'[s] = tab[s]
      /\ ok => tab' = tab
      /\ ~ok => tab' = [tab EXCEPT ![r] = Unset]
  BY <1>0, <1>1 DEF AddMcdi, AddUndone, Types
<1>9. Types'
  <2>1. busy' \subseteq RowSet
    BY <1>1, <1>2 DEF Types
  <2> QED
    BY <1>1, <1>2, <1>3, <1>4, <1>8, <2>1, TypesHold
<1>10. Drained'
  BY <1>1, <1>2, <1>4, DrainedHolds
<1>11. Claimed'
  <2>1. \A q \in Thr : q # p => Claims(q)'
    BY <1>2, <1>4, <1>6, <1>8, OthersClaim
  <2>2. Claims(p)'
    BY <1>4, <1>5 DEF Claims
  <2> QED
    BY <2>1, <2>2 DEF Claimed
<1>12. Apart'
  BY <1>4, <1>5 DEF HInv, Apart
<1>13. Owned'
  BY <1>0, <1>2, <1>5 DEF HInv, Owned
<1>14. Placed' /\ Unique'
  BY <1>1, <1>8, Emptied DEF HInv, Placed, Unique, Probes
<1>15. CASE ok
  <2>1. ~down /\ hw' = hw \cup {tab[r]}
    BY <1>0, <1>15 DEF AddMcdi, Request
  <2>2. Live' = Live \cup {r}
    BY <1>1, <1>7, <1>8, <1>15 DEF Live
  <2>3. InNic'
    BY <2>1, <2>2, <1>2, <1>8, <1>15 DEF HInv, InNic
  <2> QED
    BY <1>9, <1>10, <1>11, <1>12, <1>13, <1>14, <2>3 DEF HInv
<1>16. CASE ~ok
  <2>1. hw' = hw
    BY <1>16 DEF AddMcdi
  <2>2. \A s \in RowSet : tab'[s] = IF s = r THEN Unset ELSE tab[s]
    BY <1>1, <1>8, <1>16 DEF Types
  <2>3. Coming(r)
    BY <1>0, <1>1 DEF Coming
  <2>4. Live' = Live /\ \A s \in Live : tab'[s] = tab[s]
    BY <2>2, <2>3, <1>7 DEF Live
  <2>5. InNic'
    BY <2>1, <2>4, <1>2 DEF HInv, InNic
  <2> QED
    BY <1>9, <1>10, <1>11, <1>12, <1>13, <1>14, <2>5 DEF HInv
<1> QED
  BY <1>15, <1>16

LEMMA HDeleteEntry ==
  ASSUME HInv, NEW p \in Thr, DeleteEntry(p)
  PROVE  HInv'
<1>0. PICK r : r = RowIn(p)
  OBVIOUS
<1>1. /\ Types /\ th[p].sub = "none" /\ th[p].pc \in Loops /\ th[p] \in Calls
      /\ r \in RowSet /\ r \notin busy /\ th[p].pc # "idle"
  BY <1>0 DEF HInv, DeleteEntry, Loops, Types
<1>2. /\ ep' = ep /\ rxq' = rxq /\ chain' = chain /\ down' = down /\ cst' = cst
      /\ down' \in BOOLEAN /\ panic' \in BOOLEAN /\ hw' = hw /\ tab' = tab
      /\ old' \subseteq RowSet /\ orphans' \subseteq RowSet
      /\ ucl' = ucl /\ mcl' = mcl /\ allmc' = allmc /\ allmc' \in BOOLEAN
      /\ ucl' \in Seq(RowSet) /\ mcl' \in Seq(RowSet)
      /\ tab' \in [RowSet -> Keys \cup {Unset}]
  BY <1>1 DEF DeleteEntry, cfgvars, lstvars, cntvars, Types
<1>3. CASE tab[r] = Unset
  <2>1. PICK u : u = [th[p] EXCEPT !.row = r]
    OBVIOUS
  <2>2. u \in Calls /\ Turn(p, Step(u))
    BY <1>0, <1>1, <1>3, <2>1, DeleteEntryTurn
  <2>3. u.pc = th[p].pc /\ u.arg = th[p].arg
    BY <1>1, <2>1 DEF Calls
  <2>4. Step(u).sub = "none" /\ Step(u).arg = th[p].arg
    BY <1>1, <2>2, <2>3, StepKeeps
  <2>5. busy' = busy /\ busy' \subseteq RowSet
    BY <1>0, <1>1, <1>3 DEF DeleteEntry, Types
  <2>6. Types'
    BY <1>1, <1>2, <2>2, <2>4, <2>5, TypesHold
  <2>7. Drained'
    BY <1>1, <1>2, <2>2, DrainedHolds
  <2> QED
    BY <1>1, <1>2, <2>2, <2>4, <2>5, <2>6, <2>7, HQuiet
<1>4. CASE tab[r] # Unset
  <2>1. PICK t : t = [th[p] EXCEPT !.sub = "del", !.row = r]
    OBVIOUS
  <2>2. Turn(p, t)
    BY <1>0, <1>1, <1>4, <2>1, DeleteEntryTurn
  <2>3. t.pc = th[p].pc /\ t.arg = th[p].arg /\ t.sub = "del" /\ t.row = r
    BY <1>1, <2>1 DEF Calls
  <2>4. busy' = busy \cup {r} /\ busy' \subseteq RowSet
    BY <1>0, <1>1, <1>4 DEF DeleteEntry, Types
  <2>5. Types'
    BY <1>1, <1>2, <2>2, <2>3, <2>4, TypesHold
  <2>6. Drained'
    BY <1>1, <1>2, <2>2, DrainedHolds
  <2>7. th'[p] = t /\ \A q \in Thr : q # p => th'[q] = th[q]
    BY <1>1, <2>2, TurnOne
  <2>8. Claimed'
    <3>1. \A q \in Thr : q # p => Claims(q)'
      BY <2>2, <2>4, <1>2, OthersClaim
    <3>2. Claims(p)'
      BY <1>1, <1>2, <1>4, <2>3, <2>4, <2>7 DEF Claims
    <3> QED
      BY <3>1, <3>2 DEF Claimed
  <2>9. \A q \in Thr : th[q].sub # "none" => th[q].row # r
    BY <1>1 DEF HInv, Claimed, Claims
  <2>10. Apart'
    BY <2>3, <2>7, <2>9 DEF HInv, Apart
  <2>11. Owned'
    BY <1>1, <2>3, <2>4, <2>7 DEF HInv, Owned
  <2>12. Placed' /\ Unique'
    BY <1>2 DEF HInv, Placed, Unique, Probes
  <2>13. Live' = Live
    <3>1. \A s : Coming(s)' <=> Coming(s)
      BY <1>1, <2>3, <2>7 DEF Coming
    <3> QED
      BY <3>1, <1>2 DEF Live
  <2>14. InNic'
    BY <1>2, <2>13 DEF HInv, InNic
  <2> QED
    BY <2>5, <2>6, <2>8, <2>10, <2>11, <2>12, <2>14 DEF HInv
<1> QED
  BY <1>3, <1>4

LEMMA HDeleteMcdi ==
  ASSUME HInv, NEW p \in Thr, DeleteMcdi(p)
  PROVE  HInv'
<1>0. PICK r : r = th[p].row
  OBVIOUS
<1>1. /\ Types /\ th[p].sub = "del" /\ th[p].pc \in Loops /\ th[p] \in Calls
      /\ r \in RowSet /\ r \in busy /\ tab[r] # Unset /\ th[p].pc # "idle"
  BY <1>0 DEF HInv, DeleteMcdi, Claimed, Claims, Loops, Types
<1>2. /\ ep' = ep /\ rxq' = rxq /\ chain' = chain /\ down' = down /\ cst' = cst
      /\ down' \in BOOLEAN /\ panic' \in BOOLEAN /\ busy' = busy \ {r}
      /\ old' \subseteq RowSet /\ orphans' \subseteq RowSet /\ busy' \subseteq RowSet
      /\ allmc' \in BOOLEAN /\ ucl' \in Seq(RowSet) /\ mcl' \in Seq(RowSet)
      /\ tab' = [tab EXCEPT ![r] = Unset]
  BY <1>0, <1>1 DEF DeleteMcdi, cfgvars, lstvars, cntvars, Types
<1>3. PICK t : t = Step(th[p])
  OBVIOUS
<1>4. Turn(p, t) /\ t.sub = "none" /\ t.arg = th[p].arg
  BY <1>0, <1>1, <1>3, DeleteMcdiTurn, StepKeeps
<1>5. th'[p] = t /\ \A q \in Thr : q # p => th'[q] = th[q]
  BY <1>1, <1>4, TurnOne
<1>6. \A q \in Thr : q # p /\ th[q].sub # "none" => th[q].row # r
  BY <1>0, <1>1 DEF HInv, Apart
<1>7. \A s \in RowSet : (Coming(s)' <=> Coming(s)) /\ (Coming(s) => s # r)
  BY <1>0, <1>1, <1>4, <1>5, <1>6 DEF Coming
<1>8. \A s \in RowSet : tab'[s] = IF s = r THEN Unset ELSE tab[s]
  BY <1>1, <1>2 DEF Types
<1>9. Types'
  <2>1. tab' \in [RowSet -> Keys \cup {Unset}]
    BY <1>1, <1>2 DEF Types
  <2> QED
    BY <1>1, <1>2, <1>4, <2>1, TypesHold
<1>10. Drained'
  BY <1>1, <1>2, <1>4, DrainedHolds
<1>11. Claimed'
  <2>1. \A q \in Thr : q # p => Claims(q)'
    BY <1>2, <1>4, <1>6, <1>8, OthersClaim
  <2>2. Claims(p)'
    BY <1>4, <1>5 DEF Claims
  <2> QED
    BY <2>1, <2>2 DEF Claimed
<1>12. Apart'
  BY <1>4, <1>5 DEF HInv, Apart
<1>13. Owned'
  BY <1>0, <1>2, <1>5 DEF HInv, Owned
<1>14. Placed' /\ Unique'
  BY <1>1, <1>2, Emptied DEF HInv
<1>15. InNic'
  <2>1. Live' = Live \ {r} /\ r \in Live
    BY <1>1, <1>7, <1>8 DEF Live
  <2>2. hw' = IF down THEN hw ELSE hw \ {tab[r]}
    BY <1>0 DEF DeleteMcdi
  <2>3. {tab'[s] : s \in Live \ {r}} = {tab[s] : s \in Live} \ {tab[r]}
    <3>1. \A s \in Live \ {r} : tab'[s] = tab[s] /\ tab[s] # tab[r]
      BY <1>1, <1>8 DEF HInv, Unique, Live
    <3> QED
      BY <3>1
  <2> QED
    BY <2>1, <2>2, <2>3, <1>2 DEF HInv, InNic
<1> QED
  BY <1>9, <1>10, <1>11, <1>12, <1>13, <1>14, <1>15 DEF HInv

LEMMA HFini ==
  ASSUME HInv, FilterFini
  PROVE  HInv'
<1>1. /\ Types /\ "mac" \in Thr /\ "ctl" \in Thr
      /\ th["mac"].pc = "idle" /\ th["ctl"].pc = "ret"
  BY DEF HInv, FilterFini, Drained, Thr
<1>2. th["mac"].sub = "none"
  BY <1>1, NoEntry DEF Adding, Loops
<1>3. Turn("ctl", Calm)
  BY <1>1, CalmTurn DEF FilterFini
<1>4. \A p \in Thr : th'[p].pc = "idle" /\ th'[p].sub = "none"
  BY <1>1, <1>2, <1>3, TurnOne, FreshFields DEF Thr
<1>5. /\ tab' = Empty /\ busy' = {} /\ hw' = {} /\ down' = FALSE
      /\ ucl' = << >> /\ mcl' = << >> /\ old' = {} /\ orphans' = {}
      /\ ep' = ep /\ rxq' = rxq /\ panic' = panic /\ cst' = "down"
      /\ chain' \in BOOLEAN /\ allmc' = FALSE
  BY DEF FilterFini, cntvars
<1>6. \A r \in RowSet : tab'[r] = Unset
  BY <1>5 DEF Empty
<1>7. Types'
  <2>1. th' \in [Thr -> Calls]
    BY <1>1, <1>3, TurnOne
  <2>2. tab' \in [RowSet -> Keys \cup {Unset}]
    BY <1>5 DEF Empty
  <2> QED
    BY <1>1, <1>4, <1>5, <2>1, <2>2, EmptySeqs DEF Types
<1>8. Live' = {}
  BY <1>6 DEF Live
<1>9. InNic'
  BY <1>5, <1>8 DEF InNic
<1> QED
  BY <1>4, <1>5, <1>6, <1>7, <1>9
     DEF HInv, Claimed, Claims, Apart, Owned, Placed, Unique, Drained

LEMMA HReboot ==
  ASSUME HInv, McReboot
  PROVE  HInv'
<1>1. /\ tab' = tab /\ busy' = busy /\ th' = th /\ cst' = cst
      /\ down' = TRUE /\ hw' = {}
  BY DEF McReboot
<1>2. Types'
  BY DEF HInv, Types, McReboot, lstvars
<1>3. InNic'
  BY <1>1 DEF InNic
<1> QED
  BY <1>1, <1>2, <1>3
     DEF HInv, Claimed, Claims, Apart, Owned, Placed, Unique, Drained, Adding,
         Listed, Probes

LEMMA HNext ==
  ASSUME HInv, [Next]_vars
  PROVE  HInv'
<1>1. CASE Callers
  BY <1>1, HCallers
<1>2. CASE FilterFini
  BY <1>2, HFini
<1>3. CASE McReboot
  BY <1>3, HReboot
<1>4. ASSUME NEW p \in Thr, Reconfigure(p) PROVE HInv'
  BY <1>4, HReconfigure, HAddFound, HAddEntry, HAddMcdi, HDeleteEntry, HDeleteMcdi
     DEF Reconfigure
<1>5. CASE UNCHANGED vars
  BY <1>5 DEF vars, cfgvars, tabvars, lstvars, cntvars, HInv, Types, Claimed, Claims,
     Apart, Owned, Placed, Unique, InNic, Live, Coming, Drained, Adding, Listed, Probes
<1> QED
  BY <1>1, <1>2, <1>3, <1>4, <1>5 DEF Next, Steps

(* The table is consistent, with or without requests that overlap a start  *)
(* or stop of the receive queues.                                          *)
THEOREM TableConsistent == Spec => []HInv
BY HInit, HNext, PTL DEF Spec

(* The software table and the NIC have the same filters whenever no        *)
(* request is in flight, whatever was inserted, rolled back or deleted,    *)
(* and whichever request failed (ef10_filter_add_internal,                 *)
(* ef10_filter_delete_internal).                                           *)
THEOREM HwAgreesAlways == Spec => []HwAgrees
<1>1. ASSUME HInv PROVE HwAgrees
  <2> SUFFICES ASSUME ~down, \A p \in Thr : th[p].sub = "none"
               PROVE  hw = InTab /\ busy = {}
    BY DEF HwAgrees
  <2>1. Live = {r \in RowSet : tab[r] # Unset}
    BY DEF Live, Coming
  <2>2. hw = {tab[r] : r \in Live}
    BY <1>1 DEF HInv, InNic
  <2>3. hw = InTab
    BY <2>1, <2>2 DEF InTab
  <2>4. busy = {}
    BY <1>1 DEF HInv, Owned
  <2> QED
    BY <2>3, <2>4
<1> QED
  BY <1>1, TableConsistent, PTL

-----------------------------------------------------------------------------
(* The calls one at a time.  When requests do not overlap a start or stop  *)
(* of the receive queues, one call is in progress at most; c stands for    *)
(* it, and for an idle one otherwise.                                      *)
Cur == IF th["mac"].pc # "idle" THEN th["mac"] ELSE th["ctl"]

Alone == th["mac"].pc = "idle" \/ th["ctl"].pc = "idle"

Resting  == {"idle", "begin", "ret"}
Marking  == {"own", "allu", "wa", "fail"}
Listing  == {"list", "bcast", "listed", "midold"}
Deleting == {"preold", "midold", "old"}
Clearing == {"clru", "clrm"}

(* It works with the settings of the port.                                 *)
Settings(c) ==
  /\ c.pc # "idle" => c.arg = ep
  /\ c.pc \in Clearing => ~rxq
  /\ c.pc \notin Clearing \cup Resting => rxq
  /\ cst \in {"down", "clearing", "drain"} => ~rxq

(* What it inserts, and which row it deletes.                              *)
Sought(c) ==
  CASE c.pc = "own" -> c.arg.addr
    [] c.pc = "allu" -> "ucdef"
    [] c.pc = "allm" -> "mcdef"
    [] c.pc = "bcast" -> "bcast"
    [] OTHER -> c.arg.list[c.i]

InGot(c)    == {c.got[j] : j \in DOMAIN c.got}
From(s, i)  == {s[j] : j \in {n \in DOMAIN s : n >= i}}

Picked(c, r) ==
  /\ c.pc \in Deleting => r \in old /\ \A s \in old : s >= r
  /\ c.pc = "clru" => c.i <= Len(ucl) /\ r = ucl[c.i]
  /\ c.pc = "clrm" => c.i <= Len(mcl) /\ r = mcl[c.i]
  /\ c.pc = "undo" => c.got # << >> /\ r = c.got[Len(c.got)]

Entry(c) ==
  /\ c.sub = "add" => tab[c.row] = Sought(c)
  /\ c.sub = "del" => Picked(c, c.row)
  /\ c.pc \in Deleting => \A r \in old : r >= c.i - 1
  /\ c.pc \in {"begin", "allm"} => c.i = 1
  /\ c.pc \in {"preold", "midold"} => c.got = << >>

(* The rows that the marks and the lists name, besides the orphans, are    *)
(* all the live ones, and no others.                                       *)
Named(c) ==
  /\ c.pc \in Resting =>
       old = {} /\ InUcl \cup InMcl \subseteq Live
       /\ Live \subseteq InUcl \cup InMcl \cup orphans
  /\ c.pc \in Marking =>
       old \cup InUcl \subseteq Live /\ Live \subseteq old \cup InUcl \cup orphans
       /\ InMcl \subseteq old \cup InUcl
  /\ c.pc \in {"preold", "allm"} =>
       old \cup InUcl \subseteq Live /\ Live \subseteq old \cup InUcl \cup orphans
  /\ c.pc \in Listing \cup {"undo"} =>
       old \cup InUcl \subseteq Live
       /\ Live \subseteq old \cup InUcl \cup InGot(c) \cup orphans
       /\ (c.pc \in Listing => InGot(c) \subseteq Live)
  /\ c.pc = "old" =>
       old \cup InUcl \cup InMcl \subseteq Live
       /\ Live \subseteq old \cup InUcl \cup InMcl \cup orphans
  /\ c.pc = "clru" =>
       old = {} /\ Live \subseteq From(ucl, c.i) \cup InMcl \cup orphans
  /\ c.pc = "clrm" =>
       old = {} /\ ucl = << >> /\ Live \subseteq From(mcl, c.i) \cup orphans

Disjoint(c) ==
  /\ old \cap InUcl = {}
  /\ c.pc \in Listing \cup {"undo"} => old \cap InGot(c) = {}
  /\ c.pc = "old" => old \cap InMcl = {}

(* The lists keep unicast and multicast filters apart.                     *)
Unicast == Addrs \cup {"ucdef"}
Multi   == Mcasts \cup {"mcdef", "bcast"}

Kinds(c) ==
  /\ \A r \in orphans : r \in Live /\ tab[r] \in Unicast
  /\ c.pc \notin Clearing => \A r \in InUcl : tab[r] \in Unicast
  /\ c.pc \in Resting \cup Marking \cup {"old"} => \A r \in InMcl : tab[r] \in Multi
  /\ c.pc \in Marking => \A r \in old \ InMcl : tab[r] \in Unicast
  /\ c.pc \in Listing \cup {"undo"} => \A r \in InGot(c) : tab[r] \in Multi \cup {Unset}

(* With chained filters the multicast default is in the NIC with unicast   *)
(* filters only.                                                           *)
Chained(c) ==
  chain =>
    /\ c.pc \in Resting \cup Marking \cup Clearing \cup {"preold", "old"} =>
         /\ allmc => \A r \in Live : tab[r] \in Unicast \cup {"mcdef"}
         /\ ~allmc => \A r \in Live : tab[r] # "mcdef"
    /\ c.pc = "allm" => \A r \in Live : tab[r] \in Unicast \cup {"mcdef"}
    /\ c.pc \in Listing \cup {"undo"} => \A r \in Live : tab[r] # "mcdef"
    /\ allmc /\ (c.pc = "undo" \/ (c.pc \in {"list", "bcast", "listed"} /\ c.roll)) =>
         old = {}

(* What the call has inserted of what is asked for, and what it reports.   *)
Finished(c) == c.pc = "ret" /\ c.rc # "error" /\ rxq
Late(c)     == c.pc \in Listing \cup {"wa", "preold", "allm", "undo", "old"} \/ Finished(c)

ListedKeys(c) == IF c.arg.mulcst \/ c.arg.allm
                 THEN {c.arg.list[j] : j \in 1..Len(c.arg.list)} ELSE {}

OwnDone(c) ==
  /\ c.pc = "own" => ucl = << >>
  /\ c.pc = "allu" => c.arg.allu \/ c.uerr
  /\ c.pc \in {"own", "allu"} \/ Late(c) => \A r \in InUcl : tab[r] \in {c.arg.addr, "ucdef"}
  /\ (c.pc = "allu" /\ ~c.uerr) \/ Late(c) => InUcl # {}
  /\ c.pc = "allu" \/ Late(c) =>
       /\ (\E r \in InUcl : tab[r] = "ucdef") => c.arg.allu \/ c.uerr
       /\ \A r \in old : tab[r] # c.arg.addr
  /\ Late(c) /\ c.arg.allu /\ ~c.arc => \E r \in InUcl : tab[r] = "ucdef"

MultiDone(c) ==
  /\ c.pc \in {"list", "bcast", "listed"} =>
       /\ \A r \in InGot(c) : tab[r] \in ListedKeys(c) \cup {"bcast"}
       /\ c.arg.allm => c.mrc
  /\ c.pc = "old" \/ Finished(c) =>
       /\ \A r \in InMcl : tab[r] \in ListedKeys(c) \cup {"bcast", "mcdef"}
       /\ c.arg.allm /\ ~c.mrc => \E r \in InMcl : tab[r] = "mcdef"
  /\ Finished(c) /\ c.rc = "ok" => ~Rejected(c)

SInv ==
  /\ Alone /\ Settings(Cur) /\ Entry(Cur) /\ Named(Cur) /\ Disjoint(Cur)
  /\ Kinds(Cur) /\ Chained(Cur) /\ OwnDone(Cur) /\ MultiDone(Cur)

(* The call in progress takes a step and leaves t.                         *)
LEMMA Acting ==
  ASSUME HInv, Alone, NEW p \in Thr, th[p].pc # "idle"
  PROVE  /\ Cur = th[p]
         /\ \A q \in Thr : q # p => th[q].pc = "idle" /\ th[q].sub = "none"
<1>1. \A q \in Thr : q # p => th[q].pc = "idle"
  BY DEF Alone, Thr
<1>2. \A q \in Thr : th[q].pc = "idle" => th[q].sub = "none"
  BY NoEntry DEF Adding, Loops
<1>3. Cur = th[p]
  BY <1>1 DEF Cur, Thr
<1> QED
  BY <1>1, <1>2, <1>3

LEMMA TurnCur ==
  ASSUME Types, NEW p \in Thr, NEW t, Turn(p, t),
         \A q \in Thr : q # p => th[q].pc = "idle" /\ th[q].sub = "none"
  PROVE  /\ Alone'
         /\ t.pc # "idle" => Cur' = t
         /\ t.pc = "idle" /\ t.sub = "none" => Cur'.pc = "idle" /\ Cur'.sub = "none"
         /\ Live' = {r \in RowSet : tab'[r] # Unset /\ ~(t.sub = "add" /\ t.row = r)}
<1>1. th'[p] = t /\ \A q \in Thr : q # p => th'[q] = th[q]
  BY TurnOne
<1>2. Alone'
  BY <1>1 DEF Alone, Thr
<1>3. t.pc # "idle" => Cur' = t
  BY <1>1 DEF Cur, Thr
<1>4. t.pc = "idle" /\ t.sub = "none" => Cur'.pc = "idle" /\ Cur'.sub = "none"
  BY <1>1 DEF Cur, Thr
<1>5. \A r : Coming(r)' <=> t.sub = "add" /\ t.row = r
  BY <1>1 DEF Coming
<1>6. Live' = {r \in RowSet : tab'[r] # Unset /\ ~(t.sub = "add" /\ t.row = r)}
  BY <1>5 DEF Live
<1> QED
  BY <1>2, <1>3, <1>4, <1>6

(* The live rows, when the call in progress is p.                          *)
LEMMA LiveNow ==
  ASSUME NEW p \in Thr, \A q \in Thr : q # p => th[q].sub = "none"
  PROVE  Live = {r \in RowSet : tab[r] # Unset /\ ~(th[p].sub = "add" /\ th[p].row = r)}
<1>1. \A r : Coming(r) <=> th[p].sub = "add" /\ th[p].row = r
  BY DEF Coming
<1> QED
  BY <1>1 DEF Live

(* Steps between calls: a new one begins, or the last one returns.         *)
LEMMA SBetween ==
  ASSUME HInv, SInv, NEW p \in Thr, NEW t, Turn(p, t),
         Cur.pc \in Resting, \A q \in Thr : q # p => th[q].pc = "idle",
         t.sub = "none", t.pc \in {"idle", "begin"},
         t.pc = "begin" => t.arg = ep' /\ t.i = 1,
         tabvars' = tabvars, lstvars' = lstvars, chain' = chain, orphans' = orphans,
         cst' \in {"down", "clearing", "drain"} => ~rxq'
  PROVE  SInv'
<1>0. Types
  BY DEF HInv
<1>1. \A q \in Thr : th[q].pc \in Resting => th[q].sub = "none"
  BY NoEntry DEF Adding, Loops, Resting
<1>2. \A q \in Thr : q # p => th[q].pc = "idle" /\ th[q].sub = "none"
  BY <1>1 DEF Resting
<1>3. th[p].sub = "none"
  <2>1. CASE th[p].pc = "idle"
    BY <2>1, <1>1 DEF Resting
  <2>2. CASE th[p].pc # "idle"
    <3>1. Cur = th[p]
      BY <2>2, Acting DEF SInv
    <3> QED
      BY <3>1, <1>1
  <2> QED
    BY <2>1, <2>2
<1>4. /\ Alone' /\ Cur'.pc \in {"idle", "begin"} /\ Cur'.sub = "none"
      /\ Cur'.pc = "begin" => Cur'.arg = ep' /\ Cur'.i = 1
  BY <1>0, <1>2, TurnCur
<1>5. /\ tab' = tab /\ old' = old /\ ucl' = ucl /\ mcl' = mcl /\ allmc' = allmc
      /\ InUcl' = InUcl /\ InMcl' = InMcl
  BY DEF tabvars, lstvars, InUcl, InMcl
<1>6. Live' = Live
  BY <1>0, <1>2, <1>3, <1>5, TurnCur, LiveNow
<1>7. Settings(Cur)'
  BY <1>4 DEF Settings, Clearing, Resting
<1>8. Entry(Cur)'
  BY <1>4 DEF Entry, Deleting
<1>9. Named(Cur)'
  BY <1>4, <1>5, <1>6 DEF SInv, Named, Resting, Marking, Listing
<1>10. Disjoint(Cur)'
  BY <1>4, <1>5 DEF SInv, Disjoint, Listing
<1>11. Kinds(Cur)'
  BY <1>4, <1>5, <1>6 DEF SInv, Kinds, Resting, Marking, Listing, Clearing
<1>12. Chained(Cur)'
  BY <1>4, <1>5, <1>6 DEF SInv, Chained, Resting, Marking, Listing, Clearing
<1>13. OwnDone(Cur)' /\ MultiDone(Cur)'
  BY <1>4 DEF OwnDone, MultiDone, Late, Finished, Listing
<1> QED
  BY <1>4, <1>7, <1>8, <1>9, <1>10, <1>11, <1>12, <1>13 DEF SInv

(* A call that stays as it was.                                            *)
LEMMA SStays ==
  ASSUME HInv, SInv, NEW p \in Thr, NEW n \in Seq(Lists), Turn(p, Stays(th[p], n)),
         th[p].pc \in {"idle", "ret"}, \A q \in Thr : q # p => th[q].pc = "idle",
         ep' = ep, rxq' = rxq \/ rxq' = FALSE,
         tabvars' = tabvars, lstvars' = lstvars, chain' = chain, orphans' = orphans,
         cst' \in {"down", "clearing", "drain"} => ~rxq'
  PROVE  SInv'
<1>0. Types
  BY DEF HInv
<1> DEFINE t == Stays(th[p], n)
<1>1. /\ t.pc = th[p].pc /\ t.sub = th[p].sub /\ t.arg = th[p].arg /\ t.i = th[p].i
      /\ t.mrc = th[p].mrc /\ t.arc = th[p].arc /\ t.rc = th[p].rc /\ t.uerr = th[p].uerr
  BY <1>0, StaysFields DEF Types
<1> HIDE DEF t
<1>2. \A q \in Thr : th[q].pc \in Resting => th[q].sub = "none"
  BY NoEntry DEF Adding, Loops, Resting
<1>3. th[p].sub = "none" /\ \A q \in Thr : q # p => th[q].pc = "idle" /\ th[q].sub = "none"
  BY <1>2 DEF Resting
<1>4. CASE th[p].pc = "idle"
  <2>1. Cur.pc \in Resting
    BY <1>4 DEF Cur, Resting, Thr
  <2> QED
    BY <1>1, <1>3, <1>4, <2>1, SBetween DEF t
<1>5. CASE th[p].pc = "ret"
  <2>1. Cur = th[p] /\ Alone' /\ Cur' = t
    BY <1>0, <1>1, <1>3, <1>5, Acting, TurnCur DEF SInv, t
  <2>2. /\ tab' = tab /\ old' = old /\ ucl' = ucl /\ mcl' = mcl /\ allmc' = allmc
        /\ InUcl' = InUcl /\ InMcl' = InMcl
    BY DEF tabvars, lstvars, InUcl, InMcl
  <2>3. Live' = Live
    <3>1. Turn(p, t) /\ t.sub = "none"
      BY <1>1, <1>3 DEF t
    <3>2. Live' = {r \in RowSet : tab'[r] # Unset}
      BY <1>0, <1>3, <3>1, TurnCur
    <3>3. Live = {r \in RowSet : tab[r] # Unset}
      BY <1>3, LiveNow
    <3> QED
      BY <2>2, <3>2, <3>3
  <2>4. Settings(Cur)'
    BY <1>1, <1>5, <2>1 DEF SInv, Settings, Clearing, Resting
  <2>5. Entry(Cur)' /\ Disjoint(Cur)'
    BY <1>1, <1>3, <1>5, <2>1, <2>2 DEF SInv, Entry, Deleting, Disjoint, Listing
  <2>6. Named(Cur)'
    BY <1>1, <1>5, <2>1, <2>2, <2>3 DEF SInv, Named, Resting, Marking, Listing
  <2>7. Kinds(Cur)'
    BY <1>1, <1>5, <2>1, <2>2, <2>3 DEF SInv, Kinds, Resting, Marking, Listing, Clearing
  <2>8. Chained(Cur)'
    BY <1>1, <1>5, <2>1, <2>2, <2>3 DEF SInv, Chained, Resting, Marking, Listing, Clearing
  <2>9. Finished(Cur)' => Finished(Cur)
    BY <1>1, <2>1 DEF Finished
  <2>10. Late(Cur)' => Late(Cur)
    BY <1>1, <1>5, <2>1, <2>9 DEF Late, Listing
  <2>11. OwnDone(Cur)'
    BY <1>1, <1>5, <2>1, <2>2, <2>10 DEF SInv, OwnDone
  <2>12. MultiDone(Cur)'
    BY <1>1, <1>5, <2>1, <2>2, <2>9 DEF SInv, MultiDone, ListedKeys, Rejected
  <2> QED
    BY <2>1, <2>4, <2>5, <2>6, <2>7, <2>8, <2>11, <2>12 DEF SInv
<1> QED
  BY <1>4, <1>5

LEMMA SCallers ==
  ASSUME HInv, SInv, ~Overlap, Callers
  PROVE  SInv'
<1>0. /\ Types /\ "mac" \in Thr /\ "ctl" \in Thr
      /\ \A q \in Thr : q = "mac" \/ q = "ctl"
  BY DEF HInv, Thr
<1>1. ASSUME NEW p \in Thr, th[p].pc \in {"idle", "ret"},
             \A q \in Thr : q # p => th[q].pc = "idle"
      PROVE  Cur.pc \in Resting
  BY <1>1 DEF Cur, Resting, Thr
<1>2. cst \in {"down", "clearing", "drain"} => ~rxq
  BY DEF SInv, Settings
<1>3. th["mac"].pc = "idle" \/ th["ctl"].pc = "idle"
  BY DEF SInv, Alone
<1>4. \A e, n : /\ Fresh(e, n).sub = "none" /\ Fresh(e, n).pc = "begin"
                /\ Fresh(e, n).arg = e /\ Fresh(e, n).i = 1
  BY FreshFields
<1>5. ASSUME NEW promisc \in Promiscs, NEW list \in Lists, FilterApply(promisc, list, TRUE)
      PROVE  SInv'
  <2>1. Turn("mac", Fresh(ep', << list >>))
    BY <1>0, <1>5, ApplyTurn
  <2>2. /\ tabvars' = tabvars /\ lstvars' = lstvars /\ chain' = chain
        /\ orphans' = orphans /\ cst' = cst /\ rxq' = rxq
        /\ \A q \in Thr : th[q].pc = "idle"
    BY <1>5 DEF FilterApply, Free
  <2> QED
    BY <1>0, <1>1, <1>2, <1>4, <2>1, <2>2, SBetween
<1>6. ASSUME NEW a \in Addrs, NEW v \in BOOLEAN, AddrSet(a, v, TRUE) PROVE SInv'
  <2>1. th' = th \/ Turn("mac", Fresh(ep', << >>))
    BY <1>0, <1>6, AddrTurn
  <2>2. /\ tabvars' = tabvars /\ lstvars' = lstvars /\ chain' = chain
        /\ orphans' = orphans /\ cst' = cst /\ rxq' = rxq
        /\ \A q \in Thr : th[q].pc = "idle"
    BY <1>6 DEF AddrSet, Free
  <2>3. CASE th' = th
    <3>1. Turn("mac", th["mac"])
      BY <1>0, <2>3 DEF Turn, Types
    <3>2. th["mac"].sub = "none" /\ th["mac"].pc = "idle"
      BY <1>0, <2>2, NoEntry DEF Adding, Loops
    <3> QED
      BY <1>0, <1>1, <1>2, <2>2, <3>1, <3>2, SBetween
  <2>4. CASE Turn("mac", Fresh(ep', << >>))
    BY <1>0, <1>1, <1>2, <1>4, <2>2, <2>4, SBetween
  <2> QED
    BY <2>1, <2>3, <2>4
<1>7. CASE ListSet(TRUE)
  <2>1. Turn("mac", Fresh(ep', << >>))
    BY <1>0, <1>7, ListSetTurn
  <2>2. /\ tabvars' = tabvars /\ lstvars' = lstvars /\ chain' = chain
        /\ orphans' = orphans /\ cst' = cst /\ rxq' = rxq /\ th["mac"].pc = "ret"
    BY <1>7 DEF ListSet
  <2>3. \A q \in Thr : q # "mac" => th[q].pc = "idle"
    BY <1>0, <1>3, <2>2
  <2> QED
    BY <1>0, <1>1, <1>2, <1>4, <2>1, <2>2, <2>3, SBetween
<1>8. CASE MacReturn
  <2>1. Turn("mac", Calm)
    BY <1>0, <1>8, CalmTurn DEF MacReturn
  <2>2. /\ tabvars' = tabvars /\ lstvars' = lstvars /\ chain' = chain
        /\ orphans' = orphans /\ cst' = cst /\ rxq' = rxq /\ th["mac"].pc = "ret"
    BY <1>8 DEF MacReturn, cfgvars
  <2>3. \A q \in Thr : q # "mac" => th[q].pc = "idle"
    BY <1>0, <1>3, <2>2
  <2> QED
    BY <1>0, <1>1, <1>2, <2>1, <2>2, <2>3, SBetween, FreshFields
<1>9. CASE RxStart \/ RxStop \/ MacDrain(TRUE)
  <2>1. Turn("ctl", Fresh(ep', << >>))
    BY <1>0, <1>9, RxTurn
  <2>2. /\ tabvars' = tabvars /\ lstvars' = lstvars /\ chain' = chain
        /\ orphans' = orphans /\ (cst' \in {"down", "clearing", "drain"} => ~rxq')
        /\ th["ctl"].pc \in {"idle", "ret"} /\ th["mac"].pc = "idle"
    BY <1>0, <1>9 DEF RxStart, RxStop, MacDrain, Free
  <2>3. \A q \in Thr : q # "ctl" => th[q].pc = "idle"
    BY <1>0, <2>2
  <2> QED
    BY <1>0, <1>1, <1>4, <2>1, <2>2, <2>3, SBetween
<1>10. CASE RxStarted
  <2>1. Turn("ctl", Calm)
    BY <1>0, <1>10, CalmTurn DEF RxStarted
  <2>2. /\ tabvars' = tabvars /\ lstvars' = lstvars /\ chain' = chain
        /\ orphans' = orphans /\ cst' = "up" /\ th["ctl"].pc = "ret"
    BY <1>10 DEF RxStarted
  <2>3. \A q \in Thr : q # "ctl" => th[q].pc = "idle"
    BY <1>0, <1>3, <2>2
  <2> QED
    BY <1>0, <1>1, <2>1, <2>2, <2>3, SBetween, FreshFields
<1>11. CASE Refused
  <2>1. PICK p \in Thr, n \in Seq(Lists) :
          /\ Turn(p, Stays(th[p], n)) /\ th[p].pc \in {"idle", "ret"}
          /\ ep' = ep /\ chain' = chain /\ tabvars' = tabvars /\ lstvars' = lstvars
          /\ orphans' = orphans
          /\ \/ p = "mac" /\ cst' = cst /\ rxq' = rxq /\ (th[p].pc = "ret" \/ Free(p))
             \/ p = "ctl" /\ cst' = "drain" /\ rxq' = FALSE /\ th["mac"].pc = "idle"
    BY <1>0, <1>11, RefusedStays
  <2>2. \A q \in Thr : q # p => th[q].pc = "idle"
    BY <1>0, <1>3, <2>1 DEF Free
  <2>3. rxq' = rxq \/ rxq' = FALSE
    BY <2>1
  <2>4. cst' \in {"down", "clearing", "drain"} => ~rxq'
    BY <1>2, <2>1
  <2> QED
    BY <2>1, <2>2, <2>3, <2>4, SStays
<1> QED
  BY <1>5, <1>6, <1>7, <1>8, <1>9, <1>10, <1>11 DEF Callers, Refused

(* No filters are left, and no call.                                       *)
LEMMA SEmpty ==
  ASSUME Alone, Cur.pc = "idle", Cur.sub = "none", tab = Empty, old = {},
         ucl = << >>, mcl = << >>, orphans = {}, ~rxq
  PROVE  SInv
<1>1. Live = {} /\ InUcl = {} /\ InMcl = {}
  BY DEF Live, Empty, InUcl, InMcl
<1>2. Settings(Cur) /\ Entry(Cur)
  BY DEF Settings, Entry, Deleting, Clearing, Resting
<1>3. Named(Cur) /\ Disjoint(Cur)
  BY <1>1 DEF Named, Disjoint, Resting, Marking, Listing
<1>4. Kinds(Cur) /\ Chained(Cur)
  BY <1>1 DEF Kinds, Chained, Listing
<1>5. OwnDone(Cur) /\ MultiDone(Cur)
  BY DEF OwnDone, MultiDone, Late, Finished, Listing
<1> QED
  BY <1>2, <1>3, <1>4, <1>5 DEF SInv

LEMMA SInit == ASSUME Init PROVE SInv
<1>1. \A p \in Thr : th[p] = Calm
  BY DEF Init
<1>2. Alone /\ Cur.pc = "idle" /\ Cur.sub = "none"
  BY <1>1, FreshFields DEF Alone, Cur, Thr
<1> QED
  BY <1>2, SEmpty DEF Init

LEMMA SFini ==
  ASSUME HInv, SInv, FilterFini
  PROVE  SInv'
<1>0. /\ Types /\ "mac" \in Thr /\ "ctl" \in Thr
      /\ th["mac"].pc = "idle" /\ th["ctl"].pc = "ret"
  BY DEF HInv, FilterFini, Drained, Thr
<1>1. Turn("ctl", Calm)
  BY <1>0, CalmTurn DEF FilterFini
<1>2. \A q \in Thr : q # "ctl" => th[q].pc = "idle" /\ th[q].sub = "none"
  BY <1>0, NoEntry DEF Adding, Loops, Thr
<1>3. Alone' /\ Cur'.pc = "idle" /\ Cur'.sub = "none"
  BY <1>0, <1>1, <1>2, TurnCur, FreshFields
<1>4. /\ tab' = Empty /\ old' = {} /\ ucl' = << >> /\ mcl' = << >>
      /\ orphans' = {} /\ rxq' = rxq /\ cst = "drain"
  BY DEF FilterFini
<1>5. Live' = {} /\ InUcl' = {} /\ InMcl' = {}
  BY <1>4 DEF Live, Empty, InUcl, InMcl
<1>6. ~rxq'
  BY <1>4 DEF SInv, Settings
<1>7. Settings(Cur)' /\ Entry(Cur)'
  BY <1>3, <1>6 DEF Settings, Entry, Deleting, Clearing, Resting
<1>8. Named(Cur)' /\ Disjoint(Cur)'
  BY <1>3, <1>4, <1>5 DEF Named, Disjoint, Resting, Marking, Listing
<1>9. Kinds(Cur)' /\ Chained(Cur)'
  BY <1>3, <1>4, <1>5 DEF Kinds, Chained, Listing
<1>10. OwnDone(Cur)' /\ MultiDone(Cur)'
  BY <1>3 DEF OwnDone, MultiDone, Late, Finished, Listing
<1> QED
  BY <1>3, <1>7, <1>8, <1>9, <1>10 DEF SInv

LEMMA SReboot ==
  ASSUME HInv, SInv, McReboot \/ UNCHANGED vars
  PROVE  SInv'
<1>1. /\ ep' = ep /\ rxq' = rxq /\ chain' = chain /\ cst' = cst /\ tab' = tab
      /\ old' = old /\ ucl' = ucl /\ mcl' = mcl /\ allmc' = allmc /\ th' = th
      /\ orphans' = orphans
  BY DEF McReboot, lstvars, vars, cfgvars, tabvars
<1>2. Cur' = Cur /\ Alone' /\ InUcl' = InUcl /\ InMcl' = InMcl /\ Live' = Live
  BY <1>1 DEF Cur, SInv, Alone, InUcl, InMcl, Live, Coming
<1>3. Settings(Cur)' /\ Entry(Cur)'
  BY <1>1, <1>2 DEF SInv, Settings, Entry, Sought, Picked
<1>4. Named(Cur)' /\ Disjoint(Cur)'
  BY <1>1, <1>2 DEF SInv, Named, Disjoint, InGot, From
<1>5. Kinds(Cur)' /\ Chained(Cur)'
  BY <1>1, <1>2 DEF SInv, Kinds, Chained, InGot
<1>6. OwnDone(Cur)' /\ MultiDone(Cur)'
  BY <1>1, <1>2 DEF SInv, OwnDone, MultiDone, Late, Finished, InGot, ListedKeys, Rejected
<1> QED
  BY <1>2, <1>3, <1>4, <1>5, <1>6 DEF SInv

(* The lists of rows after the changes the steps make.                     *)
LEMMA Appended ==
  ASSUME NEW s \in Seq(RowSet), NEW r \in RowSet
  PROVE  /\ {Append(s, r)[j] : j \in DOMAIN Append(s, r)} = {s[j] : j \in DOMAIN s} \cup {r}
         /\ Append(s, r) # << >>
<1>1. Len(s) \in Nat /\ DOMAIN s = 1..Len(s)
  OBVIOUS
<1>2. /\ DOMAIN Append(s, r) = 1..(Len(s) + 1)
      /\ \A j \in 1..Len(s) : Append(s, r)[j] = s[j]
      /\ Append(s, r)[Len(s) + 1] = r
  OBVIOUS
<1>3. \A j \in 1..(Len(s) + 1) : j \in 1..Len(s) \/ j = Len(s) + 1
  BY <1>1
<1>4. 1..Len(s) \subseteq 1..(Len(s) + 1) /\ Len(s) + 1 \in 1..(Len(s) + 1)
  BY <1>1
<1>5. {Append(s, r)[j] : j \in DOMAIN Append(s, r)} = {s[j] : j \in DOMAIN s} \cup {r}
  BY <1>1, <1>2, <1>3, <1>4
<1>6. Append(s, r) # << >>
  <2>1. Len(Append(s, r)) = Len(s) + 1 /\ Len(<< >>) = 0
    OBVIOUS
  <2> QED
    BY <1>1, <2>1
<1> QED
  BY <1>5, <1>6

LEMMA NoElements ==
  ASSUME NEW s \in Seq(RowSet)
  PROVE  s = << >> <=> {s[j] : j \in DOMAIN s} = {}
<1>1. DOMAIN s = 1..Len(s) /\ Len(s) \in Nat
  OBVIOUS
<1>2. {s[j] : j \in DOMAIN s} = {} <=> 1..Len(s) = {}
  BY <1>1
<1>3. 1..Len(s) = {} <=> Len(s) = 0
  <2>1. \A n \in Nat : n # 0 => 1 \in 1..n
    OBVIOUS
  <2>2. 1..0 = {}
    OBVIOUS
  <2> QED
    BY ONLY <1>1, <2>1, <2>2
<1>4. Len(s) = 0 <=> s = << >>
  OBVIOUS
<1> QED
  BY <1>2, <1>3, <1>4

LEMMA LastTaken ==
  ASSUME NEW s \in Seq(RowSet), s # << >>
  PROVE  LET u == SubSeq(s, 1, Len(s) - 1) IN
         /\ {u[j] : j \in DOMAIN u} \subseteq {s[j] : j \in DOMAIN s}
         /\ {s[j] : j \in DOMAIN s} \subseteq {u[j] : j \in DOMAIN u} \cup {s[Len(s)]}
         /\ s[Len(s)] \in {s[j] : j \in DOMAIN s}
<1> DEFINE u == SubSeq(s, 1, Len(s) - 1)
<1>1. Len(s) \in Nat \ {0} /\ DOMAIN s = 1..Len(s)
  OBVIOUS
<1>2. DOMAIN u = 1..(Len(s) - 1) /\ \A j \in 1..(Len(s) - 1) : u[j] = s[j]
  BY <1>1
<1>3. \A j \in 1..Len(s) : j \in 1..(Len(s) - 1) \/ j = Len(s)
  <2>1. \A n \in Nat : \A j \in 1..n : j \in 1..(n - 1) \/ j = n
    OBVIOUS
  <2> QED
    BY ONLY <1>1, <2>1
<1>4. 1..(Len(s) - 1) \subseteq 1..Len(s) /\ Len(s) \in 1..Len(s)
  BY <1>1
<1> HIDE DEF u
<1>5. {u[j] : j \in DOMAIN u} \subseteq {s[j] : j \in DOMAIN s}
  BY <1>1, <1>2, <1>4
<1>6. {s[j] : j \in DOMAIN s} \subseteq {u[j] : j \in DOMAIN u} \cup {s[Len(s)]}
  BY <1>1, <1>2, <1>3
<1> QED
  BY <1>1, <1>4, <1>5, <1>6 DEF u

(* A step of the reconfiguration.                                          *)
LEMMA Scene ==
  ASSUME HInv, SInv, NEW p \in Thr, th[p].pc # "idle",
         NEW t, Turn(p, t), t.pc # "idle"
  PROVE  /\ Cur = th[p] /\ Cur \in Calls /\ Cur' = t /\ t \in Calls /\ Alone'
         /\ Live = {r \in RowSet : tab[r] # Unset /\ ~(Cur.sub = "add" /\ Cur.row = r)}
         /\ Live' = {r \in RowSet : tab'[r] # Unset /\ ~(t.sub = "add" /\ t.row = r)}
         /\ Cur.arg = ep /\ Cur.arg \in Cfgs
<1>1. Types /\ th[p] \in Calls /\ Alone
  BY DEF HInv, Types, SInv
<1>2. Cur = th[p] /\ \A q \in Thr : q # p => th[q].pc = "idle" /\ th[q].sub = "none"
  BY <1>1, Acting
<1>3. Alone' /\ Cur' = t
      /\ Live' = {r \in RowSet : tab'[r] # Unset /\ ~(t.sub = "add" /\ t.row = r)}
  BY <1>1, <1>2, TurnCur
<1>4. Live = {r \in RowSet : tab[r] # Unset /\ ~(Cur.sub = "add" /\ Cur.row = r)}
  BY <1>2, LiveNow
<1>5. Cur.arg = ep /\ Cur.arg \in Cfgs
  BY <1>1, <1>2 DEF SInv, Settings, Types
<1> QED
  BY <1>1, <1>2, <1>3, <1>4, <1>5 DEF Turn

LEMMA SBegin ==
  ASSUME HInv, SInv, NEW p \in Thr, Begin(p)
  PROVE  SInv'
<1>0. Types /\ th[p].pc = "begin"
  BY DEF HInv, Begin
<1>1. PICK t : t = [th[p] EXCEPT !.pc = IF rxq THEN "own" ELSE "clru", !.sub = "none"]
  OBVIOUS
<1>2. Turn(p, t)
  BY <1>0, <1>1, BeginTurn
<1>3. /\ t.sub = "none" /\ t.arg = th[p].arg /\ t.i = th[p].i
      /\ t.pc = (IF rxq THEN "own" ELSE "clru") /\ th[p].sub = "none"
  BY <1>0, <1>1, NoEntry DEF Types, Calls, Adding, Loops
<1>4. /\ Cur = th[p] /\ Cur' = t /\ Alone' /\ Cur.arg = ep /\ Live' = Live
  <2>1. tab' = tab /\ t.pc # "idle"
    BY <1>3 DEF Begin
  <2> QED
    BY <1>0, <1>2, <1>3, <2>1, Scene
<1>5. /\ tab' = tab /\ mcl' = mcl /\ allmc' = allmc /\ orphans' = orphans
      /\ ep' = ep /\ rxq' = rxq /\ chain' = chain /\ cst' = cst
  BY DEF Begin, cfgvars
<1>6. InMcl' = InMcl
  BY <1>5 DEF InMcl
<1>7. /\ old = {} /\ InUcl \cup InMcl \subseteq Live
      /\ Live \subseteq InUcl \cup InMcl \cup orphans /\ Cur.i = 1
      /\ (cst \in {"down", "clearing", "drain"} => ~rxq)
      /\ \A r \in orphans : r \in Live /\ tab[r] \in Unicast
      /\ \A r \in InUcl : tab[r] \in Unicast
      /\ \A r \in InMcl : tab[r] \in Multi
      /\ chain => /\ allmc => \A r \in Live : tab[r] \in Unicast \cup {"mcdef"}
                  /\ ~allmc => \A r \in Live : tab[r] # "mcdef"
  BY <1>0, <1>4 DEF SInv, Named, Entry, Kinds, Chained, Settings, Resting, Clearing
<1>8. Settings(Cur)'
  BY <1>3, <1>4, <1>5, <1>7 DEF Settings, Clearing, Resting
<1>9. Entry(Cur)'
  BY <1>3, <1>4 DEF Entry, Deleting
<1>10. CASE rxq
  <2>1. /\ old' = InMcl \cup InUcl /\ ucl' = << >> /\ InUcl' = {} /\ Cur'.pc = "own"
    BY <1>3, <1>4, <1>7, <1>10 DEF Begin, Marked, NoUcl, InUcl
  <2>2. Named(Cur)'
    BY <2>1, <1>4, <1>5, <1>6, <1>7 DEF Named, Resting, Marking, Listing
  <2>3. Disjoint(Cur)'
    BY <2>1 DEF Disjoint, Listing
  <2>4. Kinds(Cur)'
    BY <2>1, <1>4, <1>5, <1>6, <1>7 DEF Kinds, Resting, Marking, Listing, Clearing
  <2>5. Chained(Cur)'
    BY <2>1, <1>4, <1>5, <1>7 DEF Chained, Resting, Marking, Listing, Clearing
  <2>6. OwnDone(Cur)' /\ MultiDone(Cur)'
    BY <2>1 DEF OwnDone, MultiDone, Late, Finished, Listing
  <2> QED
    BY <1>4, <1>8, <1>9, <2>2, <2>3, <2>4, <2>5, <2>6 DEF SInv
<1>11. CASE ~rxq
  <2>1. /\ old' = old /\ ucl' = ucl /\ InUcl' = InUcl /\ Cur'.pc = "clru" /\ Cur'.i = 1
    BY <1>3, <1>4, <1>7, <1>11 DEF Begin, InUcl
  <2>2. Named(Cur)'
    <3>1. From(ucl, 1) = InUcl
      <4>1. \A n \in DOMAIN ucl : n >= 1
        BY <1>0 DEF Types
      <4> QED
        BY <4>1 DEF From, InUcl
    <3>2. From(ucl, Cur.i)' = InUcl
      BY <2>1, <3>1 DEF From
    <3> QED
      BY <2>1, <3>2, <1>4, <1>5, <1>6, <1>7 DEF Named, Resting, Marking, Listing
  <2>3. Disjoint(Cur)'
    BY <2>1, <1>7 DEF Disjoint, Listing
  <2>4. Kinds(Cur)'
    BY <2>1, <1>4, <1>5, <1>6, <1>7 DEF Kinds, Resting, Marking, Listing, Clearing
  <2>5. Chained(Cur)'
    BY <2>1, <1>4, <1>5, <1>7 DEF Chained, Resting, Marking, Listing, Clearing
  <2>6. OwnDone(Cur)' /\ MultiDone(Cur)'
    BY <2>1 DEF OwnDone, MultiDone, Late, Finished, Listing
  <2> QED
    BY <1>4, <1>8, <1>9, <2>2, <2>3, <2>4, <2>5, <2>6 DEF SInv
<1> QED
  BY <1>10, <1>11

(* The rest of a list in a loop over it.                                   *)
LEMMA RestOfList ==
  ASSUME NEW s \in Seq(RowSet), NEW i \in Nat \ {0}
  PROVE  /\ From(s, 1) = {s[j] : j \in DOMAIN s}
         /\ i <= Len(s) => /\ s[i] \in RowSet
                           /\ From(s, i) \subseteq From(s, i + 1) \cup {s[i]}
         /\ ~(i <= Len(s)) => From(s, i) = {}
<1>1. DOMAIN s = 1..Len(s) /\ Len(s) \in Nat
  OBVIOUS
<1>2. From(s, 1) = {s[j] : j \in DOMAIN s}
  <2>1. \A n \in DOMAIN s : n >= 1
    BY <1>1
  <2> QED
    BY <2>1 DEF From
<1>3. ASSUME i <= Len(s)
      PROVE  s[i] \in RowSet /\ From(s, i) \subseteq From(s, i + 1) \cup {s[i]}
  <2>1. \A n \in DOMAIN s : n >= i => n = i \/ n >= i + 1
    BY <1>1
  <2>2. s[i] \in RowSet
    BY <1>3
  <2> QED
    BY <2>1, <2>2 DEF From
<1>4. ASSUME ~(i <= Len(s)) PROVE From(s, i) = {}
  <2>1. \A n \in DOMAIN s : ~(n >= i)
    BY <1>1, <1>4
  <2> QED
    BY <2>1 DEF From
<1> QED
  BY <1>2, <1>3, <1>4

LEMMA RowIsNot == \A r \in RowSet : r # NoRow /\ r \in Int
BY Ef10FilterAssumption DEF Ef10FilterAssumption, RowSet, NoRow

LEMMA SCleared ==
  ASSUME HInv, SInv, NEW p \in Thr, Cleared(p)
  PROVE  SInv'
<1>0. Types /\ th[p].pc \in {"clru", "clrm"} /\ th[p].sub = "none" /\ th[p] \in Calls
  BY DEF HInv, Cleared, Types
<1>1. PICK t : t = [th[p] EXCEPT !.pc = IF @ = "clru" THEN "clrm" ELSE "ret", !.i = 1]
  OBVIOUS
<1>2. Turn(p, t)
  BY <1>0, <1>1, ClearedTurn
<1>3. /\ t.sub = "none" /\ t.arg = th[p].arg /\ t.i = 1
      /\ t.pc = (IF th[p].pc = "clru" THEN "clrm" ELSE "ret")
  BY <1>0, <1>1 DEF Calls
<1>4. /\ Cur = th[p] /\ Cur' = t /\ Alone' /\ Cur.arg = ep /\ Live' = Live
  <2>1. tab' = tab /\ t.pc # "idle"
    BY <1>3 DEF Cleared, tabvars
  <2> QED
    BY <1>0, <1>2, <1>3, <2>1, Scene
<1>5. /\ tab' = tab /\ old' = old /\ allmc' = allmc /\ orphans' = orphans
      /\ ep' = ep /\ rxq' = rxq /\ chain' = chain /\ cst' = cst
      /\ th[p].pc = "clru" => ucl' = << >> /\ mcl' = mcl
      /\ th[p].pc = "clrm" => mcl' = << >> /\ ucl' = ucl
  BY DEF Cleared, cfgvars, tabvars
<1>6. /\ old = {} /\ ~rxq
      /\ \A r \in orphans : r \in Live /\ tab[r] \in Unicast
      /\ chain => /\ allmc => \A r \in Live : tab[r] \in Unicast \cup {"mcdef"}
                  /\ ~allmc => \A r \in Live : tab[r] # "mcdef"
  BY <1>0, <1>4 DEF SInv, Named, Kinds, Chained, Settings, Clearing
<1>7. Settings(Cur)'
  BY <1>3, <1>4, <1>5, <1>6 DEF Settings, Clearing, Resting
<1>8. Entry(Cur)'
  BY <1>3, <1>4 DEF Entry, Deleting
<1>9. Disjoint(Cur)' /\ OwnDone(Cur)' /\ MultiDone(Cur)'
  BY <1>0, <1>3, <1>4, <1>5, <1>6 DEF Disjoint, OwnDone, MultiDone, Late, Finished, Listing
<1>10. Chained(Cur)'
  BY <1>0, <1>3, <1>4, <1>5, <1>6 DEF Chained, Resting, Marking, Listing, Clearing
<1>11. /\ ucl \in Seq(RowSet) /\ mcl \in Seq(RowSet) /\ th[p].i \in Nat \ {0}
  BY <1>0 DEF Types, Calls
<1>12. CASE th[p].pc = "clru"
  <2>1. ~(th[p].i <= Len(ucl))
    <3>1. (IF th[p].i <= Len(ucl) THEN ucl[th[p].i] ELSE NoRow) = NoRow
      BY <1>12 DEF Cleared, RowIn
    <3> QED
      BY <1>11, <3>1, RestOfList, RowIsNot
  <2>2. From(ucl, th[p].i) = {} /\ From(mcl, 1) = InMcl
    BY <1>11, <2>1, RestOfList DEF InMcl
  <2>3. From(mcl, Cur.i)' = InMcl /\ Cur'.pc = "clrm" /\ ucl' = << >> /\ InUcl' = {}
    BY <2>2, <1>3, <1>4, <1>5, <1>12 DEF From, InUcl
  <2>4. Live \subseteq InMcl \cup orphans
    BY <1>4, <1>12, <2>2 DEF SInv, Named
  <2>5. Named(Cur)'
    BY <1>4, <1>5, <1>6, <2>3, <2>4 DEF Named, Resting, Marking, Listing
  <2>6. Kinds(Cur)'
    BY <1>4, <1>5, <1>6, <2>3 DEF Kinds, Resting, Marking, Listing, Clearing
  <2> QED
    BY <1>4, <1>7, <1>8, <1>9, <1>10, <2>5, <2>6 DEF SInv
<1>13. CASE th[p].pc = "clrm"
  <2>1. ~(th[p].i <= Len(mcl))
    <3>1. (IF th[p].i <= Len(mcl) THEN mcl[th[p].i] ELSE NoRow) = NoRow
      BY <1>13 DEF Cleared, RowIn
    <3> QED
      BY <1>11, <3>1, RestOfList, RowIsNot
  <2>2. From(mcl, th[p].i) = {}
    BY <1>11, <2>1, RestOfList
  <2>3. Live \subseteq orphans /\ ucl = << >>
    BY <1>4, <1>13, <2>2 DEF SInv, Named
  <2>4. Cur'.pc = "ret" /\ InUcl' = {} /\ InMcl' = {}
    BY <2>3, <1>3, <1>4, <1>5, <1>13 DEF InMcl, InUcl
  <2>5. Named(Cur)'
    BY <1>4, <1>5, <1>6, <2>3, <2>4 DEF Named, Resting, Marking, Listing
  <2>6. Kinds(Cur)'
    BY <1>4, <1>5, <1>6, <2>4 DEF Kinds, Resting, Marking, Listing, Clearing
  <2> QED
    BY <1>4, <1>7, <1>8, <1>9, <1>10, <2>5, <2>6 DEF SInv
<1> QED
  BY <1>0, <1>12, <1>13

LEMMA SFail ==
  ASSUME HInv, SInv, NEW p \in Thr, Fail(p)
  PROVE  SInv'
<1>0. Types /\ th[p].pc = "fail" /\ th[p] \in Calls /\ th[p].sub = "none"
  BY NoEntry DEF HInv, Fail, Types, Adding, Loops
<1>1. PICK t : t = [th[p] EXCEPT !.pc = "ret", !.rc = "error"]
  OBVIOUS
<1>2. Turn(p, t)
  BY <1>0, <1>1, FailTurn
<1>3. t.sub = "none" /\ t.arg = th[p].arg /\ t.pc = "ret" /\ t.rc = "error"
  BY <1>0, <1>1 DEF Calls
<1>4. /\ Cur = th[p] /\ Cur' = t /\ Alone' /\ Cur.arg = ep /\ Live' = Live
  <2>1. tab' = tab
    BY DEF Fail
  <2> QED
    BY <1>0, <1>2, <1>3, <2>1, Scene
<1>5. /\ tab' = tab /\ old' = {} /\ orphans' = orphans \cup (old \ InMcl)
      /\ ucl' = ucl /\ mcl' = mcl /\ allmc' = allmc
      /\ ep' = ep /\ rxq' = rxq /\ chain' = chain /\ cst' = cst
      /\ InUcl' = InUcl /\ InMcl' = InMcl
  BY DEF Fail, cfgvars, lstvars, InUcl, InMcl
<1>6. /\ old \cup InUcl \subseteq Live /\ Live \subseteq old \cup InUcl \cup orphans
      /\ InMcl \subseteq old \cup InUcl
      /\ (cst \in {"down", "clearing", "drain"} => ~rxq)
      /\ \A r \in orphans : r \in Live /\ tab[r] \in Unicast
      /\ \A r \in InUcl : tab[r] \in Unicast
      /\ \A r \in InMcl : tab[r] \in Multi
      /\ \A r \in old \ InMcl : tab[r] \in Unicast
      /\ chain => /\ allmc => \A r \in Live : tab[r] \in Unicast \cup {"mcdef"}
                  /\ ~allmc => \A r \in Live : tab[r] # "mcdef"
  BY <1>0, <1>4 DEF SInv, Named, Kinds, Chained, Settings, Marking, Clearing
<1>7. Settings(Cur)' /\ Entry(Cur)'
  BY <1>3, <1>4, <1>5, <1>6 DEF Settings, Entry, Clearing, Resting, Deleting
<1>8. Named(Cur)'
  BY <1>3, <1>4, <1>5, <1>6 DEF Named, Resting, Marking, Listing
<1>9. Disjoint(Cur)' /\ OwnDone(Cur)' /\ MultiDone(Cur)'
  BY <1>3, <1>4, <1>5 DEF Disjoint, OwnDone, MultiDone, Late, Finished, Listing
<1>10. Kinds(Cur)'
  BY <1>3, <1>4, <1>5, <1>6 DEF Kinds, Resting, Marking, Listing, Clearing
<1>11. Chained(Cur)'
  BY <1>3, <1>4, <1>5, <1>6 DEF Chained, Resting, Marking, Listing, Clearing
<1> QED
  BY <1>4, <1>7, <1>8, <1>9, <1>10, <1>11 DEF SInv

LEMMA SWa ==
  ASSUME HInv, SInv, NEW p \in Thr, NEW ok \in BOOLEAN, Workarounds(p, ok)
  PROVE  SInv'
<1>0. Types /\ th[p].pc = "wa" /\ th[p] \in Calls /\ th[p].sub = "none"
  BY NoEntry DEF HInv, Workarounds, Types, Adding, Loops
<1>1. PICK t : t = IF ok THEN WaNext(th[p], chain, allmc)
                   ELSE [th[p] EXCEPT !.pc = "fail", !.sub = "none"]
  OBVIOUS
<1>2. Turn(p, t)
  <2>1. CASE ok
    BY <1>0, <1>1, <2>1, WaTurn
  <2>2. CASE ~ok
    BY <1>0, <1>1, <2>2, WaFailTurn
  <2> QED
    BY <2>1, <2>2
<1>3. /\ t.sub = "none" /\ t.arg = th[p].arg /\ t.uerr = th[p].uerr /\ t.arc = th[p].arc
      /\ ok => /\ t.pc = (IF chain /\ allmc # t.arg.allm THEN "preold"
                          ELSE IF t.arg.allm THEN "allm" ELSE "list")
               /\ t.i = 1 /\ t.got = << >>
      /\ ~ok => t.pc = "fail"
  BY <1>0, <1>1 DEF Calls, WaNext
<1>4. /\ Cur = th[p] /\ Cur' = t /\ Alone' /\ Cur.arg = ep /\ Live' = Live
      /\ Cur.arg \in Cfgs
  <2>1. tab' = tab /\ t.pc # "idle" /\ th[p].pc # "idle"
    BY <1>0, <1>3 DEF Workarounds, tabvars
  <2> QED
    BY <1>0, <1>2, <1>3, <2>1, Scene
<1>5. /\ tab' = tab /\ old' = old /\ orphans' = orphans
      /\ ucl' = ucl /\ mcl' = mcl /\ allmc' = allmc
      /\ ep' = ep /\ rxq' = rxq /\ chain' = chain /\ cst' = cst
      /\ InUcl' = InUcl /\ InMcl' = InMcl
  BY DEF Workarounds, tabvars, cfgvars, lstvars, InUcl, InMcl
<1>6. /\ old \cup InUcl \subseteq Live /\ Live \subseteq old \cup InUcl \cup orphans
      /\ InMcl \subseteq old \cup InUcl /\ old \cap InUcl = {}
      /\ rxq /\ (cst \in {"down", "clearing", "drain"} => ~rxq)
      /\ \A r \in orphans : r \in Live /\ tab[r] \in Unicast
      /\ \A r \in InUcl : tab[r] \in Unicast
      /\ \A r \in InMcl : tab[r] \in Multi
      /\ \A r \in old \ InMcl : tab[r] \in Unicast
      /\ chain => /\ allmc => \A r \in Live : tab[r] \in Unicast \cup {"mcdef"}
                  /\ ~allmc => \A r \in Live : tab[r] # "mcdef"
  BY <1>0, <1>4 DEF SInv, Named, Disjoint, Kinds, Chained, Settings, Marking, Clearing,
     Resting
<1>7. ok => \A r \in old : r >= 0
  BY <1>0, Ef10FilterAssumption DEF Types, RowSet, Ef10FilterAssumption
<1>8. Settings(Cur)'
  BY <1>3, <1>4, <1>5, <1>6 DEF Settings, Clearing, Resting
<1>9. Entry(Cur)'
  BY <1>3, <1>4, <1>5, <1>7 DEF Entry, Deleting
<1>10. ok => InGot(t) = {}
  BY <1>3 DEF InGot
<1>11. Named(Cur)' /\ Disjoint(Cur)'
  <2>1. InGot(Cur)' = InGot(t)
    BY <1>4 DEF InGot
  <2> QED
    BY <1>3, <1>4, <1>5, <1>6, <1>10, <2>1
       DEF Named, Disjoint, Resting, Marking, Listing, Clearing
<1>12. Kinds(Cur)'
  <2>1. InGot(Cur)' = InGot(t)
    BY <1>4 DEF InGot
  <2> QED
    BY <1>3, <1>4, <1>5, <1>6, <1>10, <2>1
       DEF Kinds, Resting, Marking, Listing, Clearing
<1>13. Chained(Cur)'
  <2>1. allmc \in BOOLEAN /\ t.arg.allm \in BOOLEAN
    BY <1>0, <1>3, <1>4 DEF Types, Cfgs
  <2>2. chain /\ t.pc = "allm" => \A r \in Live : tab[r] \in Unicast \cup {"mcdef"}
    BY <1>3, <1>6, <2>1
  <2>3. chain /\ t.pc = "list" => ~allmc
    BY <1>3, <2>1
  <2>4. t.pc \in {"fail", "preold", "allm", "list"}
    BY <1>3
  <2> QED
    BY <1>4, <1>5, <1>6, <2>2, <2>3, <2>4
       DEF Chained, Resting, Marking, Listing, Clearing
<1>14. OwnDone(Cur)'
  <2>1. CASE ok
    <3>1. /\ \A r \in InUcl : tab[r] \in {t.arg.addr, "ucdef"}
          /\ InUcl # {}
          /\ (\E r \in InUcl : tab[r] = "ucdef") => t.arg.allu \/ t.uerr
          /\ \A r \in old : tab[r] # t.arg.addr
          /\ t.arg.allu /\ ~t.arc => \E r \in InUcl : tab[r] = "ucdef"
      BY <1>0, <1>3, <1>4 DEF SInv, OwnDone, Late
    <3>2. t.pc \notin {"own", "allu"}
      BY <1>3, <2>1
    <3> QED
      BY <1>4, <1>5, <3>1, <3>2 DEF OwnDone
  <2>2. CASE ~ok
    BY <1>3, <1>4, <2>2 DEF OwnDone, Late, Finished, Listing
  <2> QED
    BY <2>1, <2>2
<1>15. MultiDone(Cur)'
  <2>1. t.pc \in {"list", "bcast", "listed"} => ~t.arg.allm /\ InGot(t) = {}
    <3>1. allmc \in BOOLEAN /\ t.arg.allm \in BOOLEAN
      BY <1>0, <1>3, <1>4 DEF Types, Cfgs
    <3> QED
      BY <1>3, <1>10, <3>1
  <2>2. InGot(Cur)' = InGot(t)
    BY <1>4 DEF InGot
  <2>3. t.pc # "old" /\ t.pc # "ret"
    BY <1>3
  <2> QED
    BY <1>4, <2>1, <2>2, <2>3 DEF MultiDone, Finished
<1> QED
  BY <1>4, <1>8, <1>9, <1>11, <1>12, <1>13, <1>14, <1>15 DEF SInv

(* The kinds of filters are disjoint.                                      *)
LEMMA KindsApart ==
  /\ Unicast \cap Multi = {} /\ Unset \notin Unicast /\ Unset \notin Multi
  /\ "mcdef" \notin Unicast /\ "ucdef" \notin Addrs
  /\ {"mcdef", "bcast"} \cap Mcasts = {} /\ Keys = Unicast \cup Multi
BY Ef10FilterAssumption DEF Ef10FilterAssumption, Unicast, Multi, Unset, Keys

(* A loop over the marked rows that finds no row left them all behind.     *)
LEMMA NoneOld ==
  ASSUME Types, NEW p \in Thr, th[p].pc \in Deleting, RowIn(p) = NoRow,
         \A r \in old : r >= th[p].i - 1
  PROVE  old = {}
<1> SUFFICES ASSUME old # {} PROVE FALSE
  OBVIOUS
<1> DEFINE R == {r \in old : r >= th[p].i - 1}
<1>1. R # {} /\ R \subseteq RowSet /\ RowSet \subseteq Nat
  <2>1. RowSet \subseteq Nat
    BY Ef10FilterAssumption DEF RowSet, Ef10FilterAssumption
  <2>2. R = old
    OBVIOUS
  <2> QED
    BY <2>1, <2>2 DEF Types
<1>2. MinRow(R) = NoRow
  <2>1. RowIn(p) = IF R # {} THEN MinRow(R) ELSE NoRow
    BY DEF RowIn, Deleting
  <2> QED
    BY <1>1, <2>1
<1> HIDE DEF R
<1>3. \E r \in R : \A q \in R : r <= q
  BY <1>1, LeastElement
<1>4. MinRow(R) \in R
  BY <1>3 DEF MinRow
<1> QED
  BY <1>1, <1>2, <1>4, RowIsNot

LEMMA SOldRemoved ==
  ASSUME HInv, SInv, NEW p \in Thr, OldRemoved(p)
  PROVE  SInv'
<1>0. Types /\ th[p].pc \in Deleting /\ th[p] \in Calls /\ th[p].sub = "none"
  BY DEF HInv, OldRemoved, Types, Deleting
<1>1. PICK t : t = OldNext(th[p])
  OBVIOUS
<1>2. Turn(p, t)
  BY <1>0, <1>1, OldTurn
<1>3. /\ t.sub = "none" /\ t.arg = th[p].arg /\ t.uerr = th[p].uerr /\ t.arc = th[p].arc
      /\ t.mrc = th[p].mrc /\ t.i = 1 /\ t.got = th[p].got
      /\ th[p].pc = "preold" => t.pc = IF t.arg.allm THEN "allm" ELSE "list"
      /\ th[p].pc = "midold" => t.pc = "allm"
      /\ th[p].pc = "old" => t.pc = "ret" /\ t.rc = IF Rejected(th[p]) THEN "ENOTSUP" ELSE "ok"
  BY <1>0, <1>1 DEF Calls, OldNext
<1>4. /\ Cur = th[p] /\ Cur' = t /\ Alone' /\ Cur.arg = ep /\ Live' = Live
  <2>1. tab' = tab /\ t.pc # "idle" /\ th[p].pc # "idle"
    BY <1>0, <1>3 DEF OldRemoved, tabvars, Deleting
  <2> QED
    BY <1>0, <1>2, <1>3, <2>1, Scene
<1>5. /\ tab' = tab /\ old' = old /\ orphans' = orphans
      /\ ucl' = ucl /\ mcl' = mcl /\ allmc' = allmc
      /\ ep' = ep /\ rxq' = rxq /\ chain' = chain /\ cst' = cst
      /\ InUcl' = InUcl /\ InMcl' = InMcl /\ InGot(Cur)' = InGot(Cur)
  BY <1>3, <1>4 DEF OldRemoved, tabvars, cfgvars, lstvars, InUcl, InMcl, InGot
<1>6. old = {}
  <2>1. RowIn(p) = NoRow
    BY DEF OldRemoved
  <2>2. \A r \in old : r >= th[p].i - 1
    BY <1>0, <1>4 DEF SInv, Entry
  <2> QED
    BY <1>0, <2>1, <2>2, NoneOld
<1>7. /\ InUcl \subseteq Live
      /\ rxq /\ (cst \in {"down", "clearing", "drain"} => ~rxq)
      /\ \A r \in orphans : r \in Live /\ tab[r] \in Unicast
      /\ \A r \in InUcl : tab[r] \in Unicast
      /\ th[p].pc \in {"preold", "midold"} => InGot(Cur) = {} /\ Live \subseteq InUcl \cup orphans
      /\ th[p].pc = "old" => /\ Live \subseteq InUcl \cup InMcl \cup orphans
                             /\ InMcl \subseteq Live
                             /\ \A r \in InMcl : tab[r] \in Multi
  <2>1. th[p].pc \in {"preold", "midold"} => InGot(Cur) = {}
    BY <1>0, <1>4 DEF SInv, Entry, InGot
  <2> QED
    BY <1>0, <1>4, <1>6, <2>1 DEF SInv, Named, Kinds, Settings, Deleting, Listing, Clearing,
       Resting
<1>8. Settings(Cur)'
  BY <1>0, <1>3, <1>4, <1>5, <1>7 DEF Settings, Clearing, Resting, Deleting
<1>9. Entry(Cur)'
  BY <1>0, <1>3, <1>4, <1>5, <1>6 DEF Entry, Deleting
<1>10. Named(Cur)' /\ Disjoint(Cur)' /\ Kinds(Cur)'
  BY <1>0, <1>3, <1>4, <1>5, <1>6, <1>7
     DEF Named, Disjoint, Kinds, Resting, Marking, Listing, Clearing, Deleting
<1>11. Chained(Cur)'
  <2>1. th[p].pc \in {"preold", "midold"} => \A r \in Live : tab[r] \in Unicast
    BY <1>7
  <2>2. chain /\ th[p].pc = "old" =>
          /\ allmc => \A r \in Live : tab[r] \in Unicast \cup {"mcdef"}
          /\ ~allmc => \A r \in Live : tab[r] # "mcdef"
    BY <1>4 DEF SInv, Chained
  <2> QED
    BY <1>0, <1>3, <1>4, <1>5, <1>6, <2>1, <2>2, KindsApart
       DEF Chained, Resting, Marking, Listing, Clearing, Deleting
<1>12. OwnDone(Cur)'
  <2>1. /\ \A r \in InUcl : tab[r] \in {t.arg.addr, "ucdef"}
        /\ InUcl # {}
        /\ (\E r \in InUcl : tab[r] = "ucdef") => t.arg.allu \/ t.uerr
        /\ \A r \in old : tab[r] # t.arg.addr
        /\ t.arg.allu /\ ~t.arc => \E r \in InUcl : tab[r] = "ucdef"
    BY <1>0, <1>3, <1>4 DEF SInv, OwnDone, Late, Deleting, Listing
  <2>2. t.pc \notin {"own", "allu"}
    BY <1>0, <1>3 DEF Deleting
  <2> QED
    BY <1>4, <1>5, <2>1, <2>2 DEF OwnDone
<1>13. MultiDone(Cur)'
  <2>1. CASE th[p].pc # "old"
    BY <1>0, <1>3, <1>4, <1>5, <1>7, <2>1 DEF MultiDone, Finished, Deleting
  <2>2. CASE th[p].pc = "old"
    <3>1. /\ \A r \in InMcl : tab[r] \in ListedKeys(Cur) \cup {"bcast", "mcdef"}
          /\ t.arg.allm /\ ~t.mrc => \E r \in InMcl : tab[r] = "mcdef"
      BY <1>3, <1>4, <2>2 DEF SInv, MultiDone
    <3>2. t.rc = "ok" => ~Rejected(t)
      BY <1>3, <2>2 DEF Rejected
    <3>3. ListedKeys(Cur)' = ListedKeys(Cur)
      BY <1>3, <1>4 DEF ListedKeys
    <3>4. Rejected(Cur)' <=> Rejected(t)
      BY <1>4 DEF Rejected
    <3> QED
      BY <1>3, <1>4, <1>5, <2>2, <3>1, <3>2, <3>3, <3>4 DEF MultiDone
  <2> QED
    BY <2>1, <2>2
<1> QED
  BY <1>4, <1>8, <1>9, <1>10, <1>11, <1>12, <1>13 DEF SInv

LEMMA SListDone ==
  ASSUME HInv, SInv, NEW p \in Thr, ListDone(p)
  PROVE  SInv'
<1>0. Types /\ th[p].pc \in {"list", "listed", "bcast", "undo"} /\ th[p] \in Calls
  BY DEF HInv, ListDone, Types
<1>1. th[p].sub = "none"
  <2>1. CASE th[p].pc = "undo"
    BY <2>1 DEF ListDone
  <2>2. CASE th[p].pc # "undo"
    <3>1. th[p].arg \in Cfgs /\ th[p].i \in Nat \ {0}
      BY <1>0 DEF Types, Calls
    <3>2. Listed(p) \in Nat
      BY <3>1, ListedNat
    <3>3. ~Adding(p)
      BY <1>0, <2>2, <3>1, <3>2 DEF ListDone, Adding
    <3> QED
      BY <1>0, <2>2, <3>3, NoEntry DEF Loops
  <2> QED
    BY <2>1, <2>2
<1>2. PICK t : /\ Turn(p, t)
               /\ t = CASE th[p].pc = "list" -> [th[p] EXCEPT !.pc = "bcast", !.sub = "none"]
                        [] th[p].pc \in {"listed", "bcast"} -> [th[p] EXCEPT !.pc = "old", !.i = 1]
                        [] OTHER -> [th[p] EXCEPT !.i = 1,
                                       !.pc = IF chain /\ ~allmc THEN "midold" ELSE "allm"]
  BY <1>0, ListDoneTurn
<1>3. /\ t.sub = "none" /\ t.arg = th[p].arg /\ t.uerr = th[p].uerr /\ t.arc = th[p].arc
      /\ t.mrc = th[p].mrc /\ t.got = th[p].got /\ t.roll = th[p].roll
      /\ th[p].pc = "list" => t.pc = "bcast" /\ t.i = th[p].i
      /\ th[p].pc \in {"listed", "bcast"} => t.pc = "old" /\ t.i = 1
      /\ th[p].pc = "undo" => t.i = 1 /\ t.pc = IF chain /\ ~allmc THEN "midold" ELSE "allm"
  BY <1>0, <1>1, <1>2 DEF Calls
<1>4. /\ Cur = th[p] /\ Cur' = t /\ Alone' /\ Cur.arg = ep /\ Live' = Live
  <2>1. tab' = tab /\ t.pc # "idle" /\ th[p].pc # "idle"
    BY <1>0, <1>3 DEF ListDone, tabvars
  <2>2. Turn(p, t) /\ t.sub = "none"
    BY <1>2, <1>3
  <2>3. /\ Cur = th[p] /\ Cur' = t /\ Alone' /\ Cur.arg = ep
        /\ Live = {r \in RowSet : tab[r] # Unset /\ ~(Cur.sub = "add" /\ Cur.row = r)}
        /\ Live' = {r \in RowSet : tab'[r] # Unset /\ ~(t.sub = "add" /\ t.row = r)}
    BY <2>1, <2>2, Scene
  <2> QED
    BY <1>1, <2>1, <2>2, <2>3
<1>5. /\ tab' = tab /\ old' = old /\ orphans' = orphans /\ ucl' = ucl
      /\ ep' = ep /\ rxq' = rxq /\ chain' = chain /\ cst' = cst
      /\ InUcl' = InUcl /\ InGot(Cur)' = InGot(Cur) /\ ListedKeys(Cur)' = ListedKeys(Cur)
      /\ th[p].pc = "list" => mcl' = mcl /\ allmc' = allmc
      /\ th[p].pc \in {"listed", "bcast"} => mcl' = th[p].got /\ ~allmc'
      /\ th[p].pc = "undo" => allmc' = allmc /\ th[p].got = << >>
  <2>1. /\ tab' = tab /\ old' = old /\ orphans' = orphans /\ ucl' = ucl
        /\ ep' = ep /\ rxq' = rxq /\ chain' = chain /\ cst' = cst
    BY DEF ListDone, tabvars, cfgvars
  <2>2. InUcl' = InUcl
    BY <2>1 DEF InUcl
  <2>3. InGot(Cur)' = InGot(Cur) /\ ListedKeys(Cur)' = ListedKeys(Cur)
    BY <1>3, <1>4 DEF InGot, ListedKeys
  <2>4. /\ th[p].pc = "list" => mcl' = mcl /\ allmc' = allmc
        /\ th[p].pc \in {"listed", "bcast"} => mcl' = th[p].got /\ ~allmc'
        /\ th[p].pc = "undo" => allmc' = allmc /\ th[p].got = << >>
    BY DEF ListDone, Indexes
  <2> QED
    BY <2>1, <2>2, <2>3, <2>4
<1>6. th[p].pc \in {"listed", "bcast"} => InMcl' = InGot(Cur)
  BY <1>4, <1>5 DEF InMcl, InGot
<1>7. /\ old \cup InUcl \subseteq Live
      /\ Live \subseteq old \cup InUcl \cup InGot(Cur) \cup orphans
      /\ th[p].pc # "undo" => InGot(Cur) \subseteq Live
      /\ th[p].pc = "undo" => InGot(Cur) = {}
      /\ old \cap InUcl = {} /\ old \cap InGot(Cur) = {}
      /\ rxq /\ (cst \in {"down", "clearing", "drain"} => ~rxq)
      /\ \A r \in orphans : r \in Live /\ tab[r] \in Unicast
      /\ \A r \in InUcl : tab[r] \in Unicast
      /\ \A r \in InGot(Cur) : tab[r] \in Multi \cup {Unset}
      /\ chain => \A r \in Live : tab[r] # "mcdef"
      /\ chain /\ allmc /\ th[p].pc = "undo" => old = {}
      /\ chain /\ allmc /\ th[p].pc = "list" /\ th[p].roll => old = {}
  <2>1. th[p].pc = "undo" => InGot(Cur) = {}
    BY <1>4, <1>5 DEF InGot
  <2> QED
    BY <1>0, <1>4, <2>1 DEF SInv, Named, Disjoint, Kinds, Chained, Settings, Listing,
       Clearing, Resting
<1>8. \A r \in old : r >= 0
  BY <1>0, Ef10FilterAssumption DEF Types, RowSet, Ef10FilterAssumption
<1>9. Settings(Cur)'
  BY <1>0, <1>3, <1>4, <1>5, <1>7 DEF Settings, Clearing, Resting
<1>10. Entry(Cur)'
  BY <1>0, <1>3, <1>4, <1>5, <1>8 DEF Entry, Deleting
<1>11. Named(Cur)' /\ Disjoint(Cur)'
  BY <1>0, <1>3, <1>4, <1>5, <1>6, <1>7
     DEF Named, Disjoint, Resting, Marking, Listing, Clearing
<1>12. Kinds(Cur)'
  <2>1. \A r \in Live : tab[r] # Unset
    BY DEF Live
  <2> QED
    BY <1>0, <1>3, <1>4, <1>5, <1>6, <1>7, <2>1
       DEF Kinds, Resting, Marking, Listing, Clearing
<1>13. Chained(Cur)'
  BY <1>0, <1>3, <1>4, <1>5, <1>7
     DEF Chained, Resting, Marking, Listing, Clearing
<1>14. OwnDone(Cur)'
  <2>1. /\ \A r \in InUcl : tab[r] \in {t.arg.addr, "ucdef"}
        /\ InUcl # {}
        /\ (\E r \in InUcl : tab[r] = "ucdef") => t.arg.allu \/ t.uerr
        /\ \A r \in old : tab[r] # t.arg.addr
        /\ t.arg.allu /\ ~t.arc => \E r \in InUcl : tab[r] = "ucdef"
    BY <1>0, <1>3, <1>4 DEF SInv, OwnDone, Late, Deleting, Listing
  <2>2. t.pc \notin {"own", "allu"}
    BY <1>0, <1>3 DEF Deleting
  <2> QED
    BY <1>4, <1>5, <2>1, <2>2 DEF OwnDone
<1>15. MultiDone(Cur)'
  <2>1. th[p].pc # "undo" =>
          /\ \A r \in InGot(Cur) : tab[r] \in ListedKeys(Cur) \cup {"bcast"}
          /\ t.arg.allm => t.mrc
    BY <1>0, <1>3, <1>4 DEF SInv, MultiDone
  <2> QED
    BY <1>0, <1>3, <1>4, <1>5, <1>6, <2>1 DEF MultiDone, Finished
<1> QED
  BY <1>4, <1>9, <1>10, <1>11, <1>12, <1>13, <1>14, <1>15 DEF SInv

(* What the insertion of k left: R has its row, if it succeeded.           *)
Outcome(k, R) ==
  /\ ep' = ep /\ rxq' = rxq /\ chain' = chain /\ cst' = cst /\ orphans' = orphans
  /\ R \subseteq RowSet /\ Live' = Live \cup R /\ old' = old \ R
  /\ \A s \in Live \cup R : tab'[s] = tab[s] /\ (tab[s] = k <=> s \in R)

LEMMA SOwn ==
  ASSUME HInv, SInv, NEW p \in Thr, NEW ok \in BOOLEAN, NEW r, OwnAdded(p, ok, r),
         NEW R, R = (IF ok THEN {r} ELSE {}), Outcome(Sought(th[p]), R)
  PROVE  SInv'
<1>0. Types /\ th[p].pc = "own" /\ th[p] \in Calls /\ (ok => r \in RowSet)
  BY DEF HInv, OwnAdded, Types, Outcome
<1>1. PICK t : t = OwnNext(th[p], ok)
  OBVIOUS
<1>2. Turn(p, t)
  BY <1>0, <1>1, OwnTurn
<1>3. /\ t.sub = "none" /\ t.arg = th[p].arg /\ t.uerr = ~ok
      /\ t.pc = IF t.arg.allu \/ ~ok THEN "allu" ELSE "wa"
  BY <1>0, <1>1 DEF Calls, OwnNext
<1>4. Cur = th[p] /\ Cur' = t /\ Alone' /\ Cur.arg = ep /\ Cur.arg \in Cfgs
  BY <1>0, <1>2, <1>3, Scene
<1>5. /\ ep' = ep /\ rxq' = rxq /\ chain' = chain /\ cst' = cst /\ orphans' = orphans
      /\ Live' = Live \cup R /\ old' = old \ R /\ allmc' = allmc /\ InMcl' = InMcl
      /\ \A s \in Live \cup R : tab'[s] = tab[s] /\ (tab[s] = t.arg.addr <=> s \in R)
  BY <1>0, <1>3 DEF Outcome, Sought, OwnAdded, InMcl
<1>6. ucl = << >> /\ InUcl = {} /\ InUcl' = R
  <2>1. ucl = << >>
    BY <1>0, <1>4 DEF SInv, OwnDone
  <2>2. CASE ok
    BY <1>0, <2>1, <2>2, Appended DEF OwnAdded, InUcl, Types
  <2>3. CASE ~ok
    BY <2>1, <2>3 DEF OwnAdded, InUcl
  <2> QED
    BY <2>1, <2>2, <2>3 DEF InUcl
<1>7. /\ old \subseteq Live /\ Live \subseteq old \cup orphans /\ InMcl \subseteq old
      /\ rxq /\ (cst \in {"down", "clearing", "drain"} => ~rxq)
      /\ \A s \in orphans : s \in Live /\ tab[s] \in Unicast
      /\ \A s \in InMcl : tab[s] \in Multi
      /\ \A s \in old \ InMcl : tab[s] \in Unicast
      /\ chain => /\ allmc => \A s \in Live : tab[s] \in Unicast \cup {"mcdef"}
                  /\ ~allmc => \A s \in Live : tab[s] # "mcdef"
  BY <1>0, <1>4, <1>6 DEF SInv, Named, Kinds, Chained, Settings, Marking, Clearing, Resting
<1>8. t.arg.addr \in Unicast /\ t.arg.addr \in Addrs
  BY <1>3, <1>4 DEF Cfgs, Unicast
<1>9. Settings(Cur)' /\ Entry(Cur)'
  BY <1>3, <1>4, <1>5, <1>7 DEF Settings, Entry, Clearing, Resting, Deleting
<1>10. \A s \in R : s \notin InMcl
  <2>1. \A s \in InMcl : tab[s] \in Multi /\ s \in Live
    BY <1>7
  <2> QED
    BY <2>1, <1>5, <1>8, KindsApart
<1>11. Named(Cur)' /\ Disjoint(Cur)'
  BY <1>3, <1>4, <1>5, <1>6, <1>7, <1>10
     DEF Named, Disjoint, Resting, Marking, Listing, Clearing
<1>12. Kinds(Cur)'
  BY <1>3, <1>4, <1>5, <1>6, <1>7, <1>8, <1>10
     DEF Kinds, Resting, Marking, Listing, Clearing
<1>13. Chained(Cur)'
  BY <1>3, <1>4, <1>5, <1>7, <1>8, KindsApart
     DEF Chained, Resting, Marking, Listing, Clearing
<1>14. OwnDone(Cur)'
  <2>1. ok => R = {r}
    OBVIOUS
  <2>2. \A s \in R : tab'[s] = t.arg.addr /\ t.arg.addr # "ucdef"
    BY <1>5, <1>8, KindsApart
  <2>3. \A s \in old' : tab'[s] # t.arg.addr
    BY <1>5, <1>7
  <2> QED
    BY <1>3, <1>4, <1>6, <2>1, <2>2, <2>3 DEF OwnDone, Late, Finished, Listing
<1>15. MultiDone(Cur)'
  BY <1>3, <1>4 DEF MultiDone, Finished
<1> QED
  BY <1>4, <1>9, <1>11, <1>12, <1>13, <1>14, <1>15 DEF SInv

LEMMA SAllu ==
  ASSUME HInv, SInv, NEW p \in Thr, NEW ok \in BOOLEAN, NEW r, AlluAdded(p, ok, r),
         NEW R, R = (IF ok THEN {r} ELSE {}), Outcome(Sought(th[p]), R)
  PROVE  SInv'
<1>0. Types /\ th[p].pc = "allu" /\ th[p] \in Calls /\ (ok => r \in RowSet)
  BY DEF HInv, AlluAdded, Types, Outcome
<1>1. PICK t : t = AlluNext(th[p], ok)
  OBVIOUS
<1>2. Turn(p, t)
  BY <1>0, <1>1, AlluTurn
<1>3. /\ t.sub = "none" /\ t.arg = th[p].arg /\ t.uerr = th[p].uerr /\ t.arc = ~ok
      /\ t.pc = IF t.uerr /\ ~ok THEN "fail" ELSE "wa"
  BY <1>0, <1>1 DEF Calls, AlluNext
<1>4. Cur = th[p] /\ Cur' = t /\ Alone' /\ Cur.arg = ep /\ Cur.arg \in Cfgs
  BY <1>0, <1>2, <1>3, Scene
<1>5. /\ ep' = ep /\ rxq' = rxq /\ chain' = chain /\ cst' = cst /\ orphans' = orphans
      /\ Live' = Live \cup R /\ old' = old \ R /\ allmc' = allmc /\ InMcl' = InMcl
      /\ \A s \in Live \cup R : tab'[s] = tab[s] /\ (tab[s] = "ucdef" <=> s \in R)
  BY <1>0, <1>3 DEF Outcome, Sought, AlluAdded, InMcl
<1>6. InUcl' = InUcl \cup R
  <2>1. CASE ok
    <3>1. ucl' = Append(ucl, r) /\ ucl \in Seq(RowSet) /\ r \in RowSet /\ R = {r}
      BY <1>0, <2>1 DEF AlluAdded, Types
    <3>2. InUcl' = {Append(ucl, r)[j] : j \in DOMAIN Append(ucl, r)}
      BY <3>1 DEF InUcl
    <3> QED
      BY <3>1, <3>2, Appended DEF InUcl
  <2>2. CASE ~ok
    BY <2>2 DEF AlluAdded, InUcl
  <2> QED
    BY <2>1, <2>2
<1>7. /\ old \cup InUcl \subseteq Live /\ Live \subseteq old \cup InUcl \cup orphans
      /\ InMcl \subseteq old \cup InUcl /\ old \cap InUcl = {}
      /\ rxq /\ (cst \in {"down", "clearing", "drain"} => ~rxq)
      /\ \A s \in orphans : s \in Live /\ tab[s] \in Unicast
      /\ \A s \in InUcl : tab[s] \in Unicast
      /\ \A s \in InMcl : tab[s] \in Multi
      /\ \A s \in old \ InMcl : tab[s] \in Unicast
      /\ chain => /\ allmc => \A s \in Live : tab[s] \in Unicast \cup {"mcdef"}
                  /\ ~allmc => \A s \in Live : tab[s] # "mcdef"
  BY <1>0, <1>4 DEF SInv, Named, Disjoint, Kinds, Chained, Settings, Marking, Clearing,
     Resting
<1>8. "ucdef" \in Unicast
  BY DEF Unicast
<1>9. Settings(Cur)' /\ Entry(Cur)'
  BY <1>3, <1>4, <1>5, <1>7 DEF Settings, Entry, Clearing, Resting, Deleting
<1>10. \A s \in R : s \notin InMcl
  <2>1. \A s \in InMcl : tab[s] \in Multi /\ s \in Live
    BY <1>7
  <2> QED
    BY <2>1, <1>5, <1>8, KindsApart
<1>11. Named(Cur)' /\ Disjoint(Cur)'
  BY <1>3, <1>4, <1>5, <1>6, <1>7, <1>10
     DEF Named, Disjoint, Resting, Marking, Listing, Clearing
<1>12. Kinds(Cur)'
  BY <1>3, <1>4, <1>5, <1>6, <1>7, <1>8, <1>10
     DEF Kinds, Resting, Marking, Listing, Clearing
<1>13. Chained(Cur)'
  BY <1>3, <1>4, <1>5, <1>7, <1>8, KindsApart
     DEF Chained, Resting, Marking, Listing, Clearing
<1>14. OwnDone(Cur)'
  <2>1. ok => R = {r}
    OBVIOUS
  <2>2. /\ \A s \in InUcl : tab[s] \in {t.arg.addr, "ucdef"}
        /\ t.arg.allu \/ t.uerr
        /\ ~t.uerr => InUcl # {}
        /\ \A s \in old : tab[s] # t.arg.addr
    BY <1>0, <1>3, <1>4 DEF SInv, OwnDone
  <2>3. \A s \in InUcl' : tab'[s] \in {t.arg.addr, "ucdef"}
    BY <1>5, <1>6, <1>7, <2>2
  <2>4. \A s \in old' : tab'[s] # t.arg.addr
    BY <1>5, <1>7, <2>2
  <2>5. t.pc = "wa" => InUcl' # {}
    BY <1>3, <1>6, <2>1, <2>2
  <2>6. ~t.arc => \E s \in InUcl' : tab'[s] = "ucdef"
    BY <1>3, <1>5, <1>6, <2>1
  <2>7. t.pc \in {"fail", "wa"}
    BY <1>3
  <2> QED
    BY <1>4, <2>2, <2>3, <2>4, <2>5, <2>6, <2>7 DEF OwnDone, Late, Finished, Listing
<1>15. MultiDone(Cur)'
  BY <1>3, <1>4 DEF MultiDone, Finished
<1> QED
  BY <1>4, <1>9, <1>11, <1>12, <1>13, <1>14, <1>15 DEF SInv

LEMMA SAllm ==
  ASSUME HInv, SInv, NEW p \in Thr, NEW ok \in BOOLEAN, NEW r, AllmAdded(p, ok, r),
         NEW R, R = (IF ok THEN {r} ELSE {}), Outcome(Sought(th[p]), R)
  PROVE  SInv'
<1>0. Types /\ th[p].pc = "allm" /\ th[p] \in Calls /\ (ok => r \in RowSet)
  BY DEF HInv, AllmAdded, Types, Outcome
<1>1. PICK t : t = AllmNext(th[p], ok)
  OBVIOUS
<1>2. Turn(p, t)
  BY <1>0, <1>1, AllmTurn
<1>3. /\ t.arg = th[p].arg /\ t.uerr = th[p].uerr /\ t.arc = th[p].arc
      /\ ok => t.pc = "old" /\ t.i = th[p].i /\ t.sub = "none"
      /\ ~ok => /\ t.pc = "list" /\ t.got = << >> /\ t.roll = FALSE /\ t.mrc = TRUE
                /\ t.sub = "none"
  BY <1>0, <1>1 DEF Calls, AllmNext
<1>4. Cur = th[p] /\ Cur' = t /\ Alone' /\ Cur.arg = ep /\ Cur.arg \in Cfgs
  <2>1. t.pc # "idle" /\ th[p].pc # "idle"
    BY <1>0, <1>3
  <2> QED
    BY <1>2, <2>1, Scene
<1>5. /\ ep' = ep /\ rxq' = rxq /\ chain' = chain /\ cst' = cst /\ orphans' = orphans
      /\ Live' = Live \cup R /\ old' = old \ R /\ InUcl' = InUcl
      /\ \A s \in Live \cup R : tab'[s] = tab[s] /\ (tab[s] = "mcdef" <=> s \in R)
  BY <1>0, <1>3 DEF Outcome, Sought, AllmAdded, InUcl
<1>6. /\ old \cup InUcl \subseteq Live /\ Live \subseteq old \cup InUcl \cup orphans
      /\ old \cap InUcl = {} /\ th[p].i = 1
      /\ rxq /\ (cst \in {"down", "clearing", "drain"} => ~rxq)
      /\ \A s \in orphans : s \in Live /\ tab[s] \in Unicast
      /\ \A s \in InUcl : tab[s] \in Unicast
      /\ chain => \A s \in Live : tab[s] \in Unicast \cup {"mcdef"}
  BY <1>0, <1>4 DEF SInv, Named, Disjoint, Kinds, Chained, Settings, Entry, Clearing,
     Resting
<1>7. \A s \in old : s >= 0
  BY <1>0, Ef10FilterAssumption DEF Types, RowSet, Ef10FilterAssumption
<1>8. \A s \in R : s \notin InUcl
  BY <1>5, <1>6, KindsApart
<1>9. Settings(Cur)' /\ Entry(Cur)'
  BY <1>3, <1>4, <1>5, <1>6, <1>7 DEF Settings, Entry, Clearing, Resting, Deleting
<1>10. OwnDone(Cur)'
  <2>1. /\ \A s \in InUcl : tab[s] \in {t.arg.addr, "ucdef"}
        /\ InUcl # {}
        /\ (\E s \in InUcl : tab[s] = "ucdef") => t.arg.allu \/ t.uerr
        /\ \A s \in old : tab[s] # t.arg.addr
        /\ t.arg.allu /\ ~t.arc => \E s \in InUcl : tab[s] = "ucdef"
    BY <1>0, <1>3, <1>4 DEF SInv, OwnDone, Late
  <2>2. t.pc \in {"old", "list"}
    BY <1>3
  <2>3. \A s \in InUcl \cup old : tab'[s] = tab[s]
    BY <1>5, <1>6
  <2> QED
    BY <1>4, <1>5, <2>1, <2>2, <2>3 DEF OwnDone
<1>11. CASE ok
  <2>1. R = {r} /\ tab'[r] = "mcdef" /\ "mcdef" \in Multi
    BY <1>5, <1>11 DEF Multi
  <2>2. InMcl' = {r} /\ allmc' = TRUE
    <3>1. mcl' = << r >> /\ allmc' = TRUE
      BY <1>11 DEF AllmAdded
    <3> QED
      BY <3>1 DEF InMcl
  <2>3. Named(Cur)' /\ Disjoint(Cur)'
    BY <1>3, <1>4, <1>5, <1>6, <1>11, <2>1, <2>2
       DEF Named, Disjoint, Resting, Marking, Listing, Clearing
  <2>4. Kinds(Cur)'
    BY <1>3, <1>4, <1>5, <1>6, <1>11, <2>1, <2>2
       DEF Kinds, Resting, Marking, Listing, Clearing
  <2>5. Chained(Cur)'
    BY <1>3, <1>4, <1>5, <1>6, <1>11, <2>1, <2>2
       DEF Chained, Resting, Marking, Listing, Clearing
  <2>6. MultiDone(Cur)'
    BY <1>3, <1>4, <1>11, <2>1, <2>2 DEF MultiDone, Finished
  <2> QED
    BY <1>4, <1>9, <1>10, <2>3, <2>4, <2>5, <2>6 DEF SInv
<1>12. CASE ~ok
  <2>1. R = {} /\ InGot(Cur)' = {}
    BY <1>3, <1>4, <1>12 DEF InGot
  <2>2. Named(Cur)' /\ Disjoint(Cur)'
    BY <1>3, <1>4, <1>5, <1>6, <1>12, <2>1
       DEF Named, Disjoint, Resting, Marking, Listing, Clearing
  <2>3. Kinds(Cur)'
    BY <1>3, <1>4, <1>5, <1>6, <1>12, <2>1
       DEF Kinds, Resting, Marking, Listing, Clearing
  <2>4. Chained(Cur)'
    BY <1>3, <1>4, <1>5, <1>6, <1>12, <2>1
       DEF Chained, Resting, Marking, Listing, Clearing
  <2>5. MultiDone(Cur)'
    BY <1>3, <1>4, <1>12, <2>1 DEF MultiDone, Finished
  <2> QED
    BY <1>4, <1>9, <1>10, <2>2, <2>3, <2>4, <2>5 DEF SInv
<1> QED
  BY <1>11, <1>12

LEMMA SList ==
  ASSUME HInv, SInv, NEW p \in Thr, NEW ok \in BOOLEAN, NEW r, ListAdded(p, ok, r),
         NEW R, R = (IF ok THEN {r} ELSE {}), Outcome(Sought(th[p]), R),
         Sought(th[p]) \in ListedKeys(th[p]) \cup {"bcast"}
  PROVE  SInv'
<1>0. Types /\ th[p].pc \in {"list", "bcast"} /\ th[p] \in Calls /\ (ok => r \in RowSet)
  BY DEF HInv, ListAdded, Types, Outcome
<1>1. PICK t, k : t = ListNext(th[p], ok, r) /\ k = Sought(th[p])
  OBVIOUS
<1>2. Turn(p, t)
  BY <1>0, <1>1, ListTurn
<1>3. /\ t.sub = "none" /\ t.arg = th[p].arg /\ t.uerr = th[p].uerr /\ t.arc = th[p].arc
      /\ t.mrc = th[p].mrc /\ t.roll = th[p].roll
      /\ t.got = (IF ok THEN Append(th[p].got, r) ELSE th[p].got)
      /\ t.pc \in {"list", "listed", "undo"} /\ (t.pc = "undo" => t.roll)
  <2> DEFINE g == IF ok THEN Append(th[p].got, r) ELSE th[p].got
             n == th[p].i + 1
             x == IF ~ok /\ th[p].roll THEN "undo"
                  ELSE IF th[p].pc = "bcast" THEN "listed" ELSE "list"
  <2>1. t = [th[p] EXCEPT !.sub = "none", !.got = g, !.i = n, !.pc = x]
    BY <1>1 DEF ListNext
  <2>2. x \in {"list", "listed", "undo"} /\ (x = "undo" => th[p].roll)
    OBVIOUS
  <2> HIDE DEF g, n, x
  <2>3. /\ t.sub = "none" /\ t.arg = th[p].arg /\ t.uerr = th[p].uerr /\ t.arc = th[p].arc
        /\ t.mrc = th[p].mrc /\ t.roll = th[p].roll /\ t.got = g /\ t.pc = x
    BY <1>0, <2>1 DEF Calls
  <2> QED
    BY <2>2, <2>3 DEF g
<1>4. Cur = th[p] /\ Cur' = t /\ Alone' /\ Cur.arg = ep /\ Cur.arg \in Cfgs
  <2>1. t.pc # "idle" /\ th[p].pc # "idle"
    BY <1>0, <1>3
  <2> QED
    BY <1>2, <2>1, Scene
<1>5. /\ ep' = ep /\ rxq' = rxq /\ chain' = chain /\ cst' = cst /\ orphans' = orphans
      /\ Live' = Live \cup R /\ old' = old \ R /\ InUcl' = InUcl /\ allmc' = allmc
      /\ \A s \in Live \cup R : tab'[s] = tab[s] /\ (tab[s] = k <=> s \in R)
  BY <1>1 DEF Outcome, ListAdded, InUcl
<1>6. InGot(t) = InGot(Cur) \cup R
  <2>1. CASE ok
    <3>1. th[p].got \in Seq(RowSet) /\ r \in RowSet /\ R = {r}
      BY <1>0, <2>1 DEF Calls
    <3>2. t.got = Append(th[p].got, r)
      BY <1>3, <2>1
    <3>3. {Append(th[p].got, r)[j] : j \in DOMAIN Append(th[p].got, r)}
            = {th[p].got[j] : j \in DOMAIN th[p].got} \cup {r}
      BY <3>1, Appended
    <3> QED
      BY <3>1, <3>2, <3>3, <1>4 DEF InGot
  <2>2. CASE ~ok
    BY <1>3, <1>4, <2>2 DEF InGot
  <2> QED
    BY <2>1, <2>2
<1>7. /\ old \cup InUcl \subseteq Live
      /\ Live \subseteq old \cup InUcl \cup InGot(Cur) \cup orphans
      /\ InGot(Cur) \subseteq Live
      /\ old \cap InUcl = {} /\ old \cap InGot(Cur) = {}
      /\ rxq /\ (cst \in {"down", "clearing", "drain"} => ~rxq)
      /\ \A s \in orphans : s \in Live /\ tab[s] \in Unicast
      /\ \A s \in InUcl : tab[s] \in Unicast
      /\ \A s \in InGot(Cur) : tab[s] \in Multi \cup {Unset}
      /\ chain => \A s \in Live : tab[s] # "mcdef"
      /\ chain /\ allmc /\ th[p].roll => old = {}
  BY <1>0, <1>4 DEF SInv, Named, Disjoint, Kinds, Chained, Settings, Listing, Clearing,
     Resting
<1>8. k \in Multi /\ k # "mcdef" /\ k \in ListedKeys(t) \cup {"bcast"}
  <2>1. ListedKeys(th[p]) \subseteq Mcasts
    <3>1. th[p].arg.list \in Lists \cup {<< >>}
      BY <1>4 DEF Cfgs
    <3> QED
      BY <3>1, ListSeq DEF ListedKeys
  <2>2. ListedKeys(t) = ListedKeys(th[p])
    BY <1>3 DEF ListedKeys
  <2> QED
    BY <1>1, <2>1, <2>2, KindsApart DEF Multi
<1>9. InGot(Cur)' = InGot(t) /\ ListedKeys(Cur)' = ListedKeys(t)
  BY <1>4 DEF InGot, ListedKeys
<1>10. Settings(Cur)' /\ Entry(Cur)'
  BY <1>3, <1>4, <1>5, <1>7 DEF Settings, Entry, Clearing, Resting, Deleting
<1>11. \A s \in R : s \notin InUcl
  BY <1>5, <1>7, <1>8, KindsApart
<1>12. Named(Cur)' /\ Disjoint(Cur)'
  BY <1>3, <1>4, <1>5, <1>6, <1>7, <1>9, <1>11
     DEF Named, Disjoint, Resting, Marking, Listing, Clearing
<1>13. Kinds(Cur)'
  BY <1>3, <1>4, <1>5, <1>6, <1>7, <1>8, <1>9
     DEF Kinds, Resting, Marking, Listing, Clearing
<1>14. Chained(Cur)'
  BY <1>3, <1>4, <1>5, <1>7, <1>8
     DEF Chained, Resting, Marking, Listing, Clearing
<1>15. OwnDone(Cur)'
  <2>1. /\ \A s \in InUcl : tab[s] \in {t.arg.addr, "ucdef"}
        /\ InUcl # {}
        /\ (\E s \in InUcl : tab[s] = "ucdef") => t.arg.allu \/ t.uerr
        /\ \A s \in old : tab[s] # t.arg.addr
        /\ t.arg.allu /\ ~t.arc => \E s \in InUcl : tab[s] = "ucdef"
    BY <1>0, <1>3, <1>4 DEF SInv, OwnDone, Late, Listing
  <2>2. t.pc \notin {"own", "allu"}
    BY <1>3
  <2>3. \A s \in InUcl \cup old : tab'[s] = tab[s]
    BY <1>5, <1>7
  <2> QED
    BY <1>4, <1>5, <2>1, <2>2, <2>3 DEF OwnDone
<1>16. MultiDone(Cur)'
  <2>1. /\ \A s \in InGot(Cur) : tab[s] \in ListedKeys(t) \cup {"bcast"}
        /\ t.arg.allm => t.mrc
    BY <1>0, <1>3, <1>4 DEF SInv, MultiDone, ListedKeys
  <2>2. \A s \in InGot(t) : tab'[s] \in ListedKeys(t) \cup {"bcast"}
    BY <1>5, <1>6, <1>7, <1>8, <2>1
  <2> QED
    BY <1>3, <1>4, <1>9, <2>1, <2>2 DEF MultiDone, Finished
<1> QED
  BY <1>4, <1>10, <1>12, <1>13, <1>14, <1>15, <1>16 DEF SInv

(* The list of the port is the one the call was given.                     *)
LEMMA GoalSought ==
  ASSUME Types, NEW p \in Thr, Adding(p), th[p].arg = ep
  PROVE  /\ Goal(p) = Sought(th[p]) /\ Goal(p) \in Keys
         /\ th[p].pc \in {"list", "bcast"} =>
              Sought(th[p]) \in ListedKeys(th[p]) \cup {"bcast"}
<1>1. th[p].arg \in Cfgs /\ th[p].i \in Nat \ {0}
  BY DEF Types, Calls
<1>2. Goal(p) = Sought(th[p])
  BY DEF Goal, Sought
<1>3. th[p].pc = "list" => Sought(th[p]) \in ListedKeys(th[p])
  <2> SUFFICES ASSUME th[p].pc = "list" PROVE Sought(th[p]) \in ListedKeys(th[p])
    OBVIOUS
  <2>1. Len(th[p].arg.list) \in Nat
    <3>1. th[p].arg.list \in Lists \cup {<< >>}
      BY <1>1 DEF Cfgs
    <3> QED
      BY <3>1, ListLen
  <2>2. (th[p].arg.mulcst \/ th[p].arg.allm) /\ th[p].i <= Len(th[p].arg.list)
    BY <1>1, <2>1 DEF Adding, Listed
  <2>3. th[p].i \in 1..Len(th[p].arg.list)
    BY <1>1, <2>1, <2>2
  <2> QED
    BY <2>2, <2>3 DEF Sought, ListedKeys
<1>4. th[p].pc = "bcast" => Sought(th[p]) = "bcast"
  BY DEF Sought
<1>5. Goal(p) \in Keys
  BY <1>1, GoalKey
<1> QED
  BY <1>2, <1>3, <1>4, <1>5

LEMMA AddedLive ==
  ASSUME HInv, SInv, NEW p \in Thr, NEW ok \in BOOLEAN, NEW r, ok => r \in RowSet,
         Added(p, ok, r)
  PROVE  Live' = {s \in RowSet : tab'[s] # Unset}
<1>1. PICK t : Turn(p, t) /\ t.sub = "none" /\ t.pc \notin {"idle", "begin"}
  BY AddedTurn DEF HInv
<1>2. th[p].pc # "idle"
  BY AddedTurn DEF HInv
<1> QED
  BY <1>1, <1>2, Scene

LEMMA SAdded ==
  ASSUME HInv, SInv, NEW p \in Thr, NEW ok \in BOOLEAN, NEW r, Added(p, ok, r),
         Adding(p), NEW R, R = (IF ok THEN {r} ELSE {}), Outcome(Sought(th[p]), R)
  PROVE  SInv'
<1>1. th[p].arg = ep
  <2>1. th[p].pc # "idle" /\ Alone
    BY DEF Adding, SInv
  <2>2. Cur = th[p]
    BY <2>1, Acting
  <2> QED
    BY <2>1, <2>2 DEF SInv, Settings
<1>2. th[p].pc \in {"list", "bcast"} =>
        Sought(th[p]) \in ListedKeys(th[p]) \cup {"bcast"}
  BY <1>1, GoalSought DEF HInv
<1>3. CASE OwnAdded(p, ok, r)
  BY <1>3, SOwn
<1>4. CASE AlluAdded(p, ok, r)
  BY <1>4, SAllu
<1>5. CASE AllmAdded(p, ok, r)
  BY <1>5, SAllm
<1>6. CASE ListAdded(p, ok, r)
  <2>1. th[p].pc \in {"list", "bcast"}
    BY <1>6 DEF ListAdded
  <2> QED
    BY <1>2, <1>6, <2>1, SList
<1> QED
  BY <1>3, <1>4, <1>5, <1>6 DEF Added

(* The lock is dropped for a request.                                      *)
LEMMA SStay ==
  ASSUME HInv, SInv, NEW p \in Thr, th[p].pc # "idle", NEW t, Turn(p, t),
         t.pc = th[p].pc, t.arg = th[p].arg, t.got = th[p].got, t.i = th[p].i,
         t.roll = th[p].roll, t.uerr = th[p].uerr, t.arc = th[p].arc, t.mrc = th[p].mrc,
         t.rc = th[p].rc, Entry(t)',
         ep' = ep, rxq' = rxq, chain' = chain, cst' = cst, orphans' = orphans,
         old' = old, ucl' = ucl, mcl' = mcl, allmc' = allmc, Live' = Live,
         \A s \in Live : tab'[s] = tab[s],
         th[p].pc \in Clearing \cup {"undo"} => tab' = tab
  PROVE  SInv'
<1>1. Cur = th[p] /\ Cur' = t /\ Alone' /\ Cur.arg = ep /\ Cur.pc \in Pcs
  <2>1. Cur = th[p] /\ Cur' = t /\ Alone' /\ Cur.arg = ep /\ Cur \in Calls
    BY Scene
  <2> QED
    BY <2>1 DEF Calls
<1>2. InUcl' = InUcl /\ InMcl' = InMcl
  BY DEF InUcl, InMcl
<1>3. InGot(Cur)' = InGot(Cur) /\ ListedKeys(Cur)' = ListedKeys(Cur)
  <2>1. Cur'.got = Cur.got /\ Cur'.arg = Cur.arg
    BY <1>1
  <2> QED
    BY ONLY <2>1 DEF InGot, ListedKeys
<1>4. Settings(Cur)'
  BY <1>1 DEF SInv, Settings
<1>5. Entry(Cur)'
  BY <1>1 DEF Entry, Sought, Picked
<1>6. Named(Cur)' /\ Disjoint(Cur)'
  BY <1>1, <1>2, <1>3 DEF SInv, Named, Disjoint, From
<1>7. /\ \A s \in Live : tab'[s] = tab[s]
      /\ Cur.pc \in Listing \cup {"undo"} => \A s \in InGot(Cur) : tab'[s] = tab[s]
  <2>1. Cur.pc \in Listing => InGot(Cur) \subseteq Live
    BY DEF SInv, Named
  <2> QED
    BY <1>1, <2>1
<1>8. /\ Cur.pc \notin Clearing => InUcl \cup old \subseteq Live
      /\ Cur.pc \in Resting \cup Marking \cup {"old"} => InMcl \subseteq Live
  <2>1. Named(Cur)
    BY DEF SInv
  <2> QED
    BY ONLY <1>1, <2>1 DEF Named, Clearing, Resting, Marking, Listing, Pcs
<1>9. Kinds(Cur)'
  BY <1>1, <1>2, <1>3, <1>7, <1>8 DEF SInv, Kinds
<1>10. Chained(Cur)'
  BY <1>1, <1>7 DEF SInv, Chained
<1>11. OwnDone(Cur)'
  BY <1>1, <1>2, <1>7, <1>8 DEF SInv, OwnDone, Late, Finished, Clearing, Listing
<1>12. MultiDone(Cur)'
  BY <1>1, <1>2, <1>3, <1>7, <1>8 DEF SInv, MultiDone, Finished, Rejected, Resting, Listing
<1> QED
  BY <1>1, <1>4, <1>5, <1>6, <1>9, <1>10, <1>11, <1>12 DEF SInv

LEMMA SAddFound ==
  ASSUME HInv, SInv, NEW p \in Thr, AddFound(p)
  PROVE  SInv'
<1>1. PICK r \in Equal(Goal(p)) \ busy : old' = Refresh(r) /\ Added(p, TRUE, r)
  BY DEF AddFound
<1>2. /\ r \in RowSet /\ tab[r] = Goal(p) /\ Adding(p) /\ th[p].pc # "idle"
      /\ th[p].sub = "none" /\ Types
  BY <1>1 DEF Equal, AddFound, Adding, HInv
<1>3. /\ Cur = th[p] /\ th[p].arg = ep
      /\ \A q \in Thr : q # p => th[q].sub = "none"
  BY <1>2, Acting DEF SInv, Settings
<1>4. Goal(p) = Sought(th[p]) /\ Goal(p) # Unset
  <2>1. Goal(p) = Sought(th[p]) /\ Goal(p) \in Keys
    BY <1>2, <1>3, GoalSought
  <2> QED
    BY <2>1, KindsApart
<1>5. Live = {s \in RowSet : tab[s] # Unset}
  BY <1>2, <1>3, LiveNow
<1>6. Live' = {s \in RowSet : tab'[s] # Unset}
  BY <1>1, <1>2, AddedLive
<1>7. Outcome(Sought(th[p]), {r})
  <2>1. /\ ep' = ep /\ rxq' = rxq /\ chain' = chain /\ cst' = cst /\ orphans' = orphans
        /\ tab' = tab /\ old' = old \ {r}
    BY <1>1 DEF AddFound, cfgvars, Refresh
  <2>2. Live' = Live \cup {r} /\ r \in Live
    BY <1>2, <1>4, <1>5, <1>6, <2>1
  <2>3. \A s \in Live : tab[s] = tab[r] <=> s = r
    BY <1>2, <1>4, <1>5 DEF HInv, Unique
  <2> QED
    BY <1>2, <1>4, <2>1, <2>2, <2>3 DEF Outcome
<1> QED
  BY <1>1, <1>2, <1>7, SAdded

LEMMA SAddMcdi ==
  ASSUME HInv, SInv, NEW p \in Thr, NEW ok \in BOOLEAN, AddMcdi(p, ok)
  PROVE  SInv'
<1>1. PICK r, R : r = th[p].row /\ R = IF ok THEN {r} ELSE {}
  OBVIOUS
<1>2. /\ Types /\ th[p].sub = "add" /\ Adding(p) /\ th[p].pc # "idle"
      /\ r \in RowSet /\ tab[r] # Unset
  BY <1>1 DEF HInv, AddMcdi, Claimed, Claims, Adding
<1>3. /\ Cur = th[p] /\ th[p].arg = ep
      /\ \A q \in Thr : q # p => th[q].sub = "none"
  BY <1>2, Acting DEF SInv, Settings
<1>4. tab[r] = Sought(th[p])
  BY <1>1, <1>2, <1>3 DEF SInv, Entry
<1>5. Live = {s \in RowSet : tab[s] # Unset /\ s # r}
  BY <1>1, <1>2, <1>3, LiveNow
<1>6. Added(p, ok, r)
  BY <1>1 DEF AddMcdi
<1>7. Live' = {s \in RowSet : tab'[s] # Unset}
  BY <1>2, <1>6, AddedLive
<1>8. Outcome(Sought(th[p]), R)
  <2>1. /\ ep' = ep /\ rxq' = rxq /\ chain' = chain /\ cst' = cst /\ orphans' = orphans
        /\ old' = old
    BY DEF AddMcdi, cfgvars
  <2>2. /\ \A s \in RowSet : s # r => tab'[s] = tab[s]
        /\ ok => tab' = tab
        /\ ~ok => tab'[r] = Unset
    BY <1>1, <1>2 DEF AddMcdi, AddUndone, Types
  <2>3. Live' = Live \cup R
    BY <1>1, <1>2, <1>5, <1>7, <2>2
  <2>4. old' = old \ R
    <3>1. old \subseteq Live
      BY <1>2, <1>3 DEF SInv, Named, Adding, Marking, Listing
    <3> QED
      BY <1>1, <1>5, <2>1, <3>1
  <2>5. \A s \in Live : tab[s] # tab[r]
    BY <1>2, <1>5 DEF HInv, Unique
  <2> QED
    BY <1>1, <1>2, <1>4, <1>5, <2>1, <2>2, <2>3, <2>4, <2>5 DEF Outcome
<1> QED
  BY <1>1, <1>2, <1>6, <1>8, SAdded

LEMMA SAddEntry ==
  ASSUME HInv, SInv, NEW p \in Thr, AddEntry(p)
  PROVE  SInv'
<1>1. PICK k : k = Goal(p)
  OBVIOUS
<1>2. /\ Types /\ Adding(p) /\ th[p].pc # "idle" /\ th[p] \in Calls
      /\ th[p].sub = "none" /\ Equal(k) = {}
  BY <1>1 DEF AddEntry, Adding, HInv, Types
<1>3. /\ Cur = th[p] /\ th[p].arg = ep /\ th[p].arg \in Cfgs
      /\ \A q \in Thr : q # p => th[q].sub = "none"
  BY <1>2, Acting DEF SInv, Settings, Types
<1>4. k = Sought(th[p]) /\ k \in Keys /\ k # Unset
  <2>1. k = Sought(th[p]) /\ k \in Keys
    BY <1>1, <1>2, <1>3, GoalSought
  <2> QED
    BY <2>1, KindsApart
<1>5. Live = {s \in RowSet : tab[s] # Unset}
  BY <1>2, <1>3, LiveNow
<1>6. \A s \in RowSet : tab[s] # k
  BY <1>2, <1>4 DEF HInv, Placed, Equal
<1>7. /\ ep' = ep /\ rxq' = rxq /\ chain' = chain /\ cst' = cst /\ orphans' = orphans
      /\ old' = old
  BY DEF AddEntry, cfgvars
<1>8. CASE Unused(k) = {}
  <2>1. Added(p, FALSE, NoRow) /\ tab' = tab
    BY <1>1, <1>8 DEF AddEntry
  <2>2. Live' = {s \in RowSet : tab'[s] # Unset}
    BY <2>1, AddedLive
  <2>3. Outcome(Sought(th[p]), {})
    BY <1>4, <1>5, <1>6, <1>7, <2>1, <2>2 DEF Outcome
  <2> QED
    BY <1>2, <2>1, <2>3, SAdded
<1>9. CASE Unused(k) # {}
  <2>1. PICK f, t : f = First(k) /\ t = [th[p] EXCEPT !.sub = "add", !.row = f]
    OBVIOUS
  <2>2. f \in RowSet /\ tab[f] = Unset /\ Turn(p, t)
    BY <1>1, <1>2, <1>3, <1>9, <2>1, AddEntryTurn
  <2>3. /\ t.sub = "add" /\ t.row = f /\ t.pc = th[p].pc /\ t.arg = th[p].arg
        /\ t.got = th[p].got /\ t.i = th[p].i /\ t.roll = th[p].roll
        /\ t.uerr = th[p].uerr /\ t.arc = th[p].arc /\ t.mrc = th[p].mrc
        /\ t.rc = th[p].rc
    BY <1>2, <2>1 DEF Calls
  <2>4. ucl' = ucl /\ mcl' = mcl /\ allmc' = allmc /\ tab' = [tab EXCEPT ![f] = k]
    BY <1>1, <1>9, <2>1 DEF AddEntry, lstvars
  <2>5. \A s \in RowSet : tab'[s] = IF s = f THEN k ELSE tab[s]
    BY <1>2, <2>4 DEF Types
  <2>6. Live' = {s \in RowSet : tab'[s] # Unset /\ ~(t.sub = "add" /\ t.row = s)}
    BY <1>2, <2>2, <2>3, Scene
  <2>7. Live' = Live /\ \A s \in Live : tab'[s] = tab[s]
    BY <1>5, <2>2, <2>3, <2>5, <2>6
  <2>8. Entry(t)'
    <3>1. tab'[f] = Sought(t)
      BY <1>4, <2>2, <2>3, <2>5 DEF Sought
    <3>2. Sought(t)' = Sought(t)
      BY DEF Sought
    <3>3. t.pc \notin Deleting \cup {"begin"}
      BY <1>2, <2>3 DEF Adding, Deleting
    <3>4. t.pc = "allm" => t.i = 1
      BY <1>3, <2>3 DEF SInv, Entry
    <3> QED
      BY <2>3, <3>1, <3>2, <3>3, <3>4 DEF Entry, Deleting
  <2>9. th[p].pc \notin Clearing \cup {"undo"}
    BY <1>2 DEF Adding, Clearing
  <2> QED
    BY <1>2, <1>7, <2>2, <2>3, <2>4, <2>7, <2>8, <2>9, SStay
<1> QED
  BY <1>8, <1>9

(* The row a loop picks is one that it has to delete.                      *)
LEMMA RowPicked ==
  ASSUME Types, NEW p \in Thr, th[p].pc \in Loops, RowIn(p) \in RowSet,
         th[p].pc \in Deleting => \A s \in old : s >= th[p].i - 1
  PROVE  Picked(th[p], RowIn(p))
<1>1. RowIn(p) # NoRow
  BY RowIsNot
<1>2. th[p].pc \in Deleting => RowIn(p) \in old /\ \A s \in old : s >= RowIn(p)
  <2> SUFFICES ASSUME th[p].pc \in Deleting
               PROVE  RowIn(p) \in old /\ \A s \in old : s >= RowIn(p)
    OBVIOUS
  <2> DEFINE R == {r \in old : r >= th[p].i - 1}
  <2>1. RowIn(p) = IF R # {} THEN MinRow(R) ELSE NoRow
    BY DEF RowIn, Deleting
  <2>2. R = old /\ old \subseteq Nat
    <3>1. RowSet \subseteq Nat
      BY Ef10FilterAssumption DEF RowSet, Ef10FilterAssumption
    <3> QED
      BY <3>1 DEF Types
  <2> HIDE DEF R
  <2>3. R # {} /\ RowIn(p) = MinRow(R)
    BY <1>1, <2>1
  <2>4. \E r \in R : \A q \in R : r <= q
    BY <2>2, <2>3, LeastElement
  <2>5. MinRow(R) \in R /\ \A q \in R : MinRow(R) <= q
    BY <2>4 DEF MinRow
  <2> QED
    BY <2>2, <2>3, <2>5
<1>3. /\ th[p].pc = "clru" => th[p].i <= Len(ucl) /\ RowIn(p) = ucl[th[p].i]
      /\ th[p].pc = "clrm" => th[p].i <= Len(mcl) /\ RowIn(p) = mcl[th[p].i]
      /\ th[p].pc = "undo" => th[p].got # << >> /\ RowIn(p) = th[p].got[Len(th[p].got)]
  BY <1>1 DEF RowIn
<1> QED
  BY <1>2, <1>3 DEF Picked

(* A loop has gone past row r, which is free now.                          *)
LEMMA SDropped ==
  ASSUME HInv, SInv, NEW p \in Thr, th[p].pc \in Loops, NEW r \in RowSet,
         Picked(th[p], r), NEW t, t = Step([th[p] EXCEPT !.row = r]), Turn(p, t),
         ep' = ep, rxq' = rxq, chain' = chain, cst' = cst,
         ucl' = ucl, mcl' = mcl, allmc' = allmc,
         Live' = Live \ {r}, old' = old \ {r}, orphans' = orphans \ {r},
         tab'[r] = Unset, \A s \in RowSet : s # r => tab'[s] = tab[s]
  PROVE  SInv'
<1>0. Types /\ th[p] \in Calls
  BY DEF HInv, Types
<1>1. /\ t.pc = th[p].pc /\ t.sub = "none" /\ t.arg = th[p].arg /\ t.roll = th[p].roll
      /\ t.uerr = th[p].uerr /\ t.arc = th[p].arc /\ t.mrc = th[p].mrc /\ t.rc = th[p].rc
      /\ t.pc \in Clearing => t.i = th[p].i + 1
      /\ t.pc = "undo" => t.got = SubSeq(th[p].got, 1, Len(th[p].got) - 1)
      /\ t.pc \in Deleting => t.i = r + 2 /\ t.got = th[p].got
  BY <1>0 DEF Step, Calls, Clearing, Deleting, Loops
<1>2. /\ Cur = th[p] /\ Cur' = t /\ Alone' /\ Cur.arg = ep /\ Picked(Cur, r)
      /\ Cur.pc \in Deleting \cup Clearing \cup {"undo"} /\ Cur'.pc = Cur.pc
  <2>1. th[p].pc # "idle" /\ t.pc # "idle"
    BY <1>1 DEF Loops
  <2>2. Cur = th[p] /\ Cur' = t /\ Alone' /\ Cur.arg = ep
    BY <2>1, Scene
  <2> QED
    BY <1>1, <2>2 DEF Loops, Deleting, Clearing
<1>3. InUcl' = InUcl /\ InMcl' = InMcl
  BY DEF InUcl, InMcl
<1>4. ListedKeys(Cur)' = ListedKeys(Cur)
  <2>1. Cur'.arg = Cur.arg
    BY <1>1, <1>2
  <2> QED
    BY ONLY <2>1 DEF ListedKeys
<1>5. Cur.pc \in Deleting \cup {"undo"} => InGot(Cur)' \subseteq InGot(Cur)
  <2>1. CASE Cur.pc \in Deleting
    <3>1. Cur'.got = Cur.got
      BY <1>1, <1>2, <2>1
    <3> QED
      BY <3>1 DEF InGot
  <2>2. CASE Cur.pc = "undo"
    <3>1. Cur'.got = SubSeq(Cur.got, 1, Len(Cur.got) - 1) /\ Cur.got # << >>
          /\ Cur.got \in Seq(RowSet)
      BY <1>0, <1>1, <1>2, <2>2 DEF Picked, Calls
    <3> QED
      BY <3>1, LastTaken DEF InGot
  <2> QED
    BY <2>1, <2>2
<1>6. Cur.pc = "undo" => InGot(Cur) \subseteq InGot(Cur)' \cup {r} /\ r \in InGot(Cur)
  <2> SUFFICES ASSUME Cur.pc = "undo"
               PROVE  InGot(Cur) \subseteq InGot(Cur)' \cup {r} /\ r \in InGot(Cur)
    OBVIOUS
  <2>1. Cur'.got = SubSeq(Cur.got, 1, Len(Cur.got) - 1) /\ Cur.got # << >>
        /\ Cur.got \in Seq(RowSet) /\ r = Cur.got[Len(Cur.got)]
    BY <1>0, <1>1, <1>2 DEF Picked, Calls
  <2>2. PICK g : g = Cur.got
    OBVIOUS
  <2>3. /\ {g[j] : j \in DOMAIN g} \subseteq
             {SubSeq(g, 1, Len(g) - 1)[j] : j \in DOMAIN SubSeq(g, 1, Len(g) - 1)} \cup {r}
        /\ r \in {g[j] : j \in DOMAIN g}
    <3>1. g \in Seq(RowSet) /\ g # << >> /\ r = g[Len(g)]
      BY <2>1, <2>2
    <3> QED
      BY ONLY <3>1, LastTaken
  <2>4. InGot(Cur)' = {SubSeq(g, 1, Len(g) - 1)[j] : j \in DOMAIN SubSeq(g, 1, Len(g) - 1)}
    BY <2>1, <2>2 DEF InGot
  <2>5. InGot(Cur) = {g[j] : j \in DOMAIN g}
    BY <2>2 DEF InGot
  <2> QED
    BY <2>3, <2>4, <2>5
<1>7. /\ Cur.pc \in Deleting \cup {"undo"} => InUcl \subseteq Live /\ r \notin InUcl
      /\ Cur.pc = "old" => InMcl \subseteq Live /\ r \notin InMcl
      /\ \A s \in Live : tab[s] # Unset
  <2>1. \A s \in Live : tab[s] # Unset
    BY DEF Live
  <2>2. CASE Cur.pc \in Deleting
    BY <1>2, <2>1, <2>2 DEF SInv, Named, Disjoint, Picked, Deleting, Listing, Clearing
  <2>3. CASE Cur.pc = "undo"
    <3>1. InUcl \subseteq Live /\ tab[r] \in Multi \cup {Unset}
          /\ \A s \in InUcl : tab[s] \in Unicast
      BY <1>6, <2>3 DEF SInv, Named, Kinds, Clearing
    <3> QED
      BY <2>1, <2>3, <3>1, KindsApart
  <2>4. CASE Cur.pc \in Clearing
    BY <2>1, <2>4 DEF Clearing, Deleting
  <2> QED
    BY <1>2, <2>2, <2>3, <2>4
<1>8. /\ \A s \in Live' : tab'[s] = tab[s] /\ s \in Live
      /\ \A s \in orphans' : s \in Live' /\ tab'[s] \in Unicast
  BY DEF SInv, Kinds, Live
<1>9. Settings(Cur)'
  BY <1>1, <1>2 DEF SInv, Settings
<1>10. Entry(Cur)'
  <2>1. Cur'.pc \in Deleting => \A s \in old' : s >= Cur'.i - 1
    <3> SUFFICES ASSUME Cur.pc \in Deleting, NEW s \in old' PROVE s >= Cur'.i - 1
      BY <1>2
    <3>1. s \in old /\ s # r /\ s >= r /\ Cur'.i = r + 2
      BY <1>1, <1>2 DEF Picked
    <3>2. s \in Int /\ r \in Int
      BY <1>0, <3>1, RowIsNot DEF Types
    <3> QED
      BY <3>1, <3>2
  <2>2. Cur'.pc \in {"preold", "midold"} => Cur'.got = << >>
    BY <1>1, <1>2 DEF SInv, Entry, Deleting
  <2> QED
    BY <1>1, <1>2, <2>1, <2>2 DEF Entry, Deleting, Clearing
<1>11. Named(Cur)'
  <2>1. CASE Cur.pc \in {"preold", "old"}
    BY <1>2, <1>3, <1>7, <2>1
       DEF SInv, Named, Resting, Marking, Listing, Clearing, Deleting
  <2>2. CASE Cur.pc = "midold"
    <3>1. InGot(Cur)' = {} /\ InGot(Cur) = {}
      BY <1>1, <1>2, <2>2 DEF SInv, Entry, InGot, Deleting
    <3> QED
      BY <1>2, <1>3, <1>7, <2>2, <3>1
         DEF SInv, Named, Resting, Marking, Listing, Clearing, Deleting
  <2>3. CASE Cur.pc = "undo"
    <3>1. r \notin old
      BY <1>6, <2>3 DEF SInv, Disjoint
    <3>2. /\ old \cup InUcl \subseteq Live
          /\ Live \subseteq old \cup InUcl \cup InGot(Cur) \cup orphans
      BY <2>3 DEF SInv, Named
    <3> QED
      BY <1>2, <1>3, <1>6, <1>7, <2>3, <3>1, <3>2
         DEF Named, Resting, Marking, Listing, Clearing
  <2>4. CASE Cur.pc = "clru"
    <3>1. /\ ucl \in Seq(RowSet) /\ Cur.i \in Nat \ {0} /\ Cur'.i = Cur.i + 1
          /\ Cur.i <= Len(ucl) /\ r = ucl[Cur.i]
      BY <1>0, <1>1, <1>2, <2>4 DEF Types, Calls, Picked, Clearing
    <3>2. From(ucl, Cur.i) \subseteq From(ucl, Cur.i + 1) \cup {r}
      BY <3>1, RestOfList
    <3>3. From(ucl, Cur.i)' = From(ucl, Cur.i + 1)
      BY <3>1 DEF From
    <3>4. old = {} /\ Live \subseteq From(ucl, Cur.i) \cup InMcl \cup orphans
      BY <2>4 DEF SInv, Named
    <3> QED
      BY <1>2, <1>3, <2>4, <3>2, <3>3, <3>4
         DEF Named, Resting, Marking, Listing
  <2>5. CASE Cur.pc = "clrm"
    <3>1. /\ mcl \in Seq(RowSet) /\ Cur.i \in Nat \ {0} /\ Cur'.i = Cur.i + 1
          /\ Cur.i <= Len(mcl) /\ r = mcl[Cur.i]
      BY <1>0, <1>1, <1>2, <2>5 DEF Types, Calls, Picked, Clearing
    <3>2. From(mcl, Cur.i) \subseteq From(mcl, Cur.i + 1) \cup {r}
      BY <3>1, RestOfList
    <3>3. From(mcl, Cur.i)' = From(mcl, Cur.i + 1)
      BY <3>1 DEF From
    <3>4. old = {} /\ ucl = << >> /\ Live \subseteq From(mcl, Cur.i) \cup orphans
      BY <2>5 DEF SInv, Named
    <3> QED
      BY <1>2, <1>3, <2>5, <3>2, <3>3, <3>4
         DEF Named, Resting, Marking, Listing
  <2> QED
    BY <1>2, <2>1, <2>2, <2>3, <2>4, <2>5 DEF Deleting, Clearing
<1>12. Disjoint(Cur)'
  BY <1>2, <1>3, <1>5 DEF SInv, Disjoint, Listing, Deleting, Clearing
<1>13. Kinds(Cur)'
  <2>1. Cur.pc \notin Clearing => \A s \in InUcl : tab'[s] \in Unicast
    <3>1. Cur.pc \notin Clearing => \A s \in InUcl : tab[s] \in Unicast /\ s # r /\ s \in RowSet
      BY <1>2, <1>7 DEF SInv, Kinds, Live
    <3> QED
      BY <3>1
  <2>2. Cur.pc = "old" => \A s \in InMcl : tab'[s] \in Multi
    <3>1. Cur.pc = "old" => \A s \in InMcl : tab[s] \in Multi /\ s # r /\ s \in RowSet
      BY <1>2, <1>7 DEF SInv, Kinds, Live
    <3> QED
      BY <3>1
  <2>3. Cur.pc \in Listing \cup {"undo"} =>
          \A s \in InGot(Cur)' : tab'[s] \in Multi \cup {Unset}
    <3>1. \A s \in InGot(Cur) : s \in RowSet
      BY <1>0, <1>2 DEF InGot, Calls
    <3>2. Cur.pc \in Listing \cup {"undo"} =>
            \A s \in InGot(Cur) : tab[s] \in Multi \cup {Unset}
      BY DEF SInv, Kinds
    <3> QED
      BY <1>2, <1>5, <3>1, <3>2 DEF Listing, Deleting, Clearing
  <2> QED
    BY <1>2, <1>3, <1>8, <2>1, <2>2, <2>3
       DEF Kinds, Resting, Marking, Listing, Clearing, Deleting
<1>14. Chained(Cur)'
  BY <1>1, <1>2, <1>8 DEF SInv, Chained, Resting, Marking, Listing, Clearing, Deleting
<1>15. OwnDone(Cur)'
  <2>1. CASE Cur.pc \in Deleting \cup {"undo"}
    <3>1. /\ \A s \in InUcl : tab[s] \in {t.arg.addr, "ucdef"} /\ tab'[s] = tab[s]
          /\ InUcl # {}
          /\ (\E s \in InUcl : tab[s] = "ucdef") => t.arg.allu \/ t.uerr
          /\ \A s \in old : tab[s] # t.arg.addr
          /\ t.arg.allu /\ ~t.arc => \E s \in InUcl : tab[s] = "ucdef"
      <4>1. \A s \in InUcl : tab'[s] = tab[s]
        BY <1>7, <2>1 DEF Live
      <4> QED
        BY <1>1, <1>2, <2>1, <4>1 DEF SInv, OwnDone, Late, Listing, Deleting
    <3>2. \A s \in old' : tab'[s] = tab[s]
      BY <1>0 DEF Types
    <3>3. Cur'.pc \notin {"own", "allu"}
      BY <1>2, <2>1 DEF Deleting
    <3> QED
      BY <1>2, <1>3, <3>1, <3>2, <3>3 DEF OwnDone
  <2>2. CASE Cur.pc \in Clearing
    BY <1>2, <2>2 DEF OwnDone, Late, Finished, Listing, Clearing
  <2> QED
    BY <1>2, <2>1, <2>2
<1>16. MultiDone(Cur)'
  <2>1. Cur.pc = "old" =>
          /\ \A s \in InMcl : tab[s] \in ListedKeys(Cur) \cup {"bcast", "mcdef"}
          /\ Cur.arg.allm /\ ~Cur.mrc => \E s \in InMcl : tab[s] = "mcdef"
    BY DEF SInv, MultiDone
  <2>2. Cur.pc = "old" => \A s \in InMcl : tab'[s] = tab[s]
    BY <1>7 DEF Live
  <2> QED
    BY <1>1, <1>2, <1>3, <1>4, <2>1, <2>2 DEF MultiDone, Finished, Deleting, Clearing
<1> QED
  BY <1>2, <1>9, <1>10, <1>11, <1>12, <1>13, <1>14, <1>15, <1>16 DEF SInv

LEMMA SDeleteEntry ==
  ASSUME HInv, SInv, NEW p \in Thr, DeleteEntry(p)
  PROVE  SInv'
<1>1. PICK r : r = RowIn(p)
  OBVIOUS
<1>2. /\ Types /\ th[p] \in Calls /\ th[p].pc \in Loops /\ th[p].sub = "none"
      /\ r \in RowSet /\ th[p].pc # "idle"
  BY <1>1 DEF DeleteEntry, HInv, Types, Loops
<1>3. /\ Cur = th[p] /\ \A q \in Thr : q # p => th[q].sub = "none"
  BY <1>2, Acting DEF SInv
<1>4. Picked(th[p], r)
  <2>1. th[p].pc \in Deleting => \A s \in old : s >= th[p].i - 1
    BY <1>3 DEF SInv, Entry
  <2> QED
    BY <1>1, <1>2, <2>1, RowPicked
<1>5. Live = {s \in RowSet : tab[s] # Unset}
  BY <1>2, <1>3, LiveNow
<1>6. /\ ep' = ep /\ rxq' = rxq /\ chain' = chain /\ cst' = cst /\ orphans' = orphans
      /\ old' = old /\ ucl' = ucl /\ mcl' = mcl /\ allmc' = allmc /\ tab' = tab
  BY DEF DeleteEntry, cfgvars, lstvars
<1>7. CASE tab[r] = Unset
  <2>1. PICK t : t = Step([th[p] EXCEPT !.row = r])
    OBVIOUS
  <2>2. Turn(p, t)
    BY <1>1, <1>2, <1>7, <2>1, DeleteEntryTurn
  <2>3. t.sub = "none" /\ t.pc = th[p].pc
    BY <1>2, <2>1 DEF Step, Calls, Loops
  <2>4. Live' = {s \in RowSet : tab'[s] # Unset}
    BY <1>2, <2>2, <2>3, Scene
  <2>5. r \notin Live
    BY <1>5, <1>7
  <2>6. old \subseteq Live /\ orphans \subseteq Live
    BY <1>2, <1>3 DEF SInv, Named, Kinds, Loops, Listing
  <2>7. Live' = Live \ {r} /\ old' = old \ {r} /\ orphans' = orphans \ {r}
    BY <1>5, <1>6, <2>4, <2>5, <2>6
  <2> QED
    BY <1>2, <1>4, <1>6, <1>7, <2>1, <2>2, <2>7, SDropped
<1>8. CASE tab[r] # Unset
  <2>1. PICK t : t = [th[p] EXCEPT !.sub = "del", !.row = r]
    OBVIOUS
  <2>2. Turn(p, t)
    BY <1>1, <1>2, <1>8, <2>1, DeleteEntryTurn
  <2>3. /\ t.sub = "del" /\ t.row = r /\ t.pc = th[p].pc /\ t.arg = th[p].arg
        /\ t.got = th[p].got /\ t.i = th[p].i /\ t.roll = th[p].roll
        /\ t.uerr = th[p].uerr /\ t.arc = th[p].arc /\ t.mrc = th[p].mrc
        /\ t.rc = th[p].rc
    BY <1>2, <2>1 DEF Calls
  <2>4. Live' = Live
    <3>1. Live' = {s \in RowSet : tab'[s] # Unset /\ ~(t.sub = "add" /\ t.row = s)}
      BY <1>2, <2>2, <2>3, Scene
    <3> QED
      BY <1>5, <1>6, <2>3, <3>1
  <2>5. Entry(t)'
    <3>1. Picked(t, t.row)'
      BY <1>4, <1>6, <2>3 DEF Picked
    <3>2. /\ t.pc \in Deleting => \A s \in old : s >= t.i - 1
          /\ t.pc \in {"preold", "midold"} => t.got = << >>
          /\ t.pc \notin {"begin", "allm"}
      BY <1>2, <1>3, <2>3 DEF SInv, Entry, Loops
    <3> QED
      BY <1>6, <2>3, <3>1, <3>2 DEF Entry
  <2> QED
    BY <1>2, <1>6, <2>2, <2>3, <2>4, <2>5, SStay
<1> QED
  BY <1>7, <1>8

LEMMA SDeleteMcdi ==
  ASSUME HInv, SInv, NEW p \in Thr, DeleteMcdi(p)
  PROVE  SInv'
<1>1. PICK r : r = th[p].row
  OBVIOUS
<1>2. /\ Types /\ th[p] \in Calls /\ th[p].sub = "del" /\ th[p].pc \in Loops
      /\ r \in RowSet /\ tab[r] # Unset /\ th[p].pc # "idle"
  BY <1>1 DEF DeleteMcdi, HInv, Claimed, Claims, Types, Loops
<1>3. /\ Cur = th[p] /\ \A q \in Thr : q # p => th[q].sub = "none"
  BY <1>2, Acting DEF SInv
<1>4. Picked(th[p], r)
  BY <1>1, <1>2, <1>3 DEF SInv, Entry
<1>5. Live = {s \in RowSet : tab[s] # Unset}
  BY <1>2, <1>3, LiveNow
<1>6. /\ ep' = ep /\ rxq' = rxq /\ chain' = chain /\ cst' = cst
      /\ orphans' = orphans \ {r} /\ old' = old \ {r}
      /\ ucl' = ucl /\ mcl' = mcl /\ allmc' = allmc /\ tab' = [tab EXCEPT ![r] = Unset]
  BY <1>1 DEF DeleteMcdi, cfgvars, lstvars
<1>7. PICK t : t = Step([th[p] EXCEPT !.row = r])
  OBVIOUS
<1>8. [th[p] EXCEPT !.row = r] = th[p]
  BY <1>1, <1>2 DEF Calls
<1>9. Turn(p, t)
  BY <1>1, <1>2, <1>7, <1>8, DeleteMcdiTurn
<1>10. t.sub = "none" /\ t.pc = th[p].pc
  BY <1>2, <1>7, <1>8, StepKeeps
<1>11. tab'[r] = Unset /\ \A s \in RowSet : s # r => tab'[s] = tab[s]
  BY <1>2, <1>6 DEF Types
<1>12. Live' = Live \ {r}
  <2>1. Live' = {s \in RowSet : tab'[s] # Unset}
    BY <1>2, <1>9, <1>10, Scene
  <2> QED
    BY <1>5, <1>11, <2>1
<1> QED
  BY <1>2, <1>4, <1>6, <1>7, <1>9, <1>11, <1>12, SDropped

LEMMA SNext ==
  ASSUME HInv, SInv, ~Overlap, [Next]_vars
  PROVE  SInv'
<1>1. CASE Callers
  BY <1>1, SCallers
<1>2. CASE FilterFini
  BY <1>2, SFini
<1>3. CASE McReboot \/ UNCHANGED vars
  BY <1>3, SReboot
<1>4. ASSUME NEW p \in Thr, Reconfigure(p) PROVE SInv'
  BY <1>4, SBegin, SCleared, SOldRemoved, SListDone, SFail, SWa, SAddFound, SAddEntry,
     SAddMcdi, SDeleteEntry, SDeleteMcdi DEF Reconfigure
<1> QED
  BY <1>1, <1>2, <1>3, <1>4 DEF Next, Steps

(* The marks and lists account for every filter, when requests of the      *)
(* stack and the starts and stops of the receive queues do not overlap.    *)
THEOREM ListsAccount == ASSUME ~Overlap PROVE Spec => [](HInv /\ SInv)
<1>1. Init => HInv /\ SInv
  BY HInit, SInit
<1>2. HInv /\ SInv /\ [Next]_vars => (HInv /\ SInv)'
  BY HNext, SNext
<1> QED
  BY <1>1, <1>2, PTL DEF Spec

LEMMA NoneDown ==
  ASSUME HInv
  PROVE  /\ hw \subseteq {tab[r] : r \in Live}
         /\ ~down => hw = {tab[r] : r \in Live}
BY DEF HInv, InNic

LEMMA ListsNow == ASSUME HInv, SInv PROVE ListsComplete
<1> SUFFICES ASSUME \A p \in Thr : th[p].pc = "idle"
             PROVE  {r \in RowSet : tab[r] # Unset} \ orphans
                      = (InUcl \cup InMcl) \ orphans
  BY DEF ListsComplete
<1>1. Cur.pc = "idle"
  BY DEF Cur, Thr
<1>2. \A p \in Thr : th[p].sub = "none"
  BY NoEntry DEF Adding, Loops
<1>3. Live = {r \in RowSet : tab[r] # Unset}
  BY <1>2 DEF Live, Coming
<1>4. InUcl \cup InMcl \subseteq Live /\ Live \subseteq InUcl \cup InMcl \cup orphans
  BY <1>1 DEF SInv, Named, Resting
<1> QED
  BY <1>3, <1>4

(* Between calls the index lists name every filter and nothing else, but   *)
(* for the filters of an old address that a failed call unmarked: after    *)
(* fallbacks, roll-backs and failed requests too (ef10_filter_reconfigure, *)
(* whose clearing of the default queue removes what the lists name).       *)
THEOREM ListsCompleteAlways == ~Overlap => (Spec => []ListsComplete)
<1> SUFFICES ASSUME ~Overlap PROVE Spec => []ListsComplete
  OBVIOUS
<1>1. Spec => [](HInv /\ SInv)
  BY ListsAccount
<1>2. HInv /\ SInv => ListsComplete
  BY ListsNow
<1> QED
  BY <1>1, <1>2, PTL

(* The table, the lists and the NIC account for the same filters           *)
(* (ef10_filter_add_internal, ef10_filter_reconfigure).                    *)
THEOREM FiltersAgreeAlways == ~Overlap => (Spec => []FiltersAgree)
BY HwAgreesAlways, ListsCompleteAlways, PTL DEF FiltersAgree

LEMMA NoDuplicatesNow == ASSUME HInv, SInv PROVE NoDuplicates
<1> SUFFICES ASSUME chain, "mcdef" \in hw
             PROVE  hw \cap (Mcasts \cup {"bcast"}) = {}
  BY DEF NoDuplicates
<1>1. PICK r \in Live : tab[r] = "mcdef"
  BY NoneDown
<1>2. Cur.pc \in Pcs
  BY DEF HInv, Types, Calls, Cur, Thr
<1>3. \A s \in Live : tab[s] \in Unicast \cup {"mcdef"}
  BY <1>1, <1>2 DEF SInv, Chained, Pcs, Resting, Marking, Clearing, Listing
<1>4. hw \subseteq Unicast \cup {"mcdef"}
  BY <1>3, NoneDown
<1> QED
  BY <1>4, KindsApart DEF Multi

(* With chained filters the NIC never has the multicast default together   *)
(* with a filter of the list or the broadcast one, not even between two    *)
(* requests of a reconfiguration that falls back or rolls back             *)
(* (ef10_filter_reconfigure, "to avoid duplicate delivery").               *)
THEOREM NoDuplicatesAlways == ~Overlap => (Spec => []NoDuplicates)
<1> SUFFICES ASSUME ~Overlap PROVE Spec => []NoDuplicates
  OBVIOUS
<1>1. Spec => [](HInv /\ SInv)
  BY ListsAccount
<1>2. HInv /\ SInv => NoDuplicates
  BY NoDuplicatesNow
<1> QED
  BY <1>1, <1>2, PTL

LEMMA AppliedNow == ASSUME HInv, SInv PROVE Applied
<1> SUFFICES ASSUME NEW p \in Thr, th[p].pc = "ret", th[p].rc # "error", rxq
             PROVE  LET K == Tracked(RowSet) IN
                    /\ K \cap Addrs \subseteq {th[p].arg.addr}
                    /\ InTab \cap {th[p].arg.addr, "ucdef"} # {}
                    /\ "ucdef" \in K => th[p].arg.allu \/ th[p].uerr
                    /\ K \cap Mcasts \subseteq {th[p].arg.list[i] : i \in 1..Listed(p)}
                    /\ th[p].rc = "ok" /\ ~down =>
                         /\ th[p].arg.allu => "ucdef" \in hw
                         /\ th[p].arg.allm => "mcdef" \in hw
  BY DEF Applied
<1> DEFINE c == th[p]
<1>1. /\ Cur = c /\ \A q \in Thr : q # p => th[q].sub = "none"
      /\ c.sub = "none" /\ Finished(c)
  BY Acting, NoEntry DEF SInv, Finished, Adding, Loops
<1>2. Live = {r \in RowSet : tab[r] # Unset}
  BY <1>1, LiveNow
<1>3. /\ InUcl \cup InMcl \subseteq Live /\ Live \subseteq InUcl \cup InMcl \cup orphans
      /\ \A r \in InUcl : tab[r] \in {c.arg.addr, "ucdef"} /\ tab[r] \in Unicast
      /\ \A r \in InMcl : tab[r] \in Multi
  BY <1>1 DEF SInv, Named, Kinds, OwnDone, Late, Finished, Resting, Clearing
<1>4. /\ InUcl # {}
      /\ (\E r \in InUcl : tab[r] = "ucdef") => c.arg.allu \/ c.uerr
      /\ c.arg.allu /\ ~c.arc => \E r \in InUcl : tab[r] = "ucdef"
  BY <1>1 DEF SInv, OwnDone, Late
<1>5. /\ \A r \in InMcl : tab[r] \in ListedKeys(c) \cup {"bcast", "mcdef"}
      /\ c.arg.allm /\ ~c.mrc => \E r \in InMcl : tab[r] = "mcdef"
      /\ c.rc = "ok" => ~Rejected(c)
  BY <1>1 DEF SInv, MultiDone
<1>6. \A k \in Tracked(RowSet) : k # Unset /\ \E r \in InUcl \cup InMcl : tab[r] = k
  BY <1>2, <1>3 DEF Tracked
<1>7. Tracked(RowSet) \cap Addrs \subseteq {c.arg.addr}
  BY <1>3, <1>6, KindsApart DEF Unicast
<1>8. InTab \cap {c.arg.addr, "ucdef"} # {}
  <2>1. PICK r \in InUcl : TRUE
    BY <1>4
  <2>2. r \in RowSet /\ tab[r] # Unset /\ tab[r] \in {c.arg.addr, "ucdef"}
    BY <1>2, <1>3, <2>1
  <2>3. tab[r] \in InTab
    BY <2>2 DEF InTab
  <2> QED
    BY <2>2, <2>3
<1>9. "ucdef" \in Tracked(RowSet) => c.arg.allu \/ c.uerr
  BY <1>3, <1>4, <1>6, KindsApart DEF Unicast
<1>10. ListedKeys(c) \subseteq {c.arg.list[i] : i \in 1..Listed(p)}
  BY DEF ListedKeys, Listed
<1>11. Tracked(RowSet) \cap Mcasts \subseteq {c.arg.list[i] : i \in 1..Listed(p)}
  BY <1>3, <1>5, <1>6, <1>10, KindsApart DEF Multi
<1>12. ~down => \A r \in InUcl \cup InMcl : tab[r] \in hw
  BY <1>3, NoneDown
<1>13. c.rc = "ok" /\ ~down => /\ c.arg.allu => "ucdef" \in hw
                               /\ c.arg.allm => "mcdef" \in hw
  BY <1>4, <1>5, <1>12 DEF Rejected
<1> QED
  BY <1>7, <1>8, <1>9, <1>11, <1>13

(* A reconfiguration that does not fail leaves the filters asked for and   *)
(* none of the settings before, and reports success only when the unicast  *)
(* and multicast defaults that were asked for are in the NIC               *)
(* (ef10_filter_reconfigure, "report if any optional flags were            *)
(* rejected").                                                             *)
THEOREM AppliedAlways == ~Overlap => (Spec => []Applied)
<1> SUFFICES ASSUME ~Overlap PROVE Spec => []Applied
  OBVIOUS
<1>1. Spec => [](HInv /\ SInv)
  BY ListsAccount
<1>2. HInv /\ SInv => Applied
  BY AppliedNow
<1> QED
  BY <1>1, <1>2, PTL

(* A deletion never takes the filter of the address in use.                *)
LEMMA AddressStays ==
  ASSUME HInv, SInv, rxq, NEW p \in Thr, DeleteMcdi(p)
  PROVE  tab[th[p].row] # ep.addr
<1>1. PICK r : r = th[p].row
  OBVIOUS
<1>2. /\ th[p].sub = "del" /\ th[p].pc \in Loops /\ th[p] \in Calls
      /\ r \in RowSet /\ tab[r] # Unset /\ th[p].pc # "idle"
  BY <1>1 DEF DeleteMcdi, HInv, Claimed, Claims, Types, Loops
<1>3. Cur = th[p] /\ Cur.arg = ep
  BY <1>2, Acting DEF SInv, Settings
<1>4. Picked(Cur, r) /\ Cur.pc \notin Clearing
  BY <1>1, <1>2, <1>3 DEF SInv, Entry, Settings
<1>5. CASE Cur.pc \in Deleting
  BY <1>1, <1>3, <1>4, <1>5 DEF SInv, OwnDone, Late, Picked, Deleting, Listing
<1>6. CASE Cur.pc = "undo"
  <2>1. r \in InGot(Cur)
    <3>1. Cur.got \in Seq(RowSet) /\ Cur.got # << >> /\ r = Cur.got[Len(Cur.got)]
      BY <1>2, <1>3, <1>4, <1>6 DEF Calls, Picked
    <3> QED
      BY <3>1, LastTaken DEF InGot
  <2>2. tab[r] \in Multi
    BY <1>2, <1>6, <2>1 DEF SInv, Kinds
  <2>3. ep.addr \in Unicast
    BY DEF HInv, Types, Cfgs, Unicast
  <2> QED
    BY <1>1, <2>2, <2>3, KindsApart
<1> QED
  BY <1>2, <1>3, <1>4, <1>5, <1>6 DEF Loops, Deleting, Clearing

(* The filter of an address that stays is never taken out of the NIC by a  *)
(* reconfiguration: it is renewed (ef10_filter_reconfigure, which marks    *)
(* the filters as old and renews them).                                    *)
THEOREM UnicastKeptAlways == ~Overlap => (Spec => UnicastKept)
<1> SUFFICES ASSUME ~Overlap PROVE Spec => UnicastKept
  OBVIOUS
<1> DEFINE Kept == \A a \in Addrs :
                     a \in hw /\ rxq /\ rxq' /\ ep.addr = a /\ ~down' =>
                       (a \in hw' \/ \E p \in Thr : th[p].arg # << >> /\ th[p].arg.addr # a)
<1>1. ASSUME HInv /\ SInv, [Next]_vars PROVE [Kept]_vars
  <2> SUFFICES ASSUME NEW a \in Addrs, a \in hw, rxq, ep.addr = a, ~down', Next
               PROVE  a \in hw'
    BY <1>1
  <2>1. CASE Callers
    BY <2>1 DEF Callers, FilterApply, AddrSet, ListSet, MacReturn, RxStart, RxStop, RxStarted,
       MacDrain, tabvars
  <2>2. CASE FilterFini
    BY <1>1, <2>2 DEF FilterFini, SInv, Settings
  <2>3. CASE McReboot
    BY <2>3 DEF McReboot
  <2>4. ASSUME NEW p \in Thr, Reconfigure(p) PROVE a \in hw'
    <3>1. CASE \/ Begin(p) \/ Cleared(p) \/ OldRemoved(p) \/ ListDone(p) \/ Fail(p)
               \/ AddFound(p) \/ AddEntry(p) \/ DeleteEntry(p)
               \/ \E ok \in BOOLEAN : Workarounds(p, ok)
      BY <3>1 DEF Begin, Cleared, OldRemoved, ListDone, Fail, AddFound, AddEntry,
         DeleteEntry, Workarounds, tabvars
    <3>2. ASSUME NEW ok \in BOOLEAN, AddMcdi(p, ok) PROVE a \in hw'
      BY <3>2 DEF AddMcdi
    <3>3. CASE DeleteMcdi(p)
      <4>1. tab[th[p].row] # a
        BY <1>1, <3>3, AddressStays
      <4> QED
        BY <3>3, <4>1 DEF DeleteMcdi
    <3> QED
      BY <2>4, <3>1, <3>2, <3>3 DEF Reconfigure
  <2> QED
    BY <2>1, <2>2, <2>3, <2>4 DEF Next, Steps
<1>2. Spec => [](HInv /\ SInv)
  BY ListsAccount
<1>3. UnicastKept <=> [][Kept]_vars
  BY DEF UnicastKept
<1> HIDE DEF Kept
<1> QED
  BY <1>1, <1>2, <1>3, PTL DEF Spec

(* No filter is inserted without a default receive queue, which            *)
(* efx_filter_spec_init_rx dereferences, when requests do not overlap the  *)
(* start and stop of the receive queues: without one                       *)
(* ef10_filter_reconfigure only removes filters.                           *)
THEOREM NeverNull == ~Overlap => (Spec => [](panic = FALSE))
<1> SUFFICES ASSUME ~Overlap PROVE Spec => [](panic = FALSE)
  OBVIOUS
<1>1. Init => panic = FALSE
  BY DEF Init
<1>2. ASSUME HInv /\ SInv, panic = FALSE, [Next]_vars PROVE (panic = FALSE)'
  <2>1. ASSUME NEW p \in Thr, Adding(p) PROVE rxq
    <3>1. Cur = th[p]
      BY <1>2, <2>1, Acting DEF SInv, Adding
    <3>2. th[p].pc \notin Clearing \cup Resting
      BY <2>1 DEF Adding, Clearing, Resting
    <3> QED
      BY <1>2, <3>1, <3>2 DEF SInv, Settings
  <2>2. ASSUME NEW p \in Thr, AddFound(p) \/ AddEntry(p) PROVE panic' = FALSE
    <3>1. panic' = ~rxq /\ rxq
      BY <2>1, <2>2 DEF AddFound, AddEntry, InitRx
    <3> QED
      BY <3>1
  <2>3. ASSUME NEW p \in Thr, ~AddFound(p), ~AddEntry(p), Reconfigure(p)
        PROVE  panic' = FALSE
    BY <1>2, <2>3 DEF Reconfigure, Begin, Cleared, OldRemoved, ListDone, Fail,
       DeleteEntry, DeleteMcdi, Workarounds, AddMcdi, cntvars
  <2>4. CASE Callers
    BY <1>2, <2>4 DEF Callers, FilterApply, AddrSet, ListSet, MacReturn, RxStart, RxStop,
       RxStarted, MacDrain, cntvars
  <2>5. CASE FilterFini \/ McReboot \/ UNCHANGED vars
    BY <1>2, <2>5 DEF FilterFini, McReboot, vars, cntvars
  <2> QED
    BY <1>2, <2>2, <2>3, <2>4, <2>5 DEF Next, Steps
<1>3. Spec => [](HInv /\ SInv)
  BY ListsAccount
<1> QED
  BY <1>1, <1>2, <1>3, PTL DEF Spec

=============================================================================
