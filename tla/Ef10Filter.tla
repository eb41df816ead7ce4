----------------------------- MODULE Ef10Filter -----------------------------
(***************************************************************************)
(* The receive filters of EF10 (ef10_filter.c) with their callers in       *)
(* ef10_mac.c, efx_mac.c, sfxge_mac.c and sfxge_rx.c.  The driver keeps a  *)
(* software table of the filters it inserted by MCDI; every change of the  *)
(* address, the promiscuity or the multicast list reconfigures the table:  *)
(* old filters are marked, wanted ones inserted or renewed, with           *)
(* fallbacks, and those still marked removed.  An entry is busy while the  *)
(* lock is dropped for an MCDI request.                                    *)
(*                                                                         *)
(* "mac" is a request of the network stack, under sm_lock; "ctl" starts    *)
(* and stops the receive queues, with default_rxq_set and _clear, without  *)
(* that lock.                                                              *)
(*                                                                         *)
(* A filter is named by what it matches.  All of them have the automatic   *)
(* priority, as no other is inserted in this driver, so ef10_filter_add's  *)
(* replacement of filters of a higher one is left out, and so are fail3    *)
(* and fail4 of ef10_filter_reconfigure: the list is never too long.       *)
(***************************************************************************)
EXTENDS Integers, FiniteSets, Sequences

CONSTANTS
  Addrs,        \* station addresses
  Lists,        \* the multicast lists that are asked for
  TblRows,      \* EFX_EF10_FILTER_TBL_ROWS
  Limit,        \* EF10_FILTER_SEARCH_LIMIT
  HomeRow,      \* ef10_filter_hash
  Overlap,      \* TRUE: requests arrive while receive queues start or stop
  MaxOps, MaxStarts, MaxFails   \* bounds: requests, starts, failed MCDI

Mcasts  == UNION {{l[i] : i \in DOMAIN l} : l \in Lists}
Keys    == Addrs \cup Mcasts \cup {"ucdef", "mcdef", "bcast"}
RowSet  == 0..(TblRows - 1)
Thr     == {"mac", "ctl"}
NoRow   == -1
Unset   == "unset"

ASSUME Ef10FilterAssumption ==
  /\ TblRows \in Nat \ {0} /\ Limit \in 1..TblRows /\ HomeRow \in [Keys -> RowSet]
  /\ Overlap \in BOOLEAN /\ {MaxOps, MaxStarts, MaxFails} \subseteq Nat
  /\ Addrs \cap Mcasts = {} /\ Addrs # {} /\ Lists \subseteq Seq(Mcasts)
  /\ {"ucdef", "mcdef", "bcast", Unset} \cap (Addrs \cup Mcasts) = {}

VARIABLES
  ep,           \* what the port asks for: addr, allu, mulcst, allm, bc, list
  rxq,          \* eft_default_rxq is set
  tab,          \* the filter in each row
  busy, old,    \* the rows with FLAG_BUSY and FLAG_AUTO_OLD
  ucl, mcl,     \* the rows in eft_unicst_ and eft_mulcst_filter_indexes
  allmc,        \* eft_using_all_mulcst
  hw,           \* the filters of the NIC
  chain,        \* enc_bug26807_workaround
  down,         \* the MC rebooted: every request fails until the restart
  cst,          \* the receive queues
  th,           \* the calls in progress
  ops, starts, fails,
  panic,        \* a null receive queue was dereferenced
  orphans       \* history: rows that a failed reconfiguration left

cfgvars == <<ep, rxq, chain, down, cst>>
tabvars == <<tab, busy, old, hw>>
lstvars == <<ucl, mcl, allmc>>
cntvars == <<ops, starts, fails, panic>>
vars == <<cfgvars, tabvars, lstvars, th, cntvars, orphans>>

Calm == [pc |-> "idle", sub |-> "none", row |-> NoRow, arg |-> << >>, i |-> 1,
         got |-> << >>, roll |-> FALSE, uerr |-> FALSE, arc |-> FALSE,
         mrc |-> FALSE, rc |-> "ok", next |-> << >>]

Empty == [r \in RowSet |-> Unset]

Init ==
  /\ ep \in {[addr |-> a, allu |-> FALSE, mulcst |-> FALSE, allm |-> FALSE,
              bc |-> FALSE, list |-> << >>] : a \in Addrs}
  /\ rxq = FALSE /\ tab = Empty /\ busy = {} /\ old = {} /\ hw = {} /\ orphans = {}
  /\ ucl = << >> /\ mcl = << >> /\ allmc = FALSE /\ chain \in BOOLEAN /\ down = FALSE
  /\ cst = "down" /\ th = [p \in Thr |-> Calm]
  /\ ops = 0 /\ starts = 0 /\ fails = 0 /\ panic = FALSE

-----------------------------------------------------------------------------
(* The calls.                                                              *)

Free(p) == th[p].pc = "idle" /\ (Overlap \/ \A q \in Thr : th[q].pc = "idle")

(* efx_filter_reconfigure is called with the settings, and with the list   *)
(* itself, which may change meanwhile.                                     *)
Call(p, e, next) ==
  th' = [th EXCEPT ![p] = [Calm EXCEPT !.pc = "begin", !.arg = e, !.next = next]]

(* An MCDI request: it succeeds, or the firmware refuses it or is down.    *)
Request(ok) ==
  IF ok THEN ~down /\ UNCHANGED fails
  ELSE /\ down \/ fails < MaxFails
       /\ fails' = (IF down THEN fails ELSE fails + 1)

(* ef10_mac_reconfigure for new settings: SET_MAC, then the filters.  When *)
(* SET_MAC fails (but for EACCES) there is no reconfiguration, the caller  *)
(* in efx_mac.c takes the old settings back, and its caller gives up.      *)
MacReconfigure(e, next, ok) ==
  /\ Request(ok)
  /\ IF ok THEN ep' = e /\ Call("mac", e, next)
     ELSE UNCHANGED ep /\ th' = [th EXCEPT !["mac"].next = << >>]

(* sfxge_mac_filter_apply: efx_mac_filter_set, then the multicast list.    *)
Promiscs == {"OFF", "ALL_MULTI", "ALL_PHYS"}

FilterApply(promisc, list, ok) ==
  /\ Free("mac") /\ cst # "drain" /\ ops < MaxOps /\ ops' = ops + 1
  /\ MacReconfigure([ep EXCEPT !.allu = (promisc = "ALL_PHYS"), !.bc = TRUE,
                               !.mulcst = (list # << >>), !.allm = (promisc # "OFF")],
                    <<list>>, ok)
  /\ UNCHANGED <<rxq, chain, down, cst, tabvars, lstvars, starts, panic, orphans>>

ListSet(ok) ==
  /\ th["mac"].pc = "ret" /\ th["mac"].next # << >>
  /\ MacReconfigure([ep EXCEPT !.list = th["mac"].next[1]], << >>, ok)
  /\ UNCHANGED <<rxq, chain, down, cst, tabvars, lstvars, ops, starts, panic,
                 orphans>>

(* efx_mac_addr_set: firmware without v-adaptors has the filters           *)
(* reconfigured, other firmware does not.                                  *)
AddrSet(a, vadapter, ok) ==
  /\ Free("mac") /\ cst # "drain" /\ ops < MaxOps /\ ops' = ops + 1
  /\ IF vadapter
     THEN Request(ok) /\ UNCHANGED th /\ ep' = (IF ok THEN [ep EXCEPT !.addr = a] ELSE ep)
     ELSE MacReconfigure([ep EXCEPT !.addr = a], << >>, ok)
  /\ UNCHANGED <<rxq, chain, down, cst, tabvars, lstvars, starts, panic, orphans>>

MacReturn ==
  /\ th["mac"].pc = "ret" /\ th["mac"].next = << >>
  /\ th' = [th EXCEPT !["mac"] = Calm]
  /\ UNCHANGED <<cfgvars, tabvars, lstvars, cntvars, orphans>>

(* sfxge_rx_start and sfxge_rx_stop.                                       *)
RxStart ==
  /\ Free("ctl") /\ cst = "down" /\ starts < MaxStarts /\ starts' = starts + 1
  /\ cst' = "starting" /\ rxq' = TRUE /\ Call("ctl", ep, << >>)
  /\ UNCHANGED <<ep, chain, down, tabvars, lstvars, ops, fails, panic, orphans>>

RxStop ==
  /\ Free("ctl") /\ cst = "up"
  /\ cst' = "clearing" /\ rxq' = FALSE /\ Call("ctl", ep, << >>)
  /\ UNCHANGED <<ep, chain, down, tabvars, lstvars, cntvars, orphans>>

(* ef10_mac_filter_default_rxq_set returns; when it failed the start is    *)
(* undone.  sfxge_mac_stop drains, with sm_lock, and ignores a failure.    *)
RxStarted ==
  /\ th["ctl"].pc = "ret" /\ cst = "starting" /\ th["ctl"].rc = "ok"
  /\ cst' = "up" /\ th' = [th EXCEPT !["ctl"] = Calm]
  /\ UNCHANGED <<ep, rxq, chain, down, tabvars, lstvars, cntvars, orphans>>

MacDrain(ok) ==
  /\ th["ctl"].pc = "ret"
  /\ cst = "clearing" \/ (cst = "starting" /\ th["ctl"].rc # "ok")
  /\ th["mac"].pc = "idle"                  \* sm_lock
  /\ Request(ok) /\ cst' = "drain" /\ rxq' = FALSE
  /\ IF ok THEN Call("ctl", ep, << >>) ELSE UNCHANGED th
  /\ UNCHANGED <<ep, chain, down, tabvars, lstvars, ops, starts, panic, orphans>>

(* ef10_filter_fini; the reset of the next start and ef10_filter_init.     *)
FilterFini ==
  /\ th["ctl"].pc = "ret" /\ cst = "drain"
  /\ cst' = "down" /\ th' = [th EXCEPT !["ctl"] = Calm]
  /\ tab' = Empty /\ busy' = {} /\ old' = {} /\ hw' = {} /\ orphans' = {}
  /\ ucl' = << >> /\ mcl' = << >> /\ allmc' = FALSE /\ down' = FALSE /\ chain' \in BOOLEAN
  /\ UNCHANGED <<ep, rxq, cntvars>>

McReboot ==
  /\ ~down /\ cst # "down" /\ fails < MaxFails /\ fails' = fails + 1
  /\ down' = TRUE /\ hw' = {}
  /\ UNCHANGED <<ep, rxq, chain, cst, tab, busy, old, lstvars, th, ops, starts,
                 panic, orphans>>

-----------------------------------------------------------------------------
(* ef10_filter_add_internal.                                               *)

Probes(k)  == [d \in 1..Limit |-> (HomeRow[k] + d) % TblRows]
Equal(k)   == {r \in RowSet : tab[r] = k /\ \E d \in 1..Limit : Probes(k)[d] = r}
Unused(k)  == {d \in 1..Limit : tab[Probes(k)[d]] = Unset}
First(k)   == Probes(k)[CHOOSE d \in Unused(k) : \A c \in Unused(k) : d <= c]

(* What the thread inserts next.                                           *)
Listed(p) == IF th[p].arg.mulcst \/ th[p].arg.allm THEN Len(th[p].arg.list) ELSE 0
Goal(p) ==
  CASE th[p].pc = "own" -> th[p].arg.addr
    [] th[p].pc = "allu" -> "ucdef"
    [] th[p].pc = "allm" -> "mcdef"
    [] th[p].pc = "bcast" -> "bcast"
    [] OTHER -> LET l == IF th[p].i <= Len(ep.list) THEN ep.list ELSE th[p].arg.list
                IN l[th[p].i]
Adding(p) == \/ th[p].pc \in {"own", "allu", "allm"}
             \/ th[p].pc = "list" /\ th[p].i <= Listed(p)
             \/ th[p].pc = "bcast" /\ th[p].arg.bc

(* What follows the insertion of the goal, which succeeded in row r or     *)
(* failed.                                                                 *)
Go(p, pc) == th' = [th EXCEPT ![p].pc = pc, ![p].sub = "none"]

OwnAdded(p, ok, r) ==
  /\ th[p].pc = "own"
  /\ ucl' = (IF ok THEN Append(ucl, r) ELSE ucl) /\ UNCHANGED <<mcl, allmc>>
  /\ th' = [th EXCEPT ![p].sub = "none", ![p].uerr = ~ok,
              ![p].pc = IF th[p].arg.allu \/ ~ok THEN "allu" ELSE "wa"]

AlluAdded(p, ok, r) ==
  /\ th[p].pc = "allu"
  /\ ucl' = (IF ok THEN Append(ucl, r) ELSE ucl) /\ UNCHANGED <<mcl, allmc>>
  /\ th' = [th EXCEPT ![p].sub = "none", ![p].arc = ~ok,
              ![p].pc = IF th[p].uerr /\ ~ok THEN "fail" ELSE "wa"]

AllmAdded(p, ok, r) ==
  /\ th[p].pc = "allm" /\ UNCHANGED ucl
  /\ IF ok THEN mcl' = <<r>> /\ allmc' = TRUE /\ Go(p, "old")
     ELSE /\ UNCHANGED <<mcl, allmc>>
          /\ th' = [th EXCEPT ![p].sub = "none", ![p].pc = "list", ![p].i = 1,
                      ![p].got = << >>, ![p].roll = FALSE, ![p].mrc = TRUE]

ListAdded(p, ok, r) ==
  /\ th[p].pc \in {"list", "bcast"} /\ UNCHANGED <<ucl, mcl, allmc>>
  /\ th' = [th EXCEPT ![p].sub = "none",
              ![p].got = IF ok THEN Append(@, r) ELSE @,
              ![p].i = @ + 1,
              ![p].pc = IF ~ok /\ th[p].roll THEN "undo"
                        ELSE IF th[p].pc = "bcast" THEN "listed" ELSE "list"]

Added(p, ok, r) == \/ OwnAdded(p, ok, r) \/ AlluAdded(p, ok, r)
                   \/ AllmAdded(p, ok, r) \/ ListAdded(p, ok, r)

(* Renewing an entry that is there already.  The mutation leaves its mark. *)
RefreshMut(r) == old
Refresh(r)    == old \ {r}

(* efx_filter_spec_init_rx dereferences the default receive queue.         *)
InitRx == panic' = ~rxq

AddFound(p) ==
  /\ Adding(p) /\ th[p].sub = "none" /\ InitRx /\ Equal(Goal(p)) \ busy # {}
  /\ \E r \in Equal(Goal(p)) \ busy : old' = Refresh(r) /\ Added(p, TRUE, r)
  /\ UNCHANGED <<cfgvars, tab, busy, hw, ops, starts, fails, orphans>>

AddEntry(p) ==
  /\ Adding(p) /\ th[p].sub = "none" /\ InitRx /\ Equal(Goal(p)) = {}
  /\ IF Unused(Goal(p)) = {} THEN Added(p, FALSE, NoRow) /\ UNCHANGED <<tab, busy>>
     ELSE /\ tab' = [tab EXCEPT ![First(Goal(p))] = Goal(p)]
          /\ busy' = busy \cup {First(Goal(p))}
          /\ th' = [th EXCEPT ![p].sub = "add", ![p].row = First(Goal(p))]
          /\ UNCHANGED lstvars
  /\ UNCHANGED <<cfgvars, old, hw, ops, starts, fails, orphans>>

(* efx_mcdi_filter_op_add.  A failure frees the entry.                     *)
AddUndone(r) == [tab EXCEPT ![r] = Unset]

AddMcdi(p, ok) ==
  /\ th[p].sub = "add" /\ busy' = busy \ {th[p].row}
  /\ Request(ok)
  /\ IF ok THEN hw' = hw \cup {tab[th[p].row]} /\ UNCHANGED tab
     ELSE tab' = AddUndone(th[p].row) /\ UNCHANGED hw
  /\ Added(p, ok, th[p].row)
  /\ UNCHANGED <<cfgvars, old, ops, starts, panic, orphans>>

-----------------------------------------------------------------------------
(* ef10_filter_delete_internal and the loops that call it.                 *)

MinRow(R) == CHOOSE r \in R : \A q \in R : r <= q

(* The row the thread deletes next, and the state after the loop.          *)
RowIn(p) ==
  CASE th[p].pc = "clru" -> IF th[p].i <= Len(ucl) THEN ucl[th[p].i] ELSE NoRow
    [] th[p].pc = "clrm" -> IF th[p].i <= Len(mcl) THEN mcl[th[p].i] ELSE NoRow
    [] th[p].pc = "undo" -> IF th[p].got # << >> THEN th[p].got[Len(th[p].got)]
                            ELSE NoRow
    [] th[p].pc \in {"preold", "midold", "old"} ->
         LET R == {r \in old : r >= th[p].i - 1} IN IF R # {} THEN MinRow(R) ELSE NoRow
    [] OTHER -> NoRow
Loops == {"clru", "clrm", "undo", "preold", "midold", "old"}

Step(t) ==
  CASE t.pc \in {"clru", "clrm"} -> [t EXCEPT !.i = @ + 1, !.sub = "none"]
    [] t.pc = "undo" -> [t EXCEPT !.got = SubSeq(@, 1, Len(@) - 1), !.sub = "none"]
    [] OTHER -> [t EXCEPT !.i = t.row + 2, !.sub = "none"]

DeleteEntry(p) ==
  /\ th[p].pc \in Loops /\ th[p].sub = "none" /\ RowIn(p) \in RowSet \ busy
  /\ IF tab[RowIn(p)] = Unset
     THEN /\ th' = [th EXCEPT ![p] = Step([@ EXCEPT !.row = RowIn(p)])]
          /\ UNCHANGED busy
     ELSE /\ busy' = busy \cup {RowIn(p)}
          /\ th' = [th EXCEPT ![p].sub = "del", ![p].row = RowIn(p)]
  /\ UNCHANGED <<cfgvars, tab, old, hw, lstvars, cntvars, orphans>>

(* efx_mcdi_filter_op_delete; the entry goes also when it fails.           *)
DeleteMcdi(p) ==
  /\ th[p].sub = "del"
  /\ hw' = (IF down THEN hw ELSE hw \ {tab[th[p].row]})
  /\ tab' = [tab EXCEPT ![th[p].row] = Unset]
  /\ busy' = busy \ {th[p].row} /\ old' = old \ {th[p].row}
  /\ orphans' = orphans \ {th[p].row}
  /\ th' = [th EXCEPT ![p] = Step(@)]
  /\ UNCHANGED <<cfgvars, lstvars, cntvars>>

-----------------------------------------------------------------------------
(* ef10_filter_reconfigure.                                                *)

(* The filters of the last time may be old.  The mutation forgets the      *)
(* unicast ones.                                                           *)
InMcl == {mcl[i] : i \in DOMAIN mcl}
InUcl == {ucl[i] : i \in DOMAIN ucl}
MarkedMut == old \cup InMcl
Marked    == old \cup InMcl \cup InUcl

(* The unicast list is built anew.  The mutation appends to the last one.  *)
NoUclMut == ucl
NoUcl    == << >>

Begin(p) ==
  /\ th[p].pc = "begin"
  /\ IF ~rxq THEN Go(p, "clru") /\ UNCHANGED <<old, ucl>>
     ELSE /\ old' = Marked /\ ucl' = NoUcl /\ Go(p, "own")
  /\ UNCHANGED <<cfgvars, tab, busy, hw, mcl, allmc, cntvars, orphans>>

Cleared(p) ==
  /\ th[p].pc \in {"clru", "clrm"} /\ th[p].sub = "none" /\ RowIn(p) = NoRow
  /\ IF th[p].pc = "clru" THEN ucl' = << >> /\ UNCHANGED mcl
     ELSE mcl' = << >> /\ UNCHANGED ucl
  /\ th' = [th EXCEPT ![p].pc = IF @ = "clru" THEN "clrm" ELSE "ret", ![p].i = 1]
  /\ UNCHANGED <<cfgvars, tabvars, allmc, cntvars, orphans>>

(* With chaining the old multicast filters go before the new ones come.    *)
(* The mutation removes them only at the end.                              *)
RemoveFirstMut(p) == FALSE
RemoveFirst(p)    == chain /\ allmc # th[p].arg.allm

Multicast(p) == IF th[p].arg.allm THEN "allm" ELSE "list"

Workarounds(p, ok) ==
  /\ th[p].pc = "wa" /\ Request(ok)
  /\ IF ok
     THEN th' = [th EXCEPT ![p].i = 1, ![p].got = << >>,
                   ![p].roll = ~th[p].arg.allm,
                   ![p].pc = IF RemoveFirst(p) THEN "preold" ELSE Multicast(p)]
     ELSE Go(p, "fail")
  /\ UNCHANGED <<cfgvars, tabvars, lstvars, ops, starts, panic, orphans>>

(* Optional filters that were rejected are reported.                       *)
Rejected(t) == (t.arg.allu /\ t.arc) \/ (t.arg.allm /\ t.mrc)

OldRemoved(p) ==
  /\ th[p].pc \in {"preold", "midold", "old"} /\ th[p].sub = "none"
  /\ RowIn(p) = NoRow
  /\ th' = [th EXCEPT ![p].i = 1,
              ![p].pc = CASE @ = "preold" -> Multicast(p)
                          [] @ = "midold" -> "allm"
                          [] OTHER -> "ret",
              ![p].rc = IF th[p].pc = "old" /\ Rejected(th[p]) THEN "ENOTSUP" ELSE "ok"]
  /\ UNCHANGED <<cfgvars, tabvars, lstvars, cntvars, orphans>>

(* ef10_filter_insert_multicast_list ends, or has rolled back.             *)
Indexes(p) == th[p].got

ListDone(p) ==
  /\ \/ th[p].pc = "list" /\ th[p].i > Listed(p) /\ Go(p, "bcast")
        /\ UNCHANGED <<mcl, allmc>>
     \/ /\ th[p].pc = "listed" \/ (th[p].pc = "bcast" /\ ~th[p].arg.bc)
        /\ mcl' = Indexes(p) /\ allmc' = FALSE
        /\ th' = [th EXCEPT ![p].pc = "old", ![p].i = 1]
     \/ /\ th[p].pc = "undo" /\ th[p].sub = "none" /\ th[p].got = << >>
        /\ mcl' = << >> /\ UNCHANGED allmc
        /\ th' = [th EXCEPT ![p].i = 1,
                    ![p].pc = IF chain /\ ~allmc THEN "midold" ELSE "allm"]
  /\ UNCHANGED <<cfgvars, tabvars, ucl, cntvars, orphans>>

(* The failure path: the marks go, the filters stay.                       *)
Fail(p) ==
  /\ th[p].pc = "fail" /\ old' = {}
  /\ orphans' = orphans \cup (old \ InMcl)
  /\ th' = [th EXCEPT ![p].pc = "ret", ![p].rc = "error"]
  /\ UNCHANGED <<cfgvars, tab, busy, hw, lstvars, cntvars>>

Reconfigure(p) ==
  \/ Begin(p) \/ Cleared(p) \/ OldRemoved(p) \/ ListDone(p) \/ Fail(p)
  \/ AddFound(p) \/ AddEntry(p)
  \/ \E ok \in BOOLEAN : Workarounds(p, ok) \/ AddMcdi(p, ok)
  \/ DeleteEntry(p) \/ DeleteMcdi(p)

Callers ==
  \/ \E ok \in BOOLEAN :
       \/ \E promisc \in Promiscs, list \in Lists : FilterApply(promisc, list, ok)
       \/ \E a \in Addrs, vadapter \in BOOLEAN : AddrSet(a, vadapter, ok)
       \/ ListSet(ok) \/ MacDrain(ok)
  \/ MacReturn \/ RxStart \/ RxStop \/ RxStarted

Steps == Callers \/ FilterFini \/ McReboot \/ \E p \in Thr : Reconfigure(p)

Next == ~panic /\ Steps

Spec == Init /\ [][Next]_vars

-----------------------------------------------------------------------------
(* Shape of the state.                                                     *)
TypeOK ==
  /\ ep.addr \in Addrs /\ ep.list \in Lists \cup {<< >>}
  /\ {ep.allu, ep.mulcst, ep.allm, ep.bc, rxq, allmc, chain, down, panic}
       \subseteq BOOLEAN
  /\ tab \in [RowSet -> Keys \cup {Unset}]
  /\ busy \subseteq RowSet /\ old \subseteq RowSet /\ orphans \subseteq RowSet
  /\ InUcl \subseteq RowSet /\ InMcl \subseteq RowSet /\ Len(ucl) <= 2
  /\ hw \subseteq Keys /\ cst \in {"down", "starting", "up", "clearing", "drain"}

InTab   == {tab[r] : r \in RowSet} \ {Unset}
Tracked(R) == {tab[r] : r \in R \ orphans} \ {Unset}

(* The software table and the NIC have the same filters whenever no        *)
(* request is in flight: also when insertions fail, roll back or fall      *)
(* back, and after deletions.                                              *)
HwAgrees ==
  ~down /\ (\A p \in Thr : th[p].sub = "none") => hw = InTab /\ busy = {}

(* Between calls the index lists name every filter, and no other row:      *)
(* they are all that the clearing of the default queue removes.  Excepted  *)
(* are the filters of an old address that a failed call unmarked.          *)
ListsComplete ==
  (\A p \in Thr : th[p].pc = "idle") =>
    {r \in RowSet : tab[r] # Unset} \ orphans = (InUcl \cup InMcl) \ orphans

(* The table, the index lists and the NIC account for the same filters.    *)
FiltersAgree == HwAgrees /\ ListsComplete

(* What ef10_filter_reconfigure leaves when it does not fail: the station  *)
(* address or everything unicast, and nothing of the settings before it;   *)
(* and "report if any optional flags were rejected": success means that    *)
(* the unicast and multicast defaults that were asked for are in the NIC.  *)
Applied ==
  \A p \in Thr : th[p].pc = "ret" /\ th[p].rc # "error" /\ rxq =>
    LET K == Tracked(RowSet) IN
      /\ K \cap Addrs \subseteq {th[p].arg.addr}
      /\ InTab \cap {th[p].arg.addr, "ucdef"} # {}
      /\ "ucdef" \in K => th[p].arg.allu \/ th[p].uerr
      /\ K \cap Mcasts \subseteq {th[p].arg.list[i] : i \in 1..Listed(p)}
      /\ th[p].rc = "ok" /\ ~down => /\ th[p].arg.allu => "ucdef" \in hw
                                     /\ th[p].arg.allm => "mcdef" \in hw

(* With chained filters no packet is delivered twice, not even for a       *)
(* moment in the middle of a reconfiguration ("to avoid duplicate          *)
(* delivery").                                                             *)
NoDuplicates == chain => ("mcdef" \in hw => hw \cap (Mcasts \cup {"bcast"}) = {})

(* Reconfiguring does not interrupt the traffic to an address that stays:  *)
(* its filter is renewed, not removed and inserted again.                  *)
UnicastKept ==
  [][\A a \in Addrs : a \in hw /\ rxq /\ rxq' /\ ep.addr = a /\ ~down' =>
       (a \in hw' \/ \E p \in Thr : th[p].arg # << >> /\ th[p].arg.addr # a)]_vars
=============================================================================
