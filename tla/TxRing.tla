------------------------------- MODULE TxRing -------------------------------
(***************************************************************************)
(* The descriptor ring of one transmit queue (sfxge_tx.c, efx_tx.c,        *)
(* ef10_tx.c): sfxge_tx_qlist_post and sfxge_tx_qreap by the holder of     *)
(* st_lock (a sender in sfxge_tx_qdpl_drain, or the event thread in        *)
(* sfxge_tx_qunblock), against sfxge_ev_tx and sfxge_tx_qcomplete by the   *)
(* event thread, which does not hold st_lock.                              *)
(*                                                                         *)
(* The four indices are unsigned counters that wrap; a slot of the ring    *)
(* keeps the completion information of the packet whose last descriptor it *)
(* is.  st_unblock, st_pending and st_completed are shared without a lock: *)
(* each access is a step of its own, and the load of st_pending may pass   *)
(* the store of st_unblock that precedes it, as no barrier separates them. *)
(***************************************************************************)
EXTENDS Integers, FiniteSets

CONSTANTS
  NDescs,    \* SFXGE_TX_NDESCS
  Spare,     \* NDescs - EFX_TXQ_LIMIT(NDescs)
  Level1,    \* SFXGE_TXQ_UNBLOCK_LEVEL1, a quarter of the limit
  Batch,     \* SFXGE_TX_BATCH
  MaxFrag,   \* bound on the descriptors of one packet
  CtrMod     \* 2 ^ the width of the counters

Limit == NDescs - Spare                  \* EFX_TXQ_LIMIT

(* The last conjunct: with the level that unblocks the queue in flight and *)
(* less than a batch to reap, two packets fit.                             *)
ASSUME TxRingAssumption ==
  /\ NDescs \in Nat \ {0} /\ Spare \in 1..(NDescs - 1) /\ Batch \in Nat \ {0}
  /\ Level1 \in Nat /\ MaxFrag \in Nat \ {0}
  /\ CtrMod \in Nat \ {0} /\ CtrMod % NDescs = 0
  /\ CtrMod > NDescs
  /\ Level1 + 2 * MaxFrag + Batch - 1 <= Limit

VARIABLES
  st_state,      \* STARTED, FLUSHING (the three FLUSH values) or INITIALIZED
  st_lock,       \* the holder: "none", "sender" or "evq"
  st_added, st_pending, st_completed, st_reaped,
  st_n,          \* descriptors in the fragment list
  st_unblock,    \* "NOT_BLOCKED" or "LEVEL1"
  info,          \* completion information at each slot
  ppc,           \* progress of the lock holder
  fits,          \* its test of st_n against the space left by st_completed
  was_pending,   \* the st_pending it loaded before its store of st_unblock
  raced,         \* history: that load and the store missed the last completion
  pushed,        \* st_added when the drain began, then after each push; None
                 \* while sfxge_tx_qunblock posts the list left over
  wptr,          \* what the doorbell last told the hardware
  done,          \* descriptors the hardware has completed
  epc,           \* progress of the event thread, which holds se_lock
  last           \* history: the slots of the last descriptors of packets

idxvars == <<st_added, st_pending, st_completed, st_reaped>>
hwvars  == <<wptr, done>>
postvars == <<ppc, fits, was_pending, raced, pushed>>
vars == <<st_state, st_lock, idxvars, st_n, st_unblock, info, postvars, hwvars,
          epc, last>>

Minus(a, b) == (a - b) % CtrMod          \* unsigned subtraction

(* Unsigned addition.                                                      *)
Plus(a, b) == (a + b) % CtrMod

Id(a)       == a % NDescs                \* a & (NDescs - 1)
Slots(a, b) == {Id(a + k) : k \in 0..(Minus(b, a) - 1)}   \* from a up to b
None        == CtrMod                    \* no value of a counter

(* "map": the packet, bound for DMA; "unbound": the mapping without the    *)
(* packet, waiting to be reaped.  A packet that was copied has buffers     *)
(* instead, which are reaped in the same way and need no unbinding.        *)
Infos == {"none", "map", "unbound"}

Init ==
  /\ st_state = "STARTED" /\ st_lock = "none"
  /\ st_added = 0 /\ st_pending = 0 /\ st_completed = 0 /\ st_reaped = 0
  /\ st_n = 0 /\ st_unblock = "NOT_BLOCKED"
  /\ info = [i \in 0..(NDescs - 1) |-> "none"]
  /\ ppc = "idle" /\ fits = FALSE /\ was_pending = None /\ raced = FALSE
  /\ pushed = None /\ wptr = 0 /\ done = 0 /\ epc = "idle" /\ last = {}

-----------------------------------------------------------------------------
(* The drain.                                                              *)

(* A sender takes the lock and services the list; a blocked queue is left  *)
(* alone.                                                                  *)
DrainEnter ==
  /\ st_lock = "none" /\ st_lock' = "sender"
  /\ ppc' = (IF st_unblock = "NOT_BLOCKED" THEN "drain" ELSE "exit")
  /\ pushed' = st_added
  /\ UNCHANGED <<st_state, idxvars, st_n, st_unblock, info, fits, was_pending,
                 raced, hwvars, epc, last>>

(* sfxge_tx_qpacket_fragment and sfxge_tx_qlso_fragment: the packet bound. *)
Fragment(n) ==
  /\ ppc = "drain" /\ st_state = "STARTED"
  /\ st_n' = n /\ info' = [info EXCEPT ![Id(st_added)] = "map"]
  /\ ppc' = "post"
  /\ UNCHANGED <<st_state, st_lock, idxvars, st_unblock, fits, was_pending,
                 raced, pushed, hwvars, epc, last>>

(* sfxge_tx_qlist_post.  The mutation counts the space from st_completed.  *)
SpaceMut == Limit - Minus(st_added, st_completed)
Space    == Limit - Minus(st_added, st_reaped)

(* efx_tx_qpost, then the completion information moves to the slot of the  *)
(* last descriptor.  The mutation leaves it at the first.                  *)
MovedMut(z) == info
Moved(z)    == LET a == Id(st_added) IN
               [info EXCEPT ![a] = "none", ![Id(z)] = info[a]]

(* siena_tx_qpost and ef10_tx_qpost: one descriptor for each buffer.       *)
QPost == st_added' = Plus(st_added, st_n)

PostOk ==
  /\ ppc = "post" /\ st_n <= Space
  /\ QPost
  /\ info' = Moved(Minus(st_added', 1))
  /\ last' = (last \ Slots(st_added, st_added')) \cup {Id(Minus(st_added', 1))}
  /\ st_n' = 0 /\ ppc' = "posted"
  /\ UNCHANGED <<st_state, st_lock, st_pending, st_completed, st_reaped,
                 st_unblock, fits, was_pending, raced, pushed, hwvars, epc>>

PostFull ==
  /\ ppc = "post" /\ st_n > Space
  /\ fits' = (st_n <= Limit - Minus(st_added, st_completed))
  /\ ppc' = "full"
  /\ UNCHANGED <<st_state, st_lock, idxvars, st_n, st_unblock, info,
                 was_pending, raced, pushed, hwvars, epc, last>>

(* sfxge_tx_qreap.                                                         *)
Reap ==
  /\ info' = [i \in DOMAIN info |->
                IF i \in Slots(st_reaped, st_completed) THEN "none" ELSE info[i]]
  /\ st_reaped' = st_completed

(* Reap if that makes room and frees a batch.                              *)
PostReap ==
  /\ ppc = "full"
  /\ IF fits /\ Minus(st_completed, st_reaped) >= Batch
     THEN Reap /\ ppc' = "post"
     ELSE ppc' = "block" /\ UNCHANGED <<info, st_reaped>>
  /\ fits' = FALSE
  /\ UNCHANGED <<st_state, st_lock, st_added, st_pending, st_completed, st_n,
                 st_unblock, was_pending, raced, pushed, hwvars, epc, last>>

(* The store of st_unblock and the load of st_pending, in either order.    *)
LoadEarly ==
  /\ ppc = "block" /\ was_pending = None /\ was_pending' = st_pending
  /\ UNCHANGED <<st_state, st_lock, idxvars, st_n, st_unblock, info, ppc, fits,
                 raced, pushed, hwvars, epc, last>>

(* What the sender loaded is no longer so, and the event thread has seen   *)
(* a queue that is not blocked after its last completion.                  *)
Missed == /\ was_pending \notin {None, st_added}
          /\ st_completed = st_added /\ epc = "idle"

StoreUnblock ==
  /\ ppc = "block" /\ ppc' = "recheck" /\ st_unblock' = "LEVEL1"
  /\ raced' = Missed
  /\ UNCHANGED <<st_state, st_lock, idxvars, st_n, info, fits, was_pending,
                 pushed, hwvars, epc, last>>

(* The test that avoids the race.  The mutation leaves it out.             *)
AllPendingMut == FALSE
AllPending    == st_added = IF was_pending = None THEN st_pending ELSE was_pending

(* Where the two callers of sfxge_tx_qlist_post continue after it blocked: *)
(* the drain ends, sfxge_tx_qunblock goes on to service the list.          *)
Recheck ==
  /\ ppc = "recheck" /\ was_pending' = None
  /\ IF AllPending
     THEN Reap /\ st_unblock' = "NOT_BLOCKED" /\ ppc' = "post"
     ELSE ppc' = "push" /\ UNCHANGED <<st_unblock, info, st_reaped>>
  /\ UNCHANGED <<st_state, st_lock, st_added, st_pending, st_completed, st_n,
                 fits, raced, pushed, hwvars, epc, last>>

(* siena_tx_qpush and ef10_tx_qpush: the doorbell.                         *)
QPush == wptr' = st_added

(* After a post: sfxge_tx_qunblock begins a drain; a drain pushes when it  *)
(* has a batch and goes on.                                                *)
Posted ==
  /\ ppc = "posted" /\ ppc' = "drain"
  /\ IF pushed = None
     THEN pushed' = st_added /\ UNCHANGED wptr
     ELSE IF Minus(st_added, pushed) >= Batch
          THEN QPush /\ pushed' = st_added
          ELSE UNCHANGED <<wptr, pushed>>
  /\ UNCHANGED <<st_state, st_lock, idxvars, st_n, st_unblock, info, fits,
                 was_pending, raced, done, epc, last>>

(* No more packets, or none accepted because the queue is not STARTED.     *)
DrainEnd ==
  /\ ppc = "drain" /\ ppc' = "push"
  /\ UNCHANGED <<st_state, st_lock, idxvars, st_n, st_unblock, info, fits,
                 was_pending, raced, pushed, hwvars, epc, last>>

(* The last push of a drain: nothing when it posted nothing itself.        *)
LastPush == IF pushed \in {None, st_added} THEN UNCHANGED wptr ELSE QPush

DrainPush ==
  /\ ppc = "push" /\ ppc' = "exit"
  /\ LastPush
  /\ UNCHANGED <<st_state, st_lock, idxvars, st_n, st_unblock, info, fits,
                 was_pending, raced, pushed, done, epc, last>>

Unlock ==
  /\ ppc = "exit" /\ ppc' = "idle" /\ st_lock' = "none"
  /\ epc' = (IF st_lock = "evq" THEN "idle" ELSE epc)
  /\ pushed' = None
  /\ UNCHANGED <<st_state, idxvars, st_n, st_unblock, info, fits, was_pending,
                 raced, hwvars, last>>

-----------------------------------------------------------------------------
(* The hardware, and the event thread.                                     *)

HwDone ==
  /\ \E k \in 1..Minus(wptr, done) : done' = Plus(done, k)
  /\ UNCHANGED <<st_state, st_lock, idxvars, st_n, st_unblock, info, postvars,
                 wptr, epc, last>>

(* sfxge_ev_tx: the event names the last descriptor completed.             *)
Delta(id) ==
  LET stop == Id(id + 1)
      cur  == Id(st_pending) IN
  IF stop >= cur THEN stop - cur ELSE NDescs - cur + stop

EvTx ==
  /\ epc = "idle" /\ st_state = "STARTED"
  /\ Minus(st_pending, st_completed) < Batch
  /\ \E k \in 1..Minus(done, st_pending) :
       st_pending' = Plus(st_pending, Delta(Id(st_pending + k - 1)))
  /\ UNCHANGED <<st_state, st_lock, st_added, st_completed, st_reaped, st_n,
                 st_unblock, info, postvars, hwvars, epc, last>>

(* sfxge_tx_qcomplete, at the end of the poll or when a batch is pending:  *)
(* the packets that were mapped are unbound and freed.                     *)
Unbound(a, b) ==
  [i \in DOMAIN info |->
     IF i \in Slots(a, b) /\ info[i] = "map" THEN "unbound" ELSE info[i]]

QComplete ==
  /\ epc = "idle" /\ st_pending # st_completed
  /\ info' = Unbound(st_completed, st_pending)
  /\ st_completed' = st_pending
  /\ epc' = "look"
  /\ UNCHANGED <<st_state, st_lock, st_added, st_pending, st_reaped, st_n,
                 st_unblock, postvars, hwvars, last>>

Look ==
  /\ epc = "look"
  /\ epc' = (IF st_unblock = "NOT_BLOCKED" THEN "idle" ELSE "level")
  /\ UNCHANGED <<st_state, st_lock, idxvars, st_n, st_unblock, info, postvars,
                 hwvars, last>>

(* st_unblock is read again; NOT_BLOCKED is -1, which as an unsigned       *)
(* number is above every level.                                            *)
Low == st_unblock = "NOT_BLOCKED" \/ Minus(st_added, st_completed) <= Level1

LevelTest ==
  /\ epc = "level" /\ epc' = (IF Low THEN "unblock" ELSE "idle")
  /\ UNCHANGED <<st_state, st_lock, idxvars, st_n, st_unblock, info, postvars,
                 hwvars, last>>

(* sfxge_tx_qunblock, to the post of the list left over or to the service. *)
QUnblock ==
  /\ epc = "unblock" /\ st_lock = "none"
  /\ IF st_state # "STARTED"
     THEN epc' = "idle" /\ UNCHANGED <<st_lock, st_unblock, ppc, pushed>>
     ELSE /\ st_lock' = "evq" /\ epc' = "inside"
          /\ IF st_unblock # "NOT_BLOCKED" /\ Low
             THEN st_unblock' = "NOT_BLOCKED" /\ ppc' = "post" /\ pushed' = None
             ELSE /\ ppc' = (IF st_unblock = "NOT_BLOCKED" THEN "drain" ELSE "exit")
                  /\ pushed' = st_added /\ UNCHANGED st_unblock
  /\ UNCHANGED <<st_state, idxvars, st_n, info, fits, was_pending, raced,
                 hwvars, last>>

-----------------------------------------------------------------------------
(* sfxge_tx_qflush (or a flush by the MC), sfxge_tx_qstop under se_lock    *)
(* and st_lock, sfxge_tx_qstart; on EF10 efx_tx_qcreate uses a descriptor. *)
QFlush ==
  /\ st_state = "STARTED" /\ st_lock = "none" /\ st_state' = "FLUSHING"
  /\ UNCHANGED <<st_lock, idxvars, st_n, st_unblock, info, postvars, hwvars,
                 epc, last>>

(* The slots after sfxge_tx_qlist_abort, sfxge_tx_qcomplete and the reap.  *)
Stopped ==
  [i \in DOMAIN info |->
     IF i \in Slots(st_reaped, st_added) \cup {Id(st_added)} THEN "none"
     ELSE info[i]]

QStop ==
  /\ st_state = "FLUSHING" /\ st_lock = "none" /\ epc = "idle"
  /\ st_state' = "INITIALIZED" /\ st_unblock' = "NOT_BLOCKED" /\ st_n' = 0
  /\ st_added' = 0 /\ st_pending' = 0 /\ st_completed' = 0 /\ st_reaped' = 0
  /\ info' = Stopped /\ wptr' = 0 /\ done' = 0 /\ last' = {}
  /\ raced' = FALSE
  /\ UNCHANGED <<st_lock, ppc, fits, was_pending, pushed, epc>>

QStart ==
  /\ st_state = "INITIALIZED" /\ st_lock = "none" /\ st_state' = "STARTED"
  /\ \E d \in {0, 1} :
       /\ st_added' = d /\ st_pending' = d /\ st_completed' = d
       /\ st_reaped' = d /\ wptr' = d /\ done' = d
  /\ UNCHANGED <<st_lock, st_n, st_unblock, info, postvars, epc, last>>

-----------------------------------------------------------------------------
PostStep == \/ PostOk \/ PostFull \/ PostReap \/ StoreUnblock \/ Recheck
            \/ Posted \/ DrainPush \/ Unlock
Event    == EvTx \/ QComplete \/ Look \/ LevelTest

Next ==
  \/ DrainEnter \/ \E n \in 1..MaxFrag : Fragment(n)
  \/ DrainEnd \/ PostStep \/ LoadEarly
  \/ HwDone \/ Event \/ QUnblock \/ QFlush \/ QStop \/ QStart

Spec == Init /\ [][Next]_vars

(* The lock holder runs and its list is finite; the hardware completes     *)
(* what was pushed; the event thread runs and is not kept from st_lock for *)
(* ever.                                                                   *)
FairSpec ==
  /\ Spec
  /\ WF_vars(PostStep) /\ SF_vars(DrainEnd)
  /\ WF_vars(HwDone) /\ WF_vars(Event) /\ SF_vars(QUnblock)

-----------------------------------------------------------------------------
Ctr == 0..(CtrMod - 1)

(* Shape of the state.                                                     *)
TypeOK ==
  /\ st_state \in {"STARTED", "FLUSHING", "INITIALIZED"}
  /\ st_lock \in {"none", "sender", "evq"}
  /\ st_added \in Ctr /\ st_pending \in Ctr /\ st_completed \in Ctr
  /\ st_reaped \in Ctr /\ st_n \in 0..MaxFrag
  /\ st_unblock \in {"NOT_BLOCKED", "LEVEL1"}
  /\ info \in [0..(NDescs - 1) -> Infos]
  /\ ppc \in {"idle", "drain", "post", "posted", "full", "block", "recheck",
              "push", "exit"}
  /\ fits \in BOOLEAN /\ was_pending \in Ctr \cup {None} /\ raced \in BOOLEAN
  /\ pushed \in Ctr \cup {None} /\ wptr \in Ctr /\ done \in Ctr
  /\ epc \in {"idle", "look", "level", "unblock", "inside"}
  /\ last \subseteq 0..(NDescs - 1)

(* The counters stay in the order reaped, completed, pending, done by the  *)
(* hardware, told to it, added, also when they wrap, and the ring never    *)
(* holds more than EFX_TXQ_LIMIT descriptors: nothing is completed that    *)
(* the hardware has not completed, and no slot is reused too early.        *)
IndexOrder ==
  LET off(x) == Minus(x, st_reaped) IN
  /\ TypeOK
  /\ off(st_completed) <= off(st_pending) /\ off(st_pending) <= off(done)
  /\ off(done) <= off(wptr) /\ off(wptr) <= off(st_added)
  /\ off(st_added) <= Limit

(* The packet of every descriptor in the ring is found at its last one     *)
(* until it is completed, unbound at once when it is, and every other slot *)
(* is empty: the assertions of fragment, post, reap and qcomplete on       *)
(* st_stmp, st_stbp and st_mp hold.                                        *)
SlotsAgree ==
  \A i \in DOMAIN info :
    /\ i \in Slots(st_reaped, st_completed) =>
         info[i] # "map" /\ (info[i] # "none" <=> i \in last)
    /\ i \in Slots(st_completed, st_added) =>
         info[i] # "unbound" /\ (info[i] # "none" <=> i \in last)
    /\ i \notin Slots(st_reaped, st_added) =>
         (info[i] # "none" <=> st_n > 0 /\ i = Id(st_added))

(* "Avoid a race with completion interrupt handling that could leave the   *)
(* queue blocked": a blocked queue is unblocked in the end, also when its  *)
(* last descriptor was completed before st_unblock was stored, so that no  *)
(* completion is left to come.  Without a barrier the race is not always   *)
(* avoided: the exception is a load that passed the store of st_unblock    *)
(* when both missed the last completion.                                   *)
Unblocks ==
  st_unblock # "NOT_BLOCKED" /\ ~raced
    ~> (st_unblock = "NOT_BLOCKED" \/ st_state # "STARTED")
=============================================================================
