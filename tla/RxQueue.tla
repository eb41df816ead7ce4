------------------------------ MODULE RxQueue ------------------------------
(***************************************************************************)
(* One receive queue (sfxge_rx.c, efx_rx.c, ef10_rx.c): the descriptor     *)
(* ring, the pool of free packet buffers, the packets on loan to the       *)
(* network stack, which come back through the free routine of their        *)
(* message block on any CPU and without se_lock, and the flows in which    *)
(* TCP segments wait to be coalesced.                                      *)
(*                                                                         *)
(* The thread in sfxge_ev_qpoll holds se_lock; everything else on the ring *)
(* and the get list waits for it.  The put lists, one per CPU with a lock  *)
(* each, are one list here: a packet put on a list that the swizzle has    *)
(* passed is one put after the swizzle.                                    *)
(***************************************************************************)
EXTENDS Integers, FiniteSets, SequencesExt, FiniteSetsExt

CONSTANTS
  Pkts,        \* the sfxge_rx_packet_t structures there is memory for
  NDescs,      \* s_rxq_size
  Limit,       \* EFX_RXQ_LIMIT(s_rxq_size)
  WptrAlign,   \* EF10_RX_WPTR_ALIGN on EF10, 1 on Siena
  CtrMod,      \* 2 ^ the width of the counters
  HiWat, LoWat,\* sr_hiwat, sr_lowat
  Batch,       \* SFXGE_RX_BATCH
  Sizes,       \* s_rx_buffer_size - s_rx_buffer_align for the MTUs in use
  Coalesce,    \* s_rx_coalesce_mode # SFXGE_RX_COALESCE_OFF
  MaxStops,    \* bound on the number of stops
  MaxFails     \* bound on the packets that get no new message block

NoPkt == "nopkt"

ASSUME RxQueueAssumption ==
  /\ NDescs \in Nat \ {0} /\ Limit \in 1..(NDescs - 1)
  /\ WptrAlign \in 1..Limit /\ NDescs % WptrAlign = 0
  /\ CtrMod \in Nat /\ CtrMod > NDescs /\ CtrMod % NDescs = 0
  /\ HiWat \in 1..Limit /\ LoWat \in 0..HiWat /\ Batch \in Nat \ {0}
  /\ Sizes \subseteq Nat \ {0} /\ Sizes # {}
  /\ NoPkt \notin Pkts /\ IsFiniteSet(Pkts)
  /\ Coalesce \in BOOLEAN /\ MaxStops \in Nat /\ MaxFails \in Nat

VARIABLES
  sr_state,    \* STARTED, INITIALIZED, UNINITIALIZED, or on the way from one
               \* to the next: STOPPING (waiting for the flush), DESTROYING
  sr_added, sr_pushed, sr_pending, sr_completed,
  filled,      \* descriptors the hardware has received into
  sr_srpp,     \* the packet at each slot
  put, get,    \* the put lists; the get list srfpp_get, first to be used first
  srfpp_count, srfpp_loaned, srfpp_min,
  size,        \* srp_mblksize of each packet, 0 for one not allocated
  mblksize,    \* the size wanted since the last start
  flows,       \* packets held in flows
  up,          \* packets in the chain sr_mp, to be passed up
  stack,       \* packets on loan to the network stack
  epc,         \* progress of the poll, which holds se_lock unless "idle"
  eop,         \* its last completion
  stops,
  lost         \* history: packets freed for want of a message block

idxvars  == <<sr_added, sr_pushed, sr_pending, sr_completed, filled>>
loanvars == <<put, size, lost>>
poolvars == <<get, srfpp_count, srfpp_loaned, srfpp_min, loanvars>>
vars == <<sr_state, idxvars, sr_srpp, poolvars, mblksize, flows, up, stack,
          epc, eop, stops>>

(* Arithmetic on the counters, which wrap.                                 *)
Minus(a, b) == (a - b) % CtrMod
Plus(a, b)  == (a + b) % CtrMod
Id(a)       == a % NDescs
Slots(a, b) == {Id(a + k) : k \in 0..(Minus(b, a) - 1)}

Init ==
  /\ sr_state = "INITIALIZED"
  /\ sr_added = 0 /\ sr_pushed = 0 /\ sr_pending = 0 /\ sr_completed = 0
  /\ filled = 0 /\ sr_srpp = [i \in 0..(NDescs - 1) |-> NoPkt]
  /\ put = <<>> /\ get = <<>>
  /\ srfpp_count = 0 /\ srfpp_loaned = 0 /\ srfpp_min = 0
  /\ size = [p \in Pkts |-> 0] /\ mblksize \in Sizes
  /\ flows = {} /\ up = {} /\ stack = {}
  /\ epc = "idle" /\ eop = FALSE /\ stops = 0 /\ lost = 0

-----------------------------------------------------------------------------
(* The free packet pool.                                                   *)

(* sfxge_rx_qpacket_destroy.                                               *)
Destroy(S) == size' = [p \in Pkts |-> IF p \in S THEN 0 ELSE size[p]]

(* sfxge_rx_qpacket_free of packets that are to be recycled: a packet for  *)
(* which desballoc fails is freed, and stays counted in srfpp_loaned.      *)
Recycle(S) ==
  \E F \in SUBSET S :
    /\ lost + Cardinality(F) <= MaxFails /\ lost' = lost + Cardinality(F)
    /\ put' = put \o SetToSeq(S \ F) /\ Destroy(F)

(* siena_rx_qpush and ef10_rx_qpush: on EF10 whole groups of descriptors.  *)
(* The mutation pushes only when the last group is complete.               *)
QPushMut(a) == IF a % WptrAlign = 0 THEN a ELSE sr_pushed
QPush(a)    == a - (a % WptrAlign)

(* The descriptors a refill may add.                                       *)
Todo(target) == Min({Limit - Minus(sr_added, sr_completed), target})

Posted(ps) ==
  [i \in DOMAIN sr_srpp |->
     LET k == 1 + ((i - Id(sr_added)) % NDescs) IN
     IF k <= Len(ps) THEN ps[k] ELSE sr_srpp[i]]

(* sfxge_rx_qfpp_swizzle: what came back is no longer on loan.  The        *)
(* mutation forgets to count it.                                           *)
LoanedMut == srfpp_loaned
Loaned    == srfpp_loaned - Len(put)

(* "The MTU may have changed since the packet was allocated".  The         *)
(* mutation does not look.                                                 *)
FitsMut(p) == TRUE
Fits(p)    == size[p] = mblksize

(* The packets of ps that fit, in their order.                             *)
Fitting(ps) ==
  LET at      == {i \in DOMAIN ps : Fits(ps[i])}
      rank(i) == Cardinality({j \in at : j <= i})
  IN  [k \in 1..Cardinality(at) |-> ps[CHOOSE i \in at : rank(i) = k]]

(* sfxge_rx_qrefill: swizzle, then the head of the get list is posted,     *)
(* except for packets of another size, which are freed.  Its result as a   *)
(* record.                                                                 *)
Refilled ==
  LET n     == IF sr_state = "STARTED" THEN Todo(Limit) ELSE 0
      pool  == put \o get
      taken == SubSeq(pool, 1, Min({n, Len(pool)}))
      good  == Fitting(taken)
      count == srfpp_count + Len(put) - Len(taken) IN
  IF n = 0
  THEN [put |-> put, get |-> get, count |-> srfpp_count,
        loaned |-> srfpp_loaned, min |-> Min({srfpp_min, srfpp_count}),
        stale |-> {}, srpp |-> sr_srpp, added |-> sr_added,
        pushed |-> sr_pushed]
  ELSE [put |-> <<>>, get |-> SubSeq(pool, Len(taken) + 1, Len(pool)),
        count |-> count, loaned |-> Loaned,
        min |-> Min({srfpp_min, count}),
        stale |-> Range(taken) \ Range(good), srpp |-> Posted(good),
        added |-> Plus(sr_added, Len(good)),
        pushed |-> QPush(Plus(sr_added, Len(good)))]

QRefill ==
  \E r \in {Refilled} :
    /\ put' = r.put /\ get' = r.get /\ srfpp_count' = r.count
    /\ srfpp_loaned' = r.loaned /\ srfpp_min' = r.min /\ Destroy(r.stale)
    /\ sr_srpp' = r.srpp /\ sr_added' = r.added /\ sr_pushed' = r.pushed
    /\ UNCHANGED lost

(* sfxge_rx_qfill: new packets, until one cannot be created.               *)
QFill(target, least) ==
  LET free == {p \in Pkts : size[p] = 0}
      most == Min({Todo(target), Cardinality(free)}) IN
  \E k \in Min({least, most})..most :
       LET ps == SubSeq(SetToSeq(free), 1, k) IN
       /\ size' = [p \in Pkts |-> IF p \in Range(ps) THEN mblksize ELSE size[p]]
       /\ sr_srpp' = Posted(ps)
       /\ sr_added' = Plus(sr_added, k) /\ sr_pushed' = QPush(sr_added')

(* The stack frees a message block, on any CPU.                            *)
QPacketFree(p) ==
  /\ p \in stack /\ stack' = stack \ {p} /\ Recycle({p})
  /\ UNCHANGED <<sr_state, idxvars, sr_srpp, get, srfpp_count, srfpp_loaned,
                 srfpp_min, mblksize, flows, up, epc, eop, stops>>

-----------------------------------------------------------------------------
(* The poll.                                                               *)

HwRx ==
  /\ sr_state = "STARTED" /\ filled # sr_pushed /\ filled' = Plus(filled, 1)
  /\ UNCHANGED <<sr_state, sr_added, sr_pushed, sr_pending, sr_completed,
                 sr_srpp, poolvars, mblksize, flows, up, stack, epc, eop, stops>>

(* sfxge_ev_rx, for one packet or several; a batch is completed at once.   *)
EvRx ==
  /\ epc \in {"idle", "poll"} /\ sr_state = "STARTED"
  /\ \E k \in 1..Minus(filled, sr_pending) : sr_pending' = Plus(sr_pending, k)
  /\ epc' = (IF Minus(sr_pending', sr_completed) >= Batch THEN "complete"
             ELSE "poll")
  /\ UNCHANGED <<sr_state, sr_added, sr_pushed, sr_completed, filled, sr_srpp,
                 poolvars, mblksize, flows, up, stack, eop, stops>>

(* sfxge_ev_qcomplete at the end of the poll: nothing for a queue without  *)
(* pending packets.                                                        *)
PollEnd ==
  /\ epc = "poll"
  /\ IF sr_pending # sr_completed THEN epc' = "complete" /\ eop' = TRUE
     ELSE epc' = "idle" /\ UNCHANGED eop
  /\ UNCHANGED <<sr_state, idxvars, sr_srpp, poolvars, mblksize, flows, up,
                 stack, stops>>

Done == {sr_srpp[i] : i \in Slots(sr_completed, sr_pending)}

(* sfxge_rx_qcomplete: bad packets are discarded, the others passed up or  *)
(* held in a flow; no flow is held after the end of the poll.  All of them *)
(* count as loaned, the discarded ones too.                                *)
Loan == srfpp_loaned + Cardinality(Done)

QComplete ==
  /\ epc = "complete" /\ epc' = "deliver"
  /\ \E good \in SUBSET Done :
       \E held \in (IF Coalesce /\ ~eop THEN SUBSET (flows \cup good) ELSE {{}}) :
         /\ flows' = held /\ up' = (flows \cup good) \ held
         /\ Recycle(Done \ good)
         /\ srfpp_loaned' = Loan
  /\ sr_srpp' = [i \in DOMAIN sr_srpp |->
       IF i \in Slots(sr_completed, sr_pending) THEN NoPkt ELSE sr_srpp[i]]
  /\ sr_completed' = sr_pending
  /\ UNCHANGED <<sr_state, sr_added, sr_pushed, sr_pending, filled, get,
                 srfpp_count, srfpp_min, mblksize, stack, eop, stops>>

(* "Try to refill ASAP".                                                   *)
Level == Minus(sr_pushed, sr_completed)

RefillEmpty ==
  /\ epc = "deliver" /\ epc' = "post"
  /\ IF up # {} /\ Level = 0 THEN QRefill
     ELSE UNCHANGED <<poolvars, sr_srpp, sr_added, sr_pushed>>
  /\ UNCHANGED <<sr_state, sr_pending, sr_completed, filled, mblksize, flows,
                 up, stack, eop, stops>>

(* The first message of the chain, several packets if it was coalesced, is *)
(* kept back and freed when the ring is still empty.                       *)
Kept == IF up = {} \/ Level # 0 THEN {{}}
        ELSE {S \in SUBSET up : Cardinality(S) = 1 \/ (Coalesce /\ S # {})}

Post ==
  /\ epc = "post" /\ epc' = "topup" /\ up' = {}
  /\ \E S \in Kept : Recycle(S) /\ stack' = stack \cup (up \ S)
  /\ UNCHANGED <<sr_state, idxvars, sr_srpp, get, srfpp_count, srfpp_loaned,
                 srfpp_min, mblksize, flows, eop, stops>>

(* "Top up the queue if necessary".                                        *)
TopUp ==
  /\ epc = "topup" /\ epc' = "fill"
  /\ IF Level < HiWat THEN QRefill
     ELSE UNCHANGED <<poolvars, sr_srpp, sr_added, sr_pushed>>
  /\ UNCHANGED <<sr_state, sr_pending, sr_completed, filled, mblksize, flows,
                 up, stack, eop, stops>>

(* Its second half, and the return to sfxge_ev_qpoll.                      *)
FillLow ==
  /\ epc = "fill" /\ epc' = (IF eop THEN "idle" ELSE "poll") /\ eop' = FALSE
  /\ IF Minus(sr_added, sr_completed) < LoWat THEN QFill(Limit, 0)
     ELSE UNCHANGED <<size, sr_srpp, sr_added, sr_pushed>>
  /\ UNCHANGED <<sr_state, sr_pending, sr_completed, filled, put, get,
                 srfpp_count, srfpp_loaned, srfpp_min, mblksize, flows, up,
                 stack, stops, lost>>

(* sfxge_rx_qfpp_trim, on the software event of the poll timer: refill,    *)
(* then free what the pool never needed since the last trim (srfpp_lowat   *)
(* is 0 without preallocation).                                            *)
QfppTrim ==
  /\ epc = "idle" /\ sr_state = "STARTED"
  /\ \E r \in {Refilled} :
       LET keep == Len(r.get) - r.min IN
       /\ put' = r.put /\ srfpp_loaned' = r.loaned
       /\ sr_srpp' = r.srpp /\ sr_added' = r.added /\ sr_pushed' = r.pushed
       /\ get' = SubSeq(r.get, 1, keep)
       /\ Destroy(r.stale \cup Range(SubSeq(r.get, keep + 1, Len(r.get))))
       /\ srfpp_count' = r.count - r.min /\ srfpp_min' = srfpp_count'
  /\ UNCHANGED <<sr_state, sr_pending, sr_completed, filled, mblksize, flows,
                 up, stack, epc, eop, stops, lost>>

(* The same for an event handled after the stop has begun.                 *)
LateTrim ==
  /\ epc = "idle" /\ sr_state = "STOPPING" /\ srfpp_min' = srfpp_count
  /\ UNCHANGED <<sr_state, idxvars, sr_srpp, put, get, srfpp_count,
                 srfpp_loaned, size, mblksize, flows, up, stack, epc, eop,
                 stops, lost>>

-----------------------------------------------------------------------------
(* Start, stop and tear-down.                                              *)

(* sfxge_rx_qstart takes what the pool has; fewer than a batch are made up *)
(* with new packets.  There is assumed to be memory for enough of them     *)
(* that the hardware gets one.                                             *)
QStart ==
  /\ sr_state = "INITIALIZED" /\ epc = "idle"
  /\ mblksize' \in Sizes /\ sr_state' = "STARTED" /\ epc' = "startrefill"
  /\ UNCHANGED <<idxvars, sr_srpp, poolvars, flows, up, stack, eop, stops>>

StartRefill ==
  /\ epc = "startrefill" /\ epc' = "startfill"
  /\ QRefill
  /\ UNCHANGED <<sr_state, sr_pending, sr_completed, filled, mblksize, flows,
                 up, stack, eop, stops>>

StartFill ==
  /\ epc = "startfill" /\ epc' = "idle"
  /\ LET level == Minus(sr_added, sr_completed) IN
     IF level < Batch
     THEN QFill(Batch, IF level < WptrAlign THEN WptrAlign - level ELSE 0)
     ELSE UNCHANGED <<size, sr_srpp, sr_added, sr_pushed>>
  /\ UNCHANGED <<sr_state, sr_pending, sr_completed, filled, put, get,
                 srfpp_count, srfpp_loaned, srfpp_min, mblksize, flows, up,
                 stack, eop, stops, lost>>

(* sfxge_rx_qstop waits for the flush without se_lock.                     *)
QStop ==
  /\ sr_state = "STARTED" /\ epc = "idle" /\ stops < MaxStops
  /\ sr_state' = "STOPPING" /\ stops' = stops + 1
  /\ UNCHANGED <<idxvars, sr_srpp, poolvars, mblksize, flows, up, stack, epc,
                 eop>>

(* Everything in the ring is completed and discarded, flows are passed up, *)
(* except for the first message when sr_pushed equals sr_completed.        *)
QStopped ==
  /\ sr_state = "STOPPING" /\ epc = "idle" /\ sr_state' = "INITIALIZED"
  /\ LET ring == {sr_srpp[i] : i \in Slots(sr_completed, sr_added)} IN
     \E S \in (IF sr_pushed # sr_added \/ flows = {} THEN {{}}
               ELSE SUBSET flows \ {{}}) :
       /\ Recycle(ring \cup S) /\ stack' = stack \cup (flows \ S)
       /\ srfpp_loaned' = srfpp_loaned + Cardinality(ring)
  /\ flows' = {}
  /\ sr_srpp' = [i \in DOMAIN sr_srpp |-> NoPkt]
  /\ sr_added' = 0 /\ sr_pushed' = 0 /\ sr_pending' = 0 /\ sr_completed' = 0
  /\ filled' = 0
  /\ UNCHANGED <<get, srfpp_count, srfpp_min, mblksize, up, epc, eop, stops>>

(* sfxge_rx_loaned, called by sfxge_can_destroy: no tear-down while        *)
(* packets are on loan.  A call that would change nothing is left out.     *)
AllBack == Loaned = 0

CanDestroy ==
  /\ sr_state = "INITIALIZED" /\ epc = "idle"
  /\ put # <<>> \/ Loaned = 0
  /\ put' = <<>> /\ get' = put \o get
  /\ srfpp_loaned' = Loaned /\ srfpp_count' = srfpp_count + Len(put)
  /\ sr_state' = (IF AllBack THEN "DESTROYING" ELSE sr_state)
  /\ UNCHANGED <<idxvars, sr_srpp, srfpp_min, size, mblksize, flows, up, stack,
                 epc, eop, stops, lost>>

(* sfxge_rx_qfini with sfxge_rx_qfpp_empty, and sfxge_rx_qinit.            *)
QFini ==
  /\ sr_state = "DESTROYING" /\ sr_state' = "UNINITIALIZED"
  /\ put' = <<>> /\ get' = <<>> /\ Destroy(Range(put \o get))
  /\ srfpp_loaned' = Loaned /\ srfpp_min' = 0
  /\ srfpp_count' = srfpp_count + Len(put) - Len(put \o get)
  /\ UNCHANGED <<idxvars, sr_srpp, mblksize, flows, up, stack, epc, eop, stops,
                 lost>>

QInit ==
  /\ sr_state = "UNINITIALIZED" /\ sr_state' = "INITIALIZED"
  /\ UNCHANGED <<idxvars, sr_srpp, poolvars, mblksize, flows, up, stack, epc,
                 eop, stops>>

-----------------------------------------------------------------------------
PollStep == \/ PollEnd \/ QComplete \/ RefillEmpty \/ Post \/ TopUp \/ FillLow
            \/ StartRefill \/ StartFill

Next ==
  \/ HwRx \/ EvRx \/ PollStep \/ QfppTrim \/ LateTrim
  \/ \E p \in Pkts : QPacketFree(p)
  \/ QStart \/ QStop \/ QStopped \/ CanDestroy \/ QFini \/ QInit

Spec == Init /\ [][Next]_vars

(* The poll runs to its end, the timer keeps posting its event and the     *)
(* stack returns every packet.                                             *)
FairSpec ==
  /\ Spec
  /\ WF_vars(PollStep) /\ WF_vars(QfppTrim)
  /\ \A p \in Pkts : WF_vars(QPacketFree(p))

-----------------------------------------------------------------------------
Ctr == 0..(CtrMod - 1)

(* Shape of the state.                                                     *)
TypeOK ==
  /\ sr_state \in {"STARTED", "STOPPING", "INITIALIZED", "DESTROYING",
                   "UNINITIALIZED"}
  /\ sr_added \in Ctr /\ sr_pushed \in Ctr /\ sr_pending \in Ctr
  /\ sr_completed \in Ctr /\ filled \in Ctr
  /\ sr_srpp \in [0..(NDescs - 1) -> Pkts \cup {NoPkt}]
  /\ put \in Seq(Pkts) /\ get \in Seq(Pkts)
  /\ srfpp_count \in Nat /\ srfpp_loaned \in Nat /\ srfpp_min \in Nat
  /\ size \in [Pkts -> Sizes \cup {0}] /\ mblksize \in Sizes
  /\ flows \subseteq Pkts /\ up \subseteq Pkts /\ stack \subseteq Pkts
  /\ epc \in {"idle", "poll", "complete", "deliver", "post", "topup", "fill",
              "startrefill", "startfill"}
  /\ eop \in BOOLEAN /\ stops \in 0..MaxStops /\ lost \in 0..MaxFails

(* A slot holds a packet exactly while its descriptor is outstanding, and  *)
(* its buffer has the size the hardware is told, whatever came back from   *)
(* before a change of MTU; the indices stay in order, wrapping included.   *)
RingHolds ==
  LET off(x) == Minus(x, sr_completed) IN
  /\ TypeOK
  /\ off(sr_pending) <= off(filled) /\ off(filled) <= off(sr_pushed)
  /\ off(sr_pushed) <= off(sr_added) /\ off(sr_added) <= Limit
  /\ \A i \in DOMAIN sr_srpp :
       IF i \in Slots(sr_completed, sr_added)
       THEN sr_srpp[i] # NoPkt /\ size[sr_srpp[i]] = mblksize
       ELSE sr_srpp[i] = NoPkt

Times(p, seq) == Cardinality({i \in DOMAIN seq : seq[i] = p})

(* A buffer belongs to the hardware, the pool, a flow or the stack, never  *)
(* to two of them and never to none.  The counters on which trimming and   *)
(* tear-down rely say how many are where; srfpp_loaned also counts the     *)
(* packets lost so far, so that it is too large by them and never too      *)
(* small: when the queue is torn down no packet is left, in use or with    *)
(* the stack that would free it into a pool that is gone                   *)
(* (s_rx_pkt_mem_alloc, sfxge_rx_fini).                                    *)
OneOwner ==
  /\ \A p \in Pkts :
       Cardinality({i \in DOMAIN sr_srpp : sr_srpp[i] = p})
       + Times(p, put) + Times(p, get)
       + Cardinality({S \in {<<1, flows>>, <<2, up>>, <<3, stack>>} : p \in S[2]})
       = IF size[p] = 0 THEN 0 ELSE 1
  /\ srfpp_count = Len(get) /\ srfpp_min <= srfpp_count
  /\ srfpp_loaned = Len(put) + Cardinality(flows \cup up \cup stack) + lost
  /\ sr_state = "UNINITIALIZED" => \A p \in Pkts : size[p] = 0

(* A running queue whose ring is empty gets descriptors again, although no *)
(* receive event can come to refill it, as long as the stack returns what  *)
(* it has; unless packets were lost and those left do not make a group.    *)
Starved == lost # 0 /\ Cardinality({p \in Pkts : size[p] = mblksize}) < WptrAlign

RingRefilled ==
  (sr_state = "STARTED" /\ Level = 0) ~>
    (Level # 0 \/ sr_state # "STARTED" \/ Starved)
=============================================================================
