------------------------------- MODULE TxDpl -------------------------------
(***************************************************************************)
(* The deferred packet list (DPL) of one transmit queue (sfxge_tx.c).      *)
(* A sender that gets st_lock appends its packet to the get list and       *)
(* services the list; one that does not pushes the packet on the put list  *)
(* with compare-and-swap and leaves it to the lock holder, who looks at    *)
(* the put list again after it has dropped the lock.                       *)
(*                                                                         *)
(* The kstat of the queue has the same lock (ks_lock): a reader holds it   *)
(* while the statistics are copied and drops it without servicing lists.   *)
(*                                                                         *)
(* The descriptor ring is kept abstract: sfxge_tx_qlist_post either posts  *)
(* a packet or leaves it in the fragment list and blocks the queue, which  *)
(* it does only while descriptors are in flight; the event thread, which   *)
(* holds se_lock, counts completions and unblocks the queue, at the latest *)
(* when nothing is in flight.  Posted descriptors reach the hardware with  *)
(* the doorbell, which only sfxge_tx_qdpl_drain writes.  Packets are taken *)
(* to be small: what SFXGE_TXQ_UNBLOCK_LEVEL1 leaves free, three quarters  *)
(* of the ring, always has room for the one in the fragment list.          *)
(***************************************************************************)
EXTENDS Integers, FiniteSets, SequencesExt

CONSTANTS
  Senders,      \* threads calling sfxge_tx_packet_add
  Pkts,         \* the sfxge_tx_packet_t structures there is memory for
  GetLimit,     \* get_pkt_limit
  PutLimit,     \* put_pkt_limit
  PoolMax,      \* SFXGE_TX_FPP_MAX
  RingSize,     \* bound on the packets in the ring
  TxBatch,      \* SFXGE_TX_BATCH, in packets
  MaxSend,      \* bound on the messages of one sender
  MaxStops,     \* bound on the number of stops
  KstatReads,   \* is the kstat of the queue read?
  MayReject,    \* may fragmenting fail (ENOMEM, headers unfit for LSO)?
  CreateMayFail \* may kmem_cache_alloc of a packet structure fail?

NoThread == "nothread"
NoPkt    == "nopkt"
Evq      == "evq"        \* the thread in sfxge_ev_qpoll, holding se_lock
Kstat    == "kstat"      \* a reader of the kstat
Agents   == Senders \cup {Evq}

ASSUME TxDplAssumption ==
  /\ {NoThread, Evq, Kstat} \cap Senders = {} /\ NoPkt \notin Pkts
  /\ GetLimit \in Nat \ {0} /\ PutLimit \in Nat \ {0} /\ PoolMax \in Nat
  /\ RingSize \in Nat \ {0} /\ TxBatch \in Nat \ {0} /\ MaxSend \in Nat /\ MaxStops \in Nat
  /\ KstatReads \in BOOLEAN /\ MayReject \in BOOLEAN /\ CreateMayFail \in BOOLEAN

VARIABLES
  st_lock,      \* holder of st_lock
  st_state,     \* st_state; FLUSHING stands for its three FLUSH values
  s_started,    \* sp->s_state = SFXGE_STARTED
  std_put,      \* the put list, newest first
  std_get,      \* the get list, oldest first
  std_count,    \* its length, written at the end of a drain
  stp,          \* contents of each structure: message and stp_dpl_put_len
  st_fpp,       \* the free packet pool
  cache,        \* structures not allocated
  frag,         \* the message in the fragment list (st_n # 0), or NoMsg
  blocked,      \* st_unblock # SFXGE_TXQ_NOT_BLOCKED
  np,           \* posted packets not yet pushed to the hardware
  dn,           \* those of the drain under way (st_added - pushed)
  hw, ev, pend, \* pushed packets: in the hardware, completed by it without
                \* the event handled, handled (st_pending) but not completed
  tpc,          \* progress of every thread
  mine, old,    \* each sender's packet, and the head of the put list it read
  nxt,          \* number of the message a sender is sending or will send
  woken,        \* mac_tx_update was called since the sender's call began
  stops,
  missed,       \* history: who left a sender or its packets waiting last,
                \* "reader" of the kstat or stale "count"; not looked at by the code
  sent          \* history: number of the last message posted, by sender

listvars == <<std_put, std_get, std_count, stp, st_fpp, cache>>
ringvars == <<frag, blocked, np, dn, hw, ev, pend, sent>>
sendvars == <<mine, old, nxt, woken>>
lifevars == <<st_state, s_started, stops, missed>>
vars     == <<st_lock, listvars, ringvars, sendvars, lifevars, tpc>>

NoMsg == [src |-> NoThread, num |-> 0]
Empty == [msg |-> NoMsg, put_len |-> 0]

Init ==
  /\ st_lock = NoThread /\ st_state = "STARTED" /\ s_started = TRUE
  /\ std_put = <<>> /\ std_get = <<>> /\ std_count = 0
  /\ stp = [p \in Pkts |-> Empty] /\ st_fpp = <<>> /\ cache = Pkts
  /\ frag = NoMsg /\ blocked = FALSE /\ np = 0 /\ dn = 0 /\ hw = 0 /\ ev = 0 /\ pend = 0
  /\ tpc = [a \in Agents |-> "idle"]
  /\ mine = [s \in Senders |-> NoPkt] /\ old = [s \in Senders |-> NoPkt]
  /\ nxt = [s \in Senders |-> 1] /\ woken = [s \in Senders |-> FALSE]
  /\ stops = 0 /\ missed = {} /\ sent = [s \in Senders |-> 0]

Goto(a, l) == tpc' = [tpc EXCEPT ![a] = l]

-----------------------------------------------------------------------------
(* sfxge_tx_packet_add.                                                    *)

(* s_state is read without a lock; a packet refused here, also one whose   *)
(* headers do not suit LSO, is freed.                                      *)
PacketAdd(s) ==
  /\ tpc[s] = "idle" /\ nxt[s] <= MaxSend
  /\ \/ /\ s_started
        /\ Goto(s, "try") /\ woken' = [woken EXCEPT ![s] = FALSE]
        /\ UNCHANGED nxt
     \/ /\ ~s_started \/ MayReject
        /\ nxt' = [nxt EXCEPT ![s] = @ + 1] /\ UNCHANGED <<tpc, woken>>
  /\ UNCHANGED <<st_lock, listvars, ringvars, lifevars, mine, old>>

Fill(s, p) == /\ stp' = [stp EXCEPT ![p] =
                         [msg |-> [src |-> s, num |-> nxt[s]], put_len |-> 0]]
              /\ mine' = [mine EXCEPT ![s] = p]

TryEnter(s) ==
  /\ tpc[s] = "try" /\ Goto(s, "alloc")
  /\ st_lock' = IF st_lock = NoThread THEN s ELSE st_lock
  /\ UNCHANGED <<listvars, ringvars, lifevars, sendvars>>

(* A structure from the pool (only under the lock) or from the cache.      *)
FromPool(s) == st_lock = s /\ st_fpp # <<>>

(* Free structures differ only in that a sender may still hold the address *)
(* of one: any of those, or one of the others, may be allocated.           *)
Allocatable ==
  LET stale == cache \cap Range(old) IN
  stale \cup (IF cache = stale THEN {} ELSE {CHOOSE p \in cache \ stale : TRUE})

PacketCreate(s) ==
  /\ tpc[s] = "alloc" /\ Goto(s, IF st_lock = s THEN "add" ELSE "read")
  /\ IF FromPool(s)
     THEN Fill(s, Head(st_fpp)) /\ st_fpp' = Tail(st_fpp) /\ UNCHANGED cache
     ELSE \E p \in Allocatable :
            Fill(s, p) /\ cache' = cache \ {p} /\ UNCHANGED st_fpp
  /\ UNCHANGED <<st_lock, std_put, std_get, std_count, ringvars, lifevars, old,
                 nxt, woken>>

(* sfxge_tx_packet_create failed: label fail3.                             *)
CreateFail(s) ==
  /\ tpc[s] = "alloc" /\ Goto(s, "enospc")
  /\ ~FromPool(s) /\ (CreateMayFail \/ cache = {})
  /\ st_lock' = IF st_lock = s THEN NoThread ELSE st_lock
  /\ UNCHANGED <<listvars, ringvars, lifevars, sendvars>>

(* sfxge_tx_qdpl_swizzle: the whole put list, reversed, goes to the end of *)
(* the get list, unless that is at its limit.  The mutation forgets to     *)
(* reverse it.                                                             *)
SwizzledMut == IF std_count >= GetLimit THEN std_get ELSE std_get \o std_put
Swizzled    == IF std_count >= GetLimit THEN std_get
               ELSE std_get \o Reverse(std_put)
PutAfter    == IF std_count >= GetLimit THEN std_put ELSE <<>>

(* What the locked sfxge_tx_qdpl_add makes of the get list.                *)
WithMine(s) == Append(Swizzled, mine[s])

Destroy(ps) == /\ stp' = [p \in Pkts |-> IF p \in ps THEN Empty ELSE stp[p]]
               /\ cache' = cache \cup ps

AddLocked(s) ==
  /\ tpc[s] = "add"
  /\ IF std_count >= GetLimit
     THEN /\ Goto(s, "enospc") /\ st_lock' = NoThread /\ Destroy({mine[s]})
          /\ UNCHANGED <<std_put, std_get, std_count>>
     ELSE /\ Goto(s, "service") /\ std_get' = WithMine(s)
          /\ std_count' = Len(std_get') /\ std_put' = PutAfter
          /\ UNCHANGED <<st_lock, stp, cache>>
  /\ mine' = [mine EXCEPT ![s] = NoPkt]
  /\ UNCHANGED <<st_fpp, ringvars, lifevars, old, nxt, woken>>

(* The unlocked sfxge_tx_qdpl_add: read the head, read its length, CAS.    *)
ReadPut(s) ==
  /\ tpc[s] = "read" /\ Goto(s, "len")
  /\ old' = [old EXCEPT ![s] = IF std_put = <<>> THEN NoPkt ELSE Head(std_put)]
  /\ UNCHANGED <<st_lock, listvars, ringvars, lifevars, mine, nxt, woken>>

ReadLen(s) ==
  /\ tpc[s] = "len"
  /\ LET len == IF old[s] = NoPkt THEN 1 ELSE stp[old[s]].put_len + 1 IN
     IF len >= PutLimit
     THEN /\ Goto(s, "enospc") /\ Destroy({mine[s]})
          /\ mine' = [mine EXCEPT ![s] = NoPkt] /\ old' = [old EXCEPT ![s] = NoPkt]
     ELSE /\ Goto(s, "cas") /\ stp' = [stp EXCEPT ![mine[s]].put_len = len]
          /\ UNCHANGED <<mine, old, cache>>
  /\ UNCHANGED <<st_lock, std_put, std_get, std_count, st_fpp, ringvars,
                 lifevars, nxt, woken>>

(* atomic_cas_ulong; it compares the pointer only.                         *)
CasSucceeds(s) == old[s] = IF std_put = <<>> THEN NoPkt ELSE Head(std_put)

Cas(s) ==
  /\ tpc[s] = "cas"
  /\ IF CasSucceeds(s)
     THEN /\ Goto(s, "retry")
          /\ std_put' = <<mine[s]>> \o std_put
          /\ mine' = [mine EXCEPT ![s] = NoPkt]
     ELSE Goto(s, "read") /\ UNCHANGED <<std_put, mine>>
  /\ old' = [old EXCEPT ![s] = NoPkt]
  /\ UNCHANGED <<st_lock, std_get, std_count, stp, st_fpp, cache, ringvars,
                 lifevars, nxt, woken>>

(* packet_add returned 0: the next message.                                *)
Accepted(s) == Goto(s, "idle") /\ nxt' = [nxt EXCEPT ![s] = @ + 1]

(* A packet is left behind if the holder of the lock will not service it.  *)
LeaveIt == missed' = IF st_lock = Kstat THEN missed \cup {"reader"} ELSE missed

Retry(s) ==
  /\ tpc[s] = "retry"
  /\ IF st_lock = NoThread
     THEN st_lock' = s /\ Goto(s, "service") /\ UNCHANGED <<nxt, missed>>
     ELSE Accepted(s) /\ LeaveIt /\ UNCHANGED st_lock
  /\ UNCHANGED <<listvars, ringvars, st_state, s_started, stops, mine, old, woken>>

(* ENOSPC: the caller keeps the message and GLD offers it again after      *)
(* mac_tx_update, at once if that was called in the meantime.              *)
Enospc(s) ==
  /\ tpc[s] = "enospc" /\ Goto(s, IF woken[s] THEN "idle" ELSE "held")
  /\ UNCHANGED <<st_lock, listvars, ringvars, lifevars, sendvars>>

-----------------------------------------------------------------------------
(* sfxge_tx_qdpl_service and sfxge_tx_qdpl_drain, by a sender or by the    *)
(* event thread.                                                           *)

ServiceDone(a) == IF a = Evq THEN Goto(a, "update") /\ UNCHANGED nxt
                  ELSE Accepted(a)

Service(a) ==
  /\ tpc[a] = "service" /\ Goto(a, IF blocked THEN "unlock" ELSE "drain")
  /\ std_get' = Swizzled /\ std_count' = Len(Swizzled) /\ std_put' = PutAfter
  /\ missed' = missed \ {"reader"}
  /\ UNCHANGED <<st_lock, stp, st_fpp, cache, ringvars, st_state, s_started, stops,
                 sendvars>>

(* The structure of a packet that has left the get list: to the pool, or   *)
(* to the cache when that is full.  The mutations forget the second, and   *)
(* the size of the pool.                                                   *)
FreeHeadMut ==
  LET p == Head(std_get) IN
  /\ std_get' = Tail(std_get)
  /\ stp' = [stp EXCEPT ![p] = Empty]
  /\ st_fpp' = IF Len(st_fpp) < PoolMax THEN <<p>> \o st_fpp ELSE st_fpp
  /\ UNCHANGED cache
FreeHead ==
  LET p == Head(std_get) IN
  /\ std_get' = Tail(std_get)
  /\ stp' = [stp EXCEPT ![p] = Empty]
  /\ IF Len(st_fpp) < PoolMax
     THEN st_fpp' = <<p>> \o st_fpp /\ UNCHANGED cache
     ELSE cache' = cache \cup {p} /\ UNCHANGED st_fpp

InRing == np + hw + ev + pend

(* sfxge_tx_qlist_post: it blocks only while st_pending # st_added, and a  *)
(* packet left unpushed by an earlier unblock is not reason enough.  The   *)
(* mutation does not reset the fragment list after the post.               *)
PostOkMut(m) == /\ InRing < RingSize
                /\ sent' = [sent EXCEPT ![m.src] = m.num]
                /\ frag' = m /\ blocked' = FALSE
PostOk(m) == /\ InRing < RingSize
             /\ sent' = [sent EXCEPT ![m.src] = m.num]
             /\ frag' = NoMsg /\ blocked' = FALSE
PostBlocks(m) == /\ hw + ev > 0 \/ dn > 0
                 /\ frag' = m /\ blocked' = TRUE
                 /\ UNCHANGED sent

(* efx_tx_qpush by the drain, of everything up to st_added; posted is 1    *)
(* after a post.  Otherwise the packets wait for a later push.             *)
Push(posted) == hw' = hw + np + posted /\ np' = 0 /\ dn' = 0
Hold(posted) == np' = np + posted /\ dn' = dn + posted /\ UNCHANGED hw

DrainPost(a) ==
  /\ tpc[a] = "drain" /\ std_get # <<>> /\ st_state = "STARTED"
  /\ FreeHead
  /\ LET m == stp[Head(std_get)].msg IN
     \/ /\ PostOk(m) /\ UNCHANGED <<tpc, std_count>>
        /\ IF dn + 1 >= TxBatch THEN Push(1) ELSE Hold(1)
     \/ /\ PostBlocks(m) /\ Goto(a, "unlock") /\ std_count' = Len(std_get')
        /\ IF dn > 0 THEN Push(0) ELSE Hold(0)
  /\ UNCHANGED <<st_lock, std_put, ev, pend, lifevars, sendvars>>

DrainReject(a) ==
  /\ tpc[a] = "drain" /\ std_get # <<>>
  /\ st_state # "STARTED" \/ MayReject
  /\ FreeHead
  /\ UNCHANGED <<tpc, std_count, st_lock, std_put, ringvars, lifevars,
                 sendvars>>

DrainEnd(a) ==
  /\ tpc[a] = "drain" /\ std_get = <<>>
  /\ std_count' = 0 /\ Goto(a, "unlock")
  /\ IF dn > 0 THEN Push(0) ELSE Hold(0)
  /\ UNCHANGED <<st_lock, std_put, std_get, stp, st_fpp, cache, frag, blocked,
                 ev, pend, sent, lifevars, sendvars>>

ServiceUnlock(a) ==
  /\ tpc[a] = "unlock" /\ st_lock' = NoThread /\ Goto(a, "check")
  /\ UNCHANGED <<listvars, ringvars, lifevars, sendvars>>

(* SFXGE_TX_QDPL_PUT_PENDING after the unlock.                             *)
PutPending == std_put # <<>>

ServiceCheck(a) ==
  /\ tpc[a] = "check"
  /\ IF PutPending THEN Goto(a, "again") /\ UNCHANGED nxt ELSE ServiceDone(a)
  /\ UNCHANGED <<st_lock, listvars, ringvars, lifevars, mine, old, woken>>

ServiceAgain(a) ==
  /\ tpc[a] = "again"
  /\ IF st_lock = NoThread
     THEN st_lock' = a /\ Goto(a, "service") /\ UNCHANGED <<nxt, missed>>
     ELSE ServiceDone(a) /\ LeaveIt /\ UNCHANGED st_lock
  /\ UNCHANGED <<listvars, ringvars, st_state, s_started, stops, mine, old, woken>>

-----------------------------------------------------------------------------
(* The hardware and the event thread.                                      *)

HwComplete ==
  /\ hw > 0 /\ hw' = hw - 1 /\ ev' = ev + 1
  /\ UNCHANGED <<st_lock, listvars, frag, blocked, np, dn, pend, sent, sendvars,
                 lifevars, tpc>>

(* sfxge_ev_tx: st_pending is advanced, se_lock is taken for the poll; the *)
(* completion of a queue that is not STARTED is ignored.                   *)
EvTx ==
  /\ tpc[Evq] = "idle" /\ ev > 0 /\ ev' = 0
  /\ IF st_state = "STARTED" THEN Goto(Evq, "complete") /\ pend' = pend + ev
     ELSE UNCHANGED <<tpc, pend>>
  /\ UNCHANGED <<st_lock, listvars, frag, blocked, np, dn, hw, sent, sendvars,
                 lifevars>>

(* sfxge_tx_qcomplete up to its test of st_unblock, made without st_lock.  *)
(* When nothing is in flight the level st_added - st_completed is low.     *)
(* The mutation calls mac_tx_update only for a blocked queue.              *)
QCompleteMut ==
  /\ tpc[Evq] = "complete" /\ pend' = 0
  /\ \/ blocked /\ Goto(Evq, "unblock")
     \/ (~blocked \/ hw + ev > 0) /\ Goto(Evq, "idle")
  /\ UNCHANGED <<st_lock, listvars, frag, blocked, np, dn, hw, ev, sent, sendvars,
                 lifevars>>
QComplete ==
  /\ tpc[Evq] = "complete" /\ pend' = 0
  /\ \/ blocked /\ Goto(Evq, "unblock")
     \/ (~blocked \/ hw + ev > 0) /\ Goto(Evq, "update")
  /\ UNCHANGED <<st_lock, listvars, frag, blocked, np, dn, hw, ev, sent, sendvars,
                 lifevars>>

(* sfxge_tx_qunblock: mutex_enter, then the fragment list is posted, not   *)
(* pushed, and the list serviced.  Only this thread unblocks the queue, so *)
(* the level it tested is still low enough when it tests it again.         *)
QUnblock ==
  /\ tpc[Evq] = "unblock" /\ st_lock = NoThread
  /\ IF st_state # "STARTED"
     THEN Goto(Evq, "update") /\ UNCHANGED <<st_lock, np, sent, frag, blocked>>
     ELSE /\ Goto(Evq, "service") /\ st_lock' = Evq
          /\ PostOk(frag) /\ np' = np + 1
  /\ UNCHANGED <<listvars, dn, hw, ev, pend, sendvars, lifevars>>

(* mac_tx_update, on the evidence of a std_count read without st_lock,     *)
(* which a drain under way may not have written yet.                       *)
MacTxUpdate ==
  /\ missed' = missed \ {"count"}
  /\ woken' = [s \in Senders |-> TRUE]
  /\ tpc' = [a \in Agents |-> IF tpc[a] = "held" \/ a = Evq THEN "idle" ELSE tpc[a]]

Waits(s) == tpc[s] \in {"enospc", "held"}

Update ==
  /\ tpc[Evq] = "update"
  /\ IF std_count < GetLimit THEN MacTxUpdate
     ELSE /\ Goto(Evq, "idle") /\ UNCHANGED woken
          /\ missed' = IF std_count # Len(std_get) /\ \E s \in Senders : Waits(s)
                       THEN missed \cup {"count"} ELSE missed
  /\ UNCHANGED <<st_lock, listvars, ringvars, st_state, s_started, stops, mine, old, nxt>>

-----------------------------------------------------------------------------
(* A reader of the kstat enters its ks_lock, which is st_lock, calls       *)
(* sfxge_tx_kstat_update and copies the numbers, and leaves it.            *)
KstatEnter ==
  /\ KstatReads /\ st_lock = NoThread /\ st_lock' = Kstat
  /\ UNCHANGED <<listvars, ringvars, sendvars, lifevars, tpc>>

KstatExit ==
  /\ st_lock = Kstat /\ st_lock' = NoThread
  /\ UNCHANGED <<listvars, ringvars, sendvars, lifevars, tpc>>

-----------------------------------------------------------------------------
(* Stop, start and tear-down of the queue.                                 *)

Stopping ==
  /\ s_started /\ stops < MaxStops
  /\ s_started' = FALSE /\ stops' = stops + 1
  /\ UNCHANGED <<st_lock, listvars, ringvars, sendvars, st_state, missed, tpc>>

(* sfxge_tx_qflush, under st_lock.                                         *)
QFlush ==
  /\ ~s_started /\ st_state = "STARTED" /\ st_lock = NoThread
  /\ st_state' = "FLUSHING"
  /\ UNCHANGED <<st_lock, listvars, ringvars, sendvars, s_started, stops, missed, tpc>>

(* sfxge_tx_qdpl_flush_locked: swizzle, then every packet of the get list  *)
(* is destroyed.                                                           *)
FlushLocked ==
  /\ Destroy(Range(Swizzled)) /\ std_put' = PutAfter
  /\ std_get' = <<>> /\ std_count' = 0

(* sfxge_tx_qstop, under se_lock and st_lock: aborts the fragment list,    *)
(* completes everything, flushes the list.                                 *)
QStop ==
  /\ st_state = "FLUSHING" /\ st_lock = NoThread /\ tpc[Evq] = "idle"
  /\ st_state' = "INITIALIZED"
  /\ frag' = NoMsg /\ blocked' = FALSE
  /\ np' = 0 /\ hw' = 0 /\ ev' = 0 /\ pend' = 0
  /\ FlushLocked
  /\ IF std_count < GetLimit THEN MacTxUpdate ELSE UNCHANGED <<tpc, woken, missed>>
  /\ UNCHANGED <<st_lock, st_fpp, dn, mine, old, nxt, sent, s_started, stops>>

(* sfxge_tx_qstart, and sfxge_start_locked entering STARTED.               *)
QStart ==
  /\ st_state = "INITIALIZED" /\ st_lock = NoThread /\ st_state' = "STARTED"
  /\ UNCHANGED <<st_lock, listvars, ringvars, sendvars, s_started, stops, missed, tpc>>

Started ==
  /\ ~s_started /\ st_state = "STARTED" /\ s_started' = TRUE
  /\ UNCHANGED <<st_lock, listvars, ringvars, sendvars, st_state, stops, missed, tpc>>

(* After mac_unregister no sender is inside: sfxge_can_destroy flushes the *)
(* list, sfxge_tx_qfini asserts that it is empty and frees the pool.  The  *)
(* mutation leaves the list to the last stop.                              *)
QFiniMut ==
  /\ st_state = "INITIALIZED" /\ ~s_started
  /\ \A a \in Agents : tpc[a] \in {"idle", "held"}
  /\ st_state' = "UNINITIALIZED"
  /\ st_fpp' = <<>> /\ Destroy(Range(st_fpp))
  /\ UNCHANGED <<st_lock, std_put, std_get, std_count, ringvars, sendvars,
                 s_started, stops, missed, tpc>>
QFini ==
  /\ st_state = "INITIALIZED" /\ ~s_started
  /\ \A a \in Agents : tpc[a] \in {"idle", "held"}
  /\ st_state' = "UNINITIALIZED"
  /\ std_put' = PutAfter /\ std_get' = <<>> /\ std_count' = 0
  /\ st_fpp' = <<>> /\ Destroy(Range(Swizzled) \cup Range(st_fpp))
  /\ UNCHANGED <<st_lock, ringvars, sendvars, s_started, stops, missed, tpc>>

QInit ==
  /\ st_state = "UNINITIALIZED" /\ st_state' = "INITIALIZED"
  /\ UNCHANGED <<st_lock, listvars, ringvars, sendvars, s_started, stops, missed, tpc>>

-----------------------------------------------------------------------------
Send(s) == \/ TryEnter(s) \/ PacketCreate(s) \/ CreateFail(s)
           \/ AddLocked(s) \/ ReadPut(s) \/ ReadLen(s) \/ Cas(s) \/ Retry(s) \/ Enospc(s)
ServiceStep(a) == \/ Service(a) \/ DrainPost(a) \/ DrainReject(a) \/ DrainEnd(a)
                  \/ ServiceUnlock(a) \/ ServiceCheck(a) \/ ServiceAgain(a)
Event == EvTx \/ QComplete \/ Update
Life  == Stopping \/ QFlush \/ QStop \/ QStart \/ Started \/ QFini \/ QInit

Next == \/ \E s \in Senders : PacketAdd(s) \/ Send(s)
        \/ \E a \in Agents : ServiceStep(a)
        \/ HwComplete \/ Event \/ QUnblock \/ KstatEnter \/ KstatExit \/ Life

Spec == Init /\ [][Next]_vars

(* Threads inside the driver run and the hardware completes what it was    *)
(* given; a thread waiting for st_lock in mutex_enter gets it when it is   *)
(* free again and again.                                                   *)
Fairness ==
  /\ \A s \in Senders : WF_vars(Send(s))
  /\ \A a \in Agents : WF_vars(ServiceStep(a))
  /\ WF_vars(HwComplete) /\ WF_vars(Event) /\ SF_vars(QUnblock)
  /\ WF_vars(KstatExit)

FairSpec == Spec /\ Fairness

-----------------------------------------------------------------------------
Msgs == [src : Senders, num : 1..MaxSend] \cup {NoMsg}

(* Shape of the state.                                                     *)
TypeOK ==
  /\ st_lock \in Agents \cup {NoThread, Kstat}
  /\ st_state \in {"UNINITIALIZED", "INITIALIZED", "STARTED", "FLUSHING"}
  /\ s_started \in BOOLEAN /\ stops \in 0..MaxStops
  /\ missed \subseteq {"reader", "count"}
  /\ std_put \in Seq(Pkts) /\ std_get \in Seq(Pkts) /\ std_count \in Nat
  /\ stp \in [Pkts -> [msg : Msgs, put_len : Nat]]
  /\ st_fpp \in Seq(Pkts) /\ Len(st_fpp) <= PoolMax /\ cache \subseteq Pkts
  /\ frag \in Msgs /\ blocked \in BOOLEAN
  /\ np \in Nat /\ dn \in Nat /\ hw \in Nat /\ ev \in Nat /\ pend \in Nat
  /\ InRing <= RingSize
  /\ tpc \in [Agents -> {"idle", "try", "alloc", "add", "read", "len", "cas", "retry",
                 "enospc", "held", "service", "drain", "unlock", "check",
                 "again", "complete", "unblock", "update"}]
  /\ mine \in [Senders -> Pkts \cup {NoPkt}]
  /\ old \in [Senders -> Pkts \cup {NoPkt}]
  /\ nxt \in [Senders -> 1..(MaxSend + 1)] /\ woken \in [Senders -> BOOLEAN]
  /\ sent \in [Senders -> 0..MaxSend]

Times(p, seq) == Cardinality({i \in DOMAIN seq : seq[i] = p})

(* Every packet structure is in exactly one place: none is leaked, none is *)
(* freed twice, none is on two lists, whatever the senders, the drain, the *)
(* pool and a stop do at the same time.                                    *)
OnePlace ==
  /\ TypeOK
  /\ \A p \in Pkts :
       Times(p, std_put) + Times(p, std_get) + Times(p, st_fpp)
       + (IF p \in cache THEN 1 ELSE 0)
       + Cardinality({s \in Senders : mine[s] = p}) = 1

(* The messages on their way to the hardware, oldest first.                *)
Waiting ==
  LET pkts == std_get \o Reverse(std_put) IN
  (IF frag = NoMsg THEN <<>> ELSE <<frag>>)
  \o [i \in DOMAIN pkts |-> stp[pkts[i]].msg]

(* The messages of one sender reach the ring in the order it sent them,    *)
(* whether it found the lock free or not each time.                        *)
InOrder ==
  /\ \A i, j \in DOMAIN Waiting :
       i < j /\ Waiting[i].src = Waiting[j].src => Waiting[i].num < Waiting[j].num
  /\ \A i \in DOMAIN Waiting : Waiting[i].num > sent[Waiting[i].src]

(* The assertion at the end of sfxge_tx_qdpl_drain, for every moment at    *)
(* which no sender and no poll has the lock: the get list is empty unless  *)
(* the queue is blocked, and std_count is its length; and those of         *)
(* sfxge_tx_qfini: whoever used the lists before, they are empty.          *)
ListAsserts ==
  /\ st_lock \in {NoThread, Kstat} => /\ blocked \/ std_get = <<>>
                                      /\ std_count = Len(std_get)
  /\ st_state = "UNINITIALIZED" => std_put = <<>> /\ std_get = <<>>

(* Everything that was accepted leaves the lists, whoever had the lock     *)
(* when it was pushed; only what a reader of the kstat kept from being     *)
(* serviced, and nobody services after it, stays.                          *)
ListsDrain ==
  (std_put # <<>> \/ std_get # <<>> \/ frag # NoMsg)
    ~> \/ std_put = <<>> /\ std_get = <<>> /\ frag = NoMsg
       \/ []("reader" \in missed)

(* sfxge_tx_qdpl_add: a full list "ensures that in the future              *)
(* mac_tx_update() will be called": a message that GLD had to keep is      *)
(* asked for again, unless its packets were left by such a reader or the   *)
(* poll that should ask saw the std_count of a drain still under way.      *)
BackpressureReleased ==
  \A s \in Senders : tpc[s] = "held" ~> tpc[s] # "held" \/ [](missed # {})

(* sfxge_tx_qdpl_swizzle: "Guaranteed that in flight TX packets will cause *)
(* more TX completions": a completion event is handled.                    *)
EventsHandled == ev > 0 ~> ev = 0
=============================================================================
