----------------------------- MODULE EventQueue -----------------------------
(***************************************************************************)
(* Event queues and interrupts (sfxge_ev.c, sfxge_intr.c, efx_ev.c,        *)
(* ef10_ev.c, efx_intr.c, ef10_intr.c).  The controller writes events to a *)
(* ring in host memory and raises an interrupt when the ring it was primed *)
(* with is not empty; the handler polls the queue under se_lock: it reads  *)
(* events up to a batch boundary, handles them, overwrites them with ones  *)
(* and goes on unless one of them asks it to stop, then primes the queue.  *)
(* Another thread starts and stops interrupts and queues meanwhile.        *)
(*                                                                         *)
(* Messages (MSI-X) have a handler for each queue; a line interrupt has    *)
(* one queue, may be shared with another device, and the controller may    *)
(* raise it without a bit in the ISR, which the driver works around.       *)
(***************************************************************************)
EXTENDS Integers, FiniteSets, Sequences

CONSTANTS
  NAlloc,       \* si_nalloc with messages
  Ring,         \* the events that fit in the ring
  EvBatch,      \* EFX_EV_BATCH
  TxBatch,      \* se_ev_batch
  Tests,        \* FALSE on Huntington, which skips the interrupt test
  MaxEvents,    \* bound on the events of one life of queue 0; the
                \* others only get their initialization event
  MaxStarts     \* bound on the starts

ASSUME EventQueueAssumption ==
  /\ NAlloc \in Nat \ {0} /\ EvBatch \in Nat \ {0} /\ TxBatch \in Nat \ {0}
  /\ Ring \in Nat \ {0} /\ Ring % EvBatch = 0
  /\ Tests \in BOOLEAN /\ MaxEvents \in Nat /\ MaxStarts \in Nat

VARIABLES
  si_type,      \* "message" or "line"
  cpc, cq,      \* progress of the starting and stopping thread, and its queue
  starts,
  si_state, si_mask, si_zero_count,
  bus,          \* handlers added and enabled at the bus
  line,         \* the line is asserted
  isr,          \* the ISR has the bit of queue 0
  msg,          \* queues whose message waits for its handler
  se_state, se_lock, se_count, se_tx,
  ring,         \* the slots in host memory: << >> or <<number, kind>>
  wr,           \* events the controller wrote since the queue was created
  rptr, armed,  \* what the queue was primed with, and that it awaits an event
  hpc,          \* progress of the handler that polls the queue
  batch, k,     \* the events read, and how many of them were handled
  count,        \* siena_ev_qpoll's own count
  last,         \* history: the number of the last event handled
  stale,        \* history: the queue was created with another se_count than 0
  restart       \* a restart is dispatched

ctlvars  == <<cpc, cq, starts>>
intrvars == <<si_type, si_state, si_mask, si_zero_count, bus>>
pinvars  == <<line, isr, msg>>
hwvars   == <<ring, wr, rptr, armed>>
pollvars == <<hpc, batch, k, count, se_tx>>
vars == <<ctlvars, intrvars, pinvars, se_state, se_lock, se_count, hwvars,
          pollvars, last, stale, restart>>

AllQs  == 0..(NAlloc - 1)
Evqs   == IF si_type = "line" THEN {0} ELSE AllQs
Absent == << >>
Slot(c) == c % Ring                            \* c & ee_mask
Zeros  == [q \in AllQs |-> 0]
Live(q) == se_state[q] \in {"STARTING", "STARTED"}

Init ==
  /\ si_type \in {"message", "line"}
  /\ cpc = "down" /\ cq = 0 /\ starts = 0
  /\ si_state = "INITIALIZED" /\ si_mask = {} /\ si_zero_count = 0
  /\ bus = FALSE /\ line = FALSE /\ isr = FALSE /\ msg = {}
  /\ se_state = [q \in AllQs |-> "INITIALIZED"]
  /\ se_lock = [q \in AllQs |-> FALSE] /\ se_count = Zeros /\ se_tx = Zeros
  /\ ring = [q \in AllQs |-> [s \in 0..(Ring - 1) |-> Absent]]
  /\ wr = Zeros /\ rptr = Zeros /\ armed = [q \in AllQs |-> FALSE]
  /\ hpc = [q \in AllQs |-> "idle"] /\ batch = [q \in AllQs |-> << >>]
  /\ k = Zeros /\ count = Zeros /\ last = Zeros
  /\ stale = [q \in AllQs |-> FALSE] /\ restart = FALSE

-----------------------------------------------------------------------------
(* Starting and stopping interrupts.                                       *)

(* sfxge_intr_bus_enable fails and has undone what it did.                 *)
IntrStartFails ==
  /\ cpc = "down" /\ starts < MaxStarts /\ starts' = starts + 1
  /\ UNCHANGED <<cpc, cq, intrvars, pinvars, se_state, se_lock, se_count,
                 hwvars, pollvars, last, stale, restart>>

(* sfxge_intr_start as far as efx_intr_trigger of every message.           *)
IntrStart ==
  /\ cpc = "down" /\ starts < MaxStarts /\ starts' = starts + 1
  /\ bus' = TRUE
  /\ IF Tests
     THEN /\ si_state' = "TESTING" /\ cpc' = "testing"
          /\ IF si_type = "line" THEN line' = TRUE /\ UNCHANGED msg
             ELSE msg' = Evqs /\ UNCHANGED line
     ELSE si_state' = "STARTED" /\ cpc' = "evstart" /\ UNCHANGED <<line, msg>>
  /\ cq' = 0
  /\ UNCHANGED <<si_type, si_mask, si_zero_count, isr, se_state, se_lock,
                 se_count, hwvars, pollvars, last, stale, restart>>

(* The end of the wait in sfxge_intr_nic_enable.                           *)
TestDone ==
  /\ cpc = "testing" /\ Evqs \subseteq si_mask
  /\ si_state' = "STARTED" /\ cpc' = "evstart"
  /\ UNCHANGED <<cq, starts, si_type, si_mask, si_zero_count, bus,
                 pinvars, se_state, se_lock, se_count, hwvars, pollvars, last,
                 stale, restart>>

(* It clears si_mask while a late message may still set it: the state      *)
(* stays TESTING until sfxge_intr_bus_disable has returned.                *)
TestTimeout ==
  /\ cpc = "testing" /\ ~(Evqs \subseteq si_mask)
  /\ si_mask' = {} /\ cpc' = "testfail"
  /\ UNCHANGED <<cq, starts, si_type, si_state, si_zero_count, bus, pinvars,
                 se_state, se_lock, se_count, hwvars, pollvars, last, stale,
                 restart>>

(* sfxge_intr_bus_disable waits for the handlers that run.                 *)
HandlersIdle == \A q \in Evqs : hpc[q] = "idle"
Quiet == line' = FALSE /\ isr' = FALSE /\ msg' = {} /\ bus' = FALSE

TestFail ==
  /\ cpc = "testfail" /\ HandlersIdle /\ Quiet
  /\ si_state' = "INITIALIZED" /\ cpc' = "down"
  /\ UNCHANGED <<cq, starts, si_type, si_mask, si_zero_count, se_state, se_lock,
                 se_count, hwvars, pollvars, last, stale, restart>>

(* sfxge_intr_stop.                                                        *)
IntrStop ==
  /\ cpc = "intrstop" /\ si_state' = "INITIALIZED" /\ si_mask' = {}
  /\ cpc' = "busdisable"
  /\ UNCHANGED <<cq, starts, si_type, si_zero_count, bus,
                 pinvars, se_state, se_lock, se_count, hwvars, pollvars, last,
                 stale, restart>>

BusDisable ==
  /\ cpc = "busdisable" /\ HandlersIdle /\ Quiet /\ cpc' = "down"
  /\ UNCHANGED <<cq, starts, si_type, si_state, si_mask, si_zero_count,
                 se_state, se_lock, se_count, hwvars, pollvars, last, stale,
                 restart>>

-----------------------------------------------------------------------------
(* Starting and stopping event queues.                                     *)

(* efx_ev_qprime: siena_ev_qprime, ef10_ev_qprime.  The mutation primes    *)
(* with the count of before the poll.                                      *)
PrimeMut(q, c) == rptr' = [rptr EXCEPT ![q] = Slot(se_count[q])]
                  /\ armed' = [armed EXCEPT ![q] = TRUE]
Prime(q, c)    == rptr' = [rptr EXCEPT ![q] = Slot(c)]
                  /\ armed' = [armed EXCEPT ![q] = TRUE]

(* What efx_ev_qdestroy and the end of a queue's life leave behind.        *)
EndQueue(q) ==
  /\ se_state' = [se_state EXCEPT ![q] = "INITIALIZED"]
  /\ armed' = [armed EXCEPT ![q] = FALSE]
  /\ wr' = [wr EXCEPT ![q] = 0] /\ last' = [last EXCEPT ![q] = 0]

(* sfxge_ev_qstart as far as its wait for the initialization event.        *)
QStart(q) ==
  /\ cpc = "evstart" /\ cq = q /\ ~se_lock[q]
  /\ ring' = [ring EXCEPT ![q] = [s \in 0..(Ring - 1) |-> Absent]]
  /\ se_state' = [se_state EXCEPT ![q] = "STARTING"]
  /\ rptr' = [rptr EXCEPT ![q] = Slot(se_count[q])]
  /\ armed' = [armed EXCEPT ![q] = TRUE]
  /\ stale' = [stale EXCEPT ![q] = se_count[q] # 0]
  /\ cpc' = "evwait"
  /\ UNCHANGED <<cq, starts, intrvars, pinvars, se_lock, se_count, wr, pollvars,
                 last, restart>>

(* The buffer table, efx_ev_qcreate or efx_ev_qmoderate fails: the queue   *)
(* is as before; sfxge_ev_start stops those before it.                     *)
QStartFails(q) ==
  /\ cpc = "evstart" /\ cq = q /\ ~se_lock[q]
  /\ cq' = q - 1 /\ cpc' = (IF q = 0 THEN "intrstop" ELSE "evstop")
  /\ UNCHANGED <<starts, intrvars, pinvars, se_state, se_lock, se_count, hwvars,
                 pollvars, last, stale, restart>>

QStarted(q) ==
  /\ cpc = "evwait" /\ cq = q /\ ~se_lock[q] /\ se_state[q] = "STARTED"
  /\ IF q + 1 \in Evqs THEN cq' = q + 1 /\ cpc' = "evstart"
     ELSE cpc' = "up" /\ UNCHANGED cq
  /\ UNCHANGED <<starts, intrvars, pinvars, se_state, se_lock, se_count, hwvars,
                 pollvars, last, stale, restart>>

(* cv_timedwait gives up, maybe after the event was handled: se_state is   *)
(* not tested again, and se_count keeps the events handled so far.         *)
QStartTimeout(q) ==
  /\ cpc = "evwait" /\ cq = q /\ ~se_lock[q]
  /\ EndQueue(q)
  /\ cq' = q - 1 /\ cpc' = (IF q = 0 THEN "intrstop" ELSE "evstop")
  /\ UNCHANGED <<starts, intrvars, pinvars, se_lock, se_count, ring, rptr,
                 pollvars, stale, restart>>

(* sfxge_ev_stop, by sfxge_stop or a restart.                              *)
EvStop ==
  /\ cpc = "up" /\ cq' = Cardinality(Evqs) - 1 /\ cpc' = "evstop"
  /\ restart' = FALSE
  /\ UNCHANGED <<starts, intrvars, pinvars, se_state, se_lock, se_count, hwvars,
                 pollvars, last, stale>>

(* sfxge_ev_qstop waits for the poll that runs.  The mutation does not.    *)
QStopFreeMut(q) == TRUE
QStopFree(q)    == ~se_lock[q]

ClearedCount(q) == [se_count EXCEPT ![q] = 0]

QStop(q) ==
  /\ cpc = "evstop" /\ cq = q /\ QStopFree(q)
  /\ EndQueue(q) /\ se_count' = ClearedCount(q)
  /\ cq' = q - 1 /\ cpc' = (IF q = 0 THEN "intrstop" ELSE "evstop")
  /\ UNCHANGED <<starts, intrvars, pinvars, se_lock, ring, rptr, pollvars, stale,
                 restart>>

-----------------------------------------------------------------------------
(* The controller.                                                         *)

Kinds == {"init", "data", "bad"}

(* The first event of a queue says that it is initialized, though others   *)
(* may come before it.  sfxge_ev_init sizes the ring so that it is never   *)
(* full.                                                                   *)
HwWrite(q, kind) ==
  /\ Live(q) /\ wr[q] < MaxEvents /\ (q # 0 => wr[q] = 0 /\ kind = "init")
  /\ ring[q][Slot(wr[q])] = Absent /\ Slot(wr[q] + 1) # rptr[q]
  /\ kind = "init" => wr[q] < 2
  /\ kind = "bad" => ~restart
  /\ wr' = [wr EXCEPT ![q] = @ + 1]
  /\ ring' = [ring EXCEPT ![q][Slot(wr[q])] = <<wr[q] + 1, kind>>]
  /\ UNCHANGED <<ctlvars, intrvars, pinvars, se_state, se_lock, se_count, rptr,
                 armed, pollvars, last, stale, restart>>

(* lost: the line is raised without a bit in the ISR (bug15671).           *)
HwRaise(q, lost) ==
  /\ bus /\ armed[q] /\ Slot(wr[q]) # rptr[q]
  /\ armed' = [armed EXCEPT ![q] = FALSE]
  /\ IF si_type = "line"
     THEN line' = TRUE /\ isr' = (isr \/ ~lost) /\ UNCHANGED msg
     ELSE ~lost /\ msg' = msg \cup {q} /\ UNCHANGED <<line, isr>>
  /\ UNCHANGED <<ctlvars, intrvars, se_state, se_lock, se_count, ring, wr, rptr,
                 pollvars, last, stale, restart>>

-----------------------------------------------------------------------------
(* The interrupt handlers.                                                 *)

(* A handler is called: not STARTED or TESTING, the interrupt is not ours. *)
NotOurs ==
  /\ si_state = "INITIALIZED"
  /\ UNCHANGED <<hpc, si_mask, si_zero_count, restart>>

Tested(q) ==
  /\ si_state = "TESTING" /\ si_mask' = si_mask \cup {q}
  /\ UNCHANGED <<hpc, si_zero_count, restart>>

(* sfxge_intr_fatal, for an error that Siena reports.                      *)
Fatal ==
  /\ si_state = "STARTED" /\ ~restart /\ restart' = TRUE
  /\ UNCHANGED <<hpc, si_mask, si_zero_count>>

(* sfxge_intr_message.                                                     *)
MsgInterrupt(q) ==
  /\ si_type = "message" /\ bus /\ q \in msg /\ hpc[q] = "idle"
  /\ msg' = msg \ {q}
  /\ \/ NotOurs \/ Tested(q) \/ Fatal
     \/ /\ si_state = "STARTED" /\ hpc' = [hpc EXCEPT ![q] = "enter"]
        /\ UNCHANGED <<si_mask, si_zero_count, restart>>
  /\ UNCHANGED <<ctlvars, si_type, si_state, bus, line, isr, se_state,
                 se_lock, se_count, hwvars, batch, k, count, se_tx, last, stale>>

(* The second and later interrupts with an empty ISR prime the queues.     *)
(* The mutation leaves them alone.                                         *)
ZeroAgainMut == hpc' = hpc
ZeroAgain    == hpc' = [hpc EXCEPT ![0] = "prime"]

(* sfxge_intr_line; ours is FALSE when the other device on the line raised *)
(* it.  Reading the ISR acknowledges the interrupt.                        *)
LineInterrupt(ours) ==
  /\ si_type = "line" /\ bus /\ hpc[0] = "idle" /\ ours = line
  /\ \/ NotOurs /\ line' = FALSE /\ UNCHANGED isr
     \/ Tested(0) /\ line' = FALSE /\ UNCHANGED isr
     \/ Fatal /\ line' = FALSE /\ isr' = FALSE
     \/ /\ si_state = "STARTED" /\ line' = FALSE /\ isr' = FALSE
        /\ IF isr THEN si_zero_count' = 0 /\ hpc' = [hpc EXCEPT ![0] = "enter"]
           ELSE /\ si_zero_count' = 1      \* counts on; only 0 is told apart
                /\ IF si_zero_count = 0 THEN hpc' = [hpc EXCEPT ![0] = "enter"]
                   ELSE ZeroAgain
        /\ UNCHANGED <<si_mask, restart>>
  /\ UNCHANGED <<ctlvars, si_type, si_state, bus, msg, se_state, se_lock,
                 se_count, hwvars, batch, k, count, se_tx, last, stale>>

-----------------------------------------------------------------------------
(* sfxge_ev_qprime and sfxge_ev_qpoll.                                     *)

Refused(q) ==
  /\ hpc[q] \in {"enter", "prime"} /\ ~se_lock[q] /\ ~Live(q)
  /\ hpc' = [hpc EXCEPT ![q] = "idle"]
  /\ UNCHANGED <<ctlvars, intrvars, pinvars, se_state, se_lock, se_count, hwvars,
                 batch, k, count, se_tx, last, stale, restart>>

QPrime(q) ==
  /\ hpc[q] = "prime" /\ ~se_lock[q] /\ Live(q)
  /\ Prime(q, se_count[q]) /\ hpc' = [hpc EXCEPT ![q] = "idle"]
  /\ UNCHANGED <<ctlvars, intrvars, pinvars, se_state, se_lock, se_count, ring,
                 wr, batch, k, count, se_tx, last, stale, restart>>

QPollEnter(q) ==
  /\ hpc[q] = "enter" /\ ~se_lock[q] /\ Live(q)
  /\ se_lock' = [se_lock EXCEPT ![q] = TRUE]
  /\ count' = [count EXCEPT ![q] = se_count[q]]
  /\ hpc' = [hpc EXCEPT ![q] = "read"]
  /\ UNCHANGED <<ctlvars, intrvars, pinvars, se_state, se_count, hwvars, batch,
                 k, se_tx, last, stale, restart>>

(* The events up to the end of the batch period.                           *)
BatchEnd(q) == EvBatch - (count[q] % EvBatch)

QPollRead(q) ==
  /\ hpc[q] = "read"
  /\ LET At(i) == ring[q][Slot(count[q] + i)]
         total == CHOOSE n \in 0..BatchEnd(q) :
                    /\ \A i \in 0..(n - 1) : At(i) # Absent
                    /\ n = BatchEnd(q) \/ At(n) = Absent
     IN batch' = [batch EXCEPT ![q] = [i \in 1..total |-> At(i - 1)]]
  /\ k' = [k EXCEPT ![q] = 0] /\ hpc' = [hpc EXCEPT ![q] = "handle"]
  /\ UNCHANGED <<ctlvars, intrvars, pinvars, se_state, se_lock, se_count, hwvars,
                 count, se_tx, last, stale, restart>>

(* The handlers: what they change, and whether the rest must wait.         *)
Initialized(q) ==                           \* sfxge_ev_initialized
  /\ se_state' = [se_state EXCEPT ![q] = "STARTED"]
  /\ hpc' = hpc /\ UNCHANGED <<se_tx, restart>>

Completion(q) ==                            \* sfxge_ev_tx
  /\ se_tx' = [se_tx EXCEPT ![q] = @ + 1]
  /\ hpc' = (IF se_tx'[q] >= TxBatch THEN [hpc EXCEPT ![q] = "clear"] ELSE hpc)
  /\ UNCHANGED <<se_state, restart>>

Exception ==                                \* sfxge_ev_exception
  /\ restart' = TRUE /\ UNCHANGED <<hpc, se_state, se_tx>>

QPollHandle(q) ==
  /\ hpc[q] = "handle" /\ k[q] < Len(batch[q])
  /\ k' = [k EXCEPT ![q] = @ + 1]
  /\ LET ev == batch[q][k[q] + 1] IN
       /\ last' = [last EXCEPT ![q] = ev[1]]
       /\ \/ ev[2] = "init" /\ Initialized(q)
          \/ ev[2] = "data" /\ Completion(q)
          \/ ev[2] = "bad" /\ Exception
  /\ UNCHANGED <<ctlvars, intrvars, pinvars, se_lock, se_count, hwvars, batch,
                 count, stale>>

(* Only the events that were handled are overwritten.  The mutation        *)
(* overwrites all that were read.                                          *)
TotalMut(q) == Len(batch[q])
Total(q)    == k[q]

QPollClear(q) ==
  /\ hpc[q] = "clear" \/ (hpc[q] = "handle" /\ k[q] = Len(batch[q]))
  /\ ring' = [ring EXCEPT ![q] = [s \in 0..(Ring - 1) |->
                IF \E i \in 0..(Total(q) - 1) : s = Slot(count[q] + i)
                THEN Absent ELSE @[s]]]
  /\ count' = [count EXCEPT ![q] = @ + Total(q)]
  /\ hpc' = [hpc EXCEPT ![q] = IF Total(q) = BatchEnd(q) THEN "read" ELSE "done"]
  /\ batch' = [batch EXCEPT ![q] = << >>] /\ k' = [k EXCEPT ![q] = 0]
  /\ UNCHANGED <<ctlvars, intrvars, pinvars, se_state, se_lock, se_count, wr,
                 rptr, armed, se_tx, last, stale, restart>>

(* *countp, sfxge_ev_qcomplete (TxRing, RxQueue) and the prime.            *)
QPollDone(q) ==
  /\ hpc[q] = "done"
  /\ se_count' = [se_count EXCEPT ![q] = count[q]]
  /\ Prime(q, count[q])
  /\ se_tx' = [se_tx EXCEPT ![q] = 0]
  /\ se_lock' = [se_lock EXCEPT ![q] = FALSE]
  /\ hpc' = [hpc EXCEPT ![q] = "idle"]
  /\ UNCHANGED <<ctlvars, intrvars, pinvars, se_state, ring, wr, batch, k, count,
                 last, stale, restart>>

QPoll(q) == QPollEnter(q) \/ QPollRead(q) \/ QPollHandle(q) \/ QPollClear(q)
            \/ QPollDone(q)

Controller(q) == QStart(q) \/ QStartFails(q) \/ QStarted(q) \/ QStartTimeout(q)
                 \/ QStop(q)

Handler(q) == Refused(q) \/ QPrime(q) \/ QPoll(q)

Next ==
  \/ IntrStartFails \/ IntrStart \/ TestDone \/ TestTimeout \/ TestFail
  \/ IntrStop \/ BusDisable \/ EvStop
  \/ \E q \in Evqs : \/ Controller(q)
                     \/ \E kind \in Kinds : HwWrite(q, kind)
                     \/ \E lost \in BOOLEAN : HwRaise(q, lost)
                     \/ MsgInterrupt(q) \/ Handler(q)
  \/ \E ours \in BOOLEAN : LineInterrupt(ours)

Spec == Init /\ [][Next]_vars

(* Threads and handlers run on; the controller raises the interrupts it    *)
(* owes, with its bit in the ISR at least now and then; a dispatched       *)
(* restart stops the queues.                                               *)
Fairness ==
  /\ WF_vars(TestDone \/ TestTimeout) /\ WF_vars(TestFail \/ IntrStop) /\ WF_vars(BusDisable)
  /\ WF_vars(restart /\ EvStop)
  /\ \A q \in AllQs :
       /\ SF_vars(q \in Evqs /\ Controller(q))
       /\ SF_vars(q \in Evqs /\ HwRaise(q, FALSE))
       /\ WF_vars(q \in Evqs /\ MsgInterrupt(q))
       /\ WF_vars(q \in Evqs /\ Handler(q))
  /\ WF_vars(LineInterrupt(TRUE))

FairSpec == Spec /\ Fairness

-----------------------------------------------------------------------------
(* Shape of the state.                                                     *)
TypeOK ==
  /\ si_type \in {"message", "line"}
  /\ cpc \in {"down", "testing", "testfail", "evstart", "evwait", "up", "evstop",
              "intrstop", "busdisable"}
  /\ cq \in -1..(NAlloc - 1) /\ starts \in 0..MaxStarts
  /\ si_state \in {"INITIALIZED", "TESTING", "STARTED"}
  /\ si_mask \subseteq AllQs /\ si_zero_count \in {0, 1}
  /\ bus \in BOOLEAN /\ line \in BOOLEAN /\ isr \in BOOLEAN /\ msg \subseteq AllQs
  /\ se_state \in [AllQs -> {"INITIALIZED", "STARTING", "STARTED"}]
  /\ se_lock \in [AllQs -> BOOLEAN] /\ armed \in [AllQs -> BOOLEAN]
  /\ {se_count, se_tx, wr, k, count, last} \subseteq [AllQs -> Nat]
  /\ \A q \in AllQs : wr[q] <= MaxEvents /\ rptr[q] \in 0..(Ring - 1)
  /\ \A q \in AllQs : \A s \in 0..(Ring - 1) :
       ring[q][s] = Absent \/ ring[q][s] \in (1..MaxEvents) \X Kinds
  /\ hpc \in [AllQs -> {"idle", "enter", "prime", "read", "handle", "clear",
                        "done"}]
  /\ stale \in [AllQs -> BOOLEAN] /\ restart \in BOOLEAN

(* sfxge_ev_qpoll uses se_eep and the handlers, which sfxge_ev_qstop       *)
(* takes away: a poll runs only on a queue that lives, also when it is     *)
(* stopped, times out or is restarted meanwhile.                           *)
PollOwnsQueue ==
  /\ TypeOK
  /\ \A q \in AllQs : hpc[q] \in {"read", "handle", "clear", "done"} =>
       se_lock[q] /\ Live(q) /\ si_state = "STARTED"

(* No event is stranded (sfxge_intr_line's "ensure we don't miss an        *)
(* interrupt"): when the queue's next event is in the ring, the controller *)
(* owes or has raised an interrupt, or a handler is about to poll or prime *)
(* the queue.                                                              *)
InterruptOwed ==
  \A q \in Evqs :
    Live(q) /\ ring[q][Slot(se_count[q])] # Absent
      /\ ~restart /\ cpc # "evstop" =>
      \/ armed[q] /\ rptr[q] = Slot(se_count[q])
      \/ q \in msg \/ line \/ hpc[q] # "idle"

(* Every event is handled, unless the queue goes down: whichever           *)
(* interrupts were spurious, shared or lacked their bit, and although a    *)
(* batch may end before the ring is empty.                                 *)
EventsHandled ==
  \A q \in AllQs :
    (Live(q) /\ wr[q] > last[q]) ~> (wr[q] = last[q] \/ ~Live(q))

(* The queue promises what EventChannel says.                              *)
Channel == INSTANCE EventChannel WITH
  Evqs <- AllQs,
  open <- [q \in AllQs |-> Live(q)],
  broken <- stale,
  chan <- [q \in AllQs |->
             IF ~Live(q) \/ stale[q] THEN << >>
             ELSE [i \in 1..(wr[q] - last[q]) |-> last[q] + i]]
DeliversInOrder == Channel!Spec
=============================================================================
