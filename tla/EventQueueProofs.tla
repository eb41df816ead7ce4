--------------------------- MODULE EventQueueProofs ---------------------------
(***************************************************************************)
(* Proofs about EventQueue for any number of queues, any ring and batch    *)
(* sizes and any bounds: a poll owns its queue, no interrupt is lost, and  *)
(* every step of the queues and the interrupts is a step of EventChannel   *)
(* or leaves it alone.  The invariant has one part for each of them:       *)
(* PollInv rests on CtlInv, the progress of the starting and stopping      *)
(* thread; OwedInv says why an interrupt comes whatever the ring holds;    *)
(* Window and InBatch place every event in its slot.                       *)
(***************************************************************************)
EXTENDS EventQueue, WellFoundedInduction, TLAPS, FiniteSetTheorems

(* The remainder lies below the modulus.                                   *)
LEMMA ModRange ==
  ASSUME NEW n \in Nat \ {0}, NEW a \in Int
  PROVE  a % n \in 0..(n - 1)
OBVIOUS

(* Quotient and remainder.                                                 *)
LEMMA DivMod ==
  ASSUME NEW n \in Nat \ {0}, NEW a \in Int
  PROVE  a \div n \in Int /\ a = n * (a \div n) + (a % n)
OBVIOUS

(* The only multiple of n strictly between -n and n is 0.                  *)
LEMMA SmallMultiple ==
  ASSUME NEW n \in Nat \ {0}, NEW c \in Int, -n < n * c, n * c < n
  PROVE  c = 0
<1>1. CASE c >= 1
  <2>1. n * c = n + n * (c - 1)
    BY SMT
  <2>2. n * (c - 1) >= 0
    BY <1>1, SMT
  <2> QED
    BY <2>1, <2>2
<1>2. CASE c <= -1
  <2>1. n * c = n * (c + 1) - n
    BY SMT
  <2>2. n * (c + 1) <= 0
    BY <1>2, SMT
  <2> QED
    BY <2>1, <2>2
<1> QED
  BY <1>1, <1>2

(* Two numbers less than n apart with the same remainder are equal: a      *)
(* counter is recognised by its low bits.                                  *)
LEMMA ModInjective ==
  ASSUME NEW n \in Nat \ {0}, NEW a \in Int, NEW b \in Int,
         a % n = b % n, -n < a - b, a - b < n
  PROVE  a = b
<1>1. a - b = n * ((a \div n) - (b \div n))
  BY DivMod
<1>2. (a \div n) - (b \div n) = 0
  BY <1>1, SmallMultiple, DivMod
<1> QED
  BY <1>1, <1>2, DivMod

(* Quotient and remainder are determined by their ranges.                  *)
LEMMA ModUnique ==
  ASSUME NEW n \in Nat \ {0}, NEW q \in Int, NEW r \in 0..(n - 1)
  PROVE  (n * q + r) % n = r
<1> DEFINE a == n * q + r
<1>1. a \in Int
  OBVIOUS
<1>2. a \div n \in Int /\ a = n * (a \div n) + (a % n)
  BY <1>1, DivMod
<1>3. a % n \in 0..(n - 1)
  BY <1>1, ModRange
<1>4. n * (q - (a \div n)) = (a % n) - r
  BY <1>2, SMT
<1>5. q - (a \div n) = 0
  <2> HIDE DEF a
  <2> QED
    BY <1>1, <1>2, <1>3, <1>4, SmallMultiple, SMT
<1> QED
  BY <1>2, <1>5, SMT

(* Remainders repeat with the modulus.                                     *)
LEMMA ModRepeats ==
  ASSUME NEW n \in Nat \ {0}, NEW a \in Int
  PROVE  (a + n) % n = a % n
<1>1. a \div n \in Int /\ a = n * (a \div n) + (a % n)
  BY DivMod
<1>2. a % n \in 0..(n - 1)
  BY ModRange
<1>3. a + n = n * ((a \div n) + 1) + (a % n)
  BY <1>1, <1>2, SMT
<1>4. (n * ((a \div n) + 1) + (a % n)) % n = a % n
  <2>1. (a \div n) + 1 \in Int
    BY <1>1
  <2> QED
    BY <1>2, <2>1, ModUnique
<1> QED
  BY <1>3, <1>4

(* A set of naturals has a least element.                                  *)
LEMMA LeastElement ==
  ASSUME NEW T, T \subseteq Nat, T # {}
  PROVE  \E n \in T : \A m \in T : n <= m
<1> DEFINE R == {ss \in Nat \X Nat : ss[1] < ss[2]}
<1>1. IsWellFoundedOn(R, Nat)
  BY NatLessThanWellFounded DEF OpToRel
<1>2. PICK x \in T : \A y \in T : <<y, x>> \notin R
  BY <1>1, WFMin
<1>3. \A x1, y1 \in Nat : x1 < y1 => <<x1, y1>> \in R
  OBVIOUS
<1> HIDE DEF R
<1>4. ASSUME NEW m \in T PROVE x <= m
  <2>1. x \in Nat /\ m \in Nat
    OBVIOUS
  <2>2. <<m, x>> \notin R
    BY <1>2
  <2>3. ~(m < x)
    BY <2>1, <2>2, <1>3
  <2> QED
    BY <2>1, <2>3
<1> QED
  BY <1>4

(* A scan of at most b places stops at the first one outside A, or at b.   *)
LEMMA ScanStops ==
  ASSUME NEW b \in Nat, NEW A
  PROVE  \E n \in 0..b : /\ \A i \in 0..(n - 1) : i \in A
                         /\ n = b \/ n \notin A
<1> DEFINE T == {n \in 0..b : n = b \/ n \notin A}
<1>1. PICK n \in T : \A m \in T : n <= m
  <2>1. T \subseteq Nat /\ T # {}
    OBVIOUS
  <2> QED
    BY <2>1, LeastElement
<1>2. ASSUME NEW i \in 0..(n - 1) PROVE i \in A
  BY <1>1
<1> QED
  BY <1>1, <1>2

(* A function on 1..n is a sequence.                                       *)
LEMMA FunctionIsSeq ==
  ASSUME NEW S, NEW n \in Nat, NEW f \in [1..n -> S]
  PROVE  f \in Seq(S) /\ Len(f) = n
OBVIOUS

-----------------------------------------------------------------------------
Events == (1..MaxEvents) \X Kinds

(* Shape of the state, in the form the proofs use.                         *)
Controls ==
  /\ si_type \in {"message", "line"}
  /\ cpc \in {"down", "testing", "testfail", "evstart", "evwait", "up", "evstop",
              "intrstop", "busdisable"}
  /\ cq \in -1..(NAlloc - 1) /\ starts \in 0..MaxStarts
  /\ si_state \in {"INITIALIZED", "TESTING", "STARTED"}
  /\ si_mask \subseteq AllQs /\ si_zero_count \in {0, 1}
  /\ bus \in BOOLEAN /\ line \in BOOLEAN /\ isr \in BOOLEAN /\ msg \subseteq AllQs
  /\ se_state \in [AllQs -> {"INITIALIZED", "STARTING", "STARTED"}]
  /\ se_lock \in [AllQs -> BOOLEAN] /\ armed \in [AllQs -> BOOLEAN]
  /\ hpc \in [AllQs -> {"idle", "enter", "prime", "read", "handle", "clear",
                        "done"}]
  /\ stale \in [AllQs -> BOOLEAN] /\ restart \in BOOLEAN

Counters ==
  /\ se_count \in [AllQs -> Nat] /\ se_tx \in [AllQs -> Nat]
  /\ k \in [AllQs -> Nat] /\ count \in [AllQs -> Nat] /\ last \in [AllQs -> Nat]
  /\ wr \in [AllQs -> 0..MaxEvents] /\ rptr \in [AllQs -> 0..(Ring - 1)]

Rings ==
  /\ ring \in [AllQs -> [0..(Ring - 1) -> Events \cup {Absent}]]
  /\ batch \in [AllQs -> Seq(Events)]

(* What the starting and stopping thread has done so far.                  *)
CtlInv ==
  /\ cpc \in {"down", "busdisable"} => si_state = "INITIALIZED"
  /\ cpc \in {"testing", "testfail"} => si_state = "TESTING"
  /\ cpc \in {"evstart", "evwait", "up", "evstop", "intrstop"} =>
       si_state = "STARTED"
  /\ cpc \in {"down", "testing", "testfail", "intrstop", "busdisable"} =>
       \A q \in AllQs : ~Live(q)
  /\ cpc = "evstart" => \A q \in AllQs : Live(q) => q < cq
  /\ cpc \in {"evwait", "evstop"} => \A q \in AllQs : Live(q) => q <= cq
  /\ cpc \in {"testing", "evstart", "evwait", "evstop"} => cq \in Evqs
  /\ \A q \in AllQs : Live(q) => q \in Evqs

Polling == {"read", "handle", "clear", "done"}

(* The handler that polls holds se_lock, and the queue lives meanwhile.    *)
PollInv ==
  /\ \A q \in AllQs : se_lock[q] <=> hpc[q] \in Polling
  /\ \A q \in AllQs : hpc[q] \in Polling => Live(q)
  /\ \A q \in AllQs : hpc[q] \notin {"handle", "clear"} => k[q] = 0
  /\ \A q \in AllQs : k[q] <= Len(batch[q])

(* Whatever the ring holds, a queue that lives awaits an interrupt or has  *)
(* one coming.                                                             *)
OwedInv ==
  \A q \in AllQs : Live(q) /\ ~restart /\ cpc # "evstop" =>
    \/ armed[q] /\ rptr[q] = Slot(se_count[q])
    \/ q \in msg \/ (line /\ q = 0) \/ hpc[q] # "idle"

(* Where the queue reads next.                                             *)
Pos(q) == IF se_lock[q] THEN count[q] ELSE se_count[q]

(* The window of a queue that was created at slot 0: the events from Pos   *)
(* to wr are in their slots, under their numbers, and no others.           *)
Window(q) ==
  /\ last[q] = Pos(q) + k[q] /\ last[q] <= wr[q] /\ wr[q] - Pos(q) <= Ring
  /\ \A i \in 0..(Ring - 1) :
       IF i < wr[q] - Pos(q)
       THEN /\ ring[q][Slot(Pos(q) + i)] # Absent
            /\ ring[q][Slot(Pos(q) + i)][1] = Pos(q) + i + 1
       ELSE ring[q][Slot(Pos(q) + i)] = Absent

(* The events of the batch are the next ones.                              *)
InBatch(q) ==
  hpc[q] \in {"handle", "clear"} =>
    /\ Len(batch[q]) <= wr[q] - Pos(q)
    /\ \A i \in 1..Len(batch[q]) : batch[q][i][1] = Pos(q) + i

InWindow(q) ==
  /\ ~Live(q) => wr[q] = 0 /\ last[q] = 0
  /\ Live(q) /\ ~stale[q] => Window(q) /\ InBatch(q)
WindowInv == \A q \in AllQs : InWindow(q)

IInv == /\ Controls /\ Counters /\ Rings
        /\ CtlInv /\ PollInv /\ OwedInv /\ WindowInv

-----------------------------------------------------------------------------
(* Slots and queues.                                                       *)
LEMMA SlotType == \A c \in Int : Slot(c) \in 0..(Ring - 1)
BY ModRange, EventQueueAssumption DEF Slot

(* The event queues are numbered from the interrupting one.                *)
LEMMA EvqsType == /\ Evqs \subseteq AllQs /\ AllQs \subseteq Nat
                  /\ 0 \in Evqs
                  /\ \A q \in Evqs : q # 0 => q - 1 \in Evqs
BY EventQueueAssumption DEF Evqs, AllQs

(* An element of a sequence is one of its set.                             *)
LEMMA NextElement ==
  ASSUME NEW S, NEW s \in Seq(S), NEW i \in Nat, i < Len(s)
  PROVE  s[i + 1] \in S
OBVIOUS

(* sfxge_ev_stop begins with the last queue.                               *)
LEMMA LastQueue ==
  /\ Cardinality(Evqs) - 1 \in Evqs
  /\ Cardinality(Evqs) - 1 \in 0..(NAlloc - 1)
  /\ \A q \in Evqs : q <= Cardinality(Evqs) - 1
<1>1. Cardinality({0}) = 1
  BY FS_Singleton
<1>2. Cardinality(0..(NAlloc - 1)) = NAlloc
  BY FS_Interval, EventQueueAssumption
<1> QED
  BY <1>1, <1>2, EventQueueAssumption DEF Evqs, AllQs

(* A batch ends within the ring.                                           *)
LEMMA BatchInRing ==
  /\ EvBatch <= Ring
  /\ \A q \in AllQs : count[q] \in Nat => BatchEnd(q) \in 1..EvBatch
<1>1. EvBatch <= Ring
  <2>1. /\ EvBatch \in Nat \ {0} /\ Ring \in Nat \ {0}
        /\ Ring % EvBatch = 0
    BY EventQueueAssumption
  <2>2. /\ Ring \div EvBatch \in Int
        /\ Ring = EvBatch * (Ring \div EvBatch) + (Ring % EvBatch)
    BY <2>1, DivMod
  <2>3. Ring = EvBatch * (Ring \div EvBatch)
    BY <2>1, <2>2
  <2>4. CASE Ring < EvBatch
    <3>1. Ring \div EvBatch = 0
      BY <2>1, <2>2, <2>3, <2>4, SmallMultiple
    <3> QED
      BY <3>1, <2>1, <2>3
  <2> QED
    BY <2>1, <2>4
<1>2. \A q \in AllQs : count[q] \in Nat => BatchEnd(q) \in 1..EvBatch
  <2> SUFFICES ASSUME NEW q \in AllQs, count[q] \in Nat
               PROVE  BatchEnd(q) \in 1..EvBatch
    OBVIOUS
  <2>1. EvBatch \in Nat \ {0} /\ count[q] \in Int
    BY EventQueueAssumption
  <2>2. count[q] % EvBatch \in 0..(EvBatch - 1)
    BY <2>1, ModRange
  <2> QED
    BY <2>1, <2>2 DEF BatchEnd
<1> QED
  BY <1>1, <1>2

(* Slots repeat with the ring, and only then.                              *)
LEMMA SlotRepeats == \A c \in Int : Slot(c + Ring) = Slot(c)
BY ModRepeats, EventQueueAssumption DEF Slot

(* Positions less than a ring apart are in different slots.                *)
LEMMA SlotInjective ==
  ASSUME NEW a \in Int, NEW b \in Int, Slot(a) = Slot(b),
         -Ring < a - b, a - b < Ring
  PROVE  a = b
BY ModInjective, EventQueueAssumption DEF Slot

(* What siena_ev_qpoll reads: the events up to the first empty slot or the *)
(* end of the batch period.                                                *)
LEMMA ReadBatch ==
  ASSUME Counters, Rings, NEW q \in AllQs, QPollRead(q)
  PROVE  \E n \in 0..BatchEnd(q) :
           LET b == [i \in 1..n |-> ring[q][Slot(count[q] + (i - 1))]]
           IN  /\ batch' = [batch EXCEPT ![q] = b]
               /\ b \in Seq(Events) /\ Len(b) = n
               /\ \A i \in 0..(n - 1) : ring[q][Slot(count[q] + i)] # Absent
<1> DEFINE At(i) == ring[q][Slot(count[q] + i)]
           Stop(n) == /\ \A i \in 0..(n - 1) : At(i) # Absent
                      /\ n = BatchEnd(q) \/ At(n) = Absent
           n == CHOOSE m \in 0..BatchEnd(q) : Stop(m)
           b == [i \in 1..n |-> At(i - 1)]
<1>1. count[q] \in Nat /\ BatchEnd(q) \in Nat
  BY BatchInRing, EventQueueAssumption DEF Counters
<1>2. \E m \in 0..BatchEnd(q) : Stop(m)
  <2> DEFINE A == {i \in Nat : At(i) # Absent}
  <2>1. \A i \in Nat : i \in A <=> At(i) # Absent
    OBVIOUS
  <2> HIDE DEF A, At
  <2>2. PICK m \in 0..BatchEnd(q) : /\ \A i \in 0..(m - 1) : i \in A
                                    /\ m = BatchEnd(q) \/ m \notin A
    BY <1>1, ScanStops
  <2>3. m \in Nat
    BY <1>1
  <2>4. \A i \in 0..(m - 1) : At(i) # Absent
    BY <2>1, <2>2, <2>3
  <2>5. Stop(m)
    BY <2>1, <2>2, <2>3, <2>4
  <2> HIDE DEF Stop
  <2> QED
    BY <2>5
<1>3. n \in 0..BatchEnd(q) /\ Stop(n)
  <2> HIDE DEF Stop
  <2> QED
    BY <1>2
<1>4. \A i \in 0..(n - 1) : At(i) \in Events
  <2> SUFFICES ASSUME NEW i \in 0..(n - 1) PROVE At(i) \in Events
    OBVIOUS
  <2>1. n \in Nat /\ i \in Nat
    BY <1>1, <1>3
  <2>2. Slot(count[q] + i) \in 0..(Ring - 1)
    BY <1>1, <2>1, SlotType
  <2>3. At(i) \in Events \cup {Absent}
    BY <2>2 DEF Rings
  <2> QED
    BY <2>3, <1>3
<1>5. b \in Seq(Events) /\ Len(b) = n
  <2>1. n \in Nat
    BY <1>1, <1>3
  <2>2. b \in [1..n -> Events]
    <3> HIDE DEF At
    <3> QED
      BY <1>4, <2>1
  <2> HIDE DEF b, n
  <2> QED
    BY <2>1, <2>2, FunctionIsSeq
<1>6. batch' = [batch EXCEPT ![q] = b]
  BY DEF QPollRead
<1> HIDE DEF n
<1> QED
  BY <1>3, <1>5, <1>6

-----------------------------------------------------------------------------
(* Every variable of the control keeps its range.                          *)
LEMMA ControlsNext == IInv /\ [Next]_vars => Controls'
<1> SUFFICES ASSUME IInv, [Next]_vars PROVE Controls'
  OBVIOUS
<1> USE EventQueueAssumption, EvqsType DEF IInv, Controls, vars, ctlvars,
      intrvars, pinvars, hwvars, pollvars
<1>1. CASE IntrStartFails
  BY <1>1 DEF IntrStartFails
<1>2. CASE IntrStart
  <2>1. /\ starts' \in 0..MaxStarts /\ cq' \in -1..(NAlloc - 1)
        /\ bus' \in BOOLEAN
    BY <1>2 DEF IntrStart
  <2>2. /\ cpc' \in {"testing", "evstart"}
        /\ si_state' \in {"TESTING", "STARTED"}
    BY <1>2 DEF IntrStart
  <2>3. line' \in BOOLEAN /\ msg' \subseteq AllQs
    BY <1>2 DEF IntrStart
  <2>4. UNCHANGED <<si_type, si_mask, si_zero_count, isr, se_state, se_lock,
                    armed, hpc, stale, restart>>
    BY <1>2 DEF IntrStart
  <2> QED
    BY <2>1, <2>2, <2>3, <2>4
<1>3. CASE TestDone
  BY <1>3 DEF TestDone
<1>4. CASE TestTimeout
  BY <1>4 DEF TestTimeout
<1>5. CASE TestFail
  BY <1>5 DEF TestFail, HandlersIdle, Quiet
<1>6. CASE IntrStop
  BY <1>6 DEF IntrStop
<1>7. CASE BusDisable
  BY <1>7 DEF BusDisable, HandlersIdle, Quiet
<1>8. CASE EvStop
  <2>1. Cardinality(Evqs) - 1 \in -1..(NAlloc - 1)
    BY LastQueue
  <2> QED
    BY <1>8, <2>1 DEF EvStop
<1>9. ASSUME NEW q \in Evqs, QStart(q) PROVE Controls'
  BY <1>9 DEF QStart
<1>10. ASSUME NEW q \in Evqs, QStartFails(q) PROVE Controls'
  BY <1>10 DEF QStartFails
<1>11. ASSUME NEW q \in Evqs, QStarted(q) PROVE Controls'
  <2>1. cq' \in -1..(NAlloc - 1)
    BY <1>11 DEF QStarted, AllQs
  <2> QED
    BY <1>11, <2>1 DEF QStarted
<1>12. ASSUME NEW q \in Evqs, QStartTimeout(q) PROVE Controls'
  BY <1>12 DEF QStartTimeout, EndQueue
<1>13. ASSUME NEW q \in Evqs, QStop(q) PROVE Controls'
  BY <1>13 DEF QStop, EndQueue, ClearedCount, QStopFree
<1>14. ASSUME NEW q \in Evqs, NEW kind \in Kinds, HwWrite(q, kind)
      PROVE  Controls'
  BY <1>14 DEF HwWrite
<1>15. ASSUME NEW q \in Evqs, NEW lost \in BOOLEAN, HwRaise(q, lost)
      PROVE  Controls'
  <2>1. line' \in BOOLEAN /\ isr' \in BOOLEAN /\ msg' \subseteq AllQs
    BY <1>15 DEF HwRaise
  <2>2. armed' \in [AllQs -> BOOLEAN]
    BY <1>15 DEF HwRaise
  <2>3. UNCHANGED <<ctlvars, intrvars, se_state, se_lock, hpc, stale, restart>>
    BY <1>15 DEF HwRaise
  <2> QED
    BY <2>1, <2>2, <2>3
<1>16. ASSUME NEW q \in Evqs, MsgInterrupt(q) PROVE Controls'
  BY <1>16 DEF MsgInterrupt, NotOurs, Tested, Fatal
<1>17. ASSUME NEW q \in Evqs, Refused(q) PROVE Controls'
  BY <1>17 DEF Refused
<1>18. ASSUME NEW q \in Evqs, QPrime(q) PROVE Controls'
  BY <1>18 DEF QPrime, Prime
<1>19. ASSUME NEW q \in Evqs, QPollEnter(q) PROVE Controls'
  BY <1>19 DEF QPollEnter
<1>20. ASSUME NEW q \in Evqs, QPollRead(q) PROVE Controls'
  BY <1>20 DEF QPollRead
<1>21. ASSUME NEW q \in Evqs, QPollHandle(q) PROVE Controls'
  <2>1. \/ se_state' = se_state
        \/ se_state' = [se_state EXCEPT ![q] = "STARTED"]
    BY <1>21 DEF QPollHandle, Initialized, Completion, Exception
  <2>2. \/ hpc' = hpc
        \/ hpc' = [hpc EXCEPT ![q] = "clear"]
    BY <1>21 DEF QPollHandle, Initialized, Completion, Exception
  <2>3. restart' \in BOOLEAN
    BY <1>21 DEF QPollHandle, Initialized, Completion, Exception
  <2> QED
    BY <1>21, <2>1, <2>2, <2>3 DEF QPollHandle
<1>22. ASSUME NEW q \in Evqs, QPollClear(q) PROVE Controls'
  BY <1>22 DEF QPollClear, Total
<1>23. ASSUME NEW q \in Evqs, QPollDone(q) PROVE Controls'
  BY <1>23 DEF QPollDone, Prime
<1>24. ASSUME NEW ours \in BOOLEAN, LineInterrupt(ours) PROVE Controls'
  BY <1>24 DEF LineInterrupt, NotOurs, Tested, Fatal, ZeroAgain
<1>25. CASE UNCHANGED vars
  BY <1>25
<1> HIDE DEF IInv, Controls, vars, ctlvars, intrvars, pinvars, hwvars,
      pollvars
<1> QED
  BY <1>1, <1>2, <1>3, <1>4, <1>5, <1>6, <1>7, <1>8, <1>9, <1>10, <1>11,
     <1>12, <1>13, <1>14, <1>15, <1>16, <1>17, <1>18, <1>19, <1>20, <1>21,
     <1>22, <1>23, <1>24, <1>25 DEF Next, Controller, Handler, QPoll

(* Every counter keeps its range.                                          *)
LEMMA CountersNext == IInv /\ [Next]_vars => Counters'
<1> SUFFICES ASSUME IInv, [Next]_vars PROVE Counters'
  OBVIOUS
<1> USE EventQueueAssumption, EvqsType DEF IInv, Counters, vars, ctlvars,
      intrvars, pinvars, hwvars, pollvars
<1>1. CASE IntrStartFails
  BY <1>1 DEF IntrStartFails
<1>2. CASE IntrStart
  BY <1>2 DEF IntrStart
<1>3. CASE TestDone
  BY <1>3 DEF TestDone
<1>4. CASE TestTimeout
  BY <1>4 DEF TestTimeout
<1>5. CASE TestFail
  BY <1>5 DEF TestFail, HandlersIdle, Quiet
<1>6. CASE IntrStop
  BY <1>6 DEF IntrStop
<1>7. CASE BusDisable
  BY <1>7 DEF BusDisable, HandlersIdle, Quiet
<1>8. CASE EvStop
  BY <1>8 DEF EvStop
<1>9. ASSUME NEW q \in Evqs, QStart(q) PROVE Counters'
  <2>1. Slot(se_count[q]) \in 0..(Ring - 1)
    BY SlotType
  <2> QED
    BY <1>9, <2>1 DEF QStart
<1>10. ASSUME NEW q \in Evqs, QStartFails(q) PROVE Counters'
  BY <1>10 DEF QStartFails
<1>11. ASSUME NEW q \in Evqs, QStarted(q) PROVE Counters'
  BY <1>11 DEF QStarted
<1>12. ASSUME NEW q \in Evqs, QStartTimeout(q) PROVE Counters'
  BY <1>12 DEF QStartTimeout, EndQueue
<1>13. ASSUME NEW q \in Evqs, QStop(q) PROVE Counters'
  BY <1>13 DEF QStop, EndQueue, ClearedCount, QStopFree
<1>14. ASSUME NEW q \in Evqs, NEW kind \in Kinds, HwWrite(q, kind)
      PROVE  Counters'
  BY <1>14 DEF HwWrite
<1>15. ASSUME NEW q \in Evqs, NEW lost \in BOOLEAN, HwRaise(q, lost)
      PROVE  Counters'
  BY <1>15 DEF HwRaise
<1>16. ASSUME NEW q \in Evqs, MsgInterrupt(q) PROVE Counters'
  BY <1>16 DEF MsgInterrupt, NotOurs, Tested, Fatal
<1>17. ASSUME NEW q \in Evqs, Refused(q) PROVE Counters'
  BY <1>17 DEF Refused
<1>18. ASSUME NEW q \in Evqs, QPrime(q) PROVE Counters'
  <2>1. Slot(se_count[q]) \in 0..(Ring - 1)
    BY SlotType
  <2> QED
    BY <1>18, <2>1 DEF QPrime, Prime
<1>19. ASSUME NEW q \in Evqs, QPollEnter(q) PROVE Counters'
  BY <1>19 DEF QPollEnter
<1>20. ASSUME NEW q \in Evqs, QPollRead(q) PROVE Counters'
  BY <1>20 DEF QPollRead
<1>21. ASSUME NEW q \in Evqs, QPollHandle(q) PROVE Counters'
  <2>1. q \in AllQs
    BY <1>21
  <2>2. k[q] < Len(batch[q]) /\ k[q] \in Nat
    BY <1>21, <2>1 DEF QPollHandle
  <2>3. batch[q] \in Seq(Events)
    BY <2>1 DEF Rings
  <2>4. batch[q][k[q] + 1] \in Events
    BY ONLY <2>2, <2>3, NextElement
  <2>5. batch[q][k[q] + 1][1] \in Nat
    BY <2>4 DEF Events
  <2>6. last' \in [AllQs -> Nat]
    BY <1>21, <2>5 DEF QPollHandle
  <2>7. k' = [k EXCEPT ![q] = k[q] + 1]
    BY ONLY <1>21 DEF QPollHandle
  <2>8. k' \in [AllQs -> Nat]
    BY <2>7, <2>1
  <2>9. \/ se_tx' = [se_tx EXCEPT ![q] = se_tx[q] + 1]
         \/ se_tx' = se_tx
    BY ONLY <1>21 DEF QPollHandle, Initialized, Completion, Exception
  <2>10. se_tx' \in [AllQs -> Nat]
    BY <2>9, <2>1
  <2>11. UNCHANGED <<se_count, count, wr, rptr>>
    BY <1>21 DEF QPollHandle
  <2> QED
    BY <2>6, <2>8, <2>10, <2>11
<1>22. ASSUME NEW q \in Evqs, QPollClear(q) PROVE Counters'
  <2>1. /\ count' = [count EXCEPT ![q] = count[q] + k[q]]
        /\ k' = [k EXCEPT ![q] = 0]
        /\ UNCHANGED <<se_count, se_tx, last, wr, rptr>>
    BY ONLY <1>22 DEF QPollClear, Total, pollvars
  <2>2. count[q] + k[q] \in Nat
    BY <1>22
  <2> QED
    BY ONLY <2>1, <2>2, Counters DEF Counters
<1>23. ASSUME NEW q \in Evqs, QPollDone(q) PROVE Counters'
  <2>1. Slot(count[q]) \in 0..(Ring - 1)
    BY SlotType
  <2> QED
    BY <1>23, <2>1 DEF QPollDone, Prime
<1>24. ASSUME NEW ours \in BOOLEAN, LineInterrupt(ours) PROVE Counters'
  BY <1>24 DEF LineInterrupt, NotOurs, Tested, Fatal, ZeroAgain
<1>25. CASE UNCHANGED vars
  BY <1>25
<1> HIDE DEF IInv, Counters, vars, ctlvars, intrvars, pinvars, hwvars,
      pollvars
<1> QED
  BY <1>1, <1>2, <1>3, <1>4, <1>5, <1>6, <1>7, <1>8, <1>9, <1>10, <1>11,
     <1>12, <1>13, <1>14, <1>15, <1>16, <1>17, <1>18, <1>19, <1>20, <1>21,
     <1>22, <1>23, <1>24, <1>25 DEF Next, Controller, Handler, QPoll

(* A slot that is filled leaves the others alone.                          *)
LEMMA SetSlot ==
  ASSUME NEW T, NEW f \in [AllQs -> [0..(Ring - 1) -> T]], NEW q \in AllQs,
         NEW s \in 0..(Ring - 1), NEW e \in T
  PROVE  [f EXCEPT ![q][s] = e] \in [AllQs -> [0..(Ring - 1) -> T]]
OBVIOUS

(* The ring and the batch hold events.                                     *)
LEMMA RingsNext == IInv /\ [Next]_vars => Rings'
<1> SUFFICES ASSUME IInv, [Next]_vars PROVE Rings'
  OBVIOUS
<1> USE EventQueueAssumption, EvqsType DEF IInv, Rings, vars, ctlvars,
      intrvars, pinvars, hwvars, pollvars
<1>1. CASE IntrStartFails
  BY <1>1 DEF IntrStartFails
<1>2. CASE IntrStart
  BY <1>2 DEF IntrStart
<1>3. CASE TestDone
  BY <1>3 DEF TestDone
<1>4. CASE TestTimeout
  BY <1>4 DEF TestTimeout
<1>5. CASE TestFail
  BY <1>5 DEF TestFail, HandlersIdle, Quiet
<1>6. CASE IntrStop
  BY <1>6 DEF IntrStop
<1>7. CASE BusDisable
  BY <1>7 DEF BusDisable, HandlersIdle, Quiet
<1>8. CASE EvStop
  BY <1>8 DEF EvStop
<1>9. ASSUME NEW q \in Evqs, QStart(q) PROVE Rings'
  <2>1. ring' = [ring EXCEPT ![q] = [s \in 0..(Ring - 1) |-> Absent]]
    BY <1>9 DEF QStart
  <2>2. batch' = batch
    BY <1>9 DEF QStart
  <2> QED
    BY ONLY <2>1, <2>2, Rings DEF Rings
<1>10. ASSUME NEW q \in Evqs, QStartFails(q) PROVE Rings'
  BY <1>10 DEF QStartFails
<1>11. ASSUME NEW q \in Evqs, QStarted(q) PROVE Rings'
  BY <1>11 DEF QStarted
<1>12. ASSUME NEW q \in Evqs, QStartTimeout(q) PROVE Rings'
  BY <1>12 DEF QStartTimeout, EndQueue
<1>13. ASSUME NEW q \in Evqs, QStop(q) PROVE Rings'
  BY <1>13 DEF QStop, EndQueue, ClearedCount, QStopFree
<1>14. ASSUME NEW q \in Evqs, NEW kind \in Kinds, HwWrite(q, kind)
      PROVE  Rings'
  <2>1. /\ ring' = [ring EXCEPT ![q][Slot(wr[q])] = <<wr[q] + 1, kind>>]
        /\ batch' = batch /\ wr[q] < MaxEvents
    BY <1>14 DEF HwWrite
  <2>2. q \in AllQs /\ wr[q] \in Nat
    BY <1>14 DEF Counters
  <2>3. Slot(wr[q]) \in 0..(Ring - 1)
    BY ONLY <2>2, SlotType
  <2>4. <<wr[q] + 1, kind>> \in Events \cup {Absent}
    BY <1>14, <2>1, <2>2 DEF Events
  <2>5. ring' \in [AllQs -> [0..(Ring - 1) -> Events \cup {Absent}]]
    <3>1. ring \in [AllQs -> [0..(Ring - 1) -> Events \cup {Absent}]]
      OBVIOUS
    <3> QED
      BY ONLY <3>1, <2>1, <2>2, <2>3, <2>4, SetSlot
  <2> QED
    BY <2>1, <2>5
<1>15. ASSUME NEW q \in Evqs, NEW lost \in BOOLEAN, HwRaise(q, lost)
      PROVE  Rings'
  BY <1>15 DEF HwRaise
<1>16. ASSUME NEW q \in Evqs, MsgInterrupt(q) PROVE Rings'
  BY <1>16 DEF MsgInterrupt, NotOurs, Tested, Fatal
<1>17. ASSUME NEW q \in Evqs, Refused(q) PROVE Rings'
  BY <1>17 DEF Refused
<1>18. ASSUME NEW q \in Evqs, QPrime(q) PROVE Rings'
  BY <1>18 DEF QPrime, Prime
<1>19. ASSUME NEW q \in Evqs, QPollEnter(q) PROVE Rings'
  BY <1>19 DEF QPollEnter
<1>20. ASSUME NEW q \in Evqs, QPollRead(q) PROVE Rings'
  <2>1. q \in AllQs /\ Counters /\ Rings
    BY <1>20
  <2>2. \E b \in Seq(Events) : batch' = [batch EXCEPT ![q] = b]
    BY ONLY <1>20, <2>1, ReadBatch
  <2>3. ring' = ring
    BY <1>20 DEF QPollRead
  <2> QED
    BY <2>2, <2>3
<1>21. ASSUME NEW q \in Evqs, QPollHandle(q) PROVE Rings'
  BY <1>21 DEF QPollHandle, Initialized, Completion, Exception
<1>22. ASSUME NEW q \in Evqs, QPollClear(q) PROVE Rings'
  <2>1. q \in AllQs
    BY <1>22
  <2>2. \E f \in [0..(Ring - 1) -> Events \cup {Absent}] :
          ring' = [ring EXCEPT ![q] = f]
    <3> DEFINE f == [s \in 0..(Ring - 1) |->
                       IF \E i \in 0..(k[q] - 1) : s = Slot(count[q] + i)
                       THEN Absent ELSE ring[q][s]]
    <3>1. f \in [0..(Ring - 1) -> Events \cup {Absent}]
      BY <2>1
    <3>2. ring' = [ring EXCEPT ![q] = f]
      BY <2>1, <1>22 DEF QPollClear, Total
    <3> QED
      BY <3>1, <3>2
  <2>3. batch' = [batch EXCEPT ![q] = << >>]
    BY <1>22 DEF QPollClear
  <2>4. << >> \in Seq(Events)
    OBVIOUS
  <2> QED
    BY <2>1, <2>2, <2>3, <2>4
<1>23. ASSUME NEW q \in Evqs, QPollDone(q) PROVE Rings'
  BY <1>23 DEF QPollDone, Prime
<1>24. ASSUME NEW ours \in BOOLEAN, LineInterrupt(ours) PROVE Rings'
  BY <1>24 DEF LineInterrupt, NotOurs, Tested, Fatal, ZeroAgain
<1>25. CASE UNCHANGED vars
  BY <1>25
<1> HIDE DEF IInv, Rings, vars, ctlvars, intrvars, pinvars, hwvars, pollvars
<1> QED
  BY <1>1, <1>2, <1>3, <1>4, <1>5, <1>6, <1>7, <1>8, <1>9, <1>10, <1>11,
     <1>12, <1>13, <1>14, <1>15, <1>16, <1>17, <1>18, <1>19, <1>20, <1>21,
     <1>22, <1>23, <1>24, <1>25 DEF Next, Controller, Handler, QPoll

(* Which queues live.                                                      *)
LEMMA LiveSame == se_state' = se_state => \A q : Live(q)' <=> Live(q)
BY DEF Live

(* sfxge_ev_qstart makes one queue live and no other.                      *)
LEMMA LiveStart ==
  ASSUME Controls, NEW q \in AllQs, NEW s \in {"STARTING", "STARTED"},
         se_state' = [se_state EXCEPT ![q] = s]
  PROVE  \A r \in AllQs : Live(r)' <=> Live(r) \/ r = q
BY DEF Live, Controls

(* The end of a queue leaves every other queue as it was.                  *)
LEMMA LiveEnd ==
  ASSUME Controls, NEW q \in AllQs, EndQueue(q)
  PROVE  \A r \in AllQs : Live(r)' <=> Live(r) /\ r # q
BY DEF Live, Controls, EndQueue

(* The handlers and the controller leave the thread's progress alone.      *)
LEMMA CtlFrame ==
  ASSUME CtlInv, UNCHANGED <<cpc, cq, si_state, si_type>>,
         \A q \in AllQs : Live(q)' <=> Live(q)
  PROVE  CtlInv'
<1>1. Evqs' = Evqs
  BY DEF Evqs
<1> QED
  BY <1>1 DEF CtlInv

(* The starting and stopping thread.                                       *)
LEMMA CtlNext == IInv /\ [Next]_vars => CtlInv'
<1> SUFFICES ASSUME IInv, [Next]_vars PROVE CtlInv'
  OBVIOUS
<1> USE EventQueueAssumption, EvqsType DEF IInv, CtlInv, vars, ctlvars,
      intrvars, pinvars, hwvars, pollvars
<1>1. CASE IntrStartFails
  <2>1. UNCHANGED <<cpc, cq, si_state, si_type>>
    BY <1>1 DEF IntrStartFails
  <2>2. se_state' = se_state
    BY <1>1 DEF IntrStartFails
  <2> QED
    BY <2>1, <2>2, CtlFrame, LiveSame
<1>2. CASE IntrStart
  <2>1. Evqs' = Evqs /\ \A r : Live(r)' <=> Live(r)
    BY <1>2, LiveSame DEF IntrStart, Evqs
  <2> QED
    BY <1>2, <2>1 DEF IntrStart
<1>3. CASE TestDone
  <2>1. Evqs' = Evqs /\ \A r : Live(r)' <=> Live(r)
    BY <1>3, LiveSame DEF TestDone, Evqs
  <2> QED
    BY <1>3, <2>1 DEF TestDone
<1>4. CASE TestTimeout
  <2>1. Evqs' = Evqs /\ \A r : Live(r)' <=> Live(r)
    BY <1>4, LiveSame DEF TestTimeout, Evqs
  <2> QED
    BY <1>4, <2>1 DEF TestTimeout
<1>5. CASE TestFail
  <2>1. Evqs' = Evqs /\ \A r : Live(r)' <=> Live(r)
    BY <1>5, LiveSame DEF TestFail, Evqs
  <2> QED
    BY <1>5, <2>1 DEF TestFail
<1>6. CASE IntrStop
  <2>1. Evqs' = Evqs /\ \A r : Live(r)' <=> Live(r)
    BY <1>6, LiveSame DEF IntrStop, Evqs
  <2> QED
    BY <1>6, <2>1 DEF IntrStop
<1>7. CASE BusDisable
  <2>1. Evqs' = Evqs /\ \A r : Live(r)' <=> Live(r)
    BY <1>7, LiveSame DEF BusDisable, Evqs
  <2> QED
    BY <1>7, <2>1 DEF BusDisable
<1>8. CASE EvStop
  <2>1. cq' \in Evqs /\ \A q \in Evqs : q <= cq'
    BY <1>8, LastQueue DEF EvStop
  <2>2. Evqs' = Evqs /\ \A r : Live(r)' <=> Live(r)
    BY <1>8, LiveSame DEF EvStop, Evqs
  <2> QED
    BY <1>8, <2>1, <2>2 DEF EvStop
<1>9. ASSUME NEW q \in Evqs, QStart(q) PROVE CtlInv'
  <2>1. Evqs' = Evqs
    BY <1>9 DEF QStart, Evqs
  <2>2. q \in AllQs /\ se_state' = [se_state EXCEPT ![q] = "STARTING"]
    BY <1>9 DEF QStart
  <2>3. \A r \in AllQs : Live(r)' <=> Live(r) \/ r = q
    BY <2>2, LiveStart
  <2> QED
    BY <1>9, <2>1, <2>2, <2>3 DEF QStart
<1>10. ASSUME NEW q \in Evqs, QStartFails(q) PROVE CtlInv'
  <2>1. Evqs' = Evqs /\ \A r : Live(r)' <=> Live(r)
    BY <1>10, LiveSame DEF QStartFails, Evqs
  <2> QED
    BY <1>10, <2>1 DEF QStartFails
<1>11. ASSUME NEW q \in Evqs, QStarted(q) PROVE CtlInv'
  <2>1. Evqs' = Evqs /\ \A r : Live(r)' <=> Live(r)
    BY <1>11, LiveSame DEF QStarted, Evqs
  <2> QED
    BY <1>11, <2>1 DEF QStarted
<1>12. ASSUME NEW q \in Evqs, QStartTimeout(q) PROVE CtlInv'
  <2>1. Evqs' = Evqs
    BY <1>12 DEF QStartTimeout, Evqs, EndQueue
  <2>2. q \in AllQs /\ EndQueue(q)
    BY <1>12 DEF QStartTimeout
  <2>3. \A r \in AllQs : Live(r)' <=> Live(r) /\ r # q
    BY <2>2, LiveEnd
  <2> QED
    BY <1>12, <2>1, <2>2, <2>3 DEF QStartTimeout
<1>13. ASSUME NEW q \in Evqs, QStop(q) PROVE CtlInv'
  <2>1. Evqs' = Evqs
    BY <1>13 DEF QStop, Evqs, EndQueue
  <2>2. q \in AllQs /\ EndQueue(q)
    BY <1>13 DEF QStop
  <2>3. \A r \in AllQs : Live(r)' <=> Live(r) /\ r # q
    BY <2>2, LiveEnd
  <2> QED
    BY <1>13, <2>1, <2>2, <2>3 DEF QStop
<1>14. ASSUME NEW q \in Evqs, NEW kind \in Kinds, HwWrite(q, kind)
      PROVE  CtlInv'
  <2>1. UNCHANGED <<cpc, cq, si_state, si_type>>
    BY <1>14 DEF HwWrite
  <2>2. se_state' = se_state
    BY <1>14 DEF HwWrite
  <2> QED
    BY <2>1, <2>2, CtlFrame, LiveSame
<1>15. ASSUME NEW q \in Evqs, NEW lost \in BOOLEAN, HwRaise(q, lost)
      PROVE  CtlInv'
  <2>1. UNCHANGED <<cpc, cq, si_state, si_type>>
    BY <1>15 DEF HwRaise
  <2>2. se_state' = se_state
    BY <1>15 DEF HwRaise
  <2> QED
    BY <2>1, <2>2, CtlFrame, LiveSame
<1>16. ASSUME NEW q \in Evqs, MsgInterrupt(q) PROVE CtlInv'
  <2>1. UNCHANGED <<cpc, cq, si_state, si_type>>
    BY <1>16 DEF MsgInterrupt
  <2>2. se_state' = se_state
    BY <1>16 DEF MsgInterrupt
  <2> QED
    BY <2>1, <2>2, CtlFrame, LiveSame
<1>17. ASSUME NEW q \in Evqs, Refused(q) PROVE CtlInv'
  <2>1. UNCHANGED <<cpc, cq, si_state, si_type>>
    BY <1>17 DEF Refused
  <2>2. se_state' = se_state
    BY <1>17 DEF Refused
  <2> QED
    BY <2>1, <2>2, CtlFrame, LiveSame
<1>18. ASSUME NEW q \in Evqs, QPrime(q) PROVE CtlInv'
  <2>1. UNCHANGED <<cpc, cq, si_state, si_type>>
    BY <1>18 DEF QPrime
  <2>2. se_state' = se_state
    BY <1>18 DEF QPrime
  <2> QED
    BY <2>1, <2>2, CtlFrame, LiveSame
<1>19. ASSUME NEW q \in Evqs, QPollEnter(q) PROVE CtlInv'
  <2>1. UNCHANGED <<cpc, cq, si_state, si_type>>
    BY <1>19 DEF QPollEnter
  <2>2. se_state' = se_state
    BY <1>19 DEF QPollEnter
  <2> QED
    BY <2>1, <2>2, CtlFrame, LiveSame
<1>20. ASSUME NEW q \in Evqs, QPollRead(q) PROVE CtlInv'
  <2>1. UNCHANGED <<cpc, cq, si_state, si_type>>
    BY <1>20 DEF QPollRead
  <2>2. se_state' = se_state
    BY <1>20 DEF QPollRead
  <2> QED
    BY <2>1, <2>2, CtlFrame, LiveSame
<1>21. ASSUME NEW q \in Evqs, QPollHandle(q) PROVE CtlInv'
  <2>1. UNCHANGED <<cpc, cq, si_state, si_type>>
    BY <1>21 DEF QPollHandle
  <2>2. q \in AllQs /\ Live(q)
    BY <1>21 DEF QPollHandle, PollInv, Polling
  <2>3. \/ se_state' = se_state
        \/ se_state' = [se_state EXCEPT ![q] = "STARTED"]
    BY <1>21 DEF QPollHandle, Initialized, Completion, Exception
  <2>4. \A r \in AllQs : Live(r)' <=> Live(r)
    BY <2>2, <2>3, LiveSame, LiveStart
  <2> QED
    BY <2>1, <2>4, CtlFrame
<1>22. ASSUME NEW q \in Evqs, QPollClear(q) PROVE CtlInv'
  <2>1. UNCHANGED <<cpc, cq, si_state, si_type>>
    BY <1>22 DEF QPollClear
  <2>2. se_state' = se_state
    BY <1>22 DEF QPollClear
  <2> QED
    BY <2>1, <2>2, CtlFrame, LiveSame
<1>23. ASSUME NEW q \in Evqs, QPollDone(q) PROVE CtlInv'
  <2>1. UNCHANGED <<cpc, cq, si_state, si_type>>
    BY <1>23 DEF QPollDone
  <2>2. se_state' = se_state
    BY <1>23 DEF QPollDone
  <2> QED
    BY <2>1, <2>2, CtlFrame, LiveSame
<1>24. ASSUME NEW ours \in BOOLEAN, LineInterrupt(ours) PROVE CtlInv'
  <2>1. UNCHANGED <<cpc, cq, si_state, si_type>>
    BY <1>24 DEF LineInterrupt
  <2>2. se_state' = se_state
    BY <1>24 DEF LineInterrupt
  <2> QED
    BY <2>1, <2>2, CtlFrame, LiveSame
<1>25. CASE UNCHANGED vars
  <2>1. UNCHANGED <<cpc, cq, si_state, si_type>>
    BY <1>25
  <2>2. se_state' = se_state
    BY <1>25
  <2> QED
    BY <2>1, <2>2, CtlFrame, LiveSame
<1> HIDE DEF IInv, CtlInv, vars, ctlvars, intrvars, pinvars, hwvars, pollvars
<1> QED
  BY <1>1, <1>2, <1>3, <1>4, <1>5, <1>6, <1>7, <1>8, <1>9, <1>10, <1>11,
     <1>12, <1>13, <1>14, <1>15, <1>16, <1>17, <1>18, <1>19, <1>20, <1>21,
     <1>22, <1>23, <1>24, <1>25 DEF Next, Controller, Handler, QPoll

(* The handler that polls.                                                 *)
LEMMA PollNext == IInv /\ [Next]_vars => PollInv'
<1> SUFFICES ASSUME IInv, [Next]_vars PROVE PollInv'
  OBVIOUS
<1> USE EventQueueAssumption, EvqsType DEF IInv, Controls, PollInv, Polling,
      Live, vars, ctlvars, intrvars, pinvars, hwvars, pollvars
<1>1. CASE IntrStartFails
  BY <1>1 DEF IntrStartFails
<1>2. CASE IntrStart
  BY <1>2 DEF IntrStart
<1>3. CASE TestDone
  BY <1>3 DEF TestDone
<1>4. CASE TestTimeout
  BY <1>4 DEF TestTimeout
<1>5. CASE TestFail
  BY <1>5 DEF TestFail, HandlersIdle, Quiet
<1>6. CASE IntrStop
  BY <1>6 DEF IntrStop
<1>7. CASE BusDisable
  BY <1>7 DEF BusDisable, HandlersIdle, Quiet
<1>8. CASE EvStop
  BY <1>8 DEF EvStop
<1>9. ASSUME NEW q \in Evqs, QStart(q) PROVE PollInv'
  BY <1>9 DEF QStart
<1>10. ASSUME NEW q \in Evqs, QStartFails(q) PROVE PollInv'
  BY <1>10 DEF QStartFails
<1>11. ASSUME NEW q \in Evqs, QStarted(q) PROVE PollInv'
  BY <1>11 DEF QStarted
<1>12. ASSUME NEW q \in Evqs, QStartTimeout(q) PROVE PollInv'
  BY <1>12 DEF QStartTimeout, EndQueue
<1>13. ASSUME NEW q \in Evqs, QStop(q) PROVE PollInv'
  BY <1>13 DEF QStop, EndQueue, ClearedCount, QStopFree
<1>14. ASSUME NEW q \in Evqs, NEW kind \in Kinds, HwWrite(q, kind)
      PROVE  PollInv'
  BY <1>14 DEF HwWrite
<1>15. ASSUME NEW q \in Evqs, NEW lost \in BOOLEAN, HwRaise(q, lost)
      PROVE  PollInv'
  BY <1>15 DEF HwRaise
<1>16. ASSUME NEW q \in Evqs, MsgInterrupt(q) PROVE PollInv'
  BY <1>16 DEF MsgInterrupt, NotOurs, Tested, Fatal
<1>17. ASSUME NEW q \in Evqs, Refused(q) PROVE PollInv'
  BY <1>17 DEF Refused
<1>18. ASSUME NEW q \in Evqs, QPrime(q) PROVE PollInv'
  BY <1>18 DEF QPrime, Prime
<1>19. ASSUME NEW q \in Evqs, QPollEnter(q) PROVE PollInv'
  BY <1>19 DEF QPollEnter
<1>20. ASSUME NEW q \in Evqs, QPollRead(q) PROVE PollInv'
  <2>1. q \in AllQs /\ Counters /\ Rings
    BY <1>20
  <2>2. PICK b \in Seq(Events) : batch' = [batch EXCEPT ![q] = b]
    BY ONLY <1>20, <2>1, ReadBatch
  <2>3. /\ k' = [k EXCEPT ![q] = 0] /\ hpc' = [hpc EXCEPT ![q] = "handle"]
        /\ hpc[q] = "read" /\ UNCHANGED <<se_lock, se_state>>
    BY <1>20 DEF QPollRead
  <2>4. \A r \in AllQs : k'[r] <= Len(batch'[r])
    <3> SUFFICES ASSUME NEW r \in AllQs PROVE k'[r] <= Len(batch'[r])
      OBVIOUS
    <3>1. CASE r = q
      <4>1. k'[r] = 0 /\ batch'[r] = b /\ Len(b) \in Nat
        BY <2>2, <2>3, <3>1 DEF Counters, Rings
      <4> QED
        BY <4>1
    <3>2. CASE r # q
      <4>1. k'[r] = k[r] /\ batch'[r] = batch[r]
        BY <2>2, <2>3, <3>2 DEF Counters, Rings
      <4> QED
        BY <4>1
    <3> QED
      BY <3>1, <3>2
  <2> QED
    BY <1>20, <2>3, <2>4 DEF Counters
<1>21. ASSUME NEW q \in Evqs, QPollHandle(q) PROVE PollInv'
  <2>1. /\ q \in AllQs /\ k[q] \in Nat
        /\ batch[q] \in Seq(Events) /\ Len(batch[q]) \in Nat
    BY <1>21 DEF Counters, Rings
  <2>2. /\ hpc[q] = "handle" /\ k[q] < Len(batch[q])
        /\ k' = [k EXCEPT ![q] = k[q] + 1] /\ batch' = batch
        /\ se_lock' = se_lock
    BY <1>21 DEF QPollHandle
  <2>3. \/ hpc' = hpc
        \/ hpc' = [hpc EXCEPT ![q] = "clear"]
    BY <1>21 DEF QPollHandle, Initialized, Completion, Exception
  <2>4. \/ se_state' = se_state
        \/ se_state' = [se_state EXCEPT ![q] = "STARTED"]
    BY <1>21 DEF QPollHandle, Initialized, Completion, Exception
  <2>5. \A r \in AllQs : k'[r] <= Len(batch'[r])
    <3> SUFFICES ASSUME NEW r \in AllQs PROVE k'[r] <= Len(batch'[r])
      OBVIOUS
    <3>1. CASE r = q
      <4>1. k'[r] = k[r] + 1 /\ batch'[r] = batch[r]
        BY <2>2, <3>1 DEF Counters
      <4> QED
        BY ONLY <4>1, <2>1, <2>2, <3>1
    <3>2. CASE r # q
      <4>1. k'[r] = k[r] /\ batch'[r] = batch[r]
        BY <2>1, <2>2, <3>2 DEF Counters
      <4> QED
        BY <4>1
    <3> QED
      BY <3>1, <3>2
  <2>6. \A r \in AllQs : hpc'[r] \notin {"handle", "clear"} => k'[r] = 0
    BY <2>1, <2>2, <2>3 DEF Counters
  <2> QED
    BY <2>1, <2>2, <2>3, <2>4, <2>5, <2>6
<1>22. ASSUME NEW q \in Evqs, QPollClear(q) PROVE PollInv'
  <2>1. /\ q \in AllQs /\ k[q] \in Nat
        /\ batch[q] \in Seq(Events) /\ Len(batch[q]) \in Nat
    BY <1>22 DEF Counters, Rings
  <2>2. /\ hpc[q] \in {"handle", "clear"} /\ k' = [k EXCEPT ![q] = 0]
        /\ batch' = [batch EXCEPT ![q] = << >>]
        /\ UNCHANGED <<se_lock, se_state>>
    BY <1>22 DEF QPollClear
  <2>3. \E s \in {"read", "done"} : hpc' = [hpc EXCEPT ![q] = s]
    BY <1>22 DEF QPollClear
  <2>4. \A r \in AllQs : k'[r] <= Len(batch'[r])
    <3> SUFFICES ASSUME NEW r \in AllQs PROVE k'[r] <= Len(batch'[r])
      OBVIOUS
    <3>1. CASE r = q
      <4>1. k'[r] = 0 /\ batch'[r] = << >>
        BY <2>1, <2>2, <3>1 DEF Counters, Rings
      <4> QED
        BY <4>1
    <3>2. CASE r # q
      <4>1. k'[r] = k[r] /\ batch'[r] = batch[r]
        BY <2>1, <2>2, <3>2 DEF Counters, Rings
      <4> QED
        BY <4>1
    <3> QED
      BY <3>1, <3>2
  <2> QED
    BY <2>1, <2>2, <2>3, <2>4, SMTT(30) DEF Counters
<1>23. ASSUME NEW q \in Evqs, QPollDone(q) PROVE PollInv'
  BY <1>23 DEF QPollDone, Prime
<1>24. ASSUME NEW ours \in BOOLEAN, LineInterrupt(ours) PROVE PollInv'
  BY <1>24 DEF LineInterrupt, NotOurs, Tested, Fatal, ZeroAgain
<1>25. CASE UNCHANGED vars
  BY <1>25
<1> HIDE DEF IInv, Controls, PollInv, Polling, Live, vars, ctlvars, intrvars,
      pinvars, hwvars, pollvars
<1> QED
  BY <1>1, <1>2, <1>3, <1>4, <1>5, <1>6, <1>7, <1>8, <1>9, <1>10, <1>11,
     <1>12, <1>13, <1>14, <1>15, <1>16, <1>17, <1>18, <1>19, <1>20, <1>21,
     <1>22, <1>23, <1>24, <1>25 DEF Next, Controller, Handler, QPoll

(* No interrupt is lost.                                                   *)
LEMMA OwedNext == IInv /\ [Next]_vars => OwedInv'
<1> SUFFICES ASSUME IInv, [Next]_vars PROVE OwedInv'
  OBVIOUS
<1> USE EventQueueAssumption, EvqsType DEF IInv, Controls, OwedInv, CtlInv,
      PollInv, Polling, Live, vars, ctlvars, intrvars, pinvars, hwvars,
      pollvars
<1>1. CASE IntrStartFails
  BY <1>1 DEF IntrStartFails
<1>2. CASE IntrStart
  BY <1>2 DEF IntrStart
<1>3. CASE TestDone
  BY <1>3 DEF TestDone
<1>4. CASE TestTimeout
  BY <1>4 DEF TestTimeout
<1>5. CASE TestFail
  BY <1>5 DEF TestFail, HandlersIdle, Quiet
<1>6. CASE IntrStop
  BY <1>6 DEF IntrStop
<1>7. CASE BusDisable
  BY <1>7 DEF BusDisable, HandlersIdle, Quiet
<1>8. CASE EvStop
  BY <1>8 DEF EvStop
<1>9. ASSUME NEW q \in Evqs, QStart(q) PROVE OwedInv'
  <2>1. q \in AllQs
    BY <1>9
  <2>2. /\ rptr' = [rptr EXCEPT ![q] = Slot(se_count[q])]
        /\ armed' = [armed EXCEPT ![q] = TRUE]
    BY <1>9 DEF QStart
  <2>3. rptr'[q] = Slot(se_count[q]) /\ armed'[q]
    BY <2>1, <2>2 DEF Counters
  <2>4. \A r \in AllQs : r # q => rptr'[r] = rptr[r] /\ armed'[r] = armed[r]
    BY <2>1, <2>2 DEF Counters
  <2>5. /\ UNCHANGED <<se_count, msg, line, hpc, restart>>
        /\ cpc' # "evstop" /\ cpc # "evstop"
        /\ \A r \in AllQs : r # q => se_state'[r] = se_state[r]
    BY <1>9 DEF QStart
  <2>6. \A r \in AllQs : r # q => (Live(r)' <=> Live(r))
    BY <2>5
  <2>7. ASSUME NEW r \in AllQs, Live(r)', ~restart', r # q
        PROVE  \/ armed'[r] /\ rptr'[r] = Slot(se_count'[r])
               \/ r \in msg' \/ (line' /\ r = 0) \/ hpc'[r] # "idle"
    BY <2>4, <2>5, <2>6, <2>7
  <2>8. rptr'[q] = Slot(se_count'[q])
    BY <2>3, <2>5
  <2> QED
    BY <2>3, <2>7, <2>8
<1>10. ASSUME NEW q \in Evqs, QStartFails(q) PROVE OwedInv'
  BY <1>10 DEF QStartFails
<1>11. ASSUME NEW q \in Evqs, QStarted(q) PROVE OwedInv'
  BY <1>11 DEF QStarted
<1>12. ASSUME NEW q \in Evqs, QStartTimeout(q) PROVE OwedInv'
  BY <1>12 DEF QStartTimeout, EndQueue
<1>13. ASSUME NEW q \in Evqs, QStop(q) PROVE OwedInv'
  BY <1>13 DEF QStop, EndQueue, ClearedCount, QStopFree
<1>14. ASSUME NEW q \in Evqs, NEW kind \in Kinds, HwWrite(q, kind)
      PROVE  OwedInv'
  BY <1>14 DEF HwWrite
<1>15. ASSUME NEW q \in Evqs, NEW lost \in BOOLEAN, HwRaise(q, lost)
      PROVE  OwedInv'
  <2>1. /\ UNCHANGED <<se_state, se_count, rptr, hpc, restart, cpc>>
        /\ armed' = [armed EXCEPT ![q] = FALSE]
    BY <1>15 DEF HwRaise
  <2>2. \/ line' = TRUE /\ msg' = msg /\ q = 0
        \/ msg' = msg \cup {q} /\ line' = line
    BY <1>15 DEF HwRaise, Evqs
  <2>3. \A r \in AllQs : r # q => armed'[r] = armed[r]
    BY <2>1
  <2>4. \A r \in AllQs : Slot(se_count[r])' = Slot(se_count[r])
    BY <2>1
  <2> QED
    BY <2>1, <2>2, <2>3, <2>4
<1>16. ASSUME NEW q \in Evqs, MsgInterrupt(q) PROVE OwedInv'
  BY <1>16 DEF MsgInterrupt, NotOurs, Tested, Fatal
<1>17. ASSUME NEW q \in Evqs, Refused(q) PROVE OwedInv'
  BY <1>17 DEF Refused
<1>18. ASSUME NEW q \in Evqs, QPrime(q) PROVE OwedInv'
  <2>1. q \in AllQs
    BY <1>18
  <2>2. /\ rptr' = [rptr EXCEPT ![q] = Slot(se_count[q])]
        /\ armed' = [armed EXCEPT ![q] = TRUE]
    BY <1>18 DEF QPrime, Prime
  <2>3. rptr'[q] = Slot(se_count[q]) /\ armed'[q]
    BY <2>1, <2>2 DEF Counters
  <2>4. \A r \in AllQs : r # q => rptr'[r] = rptr[r] /\ armed'[r] = armed[r]
    BY <2>1, <2>2 DEF Counters
  <2>5. /\ UNCHANGED <<se_count, se_state, cpc, msg, line, restart>>
        /\ \A r \in AllQs : r # q => hpc'[r] = hpc[r]
    BY <1>18 DEF QPrime
  <2>6. ASSUME NEW r \in AllQs, Live(r)', ~restart', cpc' # "evstop", r # q
        PROVE  \/ armed'[r] /\ rptr'[r] = Slot(se_count'[r])
               \/ r \in msg' \/ (line' /\ r = 0) \/ hpc'[r] # "idle"
    BY <2>4, <2>5, <2>6
  <2>7. rptr'[q] = Slot(se_count'[q])
    BY <2>3, <2>5
  <2> QED
    BY <2>3, <2>6, <2>7
<1>19. ASSUME NEW q \in Evqs, QPollEnter(q) PROVE OwedInv'
  BY <1>19 DEF QPollEnter
<1>20. ASSUME NEW q \in Evqs, QPollRead(q) PROVE OwedInv'
  BY <1>20 DEF QPollRead
<1>21. ASSUME NEW q \in Evqs, QPollHandle(q) PROVE OwedInv'
  BY <1>21 DEF QPollHandle, Initialized, Completion, Exception
<1>22. ASSUME NEW q \in Evqs, QPollClear(q) PROVE OwedInv'
  BY <1>22 DEF QPollClear, Total
<1>23. ASSUME NEW q \in Evqs, QPollDone(q) PROVE OwedInv'
  <2>1. q \in AllQs
    BY <1>23
  <2>2. /\ rptr' = [rptr EXCEPT ![q] = Slot(count[q])]
        /\ armed' = [armed EXCEPT ![q] = TRUE]
    BY <1>23 DEF QPollDone, Prime
  <2>3. rptr'[q] = Slot(count[q]) /\ armed'[q]
    BY <2>1, <2>2 DEF Counters
  <2>4. \A r \in AllQs : r # q => rptr'[r] = rptr[r] /\ armed'[r] = armed[r]
    BY <2>1, <2>2 DEF Counters
  <2>5. /\ se_count'[q] = count[q]
        /\ \A r \in AllQs : r # q => /\ se_count'[r] = se_count[r]
                                    /\ hpc'[r] = hpc[r]
        /\ UNCHANGED <<se_state, msg, line, restart, cpc>>
    BY <1>23, <2>1 DEF QPollDone, Counters
  <2>6. /\ Slot(se_count[q])' = Slot(count[q])
        /\ \A r \in AllQs : r # q => Slot(se_count[r])' = Slot(se_count[r])
    BY <2>5 DEF Slot
  <2> QED
    BY <2>3, <2>4, <2>5, <2>6
<1>24. ASSUME NEW ours \in BOOLEAN, LineInterrupt(ours) PROVE OwedInv'
  BY <1>24 DEF LineInterrupt, NotOurs, Tested, Fatal, ZeroAgain
<1>25. CASE UNCHANGED vars
  BY <1>25
<1> HIDE DEF IInv, Controls, OwedInv, CtlInv, PollInv, Polling, Live, vars,
      ctlvars, intrvars, pinvars, hwvars, pollvars
<1> QED
  BY <1>1, <1>2, <1>3, <1>4, <1>5, <1>6, <1>7, <1>8, <1>9, <1>10, <1>11,
     <1>12, <1>13, <1>14, <1>15, <1>16, <1>17, <1>18, <1>19, <1>20, <1>21,
     <1>22, <1>23, <1>24, <1>25 DEF Next, Controller, Handler, QPoll

(* A queue that a step does not concern keeps its window.                  *)
LEMMA Untouched ==
  ASSUME NEW r \in AllQs, InWindow(r), Live(r)' <=> Live(r), Pos(r)' = Pos(r),
         stale'[r] = stale[r], wr'[r] = wr[r], last'[r] = last[r],
         k'[r] = k[r], ring'[r] = ring[r], batch'[r] = batch[r],
         hpc'[r] \in {"handle", "clear"} => hpc[r] \in {"handle", "clear"}
  PROVE  InWindow(r)'
BY DEF InWindow, Window, InBatch

(* The facts about one queue that the steps need.                          *)
LEMMA WindowFacts ==
  ASSUME IInv, NEW q \in AllQs
  PROVE  /\ wr[q] \in Nat /\ last[q] \in Nat /\ k[q] \in Nat
         /\ se_count[q] \in Nat /\ count[q] \in Nat /\ Pos(q) \in Nat
         /\ batch[q] \in Seq(Events) /\ Len(batch[q]) \in Nat
         /\ k[q] <= Len(batch[q])
         /\ hpc[q] \notin {"handle", "clear"} => k[q] = 0
         /\ se_lock[q] <=> hpc[q] \in Polling
         /\ hpc[q] \in Polling => Live(q)
         /\ Ring \in Nat \ {0} /\ InWindow(q)
<1>1. wr[q] \in Nat
  BY EventQueueAssumption DEF IInv, Counters
<1>2. /\ last[q] \in Nat /\ k[q] \in Nat
      /\ se_count[q] \in Nat /\ count[q] \in Nat
  BY DEF IInv, Counters
<1>3. Pos(q) \in Nat
  BY <1>2 DEF Pos
<1>4. batch[q] \in Seq(Events) /\ Len(batch[q]) \in Nat
  BY DEF IInv, Rings
<1>5. /\ k[q] <= Len(batch[q])
      /\ hpc[q] \notin {"handle", "clear"} => k[q] = 0
      /\ se_lock[q] <=> hpc[q] \in Polling
      /\ hpc[q] \in Polling => Live(q)
  BY DEF IInv, PollInv
<1>6. Ring \in Nat \ {0} /\ InWindow(q)
  BY EventQueueAssumption DEF IInv, WindowInv
<1> QED
  BY ONLY <1>1, <1>2, <1>3, <1>4, <1>5, <1>6

(* A step about one queue leaves the others alone.                         *)
Elsewhere(q) ==
  \A r \in AllQs \ {q} :
    /\ se_state'[r] = se_state[r] /\ se_lock'[r] = se_lock[r]
    /\ se_count'[r] = se_count[r] /\ count'[r] = count[r] /\ k'[r] = k[r]
    /\ stale'[r] = stale[r] /\ wr'[r] = wr[r] /\ last'[r] = last[r]
    /\ ring'[r] = ring[r] /\ batch'[r] = batch[r] /\ hpc'[r] = hpc[r]

(* A step that touches one queue leaves the windows of the others alone.   *)
LEMMA OtherQueues ==
  ASSUME IInv, NEW q \in AllQs, Elsewhere(q), InWindow(q)'
  PROVE  WindowInv'
<1> SUFFICES ASSUME NEW r \in AllQs, r # q PROVE InWindow(r)'
  BY DEF WindowInv
<1>1. /\ se_state'[r] = se_state[r] /\ se_lock'[r] = se_lock[r]
      /\ se_count'[r] = se_count[r] /\ count'[r] = count[r] /\ k'[r] = k[r]
      /\ stale'[r] = stale[r] /\ wr'[r] = wr[r] /\ last'[r] = last[r]
      /\ ring'[r] = ring[r] /\ batch'[r] = batch[r] /\ hpc'[r] = hpc[r]
  BY DEF Elsewhere
<1>2. Pos(r)' = Pos(r)
  BY <1>1 DEF Pos
<1>3. Live(r)' <=> Live(r)
  BY <1>1 DEF Live
<1>4. InWindow(r)
  BY DEF IInv, WindowInv
<1> QED
  BY ONLY <1>1, <1>2, <1>3, <1>4, r \in AllQs, Untouched

(* A step that touches no ring leaves every window alone.                  *)
LEMMA AllUntouched ==
  ASSUME IInv, UNCHANGED <<se_state, stale, wr, last, se_lock, count, se_count,
                           k, ring, batch>>,
         \A r \in AllQs : hpc'[r] \in {"handle", "clear"} =>
                            hpc[r] \in {"handle", "clear"}
  PROVE  WindowInv'
<1> SUFFICES ASSUME NEW r \in AllQs PROVE InWindow(r)'
  BY DEF WindowInv
<1>1. Pos(r)' = Pos(r)
  BY DEF Pos
<1>2. Live(r)' <=> Live(r)
  BY DEF Live
<1>3. InWindow(r)
  BY DEF IInv, WindowInv
<1> QED
  BY <1>1, <1>2, <1>3, Untouched

(* sfxge_ev_qstart clears the ring, and the controller begins at its slot  *)
(* 0: the window is the whole ring unless the queue reads elsewhere.       *)
LEMMA StartWindow ==
  ASSUME IInv, NEW q \in Evqs, QStart(q)
  PROVE  InWindow(q)'
<1>1. q \in AllQs
  BY EvqsType
<1>2. ~Live(q)
  BY <1>1, EvqsType DEF QStart, IInv, CtlInv
<1>3. /\ wr[q] = 0 /\ last[q] = 0 /\ k[q] = 0 /\ ~se_lock[q]
      /\ hpc[q] \notin {"handle", "clear"}
  BY <1>1, <1>2, WindowFacts DEF InWindow, Polling
<1>4. /\ wr' = wr /\ last' = last /\ k' = k /\ se_lock' = se_lock
      /\ hpc' = hpc /\ se_count' = se_count
      /\ stale' = [stale EXCEPT ![q] = se_count[q] # 0]
      /\ se_state' = [se_state EXCEPT ![q] = "STARTING"]
      /\ ring' = [ring EXCEPT ![q] = [s \in 0..(Ring - 1) |-> Absent]]
  BY DEF QStart, pollvars
<1>5. /\ \A s \in 0..(Ring - 1) : ring'[q][s] = Absent
      /\ stale'[q] = (se_count[q] # 0) /\ Live(q)'
  BY <1>1, <1>4 DEF IInv, Controls, Rings, Live
<1>6. ASSUME ~stale'[q] PROVE Window(q)'
  <2>1. Pos(q)' = 0
    BY <1>3, <1>4, <1>5, <1>6 DEF Pos
  <2>2. Ring \in Nat \ {0}
    BY EventQueueAssumption
  <2>3. \A i \in 0..(Ring - 1) : Slot(0 + i) \in 0..(Ring - 1)
    BY <2>2, SlotType
  <2> QED
    BY <1>3, <1>4, <1>5, <2>1, <2>2, <2>3 DEF Window
<1> QED
  BY <1>3, <1>4, <1>5, <1>6 DEF InWindow, InBatch

(* An event takes the slot behind the window.                              *)
LEMMA WriteWindow ==
  ASSUME IInv, NEW q \in Evqs, NEW kind \in Kinds, HwWrite(q, kind)
  PROVE  InWindow(q)'
<1>1. q \in AllQs
  BY EvqsType
<1>2. /\ wr[q] \in Nat /\ last[q] \in Nat /\ Pos(q) \in Nat /\ k[q] \in Nat
      /\ Len(batch[q]) \in Nat /\ Ring \in Nat \ {0} /\ InWindow(q)
  BY <1>1, WindowFacts
<1>3. /\ Live(q) /\ ring[q][Slot(wr[q])] = Absent
      /\ UNCHANGED <<se_state, se_lock, se_count, count, k, last, batch, hpc,
                     stale>>
      /\ wr' = [wr EXCEPT ![q] = wr[q] + 1]
      /\ ring' = [ring EXCEPT ![q][Slot(wr[q])] = <<wr[q] + 1, kind>>]
  BY DEF HwWrite, pollvars
<1>4. /\ Pos(q)' = Pos(q) /\ (Live(q)' <=> Live(q)) /\ wr'[q] = wr[q] + 1
  BY <1>1, <1>3 DEF Pos, Live, IInv, Counters
<1>5. ASSUME ~stale[q] PROVE Window(q)' /\ InBatch(q)'
  <2>1. Window(q) /\ InBatch(q)
    BY <1>2, <1>3, <1>5 DEF InWindow
  <2>2. wr[q] - Pos(q) \in 0..(Ring - 1)
    <3>1. wr[q] - Pos(q) \in 0..Ring
      BY <1>2, <2>1 DEF Window
    <3>2. CASE wr[q] - Pos(q) = Ring
      <4>1. wr[q] = Pos(q) + Ring
        BY <1>2, <3>2
      <4>2. Slot(wr[q]) = Slot(Pos(q))
        BY <1>2, <4>1, SlotRepeats
      <4>3. 0 \in 0..(Ring - 1) /\ Pos(q) + 0 = Pos(q) /\ 0 < wr[q] - Pos(q)
        BY <1>2, <3>2
      <4>4. ring[q][Slot(Pos(q) + 0)] # Absent
        BY <2>1, <4>3 DEF Window
      <4> QED
        BY <1>3, <4>2, <4>3, <4>4
    <3> QED
      BY <1>2, <3>1, <3>2
  <2>3. Slot(wr[q]) \in 0..(Ring - 1)
    <3>1. wr[q] \in Int
      BY <1>2
    <3> QED
      BY ONLY <3>1, SlotType
  <2>4. /\ ring'[q][Slot(wr[q])] = <<wr[q] + 1, kind>>
        /\ \A s \in 0..(Ring - 1) : s # Slot(wr[q]) => ring'[q][s] = ring[q][s]
    BY <1>1, <1>3, <2>3 DEF IInv, Rings
  <2>5. ASSUME NEW i \in 0..(Ring - 1)
        PROVE  IF i < wr'[q] - Pos(q)
               THEN /\ ring'[q][Slot(Pos(q) + i)] # Absent
                    /\ ring'[q][Slot(Pos(q) + i)][1] = Pos(q) + i + 1
               ELSE ring'[q][Slot(Pos(q) + i)] = Absent
    <3>1. Slot(Pos(q) + i) \in 0..(Ring - 1)
      <4>1. Pos(q) + i \in Int
        BY <1>2
      <4> QED
        BY ONLY <4>1, SlotType
    <3>2. CASE i = wr[q] - Pos(q)
      <4>1. Pos(q) + i = wr[q] /\ i < wr'[q] - Pos(q)
        BY <1>2, <1>4, <3>2
      <4> QED
        BY <4>1, <2>4 DEF Absent
    <3>3. CASE i # wr[q] - Pos(q)
      <4>1. Slot(Pos(q) + i) # Slot(wr[q])
        <5>1. /\ Pos(q) + i \in Int /\ wr[q] \in Int
              /\ -Ring < (Pos(q) + i) - wr[q] /\ (Pos(q) + i) - wr[q] < Ring
              /\ Pos(q) + i # wr[q]
          BY <1>2, <2>2, <3>3
        <5> QED
          BY ONLY <5>1, SlotInjective
      <4>2. ring'[q][Slot(Pos(q) + i)] = ring[q][Slot(Pos(q) + i)]
        BY <2>4, <3>1, <4>1
      <4>3. (i < wr'[q] - Pos(q)) <=> (i < wr[q] - Pos(q))
        BY <1>2, <1>4, <2>2, <3>3
      <4> QED
        BY <2>1, <4>2, <4>3 DEF Window
    <3> QED
      BY <3>2, <3>3
  <2>6. Window(q)'
    <3>1. /\ last'[q] = Pos(q) + k'[q] /\ last'[q] <= wr'[q]
          /\ wr'[q] - Pos(q) <= Ring
      BY <1>2, <1>3, <1>4, <2>1, <2>2 DEF Window
    <3> QED
      BY <3>1, <1>4, <2>5 DEF Window
  <2>7. InBatch(q)'
    BY <1>2, <1>3, <1>4, <2>1 DEF InBatch
  <2> QED
    BY <2>6, <2>7
<1> QED
  BY <1>3, <1>4, <1>5 DEF InWindow

(* The batch holds the first events of the window.                         *)
LEMMA ReadWindow ==
  ASSUME IInv, NEW q \in Evqs, QPollRead(q)
  PROVE  InWindow(q)'
<1>1. q \in AllQs
  BY EvqsType
<1>2. /\ wr[q] \in Nat /\ Pos(q) \in Nat /\ k[q] = 0 /\ Pos(q) = count[q]
      /\ Ring \in Nat \ {0} /\ InWindow(q) /\ Live(q)
  BY <1>1, WindowFacts DEF QPollRead, Polling, Pos
<1>3. PICK n \in 0..BatchEnd(q) :
        LET b == [i \in 1..n |-> ring[q][Slot(count[q] + (i - 1))]]
        IN  /\ batch' = [batch EXCEPT ![q] = b]
            /\ b \in Seq(Events) /\ Len(b) = n
            /\ \A i \in 0..(n - 1) : ring[q][Slot(count[q] + i)] # Absent
  BY <1>1, ReadBatch DEF IInv
<1>4. /\ UNCHANGED <<se_state, se_lock, se_count, count, last, stale, wr, ring>>
      /\ k' = [k EXCEPT ![q] = 0]
  BY DEF QPollRead, hwvars
<1>5. /\ Pos(q)' = Pos(q) /\ (Live(q)' <=> Live(q)) /\ k'[q] = 0
  BY <1>1, <1>4 DEF Pos, Live, IInv, Counters
<1>6. n \in 0..Ring
  <2>1. BatchEnd(q) \in 1..EvBatch /\ EvBatch <= Ring /\ EvBatch \in Nat
    BY <1>1, BatchInRing, EventQueueAssumption DEF IInv, Counters
  <2> QED
    BY <1>2, <2>1
<1>7. /\ Len(batch'[q]) = n
      /\ \A i \in 1..n : batch'[q][i] = ring[q][Slot(Pos(q) + (i - 1))]
      /\ \A i \in 0..(n - 1) : ring[q][Slot(Pos(q) + i)] # Absent
  <2>1. batch'[q] = [i \in 1..n |-> ring[q][Slot(Pos(q) + (i - 1))]]
    BY <1>1, <1>2, <1>3 DEF IInv, Rings
  <2> QED
    BY <1>2, <1>3, <2>1
<1>8. ASSUME ~stale[q] PROVE Window(q)' /\ InBatch(q)'
  <2>1. Window(q)
    BY <1>2, <1>8 DEF InWindow
  <2>2. \A i \in 0..(n - 1) : i < wr[q] - Pos(q)
    <3> SUFFICES ASSUME NEW i \in 0..(n - 1) PROVE i < wr[q] - Pos(q)
      OBVIOUS
    <3>1. i \in 0..(Ring - 1)
      BY <1>2, <1>6
    <3> QED
      BY <2>1, <3>1, <1>7 DEF Window
  <2>3. n <= wr[q] - Pos(q)
    <3>1. CASE n = 0
      BY <3>1, <1>2, <2>1, <1>4 DEF Window
    <3>2. CASE n # 0
      <4>1. n - 1 \in 0..(n - 1)
        BY <1>2, <1>6, <3>2
      <4> QED
        BY <1>2, <1>6, <2>2, <4>1
    <3> QED
      BY <3>1, <3>2
  <2>4. ASSUME NEW i \in 1..n PROVE batch'[q][i][1] = Pos(q) + i
    <3>1. i - 1 \in 0..(Ring - 1) /\ i - 1 \in 0..(n - 1)
      BY <1>2, <1>6
    <3>2. ring[q][Slot(Pos(q) + (i - 1))][1] = Pos(q) + (i - 1) + 1
      BY <2>1, <2>2, <3>1 DEF Window
    <3> QED
      BY <1>2, <1>7, <3>1, <3>2
  <2>5. Window(q)'
    BY <1>2, <1>4, <1>5, <2>1 DEF Window
  <2>6. InBatch(q)'
    BY <1>4, <1>5, <1>7, <2>3, <2>4 DEF InBatch
  <2> QED
    BY <2>5, <2>6
<1> QED
  BY <1>2, <1>4, <1>5, <1>8 DEF InWindow

(* The event handled is the next one.                                      *)
LEMMA NextEvent ==
  ASSUME IInv, NEW q \in Evqs, QPollHandle(q), ~stale[q]
  PROVE  /\ batch[q][k[q] + 1][1] = Pos(q) + k[q] + 1
         /\ last[q] = Pos(q) + k[q] /\ Pos(q) + k[q] + 1 <= wr[q]
         /\ Live(q) /\ Window(q) /\ InBatch(q)
<1>1. q \in AllQs
  BY EvqsType
<1>2. /\ wr[q] \in Nat /\ Pos(q) \in Nat /\ k[q] \in Nat
      /\ Len(batch[q]) \in Nat /\ Live(q) /\ InWindow(q)
  BY <1>1, WindowFacts DEF QPollHandle, Polling
<1>3. Window(q) /\ InBatch(q)
  BY <1>2 DEF InWindow
<1>4. k[q] + 1 \in 1..Len(batch[q]) /\ hpc[q] = "handle"
  BY <1>2 DEF QPollHandle
<1>5. batch[q][k[q] + 1][1] = Pos(q) + (k[q] + 1)
  BY <1>3, <1>4 DEF InBatch
<1>6. Len(batch[q]) <= wr[q] - Pos(q)
  BY <1>3, <1>4 DEF InBatch
<1> QED
  BY <1>2, <1>3, <1>4, <1>5, <1>6 DEF Window

(* sfxge_ev_qpoll_handle keeps the window of its own queue.                *)
LEMMA HandleWindow ==
  ASSUME IInv, NEW q \in Evqs, QPollHandle(q)
  PROVE  InWindow(q)'
<1>1. q \in AllQs
  BY EvqsType
<1>2. /\ wr[q] \in Nat /\ Pos(q) \in Nat /\ k[q] \in Nat
      /\ Len(batch[q]) \in Nat /\ Ring \in Nat \ {0} /\ Live(q)
  BY <1>1, WindowFacts DEF QPollHandle, Polling
<1>3. /\ UNCHANGED <<se_lock, se_count, count, batch, wr, ring, stale>>
      /\ k' = [k EXCEPT ![q] = k[q] + 1] /\ hpc[q] = "handle"
      /\ last' = [last EXCEPT ![q] = batch[q][k[q] + 1][1]]
  BY DEF QPollHandle, hwvars
<1>4. \/ se_state' = se_state
      \/ se_state' = [se_state EXCEPT ![q] = "STARTED"]
  BY DEF QPollHandle, Initialized, Completion, Exception
<1>5. /\ Pos(q)' = Pos(q) /\ k'[q] = k[q] + 1
      /\ last'[q] = batch[q][k[q] + 1][1]
  BY <1>1, <1>3 DEF Pos, IInv, Counters
<1>6. Live(q)'
  BY <1>1, <1>2, <1>4 DEF Live, IInv, Controls
<1>7. ASSUME ~stale[q] PROVE Window(q)' /\ InBatch(q)'
  <2>1. /\ batch[q][k[q] + 1][1] = Pos(q) + k[q] + 1
        /\ last[q] = Pos(q) + k[q] /\ Pos(q) + k[q] + 1 <= wr[q]
        /\ Live(q) /\ Window(q) /\ InBatch(q)
    BY <1>7, NextEvent
  <2>2. /\ last'[q] = Pos(q) + k'[q] /\ last'[q] <= wr[q]
    BY <1>2, <1>5, <2>1
  <2>3. Window(q)'
    BY <1>3, <1>5, <2>1, <2>2 DEF Window
  <2>4. InBatch(q)'
    BY <1>3, <1>5, <2>1 DEF InBatch
  <2> QED
    BY <2>3, <2>4
<1> QED
  BY <1>3, <1>6, <1>7 DEF InWindow

(* The events handled leave the window, and their slots are empty for the  *)
(* events to come.                                                         *)
LEMMA ClearWindow ==
  ASSUME IInv, NEW q \in Evqs, QPollClear(q)
  PROVE  InWindow(q)'
<1>1. q \in AllQs
  BY EvqsType
<1>2. /\ wr[q] \in Nat /\ Pos(q) \in Nat /\ k[q] \in Nat /\ last[q] \in Nat
      /\ count[q] \in Nat /\ Pos(q) = count[q] /\ k[q] <= Len(batch[q])
      /\ Len(batch[q]) \in Nat /\ Ring \in Nat \ {0} /\ Live(q) /\ InWindow(q)
      /\ se_lock[q]
  <2>1. hpc[q] \in {"handle", "clear"}
    BY DEF QPollClear
  <2> QED
    BY <1>1, <2>1, WindowFacts DEF Polling, Pos
<1>3. /\ UNCHANGED <<se_state, se_lock, se_count, wr, stale, last>>
      /\ k' = [k EXCEPT ![q] = 0] /\ count' = [count EXCEPT ![q] = count[q] + k[q]]
      /\ hpc[q] \in {"handle", "clear"}
      /\ \E s \in {"read", "done"} : hpc' = [hpc EXCEPT ![q] = s]
      /\ ring' = [ring EXCEPT ![q] = [s \in 0..(Ring - 1) |->
                    IF \E j \in 0..(k[q] - 1) : s = Slot(count[q] + j)
                    THEN Absent ELSE ring[q][s]]]
  BY DEF QPollClear, Total
<1>4. /\ k'[q] = 0 /\ Pos(q)' = Pos(q) + k[q] /\ (Live(q)' <=> Live(q))
      /\ hpc'[q] \notin {"handle", "clear"}
  BY <1>1, <1>2, <1>3 DEF Pos, Live, IInv, Controls, Counters
<1>5. \A s \in 0..(Ring - 1) :
        ring'[q][s] = IF \E j \in 0..(k[q] - 1) : s = Slot(Pos(q) + j)
                      THEN Absent ELSE ring[q][s]
  BY <1>1, <1>2, <1>3 DEF IInv, Rings
<1>6. ASSUME ~stale[q] PROVE Window(q)'
  <2>1. Window(q) /\ InBatch(q)
    BY <1>2, <1>6 DEF InWindow
  <2>2. k[q] \in 0..Ring /\ k[q] <= wr[q] - Pos(q)
    BY <1>2, <1>3, <2>1 DEF Window, InBatch
  <2>3. ASSUME NEW i \in 0..(Ring - 1)
        PROVE  IF i < wr[q] - (Pos(q) + k[q])
               THEN /\ ring'[q][Slot(Pos(q) + k[q] + i)] # Absent
                    /\ ring'[q][Slot(Pos(q) + k[q] + i)][1]
                         = Pos(q) + k[q] + i + 1
               ELSE ring'[q][Slot(Pos(q) + k[q] + i)] = Absent
    <3> DEFINE s == Slot(Pos(q) + k[q] + i)
               m == k[q] + i
    <3>1. s \in 0..(Ring - 1)
      <4>1. Pos(q) + k[q] + i \in Int
        BY <1>2
      <4> QED
        BY ONLY <4>1, SlotType
    <3>2. CASE m < Ring
      <4>1. m \in 0..(Ring - 1) /\ Pos(q) + k[q] + i = Pos(q) + m
        BY <1>2, <3>2
      <4>2. ~\E j \in 0..(k[q] - 1) : s = Slot(Pos(q) + j)
        <5> SUFFICES ASSUME NEW j \in 0..(k[q] - 1), s = Slot(Pos(q) + j)
                     PROVE  FALSE
          OBVIOUS
        <5>1. /\ Pos(q) + k[q] + i \in Int /\ Pos(q) + j \in Int
              /\ -Ring < (Pos(q) + k[q] + i) - (Pos(q) + j)
              /\ (Pos(q) + k[q] + i) - (Pos(q) + j) < Ring
              /\ Pos(q) + k[q] + i # Pos(q) + j
          <6>1. /\ Pos(q) \in Int /\ k[q] \in Int /\ j \in Int /\ i \in Int
                /\ Ring \in Int /\ 0 <= j /\ j < k[q] /\ 0 <= i
                /\ k[q] + i < Ring
            BY <1>2, <3>2
          <6> QED
            BY ONLY <6>1
        <5> QED
          BY ONLY <5>1, s = Slot(Pos(q) + j), SlotInjective
      <4>3. ring'[q][s] = ring[q][s]
        BY <1>5, <3>1, <4>2
      <4>4. IF m < wr[q] - Pos(q)
            THEN /\ ring[q][Slot(Pos(q) + m)] # Absent
                 /\ ring[q][Slot(Pos(q) + m)][1] = Pos(q) + m + 1
            ELSE ring[q][Slot(Pos(q) + m)] = Absent
        BY <2>1, <4>1 DEF Window
      <4>5. (i < wr[q] - (Pos(q) + k[q])) <=> (m < wr[q] - Pos(q))
        BY <1>2
      <4>6. Pos(q) + m + 1 = Pos(q) + k[q] + i + 1
        BY <1>2
      <4> QED
        BY <4>1, <4>3, <4>4, <4>5, <4>6
    <3>3. CASE m >= Ring
      <4> DEFINE j == m - Ring
      <4>1. j \in 0..(k[q] - 1) /\ Pos(q) + k[q] + i = (Pos(q) + j) + Ring
        BY <1>2, <3>3
      <4>2. s = Slot(Pos(q) + j)
        <5>1. Pos(q) + j \in Int
          BY <1>2
        <5>2. Slot((Pos(q) + j) + Ring) = Slot(Pos(q) + j)
          BY ONLY <5>1, SlotRepeats
        <5> QED
          BY <4>1, <5>2
      <4>3. ring'[q][s] = Absent
        BY <1>5, <3>1, <4>1, <4>2
      <4>4. ~(i < wr[q] - (Pos(q) + k[q]))
        BY <1>2, <2>1, <3>3 DEF Window
      <4> QED
        BY <4>3, <4>4
    <3> QED
      BY <1>2, <3>2, <3>3
  <2>4. /\ last[q] = Pos(q)' + k'[q] /\ last[q] <= wr[q]
        /\ wr[q] - Pos(q)' <= Ring
    BY <1>2, <1>4, <2>1 DEF Window
  <2> QED
    BY <1>3, <1>4, <2>3, <2>4 DEF Window
<1> QED
  BY <1>2, <1>3, <1>4, <1>6 DEF InWindow, InBatch

(* Every event stays in its slot until it is handled, and only then.       *)
LEMMA WindowNext == IInv /\ [Next]_vars => WindowInv'
<1> SUFFICES ASSUME IInv, [Next]_vars PROVE WindowInv'
  OBVIOUS
<1>1. CASE IntrStartFails
  <2>1. UNCHANGED <<se_state, stale, wr, last, se_lock, count, se_count, k,
                    ring, batch>>
    BY <1>1 DEF IntrStartFails, vars, ctlvars, intrvars, pinvars, hwvars,
       pollvars
  <2>2. \A r \in AllQs : hpc'[r] \in {"handle", "clear"} =>
                         hpc[r] \in {"handle", "clear"}
    BY <1>1 DEF IntrStartFails, IInv, Controls, vars, pollvars
  <2> QED
    BY <2>1, <2>2, AllUntouched
<1>2. CASE IntrStart
  <2>1. UNCHANGED <<se_state, stale, wr, last, se_lock, count, se_count, k,
                    ring, batch>>
    BY <1>2 DEF IntrStart, vars, ctlvars, intrvars, pinvars, hwvars, pollvars
  <2>2. \A r \in AllQs : hpc'[r] \in {"handle", "clear"} =>
                         hpc[r] \in {"handle", "clear"}
    BY <1>2 DEF IntrStart, IInv, Controls, vars, pollvars
  <2> QED
    BY <2>1, <2>2, AllUntouched
<1>3. CASE TestDone
  <2>1. UNCHANGED <<se_state, stale, wr, last, se_lock, count, se_count, k,
                    ring, batch>>
    BY <1>3 DEF TestDone, vars, ctlvars, intrvars, pinvars, hwvars, pollvars
  <2>2. \A r \in AllQs : hpc'[r] \in {"handle", "clear"} =>
                         hpc[r] \in {"handle", "clear"}
    BY <1>3 DEF TestDone, IInv, Controls, vars, pollvars
  <2> QED
    BY <2>1, <2>2, AllUntouched
<1>4. CASE TestTimeout
  <2>1. UNCHANGED <<se_state, stale, wr, last, se_lock, count, se_count, k,
                    ring, batch>>
    BY <1>4 DEF TestTimeout, vars, ctlvars, intrvars, pinvars, hwvars, pollvars
  <2>2. \A r \in AllQs : hpc'[r] \in {"handle", "clear"} =>
                         hpc[r] \in {"handle", "clear"}
    BY <1>4 DEF TestTimeout, IInv, Controls, vars, pollvars
  <2> QED
    BY <2>1, <2>2, AllUntouched
<1>5. CASE TestFail
  <2>1. UNCHANGED <<se_state, stale, wr, last, se_lock, count, se_count, k,
                    ring, batch>>
    BY <1>5 DEF TestFail, vars, ctlvars, intrvars, pinvars, hwvars, pollvars
  <2>2. \A r \in AllQs : hpc'[r] \in {"handle", "clear"} =>
                         hpc[r] \in {"handle", "clear"}
    BY <1>5 DEF TestFail, IInv, Controls, vars, pollvars
  <2> QED
    BY <2>1, <2>2, AllUntouched
<1>6. CASE IntrStop
  <2>1. UNCHANGED <<se_state, stale, wr, last, se_lock, count, se_count, k,
                    ring, batch>>
    BY <1>6 DEF IntrStop, vars, ctlvars, intrvars, pinvars, hwvars, pollvars
  <2>2. \A r \in AllQs : hpc'[r] \in {"handle", "clear"} =>
                         hpc[r] \in {"handle", "clear"}
    BY <1>6 DEF IntrStop, IInv, Controls, vars, pollvars
  <2> QED
    BY <2>1, <2>2, AllUntouched
<1>7. CASE BusDisable
  <2>1. UNCHANGED <<se_state, stale, wr, last, se_lock, count, se_count, k,
                    ring, batch>>
    BY <1>7 DEF BusDisable, vars, ctlvars, intrvars, pinvars, hwvars, pollvars
  <2>2. \A r \in AllQs : hpc'[r] \in {"handle", "clear"} =>
                         hpc[r] \in {"handle", "clear"}
    BY <1>7 DEF BusDisable, IInv, Controls, vars, pollvars
  <2> QED
    BY <2>1, <2>2, AllUntouched
<1>8. CASE EvStop
  <2>1. UNCHANGED <<se_state, stale, wr, last, se_lock, count, se_count, k,
                    ring, batch>>
    BY <1>8 DEF EvStop, vars, ctlvars, intrvars, pinvars, hwvars, pollvars
  <2>2. \A r \in AllQs : hpc'[r] \in {"handle", "clear"} =>
                         hpc[r] \in {"handle", "clear"}
    BY <1>8 DEF EvStop, IInv, Controls, vars, pollvars
  <2> QED
    BY <2>1, <2>2, AllUntouched
<1>9. ASSUME NEW q \in Evqs, QStart(q) PROVE WindowInv'
  <2>1. q \in AllQs
    BY EvqsType
  <2>2. Elsewhere(q)
    BY <1>9, <2>1 DEF QStart, Elsewhere, IInv, Controls, Counters, Rings,
       hwvars, pollvars
  <2>3. InWindow(q)'
    BY <1>9, StartWindow
  <2> QED
    BY <2>1, <2>2, <2>3, OtherQueues
<1>10. ASSUME NEW q \in Evqs, QStartFails(q) PROVE WindowInv'
  <2>1. UNCHANGED <<se_state, stale, wr, last, se_lock, count, se_count, k,
                    ring, batch>>
    BY <1>10 DEF QStartFails, vars, ctlvars, intrvars, pinvars, hwvars,
       pollvars
  <2>2. \A r \in AllQs : hpc'[r] \in {"handle", "clear"} =>
                         hpc[r] \in {"handle", "clear"}
    BY <1>10 DEF QStartFails, IInv, Controls, vars, pollvars
  <2> QED
    BY <2>1, <2>2, AllUntouched
<1>11. ASSUME NEW q \in Evqs, QStarted(q) PROVE WindowInv'
  <2>1. UNCHANGED <<se_state, stale, wr, last, se_lock, count, se_count, k,
                    ring, batch>>
    BY <1>11 DEF QStarted, vars, ctlvars, intrvars, pinvars, hwvars, pollvars
  <2>2. \A r \in AllQs : hpc'[r] \in {"handle", "clear"} =>
                         hpc[r] \in {"handle", "clear"}
    BY <1>11 DEF QStarted, IInv, Controls, vars, pollvars
  <2> QED
    BY <2>1, <2>2, AllUntouched
<1>12. ASSUME NEW q \in Evqs, QStartTimeout(q) PROVE WindowInv'
  <2>1. q \in AllQs
    BY EvqsType
  <2>2. Elsewhere(q)
    BY <1>12, <2>1 DEF QStartTimeout, EndQueue, Elsewhere, IInv,
       Controls, Counters, Rings,
       hwvars, pollvars
  <2>3. InWindow(q)'
    <3>1. se_state'[q] = "INITIALIZED" /\ wr'[q] = 0 /\ last'[q] = 0
      BY <1>12, <2>1 DEF QStartTimeout, EndQueue, IInv, Controls, Counters
    <3> QED
      BY <3>1 DEF InWindow, Live
  <2> QED
    BY <2>1, <2>2, <2>3, OtherQueues
<1>13. ASSUME NEW q \in Evqs, QStop(q) PROVE WindowInv'
  <2>1. q \in AllQs
    BY EvqsType
  <2>2. Elsewhere(q)
    BY <1>13, <2>1 DEF QStop, EndQueue, ClearedCount, Elsewhere, IInv,
       Controls, Counters, Rings,
       hwvars, pollvars
  <2>3. InWindow(q)'
    <3>1. se_state'[q] = "INITIALIZED" /\ wr'[q] = 0 /\ last'[q] = 0
      BY <1>13, <2>1 DEF QStop, EndQueue, IInv, Controls, Counters
    <3> QED
      BY <3>1 DEF InWindow, Live
  <2> QED
    BY <2>1, <2>2, <2>3, OtherQueues
<1>14. ASSUME NEW q \in Evqs, NEW kind \in Kinds, HwWrite(q, kind)
      PROVE  WindowInv'
  <2>1. q \in AllQs
    BY EvqsType
  <2>2. Elsewhere(q)
    BY <1>14, <2>1 DEF HwWrite, Elsewhere, IInv, Controls, Counters, Rings,
       hwvars, pollvars
  <2>3. InWindow(q)'
    BY <1>14, WriteWindow
  <2> QED
    BY <2>1, <2>2, <2>3, OtherQueues
<1>15. ASSUME NEW q \in Evqs, NEW lost \in BOOLEAN, HwRaise(q, lost)
      PROVE  WindowInv'
  <2>1. UNCHANGED <<se_state, stale, wr, last, se_lock, count, se_count, k,
                    ring, batch>>
    BY <1>15 DEF HwRaise, vars, ctlvars, intrvars, pinvars, hwvars, pollvars
  <2>2. \A r \in AllQs : hpc'[r] \in {"handle", "clear"} =>
                         hpc[r] \in {"handle", "clear"}
    BY <1>15 DEF HwRaise, IInv, Controls, vars, pollvars
  <2> QED
    BY <2>1, <2>2, AllUntouched
<1>16. ASSUME NEW q \in Evqs, MsgInterrupt(q) PROVE WindowInv'
  <2>1. UNCHANGED <<se_state, stale, wr, last, se_lock, count, se_count, k,
                    ring, batch>>
    BY <1>16 DEF MsgInterrupt, vars, ctlvars, intrvars, pinvars, hwvars,
       pollvars
  <2>2. \A r \in AllQs : hpc'[r] \in {"handle", "clear"} =>
                         hpc[r] \in {"handle", "clear"}
    BY <1>16 DEF MsgInterrupt, NotOurs, Tested, Fatal, IInv, Controls,
       vars, pollvars
  <2> QED
    BY <2>1, <2>2, AllUntouched
<1>17. ASSUME NEW q \in Evqs, Refused(q) PROVE WindowInv'
  <2>1. UNCHANGED <<se_state, stale, wr, last, se_lock, count, se_count, k,
                    ring, batch>>
    BY <1>17 DEF Refused, vars, ctlvars, intrvars, pinvars, hwvars, pollvars
  <2>2. \A r \in AllQs : hpc'[r] \in {"handle", "clear"} =>
                         hpc[r] \in {"handle", "clear"}
    BY <1>17 DEF Refused, IInv, Controls, vars, pollvars
  <2> QED
    BY <2>1, <2>2, AllUntouched
<1>18. ASSUME NEW q \in Evqs, QPrime(q) PROVE WindowInv'
  <2>1. UNCHANGED <<se_state, stale, wr, last, se_lock, count, se_count, k,
                    ring, batch>>
    BY <1>18 DEF QPrime, vars, ctlvars, intrvars, pinvars, hwvars, pollvars
  <2>2. \A r \in AllQs : hpc'[r] \in {"handle", "clear"} =>
                         hpc[r] \in {"handle", "clear"}
    BY <1>18 DEF QPrime, Prime, IInv, Controls, vars, pollvars
  <2> QED
    BY <2>1, <2>2, AllUntouched
<1>19. ASSUME NEW q \in Evqs, QPollEnter(q) PROVE WindowInv'
  <2>1. q \in AllQs
    BY EvqsType
  <2>2. Elsewhere(q)
    BY <1>19, <2>1 DEF QPollEnter, Elsewhere, IInv, Controls, Counters, Rings,
       hwvars, pollvars
  <2>3. InWindow(q)'
    <3>1. /\ UNCHANGED <<se_state, stale, wr, last, k, ring, batch>>
          /\ hpc'[q] \notin {"handle", "clear"}
      BY <1>19, <2>1 DEF QPollEnter, IInv, Controls, hwvars
    <3>2. Pos(q)' = Pos(q)
      BY <1>19, <2>1 DEF QPollEnter, Pos, IInv, Controls, Counters,
         PollInv, Polling
    <3>3. (Live(q)' <=> Live(q)) /\ InWindow(q)
      BY <2>1, <3>1 DEF Live, IInv, WindowInv
    <3> QED
      BY <2>1, <3>1, <3>2, <3>3, Untouched
  <2> QED
    BY <2>1, <2>2, <2>3, OtherQueues
<1>20. ASSUME NEW q \in Evqs, QPollRead(q) PROVE WindowInv'
  <2>1. q \in AllQs
    BY EvqsType
  <2>2. Elsewhere(q)
    BY <1>20, <2>1 DEF QPollRead, Elsewhere, IInv, Controls, Counters, Rings,
       hwvars, pollvars
  <2>3. InWindow(q)'
    BY <1>20, ReadWindow
  <2> QED
    BY <2>1, <2>2, <2>3, OtherQueues
<1>21. ASSUME NEW q \in Evqs, QPollHandle(q) PROVE WindowInv'
  <2>1. q \in AllQs
    BY EvqsType
  <2>2. Elsewhere(q)
    BY <1>21, <2>1 DEF QPollHandle, Initialized, Completion, Exception,
       Elsewhere, IInv, Controls, Counters, Rings,
       hwvars, pollvars
  <2>3. InWindow(q)'
    BY <1>21, HandleWindow
  <2> QED
    BY <2>1, <2>2, <2>3, OtherQueues
<1>22. ASSUME NEW q \in Evqs, QPollClear(q) PROVE WindowInv'
  <2>1. q \in AllQs
    BY EvqsType
  <2>2. Elsewhere(q)
    BY <1>22, <2>1 DEF QPollClear, Elsewhere, IInv, Controls, Counters, Rings,
       hwvars, pollvars
  <2>3. InWindow(q)'
    BY <1>22, ClearWindow
  <2> QED
    BY <2>1, <2>2, <2>3, OtherQueues
<1>23. ASSUME NEW q \in Evqs, QPollDone(q) PROVE WindowInv'
  <2>1. q \in AllQs
    BY EvqsType
  <2>2. Elsewhere(q)
    BY <1>23, <2>1 DEF QPollDone, Elsewhere, IInv, Controls, Counters, Rings,
       hwvars, pollvars
  <2>3. InWindow(q)'
    <3>1. /\ UNCHANGED <<se_state, stale, wr, last, k, ring, batch>>
          /\ hpc'[q] \notin {"handle", "clear"}
      BY <1>23, <2>1 DEF QPollDone, IInv, Controls, hwvars
    <3>2. Pos(q)' = Pos(q)
      BY <1>23, <2>1 DEF QPollDone, Pos, IInv, Controls, Counters,
         PollInv, Polling
    <3>3. (Live(q)' <=> Live(q)) /\ InWindow(q)
      BY <2>1, <3>1 DEF Live, IInv, WindowInv
    <3> QED
      BY <2>1, <3>1, <3>2, <3>3, Untouched
  <2> QED
    BY <2>1, <2>2, <2>3, OtherQueues
<1>24. ASSUME NEW ours \in BOOLEAN, LineInterrupt(ours) PROVE WindowInv'
  <2>1. UNCHANGED <<se_state, stale, wr, last, se_lock, count, se_count, k,
                    ring, batch>>
    BY <1>24 DEF LineInterrupt, vars, ctlvars, intrvars, pinvars, hwvars,
       pollvars
  <2>2. \A r \in AllQs : hpc'[r] \in {"handle", "clear"} =>
                         hpc[r] \in {"handle", "clear"}
    BY <1>24 DEF LineInterrupt, NotOurs, Tested, Fatal, ZeroAgain, IInv,
       Controls, vars, pollvars
  <2> QED
    BY <2>1, <2>2, AllUntouched
<1>25. CASE UNCHANGED vars
  <2>1. UNCHANGED <<se_state, stale, wr, last, se_lock, count, se_count, k,
                    ring, batch>>
    BY <1>25 DEF vars, ctlvars, intrvars, pinvars, hwvars, pollvars
  <2>2. \A r \in AllQs : hpc'[r] \in {"handle", "clear"} =>
                         hpc[r] \in {"handle", "clear"}
    BY <1>25 DEF vars, IInv, Controls, pollvars
  <2> QED
    BY <2>1, <2>2, AllUntouched
<1> QED
  BY <1>1, <1>2, <1>3, <1>4, <1>5, <1>6, <1>7, <1>8, <1>9, <1>10, <1>11,
     <1>12, <1>13, <1>14, <1>15, <1>16, <1>17, <1>18, <1>19, <1>20, <1>21,
     <1>22, <1>23, <1>24, <1>25 DEF Next, Controller, Handler, QPoll

-----------------------------------------------------------------------------
(* The inductive invariant holds initially.                                *)
LEMMA InitInv == Init => IInv
<1> SUFFICES ASSUME Init PROVE IInv
  OBVIOUS
<1>1. 0 \in 0..MaxEvents /\ 0 \in 0..(Ring - 1) /\ 0 \in 0..MaxStarts
  BY EventQueueAssumption
<1>2. 0 \in -1..(NAlloc - 1)
  BY EventQueueAssumption
<1>3. Controls
  BY <1>1, <1>2 DEF Init, Controls
<1>4. Counters
  BY <1>1 DEF Init, Zeros, Counters
<1>5. Rings
  BY DEF Init, Rings
<1>6. \A q \in AllQs : ~Live(q)
  BY DEF Init, Live
<1>7. CtlInv
  BY <1>6 DEF Init, CtlInv
<1>8. PollInv
  <2>1. \A q \in AllQs : k[q] = 0 /\ batch[q] = << >> /\ Len(batch[q]) = 0
    BY DEF Init, Zeros
  <2> QED
    BY <2>1 DEF Init, PollInv, Polling
<1>9. OwedInv
  BY <1>6 DEF OwedInv
<1>10. WindowInv
  BY <1>6 DEF Init, Zeros, WindowInv, InWindow
<1> QED
  BY <1>3, <1>4, <1>5, <1>7, <1>8, <1>9, <1>10 DEF IInv

(* Every step keeps the inductive invariant.                               *)
LEMMA NextInv == IInv /\ [Next]_vars => IInv'
BY ControlsNext, CountersNext, RingsNext, CtlNext, PollNext, OwedNext,
   WindowNext DEF IInv

(* The inductive invariant holds in every state of every behaviour.        *)
LEMMA Invariance == Spec => []IInv
<1>1. Init => IInv
  BY InitInv
<1>2. IInv /\ [Next]_vars => IInv'
  BY NextInv
<1> QED
  BY <1>1, <1>2, PTL DEF Spec

(* A poll runs only on a queue that lives (sfxge_ev_qpoll, sfxge_ev_qstop, *)
(* sfxge_ev_qstart): whoever stops, times out or restarts the queue        *)
(* meanwhile waits for se_lock, for any number of queues and any ring.     *)
THEOREM PollOwnsQueueAlways == Spec => []PollOwnsQueue
<1>1. IInv => PollOwnsQueue
  <2> SUFFICES ASSUME IInv PROVE PollOwnsQueue
    OBVIOUS
  <2>1. TypeOK
    <3>1. {se_count, se_tx, wr, k, count, last} \subseteq [AllQs -> Nat]
      BY EventQueueAssumption DEF IInv, Counters
    <3>2. \A q \in AllQs : wr[q] <= MaxEvents /\ rptr[q] \in 0..(Ring - 1)
      BY EventQueueAssumption DEF IInv, Counters
    <3>3. \A q \in AllQs : \A s \in 0..(Ring - 1) :
            ring[q][s] = Absent \/ ring[q][s] \in (1..MaxEvents) \X Kinds
      BY DEF IInv, Rings, Events
    <3>4. Controls
      BY DEF IInv
    <3> QED
      BY ONLY <3>1, <3>2, <3>3, <3>4 DEF TypeOK, Controls
  <2>2. ASSUME NEW q \in AllQs, hpc[q] \in Polling
        PROVE  se_lock[q] /\ Live(q) /\ si_state = "STARTED"
    <3>1. se_lock[q] /\ Live(q)
      BY <2>2 DEF IInv, PollInv
    <3> QED
      BY <3>1 DEF IInv, Controls, CtlInv
  <2> QED
    BY <2>1, <2>2 DEF PollOwnsQueue, Polling
<1> QED
  BY <1>1, Invariance, PTL

(* No event is stranded (sfxge_intr_line, sfxge_intr_message,              *)
(* sfxge_ev_qpoll, sfxge_ev_qprime): whichever interrupts are shared,      *)
(* spurious or lack their bit in the ISR, one comes for the next event of  *)
(* every queue, for any number of queues and any ring and batch sizes.     *)
THEOREM InterruptOwedAlways == Spec => []InterruptOwed
<1>1. IInv => InterruptOwed
  BY EvqsType DEF IInv, OwedInv, InterruptOwed
<1> QED
  BY <1>1, Invariance, PTL

-----------------------------------------------------------------------------
(* The refinement.  The events of the channel are those from last to wr.   *)
Span(a, n) == [i \in 1..n |-> a + i]

(* A span of no numbers is the empty sequence.                             *)
LEMMA SpanEmpty == \A a \in Nat : Span(a, 0) = << >>
BY DEF Span

(* One event more at the end of a span.                                    *)
LEMMA SpanAppend ==
  ASSUME NEW a \in Nat, NEW n \in Nat
  PROVE  Span(a, n + 1) = Append(Span(a, n), a + (n + 1))
<1> DEFINE s == Span(a, n)
<1>1. s \in Seq(Nat) /\ Len(s) = n /\ \A i \in 1..n : s[i] = a + i
  <2>1. s \in [1..n -> Nat]
    BY DEF Span
  <2> QED
    BY <2>1, FunctionIsSeq DEF Span
<1> HIDE DEF s
<1>2. Append(s, a + (n + 1)) = [i \in 1..(n + 1) |-> a + i]
  BY <1>1
<1> QED
  BY <1>2 DEF Span, s

(* One event less at the head of a span.                                   *)
LEMMA SpanTail ==
  ASSUME NEW a \in Nat, NEW n \in Nat \ {0}
  PROVE  Span(a, n) # << >> /\ Span(a + 1, n - 1) = Tail(Span(a, n))
<1> DEFINE s == Span(a, n)
<1>1. s \in Seq(Nat) /\ Len(s) = n /\ \A i \in 1..n : s[i] = a + i
  <2>1. s \in [1..n -> Nat]
    BY DEF Span
  <2> QED
    BY <2>1, FunctionIsSeq DEF Span
<1> HIDE DEF s
<1>2. Tail(s) = [i \in 1..(n - 1) |-> (a + 1) + i]
  <2>1. Tail(s) = [i \in 1..(n - 1) |-> s[i + 1]]
    <3> DEFINE t == Tail(s)
    <3>1. t \in Seq(Nat) /\ Len(t) = n - 1
      BY <1>1
    <3>2. \A i \in 1..(n - 1) : t[i] = s[i + 1]
      BY <1>1, <3>1
    <3> HIDE DEF t
    <3>3. t \in [1..(n - 1) -> Nat]
      <4>1. t \in [1..Len(t) -> Nat]
        BY <3>1
      <4> QED
        BY <3>1, <4>1
    <3>4. t = [i \in 1..(n - 1) |-> s[i + 1]]
      BY <3>2, <3>3
    <3> QED
      BY <3>4 DEF t
  <2>2. \A i \in 1..(n - 1) : s[i + 1] = (a + 1) + i
    BY <1>1
  <2> QED
    BY <2>1, <2>2
<1>3. s # << >>
  BY <1>1
<1> QED
  BY <1>2, <1>3 DEF Span, s

OpenBar == [q \in AllQs |-> Live(q)]
ChanBar == [q \in AllQs |->
              IF ~Live(q) \/ stale[q] THEN << >>
              ELSE Span(last[q], wr[q] - last[q])]

(* A step that does not concern the events leaves the channel alone.       *)
LEMMA ChanFrame ==
  ASSUME \A r \in AllQs : Live(r)' <=> Live(r), UNCHANGED <<stale, wr, last>>
  PROVE  UNCHANGED <<OpenBar, ChanBar, stale>>
<1>1. \A r \in AllQs : Live(r)' = Live(r)
  BY DEF Live
<1> QED
  BY <1>1 DEF OpenBar, ChanBar

(* The actions of the channel, on the mapped variables.                    *)
LEMMA ChannelActions ==
  ASSUME NEW q \in AllQs
  PROVE  /\ (/\ ~OpenBar[q] /\ OpenBar' = [OpenBar EXCEPT ![q] = TRUE]
             /\ ChanBar' = [ChanBar EXCEPT ![q] = << >>]
             /\ \E b \in BOOLEAN : stale' = [stale EXCEPT ![q] = b])
              => Channel!Create(q)
         /\ (/\ OpenBar[q] /\ ~stale[q]
             /\ \E n \in 1..MaxEvents :
                  /\ \A i \in DOMAIN ChanBar[q] : ChanBar[q][i] < n
                  /\ ChanBar' = [ChanBar EXCEPT ![q] = Append(ChanBar[q], n)]
             /\ UNCHANGED <<OpenBar, stale>>)
              => Channel!Write(q)
         /\ (/\ OpenBar[q] /\ ChanBar[q] # << >>
             /\ ChanBar' = [ChanBar EXCEPT ![q] = Tail(ChanBar[q])]
             /\ UNCHANGED <<OpenBar, stale>>)
              => Channel!Handle(q)
         /\ (/\ OpenBar[q] /\ OpenBar' = [OpenBar EXCEPT ![q] = FALSE]
             /\ ChanBar' = [ChanBar EXCEPT ![q] = << >>]
             /\ stale' = stale)
              => Channel!Destroy(q)
BY DEF OpenBar, ChanBar, Span, Channel!Create, Channel!Write, Channel!Handle,
       Channel!Destroy

(* Steps that leave the mapped variables alone are stutters of the         *)
(* channel.                                                                *)
LEMMA ChannelIdle ==
  UNCHANGED <<OpenBar, ChanBar, stale>> => UNCHANGED Channel!vars
BY DEF OpenBar, ChanBar, Span, Channel!vars

(* A step about the events of one queue.                                   *)
LEMMA ChanOf ==
  ASSUME NEW q \in AllQs, \A r \in AllQs : Live(r)' <=> Live(r),
         \A r \in AllQs \ {q} : /\ stale'[r] = stale[r] /\ wr'[r] = wr[r]
                                /\ last'[r] = last[r]
  PROVE  /\ OpenBar' = OpenBar
         /\ ChanBar' = [ChanBar EXCEPT ![q] =
              (IF ~Live(q) \/ stale[q] THEN << >>
               ELSE Span(last[q], wr[q] - last[q]))']
<1>1. \A r \in AllQs : Live(r)' = Live(r)
  BY DEF Live
<1> QED
  BY <1>1 DEF OpenBar, ChanBar

(* QStart creates the channel.                                             *)
LEMMA CreateStep ==
  ASSUME IInv, NEW q \in Evqs, QStart(q)
  PROVE  Channel!Create(q)
<1>1. q \in AllQs
  BY EvqsType
<1>2. ~Live(q)
  BY <1>1, EvqsType DEF QStart, IInv, CtlInv
<1>3. wr[q] = 0 /\ last[q] = 0
  BY <1>1, <1>2, WindowFacts DEF InWindow
<1>4. /\ wr' = wr /\ last' = last
      /\ stale' = [stale EXCEPT ![q] = se_count[q] # 0]
      /\ se_state' = [se_state EXCEPT ![q] = "STARTING"]
  BY DEF QStart
<1>5. \A r \in AllQs : Live(r)' = IF r = q THEN TRUE ELSE Live(r)
  BY <1>1, <1>4 DEF Live, IInv, Controls
<1>6. ~OpenBar[q] /\ OpenBar' = [OpenBar EXCEPT ![q] = TRUE]
  BY <1>1, <1>2, <1>5 DEF OpenBar
<1>7. ChanBar' = [ChanBar EXCEPT ![q] = << >>]
  <2>1. Span(last[q], wr[q] - last[q])' = << >>
    <3>1. Span(0, 0) = << >>
      BY SpanEmpty
    <3> QED
      BY <1>3, <1>4, <3>1
  <2>2. \A r \in AllQs \ {q} : stale'[r] = stale[r]
    BY <1>1, <1>4 DEF IInv, Controls
  <2> QED
    BY <1>1, <1>4, <1>5, <2>1, <2>2 DEF ChanBar
<1>8. (se_count[q] # 0) \in BOOLEAN
  OBVIOUS
<1> QED
  BY <1>1, <1>4, <1>6, <1>7, <1>8, ChannelActions

(* The controller writes the next event, or the channel is broken.         *)
LEMMA WriteStep ==
  ASSUME IInv, NEW q \in Evqs, NEW kind \in Kinds, HwWrite(q, kind)
  PROVE  Channel!Write(q) \/ UNCHANGED Channel!vars
<1>1. q \in AllQs
  BY EvqsType
<1>2. /\ wr[q] \in Nat /\ last[q] \in Nat /\ InWindow(q)
  BY <1>1, WindowFacts
<1>3. /\ Live(q) /\ UNCHANGED <<se_state, last, stale>>
      /\ wr' = [wr EXCEPT ![q] = wr[q] + 1] /\ wr[q] < MaxEvents
  BY DEF HwWrite
<1>4. /\ \A r \in AllQs : Live(r)' <=> Live(r)
      /\ \A r \in AllQs \ {q} : /\ stale'[r] = stale[r] /\ wr'[r] = wr[r]
                                /\ last'[r] = last[r]
      /\ wr'[q] = wr[q] + 1
  BY <1>1, <1>3 DEF Live, IInv, Counters
<1>5. /\ OpenBar' = OpenBar
      /\ ChanBar' = [ChanBar EXCEPT ![q] =
           (IF ~Live(q) \/ stale[q] THEN << >>
            ELSE Span(last[q], wr[q] - last[q]))']
  BY <1>1, <1>4, ChanOf
<1>6. CASE stale[q]
  <2>1. ChanBar' = [ChanBar EXCEPT ![q] = << >>] /\ ChanBar[q] = << >>
    BY <1>1, <1>3, <1>5, <1>6 DEF ChanBar
  <2>2. ChanBar' = ChanBar
    BY <2>1, <1>1 DEF ChanBar
  <2> QED
    BY <1>3, <1>5, <2>2, ChannelIdle
<1>7. CASE ~stale[q]
  <2> DEFINE n == wr[q] - last[q]
  <2>1. last[q] <= wr[q] /\ n \in Nat
    BY <1>2, <1>3, <1>7 DEF InWindow, Window
  <2>2. ChanBar[q] = Span(last[q], n) /\ OpenBar[q]
    BY <1>1, <1>3, <1>7 DEF ChanBar, OpenBar
  <2>3. Span(last[q], wr[q] - last[q])' = Append(Span(last[q], n), wr[q] + 1)
    <3>1. Span(last[q], n + 1) = Append(Span(last[q], n), last[q] + (n + 1))
      BY <1>2, <2>1, SpanAppend
    <3>2. last[q] + (n + 1) = wr[q] + 1 /\ (wr[q] + 1) - last[q] = n + 1
      BY <1>2
    <3> QED
      BY <1>3, <1>4, <3>1, <3>2
  <2>4. ChanBar' = [ChanBar EXCEPT ![q] = Append(ChanBar[q], wr[q] + 1)]
    BY <1>1, <1>3, <1>4, <1>5, <1>7, <2>2, <2>3
  <2>5. wr[q] + 1 \in 1..MaxEvents
    BY <1>2, <1>3, EventQueueAssumption
  <2>6. \A i \in DOMAIN ChanBar[q] : ChanBar[q][i] < wr[q] + 1
    <3>1. \A i \in 1..n : Span(last[q], n)[i] < wr[q] + 1
      BY <1>2, <2>1 DEF Span
    <3>2. DOMAIN Span(last[q], n) = 1..n
      BY DEF Span
    <3> QED
      BY <2>2, <3>1, <3>2
  <2>7. \E m \in 1..MaxEvents :
          /\ \A i \in DOMAIN ChanBar[q] : ChanBar[q][i] < m
          /\ ChanBar' = [ChanBar EXCEPT ![q] = Append(ChanBar[q], m)]
    <3> HIDE DEF n
    <3> QED
      BY <2>4, <2>5, <2>6
  <2>8. UNCHANGED <<OpenBar, stale>>
    BY <1>3, <1>5
  <2> QED
    BY ONLY <1>1, <1>7, <2>2, <2>7, <2>8, ChannelActions
<1> QED
  BY <1>6, <1>7

(* The queue handles the next event, or the channel is broken.             *)
LEMMA HandleStep ==
  ASSUME IInv, NEW q \in Evqs, QPollHandle(q)
  PROVE  Channel!Handle(q) \/ UNCHANGED Channel!vars
<1>1. q \in AllQs
  BY EvqsType
<1>2. /\ wr[q] \in Nat /\ last[q] \in Nat /\ Pos(q) \in Nat /\ k[q] \in Nat
      /\ Live(q)
  BY <1>1, WindowFacts DEF QPollHandle, Polling
<1>3. /\ UNCHANGED <<wr, stale>>
      /\ last' = [last EXCEPT ![q] = batch[q][k[q] + 1][1]]
  BY DEF QPollHandle, hwvars
<1>4. /\ \A r \in AllQs : Live(r)' <=> Live(r)
      /\ \A r \in AllQs \ {q} : /\ stale'[r] = stale[r] /\ wr'[r] = wr[r]
                                /\ last'[r] = last[r]
      /\ last'[q] = batch[q][k[q] + 1][1]
  <2>1. \/ se_state' = se_state
        \/ se_state' = [se_state EXCEPT ![q] = "STARTED"]
    BY DEF QPollHandle, Initialized, Completion, Exception
  <2>2. \A r \in AllQs : Live(r)' <=> Live(r)
    BY <1>1, <1>2, <2>1, LiveSame, LiveStart DEF IInv
  <2> QED
    BY <1>1, <1>3, <2>2 DEF IInv, Counters
<1>5. /\ OpenBar' = OpenBar
      /\ ChanBar' = [ChanBar EXCEPT ![q] =
           (IF ~Live(q) \/ stale[q] THEN << >>
            ELSE Span(last[q], wr[q] - last[q]))']
  BY <1>1, <1>4, ChanOf
<1>6. CASE stale[q]
  <2>1. ChanBar' = [ChanBar EXCEPT ![q] = << >>] /\ ChanBar[q] = << >>
    BY <1>1, <1>3, <1>5, <1>6 DEF ChanBar
  <2>2. ChanBar' = ChanBar
    BY <2>1, <1>1 DEF ChanBar
  <2> QED
    BY <1>3, <1>5, <2>2, ChannelIdle
<1>7. CASE ~stale[q]
  <2> DEFINE n == wr[q] - last[q]
  <2>1. last'[q] = last[q] + 1 /\ n \in Nat \ {0}
    BY <1>2, <1>4, <1>7, NextEvent
  <2>2. ChanBar[q] = Span(last[q], n) /\ OpenBar[q]
    BY <1>1, <1>2, <1>7 DEF ChanBar, OpenBar
  <2>3. /\ Span(last[q], wr[q] - last[q])' = Tail(Span(last[q], n))
        /\ Span(last[q], n) # << >>
    <3>1. /\ Span(last[q] + 1, n - 1) = Tail(Span(last[q], n))
          /\ Span(last[q], n) # << >>
      BY <1>2, <2>1, SpanTail
    <3>2. wr[q] - (last[q] + 1) = n - 1
      BY <1>2
    <3> QED
      BY <1>3, <2>1, <3>1, <3>2
  <2>4. ChanBar' = [ChanBar EXCEPT ![q] = Tail(ChanBar[q])]
    BY <1>1, <1>2, <1>3, <1>4, <1>5, <1>7, <2>2, <2>3
  <2> QED
    BY <1>1, <1>3, <1>5, <2>2, <2>3, <2>4, ChannelActions
<1> QED
  BY <1>6, <1>7

(* A queue that goes down takes its events with it.                        *)
LEMMA DestroyStep ==
  ASSUME IInv, NEW q \in Evqs, EndQueue(q), stale' = stale
  PROVE  Channel!Destroy(q) \/ UNCHANGED Channel!vars
<1>1. q \in AllQs
  BY EvqsType
<1>2. /\ \A r \in AllQs : Live(r)' = IF r = q THEN FALSE ELSE Live(r)
      /\ \A r \in AllQs \ {q} : wr'[r] = wr[r] /\ last'[r] = last[r]
  <2>1. \A r \in AllQs : Live(r)' <=> Live(r) /\ r # q
    BY <1>1, LiveEnd DEF IInv
  <2>2. \A r \in AllQs : Live(r)' = IF r = q THEN FALSE ELSE Live(r)
    <3>1. Live(q)' = FALSE
      BY <1>1, <2>1 DEF Live
    <3>2. \A r \in AllQs \ {q} : Live(r)' = Live(r)
      BY <2>1 DEF Live
    <3> QED
      BY <3>1, <3>2
  <2>3. \A r \in AllQs \ {q} : wr'[r] = wr[r] /\ last'[r] = last[r]
    BY <1>1 DEF EndQueue, IInv, Counters
  <2> QED
    BY <2>2, <2>3
<1>3. OpenBar' = [OpenBar EXCEPT ![q] = FALSE]
  BY <1>1, <1>2 DEF OpenBar
<1>4. ChanBar' = [ChanBar EXCEPT ![q] = << >>]
  BY <1>1, <1>2 DEF ChanBar
<1>5. CASE Live(q)
  BY <1>1, <1>3, <1>4, <1>5, ChannelActions DEF OpenBar
<1>6. CASE ~Live(q)
  <2>1. OpenBar[q] = FALSE /\ ChanBar[q] = << >>
    <3>1. Live(q) = FALSE
      BY <1>6 DEF Live
    <3> QED
      BY <1>1, <3>1 DEF OpenBar, ChanBar
  <2>2. OpenBar' = OpenBar /\ ChanBar' = ChanBar
    BY <1>1, <1>3, <1>4, <2>1 DEF OpenBar, ChanBar
  <2> QED
    BY <2>2, ChannelIdle
<1> QED
  BY <1>5, <1>6

ChannelStep == [Channel!Next]_(Channel!vars)

(* Every step is a step of the channel or leaves it alone.                 *)
LEMMA StepRefines == IInv /\ [Next]_vars => ChannelStep
<1> SUFFICES ASSUME IInv, [Next]_vars PROVE ChannelStep
  OBVIOUS
<1>1. CASE IntrStartFails
  <2>1. UNCHANGED <<se_state, stale, wr, last>>
    BY <1>1 DEF IntrStartFails, ctlvars, intrvars, pinvars, hwvars, pollvars
  <2>2. UNCHANGED <<OpenBar, ChanBar, stale>>
    BY <2>1, LiveSame, ChanFrame
  <2> QED
    BY <2>2, ChannelIdle DEF ChannelStep
<1>2. CASE IntrStart
  <2>1. UNCHANGED <<se_state, stale, wr, last>>
    BY <1>2 DEF IntrStart, ctlvars, intrvars, pinvars, hwvars, pollvars
  <2>2. UNCHANGED <<OpenBar, ChanBar, stale>>
    BY <2>1, LiveSame, ChanFrame
  <2> QED
    BY <2>2, ChannelIdle DEF ChannelStep
<1>3. CASE TestDone
  <2>1. UNCHANGED <<se_state, stale, wr, last>>
    BY <1>3 DEF TestDone, ctlvars, intrvars, pinvars, hwvars, pollvars
  <2>2. UNCHANGED <<OpenBar, ChanBar, stale>>
    BY <2>1, LiveSame, ChanFrame
  <2> QED
    BY <2>2, ChannelIdle DEF ChannelStep
<1>4. CASE TestTimeout
  <2>1. UNCHANGED <<se_state, stale, wr, last>>
    BY <1>4 DEF TestTimeout, ctlvars, intrvars, pinvars, hwvars, pollvars
  <2>2. UNCHANGED <<OpenBar, ChanBar, stale>>
    BY <2>1, LiveSame, ChanFrame
  <2> QED
    BY <2>2, ChannelIdle DEF ChannelStep
<1>5. CASE TestFail
  <2>1. UNCHANGED <<se_state, stale, wr, last>>
    BY <1>5 DEF TestFail, ctlvars, intrvars, pinvars, hwvars, pollvars
  <2>2. UNCHANGED <<OpenBar, ChanBar, stale>>
    BY <2>1, LiveSame, ChanFrame
  <2> QED
    BY <2>2, ChannelIdle DEF ChannelStep
<1>6. CASE IntrStop
  <2>1. UNCHANGED <<se_state, stale, wr, last>>
    BY <1>6 DEF IntrStop, ctlvars, intrvars, pinvars, hwvars, pollvars
  <2>2. UNCHANGED <<OpenBar, ChanBar, stale>>
    BY <2>1, LiveSame, ChanFrame
  <2> QED
    BY <2>2, ChannelIdle DEF ChannelStep
<1>7. CASE BusDisable
  <2>1. UNCHANGED <<se_state, stale, wr, last>>
    BY <1>7 DEF BusDisable, ctlvars, intrvars, pinvars, hwvars, pollvars
  <2>2. UNCHANGED <<OpenBar, ChanBar, stale>>
    BY <2>1, LiveSame, ChanFrame
  <2> QED
    BY <2>2, ChannelIdle DEF ChannelStep
<1>8. CASE EvStop
  <2>1. UNCHANGED <<se_state, stale, wr, last>>
    BY <1>8 DEF EvStop, ctlvars, intrvars, pinvars, hwvars, pollvars
  <2>2. UNCHANGED <<OpenBar, ChanBar, stale>>
    BY <2>1, LiveSame, ChanFrame
  <2> QED
    BY <2>2, ChannelIdle DEF ChannelStep
<1>9. ASSUME NEW q \in Evqs, QStart(q) PROVE ChannelStep
  <2>1. q \in AllQs
    BY EvqsType
  <2> QED
    BY <1>9, <2>1, CreateStep DEF ChannelStep, Channel!Next
<1>10. ASSUME NEW q \in Evqs, QStartFails(q) PROVE ChannelStep
  <2>1. UNCHANGED <<se_state, stale, wr, last>>
    BY <1>10 DEF QStartFails, ctlvars, intrvars, pinvars, hwvars, pollvars
  <2>2. UNCHANGED <<OpenBar, ChanBar, stale>>
    BY <2>1, LiveSame, ChanFrame
  <2> QED
    BY <2>2, ChannelIdle DEF ChannelStep
<1>11. ASSUME NEW q \in Evqs, QStarted(q) PROVE ChannelStep
  <2>1. UNCHANGED <<se_state, stale, wr, last>>
    BY <1>11 DEF QStarted, ctlvars, intrvars, pinvars, hwvars, pollvars
  <2>2. UNCHANGED <<OpenBar, ChanBar, stale>>
    BY <2>1, LiveSame, ChanFrame
  <2> QED
    BY <2>2, ChannelIdle DEF ChannelStep
<1>12. ASSUME NEW q \in Evqs, QStartTimeout(q) PROVE ChannelStep
  <2>1. q \in AllQs /\ EndQueue(q) /\ stale' = stale
    BY <1>12, EvqsType DEF QStartTimeout
  <2> QED
    BY <2>1, DestroyStep DEF ChannelStep, Channel!Next
<1>13. ASSUME NEW q \in Evqs, QStop(q) PROVE ChannelStep
  <2>1. q \in AllQs /\ EndQueue(q) /\ stale' = stale
    BY <1>13, EvqsType DEF QStop
  <2> QED
    BY <2>1, DestroyStep DEF ChannelStep, Channel!Next
<1>14. ASSUME NEW q \in Evqs, NEW kind \in Kinds, HwWrite(q, kind)
      PROVE  ChannelStep
  <2>1. q \in AllQs
    BY EvqsType
  <2> QED
    BY <1>14, <2>1, WriteStep DEF ChannelStep, Channel!Next
<1>15. ASSUME NEW q \in Evqs, NEW lost \in BOOLEAN, HwRaise(q, lost)
      PROVE  ChannelStep
  <2>1. UNCHANGED <<se_state, stale, wr, last>>
    BY <1>15 DEF HwRaise, ctlvars, intrvars, pinvars, hwvars, pollvars
  <2>2. UNCHANGED <<OpenBar, ChanBar, stale>>
    BY <2>1, LiveSame, ChanFrame
  <2> QED
    BY <2>2, ChannelIdle DEF ChannelStep
<1>16. ASSUME NEW q \in Evqs, MsgInterrupt(q) PROVE ChannelStep
  <2>1. UNCHANGED <<se_state, stale, wr, last>>
    BY <1>16 DEF MsgInterrupt, ctlvars, intrvars, pinvars, hwvars, pollvars
  <2>2. UNCHANGED <<OpenBar, ChanBar, stale>>
    BY <2>1, LiveSame, ChanFrame
  <2> QED
    BY <2>2, ChannelIdle DEF ChannelStep
<1>17. ASSUME NEW q \in Evqs, Refused(q) PROVE ChannelStep
  <2>1. UNCHANGED <<se_state, stale, wr, last>>
    BY <1>17 DEF Refused, ctlvars, intrvars, pinvars, hwvars, pollvars
  <2>2. UNCHANGED <<OpenBar, ChanBar, stale>>
    BY <2>1, LiveSame, ChanFrame
  <2> QED
    BY <2>2, ChannelIdle DEF ChannelStep
<1>18. ASSUME NEW q \in Evqs, QPrime(q) PROVE ChannelStep
  <2>1. UNCHANGED <<se_state, stale, wr, last>>
    BY <1>18 DEF QPrime, ctlvars, intrvars, pinvars, hwvars, pollvars
  <2>2. UNCHANGED <<OpenBar, ChanBar, stale>>
    BY <2>1, LiveSame, ChanFrame
  <2> QED
    BY <2>2, ChannelIdle DEF ChannelStep
<1>19. ASSUME NEW q \in Evqs, QPollEnter(q) PROVE ChannelStep
  <2>1. UNCHANGED <<se_state, stale, wr, last>>
    BY <1>19 DEF QPollEnter, ctlvars, intrvars, pinvars, hwvars, pollvars
  <2>2. UNCHANGED <<OpenBar, ChanBar, stale>>
    BY <2>1, LiveSame, ChanFrame
  <2> QED
    BY <2>2, ChannelIdle DEF ChannelStep
<1>20. ASSUME NEW q \in Evqs, QPollRead(q) PROVE ChannelStep
  <2>1. UNCHANGED <<se_state, stale, wr, last>>
    BY <1>20 DEF QPollRead, ctlvars, intrvars, pinvars, hwvars, pollvars
  <2>2. UNCHANGED <<OpenBar, ChanBar, stale>>
    BY <2>1, LiveSame, ChanFrame
  <2> QED
    BY <2>2, ChannelIdle DEF ChannelStep
<1>21. ASSUME NEW q \in Evqs, QPollHandle(q) PROVE ChannelStep
  <2>1. q \in AllQs
    BY EvqsType
  <2> QED
    BY <1>21, <2>1, HandleStep DEF ChannelStep, Channel!Next
<1>22. ASSUME NEW q \in Evqs, QPollClear(q) PROVE ChannelStep
  <2>1. UNCHANGED <<se_state, stale, wr, last>>
    BY <1>22 DEF QPollClear, ctlvars, intrvars, pinvars, hwvars, pollvars
  <2>2. UNCHANGED <<OpenBar, ChanBar, stale>>
    BY <2>1, LiveSame, ChanFrame
  <2> QED
    BY <2>2, ChannelIdle DEF ChannelStep
<1>23. ASSUME NEW q \in Evqs, QPollDone(q) PROVE ChannelStep
  <2>1. UNCHANGED <<se_state, stale, wr, last>>
    BY <1>23 DEF QPollDone, ctlvars, intrvars, pinvars, hwvars, pollvars
  <2>2. UNCHANGED <<OpenBar, ChanBar, stale>>
    BY <2>1, LiveSame, ChanFrame
  <2> QED
    BY <2>2, ChannelIdle DEF ChannelStep
<1>24. ASSUME NEW ours \in BOOLEAN, LineInterrupt(ours) PROVE ChannelStep
  <2>1. UNCHANGED <<se_state, stale, wr, last>>
    BY <1>24 DEF LineInterrupt, ctlvars, intrvars, pinvars, hwvars, pollvars
  <2>2. UNCHANGED <<OpenBar, ChanBar, stale>>
    BY <2>1, LiveSame, ChanFrame
  <2> QED
    BY <2>2, ChannelIdle DEF ChannelStep
<1>25. CASE UNCHANGED vars
  <2>1. UNCHANGED <<se_state, stale, wr, last>>
    BY <1>25 DEF vars, ctlvars, intrvars, pinvars, hwvars, pollvars
  <2>2. UNCHANGED <<OpenBar, ChanBar, stale>>
    BY <2>1, LiveSame, ChanFrame
  <2> QED
    BY <2>2, ChannelIdle DEF ChannelStep
<1> QED
  BY <1>1, <1>2, <1>3, <1>4, <1>5, <1>6, <1>7, <1>8, <1>9, <1>10, <1>11,
     <1>12, <1>13, <1>14, <1>15, <1>16, <1>17, <1>18, <1>19, <1>20, <1>21,
     <1>22, <1>23, <1>24, <1>25 DEF Next, Controller, Handler, QPoll

(* Between its start and its stop, a queue whose ring the driver and the   *)
(* controller begin at the same slot hands every event to its handler once *)
(* and in order (siena_ev_qpoll, siena_ev_qprime, sfxge_ev_qpoll,          *)
(* sfxge_ev_qstart, sfxge_ev_qstop), for any ring, batch and bound.        *)
THEOREM ChannelRefined == Spec => DeliversInOrder
<1>1. Init => Channel!Init
  <2> SUFFICES ASSUME Init PROVE Channel!Init
    OBVIOUS
  <2>1. \A q \in AllQs : Live(q) = FALSE /\ stale[q] = FALSE
    BY DEF Init, Live
  <2>2. stale = [q \in AllQs |-> FALSE]
    BY DEF Init
  <2> QED
    BY <2>1, <2>2 DEF Channel!Init
<1>2. IInv /\ [Next]_vars => [Channel!Next]_(Channel!vars)
  BY StepRefines DEF ChannelStep
<1> QED
  BY <1>1, <1>2, Invariance, PTL DEF Spec, DeliversInOrder, Channel!Spec

=============================================================================
