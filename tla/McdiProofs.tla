------------------------------ MODULE McdiProofs ------------------------------
(***************************************************************************)
(* Proofs about Mcdi for every finite set of callers and every width of    *)
(* the sequence number that covers the requests the MC may hold            *)
(* (MaxLate <= SeqMod).  OwnAnswer holds for a reason the code nowhere     *)
(* states: the requests in the hands of the MC have consecutive numbers,   *)
(* of which the header keeps enough bits to tell them apart (QueueInv,     *)
(* AnswerInv).                                                             *)
(***************************************************************************)
EXTENDS Mcdi, TLAPS, FiniteSetTheorems

(* Quotient and remainder.                                                 *)
LEMMA DivMod ==
  ASSUME NEW n \in Nat \ {0}, NEW a \in Int
  PROVE  a \div n \in Int /\ a = n * (a \div n) + (a % n)
OBVIOUS

(* The only multiple of n strictly between -n and n is 0.                  *)
LEMMA SmallMultiple ==
  ASSUME NEW n \in Nat \ {0}, NEW k \in Int, -n < n * k, n * k < n
  PROVE  k = 0
<1>1. CASE k >= 1
  <2>1. n * k = n + n * (k - 1)
    BY SMT
  <2>2. n * (k - 1) >= 0
    BY <1>1, SMT
  <2> QED
    BY <2>1, <2>2
<1>2. CASE k <= -1
  <2>1. n * k = n * (k + 1) - n
    BY SMT
  <2>2. n * (k + 1) <= 0
    BY <1>2, SMT
  <2> QED
    BY <2>1, <2>2
<1> QED
  BY <1>1, <1>2

(* Two numbers less than n apart with the same remainder are equal: a      *)
(* counter is recognised by its low bits.                                  *)
LEMMA ModInjective ==
  ASSUME NEW n \in Nat \ {0}, NEW a \in Int, NEW b \in Int,
         a % n = b % n, -n < a - b, a - b < n
  PROVE  a = b
<1>1. a - b = n * ((a \div n) - (b \div n))
  BY DivMod
<1>2. (a \div n) - (b \div n) = 0
  BY <1>1, SmallMultiple, DivMod
<1> QED
  BY <1>1, <1>2, DivMod

-----------------------------------------------------------------------------
(* Callers that will still take a number.                                  *)
Coming == {t \in Threads : tpc[t] \in {"acquire", "start"}}

BoundInv == emi_seq + Cardinality(Coming) <= MaxSeq

(* Between Acquire and Release the interface is BUSY, for one caller.      *)
LockInv ==
  /\ \A t \in Threads : InRequest(t) => sm_state = "BUSY"
  /\ \A t, u \in Threads : InRequest(t) /\ InRequest(u) => t = u
  /\ \A t \in Threads : Pending(t) <=> emi_pending_req = t

(* The request under way has the last number.                              *)
NumberInv ==
  \A t \in Threads : tpc[t] \in {"send", "poll", "watchdog", "finish"} =>
    emi_seq >= 1 /\ req[t].id = emi_seq - 1

(* The number of the next request to be sent.                              *)
NextId == IF \E t \in Threads : tpc[t] = "send" THEN emi_seq - 1 ELSE emi_seq

(* The MC holds the last requests sent, none left out.                     *)
QueueInv ==
  /\ mc_queue \in Seq([id : 0..MaxSeq, cmd : Cmds, not_epoch : BOOLEAN])
  /\ Len(mc_queue) <= MaxLate
  /\ \A i \in 1..Len(mc_queue) : mc_queue[i].id = NextId - 1 - Len(mc_queue) + i

(* An answer that a caller can find in the buffer was given to one of      *)
(* them, and those the MC still holds are later ones.                      *)
AnswerInv ==
  /\ \A t \in Threads : tpc[t] \in {"poll", "watchdog"} /\ buf.resp =>
       buf.id \in (emi_seq - MaxLate)..(emi_seq - 1 - Len(mc_queue))
  /\ \A t \in Threads : tpc[t] = "finish" =>
       buf.resp /\ buf.id = req[t].id /\ mc_queue = << >>

IInv == TypeOK /\ BoundInv /\ LockInv /\ NumberInv /\ QueueInv /\ AnswerInv


-----------------------------------------------------------------------------
(* The queue of the MC and the bound on emi_seq.                           *)

Sent == [id : 0..MaxSeq, cmd : Cmds, not_epoch : BOOLEAN]

(* Taking the oldest request shifts the rest by one place.                 *)
LEMMA PopQueue ==
  ASSUME NEW S, NEW q \in Seq(S), q # << >>
  PROVE  /\ Head(q) \in S /\ Head(q) = q[1]
         /\ Tail(q) \in Seq(S) /\ Len(q) \in Nat \ {0}
         /\ Len(Tail(q)) = Len(q) - 1
         /\ \A i \in 1..Len(Tail(q)) : Tail(q)[i] = q[i + 1]
OBVIOUS

(* A request is put at the end; the oldest gives way if there are too many. *)
LEMMA SendQueue ==
  ASSUME NEW S, NEW q \in Seq(S), NEW e \in S
  PROVE  /\ LastLate(Append(q, e)) \in Seq(S)
         /\ LET s == LastLate(Append(q, e)) IN
              /\ Len(s) = IF Len(q) + 1 > MaxLate THEN Len(q) ELSE Len(q) + 1
              /\ Len(s) >= 1 => s[Len(s)] = e
              /\ \A i \in 1..(Len(s) - 1) : s[i] = q[i + Len(q) + 1 - Len(s)]
<1> DEFINE a == Append(q, e)
           s == LastLate(a)
           Goal == /\ s \in Seq(S)
                   /\ Len(s) = IF Len(q) + 1 > MaxLate THEN Len(q)
                               ELSE Len(q) + 1
                   /\ Len(s) >= 1 => s[Len(s)] = e
                   /\ \A i \in 1..(Len(s) - 1) :
                        s[i] = q[i + Len(q) + 1 - Len(s)]
<1>1. a \in Seq(S) /\ a # << >> /\ Len(a) = Len(q) + 1 /\ Len(q) \in Nat
  OBVIOUS
<1>2. a[Len(q) + 1] = e /\ \A i \in 1..Len(q) : a[i] = q[i]
  OBVIOUS
<1> HIDE DEF a, s
<1>3. ASSUME Len(q) + 1 > MaxLate PROVE Goal
  <2>1. s = Tail(a)
    BY <1>1, <1>3 DEF LastLate, s
  <2>2. /\ Tail(a) \in Seq(S) /\ Len(Tail(a)) = Len(q)
        /\ \A i \in 1..Len(q) : Tail(a)[i] = a[i + 1]
    BY <1>1, PopQueue
  <2>3. Len(q) >= 1 => Tail(a)[Len(q)] = e
    BY <1>1, <1>2, <2>2
  <2>4. \A i \in 1..(Len(q) - 1) : Tail(a)[i] = q[i + 1]
    BY <1>1, <1>2, <2>2
  <2> QED
    BY <1>1, <1>3, <2>1, <2>2, <2>3, <2>4
<1>4. ASSUME ~(Len(q) + 1 > MaxLate) PROVE Goal
  <2>1. s = a
    BY <1>1, <1>4 DEF LastLate, s
  <2> QED
    BY <1>1, <1>2, <1>4, <2>1
<1> QED
  BY <1>3, <1>4 DEF a, s

(* A field of the request on the stack of a caller is set.                 *)
Frame == [id : 0..MaxSeq, cmd : Cmds, rc : Rcs]

(* Updating a field of a thread's frame leaves a frame.                    *)
LEMMA SetField ==
  ASSUME NEW f \in [Threads -> Frame], NEW t \in Threads
  PROVE  /\ \A x \in 0..MaxSeq : [f EXCEPT ![t].id = x] \in [Threads -> Frame]
         /\ \A x \in Cmds : [f EXCEPT ![t].cmd = x] \in [Threads -> Frame]
         /\ \A x \in Rcs : [f EXCEPT ![t].rc = x] \in [Threads -> Frame]
<1>1. /\ \A x \in 0..MaxSeq : [f[t] EXCEPT !.id = x] \in Frame
      /\ \A x \in Cmds : [f[t] EXCEPT !.cmd = x] \in Frame
      /\ \A x \in Rcs : [f[t] EXCEPT !.rc = x] \in Frame
  BY DEF Frame
<1> QED
  BY <1>1

(* A caller about to take a number finds one.                              *)
LEMMA ComingBound ==
  ASSUME IInv, NEW t \in Threads, tpc[t] \in {"acquire", "start"}
  PROVE  emi_seq < MaxSeq
<1>1. IsFiniteSet(Coming)
  BY McdiAssumption, FS_Subset DEF Coming
<1>2. Cardinality(Coming) \in Nat /\ Cardinality(Coming) # 0
  BY <1>1, FS_CardinalityType, FS_EmptySet DEF Coming
<1> QED
  BY <1>2, McdiAssumption DEF IInv, TypeOK, BoundInv

-----------------------------------------------------------------------------
(* Every variable keeps its shape; emi_seq stays within its bound because  *)
(* a caller is admitted only while a number is left for it.                *)
LEMMA TypeNext == IInv /\ [Next]_vars => TypeOK'
<1> SUFFICES ASSUME IInv, [Next]_vars PROVE TypeOK'
  OBVIOUS
<1> USE McdiAssumption DEF IInv, TypeOK, Cmds, Rcs, vars, smvars, thvars,
      mcvars, evvars
<1>1. ASSUME NEW t \in Threads, NEW cmd \in Cmds, Execute(t, cmd)
      PROVE  TypeOK'
  <2>1. req' \in [Threads -> Frame]
    BY <1>1, SetField DEF Execute, Frame
  <2> QED
    BY <1>1, <2>1 DEF Execute, Goto, Frame
<1>2. ASSUME NEW t \in Threads, Acquire(t) PROVE TypeOK'
  BY <1>2 DEF Acquire, Goto
<1>3. ASSUME NEW t \in Threads, RequestStart(t) PROVE TypeOK'
  <2>1. req' \in [Threads -> Frame]
    BY <1>3, SetField, ComingBound DEF RequestStart, Frame
  <2> QED
    BY <1>3, <2>1, ComingBound DEF RequestStart, Goto, Frame
<1>4. ASSUME NEW t \in Threads, SendRequest(t) PROVE TypeOK'
  <2>1. mc_queue' \in Seq(Sent)
    BY <1>4, SendQueue DEF SendRequest, Sent
  <2> QED
    BY <1>4, <2>1 DEF SendRequest, Goto, Sent
<1>5. ASSUME NEW t \in Threads, PollDone(t) PROVE TypeOK'
  <2>1. req' \in [Threads -> Frame]
    BY <1>5, SetField DEF PollDone, Frame, HeaderRc
  <2> QED
    BY <1>5, <2>1 DEF PollDone, Goto, Frame, HeaderRc
<1>6. ASSUME NEW t \in Threads, PollNone(t) PROVE TypeOK'
  BY <1>6 DEF PollNone, Goto
<1>7. ASSUME NEW t \in Threads, NotExpired(t) PROVE TypeOK'
  BY <1>7 DEF NotExpired, Goto
<1>8. ASSUME NEW t \in Threads, Abort(t) PROVE TypeOK'
  <2>1. req' \in [Threads -> Frame]
    BY <1>8, SetField DEF Abort, Frame
  <2> QED
    BY <1>8, <2>1 DEF Abort, Goto, Frame
<1>9. ASSUME NEW t \in Threads, Timeout(t) PROVE TypeOK'
  BY <1>9 DEF Timeout, Goto
<1>10. ASSUME NEW t \in Threads, Finish(t) PROVE TypeOK'
  BY <1>10 DEF Finish, Goto
<1>11. ASSUME NEW t \in Threads, Raise(t) PROVE TypeOK'
  BY <1>11 DEF Raise, Goto, Exceptional
<1>12. ASSUME NEW t \in Threads, Release(t) PROVE TypeOK'
  BY <1>12 DEF Release, Goto, NoFrame
<1>13. CASE NewEpoch
  BY <1>13 DEF NewEpoch
<1>14. ASSUME NEW c \in {"EIO", "EINTR"}, EvDeath(c) PROVE TypeOK'
  BY <1>14 DEF EvDeath
<1>15. CASE EvDeathRaise
  BY <1>15 DEF EvDeathRaise, DeathCmds, Exceptional
<1>16. CASE McAnswer
  <2>1. Head(mc_queue) \in Sent /\ mc_queue' \in Seq(Sent)
    BY <1>16, PopQueue DEF McAnswer, Sent
  <2> QED
    BY <1>16, <2>1 DEF McAnswer, Sent
<1>17. CASE McForget
  <2>1. mc_queue' \in Seq(Sent)
    BY <1>17, PopQueue DEF McForget, Sent
  <2> QED
    BY <1>17, <2>1 DEF McForget, Sent
<1>18. CASE McReboot
  BY <1>18 DEF McReboot
<1>19. CASE UNCHANGED vars
  BY <1>19
<1> HIDE DEF IInv, TypeOK, Cmds, Rcs, vars, smvars, thvars, mcvars, evvars
<1> QED
  BY <1>1, <1>2, <1>3, <1>4, <1>5, <1>6, <1>7, <1>8, <1>9, <1>10, <1>11,
     <1>12, <1>13, <1>14, <1>15, <1>16, <1>17, <1>18, <1>19 DEF Next, Caller

-----------------------------------------------------------------------------
(* Steps of a caller that take no number leave the reservations alone.     *)
LEMMA SameComing ==
  ASSUME TypeOK, NEW t \in Threads, NEW l, tpc' = [tpc EXCEPT ![t] = l],
         tpc[t] \notin {"acquire", "start"}, l \notin {"acquire", "start"}
  PROVE  Coming' = Coming
BY DEF Coming, TypeOK

(* Where efx_mcdi_request_poll leaves the caller.                          *)
LEMMA PollDoneTo ==
  ASSUME NEW t \in Threads, PollDone(t)
  PROVE  \E l \in {"finish", "raise", "release"} :
           /\ tpc' = [tpc EXCEPT ![t] = l]
           /\ l = "finish" => HeaderRc(t) = "OK"
BY DEF PollDone, Goto

(* A caller on its way to RequestStart has a number reserved for it.       *)
LEMMA BoundNext == IInv /\ [Next]_vars => BoundInv'
<1> SUFFICES ASSUME IInv, [Next]_vars PROVE BoundInv'
  OBVIOUS
<1> USE McdiAssumption DEF IInv, BoundInv, vars, smvars, thvars, mcvars,
      evvars
<1>1. ASSUME NEW t \in Threads, NEW cmd \in Cmds, Execute(t, cmd)
      PROVE  BoundInv'
  <2>1. Coming' = Coming \cup {t} /\ t \notin Coming
    BY <1>1 DEF Execute, Goto, Coming, TypeOK
  <2>2. IsFiniteSet(Coming) /\ Cardinality(Coming) \in Nat
    BY FS_Subset, FS_CardinalityType DEF Coming
  <2>3. Cardinality(Coming') = Cardinality(Coming) + 1
    BY <2>1, <2>2, FS_AddElement
  <2> QED
    BY <1>1, <2>2, <2>3 DEF Execute, Coming, TypeOK
<1>2. ASSUME NEW t \in Threads, Acquire(t) PROVE BoundInv'
  <2>1. Coming' = Coming
    BY <1>2 DEF Acquire, Goto, Coming, TypeOK
  <2> QED
    BY <1>2, <2>1 DEF Acquire
<1>3. ASSUME NEW t \in Threads, RequestStart(t) PROVE BoundInv'
  <2>1. Coming' = Coming \ {t} /\ t \in Coming
    BY <1>3 DEF RequestStart, Goto, Coming, TypeOK
  <2>2. IsFiniteSet(Coming) /\ Cardinality(Coming) \in Nat
    BY FS_Subset, FS_CardinalityType DEF Coming
  <2>3. Cardinality(Coming') = Cardinality(Coming) - 1
    BY <2>1, <2>2, FS_RemoveElement
  <2> QED
    BY <1>3, <2>2, <2>3 DEF RequestStart, TypeOK
<1>4. ASSUME NEW t \in Threads, SendRequest(t) PROVE BoundInv'
  BY <1>4, SameComing DEF SendRequest, Goto
<1>5. ASSUME NEW t \in Threads, PollDone(t) PROVE BoundInv'
  BY <1>5, PollDoneTo, SameComing DEF PollDone, Goto
<1>6. ASSUME NEW t \in Threads, PollNone(t) PROVE BoundInv'
  BY <1>6, SameComing DEF PollNone, Goto
<1>7. ASSUME NEW t \in Threads, NotExpired(t) PROVE BoundInv'
  BY <1>7, SameComing DEF NotExpired, Goto
<1>8. ASSUME NEW t \in Threads, Abort(t) PROVE BoundInv'
  <2>1. tpc[t] = "watchdog" /\ tpc' = [tpc EXCEPT ![t] = "timeout"]
    BY <1>8 DEF Abort, Goto
  <2>2. Coming' = Coming
    BY <2>1, SameComing
  <2> QED
    BY <1>8, <2>2 DEF Abort
<1>9. ASSUME NEW t \in Threads, Timeout(t) PROVE BoundInv'
  BY <1>9, SameComing DEF Timeout, Goto
<1>10. ASSUME NEW t \in Threads, Finish(t) PROVE BoundInv'
  BY <1>10, SameComing DEF Finish, Goto
<1>11. ASSUME NEW t \in Threads, Raise(t) PROVE BoundInv'
  BY <1>11, SameComing DEF Raise, Goto
<1>12. ASSUME NEW t \in Threads, Release(t) PROVE BoundInv'
  BY <1>12, SameComing, ZenonT(30) DEF Release, Goto
<1>13. CASE NewEpoch
  BY <1>13 DEF NewEpoch, Coming
<1>14. ASSUME NEW c \in {"EIO", "EINTR"}, EvDeath(c) PROVE BoundInv'
  BY <1>14 DEF EvDeath, Coming
<1>15. CASE EvDeathRaise
  BY <1>15 DEF EvDeathRaise, Coming
<1>16. CASE McAnswer
  BY <1>16 DEF McAnswer, Coming
<1>17. CASE McForget
  BY <1>17 DEF McForget, Coming
<1>18. CASE McReboot
  BY <1>18 DEF McReboot, Coming
<1>19. CASE UNCHANGED vars
  BY <1>19 DEF Coming
<1> HIDE DEF IInv, BoundInv, vars, smvars, thvars, mcvars, evvars
<1> QED
  BY <1>1, <1>2, <1>3, <1>4, <1>5, <1>6, <1>7, <1>8, <1>9, <1>10, <1>11,
     <1>12, <1>13, <1>14, <1>15, <1>16, <1>17, <1>18, <1>19 DEF Next, Caller

(* The interface is taken while it is free, and freed by the caller that   *)
(* holds it, when its request is no longer pending.                        *)
LEMMA LockNext == IInv /\ [Next]_vars => LockInv'
<1> SUFFICES ASSUME IInv, [Next]_vars PROVE LockInv'
  OBVIOUS
<1> USE McdiAssumption DEF IInv, TypeOK, LockInv, InRequest, Pending, vars,
      smvars, thvars, mcvars, evvars
<1>1. ASSUME NEW t \in Threads, NEW cmd \in Cmds, Execute(t, cmd)
      PROVE  LockInv'
  BY <1>1 DEF Execute, Goto
<1>2. ASSUME NEW t \in Threads, Acquire(t) PROVE LockInv'
  BY <1>2 DEF Acquire, Goto, MayAcquire
<1>3. ASSUME NEW t \in Threads, RequestStart(t) PROVE LockInv'
  BY <1>3 DEF RequestStart, Goto
<1>4. ASSUME NEW t \in Threads, SendRequest(t) PROVE LockInv'
  BY <1>4 DEF SendRequest, Goto
<1>5. ASSUME NEW t \in Threads, PollDone(t) PROVE LockInv'
  BY <1>5, PollDoneTo DEF PollDone, Goto
<1>6. ASSUME NEW t \in Threads, PollNone(t) PROVE LockInv'
  BY <1>6 DEF PollNone, Goto
<1>7. ASSUME NEW t \in Threads, NotExpired(t) PROVE LockInv'
  BY <1>7 DEF NotExpired, Goto
<1>8. ASSUME NEW t \in Threads, Abort(t) PROVE LockInv'
  BY <1>8 DEF Abort, Goto
<1>9. ASSUME NEW t \in Threads, Timeout(t) PROVE LockInv'
  BY <1>9 DEF Timeout, Goto
<1>10. ASSUME NEW t \in Threads, Finish(t) PROVE LockInv'
  BY <1>10 DEF Finish, Goto
<1>11. ASSUME NEW t \in Threads, Raise(t) PROVE LockInv'
  BY <1>11 DEF Raise, Goto
<1>12. ASSUME NEW t \in Threads, Release(t) PROVE LockInv'
  BY <1>12 DEF Release, Goto
<1>13. CASE NewEpoch
  BY <1>13 DEF NewEpoch
<1>14. ASSUME NEW c \in {"EIO", "EINTR"}, EvDeath(c) PROVE LockInv'
  BY <1>14 DEF EvDeath
<1>15. CASE EvDeathRaise
  BY <1>15 DEF EvDeathRaise
<1>16. CASE McAnswer
  BY <1>16 DEF McAnswer
<1>17. CASE McForget
  BY <1>17 DEF McForget
<1>18. CASE McReboot
  BY <1>18 DEF McReboot
<1>19. CASE UNCHANGED vars
  BY <1>19
<1> HIDE DEF IInv, TypeOK, LockInv, InRequest, Pending, vars, smvars, thvars,
      mcvars, evvars
<1> QED
  BY <1>1, <1>2, <1>3, <1>4, <1>5, <1>6, <1>7, <1>8, <1>9, <1>10, <1>11,
     <1>12, <1>13, <1>14, <1>15, <1>16, <1>17, <1>18, <1>19 DEF Next, Caller

(* Numbers are taken under the interface.                                  *)
LEMMA NumberNext == IInv /\ [Next]_vars => NumberInv'
<1> SUFFICES ASSUME IInv, [Next]_vars PROVE NumberInv'
  OBVIOUS
<1> USE McdiAssumption DEF IInv, TypeOK, LockInv, NumberInv, InRequest, vars,
      smvars, thvars, mcvars, evvars
<1>1. ASSUME NEW t \in Threads, NEW cmd \in Cmds, Execute(t, cmd)
      PROVE  NumberInv'
  BY <1>1 DEF Execute, Goto
<1>2. ASSUME NEW t \in Threads, Acquire(t) PROVE NumberInv'
  BY <1>2 DEF Acquire, Goto
<1>3. ASSUME NEW t \in Threads, RequestStart(t) PROVE NumberInv'
  <2>1. req'[t].id = emi_seq /\ emi_seq' = emi_seq + 1 /\ emi_seq \in Nat
    BY <1>3 DEF RequestStart
  <2>2. \A u \in Threads : u # t => tpc'[u] \in {"idle", "acquire"}
    BY <1>3 DEF RequestStart, Goto
  <2> QED
    BY ONLY <2>1, <2>2 DEF NumberInv
<1>4. ASSUME NEW t \in Threads, SendRequest(t) PROVE NumberInv'
  BY <1>4 DEF SendRequest, Goto
<1>5. ASSUME NEW t \in Threads, PollDone(t) PROVE NumberInv'
  BY <1>5 DEF PollDone, Goto
<1>6. ASSUME NEW t \in Threads, PollNone(t) PROVE NumberInv'
  BY <1>6 DEF PollNone, Goto
<1>7. ASSUME NEW t \in Threads, NotExpired(t) PROVE NumberInv'
  BY <1>7 DEF NotExpired, Goto
<1>8. ASSUME NEW t \in Threads, Abort(t) PROVE NumberInv'
  BY <1>8 DEF Abort, Goto
<1>9. ASSUME NEW t \in Threads, Timeout(t) PROVE NumberInv'
  BY <1>9 DEF Timeout, Goto
<1>10. ASSUME NEW t \in Threads, Finish(t) PROVE NumberInv'
  BY <1>10 DEF Finish, Goto
<1>11. ASSUME NEW t \in Threads, Raise(t) PROVE NumberInv'
  BY <1>11 DEF Raise, Goto
<1>12. ASSUME NEW t \in Threads, Release(t) PROVE NumberInv'
  BY <1>12 DEF Release, Goto
<1>13. CASE NewEpoch
  BY <1>13 DEF NewEpoch
<1>14. ASSUME NEW c \in {"EIO", "EINTR"}, EvDeath(c) PROVE NumberInv'
  BY <1>14 DEF EvDeath
<1>15. CASE EvDeathRaise
  BY <1>15 DEF EvDeathRaise
<1>16. CASE McAnswer
  BY <1>16 DEF McAnswer
<1>17. CASE McForget
  BY <1>17 DEF McForget
<1>18. CASE McReboot
  BY <1>18 DEF McReboot
<1>19. CASE UNCHANGED vars
  BY <1>19
<1> HIDE DEF IInv, TypeOK, LockInv, NumberInv, InRequest, vars, smvars,
      thvars, mcvars, evvars
<1> QED
  BY <1>1, <1>2, <1>3, <1>4, <1>5, <1>6, <1>7, <1>8, <1>9, <1>10, <1>11,
     <1>12, <1>13, <1>14, <1>15, <1>16, <1>17, <1>18, <1>19 DEF Next, Caller

(* Steps that leave the queue, or take its oldest request.                 *)
LEMMA SameQueue ==
  ASSUME QueueInv, mc_queue' = mc_queue, NextId' = NextId
  PROVE  QueueInv'
BY DEF QueueInv

(* Taking the oldest event keeps the others in order.                      *)
LEMMA PoppedQueue ==
  ASSUME QueueInv, TypeOK, mc_queue # << >>, mc_queue' = Tail(mc_queue),
         NextId' = NextId
  PROVE  QueueInv'
<1>1. /\ Tail(mc_queue) \in Seq(Sent) /\ Len(mc_queue) \in Nat \ {0}
      /\ Len(Tail(mc_queue)) = Len(mc_queue) - 1
      /\ \A i \in 1..Len(Tail(mc_queue)) : Tail(mc_queue)[i] = mc_queue[i + 1]
  BY PopQueue DEF QueueInv, Sent
<1>2. NextId \in Int
  BY DEF NextId, TypeOK
<1> QED
  BY <1>1, <1>2, McdiAssumption DEF QueueInv, Sent

(* A sequence of length 0 is the empty one.                                *)
LEMMA EmptySeq ==
  ASSUME NEW S, NEW q \in Seq(S), Len(q) = 0
  PROVE  q = << >>
OBVIOUS

(* The next request keeps its number when a caller moves on from elsewhere *)
(* than RequestStart and SendRequest.                                      *)
LEMMA SameNextId ==
  ASSUME TypeOK, NEW t \in Threads, NEW l, tpc' = [tpc EXCEPT ![t] = l],
         tpc[t] # "send", l # "send", emi_seq' = emi_seq
  PROVE  NextId' = NextId
BY DEF NextId, TypeOK

(* Requests join the queue in the order of their numbers and leave it in   *)
(* the same order.                                                         *)
LEMMA QueueNext == IInv /\ [Next]_vars => QueueInv'
<1> SUFFICES ASSUME IInv, [Next]_vars PROVE QueueInv'
  OBVIOUS
<1> USE McdiAssumption DEF IInv, vars, smvars, thvars, mcvars, evvars
<1>1. ASSUME NEW t \in Threads, NEW cmd \in Cmds, Execute(t, cmd)
      PROVE  QueueInv'
  BY <1>1, SameQueue, SameNextId DEF Execute, Goto
<1>2. ASSUME NEW t \in Threads, Acquire(t) PROVE QueueInv'
  BY <1>2, SameQueue, SameNextId DEF Acquire, Goto
<1>3. ASSUME NEW t \in Threads, RequestStart(t) PROVE QueueInv'
  <2>1. tpc[t] = "start" /\ emi_seq' = emi_seq + 1 /\ emi_seq \in Nat
        /\ tpc'[t] = "send"
    BY <1>3 DEF RequestStart, Goto, TypeOK
  <2>2. ~\E u \in Threads : tpc[u] = "send"
    BY <2>1 DEF LockInv, InRequest
  <2>3. NextId' = NextId
    BY <2>1, <2>2 DEF NextId
  <2> QED
    BY <1>3, <2>3, SameQueue DEF RequestStart
<1>4. ASSUME NEW t \in Threads, SendRequest(t) PROVE QueueInv'
  <2> DEFINE e == [id |-> req[t].id, cmd |-> req[t].cmd,
                   not_epoch |-> ~emi_new_epoch]
  <2>1. NextId = emi_seq - 1 /\ NextId' = emi_seq /\ emi_seq \in Nat
    BY <1>4 DEF SendRequest, Goto, NextId, LockInv, InRequest, TypeOK
  <2>2. e.id = NextId /\ e \in Sent /\ mc_queue' = LastLate(Append(mc_queue, e))
    BY <1>4, <2>1 DEF SendRequest, NumberInv, TypeOK, Sent
  <2>3. /\ mc_queue \in Seq(Sent) /\ Len(mc_queue) \in 0..MaxLate
        /\ \A i \in 1..Len(mc_queue) :
             mc_queue[i].id = NextId - 1 - Len(mc_queue) + i
    BY DEF QueueInv, Sent
  <2> HIDE DEF e
  <2> DEFINE s == LastLate(Append(mc_queue, e))
  <2>4. /\ s \in Seq(Sent) /\ (Len(s) >= 1 => s[Len(s)] = e)
        /\ Len(s) = IF Len(mc_queue) + 1 > MaxLate THEN Len(mc_queue)
                    ELSE Len(mc_queue) + 1
        /\ \A i \in 1..(Len(s) - 1) :
             s[i] = mc_queue[i + Len(mc_queue) + 1 - Len(s)]
    BY <2>2, <2>3, SendQueue, ZenonT(30)
  <2> HIDE DEF s
  <2>6. Len(s) \in 1..MaxLate /\ s[Len(s)] = e /\ NextId \in Int
    BY <2>1, <2>3, <2>4
  <2>5. \A i \in 1..Len(s) : s[i].id = NextId - Len(s) + i
    <3> TAKE i \in 1..Len(s)
    <3>1. CASE i = Len(s)
      BY <2>2, <2>6, <3>1
    <3>2. CASE i # Len(s)
      <4>1. i + Len(mc_queue) + 1 - Len(s) \in 1..Len(mc_queue)
        BY <2>3, <2>4, <2>6, <3>2
      <4>2. i \in 1..(Len(s) - 1)
        BY <2>6, <3>2
      <4>3. s[i] = mc_queue[i + Len(mc_queue) + 1 - Len(s)]
        BY ONLY <2>4, <4>2
      <4> QED
        BY <2>3, <2>6, <4>1, <4>3
    <3> QED
      BY <3>1, <3>2
  <2>7. mc_queue' = s
    BY <2>2 DEF s
  <2>8. \A i \in 1..Len(s) : s[i].id = NextId' - 1 - Len(s) + i
    BY <2>1, <2>5, <2>6
  <2>9. MaxLate \in Nat
    OBVIOUS
  <2> QED
    BY ONLY <2>4, <2>6, <2>7, <2>8, <2>9 DEF QueueInv, Sent
<1>5. ASSUME NEW t \in Threads, PollDone(t) PROVE QueueInv'
  BY <1>5, SameQueue, SameNextId, PollDoneTo DEF PollDone, Goto
<1>6. ASSUME NEW t \in Threads, PollNone(t) PROVE QueueInv'
  BY <1>6, SameQueue, SameNextId DEF PollNone, Goto
<1>7. ASSUME NEW t \in Threads, NotExpired(t) PROVE QueueInv'
  BY <1>7, SameQueue, SameNextId DEF NotExpired, Goto
<1>8. ASSUME NEW t \in Threads, Abort(t) PROVE QueueInv'
  BY <1>8, SameQueue, SameNextId DEF Abort, Goto
<1>9. ASSUME NEW t \in Threads, Timeout(t) PROVE QueueInv'
  BY <1>9, SameQueue, SameNextId DEF Timeout, Goto
<1>10. ASSUME NEW t \in Threads, Finish(t) PROVE QueueInv'
  BY <1>10, SameQueue, SameNextId DEF Finish, Goto
<1>11. ASSUME NEW t \in Threads, Raise(t) PROVE QueueInv'
  BY <1>11, SameQueue, SameNextId DEF Raise, Goto
<1>12. ASSUME NEW t \in Threads, Release(t) PROVE QueueInv'
  BY <1>12, SameQueue, SameNextId DEF Release, Goto
<1>13. CASE NewEpoch
  BY <1>13, SameQueue DEF NewEpoch, NextId
<1>14. ASSUME NEW c \in {"EIO", "EINTR"}, EvDeath(c) PROVE QueueInv'
  BY <1>14, SameQueue DEF EvDeath, NextId
<1>15. CASE EvDeathRaise
  BY <1>15, SameQueue DEF EvDeathRaise, NextId
<1>16. CASE McAnswer
  BY <1>16, PoppedQueue DEF McAnswer, NextId
<1>17. CASE McForget
  BY <1>17, PoppedQueue DEF McForget, NextId
<1>18. CASE McReboot
  BY <1>18 DEF McReboot, QueueInv
<1>19. CASE UNCHANGED vars
  BY <1>19, SameQueue DEF NextId
<1> HIDE DEF IInv, vars, smvars, thvars, mcvars, evvars
<1> QED
  BY <1>1, <1>2, <1>3, <1>4, <1>5, <1>6, <1>7, <1>8, <1>9, <1>10, <1>11,
     <1>12, <1>13, <1>14, <1>15, <1>16, <1>17, <1>18, <1>19 DEF Next, Caller

(* The answer accepted by efx_mcdi_request_poll has the low bits of the    *)
(* last number and is one of the last MaxLate, so it has that number.      *)
LEMMA AnswerNext == IInv /\ [Next]_vars => AnswerInv'
<1> SUFFICES ASSUME IInv, [Next]_vars PROVE AnswerInv'
  OBVIOUS
<1> USE McdiAssumption DEF IInv, TypeOK, LockInv, AnswerInv, InRequest, vars,
      smvars, thvars, mcvars, evvars
<1>1. ASSUME NEW t \in Threads, NEW cmd \in Cmds, Execute(t, cmd)
      PROVE  AnswerInv'
  BY <1>1 DEF Execute, Goto
<1>2. ASSUME NEW t \in Threads, Acquire(t) PROVE AnswerInv'
  BY <1>2 DEF Acquire, Goto
<1>3. ASSUME NEW t \in Threads, RequestStart(t) PROVE AnswerInv'
  BY <1>3 DEF RequestStart, Goto
<1>4. ASSUME NEW t \in Threads, SendRequest(t) PROVE AnswerInv'
  BY <1>4 DEF SendRequest, Goto
<1>5. ASSUME NEW t \in Threads, PollDone(t) PROVE AnswerInv'
  <2>1. PICK l \in {"finish", "raise", "release"} :
          tpc' = [tpc EXCEPT ![t] = l] /\ (l = "finish" => HeaderRc(t) = "OK")
    BY <1>5, PollDoneTo
  <2>2. /\ tpc[t] = "poll" /\ buf.resp /\ req'[t].id = req[t].id
        /\ UNCHANGED <<emi_seq, buf, mc_queue>>
    BY <1>5 DEF PollDone
  <2>3. req[t].id = emi_seq - 1 /\ emi_seq \in Nat
    BY <2>2 DEF NumberInv
  <2>4. buf.id \in (emi_seq - MaxLate)..(emi_seq - 1 - Len(mc_queue))
    BY <2>2
  <2>5. Len(mc_queue) \in Nat
    BY DEF QueueInv
  <2>6. ASSUME l = "finish"
        PROVE  buf.id = emi_seq - 1 /\ mc_queue = << >>
    <3>1. buf.id % SeqMod = (emi_seq - 1) % SeqMod
      BY <2>1, <2>6 DEF HeaderRc
    <3>2. buf.id \in Int /\ SeqMod \in Nat \ {0} /\ MaxLate \in 1..SeqMod
      OBVIOUS
    <3>3. buf.id = emi_seq - 1
      <4>1. -SeqMod < buf.id - (emi_seq - 1) /\ buf.id - (emi_seq - 1) < SeqMod
        BY ONLY <2>3, <2>4, <2>5, <3>2
      <4> QED
        BY ONLY <2>3, <3>1, <3>2, <4>1, ModInjective
    <3> QED
      BY <2>4, <2>5, <3>3, EmptySeq DEF QueueInv
  <2>7. \A u \in Threads : u # t => tpc'[u] \in {"idle", "acquire"}
    BY <2>1, <2>2
  <2> QED
    BY <2>1, <2>2, <2>3, <2>4, <2>6, <2>7
<1>6. ASSUME NEW t \in Threads, PollNone(t) PROVE AnswerInv'
  BY <1>6 DEF PollNone, Goto
<1>7. ASSUME NEW t \in Threads, NotExpired(t) PROVE AnswerInv'
  BY <1>7 DEF NotExpired, Goto
<1>8. ASSUME NEW t \in Threads, Abort(t) PROVE AnswerInv'
  BY <1>8 DEF Abort, Goto
<1>9. ASSUME NEW t \in Threads, Timeout(t) PROVE AnswerInv'
  BY <1>9 DEF Timeout, Goto
<1>10. ASSUME NEW t \in Threads, Finish(t) PROVE AnswerInv'
  BY <1>10 DEF Finish, Goto
<1>11. ASSUME NEW t \in Threads, Raise(t) PROVE AnswerInv'
  BY <1>11 DEF Raise, Goto
<1>12. ASSUME NEW t \in Threads, Release(t) PROVE AnswerInv'
  BY <1>12 DEF Release, Goto
<1>13. CASE NewEpoch
  BY <1>13 DEF NewEpoch
<1>14. ASSUME NEW c \in {"EIO", "EINTR"}, EvDeath(c) PROVE AnswerInv'
  BY <1>14 DEF EvDeath
<1>15. CASE EvDeathRaise
  BY <1>15 DEF EvDeathRaise
<1>16. CASE McAnswer
  <2>1. buf'.resp /\ buf'.id = Head(mc_queue).id /\ mc_queue' = Tail(mc_queue)
        /\ mc_queue # << >> /\ UNCHANGED <<tpc, emi_seq, req>>
    BY <1>16 DEF McAnswer
  <2>2. /\ Head(mc_queue) = mc_queue[1] /\ Len(mc_queue) \in 1..MaxLate
        /\ Len(Tail(mc_queue)) = Len(mc_queue) - 1
    BY <2>1, PopQueue DEF QueueInv
  <2>3. Head(mc_queue).id = NextId - Len(mc_queue)
    BY <2>2 DEF QueueInv, NextId
  <2>4. ASSUME NEW t \in Threads, tpc[t] \in {"poll", "watchdog"}
        PROVE  NextId = emi_seq
    BY <2>4 DEF NextId
  <2>5. \A t \in Threads : tpc[t] # "finish"
    BY <2>1
  <2>6. emi_seq \in Nat /\ MaxLate \in Nat
    OBVIOUS
  <2> QED
    BY ONLY <2>1, <2>2, <2>3, <2>4, <2>5, <2>6 DEF AnswerInv
<1>17. CASE McForget
  BY <1>17, PopQueue DEF McForget, QueueInv
<1>18. CASE McReboot
  BY <1>18 DEF McReboot, QueueInv
<1>19. CASE UNCHANGED vars
  BY <1>19
<1> HIDE DEF IInv, TypeOK, LockInv, AnswerInv, InRequest, vars, smvars,
      thvars, mcvars, evvars
<1> QED
  BY <1>1, <1>2, <1>3, <1>4, <1>5, <1>6, <1>7, <1>8, <1>9, <1>10, <1>11,
     <1>12, <1>13, <1>14, <1>15, <1>16, <1>17, <1>18, <1>19 DEF Next, Caller

-----------------------------------------------------------------------------
(* The invariant holds at the end of sfxge_mcdi_init.                      *)
LEMMA InitInv == Init => IInv
<1> SUFFICES ASSUME Init PROVE IInv
  OBVIOUS
<1> USE McdiAssumption
<1>1. TypeOK
  <2>1. NoFrame \in Frame
    BY DEF NoFrame, Frame, Cmds, Rcs
  <2>2. req \in [Threads -> [id : 0..MaxSeq, cmd : Cmds, rc : Rcs]]
    BY <2>1 DEF Init, Frame
  <2>3. mc_queue \in Seq([id : 0..MaxSeq, cmd : Cmds, not_epoch : BOOLEAN])
    BY DEF Init
  <2>4. buf \in [resp : BOOLEAN, id : 0..MaxSeq, cmd : Cmds,
                 rc : {"OK", "ERR", "EINTR", "REBOOTED"}]
    BY DEF Init, Cmds
  <2>5. tpc \in [Threads -> {"idle", "acquire", "start", "send", "poll",
                          "watchdog", "timeout", "finish", "raise", "release"}]
    BY DEF Init
  <2>6. sm_state \in {"INITIALIZED", "BUSY"}
    BY DEF Init
  <2>7. emi_pending_req \in Threads \cup {NoReq} /\ emi_seq \in 0..MaxSeq
    BY DEF Init
  <2>8. emi_new_epoch \in BOOLEAN /\ mc_stale \in BOOLEAN
    BY DEF Init
  <2>9. mc_events \subseteq {"EIO", "EINTR"} /\ reboots \in 0..MaxReboots
    BY DEF Init
  <2>10. dpc \in {"idle", "raise"} /\ dreq \in Threads \cup {NoReq}
    BY DEF Init
  <2>11. dcause \in {"EIO", "EINTR"} /\ report \in Rcs \cup {"none"}
    BY DEF Init
  <2> QED
    BY ONLY <2>2, <2>3, <2>4, <2>5, <2>6, <2>7, <2>8, <2>9, <2>10, <2>11
       DEF TypeOK
<1>2. BoundInv
  <2>1. Coming = {}
    BY DEF Init, Coming
  <2> QED
    BY <2>1, FS_EmptySet DEF Init, BoundInv
<1>3. LockInv /\ NumberInv
  BY DEF Init, LockInv, NumberInv, InRequest, Pending
<1>4. QueueInv
  BY DEF Init, QueueInv
<1>5. AnswerInv
  BY DEF Init, AnswerInv
<1> QED
  BY <1>1, <1>2, <1>3, <1>4, <1>5 DEF IInv

(* Every step keeps it.                                                    *)
LEMMA NextInv == IInv /\ [Next]_vars => IInv'
BY TypeNext, BoundNext, LockNext, NumberNext, QueueNext, AnswerNext DEF IInv

(* The inductive invariant holds in every state of every behaviour.        *)
LEMMA Invariance == Spec => []IInv
<1>1. IInv /\ [Next]_vars => IInv'
  BY NextInv
<1> QED
  BY InitInv, <1>1, PTL DEF Spec

(* sfxge_mcdi_execute admits one request at a time and emi_pending_req is  *)
(* the request of the caller that polls for it, whatever the MC and        *)
(* efx_mcdi_ev_death do meanwhile.                                         *)
THEOREM OneRequestAlways == Spec => []OneRequest
<1>1. IInv => OneRequest
  BY DEF IInv, LockInv, OneRequest
<1> QED
  BY Invariance, <1>1, PTL

(* A request that succeeds has its own answer in the buffer, when the poll *)
(* accepts it and still when efx_mcdi_finish_response reads it again, for  *)
(* every width of the sequence number that covers what the MC may hold.    *)
THEOREM OwnAnswerAlways == Spec => []OwnAnswer
<1>1. IInv => OwnAnswer
  BY DEF IInv, AnswerInv, OwnAnswer
<1> QED
  BY Invariance, <1>1, PTL

=============================================================================
