------------------------ MODULE SfxgeLifecycleProofs ------------------------
(***************************************************************************)
(* Proofs about SfxgeLifecycle for any number of callers and reporting     *)
(* threads, any bounds and any policy.  The inductive invariant is IInv:   *)
(* StepInv ties the set of running subsystems to the position in           *)
(* sfxge_start_locked / sfxge_stop_locked, OwnerInv says which thread may  *)
(* be where, AttachInv which s_state each part of attach and detach may    *)
(* meet, CreateInv what sfxge_create has built so far.  What is said of    *)
(* the link and of the reports has invariants of its own (LinkInv,         *)
(* ReportInv, IocInv), proved on top of IInv.                               *)
(***************************************************************************)
EXTENDS SfxgeLifecycle, TLAPS

Moving == {"start", "unwind", "stop"}

StepInv ==
  /\ pc = "start"  => idx >= 1 /\ up = 1..(idx - 1) /\ s_state = "STARTING"
  /\ pc = "unwind" => idx <= NStart /\ up = 1..idx /\ s_state = "STARTING"
  /\ pc = "stop"   => idx <= NStart /\ up = 1..idx /\ s_state = "STOPPING"
  /\ pc \notin Moving =>
       /\ s_state \notin {"STARTING", "STOPPING"}
       /\ up = IF s_state = "STARTED" THEN 1..NStart ELSE {}

OwnerInv ==
  /\ owner = NoThread => pc = "none"
  /\ owner \in Callers \cup {Ddi} => pc # "none"
  /\ owner = Taskq <=> wpc \notin {"idle", "lock"}
  /\ owner = Ddi <=> apc = "dstop"
  /\ apc = "dstop" => pc \in {"stop", "return"}
  /\ apc = "dstop" /\ pc = "return" => s_state = "REGISTERED"
  /\ wpc \in {"entered", "tell", "stop"} => pc = "none" /\ s_state = "STARTED"
  /\ wpc = "stopping" => /\ pc \in {"stop", "return"}
                         /\ pc = "return" => s_state = "REGISTERED"
  /\ wpc = "clear" => pc = "none" /\ s_state = "REGISTERED"
  /\ wpc = "starting" => pc \in {"start", "unwind", "return"}
  /\ wpc \in {"swap", "exit"} => pc = "none"

(* Where no thread can be starting, stopping or restarting the NIC.        *)
Quiet == apc \notin {"attached", "dwait", "dlock", "dstop"}

AttachInv ==
  /\ Quiet => pc = "none" /\ wpc \in {"idle", "lock", "swap", "exit"}
  /\ apc \in {"absent", "creating", "createfail", "destroy"} =>
       s_state = "UNINITIALIZED"
  /\ apc \in {"kstats", "register", "afail", "dkstats", "dloans"} =>
       s_state = "INITIALIZED"
  /\ apc = "unregister" => s_state = "REGISTERED"
  /\ apc = "dcheck" => s_state \in {"REGISTERED", "INITIALIZED"}
  /\ apc \in {"attached", "dwait", "dlock"} => s_state # "UNINITIALIZED"

CreateInv ==
  /\ apc = "creating" => aidx >= 1 /\ created = 1..(aidx - 1)
  /\ apc \in {"createfail", "destroy"} => aidx <= NCreate /\ created = 1..aidx
  /\ apc = "absent" => created = {}
  /\ apc \notin {"absent", "creating", "createfail", "destroy"} =>
       created = 1..NCreate
  /\ TaskqStep \notin created => TaskqIdle /\ NotReporting

IInv == TypeOK /\ StepInv /\ OwnerInv /\ AttachInv /\ CreateInv /\ OneRestart
(* The positions, program counters and sets keep their ranges.             *)
LEMMA TypeStateNext == IInv /\ [Next]_vars => TypeState'
<1> SUFFICES ASSUME IInv, [Next]_vars PROVE TypeState'
  OBVIOUS
<1> USE LifecycleAssumption DEF IInv, TypeOK, TypeState, StepInv, CreateInv,
      TaskqIdle, NStart, NCreate, Mac, TaskqStep, McdiStep, NoThread, Taskq,
      Ddi, Intr, Reporters, vars, lockvars, restartvars, linkvars, attachvars,
      iocvars
<1>1. CASE StartStepOk
  BY <1>1 DEF StartStepOk, NicReset
<1>2. CASE StartDone
  BY <1>2 DEF StartDone
<1>3. CASE StartStepFail
  BY <1>3 DEF StartStepFail
<1>4. CASE UnwindStep
  BY <1>4 DEF UnwindStep, NicReset, MoreToUndo, UndoStep, MacStop
<1>5. CASE StopStep
  BY <1>5 DEF StopStep, NicReset, MoreToUndo, MacStop
<1>6. CASE StopDone
  BY <1>6 DEF StopDone
<1>7. CASE CallerReturn
  BY <1>7 DEF CallerReturn
<1>8. CASE TaskBegin
  BY <1>8 DEF TaskBegin, OnlyWorker
<1>9. CASE RestartLinkDown
  BY <1>9 DEF RestartLinkDown, OnlyWorker
<1>10. CASE RestartLinkTell
  BY <1>10 DEF RestartLinkTell, OnlyWorker
<1>11. CASE RestartStop
  BY <1>11 DEF RestartStop, StopEnter, OnlyWorker
<1>12. CASE RestartPolicy
  BY <1>12 DEF RestartPolicy, OnlyWorker
<1>13. CASE RestartClear
  BY <1>13 DEF RestartClear, StartEnter, OnlyWorker
<1>14. CASE RestartStarted
  BY <1>14 DEF RestartStarted, OnlyWorker
<1>15. CASE RestartSwap
  BY <1>15 DEF RestartSwap, OnlyWorker
<1>16. CASE RestartExit
  BY <1>16 DEF RestartExit, OnlyWorker
<1>17. CASE RestartLock
  BY <1>17 DEF RestartLock, StateLockFree, OnlyWorker
<1>18. CASE IntrFatal
  BY <1>18 DEF IntrFatal, Report, CountRestart
<1>19. CASE IoctlReset
  BY <1>19 DEF IoctlReset, StateLockFree, CountRestart, InProgress
<1>20. CASE IoctlDone
  BY <1>20 DEF IoctlDone, TaskqIdle
<1>21. CASE Attach
  BY <1>21 DEF Attach, NotReporting, TaskqIdle
<1>22. CASE CreateStepOk
  BY <1>22 DEF CreateStepOk, NotReporting, OnlyAttach
<1>23. CASE CreateStepFail
  BY <1>23 DEF CreateStepFail, NotReporting, OnlyAttach
<1>24. CASE UndoCreate
  BY <1>24 DEF UndoCreate, NotReporting, UndoCreateStep, TaskqIdle, OnlyAttach
<1>25. CASE Freed
  BY <1>25 DEF Freed, OnlyAttach
<1>26. CASE CreateDone
  BY <1>26 DEF CreateDone, NotReporting, OnlyAttach
<1>27. CASE KstatInit
  BY <1>27 DEF KstatInit, NotReporting, OnlyAttach
<1>28. CASE Register
  BY <1>28 DEF Register, NotReporting, OnlyAttach
<1>29. CASE AttachFail
  BY <1>29 DEF AttachFail, OnlyAttach
<1>30. CASE Detach
  BY <1>30 DEF Detach, OnlyAttach
<1>31. CASE DetachLock
  BY <1>31 DEF DetachLock, TaskqIdle, OnlyAttach
<1>32. CASE DetachStop
  <2>1. UNCHANGED <<wpc, queued, s_nested_restarts, s_num_restarts,
          s_num_restarts_hw_err, s_hw_err, rpc, sm_link_mode, os_link, lpc,
          aidx, created, kstats>>
    BY <1>32 DEF DetachStop
  <2>2. apc' \in {"dstop", "dcheck"}
    BY <1>32 DEF DetachStop
  <2>3. /\ s_state' \in {s_state, "STOPPING"} /\ owner' \in {owner, Ddi}
        /\ pc' \in {pc, "stop"} /\ idx' \in {idx, NStart} /\ up' = up
    BY <1>32 DEF DetachStop, StopEnter
  <2> QED
    BY <2>1, <2>2, <2>3
<1>33. CASE DetachCheck
  BY <1>33 DEF DetachCheck, OnlyAttach
<1>34. CASE Unregister
  BY <1>34 DEF Unregister, TaskqIdle, OnlyAttach
<1>35. CASE KstatFini
  BY <1>35 DEF KstatFini, OnlyAttach
<1>36. CASE Destroy
  BY <1>36 DEF Destroy, OnlyAttach
<1>37. CASE LinkRead
  BY <1>37 DEF LinkRead
<1>38. CASE LinkTell
  BY <1>38 DEF LinkTell
<1>39. ASSUME NEW r \in Reporters, ReportHwErr(r) PROVE TypeState'
  BY <1>39 DEF ReportHwErr, Report, CountRestart
<1>40. ASSUME NEW r \in Reporters, MtuChange(r) PROVE TypeState'
  BY <1>40 DEF MtuChange, Report, CountRestart
<1>41. ASSUME NEW r \in Reporters, IncNested(r) PROVE TypeState'
  BY <1>41 DEF IncNested, InProgress, LateReport
<1>42. ASSUME NEW r \in Reporters, Enqueue(r) PROVE TypeState'
  BY <1>42 DEF Enqueue
<1>43. ASSUME NEW t \in Callers, SfxgeStart(t) PROVE TypeState'
  BY <1>43 DEF SfxgeStart, StartEnter, StateLockFree
<1>44. ASSUME NEW t \in Callers, SfxgeStop(t) PROVE TypeState'
  BY <1>44 DEF SfxgeStop, StopEnter, StateLockFree
<1>45. ASSUME NEW mode \in {"UP", "DOWN"}, LinkUpdate(mode) PROVE TypeState'
  BY <1>45 DEF LinkUpdate
<1>46. CASE UNCHANGED vars
  BY <1>46
<1> QED
  BY <1>1, <1>2, <1>3, <1>4, <1>5, <1>6, <1>7, <1>8, <1>9, <1>10, <1>11,
     <1>12, <1>13, <1>14, <1>15, <1>16, <1>17, <1>18, <1>19, <1>20, <1>21,
     <1>22, <1>23, <1>24, <1>25, <1>26, <1>27, <1>28, <1>29, <1>30, <1>31,
     <1>32, <1>33, <1>34, <1>35, <1>36, <1>37, <1>38, <1>39, <1>40, <1>41,
     <1>42, <1>43, <1>44, <1>45, <1>46
  DEF Next, LockHolder, Worker, Reports, Dispatch, AttachDetach

(* The history flags and the ioctl flag stay Boolean.                      *)
LEMMA TypeFlagsNext == IInv /\ [Next]_vars => TypeFlags'
<1> SUFFICES ASSUME IInv, [Next]_vars PROVE TypeFlags'
  OBVIOUS
<1> USE LifecycleAssumption DEF IInv, TypeOK, TypeFlags, vars, lockvars,
      restartvars, linkvars, attachvars, iocvars
<1>1. CASE StartStepOk
  BY <1>1 DEF StartStepOk, NicReset
<1>2. CASE StartDone
  BY <1>2 DEF StartDone
<1>3. CASE StartStepFail
  BY <1>3 DEF StartStepFail
<1>4. CASE UnwindStep
  BY <1>4 DEF UnwindStep, NicReset, MoreToUndo, UndoStep, MacStop
<1>5. CASE StopStep
  BY <1>5 DEF StopStep, NicReset, MoreToUndo, MacStop
<1>6. CASE StopDone
  BY <1>6 DEF StopDone
<1>7. CASE CallerReturn
  BY <1>7 DEF CallerReturn
<1>8. CASE TaskBegin
  BY <1>8 DEF TaskBegin, OnlyWorker
<1>9. CASE RestartLinkDown
  BY <1>9 DEF RestartLinkDown, OnlyWorker
<1>10. CASE RestartLinkTell
  BY <1>10 DEF RestartLinkTell, OnlyWorker
<1>11. CASE RestartStop
  BY <1>11 DEF RestartStop, StopEnter, OnlyWorker
<1>12. CASE RestartPolicy
  BY <1>12 DEF RestartPolicy, OnlyWorker
<1>13. CASE RestartClear
  BY <1>13 DEF RestartClear, StartEnter, OnlyWorker
<1>14. CASE RestartStarted
  BY <1>14 DEF RestartStarted, OnlyWorker
<1>15. CASE RestartSwap
  BY <1>15 DEF RestartSwap, OnlyWorker
<1>16. CASE RestartExit
  BY <1>16 DEF RestartExit, OnlyWorker
<1>17. CASE RestartLock
  BY <1>17 DEF RestartLock, StateLockFree, OnlyWorker
<1>18. CASE IntrFatal
  BY <1>18 DEF IntrFatal, Report, CountRestart
<1>19. CASE IoctlReset
  BY <1>19 DEF IoctlReset, StateLockFree, CountRestart, InProgress
<1>20. CASE IoctlDone
  BY <1>20 DEF IoctlDone, TaskqIdle
<1>21. CASE Attach
  BY <1>21 DEF Attach, NotReporting, TaskqIdle
<1>22. CASE CreateStepOk
  BY <1>22 DEF CreateStepOk, NotReporting, OnlyAttach
<1>23. CASE CreateStepFail
  BY <1>23 DEF CreateStepFail, NotReporting, OnlyAttach
<1>24. CASE UndoCreate
  BY <1>24 DEF UndoCreate, NotReporting, UndoCreateStep, TaskqIdle, OnlyAttach
<1>25. CASE Freed
  BY <1>25 DEF Freed, OnlyAttach
<1>26. CASE CreateDone
  BY <1>26 DEF CreateDone, NotReporting, OnlyAttach
<1>27. CASE KstatInit
  BY <1>27 DEF KstatInit, NotReporting, OnlyAttach
<1>28. CASE Register
  BY <1>28 DEF Register, NotReporting, OnlyAttach
<1>29. CASE AttachFail
  BY <1>29 DEF AttachFail, OnlyAttach
<1>30. CASE Detach
  BY <1>30 DEF Detach, OnlyAttach
<1>31. CASE DetachLock
  BY <1>31 DEF DetachLock, TaskqIdle, OnlyAttach
<1>32. CASE DetachStop
  BY <1>32 DEF DetachStop, StopEnter, StateLockFree
<1>33. CASE DetachCheck
  BY <1>33 DEF DetachCheck, OnlyAttach
<1>34. CASE Unregister
  BY <1>34 DEF Unregister, TaskqIdle, OnlyAttach
<1>35. CASE KstatFini
  BY <1>35 DEF KstatFini, OnlyAttach
<1>36. CASE Destroy
  BY <1>36 DEF Destroy, OnlyAttach
<1>37. CASE LinkRead
  BY <1>37 DEF LinkRead
<1>38. CASE LinkTell
  BY <1>38 DEF LinkTell
<1>39. ASSUME NEW r \in Reporters, ReportHwErr(r) PROVE TypeFlags'
  BY <1>39 DEF ReportHwErr, Report, CountRestart
<1>40. ASSUME NEW r \in Reporters, MtuChange(r) PROVE TypeFlags'
  BY <1>40 DEF MtuChange, Report, CountRestart
<1>41. ASSUME NEW r \in Reporters, IncNested(r) PROVE TypeFlags'
  BY <1>41 DEF IncNested, InProgress, LateReport
<1>42. ASSUME NEW r \in Reporters, Enqueue(r) PROVE TypeFlags'
  BY <1>42 DEF Enqueue
<1>43. ASSUME NEW t \in Callers, SfxgeStart(t) PROVE TypeFlags'
  BY <1>43 DEF SfxgeStart, StartEnter, StateLockFree
<1>44. ASSUME NEW t \in Callers, SfxgeStop(t) PROVE TypeFlags'
  BY <1>44 DEF SfxgeStop, StopEnter, StateLockFree
<1>45. ASSUME NEW mode \in {"UP", "DOWN"}, LinkUpdate(mode) PROVE TypeFlags'
  BY <1>45 DEF LinkUpdate
<1>46. CASE UNCHANGED vars
  BY <1>46
<1> QED
  BY <1>1, <1>2, <1>3, <1>4, <1>5, <1>6, <1>7, <1>8, <1>9, <1>10, <1>11,
     <1>12, <1>13, <1>14, <1>15, <1>16, <1>17, <1>18, <1>19, <1>20, <1>21,
     <1>22, <1>23, <1>24, <1>25, <1>26, <1>27, <1>28, <1>29, <1>30, <1>31,
     <1>32, <1>33, <1>34, <1>35, <1>36, <1>37, <1>38, <1>39, <1>40, <1>41,
     <1>42, <1>43, <1>44, <1>45, <1>46
  DEF Next, LockHolder, Worker, Reports, Dispatch, AttachDetach

(* What runs keeps matching the position in sfxge_start_locked and         *)
(* sfxge_stop_locked, failed starts included.                              *)
LEMMA StepNext == IInv /\ [Next]_vars => StepInv'
<1> SUFFICES ASSUME IInv, [Next]_vars PROVE StepInv'
  OBVIOUS
<1> USE LifecycleAssumption DEF IInv, TypeOK, TypeState, StepInv, OwnerInv,
      AttachInv, Quiet, Moving, NStart, NCreate, Mac, TaskqStep, McdiStep,
      NoThread, Taskq, Ddi, Intr, Reporters, vars, lockvars, restartvars,
      linkvars, attachvars, iocvars
<1>1. CASE StartStepOk
  BY <1>1 DEF StartStepOk, NicReset
<1>2. CASE StartDone
  BY <1>2 DEF StartDone
<1>3. CASE StartStepFail
  BY <1>3 DEF StartStepFail
<1>4. CASE UnwindStep
  BY <1>4 DEF UnwindStep, NicReset, MoreToUndo, UndoStep, MacStop
<1>5. CASE StopStep
  BY <1>5 DEF StopStep, NicReset, MoreToUndo, MacStop
<1>6. CASE StopDone
  BY <1>6 DEF StopDone
<1>7. CASE CallerReturn
  BY <1>7 DEF CallerReturn
<1>8. CASE TaskBegin
  BY <1>8 DEF TaskBegin, OnlyWorker
<1>9. CASE RestartLinkDown
  BY <1>9 DEF RestartLinkDown, OnlyWorker
<1>10. CASE RestartLinkTell
  BY <1>10 DEF RestartLinkTell, OnlyWorker
<1>11. CASE RestartStop
  BY <1>11 DEF RestartStop, StopEnter, OnlyWorker
<1>12. CASE RestartPolicy
  BY <1>12 DEF RestartPolicy, OnlyWorker
<1>13. CASE RestartClear
  BY <1>13 DEF RestartClear, StartEnter, OnlyWorker
<1>14. CASE RestartStarted
  BY <1>14 DEF RestartStarted, OnlyWorker
<1>15. CASE RestartSwap
  BY <1>15 DEF RestartSwap, OnlyWorker
<1>16. CASE RestartExit
  BY <1>16 DEF RestartExit, OnlyWorker
<1>17. CASE RestartLock
  BY <1>17 DEF RestartLock, StateLockFree, OnlyWorker
<1>18. CASE IntrFatal
  BY <1>18 DEF IntrFatal, Report, CountRestart
<1>19. CASE IoctlReset
  BY <1>19 DEF IoctlReset, StateLockFree, CountRestart, InProgress
<1>20. CASE IoctlDone
  BY <1>20 DEF IoctlDone, TaskqIdle
<1>21. CASE Attach
  BY <1>21 DEF Attach, NotReporting, TaskqIdle
<1>22. CASE CreateStepOk
  BY <1>22 DEF CreateStepOk, NotReporting, OnlyAttach
<1>23. CASE CreateStepFail
  BY <1>23 DEF CreateStepFail, NotReporting, OnlyAttach
<1>24. CASE UndoCreate
  BY <1>24 DEF UndoCreate, NotReporting, UndoCreateStep, TaskqIdle, OnlyAttach
<1>25. CASE Freed
  BY <1>25 DEF Freed, OnlyAttach
<1>26. CASE CreateDone
  BY <1>26 DEF CreateDone, NotReporting, OnlyAttach
<1>27. CASE KstatInit
  BY <1>27 DEF KstatInit, NotReporting, OnlyAttach
<1>28. CASE Register
  BY <1>28 DEF Register, NotReporting, OnlyAttach
<1>29. CASE AttachFail
  BY <1>29 DEF AttachFail, OnlyAttach
<1>30. CASE Detach
  BY <1>30 DEF Detach, OnlyAttach
<1>31. CASE DetachLock
  BY <1>31 DEF DetachLock, TaskqIdle, OnlyAttach
<1>32. CASE DetachStop
  <2>1. CASE s_state = "STARTED"
    BY <1>32, <2>1 DEF DetachStop, StopEnter, StateLockFree
  <2>2. CASE s_state # "STARTED"
    BY <1>32, <2>2 DEF DetachStop, StopEnter, StateLockFree
  <2> QED
    BY <2>1, <2>2
<1>33. CASE DetachCheck
  BY <1>33 DEF DetachCheck, OnlyAttach
<1>34. CASE Unregister
  BY <1>34 DEF Unregister, TaskqIdle, OnlyAttach
<1>35. CASE KstatFini
  BY <1>35 DEF KstatFini, OnlyAttach
<1>36. CASE Destroy
  BY <1>36 DEF Destroy, OnlyAttach
<1>37. CASE LinkRead
  BY <1>37 DEF LinkRead
<1>38. CASE LinkTell
  BY <1>38 DEF LinkTell
<1>39. ASSUME NEW r \in Reporters, ReportHwErr(r) PROVE StepInv'
  BY <1>39 DEF ReportHwErr, Report, CountRestart
<1>40. ASSUME NEW r \in Reporters, MtuChange(r) PROVE StepInv'
  BY <1>40 DEF MtuChange, Report, CountRestart
<1>41. ASSUME NEW r \in Reporters, IncNested(r) PROVE StepInv'
  BY <1>41 DEF IncNested, InProgress, LateReport
<1>42. ASSUME NEW r \in Reporters, Enqueue(r) PROVE StepInv'
  BY <1>42 DEF Enqueue
<1>43. ASSUME NEW t \in Callers, SfxgeStart(t) PROVE StepInv'
  BY <1>43 DEF SfxgeStart, StartEnter, StateLockFree
<1>44. ASSUME NEW t \in Callers, SfxgeStop(t) PROVE StepInv'
  BY <1>44 DEF SfxgeStop, StopEnter, StateLockFree
<1>45. ASSUME NEW mode \in {"UP", "DOWN"}, LinkUpdate(mode) PROVE StepInv'
  BY <1>45 DEF LinkUpdate
<1>46. CASE UNCHANGED vars
  BY <1>46
<1> QED
  BY <1>1, <1>2, <1>3, <1>4, <1>5, <1>6, <1>7, <1>8, <1>9, <1>10, <1>11,
     <1>12, <1>13, <1>14, <1>15, <1>16, <1>17, <1>18, <1>19, <1>20, <1>21,
     <1>22, <1>23, <1>24, <1>25, <1>26, <1>27, <1>28, <1>29, <1>30, <1>31,
     <1>32, <1>33, <1>34, <1>35, <1>36, <1>37, <1>38, <1>39, <1>40, <1>41,
     <1>42, <1>43, <1>44, <1>45, <1>46
  DEF Next, LockHolder, Worker, Reports, Dispatch, AttachDetach

(* Each thread keeps to the places where s_state_lock allows it to be.     *)
LEMMA OwnerNext == IInv /\ [Next]_vars => OwnerInv'
<1> SUFFICES ASSUME IInv, [Next]_vars PROVE OwnerInv'
  OBVIOUS
<1> USE LifecycleAssumption DEF IInv, TypeOK, TypeState, StepInv, OwnerInv,
      AttachInv, Quiet, Moving, NStart, NCreate, Mac, TaskqStep, McdiStep,
      NoThread, Taskq, Ddi, Intr, Reporters, vars, lockvars, restartvars,
      linkvars, attachvars, iocvars
<1>1. CASE StartStepOk
  BY <1>1 DEF StartStepOk, NicReset
<1>2. CASE StartDone
  BY <1>2 DEF StartDone
<1>3. CASE StartStepFail
  BY <1>3 DEF StartStepFail
<1>4. CASE UnwindStep
  BY <1>4 DEF UnwindStep, NicReset, MoreToUndo, UndoStep, MacStop
<1>5. CASE StopStep
  BY <1>5 DEF StopStep, NicReset, MoreToUndo, MacStop
<1>6. CASE StopDone
  BY <1>6 DEF StopDone
<1>7. CASE CallerReturn
  BY <1>7 DEF CallerReturn
<1>8. CASE TaskBegin
  BY <1>8 DEF TaskBegin, OnlyWorker
<1>9. CASE RestartLinkDown
  BY <1>9 DEF RestartLinkDown, OnlyWorker
<1>10. CASE RestartLinkTell
  BY <1>10 DEF RestartLinkTell, OnlyWorker
<1>11. CASE RestartStop
  BY <1>11 DEF RestartStop, StopEnter, OnlyWorker
<1>12. CASE RestartPolicy
  BY <1>12 DEF RestartPolicy, OnlyWorker
<1>13. CASE RestartClear
  BY <1>13 DEF RestartClear, StartEnter, OnlyWorker
<1>14. CASE RestartStarted
  BY <1>14 DEF RestartStarted, OnlyWorker
<1>15. CASE RestartSwap
  BY <1>15 DEF RestartSwap, OnlyWorker
<1>16. CASE RestartExit
  BY <1>16 DEF RestartExit, OnlyWorker
<1>17. CASE RestartLock
  BY <1>17 DEF RestartLock, StateLockFree, OnlyWorker
<1>18. CASE IntrFatal
  BY <1>18 DEF IntrFatal, Report, CountRestart
<1>19. CASE IoctlReset
  BY <1>19 DEF IoctlReset, StateLockFree, CountRestart, InProgress
<1>20. CASE IoctlDone
  BY <1>20 DEF IoctlDone, TaskqIdle
<1>21. CASE Attach
  BY <1>21 DEF Attach, NotReporting, TaskqIdle
<1>22. CASE CreateStepOk
  BY <1>22 DEF CreateStepOk, NotReporting, OnlyAttach
<1>23. CASE CreateStepFail
  BY <1>23 DEF CreateStepFail, NotReporting, OnlyAttach
<1>24. CASE UndoCreate
  BY <1>24 DEF UndoCreate, NotReporting, UndoCreateStep, TaskqIdle, OnlyAttach
<1>25. CASE Freed
  BY <1>25 DEF Freed, OnlyAttach
<1>26. CASE CreateDone
  BY <1>26 DEF CreateDone, NotReporting, OnlyAttach
<1>27. CASE KstatInit
  BY <1>27 DEF KstatInit, NotReporting, OnlyAttach
<1>28. CASE Register
  BY <1>28 DEF Register, NotReporting, OnlyAttach
<1>29. CASE AttachFail
  BY <1>29 DEF AttachFail, OnlyAttach
<1>30. CASE Detach
  BY <1>30 DEF Detach, OnlyAttach
<1>31. CASE DetachLock
  BY <1>31 DEF DetachLock, TaskqIdle, OnlyAttach
<1>32. CASE DetachStop
  BY <1>32 DEF DetachStop, StopEnter, StateLockFree
<1>33. CASE DetachCheck
  BY <1>33 DEF DetachCheck, OnlyAttach
<1>34. CASE Unregister
  BY <1>34 DEF Unregister, TaskqIdle, OnlyAttach
<1>35. CASE KstatFini
  BY <1>35 DEF KstatFini, OnlyAttach
<1>36. CASE Destroy
  BY <1>36 DEF Destroy, OnlyAttach
<1>37. CASE LinkRead
  BY <1>37 DEF LinkRead
<1>38. CASE LinkTell
  BY <1>38 DEF LinkTell
<1>39. ASSUME NEW r \in Reporters, ReportHwErr(r) PROVE OwnerInv'
  BY <1>39 DEF ReportHwErr, Report, CountRestart
<1>40. ASSUME NEW r \in Reporters, MtuChange(r) PROVE OwnerInv'
  BY <1>40 DEF MtuChange, Report, CountRestart
<1>41. ASSUME NEW r \in Reporters, IncNested(r) PROVE OwnerInv'
  BY <1>41 DEF IncNested, InProgress, LateReport
<1>42. ASSUME NEW r \in Reporters, Enqueue(r) PROVE OwnerInv'
  BY <1>42 DEF Enqueue
<1>43. ASSUME NEW t \in Callers, SfxgeStart(t) PROVE OwnerInv'
  BY <1>43 DEF SfxgeStart, StartEnter, StateLockFree
<1>44. ASSUME NEW t \in Callers, SfxgeStop(t) PROVE OwnerInv'
  BY <1>44 DEF SfxgeStop, StopEnter, StateLockFree
<1>45. ASSUME NEW mode \in {"UP", "DOWN"}, LinkUpdate(mode) PROVE OwnerInv'
  BY <1>45 DEF LinkUpdate
<1>46. CASE UNCHANGED vars
  BY <1>46
<1> QED
  BY <1>1, <1>2, <1>3, <1>4, <1>5, <1>6, <1>7, <1>8, <1>9, <1>10, <1>11,
     <1>12, <1>13, <1>14, <1>15, <1>16, <1>17, <1>18, <1>19, <1>20, <1>21,
     <1>22, <1>23, <1>24, <1>25, <1>26, <1>27, <1>28, <1>29, <1>30, <1>31,
     <1>32, <1>33, <1>34, <1>35, <1>36, <1>37, <1>38, <1>39, <1>40, <1>41,
     <1>42, <1>43, <1>44, <1>45, <1>46
  DEF Next, LockHolder, Worker, Reports, Dispatch, AttachDetach

(* attach and detach meet only the values of s_state they expect.          *)
LEMMA AttachNext == IInv /\ [Next]_vars => AttachInv'
<1> SUFFICES ASSUME IInv, [Next]_vars PROVE AttachInv'
  OBVIOUS
<1> USE LifecycleAssumption DEF IInv, TypeOK, TypeState, StepInv, OwnerInv,
      AttachInv, Quiet, Moving, NStart, NCreate, Mac, TaskqStep, McdiStep,
      NoThread, Taskq, Ddi, Intr, Reporters, vars, lockvars, restartvars,
      linkvars, attachvars, iocvars
<1>1. CASE StartStepOk
  BY <1>1 DEF StartStepOk, NicReset
<1>2. CASE StartDone
  BY <1>2 DEF StartDone
<1>3. CASE StartStepFail
  BY <1>3 DEF StartStepFail
<1>4. CASE UnwindStep
  BY <1>4 DEF UnwindStep, NicReset, MoreToUndo, UndoStep, MacStop
<1>5. CASE StopStep
  BY <1>5 DEF StopStep, NicReset, MoreToUndo, MacStop
<1>6. CASE StopDone
  BY <1>6 DEF StopDone
<1>7. CASE CallerReturn
  BY <1>7 DEF CallerReturn
<1>8. CASE TaskBegin
  BY <1>8 DEF TaskBegin, OnlyWorker
<1>9. CASE RestartLinkDown
  BY <1>9 DEF RestartLinkDown, OnlyWorker
<1>10. CASE RestartLinkTell
  BY <1>10 DEF RestartLinkTell, OnlyWorker
<1>11. CASE RestartStop
  BY <1>11 DEF RestartStop, StopEnter, OnlyWorker
<1>12. CASE RestartPolicy
  BY <1>12 DEF RestartPolicy, OnlyWorker
<1>13. CASE RestartClear
  BY <1>13 DEF RestartClear, StartEnter, OnlyWorker
<1>14. CASE RestartStarted
  BY <1>14 DEF RestartStarted, OnlyWorker
<1>15. CASE RestartSwap
  BY <1>15 DEF RestartSwap, OnlyWorker
<1>16. CASE RestartExit
  BY <1>16 DEF RestartExit, OnlyWorker
<1>17. CASE RestartLock
  BY <1>17 DEF RestartLock, StateLockFree, OnlyWorker
<1>18. CASE IntrFatal
  BY <1>18 DEF IntrFatal, Report, CountRestart
<1>19. CASE IoctlReset
  BY <1>19 DEF IoctlReset, StateLockFree, CountRestart, InProgress
<1>20. CASE IoctlDone
  BY <1>20 DEF IoctlDone, TaskqIdle
<1>21. CASE Attach
  BY <1>21 DEF Attach, NotReporting, TaskqIdle
<1>22. CASE CreateStepOk
  BY <1>22 DEF CreateStepOk, NotReporting, OnlyAttach
<1>23. CASE CreateStepFail
  BY <1>23 DEF CreateStepFail, NotReporting, OnlyAttach
<1>24. CASE UndoCreate
  BY <1>24 DEF UndoCreate, NotReporting, UndoCreateStep, TaskqIdle, OnlyAttach
<1>25. CASE Freed
  BY <1>25 DEF Freed, OnlyAttach
<1>26. CASE CreateDone
  BY <1>26 DEF CreateDone, NotReporting, OnlyAttach
<1>27. CASE KstatInit
  BY <1>27 DEF KstatInit, NotReporting, OnlyAttach
<1>28. CASE Register
  BY <1>28 DEF Register, NotReporting, OnlyAttach
<1>29. CASE AttachFail
  BY <1>29 DEF AttachFail, OnlyAttach
<1>30. CASE Detach
  BY <1>30 DEF Detach, OnlyAttach
<1>31. CASE DetachLock
  BY <1>31 DEF DetachLock, TaskqIdle, OnlyAttach
<1>32. CASE DetachStop
  BY <1>32 DEF DetachStop, StopEnter, StateLockFree
<1>33. CASE DetachCheck
  BY <1>33 DEF DetachCheck, OnlyAttach
<1>34. CASE Unregister
  BY <1>34 DEF Unregister, TaskqIdle, OnlyAttach
<1>35. CASE KstatFini
  BY <1>35 DEF KstatFini, OnlyAttach
<1>36. CASE Destroy
  BY <1>36 DEF Destroy, OnlyAttach
<1>37. CASE LinkRead
  BY <1>37 DEF LinkRead
<1>38. CASE LinkTell
  BY <1>38 DEF LinkTell
<1>39. ASSUME NEW r \in Reporters, ReportHwErr(r) PROVE AttachInv'
  BY <1>39 DEF ReportHwErr, Report, CountRestart
<1>40. ASSUME NEW r \in Reporters, MtuChange(r) PROVE AttachInv'
  BY <1>40 DEF MtuChange, Report, CountRestart
<1>41. ASSUME NEW r \in Reporters, IncNested(r) PROVE AttachInv'
  BY <1>41 DEF IncNested, InProgress, LateReport
<1>42. ASSUME NEW r \in Reporters, Enqueue(r) PROVE AttachInv'
  BY <1>42 DEF Enqueue
<1>43. ASSUME NEW t \in Callers, SfxgeStart(t) PROVE AttachInv'
  BY <1>43 DEF SfxgeStart, StartEnter, StateLockFree
<1>44. ASSUME NEW t \in Callers, SfxgeStop(t) PROVE AttachInv'
  BY <1>44 DEF SfxgeStop, StopEnter, StateLockFree
<1>45. ASSUME NEW mode \in {"UP", "DOWN"}, LinkUpdate(mode) PROVE AttachInv'
  BY <1>45 DEF LinkUpdate
<1>46. CASE UNCHANGED vars
  BY <1>46
<1> QED
  BY <1>1, <1>2, <1>3, <1>4, <1>5, <1>6, <1>7, <1>8, <1>9, <1>10, <1>11,
     <1>12, <1>13, <1>14, <1>15, <1>16, <1>17, <1>18, <1>19, <1>20, <1>21,
     <1>22, <1>23, <1>24, <1>25, <1>26, <1>27, <1>28, <1>29, <1>30, <1>31,
     <1>32, <1>33, <1>34, <1>35, <1>36, <1>37, <1>38, <1>39, <1>40, <1>41,
     <1>42, <1>43, <1>44, <1>45, <1>46
  DEF Next, LockHolder, Worker, Reports, Dispatch, AttachDetach

(* What sfxge_create built keeps matching its position, and the task queue *)
(* outlives its tasks.                                                     *)
LEMMA CreateNext == IInv /\ [Next]_vars => CreateInv'
<1> SUFFICES ASSUME IInv, [Next]_vars PROVE CreateInv'
  OBVIOUS
<1> USE LifecycleAssumption DEF IInv, TypeOK, TypeState, StepInv, AttachInv,
      CreateInv, Quiet, Moving, TaskqIdle, NotReporting, NStart, NCreate, Mac,
      TaskqStep, McdiStep, NoThread, Taskq, Ddi, Intr, Reporters, vars,
      lockvars, restartvars, linkvars, attachvars, iocvars
<1>1. CASE StartStepOk
  BY <1>1 DEF StartStepOk, NicReset
<1>2. CASE StartDone
  BY <1>2 DEF StartDone
<1>3. CASE StartStepFail
  BY <1>3 DEF StartStepFail
<1>4. CASE UnwindStep
  BY <1>4 DEF UnwindStep, NicReset, MoreToUndo, UndoStep, MacStop
<1>5. CASE StopStep
  BY <1>5 DEF StopStep, NicReset, MoreToUndo, MacStop
<1>6. CASE StopDone
  BY <1>6 DEF StopDone
<1>7. CASE CallerReturn
  BY <1>7 DEF CallerReturn
<1>8. CASE TaskBegin
  BY <1>8 DEF TaskBegin, OnlyWorker
<1>9. CASE RestartLinkDown
  BY <1>9 DEF RestartLinkDown, OnlyWorker
<1>10. CASE RestartLinkTell
  BY <1>10 DEF RestartLinkTell, OnlyWorker
<1>11. CASE RestartStop
  BY <1>11 DEF RestartStop, StopEnter, OnlyWorker
<1>12. CASE RestartPolicy
  BY <1>12 DEF RestartPolicy, OnlyWorker
<1>13. CASE RestartClear
  BY <1>13 DEF RestartClear, StartEnter, OnlyWorker
<1>14. CASE RestartStarted
  BY <1>14 DEF RestartStarted, OnlyWorker
<1>15. CASE RestartSwap
  BY <1>15 DEF RestartSwap, OnlyWorker
<1>16. CASE RestartExit
  BY <1>16 DEF RestartExit, OnlyWorker
<1>17. CASE RestartLock
  BY <1>17 DEF RestartLock, StateLockFree, OnlyWorker
<1>18. CASE IntrFatal
  BY <1>18 DEF IntrFatal, Report, CountRestart
<1>19. CASE IoctlReset
  BY <1>19 DEF IoctlReset, StateLockFree, CountRestart, InProgress
<1>20. CASE IoctlDone
  BY <1>20 DEF IoctlDone, TaskqIdle
<1>21. CASE Attach
  BY <1>21 DEF Attach, NotReporting, TaskqIdle
<1>22. CASE CreateStepOk
  BY <1>22 DEF CreateStepOk, NotReporting, OnlyAttach
<1>23. CASE CreateStepFail
  BY <1>23 DEF CreateStepFail, NotReporting, OnlyAttach
<1>24. CASE UndoCreate
  BY <1>24 DEF UndoCreate, NotReporting, UndoCreateStep, TaskqIdle, OnlyAttach
<1>25. CASE Freed
  BY <1>25 DEF Freed, OnlyAttach
<1>26. CASE CreateDone
  BY <1>26 DEF CreateDone, NotReporting, OnlyAttach
<1>27. CASE KstatInit
  BY <1>27 DEF KstatInit, NotReporting, OnlyAttach
<1>28. CASE Register
  BY <1>28 DEF Register, NotReporting, OnlyAttach
<1>29. CASE AttachFail
  BY <1>29 DEF AttachFail, OnlyAttach
<1>30. CASE Detach
  BY <1>30 DEF Detach, OnlyAttach
<1>31. CASE DetachLock
  BY <1>31 DEF DetachLock, TaskqIdle, OnlyAttach
<1>32. CASE DetachStop
  BY <1>32 DEF DetachStop, StopEnter, StateLockFree
<1>33. CASE DetachCheck
  BY <1>33 DEF DetachCheck, OnlyAttach
<1>34. CASE Unregister
  BY <1>34 DEF Unregister, TaskqIdle, OnlyAttach
<1>35. CASE KstatFini
  BY <1>35 DEF KstatFini, OnlyAttach
<1>36. CASE Destroy
  <2>1. CASE apc' = "attached"
    BY <1>36, <2>1 DEF Destroy, OnlyAttach
  <2>2. CASE apc' = "destroy"
    BY <1>36, <2>2 DEF Destroy, OnlyAttach
  <2> QED
    BY <1>36, <2>1, <2>2 DEF Destroy
<1>37. CASE LinkRead
  BY <1>37 DEF LinkRead
<1>38. CASE LinkTell
  BY <1>38 DEF LinkTell
<1>39. ASSUME NEW r \in Reporters, ReportHwErr(r) PROVE CreateInv'
  BY <1>39 DEF ReportHwErr, Report, CountRestart
<1>40. ASSUME NEW r \in Reporters, MtuChange(r) PROVE CreateInv'
  BY <1>40 DEF MtuChange, Report, CountRestart
<1>41. ASSUME NEW r \in Reporters, IncNested(r) PROVE CreateInv'
  BY <1>41 DEF IncNested, InProgress, LateReport
<1>42. ASSUME NEW r \in Reporters, Enqueue(r) PROVE CreateInv'
  BY <1>42 DEF Enqueue
<1>43. ASSUME NEW t \in Callers, SfxgeStart(t) PROVE CreateInv'
  BY <1>43 DEF SfxgeStart, StartEnter, StateLockFree
<1>44. ASSUME NEW t \in Callers, SfxgeStop(t) PROVE CreateInv'
  BY <1>44 DEF SfxgeStop, StopEnter, StateLockFree
<1>45. ASSUME NEW mode \in {"UP", "DOWN"}, LinkUpdate(mode) PROVE CreateInv'
  BY <1>45 DEF LinkUpdate
<1>46. CASE UNCHANGED vars
  BY <1>46
<1> QED
  BY <1>1, <1>2, <1>3, <1>4, <1>5, <1>6, <1>7, <1>8, <1>9, <1>10, <1>11,
     <1>12, <1>13, <1>14, <1>15, <1>16, <1>17, <1>18, <1>19, <1>20, <1>21,
     <1>22, <1>23, <1>24, <1>25, <1>26, <1>27, <1>28, <1>29, <1>30, <1>31,
     <1>32, <1>33, <1>34, <1>35, <1>36, <1>37, <1>38, <1>39, <1>40, <1>41,
     <1>42, <1>43, <1>44, <1>45, <1>46
  DEF Next, LockHolder, Worker, Reports, Dispatch, AttachDetach

(* No step makes a second restart come while one is coming.                *)
LEMMA OneNext == IInv /\ [Next]_vars => OneRestart'
<1> SUFFICES ASSUME IInv, [Next]_vars PROVE OneRestart'
  OBVIOUS
<1> USE LifecycleAssumption DEF IInv, TypeOK, TypeState, CreateInv,
      OneRestart, Coming, Running, TaskqIdle, NotReporting, NStart, NCreate,
      Mac, TaskqStep, McdiStep, NoThread, Taskq, Ddi, Intr, Reporters, vars,
      lockvars, restartvars, linkvars, attachvars, iocvars
<1>1. CASE StartStepOk
  BY <1>1 DEF StartStepOk, NicReset
<1>2. CASE StartDone
  BY <1>2 DEF StartDone
<1>3. CASE StartStepFail
  BY <1>3 DEF StartStepFail
<1>4. CASE UnwindStep
  BY <1>4 DEF UnwindStep, NicReset, MoreToUndo, UndoStep, MacStop
<1>5. CASE StopStep
  BY <1>5 DEF StopStep, NicReset, MoreToUndo, MacStop
<1>6. CASE StopDone
  BY <1>6 DEF StopDone
<1>7. CASE CallerReturn
  BY <1>7 DEF CallerReturn
<1>8. CASE TaskBegin
  BY <1>8 DEF TaskBegin, OnlyWorker
<1>9. CASE RestartLinkDown
  BY <1>9 DEF RestartLinkDown, OnlyWorker
<1>10. CASE RestartLinkTell
  BY <1>10 DEF RestartLinkTell, OnlyWorker
<1>11. CASE RestartStop
  BY <1>11 DEF RestartStop, StopEnter, OnlyWorker
<1>12. CASE RestartPolicy
  BY <1>12 DEF RestartPolicy, OnlyWorker
<1>13. CASE RestartClear
  BY <1>13 DEF RestartClear, StartEnter, OnlyWorker
<1>14. CASE RestartStarted
  BY <1>14 DEF RestartStarted, OnlyWorker
<1>15. CASE RestartSwap
  BY <1>15 DEF RestartSwap, OnlyWorker
<1>16. CASE RestartExit
  BY <1>16 DEF RestartExit, OnlyWorker
<1>17. CASE RestartLock
  BY <1>17 DEF RestartLock, StateLockFree, OnlyWorker
<1>18. CASE IntrFatal
  BY <1>18 DEF IntrFatal, Report, CountRestart
<1>19. CASE IoctlReset
  BY <1>19 DEF IoctlReset, StateLockFree, CountRestart, InProgress
<1>20. CASE IoctlDone
  BY <1>20 DEF IoctlDone, TaskqIdle
<1>21. CASE Attach
  BY <1>21 DEF Attach, NotReporting, TaskqIdle
<1>22. CASE CreateStepOk
  BY <1>22 DEF CreateStepOk, NotReporting, OnlyAttach
<1>23. CASE CreateStepFail
  BY <1>23 DEF CreateStepFail, NotReporting, OnlyAttach
<1>24. CASE UndoCreate
  BY <1>24 DEF UndoCreate, NotReporting, UndoCreateStep, TaskqIdle, OnlyAttach
<1>25. CASE Freed
  BY <1>25 DEF Freed, OnlyAttach
<1>26. CASE CreateDone
  BY <1>26 DEF CreateDone, NotReporting, OnlyAttach
<1>27. CASE KstatInit
  BY <1>27 DEF KstatInit, NotReporting, OnlyAttach
<1>28. CASE Register
  BY <1>28 DEF Register, NotReporting, OnlyAttach
<1>29. CASE AttachFail
  BY <1>29 DEF AttachFail, OnlyAttach
<1>30. CASE Detach
  BY <1>30 DEF Detach, OnlyAttach
<1>31. CASE DetachLock
  BY <1>31 DEF DetachLock, TaskqIdle, OnlyAttach
<1>32. CASE DetachStop
  BY <1>32 DEF DetachStop, StopEnter, StateLockFree
<1>33. CASE DetachCheck
  BY <1>33 DEF DetachCheck, OnlyAttach
<1>34. CASE Unregister
  BY <1>34 DEF Unregister, TaskqIdle, OnlyAttach
<1>35. CASE KstatFini
  BY <1>35 DEF KstatFini, OnlyAttach
<1>36. CASE Destroy
  BY <1>36 DEF Destroy, OnlyAttach
<1>37. CASE LinkRead
  BY <1>37 DEF LinkRead
<1>38. CASE LinkTell
  BY <1>38 DEF LinkTell
<1>39. ASSUME NEW r \in Reporters, ReportHwErr(r) PROVE OneRestart'
  BY <1>39 DEF ReportHwErr, Report, CountRestart
<1>40. ASSUME NEW r \in Reporters, MtuChange(r) PROVE OneRestart'
  BY <1>40 DEF MtuChange, Report, CountRestart
<1>41. ASSUME NEW r \in Reporters, IncNested(r) PROVE OneRestart'
  BY <1>41 DEF IncNested, InProgress, LateReport
<1>42. ASSUME NEW r \in Reporters, Enqueue(r) PROVE OneRestart'
  BY <1>42 DEF Enqueue
<1>43. ASSUME NEW t \in Callers, SfxgeStart(t) PROVE OneRestart'
  BY <1>43 DEF SfxgeStart, StartEnter, StateLockFree
<1>44. ASSUME NEW t \in Callers, SfxgeStop(t) PROVE OneRestart'
  BY <1>44 DEF SfxgeStop, StopEnter, StateLockFree
<1>45. ASSUME NEW mode \in {"UP", "DOWN"}, LinkUpdate(mode) PROVE OneRestart'
  BY <1>45 DEF LinkUpdate
<1>46. CASE UNCHANGED vars
  BY <1>46
<1> QED
  BY <1>1, <1>2, <1>3, <1>4, <1>5, <1>6, <1>7, <1>8, <1>9, <1>10, <1>11,
     <1>12, <1>13, <1>14, <1>15, <1>16, <1>17, <1>18, <1>19, <1>20, <1>21,
     <1>22, <1>23, <1>24, <1>25, <1>26, <1>27, <1>28, <1>29, <1>30, <1>31,
     <1>32, <1>33, <1>34, <1>35, <1>36, <1>37, <1>38, <1>39, <1>40, <1>41,
     <1>42, <1>43, <1>44, <1>45, <1>46
  DEF Next, LockHolder, Worker, Reports, Dispatch, AttachDetach

(* sfxge_create starts from a soft state that ddi_soft_state_zalloc just   *)
(* cleared: the invariant holds.                                           *)
LEMMA InitInv == Init => IInv
<1> SUFFICES ASSUME Init PROVE IInv
  OBVIOUS
<1> USE LifecycleAssumption DEF Init, NoThread, Taskq, Ddi
<1>1. TypeState
  BY DEF TypeState, NStart, NCreate, Reporters
<1>2. TypeFlags
  BY DEF TypeFlags
<1>3. StepInv /\ OwnerInv /\ AttachInv
  BY DEF StepInv, OwnerInv, AttachInv, Moving, Quiet
<1>4. CreateInv
  BY DEF CreateInv, TaskqIdle, NotReporting, NCreate
<1>5. OneRestart
  BY DEF OneRestart, Coming, Running
<1> QED
  BY <1>1, <1>2, <1>3, <1>4, <1>5 DEF IInv, TypeOK

(* Every step of every thread preserves the invariant.                     *)
LEMMA NextInv == IInv /\ [Next]_vars => IInv'
  BY TypeStateNext, TypeFlagsNext, StepNext, OwnerNext, AttachNext, CreateNext,
     OneNext DEF IInv, TypeOK

(* The inductive invariant holds of every behaviour of the driver          *)
(* instance.                                                               *)
THEOREM Invariance == Spec => []IInv
  BY InitInv, NextInv, PTL DEF Spec

(* Type correctness: no sequence of calls, failures and reports takes the  *)
(* positions in start, stop, create and destroy outside their sequences.   *)
THEOREM TypeCorrect == Spec => []TypeOK
<1>1. IInv => TypeOK
  BY DEF IInv
<1> QED
  BY <1>1, Invariance, PTL

(* sfxge_start_locked, sfxge_stop_locked and every fail label keep the     *)
(* running subsystems a prefix of the start sequence.                      *)
THEOREM StartOrderAlways == Spec => []StartOrder
<1>1. IInv => StartOrder
  <2> SUFFICES ASSUME IInv PROVE StartOrder
    OBVIOUS
  <2>1. up \in {1..(idx - 1), 1..idx, 1..NStart, {}}
    BY DEF IInv, TypeOK, TypeState, StepInv, Moving
  <2>2. idx \in Int
    BY DEF IInv, TypeOK, TypeState, NStart
  <2> QED
    BY <2>1, <2>2 DEF StartOrder, NStart
<1> QED
  BY <1>1, Invariance, PTL

(* s_state tells the truth: STARTED means everything runs, REGISTERED and  *)
(* below that a failed start or restart left nothing running.              *)
THEOREM StateMatchesUpAlways == Spec => []StateMatchesUp
<1>1. IInv => StateMatchesUp
  BY DEF IInv, TypeOK, TypeState, StepInv, Moving, StateMatchesUp
<1> QED
  BY <1>1, Invariance, PTL

(* sfxge_create and sfxge_destroy: what exists is a prefix of the create   *)
(* sequence, the restart task never outlives its task queue, and nothing   *)
(* runs on a half-built instance.                                          *)
THEOREM CreateOrderAlways == Spec => []CreateOrder
<1>1. IInv => CreateOrder
  <2> SUFFICES ASSUME IInv PROVE CreateOrder
    OBVIOUS
  <2>1. created \in {1..(aidx - 1), 1..aidx, 1..NCreate, {}} /\ aidx \in Int
    BY DEF IInv, TypeOK, TypeState, CreateInv, NCreate
  <2>2. ~TaskqIdle => TaskqStep \in created
    BY DEF IInv, CreateInv
  <2>3. up # {} => created = 1..NCreate
    BY DEF IInv, TypeOK, TypeState, StepInv, AttachInv, CreateInv, Moving, Quiet
  <2> QED
    BY <2>1, <2>2, <2>3, SMTT(30) DEF CreateOrder, NCreate
<1> QED
  BY <1>1, Invariance, PTL

(* sfxge_restart_dispatch: any number of threads dispatching at once, at   *)
(* most one restart is coming, and s_nested_restarts counts it.            *)
THEOREM OneRestartAlways == Spec => []OneRestart
<1>1. IInv => OneRestart
  BY DEF IInv
<1> QED
  BY <1>1, Invariance, PTL

(* The assertion of sfxge_detach on the s_state it reads without           *)
(* s_state_lock never fails.                                               *)
THEOREM DetachAssertAlways == Spec => []DetachAssert
<1>1. IInv => DetachAssert
  BY DEF IInv, AttachInv, DetachAssert
<1> QED
  BY <1>1, Invariance, PTL

-----------------------------------------------------------------------------
(* The link.  Only RestartLinkDown changes sm_link_mode without sm_lock,   *)
(* and the MAC is stopped before that restart lets go of the driver.       *)
LinkInv ==
  /\ lpc # "idle" => Mac \in up
  /\ Mac \notin up => sm_link_mode = "UNKNOWN"
  /\ wpc \notin {"tell", "stop", "stopping"} =>
       /\ lpc \notin {"idle", "read"} => lpc = sm_link_mode
       /\ lpc = "idle" /\ sm_link_mode # "UNKNOWN" => os_link = sm_link_mode

(* Reports.  These need every dispatch to succeed: after the one that      *)
(* sfxge_intr_fatal makes with DDI_NOSLEEP fails, s_nested_restarts is     *)
(* never zeroed and later reports are swallowed.                           *)
ReportInv ==
  1 \in up /\ intime => Coming /\ wpc \notin {"starting", "swap"}

IocInv ==
  iocwait /\ ~iocreset =>
    /\ s_state = "STARTED" \/ (pc = "stop" /\ idx >= 1)
    /\ \/ queued > 0 \/ wpc \in {"lock", "entered", "tell", "stop", "stopping"}
       \/ \E r \in Reporters : rpc[r] = "queue"

(* The link: a value read under sm_lock can be overtaken only by the       *)
(* announcement of a restart, which stops the MAC before it ends.          *)
LEMMA LinkNext == IInv /\ LinkInv /\ [Next]_vars => LinkInv'
<1> SUFFICES ASSUME IInv, LinkInv, [Next]_vars PROVE LinkInv'
  OBVIOUS
<1> USE LifecycleAssumption DEF IInv, TypeOK, TypeState, StepInv, OwnerInv,
      AttachInv, Quiet, Moving, NStart, Mac, NoThread, Taskq, Ddi, LinkInv,
      vars, lockvars, restartvars, linkvars, attachvars, iocvars
<1>1. CASE StartStepOk
  BY <1>1 DEF StartStepOk, NicReset
<1>2. CASE StartDone
  BY <1>2 DEF StartDone
<1>3. CASE StartStepFail
  BY <1>3 DEF StartStepFail
<1>4. CASE UnwindStep
  BY <1>4 DEF UnwindStep, NicReset, MoreToUndo, UndoStep, MacStop
<1>5. CASE StopStep
  BY <1>5 DEF StopStep, NicReset, MoreToUndo, MacStop
<1>6. CASE StopDone
  BY <1>6 DEF StopDone
<1>7. CASE CallerReturn
  BY <1>7 DEF CallerReturn
<1>8. CASE TaskBegin
  BY <1>8 DEF TaskBegin, OnlyWorker
<1>9. CASE RestartLinkDown
  BY <1>9 DEF RestartLinkDown, OnlyWorker
<1>10. CASE RestartLinkTell
  BY <1>10 DEF RestartLinkTell, OnlyWorker
<1>11. CASE RestartStop
  BY <1>11 DEF RestartStop, StopEnter, OnlyWorker
<1>12. CASE RestartPolicy
  BY <1>12 DEF RestartPolicy, OnlyWorker
<1>13. CASE RestartClear
  BY <1>13 DEF RestartClear, StartEnter, OnlyWorker
<1>14. CASE RestartStarted
  BY <1>14 DEF RestartStarted, OnlyWorker
<1>15. CASE RestartSwap
  BY <1>15 DEF RestartSwap, OnlyWorker
<1>16. CASE RestartExit
  BY <1>16 DEF RestartExit, OnlyWorker
<1>17. CASE RestartLock
  BY <1>17 DEF RestartLock, StateLockFree, OnlyWorker
<1>18. CASE IntrFatal
  BY <1>18 DEF IntrFatal, Report, CountRestart
<1>19. CASE IoctlReset
  BY <1>19 DEF IoctlReset, StateLockFree, CountRestart, InProgress
<1>20. CASE IoctlDone
  BY <1>20 DEF IoctlDone, TaskqIdle
<1>21. CASE Attach
  BY <1>21 DEF Attach, NotReporting, TaskqIdle
<1>22. CASE CreateStepOk
  BY <1>22 DEF CreateStepOk, NotReporting, OnlyAttach
<1>23. CASE CreateStepFail
  BY <1>23 DEF CreateStepFail, NotReporting, OnlyAttach
<1>24. CASE UndoCreate
  BY <1>24 DEF UndoCreate, NotReporting, UndoCreateStep, TaskqIdle, OnlyAttach
<1>25. CASE Freed
  BY <1>25 DEF Freed, OnlyAttach
<1>26. CASE CreateDone
  BY <1>26 DEF CreateDone, NotReporting, OnlyAttach
<1>27. CASE KstatInit
  BY <1>27 DEF KstatInit, NotReporting, OnlyAttach
<1>28. CASE Register
  BY <1>28 DEF Register, NotReporting, OnlyAttach
<1>29. CASE AttachFail
  BY <1>29 DEF AttachFail, OnlyAttach
<1>30. CASE Detach
  BY <1>30 DEF Detach, OnlyAttach
<1>31. CASE DetachLock
  BY <1>31 DEF DetachLock, TaskqIdle, OnlyAttach
<1>32. CASE DetachStop
  BY <1>32 DEF DetachStop, StopEnter, StateLockFree
<1>33. CASE DetachCheck
  BY <1>33 DEF DetachCheck, OnlyAttach
<1>34. CASE Unregister
  BY <1>34 DEF Unregister, TaskqIdle, OnlyAttach
<1>35. CASE KstatFini
  BY <1>35 DEF KstatFini, OnlyAttach
<1>36. CASE Destroy
  BY <1>36 DEF Destroy, OnlyAttach
<1>37. CASE LinkRead
  BY <1>37 DEF LinkRead
<1>38. CASE LinkTell
  BY <1>38 DEF LinkTell
<1>39. ASSUME NEW r \in Reporters, ReportHwErr(r) PROVE LinkInv'
  BY <1>39 DEF ReportHwErr, Report, CountRestart
<1>40. ASSUME NEW r \in Reporters, MtuChange(r) PROVE LinkInv'
  BY <1>40 DEF MtuChange, Report, CountRestart
<1>41. ASSUME NEW r \in Reporters, IncNested(r) PROVE LinkInv'
  BY <1>41 DEF IncNested, InProgress, LateReport
<1>42. ASSUME NEW r \in Reporters, Enqueue(r) PROVE LinkInv'
  BY <1>42 DEF Enqueue
<1>43. ASSUME NEW t \in Callers, SfxgeStart(t) PROVE LinkInv'
  BY <1>43 DEF SfxgeStart, StartEnter, StateLockFree
<1>44. ASSUME NEW t \in Callers, SfxgeStop(t) PROVE LinkInv'
  BY <1>44 DEF SfxgeStop, StopEnter, StateLockFree
<1>45. ASSUME NEW mode \in {"UP", "DOWN"}, LinkUpdate(mode) PROVE LinkInv'
  BY <1>45 DEF LinkUpdate
<1>46. CASE UNCHANGED vars
  BY <1>46
<1> HIDE DEF IInv, TypeOK, TypeState, StepInv, OwnerInv, AttachInv, Quiet,
      Moving, NStart, Mac, NoThread, Taskq, Ddi, LinkInv, vars, lockvars,
      restartvars, linkvars, attachvars, iocvars
<1> QED
  BY <1>1, <1>2, <1>3, <1>4, <1>5, <1>6, <1>7, <1>8, <1>9, <1>10, <1>11,
     <1>12, <1>13, <1>14, <1>15, <1>16, <1>17, <1>18, <1>19, <1>20, <1>21,
     <1>22, <1>23, <1>24, <1>25, <1>26, <1>27, <1>28, <1>29, <1>30, <1>31,
     <1>32, <1>33, <1>34, <1>35, <1>36, <1>37, <1>38, <1>39, <1>40, <1>41,
     <1>42, <1>43, <1>44, <1>45, <1>46 DEF Next, LockHolder, Worker, Reports,
     Dispatch, AttachDetach

(* The increment of s_nested_restarts and the dispatch that follows it.    *)
LEMMA RestartNext == IInv /\ ~NoSleepMayFail /\ RestartInProgress /\
  [Next]_vars => RestartInProgress'
<1> SUFFICES ASSUME IInv, ~NoSleepMayFail, RestartInProgress, [Next]_vars
      PROVE RestartInProgress'
  OBVIOUS
<1> USE LifecycleAssumption DEF IInv, TypeOK, TypeState, OneRestart,
      Reporters, Intr, RestartInProgress, Coming, Running, vars, lockvars,
      restartvars, linkvars, attachvars, iocvars
<1>1. CASE StartStepOk
  BY <1>1 DEF StartStepOk, NicReset
<1>2. CASE StartDone
  BY <1>2 DEF StartDone
<1>3. CASE StartStepFail
  BY <1>3 DEF StartStepFail
<1>4. CASE UnwindStep
  BY <1>4 DEF UnwindStep, NicReset, MoreToUndo, UndoStep, MacStop
<1>5. CASE StopStep
  BY <1>5 DEF StopStep, NicReset, MoreToUndo, MacStop
<1>6. CASE StopDone
  BY <1>6 DEF StopDone
<1>7. CASE CallerReturn
  BY <1>7 DEF CallerReturn
<1>8. CASE TaskBegin
  BY <1>8 DEF TaskBegin, OnlyWorker
<1>9. CASE RestartLinkDown
  BY <1>9 DEF RestartLinkDown, OnlyWorker
<1>10. CASE RestartLinkTell
  BY <1>10 DEF RestartLinkTell, OnlyWorker
<1>11. CASE RestartStop
  BY <1>11 DEF RestartStop, StopEnter, OnlyWorker
<1>12. CASE RestartPolicy
  BY <1>12 DEF RestartPolicy, OnlyWorker
<1>13. CASE RestartClear
  BY <1>13 DEF RestartClear, StartEnter, OnlyWorker
<1>14. CASE RestartStarted
  BY <1>14 DEF RestartStarted, OnlyWorker
<1>15. CASE RestartSwap
  BY <1>15 DEF RestartSwap, OnlyWorker
<1>16. CASE RestartExit
  BY <1>16 DEF RestartExit, OnlyWorker
<1>17. CASE RestartLock
  BY <1>17 DEF RestartLock, StateLockFree, OnlyWorker
<1>18. CASE IntrFatal
  BY <1>18 DEF IntrFatal, Report, CountRestart
<1>19. CASE IoctlReset
  BY <1>19 DEF IoctlReset, StateLockFree, CountRestart, InProgress
<1>20. CASE IoctlDone
  BY <1>20 DEF IoctlDone, TaskqIdle
<1>21. CASE Attach
  BY <1>21 DEF Attach, NotReporting, TaskqIdle
<1>22. CASE CreateStepOk
  BY <1>22 DEF CreateStepOk, NotReporting, OnlyAttach
<1>23. CASE CreateStepFail
  BY <1>23 DEF CreateStepFail, NotReporting, OnlyAttach
<1>24. CASE UndoCreate
  BY <1>24 DEF UndoCreate, NotReporting, UndoCreateStep, TaskqIdle, OnlyAttach
<1>25. CASE Freed
  BY <1>25 DEF Freed, OnlyAttach
<1>26. CASE CreateDone
  BY <1>26 DEF CreateDone, NotReporting, OnlyAttach
<1>27. CASE KstatInit
  BY <1>27 DEF KstatInit, NotReporting, OnlyAttach
<1>28. CASE Register
  BY <1>28 DEF Register, NotReporting, OnlyAttach
<1>29. CASE AttachFail
  BY <1>29 DEF AttachFail, OnlyAttach
<1>30. CASE Detach
  BY <1>30 DEF Detach, OnlyAttach
<1>31. CASE DetachLock
  BY <1>31 DEF DetachLock, TaskqIdle, OnlyAttach
<1>32. CASE DetachStop
  BY <1>32 DEF DetachStop, StopEnter, StateLockFree
<1>33. CASE DetachCheck
  BY <1>33 DEF DetachCheck, OnlyAttach
<1>34. CASE Unregister
  BY <1>34 DEF Unregister, TaskqIdle, OnlyAttach
<1>35. CASE KstatFini
  BY <1>35 DEF KstatFini, OnlyAttach
<1>36. CASE Destroy
  BY <1>36 DEF Destroy, OnlyAttach
<1>37. CASE LinkRead
  BY <1>37 DEF LinkRead
<1>38. CASE LinkTell
  BY <1>38 DEF LinkTell
<1>39. ASSUME NEW r \in Reporters, ReportHwErr(r) PROVE RestartInProgress'
  BY <1>39 DEF ReportHwErr, Report, CountRestart
<1>40. ASSUME NEW r \in Reporters, MtuChange(r) PROVE RestartInProgress'
  BY <1>40 DEF MtuChange, Report, CountRestart
<1>41. ASSUME NEW r \in Reporters, IncNested(r) PROVE RestartInProgress'
  BY <1>41 DEF IncNested, InProgress, LateReport
<1>42. ASSUME NEW r \in Reporters, Enqueue(r) PROVE RestartInProgress'
  BY <1>42 DEF Enqueue
<1>43. ASSUME NEW t \in Callers, SfxgeStart(t) PROVE RestartInProgress'
  BY <1>43 DEF SfxgeStart, StartEnter, StateLockFree
<1>44. ASSUME NEW t \in Callers, SfxgeStop(t) PROVE RestartInProgress'
  BY <1>44 DEF SfxgeStop, StopEnter, StateLockFree
<1>45. ASSUME NEW mode \in {"UP", "DOWN"}, LinkUpdate(mode)
      PROVE  RestartInProgress'
  BY <1>45 DEF LinkUpdate
<1>46. CASE UNCHANGED vars
  BY <1>46
<1> HIDE DEF IInv, TypeOK, TypeState, OneRestart, Reporters, Intr,
      RestartInProgress, Coming, Running, vars, lockvars, restartvars,
      linkvars, attachvars, iocvars
<1> QED
  BY <1>1, <1>2, <1>3, <1>4, <1>5, <1>6, <1>7, <1>8, <1>9, <1>10, <1>11,
     <1>12, <1>13, <1>14, <1>15, <1>16, <1>17, <1>18, <1>19, <1>20, <1>21,
     <1>22, <1>23, <1>24, <1>25, <1>26, <1>27, <1>28, <1>29, <1>30, <1>31,
     <1>32, <1>33, <1>34, <1>35, <1>36, <1>37, <1>38, <1>39, <1>40, <1>41,
     <1>42, <1>43, <1>44, <1>45, <1>46 DEF Next, LockHolder, Worker, Reports,
     Dispatch, AttachDetach

(* A report is either before its increment, or has a restart coming that   *)
(* has not reset the NIC yet, or was made while the NIC was being reset.   *)
LEMMA ReportNext == IInv /\ ~NoSleepMayFail /\ RestartInProgress /\ ReportInv /\
  [Next]_vars => ReportInv'
<1> SUFFICES ASSUME IInv, ~NoSleepMayFail, RestartInProgress, ReportInv,
      [Next]_vars PROVE ReportInv'
  OBVIOUS
<1> USE LifecycleAssumption DEF IInv, TypeOK, TypeState, StepInv, OwnerInv,
      Moving, NStart, Reporters, Intr, RestartInProgress, Coming, Running,
      ReportInv, NoThread, Taskq, Ddi, vars, lockvars, restartvars,
      linkvars, attachvars, iocvars
<1>1. CASE StartStepOk
  BY <1>1 DEF StartStepOk, NicReset
<1>2. CASE StartDone
  BY <1>2 DEF StartDone
<1>3. CASE StartStepFail
  BY <1>3 DEF StartStepFail
<1>4. CASE UnwindStep
  BY <1>4 DEF UnwindStep, NicReset, MoreToUndo, UndoStep, MacStop
<1>5. CASE StopStep
  BY <1>5 DEF StopStep, NicReset, MoreToUndo, MacStop
<1>6. CASE StopDone
  BY <1>6 DEF StopDone
<1>7. CASE CallerReturn
  BY <1>7 DEF CallerReturn
<1>8. CASE TaskBegin
  BY <1>8 DEF TaskBegin, OnlyWorker
<1>9. CASE RestartLinkDown
  BY <1>9 DEF RestartLinkDown, OnlyWorker
<1>10. CASE RestartLinkTell
  BY <1>10 DEF RestartLinkTell, OnlyWorker
<1>11. CASE RestartStop
  BY <1>11 DEF RestartStop, StopEnter, OnlyWorker
<1>12. CASE RestartPolicy
  BY <1>12 DEF RestartPolicy, OnlyWorker
<1>13. CASE RestartClear
  BY <1>13 DEF RestartClear, StartEnter, OnlyWorker
<1>14. CASE RestartStarted
  BY <1>14 DEF RestartStarted, OnlyWorker
<1>15. CASE RestartSwap
  BY <1>15 DEF RestartSwap, OnlyWorker
<1>16. CASE RestartExit
  BY <1>16 DEF RestartExit, OnlyWorker
<1>17. CASE RestartLock
  BY <1>17 DEF RestartLock, StateLockFree, OnlyWorker
<1>18. CASE IntrFatal
  BY <1>18 DEF IntrFatal, Report, CountRestart
<1>19. CASE IoctlReset
  BY <1>19 DEF IoctlReset, StateLockFree, CountRestart, InProgress
<1>20. CASE IoctlDone
  BY <1>20 DEF IoctlDone, TaskqIdle
<1>21. CASE Attach
  BY <1>21 DEF Attach, NotReporting, TaskqIdle
<1>22. CASE CreateStepOk
  BY <1>22 DEF CreateStepOk, NotReporting, OnlyAttach
<1>23. CASE CreateStepFail
  BY <1>23 DEF CreateStepFail, NotReporting, OnlyAttach
<1>24. CASE UndoCreate
  BY <1>24 DEF UndoCreate, NotReporting, UndoCreateStep, TaskqIdle, OnlyAttach
<1>25. CASE Freed
  BY <1>25 DEF Freed, OnlyAttach
<1>26. CASE CreateDone
  BY <1>26 DEF CreateDone, NotReporting, OnlyAttach
<1>27. CASE KstatInit
  BY <1>27 DEF KstatInit, NotReporting, OnlyAttach
<1>28. CASE Register
  BY <1>28 DEF Register, NotReporting, OnlyAttach
<1>29. CASE AttachFail
  BY <1>29 DEF AttachFail, OnlyAttach
<1>30. CASE Detach
  BY <1>30 DEF Detach, OnlyAttach
<1>31. CASE DetachLock
  BY <1>31 DEF DetachLock, TaskqIdle, OnlyAttach
<1>32. CASE DetachStop
  BY <1>32 DEF DetachStop, StopEnter, StateLockFree
<1>33. CASE DetachCheck
  BY <1>33 DEF DetachCheck, OnlyAttach
<1>34. CASE Unregister
  BY <1>34 DEF Unregister, TaskqIdle, OnlyAttach
<1>35. CASE KstatFini
  BY <1>35 DEF KstatFini, OnlyAttach
<1>36. CASE Destroy
  BY <1>36 DEF Destroy, OnlyAttach
<1>37. CASE LinkRead
  BY <1>37 DEF LinkRead
<1>38. CASE LinkTell
  BY <1>38 DEF LinkTell
<1>39. ASSUME NEW r \in Reporters, ReportHwErr(r) PROVE ReportInv'
  BY <1>39 DEF ReportHwErr, Report, CountRestart
<1>40. ASSUME NEW r \in Reporters, MtuChange(r) PROVE ReportInv'
  BY <1>40 DEF MtuChange, Report, CountRestart
<1>41. ASSUME NEW r \in Reporters, IncNested(r) PROVE ReportInv'
  BY <1>41 DEF IncNested, InProgress, LateReport
<1>42. ASSUME NEW r \in Reporters, Enqueue(r) PROVE ReportInv'
  BY <1>42 DEF Enqueue
<1>43. ASSUME NEW t \in Callers, SfxgeStart(t) PROVE ReportInv'
  BY <1>43 DEF SfxgeStart, StartEnter, StateLockFree
<1>44. ASSUME NEW t \in Callers, SfxgeStop(t) PROVE ReportInv'
  BY <1>44 DEF SfxgeStop, StopEnter, StateLockFree
<1>45. ASSUME NEW mode \in {"UP", "DOWN"}, LinkUpdate(mode) PROVE ReportInv'
  BY <1>45 DEF LinkUpdate
<1>46. CASE UNCHANGED vars
  BY <1>46
<1> HIDE DEF IInv, TypeOK, TypeState, StepInv, OwnerInv, Moving, NStart,
      Reporters, Intr, RestartInProgress, Coming, Running,
      ReportInv, NoThread, Taskq, Ddi, vars, lockvars, restartvars, linkvars,
      attachvars, iocvars
<1> QED
  BY <1>1, <1>2, <1>3, <1>4, <1>5, <1>6, <1>7, <1>8, <1>9, <1>10, <1>11,
     <1>12, <1>13, <1>14, <1>15, <1>16, <1>17, <1>18, <1>19, <1>20, <1>21,
     <1>22, <1>23, <1>24, <1>25, <1>26, <1>27, <1>28, <1>29, <1>30, <1>31,
     <1>32, <1>33, <1>34, <1>35, <1>36, <1>37, <1>38, <1>39, <1>40, <1>41,
     <1>42, <1>43, <1>44, <1>45, <1>46 DEF Next, LockHolder, Worker, Reports,
     Dispatch, AttachDetach

(* The restart that a waiting reset ioctl relies on is queued or about to  *)
(* stop the NIC, unless another thread is stopping it already.             *)
LEMMA IocNext == IInv /\ ~NoSleepMayFail /\ RestartInProgress /\ IocInv /\
  [Next]_vars => IocInv'
<1> SUFFICES ASSUME IInv, ~NoSleepMayFail, RestartInProgress, IocInv,
      [Next]_vars PROVE IocInv'
  OBVIOUS
<1> USE LifecycleAssumption DEF IInv, TypeOK, TypeState, StepInv, OwnerInv,
      AttachInv, Quiet, Moving, NStart, Reporters, RestartInProgress, Coming,
      Running, IocInv, NoThread, Taskq, Ddi, vars, lockvars, restartvars,
      linkvars, attachvars, iocvars
<1>1. CASE StartStepOk
  BY <1>1 DEF StartStepOk, NicReset
<1>2. CASE StartDone
  BY <1>2 DEF StartDone
<1>3. CASE StartStepFail
  BY <1>3 DEF StartStepFail
<1>4. CASE UnwindStep
  BY <1>4 DEF UnwindStep, NicReset, MoreToUndo, UndoStep, MacStop
<1>5. CASE StopStep
  <2>1. /\ pc = "stop" /\ idx >= 1 /\ idx' = idx - 1 /\ idx \in Int
        /\ UNCHANGED <<iocwait, pc, queued, wpc, rpc>>
    BY <1>5 DEF StopStep, MoreToUndo
  <2>2. (iocreset \/ idx = 1) => iocreset'
    BY <1>5 DEF StopStep, NicReset
  <2> QED
    BY <2>1, <2>2
<1>6. CASE StopDone
  BY <1>6 DEF StopDone
<1>7. CASE CallerReturn
  BY <1>7 DEF CallerReturn
<1>8. CASE TaskBegin
  BY <1>8 DEF TaskBegin, OnlyWorker
<1>9. CASE RestartLinkDown
  BY <1>9 DEF RestartLinkDown, OnlyWorker
<1>10. CASE RestartLinkTell
  BY <1>10 DEF RestartLinkTell, OnlyWorker
<1>11. CASE RestartStop
  BY <1>11 DEF RestartStop, StopEnter, OnlyWorker
<1>12. CASE RestartPolicy
  BY <1>12 DEF RestartPolicy, OnlyWorker
<1>13. CASE RestartClear
  BY <1>13 DEF RestartClear, StartEnter, OnlyWorker
<1>14. CASE RestartStarted
  BY <1>14 DEF RestartStarted, OnlyWorker
<1>15. CASE RestartSwap
  BY <1>15 DEF RestartSwap, OnlyWorker
<1>16. CASE RestartExit
  BY <1>16 DEF RestartExit, OnlyWorker
<1>17. CASE RestartLock
  BY <1>17 DEF RestartLock, StateLockFree, OnlyWorker
<1>18. CASE IntrFatal
  BY <1>18 DEF IntrFatal, Report, CountRestart
<1>19. CASE IoctlReset
  <2>1. /\ owner = NoThread /\ UNCHANGED <<s_state, pc, idx, wpc>>
        /\ s_nested_restarts \in Nat /\ queued \in Nat
        /\ queued' = IF s_nested_restarts + 1 > 1 THEN queued ELSE queued + 1
        /\ s_state # "STARTED" => iocreset'
        /\ rpc' = rpc
    BY <1>19 DEF IoctlReset, StateLockFree, InProgress
  <2>2. wpc \in {"idle", "lock"}
    BY <2>1
  <2>3. CASE s_nested_restarts = 0
    BY <2>1, <2>3
  <2>4. CASE s_nested_restarts > 0
    BY <2>1, <2>2, <2>4
  <2> QED
    BY <2>1, <2>3, <2>4
<1>20. CASE IoctlDone
  BY <1>20 DEF IoctlDone, TaskqIdle
<1>21. CASE Attach
  BY <1>21 DEF Attach, NotReporting, TaskqIdle
<1>22. CASE CreateStepOk
  BY <1>22 DEF CreateStepOk, NotReporting, OnlyAttach
<1>23. CASE CreateStepFail
  BY <1>23 DEF CreateStepFail, NotReporting, OnlyAttach
<1>24. CASE UndoCreate
  BY <1>24 DEF UndoCreate, NotReporting, UndoCreateStep, TaskqIdle, OnlyAttach
<1>25. CASE Freed
  BY <1>25 DEF Freed, OnlyAttach
<1>26. CASE CreateDone
  BY <1>26 DEF CreateDone, NotReporting, OnlyAttach
<1>27. CASE KstatInit
  BY <1>27 DEF KstatInit, NotReporting, OnlyAttach
<1>28. CASE Register
  BY <1>28 DEF Register, NotReporting, OnlyAttach
<1>29. CASE AttachFail
  BY <1>29 DEF AttachFail, OnlyAttach
<1>30. CASE Detach
  BY <1>30 DEF Detach, OnlyAttach
<1>31. CASE DetachLock
  BY <1>31 DEF DetachLock, TaskqIdle, OnlyAttach
<1>32. CASE DetachStop
  BY <1>32 DEF DetachStop, StopEnter, StateLockFree
<1>33. CASE DetachCheck
  BY <1>33 DEF DetachCheck, OnlyAttach
<1>34. CASE Unregister
  BY <1>34 DEF Unregister, TaskqIdle, OnlyAttach
<1>35. CASE KstatFini
  BY <1>35 DEF KstatFini, OnlyAttach
<1>36. CASE Destroy
  BY <1>36 DEF Destroy, OnlyAttach
<1>37. CASE LinkRead
  BY <1>37 DEF LinkRead
<1>38. CASE LinkTell
  BY <1>38 DEF LinkTell
<1>39. ASSUME NEW r \in Reporters, ReportHwErr(r) PROVE IocInv'
  BY <1>39 DEF ReportHwErr, Report, CountRestart
<1>40. ASSUME NEW r \in Reporters, MtuChange(r) PROVE IocInv'
  BY <1>40 DEF MtuChange, Report, CountRestart
<1>41. ASSUME NEW r \in Reporters, IncNested(r) PROVE IocInv'
  BY <1>41 DEF IncNested, InProgress, LateReport
<1>42. ASSUME NEW r \in Reporters, Enqueue(r) PROVE IocInv'
  BY <1>42 DEF Enqueue
<1>43. ASSUME NEW t \in Callers, SfxgeStart(t) PROVE IocInv'
  BY <1>43 DEF SfxgeStart, StartEnter, StateLockFree
<1>44. ASSUME NEW t \in Callers, SfxgeStop(t) PROVE IocInv'
  BY <1>44 DEF SfxgeStop, StopEnter, StateLockFree
<1>45. ASSUME NEW mode \in {"UP", "DOWN"}, LinkUpdate(mode) PROVE IocInv'
  BY <1>45 DEF LinkUpdate
<1>46. CASE UNCHANGED vars
  BY <1>46
<1> HIDE DEF IInv, TypeOK, TypeState, StepInv, OwnerInv, AttachInv, Quiet,
      Moving, NStart, Reporters, RestartInProgress, Coming, Running, IocInv,
      NoThread, Taskq, Ddi, vars, lockvars, restartvars, linkvars, attachvars,
      iocvars
<1> QED
  BY <1>1, <1>2, <1>3, <1>4, <1>5, <1>6, <1>7, <1>8, <1>9, <1>10, <1>11,
     <1>12, <1>13, <1>14, <1>15, <1>16, <1>17, <1>18, <1>19, <1>20, <1>21,
     <1>22, <1>23, <1>24, <1>25, <1>26, <1>27, <1>28, <1>29, <1>30, <1>31,
     <1>32, <1>33, <1>34, <1>35, <1>36, <1>37, <1>38, <1>39, <1>40, <1>41,
     <1>42, <1>43, <1>44, <1>45, <1>46 DEF Next, LockHolder, Worker, Reports,
     Dispatch, AttachDetach

(* Only IoctlDone ends the wait of a reset ioctl.                          *)
LEMMA IocwaitEnds == iocwait /\ [Next]_vars => iocwait' \/ IoctlDone
<1> SUFFICES ASSUME iocwait, [Next]_vars PROVE iocwait' \/ IoctlDone
  OBVIOUS
<1> USE DEF vars, lockvars, restartvars, linkvars, attachvars, iocvars
<1>1. CASE StartStepOk
  BY <1>1 DEF StartStepOk
<1>2. CASE StartDone
  BY <1>2 DEF StartDone
<1>3. CASE StartStepFail
  BY <1>3 DEF StartStepFail
<1>4. CASE UnwindStep
  BY <1>4 DEF UnwindStep, NicReset, MoreToUndo, UndoStep, MacStop
<1>5. CASE StopStep
  BY <1>5 DEF StopStep, NicReset, MoreToUndo, MacStop
<1>6. CASE StopDone
  BY <1>6 DEF StopDone
<1>7. CASE CallerReturn
  BY <1>7 DEF CallerReturn
<1>8. CASE TaskBegin
  BY <1>8 DEF TaskBegin, OnlyWorker
<1>9. CASE RestartLinkDown
  BY <1>9 DEF RestartLinkDown, OnlyWorker
<1>10. CASE RestartLinkTell
  BY <1>10 DEF RestartLinkTell, OnlyWorker
<1>11. CASE RestartStop
  BY <1>11 DEF RestartStop, StopEnter, OnlyWorker
<1>12. CASE RestartPolicy
  BY <1>12 DEF RestartPolicy, OnlyWorker
<1>13. CASE RestartClear
  BY <1>13 DEF RestartClear, StartEnter, OnlyWorker
<1>14. CASE RestartStarted
  BY <1>14 DEF RestartStarted, OnlyWorker
<1>15. CASE RestartSwap
  BY <1>15 DEF RestartSwap, OnlyWorker
<1>16. CASE RestartExit
  BY <1>16 DEF RestartExit, OnlyWorker
<1>17. CASE RestartLock
  BY <1>17 DEF RestartLock, StateLockFree, OnlyWorker
<1>18. CASE IntrFatal
  BY <1>18 DEF IntrFatal, Report, CountRestart
<1>19. CASE IoctlReset
  BY <1>19 DEF IoctlReset, StateLockFree, CountRestart, InProgress
<1>20. CASE IoctlDone
  BY <1>20
<1>21. CASE Attach
  BY <1>21 DEF Attach, NotReporting, TaskqIdle
<1>22. CASE CreateStepOk
  BY <1>22 DEF CreateStepOk, NotReporting, OnlyAttach
<1>23. CASE CreateStepFail
  BY <1>23 DEF CreateStepFail, NotReporting, OnlyAttach
<1>24. CASE UndoCreate
  BY <1>24 DEF UndoCreate, NotReporting, UndoCreateStep, TaskqIdle, OnlyAttach
<1>25. CASE Freed
  BY <1>25 DEF Freed, OnlyAttach
<1>26. CASE CreateDone
  BY <1>26 DEF CreateDone, NotReporting, OnlyAttach
<1>27. CASE KstatInit
  BY <1>27 DEF KstatInit, NotReporting, OnlyAttach
<1>28. CASE Register
  BY <1>28 DEF Register, NotReporting, OnlyAttach
<1>29. CASE AttachFail
  BY <1>29 DEF AttachFail, OnlyAttach
<1>30. CASE Detach
  BY <1>30 DEF Detach, OnlyAttach
<1>31. CASE DetachLock
  BY <1>31 DEF DetachLock, TaskqIdle, OnlyAttach
<1>32. CASE DetachStop
  BY <1>32 DEF DetachStop, StopEnter, StateLockFree
<1>33. CASE DetachCheck
  BY <1>33 DEF DetachCheck, OnlyAttach
<1>34. CASE Unregister
  BY <1>34 DEF Unregister, TaskqIdle, OnlyAttach
<1>35. CASE KstatFini
  BY <1>35 DEF KstatFini, OnlyAttach
<1>36. CASE Destroy
  BY <1>36 DEF Destroy, OnlyAttach
<1>37. CASE LinkRead
  BY <1>37 DEF LinkRead
<1>38. CASE LinkTell
  BY <1>38 DEF LinkTell
<1>39. ASSUME NEW r \in Reporters, ReportHwErr(r) PROVE iocwait' \/ IoctlDone
  BY <1>39 DEF ReportHwErr, Report, CountRestart
<1>40. ASSUME NEW r \in Reporters, MtuChange(r) PROVE iocwait' \/ IoctlDone
  BY <1>40 DEF MtuChange, Report, CountRestart
<1>41. ASSUME NEW r \in Reporters, IncNested(r) PROVE iocwait' \/ IoctlDone
  BY <1>41 DEF IncNested, InProgress, LateReport
<1>42. ASSUME NEW r \in Reporters, Enqueue(r) PROVE iocwait' \/ IoctlDone
  BY <1>42 DEF Enqueue
<1>43. ASSUME NEW t \in Callers, SfxgeStart(t) PROVE iocwait' \/ IoctlDone
  BY <1>43 DEF SfxgeStart, StartEnter, StateLockFree
<1>44. ASSUME NEW t \in Callers, SfxgeStop(t) PROVE iocwait' \/ IoctlDone
  BY <1>44 DEF SfxgeStop, StopEnter, StateLockFree
<1>45. ASSUME NEW mode \in {"UP", "DOWN"}, LinkUpdate(mode)
      PROVE  iocwait' \/ IoctlDone
  BY <1>45 DEF LinkUpdate
<1>46. CASE UNCHANGED vars
  BY <1>46
<1> HIDE DEF vars, lockvars, restartvars, linkvars, attachvars, iocvars
<1> QED
  BY <1>1, <1>2, <1>3, <1>4, <1>5, <1>6, <1>7, <1>8, <1>9, <1>10, <1>11,
     <1>12, <1>13, <1>14, <1>15, <1>16, <1>17, <1>18, <1>19, <1>20, <1>21,
     <1>22, <1>23, <1>24, <1>25, <1>26, <1>27, <1>28, <1>29, <1>30, <1>31,
     <1>32, <1>33, <1>34, <1>35, <1>36, <1>37, <1>38, <1>39, <1>40, <1>41,
     <1>42, <1>43, <1>44, <1>45, <1>46 DEF Next, LockHolder, Worker, Reports,
     Dispatch, AttachDetach

-----------------------------------------------------------------------------
(* The invariant about the link holds in every state of every behaviour.   *)
LEMMA LinkInvariance == Spec => []LinkInv
<1>1. Init => LinkInv
  BY DEF Init, LinkInv, Mac
<1> QED
  BY <1>1, LinkNext, Invariance, PTL DEF Spec

(* Outside the announcement of a restart, the OS knows the state of the    *)
(* link that sfxge_mac_link_update_locked keeps, although _sfxge_restart   *)
(* assigns sm_link_mode without sm_lock.                                   *)
THEOREM LinkAgreesAlways == Spec => []LinkAgrees
<1>1. LinkInv => LinkAgrees
  BY DEF LinkInv, LinkAgrees
<1> QED
  BY <1>1, LinkInvariance, PTL

(* sfxge_restart_dispatch: s_nested_restarts is non-zero only while a      *)
(* restart is coming, whoever increments it and whenever _sfxge_restart    *)
(* zeroes it, if no dispatch fails after its increment.                    *)
THEOREM RestartInProgressAlways ==
  ASSUME ~NoSleepMayFail
  PROVE  Spec => []RestartInProgress
<1>1. Init => RestartInProgress
  BY DEF Init, RestartInProgress
<1>2. IInv /\ RestartInProgress /\ [Next]_vars => RestartInProgress'
  BY RestartNext
<1> QED
  BY <1>1, <1>2, Invariance, PTL DEF Spec

(* Whatever asked for it, a restart counted while the NIC runs is coming   *)
(* until efx_nic_reset; only what is counted after the reset of a restart  *)
(* and before its atomic_swap_32 of s_nested_restarts is discarded.        *)
THEOREM NoReportForgottenAlways ==
  ASSUME ~NoSleepMayFail
  PROVE  Spec => []NoReportForgotten
<1>1. Init => ReportInv
  BY DEF Init, ReportInv
<1>2. IInv /\ RestartInProgress /\ ReportInv /\ [Next]_vars => ReportInv'
  BY ReportNext
<1>3. IInv /\ ReportInv => NoReportForgotten
  BY DEF IInv, StepInv, Moving, NStart, ReportInv, NoReportForgotten
<1> QED
  BY <1>1, <1>2, <1>3, RestartInProgressAlways, Invariance, PTL DEF Spec

(* A reset ioctl that returns from ddi_taskq_wait has had its reset, also  *)
(* when its restart was folded into one of another thread, unless that     *)
(* thread has counted the restart and is still about to dispatch it.       *)
THEOREM IoctlCoversResetAlways ==
  ASSUME ~NoSleepMayFail
  PROVE  Spec => IoctlCoversReset
<1>1. Init => IocInv
  BY DEF Init, IocInv
<1>2. IInv /\ RestartInProgress /\ IocInv /\ [Next]_vars => IocInv'
  BY IocNext
<1>3. IInv /\ IocInv /\ [Next]_vars =>
        [iocwait /\ ~iocwait' =>
           iocreset \/ \E r \in Reporters : rpc[r] = "queue"]_vars
  <2> SUFFICES ASSUME IInv, IocInv, [Next]_vars, iocwait, ~iocwait'
               PROVE  iocreset \/ \E r \in Reporters : rpc[r] = "queue"
    OBVIOUS
  <2>1. IoctlDone
    BY IocwaitEnds
  <2> QED
    BY <2>1 DEF IoctlDone, TaskqIdle, IocInv, IInv, TypeOK, TypeState
<1> QED
  BY <1>1, <1>2, <1>3, RestartInProgressAlways, Invariance, PTL
     DEF Spec, IoctlCoversReset
=============================================================================
