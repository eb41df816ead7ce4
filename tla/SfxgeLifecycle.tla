--------------------------- MODULE SfxgeLifecycle ---------------------------
(***************************************************************************)
(* The life of one sfxge instance (sfxge.c): attach and detach, the        *)
(* start/stop sequences run under s_state_lock with their unwinding        *)
(* labels, and the restart task that sfxge_restart_dispatch queues on the  *)
(* single-threaded task queue s_tqp when the hardware fails or the         *)
(* configuration changes.                                                  *)
(*                                                                         *)
(* Every function that changes s_state runs under s_state_lock, so the     *)
(* lock holder's progress is one program counter (pc, idx).  Reports of    *)
(* hardware errors do not take the lock and interleave with every step.    *)
(***************************************************************************)
EXTENDS Integers, FiniteSets

CONSTANTS
  Callers,          \* threads calling sfxge_start / sfxge_stop (GLD, ioctl, DDI)
  Threads,          \* threads that report errors or set the MTU, without the lock
  ActionOnHwErr,    \* s_action_on_hw_err
  NoSleepMayFail,   \* may a DDI_NOSLEEP ddi_taskq_dispatch fail?
  MaxRestarts,      \* bound on s_num_restarts of one attachment
  MaxHwErrs         \* bound on s_num_restarts_hw_err of one attachment

NoThread == "nothread"
Taskq    == "taskq"        \* the thread of s_tqp, running _sfxge_restart
Ddi      == "detach"       \* the thread in sfxge_attach / sfxge_detach
Intr     == "intr"         \* the interrupt thread in sfxge_intr_fatal
Reporters == Threads \cup {Intr}

ASSUME LifecycleAssumption ==
  /\ Callers \cap {NoThread, Taskq, Ddi} = {}
  /\ Intr \notin Threads
  /\ ActionOnHwErr \in {"RECOVER", "INVISIBLE", "LEAVE_DEAD"}
  /\ NoSleepMayFail \in BOOLEAN
  /\ MaxRestarts \in Nat /\ MaxHwErrs \in Nat

(***************************************************************************)
(* The calls of sfxge_start_locked in order: 1 efx_nic_reset,              *)
(* 2 efx_nic_init, 3 efx_filter_init, 4 sram, 5 intr, 6 ev, 7 mac, 8 rx,   *)
(* 9 tx, 10 mon.  Step k failing jumps to label fail(k+1), which undoes    *)
(* k-1 and falls through.                                                  *)
(***************************************************************************)
Mac    == 7
NStart == 10

(***************************************************************************)
(* The calls of sfxge_create: 1 taskq, 2 pci, 3 bar, 4 efx_nic_create,     *)
(* 5 mcdi, 6 efx_nic_probe, 7 nvram, 8 vpd, 9 efx_nic_reset and sram,      *)
(* 10 intr, 11 ev, 12 mac, 13 rx, 14 tx, 15 mon.                           *)
(***************************************************************************)
TaskqStep == 1
McdiStep  == 5
NCreate   == 15

VARIABLES
  s_state,      \* sp->s_state
  owner,        \* holder of s_state_lock
  pc, idx,      \* progress of start_locked / stop_locked under the lock
  up,           \* start steps in effect
  wpc,          \* progress of _sfxge_restart on the task queue thread
  queued,       \* _sfxge_restart tasks waiting in s_tqp
  s_nested_restarts, s_num_restarts, s_num_restarts_hw_err, s_hw_err,
  rpc,          \* progress of each reporter in sfxge_restart_dispatch
  intime,       \* history: a restart was counted in s_nested_restarts after
                \* the last efx_nic_reset, outside the window of LateReport
  sm_link_mode, \* sp->s_mac.sm_link_mode
  os_link,      \* the state last passed to mac_link_update
  lpc,          \* the sm_lock holder in sfxge_mac_link_update_locked: "idle",
                \* "read", or the value it read and will pass to the OS
  apc, aidx,    \* progress of sfxge_attach / sfxge_detach
  created,      \* create steps in effect
  kstats,       \* "cfg" and "vpd" kstats installed
  iocwait,      \* an ioctl thread is in ddi_taskq_wait
  iocreset      \* history: efx_nic_reset was called since that ioctl, which
                \* found the NIC STARTED

lockvars    == <<s_state, owner, pc, idx, up>>
restartvars == <<wpc, queued, s_nested_restarts, s_num_restarts,
                 s_num_restarts_hw_err, s_hw_err, rpc, intime>>
linkvars    == <<sm_link_mode, os_link, lpc>>
attachvars  == <<apc, aidx, created, kstats>>
iocvars     == <<iocwait, iocreset>>
vars == <<lockvars, restartvars, linkvars, attachvars, iocvars>>

TaskqIdle == queued = 0 /\ wpc = "idle"

Init ==
  /\ s_state = "UNINITIALIZED" /\ owner = NoThread /\ pc = "none" /\ idx = 0
  /\ up = {}
  /\ wpc = "idle" /\ queued = 0 /\ s_nested_restarts = 0
  /\ s_num_restarts = 0 /\ s_num_restarts_hw_err = 0 /\ s_hw_err = "HW_OK"
  /\ rpc = [r \in Reporters |-> "idle"] /\ intime = FALSE
  /\ sm_link_mode = "UNKNOWN" /\ os_link = "UNKNOWN" /\ lpc = "idle"
  /\ apc = "absent" /\ aidx = 0 /\ created = {} /\ kstats = {}
  /\ iocwait = FALSE /\ iocreset = FALSE

(* mutex_enter(s_state_lock) may proceed.  The mutation: the reset ioctl   *)
(* waits for the task queue inside the lock.                               *)
StateLockFreeIoc == owner = NoThread /\ ~iocwait
StateLockFree    == owner = NoThread

-----------------------------------------------------------------------------
(* sfxge_start_locked and sfxge_stop_locked, one call per step.            *)

StartEnter(t) ==
  /\ s_state = "REGISTERED"
  /\ s_state' = "STARTING" /\ owner' = t /\ pc' = "start" /\ idx' = 1
  /\ UNCHANGED up

StopEnter(t) ==
  /\ s_state = "STARTED"
  /\ s_state' = "STOPPING" /\ owner' = t /\ pc' = "stop" /\ idx' = NStart
  /\ UNCHANGED up

(* efx_nic_reset, the first step, answers what was reported before it.     *)
NicReset == /\ intime'   = (intime /\ idx # 1)
            /\ iocreset' = (iocreset \/ idx = 1)

StartStepOk ==
  /\ pc = "start" /\ idx <= NStart
  /\ up' = up \cup {idx} /\ idx' = idx + 1
  /\ NicReset
  /\ UNCHANGED <<s_state, owner, pc, wpc, queued, s_nested_restarts,
                 s_num_restarts, s_num_restarts_hw_err, s_hw_err, rpc,
                 linkvars, attachvars, iocwait>>

StartDone ==
  /\ pc = "start" /\ idx = NStart + 1
  /\ s_state' = "STARTED" /\ pc' = "return" /\ idx' = 0
  /\ UNCHANGED <<owner, up, restartvars, linkvars, attachvars, iocvars>>

(* Any of the calls may return an error: jump to label fail(idx + 1).      *)
StartStepFail ==
  /\ pc = "start" /\ idx <= NStart
  /\ pc' = "unwind" /\ idx' = idx - 1
  /\ UNCHANGED <<s_state, owner, up, restartvars, linkvars, attachvars,
                 iocvars>>

(* A label undoes one step and falls through.  The mutation is a wrong     *)
(* fail label: the failure of the RX start skips sfxge_mac_stop.           *)
UndoStepMut(k) == IF k = Mac THEN up ELSE up \ {k}
UndoStep(k)    == up \ {k}

(* sfxge_mac_stop waits for the link poll and takes sm_lock; it resets     *)
(* sm_link_mode without telling the OS.  The mutation keeps the mode.      *)
MacStopMut == /\ idx = Mac => lpc = "idle"
              /\ sm_link_mode' = sm_link_mode
MacStop    == /\ idx = Mac => lpc = "idle"
              /\ sm_link_mode' = IF idx = Mac THEN "UNKNOWN" ELSE sm_link_mode

(* The labels and calls below the current one.                             *)
MoreToUndo == idx >= 1

UnwindStep ==
  /\ pc = "unwind" /\ MoreToUndo
  /\ up' = UndoStep(idx) /\ idx' = idx - 1
  /\ MacStop
  /\ NicReset
  /\ UNCHANGED <<s_state, owner, pc, wpc, queued, s_nested_restarts,
                 s_num_restarts, s_num_restarts_hw_err, s_hw_err, rpc,
                 os_link, lpc, attachvars, iocwait>>

StopStep ==
  /\ pc = "stop" /\ MoreToUndo
  /\ up' = up \ {idx} /\ idx' = idx - 1
  /\ MacStop
  /\ NicReset
  /\ UNCHANGED <<s_state, owner, pc, wpc, queued, s_nested_restarts,
                 s_num_restarts, s_num_restarts_hw_err, s_hw_err, rpc,
                 os_link, lpc, attachvars, iocwait>>

StopDone ==
  /\ pc \in {"stop", "unwind"} /\ idx = 0
  /\ s_state' = "REGISTERED" /\ pc' = "return"
  /\ UNCHANGED <<owner, idx, up, restartvars, linkvars, attachvars, iocvars>>

(* A caller returns: mutex_exit.  Only sfxge_detach's program counter      *)
(* outlives the lock.                                                      *)
CallerReturn ==
  /\ pc = "return" /\ owner \in Callers \cup {Ddi}
  /\ owner' = NoThread /\ pc' = "none"
  /\ apc' = IF owner = Ddi THEN "dcheck" ELSE apc
  /\ UNCHANGED <<s_state, idx, up, restartvars, linkvars, aidx, created,
                 kstats, iocvars>>

(* GLD mc_start / mc_stop, the START and STOP ioctls, DDI resume/suspend.  *)
(* In any other state both return without changing anything.               *)
SfxgeStart(t) ==
  /\ apc = "attached" /\ StateLockFree
  /\ StartEnter(t)
  /\ UNCHANGED <<restartvars, linkvars, attachvars, iocvars>>

SfxgeStop(t) ==
  /\ apc \notin {"absent", "creating", "createfail", "destroy"}
  /\ StateLockFree
  /\ StopEnter(t)
  /\ UNCHANGED <<restartvars, linkvars, attachvars, iocvars>>

-----------------------------------------------------------------------------
(* sfxge_restart_dispatch: the counters and s_hw_err, then the atomic      *)
(* increment, then the dispatch, each a step of its own because most       *)
(* callers hold no lock.                                                   *)

CountRestart(hw) ==
  IF hw = "HW_OK"
  THEN /\ s_num_restarts < MaxRestarts
       /\ s_num_restarts' = s_num_restarts + 1
       /\ UNCHANGED <<s_num_restarts_hw_err, s_hw_err>>
  ELSE /\ s_num_restarts_hw_err < MaxHwErrs
       /\ s_num_restarts_hw_err' = s_num_restarts_hw_err + 1
       /\ s_hw_err' = hw
       /\ UNCHANGED s_num_restarts

Report(r, hw) ==
  /\ rpc[r] = "idle"
  /\ rpc' = [rpc EXCEPT ![r] = "inc"]
  /\ CountRestart(hw)
  /\ UNCHANGED <<lockvars, wpc, queued, s_nested_restarts, intime, linkvars,
                 attachvars, iocvars>>

(* MCDI exceptions and timeouts, unknown and out-of-order events: reported *)
(* by any thread that talks to the controller, with DDI_SLEEP.             *)
ReportHwErr(r) ==
  /\ r # Intr /\ McdiStep \in created
  /\ Report(r, "HW_ERR")

(* sfxge_intr_fatal, while interrupts (step 5) are enabled.                *)
IntrFatal == 5 \in up /\ Report(Intr, "HW_ERR")

(* MAC_PROP_MTU set through GLD.                                           *)
MtuChange(r) ==
  /\ r # Intr /\ apc = "attached" /\ s_state # "INITIALIZED"
  /\ Report(r, "HW_OK")

(* A report counted here, while _sfxge_restart is past its own             *)
(* efx_nic_reset and has not yet zeroed s_nested_restarts, is lost.        *)
LateReport == \/ wpc = "starting" /\ (1 \in up \/ pc = "return")
              \/ wpc = "swap"

(* The mutations of the test: forget that a restart is under way; compare  *)
(* the count with zero.                                                    *)
InProgressMut(n) == n > MaxRestarts + MaxHwErrs
InProgressOff(n) == n > 0
InProgress(n)    == n > 1

IncNested(r) ==
  /\ rpc[r] = "inc"
  /\ s_nested_restarts' = s_nested_restarts + 1
  /\ rpc' = [rpc EXCEPT ![r] = IF InProgress(s_nested_restarts') THEN "idle"
                                ELSE "queue"]
  /\ intime' = (intime \/ ~LateReport)
  /\ UNCHANGED <<lockvars, wpc, queued, s_num_restarts, s_num_restarts_hw_err,
                 s_hw_err, linkvars, attachvars, iocvars>>

(* ddi_taskq_dispatch.  Only the DDI_NOSLEEP one of sfxge_intr_fatal can   *)
(* fail, after the increment.                                              *)
Enqueue(r) ==
  /\ rpc[r] = "queue"
  /\ rpc' = [rpc EXCEPT ![r] = "idle"]
  /\ \/ queued' = queued + 1
     \/ r = Intr /\ NoSleepMayFail /\ UNCHANGED queued
  /\ UNCHANGED <<lockvars, wpc, s_nested_restarts, s_num_restarts,
                 s_num_restarts_hw_err, s_hw_err, intime, linkvars,
                 attachvars, iocvars>>

(* SFXGE_NIC_RESET_IOC and MC_CMD_REBOOT through the MCDI ioctls: the      *)
(* dispatch is under s_state_lock, which the restart task needs, so it is  *)
(* one step; ddi_taskq_wait comes after the release.  Nothing is promised  *)
(* when the NIC is not STARTED: the task then does nothing.                *)
IoctlReset ==
  /\ apc = "attached" /\ s_state # "INITIALIZED" /\ ~iocwait
  /\ StateLockFree
  /\ CountRestart("HW_OK")
  /\ s_nested_restarts' = s_nested_restarts + 1
  /\ queued' = IF InProgress(s_nested_restarts') THEN queued ELSE queued + 1
  /\ iocwait' = TRUE
  /\ iocreset' = (s_state # "STARTED")
  /\ intime' = TRUE
  /\ UNCHANGED <<lockvars, wpc, rpc, linkvars, attachvars>>

IoctlDone ==
  /\ iocwait /\ TaskqIdle
  /\ iocwait' = FALSE
  /\ UNCHANGED <<lockvars, restartvars, linkvars, attachvars, iocreset>>

-----------------------------------------------------------------------------
(* _sfxge_restart on the task queue thread.                                *)

OnlyWorker == UNCHANGED <<s_num_restarts, s_num_restarts_hw_err, rpc, lpc,
                          attachvars, iocvars>>

TaskBegin ==
  /\ wpc = "idle" /\ queued > 0
  /\ wpc' = "lock" /\ queued' = queued - 1
  /\ OnlyWorker
  /\ UNCHANGED <<lockvars, s_nested_restarts, s_hw_err, intime, linkvars>>

(* mutex_enter; nothing to do unless STARTED.                              *)
RestartLock ==
  /\ wpc = "lock" /\ StateLockFree
  /\ owner' = Taskq
  /\ wpc' = IF s_state = "STARTED" THEN "entered" ELSE "swap"
  /\ OnlyWorker
  /\ UNCHANGED <<s_state, pc, idx, up, queued, s_nested_restarts, s_hw_err,
                 intime, linkvars>>

(* Tell the OS that the link is down: an assignment made without sm_lock,  *)
(* then sfxge_gld_link_update, which reads sm_link_mode again.             *)
RestartLinkDown ==
  /\ wpc = "entered"
  /\ IF s_hw_err = "HW_ERR" /\ ActionOnHwErr # "INVISIBLE"
     THEN sm_link_mode' = "DOWN" /\ wpc' = "tell"
     ELSE sm_link_mode' = sm_link_mode /\ wpc' = "stop"
  /\ OnlyWorker
  /\ UNCHANGED <<lockvars, queued, s_nested_restarts, s_hw_err, intime,
                 os_link>>

RestartLinkTell ==
  /\ wpc = "tell"
  /\ os_link' = sm_link_mode /\ wpc' = "stop"
  /\ OnlyWorker
  /\ UNCHANGED <<lockvars, queued, s_nested_restarts, s_hw_err, intime,
                 sm_link_mode>>

RestartStop ==
  /\ wpc = "stop" /\ wpc' = "stopping"
  /\ StopEnter(Taskq)
  /\ OnlyWorker
  /\ UNCHANGED <<queued, s_nested_restarts, s_hw_err, intime, linkvars>>

(* The policy test reads s_hw_err; the assignment that clears it is a      *)
(* separate statement, and reports of errors take no lock.                 *)
RestartPolicy ==
  /\ wpc = "stopping" /\ pc = "return"
  /\ pc' = "none"
  /\ wpc' = IF s_hw_err = "HW_ERR" /\ ActionOnHwErr = "LEAVE_DEAD"
            THEN "swap" ELSE "clear"
  /\ OnlyWorker
  /\ UNCHANGED <<s_state, owner, idx, up, queued, s_nested_restarts, s_hw_err,
                 intime, linkvars>>

RestartClear ==
  /\ wpc = "clear" /\ wpc' = "starting"
  /\ s_hw_err' = "HW_OK"
  /\ StartEnter(Taskq)
  /\ OnlyWorker
  /\ UNCHANGED <<queued, s_nested_restarts, intime, linkvars>>

(* The start succeeded, or failed and was unwound: both reach the swap.    *)
RestartStarted ==
  /\ wpc = "starting" /\ pc = "return"
  /\ pc' = "none" /\ wpc' = "swap"
  /\ OnlyWorker
  /\ UNCHANGED <<s_state, owner, idx, up, queued, s_nested_restarts, s_hw_err,
                 intime, linkvars>>

(* The mutation forgets the swap of the failure path.                      *)
RestartSwapMut ==
  /\ wpc = "swap" /\ wpc' = "exit"
  /\ s_nested_restarts' = IF s_state = "STARTED" THEN 0 ELSE s_nested_restarts
  /\ OnlyWorker
  /\ UNCHANGED <<lockvars, queued, s_hw_err, intime, linkvars>>

RestartSwap ==
  /\ wpc = "swap" /\ wpc' = "exit"
  /\ s_nested_restarts' = 0
  /\ OnlyWorker
  /\ UNCHANGED <<lockvars, queued, s_hw_err, intime, linkvars>>

RestartExit ==
  /\ wpc = "exit" /\ wpc' = "idle"
  /\ owner' = NoThread
  /\ OnlyWorker
  /\ UNCHANGED <<s_state, pc, idx, up, queued, s_nested_restarts, s_hw_err,
                 intime, linkvars>>

-----------------------------------------------------------------------------
(* sfxge_mac_link_update_locked, from the link poll or a link event, under *)
(* sm_lock, which _sfxge_restart does not take: sm_link_mode is read again *)
(* by sfxge_gld_link_update before the value reaches the OS.               *)
LinkUpdate(mode) ==
  /\ lpc = "idle" /\ Mac \in up /\ mode # sm_link_mode
  /\ sm_link_mode' = mode /\ lpc' = "read"
  /\ UNCHANGED <<lockvars, restartvars, os_link, attachvars, iocvars>>

LinkRead ==
  /\ lpc = "read" /\ lpc' = sm_link_mode
  /\ UNCHANGED <<lockvars, restartvars, sm_link_mode, os_link, attachvars,
                 iocvars>>

LinkTell ==
  /\ lpc \notin {"idle", "read"} /\ os_link' = lpc /\ lpc' = "idle"
  /\ UNCHANGED <<lockvars, restartvars, sm_link_mode, attachvars, iocvars>>

-----------------------------------------------------------------------------
(* sfxge_attach: sfxge_create, the kstats, sfxge_register.                 *)

OnlyAttach == UNCHANGED <<owner, pc, idx, up, linkvars, iocvars>>

(* ddi_soft_state_zalloc.                                                  *)
Attach ==
  /\ apc = "absent" /\ ~iocwait
  /\ apc' = "creating" /\ aidx' = 1
  /\ s_nested_restarts' = 0 /\ s_num_restarts' = 0
  /\ s_num_restarts_hw_err' = 0 /\ s_hw_err' = "HW_OK"
  /\ intime' = FALSE
  /\ sm_link_mode' = "UNKNOWN" /\ os_link' = "UNKNOWN"
  /\ UNCHANGED <<lockvars, wpc, queued, rpc, lpc, created, kstats, iocvars>>

(* Until the instance is registered and once it is being destroyed, only   *)
(* the attaching or detaching thread talks to the controller: it is done   *)
(* reporting when it makes its next call.                                  *)
NotReporting == \A r \in Reporters : rpc[r] = "idle"

CreateStepOk ==
  /\ apc = "creating" /\ aidx <= NCreate /\ NotReporting
  /\ created' = created \cup {aidx} /\ aidx' = aidx + 1
  /\ OnlyAttach /\ UNCHANGED <<s_state, restartvars, apc, kstats>>

CreateStepFail ==
  /\ apc = "creating" /\ aidx <= NCreate /\ NotReporting
  /\ apc' = "createfail" /\ aidx' = aidx - 1
  /\ OnlyAttach /\ UNCHANGED <<s_state, restartvars, created, kstats>>

(* The fail labels of sfxge_create and the calls of sfxge_destroy undo the *)
(* steps one by one; ddi_taskq_destroy waits for the queued tasks.         *)
UndoCreateStep(k) == created \ {k}

UndoCreate ==
  /\ apc \in {"createfail", "destroy"} /\ aidx >= 1
  /\ aidx = TaskqStep => TaskqIdle
  /\ NotReporting
  /\ created' = UndoCreateStep(aidx) /\ aidx' = aidx - 1
  /\ OnlyAttach /\ UNCHANGED <<s_state, restartvars, apc, kstats>>

(* ddi_soft_state_free.                                                    *)
Freed ==
  /\ apc \in {"createfail", "destroy"} /\ aidx = 0
  /\ apc' = "absent"
  /\ OnlyAttach /\ UNCHANGED <<s_state, restartvars, aidx, created, kstats>>

CreateDone ==
  /\ apc = "creating" /\ aidx = NCreate + 1 /\ NotReporting
  /\ s_state' = "INITIALIZED" /\ apc' = "kstats" /\ aidx' = 0
  /\ OnlyAttach /\ UNCHANGED <<restartvars, created, kstats>>

(* sfxge_cfg_kstat_init and sfxge_vpd_kstat_init; VPD may be unsupported.  *)
KstatInit ==
  /\ apc = "kstats" /\ NotReporting
  /\ \/ kstats' \in {{"cfg", "vpd"}, {"cfg"}} /\ apc' = "register"
     \/ kstats' \in {{}, {"cfg"}} /\ apc' = "afail"
  /\ OnlyAttach /\ UNCHANGED <<s_state, restartvars, aidx, created>>

Register ==
  /\ apc = "register" /\ NotReporting
  /\ \/ s_state' = "REGISTERED" /\ apc' = "attached"
     \/ s_state' = s_state /\ apc' = "afail"
  /\ OnlyAttach /\ UNCHANGED <<restartvars, aidx, created, kstats>>

(* No packet was ever received, so this sfxge_destroy cannot be refused.   *)
AttachFail ==
  /\ apc = "afail"
  /\ kstats' = {} /\ apc' = "destroy" /\ aidx' = NCreate
  /\ s_state' = "UNINITIALIZED"
  /\ OnlyAttach /\ UNCHANGED <<restartvars, created>>

(* sfxge_detach.  ddi_taskq_wait, then stop under the lock if STARTED.     *)
Detach ==
  /\ apc = "attached" /\ ~iocwait
  /\ apc' = "dwait"
  /\ OnlyAttach /\ UNCHANGED <<s_state, restartvars, aidx, created, kstats>>

DetachLock ==
  /\ apc = "dwait" /\ TaskqIdle
  /\ apc' = "dlock"
  /\ OnlyAttach /\ UNCHANGED <<s_state, restartvars, aidx, created, kstats>>

(* The mutation goes on without stopping a running NIC.                    *)
DetachStopMut ==
  /\ apc = "dlock" /\ StateLockFree
  /\ apc' = "dcheck" /\ UNCHANGED lockvars
  /\ UNCHANGED <<restartvars, linkvars, aidx, created, kstats, iocvars>>

DetachStop ==
  /\ apc = "dlock" /\ StateLockFree
  /\ IF s_state = "STARTED"
     THEN StopEnter(Ddi) /\ apc' = "dstop"
     ELSE apc' = "dcheck" /\ UNCHANGED lockvars
  /\ UNCHANGED <<restartvars, linkvars, aidx, created, kstats, iocvars>>

(* s_state is read without the lock.  sfxge_unregister waits for the task  *)
(* queue again; sfxge_gld_unregister may refuse.                           *)
DetachCheck ==
  /\ apc = "dcheck"
  /\ apc' = IF s_state = "REGISTERED" THEN "unregister" ELSE "dkstats"
  /\ OnlyAttach /\ UNCHANGED <<s_state, restartvars, aidx, created, kstats>>

Unregister ==
  /\ apc = "unregister" /\ TaskqIdle
  /\ \/ s_state' = "INITIALIZED" /\ apc' = "dkstats"
     \/ s_state' = s_state /\ apc' = "attached"
  /\ OnlyAttach /\ UNCHANGED <<restartvars, aidx, created, kstats>>

KstatFini ==
  /\ apc = "dkstats"
  /\ kstats' = {} /\ apc' = "dloans"
  /\ OnlyAttach /\ UNCHANGED <<s_state, restartvars, aidx, created>>

(* sfxge_destroy refuses while RX packets are on loan to the stack; the    *)
(* instance then stays INITIALIZED until another detach.                   *)
Destroy ==
  /\ apc = "dloans"
  /\ \/ apc' = "attached" /\ UNCHANGED <<s_state, aidx>>
     \/ apc' = "destroy" /\ aidx' = NCreate /\ s_state' = "UNINITIALIZED"
  /\ OnlyAttach /\ UNCHANGED <<restartvars, created, kstats>>

-----------------------------------------------------------------------------
LockHolder ==
  StartStepOk \/ StartDone \/ StartStepFail \/ UnwindStep \/ StopStep
  \/ StopDone \/ CallerReturn

Worker ==
  TaskBegin \/ RestartLinkDown \/ RestartLinkTell \/ RestartStop
  \/ RestartPolicy \/ RestartClear \/ RestartStarted \/ RestartSwap
  \/ RestartExit

Reports == IntrFatal \/ IoctlReset
           \/ \E r \in Reporters : ReportHwErr(r) \/ MtuChange(r)

Dispatch == \E r \in Reporters : IncNested(r) \/ Enqueue(r)

AttachDetach ==
  \/ Attach \/ CreateStepOk \/ CreateStepFail \/ UndoCreate \/ Freed
  \/ CreateDone \/ KstatInit \/ Register \/ AttachFail \/ Detach \/ DetachLock
  \/ DetachStop \/ DetachCheck \/ Unregister \/ KstatFini \/ Destroy

Next ==
  \/ LockHolder \/ Worker \/ RestartLock \/ Reports \/ Dispatch \/ IoctlDone
  \/ AttachDetach
  \/ \E t \in Callers : SfxgeStart(t) \/ SfxgeStop(t)
  \/ \E mode \in {"UP", "DOWN"} : LinkUpdate(mode)
  \/ LinkRead \/ LinkTell

Spec == Init /\ [][Next]_vars

(* Threads run; a Solaris mutex queues its waiters on a turnstile, so a    *)
(* thread blocked on s_state_lock or sm_lock is not overtaken for ever.    *)
(* Callers, attach and the reports of errors are the environment: no       *)
(* fairness.                                                               *)
DetachThread ==
  DetachLock \/ DetachStop \/ DetachCheck \/ Unregister \/ KstatFini \/ Destroy
  \/ UndoCreate \/ Freed

Fairness ==
  /\ SF_vars(LockHolder) /\ SF_vars(Worker \/ RestartLock)
  /\ SF_vars(DetachThread)
  /\ WF_vars(IoctlDone) /\ WF_vars(LinkRead \/ LinkTell)
  /\ \A r \in Reporters : WF_vars(IncNested(r) \/ Enqueue(r))

FairSpec == Spec /\ Fairness

-----------------------------------------------------------------------------
TypeState ==
  /\ s_state \in {"UNINITIALIZED", "INITIALIZED", "REGISTERED", "STARTING",
                  "STARTED", "STOPPING"}
  /\ owner \in Callers \cup {NoThread, Taskq, Ddi}
  /\ pc \in {"none", "start", "unwind", "stop", "return"}
  /\ idx \in 0..(NStart + 1)
  /\ up \subseteq 1..NStart
  /\ wpc \in {"idle", "lock", "entered", "tell", "stop", "stopping", "clear",
              "starting", "swap", "exit"}
  /\ queued \in Nat /\ s_nested_restarts \in Nat
  /\ s_num_restarts \in 0..MaxRestarts
  /\ s_num_restarts_hw_err \in 0..MaxHwErrs
  /\ s_hw_err \in {"HW_OK", "HW_ERR"}
  /\ rpc \in [Reporters -> {"idle", "inc", "queue"}]
  /\ sm_link_mode \in {"UNKNOWN", "UP", "DOWN"}
  /\ os_link \in {"UNKNOWN", "UP", "DOWN"}
  /\ lpc \in {"idle", "read", "UNKNOWN", "UP", "DOWN"}
  /\ apc \in {"absent", "creating", "createfail", "kstats", "register",
              "afail", "attached", "dwait", "dlock", "dstop", "dcheck",
              "unregister", "dkstats", "dloans", "destroy"}
  /\ aidx \in 0..(NCreate + 1)
  /\ created \subseteq 1..NCreate
  /\ kstats \subseteq {"cfg", "vpd"}

TypeFlags ==
  /\ intime \in BOOLEAN
  /\ iocwait \in BOOLEAN /\ iocreset \in BOOLEAN

(* Shape of the state: the positions in start, stop, create and destroy    *)
(* stay between the first and the last call of their sequences.            *)
TypeOK == TypeState /\ TypeFlags

(* A subsystem runs only while every subsystem started before it runs,     *)
(* in the middle of a start, a stop or the unwinding of a failed start     *)
(* (sfxge_stop_locked: "Stop event processing - must be after rx_stop").   *)
StartOrder == \A i, j \in 1..NStart : i < j /\ j \in up => i \in up

(* STARTED means that everything runs; REGISTERED and below that nothing   *)
(* is left running by a failed start or an interrupted restart.            *)
StateMatchesUp ==
  /\ s_state = "STARTED" => up = 1..NStart
  /\ s_state \in {"UNINITIALIZED", "INITIALIZED", "REGISTERED"} => up = {}

(* What sfxge_create built is torn down in the opposite order, and the     *)
(* restart task never runs without the task queue and s_state_lock.        *)
CreateOrder ==
  /\ \A i, j \in 1..NCreate : i < j /\ j \in created => i \in created
  /\ ~TaskqIdle => TaskqStep \in created
  /\ up # {} => created = 1..NCreate

(* A restart is coming: a thread will dispatch it, it is queued, or it     *)
(* runs and has not yet zeroed s_nested_restarts.                          *)
Running   == wpc \notin {"idle", "exit"}
Coming    == queued > 0 \/ Running \/ \E r \in Reporters : rpc[r] = "queue"

(* At most one restart is coming, whatever number of threads dispatch one  *)
(* at the same time, and none is unless s_nested_restarts says so.         *)
OneRestart ==
  /\ queued <= 1 /\ ~(queued = 1 /\ Running)
  /\ \A r \in Reporters : rpc[r] = "queue" =>
       /\ queued = 0 /\ ~Running
       /\ \A q \in Reporters \ {r} : rpc[q] # "queue"
  /\ Coming => s_nested_restarts > 0

(* sfxge_restart_dispatch, "A restart is currently in progress": a         *)
(* non-zero s_nested_restarts means that a restart is coming.              *)
RestartInProgress == s_nested_restarts > 0 => Coming

(* A restart counted while the NIC runs, for an error, a new MTU or an     *)
(* ioctl, is coming until efx_nic_reset answers it.  The exception is the  *)
(* window of LateReport: a restart that has reset the NIC and has not yet  *)
(* zeroed s_nested_restarts discards what is counted meanwhile.            *)
NoReportForgotten == s_state = "STARTED" /\ intime => Coming

(* Outside a restart's own announcement that the link is down, the OS's    *)
(* idea of the link of a running MAC is the driver's.                      *)
LinkAgrees ==
  (/\ Mac \in up /\ sm_link_mode # "UNKNOWN" /\ lpc = "idle"
   /\ wpc \in {"idle", "lock", "entered", "exit"}) => os_link = sm_link_mode

(* The assertion of sfxge_detach on the state it reads without the lock.   *)
DetachAssert == apc = "dcheck" => s_state \in {"REGISTERED", "INITIALIZED"}

(* A reset ioctl that found the NIC STARTED returns only after the NIC was *)
(* reset, even if its own restart was folded into one of another thread.   *)
(* ddi_taskq_wait cannot see a task that is not queued: the ioctl may      *)
(* return before the reset while the thread it relies on has counted the   *)
(* restart and not dispatched it, and only then.                           *)
IoctlCoversReset ==
  [][iocwait /\ ~iocwait' =>
       iocreset \/ \E r \in Reporters : rpc[r] = "queue"]_vars

(* No deadlock between the lock and the task queue: a reset ioctl returns, *)
(* and a detach that began completes or is refused.                        *)
WaitersReturn ==
  /\ iocwait ~> ~iocwait
  /\ apc = "dwait" ~> apc \in {"attached", "absent"}
=============================================================================
