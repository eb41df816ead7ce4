-------------------------------- MODULE Mcdi --------------------------------
(***************************************************************************)
(* Requests to the management controller (MC): sfxge_mcdi.c, which         *)
(* serialises the callers and polls with a watchdog, over efx_mcdi.c, which *)
(* keeps the one pending request, its sequence number and the epoch flag.  *)
(* The driver never asks for event completion, so that requests complete   *)
(* only by polling; the event queue still delivers REBOOT and BADASSERT    *)
(* events to efx_mcdi_ev_death, in parallel with everything.               *)
(*                                                                         *)
(* Requests are numbered by the value of emi_seq that made them; headers   *)
(* carry it modulo SeqMod (MCDI_HEADER_SEQ is 4 bits wide).  The MC, which *)
(* is not in the repository, is modelled by what the code assumes of it:   *)
(* one shared message buffer, answers in the order of the requests, late   *)
(* or never, and a reboot at any time.                                     *)
(***************************************************************************)
EXTENDS Integers, Sequences, FiniteSets

CONSTANTS
  Threads,     \* callers of sfxge_mcdi_execute
  SeqMod,      \* 2 ^ the width of MCDI_HEADER_SEQ
  MaxLate,     \* how many requests the MC may still hold unanswered
  MaxSeq,      \* bound on emi_seq
  MaxReboots   \* bound on MC reboots and assertion failures

NoReq == "noreq"
Cmds  == {"CMD", "REBOOT"}

ASSUME McdiAssumption ==
  /\ NoReq \notin Threads /\ IsFiniteSet(Threads)
  /\ SeqMod \in Nat \ {0} /\ MaxLate \in 1..SeqMod
  /\ MaxSeq \in Nat /\ MaxReboots \in Nat

VARIABLES
  sm_state,         \* smp->sm_state
  emi_pending_req,  \* the thread whose request is pending, or NoReq
  emi_seq, emi_new_epoch,
  tpc,              \* progress of each caller
  req,              \* each caller's request: number, command, emr_rc
  buf,              \* the message buffer shared with the MC
  mc_queue,         \* requests the MC has read and not answered
  mc_stale,         \* rebooted, and no request with NOT_EPOCH=0 seen since
  mc_events,        \* REBOOT and BADASSERT events not yet delivered
  reboots,          \* reboots so far
  dpc, dreq,        \* progress of efx_mcdi_ev_death and the request it saw
  dcause,           \* its rc
  report            \* history: cause last passed to sfxge_restart_dispatch

smvars == <<sm_state, emi_pending_req, emi_seq, emi_new_epoch>>
thvars == <<tpc, req>>
mcvars == <<mc_queue, mc_stale, mc_events, reboots>>
evvars == <<dpc, dreq, dcause>>
vars   == <<smvars, thvars, buf, mcvars, evvars, report>>

NoFrame == [id |-> 0, cmd |-> "CMD", rc |-> "OK"]

Init ==
  /\ sm_state = "INITIALIZED" /\ emi_pending_req = NoReq /\ emi_seq = 0
  /\ emi_new_epoch \in BOOLEAN   \* TRUE after ef10_mcdi_init, FALSE on Siena
  /\ tpc = [t \in Threads |-> "idle"]
  /\ req = [t \in Threads |-> NoFrame]
  /\ buf = [resp |-> FALSE, id |-> 0, cmd |-> "CMD", rc |-> "OK"]
  /\ mc_queue = <<>> /\ mc_stale = FALSE /\ mc_events = {} /\ reboots = 0
  /\ dpc = "idle" /\ dreq = NoReq /\ dcause = "EIO"
  /\ report = "none"

Goto(t, l) == tpc' = [tpc EXCEPT ![t] = l]

-----------------------------------------------------------------------------
(* sfxge_mcdi_execute.                                                     *)

Execute(t, cmd) ==
  /\ emi_seq + Cardinality({u \in Threads : tpc[u] \in {"acquire", "start"}})
       < MaxSeq
  /\ tpc[t] = "idle" /\ Goto(t, "acquire")
  /\ req' = [req EXCEPT ![t].cmd = cmd]
  /\ UNCHANGED <<smvars, buf, mcvars, evvars, report>>

(* cv_wait_sig until the interface is free.  The mutation tests sm_state   *)
(* once, before it waits.                                                  *)
MayAcquireMut == sm_state \in {"INITIALIZED", "BUSY"}
MayAcquire    == sm_state = "INITIALIZED"

Acquire(t) ==
  /\ tpc[t] = "acquire" /\ MayAcquire
  /\ sm_state' = "BUSY" /\ Goto(t, "start")
  /\ UNCHANGED <<emi_pending_req, emi_seq, emi_new_epoch, req, buf, mcvars,
                 evvars, report>>

(* efx_mcdi_request_start, the part under en_eslp.                         *)
RequestStart(t) ==
  /\ tpc[t] = "start"
  /\ emi_pending_req' = t /\ emi_seq' = emi_seq + 1
  /\ req' = [req EXCEPT ![t].id = emi_seq]
  /\ Goto(t, "send")
  /\ UNCHANGED <<sm_state, emi_new_epoch, buf, mcvars, evvars, report>>

(* efx_mcdi_send_request: the header and the payload overwrite the buffer, *)
(* the doorbell makes the MC read them.                                    *)
LastLate(s) == IF Len(s) > MaxLate THEN Tail(s) ELSE s

SendRequest(t) ==
  /\ tpc[t] = "send" /\ Goto(t, "poll")
  /\ buf' = [resp |-> FALSE, id |-> req[t].id, cmd |-> req[t].cmd, rc |-> "OK"]
  /\ mc_queue' = LastLate(Append(mc_queue,
                   [id |-> req[t].id, cmd |-> req[t].cmd,
                    not_epoch |-> ~emi_new_epoch]))
  /\ UNCHANGED <<smvars, req, mc_stale, mc_events, reboots, evvars, report>>

(* efx_mcdi_read_response_header under en_eslp: what the response in the   *)
(* buffer means for the pending request.  The mutation: the sequence       *)
(* number is not compared.                                                 *)
HeaderRcMut(t) ==
  IF buf.rc = "REBOOTED" THEN "EIO"
  ELSE IF buf.cmd # req[t].cmd THEN "EIO" ELSE buf.rc
HeaderRc(t) ==
  IF buf.rc = "REBOOTED" THEN "EIO"
  ELSE IF \/ buf.cmd # req[t].cmd
          \/ buf.id % SeqMod # (emi_seq - 1) % SeqMod
       THEN "EIO" ELSE buf.rc

(* efx_mcdi_request_poll with a response: the request is no longer         *)
(* pending; EIO and EINTR raise an exception, success copies the payload.  *)
PollDone(t) ==
  /\ tpc[t] = "poll" /\ buf.resp
  /\ emi_pending_req' = NoReq
  /\ req' = [req EXCEPT ![t].rc = HeaderRc(t)]
  /\ Goto(t, CASE HeaderRc(t) = "OK" -> "finish"
               [] HeaderRc(t) \in {"EIO", "EINTR"} -> "raise"
               [] OTHER -> "release")
  /\ UNCHANGED <<sm_state, emi_seq, emi_new_epoch, buf, mcvars, evvars, report>>

(* efx_mcdi_request_poll without one, then the watchdog of sfxge_mcdi_poll. *)
PollNone(t) ==
  /\ tpc[t] = "poll" /\ ~buf.resp /\ Goto(t, "watchdog")
  /\ UNCHANGED <<smvars, req, buf, mcvars, evvars, report>>

NotExpired(t) ==
  /\ tpc[t] = "watchdog" /\ Goto(t, "poll")
  /\ UNCHANGED <<smvars, req, buf, mcvars, evvars, report>>

(* efx_mcdi_request_abort, even if the answer arrives at this moment.      *)
Abort(t) ==
  /\ tpc[t] = "watchdog" /\ Goto(t, "timeout")
  /\ req' = [req EXCEPT ![t].rc = "ETIMEDOUT"]
  /\ emi_pending_req' = NoReq
  /\ UNCHANGED <<sm_state, emi_seq, emi_new_epoch, buf, mcvars, evvars, report>>

(* sfxge_mcdi_timeout.                                                     *)
Timeout(t) ==
  /\ tpc[t] = "timeout" /\ Goto(t, "release")
  /\ report' = "ETIMEDOUT"
  /\ UNCHANGED <<smvars, req, buf, mcvars, evvars>>

(* efx_mcdi_finish_response, without en_eslp: reads the buffer again.      *)
Finish(t) ==
  /\ tpc[t] = "finish" /\ Goto(t, "release")
  /\ UNCHANGED <<smvars, req, buf, mcvars, evvars, report>>

(* efx_mcdi_raise_exception: the EIO of MC_CMD_REBOOT is no exception.     *)
Exceptional(cmd, rc) == ~(cmd = "REBOOT" /\ rc = "EIO")

Raise(t) ==
  /\ tpc[t] = "raise" /\ Goto(t, "release")
  /\ report' = IF Exceptional(req[t].cmd, req[t].rc) THEN req[t].rc ELSE report
  /\ UNCHANGED <<smvars, req, buf, mcvars, evvars>>

(* The request goes with the stack frame of the caller.  The mutation      *)
(* does not free the interface.                                            *)
ReleaseMut(t) ==
  /\ tpc[t] = "release" /\ Goto(t, "idle")
  /\ req' = [req EXCEPT ![t] = NoFrame]
  /\ UNCHANGED <<smvars, buf, mcvars, evvars, report>>

Release(t) ==
  /\ tpc[t] = "release" /\ Goto(t, "idle")
  /\ sm_state' = "INITIALIZED" /\ req' = [req EXCEPT ![t] = NoFrame]
  /\ UNCHANGED <<emi_pending_req, emi_seq, emi_new_epoch, buf, mcvars,
                 evvars, report>>

-----------------------------------------------------------------------------
(* efx_mcdi_new_epoch, called by sfxge_start_locked.                       *)
NewEpoch ==
  /\ ~emi_new_epoch /\ emi_new_epoch' = TRUE
  /\ UNCHANGED <<sm_state, emi_pending_req, emi_seq, thvars, buf, mcvars,
                 evvars, report>>

(* efx_mcdi_ev_death: under en_eslp it notes the pending request, which is *)
(* not event completed and stays pending.                                  *)
EvDeath(c) ==
  /\ dpc = "idle" /\ c \in mc_events
  /\ mc_events' = mc_events \ {c}
  /\ emi_new_epoch' = TRUE
  /\ dreq' = emi_pending_req /\ dcause' = c /\ dpc' = "raise"
  /\ UNCHANGED <<sm_state, emi_pending_req, emi_seq, thvars, buf, mc_queue,
                 mc_stale, reboots, report>>

(* The exception is raised after the unlock and looks at emr_cmd of that   *)
(* request, on the stack of a thread that may have returned since: then    *)
(* any command may be read there.                                          *)
DeathCmds ==
  IF dreq = NoReq THEN {"CMD"}
  ELSE IF emi_pending_req = dreq THEN {req[dreq].cmd} ELSE Cmds

EvDeathRaise ==
  /\ dpc = "raise" /\ dpc' = "idle" /\ dreq' = NoReq
  /\ \E cmd \in DeathCmds :
       report' = IF Exceptional(cmd, dcause) THEN dcause ELSE report
  /\ UNCHANGED <<smvars, thvars, buf, mcvars, dcause>>

-----------------------------------------------------------------------------
(* The MC.                                                                 *)

(* The oldest request is answered: rejected if it is stale (NOT_EPOCH=1    *)
(* after a reboot), else completed with success or an error.               *)
McAnswer ==
  /\ mc_queue # <<>>
  /\ LET r == Head(mc_queue)
         rejected == mc_stale /\ r.not_epoch IN
     /\ mc_stale' = rejected
     /\ \E rc \in IF rejected THEN {"REBOOTED"} ELSE {"OK", "ERR", "EINTR"} :
          buf' = [resp |-> TRUE, id |-> r.id, cmd |-> r.cmd, rc |-> rc]
  /\ mc_queue' = Tail(mc_queue)
  /\ UNCHANGED <<smvars, thvars, mc_events, reboots, evvars, report>>

McForget ==
  /\ mc_queue # <<>> /\ mc_queue' = Tail(mc_queue)
  /\ UNCHANGED <<smvars, thvars, buf, mc_stale, mc_events, reboots,
                 evvars, report>>

(* A reboot or an assertion failure, which may or may not reach an event   *)
(* queue.                                                                  *)
McReboot ==
  /\ reboots < MaxReboots /\ reboots' = reboots + 1
  /\ mc_queue' = <<>> /\ mc_stale' = TRUE
  /\ mc_events' \in {mc_events} \cup {mc_events \cup {c} : c \in {"EIO", "EINTR"}}
  /\ UNCHANGED <<smvars, thvars, buf, evvars, report>>

-----------------------------------------------------------------------------
Caller(t) ==
  \/ Acquire(t) \/ RequestStart(t) \/ SendRequest(t) \/ PollDone(t)
  \/ PollNone(t) \/ NotExpired(t) \/ Abort(t) \/ Timeout(t) \/ Finish(t)
  \/ Raise(t) \/ Release(t)

Next ==
  \/ \E t \in Threads : Caller(t) \/ \E cmd \in Cmds : Execute(t, cmd)
  \/ NewEpoch \/ EvDeathRaise \/ \E c \in {"EIO", "EINTR"} : EvDeath(c)
  \/ McAnswer \/ McForget \/ McReboot

Spec == Init /\ [][Next]_vars

(* A thread in the driver runs; one woken by cv_broadcast competes for     *)
(* sm_lock but is not overtaken for ever; the watchdog's ten seconds pass. *)
Fairness ==
  \A t \in Threads :
    /\ SF_vars(Acquire(t)) /\ SF_vars(Abort(t))
    /\ WF_vars(RequestStart(t) \/ SendRequest(t) \/ PollDone(t) \/ PollNone(t)
               \/ NotExpired(t) \/ Timeout(t) \/ Finish(t) \/ Raise(t)
               \/ Release(t))

FairSpec == Spec /\ Fairness

-----------------------------------------------------------------------------
Rcs == {"OK", "ERR", "EIO", "EINTR", "ETIMEDOUT"}

(* Shape of the state.                                                     *)
TypeOK ==
  /\ sm_state \in {"INITIALIZED", "BUSY"}
  /\ emi_pending_req \in Threads \cup {NoReq}
  /\ emi_seq \in 0..MaxSeq /\ emi_new_epoch \in BOOLEAN
  /\ tpc \in [Threads -> {"idle", "acquire", "start", "send", "poll",
                          "watchdog", "timeout", "finish", "raise", "release"}]
  /\ req \in [Threads -> [id : 0..MaxSeq, cmd : Cmds, rc : Rcs]]
  /\ buf \in [resp : BOOLEAN, id : 0..MaxSeq, cmd : Cmds,
              rc : {"OK", "ERR", "EINTR", "REBOOTED"}]
  /\ mc_queue \in Seq([id : 0..MaxSeq, cmd : Cmds, not_epoch : BOOLEAN])
  /\ mc_stale \in BOOLEAN /\ mc_events \subseteq {"EIO", "EINTR"}
  /\ reboots \in 0..MaxReboots
  /\ dpc \in {"idle", "raise"} /\ dreq \in Threads \cup {NoReq}
  /\ dcause \in {"EIO", "EINTR"} /\ report \in Rcs \cup {"none"}

InRequest(t) == tpc[t] \notin {"idle", "acquire"}
Pending(t)   == tpc[t] \in {"send", "poll", "watchdog"}

(* One request at a time, and emi_pending_req is the request of the thread *)
(* that waits for it: the assertions of efx_mcdi_request_start             *)
(* (emi_pending_req == NULL), efx_mcdi_request_poll (!= NULL) and of       *)
(* sfxge_mcdi_poll (the abort found a request) never fail.                 *)
OneRequest ==
  /\ TypeOK
  /\ \A t, u \in Threads : InRequest(t) /\ InRequest(u) => t = u
  /\ \A t \in Threads : Pending(t) <=> emi_pending_req = t

(* A request succeeds only with its own answer, never with the late answer *)
(* of a request that timed out, and that answer is still in the buffer     *)
(* when efx_mcdi_finish_response reads it again without the lock.          *)
OwnAnswer ==
  \A t \in Threads : tpc[t] = "finish" => buf.resp /\ buf.id = req[t].id

(* A caller of sfxge_mcdi_execute returns: by an answer or the watchdog.   *)
RequestReturns ==
  \A t \in Threads : tpc[t] = "acquire" ~> tpc[t] = "idle"

=============================================================================
