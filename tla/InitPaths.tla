----------------------------- MODULE InitPaths ------------------------------
(***************************************************************************)
(* The driver is loaded, attached, started, restarted, stopped, detached   *)
(* and unloaded, and any of the steps by which it does so may fail: no     *)
(* memory, no handle, a request the firmware refuses.  While it is started *)
(* interrupts are handled and the link is polled.  The steps are those of  *)
(* InitNic, InitDriver, InitQueues, InitAccess and InitEvents, which Code  *)
(* collects (MCInitPaths); this module executes them, one a transition,    *)
(* and keeps what is held.                                                 *)
(*                                                                         *)
(* A frame is a function being executed: its name, its next step, the      *)
(* number of queues a loop of it has done, the object it is called for and *)
(* whether it has failed.                                                  *)
(***************************************************************************)
EXTENDS InitEvents

CONSTANTS
  Code,         \* The functions by name: their steps and labels.
  Queue,        \* The queues, in order of their index.
  Optional,     \* What the driver can do without, and the host may not give.
  MaxLacking    \* Bound: how many of them are missing.

VARIABLES
  stack,        \* The frames, the innermost first.
  held,         \* The resources that are held.
  rest,         \* What was held when a level was first reached.
  lacking       \* The members of Optional this host does not have.

vars == <<stack, held, rest, lacking>>

(* The tables of operations (en_enop and the like) of each family of chips. *)
Impl(name) ==
  LET ops == IF <<"ef10">> \in held THEN Ef10Ops @@ Ef10Store @@ Ef10Vpd
             ELSE SienaOps @@ SienaStore @@ SienaVpd
  IN IF name \in DOMAIN ops THEN ops[name] ELSE name

(* The resources an object has one of; there is one of any other. *)
PerObject ==
  {"esm_dma_handle", "esm_acc_handle", "esm_bound", "partn_update", "ss_id", "ss_count", "buf_tbl",
   "intr_handler", "intr_enabled",
   "SFXGE_EVQ_INITIALIZED", "SFXGE_EVQ_STARTING", "SFXGE_EVQ_STARTED", "se_lock", "se_init_kv",
   "se_ksp", "se_label_stp", "efx_evq",
   "SFXGE_RXQ_INITIALIZED", "SFXGE_RXQ_STARTED", "s_srp", "sr_srpp", "sr_flow", "srfpp_putp",
   "srfpl_lock", "sr_flush_kv", "sr_ksp", "efx_rxq",
   "srp_dma_handle", "srp_acc_handle", "srp_bound", "srp_mp",
   "SFXGE_TXQ_INITIALIZED", "SFXGE_TXQ_STARTED", "SFXGE_TXQ_FLUSH", "s_stp", "st_lock", "st_eb",
   "st_stmp", "st_stbp", "st_mp", "st_ksp", "efx_txq"}
Res(name, obj) == IF name \in PerObject THEN <<name>> \o obj ELSE <<name>>
Entered(lock, obj) == <<"entered">> \o Res(lock, obj)
HeldOfAny(name) == \E r \in held : r[1] = name

(* What the firmware gives and takes back when it is asked to; the steps   *)
(* that are a request of it, or may be; the locks that a step enters.      *)
Firmware ==
  {"drv_attach", "vis", "vadaptor", "piobufs", "rss_context", "partn_update", "mac_stats"}
Requests(s) ==
  \/ s.op = "mcdi" /\ (s.on = "" \/ <<s.on>> \in held)
  \/ s.op \in {"get", "try", "opt", "put", "drop"} /\ s.name \in Firmware
Locks(s) ==
  IF s.op = "enter" THEN {s.name} ELSE IF Requests(s) THEN {"mcdi_lock", "s_nic_lock"} ELSE {}

(***************************************************************************)
(* Frames.                                                                 *)
(***************************************************************************)
Frame(name, obj) == [fn |-> name, pc |-> 1, ix |-> 0, obj |-> obj, bad |-> FALSE]
CodeOf(f) == Code[f.fn]
StepOf(f) == CodeOf(f).code[f.pc]
Finished(f) == f.pc = (IF f.bad THEN Len(CodeOf(f).code) + 1 ELSE CodeOf(f).end)

Onward(f) == [f EXCEPT !.pc = @ + 1]
Fail(f, l) ==
  [f EXCEPT !.bad = TRUE, !.pc = IF l = End THEN Len(CodeOf(f).code) + 1 ELSE CodeOf(f).label[l]]
Done(f) == [f EXCEPT !.pc = CodeOf(f).end]
Top == Head(stack)
Becomes(f) == stack' = <<f>> \o Tail(stack)

(* The object of the call that a loop makes next. *)
Loops == {"each", "undo", "all"}
LoopOver(f) ==
  CASE StepOf(f).op = "each" -> f.ix = Len(Queue)
    [] StepOf(f).op = "undo" -> f.ix = 0
    [] StepOf(f).op = "all" -> f.ix = Len(Queue)
Object(f) ==
  LET s == StepOf(f)
  IN CASE s.op = "each" -> f.obj \o <<Queue[f.ix + 1]>>
       [] s.op = "undo" -> f.obj \o <<Queue[f.ix]>>
       [] s.op = "all" -> f.obj \o <<Queue[Len(Queue) - f.ix]>>
       [] OTHER -> IF s.on = "" THEN f.obj ELSE f.obj \o <<s.on>>

(* A frame after the call it made has succeeded, or has failed.            *)
Answered(f) ==
  CASE StepOf(f).op \in {"each", "all"} -> [f EXCEPT !.ix = @ + 1]
    [] StepOf(f).op = "undo" -> [f EXCEPT !.ix = @ - 1]
    [] StepOf(f).op = "case" -> Done(f)
    [] OTHER -> Onward(f)
Refused(f) ==
  LET s == StepOf(f)
  IN CASE s.op \in {"do", "each", "case", "may"} -> {Fail(f, s.to)}
       [] s.op = "allow" -> {Fail(f, s.to)} \cup (IF s.name \in lacking THEN {Onward(f)} ELSE {})
       [] OTHER -> {Answered(f)}

(***************************************************************************)
(* One step of the function being executed.                                *)
(***************************************************************************)
Stepping(ops) == stack # <<>> /\ ~Finished(Top) /\ StepOf(Top).op \in ops
Keep == UNCHANGED <<rest, lacking>>
It == Res(StepOf(Top).name, Top.obj)

Take ==
  /\ Stepping({"get", "try"})
  /\ held' = held \cup {It}
  /\ Becomes(Onward(Top))
  /\ Keep

TakeOptional ==
  /\ Stepping({"opt"})
  /\ held' = IF StepOf(Top).name \in lacking THEN held ELSE held \cup {It}
  /\ Becomes(Onward(Top))
  /\ Keep

Refuse ==
  /\ Stepping({"try", "opt", "ask", "mcdi"})
  /\ StepOf(Top).to # 0
  /\ Becomes(Fail(Top, StepOf(Top).to))
  /\ UNCHANGED held
  /\ Keep

GiveBack ==
  /\ Stepping({"put", "drop"})
  /\ held' = held \ {It}
  /\ Becomes(Onward(Top))
  /\ Keep

LockStep ==
  /\ Stepping({"enter", "exit"})
  /\ LET entered == Entered(StepOf(Top).name, Top.obj)
     IN held' = IF StepOf(Top).op = "enter" THEN held \cup {entered} ELSE held \ {entered}
  /\ Becomes(Onward(Top))
  /\ Keep

ChangeState ==
  /\ Stepping({"move", "pass"})
  /\ held' = IF StepOf(Top).op = "pass" /\ It \notin held THEN held
             ELSE (held \ {It}) \cup {Res(StepOf(Top).on, Top.obj)}
  /\ Becomes(Onward(Top))
  /\ Keep

Test ==
  /\ Stepping({"ask", "mcdi", "need", "holds", "lacks", "lacksany", "unless", "if", "doneunless",
               "doneif"})
  /\ LET s == StepOf(Top)
         has == It \in held
     IN Becomes(CASE s.op = "unless" /\ ~has -> Fail(Top, s.to)
                  [] s.op = "if" /\ has -> Fail(Top, s.to)
                  [] s.op = "doneunless" /\ ~has -> Done(Top)
                  [] s.op = "doneif" /\ has -> Done(Top)
                  [] OTHER -> Onward(Top))
  /\ UNCHANGED held
  /\ Keep

Skip ==
  /\ Stepping({"case", "may"})
  /\ Becomes(Onward(Top))
  /\ UNCHANGED held
  /\ Keep

Call ==
  /\ Stepping({"do", "run", "allow", "case", "may"} \cup Loops)
  /\ stack' = IF StepOf(Top).op \in Loops /\ LoopOver(Top)
              THEN <<[Onward(Top) EXCEPT !.ix = IF StepOf(Top).op = "all" THEN 0 ELSE @]>> \o Tail(stack)
              ELSE <<Frame(Impl(StepOf(Top).name), Object(Top))>> \o stack
  /\ UNCHANGED held
  /\ Keep

Return ==
  /\ Len(stack) > 1
  /\ Finished(Top)
  /\ LET caller == stack[2]
     IN \E f \in IF Top.bad THEN Refused(caller) ELSE {Answered(caller)} :
          stack' = <<f>> \o Tail(Tail(stack))
  /\ UNCHANGED held
  /\ Keep

(***************************************************************************)
(* Between the operations the driver is at a level: not loaded, loaded,    *)
(* attached, started, or unregistered from the framework but kept by a     *)
(* packet that the stack holds.  What it leaves behind when it is not      *)
(* attached is lost: nobody has a reference to it.                         *)
(***************************************************************************)
Detached == {"unloaded", "loaded"}
Loaned == {<<"loaned">>}
Levels == {"unloaded", "loaded", "attached", "started", "kept"}
Level ==
  CASE <<"SFXGE_STARTED">> \in held -> "started"
    [] <<"SFXGE_REGISTERED">> \in held -> "attached"
    [] <<"SFXGE_INITIALIZED">> \in held -> "kept"
    [] <<"modlinkage">> \in held -> "loaded"
    [] OTHER -> "unloaded"

Accesses == {"sfxge_ioctl", "kstat_read", "sfxge_rx_scale_update"}
Events == {"sfxge_intr_line", "sfxge_mac_poll"}
Operations ==
  [unloaded |-> {"_init"},
   loaded |-> {"sfxge_attach", "_fini"},
   attached |-> {"sfxge_start", "sfxge_detach"} \cup Accesses,
   started |-> {"sfxge_stop", "_sfxge_restart", "sfxge_detach"} \cup Accesses \cup Events,
   kept |-> {"sfxge_detach"}]

Begin ==
  /\ stack = <<>>
  /\ \E op \in Operations[Level] : stack' = <<Frame(op, <<>>)>>
  /\ held' = IF Level \in Detached THEN rest[Level] ELSE held
  /\ rest' = IF Level \in Detached
             THEN [l \in Levels |-> IF l \in Detached THEN rest[l] ELSE {}] ELSE rest
  /\ UNCHANGED lacking

Finish ==
  /\ Len(stack) = 1
  /\ Finished(Top)
  /\ stack' = <<>>
  /\ rest' = IF rest[Level] = {} THEN [rest EXCEPT ![Level] = held \ Loaned] ELSE rest
  /\ UNCHANGED <<held, lacking>>

(* The stack holds a packet it was handed; it is done with it. *)
Loan ==
  /\ stack = <<>>
  /\ Level = "started"
  /\ <<"loaned">> \notin held
  /\ held' = held \cup {<<"loaned">>}
  /\ UNCHANGED <<stack, rest, lacking>>

GiveUp ==
  /\ <<"loaned">> \in held
  /\ held' = held \ {<<"loaned">>}
  /\ UNCHANGED <<stack, rest, lacking>>

Init ==
  /\ stack = <<>>
  /\ held \in {{<<"siena">>}, {<<"ef10">>}}
  /\ rest = [l \in Levels |-> IF l = "unloaded" THEN held ELSE {}]
  /\ lacking \in {S \in SUBSET Optional : Cardinality(S) <= MaxLacking}

Next ==
  \/ Take \/ TakeOptional \/ Refuse \/ GiveBack \/ LockStep \/ ChangeState \/ Test
  \/ Skip \/ Call \/ Return \/ Begin \/ Finish \/ Loan \/ GiveUp

Spec == Init /\ [][Next]_vars

(***************************************************************************)
(* Properties.                                                             *)
(***************************************************************************)

(* What the functions do with what they do not hold, and with what they    *)
(* hold already: the exit of a lock that is not entered                    *)
(* (src/sfxge_intr.c:699), the caches destroyed before they are made       *)
(* (src/sfxge_ev.c, fail1 of sfxge_ev_init), the statistics deleted that   *)
(* were not created (src/sfxge_tx.c:1141), and the cache of the hash       *)
(* overwritten by each start (src/sfxge_hash.c:158), and the update begun  *)
(* of a partition whose last one was left open (see KnownLeft).            *)
KnownUnbalanced ==
  {<<"sfxge_intr_init", "sfxge_global_lock">>, <<"sfxge_ev_init", "s_eqc">>,
   <<"sfxge_tx_kstat_fini", "st_ksp">>, <<"sfxge_toeplitz_hash_init", "s_toeplitz_cache">>,
   <<"efx_mcdi_nvram_update_start", "partn_update">>}

(* Wherever a step fails, and whatever had been done before it, no         *)
(* function takes what is already taken, gives back or uses what is not    *)
(* held, destroys a lock that is entered, enters a lock that does not      *)
(* exist or that it has entered, or leaves one it has not entered: the     *)
(* labels undo what was done, each thing once.  About every goto fail of   *)
(* src/sfxge*.c and src/common/*.c.                                        *)
Balanced ==
  stack # <<>> /\ ~Finished(Top) =>
    LET s == StepOf(Top)
        entered == Entered(s.name, Top.obj)
    IN \/ <<Top.fn, s.name>> \in KnownUnbalanced
       \/ /\ s.op \in {"get", "try"} => It \notin held
          /\ s.op \in {"put", "move"} => It \in held
          /\ s.op = "put" => entered \notin held
          /\ s.op = "enter" => entered \notin held /\ It \in held \cup {<<"cpu_lock">>}
          /\ Requests(s) => \A lock \in Locks(s) :
               <<lock>> \in held /\ Entered(lock, <<>>) \notin held
          /\ s.op = "exit" => entered \in held

(* The assertions an ioctl can make false: the LED and the loopback are    *)
(* set, and the buffer table is tested, of a stopped controller.           *)
KnownFalse ==
  {<<"sfxge_phy_led_mode_set", "SFXGE_MAC_STARTED">>, <<"efx_phy_led_set", "EFX_MOD_PORT">>,
   <<"sfxge_mac_loopback_set", "SFXGE_MAC_STARTED">>, <<"efx_port_loopback_set", "EFX_MOD_PORT">>,
   <<"efx_sram_test", "EFX_MOD_NIC">>}

(* The assertions of these functions about the modules of the NIC, the     *)
(* states of the driver's parts, the queues that are left and the locks    *)
(* that are held are true on every path, of the failures too: the parts    *)
(* are taken down before those they stand on.                              *)
Asserted ==
  stack # <<>> /\ ~Finished(Top) =>
    LET s == StepOf(Top)
    IN /\ s.op = "need" => It \in held \/ <<Top.fn, s.name>> \in KnownFalse
       /\ s.op = "holds" => Entered(s.name, Top.obj) \in held
       /\ s.op = "lacks" => It \notin held
       /\ s.op = "lacksany" => ~HeldOfAny(s.name)

(* What is left behind: by a failed _init, its lock and table              *)
(* (src/sfxge.c:1353); by an attach that fails or a detach, an attachment  *)
(* to the firmware, the interrupt's DMA buffer, a condition variable, the  *)
(* table of processors, a queue and its packets, the state of the sensors; *)
(* by a start that fails or a stop, the cache of the hash, the bus's       *)
(* capabilities, and the interfaces that the firmware was twice asked to   *)
(* take back and refused; by a version that cannot be set, the update of   *)
(* the dynamic configuration (src/common/siena_nvram.c:703).               *)
LeftOpen == IF <<"siena">> \in held THEN {<<"partn_update", "dcfg">>} ELSE {}
KnownLeft ==
  LET stopped == {<<"s_toeplitz_cache">>, <<"si_cap">>, <<"vis">>} \cup LeftOpen
  IN [unloaded |-> {<<"sfxge_cpu">>, <<"sfxge_global_lock">>},
      loaded |->
        {<<"drv_attach">>, <<"sm_link_poll_kv">>, <<"srs_cpu">>, <<"SFXGE_MON_INITIALIZED">>,
         <<"si_cap">>, <<"vis">>} \cup LeftOpen
        \cup ({"esm_dma_handle", "esm_acc_handle", "esm_bound"} \X {"intr"})
        \cup ({"s_srp", "srp_dma_handle", "srp_acc_handle", "srp_bound", "srp_mp"} \X ToSet(Queue)),
      attached |-> stopped, started |-> LeftOpen, kept |-> stopped]

(* An operation that fails leaves what it found, one that is undone leaves *)
(* what there was before it, and a restart leaves a started driver as it   *)
(* was: nothing more but what is listed, nothing less, and no lock         *)
(* entered.  About sfxge_attach and sfxge_detach, sfxge_start, sfxge_stop  *)
(* and _sfxge_restart (src/sfxge.c).                                       *)
Undone ==
  stack = <<>> /\ rest[Level] # {} =>
    /\ held \ (rest[Level] \cup Loaned) \subseteq KnownLeft[Level]
    /\ rest[Level] \ LeftOpen \subseteq held

(* Two locks are entered in the same order wherever they are entered       *)
(* together: that of the lock of the whole driver, then an event queue's,  *)
(* under which its handlers enter those of the flush, of the transmit      *)
(* queue (sfxge_tx_qunblock), of the MAC (sfxge_ev_link_change,            *)
(* src/sfxge_ev.c:631) and of the packets that come back, and under all of *)
(* these the firmware may be asked (sfxge_mcdi_acquire, src/sfxge_mcdi.c). *)
(* The flush is counted down under the event queue's lock alone            *)
(* (sfxge_tx_qflush_done, src/sfxge_tx.c:2451), for the lock of the        *)
(* transmit queue is entered under the flush's (sfxge_tx_qflush).          *)
LockOrder ==
  <<"s_state_lock", "se_lock", "s_tx_flush_lock", "st_lock", "mac_lock", "srs_lock", "mon_lock",
    "sfxge_global_lock", "ss_lock", "srfpl_lock", "mcdi_lock", "s_nic_lock", "cpu_lock">>
Rank(lock) == CHOOSE i \in 1..Len(LockOrder) : LockOrder[i] = lock
LocksOrdered ==
  stack # <<>> /\ ~Finished(Top) =>
    \A lock \in Locks(StepOf(Top)), r \in held : r[1] = "entered" => Rank(r[2]) < Rank(lock)
=============================================================================
