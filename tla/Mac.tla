-------------------------------- MODULE Mac --------------------------------
(***************************************************************************)
(* The MAC, the PHY and the port: what the network stack asked of the       *)
(* driver (sm), what the common code believes is configured (port), and    *)
(* what the management controller was last told (mc).  Every request takes  *)
(* sm_lock for its whole duration, so a request is one action whose MCDI    *)
(* commands may each fail; sfxge_mac_stop alone drops the lock in the       *)
(* middle.  A failing command is an outcome of its own: the operators below *)
(* map a port to the set of ports the calls can leave behind, with the      *)
(* result of the call in the field ok.                                      *)
(***************************************************************************)
EXTENDS Naturals, FiniteSets

CONSTANTS Groups,      \* multicast addresses the stack may join
          Speeds,      \* link capabilities the stack may switch on or off
          MaxFailures  \* bound: MCDI commands that fail in a behaviour

VARIABLES cfg,   \* the NIC: [ef10, an, vadaptor]
          sm,    \* sfxge_mac_t, and stopping: sfxge_mac_stop let sm_lock go
          port,  \* efx_port_t, the controller's copy and the last result
          task,  \* the poll task is queued
          dirty  \* settings the controller need not have (see Settings)

vars == <<cfg, sm, port, task, dirty>>

BIA == "bia"
Flow == {"RESPOND", "GENERATE"}
AutoFlow == {"AUTO"}
Pause == {"PAUSE", "ASYM"}
Settings == {"addr", "filter", "fcntl"}

(* Speeds and pause are different bits of the capability mask.             *)
ASSUME MacAssumption == MaxFailures \in Nat /\ Speeds \cap Pause = {}

(***************************************************************************)
(* The flow control of a set of advertised capabilities and back.           *)
(***************************************************************************)
AdvOf(fcntl) ==
  LET both == IF "RESPOND" \in fcntl THEN Pause ELSE {}
  IN  IF "GENERATE" \notin fcntl THEN both
      ELSE (both \ {"ASYM"}) \cup ({"ASYM"} \ both)

Decode(adv) ==
  LET both == IF "PAUSE" \in adv THEN Flow ELSE {}
  IN  IF "ASYM" \notin adv THEN both
      ELSE (both \ {"GENERATE"}) \cup ({"GENERATE"} \ both)

DefaultAdv == Speeds \cup {"PAUSE"}

McReset == [drain |-> TRUE, addr |-> BIA, ucaddr |-> BIA, uc |-> FALSE,
            groups |-> {}, flow |-> AutoFlow, adv |-> DefaultAdv,
            periodic |-> FALSE]

NewPort == [port |-> FALSE, drain |-> FALSE, addr |-> BIA, uc |-> FALSE,
            mulcst |-> FALSE, allmc |-> FALSE, list |-> {},
            fcntl |-> {}, auto |-> FALSE, adv |-> DefaultAdv, rxq |-> FALSE,
            mc |-> McReset, lost |-> FALSE, rebooted |-> FALSE,
            ok |-> TRUE, left |-> MaxFailures, panic |-> "none"]

(***************************************************************************)
(* One command and sequences of them.  left is the number of failures that  *)
(* may still happen.                                                        *)
(***************************************************************************)
Cmd(p, new) ==
  {[p EXCEPT !.mc = new, !.ok = TRUE]}
    \cup IF p.left > 0 THEN {[p EXCEPT !.ok = FALSE, !.left = @ - 1]} ELSE {}

Then(S, F(_)) == UNION {IF p.ok THEN F(p) ELSE {p} : p \in S}
Quietly(S) == {[p EXCEPT !.ok = TRUE] : p \in S}
OnFailure(S, Undo(_)) == {IF p.ok THEN p ELSE Undo(p) : p \in S}

(***************************************************************************)
(* emo_reconfigure.  Siena pushes everything with SET_MAC, then the         *)
(* multicast hash.  EF10 leaves the reject bits off, pushes SET_MAC, whose  *)
(* EACCES counts as success, and then the filters, whose failure it does    *)
(* not report; no filter is installed without a default receive queue.      *)
(***************************************************************************)
SetMac(p) ==
  LET base == [p.mc EXCEPT !.drain = p.drain]
      flow == IF p.auto THEN AutoFlow ELSE p.fcntl
  IN  IF cfg.ef10
      THEN IF cfg.vadaptor THEN base ELSE [base EXCEPT !.addr = p.addr]
      ELSE [base EXCEPT !.addr = p.addr, !.ucaddr = p.addr, !.uc = p.uc,
                        !.flow = flow]

(* Siena's hash is that of the list (siena_mac_multicast_list_set).        *)
GroupsOf(p) == IF p.allmc THEN Groups ELSE IF p.mulcst THEN p.list ELSE {}

FilterReconfigure(p) ==
  IF p.rxq
  THEN {[q EXCEPT !.lost = ~q.ok] :
          q \in Cmd(p, [p.mc EXCEPT !.ucaddr = p.addr, !.uc = p.uc,
                                    !.groups = GroupsOf(p)])}
  ELSE {[p EXCEPT !.mc.ucaddr = "none", !.mc.uc = FALSE, !.mc.groups = {}, !.ok = TRUE]}

SienaReconfigure(p) ==
  Then(Cmd(p, SetMac(p)), LAMBDA q : Cmd(q, [q.mc EXCEPT !.groups = GroupsOf(q)]))

Ef10Reconfigure(p) ==
  Then(Cmd(p, SetMac(p)), LAMBDA q : Quietly(FilterReconfigure(q)))

Reconfigure(p) == IF cfg.ef10 THEN Ef10Reconfigure(p) ELSE SienaReconfigure(p)

(***************************************************************************)
(* epo_reconfigure: SET_LINK, then the identification LED.                  *)
(***************************************************************************)
PhyReconfigure(p) ==
  Then(Cmd(p, [p.mc EXCEPT !.adv = p.adv]), LAMBDA q : Cmd(q, q.mc))

(***************************************************************************)
(* efx_mac_*: store, apply, and put the old value back on failure.          *)
(***************************************************************************)
PduSet(p) == IF cfg.ef10 THEN Cmd(p, p.mc) \cup Reconfigure(p) ELSE Reconfigure(p)

(* MC_CMD_VADAPTOR_SET_MAC is refused while filters are installed.         *)
AddrSet(p, addr) ==
  LET new == [p EXCEPT !.addr = addr]
      all == IF cfg.ef10 /\ cfg.vadaptor
             THEN IF p.rxq THEN {[new EXCEPT !.ok = FALSE]}
                  ELSE Cmd(new, [p.mc EXCEPT !.addr = addr])
             ELSE Reconfigure(new)
  IN  OnFailure(all, LAMBDA q : [q EXCEPT !.addr = p.addr])

FilterSet(p, uc, mulcst, allmc) ==
  OnFailure(Reconfigure([p EXCEPT !.uc = uc, !.mulcst = mulcst, !.allmc = allmc]),
            LAMBDA q : [q EXCEPT !.uc = p.uc, !.mulcst = p.mulcst, !.allmc = p.allmc])

MulticastListSet(p, list) ==
  OnFailure(Reconfigure([p EXCEPT !.list = list]),
            LAMBDA q : [q EXCEPT !.list = p.list])

FcntlSet(p, fcntl) ==
  LET new == [p EXCEPT !.fcntl = fcntl, !.auto = cfg.an,
                       !.adv = (@ \ Pause) \cup AdvOf(fcntl)]
  IN  OnFailure(Then(PhyReconfigure(new), Reconfigure),
                LAMBDA q : [q EXCEPT !.fcntl = p.fcntl, !.auto = p.auto, !.adv = p.adv])

Drain(p, on) ==
  IF p.drain = on THEN {[p EXCEPT !.ok = TRUE]} ELSE Reconfigure([p EXCEPT !.drain = on])

(* A mask that fails is taken back; should that fail too, an assertion does. *)
AdvCapSet(p, mask) ==
  LET back(q) == {[r EXCEPT !.ok = FALSE, !.panic = IF r.ok THEN @ ELSE "caps"] :
                    r \in PhyReconfigure([q EXCEPT !.adv = p.adv])}
  IN  IF p.adv = mask THEN {[p EXCEPT !.ok = TRUE]}
      ELSE UNION {IF q.ok THEN {q} ELSE back(q) :
                    q \in PhyReconfigure([p EXCEPT !.adv = mask])}

(***************************************************************************)
(* efx_port_init and efx_port_poll: the capabilities and the flow control   *)
(* are what the controller reports.                                         *)
(***************************************************************************)
LinkFlow(p) == IF p.mc.flow = AutoFlow THEN Decode(p.mc.adv) ELSE p.mc.flow

PortPoll(p) == Then(Cmd(p, p.mc),
                    LAMBDA q : {[q EXCEPT !.adv = q.mc.adv, !.fcntl = LinkFlow(q)]})

PortInit(p) ==
  LET on == Quietly(Reconfigure([p EXCEPT !.port = TRUE, !.drain = TRUE]))
      polled == Quietly(UNION {PortPoll(q) : q \in on})
      ready == Then(UNION {Cmd(q, q.mc) : q \in polled}, PhyReconfigure)
  IN  OnFailure(ready, LAMBDA q : [q EXCEPT !.port = FALSE])

PortFini(p) == [p EXCEPT !.port = FALSE, !.drain = FALSE,
                         !.panic = IF p.drain THEN @ ELSE "drain"]

-----------------------------------------------------------------------------
(***************************************************************************)
(* sfxge_mac.c.                                                             *)
(***************************************************************************)
Started == sm.state = "STARTED"
Wanted == IF sm.laa = "none" THEN BIA ELSE sm.laa

Init ==
  /\ cfg \in [ef10 : BOOLEAN, an : BOOLEAN, vadaptor : BOOLEAN]
  /\ cfg.vadaptor => cfg.ef10
  /\ cfg.ef10 => cfg.an   \* an EF10 MAC always follows the PHY
  /\ sm = [state |-> "INITIALIZED", stopping |-> FALSE, promisc |-> FALSE,
           mcast |-> {}, laa |-> "none", fcntl |-> Flow,
           toSet |-> {}, toUnset |-> {}, link |-> "UNKNOWN"]
  /\ port = NewPort
  /\ task = FALSE
  /\ dirty = {}

(* Mutant: promiscuous mode forgets the multicast packets.                 *)
FilterApplyMut(p, s) ==
  IF s.state # "STARTED" THEN {[p EXCEPT !.ok = TRUE]}
  ELSE Then(FilterSet(p, s.promisc, s.mcast # {}, FALSE),
            LAMBDA q : MulticastListSet(q, s.mcast))

(* sfxge_mac_filter_apply: nothing unless the MAC is started.              *)
FilterApply(p, s) ==
  IF s.state # "STARTED" THEN {[p EXCEPT !.ok = TRUE]}
  ELSE Then(FilterSet(p, s.promisc, s.mcast # {}, s.promisc),
            LAMBDA q : MulticastListSet(q, s.mcast))

(* A request that reached the controller is in force, any other need not be. *)
Settle(setting, done) ==
  dirty' = IF done THEN dirty \ {setting} ELSE dirty \cup {setting}

FilterRequest(s) ==
  /\ sm' = s
  /\ port' \in FilterApply(port, s)
  /\ Settle("filter", Started /\ port'.ok)
  /\ UNCHANGED <<cfg, task>>

PromiscSet(on) == sm.promisc # on /\ FilterRequest([sm EXCEPT !.promisc = on])

MulticstAdd(g) == g \notin sm.mcast /\ FilterRequest([sm EXCEPT !.mcast = @ \cup {g}])

MulticstRemove(g) == FilterRequest([sm EXCEPT !.mcast = @ \ {g}])

UnicstSet(addr) ==
  /\ sm' = [sm EXCEPT !.laa = addr]
  /\ IF Started THEN port' \in AddrSet(port, addr) /\ Settle("addr", port'.ok)
     ELSE UNCHANGED <<port, dirty>>
  /\ UNCHANGED <<cfg, task>>

(* The value is stored first: repeating a request that failed does nothing. *)
MacFcntlSet(fcntl) ==
  /\ sm.fcntl # fcntl
  /\ sm' = [sm EXCEPT !.fcntl = fcntl]
  /\ IF Started THEN port' \in FcntlSet(port, fcntl) /\ Settle("fcntl", port'.ok)
     ELSE UNCHANGED <<port, dirty>>
  /\ UNCHANGED <<cfg, task>>

(* sfxge_phy_cap_set keeps a request for later while the MAC is not started. *)
PhyCapSet(c, on) ==
  /\ IF Started
     THEN /\ port' \in AdvCapSet(port, IF on THEN port.adv \cup {c} ELSE port.adv \ {c})
          /\ UNCHANGED sm
     ELSE /\ sm' = IF on THEN [sm EXCEPT !.toSet = @ \cup {c}]
                   ELSE [sm EXCEPT !.toUnset = @ \cup {c}]
          /\ UNCHANGED port
  /\ UNCHANGED <<cfg, task, dirty>>

PhyCapApply(p, default) ==
  AdvCapSet(p, ((IF default THEN DefaultAdv ELSE p.adv) \cup sm.toSet) \ sm.toUnset)

StatsPeriodic(p, on) == Cmd(p, [p.mc EXCEPT !.periodic = on])

(* Mutant: the capabilities are applied after the flow control they carry. *)
ConfiguredMut(p, default) ==
  Then(Then(Then(PduSet(p), LAMBDA q : FcntlSet(q, sm.fcntl)),
            LAMBDA q : PhyCapApply(q, default)),
       LAMBDA q : AddrSet(q, Wanted))

Configured(p, default) ==
  Then(Then(Then(PhyCapApply(p, default), PduSet),
            LAMBDA q : FcntlSet(q, sm.fcntl)),
       LAMBDA q : AddrSet(q, Wanted))

(* sfxge_mac_start; filters are applied only once it has returned.         *)
MacStart(restart) ==
  /\ ~Started /\ ~sm.stopping
  /\ \E p \in PortInit([port EXCEPT !.rebooted = FALSE]) :
       IF ~p.ok THEN port' = p /\ UNCHANGED <<sm, task, dirty>>
       ELSE \E q \in Configured(p, ~restart) :
         /\ IF ~q.ok THEN port' = PortFini(q)
            ELSE \E r \in StatsPeriodic(q, TRUE) :
              IF ~r.ok THEN port' = PortFini(r)
              ELSE \E d \in Drain(r, FALSE) :
                IF d.ok THEN port' = d
                ELSE port' \in {[PortFini(e) EXCEPT !.ok = FALSE] :
                                  e \in StatsPeriodic(d, FALSE)}
         /\ sm' = [sm EXCEPT !.toSet = {}, !.toUnset = {},
                             !.state = IF port'.ok THEN "STARTED" ELSE @]
         /\ task' = (task \/ port'.ok)
         /\ dirty' = IF port'.ok THEN dirty \ {"addr", "fcntl"} ELSE dirty
  /\ UNCHANGED cfg

(* The receive queues start after the MAC and stop before it.              *)
RxqSet(on) ==
  /\ cfg.ef10 /\ Started /\ port.rxq # on
  /\ port' \in OnFailure(FilterReconfigure([port EXCEPT !.rxq = on]),
                         LAMBDA q : [q EXCEPT !.rxq = port.rxq])
  /\ UNCHANGED <<cfg, sm, task, dirty>>

(* sfxge_mac_stop up to the point where sfxge_mac_poll_stop drops sm_lock. *)
MacStopBegin ==
  /\ Started /\ ~port.rxq
  /\ port' \in StatsPeriodic(port, FALSE)
  /\ sm' = [sm EXCEPT !.state = "INITIALIZED", !.stopping = TRUE]
  /\ UNCHANGED <<cfg, task, dirty>>

(* The poll task is gone: the rest of sfxge_mac_stop.                      *)
MacStopEnd ==
  /\ sm.stopping /\ ~task
  /\ port' \in {PortFini(p) : p \in Quietly(Drain(port, TRUE))}
  /\ sm' = [sm EXCEPT !.stopping = FALSE, !.link = "UNKNOWN"]
  /\ UNCHANGED <<cfg, task, dirty>>

(* Mutant: the state is not looked at.                                     *)
LinkUpdateMut(mode) == [sm EXCEPT !.link = mode]

LinkUpdate(mode) == IF Started THEN [sm EXCEPT !.link = mode] ELSE sm

(* sfxge_mac_poll: the NICs report link changes, so one poll is all there is. *)
MacPoll(mode) ==
  /\ task /\ task' = FALSE
  /\ IF Started
     THEN \E p \in PortPoll(port) :
            /\ port' = p
            /\ sm' = IF p.ok THEN LinkUpdate(mode) ELSE sm
     ELSE UNCHANGED <<sm, port>>
  /\ UNCHANGED <<cfg, dirty>>

(* siena_phy_link_ev, without sm_lock, and then sfxge_mac_link_update.     *)
LinkEvent(mode) ==
  /\ port' = IF cfg.an THEN [port EXCEPT !.fcntl = LinkFlow(port)] ELSE port
  /\ sm' = LinkUpdate(mode)
  /\ UNCHANGED <<cfg, task, dirty>>

(* The controller reboots and forgets; the driver restarts the NIC for it. *)
McReboot ==
  /\ Started /\ ~port.rebooted
  /\ port' = [port EXCEPT !.mc = McReset, !.rebooted = TRUE]
  /\ UNCHANGED <<cfg, sm, task, dirty>>

Steps ==
  \/ \E on \in BOOLEAN : PromiscSet(on) \/ RxqSet(on) \/ MacStart(on)
  \/ \E g \in Groups : MulticstAdd(g) \/ MulticstRemove(g)
  \/ UnicstSet("laa")
  \/ \E f \in {{}, Flow} : MacFcntlSet(f)
  \/ \E c \in Speeds, on \in BOOLEAN : PhyCapSet(c, on)
  \/ MacStopBegin \/ MacStopEnd
  \/ MacPoll("UP") \/ LinkEvent("UP")
  \/ McReboot

Next == port.panic = "none" /\ Steps

Spec == Init /\ [][Next]_vars

-----------------------------------------------------------------------------
(* Shape of the state.                                                     *)
TypeOK ==
  /\ sm.state \in {"INITIALIZED", "STARTED"} /\ sm.stopping \in BOOLEAN
  /\ sm.mcast \subseteq Groups /\ sm.fcntl \subseteq Flow
  /\ port.left \in 0..MaxFailures /\ port.adv \subseteq Speeds \cup Pause
  /\ port.list \subseteq Groups
  /\ dirty \subseteq Settings

Running == Started /\ ~port.rebooted /\ port.panic = "none"
Filtering == cfg.ef10 => port.rxq /\ ~port.lost

(* While the MAC runs, the controller has the address, the promiscuous mode *)
(* and the groups last asked for, whatever failed, restarted or rebooted in *)
(* between, save for a request that failed or was made while the MAC was   *)
(* stopped (sfxge_mac_filter_apply does nothing then).                     *)
Programmed ==
  /\ TypeOK
  /\ Running =>
       /\ ~port.mc.drain
       /\ "addr" \notin dirty =>
            /\ port.mc.addr = Wanted
            /\ Filtering => port.mc.ucaddr = Wanted
       /\ "filter" \notin dirty /\ Filtering =>
            /\ port.mc.uc = sm.promisc
            /\ port.mc.groups = IF sm.promisc THEN Groups ELSE sm.mcast

(* The flow control asked for is what the PHY advertises, and on a Siena   *)
(* without auto-negotiation what the MAC was told, whatever capabilities were *)
(* switched on or off since (efx_mac_fcntl_set shares their mask).         *)
FlowControl ==
  Running /\ "fcntl" \notin dirty =>
    /\ Decode(port.mc.adv) = sm.fcntl
    /\ ~cfg.an /\ ~cfg.ef10 => port.mc.flow = sm.fcntl

(* Once sfxge_mac_stop has returned, the link is reported down however late a *)
(* link event comes, no poll task is left and, unless a command failed, the *)
(* controller neither uploads statistics nor lets packets in.              *)
QuietWhenStopped ==
  ~Started /\ ~sm.stopping /\ port.panic = "none" =>
    /\ sm.link = "UNKNOWN" /\ ~task /\ ~port.port
    /\ port.left = MaxFailures => ~port.mc.periodic /\ port.mc.drain
=============================================================================
