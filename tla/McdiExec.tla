------------------------------ MODULE McdiExec ------------------------------
(***************************************************************************)
(* A thread in the functions of McdiCalls, one after the other, against a  *)
(* controller whose firmware may be older or newer than the driver: it     *)
(* refuses a request, or answers with any number of bytes.                 *)
(***************************************************************************)
EXTENDS McdiCalls

VARIABLES
  fn,      \* the function being executed, "none" between two of them
  calls,   \* the calls it has still to make, the current one first
  pc,      \* "idle", "build", "send", "read"
  known,   \* bytes of the payload with a value the driver or the controller gave
  answer,  \* bytes of the payload that hold the response of the current call
  used,    \* emr_out_length_used
  todo,    \* the steps of reading the response that are left
  took,    \* bytes read as a part of the response
  tries    \* requests the current call has made

vars == <<fn, calls, pc, known, answer, used, todo, took, tries>>

call == Head(calls)

(* Lengths of a response worth telling apart: those at which a step of the *)
(* reading decides otherwise, and one longer than the driver has room for. *)
Lengths(c) ==
  LET at == {c.out} \cup {c.take[i].n : i \in DOMAIN c.take}
  IN {0, c.out + 4} \cup at \cup {n - 1 : n \in at \ {0}}

Init ==
  /\ fn = "none" /\ calls = <<>> /\ pc = "idle"
  /\ known = {} /\ answer = {} /\ used = 0 /\ todo = <<>> /\ took = {} /\ tries = 0

(* The function returns; its payload goes with its stack frame. *)
Return ==
  /\ fn' = "none" /\ calls' = <<>> /\ pc' = "idle"
  /\ known' = {} /\ answer' = {} /\ used' = 0 /\ todo' = <<>> /\ took' = {} /\ tries' = 0

Enter(f) ==
  /\ pc = "idle"
  /\ \E run \in Calls[f] : calls' = run
  /\ fn' = f /\ pc' = "build"
  /\ UNCHANGED <<known, answer, used, todo, took, tries>>

(* memset of the payload, and the MCDI_IN_SET_* of the request. *)
Build ==
  /\ pc = "build"
  /\ known' = (IF call.clear THEN Bytes(0, call.buf) ELSE known) \cup call.set
  /\ answer' = {} /\ took' = {}
  /\ pc' = "send"
  /\ UNCHANGED <<fn, calls, used, todo, tries>>

(* efx_mcdi_execute comes back with a response: as much of it as the       *)
(* caller has room for is copied to the payload.                           *)
Complete(n) ==
  /\ pc = "send"
  /\ used' = n
  /\ answer' = Bytes(0, Min({n, call.out}))
  /\ known' = known \cup answer'
  /\ todo' = call.take
  /\ pc' = "read"
  /\ UNCHANGED <<fn, calls, took, tries>>

(* The controller refuses the request, or dies over it. *)
Refuse ==
  /\ pc = "send"
  /\ Return

(* GET_ASSERTS is put again when the controller was rebooting. *)
Again ==
  /\ pc = "send" /\ tries < call.retry
  /\ tries' = tries + 1
  /\ pc' = "build"
  /\ UNCHANGED <<fn, calls, known, answer, used, todo, took>>

(* The response is not as long as the function needs it to be: EMSGSIZE. *)
Short ==
  LET step == Head(todo) IN
  \/ step.kind = "need" /\ used < step.n
  \/ step.kind = "same" /\ used # step.n

TooShort ==
  /\ pc = "read" /\ todo # <<>> /\ Short
  /\ Return

(* One step of reading the response. *)
Interpret ==
  /\ pc = "read" /\ todo # <<>> /\ ~Short
  /\ LET step == Head(todo)
     IN took' = CASE step.kind = "more" /\ used < step.n -> took
                  [] step.kind = "rest" -> took \cup step.n..(used - 1)
                  [] OTHER -> took \cup step.bytes
  /\ todo' = Tail(todo)
  /\ UNCHANGED <<fn, calls, pc, known, answer, used, tries>>

(* The next request of the function, in the same payload, or its end. *)
Finish ==
  /\ pc = "read" /\ todo = <<>>
  /\ IF Len(calls) = 1 THEN Return
     ELSE /\ calls' = Tail(calls) /\ pc' = "build" /\ tries' = 0
          /\ UNCHANGED <<fn, known, answer, used, todo, took>>

Next ==
  \/ \E f \in DOMAIN Calls : Enter(f)
  \/ Build
  \/ pc = "send" /\ \E n \in Lengths(call) : Complete(n)
  \/ Refuse
  \/ Again
  \/ TooShort
  \/ Interpret
  \/ Finish

Spec == Init /\ [][Next]_vars

(***************************************************************************)
(* Properties.                                                             *)
(***************************************************************************)

(* A request is sent as the protocol lays it out: every byte of it has     *)
(* been given a value since the function was entered, every field set lies *)
(* within the length sent, the payload array holds request and response,   *)
(* and the request fits the largest payload of the transport.              *)
RequestSound ==
  pc = "send" =>
    /\ Bytes(0, call.in) \subseteq known
    /\ call.set \subseteq Bytes(0, call.in)
    /\ call.in <= call.buf /\ call.out <= call.buf
    /\ call.in <= MCDI_CTL_SDU_LEN_MAX

(* The functions that read the response without, or before, comparing its  *)
(* length, or compare the length they asked for, or read a part there is   *)
(* no room for, or copy as much as the controller says it has sent.        *)
Trusting ==
  {"efx_mcdi_get_parser_disp_info", "efx_mcdi_get_mac_address_vf", "efx_mcdi_alloc_vis",
   "efx_mcdi_nvram_metadata", "efx_mcdi_set_workaround", "efx_mcdi_get_workarounds", "efx_mcdi_sensor_info_npages",
   "efx_mcdi_sensor_info", "hunt_bist_poll", "siena_phy_bist_poll"}

(* What a function takes for the controller's answer is the controller's   *)
(* answer, and not what its request left in the payload, however short or  *)
(* long a response the firmware gives.                                     *)
AnswersOnly == fn \notin Trusting => took \subseteq answer
=============================================================================
