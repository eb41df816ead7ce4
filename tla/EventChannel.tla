---------------------------- MODULE EventChannel ----------------------------
(***************************************************************************)
(* What an event queue promises the rest of the driver: between its start  *)
(* and its stop every event reaches its handler once and in the order in   *)
(* which the controller wrote it.  EventQueue.tla implements it.           *)
(***************************************************************************)
EXTENDS Naturals, Sequences

CONSTANTS Evqs, MaxEvents

VARIABLES
  open,     \* the controller writes to the queue
  chan,     \* the numbers of the events written and not handled, in order
  broken    \* the queue was created while it read at another slot

vars == <<open, chan, broken>>

Init ==
  /\ open = [q \in Evqs |-> FALSE]
  /\ chan = [q \in Evqs |-> << >>]
  /\ broken = [q \in Evqs |-> FALSE]

Create(q) ==
  /\ ~open[q] /\ open' = [open EXCEPT ![q] = TRUE]
  /\ chan' = [chan EXCEPT ![q] = << >>]
  /\ \E b \in BOOLEAN : broken' = [broken EXCEPT ![q] = b]

Write(q) ==
  /\ open[q] /\ ~broken[q]
  /\ \E n \in 1..MaxEvents :
       /\ \A i \in DOMAIN chan[q] : chan[q][i] < n
       /\ chan' = [chan EXCEPT ![q] = Append(@, n)]
  /\ UNCHANGED <<open, broken>>

Handle(q) ==
  /\ open[q] /\ chan[q] # << >>
  /\ chan' = [chan EXCEPT ![q] = Tail(@)]
  /\ UNCHANGED <<open, broken>>

Destroy(q) ==
  /\ open[q] /\ open' = [open EXCEPT ![q] = FALSE]
  /\ chan' = [chan EXCEPT ![q] = << >>]
  /\ UNCHANGED broken

Next == \E q \in Evqs : Create(q) \/ Write(q) \/ Handle(q) \/ Destroy(q)

Spec == Init /\ [][Next]_vars
=============================================================================
