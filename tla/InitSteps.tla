----------------------------- MODULE InitSteps ------------------------------
(***************************************************************************)
(* The words in which InitNic, InitDriver, InitQueues, InitAccess and      *)
(* InitEvents tell what the functions do that bring the driver up and      *)
(* down, and that run while it is up.  Each is written the same way in C:  *)
(* a list of steps, of which some fail with `goto failN', then the labels, *)
(* the highest first, each undoing what the steps before it did and        *)
(* falling through to the next.                                            *)
(*                                                                         *)
(* A resource is a name and the object it belongs to: the queue, the       *)
(* buffer, <<>> for those there is one of.  It stands for memory, a kernel *)
(* object, a held lock, a bit of the controller, or the flag or state that *)
(* tells the driver it has been set up.                                    *)
(***************************************************************************)
EXTENDS Naturals, Sequences, FiniteSets, SequencesExt

Step(op, name, on, to) == [op |-> op, name |-> name, on |-> on, to |-> to]

(* A step that cannot fail. *)
Sure(op, name) == Step(op, name, "", 0)

(* Take a resource of the object at hand, and give it back. *)
Get(r) == Sure("get", r)
Try(r, l) == Step("try", r, "", l)                  \* or goto fail l
Opt(r, l) == Step("opt", r, "", l)                  \* or do without it
Put(r) == Sure("put", r)
Drop(r) == Sure("drop", r)                          \* if it is held

(* Something that fails and holds nothing; to l from 1 is a label, End the *)
(* end of the function.                                                    *)
End == 99
Ask(l) == Step("ask", "", "", l)

(* A request of the firmware (efx_mcdi_execute), which fails likewise, or, *)
(* with 0, whose result nobody looks at.  It enters mcdi_lock to be the    *)
(* only one, the lock of the NIC to start and to finish, and mcdi_lock     *)
(* again to let the next one in.  Ef10Mcdi is a request to an EF10         *)
(* controller; on Siena the registers are written.                         *)
Mcdi(l) == Step("mcdi", "", "", l)
Ef10Mcdi(l) == Step("mcdi", "", "ef10", l)

(* Call another function: in vain if it fails (Do), whatever it returns    *)
(* (Run), or in vain unless the error is one the caller lives with (Allow).*)
(* DoOn and RunOn call it for one more object.                             *)
Do(f, l) == Step("do", f, "", l)
DoOn(f, obj, l) == Step("do", f, obj, l)
Run(f) == Sure("run", f)
RunOn(f, obj) == Step("run", f, obj, 0)
Allow(f, l) == Step("allow", f, "", l)

(* One of several calls: make this one, and be done if it succeeds, or go  *)
(* on to the next.  May calls a function, or does not.                     *)
Case(f, obj) == Step("case", f, obj, End)
May(f, l) == Step("may", f, "", l)

(* Call a function for each queue, from the first; for those it was called *)
(* for, from the last; for every queue, from the last.                     *)
Each(f, l) == Step("each", f, "", l)
Undo(f) == Sure("undo", f)
All(f) == Sure("all", f)

(* mutex_enter and mutex_exit; Get and Put of a lock are mutex_init and    *)
(* mutex_destroy.                                                          *)
Enter(lock) == Sure("enter", lock)
Exit(lock) == Sure("exit", lock)

(* A resource that is held, if it is, gets another owner.                  *)
Pass(from, to) == Step("pass", from, to, 0)

(* A state variable of the driver goes from one value to another; one that *)
(* holds none of them is UNINITIALIZED.                                    *)
Move(from, to) == Step("move", from, to, 0)

(* Assertions; LacksAny of the resource of any object. *)
Need(r) == Sure("need", r)
Holds(lock) == Sure("holds", lock)
Lacks(r) == Sure("lacks", r)
LacksAny(r) == Sure("lacksany", r)

(* A test: goto fail l unless r is held, or if it is; return 0 likewise.   *)
Unless(r, l) == Step("unless", r, "", l)
If(r, l) == Step("if", r, "", l)
DoneUnless(r) == Sure("doneunless", r)
DoneIf(r) == Sure("doneif", r)

(* A function: its steps, and its labels from the highest to fail1. *)
Fn(body, unwind) ==
  [code |-> body \o FlattenSeq(unwind),
   end |-> Len(body) + 1,
   label |-> [l \in 1..Len(unwind) |->
                Len(body) + 1 + Len(FlattenSeq(SubSeq(unwind, 1, Len(unwind) - l)))]]

(* A function with no labels, or none that undo anything. *)
Plain(body) == Fn(body, <<>>)

(* n labels that undo nothing. *)
Empty(n) == [i \in 1..n |-> <<>>]
=============================================================================
