--------------------------- MODULE MediaOwnership ---------------------------
(***************************************************************************)
(* What the call tables promise about media tasks: a media task (a         *)
(* goroutine with a cancel handle) belongs to a live call, or it has lost  *)
(* its call and its cancellation is on its way, or it is cancelled.  A     *)
(* cancelled task never runs again and a task that lost its call is never  *)
(* adopted by another one.  CallRegistry (call.go) and CallEngine          *)
(* (engine.go, engine_media.go) both implement this specification.         *)
(***************************************************************************)
CONSTANT Tasks          \* identities of media tasks

VARIABLES
  owned,                \* tasks attached to a call that is in the table
  doomed,               \* tasks whose call is gone; their cancel is pending
  dead                  \* tasks whose context is cancelled

vars == <<owned, doomed, dead>>

Init == owned = {} /\ doomed = {} /\ dead = {}

Fresh == Tasks \ (owned \cup doomed \cup dead)

\* A fresh task is attached to a live call; the task it replaces, if any,
\* loses its call in the same step.
Attach(k) ==
  /\ k \in Fresh
  /\ \E old \in SUBSET owned :
       /\ owned' = (owned \ old) \cup {k}
       /\ doomed' = doomed \cup old
  /\ UNCHANGED dead

\* A task that comes too late: its call is gone before it could be attached.
TooLate(k) ==
  /\ k \in Fresh
  /\ doomed' = doomed \cup {k}
  /\ UNCHANGED <<owned, dead>>

\* Calls leave the table; all of their tasks are to be cancelled.
Detach(gone) ==
  /\ gone # {}
  /\ owned' = owned \ gone
  /\ doomed' = doomed \cup gone
  /\ UNCHANGED dead

Cancel(k) ==
  /\ k \in doomed
  /\ doomed' = doomed \ {k}
  /\ dead' = dead \cup {k}
  /\ UNCHANGED owned

Next ==
  \/ \E k \in Tasks : Attach(k) \/ TooLate(k) \/ Cancel(k)
  \/ \E gone \in SUBSET owned : Detach(gone)

\* Whoever detached a task runs its cancel function.
Fairness == \A k \in Tasks : WF_vars(Cancel(k))

SafetySpec == Init /\ [][Next]_vars

Spec == SafetySpec /\ Fairness
=============================================================================
