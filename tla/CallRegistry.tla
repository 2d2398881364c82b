---------------------------- MODULE CallRegistry ----------------------------
(***************************************************************************)
(* CallRegistry (call.go) with the CallSessions (session.go) it holds.     *)
(* Goroutines of the integrator call its methods concurrently.  A method   *)
(* is a critical section under r.mu, one action; the cancel functions it   *)
(* collects run after the unlock, one action each.                         *)
(***************************************************************************)
EXTENDS Naturals, FiniteSets

CONSTANTS
  Threads,              \* goroutines that use the registry
  Ids,                  \* call-ids; one CallSession object for each
  Tasks,                \* cancel handles of media goroutines
  Incoming,             \* the ids whose session is NewIncomingSession
  NoTask                \* the nil cancel handle

ASSUME IncomingAssumption == Incoming \subseteq Ids
ASSUME NoTaskAssumption == NoTask \notin Tasks

VARIABLES
  calls,                \* r.calls: the registered call-ids
  mediaTask,            \* entry.mediaTask: a task or NoTask
  phase,                \* CallSession.phase
  pending,              \* cancel functions a thread still has to run
  issued,               \* tasks already handed to SetMediaTask
  cancelled             \* tasks whose context is cancelled

vars == <<calls, mediaTask, phase, pending, issued, cancelled>>

-----------------------------------------------------------------------------
(* CallPhase, in the order of the iota constants.                          *)
Idle == 0
Calling == 1
Ringing == 2
Connecting == 3
Active == 4
Ended == 5
Phases == 0..5

\* Faulty variant: Connecting is reachable from any phase but Ended.
TransitionTo_Reconnect(incoming, from, next) ==
  /\ from # Ended
  /\ \/ next \in {Ended, Connecting}
     \/ from = Idle /\ next = Calling /\ ~incoming
     \/ from = Calling /\ next = Ringing
     \/ from = Connecting /\ next = Active
     \/ from = next

\* The legal moves of CallSession.TransitionTo.
TransitionTo(incoming, from, next) ==
  /\ from # Ended
  /\ \/ next = Ended
     \/ from = Idle /\ next = Calling /\ ~incoming
     \/ from = Calling /\ next = Ringing
     \/ from = Ringing /\ next = Connecting
     \/ from = Connecting /\ next = Active
     \/ from = next

\* NewOutgoingSession starts Idle, NewIncomingSession starts Ringing.
InitialPhase(id) == IF id \in Incoming THEN Ringing ELSE Idle

Init ==
  /\ calls = {}
  /\ mediaTask = [id \in Ids |-> NoTask]
  /\ phase = [id \in Ids |-> InitialPhase(id)]
  /\ pending = [t \in Threads |-> {}]
  /\ issued = {}
  /\ cancelled = {}

-----------------------------------------------------------------------------
\* A thread is between two method calls: it owes no cancellation.
Free(t) == pending[t] = {}

\* Faulty variant: the nil test before the cancel is missing.
TasksOf_NoNilTest(ids) == {mediaTask[id] : id \in ids}

\* The task an entry holds, as a set.
TasksOf(ids) == {mediaTask[id] : id \in ids} \ {NoTask}

\* Insert: false, and no change, when the id is already registered.
Insert(t, id) ==
  /\ Free(t)
  /\ id \notin calls
  /\ calls' = calls \cup {id}
  /\ mediaTask' = [mediaTask EXCEPT ![id] = NoTask]
  /\ UNCHANGED <<phase, pending, issued, cancelled>>

\* Faulty variant: the handle that is replaced is forgotten.
SetMediaTask_DropOld(t, id, k) ==
  /\ Free(t)
  /\ k \notin issued
  /\ issued' = issued \cup {k}
  /\ IF id \in calls
     THEN mediaTask' = [mediaTask EXCEPT ![id] = k] /\ UNCHANGED pending
     ELSE pending' = [pending EXCEPT ![t] = {k}] /\ UNCHANGED mediaTask
  /\ UNCHANGED <<calls, phase, cancelled>>

\* SetMediaTask: attach the new handle, cancel the old one after the unlock;
\* for an unknown call the new handle itself is cancelled.
SetMediaTask(t, id, k) ==
  /\ Free(t)
  /\ k \notin issued
  /\ issued' = issued \cup {k}
  /\ \/ /\ id \in calls
        /\ mediaTask' = [mediaTask EXCEPT ![id] = k]
        /\ pending' = [pending EXCEPT ![t] = TasksOf({id})]
     \/ /\ id \notin calls
        /\ pending' = [pending EXCEPT ![t] = {k}]
        /\ UNCHANGED mediaTask
  /\ UNCHANGED <<calls, phase, cancelled>>

\* Transition: false, and no change, when unknown or illegal.
Transition(t, id, next) ==
  /\ Free(t)
  /\ id \in calls
  /\ TransitionTo(id \in Incoming, phase[id], next)
  /\ phase' = [phase EXCEPT ![id] = next]
  /\ UNCHANGED <<calls, mediaTask, pending, issued, cancelled>>

\* Faulty variant: the task is cancelled but the entry stays registered.
Remove_KeepEntry(t, id) ==
  /\ Free(t)
  /\ id \in calls
  /\ pending' = [pending EXCEPT ![t] = TasksOf({id})]
  /\ UNCHANGED <<calls, mediaTask, phase, issued, cancelled>>

\* Remove: the entry leaves the table; its handle is cancelled after the unlock.
Remove(t, id) ==
  /\ Free(t)
  /\ id \in calls
  /\ calls' = calls \ {id}
  /\ pending' = [pending EXCEPT ![t] = TasksOf({id})]
  /\ mediaTask' = [mediaTask EXCEPT ![id] = NoTask]
  /\ UNCHANGED <<phase, issued, cancelled>>

\* Faulty variant: the old table is dropped without cancelling its handles.
AbortAll_NoCancel(t) ==
  /\ Free(t)
  /\ calls # {}
  /\ calls' = {}
  /\ mediaTask' = [id \in Ids |-> NoTask]
  /\ UNCHANGED <<phase, pending, issued, cancelled>>

\* AbortAll: the table is swapped for an empty one, then every handle of the
\* old table is cancelled.
AbortAll(t) ==
  /\ Free(t)
  /\ calls # {}
  /\ pending' = [pending EXCEPT ![t] = TasksOf(calls)]
  /\ calls' = {}
  /\ mediaTask' = [id \in Ids |-> NoTask]
  /\ UNCHANGED <<phase, issued, cancelled>>

\* One cancel() call outside the lock (map order: any handle may be next).
RunCancel(t, k) ==
  /\ k \in pending[t]
  /\ cancelled' = cancelled \cup {k}
  /\ pending' = [pending EXCEPT ![t] = @ \ {k}]
  /\ UNCHANGED <<calls, mediaTask, phase, issued>>

Next ==
  \E t \in Threads :
    \/ \E id \in Ids : Insert(t, id) \/ Remove(t, id)
    \/ \E id \in Ids, k \in Tasks : SetMediaTask(t, id, k)
    \/ \E id \in Ids, p \in Phases : Transition(t, id, p)
    \/ AbortAll(t)
    \/ \E k \in Tasks : RunCancel(t, k)

\* A goroutine that left the critical section runs its cancel functions.
Fairness == \A t \in Threads, k \in Tasks : WF_vars(RunCancel(t, k))

SafetySpec == Init /\ [][Next]_vars

Spec == SafetySpec /\ Fairness

-----------------------------------------------------------------------------
(* Properties.                                                             *)

TypeOK ==
  /\ calls \subseteq Ids
  /\ mediaTask \in [Ids -> Tasks \cup {NoTask}]
  /\ phase \in [Ids -> Phases]
  /\ pending \in [Threads -> SUBSET Tasks]
  /\ issued \subseteq Tasks
  /\ cancelled \subseteq Tasks

\* Every handle given to SetMediaTask is the current handle of a registered
\* call, or is about to be cancelled by the goroutine that took it out, or is
\* cancelled: "its task can't outlive the call" (SetMediaTask), whatever order
\* SetMediaTask, Remove and AbortAll of several goroutines come in.
TaskNeverOutlivesCall ==
  \A k \in issued :
    \/ k \in cancelled
    \/ \E id \in calls : mediaTask[id] = k
    \/ \E t \in Threads : k \in pending[t]

\* The handle of a registered call is never a cancelled one nor one that some
\* goroutine is about to cancel, and two calls never share a handle: removing
\* or replacing one call's task leaves every other call's media running.
CurrentTaskIsLive ==
  \A id \in calls : mediaTask[id] # NoTask =>
    /\ mediaTask[id] \notin cancelled
    /\ \A t \in Threads : mediaTask[id] \notin pending[t]
    /\ \A other \in calls : mediaTask[other] = mediaTask[id] => other = id

\* The inductive invariant behind the two: a handle has one place only, and an
\* entry that is not registered holds none.
IInv ==
  /\ TypeOK
  /\ \A id \in Ids : id \notin calls => mediaTask[id] = NoTask
  /\ \A id \in calls : mediaTask[id] # NoTask => mediaTask[id] \in issued
  /\ \A t \in Threads : pending[t] \subseteq issued \ cancelled
  /\ \A t, u \in Threads : pending[t] \cap pending[u] # {} => t = u
  /\ cancelled \subseteq issued
  /\ TaskNeverOutlivesCall
  /\ CurrentTaskIsLive

\* No phase is ever revisited: a session only moves forward, Ended is a sink,
\* and an incoming session is never Calling, over any sequence of Transition,
\* Remove and re-Insert of the same session.
PhaseMovesForward ==
  [][\A id \in Ids :
       /\ phase'[id] >= phase[id]
       /\ id \in Incoming => phase'[id] # Calling
       /\ phase'[id] = Active => phase[id] \in {Connecting, Active}]_phase

\* After a call left the table its media task is cancelled in the end, even
\* when a new call is registered under the same id in the meantime.
LostTaskIsCancelled ==
  \A k \in Tasks :
    (k \in issued /\ \A id \in calls : mediaTask[id] # k) ~> (k \in cancelled)

\* CallRegistry implements MediaOwnership.
Ownership == INSTANCE MediaOwnership WITH
  owned  <- {mediaTask[id] : id \in calls} \ {NoTask},
  doomed <- UNION {pending[t] : t \in Threads},
  dead   <- cancelled

ImplementsOwnership == Ownership!Spec

\* The part of it that is safety.
ImplementsOwnershipSafety == Ownership!SafetySpec
=============================================================================
