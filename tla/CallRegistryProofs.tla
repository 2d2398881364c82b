------------------------- MODULE CallRegistryProofs -------------------------
(***************************************************************************)
(* Proofs about CallRegistry, for any number of goroutines, calls and      *)
(* media tasks: its invariants, and that it implements MediaOwnership.     *)
(***************************************************************************)
EXTENDS CallRegistry, TLAPS

\* Every method of CallRegistry keeps the inductive invariant: a handle is in
\* one place only (an entry, or one goroutine's list of handles to cancel).
LEMMA InvariantStep == IInv /\ [Next]_vars => IInv'
<1> SUFFICES ASSUME IInv, [Next]_vars
             PROVE  IInv'
  OBVIOUS
<1> USE NoTaskAssumption DEF IInv, TypeOK, TaskNeverOutlivesCall,
      CurrentTaskIsLive, TasksOf, Free
<1>1. ASSUME NEW t \in Threads, NEW id \in Ids, Insert(t, id)
      PROVE  IInv'
  BY <1>1 DEF Insert
<1>2. ASSUME NEW t \in Threads, NEW id \in Ids, Remove(t, id)
      PROVE  IInv'
  BY <1>2 DEF Remove
<1>3. ASSUME NEW t \in Threads, NEW id \in Ids, NEW k \in Tasks,
             SetMediaTask(t, id, k)
      PROVE  IInv'
  BY <1>3 DEF SetMediaTask
<1>4. ASSUME NEW t \in Threads, NEW id \in Ids, NEW p \in Phases,
             Transition(t, id, p)
      PROVE  IInv'
  BY <1>4 DEF Transition
<1>5. ASSUME NEW t \in Threads, AbortAll(t)
      PROVE  IInv'
  BY <1>5 DEF AbortAll
<1>6. ASSUME NEW t \in Threads, NEW k \in Tasks, RunCancel(t, k)
      PROVE  IInv'
  BY <1>6 DEF RunCancel
<1>7. CASE UNCHANGED vars
  BY <1>7 DEF vars
<1>8. QED
  BY <1>1, <1>2, <1>3, <1>4, <1>5, <1>6, <1>7 DEF Next

\* The inductive invariant holds in every reachable state of the registry.
THEOREM RegistryInvariant == SafetySpec => []IInv
<1>1. Init => IInv
  BY NoTaskAssumption DEF Init, IInv, TypeOK, TaskNeverOutlivesCall,
     CurrentTaskIsLive, InitialPhase, Phases, Idle, Ringing
<1>2. QED
  BY <1>1, InvariantStep, PTL DEF SafetySpec

\* "its task can't outlive the call": every handle given to SetMediaTask is
\* current, cancelled, or about to be cancelled, whatever goroutines do.
THEOREM TaskNeverOutlives == SafetySpec => []TaskNeverOutlivesCall
<1>1. IInv => TaskNeverOutlivesCall
  BY DEF IInv
<1>2. QED
  BY <1>1, RegistryInvariant, PTL

\* No registered call loses its media to the removal, replacement or abort of
\* another one.
THEOREM CurrentTaskStaysLive == SafetySpec => []CurrentTaskIsLive
<1>1. IInv => CurrentTaskIsLive
  BY DEF IInv
<1>2. QED
  BY <1>1, RegistryInvariant, PTL

\* The registry implements MediaOwnership: SetMediaTask attaches a fresh task
\* or finds that its call is gone, Remove and AbortAll detach, the cancel
\* functions run later.
THEOREM RegistryImplementsOwnership == SafetySpec => ImplementsOwnershipSafety
<1> DEFINE owned == {mediaTask[id] : id \in calls} \ {NoTask}
<1> DEFINE doomed == UNION {pending[t] : t \in Threads}
<1>1. Init => Ownership!Init
  BY DEF Init, Ownership!Init
<1>2. ASSUME IInv, [Next]_vars
      PROVE  [Ownership!Next]_(Ownership!vars)
  <2> USE NoTaskAssumption DEF TasksOf, Free
  <2>a. /\ calls \subseteq Ids
        /\ mediaTask \in [Ids -> Tasks \cup {NoTask}]
        /\ pending \in [Threads -> SUBSET Tasks]
        /\ issued \subseteq Tasks
        /\ \A id \in Ids : id \notin calls => mediaTask[id] = NoTask
        /\ owned \subseteq issued
        /\ doomed \subseteq issued
        /\ cancelled \subseteq issued
        /\ \A t, u \in Threads : pending[t] \cap pending[u] # {} => t = u
        /\ CurrentTaskIsLive
    BY <1>2 DEF IInv, TypeOK
  <2>1. ASSUME NEW t \in Threads, NEW id \in Ids, Insert(t, id)
        PROVE  UNCHANGED Ownership!vars
    <3>1. owned' = owned
      BY <2>a, <2>1 DEF Insert
    <3>2. QED
      BY <2>1, <3>1 DEF Insert, Ownership!vars
  <2>2. ASSUME NEW t \in Threads, NEW id \in Ids, Remove(t, id)
        PROVE  [Ownership!Next]_(Ownership!vars)
    <3>1. owned' = owned \ TasksOf({id})
      BY <2>a, <2>2 DEF Remove, CurrentTaskIsLive
    <3>2. doomed' = doomed \cup TasksOf({id})
      BY <2>a, <2>2 DEF Remove
    <3>3. TasksOf({id}) \in SUBSET owned /\ cancelled' = cancelled
      BY <2>2 DEF Remove
    <3>4. CASE TasksOf({id}) = {}
      BY <3>1, <3>2, <3>3, <3>4 DEF Ownership!vars
    <3>5. CASE TasksOf({id}) # {}
      <4>1. Ownership!Detach(TasksOf({id}))
        BY <3>1, <3>2, <3>3, <3>5 DEF Ownership!Detach
      <4>2. QED
        BY <3>3, <4>1 DEF Ownership!Next, Ownership!Detach
    <3>6. QED
      BY <3>4, <3>5
  <2>3. ASSUME NEW t \in Threads, NEW id \in Ids, NEW k \in Tasks,
               SetMediaTask(t, id, k)
        PROVE  Ownership!Next
    <3>1. k \in Ownership!Fresh
      BY <2>a, <2>3 DEF SetMediaTask, Ownership!Fresh
    <3>2. CASE id \in calls
      <4>1. owned' = (owned \ TasksOf({id})) \cup {k}
        BY <2>a, <2>3, <3>2 DEF SetMediaTask, CurrentTaskIsLive
      <4>2. doomed' = doomed \cup TasksOf({id})
        BY <2>a, <2>3, <3>2 DEF SetMediaTask
      <4>3. TasksOf({id}) \in SUBSET owned
        BY <3>2
      <4>4. Ownership!Attach(k)
        BY <2>3, <3>1, <4>1, <4>2, <4>3 DEF SetMediaTask, Ownership!Attach
      <4>5. QED
        BY <4>4 DEF Ownership!Next, Ownership!Attach
    <3>3. CASE id \notin calls
      <4>1. owned' = owned /\ doomed' = doomed \cup {k}
        BY <2>a, <2>3, <3>3 DEF SetMediaTask
      <4>2. Ownership!TooLate(k)
        BY <2>3, <3>1, <4>1 DEF SetMediaTask, Ownership!TooLate
      <4>3. QED
        BY <4>2 DEF Ownership!Next, Ownership!TooLate
    <3>4. QED
      BY <3>2, <3>3
  <2>4. ASSUME NEW t \in Threads, NEW id \in Ids, NEW p \in Phases,
               Transition(t, id, p)
        PROVE  UNCHANGED Ownership!vars
    BY <2>4 DEF Transition, Ownership!vars
  <2>5. ASSUME NEW t \in Threads, AbortAll(t)
        PROVE  [Ownership!Next]_(Ownership!vars)
    <3>1. owned' = owned \ owned /\ doomed' = doomed \cup owned
      BY <2>a, <2>5 DEF AbortAll
    <3>2. QED
      BY <2>5, <3>1 DEF AbortAll, Ownership!Next, Ownership!Detach, Ownership!vars
  <2>6. ASSUME NEW t \in Threads, NEW k \in Tasks, RunCancel(t, k)
        PROVE  Ownership!Next
    <3>1. owned' = owned /\ k \in doomed
      BY <2>a, <2>6 DEF RunCancel
    <3>2. doomed' = doomed \ {k}
      BY <2>a, <2>6 DEF RunCancel
    <3>3. Ownership!Cancel(k)
      BY <2>6, <3>1, <3>2 DEF RunCancel, Ownership!Cancel
    <3>4. QED
      BY <3>3 DEF Ownership!Next, Ownership!Cancel
  <2>7. CASE UNCHANGED vars
    BY <2>7 DEF vars, Ownership!vars
  <2>8. QED
    BY <1>2, <2>1, <2>2, <2>3, <2>4, <2>5, <2>6, <2>7 DEF Next
<1>3. QED
  BY <1>1, <1>2, RegistryInvariant, PTL
  DEF SafetySpec, Ownership!SafetySpec, ImplementsOwnershipSafety

\* Types of the registry and its sessions: what every handler of the registry
\* relies on without a test, e.g. that a goroutine owes only cancellations of
\* tasks it was given.
THEOREM RegistryTypes == SafetySpec => []TypeOK
BY RegistryInvariant, PTL DEF IInv

\* An incoming session starts at Ringing, and nothing takes it back before that.
IncomingRang == \A id \in Incoming : phase[id] >= Ringing

LEMMA PhaseStep ==
  ASSUME IInv, IncomingRang, [Next]_vars
  PROVE  /\ IncomingRang'
         /\ \A id \in Ids :
              /\ phase'[id] >= phase[id]
              /\ id \in Incoming => phase'[id] # Calling
              /\ phase'[id] = Active => phase[id] \in {Connecting, Active}
<1> USE IncomingAssumption DEF Idle, Calling, Ringing, Connecting, Active, Ended, Phases
<1>1. phase \in [Ids -> Phases]  BY DEF IInv, TypeOK
<1>2. ASSUME NEW t \in Threads, NEW id \in Ids, NEW next \in Phases, Transition(t, id, next)
      PROVE  \A i \in Ids : phase'[i] = phase[i]
                             \/ (i = id /\ phase'[i] = next
                                 /\ TransitionTo(i \in Incoming, phase[i], next))
  BY <1>1, <1>2 DEF Transition
<1>3. \A i \in Ids : phase'[i] = phase[i]
                      \/ \E next \in Phases : phase'[i] = next
                                              /\ TransitionTo(i \in Incoming, phase[i], next)
  BY <1>2 DEF Next, vars, Insert, Remove, SetMediaTask, AbortAll, RunCancel
<1>4. ASSUME NEW i \in Ids
      PROVE  /\ phase'[i] >= phase[i]
             /\ i \in Incoming => phase'[i] >= Ringing /\ phase'[i] # Calling
             /\ phase'[i] = Active => phase[i] \in {Connecting, Active}
  <2>1. phase[i] \in 0..5 /\ (i \in Incoming => phase[i] >= 2)  BY <1>1 DEF IncomingRang
  <2>2. CASE phase'[i] = phase[i]  BY <2>1, <2>2
  <2>3. ASSUME NEW next \in Phases, phase'[i] = next, TransitionTo(i \in Incoming, phase[i], next)
        PROVE  /\ phase'[i] >= phase[i]
               /\ i \in Incoming => phase'[i] >= Ringing /\ phase'[i] # Calling
               /\ phase'[i] = Active => phase[i] \in {Connecting, Active}
    BY <2>1, <2>3 DEF TransitionTo
  <2>. QED BY <1>3, <2>2, <2>3
<1>. QED BY <1>4 DEF IncomingRang

\* CallSession.TransitionTo (PhaseMovesForward): over any sequence of Transition,
\* Remove and Insert by any goroutines a session's phase only grows, an incoming
\* one is never Calling, and Active is entered from Connecting only.
THEOREM PhasesMoveForward == SafetySpec => PhaseMovesForward
<1>1. Init => IncomingRang
  BY IncomingAssumption DEF Init, IncomingRang, InitialPhase, Ringing
<1>2. IInv /\ IncomingRang /\ [Next]_vars => IncomingRang'  BY PhaseStep
<1>3. IInv /\ IncomingRang /\ [Next]_vars =>
        [\A id \in Ids :
           /\ phase'[id] >= phase[id]
           /\ id \in Incoming => phase'[id] # Calling
           /\ phase'[id] = Active => phase[id] \in {Connecting, Active}]_phase
  BY PhaseStep
<1>. QED BY <1>1, <1>2, <1>3, RegistryInvariant, PTL DEF SafetySpec, PhaseMovesForward
=============================================================================
