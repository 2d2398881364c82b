SPECIFICATION Spec
CONSTANTS
  t1 = t1
  t2 = t2
  in1 = in1
  out1 = out1
  k1 = k1
  k2 = k2
  k3 = k3
  Threads <- MCThreads
  Ids <- MCIds
  Incoming <- MCIncoming
  Tasks <- MCTasks
  NoTask = NoTask
INVARIANTS
  TypeOK
  TaskNeverOutlivesCall
  CurrentTaskIsLive
PROPERTIES
  PhaseMovesForward
  LostTaskIsCancelled
  ImplementsOwnership
