SPECIFICATION Spec
CONSTANTS
  a1 = a1
  a2 = a2
  m1 = m1
  m2 = m2
  c1 = c1
  c2 = c2
  Recv = Recv
  NoEntry = NoEntry
  NoCall = NoCall
  Apps <- OneApp
  Entries <- OneEntry
  Calls <- OneCall
  MaxAnswers = 0
PROPERTIES
  PhaseOnlyAdvances
CHECK_DEADLOCK FALSE
