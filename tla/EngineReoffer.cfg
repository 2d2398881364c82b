SPECIFICATION SafetySpec
CONSTANTS
  a1 = a1
  a2 = a2
  m1 = m1
  m2 = m2
  c1 = c1
  c2 = c2
  Recv = Recv
  NoEntry = NoEntry
  NoCall = NoCall
  Apps <- TwoApps
  Entries <- TwoEntries
  Calls <- TwoCalls
  MaxAnswers = 0
INVARIANTS
  LiveMediaIsNotCancelled
SYMMETRY Symmetry
CHECK_DEADLOCK FALSE
