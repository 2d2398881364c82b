SPECIFICATION Spec
CONSTANTS
  d1 = d1
  d2 = d2
  Nobody = Nobody
  Callee = d1
  Answering = {d2}
  MaxAccepts = 4
PROPERTY
  StackIsTornDown
CHECK_DEADLOCK FALSE
