SPECIFICATION Spec
CONSTANTS
  o1 = o1
  o2 = o2
  Observer = {o1, o2}
  MaxPending = 1
  MaxStarts = 2
  MaxCalls = 2
SYMMETRY MCSymmetry
INVARIANTS
  UnownedWritersIdle
  StopHonest
  CallsAccounted
  DescriptorsBalance
CHECK_DEADLOCK FALSE
