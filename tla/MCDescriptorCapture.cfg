SPECIFICATION Spec
CONSTANTS
  c1 = c1
  c2 = c2
  i1 = i1
  i2 = i2
  Capture = {c1, c2}
  NoCapture = NoCapture
  Inventory = {i1}
  NoInventory = NoInventory
  MaxPending = 1
  MaxSubmits = 2
INVARIANTS
  TypeOK
  FinalComplete
  WrittenStays
  LeftoversExplained
  Drained
PROPERTY
  CloseEnds
CHECK_DEADLOCK FALSE
