SPECIFICATION Spec
CONSTANTS
  s1 = s1
  s2 = s2
  Sink = {s1, s2}
  NoSink = NoSink
  MaxRecordCells = 2
  MaxFileCells = 5
  MaxWrites = 2
  MaxForks = 1
INVARIANTS
  TypeOK
  FileBounded
  WrittenIntact
  LinesSeparate
PROPERTY
  LockFreed
CHECK_DEADLOCK FALSE
