SPECIFICATION SinkSpec
CONSTANTS
  c1 = c1
  c2 = c2
  f1 = f1
  Closer = {c1, c2}
  Flusher = {f1}
  MaxPendingRecords = 2
  MaxEmits = 4
  MaxTimeouts = 2
INVARIANTS
  QueueTypeOK
  Accounted
  NothingStranded
  FileInOrder
  FlushHonest
PROPERTIES
  CloseDrains
  AcceptedSettles
CHECK_DEADLOCK FALSE
