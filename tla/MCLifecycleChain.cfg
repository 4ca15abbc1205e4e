SPECIFICATION Spec
CONSTANTS
  t1 = t1
  t2 = t2
  t3 = t3
  e1 = e1
  e2 = e2
  n1 = n1
  p1 = p1
  p2 = p2
  Transfer = {t1, t2, t3}
  Identity = {e1, e2}
  Epoched = {e1, e2}
  Process = {p1, p2}
  Operation = {"h2d_restore"}
  ProcessOf <- MCOneProcess
  Time <- MCTime
  NoReceipt = NoReceipt
  MaxCorrelatedTransfers = 2
  MaxRecoveryAdmissions = 1
  RetainRestoreReceipts = TRUE
  MaxRecords = 6
SYMMETRY MCSymmetry
VIEW MCView
INVARIANTS
  TypeOK
  AdmissionsBacked
  NeverPendingAndRestored
  FirstComputeBacked
PROPERTIES
  ImplementsStream
  InvalidLeavesTables
  CapacityExact
