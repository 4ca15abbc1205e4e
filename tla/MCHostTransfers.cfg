SPECIFICATION Spec
CONSTANTS
  j1 = j1
  j2 = j2
  j3 = j3
  n1 = n1
  p1 = p1
  Transfer = {j1, j2, j3}
  Identity = {n1}
  Epoched = {}
  Process = {p1}
  Operation = {"d2h_preserve", "h2d_restore"}
  ProcessOf <- MCProcessOf
  Time <- MCTime
  NoReceipt = NoReceipt
  MaxCorrelatedTransfers = 2
  MaxRecoveryAdmissions = 1
  RetainRestoreReceipts = FALSE
  MaxRecords = 5
  MinDuration = 0
  MalformedEnds = TRUE
  BytesReported = {TRUE, FALSE}
  MaxBindingTransfers = 2
  MaxPendingRecords = 1
VIEW MCView
SYMMETRY MCSymmetry
INVARIANTS
  TypeOK
  BindingWithinNormalizer
  EndsFollowStarts
  LeftoversExplained
PROPERTY StreamContract
CHECK_DEADLOCK FALSE
