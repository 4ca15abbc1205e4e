SPECIFICATION Spec
CONSTANTS
  t1 = t1
  t2 = t2
  e1 = e1
  e2 = e2
  n1 = n1
  p1 = p1
  k1 = k1
  k2 = k2
  k3 = k3
  k4 = k4
  Transfer = {t1, t2}
  Identity = {e1, e2, n1}
  Epoched = {e1, e2}
  Process = {p1}
  ProcessOf <- MCOneProcess
  Time <- MCTime
  NoReceipt = NoReceipt
  Receipt = {k1, k2, k3, k4}
  ReceiptProcess <- MCReceiptProcess
  MaxLog = 10
SYMMETRY MCSymmetry
INVARIANTS
  JudgesExactly
CHECK_DEADLOCK FALSE
