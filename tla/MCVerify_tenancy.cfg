SPECIFICATION Spec
CONSTANTS
  b1 = b1  b2 = b2  d1 = d1  d2 = d2  p1 = p1  p2 = p2
  t1 = t1  t2 = t2  r1 = r1  r2 = r2
  NULL = NULL
  Businesses = {b1, b2}
  Devices = {d1, d2}
  Providers = {p1, p2}
  TrxIds = {t1}
  ExtIds = {"e1"}
  Requests = {r1, r2}
  Amounts = {1, 2}
  OwnerOf <- TwoOwners
  OrderInputs <- TenancyOrders
  TxInputs <- TenancyTxs
  CalibrationInputs <- NoCalibrations
  MaxAttempts = 1
  Window = 1
  MaxClock = 1
SYMMETRY RequestSymmetry
INVARIANTS PaidByMatchingPayment ReadsStayTrue LimitIsOwn
CHECK_DEADLOCK FALSE
