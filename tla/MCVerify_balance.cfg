SPECIFICATION Spec
CONSTANTS
  b1 = b1  b2 = b2  d1 = d1  d2 = d2  p1 = p1  p2 = p2
  t1 = t1  t2 = t2  r1 = r1  r2 = r2
  NULL = NULL
  Businesses = {b1}
  Devices = {d1}
  Providers = {p1, p2}
  TrxIds = {t1, t2}
  ExtIds = {"e1"}
  Requests = {r1}
  Amounts = {1}
  OwnerOf <- OneOwner
  OrderInputs <- BalanceOrders
  TxInputs <- BalanceTxs
  CalibrationInputs <- BalanceCalibrations
  MaxAttempts = 9
  Window = 1
  MaxClock = 2
SYMMETRY RequestSymmetry
INVARIANTS PaidContinuity
CHECK_DEADLOCK FALSE
