SPECIFICATION Spec
CONSTANTS
  b1 = b1  b2 = b2  k1 = k1  k2 = k2  d1 = d1
  t1 = t1  t2 = t2
  r1 = r1  r2 = r2  a1 = a1  a2 = a2  v1 = v1
  NULL = NULL
  Businesses = {b1, b2}
  Keys = {k1, k2}
  Devices = {d1}
  Tokens = {t1, t2}
  PrefixOf <- OnePrefix
  Versions = {v1}
  Requests = {r1, r2}
  Calls = {a1, a2}
  Interval = 1
  MaxClock = 1
SYMMETRY Symmetry
INVARIANTS ActsAsItself WithdrawnIsOut RevocationIsReported LastUsedIsFresh
PROPERTY CredentialsAreFinal
CHECK_DEADLOCK FALSE
