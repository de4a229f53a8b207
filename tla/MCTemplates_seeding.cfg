SPECIFICATION Spec
CONSTANTS
  b1 = b1  b2 = b2  admin = admin  i1 = i1  i2 = i2  i3 = i3
  p1 = p1  p2 = p2  a1 = a1  a2 = a2
  NULL = NULL
  Unusable = Unusable
  maxTemplateLength = 22
  Businesses = {b1, b2}
  Admin = admin
  Ids = {i1, i2}
  Builtins <- OneBuiltin
  Inputs <- Bodies
  Processes = {p1, p2}
  Withdrawals = {a1}
  Texts <- BoundedTexts
SYMMETRY Symmetry
INVARIANTS StoredIsUsable ServesSeeded CompilesTheLanguage
PROPERTIES TenantsApart DeactivatedIsFinal SeedsOnlyMissing
CHECK_DEADLOCK FALSE
