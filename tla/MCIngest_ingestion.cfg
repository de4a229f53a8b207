SPECIFICATION FairSpec
CONSTANTS
  b1 = b1  b2 = b2  d1 = d1  d2 = d2  m1 = m1  m2 = m2  m3 = m3
  own = own  global = global
  u1 = u1  u2 = u2
  NULL = NULL
  Unusable = Unusable
  maxTemplateLength = 40
  Businesses = {b1, b2}
  Devices = {d1, d2}
  OwnerOf <- Owners
  Messages = {m1, m2, m3}
  DeviceOf <- Phones
  Providers = {own, global}
  Info <- Templates
  TrxIds = {"t1", "t2"}
  AllowUnsafe = FALSE
  MaxMoney = 1000
  SenderOf <- Senders
  Found <- Captured
  Endings <- Scripts
  Readings <- Table
  Batches <- Sends
  Uploads = {u1, u2}
INVARIANTS OneTransactionPerMessage RightTemplate AsTheSmsSays ParsedIsRecorded
PROPERTIES ImplementsInbox RecordsAreFinal DeactivatedIsUnused StoredMessagesSettle
CHECK_DEADLOCK FALSE
