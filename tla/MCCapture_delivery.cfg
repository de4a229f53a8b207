SPECIFICATION FairSpec
CONSTANTS
  s1 = s1  s2 = s2  s3 = s3  bank = bank  shop = shop
  NULL = NULL
  Sms = {s1, s2, s3}
  Keys = {"first", "second"}
  KeyOf <- MCKeyOf
  Senders = {bank, shop}
  SenderOf <- MCSenderOf
  ReceivedAt <- MCReceivedAt
  Unacceptable = {}
  Lists <- MCLists
  BatchSize = 1
  MaxLoops = 1
  MaxFaults = 1
INVARIANTS SentWasHandled OneIdPerMessage
PROPERTIES ImplementsOutbox PendingIsSent ListedIsDelivered
