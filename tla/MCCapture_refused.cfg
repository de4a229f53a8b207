SPECIFICATION FairSpec
CONSTANTS
  s1 = s1  s2 = s2  s3 = s3  bank = bank  shop = shop
  NULL = NULL
  Sms = {s1, s3}
  Keys = {"first", "second"}
  KeyOf <- MCKeyOf
  Senders = {bank, shop}
  SenderOf <- MCSenderOf
  ReceivedAt <- MCReceivedAt
  Unacceptable = {s1}
  Lists <- MCLists
  BatchSize = 2
  MaxLoops = 2
  MaxFaults = 1
PROPERTIES UploadsWhenOnline
