SPECIFICATION Spec
CONSTANTS
  b1 = b1  b2 = b2  w1 = w1
  NULL = NULL
  Tables = {"orders", "transactions", "attempts", "messages", "devices", "businesses", "providers"}
  Ids = {1, 2, 3, 4}
  CreatedAt <- MCCreatedAt
  Inserted <- MCInserted
  Queries <- MCQueries
  PageSizes = {2}
  MaxLimit = 1
  Default = 1
  Retries = 1
  MaxItems = 2
  Walks = {w1}
INVARIANTS TypeOK NothingSkipped RepeatsNeedArrivals WalksAreBounded
CHECK_DEADLOCK FALSE
