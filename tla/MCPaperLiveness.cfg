SPECIFICATION FairSpec
CONSTANTS
  o1 = o1  o2 = o2  btc = btc  eth = eth
  Orders <- MCOrders
  Symbols <- MCSymbols
  Requests <- MCMixedRequests
  MaxQty = 3
  MaxPrice = 1
  MockPrice = 2
  Fee = 1
  MaxNotional = 2
  MaxExposure = 3
  MaxPositions = 1
  Cash0 = 0
  HasBalance = TRUE
  NoTask = NoTask
  None = None
PROPERTIES
  SubmissionEnds
CHECK_DEADLOCK FALSE
