SPECIFICATION Spec
CONSTANTS
  o1 = o1  o2 = o2  btc = btc  eth = eth
  Orders <- MCOrders
  Symbols <- MCSymbols
  Requests <- MCRequests
  MaxQty = 3
  MaxPrice = 2
  MockPrice = 2
  Fee = 1
  MaxNotional = 2
  MaxExposure = 3
  MaxPositions = 1
  Cash0 = 0
  HasBalance = TRUE
  NoTask = NoTask
  None = None
SYMMETRY Symmetry
INVARIANTS
  TypeOK
  WriteAhead
  NoSyntheticFill
  RowsSettle
  LedgerFollowsFills
PROPERTIES
  FillKeepsLimits
  StopHolds
  RowsMoveForward
  FollowsLifecycle
CHECK_DEADLOCK FALSE
