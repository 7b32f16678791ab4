SPECIFICATION Spec
CONSTANTS
  NBars = 4
  TopPrice = 3
  Reach = 1
  MaxHold = 2
  Capital = 10
  Scale = 10
  Slip = 1
  Fee = 1
  Total = 12
  WalkRequests <- MCWalkRequests
  M = 3
  Unit = 8
  Ranks = 6
  Alphas <- MCAlphas
  Outlines <- MCOutlines
INVARIANTS
  TypeOK
  TradesAddUp
  FoldsSound
  RejectsTextbook
  GuardJudges
PROPERTIES
  BarsPlayedByRules
  WalkEnds
CHECK_DEADLOCK FALSE
