SPECIFICATION FairSpec
CONSTANTS
  c1 = c1  c2 = c2  coinbase = coinbase  alpaca = alpaca  kraken = kraken
  usd = usd  equity = equity
  Calls <- MCCalls
  Venues <- MCVenues
  Strangers <- MCStrangers
  Assets <- MCAssets
  Kept <- MCKept
  MaxUnits = 1
  NoCall = NoCall
INVARIANTS
  TypeOK
  ReportMatchesStatus
  DiscrepancyHasCause
PROPERTIES
  ReconciliationEnds
CHECK_DEADLOCK FALSE
