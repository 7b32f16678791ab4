SPECIFICATION Spec
CONSTANTS
  c1 = c1  c2 = c2  coinbase = coinbase  alpaca = alpaca  kraken = kraken
  usd = usd  equity = equity
  Calls <- MCCalls
  Venues <- MCTwoVenues
  Strangers <- MCStrangers
  Assets <- MCAssets
  Kept <- MCKept
  MaxUnits = 1
  NoCall = NoCall
PROPERTIES
  UnknownBlocksVenue
CHECK_DEADLOCK FALSE
