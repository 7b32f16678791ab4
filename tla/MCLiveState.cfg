SPECIFICATION Spec
CONSTANTS
  e1 = e1  e2 = e2
  Events <- MCEvents
  Startup = Startup
  MaxSequence = 5
  MaxEdits = 2
  m1 = m1  m2 = m2
  Messages <- MCMessages
  Malformed = Malformed
  MaxMessages = 3
  MaxAccidents = 2
  MaxChanges = 1
  btc = btc  eth = eth  r1 = r1
  Symbols <- MCSymbols
  Fills <- MCFills
  Marks <- MCMarks
  Readers <- MCReaders
  Deposit = 100
  MaxFills = 3
  Lot = 2
  Grain <- MCGrain
  None = None
  a1 = a1
  Askers <- MCAskers
  Prices <- MCPrices
  Trades <- MCTrades
  MaxTrades = 4
  Nothing = Nothing
SYMMETRY Symmetry
INVARIANTS
  TypeOK
  ChainUnbroken
  TamperingIsSeen
  RawFileKept
  MoneyConserved
  FlowAddsUp
PROPERTIES
  StartExtendsChain
  SummaryHonest
CHECK_DEADLOCK FALSE
