SPECIFICATION FairSpec
CONSTANTS
  sell = sell
  buy = buy
  pass1 = pass1
  pass2 = pass2
  Ticks = Ticks
  Sweep = Sweep
  Nobody = Nobody
  Orders <- TwoOrders
  Lots <- LotsOfOrders
  Passes <- TwoPasses
  Contract = "OPTION"
  Rates <- TwoRates
  Balances <- SomeBalances
  Positions <- LongOne
  MaxFills = 2
  EagerClients = FALSE
  MaxFaults = 1
  Expiry = TRUE
CHECK_DEADLOCK FALSE
INVARIANTS
  TypeOK
  LedgerBalances
  KeepsFills
  ReadsAreCurrent
  MarginFollowsPosition
  CancelledHoldsNothing
PROPERTIES
  PassesFinish
