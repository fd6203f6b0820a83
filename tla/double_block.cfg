SPECIFICATION Spec
CONSTANTS
  sell = sell
  buy = buy
  pass1 = pass1
  pass2 = pass2
  Ticks = Ticks
  Sweep = Sweep
  Nobody = Nobody
  Orders <- TwoOrders
  Lots <- LotsOfOrders
  Passes <- TwoPasses
  Contract = "OPTION"
  Rates <- TwoRates
  Balances <- SomeBalances
  Positions <- LongOne
  MaxFills = 2
  EagerClients = FALSE
  MaxFaults = 0
  Expiry = FALSE
CHECK_DEADLOCK FALSE
INVARIANT FilledHoldsNothing
