SPECIFICATION CascadeSpec
CONSTANTS
  alice = alice
  bob = bob
  carol = carol
  o1 = o1
  o2 = o2
  o3 = o3
  w1 = w1
  w2 = w2
  o4 = o4
  o5 = o5
  NoOrder = NoOrder
  Users <- MCUsers
  Orders <- FiveOrders
  Workers <- TwoWorkers
  Requests <- CascadeRequests
  Amendments <- BothWays
  InitialCash <- MCCash
  InitialShares <- MCShares
  EagerClients = FALSE
  Faults = FALSE
  MaxAmends = 0
CHECK_DEADLOCK FALSE
INVARIANTS
  NothingLeftCrossed
PROPERTIES
  ReachedStopsTrigger
