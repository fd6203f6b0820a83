SPECIFICATION SequentialSpec
CONSTANTS
  alice = alice
  bob = bob
  carol = carol
  o1 = o1
  o2 = o2
  o3 = o3
  w1 = w1
  w2 = w2
  NoOrder = NoOrder
  Users <- MCUsers
  Orders <- MCOrders
  Workers <- OneWorker
  Requests <- MixedRequests
  Amendments <- BothWays
  InitialCash <- MCCash
  InitialShares <- MCShares
  EagerClients = FALSE
  Faults = FALSE
  MaxAmends = 2
SYMMETRY OrderSymmetry
CHECK_DEADLOCK FALSE
INVARIANTS
  BookMirrorsOrders
  CancelledStaysUnfilled
  FillsPrepaid
  ReservationExact
PROPERTIES
  PriceTimePriority
