SPECIFICATION RaceSpec
CONSTANTS
  alice = alice
  bob = bob
  carol = carol
  o1 = o1
  o2 = o2
  o3 = o3
  w1 = w1
  w2 = w2
  NoOrder = NoOrder
  o4 = o4
  o5 = o5
  Users <- MCUsers
  Orders <- FourOrders
  Workers <- TwoWorkers
  Requests <- RaceRequests
  Amendments <- BothWays
  InitialCash <- LowCash
  InitialShares <- MCShares
  EagerClients = FALSE
  Faults = TRUE
  MaxAmends = 1
SYMMETRY RaceSymmetry
CHECK_DEADLOCK FALSE
INVARIANTS
  TypeOK
  WalletNeverNegative
  SharesConserved
  MatchedOnce
  CancelledOnce
  CancelledStaysClosed
