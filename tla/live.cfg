SPECIFICATION FairSpec
CONSTANTS
  order = order
  Orders <- MCOrders
  Qty = 3
  MaxReplays = 1
  Cached = TRUE
  Faults = TRUE
CHECK_DEADLOCK FALSE
INVARIANTS
  TypeOK
  SettledIsFilled
  RefundedOnce
  StatusTellsFills
  RefundIsSafe
PROPERTIES
  FillsAreSettled
