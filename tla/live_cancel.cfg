SPECIFICATION Spec
CONSTANTS
  order = order
  Orders <- MCOrders
  Qty = 1
  MaxReplays = 0
  Cached = TRUE
  Faults = FALSE
CHECK_DEADLOCK FALSE
INVARIANTS
  NoUnfundedFill
