SPECIFICATION LoopSpec
CONSTANTS
  Names = {r1, r2, r3}
  Prices = {1, 2}
  Quantities = {1, 2, 3}
CHECK_DEADLOCK FALSE
INVARIANTS
  AllocationIsTheLoop
