SPECIFICATION FairSpec
CONSTANTS
  ann = ann
  ben = ben
  d1 = d1
  d2 = d2
  NoWallet = NoWallet
  Users <- MCUsers
  Deposits <- MCDeposits
  Owner <- MCOwner
  Amount <- MCAmount
  Opening <- MCOpening
  Sums = {1, 2}
  MaxDeliveries = 3
CHECK_DEADLOCK FALSE
INVARIANTS
  TypeOK
PROPERTIES
  KeepsPromise
  PaidInTimeIsCredited
