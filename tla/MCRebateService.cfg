SPECIFICATION Spec
CONSTANTS
  t1 = t1  m1 = m1  c1 = c1  r1 = r1  r2 = r2
  ERC20Deposits <- MCERC20
  MetisDeposits <- MCMetis
  ETHDeposits <- MCETH
  StartFrom = 1
  ConfirmationNumber = 1
  RangeSync = 1
  DripHeight = 3
  MaxHead = 5
  MaxReorg = 1
  MaxLag = 1
  MaxLostAcks = 1
  Receivers <- MCReceivers
  To <- MCTo
  Contracts <- MCContracts
  Stuck <- MCNone
  BatchLimit = 2
  PendingLimit = 1
  MinBalance = 1
  ReservedBalance = 1
  MaxBalance = 1
INVARIANTS RebatesAreEarned OneRebatePerDeposit
PROPERTY KeepsLedger
