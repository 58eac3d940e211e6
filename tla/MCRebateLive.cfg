SPECIFICATION FairSpec
CONSTANTS
  t1 = t1  m1 = m1  c1 = c1  r1 = r1  r2 = r2
  ERC20Deposits <- MCNone
  MetisDeposits <- MCNone
  ETHDeposits <- MCETH
  StartFrom = 1
  ConfirmationNumber = 1
  RangeSync = 1
  DripHeight = 2
  MaxHead = 4
  MaxReorg = 1
  MaxLag = 0
  MaxLostAcks = 1
  Receivers <- MCReceivers
  To <- MCLiveTo
  Contracts <- MCNone
  Stuck <- MCNone
  BatchLimit = 2
  PendingLimit = 1
  MinBalance = 1
  ReservedBalance = 1
  MaxBalance = 2
PROPERTY DepositHandled
