SPECIFICATION FairSpec
CONSTANTS
  m1 = m1  c1 = c1
  ERC20Deposits <- MCMetis
  MetisDeposits <- MCMetis
  ETHDeposits <- MCETH
  StartFrom = 2
  ConfirmationNumber = 2
  RangeSync = 1
  DripHeight = 4
  MaxHead = 8
  MaxReorg = 2
  MaxLag = 1
  MaxLostAcks = 2
INVARIANTS NoMissedDeposit RecordedIsCanonical NoDuplicateRow ExtraRowsBounded
PROPERTIES CursorNeverMovesBack SyncCatchesUp
