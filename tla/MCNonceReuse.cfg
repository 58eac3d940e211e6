SPECIFICATION Spec
CONSTANTS
  e1 = e1  e2 = e2  e3 = e3  r1 = r1  r2 = r2
  Event <- MCEvent
  Receivers <- MCReceivers
  To <- MCTo
  Heights <- MCHeights
  Contracts <- MCNone
  Stuck <- MCNone
  BatchLimit = 2
  PendingLimit = 2
  MinBalance = 1
  ReservedBalance = 2
  MaxBalance = 2
  MaxDeposits = 3
INVARIANT DripsCanBeMined
