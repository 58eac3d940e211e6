SPECIFICATION Spec
CONSTANTS
  Precision = 5
  Unit = 100
  MaxShift = 13
  PolicyLists <- MCPolicyLists
  Deposits <- MCDeposits
  TokenLists <- MCTokenLists
  OneToken <- MCOneToken
  Prices <- MCPrices
  EthUSD <- MCEthUSD
  MaxDripUSD <- MCMaxDripUSD
  DripAmounts <- MCDripAmounts
  MaxChanges = 2
CHECK_DEADLOCK FALSE
INVARIANTS TypeOK GrantIsEarned RefusalIsEarned DefaultIsRight RebateIsRight
PROPERTY ApprovesOnce
