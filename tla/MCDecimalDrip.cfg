SPECIFICATION Spec
CONSTANTS
  Precision = 5
  Unit = 1000
  MaxShift = 15
  PolicyLists <- MCPolicyLists
  Deposits <- MCDeposits
  TokenLists <- MCTokenLists
  OneToken <- MCOneToken
  Prices <- OnePrice
  EthUSD <- MCEthUSD
  MaxDripUSD <- MCMaxDripUSD
  DripAmounts <- TestedAmounts
  MaxChanges = 0
CHECK_DEADLOCK FALSE
INVARIANT DripIsAsTested
