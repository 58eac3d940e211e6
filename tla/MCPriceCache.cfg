SPECIFICATION Spec
CONSTANTS
  Tokens = {"weth", "other"}
  Ether = "0"
  WETH = "weth"
  Duration = 3
  CallTimeout = 1
  Hour = 3
  MaxTime = 7
CHECK_DEADLOCK FALSE
INVARIANTS TypeOK PriceIsFresh NoInfoIsTrue
