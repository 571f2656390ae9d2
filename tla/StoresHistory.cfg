SPECIFICATION Spec
CONSTANTS
  Ids = {1, 2, 3, 4}
  Seeds <- MCSeeds
  Clocks <- MCClocks
  Sessions <- MCSessions
  Teams = {"x", "y"}
  Focuses = {"disputes"}
  Retention = 2
  PageLimit = 1
  MaxTx = 1
  MaxCalls = 3
  MaxTime = 2
INVARIANT
  HistoryIsTheAccounts
CHECK_DEADLOCK FALSE
