SPECIFICATION Spec
CONSTANTS
  Ids = {1, 2, 3, 4}
  Seeds <- MCSeeds
  Clocks <- MCClocks
  Sessions <- MCSessions
  Teams = {"x", "y"}
  Focuses = {"disputes", "listing", "keys", "clocks", "books", "risk", "letters", "files", "tenant"}
  Retention = 2
  PageLimit = 1
  MaxTx = 2
  MaxCalls = 3
  MaxTime = 4
INVARIANTS
  FakeIsLikePostgres
  WalkMissesNothing
  RepeatsOnlyAfterRetention
PROPERTY
  StaysInScope
CONSTRAINT MCQuiet
CHECK_DEADLOCK FALSE
