\* Every path of a dispute under every regime, appeal included.
SPECIFICATION Spec
CONSTANTS
  Rules <- rules
  Amounts <- MCAmounts
  Liabilities <- MCLiabilities
  Settlements <- MCSettlements
  AddressBooks <- MCAddressBooks
  Teams = {"cards", "fraud"}
  MovesBefore = {0}
CONSTRAINT MCMoves
INVARIANTS
  TypeOK
  OneAdvance
  ClosedBooksBalance
  ReversalReturnsTheCredit
  ResolutionClockRuns
  RefundClockTruthful
  CustomerIsTold
\* A closed dispute whose appeal is used up takes no further step.
CHECK_DEADLOCK FALSE
