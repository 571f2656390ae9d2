CONSTANTS
  Analysts = {"ann", "bob"}
  Keys = {"key"}
  Admins = {"bob"}
  Teams = {"general", "fraud"}
  Fixtures <- MCFixtures
  Transactions <- MCTransactions
  Regime <- MCRegime
  Actions <- MCActions
  Asks <- MCAsks
  Requests = {q1, q2}
  Replicas = {r1}
  MaxChanges = 2
  MaxMoves = 1
SPECIFICATION Spec
CONSTRAINT MCQuiet
SYMMETRY MCSymmetry
INVARIANTS AllowedWithinGuardrails ChangeAppliesOnNextRequest SeparationWhenLogSeen
PROPERTIES OnlyMembersTouchDispute

