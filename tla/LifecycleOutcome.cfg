\* A Regulation E dispute, lost and then won on appeal.
SPECIFICATION Spec
CONSTANTS
  Rules <- MCRegE
  Amounts <- MCAmounts
  Liabilities = {0}
  Settlements = {""}
  AddressBooks <- MCFullAddress
  Teams = {"cards"}
  MovesBefore = {}
INVARIANT ResolutionTellsTheOutcome
CHECK_DEADLOCK FALSE
