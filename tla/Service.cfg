\* Two workers; a Regulation E credit against the questionnaire, a card close repeated
\* around an appeal, and a SEPA credit and close against a change of team.
SPECIFICATION FairSpec
CONSTANTS
  Rules <- MCScenarios
  Amounts = {6000}
  AddressBooks <- MCFullAddress
  Teams = {"cards", "fraud"}
  Tiers = {"LOW", "HIGH"}
  Workers = {"w1", "w2"}
  Requests <- MCRequests
  MaxTries = 2
CONSTRAINT MCOneQuestion
INVARIANTS
  KeyAppliedOnce
  LedgerBackedByCore
PROPERTIES
  NoCreditUnderHold
  CommitsAreLifecycleSteps
  EveryRequestEnds
\* Once every request has been sent MaxTries times nothing is left to do.
CHECK_DEADLOCK FALSE
