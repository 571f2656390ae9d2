\* A SEPA credit whose answer is lost, repeated after the dispute changed team.
SPECIFICATION Spec
CONSTANTS
  Rules <- MCSepa
  Amounts = {6000}
  AddressBooks <- MCFullAddress
  Teams = {"cards", "fraud"}
  Tiers = {"LOW"}
  Workers = {"w1"}
  Requests <- MCPay
  MaxTries = 2
INVARIANT NotPaidTwice
CHECK_DEADLOCK FALSE
