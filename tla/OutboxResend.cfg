\* One dispatcher, one file, an email sent again.
SPECIFICATION Spec
CONSTANTS
  d1 = d1
  d2 = d2
  Dispatchers = {d1}
  Files = {"f1"}
  Batch = 1
  MaxNotices = 2
  MaxFaults = 0
INVARIANT ResendCarriesFiles
CHECK_DEADLOCK FALSE
