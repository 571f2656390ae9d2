\* Two dispatchers, two emails in batches of two, one file, any two faults.
SPECIFICATION FairSpec
CONSTANTS
  d1 = d1
  d2 = d2
  Dispatchers <- MCDispatchers
  Files = {"f1"}
  Batch = 2
  MaxNotices = 2
  MaxFaults = 2
INVARIANTS
  SentWasAccepted
  DeliveredOnce
  FilesArrive
PROPERTY EveryNoticeSent
