\* Both threads on the bus; bad answers and CRCs, failed boots, a reset at any
\* time.
SPECIFICATION FairSpec
CONSTANTS
  MaxScan = 1
  Faults = {"bus", "crc", "boot", "reset"}
INVARIANTS
  TypeOK
  Legal
  ScratchMine
  Settled
  PoweredClean
PROPERTIES
  FeedServed
