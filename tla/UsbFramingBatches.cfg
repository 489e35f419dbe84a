CHECK_DEADLOCK FALSE
SPECIFICATION FairSpec
CONSTANTS
  Ids = 3
  Hdr = 2
  MaxPayload = 2
  Block = 2
  RingSize = 5
  Payloads = {0, 2, 3}
  Counts = {1, 2, 3}
  Faults = {"card", "late", "dies"}
INVARIANTS TypeOK NoPhantom BatchWhole OneAnswer
PROPERTIES Answered
