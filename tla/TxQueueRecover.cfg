\* Four blocks: three primed, one for the hand.  Three unexplained failures
\* are enough for a refused write, a failed DROP and a failed START together.
SPECIFICATION FairSpec
CONSTANTS
  NumBlocks = 4
  Wrap = 6
  MaxFaults = 3
INVARIANTS
  Conserved
  Contiguous
PROPERTIES
  FullRunway
  KeepsFeeding
  Flows
\* The thread may end before the stream first runs.
CHECK_DEADLOCK FALSE
