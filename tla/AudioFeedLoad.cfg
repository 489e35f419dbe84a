\* Uploads and reloads between loops, skips and pauses.
SPECIFICATION Spec
CONSTANTS
  Lengths <- FewBlocks
  HasLevels = FALSE
  Prefetch = 2
  LvlMax = 1
  LvlRatio = 8
  LoopCap = 3
  LoopBase = 3
  Divisors <- OneDivisor
  FirstDiv = 1
  Windows = {"request", "dirty", "seam", "refill"}
  Gestures = {"loop", "skip", "load"}
  Faults = {}
INVARIANTS
  InStep
