\* Loops, dividers, skips, and pauses, the UI outside the known windows.
SPECIFICATION FairSpec
CONSTANTS
  Lengths <- TwoSongs
  HasLevels = FALSE
  Prefetch = 2
  LvlMax = 1
  LvlRatio = 8
  LoopCap = 3
  LoopBase = 4
  Divisors <- LoopDivisors
  FirstDiv = 2
  Windows = {"request", "dirty", "seam", "refill"}
  Gestures = {"loop", "divider", "skip"}
  Faults = {}
INVARIANTS
  InStep
  Momentary
  LoopHeld
  NeverStarved
PROPERTIES
  SkipHonoured
  SkipServed
