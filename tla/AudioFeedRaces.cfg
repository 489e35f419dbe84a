\* The UI between any two steps of the feed, any loop, failing reads.
SPECIFICATION Spec
CONSTANTS
  Lengths <- ShortSongs
  HasLevels = TRUE
  Prefetch = 1
  LvlMax = 1
  LvlRatio = 8
  LoopCap = 2
  LoopBase = 3
  Divisors <- OneDivisor
  FirstDiv = 1
  Windows = {"request", "arm", "preload", "read", "clear", "dirty", "serve", "seam", "change", "refill"}
  Gestures = {"loop", "divider", "uncache", "atEnd", "skip"}
  Faults = {"io"}
INVARIANTS
  InPool
  LvlSafe
