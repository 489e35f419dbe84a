\* Every command; the host may stall or go away, the card works.
SPECIFICATION Spec
CONSTANTS
  s1 = s1
  s2 = s2
  s3 = s3
  Songs = {s1, s2, s3}
  NoName = NoName
  MaxSongs = 3
  PerBlock = 2
  DataStart = 3
  Capacity = 7
  Word = 8
  AudioSizes = {0, 1, 2}
  LevelSizes = {0, 1, 7}
  Commands = {"multiblock", "block", "remove", "swap", "format", "power", "skip"}
  Faults = {"host"}
SYMMETRY Symmetry
INVARIANTS
  PlayerWhole

  
