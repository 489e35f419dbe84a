\* Card writes, reads and commands fail, the host drops out, the player resets.
SPECIFICATION Spec
CONSTANTS
  s1 = s1
  s2 = s2
  s3 = s3
  Songs = {s1, s2, s3}
  NoName = NoName
  MaxSongs = 2
  PerBlock = 1
  DataStart = 3
  Capacity = 6
  Word = 8
  AudioSizes = {1}
  LevelSizes = {0, 1}
  Commands = {"multiblock", "block", "remove", "format", "skip"}
  Faults = {"io", "host", "crash"}
SYMMETRY Symmetry
INVARIANTS
  AckedIntact
  
  StreamAligned
  NoNesting
