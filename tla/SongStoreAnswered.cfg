\* Retries, aborts and stalls on a failing card all come to an end.
SPECIFICATION FairSpec
CONSTANTS
  s1 = s1
  s2 = s2
  Songs = {s1, s2}
  NoName = NoName
  MaxSongs = 2
  PerBlock = 1
  DataStart = 3
  Capacity = 5
  Word = 8
  AudioSizes = {1, 2}
  LevelSizes = {0}
  Commands = {"multiblock", "block", "remove", "format", "swap"}
  Faults = {"io", "host"}
PROPERTY Answered
