\* A reset in the middle of an upload.
SPECIFICATION Spec
CONSTANTS
  s1 = s1
  s2 = s2
  Songs = {s1, s2}
  NoName = NoName
  MaxSongs = 2
  PerBlock = 1
  DataStart = 3
  Capacity = 6
  Word = 8
  AudioSizes = {1, 2}
  LevelSizes = {0}
  Commands = {"multiblock"}
  Faults = {"crash"}
SYMMETRY Symmetry
\* Once every song has been tried the host has nothing left to send.
CHECK_DEADLOCK FALSE
INVARIANT PlayableCommitted
