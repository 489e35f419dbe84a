\* Keys, jack, saves, power off and failures; the UI runs between main's steps.
SPECIFICATION Spec
CONSTANTS
  MaxVol = 2
  DefaultVol = 1
  Races = {}
  Faults = {"io", "i2c", "reset"}
INVARIANTS
  VolumeKept
  OneOutput
  HeadphoneLevel
