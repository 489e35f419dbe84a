\* All gestures with function up last and no solo under it.
SPECIFICATION Spec
CONSTANTS
  s0 = s0
  s1 = s1
  Stems <- TwoStems
  HoldTicks = 2
  SoloTicks = 1
  Gestures = {}
  Starved = FALSE
INVARIANTS
  AllBack
PROPERTIES
  PowerOffMeant
  PowerOnMeant
  GateIsNoTap
  PowerOffWorks
