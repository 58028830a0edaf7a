\* Two campaigns side by side or one after the other, with two cycles in all.
CONSTANTS
  Process = {p1, p2}
  Rows = {1, 2, 3}
  Wirebits = {b}
  Dist <- MCDist
  MaxEnergy = 25
  MinEnergy = 0
  Undefined = undefined
  None = none
  MaxSegments = 4
  MaxRuns = 2
  MaxClocks = 2
SYMMETRY Symmetry
SPECIFICATION Spec
INVARIANTS
  SessionTypeOK
  MarksAreOfThisRun
  OnlyExitsLeak
  EnergyFollowsDistance
PROPERTIES
  BitmapGrowsByOwnRun
  CrashFilesSurvive
\* All campaigns may have ended.
CHECK_DEADLOCK FALSE
