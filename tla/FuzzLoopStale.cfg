SPECIFICATION Spec
CONSTANTS
  Point = {p1}
  SurgeBins = 2
  Line <- MCLine
  CrashLines <- MCCrashLines
  PipeCapacity = 1
  MaxOut = 1
  MaxErr = 0
  MaxClocks = 1
  InitialSeedCount = 1
  TotalCycles = 2
  TimeoutEnabled = FALSE
  MaxCycles = 3
INVARIANTS
  NeverScoresOldImage
