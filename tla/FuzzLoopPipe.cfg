\* As FuzzLoopLive, but a simulator may print more than a pipe holds.
SPECIFICATION FairSpec
CONSTANTS
  Point = {p1}
  SurgeBins = 2
  Line <- MCLine
  CrashLines <- MCCrashLines
  PipeCapacity = 1
  MaxOut = 2
  MaxErr = 1
  MaxClocks = 1
  InitialSeedCount = 1
  TotalCycles = 0
  TimeoutEnabled = TRUE
  MaxCycles = 2
PROPERTIES
  StopsAfterTimeout
CHECK_DEADLOCK FALSE
