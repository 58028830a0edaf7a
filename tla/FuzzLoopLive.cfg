\* Two cycles, stopped by the timeout; all a simulator prints fits in its
\* pipes.
SPECIFICATION FairSpec
CONSTANTS
  Point = {p1}
  SurgeBins = 2
  Line <- MCLine
  CrashLines <- MCCrashLines
  PipeCapacity = 1
  MaxOut = 1
  MaxErr = 1
  MaxClocks = 1
  InitialSeedCount = 1
  TotalCycles = 0
  TimeoutEnabled = TRUE
  MaxCycles = 2
PROPERTIES
  StopsAfterTimeout
  EveryCycleBooked
