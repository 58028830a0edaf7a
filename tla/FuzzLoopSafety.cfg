\* Three cycles, two initial seeds; a pipe of one chunk, so that a simulator
\* can block: the system may stop there, hence no deadlock check.
SPECIFICATION Spec
CONSTANTS
  Point = {p1, p2}
  SurgeBins = 2
  Line <- MCLine
  CrashLines <- MCCrashLines
  PipeCapacity = 1
  MaxOut = 2
  MaxErr = 0
  MaxClocks = 1
  InitialSeedCount = 2
  TotalCycles = 3
  TimeoutEnabled = FALSE
  MaxCycles = 4
INVARIANTS
  TypeOK
  CoverageIsUnionOfRuns
  ChildOnlyWhileWaiting
  ScoresAreExact
  CrashLineIsExact
  LineageIsExact
  UsedCountsAreExact
  LedgerIsConsistent
  EverySeedSaved
PROPERTIES
  NothingForgotten
  ImplementsCampaign
CHECK_DEADLOCK FALSE
