\* As SurgeDriver: the signal has one bit, or a bin for each of its values.
SPECIFICATION Spec
CONSTANTS
  HistorySize = 3
  SurgeBins = 3
  WordSize = 6
  Counts <- MCBinCounts
  CovBit = 1
  ScoreSlots = 2
  Signals <- MCSignals
INVARIANTS
  ReportedScoreIsAchieved
CHECK_DEADLOCK FALSE
