\* As SurgeDriver: a coverage wire of CovBit bits, a bitmap of 2^CovBit bytes.
SPECIFICATION Spec
CONSTANTS
  HistorySize = 3
  SurgeBins = 3
  WordSize = 6
  Counts <- MCCounts
  CovBit = 1
  ScoreSlots = 2
  Signals <- MCSignals
INVARIANTS
  IndexInBitmap
CHECK_DEADLOCK FALSE
