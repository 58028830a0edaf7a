\* A history as long as the score bitmap, as in the source (both 256), and a
\* word of twice that length, so that trace_count wraps.
SPECIFICATION Spec
CONSTANTS
  HistorySize = 3
  SurgeBins = 3
  WordSize = 6
  Counts <- MCCounts
  CovBit = 1
  ScoreSlots = 2
  Signals <- MCSignals
INVARIANTS
  TypeOK
  FreqCountsHistory
  BestIsExactBelowBins
  CoverageIsOfOneClock
PROPERTIES
  ImplementsMeaning
CHECK_DEADLOCK FALSE
