\* One build of each pass on every netlist of MCInstrument.
CONSTANTS
  MaxDepth = 5
  MaxBit = 6
  MaxWidth = 2
  Far = 6
  CovBit = 4
  Radix = 2
  Instance <- MCInstance
  Netlists <- MCNetlists
SPECIFICATION Spec
INVARIANTS
  DepthIsShortest
  SearchIsSound
  SearchIsComplete
  DistancesSettled
  ControlFound
  MiSelectionFitsWire
  MiNearerFirst
  EveryTargetCovered
PROPERTY EveryBuildEnds
\* A build stops when the pass is done.
CHECK_DEADLOCK FALSE
