\* Registers are pushed off the wire by farther ones ("closer").
CONSTANTS
  MaxDepth = 5
  MaxBit = 6
  MaxWidth = 2
  Far = 6
  CovBit = 4
  Radix = 2
  Instance <- MCInstance
  Netlists <- MCNetlists
SPECIFICATION Spec
INVARIANT CloserStaysOnWire
\* A build stops when the pass is done.
CHECK_DEADLOCK FALSE
