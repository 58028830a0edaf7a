\* Up to two instances and the target, with four bits in all.
CONSTANTS
  ByteBits = 1
  WordBytes = 2
  MaxInstances = 2
  MaxBits = 4
  MaxStateBits = 3
  Target = target
  None = none
SPECIFICATION Spec
INVARIANTS
  LayoutTypeOK
  ImplementsPoints
  EnvironmentFitsWires
