\* Two blocks of one instruction, programs of up to four, one or two
\* operations in a round.
SPECIFICATION Spec
CONSTANTS
  BlockCount = 2
  InstPerBlock = 1
  MaxOperationCount = 2
  EnableRV64A = FALSE
  EnableRV64IM = FALSE
  EnableMemorySequence = TRUE
  Variants = {1}
  SampledTypes <- MCSampledTypes
  Samples <- MCSamples
  MaxSize = 4
INVARIANTS
  TypeOK
  ProgramAssembles
  NoBlockRunsEmpty
PROPERTIES
  AccessFollowsItsLoad
