SPECIFICATION ProcSpec
CONSTANTS
  NumBlocks = 3
  BlockSize = 1
  SecuritySize = 1
  QueueSize = 3
  Erased = Erased
  Damaged = Damaged
  NoiseSums <- MCNoiseSums
  Contents <- MCContents
  Loadable <- MCLoadable
INVARIANTS
  ProcInv
PROPERTIES
  DoneMeansFlashed
  ProgramsErasedCells
