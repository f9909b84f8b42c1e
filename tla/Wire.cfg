SPECIFICATION Spec
CONSTANTS
  NumBlocks = 2
  BlockSize = 64
  SecuritySize = 32
  QueueSize = 128
  Erased = Erased
  Damaged = Damaged
  NoiseSums = {}
  Contents <- MCContents
  Trims <- MCTrims
  ForeignID <- MCForeignID
  Data <- MCData
INVARIANTS
  NoContention
  InStep
  InitSetsTrims
PROPERTY
  ImplementsTarget
