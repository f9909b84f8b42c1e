SPECIFICATION FairSpec
CONSTANTS
  NumBlocks = 2
  BlockSize = 2
  SecuritySize = 1
  QueueSize = 4
  Erased = Erased
  Damaged = Damaged
  NoiseSums <- MCNoiseSums
  Contents <- MCContents
  StackGarbage <- MCStackGarbage
  Images <- MCOneImage
  MaxPending = 1
PROPERTIES
  Concludes
  ImplementsProcedure
