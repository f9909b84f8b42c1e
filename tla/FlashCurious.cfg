SPECIFICATION CuriousSpec
CONSTANTS
  NumBlocks = 2
  BlockSize = 2
  SecuritySize = 1
  QueueSize = 4
  Erased = Erased
  Damaged = Damaged
  NoiseSums <- MCNoiseSums
  Contents <- MCContents
  StackGarbage <- MCStackGarbage
  Images <- MCAlike
  MaxPending = 1
INVARIANTS
  NeverOverrun
  OneReply
PROPERTIES
  WrittenOnceErased
  OnlyGenuineFlashed
