SPECIFICATION Spec
CONSTANTS
  NumBlocks = 2
  BlockSize = 2
  SecuritySize = 1
  QueueSize = 4
  Erased = Erased
  Damaged = Damaged
  NoiseSums <- MCNoiseSums
  Contents <- MCContents
  StackGarbage <- MCStackGarbage
  Images <- MCTwoImages
  MaxPending = 1
INVARIANTS
  TypeOK
  VerifiedMeansFlashed
  BlocksInStep
  ChecksumDefined
PROPERTIES
  RestartedMeansDone
  SecuredOnceVerified

