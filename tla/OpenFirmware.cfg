SPECIFICATION OpenSpec
CONSTANTS
  NumBlocks = 2
  BlockSize = 1
  SecuritySize = 1
  QueueSize = 2
  Erased = Erased
  Damaged = Damaged
  NoiseSums <- MCNoiseSums
  Contents <- MCContents
  StackGarbage <- MCStackGarbage
  HostItems <- MCHostItems
  MaxItems = 5
CHECK_DEADLOCK FALSE
INVARIANT
  SumFollowsBlocks
PROPERTY
  SuccessCoversBank
  ChecksumAnswers
