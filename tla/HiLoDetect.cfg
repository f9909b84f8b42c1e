SPECIFICATION FairDetectSpec
CONSTANTS
  TransitionTimeout = 9
  TimerModulus = 16
INVARIANTS
  DetectTypeOK
  WaitBounded
PROPERTY
  Returns
