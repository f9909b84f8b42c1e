SPECIFICATION DetectSpec
CONSTANTS
  TransitionTimeout = 9
  TimerModulus = 16
INVARIANT
  TotalWithinOneBudget
