SPECIFICATION Spec
CONSTANTS
  Half = 32
  Times <- NearTimes
  Now = 10
  Skew = 2
  Pinned = FALSE
  MaxFaults = 3
INVARIANTS
  UnsignedOnlyRevokes
  GrantIsFresh
  AnswersUnderstood
CHECK_DEADLOCK FALSE
