SPECIFICATION Spec
CONSTANTS
  MaxBeats = 3
INVARIANTS
  TokenSync
  NeverRefused
  SurvivesLoss
  CountExact
CHECK_DEADLOCK FALSE
