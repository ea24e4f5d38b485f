SPECIFICATION Spec
CONSTANTS
  MaxRevision = 4
INVARIANTS
  SkipIsRight
  KnownNotAhead
CHECK_DEADLOCK FALSE
