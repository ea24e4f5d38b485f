SPECIFICATION Spec
CONSTANTS
  u1 = u1
  Procs = {p1, p2, p3}
  Dirs = {u1}
  dir <- OneUser
  NoFile = NoFile
  Crashing = {p1}
  FailingWrites = {}
  MaxAcquires <- Once
  MaxPolls = 1
PROPERTIES
  RemovesWhatItChecked
CHECK_DEADLOCK FALSE
