SPECIFICATION RegistrySpec
CONSTANTS
  u1 = u1
  u2 = u2
  p2 = p2
  Procs = {p1, p2, p3}
  Dirs = {u1, u2}
  dir <- TwoUsers
  NoFile = NoFile
  Crashing = {}
  FailingWrites = {}
  MaxAcquires <- Once
  MaxPolls = 0
  HKLM = HKLM
  NoRoot = NoRoot
  MayElevate = {p2}
  FailingRegs = {}
  NoHelper = NoHelper
  Forcing = {FALSE}
INVARIANTS
  SameReports
CHECK_DEADLOCK FALSE
