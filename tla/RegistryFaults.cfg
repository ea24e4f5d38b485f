SPECIFICATION RegistryFairSpec
CONSTANTS
  u1 = u1
  u2 = u2
  p2 = p2
  Procs = {p1, p2}
  Dirs = {u1}
  dir <- OneUser
  NoFile = NoFile
  Crashing = {p1}
  FailingWrites = {p1}
  MaxAcquires <- HealthyThrice
  MaxPolls = 1
  HKLM = HKLM
  NoRoot = NoRoot
  MayElevate = {p1, p2}
  FailingRegs = {p1}
  NoHelper = NoHelper
  Forcing = {FALSE, TRUE}
INVARIANTS
  RegistryTypeOK
  MutualExclusion
  HolderMarked
  NothingLeft
  OneReport
PROPERTIES
  RemovesWhatItChecked
  ImplementsStore
  IdentityKept
  AcquireReturns
CHECK_DEADLOCK FALSE
