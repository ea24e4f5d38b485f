SPECIFICATION MCSpec
CONSTANTS
  p1 = p1
  p2 = p2
  firmware = firmware
  gpu_id = gpu_id
  monitor_edid = monitor_edid
  Schema <- MCSchema
  Sources <- MCSources
  Members <- MCMembers
  CurrentName <- MCCurrentName
  Legacies <- MCLegacies
  Slots <- MCSlots
  Secret = "slstore"
  Absent = Absent
  Apps = {p1, p2}
  c1 = c1
  c2 = c2
  Callers = {c1, c2}
  Overlapping = FALSE
  Drifting = {firmware, gpu_id, monitor_edid}
  Values = {v1, v2}
  Steady = v1
  Wantable <- MCWantable
  Forcing = {FALSE, TRUE}
  MaxDrifts = 3
  MaxLaunches = 3
  NoHelper = NoHelper
  NoApp = NoApp
INVARIANTS
  TypeOK
  HelperOpens
  OneIdentity
  AnyTwoMayFail
PROPERTIES
  StableKey
  HardLocksStay
  BlameIsFair
  ImplementsStore
SYMMETRY MCSymmetry
CHECK_DEADLOCK FALSE
