SPECIFICATION MCSpec
CONSTANTS
  p1 = p1
  p2 = p2
  firmware = firmware
  gpu_id = gpu_id
  monitor_edid = monitor_edid
  Schema <- MCSchema
  Sources <- MCSources
  Members <- MCMembers
  CurrentName <- MCCurrentName
  Legacies <- MCLegacies
  Slots <- MCSlots
  Secret = "slstore"
  Absent = Absent
  Apps = {p1}
  c1 = c1
  c2 = c2
  Callers = {c1, c2}
  Overlapping = TRUE
  Drifting = {firmware}
  Values = {v1, v2}
  Steady = v1
  Wantable <- MCWantable
  Forcing = {FALSE}
  MaxDrifts = 0
  MaxLaunches = 2
  NoHelper = NoHelper
  NoApp = NoApp
PROPERTIES
  StableKey
SYMMETRY MCSymmetry
CHECK_DEADLOCK FALSE
