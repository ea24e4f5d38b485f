SPECIFICATION MCSpec
CONSTANTS
  Radix = 128
  Slots <- MCSlots
  Secret = "slstore"
  Locked = {"slstore", "a"}
  Values = {1, 2}
  Absent = Absent
  Salts = {0, 1}
  Hashes <- MCHashes
  Keys = {8190}
  Coeffs = {1, 4567}
  Need <- MCNeed
INVARIANTS
  FieldExact
  KeyReturns
  DeadExact
CHECK_DEADLOCK FALSE
