SPECIFICATION Spec
CONSTANTS
  t1 = t1
  t2 = t2
  Threads = {t1, t2}
  Calls <- OneAuthenticator
  Sessions = {s1, s2}
  NoSession = NoSession
  Hooks = {h1}
  NoHook = NoHook
  HookCalls = {"shutdown"}
  AutomaticHeartbeats = TRUE
CHECK_DEADLOCK FALSE
SYMMETRY SessionSymmetry
INVARIANTS
  TypeOK
  HookContract
  NoOrphan
  BeatsSerialized
PROPERTIES
  ImplementsSessionLife
