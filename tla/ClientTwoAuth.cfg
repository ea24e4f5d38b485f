SPECIFICATION Spec
CONSTANTS
  t1 = t1
  t2 = t2
  Threads = {t1, t2}
  Calls <- TwoAuthenticators
  Sessions = {s1, s2}
  NoSession = NoSession
  Hooks = {}
  NoHook = NoHook
  HookCalls = {}
  AutomaticHeartbeats = TRUE
SYMMETRY SessionSymmetry
INVARIANTS
  ShutdownEndsSessions
