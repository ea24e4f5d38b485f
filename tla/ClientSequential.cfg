SPECIFICATION FairSpec
CONSTANTS
  t1 = t1
  t2 = t2
  Threads = {t1}
  Calls <- SequentialCalls
  Sessions = {s1, s2}
  NoSession = NoSession
  Hooks = {h1}
  NoHook = NoHook
  HookCalls = {}
  AutomaticHeartbeats = TRUE
INVARIANTS
  OneLoop
  ShutdownClearsToken
  HookInSync
PROPERTIES
  CallsReturn
  LoopEnds
  FailureNotified
