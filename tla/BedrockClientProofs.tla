------------------------- MODULE BedrockClientProofs -------------------------
(***************************************************************************)
(* What BedrockClient guarantees for any number of threads, sessions and   *)
(* hooks.                                                                  *)
(***************************************************************************)
EXTENDS BedrockClient, TLAPS

\* A goroutine that announces a failure knows whose, and a loop reaches
\* Shutdown only from its hook.
Announcing ==
  \A g \in Goroutines :
    /\ notifying[g] => sess[g] \in Sessions
    /\ pc[g] \in {"fail_hook", "in_hook", "hook_return"} => notifying[g]
    /\ g \in Sessions /\ pc[g] \in ShutLabels => notifying[g]

TypeInv == TypeOK /\ Announcing

\* The initial state is well typed.
LEMMA InitTypeInv == Init => TypeInv
  BY ConstantsAssumption DEF Init, TypeInv, TypeOK, Announcing, Goroutines,
     AuthLabels, CallLabels, LoopLabels, ShutLabels, HookLabels, BeatLabels, UsesSess, UsesPrev

\* The one exit of fail and of the hook.
LEMMA ReturnTypeInv ==
  ASSUME TypeInv, NEW g \in Goroutines, ReturnFromFail(g),
         pc[g] \in {"fail_stop", "fail_hook", "in_hook", "hook_return"},
         sess' = sess, prev' = prev, stopped' \in [Sessions -> BOOLEAN],
         UNCHANGED <<clientVars, life, sessHook, fired, granted, arg>>
  PROVE  TypeInv'
<1> USE ConstantsAssumption DEF TypeInv, TypeOK, Announcing, Goroutines, Goto,
     AuthLabels, CallLabels, LoopLabels, ShutLabels, HookLabels, BeatLabels,
     UsesSess, UsesPrev, clientVars, ReturnFromFail, Returned, StoreOrReturn
<1>1. sess[g] \in Sessions /\ (g \in Sessions => sess[g] = g)
  OBVIOUS
<1>2. mutex' \in [Sessions -> Goroutines \cup {NoSession}]
  BY <1>1
<1>3. notifying' \in [Goroutines -> BOOLEAN]
  OBVIOUS
<1>4. /\ pc' \in [Goroutines -> CallLabels \cup LoopLabels \cup BeatLabels \cup HookLabels]
      /\ \A h \in Goroutines : h # g => pc'[h] = pc[h] /\ notifying'[h] = notifying[h]
      /\ pc'[g] \in (IF g \in Sessions THEN {"exited"} ELSE {"idle", "beat_token"})
      /\ ~notifying'[g]
  OBVIOUS
<1>5. TypeOK'
  BY <1>1, <1>2, <1>3, <1>4
<1>6. Announcing'
  BY <1>4
<1> QED
  BY <1>5, <1>6

\* Every step keeps the types.
LEMMA NextTypeInv == TypeInv /\ [Next]_vars => TypeInv'
<1> SUFFICES ASSUME TypeInv, [Next]_vars PROVE TypeInv'
  OBVIOUS
<1> USE ConstantsAssumption DEF TypeInv, TypeOK, Announcing, Goroutines, Goto,
     AuthLabels, CallLabels, LoopLabels, ShutLabels, HookLabels, BeatLabels,
     UsesSess, UsesPrev, clientVars, sessionVars, localVars
<1>1. ASSUME NEW t \in Threads, Authenticate(t) PROVE TypeInv'
  BY <1>1 DEF Authenticate
<1>2. ASSUME NEW t \in Threads, HeartbeatNow(t) PROVE TypeInv'
  BY <1>2 DEF HeartbeatNow
<1>3. ASSUME NEW t \in Threads, OnHeartbeatFailure(t) PROVE TypeInv'
  BY <1>3 DEF OnHeartbeatFailure
<1>4. ASSUME NEW g \in Goroutines, Shutdown(g) PROVE TypeInv'
  BY <1>4 DEF Shutdown
<1>5. ASSUME NEW t \in Threads, AuthPrevious(t) PROVE TypeInv'
  BY <1>5 DEF AuthPrevious
<1>6. ASSUME NEW t \in Threads, AuthStop(t) PROVE TypeInv'
  BY <1>6 DEF AuthStop, StopSession
<1>7. ASSUME NEW t \in Threads, AuthWait(t) PROVE TypeInv'
  BY <1>7 DEF AuthWait
<1>8. ASSUME NEW t \in Threads, AuthCreate(t) PROVE TypeInv'
  BY <1>8 DEF AuthCreate
<1>9. ASSUME NEW t \in Threads, AuthInstall(t) PROVE TypeInv'
  BY <1>9 DEF AuthInstall
<1>10. ASSUME NEW t \in Threads, SetToken(t) PROVE TypeInv'
  BY <1>10 DEF SetToken
<1>11. ASSUME NEW t \in Threads, SetHook(t) PROVE TypeInv'
  BY <1>11 DEF SetHook
<1>12. ASSUME NEW s \in Sessions, LoopStep(s) PROVE TypeInv'
  BY <1>12 DEF LoopStep, LoopTick, LoopClockJump, LoopCancelled, LoopCheck
<1>13. ASSUME NEW g \in Goroutines, BeatEnter(g) PROVE TypeInv'
  BY <1>13 DEF BeatEnter
<1>14. ASSUME NEW g \in Goroutines, BeatRefused(g) PROVE TypeInv'
  BY <1>14 DEF BeatRefused, Returned, StoreOrReturn
<1>15. ASSUME NEW g \in Goroutines, BeatAccepted(g) PROVE TypeInv'
  BY <1>15 DEF BeatAccepted
<1>16. ASSUME NEW g \in Goroutines, BeatFailed(g) PROVE TypeInv'
  BY <1>16 DEF BeatFailed
<1>17. ASSUME NEW g \in Goroutines, FailSwap(g) PROVE TypeInv'
  BY <1>17 DEF FailSwap, Alive
<1>18. ASSUME NEW g \in Goroutines, FailStop(g) PROVE TypeInv'
  <2>1. CASE notifying[g]
    BY <1>18, <2>1 DEF FailStop
  <2>2. CASE ~notifying[g]
    <3>1. sess' = sess /\ prev' = prev /\ stopped' \in [Sessions -> BOOLEAN]
      BY <1>18 DEF FailStop
    <3>2. UNCHANGED <<clientVars, life, sessHook, fired, granted, arg>>
      BY <1>18 DEF FailStop
    <3>3. ReturnFromFail(g) /\ pc[g] = "fail_stop"
      BY <1>18, <2>2 DEF FailStop
    <3> QED
      BY <3>1, <3>2, <3>3, ReturnTypeInv
  <2> QED
    BY <2>1, <2>2
<1>19. ASSUME NEW g \in Goroutines, FailHook(g) PROVE TypeInv'
  <2>1. CASE sessHook[sess[g]] = NoHook
    <3>1. sess' = sess /\ prev' = prev /\ stopped' \in [Sessions -> BOOLEAN]
      BY <1>19 DEF FailHook
    <3>2. UNCHANGED <<clientVars, life, sessHook, fired, granted, arg>>
      BY <1>19, <2>1 DEF FailHook
    <3>3. ReturnFromFail(g) /\ pc[g] = "fail_hook"
      BY <1>19, <2>1 DEF FailHook
    <3> QED
      BY <3>1, <3>2, <3>3, ReturnTypeInv
  <2>2. CASE sessHook[sess[g]] # NoHook
    BY <1>19, <2>2 DEF FailHook
  <2> QED
    BY <2>1, <2>2
<1>20. ASSUME NEW g \in Goroutines, HookReturn(g) PROVE TypeInv'
  BY <1>20, ReturnTypeInv DEF HookReturn
<1>21. ASSUME NEW g \in Goroutines, ShutStop(g) PROVE TypeInv'
  BY <1>21 DEF ShutStop, StopSession
<1>22. ASSUME NEW g \in Goroutines, ShutWait(g) PROVE TypeInv'
  BY <1>22 DEF ShutWait
<1>23. ASSUME NEW g \in Goroutines, ShutClear(g) PROVE TypeInv'
  BY <1>23 DEF ShutClear
<1>24. CASE UNCHANGED vars
  BY <1>24 DEF vars
<1> QED
  BY <1>1, <1>2, <1>3, <1>4, <1>5, <1>6, <1>7, <1>8, <1>9, <1>10, <1>11, <1>12,
     <1>13, <1>14, <1>15, <1>16, <1>17, <1>18, <1>19, <1>20, <1>21, <1>22, <1>23, <1>24
  DEF Next, Invoke, ThreadStep, BeatLock, Proceed

(***************************************************************************)
(* Every variable keeps its type and no goroutine dereferences a nil       *)
(* session, whatever the interleaving.                                     *)
(***************************************************************************)
THEOREM TypeCorrect == Spec => []TypeOK
<1>1. Spec => []TypeInv
  BY InitTypeInv, NextTypeInv, PTL DEF Spec
<1> QED
  BY <1>1, PTL DEF TypeInv

-----------------------------------------------------------------------------
(***************************************************************************)
(* The failure hook.  HookContract is not inductive: it must know that the *)
(* one goroutine whose Swap found the session alive, and no other, still   *)
(* owes the call, and that the call has not been made before it.           *)
(***************************************************************************)
Notifier(g) ==
  notifying[g] =>
    /\ life[sess[g]] = "failed"
    /\ pc[g] \in {"fail_stop", "fail_hook"} \cup HookLabels
    /\ pc[g] \in {"fail_stop", "fail_hook"} => fired[sess[g]] = 0

OneNotifier ==
  \A g, h \in Goroutines :
    notifying[g] /\ notifying[h] /\ sess[g] = sess[h] => g = h

HookInv == /\ \A g \in Goroutines : Notifier(g)
           /\ OneNotifier
           /\ HookContract

\* No session has failed initially.
LEMMA InitHookInv == Init => HookInv
  BY DEF Init, HookInv, Notifier, OneNotifier, HookContract

\* Steps that change neither a life nor a hook call keep the invariant when
\* they leave every announcing goroutine announcing the same session.
LEMMA QuietHookInv ==
  ASSUME TypeInv, HookInv, life' = life, fired' = fired,
         \A g \in Goroutines :
           notifying'[g] => /\ notifying[g] /\ sess'[g] = sess[g]
                            /\ pc'[g] \in {"fail_stop", "fail_hook"} \cup HookLabels
                            /\ pc'[g] \in {"fail_stop", "fail_hook"}
                                 => pc[g] \in {"fail_stop", "fail_hook"}
  PROVE  HookInv'
  BY DEF HookInv, Notifier, OneNotifier, HookContract, HookLabels, ShutLabels

\* Stopping a session keeps its hook accounted for.
LEMMA StopHookInv ==
  ASSUME TypeInv, HookInv, NEW g \in Goroutines, prev[g] \in Sessions,
         StopSession(prev[g]), pc[g] \in {"auth_stop", "shut_stop"},
         NEW label, Goto(g, label), label \in {"auth_wait", "shut_wait"},
         pc[g] = "shut_stop" => label = "shut_wait",
         UNCHANGED localVars
  PROVE  HookInv'
  BY DEF HookInv, Notifier, OneNotifier, HookContract, HookLabels, ShutLabels,
         StopSession, Alive, Goto, localVars, TypeInv, TypeOK, Announcing

\* Every step keeps each failure reported once.
LEMMA NextHookInv == TypeInv /\ HookInv /\ [Next]_vars => HookInv'
<1> SUFFICES ASSUME TypeInv, HookInv, [Next]_vars PROVE HookInv'
  OBVIOUS
<1> USE ConstantsAssumption DEF TypeInv, TypeOK, Announcing, Goroutines, Goto,
     ShutLabels, HookLabels, clientVars, sessionVars, localVars
<1>1. ASSUME NEW t \in Threads, Invoke(t) \/ ThreadStep(t) PROVE HookInv'
  <2>1. CASE AuthStop(t)
    BY <2>1, StopHookInv DEF AuthStop, UsesPrev
  <2>2. CASE AuthCreate(t)
    BY <2>2 DEF AuthCreate, HookInv, Notifier, OneNotifier, HookContract
  <2>3. CASE Authenticate(t) \/ HeartbeatNow(t) \/ OnHeartbeatFailure(t)
    BY <2>3, QuietHookInv DEF HookInv, Notifier, Authenticate, HeartbeatNow, OnHeartbeatFailure
  <2>4. CASE Shutdown(t)
    BY <2>4, QuietHookInv DEF HookInv, Notifier, Shutdown
  <2>5. CASE AuthPrevious(t) \/ AuthWait(t) \/ AuthInstall(t) \/ SetToken(t) \/ SetHook(t)
    BY <2>5, QuietHookInv
    DEF HookInv, Notifier, AuthPrevious, AuthWait, AuthInstall, SetToken, SetHook
  <2> QED
    BY <1>1, <2>1, <2>2, <2>3, <2>4, <2>5 DEF Invoke, ThreadStep
<1>2. ASSUME NEW s \in Sessions, LoopStep(s) \/ Shutdown(s) PROVE HookInv'
  <2>1. CASE Shutdown(s)
    BY <2>1, QuietHookInv DEF HookInv, Notifier, Shutdown
  <2>2. CASE LoopStep(s)
    BY <2>2, QuietHookInv
    DEF HookInv, Notifier, LoopStep, LoopTick, LoopClockJump, LoopCancelled, LoopCheck
  <2> QED
    BY <1>2, <2>1, <2>2
<1>3. ASSUME NEW g \in Goroutines, BeatLock(g) \/ Proceed(g) PROVE HookInv'
  <2>1. CASE BeatLock(g) \/ BeatAccepted(g) \/ BeatFailed(g)
    BY <2>1, QuietHookInv
    DEF HookInv, Notifier, BeatLock, BeatEnter, BeatRefused, BeatAccepted, BeatFailed
  <2>2. CASE FailSwap(g)
    <3>1. sess[g] \in Sessions
      BY <2>2 DEF FailSwap, UsesSess, BeatLabels
    <3>2. CASE Alive(sess[g])
      BY <2>2, <3>1, <3>2 DEF FailSwap, Alive, HookInv, Notifier, OneNotifier, HookContract
    <3>3. CASE ~Alive(sess[g])
      BY <2>2, <3>1, <3>3, QuietHookInv DEF FailSwap, HookInv, Notifier
    <3> QED
      BY <3>2, <3>3
  <2>3. CASE FailStop(g)
    <3>1. CASE notifying[g]
      BY <2>3, <3>1, QuietHookInv DEF FailStop, HookInv, Notifier
    <3>2. CASE ~notifying[g]
      BY <2>3, <3>2, QuietHookInv DEF FailStop, ReturnFromFail, HookInv, Notifier
    <3> QED
      BY <3>1, <3>2
  <2>4. CASE FailHook(g)
    <3>1. CASE sessHook[sess[g]] = NoHook
      BY <2>4, <3>1, QuietHookInv DEF FailHook, ReturnFromFail, HookInv, Notifier
    <3>2. CASE sessHook[sess[g]] # NoHook
      <4>1. /\ notifying[g] /\ sess[g] \in Sessions /\ pc[g] = "fail_hook"
            /\ life[sess[g]] = "failed" /\ fired[sess[g]] = 0
        BY <2>4 DEF FailHook, HookInv, Notifier
      <4>2. /\ fired' = [fired EXCEPT ![sess[g]] = 1] /\ life' = life /\ sess' = sess
            /\ pc' = [pc EXCEPT ![g] = "in_hook"] /\ notifying' = notifying
        BY <2>4, <3>2, <4>1 DEF FailHook
      <4>3. HookContract'
        BY <4>1, <4>2 DEF HookInv, HookContract
      <4>4. OneNotifier'
        BY <4>2 DEF HookInv, OneNotifier
      <4>5. ASSUME NEW h \in Goroutines PROVE Notifier(h)'
        <5>1. CASE h = g
          BY <4>1, <4>2, <5>1 DEF HookInv, Notifier
        <5>2. CASE h # g
          BY <4>1, <4>2, <5>2 DEF HookInv, Notifier, OneNotifier
        <5> QED
          BY <5>1, <5>2
      <4> QED
        BY <4>3, <4>4, <4>5 DEF HookInv
    <3> QED
      BY <3>1, <3>2
  <2>5. CASE HookReturn(g)
    BY <2>5, QuietHookInv DEF HookReturn, ReturnFromFail, HookInv, Notifier
  <2>6. CASE ShutStop(g)
    BY <2>6, StopHookInv DEF ShutStop, UsesPrev
  <2>7. CASE ShutWait(g) \/ ShutClear(g)
    BY <2>7, QuietHookInv DEF ShutWait, ShutClear, HookInv, Notifier
  <2> QED
    BY <1>3, <2>1, <2>2, <2>3, <2>4, <2>5, <2>6, <2>7 DEF Proceed
<1>4. CASE UNCHANGED vars
  BY <1>4, QuietHookInv DEF vars, HookInv, Notifier
<1> QED
  BY <1>1, <1>2, <1>3, <1>4 DEF Next

(***************************************************************************)
(* The hook contract of session.go:14 and :87-100: at most one call per    *)
(* session, and only for a session that failed.                            *)
(***************************************************************************)
THEOREM HookOnce == Spec => []HookContract
<1>1. Init => TypeInv /\ HookInv
  BY InitTypeInv, InitHookInv
<1>2. (TypeInv /\ HookInv) /\ [Next]_vars => (TypeInv /\ HookInv)'
  BY NextTypeInv, NextHookInv
<1>3. Spec => [](TypeInv /\ HookInv)
  BY <1>1, <1>2, PTL DEF Spec
<1>4. TypeInv /\ HookInv => HookContract
  BY DEF HookInv
<1> QED
  BY <1>3, <1>4, PTL

-----------------------------------------------------------------------------
(***************************************************************************)
(* requestMutex.  A goroutine inside an exchange holds the mutex of the    *)
(* session it beats; a failing one need not (the clock check does not).    *)
(***************************************************************************)
BeatInv ==
  \A g \in Goroutines : pc[g] = "beat_post" => mutex[sess[g]] = g

\* Every step keeps one heartbeat at a time in a session.
LEMMA NextBeatInv == TypeInv /\ BeatInv /\ [Next]_vars => BeatInv'
<1> SUFFICES ASSUME TypeInv, BeatInv, [Next]_vars PROVE BeatInv'
  OBVIOUS
<1> USE ConstantsAssumption DEF TypeInv, TypeOK, BeatInv, Goroutines, Goto,
     UsesSess, BeatLabels, clientVars, sessionVars, localVars
<1>1. ASSUME NEW t \in Threads, Invoke(t) \/ ThreadStep(t) PROVE BeatInv'
  <2>1. CASE Invoke(t)
    BY <2>1 DEF Invoke, Authenticate, HeartbeatNow, OnHeartbeatFailure, Shutdown
  <2>2. CASE ThreadStep(t)
    BY <2>2 DEF ThreadStep, AuthPrevious, AuthStop, AuthWait, AuthCreate, AuthInstall,
       SetToken, SetHook, StopSession
  <2> QED
    BY <1>1, <2>1, <2>2
<1>2. ASSUME NEW s \in Sessions, LoopStep(s) \/ Shutdown(s) PROVE BeatInv'
  BY <1>2 DEF LoopStep, LoopTick, LoopClockJump, LoopCancelled, LoopCheck, Shutdown
<1>3. ASSUME NEW g \in Goroutines, BeatLock(g) \/ Proceed(g) PROVE BeatInv'
  <2>1. CASE BeatLock(g) \/ BeatAccepted(g) \/ BeatFailed(g)
    BY <2>1 DEF BeatLock, BeatEnter, BeatRefused, BeatAccepted, BeatFailed, Returned, StoreOrReturn
  <2>2. CASE FailSwap(g)
    BY <2>2 DEF FailSwap
  <2>3. CASE FailStop(g) \/ FailHook(g) \/ HookReturn(g)
    <3>1. /\ sess' = sess
          /\ \A h \in Goroutines : pc'[h] = "beat_post" => h # g /\ pc[h] = "beat_post"
          /\ mutex' = mutex
               \/ mutex' = [mutex EXCEPT ![sess[g]] = IF @ = g THEN NoSession ELSE @]
      BY <2>3 DEF FailStop, FailHook, HookReturn, ReturnFromFail, Returned, StoreOrReturn
    <3> QED
      BY <3>1
  <2>4. CASE ShutStop(g) \/ ShutWait(g) \/ ShutClear(g)
    BY <2>4 DEF ShutStop, ShutWait, ShutClear, StopSession
  <2> QED
    BY <1>3, <2>1, <2>2, <2>3, <2>4 DEF Proceed
<1>4. CASE UNCHANGED vars
  BY <1>4 DEF vars
<1> QED
  BY <1>1, <1>2, <1>3, <1>4 DEF Next

(***************************************************************************)
(* session.go:104-106: two exchanges of one session are never open at once.*)
(***************************************************************************)
THEOREM OneBeatAtATime == Spec => []BeatsSerialized
<1>1. Init => TypeInv /\ BeatInv
  <2>1. Init => BeatInv
    BY ConstantsAssumption DEF Init, BeatInv, Goroutines
  <2> QED
    BY <2>1, InitTypeInv
<1>2. (TypeInv /\ BeatInv) /\ [Next]_vars => (TypeInv /\ BeatInv)'
  BY NextTypeInv, NextBeatInv
<1>3. BeatInv => BeatsSerialized
  BY DEF BeatInv, BeatsSerialized
<1> QED
  BY <1>1, <1>2, <1>3, PTL DEF Spec

-----------------------------------------------------------------------------
(***************************************************************************)
(* No session is orphaned, provided at most one thread authenticates:      *)
(* authenticate reads c.session, tears it down and installs its own in     *)
(* separate steps, and only its own installs may come between them.  With  *)
(* two authenticating threads the run ClientTwoAuth refutes the claim.     *)
(***************************************************************************)
OneAuthenticatingThread ==
  \A t, u \in Threads :
    "authenticate" \in Calls[t] /\ "authenticate" \in Calls[u] => t = u

WaitLabels == {"auth_wait", "shut_wait"}
PrevLabels == {"auth_stop", "shut_stop"} \cup WaitLabels

Ended(s) == ~Alive(s) /\ Exited(s)

\* A session somebody refers to has been created, so AuthCreate cannot pick it.
Created ==
  /\ session # NoSession => life[session] # "none"
  /\ \A g \in Goroutines :
       /\ pc[g] \in PrevLabels => life[prev[g]] # "none"
       /\ pc[g] = "auth_install" => life[sess[g]] # "none"

\* What authenticate knows of c.session while it tears the old session down.
Replacing ==
  \A t \in Threads :
    /\ pc[t] \in AuthLabels => "authenticate" \in Calls[t]
    /\ pc[t] \in {"auth_stop", "auth_wait"} => session \in {NoSession, prev[t]}
    /\ pc[t] \in {"auth_create", "auth_install"} => session = NoSession \/ Ended(session)

OrphanInv ==
  /\ Created
  /\ Replacing
  /\ \A g \in Goroutines : pc[g] \in WaitLabels => ~Alive(prev[g])
  /\ NoOrphan

\* Initially there is no session to orphan.
LEMMA InitOrphanInv == Init => OrphanInv
  BY ConstantsAssumption DEF Init, OrphanInv, Created, Replacing, NoOrphan, Alive, Exited,
     Goroutines, AuthLabels, WaitLabels, PrevLabels

\* Steps that create, install or tear down nothing.
LEMMA QuietOrphanInv ==
  ASSUME TypeInv, OrphanInv, session' = session,
         \A s \in Sessions : /\ (life'[s] = "none") <=> (life[s] = "none")
                             /\ Alive(s)' => Alive(s)
                             /\ Exited(s) => Exited(s)',
         \A g \in Goroutines :
           pc[g] \in AuthLabels \cup PrevLabels \/ pc'[g] \in AuthLabels \cup PrevLabels
             => pc'[g] = pc[g] /\ prev'[g] = prev[g] /\ sess'[g] = sess[g]
  PROVE  OrphanInv'
<1> USE DEF TypeInv, TypeOK, AuthLabels, PrevLabels, WaitLabels, UsesPrev, UsesSess
<1>1. Created'
  BY DEF OrphanInv, Created, Goroutines
<1>2. Replacing'
  BY DEF OrphanInv, Replacing, Ended, Goroutines
<1>3. \A g \in Goroutines : pc'[g] \in WaitLabels => ~Alive(prev[g])'
  BY DEF OrphanInv, Alive
<1>4. NoOrphan'
  BY DEF OrphanInv, NoOrphan, Owned
<1> QED
  BY <1>1, <1>2, <1>3, <1>4 DEF OrphanInv

\* AuthStop and ShutStop.
LEMMA StopOrphanInv ==
  ASSUME TypeInv, OrphanInv, NEW g \in Goroutines, NEW label,
         \/ pc[g] = "auth_stop" /\ label = "auth_wait" /\ g \in Threads
         \/ pc[g] = "shut_stop" /\ label = "shut_wait",
         StopSession(prev[g]), Goto(g, label), UNCHANGED <<clientVars, localVars>>
  PROVE  OrphanInv'
<1> USE DEF TypeInv, TypeOK, AuthLabels, PrevLabels, WaitLabels, UsesPrev, UsesSess,
       Goto, clientVars, localVars
<1>1. prev[g] \in Sessions /\ pc' = [pc EXCEPT ![g] = label] /\ prev' = prev /\ sess' = sess
      /\ session' = session
  OBVIOUS
<1>2. \A s \in Sessions : /\ (life'[s] = "none") <=> (life[s] = "none")
                          /\ Alive(s)' => Alive(s) /\ s # prev[g]
                          /\ Exited(s) <=> Exited(s)'
  BY <1>1 DEF StopSession, Alive, Exited, Goroutines
<1>3. Created'
  BY <1>1, <1>2 DEF OrphanInv, Created, Goroutines
<1>4. Replacing'
  BY <1>1, <1>2 DEF OrphanInv, Replacing, Ended, Goroutines
<1>5. \A h \in Goroutines : pc'[h] \in WaitLabels => ~Alive(prev[h])'
  BY <1>1, <1>2 DEF OrphanInv, Alive
<1>6. NoOrphan'
  BY <1>1, <1>2 DEF OrphanInv, NoOrphan, Owned
<1> QED
  BY <1>3, <1>4, <1>5, <1>6 DEF OrphanInv

\* AuthWait and ShutWait.
LEMMA WaitOrphanInv ==
  ASSUME TypeInv, OrphanInv, NEW g \in Goroutines, NEW label,
         \/ pc[g] = "auth_wait" /\ label = "auth_create" /\ g \in Threads
         \/ pc[g] = "shut_wait" /\ label = "shut_clear",
         Exited(prev[g]), Goto(g, label), UNCHANGED <<clientVars, sessionVars, localVars>>
  PROVE  OrphanInv'
<1> USE DEF TypeInv, TypeOK, AuthLabels, PrevLabels, WaitLabels, UsesPrev, UsesSess,
       Goto, clientVars, sessionVars, localVars
<1>1. prev[g] \in Sessions /\ pc' = [pc EXCEPT ![g] = label] /\ prev' = prev /\ sess' = sess
      /\ session' = session /\ life' = life
  OBVIOUS
<1>2. Ended(prev[g])
  BY DEF OrphanInv, Ended
<1>3. \A s \in Sessions : Exited(s) <=> Exited(s)'
  BY <1>1 DEF Exited, Goroutines
<1>4. Created'
  BY <1>1 DEF OrphanInv, Created, Goroutines
<1>5. Replacing'
  BY <1>1, <1>2, <1>3 DEF OrphanInv, Replacing, Ended, Alive, Goroutines
<1>6. \A h \in Goroutines : pc'[h] \in WaitLabels => ~Alive(prev[h])'
  BY <1>1 DEF OrphanInv, Alive
<1>7. NoOrphan'
  BY <1>1, <1>2, <1>3 DEF OrphanInv, NoOrphan, Owned, Ended, Alive
<1> QED
  BY <1>4, <1>5, <1>6, <1>7 DEF OrphanInv

\* Tearing a session down orphans no other.
LEMMA TearDownOrphanInv ==
  ASSUME TypeInv, OrphanInv, NEW g \in Goroutines,
         (g \in Threads /\ (AuthStop(g) \/ AuthWait(g))) \/ ShutStop(g) \/ ShutWait(g)
  PROVE  OrphanInv'
<1>1. CASE g \in Threads /\ AuthStop(g)
  BY <1>1, StopOrphanInv DEF AuthStop
<1>2. CASE g \in Threads /\ AuthWait(g)
  BY <1>2, WaitOrphanInv DEF AuthWait
<1>3. CASE ShutStop(g)
  BY <1>3, StopOrphanInv DEF ShutStop
<1>4. CASE ShutWait(g)
  BY <1>4, WaitOrphanInv DEF ShutWait
<1> QED
  BY <1>1, <1>2, <1>3, <1>4

\* With one authenticating thread no step orphans a session.
LEMMA NextOrphanInv ==
  ASSUME OneAuthenticatingThread
  PROVE  TypeInv /\ OrphanInv /\ [Next]_vars => OrphanInv'
<1> SUFFICES ASSUME TypeInv, OrphanInv, [Next]_vars PROVE OrphanInv'
  OBVIOUS
<1> USE ConstantsAssumption DEF TypeInv, TypeOK, Announcing, Goroutines, Goto, AuthLabels,
       PrevLabels, WaitLabels, ShutLabels, BeatLabels, HookLabels, CallLabels, LoopLabels,
       UsesSess, UsesPrev, Alive, Exited, clientVars, sessionVars, localVars
<1>1. ASSUME NEW t \in Threads, Authenticate(t) PROVE OrphanInv'
  BY <1>1 DEF Authenticate, OrphanInv, Created, Replacing, NoOrphan, Owned, Ended
<1>2. ASSUME NEW t \in Threads, AuthPrevious(t) PROVE OrphanInv'
  BY <1>2 DEF AuthPrevious, OrphanInv, Created, Replacing, NoOrphan, Owned, Ended
<1>3. ASSUME NEW t \in Threads, AuthCreate(t) PROVE OrphanInv'
  <2> PICK s \in Sessions :
         /\ life[s] = "none"
         /\ life' = [life EXCEPT ![s] = "alive"]
         /\ sess' = [sess EXCEPT ![t] = s]
         /\ pc' = [pc EXCEPT ![t] = "auth_install",
                             ![s] = IF AutomaticHeartbeats THEN "loop_wait" ELSE "off"]
    BY <1>3 DEF AuthCreate
  <2>1. pc[t] = "auth_create" /\ t # s /\ session' = session /\ prev' = prev
    BY <1>3 DEF AuthCreate
  <2>2. pc'[t] = "auth_install" /\ pc'[s] \in {"loop_wait", "off"}
        /\ \A h \in Goroutines \ {t, s} : pc'[h] = pc[h] /\ sess'[h] = sess[h]
    BY <2>1
  <2>3. Created'
    BY <2>1, <2>2 DEF OrphanInv, Created
  <2>4. Replacing'
    BY <2>1, <2>2 DEF OrphanInv, Created, Replacing, Ended
  <2>5. \A h \in Goroutines : pc'[h] \in WaitLabels => ~Alive(prev[h])'
    BY <2>1, <2>2 DEF OrphanInv, Created
  <2>6. NoOrphan'
    <3> SUFFICES ASSUME NEW r \in Sessions, Alive(r)' \/ ~Exited(r)' PROVE Owned(r)'
      BY DEF NoOrphan
    <3>1. CASE r = s
      BY <2>1, <2>2, <3>1 DEF Owned
    <3>2. CASE r # s
      <4>1. Owned(r)
        BY <2>1, <2>2, <3>2 DEF OrphanInv, NoOrphan
      <4>2. \A h \in Goroutines :
              pc[h] \in {"auth_install"} \cup PrevLabels => h # t /\ (h = s => Owned(r)')
        <5> SUFFICES ASSUME NEW h \in Goroutines,
                            pc[h] \in {"auth_install"} \cup PrevLabels, h = s
                     PROVE  FALSE
          BY <2>1
        <5>1. ~Exited(s) => Owned(s)
          BY DEF OrphanInv, NoOrphan
        <5>2. notifying[s]
          OBVIOUS
        <5> QED
          BY <5>1, <5>2, <2>1 DEF OrphanInv, Created, Owned
      <4> QED
        BY <4>1, <4>2, <2>1, <2>2 DEF Owned
    <3> QED
      BY <3>1, <3>2
  <2> QED
    BY <2>3, <2>4, <2>5, <2>6 DEF OrphanInv
<1>4. ASSUME NEW t \in Threads, AuthInstall(t) PROVE OrphanInv'
  <2>1. /\ pc[t] = "auth_install" /\ session' = sess[t] /\ sess[t] \in Sessions
        /\ UNCHANGED <<life, prev, sess>>
        /\ pc'[t] \in {"auth_token", "idle"} /\ t \notin Sessions
        /\ \A h \in Goroutines \ {t} : pc'[h] = pc[h]
    BY <1>4 DEF AuthInstall
  <2>2. \A u \in Threads \ {t} : pc[u] \notin AuthLabels
    BY <2>1 DEF OneAuthenticatingThread, OrphanInv, Replacing
  <2>3. Created'
    <3>1. life'[session'] # "none"
      BY <2>1 DEF OrphanInv, Created
    <3>2. ASSUME NEW h \in Goroutines
          PROVE  /\ pc'[h] \in PrevLabels => life'[prev'[h]] # "none"
                 /\ pc'[h] = "auth_install" => life'[sess'[h]] # "none"
      <4>1. CASE h = t
        BY <2>1, <4>1
      <4>2. CASE h # t
        BY <2>1, <4>2 DEF OrphanInv, Created
      <4> QED
        BY <4>1, <4>2
    <3> QED
      BY <3>1, <3>2 DEF Created
  <2>4. Replacing'
    <3>1. ASSUME NEW u \in Threads PROVE pc'[u] \notin AuthLabels
      <4>1. CASE u = t
        BY <2>1, <4>1
      <4>2. CASE u # t
        BY <2>1, <2>2, <4>2
      <4> QED
        BY <4>1, <4>2
    <3> QED
      BY <3>1 DEF Replacing
  <2>5. \A h \in Goroutines : pc'[h] \in WaitLabels => ~Alive(prev[h])'
    BY <2>1 DEF OrphanInv
  <2>6. NoOrphan'
    <3> SUFFICES ASSUME NEW r \in Sessions, Alive(r)' \/ ~Exited(r)' PROVE Owned(r)'
      BY DEF NoOrphan
    <3>1. Owned(r)
      BY <2>1 DEF OrphanInv, NoOrphan
    <3>2. session # r
      BY <2>1 DEF OrphanInv, Replacing, Ended
    <3> QED
      BY <2>1, <3>1, <3>2 DEF Owned
  <2> QED
    BY <2>3, <2>4, <2>5, <2>6 DEF OrphanInv
<1>5. ASSUME NEW g \in Goroutines, Shutdown(g) PROVE OrphanInv'
  BY <1>5 DEF Shutdown, OrphanInv, Created, Replacing, NoOrphan, Owned, Ended
<1>6. ASSUME NEW t \in Threads, AuthStop(t) \/ AuthWait(t) PROVE OrphanInv'
  BY ONLY <1>6, TypeInv, OrphanInv, TearDownOrphanInv DEF Goroutines
<1>7. ASSUME NEW g \in Goroutines, ShutStop(g) \/ ShutWait(g) PROVE OrphanInv'
  BY ONLY <1>7, TypeInv, OrphanInv, TearDownOrphanInv
<1>8. ASSUME NEW t \in Threads,
             HeartbeatNow(t) \/ OnHeartbeatFailure(t) \/ SetToken(t) \/ SetHook(t)
      PROVE  OrphanInv'
  BY <1>8, QuietOrphanInv DEF HeartbeatNow, OnHeartbeatFailure, SetToken, SetHook
<1>9. ASSUME NEW s \in Sessions, LoopStep(s) PROVE OrphanInv'
  BY <1>9, QuietOrphanInv DEF LoopStep, LoopTick, LoopClockJump, LoopCancelled, LoopCheck
<1>10. ASSUME NEW g \in Goroutines, BeatLock(g) \/ BeatAccepted(g) \/ BeatFailed(g)
       PROVE  OrphanInv'
  BY <1>10, QuietOrphanInv
  DEF BeatLock, BeatEnter, BeatRefused, BeatAccepted, BeatFailed, Returned, StoreOrReturn
<1>11. ASSUME NEW g \in Goroutines, FailSwap(g) PROVE OrphanInv'
  BY <1>11, QuietOrphanInv DEF FailSwap
<1>12. ASSUME NEW g \in Goroutines, FailStop(g) \/ FailHook(g) \/ HookReturn(g) PROVE OrphanInv'
  BY <1>12, QuietOrphanInv DEF FailStop, FailHook, HookReturn, ReturnFromFail, Returned, StoreOrReturn
<1>13. ASSUME NEW g \in Goroutines, ShutClear(g) PROVE OrphanInv'
  BY <1>13, QuietOrphanInv DEF ShutClear
<1>14. CASE UNCHANGED vars
  BY <1>14, QuietOrphanInv DEF vars
<1> QED
  BY <1>1, <1>2, <1>3, <1>4, <1>5, <1>6, <1>7, <1>8, <1>9, <1>10, <1>11, <1>12, <1>13, <1>14
  DEF Next, Invoke, ThreadStep, Proceed

(***************************************************************************)
(* client.go:256-270 and :357-365: with one authenticating thread, and any *)
(* number of threads beating, setting hooks and shutting down, no session  *)
(* and no background loop escapes the client.                              *)
(***************************************************************************)
THEOREM NeverOrphaned == OneAuthenticatingThread => (Spec => []NoOrphan)
<1> SUFFICES ASSUME OneAuthenticatingThread PROVE Spec => []NoOrphan
  OBVIOUS
<1>1. Init => TypeInv /\ OrphanInv
  BY InitTypeInv, InitOrphanInv
<1>2. (TypeInv /\ OrphanInv) /\ [Next]_vars => (TypeInv /\ OrphanInv)'
  BY NextTypeInv, NextOrphanInv
<1>3. TypeInv /\ OrphanInv => NoOrphan
  BY DEF OrphanInv
<1> QED
  BY <1>1, <1>2, <1>3, PTL DEF Spec

-----------------------------------------------------------------------------
(***************************************************************************)
(* BedrockClient implements SessionLife.  HookInv gives what the mapping   *)
(* needs: a hook that has run ran once, for a failed session, and the one  *)
(* about to run has not run.                                               *)
(***************************************************************************)
LEMMA QuietLife ==
  ASSUME life' = life, fired' = fired PROVE UNCHANGED Phase
  BY DEF Phase

\* A change of one session's phase is a move of SessionLife.
LEMMA MoveLife ==
  ASSUME TypeInv, HookInv, NEW s \in Sessions, NEW to,
         life' = [life EXCEPT ![s] = to], fired' = fired, fired[s] = 0
  PROVE  Life!Move(s, life[s], to)
<1>1. fired \in [Sessions -> Nat] /\ life \in [Sessions -> {"none", "alive", "failed", "stopped"}]
  BY DEF TypeInv, TypeOK
<1>2. Phase[s] = life[s]
  BY DEF Phase
<1>3. Phase' = [Phase EXCEPT ![s] = to]
  BY <1>1 DEF Phase
<1> QED
  BY <1>2, <1>3 DEF Life!Move

\* Stopping a session is SessionLife's Stop or a stutter.
LEMMA StopLife ==
  ASSUME TypeInv, HookInv, NEW s \in Sessions, StopSession(s)
  PROVE  Life!Stop(s) \/ UNCHANGED Phase
<1>1. fired' = fired
  BY DEF StopSession
<1>2. CASE Alive(s)
  <2>1. fired[s] = 0
    BY <1>2 DEF TypeInv, TypeOK, HookInv, HookContract, Alive
  <2>2. life' = [life EXCEPT ![s] = "stopped"] /\ life[s] = "alive"
    BY <1>2 DEF StopSession, Alive
  <2>3. Life!Move(s, life[s], "stopped")
    BY <1>1, <2>1, <2>2, MoveLife
  <2> QED
    BY <2>2, <2>3 DEF Life!Stop
<1>3. CASE ~Alive(s)
  BY <1>1, <1>3, QuietLife DEF StopSession
<1> QED
  BY <1>2, <1>3

\* Every step is a step of SessionLife or a stutter.
LEMMA StepLife == TypeInv /\ HookInv /\ [Next]_vars => [Life!Next]_Phase
<1> SUFFICES ASSUME TypeInv, HookInv, [Next]_vars PROVE Life!Next \/ UNCHANGED Phase
  OBVIOUS
<1> USE DEF clientVars, sessionVars, localVars
<1>1. ASSUME NEW t \in Threads, AuthCreate(t) PROVE Life!Next
  <2> PICK s \in Sessions : life[s] = "none" /\ life' = [life EXCEPT ![s] = "alive"]
    BY <1>1 DEF AuthCreate
  <2>1. fired[s] = 0 /\ fired' = fired
    BY <1>1 DEF AuthCreate, TypeInv, TypeOK, HookInv, HookContract
  <2> QED
    BY <2>1, MoveLife DEF Life!Start, Life!Next
<1>2. ASSUME NEW g \in Goroutines, AuthStop(g) \/ ShutStop(g)
      PROVE  Life!Next \/ UNCHANGED Phase
  <2>1. StopSession(prev[g]) /\ prev[g] \in Sessions
    BY <1>2 DEF AuthStop, ShutStop, TypeInv, TypeOK, UsesPrev
  <2> QED
    BY <2>1, StopLife DEF Life!Next
<1>3. ASSUME NEW g \in Goroutines, FailSwap(g) PROVE Life!Next \/ UNCHANGED Phase
  <2>1. sess[g] \in Sessions /\ fired' = fired
    BY <1>3 DEF FailSwap, TypeInv, TypeOK, UsesSess, BeatLabels
  <2>2. CASE Alive(sess[g])
    <3>1. fired[sess[g]] = 0 /\ life[sess[g]] = "alive"
      BY <2>1, <2>2 DEF TypeInv, TypeOK, HookInv, HookContract, Alive
    <3>2. life' = [life EXCEPT ![sess[g]] = "failed"]
      BY <1>3, <2>2 DEF FailSwap
    <3>3. Life!Fail(sess[g])
      BY <2>1, <3>1, <3>2, MoveLife DEF Life!Fail
    <3> QED
      BY <2>1, <3>3 DEF Life!Next
  <2>3. CASE ~Alive(sess[g])
    BY <1>3, <2>1, <2>3, QuietLife DEF FailSwap
  <2> QED
    BY <2>2, <2>3
<1>4. ASSUME NEW g \in Goroutines, FailHook(g) PROVE Life!Next \/ UNCHANGED Phase
  <2>1. CASE sessHook[sess[g]] = NoHook
    BY <1>4, <2>1, QuietLife DEF FailHook
  <2>2. CASE sessHook[sess[g]] # NoHook
    <3>1. sess[g] \in Sessions /\ life[sess[g]] = "failed" /\ fired[sess[g]] = 0
      BY <1>4 DEF FailHook, HookInv, Notifier, TypeInv, Announcing
    <3>2. fired' = [fired EXCEPT ![sess[g]] = 1] /\ life' = life
      BY <1>4, <2>2, <3>1 DEF FailHook
    <3>3. fired \in [Sessions -> Nat]
      BY DEF TypeInv, TypeOK
    <3>4. Phase[sess[g]] = "failed" /\ Phase' = [Phase EXCEPT ![sess[g]] = "notified"]
      BY <3>1, <3>2, <3>3 DEF Phase
    <3> QED
      BY <3>1, <3>4 DEF Life!Notify, Life!Move, Life!Next
  <2> QED
    BY <2>1, <2>2
<1>5. ASSUME NEW t \in Threads,
             Invoke(t) \/ AuthPrevious(t) \/ AuthWait(t) \/ AuthInstall(t) \/ SetToken(t) \/ SetHook(t)
      PROVE  UNCHANGED Phase
  BY <1>5, QuietLife DEF Invoke, Authenticate, HeartbeatNow, OnHeartbeatFailure, Shutdown,
     AuthPrevious, AuthWait, AuthInstall, SetToken, SetHook
<1>6. ASSUME NEW s \in Sessions, LoopStep(s) \/ Shutdown(s) PROVE UNCHANGED Phase
  BY <1>6, QuietLife DEF LoopStep, LoopTick, LoopClockJump, LoopCancelled, LoopCheck, Shutdown
<1>7. ASSUME NEW g \in Goroutines,
             \/ BeatLock(g) \/ BeatAccepted(g) \/ BeatFailed(g)
             \/ FailStop(g) \/ HookReturn(g) \/ ShutWait(g) \/ ShutClear(g)
      PROVE  UNCHANGED Phase
  BY <1>7, QuietLife DEF BeatLock, BeatEnter, BeatRefused, BeatAccepted, BeatFailed,
     FailStop, HookReturn, ShutWait, ShutClear
<1>8. CASE UNCHANGED vars
  BY <1>8, QuietLife DEF vars
<1> QED
  BY <1>1, <1>2, <1>3, <1>4, <1>5, <1>6, <1>7, <1>8 DEF Next, ThreadStep, Proceed, Goroutines

(***************************************************************************)
(* session.go:22-100: every behaviour of the client moves its sessions     *)
(* through SessionLife, one transition of one session at a time.           *)
(***************************************************************************)
THEOREM SessionsLiveOnce == Spec => ImplementsSessionLife
<1>1. Init => TypeInv /\ HookInv
  BY InitTypeInv, InitHookInv
<1>2. (TypeInv /\ HookInv) /\ [Next]_vars => (TypeInv /\ HookInv)'
  BY NextTypeInv, NextHookInv
<1>3. Init => Life!Init
  BY DEF Init, Life!Init, Phase
<1>4. (TypeInv /\ HookInv) /\ [Next]_vars => [Life!Next]_Phase
  BY StepLife
<1> QED
  BY <1>1, <1>2, <1>3, <1>4, PTL DEF Spec, ImplementsSessionLife, Life!Spec

-----------------------------------------------------------------------------
(***************************************************************************)
(* What holds of a client whose calls of some kinds come from one thread.  *)
(* The runs with two such threads show what is lost without it.            *)
(***************************************************************************)
Callers(ops) == {t \in Threads : Calls[t] \cap ops # {}}
Lone(ops)    == \A t, u \in Callers(ops) : t = u

\* The operation a thread is in is one it may call.
Calling ==
  \A t \in Threads :
    /\ pc[t] \in AuthLabels \cup {"auth_token"} => "authenticate" \in Calls[t]
    /\ pc[t] \in BeatLabels \cup {"beat_token", "in_hook"} \/ notifying[t]
         => "heartbeat" \in Calls[t]
    /\ pc[t] = "hook_set" => "onFailure" \in Calls[t]
    /\ pc[t] \in ShutLabels =>
         \/ "shutdown" \in Calls[t]
         \/ "heartbeat" \in Calls[t] /\ "shutdown" \in HookCalls

(***************************************************************************)
(* The hook.  c.hook reaches the current session at once, or is on its way *)
(* there; a session that is not installed yet was given it.                *)
(***************************************************************************)
HookSync ==
  /\ session # NoSession =>
       \/ sessHook[session] = hook
       \/ \E t \in Threads : pc[t] = "hook_set"
  /\ \A t \in Threads :
       /\ pc[t] = "hook_set" => arg[t] = hook /\ session \in {NoSession, prev[t]}
       /\ pc[t] = "auth_install" => sessHook[sess[t]] = hook

SyncInv == Created /\ Calling /\ HookSync

(***************************************************************************)
(* The loops.  While Shutdown waits for a loop no session is current.      *)
(***************************************************************************)
ShutInv ==
  /\ Calling
  /\ \A s \in Sessions : pc[s] \notin ShutLabels
  /\ \A t \in Threads : pc[t] \in {"shut_stop", "shut_wait"} => session = NoSession

(***************************************************************************)
(* The token.  Whoever may still store one, a thread on the failure path   *)
(* with a denial included, has a current session and shuts nothing down    *)
(* meanwhile.                                                              *)
(***************************************************************************)
TokenLabels == BeatLabels \cup {"in_hook", "auth_token", "beat_token"}

TokenInv ==
  /\ Calling
  /\ \A t \in Threads :
       /\ pc[t] \in TokenLabels => session # NoSession
       /\ notifying[t] => pc[t] \in {"fail_stop", "fail_hook", "in_hook"}
  /\ session = NoSession =>
       ifToken = NoSession \/ \E t \in Threads : pc[t] \in ShutLabels

-----------------------------------------------------------------------------
\* Initially nobody is in a call.
LEMMA InitCalling == Init => Calling
  BY DEF Init, Calling, Goroutines, AuthLabels, ShutLabels, BeatLabels

\* A step takes a thread from call to call only through "idle".
LEMMA NextCalling == TypeInv /\ Calling /\ [Next]_vars => Calling'
<1> SUFFICES ASSUME TypeInv, Calling, [Next]_vars PROVE Calling'
  OBVIOUS
<1> USE ConstantsAssumption DEF TypeInv, TypeOK, Calling, Goroutines, Goto, AuthLabels,
       BeatLabels, ShutLabels, localVars
<1>1. ASSUME NEW t \in Threads, Invoke(t) PROVE Calling'
  <2>1. CASE Shutdown(t)
    BY <2>1 DEF Shutdown
  <2> QED
    BY <1>1, <2>1 DEF Invoke, Authenticate, HeartbeatNow, OnHeartbeatFailure
<1>2. ASSUME NEW t \in Threads, ThreadStep(t) PROVE Calling'
  BY <1>2 DEF ThreadStep, AuthPrevious, AuthStop, AuthWait, AuthCreate, AuthInstall,
     SetToken, SetHook
<1>3. ASSUME NEW s \in Sessions, LoopStep(s) \/ Shutdown(s) PROVE Calling'
  BY <1>3 DEF LoopStep, LoopTick, LoopClockJump, LoopCancelled, LoopCheck, Shutdown
<1>4. ASSUME NEW g \in Goroutines, BeatLock(g) \/ BeatAccepted(g) \/ BeatFailed(g) \/ FailSwap(g)
      PROVE  Calling'
  BY <1>4 DEF BeatLock, BeatEnter, BeatRefused, Returned, StoreOrReturn, BeatAccepted,
     BeatFailed, FailSwap
<1>5. ASSUME NEW g \in Goroutines, FailStop(g) \/ FailHook(g) \/ HookReturn(g) PROVE Calling'
  BY <1>5 DEF FailStop, FailHook, HookReturn, ReturnFromFail, Returned, StoreOrReturn, Announcing
<1>6. ASSUME NEW g \in Goroutines, ShutStop(g) \/ ShutWait(g) \/ ShutClear(g) PROVE Calling'
  BY <1>6 DEF ShutStop, ShutWait, ShutClear
<1>7. CASE UNCHANGED vars
  BY <1>7 DEF vars
<1> QED
  BY <1>1, <1>2, <1>3, <1>4, <1>5, <1>6, <1>7 DEF Next, Proceed

(***************************************************************************)
(* OneLoop follows from what keeps sessions from being orphaned: of two    *)
(* running loops the owners would be one thread, or it and the client.     *)
(***************************************************************************)
OneLifecycleThread == Lone({"authenticate", "shutdown"}) /\ HookCalls = {}

\* No step of another thread makes a session current while one is torn down.
LEMMA NextShutInv ==
  ASSUME OneLifecycleThread
  PROVE  TypeInv /\ ShutInv /\ [Next]_vars => ShutInv'
<1> SUFFICES ASSUME TypeInv, ShutInv, [Next]_vars PROVE ShutInv'
  OBVIOUS
<1> USE ConstantsAssumption DEF TypeInv, TypeOK, Goroutines, Goto, ShutLabels,
       clientVars, sessionVars, localVars
<1>0. Calling'
  BY NextCalling DEF ShutInv
<1>1. ASSUME NEW t \in Threads, AuthInstall(t) PROVE ShutInv'
  <2>1. t \in Callers({"authenticate", "shutdown"})
    BY <1>1 DEF AuthInstall, ShutInv, Calling, AuthLabels, Callers
  <2>2. ASSUME NEW u \in Threads, pc[u] \in {"shut_stop", "shut_wait"} PROVE u = t
    BY <2>1, <2>2 DEF ShutInv, Calling, OneLifecycleThread, Lone, Callers
  <2> QED
    BY <1>0, <1>1, <2>2 DEF AuthInstall, ShutInv
<1>2. ASSUME NEW t \in Threads, Invoke(t) PROVE ShutInv'
  BY <1>0, <1>2
  DEF Invoke, Authenticate, HeartbeatNow, OnHeartbeatFailure, Shutdown, ShutInv
<1>3. ASSUME NEW t \in Threads,
             \/ AuthPrevious(t) \/ AuthStop(t) \/ AuthWait(t) \/ AuthCreate(t)
             \/ SetToken(t) \/ SetHook(t)
      PROVE  ShutInv'
  BY <1>0, <1>3
  DEF AuthPrevious, AuthStop, AuthWait, AuthCreate, SetToken, SetHook, ShutInv
<1>4. ASSUME NEW s \in Sessions, LoopStep(s) \/ Shutdown(s) PROVE ShutInv'
  BY <1>0, <1>4 DEF LoopStep, LoopTick, LoopClockJump, LoopCancelled, LoopCheck, Shutdown,
     OneLifecycleThread, ShutInv
<1>5. ASSUME NEW g \in Goroutines, BeatLock(g) \/ Proceed(g) PROVE ShutInv'
  BY <1>0, <1>5
  DEF BeatLock, BeatEnter, BeatRefused, Returned, StoreOrReturn, Proceed, BeatAccepted, BeatFailed,
     FailSwap, FailStop, FailHook, HookReturn, ReturnFromFail, ShutStop, ShutWait, ShutClear,
     ShutInv
<1>6. CASE UNCHANGED vars
  BY <1>0, <1>6 DEF vars, ShutInv
<1> QED
  BY <1>1, <1>2, <1>3, <1>4, <1>5, <1>6 DEF Next, ThreadStep

\* Every running loop is the current session's or is in the lifecycle thread's
\* hands, and that thread holds it only while no other is current.
LEMMA LoopsAreOne ==
  ASSUME OneLifecycleThread, TypeInv, OrphanInv, ShutInv PROVE OneLoop
<1> SUFFICES ASSUME NEW s \in Sessions, NEW r \in Sessions, ~Exited(s), ~Exited(r), s # r
             PROVE  FALSE
  BY DEF OneLoop
<1> DEFINE Holds(t, x) ==
      \/ pc[t] = "auth_install" /\ sess[t] = x
      \/ pc[t] \in {"shut_stop", "shut_wait", "auth_stop", "auth_wait"} /\ prev[t] = x
<1>1. ASSUME NEW x \in Sessions, ~Exited(x)
      PROVE  \/ session = x
             \/ \E t \in Callers({"authenticate", "shutdown"}) : Holds(t, x)
  <2>1. Owned(x)
    BY <1>1 DEF OrphanInv, NoOrphan
  <2>2. ASSUME NEW g \in Goroutines, Holds(g, x)
        PROVE  g \in Callers({"authenticate", "shutdown"})
    <3>1. g \in Threads
      BY <2>2 DEF Goroutines, ShutInv, ShutLabels, TypeInv, TypeOK, CallLabels, AuthLabels
    <3> QED
      BY <2>2, <3>1 DEF ShutInv, Calling, ShutLabels, AuthLabels, Callers, OneLifecycleThread
  <2> QED
    BY <2>1, <2>2 DEF Owned
<1>2. ASSUME NEW t \in Callers({"authenticate", "shutdown"}), NEW x \in Sessions, Holds(t, x),
             NEW y \in Sessions, session = y, x # y, ~Exited(y)
      PROVE  FALSE
  <2>1. t \in Threads /\ session # NoSession
    BY <1>2, ConstantsAssumption DEF Callers
  <2>2. CASE pc[t] = "auth_install"
    BY <1>2, <2>1, <2>2 DEF OrphanInv, Replacing, Ended
  <2>3. CASE pc[t] \in {"auth_stop", "auth_wait"}
    BY <1>2, <2>1, <2>3 DEF OrphanInv, Replacing
  <2>4. CASE pc[t] \in {"shut_stop", "shut_wait"}
    BY <2>1, <2>4 DEF ShutInv
  <2> QED
    BY <1>2, <2>2, <2>3, <2>4
<1>3. ASSUME NEW t \in Callers({"authenticate", "shutdown"}), Holds(t, s),
             NEW u \in Callers({"authenticate", "shutdown"}), Holds(u, r)
      PROVE  FALSE
  BY <1>3 DEF OneLifecycleThread, Lone
<1> HIDE DEF Holds
<1> QED
  BY <1>1, <1>2, <1>3

(***************************************************************************)
(* client.go:259-262: no two loops run at once, if one thread is the only  *)
(* one to authenticate and to shut down, and hooks do not shut down; any   *)
(* number of others may beat and set hooks meanwhile.                      *)
(***************************************************************************)
THEOREM OneLoopRuns == OneLifecycleThread => (Spec => []OneLoop)
<1> SUFFICES ASSUME OneLifecycleThread PROVE Spec => []OneLoop
  OBVIOUS
<1>0. OneAuthenticatingThread
  BY DEF OneLifecycleThread, OneAuthenticatingThread, Lone, Callers
<1>1. Init => TypeInv /\ OrphanInv /\ ShutInv
  <2>1. Init => ShutInv
    BY InitCalling, ConstantsAssumption DEF Init, ShutInv, Goroutines, ShutLabels
  <2> QED
    BY <2>1, InitTypeInv, InitOrphanInv
<1>2. (TypeInv /\ OrphanInv /\ ShutInv) /\ [Next]_vars => (TypeInv /\ OrphanInv /\ ShutInv)'
  BY <1>0, NextTypeInv, NextOrphanInv, NextShutInv
<1>3. TypeInv /\ OrphanInv /\ ShutInv => OneLoop
  BY LoopsAreOne
<1> QED
  BY <1>1, <1>2, <1>3, PTL DEF Spec

-----------------------------------------------------------------------------
\* A session that somebody refers to was created, whoever creates sessions.
LEMMA NextCreated == TypeInv /\ Created /\ [Next]_vars => Created'
<1> SUFFICES ASSUME TypeInv, Created, [Next]_vars PROVE Created'
  OBVIOUS
<1> USE ConstantsAssumption DEF TypeInv, TypeOK, Created, Goroutines, Goto, PrevLabels,
       WaitLabels, clientVars, sessionVars, localVars
<1>b. ASSUME NEW s \in Sessions, StopSession(s)
      PROVE  \A r \in Sessions : life'[r] = "none" => life[r] = "none"
  BY <1>b DEF StopSession, Alive
<1>1. ASSUME NEW t \in Threads, Invoke(t) PROVE Created'
  BY <1>1 DEF Invoke, Authenticate, HeartbeatNow, OnHeartbeatFailure, Shutdown
<1>2. ASSUME NEW t \in Threads, AuthStop(t) \/ AuthWait(t) PROVE Created'
  <2>1. CASE AuthStop(t)
    <3>1. prev[t] \in Sessions
      BY <2>1 DEF AuthStop, UsesPrev
    <3>2. \A r \in Sessions : life'[r] = "none" => life[r] = "none"
      BY <2>1, <3>1, <1>b DEF AuthStop
    <3>3. session' = session /\ prev' = prev /\ sess' = sess
      BY <2>1 DEF AuthStop
    <3>4. session' # NoSession => life'[session'] # "none"
      BY <3>2, <3>3
    <3>5. ASSUME NEW h \in Goroutines, pc'[h] \in PrevLabels
          PROVE  prev[h] \in Sessions /\ life[prev[h]] # "none"
      BY <2>1, <3>5 DEF AuthStop, UsesPrev
    <3>6. ASSUME NEW h \in Goroutines, pc'[h] = "auth_install"
          PROVE  sess[h] \in Sessions /\ life[sess[h]] # "none"
      BY <2>1, <3>6 DEF AuthStop, UsesSess
    <3> QED
      BY <3>2, <3>3, <3>4, <3>5, <3>6
  <2>2. CASE AuthWait(t)
    BY <2>2 DEF AuthWait
  <2> QED
    BY <1>2, <2>1, <2>2
<1>3. ASSUME NEW t \in Threads, AuthCreate(t) PROVE Created'
  BY <1>3 DEF AuthCreate
<1>4. ASSUME NEW t \in Threads,
             AuthPrevious(t) \/ AuthInstall(t) \/ SetToken(t) \/ SetHook(t)
      PROVE  Created'
  BY <1>4 DEF AuthPrevious, AuthInstall, SetToken, SetHook
<1>5. ASSUME NEW s \in Sessions, LoopStep(s) \/ Shutdown(s) PROVE Created'
  BY <1>5 DEF LoopStep, LoopTick, LoopClockJump, LoopCancelled, LoopCheck, Shutdown
<1>6. ASSUME NEW g \in Goroutines, BeatLock(g) \/ BeatAccepted(g) \/ BeatFailed(g)
      PROVE  Created'
  BY <1>6 DEF BeatLock, BeatEnter, BeatRefused, Returned, StoreOrReturn, BeatAccepted, BeatFailed
<1>7. ASSUME NEW g \in Goroutines, FailSwap(g) PROVE Created'
  BY <1>7 DEF FailSwap, Alive
<1>8. ASSUME NEW g \in Goroutines, FailStop(g) \/ FailHook(g) \/ HookReturn(g) PROVE Created'
  BY <1>8 DEF FailStop, FailHook, HookReturn, ReturnFromFail, Returned, StoreOrReturn
<1>9. ASSUME NEW g \in Goroutines, ShutStop(g) \/ ShutWait(g) \/ ShutClear(g) PROVE Created'
  <2>1. CASE ShutStop(g)
    <3>1. prev[g] \in Sessions
      BY <2>1 DEF ShutStop, UsesPrev
    <3>2. \A r \in Sessions : life'[r] = "none" => life[r] = "none"
      BY <2>1, <3>1, <1>b DEF ShutStop
    <3>3. session' = session /\ prev' = prev /\ sess' = sess
      BY <2>1 DEF ShutStop
    <3>4. session' # NoSession => life'[session'] # "none"
      BY <3>2, <3>3
    <3>5. ASSUME NEW h \in Goroutines, pc'[h] \in PrevLabels
          PROVE  prev[h] \in Sessions /\ life[prev[h]] # "none"
      BY <2>1, <3>5 DEF ShutStop, UsesPrev
    <3>6. ASSUME NEW h \in Goroutines, pc'[h] = "auth_install"
          PROVE  sess[h] \in Sessions /\ life[sess[h]] # "none"
      BY <2>1, <3>6 DEF ShutStop, UsesSess
    <3> QED
      BY <3>2, <3>3, <3>4, <3>5, <3>6
  <2>2. CASE ShutWait(g)
    BY <2>2 DEF ShutWait
  <2>3. CASE ShutClear(g)
    BY <2>3 DEF ShutClear
  <2> QED
    BY <1>9, <2>1, <2>2, <2>3
<1>10. CASE UNCHANGED vars
  BY <1>10 DEF vars
<1> QED
  BY <1>1, <1>2, <1>3, <1>4, <1>5, <1>6, <1>7, <1>8, <1>9, <1>10
  DEF Next, ThreadStep, Proceed

\* One thread authenticates and sets hooks.
OneHookSetter == Lone({"authenticate", "onFailure"})

\* The two ends of a hook's way are never on two threads.
LEMMA OneHookPath ==
  ASSUME OneHookSetter, Calling,
         NEW t \in Threads, pc[t] \in AuthLabels \/ "onFailure" \in Calls[t],
         NEW u \in Threads, pc[u] \in AuthLabels \/ pc[u] = "hook_set"
  PROVE  t = u
<1>1. t \in Callers({"authenticate", "onFailure"}) /\ u \in Callers({"authenticate", "onFailure"})
  BY DEF Calling, Callers
<1> QED BY <1>1 DEF OneHookSetter, Lone

\* Steps that touch neither a hook nor a session's place.
LEMMA QuietHookSync ==
  ASSUME TypeInv, HookSync, UNCHANGED <<hook, sessHook, arg>>,
         session' \in {session, NoSession},
         \A t \in Threads :
           /\ pc'[t] = "hook_set" <=> pc[t] = "hook_set"
           /\ pc[t] = "hook_set" => prev'[t] = prev[t]
           /\ pc'[t] = "auth_install" => pc[t] = "auth_install" /\ sess'[t] = sess[t]
  PROVE  HookSync'
  BY DEF HookSync

\* The hook set last gets where it is needed.
LEMMA NextHookSync ==
  ASSUME OneHookSetter
  PROVE  TypeInv /\ SyncInv /\ [Next]_vars => HookSync'
<1> SUFFICES ASSUME TypeInv, SyncInv, [Next]_vars PROVE HookSync'
  OBVIOUS
<1>a. Created /\ Calling /\ HookSync
  BY DEF SyncInv
<1> USE ConstantsAssumption DEF TypeInv, TypeOK, Goroutines, Goto, CallLabels,
       clientVars, sessionVars, localVars
<1>1. ASSUME NEW t \in Threads, AuthCreate(t) PROVE HookSync'
  <2>1. PICK s \in Sessions :
          /\ life[s] = "none" /\ sessHook' = [sessHook EXCEPT ![s] = hook]
          /\ sess' = [sess EXCEPT ![t] = s]
          /\ pc' = [pc EXCEPT ![t] = "auth_install",
                              ![s] = IF AutomaticHeartbeats THEN "loop_wait" ELSE "off"]
    BY <1>1 DEF AuthCreate
  <2>2. pc[t] = "auth_create" /\ UNCHANGED <<session, hook, prev, arg>>
    BY <1>1 DEF AuthCreate
  <2>3. \A u \in Threads : u # t => pc[u] # "auth_install" /\ pc[u] # "hook_set"
    BY <1>a, <2>2, OneHookPath DEF AuthLabels
  <2>4. session # s
    BY <1>a, <2>1 DEF Created
  <2> QED
    BY <1>a, <2>1, <2>2, <2>3, <2>4 DEF HookSync
<1>2. ASSUME NEW t \in Threads, AuthInstall(t) PROVE HookSync'
  <2>1. \A u \in Threads : pc[u] # "hook_set"
    BY <1>a, <1>2, OneHookPath DEF AuthInstall, AuthLabels
  <2>2. sessHook[sess[t]] = hook
    BY <1>a, <1>2 DEF AuthInstall, HookSync
  <2> QED
    BY <1>a, <1>2, <2>1, <2>2 DEF AuthInstall, HookSync
<1>3. ASSUME NEW t \in Threads, OnHeartbeatFailure(t) PROVE HookSync'
  <2>1. \A u \in Threads : pc[u] # "auth_install" /\ pc[u] # "hook_set"
    BY <1>a, <1>3, OneHookPath DEF OnHeartbeatFailure, AuthLabels
  <2> QED
    BY <1>a, <1>3, <2>1 DEF OnHeartbeatFailure, HookSync
<1>4. ASSUME NEW t \in Threads, SetHook(t) PROVE HookSync'
  <2>1. "onFailure" \in Calls[t] /\ pc[t] = "hook_set"
    BY <1>a, <1>4 DEF SetHook, Calling
  <2>2. \A u \in Threads : u # t => pc[u] # "auth_install" /\ pc[u] # "hook_set"
    BY <1>a, <2>1, OneHookPath DEF AuthLabels
  <2>3. prev[t] \in Sessions /\ arg[t] = hook /\ session \in {NoSession, prev[t]}
    BY <1>a, <2>1 DEF HookSync, UsesPrev
  <2> QED
    BY <1>a, <1>4, <2>1, <2>2, <2>3 DEF SetHook, HookSync
<1>5. ASSUME NEW t \in Threads,
             \/ Authenticate(t) \/ HeartbeatNow(t) \/ AuthPrevious(t) \/ AuthStop(t)
             \/ AuthWait(t) \/ SetToken(t)
      PROVE  HookSync'
  BY <1>a, <1>5, QuietHookSync
  DEF Authenticate, HeartbeatNow, AuthPrevious, AuthStop, AuthWait, SetToken, StopSession
<1>6. ASSUME NEW g \in Goroutines, Shutdown(g) PROVE HookSync'
  BY <1>a, <1>6, QuietHookSync DEF Shutdown
<1>7. ASSUME NEW s \in Sessions, LoopStep(s) PROVE HookSync'
  BY <1>a, <1>7, QuietHookSync
  DEF LoopStep, LoopTick, LoopClockJump, LoopCancelled, LoopCheck
<1>8. ASSUME NEW g \in Goroutines, BeatLock(g) \/ BeatAccepted(g) \/ BeatFailed(g) \/ FailSwap(g)
      PROVE  HookSync'
  BY <1>a, <1>8, QuietHookSync
  DEF BeatLock, BeatEnter, BeatRefused, Returned, StoreOrReturn, BeatAccepted, BeatFailed, FailSwap
<1>9. ASSUME NEW g \in Goroutines, FailStop(g) \/ FailHook(g) \/ HookReturn(g) PROVE HookSync'
  BY <1>a, <1>9, QuietHookSync DEF FailStop, FailHook, HookReturn, ReturnFromFail, Returned, StoreOrReturn
<1>10. ASSUME NEW g \in Goroutines, ShutStop(g) \/ ShutWait(g) \/ ShutClear(g) PROVE HookSync'
  BY <1>a, <1>10, QuietHookSync DEF ShutStop, ShutWait, ShutClear, StopSession
<1>11. CASE UNCHANGED vars
  BY <1>a, <1>11, QuietHookSync DEF vars
<1> QED
  BY <1>1, <1>2, <1>3, <1>4, <1>5, <1>6, <1>7, <1>8, <1>9, <1>10, <1>11, ConstantsAssumption
  DEF Next, Invoke, ThreadStep, Proceed, Goroutines

(***************************************************************************)
(* client.go:323-333: between calls the current session reports to the     *)
(* hook set last, if one thread authenticates and sets hooks; others may   *)
(* beat and shut down, and hooks may shut down, at any time.               *)
(***************************************************************************)
THEOREM HookStaysInSync == OneHookSetter => (Spec => []HookInSync)
<1> SUFFICES ASSUME OneHookSetter PROVE Spec => []HookInSync
  OBVIOUS
<1>1. Init => TypeInv /\ SyncInv
  <2>1. Init => Created /\ HookSync
    BY ConstantsAssumption DEF Init, Created, HookSync, Goroutines, PrevLabels, WaitLabels
  <2> QED
    BY <2>1, InitTypeInv, InitCalling DEF SyncInv
<1>2. (TypeInv /\ SyncInv) /\ [Next]_vars => (TypeInv /\ SyncInv)'
  <2>1. TypeInv /\ SyncInv /\ [Next]_vars => Created' /\ Calling' /\ HookSync'
    BY NextCreated, NextCalling, NextHookSync DEF SyncInv
  <2> QED
    BY <2>1, NextTypeInv DEF SyncInv
<1>3. SyncInv => HookInSync
  BY DEF SyncInv, HookSync, HookInSync, Quiescent
<1> QED
  BY <1>1, <1>2, <1>3, PTL DEF Spec

-----------------------------------------------------------------------------
\* Hooks shut nothing down, or there are no loops: a loop whose hook calls
\* Shutdown waits for its own end.
HooksHarmless == HookCalls = {} \/ ~AutomaticHeartbeats

(***************************************************************************)
(* Waiting.  A goroutine waits for another one only at requestMutex and    *)
(* for the end of a loop.                                                  *)
(***************************************************************************)
Waits(g) ==
  \/ pc[g] = "beat_lock" /\ mutex[sess[g]] # NoSession
  \/ pc[g] \in WaitLabels /\ ~Exited(prev[g])

\* A goroutine that others wait for waits for none, except a loop for its mutex.
NoCircle ==
  /\ \A s \in Sessions : mutex[s] # NoSession =>
       /\ sess[mutex[s]] = s /\ pc[mutex[s]] \in BeatLabels \cup HookLabels
       /\ ~Waits(mutex[s])
  /\ \A g \in Goroutines : pc[g] \in WaitLabels =>
       /\ stopped[prev[g]] /\ ~Alive(prev[g])
       /\ pc[prev[g]] \notin WaitLabels

\* The most steps a goroutine goes on for from a label, once its session is dead
\* or while it holds the mutex.
Steps(label) ==
  CASE label = "loop_wait"   -> 11
    [] label = "beat_post"   -> 10
    [] label = "fail_swap"   -> 9
    [] label = "fail_stop"   -> 8
    [] label = "fail_hook"   -> 7
    [] label = "in_hook"     -> 6
    [] label = "shut_stop"   -> 5
    [] label = "shut_wait"   -> 4
    [] label = "shut_clear"  -> 3
    [] label = "hook_return" -> 2
    [] label \in {"beat_lock", "loop_check"} -> 1
    [] OTHER -> 0

\* The loop of a dead session and the holder of a mutex only go forward.
WindsDown ==
  \A s \in Sessions :
    /\ life[s] \in {"failed", "stopped"} /\ pc'[s] # pc[s] => Steps(pc'[s]) < Steps(pc[s])
    /\ LET g == mutex[s] IN
       g # NoSession /\ pc'[g] # pc[g] => mutex'[s] # g \/ Steps(pc'[g]) < Steps(pc[g])

\* The holder is inside the exchange, or on the failure path from there; in
\* Shutdown only from the hook.
Held ==
  /\ \A s \in Sessions : mutex[s] # NoSession =>
       /\ sess[mutex[s]] = s
       /\ pc[mutex[s]] \in {"beat_post", "fail_swap", "fail_stop", "fail_hook"} \cup HookLabels
       /\ pc[mutex[s]] \in ShutLabels => notifying[mutex[s]]
  /\ \A g \in Goroutines : notifying[g] =>
       /\ pc[g] \in {"fail_stop", "fail_hook"} \cup HookLabels
       /\ pc[g] \in ShutLabels => HookCalls # {}

\* What is waited for was stopped before.
Cancelled == \A g \in Goroutines : pc[g] \in WaitLabels => stopped[prev[g]] /\ ~Alive(prev[g])

\* A loop starts with its session, where there are loops, and shuts nothing down
\* unless a hook does.
LoopsTame ==
  /\ \A s \in Sessions : life[s] = "none" => pc[s] = "off"
  /\ HookCalls = {} => \A s \in Sessions : pc[s] \notin ShutLabels
  /\ ~AutomaticHeartbeats => \A s \in Sessions : pc[s] = "off"

WaitInv == Created /\ Held /\ Cancelled /\ LoopsTame

\* Initially nobody waits, and there is nothing to wait for.
LEMMA InitWaitInv == Init => WaitInv
  BY ConstantsAssumption DEF Init, WaitInv, Created, Held, Cancelled, LoopsTame, Goroutines,
     PrevLabels, WaitLabels, ShutLabels

\* Only a hook brings a loop into Shutdown, and only AuthCreate starts a loop.
LEMMA NextLoopsTame == TypeInv /\ LoopsTame /\ [Next]_vars => LoopsTame'
<1> SUFFICES ASSUME TypeInv, LoopsTame, [Next]_vars PROVE LoopsTame'
  OBVIOUS
<1> USE ConstantsAssumption DEF TypeInv, TypeOK, Goroutines, Goto, ShutLabels, LoopsTame,
     Alive, StopSession, sessionVars, clientVars, localVars
<1>1. ASSUME NEW t \in Threads, Invoke(t) \/ ThreadStep(t) PROVE LoopsTame'
  BY <1>1 DEF Invoke, Authenticate, HeartbeatNow, OnHeartbeatFailure, Shutdown, ThreadStep,
     AuthPrevious, AuthStop, AuthWait, AuthCreate, AuthInstall, SetToken, SetHook
<1>2. ASSUME NEW s \in Sessions, LoopStep(s) \/ Shutdown(s) PROVE LoopsTame'
  BY <1>2 DEF LoopStep, LoopTick, LoopClockJump, LoopCancelled, LoopCheck, Shutdown
<1>3. ASSUME NEW g \in Goroutines,
             BeatLock(g) \/ BeatAccepted(g) \/ BeatFailed(g) \/ FailSwap(g)
      PROVE  LoopsTame'
  BY <1>3 DEF BeatLock, BeatEnter, BeatRefused, Returned, StoreOrReturn, BeatAccepted, BeatFailed, FailSwap
<1>4. ASSUME NEW g \in Goroutines, FailStop(g) \/ FailHook(g) \/ HookReturn(g) PROVE LoopsTame'
  BY <1>4 DEF FailStop, FailHook, HookReturn, ReturnFromFail, Returned, StoreOrReturn
<1>5. ASSUME NEW g \in Goroutines, ShutStop(g) \/ ShutWait(g) \/ ShutClear(g) PROVE LoopsTame'
  BY <1>5 DEF ShutStop, ShutWait, ShutClear
<1>6. CASE UNCHANGED vars
  BY <1>6 DEF vars
<1> QED
  BY <1>1, <1>2, <1>3, <1>4, <1>5, <1>6 DEF Next, Proceed

\* The mutex goes with the exchange, and is given back on every way out of it.
LEMMA NextHeld == TypeInv /\ LoopsTame /\ Held /\ [Next]_vars => Held'
<1> SUFFICES ASSUME TypeInv, LoopsTame, Held, [Next]_vars PROVE Held'
  OBVIOUS
<1> USE ConstantsAssumption DEF TypeInv, TypeOK, Announcing, Goroutines, Goto, ShutLabels,
     HookLabels, Held, clientVars, sessionVars, localVars
<1>1. ASSUME NEW t \in Threads, Invoke(t) PROVE Held'
  <2>1. CASE Authenticate(t) \/ OnHeartbeatFailure(t)
    BY <2>1 DEF Authenticate, OnHeartbeatFailure
  <2>2. CASE HeartbeatNow(t)
    BY <2>2 DEF HeartbeatNow
  <2>3. CASE Shutdown(t)
    BY <2>3 DEF Shutdown
  <2> QED
    BY <1>1, <2>1, <2>2, <2>3 DEF Invoke
<1>2. ASSUME NEW t \in Threads, ThreadStep(t) PROVE Held'
  <2>1. CASE AuthPrevious(t) \/ AuthStop(t) \/ AuthWait(t) \/ AuthInstall(t) \/ SetToken(t)
             \/ SetHook(t)
    BY <2>1 DEF AuthPrevious, AuthStop, AuthWait, AuthInstall, SetToken, SetHook, StopSession
  <2>2. CASE AuthCreate(t)
    BY <2>2 DEF AuthCreate, LoopsTame
  <2> QED
    BY <1>2, <2>1, <2>2 DEF ThreadStep
<1>3. ASSUME NEW s \in Sessions, LoopStep(s) \/ Shutdown(s) PROVE Held'
  BY <1>3 DEF LoopStep, LoopTick, LoopClockJump, LoopCancelled, LoopCheck, Shutdown
<1>4. ASSUME NEW g \in Goroutines, BeatLock(g) \/ BeatAccepted(g) \/ BeatFailed(g) \/ FailSwap(g)
      PROVE  Held'
  <2>1. CASE BeatEnter(g)
    BY <2>1 DEF BeatEnter, UsesSess, BeatLabels
  <2>2. CASE BeatRefused(g) \/ BeatFailed(g)
    BY <2>2 DEF BeatRefused, BeatFailed, Returned, StoreOrReturn
  <2>3. CASE BeatAccepted(g)
    BY <2>3 DEF BeatAccepted, UsesSess, BeatLabels
  <2>4. CASE FailSwap(g)
    BY <2>4 DEF FailSwap
  <2> QED
    BY <1>4, <2>1, <2>2, <2>3, <2>4 DEF BeatLock
<1>5. ASSUME NEW g \in Goroutines, FailStop(g) \/ FailHook(g) \/ HookReturn(g) PROVE Held'
  <2>1. /\ sess' = sess
        /\ \A h \in Goroutines \ {g} : pc'[h] = pc[h] /\ notifying'[h] = notifying[h]
        /\ pc'[g] \notin ShutLabels /\ (notifying'[g] => pc'[g] \in {"fail_hook", "in_hook"})
    BY <1>5 DEF FailStop, FailHook, HookReturn, ReturnFromFail, Returned, StoreOrReturn
  <2>2. \/ mutex' = mutex /\ pc'[g] \in {"fail_hook", "in_hook"}
        \/ mutex' = [mutex EXCEPT ![sess[g]] = IF @ = g THEN NoSession ELSE @]
    BY <1>5 DEF FailStop, FailHook, HookReturn, ReturnFromFail
  <2>3. sess[g] \in Sessions
    BY <1>5 DEF FailStop, FailHook, HookReturn, UsesSess, BeatLabels
  <2>4. ASSUME NEW s \in Sessions, mutex'[s] # NoSession
        PROVE  mutex'[s] = mutex[s] /\ (mutex[s] = g => pc'[g] \in {"fail_hook", "in_hook"})
    BY <2>2, <2>3, <2>4
  <2> QED
    BY <2>1, <2>4
<1>6. ASSUME NEW g \in Goroutines, ShutStop(g) \/ ShutWait(g) \/ ShutClear(g) PROVE Held'
  BY <1>6 DEF ShutStop, ShutWait, ShutClear, StopSession
<1>7. CASE UNCHANGED vars
  BY <1>7 DEF vars
<1> QED
  BY <1>1, <1>2, <1>3, <1>4, <1>5, <1>6, <1>7 DEF Next, Proceed

\* What was stopped stays stopped, and is no session AuthCreate could pick.
LEMMA NextCancelled == TypeInv /\ Created /\ Cancelled /\ [Next]_vars => Cancelled'
<1> SUFFICES ASSUME TypeInv, Created, Cancelled, [Next]_vars PROVE Cancelled'
  OBVIOUS
<1> USE ConstantsAssumption DEF TypeInv, TypeOK, Goroutines, Goto, Alive, Cancelled, WaitLabels,
     UsesPrev, clientVars, sessionVars, localVars
<1>1. ASSUME NEW t \in Threads, Invoke(t) PROVE Cancelled'
  BY <1>1 DEF Invoke, Authenticate, HeartbeatNow, OnHeartbeatFailure, Shutdown
<1>2. ASSUME NEW t \in Threads, AuthCreate(t) PROVE Cancelled'
  BY <1>2 DEF AuthCreate, Created, PrevLabels
<1>3. ASSUME NEW t \in Threads, AuthPrevious(t) \/ AuthStop(t) \/ AuthWait(t) \/ AuthInstall(t)
                                \/ SetToken(t) \/ SetHook(t)
      PROVE Cancelled'
  BY <1>3 DEF AuthPrevious, AuthStop, AuthWait, AuthInstall, SetToken, SetHook, StopSession
<1>4. ASSUME NEW s \in Sessions, LoopStep(s) \/ Shutdown(s) PROVE Cancelled'
  BY <1>4 DEF LoopStep, LoopTick, LoopClockJump, LoopCancelled, LoopCheck, Shutdown
<1>5. ASSUME NEW g \in Goroutines, BeatLock(g) \/ BeatAccepted(g) \/ BeatFailed(g) PROVE Cancelled'
  BY <1>5 DEF BeatLock, BeatEnter, BeatRefused, Returned, StoreOrReturn, BeatAccepted, BeatFailed
<1>6. ASSUME NEW g \in Goroutines, FailSwap(g) PROVE Cancelled'
  BY <1>6 DEF FailSwap, UsesSess, BeatLabels
<1>7. ASSUME NEW g \in Goroutines, FailStop(g) \/ FailHook(g) \/ HookReturn(g) PROVE Cancelled'
  BY <1>7 DEF FailStop, FailHook, HookReturn, ReturnFromFail, Returned, StoreOrReturn
<1>8. ASSUME NEW g \in Goroutines, ShutStop(g) \/ ShutWait(g) \/ ShutClear(g) PROVE Cancelled'
  BY <1>8 DEF ShutStop, ShutWait, ShutClear, StopSession
<1>9. CASE UNCHANGED vars
  BY <1>9 DEF vars
<1> QED
  BY <1>1, <1>2, <1>3, <1>4, <1>5, <1>6, <1>7, <1>8, <1>9 DEF Next, ThreadStep, Proceed

\* The four hold together.
LEMMA WaitSpec == Spec => [](TypeInv /\ WaitInv)
<1>1. Init => TypeInv /\ WaitInv
  BY InitTypeInv, InitWaitInv
<1>2. (TypeInv /\ WaitInv) /\ [Next]_vars => (TypeInv /\ WaitInv)'
  <2>1. TypeInv /\ WaitInv /\ [Next]_vars => Created' /\ Held' /\ Cancelled' /\ LoopsTame'
    BY NextCreated, NextHeld, NextCancelled, NextLoopsTame DEF WaitInv
  <2> QED
    BY <2>1, NextTypeInv DEF WaitInv
<1> QED
  BY <1>1, <1>2, PTL DEF Spec

(***************************************************************************)
(* session.go:61-77 and :104-119: who holds requestMutex is at work and    *)
(* waits for nobody; who waits for a loop waits for one that was cancelled *)
(* and whose session is not alive, and that loop waits for no loop.  So    *)
(* nobody waits in a circle: a chain of waiting is a call, the loop it     *)
(* tears down, and the holder of that loop's mutex.                        *)
(***************************************************************************)
THEOREM NobodyStuck == HooksHarmless => (Spec => []NoCircle)
<1> SUFFICES ASSUME HooksHarmless PROVE Spec => []NoCircle
  OBVIOUS
<1>1. TypeInv /\ WaitInv => NoCircle
  <2> SUFFICES ASSUME TypeInv, WaitInv PROVE NoCircle
    OBVIOUS
  <2> USE ConstantsAssumption DEF WaitInv
  <2>1. ASSUME NEW s \in Sessions PROVE pc[s] \notin WaitLabels
    BY <2>1 DEF HooksHarmless, LoopsTame, ShutLabels, WaitLabels, TypeInv, TypeOK, CallLabels,
       AuthLabels
  <2>2. ASSUME NEW s \in Sessions, mutex[s] # NoSession PROVE ~Waits(mutex[s])
    <3> DEFINE g == mutex[s]
    <3>1. g \in Goroutines
      BY <2>2 DEF TypeInv, TypeOK
    <3>2. pc[g] # "beat_lock" /\ pc[g] # "auth_wait"
      BY <2>2 DEF Held, HookLabels, ShutLabels
    <3>3. ASSUME pc[g] = "shut_wait" PROVE Exited(prev[g])
      <4>1. HookCalls # {}
        BY <2>2, <3>1, <3>3 DEF Held, ShutLabels
      <4>2. prev[g] \in Sessions
        BY <3>1, <3>3 DEF TypeInv, TypeOK, UsesPrev
      <4> QED
        BY <4>1, <4>2 DEF HooksHarmless, LoopsTame, Exited
    <3> QED
      BY <3>2, <3>3 DEF Waits, WaitLabels
  <2>3. ASSUME NEW s \in Sessions, mutex[s] # NoSession
        PROVE  sess[mutex[s]] = s /\ pc[mutex[s]] \in BeatLabels \cup HookLabels
    BY <2>3 DEF Held, BeatLabels
  <2>4. ASSUME NEW g \in Goroutines, pc[g] \in WaitLabels
        PROVE  stopped[prev[g]] /\ ~Alive(prev[g]) /\ prev[g] \in Sessions
    BY <2>4 DEF Cancelled, TypeInv, TypeOK, UsesPrev, WaitLabels
  <2> QED
    BY <2>1, <2>2, <2>3, <2>4 DEF NoCircle
<1> QED
  BY <1>1, WaitSpec, PTL

(***************************************************************************)
(* session.go:61-77, :87-119 and :194-221: neither the loop of a dead      *)
(* session nor the holder of requestMutex starts anything again: each of   *)
(* its steps brings it nearer to its end, or to giving back the mutex.     *)
(***************************************************************************)
THEOREM WorkEnds == Spec => [][WindsDown]_vars
<1>1. (TypeInv /\ WaitInv) /\ [Next]_vars => [WindsDown]_vars
  <2> SUFFICES ASSUME TypeInv, WaitInv, Next PROVE WindsDown
    OBVIOUS
  <2> USE ConstantsAssumption DEF TypeInv, TypeOK, Goroutines, Goto, Alive, WaitInv, Held
  <2> DEFINE Dead(s) == life[s] \in {"failed", "stopped"}
             Moves(g) == \A h \in Goroutines \ {g} : pc'[h] = pc[h]
             Down(g) == \A s \in Sessions :
               /\ s = g /\ Dead(s) => Steps(pc'[s]) < Steps(pc[s])
               /\ mutex[s] = g => mutex'[s] # g \/ Steps(pc'[g]) < Steps(pc[g])
  <2>1. ASSUME NEW g \in Goroutines, Moves(g), Down(g) PROVE WindsDown
    BY <2>1 DEF WindsDown
  <2>2. ASSUME NEW t \in Threads, Invoke(t) PROVE WindsDown
    <3>1. Moves(t)
      BY <2>2 DEF Invoke, Authenticate, HeartbeatNow, OnHeartbeatFailure, Shutdown
    <3>2. Down(t)
      BY <2>2 DEF Invoke, Authenticate, HeartbeatNow, OnHeartbeatFailure, Shutdown, HookLabels,
         ShutLabels, Steps
    <3> QED BY <2>1, <3>1, <3>2
  <2>3. ASSUME NEW t \in Threads, AuthCreate(t) PROVE WindsDown
    BY <2>3 DEF AuthCreate, WindsDown, HookLabels, ShutLabels, LoopsTame
  <2>4. ASSUME NEW t \in Threads, AuthPrevious(t) \/ AuthStop(t) \/ AuthWait(t) \/ AuthInstall(t)
                                  \/ SetToken(t) \/ SetHook(t)
        PROVE WindsDown
    <3>1. Moves(t)
      BY <2>4 DEF AuthPrevious, AuthStop, AuthWait, AuthInstall, SetToken, SetHook
    <3>2. Down(t)
      BY <2>4 DEF AuthPrevious, AuthStop, AuthWait, AuthInstall, SetToken, SetHook, HookLabels,
         ShutLabels
    <3> QED BY <2>1, <3>1, <3>2
  <2>5. ASSUME NEW s \in Sessions, LoopStep(s) \/ Shutdown(s) PROVE WindsDown
    <3>1. Moves(s)
      BY <2>5 DEF LoopStep, LoopTick, LoopClockJump, LoopCancelled, LoopCheck, Shutdown
    <3>2. Down(s)
      BY <2>5 DEF LoopStep, LoopTick, LoopClockJump, LoopCancelled, LoopCheck, Shutdown, HookLabels,
         ShutLabels, Steps
    <3> QED BY <2>1, <3>1, <3>2
  <2>6. ASSUME NEW g \in Goroutines, BeatLock(g) \/ BeatAccepted(g) \/ BeatFailed(g) \/ FailSwap(g)
        PROVE  WindsDown
    <3>1. Moves(g)
      BY <2>6 DEF BeatLock, BeatEnter, BeatRefused, BeatAccepted, BeatFailed, FailSwap
    <3>2. Down(g)
      BY <2>6 DEF BeatLock, BeatEnter, BeatRefused, BeatAccepted, BeatFailed, FailSwap, Returned, StoreOrReturn,
         HookLabels, ShutLabels, Steps, UsesSess, BeatLabels
    <3> QED BY <2>1, <3>1, <3>2
  <2>7. ASSUME NEW g \in Goroutines, FailStop(g) \/ FailHook(g) \/ HookReturn(g) PROVE WindsDown
    <3>1. Moves(g)
      BY <2>7 DEF FailStop, FailHook, HookReturn, ReturnFromFail
    <3>2. Down(g)
      BY <2>7 DEF FailStop, FailHook, HookReturn, ReturnFromFail, Returned, StoreOrReturn, Steps
    <3> QED BY <2>1, <3>1, <3>2
  <2>8. ASSUME NEW g \in Goroutines, ShutStop(g) \/ ShutWait(g) \/ ShutClear(g) PROVE WindsDown
    <3>1. Moves(g)
      BY <2>8 DEF ShutStop, ShutWait, ShutClear
    <3>2. Down(g)
      BY <2>8 DEF ShutStop, ShutWait, ShutClear, Steps, ShutLabels, Announcing
    <3> QED BY <2>1, <3>1, <3>2
  <2> QED
    BY <2>2, <2>3, <2>4, <2>5, <2>6, <2>7, <2>8 DEF Next, ThreadStep, Proceed
<1> QED
  BY <1>1, WaitSpec, PTL DEF Spec

-----------------------------------------------------------------------------
\* One thread authenticates, beats and shuts down, and no hook shuts down.
OneTokenThread == Lone({"authenticate", "heartbeat", "shutdown"}) /\ HookCalls = {}

\* Its Shutdown finds it with no token on the way.
LEMMA NextTokenInv ==
  ASSUME OneTokenThread
  PROVE  TypeInv /\ LoopsTame /\ TokenInv /\ [Next]_vars => TokenInv'
<1> SUFFICES ASSUME TypeInv, LoopsTame, TokenInv, [Next]_vars PROVE TokenInv'
  OBVIOUS
<1> USE ConstantsAssumption DEF TypeInv, TypeOK, Goroutines, Goto, ShutLabels,
       BeatLabels, TokenLabels, clientVars, sessionVars, localVars
<1>0. Calling'
  BY NextCalling DEF TokenInv
<1>1. ASSUME NEW t \in Threads, Shutdown(t) PROVE TokenInv'
  <2>1. t \in Callers({"authenticate", "heartbeat", "shutdown"})
    BY <1>1 DEF Shutdown, Callers, TokenInv, Calling
  <2>2. ASSUME NEW u \in Threads, pc[u] \in TokenLabels
        PROVE  u = t
    BY <2>1, <2>2 DEF TokenInv, Calling, Callers, OneTokenThread, Lone
  <2>3. /\ pc[t] \in {"idle", "in_hook"} /\ (pc[t] = "in_hook" => HookCalls # {})
        /\ pc'[t] \in ShutLabels /\ \A u \in Threads \ {t} : pc'[u] = pc[u]
        /\ UNCHANGED <<notifying, ifToken>> /\ session' = NoSession
    BY <1>1 DEF Shutdown
  <2>4. ~notifying[t]
    BY <2>3 DEF TokenInv, OneTokenThread
  <2> QED
    BY <1>0, <2>2, <2>3, <2>4 DEF TokenInv
<1>2. ASSUME NEW t \in Threads,
             Authenticate(t) \/ HeartbeatNow(t) \/ OnHeartbeatFailure(t)
      PROVE  TokenInv'
  BY <1>0, <1>2 DEF Authenticate, HeartbeatNow, OnHeartbeatFailure, TokenInv
<1>3. ASSUME NEW t \in Threads, AuthInstall(t) PROVE TokenInv'
  BY <1>0, <1>3 DEF AuthInstall, TokenInv, UsesSess
<1>4. ASSUME NEW t \in Threads,
             \/ AuthPrevious(t) \/ AuthStop(t) \/ AuthWait(t) \/ AuthCreate(t)
             \/ SetToken(t) \/ SetHook(t)
      PROVE  TokenInv'
  BY <1>0, <1>4
  DEF AuthPrevious, AuthStop, AuthWait, AuthCreate, SetToken, SetHook, TokenInv
<1>5. ASSUME NEW s \in Sessions, LoopStep(s) \/ Shutdown(s) PROVE TokenInv'
  <2>1. ~Shutdown(s)
    BY DEF Shutdown, OneTokenThread, LoopsTame
  <2> QED
    BY <1>0, <1>5, <2>1 DEF LoopStep, LoopTick, LoopClockJump, LoopCancelled, LoopCheck, TokenInv
<1>6. ASSUME NEW g \in Goroutines, BeatLock(g) \/ BeatAccepted(g) \/ BeatFailed(g) \/ FailSwap(g)
      PROVE  TokenInv'
  BY <1>0, <1>6
  DEF BeatLock, BeatEnter, BeatRefused, Returned, StoreOrReturn, BeatAccepted, BeatFailed, FailSwap, TokenInv
<1>7. ASSUME NEW g \in Goroutines, FailStop(g) \/ FailHook(g) \/ HookReturn(g) PROVE TokenInv'
  <2>1. /\ pc[g] \in TokenLabels \cup {"hook_return"} /\ UNCHANGED <<session, ifToken>>
        /\ \A u \in Threads \ {g} : pc'[u] = pc[u] /\ notifying'[u] = notifying[u]
    BY <1>7 DEF FailStop, FailHook, HookReturn, ReturnFromFail
  <2>2. g \in Threads => pc[g] # "hook_return" /\ session # NoSession
    BY <2>1 DEF TokenInv, Announcing
  <2>3. g \in Threads /\ notifying'[g] => pc'[g] \in {"fail_stop", "fail_hook", "in_hook"}
    BY <1>7, <2>1, <2>2 DEF FailStop, FailHook, HookReturn, ReturnFromFail, TokenInv
  <2> QED
    BY <1>0, <2>1, <2>2, <2>3 DEF TokenInv
<1>8. ASSUME NEW g \in Goroutines, ShutStop(g) \/ ShutWait(g) \/ ShutClear(g) PROVE TokenInv'
  BY <1>0, <1>8 DEF ShutStop, ShutWait, ShutClear, StopSession, TokenInv
<1>9. CASE UNCHANGED vars
  BY <1>0, <1>9 DEF vars, TokenInv
<1> QED
  BY <1>1, <1>2, <1>3, <1>4, <1>5, <1>6, <1>7, <1>8, <1>9 DEF Next, Invoke, ThreadStep, Proceed

(***************************************************************************)
(* README "Tokens are held in memory only and cleared on Shutdown": so it  *)
(* is if the thread that shuts down is the one to authenticate and beat,   *)
(* with loops or without, and if the hook does not shut down.  Otherwise a *)
(* token received before may be stored after, even on one thread: that of  *)
(* a denial whose hook shut down (session.go:164-170, client.go:316-318).  *)
(***************************************************************************)
THEOREM TokenCleared == OneTokenThread => (Spec => []ShutdownClearsToken)
<1> SUFFICES ASSUME OneTokenThread PROVE Spec => []ShutdownClearsToken
  OBVIOUS
<1>1. Init => TypeInv /\ LoopsTame /\ TokenInv
  <2>1. Init => TokenInv
    BY InitCalling DEF Init, TokenInv, TokenLabels, BeatLabels, Goroutines
  <2> QED
    BY <2>1, InitTypeInv, InitWaitInv DEF WaitInv
<1>2. (TypeInv /\ LoopsTame /\ TokenInv) /\ [Next]_vars => (TypeInv /\ LoopsTame /\ TokenInv)'
  BY NextTypeInv, NextLoopsTame, NextTokenInv DEF OneTokenThread
<1>3. TokenInv => ShutdownClearsToken
  BY DEF TokenInv, ShutdownClearsToken, Quiescent, ShutLabels
<1> QED
  BY <1>1, <1>2, <1>3, PTL DEF Spec

-----------------------------------------------------------------------------
(***************************************************************************)
(* A loop whose hook calls Shutdown tears down the session it finds: its   *)
(* own, or one installed since.  In the second case somebody waits for the *)
(* loop in turn, and these chains of waiting start with a thread: no loop  *)
(* of a chain is current, and the latest one is waited for by none of them.*)
(***************************************************************************)
Busy ==
  {x \in Sessions : pc[x] \in {"shut_stop", "shut_wait"} /\ prev[x] # x /\ ~Ended(prev[x])}

BusyInv ==
  /\ session \notin Busy
  /\ \A t \in Threads : pc[t] = "auth_install" => sess[t] \notin Busy
  /\ \A S \in SUBSET Busy : S # {} => \E y \in S : \A x \in S : prev[x] # y

\* Initially there is no chain.
LEMMA InitBusyInv == Init => BusyInv
  BY ConstantsAssumption DEF Init, BusyInv, Busy, Goroutines

\* What has ended stays ended.
LEMMA EndedStays ==
  ASSUME TypeInv, [Next]_vars, NEW r \in Sessions, life[r] # "none", Ended(r)
  PROVE  Ended(r)'
<1> USE ConstantsAssumption DEF TypeInv, TypeOK, Goroutines, Goto, Ended, Alive, Exited,
       clientVars, sessionVars, localVars
<1>1. ASSUME NEW t \in Threads, Invoke(t) \/ ThreadStep(t) PROVE Ended(r)'
  <2>1. CASE Invoke(t)
    BY <2>1 DEF Invoke, Authenticate, HeartbeatNow, OnHeartbeatFailure, Shutdown
  <2>2. CASE AuthCreate(t)
    BY <2>2 DEF AuthCreate
  <2>3. CASE AuthPrevious(t) \/ AuthStop(t) \/ AuthWait(t) \/ AuthInstall(t) \/ SetToken(t)
             \/ SetHook(t)
    BY <2>3 DEF AuthPrevious, AuthStop, AuthWait, AuthInstall, SetToken, SetHook, StopSession
  <2> QED
    BY <1>1, <2>1, <2>2, <2>3 DEF ThreadStep
<1>2. ASSUME NEW s \in Sessions, LoopStep(s) \/ Shutdown(s) PROVE Ended(r)'
  BY <1>2 DEF LoopStep, LoopTick, LoopClockJump, LoopCancelled, LoopCheck, Shutdown
<1>3. ASSUME NEW g \in Goroutines,
             BeatLock(g) \/ BeatAccepted(g) \/ BeatFailed(g) \/ FailSwap(g)
      PROVE  Ended(r)'
  BY <1>3 DEF BeatLock, BeatEnter, BeatRefused, Returned, StoreOrReturn, BeatAccepted, BeatFailed, FailSwap
<1>4. ASSUME NEW g \in Goroutines, FailStop(g) \/ FailHook(g) \/ HookReturn(g) PROVE Ended(r)'
  BY <1>4 DEF FailStop, FailHook, HookReturn, ReturnFromFail, Returned, StoreOrReturn
<1>5. ASSUME NEW g \in Goroutines, ShutStop(g) \/ ShutWait(g) \/ ShutClear(g) PROVE Ended(r)'
  BY <1>5 DEF ShutStop, ShutWait, ShutClear, StopSession
<1>6. CASE UNCHANGED vars
  BY <1>6 DEF vars
<1> QED
  BY <1>1, <1>2, <1>3, <1>4, <1>5, <1>6 DEF Next, Proceed

\* A loop enters a chain by its own Shutdown only.
LEMMA BusyFrom ==
  ASSUME TypeInv, Created, [Next]_vars, NEW x \in Sessions, x \in Busy', ~Shutdown(x)
  PROVE  x \in Busy /\ prev'[x] = prev[x]
<1> USE ConstantsAssumption DEF TypeInv, TypeOK, Goroutines, Goto, UsesPrev, PrevLabels,
       WaitLabels, clientVars, sessionVars, localVars
<1>1. x \in Goroutines /\ pc'[x] \in {"shut_stop", "shut_wait"} /\ prev'[x] # x
      /\ ~Ended(prev[x])'
  BY DEF Busy
<1>2. pc[x] \in {"shut_stop", "shut_wait"} /\ prev'[x] = prev[x]
  <2>1. ASSUME NEW t \in Threads, Invoke(t) \/ ThreadStep(t)
        PROVE  pc[x] \in {"shut_stop", "shut_wait"} /\ prev'[x] = prev[x]
    BY <1>1, <2>1 DEF Invoke, Authenticate, HeartbeatNow, OnHeartbeatFailure, Shutdown,
       ThreadStep, AuthPrevious, AuthStop, AuthWait, AuthCreate, AuthInstall, SetToken, SetHook
  <2>2. ASSUME NEW s \in Sessions, LoopStep(s) \/ (Shutdown(s) /\ s # x)
        PROVE  pc[x] \in {"shut_stop", "shut_wait"} /\ prev'[x] = prev[x]
    BY <1>1, <2>2 DEF LoopStep, LoopTick, LoopClockJump, LoopCancelled, LoopCheck, Shutdown
  <2>3. ASSUME NEW g \in Goroutines,
               BeatLock(g) \/ BeatAccepted(g) \/ BeatFailed(g) \/ FailSwap(g)
        PROVE  pc[x] \in {"shut_stop", "shut_wait"} /\ prev'[x] = prev[x]
    BY <1>1, <2>3 DEF BeatLock, BeatEnter, BeatRefused, Returned, StoreOrReturn, BeatAccepted, BeatFailed, FailSwap
  <2>4. ASSUME NEW g \in Goroutines, FailStop(g) \/ FailHook(g) \/ HookReturn(g)
        PROVE  pc[x] \in {"shut_stop", "shut_wait"} /\ prev'[x] = prev[x]
    BY <1>1, <2>4 DEF FailStop, FailHook, HookReturn, ReturnFromFail, Returned, StoreOrReturn
  <2>5. ASSUME NEW g \in Goroutines, ShutStop(g) \/ ShutWait(g) \/ ShutClear(g)
        PROVE  pc[x] \in {"shut_stop", "shut_wait"} /\ prev'[x] = prev[x]
    BY <1>1, <2>5 DEF ShutStop, ShutWait, ShutClear
  <2>6. CASE UNCHANGED vars
    BY <1>1, <2>6 DEF vars
  <2> QED
    BY <2>1, <2>2, <2>3, <2>4, <2>5, <2>6 DEF Next, Proceed
<1>3. prev[x] \in Sessions /\ life[prev[x]] # "none"
  BY <1>1, <1>2 DEF Created
<1>4. ASSUME NEW s \in Sessions, life[s] # "none", Ended(s) PROVE Ended(s)'
  BY <1>4, EndedStays
<1> QED
  BY <1>1, <1>2, <1>3, <1>4 DEF Busy

\* A session is installed by the thread that created it, and torn down by nobody yet.
LEMMA InstalledFrom ==
  ASSUME TypeInv, [Next]_vars
  PROVE  /\ \/ session' \in {session, NoSession}
            \/ \E t \in Threads : pc[t] = "auth_install" /\ session' = sess[t]
         /\ \A t \in Threads : pc'[t] = "auth_install" =>
              \/ pc[t] = "auth_install" /\ sess'[t] = sess[t]
              \/ sess'[t] \in Sessions /\ pc'[sess'[t]] \in {"loop_wait", "off"}
<1> DEFINE Same == session' \in {session, NoSession}
           Kept(t) == pc'[t] = "auth_install" => pc[t] = "auth_install" /\ sess'[t] = sess[t]
<1> USE ConstantsAssumption DEF TypeInv, TypeOK, Goroutines, Goto, CallLabels,
       clientVars, sessionVars, localVars
<1>1. ASSUME NEW t \in Threads, Invoke(t) PROVE Same /\ \A u \in Threads : Kept(u)
  BY <1>1 DEF Invoke, Authenticate, HeartbeatNow, OnHeartbeatFailure, Shutdown
<1>2. ASSUME NEW t \in Threads, AuthCreate(t)
      PROVE  /\ session' = session /\ \A u \in Threads \ {t} : Kept(u)
             /\ sess'[t] \in Sessions /\ pc'[sess'[t]] \in {"loop_wait", "off"}
  <2>1. PICK s \in Sessions :
          /\ sess' = [sess EXCEPT ![t] = s]
          /\ pc' = [pc EXCEPT ![t] = "auth_install",
                              ![s] = IF AutomaticHeartbeats THEN "loop_wait" ELSE "off"]
    BY <1>2 DEF AuthCreate
  <2> QED
    BY <1>2, <2>1 DEF AuthCreate
<1>3. ASSUME NEW t \in Threads, AuthInstall(t)
      PROVE  pc[t] = "auth_install" /\ session' = sess[t] /\ \A u \in Threads : Kept(u)
  BY <1>3 DEF AuthInstall
<1>4. ASSUME NEW t \in Threads, AuthPrevious(t) \/ AuthStop(t) \/ AuthWait(t)
                                \/ SetToken(t) \/ SetHook(t)
      PROVE  Same /\ \A u \in Threads : Kept(u)
  BY <1>4 DEF AuthPrevious, AuthStop, AuthWait, SetToken, SetHook
<1>5. ASSUME NEW s \in Sessions, LoopStep(s) \/ Shutdown(s) PROVE Same /\ \A u \in Threads : Kept(u)
  BY <1>5 DEF LoopStep, LoopTick, LoopClockJump, LoopCancelled, LoopCheck, Shutdown
<1>6. ASSUME NEW g \in Goroutines,
             BeatLock(g) \/ BeatAccepted(g) \/ BeatFailed(g) \/ FailSwap(g)
      PROVE  Same /\ \A u \in Threads : Kept(u)
  BY <1>6 DEF BeatLock, BeatEnter, BeatRefused, Returned, StoreOrReturn, BeatAccepted, BeatFailed, FailSwap
<1>7. ASSUME NEW g \in Goroutines, FailStop(g) \/ FailHook(g) \/ HookReturn(g)
      PROVE  Same /\ \A u \in Threads : Kept(u)
  BY <1>7 DEF FailStop, FailHook, HookReturn, ReturnFromFail, Returned, StoreOrReturn
<1>8. ASSUME NEW g \in Goroutines, ShutStop(g) \/ ShutWait(g) \/ ShutClear(g)
      PROVE  Same /\ \A u \in Threads : Kept(u)
  BY <1>8 DEF ShutStop, ShutWait, ShutClear
<1>9. CASE UNCHANGED vars
  BY <1>9 DEF vars
<1> HIDE DEF Same
<1> QED
  BY <1>1, <1>2, <1>3, <1>4, <1>5, <1>6, <1>7, <1>8, <1>9
  DEF Next, ThreadStep, Proceed, Same

\* The session a loop finds is not waiting for one that is still to end.
LEMMA NextBusyInv ==
  TypeInv /\ OrphanInv /\ BusyInv /\ [Next]_vars => BusyInv'
<1> SUFFICES ASSUME TypeInv, OrphanInv, BusyInv, [Next]_vars PROVE BusyInv'
  OBVIOUS
<1>0. Created
  BY DEF OrphanInv
<1>1. CASE \E x \in Sessions : Shutdown(x)
  <2>1. PICK x \in Sessions : Shutdown(x)
    BY <1>1
  <2>2. /\ pc[x] = "in_hook" /\ session' = NoSession /\ prev' = [prev EXCEPT ![x] = session]
        /\ pc' = [pc EXCEPT ![x] = IF session = NoSession THEN "shut_clear" ELSE "shut_stop"]
        /\ life' = life /\ sess' = sess
    BY <2>1, ConstantsAssumption DEF Shutdown, Goto, sessionVars
  <2>3. \A y \in Busy' : y # x => y \in Busy /\ prev'[y] = prev[y]
    <3> SUFFICES ASSUME NEW y \in Busy', y # x PROVE y \in Busy /\ prev'[y] = prev[y]
      OBVIOUS
    <3>1. y \in Sessions
      BY DEF Busy
    <3>2. ~Shutdown(y)
      BY <2>2, <3>1, ConstantsAssumption DEF Shutdown, Goto, TypeInv, TypeOK, Goroutines, CallLabels
    <3> QED
      BY <1>0, <3>1, <3>2, BusyFrom
  <2>4. x \in Busy' => prev'[x] = session /\ session \in Sessions /\ session # x /\ ~Ended(session)
    BY <2>2, ConstantsAssumption DEF Busy, TypeInv, TypeOK, Goroutines, Ended, Alive, Exited
  <2>5. \A t \in Threads : pc'[t] = "auth_install" => sess[t] \notin Busy'
    <3> SUFFICES ASSUME NEW t \in Threads, pc'[t] = "auth_install", sess[t] \in Busy' PROVE FALSE
      OBVIOUS
    <3>1. pc[t] = "auth_install"
      BY <2>2, ConstantsAssumption DEF TypeInv, TypeOK, Goroutines
    <3>2. session = NoSession \/ Ended(session)
      BY <3>1 DEF OrphanInv, Replacing
    <3>3. sess[t] # x
      BY <2>4, <3>2, ConstantsAssumption
    <3> QED
      BY <2>3, <3>1, <3>3 DEF BusyInv
  <2>6. ASSUME NEW S \in SUBSET Busy', S # {} PROVE \E y \in S : \A z \in S : prev'[z] # y
    <3>1. S \ {x} \subseteq Busy /\ \A z \in S \ {x} : prev'[z] = prev[z]
      BY <2>3
    <3>2. CASE S \ {x} = {}
      BY <2>4, <2>6, <3>2
    <3>3. CASE S \ {x} # {}
      <4>1. PICK y \in S \ {x} : \A z \in S \ {x} : prev[z] # y
        BY <3>1, <3>3 DEF BusyInv
      <4>2. session # y
        BY <3>1, <4>1 DEF BusyInv
      <4> QED
        BY <2>4, <3>1, <4>1, <4>2
    <3> QED
      BY <3>2, <3>3
  <2> QED
    BY <2>2, <2>5, <2>6, ConstantsAssumption DEF BusyInv, Busy
<1>2. CASE ~ \E x \in Sessions : Shutdown(x)
  <2>1. \A x \in Busy' : x \in Busy /\ prev'[x] = prev[x]
    BY <1>0, <1>2, BusyFrom DEF Busy
  <2>2. session' \notin Busy'
    BY <2>1, InstalledFrom, ConstantsAssumption DEF BusyInv, Busy
  <2>3. \A t \in Threads : pc'[t] = "auth_install" => sess'[t] \notin Busy'
    <3>1. \A x \in Busy' : pc'[x] \notin {"loop_wait", "off"}
      BY DEF Busy
    <3> QED
      BY <2>1, <3>1, InstalledFrom DEF BusyInv
  <2>4. ASSUME NEW S \in SUBSET Busy', S # {} PROVE \E y \in S : \A z \in S : prev'[z] # y
    <3>1. S \in SUBSET Busy /\ \A z \in S : prev'[z] = prev[z]
      BY <2>1
    <3>2. PICK y \in S : \A z \in S : prev[z] # y
      BY <2>4, <3>1 DEF BusyInv
    <3> QED
      BY <3>1, <3>2
  <2> QED
    BY <2>2, <2>3, <2>4 DEF BusyInv
<1> QED
  BY <1>1, <1>2

(***************************************************************************)
(* client.go:356 "Shutdown tears down any live session": so it does, also  *)
(* while other threads and hooks shut down, beat and set hooks, if one     *)
(* thread authenticates.  A session left alive would be torn down by a     *)
(* loop that is waited for by a later one, and so on: BusyInv ends that.   *)
(* (Run ClientTwoAuth: not if two authenticate.)                           *)
(***************************************************************************)
THEOREM ShutdownEndsAll == OneAuthenticatingThread => (Spec => []ShutdownEndsSessions)
<1> SUFFICES ASSUME OneAuthenticatingThread PROVE Spec => []ShutdownEndsSessions
  OBVIOUS
<1>1. Init => TypeInv /\ HookInv /\ OrphanInv /\ BusyInv
  BY InitTypeInv, InitHookInv, InitOrphanInv, InitBusyInv
<1>2. (TypeInv /\ HookInv /\ OrphanInv /\ BusyInv) /\ [Next]_vars
        => (TypeInv /\ HookInv /\ OrphanInv /\ BusyInv)'
  BY NextTypeInv, NextHookInv, NextOrphanInv, NextBusyInv
<1>3. TypeInv /\ HookInv /\ OrphanInv /\ BusyInv => ShutdownEndsSessions
  <2> SUFFICES ASSUME TypeInv, HookInv, OrphanInv, BusyInv, Quiescent, session = NoSession,
                      NEW s \in Sessions, Alive(s)
               PROVE  FALSE
    BY DEF ShutdownEndsSessions
  <2>1. ASSUME NEW r \in Sessions, ~Ended(r), pc[r] \in {"shut_stop", "shut_wait"} => prev[r] # r
        PROVE  \E x \in Busy : prev[x] = r
    <3>1. PICK g \in Goroutines :
            \/ pc[g] = "auth_install"
            \/ pc[g] \in {"shut_stop", "shut_wait", "auth_stop", "auth_wait"} /\ prev[g] = r
      BY <2>1, ConstantsAssumption DEF OrphanInv, NoOrphan, Owned, Ended
    <3>2. g \in Sessions
      BY <3>1 DEF Quiescent, Goroutines
    <3>3. pc[g] \in {"shut_stop", "shut_wait"} /\ prev[g] = r
      BY <3>1, <3>2 DEF TypeInv, TypeOK, CallLabels, AuthLabels
    <3> QED
      BY <2>1, <3>2, <3>3 DEF Busy
  <2>2. pc[s] \notin {"shut_stop", "shut_wait"}   \* a loop in its hook has failed
    BY DEF TypeInv, TypeOK, Announcing, HookInv, Notifier, Goroutines, Alive, ShutLabels
  <2>3. Busy # {}
    BY <2>1, <2>2 DEF Ended
  <2>4. PICK y \in Busy : \A x \in Busy : prev[x] # y
    BY <2>3 DEF BusyInv
  <2>5. y \in Sessions /\ ~Ended(y) /\ prev[y] # y
    BY <2>4 DEF Busy, Ended, Exited
  <2> QED
    BY <2>1, <2>4, <2>5
<1> QED
  BY <1>1, <1>2, <1>3, PTL DEF Spec
=============================================================================
