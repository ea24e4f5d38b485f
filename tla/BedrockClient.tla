---------------------------- MODULE BedrockClient ----------------------------
(***************************************************************************)
(* The lifecycle of a bedrock.Client (client.go) and of the sessions it    *)
(* owns (session.go), with every goroutine that touches them: application  *)
(* threads inside AuthenticateWith*, HeartbeatNow, OnHeartbeatFailure and  *)
(* Shutdown, the background loop of each session, and the failure hook,    *)
(* which runs on whichever goroutine found the failure.                    *)
(*                                                                         *)
(* Each action is the code between two points where another goroutine can  *)
(* observe the difference: a c.mutex section, an atomic, the HTTP exchange, *)
(* a blocking wait.  The signed exchange itself is reduced to accepted or  *)
(* not; module TokenRotation opens it, with the token and the count of     *)
(* completed beats.                                                        *)
(***************************************************************************)
EXTENDS Naturals, FiniteSets

CONSTANTS
  Threads,             \* application goroutines
  Sessions,            \* the sessions that may be created (a bound for TLC)
  NoSession,           \* the nil *session
  Hooks,               \* failure callbacks the application installs
  NoHook,              \* the nil callback
  Calls,               \* Calls[t]: the operations thread t may invoke
  HookCalls,           \* the operations a hook may invoke before it returns
  AutomaticHeartbeats  \* Config.AutomaticHeartbeats

Operations == {"authenticate", "heartbeat", "onFailure", "shutdown"}

ASSUME ConstantsAssumption ==
  /\ NoSession \notin Threads \cup Sessions
  /\ NoHook \notin Hooks
  /\ Threads \cap Sessions = {}
  /\ Calls \in [Threads -> SUBSET Operations]
  /\ HookCalls \subseteq {"shutdown"}
  /\ AutomaticHeartbeats \in BOOLEAN

Goroutines == Threads \cup Sessions   \* session s names its own loop goroutine

VARIABLES
  session,    \* Client.session
  hook,       \* Client.hook
  ifToken,    \* InvisibleFolder.token, named by the session that obtained it
  life,       \* session.alive, and what first cleared it
  stopped,    \* session.stopOnce has run (the loop's context is cancelled)
  sessHook,   \* session.hook
  mutex,      \* holder of session.requestMutex
  fired,      \* calls of the session's hook so far (history)
  pc,         \* what each goroutine does next
  sess,       \* the session a goroutine authenticates, beats or fails
  prev,       \* its local "previous" or "current"
  granted,    \* the response authenticate holds, or a denied HeartbeatNow will
              \* get back, is Authed with an Invisible Folder token
  arg,        \* argument of its OnHeartbeatFailure
  notifying   \* its fail() won the alive.Swap and owes the hook call

clientVars  == <<session, hook, ifToken>>
sessionVars == <<life, stopped, sessHook, mutex, fired>>
localVars   == <<sess, prev, granted, arg, notifying>>
vars == <<clientVars, sessionVars, pc, localVars>>

Alive(s)  == life[s] = "alive"
Exited(s) == pc[s] \in {"off", "exited"}   \* never started, or done is closed

\* Labels only a thread reaches, only a loop reaches, and either.
AuthLabels == {"auth_prev", "auth_stop", "auth_wait", "auth_create", "auth_install"}
CallLabels == AuthLabels \cup {"idle", "auth_token", "beat_token", "hook_set"}
LoopLabels == {"off", "loop_wait", "loop_check", "exited"}
ShutLabels == {"shut_stop", "shut_wait", "shut_clear"}
HookLabels == {"in_hook", "hook_return"} \cup ShutLabels
BeatLabels == {"beat_lock", "beat_post", "fail_swap", "fail_stop", "fail_hook"}

\* Labels at which a goroutine dereferences sess or prev.
UsesSess == BeatLabels \cup {"in_hook", "hook_return", "auth_install", "auth_token", "beat_token"}
UsesPrev == {"auth_stop", "auth_wait", "shut_stop", "shut_wait", "hook_set"}

TypeOK ==
  /\ session \in Sessions \cup {NoSession}
  /\ hook \in Hooks \cup {NoHook}
  /\ ifToken \in Sessions \cup {NoSession}
  /\ life \in [Sessions -> {"none", "alive", "failed", "stopped"}]
  /\ stopped \in [Sessions -> BOOLEAN]
  /\ sessHook \in [Sessions -> Hooks \cup {NoHook}]
  /\ mutex \in [Sessions -> Goroutines \cup {NoSession}]
  /\ fired \in [Sessions -> Nat]
  /\ pc \in [Goroutines -> CallLabels \cup LoopLabels \cup BeatLabels \cup HookLabels]
  /\ sess \in [Goroutines -> Sessions \cup {NoSession}]
  /\ prev \in [Goroutines -> Sessions \cup {NoSession}]
  /\ granted \in [Goroutines -> BOOLEAN]
  /\ arg \in [Goroutines -> Hooks \cup {NoHook}]
  /\ notifying \in [Goroutines -> BOOLEAN]
  /\ \A t \in Threads : pc[t] \notin LoopLabels
  /\ \A s \in Sessions : pc[s] \notin CallLabels /\ sess[s] = s
  /\ \A g \in Goroutines :
       /\ pc[g] \in UsesSess => sess[g] \in Sessions   \* never a nil dereference
       /\ pc[g] \in UsesPrev => prev[g] \in Sessions

Goto(g, label) == pc' = [pc EXCEPT ![g] = label]

Init ==
  /\ session = NoSession
  /\ hook \in Hooks \cup {NoHook}   \* OnHeartbeatFailure may precede any call
  /\ ifToken = NoSession
  /\ life = [s \in Sessions |-> "none"]
  /\ stopped = [s \in Sessions |-> FALSE]
  /\ sessHook = [s \in Sessions |-> NoHook]
  /\ mutex = [s \in Sessions |-> NoSession]
  /\ fired = [s \in Sessions |-> 0]
  /\ pc = [g \in Goroutines |-> IF g \in Threads THEN "idle" ELSE "off"]
  /\ sess = [g \in Goroutines |-> IF g \in Sessions THEN g ELSE NoSession]
  /\ prev = [g \in Goroutines |-> NoSession]
  /\ granted = [g \in Goroutines |-> FALSE]
  /\ arg = [g \in Goroutines |-> NoHook]
  /\ notifying = [g \in Goroutines |-> FALSE]

(***************************************************************************)
(* session.stop: under stopOnce, clear alive and cancel the loop.          *)
(***************************************************************************)
StopSession(s) ==
  /\ life' = IF Alive(s) THEN [life EXCEPT ![s] = "stopped"] ELSE life
  /\ stopped' = [stopped EXCEPT ![s] = TRUE]
  /\ UNCHANGED <<sessHook, mutex, fired>>

(***************************************************************************)
(* Client.authenticate, from the accepted response on.  Every earlier exit *)
(* (no HWID, transport error, rejected or malformed response) returns      *)
(* before any of this state is touched: a stuttering step.                 *)
(***************************************************************************)

\* TLC only: leave a session for every thread already past the response.
SessionBudget ==
  Cardinality({t \in Threads : pc[t] \in AuthLabels \ {"auth_install"}})
    < Cardinality({s \in Sessions : life[s] = "none"})

Authenticate(t) ==
  /\ pc[t] = "idle" /\ "authenticate" \in Calls[t]
  /\ SessionBudget
  /\ \E b \in BOOLEAN : granted' = [granted EXCEPT ![t] = b]
  /\ Goto(t, "auth_prev")
  /\ UNCHANGED <<clientVars, sessionVars, sess, prev, arg, notifying>>

\* Mutant: the session being replaced is not looked up.
AuthPreviousIgnored(t) ==
  /\ pc[t] = "auth_prev"
  /\ Goto(t, "auth_create")
  /\ UNCHANGED <<clientVars, sessionVars, localVars>>

AuthPrevious(t) ==
  /\ pc[t] = "auth_prev"
  /\ prev' = [prev EXCEPT ![t] = session]
  /\ Goto(t, IF session = NoSession THEN "auth_create" ELSE "auth_stop")
  /\ UNCHANGED <<clientVars, sessionVars, sess, granted, arg, notifying>>

AuthStop(t) ==
  /\ pc[t] = "auth_stop"
  /\ StopSession(prev[t])
  /\ Goto(t, "auth_wait")
  /\ UNCHANGED <<clientVars, localVars>>

\* Mutant: previous.wait() is forgotten.
AuthWaitSkipped(t) ==
  /\ pc[t] = "auth_wait"
  /\ Goto(t, "auth_create")
  /\ UNCHANGED <<clientVars, sessionVars, localVars>>

AuthWait(t) ==   \* previous.wait(): <-s.done
  /\ pc[t] = "auth_wait"
  /\ Exited(prev[t])
  /\ Goto(t, "auth_create")
  /\ UNCHANGED <<clientVars, sessionVars, localVars>>

\* newSession reads c.hook without c.mutex; start launches the loop before
\* the session is reachable from the client.
AuthCreate(t) ==
  /\ pc[t] = "auth_create"
  /\ \E s \in Sessions :
       /\ life[s] = "none"
       /\ life' = [life EXCEPT ![s] = "alive"]
       /\ sessHook' = [sessHook EXCEPT ![s] = hook]
       /\ sess' = [sess EXCEPT ![t] = s]
       /\ pc' = [pc EXCEPT ![t] = "auth_install",
                           ![s] = IF AutomaticHeartbeats THEN "loop_wait" ELSE "off"]
  /\ UNCHANGED <<clientVars, stopped, mutex, fired,
                 prev, granted, arg, notifying>>

AuthInstall(t) ==
  /\ pc[t] = "auth_install"
  /\ session' = sess[t]
  /\ Goto(t, IF granted[t] THEN "auth_token" ELSE "idle")
  /\ UNCHANGED <<hook, ifToken, sessionVars, localVars>>

\* InvisibleFolder.setToken, from authenticate or from HeartbeatNow.
SetToken(t) ==
  /\ pc[t] \in {"auth_token", "beat_token"}
  /\ ifToken' = sess[t]
  /\ Goto(t, "idle")
  /\ UNCHANGED <<session, hook, sessionVars, localVars>>

(***************************************************************************)
(* session.heartbeat, on a thread inside HeartbeatNow or on the loop.      *)
(***************************************************************************)

\* Mutant: HeartbeatNow forgets the nil check.
HeartbeatNowUnchecked(t) ==
  /\ pc[t] = "idle" /\ "heartbeat" \in Calls[t]
  /\ sess' = [sess EXCEPT ![t] = session]
  /\ granted' = [granted EXCEPT ![t] = FALSE]
  /\ Goto(t, "beat_lock")
  /\ UNCHANGED <<clientVars, sessionVars, prev, arg, notifying>>

\* Without a current session HeartbeatNow returns an error: a stuttering step.
HeartbeatNow(t) ==
  /\ pc[t] = "idle" /\ "heartbeat" \in Calls[t]
  /\ session # NoSession
  /\ sess' = [sess EXCEPT ![t] = session]
  /\ granted' = [granted EXCEPT ![t] = FALSE]
  /\ Goto(t, "beat_lock")
  /\ UNCHANGED <<clientVars, sessionVars, prev, arg, notifying>>

\* What HeartbeatNow does with a response it got back without an error.
StoreOrReturn(t) == IF granted[t] THEN "beat_token" ELSE "idle"

\* Mutant: the loop goes on although the session is no longer alive.
ReturnedToLoop(g) == IF g \in Sessions THEN "loop_wait" ELSE StoreOrReturn(g)

\* Where a goroutine is once heartbeat or fail gave up on the session.  The loop
\* ends on an error as on a denial; HeartbeatNow treats a denial, which is
\* returned without an error, as any response.
Returned(g) == IF g \in Sessions THEN "exited" ELSE StoreOrReturn(g)

\* Mutant: heartbeat without requestMutex.
BeatEnterUnlocked(g) ==
  /\ pc[g] = "beat_lock"
  /\ Alive(sess[g])
  /\ \E label \in {"beat_post", "fail_swap"} : Goto(g, label)
  /\ UNCHANGED <<clientVars, sessionVars, localVars>>

\* requestMutex acquired and the alive check passed; generating the challenge
\* may still fail.
BeatEnter(g) ==
  /\ pc[g] = "beat_lock" /\ mutex[sess[g]] = NoSession
  /\ Alive(sess[g])
  /\ mutex' = [mutex EXCEPT ![sess[g]] = g]
  /\ \E label \in {"beat_post", "fail_swap"} : Goto(g, label)
  /\ UNCHANGED <<clientVars, life, stopped, sessHook, fired, localVars>>

BeatRefused(g) ==
  /\ pc[g] = "beat_lock" /\ mutex[sess[g]] = NoSession
  /\ ~Alive(sess[g])
  /\ Goto(g, Returned(g))
  /\ UNCHANGED <<clientVars, sessionVars, localVars>>

\* The exchange, its retry included, ended in an accepted OK response.  The
\* loop discards the response; HeartbeatNow may find an Invisible Folder token.
BeatAccepted(g) ==
  /\ pc[g] = "beat_post"
  /\ mutex' = [mutex EXCEPT ![sess[g]] = NoSession]
  /\ \/ g \in Sessions /\ Goto(g, "loop_check")
     \/ g \in Threads /\ \E label \in {"idle", "beat_token"} : Goto(g, label)
  /\ UNCHANGED <<clientVars, life, stopped, sessHook, fired, localVars>>

\* It ended in an error (two transport errors, a bad status, a response that
\* does not verify, a malformed token) or in a denial: a signed response, which
\* HeartbeatNow gets back after fail and which may be Authed with a token
\* (OUTDATED, or OK without a session token).  The loop discards it.
BeatFailed(g) ==
  /\ pc[g] = "beat_post"
  /\ Goto(g, "fail_swap")
  /\ \E b \in BOOLEAN : /\ b => g \in Threads
                       /\ granted' = [granted EXCEPT ![g] = b]
  /\ UNCHANGED <<clientVars, sessionVars, sess, prev, arg, notifying>>

(***************************************************************************)
(* session.fail: alive.Swap(false), stop, and the hook if the swap won.    *)
(***************************************************************************)

\* Mutants: fail stores FALSE instead of swapping, or stops before the swap.
FailSwapBlind(g) ==
  /\ pc[g] = "fail_swap"
  /\ notifying' = [notifying EXCEPT ![g] = TRUE]
  /\ life' = IF Alive(sess[g]) THEN [life EXCEPT ![sess[g]] = "failed"] ELSE life
  /\ Goto(g, "fail_stop")
  /\ UNCHANGED <<clientVars, stopped, sessHook, mutex, fired,
                 sess, prev, granted, arg>>

FailSwapAfterStop(g) ==
  /\ pc[g] = "fail_swap"
  /\ life' = IF Alive(sess[g]) THEN [life EXCEPT ![sess[g]] = "failed"] ELSE life
  /\ Goto(g, "fail_stop")
  /\ UNCHANGED <<clientVars, stopped, sessHook, mutex, fired, localVars>>

FailSwap(g) ==
  /\ pc[g] = "fail_swap"
  /\ notifying' = [notifying EXCEPT ![g] = Alive(sess[g])]
  /\ life' = IF Alive(sess[g]) THEN [life EXCEPT ![sess[g]] = "failed"] ELSE life
  /\ Goto(g, "fail_stop")
  /\ UNCHANGED <<clientVars, stopped, sessHook, mutex, fired,
                 sess, prev, granted, arg>>

\* Mutant: the error path leaves requestMutex locked.
ReturnFromFailLocked(g) ==
  /\ notifying' = [notifying EXCEPT ![g] = FALSE]
  /\ Goto(g, Returned(g))
  /\ UNCHANGED mutex

\* The caller's return: the deferred requestMutex.Unlock when heartbeat holds
\* it (a failed clock check does not), close(done) when the loop ends, and
\* HeartbeatNow's look at the response of a denial.
ReturnFromFail(g) ==
  /\ mutex' = [mutex EXCEPT ![sess[g]] = IF @ = g THEN NoSession ELSE @]
  /\ notifying' = [notifying EXCEPT ![g] = FALSE]
  /\ Goto(g, Returned(g))

FailStop(g) ==
  /\ pc[g] = "fail_stop"
  /\ stopped' = [stopped EXCEPT ![sess[g]] = TRUE]
  /\ IF notifying[g]
     THEN Goto(g, "fail_hook") /\ UNCHANGED <<mutex, notifying>>
     ELSE ReturnFromFail(g)
  /\ UNCHANGED <<clientVars, life, sessHook, fired,
                 sess, prev, granted, arg>>

FailHook(g) ==
  /\ pc[g] = "fail_hook"
  /\ IF sessHook[sess[g]] = NoHook
     THEN ReturnFromFail(g) /\ UNCHANGED fired
     ELSE /\ fired' = [fired EXCEPT ![sess[g]] = @ + 1]
          /\ Goto(g, "in_hook")
          /\ UNCHANGED <<mutex, notifying>>
  /\ UNCHANGED <<clientVars, life, stopped, sessHook,
                 sess, prev, granted, arg>>

HookReturn(g) ==
  /\ pc[g] \in {"in_hook", "hook_return"}
  /\ ReturnFromFail(g)
  /\ UNCHANGED <<clientVars, life, stopped, sessHook, fired,
                 sess, prev, granted, arg>>

(***************************************************************************)
(* The background loop, session.run.                                       *)
(***************************************************************************)

LoopTick(s) ==
  /\ pc[s] = "loop_wait"
  /\ Goto(s, "beat_lock")
  /\ UNCHANGED <<clientVars, sessionVars, localVars>>

LoopClockJump(s) ==   \* the wall clock moved against the monotonic one
  /\ pc[s] = "loop_wait"
  /\ Goto(s, "fail_swap")
  /\ UNCHANGED <<clientVars, sessionVars, localVars>>

LoopCancelled(s) ==   \* <-ctx.Done()
  /\ pc[s] = "loop_wait" /\ stopped[s]
  /\ Goto(s, "exited")
  /\ UNCHANGED <<clientVars, sessionVars, localVars>>

LoopCheck(s) ==
  /\ pc[s] = "loop_check"
  /\ Goto(s, IF Alive(s) THEN "loop_wait" ELSE "exited")
  /\ UNCHANGED <<clientVars, sessionVars, localVars>>

(***************************************************************************)
(* Client.OnHeartbeatFailure: c.hook under c.mutex, then setHook on the    *)
(* session that was current.                                               *)
(***************************************************************************)

\* Mutant: the hook reaches sessions created later only.
OnHeartbeatFailureLater(t) ==
  /\ pc[t] = "idle" /\ "onFailure" \in Calls[t]
  /\ \E h \in Hooks \cup {NoHook} :
       hook' = h /\ arg' = [arg EXCEPT ![t] = h]
  /\ UNCHANGED <<session, ifToken, sessionVars, pc, sess, prev, granted, notifying>>

OnHeartbeatFailure(t) ==
  /\ pc[t] = "idle" /\ "onFailure" \in Calls[t]
  /\ \E h \in Hooks \cup {NoHook} :
       hook' = h /\ arg' = [arg EXCEPT ![t] = h]
  /\ prev' = [prev EXCEPT ![t] = session]
  /\ Goto(t, IF session = NoSession THEN "idle" ELSE "hook_set")
  /\ UNCHANGED <<session, ifToken, sessionVars, sess, granted, notifying>>

SetHook(t) ==
  /\ pc[t] = "hook_set"
  /\ sessHook' = [sessHook EXCEPT ![prev[t]] = arg[t]]
  /\ Goto(t, "idle")
  /\ UNCHANGED <<clientVars, life, stopped, mutex, fired, localVars>>

(***************************************************************************)
(* Client.Shutdown, called by a thread or by a hook.                       *)
(***************************************************************************)

Shutdown(g) ==
  /\ \/ g \in Threads /\ pc[g] = "idle" /\ "shutdown" \in Calls[g]
     \/ pc[g] = "in_hook" /\ "shutdown" \in HookCalls
  /\ prev' = [prev EXCEPT ![g] = session]
  /\ session' = NoSession
  /\ Goto(g, IF session = NoSession THEN "shut_clear" ELSE "shut_stop")
  /\ UNCHANGED <<hook, ifToken, sessionVars, sess, granted, arg, notifying>>

ShutStop(g) ==
  /\ pc[g] = "shut_stop"
  /\ StopSession(prev[g])
  /\ Goto(g, "shut_wait")
  /\ UNCHANGED <<clientVars, localVars>>

ShutWait(g) ==
  /\ pc[g] = "shut_wait"
  /\ Exited(prev[g])
  /\ Goto(g, "shut_clear")
  /\ UNCHANGED <<clientVars, sessionVars, localVars>>

\* Mutant: Shutdown forgets the Invisible Folder token.
ShutClearNothing(g) ==
  /\ pc[g] = "shut_clear"
  /\ Goto(g, IF notifying[g] THEN "hook_return" ELSE "idle")
  /\ UNCHANGED <<clientVars, sessionVars, localVars>>

ShutClear(g) ==
  /\ pc[g] = "shut_clear"
  /\ ifToken' = NoSession
  /\ Goto(g, IF notifying[g] THEN "hook_return" ELSE "idle")
  /\ UNCHANGED <<session, hook, sessionVars, localVars>>

-----------------------------------------------------------------------------
\* Calls the application chooses to make.
Invoke(t) ==
  \/ Authenticate(t) \/ HeartbeatNow(t) \/ OnHeartbeatFailure(t)
  \/ Shutdown(t)

\* Waiting for requestMutex.
BeatLock(g) == BeatEnter(g) \/ BeatRefused(g)

\* Everything else a goroutine does once it runs.
Proceed(g) ==
  \/ BeatAccepted(g) \/ BeatFailed(g)
  \/ FailSwap(g) \/ FailStop(g) \/ FailHook(g) \/ HookReturn(g)
  \/ ShutStop(g) \/ ShutWait(g) \/ ShutClear(g)

ThreadStep(t) ==
  \/ AuthPrevious(t) \/ AuthStop(t) \/ AuthWait(t) \/ AuthCreate(t)
  \/ AuthInstall(t) \/ SetToken(t) \/ SetHook(t)

LoopStep(s) ==
  \/ LoopTick(s) \/ LoopClockJump(s) \/ LoopCancelled(s) \/ LoopCheck(s)

Next ==
  \/ \E t \in Threads : Invoke(t) \/ ThreadStep(t)
  \/ \E s \in Sessions : LoopStep(s) \/ Shutdown(s)
  \/ \E g \in Goroutines : BeatLock(g) \/ Proceed(g)

Spec == Init /\ [][Next]_vars

(***************************************************************************)
(* Fairness: Go runs every runnable goroutine; PostForm ends within        *)
(* RequestTimeout; the ticker keeps firing; hooks return.  A sync.Mutex in *)
(* starvation mode hands itself to the longest waiter, hence SF there.     *)
(***************************************************************************)
Fairness ==
  /\ \A g \in Goroutines : WF_vars(Proceed(g)) /\ SF_vars(BeatLock(g))
  /\ \A t \in Threads : WF_vars(ThreadStep(t))
  /\ \A s \in Sessions : WF_vars(LoopStep(s))

FairSpec == Spec /\ Fairness

-----------------------------------------------------------------------------
Quiescent == \A t \in Threads : pc[t] = "idle"

\* A session the client can still reach: it is current, about to be, or its
\* authenticate or Shutdown is tearing it down.
Owned(s) ==
  \/ session = s
  \/ \E g \in Goroutines :
       \/ pc[g] = "auth_install" /\ sess[g] = s
       \/ pc[g] \in {"shut_stop", "shut_wait", "auth_stop", "auth_wait"} /\ prev[g] = s

(***************************************************************************)
(* session.go:14 and :87-100: the hook runs at most once per session, and     *)
(* only for a session that failed, never for one that authenticate or      *)
(* Shutdown stopped first, whatever thread or loop noticed the failure.    *)
(***************************************************************************)
HookContract ==
  \A s \in Sessions : fired[s] > 0 => fired[s] = 1 /\ life[s] = "failed"

(***************************************************************************)
(* client.go:256-270 and :357-365: no session stays alive, and no loop     *)
(* keeps beating, that neither the client nor a call in progress can still *)
(* stop.                                                                   *)
(***************************************************************************)
NoOrphan ==
  \A s \in Sessions : Alive(s) \/ ~Exited(s) => Owned(s)

(***************************************************************************)
(* client.go:259-262: a re-authentication waits for the old loop, so two   *)
(* background loops of one client never run together.                      *)
(***************************************************************************)
OneLoop ==
  \A s, r \in Sessions : ~Exited(s) /\ ~Exited(r) => s = r

(***************************************************************************)
(* session.go:104-106: heartbeats of one session, from threads and from its    *)
(* loop, never present the same token to the server in two exchanges that  *)
(* are open at once, and the token rotates only inside the exchange.       *)
(***************************************************************************)
BeatsSerialized ==
  \A g, h \in Goroutines :
    pc[g] = "beat_post" /\ pc[h] = "beat_post" /\ sess[g] = sess[h] => g = h

(***************************************************************************)
(* README "Tokens are held in memory only and cleared on Shutdown":        *)
(* without a session, and with no call in progress, no Invisible Folder    *)
(* token is held.  A promise to a client that calls from one thread and    *)
(* whose hook does not shut down: HeartbeatNow stores the token of a       *)
(* denial, or of a slow response, after a Shutdown that overtook it.       *)
(***************************************************************************)
ShutdownClearsToken ==
  Quiescent /\ session = NoSession => ifToken = NoSession

(***************************************************************************)
(* client.go:323 "Safe to call before or after authentication": with no    *)
(* call in progress, the current session reports to the hook installed     *)
(* last.                                                                   *)
(***************************************************************************)
HookInSync ==
  Quiescent /\ session # NoSession => sessHook[session] = hook

(***************************************************************************)
(* client.go:356 "Shutdown tears down any live session": with no call in   *)
(* progress and no current session, no session of this client is alive.    *)
(***************************************************************************)
ShutdownEndsSessions ==
  Quiescent /\ session = NoSession => \A s \in Sessions : ~Alive(s)

(***************************************************************************)
(* client.go:164-366: every call of the public API returns, though it may  *)
(* wait for requestMutex, for an exchange and for the loop to exit.        *)
(***************************************************************************)
CallsReturn ==
  \A t \in Threads : pc[t] # "idle" ~> pc[t] = "idle"

(***************************************************************************)
(* session.go:61-77, 194-221: the loop of a session that is no longer alive ends, *)
(* so wait() has something to wait for.                                    *)
(***************************************************************************)
LoopEnds ==
  \A s \in Sessions : ~Alive(s) ~> Exited(s)

(***************************************************************************)
(* session.go:14 "exactly once per session, when the session first fails": *)
(* once a live session with a hook is found to have failed, the hook is    *)
(* called, unless something stops the session or removes the hook first.   *)
(***************************************************************************)
FoundFailed(s) ==
  Alive(s) /\ \E g \in Goroutines : pc[g] = "fail_swap" /\ sess[g] = s

FailureNotified ==
  \A s \in Sessions :
    FoundFailed(s) /\ sessHook[s] # NoHook
      ~> fired[s] = 1 \/ life[s] = "stopped" \/ sessHook[s] = NoHook

(***************************************************************************)
(* SessionLife is what a session promises its client and the application:  *)
(* it lives once, ends once, and announces a failure at most once.         *)
(***************************************************************************)
Phase == [s \in Sessions |-> IF fired[s] = 0 THEN life[s]
                             ELSE IF fired[s] = 1 /\ life[s] = "failed"
                             THEN "notified" ELSE "broken"]

Life == INSTANCE SessionLife WITH phase <- Phase

(***************************************************************************)
(* session.go:22-100: whatever the goroutines do, each session goes        *)
(* through SessionLife, one transition of one session at a time.           *)
(***************************************************************************)
ImplementsSessionLife == Life!Spec
=============================================================================
