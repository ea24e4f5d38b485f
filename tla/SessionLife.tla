----------------------------- MODULE SessionLife -----------------------------
(***************************************************************************)
(* What a session promises (session.go): it is created alive, ends once,   *)
(* either stopped by its client or failed, and only a failure is announced *)
(* to the application, once.                                               *)
(***************************************************************************)
CONSTANT Sessions

VARIABLE phase

Phases == {"none", "alive", "stopped", "failed", "notified"}

Init == phase = [s \in Sessions |-> "none"]

Move(s, from, to) ==
  phase[s] = from /\ phase' = [phase EXCEPT ![s] = to]

Start(s)  == Move(s, "none", "alive")       \* newSession
Stop(s)   == Move(s, "alive", "stopped")    \* stop, by authenticate or Shutdown
Fail(s)   == Move(s, "alive", "failed")     \* fail won the alive.Swap
Notify(s) == Move(s, "failed", "notified")  \* the failure hook is called

Next == \E s \in Sessions : Start(s) \/ Stop(s) \/ Fail(s) \/ Notify(s)

Spec == Init /\ [][Next]_phase
=============================================================================
