-------------------------- MODULE MCBedrockClient --------------------------
(***************************************************************************)
(* Instances of BedrockClient for TLC: which thread makes which calls.     *)
(***************************************************************************)
EXTENDS BedrockClient, TLC

CONSTANTS t1, t2

\* One application thread makes every call.
SequentialCalls == [t \in Threads |-> Operations]

\* One thread authenticates; the other beats, shuts down and sets hooks.
OneAuthenticator ==
  (t1 :> {"authenticate", "heartbeat"}) @@
  (t2 :> {"heartbeat", "shutdown", "onFailure"})

\* Both threads authenticate, one of them shuts down.
TwoAuthenticators ==
  (t1 :> {"authenticate", "shutdown"}) @@ (t2 :> {"authenticate"})

SessionSymmetry == Permutations(Sessions)
=============================================================================
