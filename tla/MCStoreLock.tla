----------------------------- MODULE MCStoreLock -----------------------------
(* Instances of StoreLock for TLC. *)
EXTENDS StoreLock

CONSTANTS u1

Once == [p \in Procs |-> 1]
OneUser == [p \in Procs |-> u1]
=============================================================================
