--------------------------- MODULE MCRegistryStore ---------------------------
(* Instances of RegistryStore for TLC. *)
EXTENDS RegistryStore

CONSTANTS u1, u2, p2

Once == [p \in Procs |-> 1]
OneUser == [p \in Procs |-> u1]

\* The process whose writes may fail acquires once; the other prepares, commits
\* and prepares again.
HealthyThrice == [p \in Procs |-> IF p \in FailingWrites THEN 1 ELSE 3]

\* p2 is another user's.
TwoUsers == [p \in Procs |-> IF p = p2 THEN u2 ELSE u1]
=============================================================================
