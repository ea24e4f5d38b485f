---------------------------- MODULE RegistryStore ----------------------------
(***************************************************************************)
(* The Windows store of slhwid (slhwid/store_windows.go) under Prepare and *)
(* Commit, and under the storage lock of lock.go: the secret and the       *)
(* helper are two values, each in the machine's hive or the user's, which  *)
(* an elevated process writes first and any process of the user reads.     *)
(*                                                                         *)
(* Processes hold the lock across several reg.exe calls, and may be killed *)
(* between two of them.  A reg.exe that writes may fail, or write and be   *)
(* reported as failed; one that reads succeeds.  What a Prepare reads      *)
(* before it writes it reads in one step: the lock keeps the writers of    *)
(* its user out meanwhile.                                                 *)
(***************************************************************************)
EXTENDS StoreLock

CONSTANTS
  HKLM,        \* the machine's hive; the user of lock directory d has hive d
  NoRoot,      \* no hive
  MayElevate,  \* processes that may run elevated: only these write to HKLM
  FailingRegs, \* processes whose reg.exe may fail to write, or seem to
  NoHelper,    \* no helper value
  Forcing      \* choices of Options.ForceReenroll

ASSUME RegistryAssumption ==
  /\ HKLM \notin Dirs /\ NoRoot \notin Dirs \cup {HKLM}
  /\ MayElevate \subseteq Procs /\ FailingRegs \subseteq Procs /\ Forcing \subseteq BOOLEAN
  /\ NoHelper \notin [key : Nat, secret : Nat, id : Nat]

VARIABLES
  reg,   \* the values SLStore and HWID-device of each hive
  job,   \* what each process does with the store, and its Session
  draws  \* random values drawn: a secret, a key or a helper is one's number

registry     == <<reg, job, draws>>
registryVars == <<vars, registry>>

Roots   == Dirs \cup {HKLM}
Helpers == [key : Nat, secret : Nat, id : Nat]

\* root is registryStore.selectedRoot, expected the helper prepared from.
NewStore == [pc |-> "new", elevated |-> FALSE, forced |-> FALSE, root |-> NoRoot,
             secret |-> 0, key |-> 0, expected |-> NoHelper]

Jobs == [pc : {"new", "read", "ensure", "enroll", "prepared", "commit", "committed"},
         elevated : BOOLEAN, forced : BOOLEAN, root : Roots \cup {NoRoot},
         secret : Nat, key : Nat, expected : Helpers \cup {NoHelper}]

RegistryTypeOK ==
  /\ TypeOK
  /\ reg \in [Roots -> [secret : Nat, helper : Helpers \cup {NoHelper}]]
  /\ job \in [Procs -> Jobs] /\ draws \in Nat

RegistryInit ==
  /\ Init
  /\ reg = [r \in Roots |-> [secret |-> 0, helper |-> NoHelper]]
  /\ job = [p \in Procs |-> NewStore]
  /\ draws = 0

-----------------------------------------------------------------------------
(* The hives. *)

Prefer(d, hives) == IF HKLM \in hives THEN HKLM ELSE d

\* Mutant: the first hive with anything in it, complete or not.
FirstRoot(d, named) ==
  LET partial == {r \in {HKLM, d} : reg[r].secret # 0 \/ (named /\ reg[r].helper # NoHelper)}
  IN  IF partial # {} THEN Prefer(d, partial) ELSE NoRoot

\* What an unpinned store of d's user selects, for the helper or for neither.
selectRoot(d, named) ==
  LET partial  == {r \in {HKLM, d} : reg[r].secret # 0 \/ (named /\ reg[r].helper # NoHelper)}
      complete == {r \in partial : reg[r].secret # 0 /\ (named => reg[r].helper # NoHelper)}
  IN  IF complete # {} THEN Prefer(d, complete)
      ELSE IF partial # {} THEN Prefer(d, partial) ELSE NoRoot

Selected(p, named) ==
  IF job[p].root # NoRoot THEN job[p].root ELSE selectRoot(dir[p], named)

Outcomes(p, root) ==
  IF root = HKLM /\ ~job[p].elevated THEN {"failed"}
  ELSE IF p \in FailingRegs THEN {"done", "failed", "late"} ELSE {"done"}

Put(r, root, cell, value) == [r EXCEPT ![root][cell] = value]

Written(r, root, cell, value, outcome) ==
  IF outcome = "failed" THEN r ELSE Put(r, root, cell, value)

\* One reg.exe, and the hive its success would pin.
RegWrites(p, r, root, cell, value) ==
  {[reg |-> Written(r, root, cell, value, o), root |-> IF o = "done" THEN root ELSE NoRoot] :
     o \in Outcomes(p, root)}

\* writePinned: to the hive selected, else to HKLM, else to the user's.
PinnedWrites(p, cell, value) ==
  LET root  == Selected(p, FALSE)
      first == RegWrites(p, reg, HKLM, cell, value)
  IN  IF root # NoRoot THEN RegWrites(p, reg, root, cell, value)
      ELSE {w \in first : w.root # NoRoot} \cup
           UNION {RegWrites(p, w.reg, dir[p], cell, value) : w \in {v \in first : v.root = NoRoot}}

-----------------------------------------------------------------------------
(* Prepare and Commit of a process, over its own store object. *)

Works(p, label) == pc[p] = "hold" /\ job[p].pc = label

Becomes(p, new) == job' = [job EXCEPT ![p] = new]

\* A Prepare: of a process launched anew under the name, or a retry.
StartPrepare(p) ==
  /\ Acquire(p)
  /\ \E elevated \in BOOLEAN, forced \in Forcing :
       /\ elevated => p \in MayElevate
       /\ Becomes(p, [NewStore EXCEPT !.pc = "read", !.elevated = elevated, !.forced = forced])
  /\ UNCHANGED <<reg, draws>>

\* Committed is set before the lock is asked for.
StartCommit(p) ==
  /\ job[p].pc = "prepared" /\ Acquire(p)
  /\ Becomes(p, [job[p] EXCEPT !.pc = "commit"])
  /\ UNCHANGED <<reg, draws>>

\* ReadHelper pins a hive; a helper found there is opened with its secret.
ReadHelper(p) ==
  LET root  == Selected(p, TRUE)
      found == root # NoRoot /\ reg[root].helper # NoHelper
      store == [job[p] EXCEPT !.root = root]
  IN
  /\ Works(p, "read")
  /\ \/ /\ ~found \/ job[p].forced
        /\ Becomes(p, [store EXCEPT !.pc = "ensure"])
     \/ /\ found /\ ~job[p].forced
        /\ LET h == reg[root].helper IN
           Becomes(p, IF h.secret # reg[root].secret THEN NewStore
                      ELSE [store EXCEPT !.pc = "prepared", !.secret = h.secret,
                                         !.key = h.key, !.expected = h])
  /\ UNCHANGED <<reg, draws>>

\* Mutant: the secret is not looked for before it is drawn.
SecretOfNone(p) == 0

SecretOf(p) ==
  LET root == Selected(p, FALSE) IN IF root = NoRoot THEN 0 ELSE reg[root].secret

\* ensureSlstore.
EnsureSecret(p) ==
  /\ Works(p, "ensure")
  /\ \/ /\ SecretOf(p) # 0
        /\ Becomes(p, [job[p] EXCEPT !.pc = "enroll", !.secret = SecretOf(p),
                                     !.root = Selected(p, FALSE)])
        /\ UNCHANGED <<reg, draws>>
     \/ /\ SecretOf(p) = 0
        /\ draws' = draws + 1
        /\ \E w \in PinnedWrites(p, "secret", draws') :
             /\ reg' = w.reg
             /\ Becomes(p, IF w.root = NoRoot THEN NewStore
                           ELSE [job[p] EXCEPT !.pc = "enroll", !.secret = draws',
                                               !.root = w.root])

\* A key is drawn, dealt and written.
EnrollHelper(p) ==
  LET h == [key |-> draws + 1, secret |-> job[p].secret, id |-> draws + 1] IN
  /\ Works(p, "enroll")
  /\ draws' = draws + 1
  /\ \E w \in PinnedWrites(p, "helper", h) :
       /\ reg' = w.reg
       /\ Becomes(p, IF w.root = NoRoot THEN NewStore
                     ELSE [job[p] EXCEPT !.pc = "prepared", !.key = h.key, !.expected = h])

\* Mutant: whatever helper is stored is replaced.
ExpectedAny(p) == TRUE

Expected(p) == reg[job[p].root].helper = job[p].expected

\* Commit deals the key again, unless the helper is another's by now or the
\* factors do not suffice.
CommitRefresh(p) ==
  /\ Works(p, "commit")
  /\ draws' = draws + 1
  /\ \/ UNCHANGED reg
     \/ /\ Expected(p)
        /\ \E w \in PinnedWrites(p, "helper",
             [key |-> job[p].key, secret |-> job[p].secret, id |-> draws']) : reg' = w.reg
  /\ Becomes(p, [job[p] EXCEPT !.pc = "committed"])

-----------------------------------------------------------------------------
Job(p) == ReadHelper(p) \/ EnsureSecret(p) \/ EnrollHelper(p) \/ CommitRefresh(p)

AtRest(p) == job[p].pc \in {"new", "prepared", "committed"}

\* The lock is given back when the work is done.
RegistryStep(p) ==
  \/ Job(p) /\ UNCHANGED vars
  \/ Step(p) /\ (pc[p] = "hold" => AtRest(p)) /\ UNCHANGED registry

RegistryNext ==
  \/ \E d \in Dirs : Age(d) /\ UNCHANGED registry
  \/ \E p \in Procs : \/ StartPrepare(p) \/ StartCommit(p) \/ RegistryStep(p)
                      \/ Crash(p) /\ UNCHANGED registry

RegistrySpec == RegistryInit /\ [][RegistryNext]_registryVars

\* Every process that runs keeps running, and its reg.exe calls end.
RegistryFairSpec == RegistrySpec /\ \A p \in Procs : WF_registryVars(RegistryStep(p))

-----------------------------------------------------------------------------
(* What a store object of the user finds that is not pinned yet. *)

View(d) ==
  LET root == selectRoot(d, TRUE) IN
  IF root = NoRoot THEN [secret |-> 0, helper |-> NoHelper] ELSE reg[root]

Store(d) == INSTANCE DeviceStore WITH
  secret <- View(d).secret, helper <- View(d).helper, Reenrolls <- TRUE \in Forcing

(***************************************************************************)
(* store_windows.go:98-100: two hives, written in any order and half       *)
(* written by the dead, still are one store: what a user finds is one      *)
(* secret and a helper bound to it, never a mixture of two enrolments.     *)
(***************************************************************************)
ImplementsStore ==
  /\ \A d \in Dirs : Store(d)!Init
  /\ [][\A d \in Dirs : [Store(d)!Next]_(View(d))]_registryVars

(***************************************************************************)
(* README.md:151-154: the key a user's applications find changes only by a *)
(* forced enrolment of one of them.                                        *)
(***************************************************************************)
KeyKept(d) ==
  View(d).helper # NoHelper /\ View(d)'.helper # View(d).helper =>
    /\ View(d)'.helper # NoHelper
    /\ \/ View(d)'.helper.key = View(d).helper.key
       \/ \E p \in Procs : dir[p] = d /\ Works(p, "enroll") /\ job[p].forced
IdentityKept == [][\A d \in Dirs : KeyKept(d)]_registryVars

(***************************************************************************)
(* README.md:160-161: the applications of a user report one HWID, the one  *)
(* stored, unless a forced re-enrolment has superseded it.                 *)
(***************************************************************************)
Reports(p) == job[p].pc \in {"prepared", "commit", "committed"}

OneReport ==
  \A p \in Procs : Reports(p) =>
    LET stored == View(dir[p]).helper IN
    /\ stored # NoHelper
    /\ \/ job[p].key = stored.key
       \/ TRUE \in Forcing /\ job[p].key < stored.key

(***************************************************************************)
(* README.md:160-161, to the letter: two applications of a user that       *)
(* report an HWID report the same, as long as nobody re-enrolls.           *)
(***************************************************************************)
SameReports ==
  \A p, q \in Procs : Reports(p) /\ Reports(q) /\ dir[p] = dir[q] /\ TRUE \notin Forcing =>
    job[p].key = job[q].key
=============================================================================
