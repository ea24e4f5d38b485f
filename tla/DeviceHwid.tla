------------------------------ MODULE DeviceHwid ------------------------------
(***************************************************************************)
(* slhwid.Prepare and Session.Commit over the device's shared storage: the *)
(* store secret and the helper every Bedrock application of the user reads *)
(* and rewrites, the hardware drifting under them, applications launched   *)
(* and ended (or killed) at any step, and the storage lock, taken here as  *)
(* what StoreLock shows it to be: at most one holder, released by the end  *)
(* of the process.                                                         *)
(*                                                                         *)
(* A key is the number of the draw that made it; the transmitted HWID is a *)
(* hash of the key and stands for it.  ZeroKey is the wiped key.  A helper *)
(* carries the number of its write, which its fresh coefficients make      *)
(* distinct from every other helper's bytes.                               *)
(*                                                                         *)
(* A slot of either schema has one or more sources, and its value is what  *)
(* they read; a group is unreadable when all of them are.  A helper of an  *)
(* earlier release is opened through the slots of its own schema and dealt *)
(* again through those of the current one.                                 *)
(***************************************************************************)
EXTENDS SecretSharing

CONSTANTS
  Apps,         \* applications of the device, one process each
  Callers,      \* threads of a process that authenticate
  Overlapping,  \* two threads of a process may be inside Commit at once
  Sources,      \* raw signals of the collectors, and the store secret
  Members,      \* Members[s]: the sources of slot s
  Schema,       \* Schema[norm]: the slots of a helper of version norm
  CurrentName,  \* the current slot that a slot's hard lock moves to
  Legacies,     \* hard locks and threshold a helper of an earlier release may have
  Drifting,     \* hardware sources whose reading changes
  Values,       \* readings of a drifting source
  Steady,       \* the first reading of every hardware source
  Wantable,     \* choices of Options.ExtraMandatory
  Forcing,      \* choices of Options.ForceReenroll
  MaxDrifts,    \* bound on hardware changes
  MaxLaunches,  \* bound on process launches
  NoHelper, NoApp

legacyNorm  == 1
currentNorm == 2

\* The store secret reads as the number of its draw.
Reading    == Values \cup {Steady, Absent}
SlotValues == (UNION {[Members[s] -> Reading] : s \in Slots}) \cup [{Secret} -> Nat]
Readable   == {Absent} \cup SlotValues
Helpers    ==
  [norm : {legacyNorm, currentNorm}, key : Nat, mandatory : SUBSET Slots, t : Nat,
   bound : UNION {[S -> SlotValues] : S \in SUBSET Slots}, id : Nat]

ASSUME SchemaAssumption ==
  /\ Schema \in [{legacyNorm, currentNorm} -> SUBSET Slots]
  /\ Slots = Schema[legacyNorm] \cup Schema[currentNorm]
  /\ Secret \in Schema[legacyNorm] \cap Schema[currentNorm]
  /\ Members \in [Slots -> (SUBSET Sources) \ {{}}]
  /\ \A s \in Slots : Secret \in Members[s] <=> s = Secret
  /\ Members[Secret] = {Secret}
  /\ CurrentName \in [Slots -> Schema[currentNorm]]
  /\ \A s \in Schema[currentNorm] : CurrentName[s] = s

ASSUME LegacyAssumption ==
  \A l \in Legacies :
    /\ Secret \in l.mandatory /\ l.mandatory \subseteq Schema[legacyNorm]
    /\ l.t \in Nat /\ Cardinality(l.mandatory) < l.t
    /\ l.t <= Cardinality(Schema[legacyNorm])

ASSUME DeviceAssumption ==
  /\ Drifting \subseteq Sources \ {Secret}
  /\ Wantable \subseteq SUBSET (Slots \ {Secret})
  /\ Forcing \subseteq BOOLEAN /\ Overlapping \in BOOLEAN
  /\ MaxDrifts \in Nat /\ MaxLaunches \in Nat
  /\ Absent \notin SlotValues /\ Steady # Absent
  /\ NoApp \notin Apps
  /\ NoHelper \notin Helpers \cup [key : Nat, secret : Nat]

VARIABLES
  slstore,   \* draw that made the store secret; 0 when there is none
  helper,    \* hwid-device.bin
  lock,      \* holder of the storage lock between two writes of Prepare
  hw,        \* readings of the drifting sources
  ses,       \* the Session of each process and the Prepare making it
  commit,    \* where each thread of a process is in Commit
  draws,     \* random values drawn
  writes,    \* helpers written
  drifts, launches

store == <<slstore, helper, draws, writes>>
env   == <<hw, drifts, launches>>
vars  == <<store, env, lock, ses, commit>>

ZeroKey == 0

Off == [pc |-> "off", forced |-> FALSE, requested |-> {},
        factors |-> [s \in Slots |-> Absent], mandatory |-> {},
        hwid |-> ZeroKey, k |-> ZeroKey, committed |-> FALSE, expected |-> 0,
        missing |-> {}]

Read(x) == IF x \in Drifting THEN hw[x] ELSE Steady

\* What collect() makes of the hardware, for the slots of both schemas.
Readings ==
  [s \in Slots |-> IF s = Secret \/ \A x \in Members[s] : Read(x) = Absent
                   THEN Absent ELSE [x \in Members[s] |-> Read(x)]]

SecretValue(draw) == IF draw = 0 THEN Absent ELSE [x \in {Secret} |-> draw]

Factors(p, secret) == [ses[p].factors EXCEPT ![Secret] = SecretValue(secret)]

projectFactors(factors, norm) ==
  [s \in Slots |-> IF s \in Schema[norm] THEN factors[s] ELSE Absent]

mapMandatoryToCurrent(names) == {CurrentName[s] : s \in names}

\* An enrolment by an earlier release, on this hardware.
LegacyHelper(l) ==
  [norm |-> legacyNorm, key |-> 2,
   bound |-> Restricted(projectFactors([Readings EXCEPT ![Secret] = SecretValue(1)],
                                       legacyNorm)),
   mandatory |-> l.mandatory, t |-> l.t, id |-> 1]

Init ==
  /\ hw = [x \in Drifting |-> Steady] /\ drifts = 0 /\ launches = 0
  /\ \/ slstore = 0 /\ helper = NoHelper /\ draws = 0 /\ writes = 0
     \/ /\ slstore = 1 /\ draws = 2 /\ writes = 1
        /\ \E l \in Legacies : helper = LegacyHelper(l)
  /\ lock = NoApp
  /\ ses = [p \in Apps |-> Off]
  /\ commit = [p \in Apps |-> [c \in Callers |-> "idle"]]

-------------------------------------------------------------------------------
(* Prepare. *)

\* collect() reads the hardware before the storage lock is taken.
Collect(p) ==
  /\ ses[p].pc = "off" /\ launches < MaxLaunches
  /\ launches' = launches + 1
  /\ \E extra \in Wantable, force \in Forcing :
       ses' = [ses EXCEPT ![p] = [Off EXCEPT !.pc = "collected",
                 !.requested = mapMandatoryToCurrent(extra \cup {Secret}),
                 !.forced = force, !.factors = Readings]]
  /\ UNCHANGED <<store, hw, drifts, lock, commit>>

Enrolling(p) == helper = NoHelper \/ ses[p].forced

Fails(p, missing) ==
  ses' = [ses EXCEPT ![p] = [Off EXCEPT !.pc = "failed", !.missing = missing]]

\* A write of the store: done, failed, or done and reported as failed (the
\* chmod behind the rename).
WriteOutcomes == {"done", "failed", "late"}

\* Mutant: enrolment starts without the storage lock.
LockFreeAlways == TRUE

LockFree == lock = NoApp

\* Mutant: every enrolment draws a new store secret.
SecretKnownNever == FALSE

SecretKnown == slstore # 0

Shares(p, secret) ==
  ses' = [ses EXCEPT ![p] = [@ EXCEPT !.pc = "sharing",
                               !.factors = Factors(p, secret)]]

\* ensureSlstore.
EnrollSecret(p) ==
  /\ ses[p].pc = "collected" /\ LockFree /\ Enrolling(p)
  /\ \/ /\ SecretKnown
        /\ Shares(p, slstore)
        /\ lock' = p
        /\ UNCHANGED <<slstore, draws>>
     \/ /\ ~SecretKnown
        /\ draws' = draws + 1
        /\ \E outcome \in WriteOutcomes :
             /\ slstore' = IF outcome = "failed" THEN slstore ELSE draws'
             /\ IF outcome = "done"
                THEN Shares(p, draws') /\ lock' = p
                ELSE Fails(p, {}) /\ UNCHANGED lock
  /\ UNCHANGED <<helper, writes, env, commit>>

\* serializeHelper of shares of key k dealt to the readable factors.
Dealt(k, factors, mandatory) ==
  [norm |-> currentNorm, key |-> k, bound |-> Restricted(factors), mandatory |-> mandatory,
   t |-> threshold(Cardinality(Available(factors)), Cardinality(mandatory)),
   id |-> writes + 1]

Dealable(factors, mandatory) ==
  /\ mandatory \subseteq Available(factors)
  /\ thresholdDefined(Cardinality(Available(factors)), Cardinality(mandatory))

\* A key is drawn, shared and written, under the lock EnrollSecret took.
EnrollHelper(p) ==
  LET s == ses[p]
      f == projectFactors(s.factors, currentNorm)
  IN
  /\ s.pc = "sharing" /\ lock = p /\ lock' = NoApp
  /\ \/ /\ ~Dealable(f, s.requested)
        /\ Fails(p, s.requested \ Available(f))
        /\ UNCHANGED <<helper, draws, writes>>
     \/ /\ Dealable(f, s.requested)
        /\ draws' = draws + 1
        /\ \E outcome \in WriteOutcomes :
             /\ IF outcome = "failed" THEN UNCHANGED <<helper, writes>>
                ELSE /\ helper' = Dealt(draws', f, s.requested)
                     /\ writes' = writes + 1
             /\ IF outcome = "done"
                THEN ses' = [ses EXCEPT ![p] = [@ EXCEPT !.pc = "prepared",
                       !.hwid = draws', !.k = draws', !.mandatory = s.requested,
                       !.expected = writes']]
                ELSE Fails(p, {})
  /\ UNCHANGED <<slstore, env, commit>>

\* Mutant: the changed slots are compared under the names they had.
UnpromotableUnmapped(wanted, recovery, factors) ==
  wanted \cap ((Slots \ Available(factors)) \cup Dead(helper, recovery))

\* Requested hard locks that this launch cannot add: unreadable, or moved to
\* from an enrolled slot that has changed.
Unpromotable(wanted, recovery, factors) ==
  wanted \cap ((Slots \ Available(factors)) \cup
               mapMandatoryToCurrent(Dead(helper, recovery)))

Opens(p, f, mandatory) ==
  ses' = [ses EXCEPT ![p] = [@ EXCEPT !.pc = "prepared", !.factors = f,
            !.hwid = helper.key, !.k = helper.key, !.mandatory = mandatory,
            !.expected = helper.id]]

\* Recovery of the key from the stored helper; nothing is written.
PrepareRecover(p) ==
  LET s == ses[p]
      raw == Factors(p, slstore)
      recovery == projectFactors(raw, helper.norm)
      factors  == projectFactors(raw, currentNorm)
      stored    == mapMandatoryToCurrent(helper.mandatory)
      wanted    == s.requested \ stored
      mandatory == stored \cup wanted
  IN
  /\ s.pc = "collected" /\ LockFree /\ ~Enrolling(p)
  /\ IF ~Recovers(helper, recovery)
     THEN Fails(p, Blamed(helper, recovery))
     ELSE IF Unpromotable(wanted, recovery, factors) # {}
     THEN Fails(p, Unpromotable(wanted, recovery, factors))
     ELSE IF wanted # {} /\ Cardinality(mandatory) >= Cardinality(Available(factors))
     THEN Fails(p, {})
     ELSE Opens(p, raw, mandatory)
  /\ UNCHANGED <<store, env, lock, commit>>

-------------------------------------------------------------------------------
(* Commit, once the server accepted the HWID. *)

Wiped(s) == [s EXCEPT !.k = ZeroKey]

CommitEnter(p, c) ==
  /\ ses[p].pc = "prepared" /\ commit[p][c] = "idle"
  /\ Overlapping \/ \A d \in Callers : commit[p][d] # "entered"
  /\ IF ses[p].committed \/ ses[p].k = ZeroKey
     THEN /\ ses' = [ses EXCEPT ![p] = Wiped(@)]
          /\ commit' = [commit EXCEPT ![p][c] = "done"]
     ELSE /\ ses' = [ses EXCEPT ![p].committed = TRUE]
          /\ commit' = [commit EXCEPT ![p][c] = "entered"]
  /\ UNCHANGED <<store, env, lock>>

\* Mutant: any stored helper is replaced.
ExpectedAny(p) == helper # NoHelper

\* The stored helper is still the one this session was prepared from.
Expected(p) == helper # NoHelper /\ helper.id = ses[p].expected

\* Under the lock; refreshCore skips what cannot be dealt, and the deferred
\* wipe follows.
CommitRefresh(p, c) ==
  LET s == ses[p]
      f == projectFactors(s.factors, currentNorm)
  IN
  /\ commit[p][c] = "entered" /\ LockFree
  /\ \/ UNCHANGED <<helper, writes>> \* lock timeout, skip, or failed write
     \/ /\ Expected(p) /\ Dealable(f, s.mandatory)
        /\ helper' = Dealt(s.k, f, s.mandatory)
        /\ writes' = writes + 1
  /\ ses' = [ses EXCEPT ![p] = Wiped(@)]
  /\ commit' = [commit EXCEPT ![p][c] = "done"]
  /\ UNCHANGED <<slstore, draws, env, lock>>

-------------------------------------------------------------------------------
(* The environment. *)

\* A process ends, at any step: at its own end or killed.
Exit(p) ==
  /\ ses[p].pc # "off"
  /\ ses' = [ses EXCEPT ![p] = Off]
  /\ commit' = [commit EXCEPT ![p] = [c \in Callers |-> "idle"]]
  /\ lock' = IF lock = p THEN NoApp ELSE lock
  /\ UNCHANGED <<store, env>>

\* A source's reading changes, is lost, or comes back.
Drift(x) ==
  /\ drifts < MaxDrifts
  /\ drifts' = drifts + 1
  /\ \E v \in (Values \cup {Absent}) \ {hw[x]} : hw' = [hw EXCEPT ![x] = v]
  /\ UNCHANGED <<store, launches, lock, ses, commit>>

Next ==
  \/ \E p \in Apps :
       \/ Collect(p) \/ EnrollSecret(p) \/ EnrollHelper(p) \/ PrepareRecover(p)
       \/ Exit(p)
       \/ \E c \in Callers : CommitEnter(p, c) \/ CommitRefresh(p, c)
  \/ \E x \in Drifting : Drift(x)

Spec == Init /\ [][Next]_vars

-------------------------------------------------------------------------------
(* Properties. *)

Sessions ==
  [pc : {"off", "collected", "sharing", "prepared", "failed"},
   forced : BOOLEAN, requested : SUBSET Slots, factors : [Slots -> Readable],
   mandatory : SUBSET Slots, hwid : Nat, k : Nat, committed : BOOLEAN,
   expected : Nat, missing : SUBSET Slots]

\* The state stays well formed, and the lock is held by the process between
\* Prepare's two writes and by no other.
TypeOK ==
  /\ slstore \in Nat /\ draws \in Nat /\ writes \in Nat
  /\ hw \in [Drifting -> Reading] /\ drifts \in Nat /\ launches \in Nat
  /\ ses \in [Apps -> Sessions]
  /\ commit \in [Apps -> [Callers -> {"idle", "entered", "done"}]]
  /\ lock \in Apps \cup {NoApp}
  /\ \A p \in Apps : ses[p].pc = "sharing" <=> lock = p

\* Whatever crashed or failed before, a stored helper is one that the next
\* launch accepts and whose store secret is the stored one.
HelperOpens ==
  helper # NoHelper =>
    /\ Parses(helper) /\ Bound(helper) \subseteq Schema[helper.norm]
    /\ helper.norm = currentNorm => Cardinality(Bound(helper)) >= minimumFactors
    /\ slstore # 0 /\ helper.bound[Secret] = SecretValue(slstore)

\* The device's applications report one HWID, that of the stored helper,
\* unless a forced re-enrolment has superseded the reported one.
OneIdentity ==
  \A p \in Apps : ses[p].pc = "prepared" =>
    /\ helper # NoHelper
    /\ \/ ses[p].hwid = helper.key
       \/ TRUE \in Forcing /\ ses[p].hwid < helper.key

\* The key behind the HWID changes by a forced re-enrolment only: no drift,
\* race, crash or refresh gives an enrolled device another identity.
KeyKept ==
  helper # NoHelper /\ helper' # helper /\ helper'.key # helper.key =>
    \E p \in Apps : ses[p].pc = "sharing" /\ ses[p].forced
StableKey == [][KeyKept]_vars

\* Slot b of the stored helper is hard-locked, or becomes so with locks.
Guarded(b, locks) ==
  \/ b \in helper.mandatory
  \/ CurrentName[b] \in locks \ mapMandatoryToCurrent(helper.mandatory)

\* As long as the key stays, hard locks stay, through a migration too, and
\* neither a refresh nor the promotion of a slot absorbs a change to a source
\* that is hard-locked before or by it.
LocksKept ==
  helper # NoHelper /\ helper' # helper /\ helper'.key = helper.key =>
    /\ mapMandatoryToCurrent(helper.mandatory) \subseteq helper'.mandatory
    /\ \A b \in Bound(helper) : Guarded(b, helper'.mandatory) =>
         LET m == CurrentName[b] IN
         \A x \in Members[b] \cap Members[m] : helper'.bound[m][x] = helper.bound[b][x]
HardLocksStay == [][LocksKept]_vars

\* Two changed or unreadable optional factors never lose the key, for fewer
\* hard locks than raise the threshold.
AnyTwoMayFail ==
  helper # NoHelper /\ helper.norm = currentNorm /\ Cardinality(helper.mandatory) <= 5 =>
    \A a, b \in Bound(helper) \ helper.mandatory :
      Recovers(helper, [helper.bound EXCEPT ![a] = Absent, ![b] = Absent])

\* A launch that is refused over hard-locked slots names slots that are
\* unreadable or have changed, or that an enrolled slot which has changed
\* moves to.
FairlyBlamed ==
  \A p \in Apps : ses'[p].pc = "failed" /\ ses[p].pc = "collected" =>
    LET f == Factors(p, slstore) IN
    \A m \in ses'[p].missing :
      \/ f[m] = Absent
      \/ \E b \in Bound(helper) : m \in {b, CurrentName[b]} /\ f[b] # helper.bound[b]
BlameIsFair == [][FairlyBlamed]_vars

\* The applications of a device keep the promises of its store: one secret,
\* and a helper bound to it whose key only a re-enrolment replaces.
Store == INSTANCE DeviceStore WITH
  secret <- slstore,
  helper <- IF helper = NoHelper THEN NoHelper
            ELSE [key |-> helper.key, secret |-> helper.bound[Secret][Secret]],
  Reenrolls <- TRUE \in Forcing
ImplementsStore == Store!Spec
=============================================================================
