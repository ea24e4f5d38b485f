--------------------------- MODULE DeviceHwidProofs ---------------------------
(***************************************************************************)
(* DeviceHwid for every set of slots, applications and readings: what is   *)
(* stored opens again, hard locks stay, blame is fair and, when one thread *)
(* at a time commits a session, the key is stable.                         *)
(***************************************************************************)
EXTENDS DeviceHwid, FiniteSetTheorems, TLAPS

USE SlotsAssumption

-------------------------------------------------------------------------------
(* The inductive invariant. *)

\* The threshold of a helper: an earlier release may have chosen another.
ThresholdSound(h) ==
  LET n == Cardinality(Bound(h))
      m == Cardinality(h.mandatory)
  IN  IF h.norm = currentNorm THEN thresholdDefined(n, m) /\ h.t = threshold(n, m)
      ELSE h.t \in Nat /\ m < h.t /\ h.t <= n

\* What every stored helper satisfies.
HelperSound ==
  helper # NoHelper =>
    /\ helper.key \in 1..draws /\ helper.id \in 1..writes
    /\ helper.norm \in {legacyNorm, currentNorm}
    /\ Bound(helper) \subseteq Schema[helper.norm]
    /\ helper.mandatory \subseteq Bound(helper) /\ Secret \in helper.mandatory
    /\ ThresholdSound(helper)
    /\ slstore # 0 /\ helper.bound[Secret] = SecretValue(slstore)
    /\ \A s \in Bound(helper) : helper.bound[s] # Absent

\* Slots with a common source agree on it: they were read in one collect().
Agree(f) ==
  \A a, b \in Slots : f[a] # Absent /\ f[b] # Absent =>
    \A x \in Members[a] \cap Members[b] : f[a][x] = f[b][x]

\* What a Prepare under way satisfies.
PreparingSound(p) ==
  /\ ses[p].pc \in {"collected", "sharing", "prepared"} => Agree(ses[p].factors)
  /\ ses[p].pc \in {"collected", "sharing"} =>
       Secret \in ses[p].requested /\ ses[p].requested \subseteq Schema[currentNorm]
  /\ ses[p].pc = "sharing" =>
       /\ slstore # 0 /\ ses[p].factors[Secret] = SecretValue(slstore)
       /\ Enrolling(p)

\* What a prepared session satisfies.
PreparedSound(p) ==
  ses[p].pc = "prepared" =>
    /\ Secret \in ses[p].mandatory
    /\ ses[p].expected \in 1..writes /\ ses[p].hwid \in 1..draws

\* The session was prepared from the helper that is still stored.
Current(p) ==
  ses[p].pc = "prepared" /\ helper # NoHelper /\ helper.id = ses[p].expected

CurrentSound(p) ==
  Current(p) =>
    /\ ses[p].hwid = helper.key
    /\ mapMandatoryToCurrent(helper.mandatory) \subseteq ses[p].mandatory
    /\ \A b \in Bound(helper) : Guarded(b, ses[p].mandatory) =>
         ses[p].factors[b] = helper.bound[b]

\* One thread at most is inside Commit, and the key is still there for it.
CommitSound(p) ==
  /\ \A c \in Callers : commit[p][c] = "entered" =>
       ses[p].pc = "prepared" /\ ses[p].k = ses[p].hwid
  /\ ses[p].pc = "prepared" => ses[p].k \in {ses[p].hwid, ZeroKey}
  /\ \A c, d \in Callers :
       commit[p][c] = "entered" /\ commit[p][d] = "entered" => c = d

SessionSound(p) == PreparingSound(p) /\ PreparedSound(p) /\ CurrentSound(p)

Inv == TypeOK /\ HelperSound /\ \A p \in Apps : SessionSound(p)

-------------------------------------------------------------------------------
(* Lemmas about the sharing. *)

\* Every set of slots is finite and has a natural cardinality.
LEMMA SlotSets ==
  ASSUME NEW S, S \subseteq Slots
  PROVE  IsFiniteSet(S) /\ Cardinality(S) \in Nat
BY FS_Subset, FS_CardinalityType

\* Removing an element removes one at most.
LEMMA RemovesOne ==
  ASSUME NEW S, NEW x, IsFiniteSet(S)
  PROVE  /\ IsFiniteSet(S \ {x}) /\ Cardinality(S \ {x}) \in Nat
         /\ Cardinality(S) \in Nat /\ Cardinality(S \ {x}) >= Cardinality(S) - 1
<1>1. IsFiniteSet(S \ {x}) /\ Cardinality(S) \in Nat
  BY FS_RemoveElement, FS_CardinalityType
<1>2. Cardinality(S \ {x}) = IF x \in S THEN Cardinality(S) - 1 ELSE Cardinality(S)
  BY FS_RemoveElement
<1>3. Cardinality(S \ {x}) \in Nat
  BY <1>1, FS_CardinalityType
<1> QED BY <1>1, <1>2, <1>3

\* threshold lies above the mandatory slots and within the slots.
LEMMA ThresholdBounds ==
  ASSUME NEW n \in Nat, NEW m \in Nat, thresholdDefined(n, m)
  PROVE  threshold(n, m) \in Nat /\ m < threshold(n, m) /\ threshold(n, m) <= n
BY DEF threshold, thresholdDefined, Larger, Smaller, RoundedUp, minimumFactors

\* threshold leaves two optional slots over unless hard locks raised it.
LEMMA ThresholdLeavesTwo ==
  ASSUME NEW n \in Nat, NEW m \in Nat, thresholdDefined(n, m), m <= 5
  PROVE  threshold(n, m) <= n - 2
BY DEF threshold, thresholdDefined, Larger, Smaller, RoundedUp, minimumFactors

\* The factors of a schema are readings too.
LEMMA ProjectedTyped ==
  ASSUME NEW f \in [Slots -> Readable], NEW norm \in {legacyNorm, currentNorm},
         NEW g, g = projectFactors(f, norm)
  PROVE  /\ g \in [Slots -> Readable] /\ Available(g) \subseteq Schema[norm]
         /\ \A s \in Schema[norm] : s \in Slots /\ g[s] = f[s]
         /\ \A s \in Available(g) : g[s] = f[s]
BY SchemaAssumption DEF projectFactors, Available, Readable, legacyNorm, currentNorm

\* A dealt helper binds the readable factors of the current schema.
LEMMA DealtWell ==
  ASSUME NEW k, NEW f \in [Slots -> Readable], NEW m,
         NEW g, g = projectFactors(f, currentNorm), NEW h, h = Dealt(k, g, m)
  PROVE  /\ Bound(h) = Available(g) /\ Bound(h) \subseteq Schema[currentNorm]
         /\ h.norm = currentNorm /\ h.mandatory = m /\ h.key = k /\ h.id = writes + 1
         /\ h.t = threshold(Cardinality(Bound(h)), Cardinality(m))
         /\ \A s \in Bound(h) : h.bound[s] = f[s] /\ h.bound[s] # Absent
<1>1. currentNorm \in {legacyNorm, currentNorm}
  OBVIOUS
<1>2. /\ g \in [Slots -> Readable] /\ Available(g) \subseteq Schema[currentNorm]
      /\ \A s \in Available(g) : g[s] = f[s]
  BY <1>1, ProjectedTyped, Zenon
<1> QED BY <1>2 DEF Dealt, Bound, Available, Restricted

\* The correct slots are the hard-locked among them and the optional ones that
\* the search may choose from, whichever hard-locked slot it leaves out.
LEMMA CorrectParts ==
  ASSUME NEW h, NEW f, Parses(h), Bound(h) \subseteq Slots, MissingMandatory(h, f) = {}
  PROVE  LET good == h.mandatory \cap Correct(h, f)
             others == Correct(h, f) \ h.mandatory
         IN  /\ IsFiniteSet(h.mandatory) /\ IsFiniteSet(Correct(h, f))
             /\ Cardinality(good) \in Nat /\ Cardinality(others) \in Nat
             /\ Cardinality(Correct(h, f)) = Cardinality(good) + Cardinality(others)
             /\ \A D \in SUBSET h.mandatory :
                  Finds(h, f, D) <=>
                    /\ h.mandatory \ D \subseteq good
                    /\ Cardinality(others) >= h.t - Cardinality(h.mandatory \ D)
<1> DEFINE C == Correct(h, f)  M == h.mandatory  good == M \cap C  others == C \ M
<1>1. M \subseteq Bound(h) /\ M \subseteq Available(f) /\ C \subseteq Present(h, f)
      /\ Present(h, f) \subseteq Slots
  BY DEF Parses, MissingMandatory, Correct, Present
<1>2. /\ IsFiniteSet(M) /\ IsFiniteSet(C) /\ Cardinality(C) \in Nat
      /\ IsFiniteSet(good) /\ Cardinality(good) \in Nat
      /\ IsFiniteSet(others) /\ Cardinality(others) \in Nat
  <2>1. M \subseteq Slots /\ C \subseteq Slots /\ good \subseteq Slots /\ others \subseteq Slots
    BY <1>1
  <2> HIDE DEF C, M, good, others
  <2> QED BY <2>1, SlotSets
<1>3. Cardinality(C) = Cardinality(good) + Cardinality(others)
  <2>1. Cardinality(others) = Cardinality(C) - Cardinality(C \cap M)
    <3> HIDE DEF C, M
    <3> QED BY <1>2, FS_Difference
  <2>2. Cardinality(C \cap M) = Cardinality(good)
    <3>1. C \cap M = good
      OBVIOUS
    <3> QED BY <3>1, Zenon
  <2> HIDE DEF C, M, good, others
  <2> QED BY <1>2, <2>1, <2>2
<1>4. ASSUME NEW D \in SUBSET M
      PROVE  Finds(h, f, D) <=> /\ M \ D \subseteq good
                                /\ Cardinality(others) >= h.t - Cardinality(M \ D)
  <2>1. /\ (Present(h, f) \cap M) \ D = M \ D
        /\ ((Present(h, f) \ M) \ D) \cap C = others
    BY <1>1 DEF Present
  <2>2. M \ D \subseteq C <=> M \ D \subseteq good
    OBVIOUS
  <2>3. Finds(h, f, D) <=> /\ M \ D \subseteq C
                           /\ Cardinality(others) >= h.t - Cardinality(M \ D)
    <3>1. Finds(h, f, D) = FindsSubset(M \ D, (Present(h, f) \ M) \ D, C, h.t)
      BY <2>1, Zenon DEF Finds
    <3> HIDE DEF C, M, others
    <3> QED BY <2>1, <3>1, Zenon DEF FindsSubset
  <2> QED BY <2>2, <2>3
<1> QED BY <1>2, <1>3, <1>4

\* core.go:764-809: the sweep over subsets succeeds exactly when every hard-locked
\* slot is as it was bound and, all told, as many slots as the threshold asks for.
THEOREM RecoveryExact ==
  ASSUME NEW h, NEW f, Parses(h), Bound(h) \subseteq Slots, h.t \in Nat
  PROVE  Recovers(h, f) <=>
           h.mandatory \subseteq Correct(h, f) /\ Cardinality(Correct(h, f)) >= h.t
<1> DEFINE C == Correct(h, f)  M == h.mandatory  good == M \cap C  others == C \ M
<1>1. M \subseteq C => MissingMandatory(h, f) = {}
  BY DEF Correct, Present, MissingMandatory
<1>2. ASSUME MissingMandatory(h, f) = {}
      PROVE  Finds(h, f, {}) <=> M \subseteq C /\ Cardinality(C) >= h.t
  <2>1. /\ Cardinality(good) \in Nat /\ Cardinality(others) \in Nat
        /\ Cardinality(C) = Cardinality(good) + Cardinality(others)
        /\ Finds(h, f, {}) <=> /\ M \ {} \subseteq good
                               /\ Cardinality(others) >= h.t - Cardinality(M \ {})
    BY <1>2, CorrectParts
  <2>2. M \ {} = M /\ (M \subseteq good <=> M \subseteq C) /\ (M \subseteq C => good = M)
    OBVIOUS
  <2> HIDE DEF C, M, good, others
  <2> QED BY <2>1, <2>2
<1> QED BY <1>1, <1>2 DEF Recovers

\* core.go:844-875 "the first culprit in stored order wins": there is no second.  A
\* changed hard lock is named exactly when it is the only one and the slots that
\* are still correct reach the threshold; otherwise the machine has drifted.
THEOREM BlameExact ==
  ASSUME NEW h, NEW f, Parses(h), Bound(h) \subseteq Slots, h.t \in Nat,
         MissingMandatory(h, f) = {}, ~Recovers(h, f)
  PROVE  Culprits(h, f) = {m \in h.mandatory : /\ h.mandatory \ Correct(h, f) = {m}
                                               /\ Cardinality(Correct(h, f)) >= h.t}
<1> DEFINE C == Correct(h, f)  M == h.mandatory  good == M \cap C  others == C \ M
<1>1. /\ IsFiniteSet(M) /\ Cardinality(M) \in Nat
      /\ Cardinality(good) \in Nat /\ Cardinality(others) \in Nat
      /\ Cardinality(C) = Cardinality(good) + Cardinality(others)
      /\ \A D \in SUBSET M :
           Finds(h, f, D) <=> /\ M \ D \subseteq good
                              /\ Cardinality(others) >= h.t - Cardinality(M \ D)
  BY CorrectParts, FS_CardinalityType
<1>2. ASSUME NEW m \in M
      PROVE  Finds(h, f, {m}) <=> M \ C = {m} /\ Cardinality(C) >= h.t
  <2>1. Finds(h, f, {m}) <=> /\ M \ {m} \subseteq good
                             /\ Cardinality(others) >= h.t - Cardinality(M \ {m})
    BY <1>1
  <2>2. Cardinality(M \ {m}) = Cardinality(M) - 1
    <3> HIDE DEF M
    <3> QED BY <1>1, <1>2, FS_RemoveElement
  <2>3. M \ C = {m} => good = M \ {m}
    OBVIOUS
  <2>4. ASSUME M \ {m} \subseteq good, m \in C PROVE M \subseteq C /\ good = M
    BY <2>4
  <2>5. ~(M \subseteq C /\ Cardinality(C) >= h.t)
    BY RecoveryExact
  <2>6. M \ {m} \subseteq good /\ m \notin C => M \ C = {m}
    OBVIOUS
  <2>7. m \in C => M \ C # {m}
    OBVIOUS
  <2> HIDE DEF C, M, good, others
  <2> QED BY <1>1, <2>1, <2>2, <2>3, <2>4, <2>5, <2>6, <2>7
<1> QED BY <1>2 DEF Culprits

\* A recovery that succeeds had every hard-locked slot as it was bound.
LEMMA RecoveryHardLocked ==
  ASSUME NEW h, NEW f, Recovers(h, f), h.mandatory \subseteq Bound(h)
  PROVE  \A m \in h.mandatory : m \in Available(f) /\ f[m] = h.bound[m]
<1>1. h.mandatory \subseteq Available(f)
  BY DEF Recovers, MissingMandatory
<1>2. h.mandatory \subseteq Correct(h, f)
  BY <1>1 DEF Recovers, Finds, FindsSubset, Present
<1> QED
  BY <1>1, <1>2 DEF Correct

\* A slot that is not dead is bound to its reading.
LEMMA AliveIsBound ==
  ASSUME NEW h, NEW f, NEW s \in Bound(h), s \notin Dead(h, f)
  PROVE  f[s] = h.bound[s]
BY DEF Dead, Correct

\* The hard-locked slot a failed recovery would have done without is wrong.
LEMMA CulpritIsWrong ==
  ASSUME NEW h, NEW f, NEW m \in Culprits(h, f), Parses(h), Bound(h) \subseteq Slots, h.t \in Nat,
         MissingMandatory(h, f) = {}, ~Recovers(h, f)
  PROVE  m \in Bound(h) /\ f[m] # h.bound[m]
<1>1. m \in h.mandatory \ Correct(h, f)
  BY BlameExact
<1> QED BY <1>1 DEF Parses, Correct, Present, MissingMandatory

-------------------------------------------------------------------------------
(* Initial states and the steps' common parts. *)

\* The session of a process that is not running is well formed.
LEMMA OffSession ==
  Off \in Sessions /\ Off.pc = "off"
BY DEF Off, Sessions, Readable, ZeroKey

\* What the sources of a slot read is a value of it.
LEMMA ValueTyped ==
  ASSUME NEW s \in Slots, NEW v \in [Members[s] -> Reading]
  PROVE  v \in SlotValues
<1>1. [Members[s] -> Reading] \in {[Members[r] -> Reading] : r \in Slots}
  OBVIOUS
<1>2. v \in UNION {[Members[r] -> Reading] : r \in Slots}
  BY <1>1
<1> QED BY <1>2 DEF SlotValues

\* A stored secret is a reading of its slot.
LEMMA SecretTyped ==
  ASSUME NEW draw \in Nat
  PROVE  /\ SecretValue(draw) \in Readable
         /\ draw # 0 => SecretValue(draw) # Absent
<1>1. [x \in {Secret} |-> draw] \in [{Secret} -> Nat]
  OBVIOUS
<1>2. [x \in {Secret} |-> draw] \in SlotValues
  BY <1>1, Zenon DEF SlotValues
<1> QED BY <1>2, DeviceAssumption DEF SecretValue, Readable

\* Adding the store secret leaves the factors in agreement.
LEMMA AgreeWithSecret ==
  ASSUME NEW f \in [Slots -> Readable], Agree(f), NEW v
  PROVE  Agree([f EXCEPT ![Secret] = v])
<1> DEFINE g == [f EXCEPT ![Secret] = v]
<1> SUFFICES ASSUME NEW a \in Slots, NEW b \in Slots, g[a] # Absent, g[b] # Absent,
                    NEW x \in Members[a] \cap Members[b]
             PROVE  g[a][x] = g[b][x]
  BY DEF Agree
<1>1. CASE x = Secret
  BY <1>1, SchemaAssumption
<1>2. CASE x # Secret
  <2>1. a # Secret /\ b # Secret
    BY <1>2, SchemaAssumption
  <2> QED BY <2>1 DEF Agree
<1> QED BY <1>1, <1>2

\* What one collect() reads is in agreement.
LEMMA ReadingsTyped ==
  ASSUME hw \in [Drifting -> Reading]
  PROVE  Readings \in [Slots -> Readable] /\ Agree(Readings)
<1>1. \A x : Read(x) \in Reading
  BY DEF Read, Reading
<1>2. ASSUME NEW s \in Slots PROVE [x \in Members[s] |-> Read(x)] \in Readable
  <2>1. [x \in Members[s] |-> Read(x)] \in [Members[s] -> Reading]
    BY <1>1
  <2> QED BY <2>1, ValueTyped DEF Readable
<1>3. Readings \in [Slots -> Readable]
  BY <1>2 DEF Readings, Readable
<1>4. Agree(Readings)
  BY DEF Agree, Readings
<1> QED BY <1>3, <1>4

\* The helper of an earlier release is sound.
LEMMA LegacySound ==
  ASSUME NEW l \in Legacies, helper = LegacyHelper(l), slstore = 1, draws = 2, writes = 1,
         hw = [x \in Drifting |-> Steady]
  PROVE  HelperSound
<1> DEFINE f == [Readings EXCEPT ![Secret] = SecretValue(1)]
           g == projectFactors(f, legacyNorm)
<1>1. f \in [Slots -> Readable] /\ f[Secret] = SecretValue(1)
  <2>1. Readings \in [Slots -> Readable]
    BY ReadingsTyped DEF Reading
  <2> QED BY <2>1, SecretTyped
<1>2. ASSUME NEW s \in Slots PROVE f[s] # Absent
  <2>1. CASE s = Secret
    BY <2>1, <1>1, SecretTyped
  <2>2. CASE s # Secret
    <3>1. PICK x : x \in Members[s]
      <4>1. Members[s] # {}
        <5>1. Members[s] \in (SUBSET Sources) \ {{}}
          BY SchemaAssumption, Zenon
        <5> QED BY <5>1
      <4> QED BY <4>1
    <3>2. Read(x) # Absent
      BY DeviceAssumption DEF Read
    <3>3. Readings[s] = [y \in Members[s] |-> Read(y)]
      BY <2>2, <3>1, <3>2 DEF Readings
    <3>4. Readings[s] \in SlotValues
      <4>1. \A y : Read(y) \in Reading
        BY DEF Read, Reading
      <4>2. Readings[s] \in [Members[s] -> Reading]
        BY <3>3, <4>1
      <4> QED BY <4>2, ValueTyped
    <3> QED BY <2>2, <3>4, DeviceAssumption DEF Readings
  <2> QED BY <2>1, <2>2
<1> HIDE DEF f
<1>3. /\ \A s \in Schema[legacyNorm] : g[s] = f[s] /\ s \in Slots
      /\ Available(g) \subseteq Schema[legacyNorm] /\ g \in [Slots -> Readable]
  <2>1. legacyNorm \in {legacyNorm, currentNorm}
    OBVIOUS
  <2>2. g = projectFactors(f, legacyNorm)
    OBVIOUS
  <2> HIDE DEF g
  <2> QED BY <1>1, <2>1, <2>2, ProjectedTyped, Zenon
<1> HIDE DEF g
<1>4. Available(g) = Schema[legacyNorm]
  BY <1>2, <1>3 DEF Available
<1>5. helper.bound = Restricted(g)
  BY DEF LegacyHelper, f, g
<1>6. /\ Bound(helper) = Schema[legacyNorm]
      /\ \A s \in Bound(helper) : helper.bound[s] = f[s] /\ helper.bound[s] # Absent
  BY <1>2, <1>3, <1>4, <1>5 DEF Bound, Restricted
<1>7. /\ helper.norm = legacyNorm /\ helper.key = 2 /\ helper.id = 1
      /\ helper.mandatory = l.mandatory /\ helper.t = l.t
  BY DEF LegacyHelper
<1>8. ThresholdSound(helper)
  BY <1>6, <1>7, LegacyAssumption DEF ThresholdSound, legacyNorm, currentNorm
<1>9. helper.bound[Secret] = SecretValue(slstore)
  BY <1>1, <1>6, SchemaAssumption DEF legacyNorm
<1> QED BY <1>6, <1>7, <1>8, <1>9, LegacyAssumption DEF HelperSound, legacyNorm

\* The invariant holds initially.
LEMMA InitInv == Init => Inv
<1> SUFFICES ASSUME Init PROVE Inv
  OBVIOUS
<1>1. TypeOK
  <2>1. hw \in [Drifting -> Reading]
    BY DEF Init, Reading
  <2>2. commit \in [Apps -> [Callers -> {"idle", "entered", "done"}]]
    BY DEF Init
  <2>3. ses \in [Apps -> Sessions] /\ \A p \in Apps : ses[p].pc = "off"
    BY OffSession DEF Init
  <2> QED BY <2>1, <2>2, <2>3, DeviceAssumption DEF Init, TypeOK
<1>2. HelperSound
  BY LegacySound DEF Init, HelperSound
<1>3. ASSUME NEW p \in Apps PROVE SessionSound(p)
  BY OffSession DEF Init, SessionSound, PreparingSound, PreparedSound,
     CurrentSound, Current
<1> QED BY <1>1, <1>2, <1>3 DEF Inv

\* What one process may see another do: the store and the other sessions
\* change so that its own session stays sound.
LEMMA OthersSound ==
  ASSUME Inv, NEW p \in Apps, SessionSound(p), ses'[p] = ses[p],
         draws' \in Nat, draws' >= draws, writes' \in Nat, writes' >= writes,
         slstore' = slstore \/ slstore = 0,
         slstore' = slstore \/ ses[p].pc # "sharing",
         helper' = helper \/ (helper'.id = writes + 1 /\ ses[p].pc # "sharing")
  PROVE  SessionSound(p)'
<1> USE DEF Inv, TypeOK, SessionSound
<1>1. PreparingSound(p)'
  BY DEF PreparingSound, Enrolling
<1>2. PreparedSound(p)'
  BY DEF PreparedSound
<1>3. CurrentSound(p)'
  BY DEF CurrentSound, Current, PreparedSound, Bound, Guarded
<1> QED BY <1>1, <1>2, <1>3

\* Whatever the factors are, adding the store secret keeps them readings.
LEMMA FactorsTyped ==
  ASSUME TypeOK, NEW p \in Apps, NEW secret \in Nat
  PROVE  /\ Factors(p, secret) \in [Slots -> Readable]
         /\ Factors(p, secret)[Secret] = SecretValue(secret)
         /\ Agree(ses[p].factors) => Agree(Factors(p, secret))
<1>1. ses[p].factors \in [Slots -> Readable]
  BY DEF TypeOK, Sessions
<1>2. SecretValue(secret) \in Readable
  BY SecretTyped
<1> QED BY <1>1, <1>2, AgreeWithSecret DEF Factors

-------------------------------------------------------------------------------
(* Each action preserves the invariant. *)

\* A failed Prepare leaves a well-formed session behind.
LEMMA FailsTyped ==
  ASSUME TypeOK, NEW p \in Apps, NEW missing \in SUBSET Slots, Fails(p, missing)
  PROVE  /\ ses' \in [Apps -> Sessions] /\ ses'[p].pc = "failed"
         /\ \A q \in Apps : q # p => ses'[q] = ses[q]
<1>1. [Off EXCEPT !.pc = "failed", !.missing = missing] \in Sessions
  BY DEF Off, Sessions, Readable, ZeroKey
<1> QED BY <1>1 DEF TypeOK, Fails, Off

\* The helper stays sound while it stays and the counters only grow.
LEMMA SameHelperSound ==
  ASSUME HelperSound, helper' = helper, slstore' = slstore \/ slstore = 0,
         draws \in Nat, draws' \in Nat, draws' >= draws,
         writes \in Nat, writes' \in Nat, writes' >= writes
  PROVE  HelperSound'
<1>1. Bound(helper)' = Bound(helper)
  BY DEF Bound
<1> QED BY <1>1 DEF HelperSound, ThresholdSound, SecretValue

\* Collecting leaves the store alone and starts a sound Prepare.
LEMMA CollectInv ==
  ASSUME Inv, NEW p \in Apps, Collect(p)
  PROVE  Inv'
<1> USE DEF Collect, store
<1>1. PICK extra \in Wantable, force \in Forcing :
        ses' = [ses EXCEPT ![p] = [Off EXCEPT !.pc = "collected",
                 !.requested = mapMandatoryToCurrent(extra \cup {Secret}),
                 !.forced = force, !.factors = Readings]]
  OBVIOUS
<1> DEFINE new == [Off EXCEPT !.pc = "collected",
                 !.requested = mapMandatoryToCurrent(extra \cup {Secret}),
                 !.forced = force, !.factors = Readings]
<1>2. /\ new \in Sessions /\ new.pc = "collected"
      /\ Secret \in new.requested /\ new.requested \subseteq Schema[currentNorm]
      /\ Agree(new.factors)
  <2>1. Readings \in [Slots -> Readable] /\ Agree(Readings)
    BY ReadingsTyped DEF Inv, TypeOK
  <2>2. drifts \in Nat /\ force \in BOOLEAN /\ extra \subseteq Slots
    BY DeviceAssumption DEF Inv, TypeOK
  <2>3. /\ mapMandatoryToCurrent(extra \cup {Secret}) \in SUBSET Slots
        /\ mapMandatoryToCurrent(extra \cup {Secret}) \subseteq Schema[currentNorm]
        /\ Secret \in mapMandatoryToCurrent(extra \cup {Secret})
    BY <2>2, SchemaAssumption DEF mapMandatoryToCurrent, currentNorm
  <2> QED BY <2>1, <2>2, <2>3 DEF Off, Sessions, ZeroKey
<1> HIDE DEF new
<1>3. ses' = [ses EXCEPT ![p] = new]
  BY <1>1 DEF new
<1>4. TypeOK'
  BY <1>2, <1>3 DEF Inv, TypeOK
<1>5. HelperSound'
  BY SameHelperSound DEF Inv, TypeOK
<1>6. ASSUME NEW q \in Apps PROVE SessionSound(q)'
  <2>1. CASE q = p
    BY <2>1, <1>2, <1>3 DEF Inv, TypeOK, SessionSound, PreparingSound,
       PreparedSound, CurrentSound, Current
  <2>2. CASE q # p
    <3>1. ses'[q] = ses[q]
      BY <2>2, <1>3 DEF Inv, TypeOK
    <3> QED BY <3>1, OthersSound DEF Inv, TypeOK
  <2> QED BY <2>1, <2>2
<1> QED BY <1>4, <1>5, <1>6 DEF Inv

\* A process that ends takes its session and its lock with it.
LEMMA ExitInv ==
  ASSUME Inv, NEW p \in Apps, Exit(p)
  PROVE  Inv'
<1> USE DEF Exit, store, env
<1>1. TypeOK'
  BY OffSession, DeviceAssumption DEF Inv, TypeOK
<1>2. HelperSound'
  BY SameHelperSound DEF Inv, TypeOK
<1>3. ASSUME NEW q \in Apps PROVE SessionSound(q)'
  <2>1. CASE q = p
    BY <2>1, OffSession DEF Inv, TypeOK, SessionSound, PreparingSound,
       PreparedSound, CurrentSound, Current
  <2>2. CASE q # p
    <3>1. ses'[q] = ses[q]
      BY <2>2 DEF Inv, TypeOK
    <3> QED BY <3>1, OthersSound DEF Inv, TypeOK
  <2> QED BY <2>1, <2>2
<1> QED BY <1>1, <1>2, <1>3 DEF Inv

\* The hardware is none of the invariant's business.
LEMMA DriftInv ==
  ASSUME Inv, NEW x \in Drifting, Drift(x)
  PROVE  Inv'
<1> USE DEF Drift, store
<1>1. TypeOK'
  BY DEF Inv, TypeOK, Reading
<1>2. HelperSound'
  BY SameHelperSound DEF Inv, TypeOK
<1>3. ASSUME NEW q \in Apps PROVE SessionSound(q)'
  BY OthersSound DEF Inv, TypeOK
<1> QED BY <1>1, <1>2, <1>3 DEF Inv

\* Within Commit only the key and the committed flag of a session change.
LEMMA SameButKey ==
  ASSUME NEW s \in Sessions, NEW r, r \in {Wiped(s), [s EXCEPT !.committed = TRUE]}
  PROVE  /\ r \in Sessions /\ r.pc = s.pc /\ r.requested = s.requested
         /\ r.factors = s.factors /\ r.mandatory = s.mandatory
         /\ r.hwid = s.hwid /\ r.expected = s.expected /\ r.forced = s.forced
<1>1. CASE r = Wiped(s)
  BY <1>1 DEF Sessions, Wiped, ZeroKey
<1>2. CASE r = [s EXCEPT !.committed = TRUE]
  BY <1>2 DEF Sessions
<1> QED BY <1>1, <1>2

\* The session of a process in Commit stays sound as long as the helper stays.
LEMMA CommittingSound ==
  ASSUME Inv, NEW p \in Apps, NEW r, r \in {Wiped(ses[p]), [ses[p] EXCEPT !.committed = TRUE]},
         ses' = [ses EXCEPT ![p] = r], UNCHANGED <<slstore, draws>>,
         writes' \in Nat, writes' >= writes, ses[p].pc = "prepared",
         helper' = helper \/ helper'.id = writes + 1
  PROVE  /\ ses' \in [Apps -> Sessions]
         /\ \A q \in Apps : ses'[q].pc = ses[q].pc
         /\ \A q \in Apps : q # p => ses'[q] = ses[q]
         /\ SessionSound(p)'
<1>1. ses[p] \in Sessions /\ ses \in [Apps -> Sessions] /\ ses'[p] = r
  BY DEF Inv, TypeOK
<1>2. /\ r \in Sessions /\ r.pc = ses[p].pc /\ r.requested = ses[p].requested
      /\ r.factors = ses[p].factors /\ r.mandatory = ses[p].mandatory
      /\ r.hwid = ses[p].hwid /\ r.expected = ses[p].expected
  BY <1>1, SameButKey
<1>3. PreparingSound(p)' /\ PreparedSound(p)'
  BY <1>1, <1>2 DEF Inv, TypeOK, SessionSound, PreparingSound, PreparedSound
<1>4. CurrentSound(p)'
  BY <1>1, <1>2 DEF Inv, TypeOK, SessionSound, CurrentSound, Current, PreparedSound, Bound,
     Guarded
<1> QED BY <1>1, <1>2, <1>3, <1>4 DEF SessionSound

\* Entering Commit changes neither the store nor what was prepared.
LEMMA CommitEnterInv ==
  ASSUME Inv, NEW p \in Apps, NEW c \in Callers, CommitEnter(p, c)
  PROVE  Inv'
<1> USE DEF store, env
<1>1. PICK r \in {Wiped(ses[p]), [ses[p] EXCEPT !.committed = TRUE]} :
        ses' = [ses EXCEPT ![p] = r]
  BY DEF CommitEnter
<1>2. /\ UNCHANGED <<slstore, draws, writes, helper, lock, hw, drifts, launches>>
      /\ ses[p].pc = "prepared" /\ writes \in Nat
  BY DEF CommitEnter, Inv, TypeOK
<1>3. PICK label \in {"entered", "done"} : commit' = [commit EXCEPT ![p][c] = label]
  BY DEF CommitEnter
<1>4. /\ ses' \in [Apps -> Sessions]
      /\ \A q \in Apps : ses'[q].pc = ses[q].pc
      /\ \A q \in Apps : q # p => ses'[q] = ses[q]
      /\ SessionSound(p)'
  <2>1. /\ UNCHANGED <<slstore, draws>> /\ helper' = helper
        /\ writes' \in Nat /\ writes' >= writes
    BY <1>2
  <2> QED BY <1>1, <1>2, <2>1, CommittingSound
<1>5. TypeOK'
  BY <1>2, <1>3, <1>4 DEF Inv, TypeOK
<1>6. HelperSound'
  BY <1>2, SameHelperSound DEF Inv, TypeOK
<1>7. ASSUME NEW q \in Apps, q # p PROVE SessionSound(q)'
  BY <1>2, <1>4, <1>7, OthersSound DEF Inv, TypeOK
<1> QED BY <1>4, <1>5, <1>6, <1>7 DEF Inv

\* A helper dealt to hard locks with the store secret among them is sound.
LEMMA DealtSound ==
  ASSUME NEW k \in 1..draws', NEW f \in [Slots -> Readable], NEW m \in SUBSET Slots,
         Dealable(projectFactors(f, currentNorm), m), Secret \in m,
         helper' = Dealt(k, projectFactors(f, currentNorm), m),
         writes' = writes + 1, writes \in Nat,
         slstore' # 0, f[Secret] = SecretValue(slstore')
  PROVE  HelperSound'
<1> DEFINE g == projectFactors(f, currentNorm)
<1>1. /\ Bound(helper') = Available(g) /\ Bound(helper') \subseteq Schema[currentNorm]
      /\ helper'.norm = currentNorm /\ helper'.mandatory = m
      /\ helper'.key = k /\ helper'.id = writes + 1
      /\ helper'.t = threshold(Cardinality(Bound(helper')), Cardinality(m))
      /\ \A s \in Bound(helper') : helper'.bound[s] = f[s] /\ helper'.bound[s] # Absent
  BY DealtWell
<1>2. /\ m \subseteq Available(g)
      /\ thresholdDefined(Cardinality(Available(g)), Cardinality(m))
  BY DEF Dealable
<1> HIDE DEF g
<1>3. helper'.id \in 1..writes'
  BY <1>1
<1>4. helper'.bound[Secret] = SecretValue(slstore')
  BY <1>1, <1>2
<1>5. ThresholdSound(helper)'
  BY <1>1, <1>2 DEF ThresholdSound, Bound
<1> QED BY <1>1, <1>2, <1>3, <1>4, <1>5 DEF HelperSound, Bound

\* A refresh deals the key of the stored helper, to its hard locks and more.
LEMMA CommitRefreshInv ==
  ASSUME Inv, \A p \in Apps : CommitSound(p),
         NEW p \in Apps, NEW c \in Callers, CommitRefresh(p, c)
  PROVE  Inv'
<1> USE DEF store, env
<1> DEFINE f == projectFactors(ses[p].factors, currentNorm)
<1>1. ses' = [ses EXCEPT ![p] = Wiped(ses[p])] /\ ses[p].pc = "prepared"
      /\ ses[p].k = ses[p].hwid
  BY DEF CommitRefresh, CommitSound, Inv, TypeOK
<1>2. UNCHANGED <<slstore, draws, lock, hw, drifts, launches>> /\ lock = NoApp
  BY DEF CommitRefresh, LockFree
<1>3. commit' = [commit EXCEPT ![p][c] = "done"]
  BY DEF CommitRefresh
<1>4. \/ UNCHANGED <<helper, writes>>
      \/ /\ Expected(p) /\ Dealable(f, ses[p].mandatory)
         /\ helper' = Dealt(ses[p].k, f, ses[p].mandatory)
         /\ writes' = writes + 1
  BY DEF CommitRefresh
<1>5. /\ writes' \in Nat /\ writes' >= writes
      /\ helper' = helper \/ helper'.id = writes + 1
  BY <1>4 DEF Inv, TypeOK, Dealt
<1>6. /\ ses' \in [Apps -> Sessions]
      /\ \A q \in Apps : ses'[q].pc = ses[q].pc
      /\ \A q \in Apps : q # p => ses'[q] = ses[q]
      /\ SessionSound(p)'
  BY <1>1, <1>2, <1>5, CommittingSound
<1>7. TypeOK'
  BY <1>2, <1>3, <1>5, <1>6 DEF Inv, TypeOK
<1>8. HelperSound'
  <2>1. CASE UNCHANGED <<helper, writes>>
    BY <2>1, <1>2, SameHelperSound DEF Inv, TypeOK
  <2>2. CASE /\ Expected(p) /\ Dealable(f, ses[p].mandatory)
             /\ helper' = Dealt(ses[p].k, f, ses[p].mandatory)
             /\ writes' = writes + 1
    <3>1. Current(p) /\ helper # NoHelper
      BY <2>2, <1>1 DEF Current, Expected
    <3>2. /\ Secret \in ses[p].mandatory /\ Secret \in Bound(helper)
          /\ ses[p].factors[Secret] = helper.bound[Secret]
          /\ helper.bound[Secret] = SecretValue(slstore) /\ slstore # 0
      BY <3>1, <1>1 DEF Inv, SessionSound, PreparedSound, CurrentSound, HelperSound, Guarded
    <3>3. ses[p].k \in 1..draws'
      BY <1>1, <1>2 DEF Inv, SessionSound, PreparedSound
    <3>4. /\ ses[p].factors \in [Slots -> Readable]
          /\ ses[p].mandatory \in SUBSET Slots /\ writes \in Nat
      BY DEF Inv, TypeOK, Sessions
    <3>5. ses[p].factors[Secret] = SecretValue(slstore')
      BY <1>2, <3>2 DEF SecretValue
    <3> QED BY <2>2, <1>2, <3>2, <3>3, <3>4, <3>5, DealtSound
  <2> QED BY <1>4, <2>1, <2>2
<1>9. ASSUME NEW q \in Apps, q # p PROVE SessionSound(q)'
  <2>1. ses[q].pc # "sharing"
    BY <1>2, DeviceAssumption DEF Inv, TypeOK
  <2> QED BY <1>2, <1>5, <1>6, <1>9, <2>1, OthersSound DEF Inv, TypeOK
<1> QED BY <1>6, <1>7, <1>8, <1>9 DEF Inv

\* The store secret is created only when no session knows another.
LEMMA EnrollSecretInv ==
  ASSUME Inv, NEW p \in Apps, EnrollSecret(p)
  PROVE  Inv'
<1> USE DEF env
<1>1. /\ ses[p].pc = "collected" /\ lock = NoApp /\ Enrolling(p)
      /\ UNCHANGED <<helper, writes, hw, drifts, launches, commit>>
      /\ \A q \in Apps : ses[q].pc # "sharing"
  BY DeviceAssumption DEF EnrollSecret, LockFree, Inv, TypeOK
<1>2. \/ /\ slstore' \in Nat /\ slstore' # 0 /\ lock' = p
         /\ Shares(p, slstore')
      \/ Fails(p, {}) /\ lock' = lock
  BY DEF EnrollSecret, SecretKnown, Inv, TypeOK
<1>3. /\ draws' \in Nat /\ draws' >= draws /\ slstore' \in Nat
      /\ slstore' = slstore \/ slstore = 0
  BY DEF EnrollSecret, SecretKnown, Inv, TypeOK
<1>4. /\ ses' \in [Apps -> Sessions]
      /\ \A q \in Apps : q # p => ses'[q] = ses[q]
      /\ \/ ses'[p].pc = "sharing" /\ lock' = p
         \/ ses'[p].pc = "failed" /\ lock' = NoApp
      /\ SessionSound(p)'
  <2>1. CASE Fails(p, {}) /\ lock' = lock
    <3>1. /\ ses' \in [Apps -> Sessions] /\ ses'[p].pc = "failed"
          /\ \A q \in Apps : q # p => ses'[q] = ses[q]
      BY <2>1, FailsTyped DEF Inv
    <3> QED BY <1>1, <2>1, <3>1 DEF SessionSound, PreparingSound, PreparedSound,
           CurrentSound, Current
  <2>2. CASE /\ slstore' \in Nat /\ slstore' # 0 /\ lock' = p
             /\ Shares(p, slstore')
    <3>1. /\ Factors(p, slstore') \in [Slots -> Readable]
          /\ Factors(p, slstore')[Secret] = SecretValue(slstore') /\ Agree(Factors(p, slstore'))
      <4>1. Agree(ses[p].factors)
        BY <1>1 DEF Inv, SessionSound, PreparingSound
      <4> QED BY <2>2, <4>1, FactorsTyped DEF Inv, SecretValue
    <3> DEFINE f == Factors(p, slstore')
               r == [ses[p] EXCEPT !.pc = "sharing", !.factors = f]
    <3> HIDE DEF f
    <3>2. /\ r \in Sessions /\ r.pc = "sharing" /\ r.factors = f
          /\ r.requested = ses[p].requested /\ r.forced = ses[p].forced
      <4>1. ses[p] \in Sessions /\ f \in [Slots -> Readable]
        BY <3>1 DEF Inv, TypeOK, f
      <4> QED BY <4>1 DEF Sessions
    <3>3. ses' = [ses EXCEPT ![p] = r]
      BY <2>2 DEF Shares, f
    <3> HIDE DEF r
    <3>4. /\ ses' \in [Apps -> Sessions] /\ ses'[p] = r
          /\ \A q \in Apps : q # p => ses'[q] = ses[q]
      BY <3>2, <3>3 DEF Inv, TypeOK
    <3>5. SessionSound(p)'
      BY <1>1, <2>2, <3>1, <3>2, <3>4 DEF f, Inv, SessionSound, PreparingSound,
         PreparedSound, CurrentSound, Current, Enrolling
    <3> QED BY <2>2, <3>2, <3>4, <3>5
  <2> QED BY <1>2, <2>1, <2>2
<1>5. TypeOK'
  BY <1>1, <1>3, <1>4 DEF Inv, TypeOK
<1>6. HelperSound'
  BY <1>1, <1>3, SameHelperSound DEF Inv, TypeOK
<1>7. ASSUME NEW q \in Apps, q # p PROVE SessionSound(q)'
  <2>1. writes \in Nat /\ SessionSound(q)
    BY DEF Inv, TypeOK
  <2> QED BY <1>1, <1>3, <1>4, <1>7, <2>1, OthersSound
<1> QED BY <1>4, <1>5, <1>6, <1>7 DEF Inv

\* An enrolment stores a sound helper and prepares a session that agrees with it.
LEMMA EnrollHelperInv ==
  ASSUME Inv, NEW p \in Apps, EnrollHelper(p)
  PROVE  Inv'
<1> USE DEF env
<1> DEFINE s == ses[p]
           f == projectFactors(s.factors, currentNorm)
<1>1. /\ s.pc = "sharing" /\ lock = p /\ lock' = NoApp
      /\ UNCHANGED <<slstore, hw, drifts, launches, commit>>
      /\ \A q \in Apps : q # p => ses[q].pc # "sharing"
      /\ s \in Sessions /\ draws \in Nat /\ writes \in Nat
  BY DEF EnrollHelper, Inv, TypeOK
<1>2. /\ Secret \in s.requested /\ slstore # 0 /\ s.factors[Secret] = SecretValue(slstore)
      /\ Agree(s.factors)
  BY <1>1 DEF Inv, SessionSound, PreparingSound
<1>3. /\ draws' \in Nat /\ draws' >= draws
      /\ \/ UNCHANGED <<helper, writes>>
         \/ /\ helper' = Dealt(draws', f, s.requested)
            /\ writes' = writes + 1 /\ draws' = draws + 1
            /\ Dealable(f, s.requested)
  BY <1>1 DEF EnrollHelper
<1>4. \/ \E missing \in SUBSET Slots : Fails(p, missing)
      \/ /\ ses' = [ses EXCEPT ![p] = [@ EXCEPT !.pc = "prepared",
               !.hwid = draws', !.k = draws',
               !.mandatory = s.requested, !.expected = writes']]
         /\ helper' = Dealt(draws', f, s.requested)
         /\ writes' = writes + 1 /\ draws' = draws + 1
         /\ Dealable(f, s.requested)
  <2>1. s.requested \ Available(f) \in SUBSET Slots /\ {} \in SUBSET Slots
    BY <1>1 DEF Sessions
  <2> QED BY <2>1 DEF EnrollHelper, WriteOutcomes
<1>5. /\ writes' \in Nat /\ writes' >= writes
      /\ helper' = helper \/ helper'.id = writes + 1
  BY <1>1, <1>3 DEF Dealt
<1>6. HelperSound'
  <2>1. CASE UNCHANGED <<helper, writes>>
    BY <1>1, <1>3, <2>1, SameHelperSound DEF Inv
  <2>2. CASE /\ helper' = Dealt(draws', f, s.requested)
             /\ writes' = writes + 1 /\ draws' = draws + 1
             /\ Dealable(f, s.requested)
    <3>1. /\ draws' \in 1..draws' /\ s.factors \in [Slots -> Readable]
          /\ s.requested \in SUBSET Slots
      BY <1>1, <2>2 DEF Sessions
    <3>2. s.factors[Secret] = SecretValue(slstore')
      BY <1>1, <1>2 DEF SecretValue
    <3> QED BY <1>1, <1>2, <2>2, <3>1, <3>2, DealtSound
  <2> QED BY <1>3, <2>1, <2>2
<1>7. /\ ses' \in [Apps -> Sessions] /\ ses'[p].pc # "sharing"
      /\ \A q \in Apps : q # p => ses'[q] = ses[q]
      /\ SessionSound(p)'
  <2>1. CASE \E missing \in SUBSET Slots : Fails(p, missing)
    <3>1. /\ ses' \in [Apps -> Sessions] /\ ses'[p].pc = "failed"
          /\ \A q \in Apps : q # p => ses'[q] = ses[q]
      BY <2>1, FailsTyped DEF Inv
    <3> QED BY <3>1 DEF SessionSound, PreparingSound, PreparedSound,
           CurrentSound, Current
  <2>2. CASE /\ ses' = [ses EXCEPT ![p] = [@ EXCEPT !.pc = "prepared",
                  !.hwid = draws', !.k = draws',
                  !.mandatory = s.requested, !.expected = writes']]
             /\ helper' = Dealt(draws', f, s.requested)
             /\ writes' = writes + 1 /\ draws' = draws + 1
             /\ Dealable(f, s.requested)
    <3> DEFINE r == [s EXCEPT !.pc = "prepared", !.hwid = draws', !.k = draws',
                       !.mandatory = s.requested, !.expected = writes']
    <3>1. /\ r \in Sessions /\ r.pc = "prepared" /\ r.hwid = draws'
          /\ r.mandatory = s.requested /\ r.expected = writes'
          /\ r.factors = s.factors
      BY <1>1, <1>3, <1>5 DEF Sessions
    <3>2. ses' = [ses EXCEPT ![p] = r]
      BY <2>2
    <3> HIDE DEF r
    <3>3. /\ ses' \in [Apps -> Sessions] /\ ses'[p] = r
          /\ \A q \in Apps : q # p => ses'[q] = ses[q]
      BY <3>1, <3>2 DEF Inv, TypeOK
    <3>4. /\ helper'.key = draws' /\ helper'.mandatory = s.requested
          /\ \A m \in Bound(helper') : helper'.bound[m] = s.factors[m]
      <4>1. s.factors \in [Slots -> Readable]
        BY <1>1 DEF Sessions
      <4> QED BY <2>2, <4>1, DealtWell
    <3>5. PreparedSound(p)' /\ PreparingSound(p)'
      BY <1>1, <1>2, <2>2, <3>1, <3>3 DEF PreparedSound, PreparingSound
    <3>6. mapMandatoryToCurrent(helper'.mandatory) = helper'.mandatory
      <4>1. s.requested \subseteq Schema[currentNorm]
        BY <1>1 DEF Inv, SessionSound, PreparingSound
      <4> QED BY <3>4, <4>1, SchemaAssumption DEF mapMandatoryToCurrent
    <3>7. CurrentSound(p)'
      BY <3>1, <3>3, <3>4, <3>6 DEF CurrentSound, Bound
    <3> QED BY <3>1, <3>3, <3>5, <3>7 DEF SessionSound
  <2> QED BY <1>4, <2>1, <2>2
<1>8. TypeOK'
  BY DeviceAssumption, <1>1, <1>3, <1>5, <1>7 DEF Inv, TypeOK
<1>9. ASSUME NEW q \in Apps, q # p PROVE SessionSound(q)'
  <2>1. SessionSound(q)
    BY DEF Inv
  <2> QED BY <1>1, <1>3, <1>5, <1>7, <1>9, <2>1, OthersSound
<1> QED BY <1>6, <1>7, <1>8, <1>9 DEF Inv

\* The slots that a failing recovery names are slots.
LEMMA BlamedTyped ==
  ASSUME Inv, helper # NoHelper, NEW f
  PROVE  Blamed(helper, f) \in SUBSET Slots
BY SchemaAssumption DEF Inv, HelperSound, Blamed, MissingMandatory, Culprits, legacyNorm, currentNorm

\* A session prepared by recovery agrees with the helper it came from.
LEMMA RecoveredAgrees ==
  ASSUME Inv, helper # NoHelper, NEW f \in [Slots -> Readable], NEW wanted, NEW factors,
         Recovers(helper, projectFactors(f, helper.norm)),
         Unpromotable(wanted, projectFactors(f, helper.norm), factors) = {}
  PROVE  \A b \in Bound(helper) :
           Guarded(b, mapMandatoryToCurrent(helper.mandatory) \cup wanted) =>
             f[b] = helper.bound[b]
<1> DEFINE r == projectFactors(f, helper.norm)
<1>1. /\ helper.mandatory \subseteq Bound(helper) /\ helper.norm \in {legacyNorm, currentNorm}
      /\ Bound(helper) \subseteq Schema[helper.norm]
  BY DEF Inv, HelperSound
<1>2. \A b \in Bound(helper) : r[b] = f[b]
  BY <1>1, ProjectedTyped
<1> HIDE DEF r
<1>3. \A b \in helper.mandatory : r[b] = helper.bound[b]
  BY <1>1, RecoveryHardLocked DEF r
<1>4. ASSUME NEW b \in Bound(helper), CurrentName[b] \in wanted
      PROVE  r[b] = helper.bound[b]
  <2>1. CurrentName[b] \notin mapMandatoryToCurrent(Dead(helper, r))
    BY <1>4 DEF Unpromotable, r
  <2> QED BY <2>1, AliveIsBound DEF mapMandatoryToCurrent
<1> QED BY <1>1, <1>2, <1>3, <1>4 DEF Guarded

\* A recovery prepares a session that agrees with the stored helper.
LEMMA PrepareRecoverInv ==
  ASSUME Inv, NEW p \in Apps, PrepareRecover(p)
  PROVE  Inv'
<1> USE DEF env, store
<1> DEFINE f == Factors(p, slstore)
           recovery == projectFactors(f, helper.norm)
           factors  == projectFactors(f, currentNorm)
           stored == mapMandatoryToCurrent(helper.mandatory)
           wanted == ses[p].requested \ stored
           mandatory == stored \cup wanted
           r == [ses[p] EXCEPT !.pc = "prepared", !.factors = f,
                   !.hwid = helper.key, !.k = helper.key,
                   !.mandatory = mandatory, !.expected = helper.id]
<1>1. /\ ses[p].pc = "collected" /\ helper # NoHelper /\ lock # p
      /\ UNCHANGED <<slstore, helper, draws, writes, lock, hw, drifts, launches, commit>>
      /\ ses[p] \in Sessions /\ draws \in Nat /\ writes \in Nat /\ slstore \in Nat
  BY DEF PrepareRecover, Enrolling, Inv, TypeOK
<1>2. \/ \E missing \in SUBSET Slots : Fails(p, missing)
      \/ /\ Recovers(helper, recovery) /\ Unpromotable(wanted, recovery, factors) = {}
         /\ Opens(p, f, mandatory)
  <2>1. /\ Blamed(helper, recovery) \in SUBSET Slots /\ {} \in SUBSET Slots
        /\ Unpromotable(wanted, recovery, factors) \in SUBSET Slots
    <3>1. Unpromotable(wanted, recovery, factors) \in SUBSET Slots
      BY <1>1 DEF Unpromotable, Sessions
    <3>2. Blamed(helper, recovery) \in SUBSET Slots
      BY <1>1, BlamedTyped
    <3> QED BY <3>1, <3>2
  <2> QED BY <2>1 DEF PrepareRecover
<1>3. HelperSound'
  BY <1>1, SameHelperSound DEF Inv
<1>4. /\ ses' \in [Apps -> Sessions] /\ ses'[p].pc # "sharing"
      /\ \A q \in Apps : q # p => ses'[q] = ses[q]
      /\ SessionSound(p)'
  <2>1. CASE \E missing \in SUBSET Slots : Fails(p, missing)
    <3>1. /\ ses' \in [Apps -> Sessions] /\ ses'[p].pc = "failed"
          /\ \A q \in Apps : q # p => ses'[q] = ses[q]
      BY <2>1, FailsTyped DEF Inv
    <3> QED BY <3>1 DEF SessionSound, PreparingSound, PreparedSound,
           CurrentSound, Current
  <2>2. CASE /\ Recovers(helper, recovery) /\ Unpromotable(wanted, recovery, factors) = {}
             /\ Opens(p, f, mandatory)
    <3>1. f \in [Slots -> Readable] /\ wanted \in SUBSET Slots /\ Agree(f)
      <4>1. Agree(ses[p].factors)
        BY <1>1 DEF Inv, SessionSound, PreparingSound
      <4> QED BY <1>1, <4>1, FactorsTyped DEF Inv, Sessions
    <3>2. /\ helper.key \in 1..draws /\ helper.id \in 1..writes
          /\ Secret \in mandatory /\ mandatory \in SUBSET Slots
      <4>1. /\ helper.key \in 1..draws /\ helper.id \in 1..writes
            /\ helper.mandatory \subseteq Slots /\ Secret \in helper.mandatory
        BY <1>1, SchemaAssumption DEF Inv, HelperSound, legacyNorm, currentNorm
      <4>2. Secret \in stored /\ stored \subseteq Slots
        BY <4>1, SchemaAssumption DEF mapMandatoryToCurrent, legacyNorm, currentNorm
      <4> QED BY <3>1, <4>1, <4>2
    <3>3. \A b \in Bound(helper) : Guarded(b, mandatory) => f[b] = helper.bound[b]
      BY <1>1, <2>2, <3>1, RecoveredAgrees
    <3>4. stored \subseteq mandatory
      OBVIOUS
    <3> HIDE DEF f, mandatory, wanted
    <3>5. helper.key \in Nat /\ helper.id \in Nat
      BY <1>1, <3>2
    <3>6. /\ r \in Sessions /\ r.pc = "prepared" /\ r.factors = f
          /\ r.hwid = helper.key /\ r.mandatory = mandatory
          /\ r.expected = helper.id
      BY <1>1, <3>1, <3>2, <3>5 DEF Sessions
    <3>7. ses' = [ses EXCEPT ![p] = r]
      BY <2>2 DEF Opens
    <3> HIDE DEF r
    <3>8. /\ ses' \in [Apps -> Sessions] /\ ses'[p] = r
          /\ \A q \in Apps : q # p => ses'[q] = ses[q]
      BY <3>6, <3>7 DEF Inv, TypeOK
    <3>9. PreparingSound(p)' /\ PreparedSound(p)'
      BY <1>1, <3>1, <3>2, <3>6, <3>8 DEF PreparingSound, PreparedSound
    <3>10. CurrentSound(p)'
      BY <1>1, <3>3, <3>4, <3>6, <3>8 DEF CurrentSound, Bound, Guarded
    <3> QED BY <3>6, <3>8, <3>9, <3>10 DEF SessionSound
  <2> QED BY <1>2, <2>1, <2>2
<1>5. TypeOK'
  BY <1>1, <1>4 DEF Inv, TypeOK
<1>6. ASSUME NEW q \in Apps, q # p PROVE SessionSound(q)'
  <2>1. SessionSound(q)
    BY DEF Inv
  <2> QED BY <1>1, <1>4, <1>6, <2>1, OthersSound
<1> QED BY <1>3, <1>4, <1>5, <1>6 DEF Inv

-------------------------------------------------------------------------------
(* One thread at a time. *)

OneAtATime == Overlapping = FALSE

Committing == \A p \in Apps : CommitSound(p)

\* A step outside Commit leaves it undisturbed.
LEMMA QuietStep ==
  ASSUME NEW p \in Apps, CommitSound(p), commit' = commit,
         \/ ses'[p] = ses[p]
         \/ /\ ses[p].pc # "prepared"
            /\ ses'[p].pc # "prepared" \/ ses'[p].k = ses'[p].hwid
  PROVE  CommitSound(p)'
BY DEF CommitSound

\* With one thread at a time inside Commit its key is there until it is done.
LEMMA CommitStep ==
  ASSUME OneAtATime, Inv, Committing, [Next]_vars
  PROVE  Committing'
<1> SUFFICES ASSUME NEW p \in Apps PROVE CommitSound(p)'
  BY DEF Committing
<1> USE DEF Committing, CommitSound
<1>0. /\ ses \in [Apps -> Sessions] /\ CommitSound(p)
      /\ commit \in [Apps -> [Callers -> {"idle", "entered", "done"}]]
  BY DEF Inv, TypeOK
<1>1. ASSUME NEW q \in Apps, Collect(q) PROVE CommitSound(p)'
  <2>1. commit' = commit /\ (p # q => ses'[p] = ses[p]) /\ ses[q].pc # "prepared"
    BY <1>0, <1>1 DEF Collect
  <2>2. ses'[q].pc = "collected"
    BY <1>0, <1>1 DEF Collect, Off
  <2> QED BY ONLY <1>0, <2>1, <2>2, QuietStep, p \in Apps, q \in Apps
<1>2. ASSUME NEW q \in Apps, EnrollSecret(q) PROVE CommitSound(p)'
  <2>1. commit' = commit /\ ses[q].pc # "prepared" /\ ses[q] \in Sessions
    BY <1>0, <1>2 DEF EnrollSecret
  <2>2. CASE Fails(q, {})
    BY <1>0, <2>1, <2>2, QuietStep, FailsTyped DEF Inv
  <2>3. CASE \E secret \in Nat : Shares(q, secret)
    <3>1. (p # q => ses'[p] = ses[p]) /\ ses'[q].pc = "sharing"
      BY <1>0, <2>1, <2>3 DEF Shares, Sessions
    <3> QED BY ONLY <1>0, <2>1, <3>1, QuietStep, p \in Apps, q \in Apps
  <2>4. slstore \in Nat /\ draws' \in Nat
    BY <1>2 DEF EnrollSecret, Inv, TypeOK
  <2> QED BY <1>2, <2>2, <2>3, <2>4 DEF EnrollSecret
<1>3. ASSUME NEW q \in Apps, EnrollHelper(q) PROVE CommitSound(p)'
  <2>1. commit' = commit /\ ses[q].pc # "prepared" /\ ses[q] \in Sessions
    BY <1>0, <1>3 DEF EnrollHelper
  <2>2. CASE \E missing \in SUBSET Slots : Fails(q, missing)
    BY <1>0, <2>1, <2>2, QuietStep, FailsTyped DEF Inv
  <2>3. CASE ses' = [ses EXCEPT ![q] = [@ EXCEPT !.pc = "prepared",
               !.hwid = draws', !.k = draws', !.mandatory = ses[q].requested,
               !.expected = writes']]
    <3>1. (p # q => ses'[p] = ses[p]) /\ ses'[q].k = ses'[q].hwid
      BY <1>0, <2>1, <2>3 DEF Sessions
    <3> QED BY ONLY <1>0, <2>1, <3>1, QuietStep, p \in Apps, q \in Apps
  <2>4. \A f : ses[q].requested \ Available(f) \in SUBSET Slots
    BY <2>1 DEF Sessions
  <2> QED BY <1>3, <2>2, <2>3, <2>4 DEF EnrollHelper, WriteOutcomes
<1>4. ASSUME NEW q \in Apps, PrepareRecover(q) PROVE CommitSound(p)'
  <2>1. /\ commit' = commit /\ ses[q].pc # "prepared" /\ ses[q] \in Sessions
        /\ helper # NoHelper
    BY <1>0, <1>4 DEF PrepareRecover, Enrolling
  <2>2. CASE \E missing \in SUBSET Slots : Fails(q, missing)
    BY <1>0, <2>1, <2>2, QuietStep, FailsTyped DEF Inv
  <2>3. CASE \E f, mandatory : Opens(q, f, mandatory)
    <3>1. (p # q => ses'[p] = ses[p]) /\ ses'[q].k = ses'[q].hwid
      BY <1>0, <2>1, <2>3 DEF Opens, Sessions
    <3> QED BY ONLY <1>0, <2>1, <3>1, QuietStep, p \in Apps, q \in Apps
  <2>4. /\ \A f : Blamed(helper, f) \in SUBSET Slots
        /\ \A wanted, recovery, factors : wanted \subseteq ses[q].requested
             => Unpromotable(wanted, recovery, factors) \in SUBSET Slots
    BY <2>1, BlamedTyped DEF Sessions, Unpromotable
  <2> QED BY <1>4, <2>2, <2>3, <2>4 DEF PrepareRecover
<1>5. ASSUME NEW q \in Apps, Exit(q) PROVE CommitSound(p)'
  <2>1. p # q => ses'[p] = ses[p] /\ commit'[p] = commit[p]
    BY <1>0, <1>5 DEF Exit
  <2>2. ses'[q].pc = "off" /\ \A c \in Callers : commit'[q][c] = "idle"
    BY <1>0, <1>5, OffSession DEF Exit
  <2> QED BY <1>0, <2>1, <2>2
<1>6. ASSUME NEW q \in Apps, NEW c \in Callers, CommitEnter(q, c)
      PROVE  CommitSound(p)'
  <2>1. CASE q # p
    BY <1>0, <1>6, <2>1 DEF CommitEnter
  <2>2. CASE q = p
    <3>0. \A d \in Callers : commit[p][d] # "entered"
      BY <1>6, <2>2 DEF CommitEnter, OneAtATime
    <3>1. CASE ses[p].committed \/ ses[p].k = ZeroKey
      <4>1. \A d \in Callers : commit'[p][d] # "entered"
        BY <1>0, <1>6, <2>2, <3>0, <3>1 DEF CommitEnter
      <4>2. ses' = [ses EXCEPT ![p] = Wiped(ses[p])]
        BY <1>6, <2>2, <3>1 DEF CommitEnter
      <4>3. ses'[p].k = ZeroKey
        BY <1>0, <4>2 DEF Wiped, Sessions
      <4> QED BY <4>1, <4>3
    <3>2. CASE ~(ses[p].committed \/ ses[p].k = ZeroKey)
      <4>1. /\ ses' = [ses EXCEPT ![p].committed = TRUE]
            /\ commit' = [commit EXCEPT ![p][c] = "entered"]
            /\ ses[p].pc = "prepared" /\ ses[p].k # ZeroKey
        BY <1>6, <2>2, <3>2 DEF CommitEnter
      <4>2. ses[p].k = ses[p].hwid
        BY <1>0, <4>1
      <4> QED BY <1>0, <3>0, <4>1, <4>2 DEF Sessions
    <3> QED BY <3>1, <3>2
  <2> QED BY <2>1, <2>2
<1>7. ASSUME NEW q \in Apps, NEW c \in Callers, CommitRefresh(q, c)
      PROVE  CommitSound(p)'
  <2>1. CASE q # p
    BY <1>0, <1>7, <2>1 DEF CommitRefresh
  <2>2. CASE q = p
    <3>1. \A d \in Callers : commit'[p][d] # "entered"
      BY <1>0, <1>7, <2>2 DEF CommitRefresh
    <3>2. ses' = [ses EXCEPT ![p] = Wiped(ses[p])]
      BY <1>7, <2>2 DEF CommitRefresh
    <3>3. ses'[p].k = ZeroKey
      BY <1>0, <3>2 DEF Wiped, Sessions
    <3> QED BY <3>1, <3>3
  <2> QED BY <2>1, <2>2
<1>8. ASSUME NEW x \in Drifting, Drift(x) PROVE CommitSound(p)'
  BY <1>0, <1>8 DEF Drift
<1>9. CASE UNCHANGED vars
  BY <1>0, <1>9 DEF vars
<1> QED BY <1>1, <1>2, <1>3, <1>4, <1>5, <1>6, <1>7, <1>8, <1>9 DEF Next

\* The inductive step.
LEMMA InvStep ==
  ASSUME OneAtATime, Inv, Committing, [Next]_vars
  PROVE  Inv'
<1>1. CASE UNCHANGED vars
  <2>1. UNCHANGED <<slstore, helper, lock, hw, ses, commit, draws, writes, drifts, launches>>
    BY <1>1 DEF vars, store, env
  <2> QED BY <2>1 DEF Inv, TypeOK, HelperSound, SessionSound, PreparingSound,
         Enrolling, PreparedSound, CurrentSound, Current, Bound, Guarded, ThresholdSound,
         SecretValue
<1> QED BY <1>1, CollectInv, EnrollSecretInv, EnrollHelperInv, PrepareRecoverInv,
       ExitInv, CommitEnterInv, CommitRefreshInv, DriftInv DEF Next, Committing

\* The invariant of the specification.
LEMMA Invariance == OneAtATime => (Spec => [](Inv /\ Committing))
<1> SUFFICES ASSUME OneAtATime PROVE Spec => [](Inv /\ Committing)
  OBVIOUS
<1>1. Init => Inv /\ Committing
  <2>1. Init => Committing
    BY OffSession DEF Init, Committing, CommitSound
  <2> QED BY <2>1, InitInv
<1>2. Inv /\ Committing /\ [Next]_vars => (Inv /\ Committing)'
  BY InvStep, CommitStep
<1> QED BY <1>1, <1>2, PTL DEF Spec

-------------------------------------------------------------------------------
(* The theorems. *)

\* What a process deals.
Projected(p) == projectFactors(ses[p].factors, currentNorm)

\* The helper changes by enrolment and by refresh only.
LEMMA HelperChanges ==
  ASSUME Inv, Committing, [Next]_vars, helper' # helper
  PROVE  \E p \in Apps :
           \/ /\ ses[p].pc = "sharing" /\ Enrolling(p) /\ draws' = draws + 1
              /\ helper' = Dealt(draws', Projected(p), ses[p].requested)
              /\ Dealable(Projected(p), ses[p].requested)
           \/ /\ Current(p) /\ ses[p].k = ses[p].hwid
              /\ helper' = Dealt(ses[p].k, Projected(p), ses[p].mandatory)
              /\ Dealable(Projected(p), ses[p].mandatory)
<1> USE DEF store, env
<1>1. ASSUME NEW p \in Apps, EnrollHelper(p)
      PROVE  /\ ses[p].pc = "sharing" /\ Enrolling(p) /\ draws' = draws + 1
             /\ helper' = Dealt(draws', Projected(p), ses[p].requested)
             /\ Dealable(Projected(p), ses[p].requested)
  <2>1. ses[p].pc = "sharing" /\ Enrolling(p)
    BY <1>1 DEF EnrollHelper, Inv, SessionSound, PreparingSound
  <2> QED BY <1>1, <2>1 DEF EnrollHelper, Projected
<1>2. ASSUME NEW p \in Apps, NEW c \in Callers, CommitRefresh(p, c)
      PROVE  /\ Current(p) /\ ses[p].k = ses[p].hwid
             /\ helper' = Dealt(ses[p].k, Projected(p), ses[p].mandatory)
             /\ Dealable(Projected(p), ses[p].mandatory)
  BY <1>2 DEF CommitRefresh, Committing, CommitSound, Expected, Current, Projected
<1>3. (\A p \in Apps : ~EnrollHelper(p)) /\ (\A p \in Apps, c \in Callers : ~CommitRefresh(p, c))
        => helper' = helper
  BY DEF Next, vars, Collect, EnrollSecret, PrepareRecover, Exit, CommitEnter, Drift
<1> QED BY <1>1, <1>2, <1>3

\* The state is well formed, the lock held between Prepare's writes only.
THEOREM WellTyped == OneAtATime => (Spec => []TypeOK)
<1>1. Inv => TypeOK
  BY DEF Inv
<1> QED BY <1>1, Invariance, PTL

\* A stored helper parses.
LEMMA StoredParses ==
  ASSUME Inv, helper # NoHelper
  PROVE  /\ Parses(helper) /\ Bound(helper) \subseteq Slots /\ helper.t \in Nat
         /\ helper.norm = currentNorm => Cardinality(Bound(helper)) >= minimumFactors
<1>1. /\ Bound(helper) \subseteq Slots /\ helper.mandatory \subseteq Bound(helper)
      /\ Secret \in helper.mandatory /\ ThresholdSound(helper)
  BY SchemaAssumption DEF Inv, HelperSound, legacyNorm, currentNorm
<1>2. Cardinality(Bound(helper)) \in Nat /\ Cardinality(helper.mandatory) \in Nat
  BY <1>1, SlotSets
<1>3. /\ Cardinality(helper.mandatory) < helper.t /\ helper.t <= Cardinality(Bound(helper))
      /\ helper.norm = currentNorm => Cardinality(Bound(helper)) >= minimumFactors
      /\ helper.t \in Nat
  <2>1. CASE helper.norm = currentNorm
    BY <1>1, <1>2, <2>1, ThresholdBounds DEF ThresholdSound, thresholdDefined
  <2>2. CASE helper.norm # currentNorm
    BY <1>1, <2>2 DEF ThresholdSound
  <2> QED BY <2>1, <2>2
<1> QED BY <1>1, <1>3 DEF Parses

\* What is stored opens again: its hard locks include the store secret that is
\* stored, and its threshold lies between its hard locks and its slots.
THEOREM StoredOpens == OneAtATime => (Spec => []HelperOpens)
<1>1. Inv => HelperOpens
  BY StoredParses DEF HelperOpens, Inv, HelperSound
<1> QED BY <1>1, Invariance, PTL

\* The device keeps its key but for a forced re-enrolment.
THEOREM KeyIsStable == OneAtATime => (Spec => StableKey)
<1>1. Inv /\ Committing /\ [Next]_vars => KeyKept
  <2> SUFFICES ASSUME Inv, Committing, [Next]_vars, helper # NoHelper,
                      helper' # helper, helper'.key # helper.key
               PROVE  \E p \in Apps : ses[p].pc = "sharing" /\ ses[p].forced
    BY DEF KeyKept
  <2>1. PICK p \in Apps :
           \/ ses[p].pc = "sharing" /\ Enrolling(p)
           \/ /\ Current(p) /\ ses[p].k = ses[p].hwid
              /\ helper' = Dealt(ses[p].k, Projected(p), ses[p].mandatory)
    BY HelperChanges
  <2>2. CASE ses[p].pc = "sharing" /\ Enrolling(p)
    BY <2>2 DEF Enrolling
  <2>3. CASE /\ Current(p) /\ ses[p].k = ses[p].hwid
             /\ helper' = Dealt(ses[p].k, Projected(p), ses[p].mandatory)
    BY <2>3 DEF Inv, SessionSound, CurrentSound, Dealt
  <2> QED BY <2>1, <2>2, <2>3
<1> QED BY <1>1, Invariance, PTL DEF Spec, StableKey

\* Hard locks stay, and no refresh or promotion absorbs a change to one.
THEOREM LocksStay == OneAtATime => (Spec => HardLocksStay)
<1>1. Inv /\ Committing /\ [Next]_vars => LocksKept
  <2> SUFFICES ASSUME Inv, Committing, [Next]_vars, helper # NoHelper,
                      helper' # helper, helper'.key = helper.key
               PROVE  /\ mapMandatoryToCurrent(helper.mandatory) \subseteq helper'.mandatory
                      /\ \A b \in Bound(helper) : Guarded(b, helper'.mandatory) =>
                           LET m == CurrentName[b] IN
                           \A x \in Members[b] \cap Members[m] :
                             helper'.bound[m][x] = helper.bound[b][x]
    BY DEF LocksKept
  <2>1. PICK p \in Apps :
           \/ /\ helper' = Dealt(draws', Projected(p), ses[p].requested)
              /\ draws' = draws + 1
           \/ /\ Current(p)
              /\ helper' = Dealt(ses[p].k, Projected(p), ses[p].mandatory)
              /\ Dealable(Projected(p), ses[p].mandatory)
    BY HelperChanges
  <2>2. CASE /\ helper' = Dealt(draws', Projected(p), ses[p].requested)
             /\ draws' = draws + 1
    <3>1. helper'.key = draws + 1 /\ helper.key \in 1..draws /\ draws \in Nat
      BY <2>2 DEF Dealt, Inv, TypeOK, HelperSound
    <3> QED BY <3>1
  <2>3. CASE /\ Current(p)
             /\ helper' = Dealt(ses[p].k, Projected(p), ses[p].mandatory)
             /\ Dealable(Projected(p), ses[p].mandatory)
    <3> DEFINE f == ses[p].factors
    <3>1. /\ mapMandatoryToCurrent(helper.mandatory) \subseteq ses[p].mandatory
          /\ \A b \in Bound(helper) : Guarded(b, ses[p].mandatory) => f[b] = helper.bound[b]
          /\ Agree(f)
      BY <2>3 DEF Inv, SessionSound, CurrentSound, Current, PreparingSound
    <3>2. /\ helper'.mandatory = ses[p].mandatory
          /\ helper'.bound = Restricted(Projected(p))
      BY <2>3 DEF Dealt
    <3>3. \A m \in ses[p].mandatory : helper'.bound[m] = f[m] /\ f[m] # Absent /\ m \in Slots
      <4>1. f \in [Slots -> Readable]
        BY DEF Inv, TypeOK, Sessions
      <4>2. \A m \in Available(Projected(p)) : Projected(p)[m] = f[m] /\ m \in Slots
        BY <4>1, ProjectedTyped DEF Projected, Available, legacyNorm, currentNorm
      <4>3. \A m \in Available(Projected(p)) : Projected(p)[m] # Absent
        BY DEF Available
      <4> QED BY <2>3, <3>2, <4>2, <4>3 DEF Dealable, Restricted
    <3>4. ASSUME NEW b \in Bound(helper), Guarded(b, ses[p].mandatory)
          PROVE  /\ CurrentName[b] \in ses[p].mandatory
                 /\ b \in Slots /\ f[b] = helper.bound[b] /\ f[b] # Absent
      <4>1. b \in Slots /\ helper.bound[b] # Absent
        BY SchemaAssumption DEF Inv, HelperSound, legacyNorm, currentNorm
      <4> QED BY <3>1, <3>4, <4>1 DEF Guarded, mapMandatoryToCurrent
    <3> HIDE DEF f
    <3> QED BY <3>1, <3>2, <3>3, <3>4 DEF Agree
  <2> QED BY <2>1, <2>2, <2>3
<1> QED BY <1>1, Invariance, PTL DEF Spec, HardLocksStay

\* Any two optional factors of a stored helper may fail.
THEOREM TwoMayFail == OneAtATime => (Spec => []AnyTwoMayFail)
<1>1. Inv => AnyTwoMayFail
  <2> SUFFICES ASSUME Inv, helper # NoHelper, helper.norm = currentNorm,
                      Cardinality(helper.mandatory) <= 5,
                      NEW a \in Bound(helper) \ helper.mandatory,
                      NEW b \in Bound(helper) \ helper.mandatory
               PROVE  Recovers(helper, [helper.bound EXCEPT ![a] = Absent, ![b] = Absent])
    BY DEF AnyTwoMayFail
  <2> DEFINE f == [helper.bound EXCEPT ![a] = Absent, ![b] = Absent]
             M == helper.mandatory
  <2>1. /\ Bound(helper) \subseteq Slots /\ M \subseteq Bound(helper)
        /\ thresholdDefined(Cardinality(Bound(helper)), Cardinality(M))
        /\ helper.t = threshold(Cardinality(Bound(helper)), Cardinality(M))
        /\ \A s \in Bound(helper) : helper.bound[s] # Absent
    BY SchemaAssumption DEF Inv, HelperSound, ThresholdSound, legacyNorm, currentNorm
  <2>2. /\ DOMAIN f = Bound(helper)
        /\ \A s \in Bound(helper) : f[s] = IF s = a \/ s = b THEN Absent ELSE helper.bound[s]
    BY DEF Bound
  <2> HIDE DEF f
  <2>3. Available(f) = Bound(helper) \ {a, b}
    BY <2>1, <2>2 DEF Available
  <2>4. Correct(helper, f) = Bound(helper) \ {a, b}
    BY <2>2, <2>3 DEF Correct, Present
  <2>5. Cardinality(Bound(helper) \ {a, b}) >= helper.t
    <3>1. /\ IsFiniteSet(Bound(helper)) /\ Cardinality(Bound(helper)) \in Nat
          /\ Cardinality(M) \in Nat
      BY <2>1, SlotSets
    <3>2. /\ IsFiniteSet(Bound(helper) \ {a}) /\ Cardinality(Bound(helper) \ {a}) \in Nat
          /\ Cardinality(Bound(helper) \ {a}) >= Cardinality(Bound(helper)) - 1
      BY <3>1, RemovesOne
    <3>3. /\ Cardinality((Bound(helper) \ {a}) \ {b}) >= Cardinality(Bound(helper) \ {a}) - 1
          /\ Cardinality((Bound(helper) \ {a}) \ {b}) \in Nat
      BY <3>2, RemovesOne
    <3>4. helper.t <= Cardinality(Bound(helper)) - 2 /\ helper.t \in Nat
      BY <2>1, <3>1, ThresholdLeavesTwo, ThresholdBounds
    <3>5. (Bound(helper) \ {a}) \ {b} = Bound(helper) \ {a, b}
      OBVIOUS
    <3>6. Cardinality((Bound(helper) \ {a}) \ {b}) >= helper.t
      BY <3>1, <3>2, <3>3, <3>4
    <3> QED BY <3>5, <3>6, Zenon
  <2>6. M \subseteq Correct(helper, f)
    BY <2>1, <2>4
  <2>7. Recovers(helper, f)
    BY <2>4, <2>5, <2>6, StoredParses, RecoveryExact, Zenon
  <2> QED BY <2>7 DEF f
<1> QED BY <1>1, Invariance, PTL

\* A refused launch names slots that are unreadable or changed.
THEOREM FairBlame == OneAtATime => (Spec => BlameIsFair)
<1>1. Inv /\ Committing /\ [Next]_vars => FairlyBlamed
  <2> SUFFICES ASSUME Inv, Committing, [Next]_vars, NEW p \in Apps, ses'[p].pc = "failed",
                      ses[p].pc = "collected", NEW m \in ses'[p].missing
               PROVE  LET f == Factors(p, slstore) IN
                      \/ f[m] = Absent
                      \/ \E b \in Bound(helper) :
                           m \in {b, CurrentName[b]} /\ f[b] # helper.bound[b]
    BY DEF FairlyBlamed
  <2>0. ses \in [Apps -> Sessions] /\ ses[p] \in Sessions /\ slstore \in Nat
    BY DEF Inv, TypeOK
  <2>1. PrepareRecover(p) \/ Fails(p, {})
    <3>1. ses'[p] # ses[p]
      OBVIOUS
    <3>2. ASSUME NEW q \in Apps, Collect(q) PROVE FALSE
      BY <2>0, <3>2 DEF Collect
    <3>3. ASSUME NEW q \in Apps, EnrollSecret(q) PROVE Fails(p, {})
      <4>1. Fails(q, {}) \/ \E secret : Shares(q, secret)
        BY <3>3 DEF EnrollSecret
      <4>2. q = p
        BY <2>0, <3>1, <4>1 DEF Fails, Shares
      <4>3. ASSUME NEW secret, Shares(p, secret) PROVE FALSE
        <5>1. ses'[p].pc = "sharing"
          BY <2>0, <4>3 DEF Shares, Sessions
        <5> QED BY <5>1
      <4> QED BY <4>1, <4>2, <4>3
    <3>4. ASSUME NEW q \in Apps, EnrollHelper(q) PROVE FALSE
      BY <2>0, <3>1, <3>4 DEF EnrollHelper, Fails
    <3>5. ASSUME NEW q \in Apps, PrepareRecover(q) PROVE q = p
      BY <2>0, <3>1, <3>5 DEF PrepareRecover, Fails, Opens
    <3>6. ASSUME NEW q \in Apps, Exit(q) PROVE FALSE
      BY <2>0, <3>6, OffSession DEF Exit
    <3>7. ASSUME NEW q \in Apps, NEW c \in Callers, CommitEnter(q, c) \/ CommitRefresh(q, c)
          PROVE  FALSE
      <4>1. ses[q].pc = "prepared"
        BY <3>7 DEF CommitEnter, CommitRefresh, Committing, CommitSound
      <4>2. q # p
        BY <4>1
      <4> QED BY <2>0, <3>1, <3>7, <4>2 DEF CommitEnter, CommitRefresh
    <3>8. ASSUME NEW x \in Drifting, Drift(x) PROVE FALSE
      BY <3>1, <3>8 DEF Drift
    <3>9. CASE UNCHANGED vars
      BY <3>1, <3>9 DEF vars
    <3> QED BY <3>2, <3>3, <3>4, <3>5, <3>6, <3>7, <3>8, <3>9 DEF Next
  <2>2. ASSUME Fails(p, {}) PROVE FALSE
    BY <2>0, <2>2 DEF Fails, Off
  <2>3. CASE PrepareRecover(p)
    <3> DEFINE f == Factors(p, slstore)
               recovery == projectFactors(f, helper.norm)
               factors  == projectFactors(f, currentNorm)
               wanted == ses[p].requested \ mapMandatoryToCurrent(helper.mandatory)
    <3>1. /\ helper # NoHelper /\ Bound(helper) \subseteq Slots
          /\ helper.mandatory \subseteq Bound(helper) /\ helper.t \in Nat
          /\ \A b \in Bound(helper) : recovery[b] = f[b]
      <4>1. helper # NoHelper
        BY <2>3 DEF PrepareRecover, Enrolling
      <4>2. /\ helper.norm \in {legacyNorm, currentNorm}
            /\ Bound(helper) \subseteq Schema[helper.norm] /\ Bound(helper) \subseteq Slots
            /\ helper.mandatory \subseteq Bound(helper) /\ ThresholdSound(helper)
        BY <4>1, SchemaAssumption DEF Inv, HelperSound, legacyNorm, currentNorm
      <4>3. helper.t \in Nat
        BY <4>2, SlotSets, ThresholdBounds DEF ThresholdSound
      <4>4. f \in [Slots -> Readable]
        BY <2>0, FactorsTyped DEF Inv
      <4>5. \A b \in Bound(helper) : recovery[b] = f[b]
        BY <4>2, <4>4, ProjectedTyped
      <4> QED BY <4>1, <4>2, <4>3, <4>5
    <3>2. \/ ~Recovers(helper, recovery) /\ Fails(p, Blamed(helper, recovery))
          \/ Fails(p, Unpromotable(wanted, recovery, factors))
      <4>1. \A mandatory : ~Opens(p, f, mandatory)
        <5> SUFFICES ASSUME NEW mandatory, Opens(p, f, mandatory) PROVE FALSE
          OBVIOUS
        <5> HIDE DEF f
        <5>1. ses'[p].pc = "prepared"
          BY <2>0 DEF Opens, Sessions
        <5> QED BY <5>1
      <4> QED BY <2>2, <2>3, <4>1 DEF PrepareRecover
    <3>3. DOMAIN recovery = Slots
      BY DEF projectFactors
    <3>4. CASE Fails(p, Unpromotable(wanted, recovery, factors))
      <4>1. m \in Unpromotable(wanted, recovery, factors)
        BY <2>0, <3>4 DEF Fails, Off
      <4>2. CASE m \in mapMandatoryToCurrent(Dead(helper, recovery))
        <5>1. PICK b \in Dead(helper, recovery) : m = CurrentName[b]
          BY <4>2 DEF mapMandatoryToCurrent
        <5>2. b \in Bound(helper) /\ b \notin Correct(helper, recovery)
          BY <5>1 DEF Dead
        <5>3. recovery[b] # helper.bound[b] \/ recovery[b] = Absent
          BY <3>1, <3>3, <5>2 DEF Correct, Present, Available
        <5>4. helper.bound[b] # Absent
          BY <3>1, <5>2 DEF Inv, HelperSound
        <5> QED BY <3>1, <5>1, <5>2, <5>3, <5>4
      <4>3. CASE m \in Slots \ Available(factors)
        <5>1. m \in Schema[currentNorm]
          <6>1. ses[p].requested \subseteq Schema[currentNorm]
            BY <2>0, <2>3 DEF Inv, SessionSound, PreparingSound, PrepareRecover
          <6> QED BY <4>1, <6>1 DEF Unpromotable
        <5> QED BY <4>3, <5>1 DEF Available, projectFactors
      <4> QED BY <4>1, <4>2, <4>3 DEF Unpromotable
    <3>5. CASE ~Recovers(helper, recovery) /\ Fails(p, Blamed(helper, recovery))
      <4>1. m \in Blamed(helper, recovery)
        BY <2>0, <3>5 DEF Fails, Off
      <4>2. CASE MissingMandatory(helper, recovery) # {}
        <5>1. m \in Bound(helper) /\ recovery[m] = Absent
          BY <3>1, <3>3, <4>1, <4>2 DEF Blamed, MissingMandatory, Available
        <5> QED BY <3>1, <5>1
      <4>3. CASE MissingMandatory(helper, recovery) = {}
        <5>1. m \in Bound(helper) /\ recovery[m] # helper.bound[m]
          BY <3>1, <3>5, <4>1, <4>3, StoredParses, CulpritIsWrong DEF Blamed
        <5> QED BY <3>1, <5>1
      <4> QED BY <4>2, <4>3
    <3> QED BY <3>2, <3>4, <3>5
  <2> QED BY <2>1, <2>2, <2>3
<1> QED BY <1>1, Invariance, PTL DEF Spec, BlameIsFair

-------------------------------------------------------------------------------
(* One identity, and the promises of the store. *)

Asked == \A p \in Apps : ses[p].forced => TRUE \in Forcing

\* A helper dealt to readable slots is a helper.
LEMMA DealtTyped ==
  ASSUME NEW k \in Nat, NEW f \in [Slots -> Readable], NEW m \in SUBSET Slots,
         Dealable(f, m), writes \in Nat
  PROVE  Dealt(k, f, m) \in Helpers
<1> DEFINE n == Cardinality(Available(f))
<1>1. Available(f) \in SUBSET Slots
  BY DEF Available
<1>2. Restricted(f) \in [Available(f) -> SlotValues]
  BY DEF Restricted, Available, Readable
<1>3. [Available(f) -> SlotValues] \in {[S -> SlotValues] : S \in SUBSET Slots}
  BY <1>1
<1>4. Restricted(f) \in UNION {[S -> SlotValues] : S \in SUBSET Slots}
  BY <1>2, <1>3
<1>5. threshold(n, Cardinality(m)) \in Nat
  <2>1. n \in Nat /\ Cardinality(m) \in Nat
    BY <1>1, SlotSets
  <2> QED BY <2>1, ThresholdBounds DEF Dealable
<1> HIDE DEF n
<1> QED BY <1>4, <1>5 DEF Dealt, Helpers, n

\* A helper of an earlier release is one.
LEMMA LegacyTyped ==
  ASSUME NEW l \in Legacies, hw = [x \in Drifting |-> Steady]
  PROVE  LegacyHelper(l) \in Helpers
<1> DEFINE f == [Readings EXCEPT ![Secret] = SecretValue(1)]
           g == projectFactors(f, legacyNorm)
<1>1. f \in [Slots -> Readable]
  <2>1. Readings \in [Slots -> Readable]
    BY ReadingsTyped DEF Reading
  <2> QED BY <2>1, SecretTyped
<1> HIDE DEF f
<1>2. g \in [Slots -> Readable]
  <2>1. legacyNorm \in {legacyNorm, currentNorm}
    OBVIOUS
  <2> QED BY <1>1, <2>1, ProjectedTyped
<1>3. LegacyHelper(l) = [norm |-> legacyNorm, key |-> 2, bound |-> Restricted(g),
                         mandatory |-> l.mandatory, t |-> l.t, id |-> 1]
  BY DEF LegacyHelper, f
<1> HIDE DEF g
<1>4. Available(g) \in SUBSET Slots
  BY <1>2 DEF Available
<1>5. Restricted(g) \in [Available(g) -> SlotValues]
  BY <1>2 DEF Restricted, Available, Readable
<1>6. [Available(g) -> SlotValues] \in {[S -> SlotValues] : S \in SUBSET Slots}
  BY <1>4
<1>7. Restricted(g) \in UNION {[S -> SlotValues] : S \in SUBSET Slots}
  BY <1>5, <1>6
<1>8. l.mandatory \in SUBSET Slots /\ l.t \in Nat
  BY LegacyAssumption, SchemaAssumption DEF legacyNorm, currentNorm
<1> QED BY <1>3, <1>7, <1>8 DEF Helpers

\* Only Options.ForceReenroll makes a session a forced one.
LEMMA AskedStep ==
  ASSUME Inv, Asked, [Next]_vars
  PROVE  Asked'
<1> SUFFICES ASSUME NEW p \in Apps, ses'[p].forced PROVE TRUE \in Forcing
  BY DEF Asked
<1>0. ses \in [Apps -> Sessions]
  BY DEF Inv, TypeOK
<1>1. ASSUME ses[p].forced PROVE TRUE \in Forcing
  BY <1>1 DEF Asked
<1>2. SUFFICES ASSUME ~ses[p].forced PROVE TRUE \in Forcing
  BY <1>1
<1>3. \A q \in Apps : ~Fails(q, {}) /\ \A missing : ~Fails(q, missing)
  BY <1>0, <1>2 DEF Fails, Off
<1>4. ASSUME NEW q \in Apps, Collect(q) PROVE TRUE \in Forcing
  <2>1. PICK force \in Forcing, extra \in Wantable :
          ses' = [ses EXCEPT ![q] = [Off EXCEPT !.pc = "collected",
                 !.requested = mapMandatoryToCurrent(extra \cup {Secret}),
                 !.forced = force, !.factors = Readings]]
    BY <1>4 DEF Collect
  <2>2. q = p /\ ses'[p].forced = force
    BY <1>0, <1>2, <2>1 DEF Off
  <2> QED BY <2>2, DeviceAssumption
<1>5. ASSUME NEW q \in Apps, EnrollSecret(q) \/ EnrollHelper(q) \/ PrepareRecover(q)
      PROVE  FALSE
  <2>1. CASE EnrollSecret(q)
    <3>1. \E secret : Shares(q, secret)
      BY <1>3, <2>1 DEF EnrollSecret
    <3> QED BY <1>0, <1>2, <3>1 DEF Shares, Sessions
  <2>2. CASE EnrollHelper(q)
    <3>1. ses' = [ses EXCEPT ![q] = [@ EXCEPT !.pc = "prepared",
               !.hwid = draws', !.k = draws', !.mandatory = ses[q].requested,
               !.expected = writes']]
      BY <1>3, <2>2 DEF EnrollHelper, WriteOutcomes
    <3> QED BY <1>0, <1>2, <3>1 DEF Sessions
  <2>3. CASE PrepareRecover(q)
    <3>1. \E f, mandatory : Opens(q, f, mandatory)
      BY <1>3, <2>3 DEF PrepareRecover
    <3> QED BY <1>0, <1>2, <3>1 DEF Opens, Sessions
  <2> QED BY <1>5, <2>1, <2>2, <2>3
<1>6. ASSUME NEW q \in Apps, Exit(q) PROVE FALSE
  BY <1>0, <1>2, <1>6 DEF Exit, Off
<1>7. ASSUME NEW q \in Apps, NEW c \in Callers, CommitEnter(q, c) \/ CommitRefresh(q, c)
      PROVE  FALSE
  BY <1>0, <1>2, <1>7 DEF CommitEnter, CommitRefresh, Wiped, Sessions
<1>8. ASSUME NEW x \in Drifting, Drift(x) PROVE FALSE
  BY <1>2, <1>8 DEF Drift
<1>9. CASE UNCHANGED vars
  BY <1>2, <1>9 DEF vars
<1> QED BY <1>4, <1>5, <1>6, <1>7, <1>8, <1>9 DEF Next

\* A session is prepared with the key of the stored helper, and keeps it.
LEMMA PreparedFrom ==
  ASSUME Inv, Committing, [Next]_vars, NEW p \in Apps, ses'[p].pc = "prepared"
  PROVE  \/ ses[p].pc = "prepared" /\ ses'[p].hwid = ses[p].hwid
         \/ helper' # NoHelper /\ ses'[p].hwid = helper'.key
<1>0. ses \in [Apps -> Sessions] /\ ses[p] \in Sessions
  BY DEF Inv, TypeOK
<1>1. SUFFICES ASSUME ses'[p] # ses[p]
               PROVE  \/ ses[p].pc = "prepared" /\ ses'[p].hwid = ses[p].hwid
                      \/ helper' # NoHelper /\ ses'[p].hwid = helper'.key
  OBVIOUS
<1>2. \A q \in Apps : \A missing : ~Fails(q, missing)
  BY <1>0, <1>1 DEF Fails, Off
<1>3. ASSUME NEW q \in Apps, Collect(q) PROVE FALSE
  BY <1>0, <1>1, <1>3 DEF Collect, Off
<1>4. ASSUME NEW q \in Apps, EnrollSecret(q) PROVE FALSE
  <2>1. \E secret : Shares(q, secret)
    BY <1>2, <1>4 DEF EnrollSecret
  <2> QED BY <1>0, <1>1, <2>1 DEF Shares, Sessions
<1>5. ASSUME NEW q \in Apps, EnrollHelper(q)
      PROVE  helper' # NoHelper /\ ses'[p].hwid = helper'.key
  <2> DEFINE f == projectFactors(ses[q].factors, currentNorm)
  <2>1. /\ draws' = draws + 1 /\ Dealable(f, ses[q].requested)
        /\ helper' = Dealt(draws', f, ses[q].requested)
        /\ ses' = [ses EXCEPT ![q] = [@ EXCEPT !.pc = "prepared",
               !.hwid = draws', !.k = draws', !.mandatory = ses[q].requested,
               !.expected = writes']]
    BY <1>2, <1>5 DEF EnrollHelper, WriteOutcomes
  <2>2. q = p
    BY <1>0, <1>1, <2>1
  <2>3. ses'[p].hwid = draws'
    BY <1>0, <2>1, <2>2 DEF Sessions
  <2>4. f \in [Slots -> Readable]
    <3>1. /\ currentNorm \in {legacyNorm, currentNorm}
          /\ ses[q].factors \in [Slots -> Readable]
      BY <1>0, <2>2 DEF Sessions
    <3> QED BY <3>1, ProjectedTyped
  <2> HIDE DEF f
  <2>5. draws' \in Nat /\ writes \in Nat /\ ses[q].requested \in SUBSET Slots
    BY <1>0, <2>1, <2>2 DEF Inv, TypeOK, Sessions
  <2>6. helper' \in Helpers
    BY <2>1, <2>4, <2>5, DealtTyped
  <2>7. helper'.key = draws'
    BY <2>1 DEF Dealt
  <2> QED BY <2>3, <2>6, <2>7, DeviceAssumption
<1>6. ASSUME NEW q \in Apps, PrepareRecover(q)
      PROVE  helper' # NoHelper /\ ses'[p].hwid = helper'.key
  <2>1. helper # NoHelper /\ helper' = helper /\ \E f, mandatory : Opens(q, f, mandatory)
    BY <1>2, <1>6 DEF PrepareRecover, Enrolling, store
  <2> QED BY <1>0, <1>1, <2>1 DEF Opens, Sessions
<1>7. ASSUME NEW q \in Apps, Exit(q) PROVE FALSE
  BY <1>0, <1>1, <1>7, OffSession DEF Exit
<1>8. ASSUME NEW q \in Apps, NEW c \in Callers, CommitEnter(q, c) \/ CommitRefresh(q, c)
      PROVE  ses[p].pc = "prepared" /\ ses'[p].hwid = ses[p].hwid
  <2>1. ses[q].pc = "prepared"
    BY <1>8 DEF CommitEnter, CommitRefresh, Committing, CommitSound
  <2> QED BY <1>0, <1>1, <1>8, <2>1 DEF CommitEnter, CommitRefresh, Wiped, Sessions
<1>9. ASSUME NEW x \in Drifting, Drift(x) PROVE FALSE
  BY <1>1, <1>9 DEF Drift
<1>10. CASE UNCHANGED vars
  BY <1>1, <1>10 DEF vars
<1> QED BY <1>3, <1>4, <1>5, <1>6, <1>7, <1>8, <1>9, <1>10 DEF Next

\* The helper as DeviceStore has it.
Kept == IF helper = NoHelper THEN NoHelper
        ELSE [key |-> helper.key, secret |-> helper.bound[Secret][Secret]]

KeptIsBound ==
  /\ helper = NoHelper <=> Kept = NoHelper
  /\ helper # NoHelper =>
       slstore # 0 /\ Kept.key = helper.key /\ Kept.secret = slstore

\* A stored helper is, for DeviceStore, one bound to the store secret.
LEMMA KeptSound == Inv => KeptIsBound
<1> SUFFICES ASSUME Inv, helper # NoHelper
             PROVE  /\ Kept # NoHelper
                    /\ slstore # 0 /\ Kept.key = helper.key /\ Kept.secret = slstore
  BY DEF Kept, KeptIsBound
<1>1. slstore # 0 /\ helper.bound[Secret][Secret] = slstore
  BY DEF Inv, HelperSound, SecretValue
<1>2. helper.key \in Nat /\ slstore \in Nat
  BY DEF Inv, HelperSound, TypeOK
<1>3. [key |-> helper.key, secret |-> slstore] # NoHelper
  BY <1>2, DeviceAssumption
<1> QED BY <1>1, <1>3 DEF Kept

\* What a process deals is a helper.
LEMMA ProjectedDealt ==
  ASSUME Inv, NEW p \in Apps, NEW k \in Nat, NEW m \in SUBSET Slots,
         Dealable(Projected(p), m)
  PROVE  Dealt(k, Projected(p), m) # NoHelper
<1>1. /\ currentNorm \in {legacyNorm, currentNorm} /\ writes \in Nat
      /\ ses[p].factors \in [Slots -> Readable]
  BY DEF Inv, TypeOK, Sessions
<1>2. Projected(p) \in [Slots -> Readable]
  BY <1>1, ProjectedTyped DEF Projected
<1>3. Dealt(k, Projected(p), m) \in Helpers
  BY <1>1, <1>2, DealtTyped
<1> QED BY <1>3, DeviceAssumption

\* An enrolment stores a helper with a younger key.
LEMMA EnrolledKey ==
  ASSUME Inv, NEW p \in Apps, draws' = draws + 1,
         helper' = Dealt(draws', Projected(p), ses[p].requested)
  PROVE  helper'.key = draws + 1 /\ (helper # NoHelper => helper.key <= draws /\ helper.key \in Nat)
BY DEF Dealt, Inv, TypeOK, HelperSound

\* OneIdentity is kept.
LEMMA IdentityStep ==
  ASSUME Inv, Committing, Asked, OneIdentity, [Next]_vars, Inv'
  PROVE  OneIdentity'
<1> SUFFICES ASSUME NEW p \in Apps, ses'[p].pc = "prepared"
             PROVE  /\ helper' # NoHelper
                    /\ \/ ses'[p].hwid = helper'.key
                       \/ TRUE \in Forcing /\ ses'[p].hwid < helper'.key
  BY DEF OneIdentity
<1>1. SUFFICES ASSUME ses[p].pc = "prepared", ses'[p].hwid = ses[p].hwid
               PROVE  /\ helper' # NoHelper
                      /\ \/ ses'[p].hwid = helper'.key
                         \/ TRUE \in Forcing /\ ses'[p].hwid < helper'.key
  BY PreparedFrom
<1>2. /\ helper # NoHelper /\ ses[p].hwid \in 1..draws /\ draws \in Nat
      /\ ses[p].hwid = helper.key \/ (TRUE \in Forcing /\ ses[p].hwid < helper.key)
  BY <1>1 DEF OneIdentity, Inv, TypeOK, SessionSound, PreparedSound
<1>3. CASE helper' = helper
  BY <1>1, <1>2, <1>3
<1>4. CASE helper' # helper
  <2>1. PICK q \in Apps :
           \/ /\ ses[q].pc = "sharing" /\ Enrolling(q) /\ draws' = draws + 1
              /\ helper' = Dealt(draws', Projected(q), ses[q].requested)
              /\ Dealable(Projected(q), ses[q].requested)
           \/ /\ Current(q) /\ ses[q].k = ses[q].hwid
              /\ helper' = Dealt(ses[q].k, Projected(q), ses[q].mandatory)
              /\ Dealable(Projected(q), ses[q].mandatory)
    BY <1>4, HelperChanges
  <2>2. helper' # NoHelper
    <3>1. /\ ses[q].requested \in SUBSET Slots /\ ses[q].mandatory \in SUBSET Slots
          /\ ses[q].k \in Nat /\ draws + 1 \in Nat
      BY <1>2 DEF Inv, TypeOK, Sessions
    <3> QED BY <2>1, <3>1, ProjectedDealt
  <2>3. CASE /\ Enrolling(q) /\ draws' = draws + 1
             /\ helper' = Dealt(draws', Projected(q), ses[q].requested)
    <3>1. TRUE \in Forcing
      BY <1>2, <2>3 DEF Enrolling, Asked
    <3>2. helper'.key = draws + 1
      BY <2>3, EnrolledKey
    <3>3. ses'[p].hwid < helper'.key
      <4> DEFINE h == ses'[p].hwid
                 k == helper'.key
      <4>1. h \in 1..draws /\ draws \in Nat /\ k = draws + 1
        BY <1>1, <1>2, <3>2
      <4> HIDE DEF h, k
      <4>2. h < k
        BY <4>1
      <4> QED BY <4>2 DEF h, k
    <3> QED BY <2>2, <3>1, <3>3
  <2>4. CASE Current(q) /\ helper' = Dealt(ses[q].k, Projected(q), ses[q].mandatory)
             /\ ses[q].k = ses[q].hwid
    <3>1. helper'.key = helper.key
      BY <2>4 DEF Dealt, Inv, SessionSound, CurrentSound
    <3> QED BY <1>1, <1>2, <2>2, <3>1
  <2> QED BY <2>1, <2>3, <2>4
<1> QED BY <1>3, <1>4

\* Every step is one of DeviceStore, or leaves the store alone.
LEMMA StoreStep ==
  ASSUME Inv, Committing, Asked, [Next]_vars, Inv'
  PROVE  Store!Next \/ UNCHANGED <<slstore, Kept>>
<1>1. /\ helper = NoHelper <=> Kept = NoHelper
      /\ helper # NoHelper => Kept.key = helper.key /\ Kept.secret = slstore
  BY KeptSound DEF KeptIsBound
<1>0. KeptIsBound'
  BY KeptSound, PTL
<1>2. /\ helper' = NoHelper <=> Kept' = NoHelper
      /\ helper' # NoHelper => slstore' # 0 /\ Kept'.key = helper'.key /\ Kept'.secret = slstore'
  BY <1>0 DEF KeptIsBound
<1>3. slstore' # slstore => slstore = 0 /\ slstore' # 0 /\ helper' = helper
  BY DEF Next, Collect, EnrollSecret, EnrollHelper, PrepareRecover, Exit, CommitEnter,
     CommitRefresh, Drift, vars, store, SecretKnown, Inv, TypeOK
<1>4. CASE slstore' # slstore
  <2>1. Kept' = Kept
    <3>1. helper = NoHelper
      BY <1>3, <1>4 DEF Inv, HelperSound
    <3> QED BY <1>3, <1>4, <3>1 DEF Kept
  <2> QED BY <1>3, <1>4, <2>1 DEF Store!Next, Store!CreateSecret, Kept
<1>5. CASE slstore' = slstore /\ helper' = helper
  BY <1>5 DEF Kept
<1>6. CASE slstore' = slstore /\ helper' # helper
  <2>1. PICK q \in Apps :
           \/ /\ ses[q].pc = "sharing" /\ Enrolling(q) /\ draws' = draws + 1
              /\ helper' = Dealt(draws', Projected(q), ses[q].requested)
              /\ Dealable(Projected(q), ses[q].requested)
           \/ /\ Current(q) /\ ses[q].k = ses[q].hwid
              /\ helper' = Dealt(ses[q].k, Projected(q), ses[q].mandatory)
              /\ Dealable(Projected(q), ses[q].mandatory)
    BY <1>6, HelperChanges
  <2>2. helper' # NoHelper
    <3>1. /\ ses[q].requested \in SUBSET Slots /\ ses[q].mandatory \in SUBSET Slots
          /\ ses[q].k \in Nat /\ draws + 1 \in Nat
      BY DEF Inv, TypeOK, Sessions
    <3> QED BY <2>1, <3>1, ProjectedDealt
  <2>3. CASE /\ Enrolling(q) /\ draws' = draws + 1
             /\ helper' = Dealt(draws', Projected(q), ses[q].requested)
    <3>1. helper = NoHelper \/ TRUE \in Forcing
      BY <2>3 DEF Enrolling, Asked
    <3>2. helper # NoHelper => helper'.key > helper.key
      <4>1. helper'.key = draws + 1 /\ (helper # NoHelper => helper.key <= draws /\ helper.key \in Nat)
        BY <2>3, EnrolledKey
      <4>2. draws \in Nat
        BY DEF Inv, TypeOK
      <4> QED BY <4>1, <4>2
    <3>3. Kept = NoHelper \/ TRUE \in Forcing
      BY <1>1, <3>1
    <3>4. Kept # NoHelper => Kept'.key > Kept.key
      BY <1>1, <1>2, <2>2, <3>2
    <3>5. slstore # 0 /\ Kept' # NoHelper /\ Kept'.secret = slstore /\ slstore' = slstore
      BY <1>2, <1>6, <2>2
    <3>6. Store!Enroll
      BY <3>3, <3>4, <3>5, Zenon DEF Store!Enroll, Kept
    <3> QED BY <3>6 DEF Store!Next
  <2>4. CASE Current(q) /\ helper' = Dealt(ses[q].k, Projected(q), ses[q].mandatory)
             /\ ses[q].k = ses[q].hwid
    <3>1. helper'.key = helper.key /\ helper # NoHelper
      BY <2>4 DEF Dealt, Inv, SessionSound, CurrentSound, Current
    <3>2. /\ Kept # NoHelper /\ Kept' # NoHelper /\ Kept'.key = Kept.key
          /\ Kept'.secret = slstore /\ slstore' = slstore
      BY <1>1, <1>2, <1>6, <2>2, <3>1
    <3>3. Store!Refresh
      BY <3>2, Zenon DEF Store!Refresh, Kept
    <3> QED BY <3>3 DEF Store!Next
  <2> QED BY <2>1, <2>3, <2>4
<1> QED BY <1>3, <1>4, <1>5, <1>6

\* The invariant, with the two facts about forcing and identity.
LEMMA IdentityInvariance ==
  OneAtATime => (Spec => [](Inv /\ Committing /\ Asked /\ OneIdentity))
<1> SUFFICES ASSUME OneAtATime
             PROVE  Spec => [](Inv /\ Committing /\ Asked /\ OneIdentity)
  OBVIOUS
<1>1. Init => Asked /\ OneIdentity
  <2>1. ~Off.forced
    BY DEF Off
  <2> QED BY <2>1, OffSession DEF Init, Asked, OneIdentity
<1>2. /\ Inv /\ Committing /\ (Inv /\ Committing)' /\ Asked /\ OneIdentity /\ [Next]_vars
      => (Asked /\ OneIdentity)'
  BY AskedStep, IdentityStep
<1>3. Spec => [](Inv /\ Committing)
  BY Invariance
<1> QED BY <1>1, <1>2, <1>3, PTL DEF Spec

\* README.md:151-154: the applications of a device report one HWID, that of
\* the stored helper, until a forced re-enrolment gives it a younger one.
THEOREM OneIdentityHolds == OneAtATime => (Spec => []OneIdentity)
BY IdentityInvariance, PTL

\* The applications keep the promises of the device's store.
THEOREM DeviceImplementsStore == OneAtATime => (Spec => ImplementsStore)
<1> SUFFICES ASSUME OneAtATime PROVE Spec => ImplementsStore
  OBVIOUS
<1>1. Init => Store!Init
  <2> SUFFICES ASSUME Init PROVE Store!Init
    OBVIOUS
  <2>1. /\ helper = NoHelper <=> Kept = NoHelper
        /\ helper # NoHelper => slstore # 0 /\ Kept.secret = slstore
    BY InitInv, KeptSound DEF KeptIsBound
  <2>2. helper # NoHelper \/ (slstore = 0 /\ helper = NoHelper)
    <3>1. \A l \in Legacies : LegacyHelper(l) # NoHelper
      BY LegacyTyped, DeviceAssumption DEF Init
    <3> QED BY <3>1 DEF Init
  <2> QED BY <2>1, <2>2 DEF Store!Init, Store!Enrolled, Kept
<1>2. Inv /\ Committing /\ Asked /\ Inv' /\ [Next]_vars => [Store!Next]_<<slstore, Kept>>
  BY StoreStep
<1>3. Spec => [](Inv /\ Committing /\ Asked /\ OneIdentity)
  BY IdentityInvariance
<1> QED BY <1>1, <1>2, <1>3, PTL DEF Spec, ImplementsStore, Store!Spec, Kept
=============================================================================
