---------------------------- MODULE SecretRecovery ----------------------------
(***************************************************************************)
(* The threshold scheme of slhwid/core.go on numbers: one limb of the key  *)
(* (the four are independent), a polynomial through it, a share per slot,  *)
(* and the search for the subset of shares that brings the key back, while *)
(* factors drift and the key is dealt again over what is readable.  Module *)
(* SecretSharing states the outcome on sets; here it is computed.          *)
(***************************************************************************)
EXTENDS FieldArithmetic, FiniteSetsExt

CONSTANTS
  Slots, Secret,  \* slot names; the slot that is always hard-locked
  Locked,         \* the hard-locked slots, Secret among them
  Values, Absent, \* readings of a factor
  Salts,          \* salts to try: 0 and up
  Hashes,         \* coordinate functions deriveX may be
  Keys, Coeffs,   \* field elements the random draws yield
  Need            \* the threshold of a helper with n slots: Need[n]

ASSUME RecoveryAssumption ==
  /\ IsFiniteSet(Slots)
  /\ Secret \in Locked /\ Locked \subseteq Slots /\ Locked # Slots
  /\ Absent \notin Values
  /\ Keys \cup Coeffs \subseteq Field
  /\ Hashes \subseteq [Slots \X Values \X Salts -> Field \ {0}]
  /\ Salts \subseteq Nat /\ \A salt \in Salts : 0..salt \subseteq Salts
  /\ \A n \in Cardinality(Locked) + 1..Cardinality(Slots) :
       /\ Need[n] \in Cardinality(Locked) + 1..n
       /\ Need[n] <= Need[Cardinality(Slots)]

VARIABLES
  hash,     \* what SHA-256 does to (slot, value, salt)
  factors,  \* current readings
  helper,   \* salt, threshold, shares and check word of the stored helper
  k,        \* the key first dealt (history)
  poly,     \* the coefficients of the latest dealing (history)
  bound     \* the readings of the latest dealing (history)

vars == <<hash, factors, helper, k, poly, bound>>

deriveX(slot, value, salt) == hash[<<slot, value, salt>>]

Readable(f) == {s \in Slots : f[s] # Absent}

Collides(f, salt) ==
  \E s, r \in Readable(f) :
    s # r /\ deriveX(s, f[s], salt) = deriveX(r, f[r], salt)

\* Mutant: the salt is never bumped.
FirstSaltOnly(f) == 0

\* The first salt that separates the coordinates of all slots.
SeparatingSalt(f) ==
  CHOOSE salt \in Salts : ~Collides(f, salt) /\ \A r \in 0..(salt - 1) : Collides(f, r)

Separable(f) == \E salt \in Salts : ~Collides(f, salt)

\* Shares of key over the readable slots; the check word stands for the key.
Shared(key, c, f) ==
  LET salt == SeparatingSalt(f)
      t == Need[Cardinality(Readable(f))]
  IN  [salt |-> salt, t |-> t, cw |-> key,
       share |-> [s \in Readable(f) |-> evaluate(key, c, t, deriveX(s, f[s], salt))]]

Enrolled(h) == DOMAIN h.share

Point(h, s, f) == [slot |-> s, x |-> deriveX(s, f[s], h.salt), y |-> h.share[s]]
Points(h, S, f) == {Point(h, s, f) : s \in S}

Present(h, f) == Enrolled(h) \cap Readable(f)

NotFound == {}   \* nil: a subset found has t points

Missing(t, mandatory) == t - Cardinality(mandatory)

\* One of the subsets of t points, all mandatory ones among them, that
\* interpolate to the check word.
FindRecoveringSubset(mandatory, optional, t, cw) ==
  LET need == IF Missing(t, mandatory) < 0 THEN 0 ELSE Missing(t, mandatory)
      hits == {pts \in {mandatory \cup o : o \in kSubset(need, optional)} :
                 lagrangeAt0(pts) = cw}
  IN  IF hits = {} THEN NotFound ELSE CHOOSE pts \in hits : TRUE

Search(h, f, dropped) ==
  FindRecoveringSubset(
    Points(h, (Present(h, f) \cap Locked) \ dropped, f),
    Points(h, (Present(h, f) \ Locked) \ dropped, f), h.t, h.cw)

\* Mutant: the verdict on the other slots is skipped, they all count as live.
OffCurveNever(h, f, found) == {}

\* Present slots outside the recovering subset whose share is off its curve.
OffCurve(h, f, found) ==
  {s \in Present(h, f) :
     /\ Point(h, s, f) \notin found
     /\ evaluateAt(found, deriveX(s, f[s], h.salt)) # h.share[s]}

recoverCore(h, f) ==
  LET found == Search(h, f, {})
      absent == (Enrolled(h) \cap Locked) \ Readable(f)
  IN  IF absent # {} THEN [ok |-> FALSE, missing |-> absent]
      ELSE IF found = NotFound
      THEN [ok |-> FALSE, missing |->
              {m \in Enrolled(h) \cap Locked : Search(h, f, {m}) # NotFound}]
      ELSE [ok |-> TRUE, k |-> lagrangeAt0(found),
            dead |-> (Enrolled(h) \ Readable(f)) \cup OffCurve(h, f, found)]

Polynomials == [1..(Need[Cardinality(Slots)] - 1) -> Coeffs]

Init ==
  /\ hash \in Hashes
  /\ factors \in [Slots -> Values]
  /\ Separable(factors)
  /\ k \in Keys
  /\ poly \in Polynomials
  /\ helper = Shared(k, poly, factors)
  /\ bound = factors

Drift(s) ==
  /\ \E v \in (Values \cup {Absent}) \ {factors[s]} :
       factors' = [factors EXCEPT ![s] = v]
  /\ UNCHANGED <<hash, helper, k, poly, bound>>

\* recoverCore and then refreshCore on the same readings.
Refresh ==
  LET r == recoverCore(helper, factors) IN
  /\ r.ok
  /\ Locked \subseteq Readable(factors)
  /\ Cardinality(Readable(factors)) > Cardinality(Locked)
  /\ Separable(factors)
  /\ poly' \in Polynomials
  /\ helper' = Shared(r.k, poly', factors)
  /\ bound' = factors
  /\ UNCHANGED <<hash, factors, k>>

Next == Refresh \/ \E s \in Slots : Drift(s)

Spec == Init /\ [][Next]_vars

-----------------------------------------------------------------------------
(* SecretSharing's view of the same helper. *)

Sharing == INSTANCE SecretSharing

Abstract(h) == [bound |-> [s \in Enrolled(h) |-> bound[s]],
                mandatory |-> Enrolled(h) \cap Locked, t |-> h.t]

\* core.go:773-909: what SecretSharing says recovers does recover, with the key
\* first dealt, however often it was dealt again, and a hard-locked slot it
\* blames for a failure is named.
KeyReturns ==
  LET r == recoverCore(helper, factors)
      h == Abstract(helper)
  IN  /\ Sharing!Recovers(h, factors) => r.ok /\ r.k = k
      /\ ~r.ok => Sharing!Blamed(h, factors) \subseteq r.missing

\* The share of s, which is present, lies on the polynomial dealt.
OnCurve(s) ==
  evaluate(k, poly, helper.t, deriveX(s, factors[s], helper.salt)) = helper.share[s]

\* core.go:882-906: no slot that SecretSharing counts correct is declared dead,
\* and a slot is dead exactly when it is absent or its share lies off the
\* polynomial dealt, if the recovering points lie on it.
DeadExact ==
  LET found == Search(helper, factors, {})
      r == recoverCore(helper, factors)
      h == Abstract(helper)
  IN  /\ Sharing!Recovers(h, factors) => r.dead \subseteq Sharing!Dead(h, factors)
      /\ Locked \subseteq Readable(factors) /\ found # NotFound
           /\ (\A p \in found : OnCurve(p.slot))
         => r.dead = {s \in Enrolled(helper) : factors[s] = Absent \/ ~OnCurve(s)}
=============================================================================
