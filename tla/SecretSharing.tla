---------------------------- MODULE SecretSharing ----------------------------
(***************************************************************************)
(* What the threshold scheme of slhwid/core.go computes, on sets of slots: *)
(* a helper binds slots to the factor values its shares were dealt for,    *)
(* and a factor is correct when it has the bound value.  A correct factor  *)
(* puts its point on the sharing polynomial; t points of it determine the  *)
(* key and any other t points miss the check word (SHA-256 collisions are  *)
(* left out).                                                              *)
(***************************************************************************)
EXTENDS Integers, FiniteSets

CONSTANTS
  Slots,   \* slot names, of every schema
  Secret,  \* "slstore", the module's own stored secret
  Absent   \* the value of a factor that cannot be read

ASSUME SlotsAssumption == IsFiniteSet(Slots) /\ Secret \in Slots

minimumFactors == 8

Larger(a, b)  == IF a < b THEN b ELSE a
Smaller(a, b) == IF a < b THEN a ELSE b

RoundedUp(n, num, den) == (num * n + den - 1) \div den

\* Mutant: 80% for every number of slots.
thresholdEighty(n, m) == Smaller(Larger(RoundedUp(n, 4, 5), m + 1), n)

\* 70% of the slots (80% below eight), at least one more than the mandatory.
threshold(n, m) ==
  Smaller(Larger(IF n < 8 THEN RoundedUp(n, 4, 5) ELSE RoundedUp(n, 7, 10),
                 m + 1),
          n)

thresholdDefined(n, m) == n >= minimumFactors /\ m < n

\* A helper: the slots with their bound values, the hard-locked ones and t.
Bound(h) == DOMAIN h.bound

Available(factors)  == {s \in DOMAIN factors : factors[s] # Absent}
Restricted(factors) == [s \in Available(factors) |-> factors[s]]

Present(h, factors) == Bound(h) \cap Available(factors)
Correct(h, factors) == {s \in Present(h, factors) : factors[s] = h.bound[s]}

\* findRecoveringSubset, for fewer than t mandatory points: all of them and
\* t - |mandatory| of the optional ones have to be correct.
FindsSubset(mandatory, optional, correct, t) ==
  /\ mandatory \subseteq correct
  /\ Cardinality(optional \cap correct) >= t - Cardinality(mandatory)

Finds(h, factors, dropped) ==
  FindsSubset((Present(h, factors) \cap h.mandatory) \ dropped,
              (Present(h, factors) \ h.mandatory) \ dropped,
              Correct(h, factors), h.t)

\* recoverCore.
MissingMandatory(h, factors) == h.mandatory \ Available(factors)

\* Mutant: a drift is blamed on every hard-locked slot.
CulpritsAll(h, factors) == h.mandatory

\* The hard-locked slots without which the rest of the machine recovers.
Culprits(h, factors) == {m \in h.mandatory : Finds(h, factors, {m})}

Recovers(h, factors) ==
  MissingMandatory(h, factors) = {} /\ Finds(h, factors, {})

\* The slots a failed recovery names; none when the machine has drifted.
Blamed(h, factors) ==
  IF MissingMandatory(h, factors) # {} THEN MissingMandatory(h, factors)
                                       ELSE Culprits(h, factors)

\* recoverCore's dead slots: enrolled, and absent or off the polynomial.
Dead(h, factors) == Bound(h) \ Correct(h, factors)

\* parseHelper accepts it.
Parses(h) ==
  /\ h.mandatory \subseteq Bound(h) /\ Secret \in h.mandatory
  /\ Cardinality(h.mandatory) < h.t /\ h.t <= Cardinality(Bound(h))
=============================================================================
