------------------------- MODULE SecretRecoveryProofs -------------------------
(***************************************************************************)
(* The key comes back.  For every field whose modulus is a prime, every    *)
(* set of slots, every threshold the code may choose and every coordinate  *)
(* function: as long as the slots with unchanged factors are those that    *)
(* SecretSharing asks for, recoverCore returns the key first dealt; and    *)
(* which slots it then declares dead.                                      *)
(***************************************************************************)
EXTENDS SecretRecovery, FieldArithmeticProofs

\* The helper is the latest dealing of the first key.
Dealt ==
  /\ hash \in Hashes /\ k \in Keys /\ poly \in Polynomials
  /\ factors \in [Slots -> Values \cup {Absent}]
  /\ bound \in [Slots -> Values \cup {Absent}]
  /\ Locked \subseteq Readable(bound) /\ Separable(bound)
  /\ Cardinality(Readable(bound)) > Cardinality(Locked)
  /\ helper = Shared(k, poly, bound)

\* core.go:157-178: what RecoveryAssumption asks of Need is what threshold gives
\* over any number of slots: more shares than hard locks, no more than slots, and
\* no more for fewer slots than for all of them.
THEOREM ThresholdFits ==
  \A m, n, all \in Nat : m < n /\ n <= all =>
    /\ Sharing!threshold(n, m) \in m + 1..n
    /\ Sharing!threshold(n, m) <= Sharing!threshold(all, m)
BY DEF Sharing!threshold, Sharing!Larger, Sharing!Smaller, Sharing!RoundedUp

-----------------------------------------------------------------------------
(* What a dealing has. *)

LEMMA FiniteSlots ==
  /\ \A S \in SUBSET Slots : IsFiniteSet(S) /\ Cardinality(S) \in Nat
  /\ \A S \in SUBSET Slots : Cardinality(S) <= Cardinality(Slots)
  /\ Cardinality(Locked) < Cardinality(Slots)
<1>1. IsFiniteSet(Slots) /\ Locked \in SUBSET Slots /\ Locked # Slots
  BY RecoveryAssumption
<1>2. \A S \in SUBSET Slots : IsFiniteSet(S) /\ Cardinality(S) \in Nat
                              /\ Cardinality(S) <= Cardinality(Slots)
  BY <1>1, FS_Subset, FS_CardinalityType
<1>3. Cardinality(Locked) # Cardinality(Slots)
  BY <1>1, FS_Subset
<1>4. Cardinality(Slots) \in Nat
  BY <1>1, FS_CardinalityType
<1> QED BY <1>1, <1>2, <1>3, <1>4

LEMMA SaltSeparates ==
  ASSUME NEW f, Separable(f)
  PROVE  SeparatingSalt(f) \in Salts /\ ~Collides(f, SeparatingSalt(f))
<1> DEFINE Apart == {salt \in Salts : ~Collides(f, salt)}
<1>1. Apart # {} /\ Apart \subseteq Nat
  BY RecoveryAssumption DEF Separable
<1>2. PICK salt \in Apart : \A r \in Apart : salt <= r
  <2> HIDE DEF Apart
  <2> QED BY <1>1, LeastOf
<1>3. salt \in Salts /\ ~Collides(f, salt) /\ \A r \in 0..(salt - 1) : Collides(f, r)
  <2>1. salt \in Salts /\ ~Collides(f, salt) /\ salt \in Nat
    BY <1>1
  <2>2. ASSUME NEW r \in 0..(salt - 1) PROVE Collides(f, r)
    <3>1. r \in Salts
      BY <2>1, RecoveryAssumption
    <3>2. r \in Nat /\ ~ (salt <= r)
      BY <2>1
    <3>3. ~ (r \in Apart)
      <4> HIDE DEF Apart
      <4> QED BY <1>2, <3>2
    <3> QED BY <3>1, <3>3
  <2> QED BY <2>1, <2>2
<1> QED BY <1>3 DEF SeparatingSalt

LEMMA Coordinates ==
  ASSUME hash \in Hashes, NEW f \in [Slots -> Values \cup {Absent}], NEW s \in Readable(f),
         NEW salt \in Salts
  PROVE  deriveX(s, f[s], salt) \in Field
<1>1. s \in Slots /\ f[s] \in Values
  BY DEF Readable
<1>2. hash \in [Slots \X Values \X Salts -> Field \ {0}]
  BY RecoveryAssumption
<1> QED BY <1>1, <1>2 DEF deriveX

LEMMA HelperIs ==
  ASSUME Dealt
  PROVE  /\ Enrolled(helper) = Readable(bound) /\ Enrolled(helper) \subseteq Slots
         /\ helper.cw = k /\ k \in Field
         /\ helper.salt \in Salts /\ ~Collides(bound, helper.salt)
         /\ helper.t \in Nat \ {0} /\ Cardinality(Locked) < helper.t
         /\ Locked \subseteq Enrolled(helper)
         /\ Coefficients(poly, helper.t)
         /\ \A s \in Enrolled(helper) :
              helper.share[s] = evaluate(k, poly, helper.t, deriveX(s, bound[s], helper.salt))
<1> DEFINE R == Readable(bound)  n == Cardinality(R)
<1>1. R \in SUBSET Slots /\ Locked \subseteq R /\ n > Cardinality(Locked)
  BY DEF Dealt, Readable
<1>2. n \in Cardinality(Locked) + 1..Cardinality(Slots)
      /\ Cardinality(Locked) \in Nat /\ Cardinality(Slots) \in Nat
  <2> HIDE DEF R
  <2> QED BY <1>1, FiniteSlots, RecoveryAssumption
<1> HIDE DEF n
<1>3. Need[n] \in Cardinality(Locked) + 1..n /\ Need[n] <= Need[Cardinality(Slots)]
  BY <1>2, RecoveryAssumption
<1>4. Need[Cardinality(Slots)] \in Nat
  <2>1. Cardinality(Slots) \in Cardinality(Locked) + 1..Cardinality(Slots)
    BY <1>2
  <2>2. Need[Cardinality(Slots)] \in Cardinality(Locked) + 1..Cardinality(Slots)
    BY <2>1, RecoveryAssumption
  <2> QED BY <1>2, <2>2
<1>5. helper = [salt |-> SeparatingSalt(bound), t |-> Need[n], cw |-> k,
                share |-> [s \in R |-> evaluate(k, poly, Need[n],
                                                deriveX(s, bound[s], SeparatingSalt(bound)))]]
  BY DEF Dealt, Shared, n
<1>6. SeparatingSalt(bound) \in Salts /\ ~Collides(bound, SeparatingSalt(bound))
  BY SaltSeparates DEF Dealt
<1>7. Coefficients(poly, Need[n])
  <2>1. poly \in [1..(Need[Cardinality(Slots)] - 1) -> Coeffs] /\ Coeffs \subseteq Field
    BY RecoveryAssumption DEF Dealt, Polynomials
  <2>2. \A j \in 1..(Need[n] - 1) : j \in 1..(Need[Cardinality(Slots)] - 1)
    BY <1>2, <1>3, <1>4
  <2> QED BY <2>1, <2>2 DEF Coefficients
<1>8. k \in Field
  BY RecoveryAssumption DEF Dealt
<1>9. Need[n] \in Nat \ {0} /\ Cardinality(Locked) < Need[n]
  BY <1>2, <1>3
<1>10. Enrolled(helper) = R
  BY <1>5 DEF Enrolled
<1> HIDE DEF R
<1> QED BY <1>1, <1>5, <1>6, <1>7, <1>8, <1>9, <1>10 DEF R

-----------------------------------------------------------------------------
(* Sets of points, and subsets of a given size. *)

LEMMA PointsOfSlots ==
  ASSUME NEW h, NEW f, NEW S \in SUBSET Slots
  PROVE  IsFiniteSet(Points(h, S, f)) /\ Cardinality(Points(h, S, f)) = Cardinality(S)
<1> DEFINE at == [s \in S |-> Point(h, s, f)]
<1>1. at \in Bijection(S, Points(h, S, f))
  <2>1. \A s, r \in S : at[s] = at[r] => s = r
    BY DEF Point
  <2>2. at \in [S -> Points(h, S, f)] /\ \A p \in Points(h, S, f) : \E s \in S : at[s] = p
    BY DEF Points
  <2> HIDE DEF at
  <2> QED BY <2>1, <2>2 DEF Bijection, Injection, Surjection, IsInjective
<1>2. ExistsBijection(S, Points(h, S, f))
  BY <1>1 DEF ExistsBijection
<1> QED BY <1>2, FiniteSlots, FS_Bijection

LEMMA SubsetOfSize ==
  ASSUME NEW S, IsFiniteSet(S), NEW n \in Nat, Cardinality(S) >= n
  PROVE  \E T \in SUBSET S : Cardinality(T) = n
<1> DEFINE Big == {T \in SUBSET S : Cardinality(T) >= n}
<1>1. PICK T \in Big : \A U \in Big : U \subseteq T => U = T
  <2>1. Big \subseteq SUBSET S /\ Big # {}
    OBVIOUS
  <2> HIDE DEF Big
  <2> QED BY <2>1, MinimalSet
<1>2. T \in SUBSET S /\ Cardinality(T) >= n /\ IsFiniteSet(T) /\ Cardinality(T) \in Nat
  BY FS_Subset, FS_CardinalityType
<1>3. ASSUME Cardinality(T) # n PROVE FALSE
  <2>1. T # {}
    BY <1>2, <1>3, FS_EmptySet
  <2>2. PICK x \in T : TRUE
    BY <2>1
  <2>3. Cardinality(T \ {x}) = Cardinality(T) - 1
    BY <1>2, FS_RemoveElement
  <2>4. T \ {x} \in Big
    BY <1>2, <1>3, <2>3
  <2> HIDE DEF Big
  <2> QED BY <1>1, <2>4
<1> QED BY <1>2, <1>3

\* Points of slots whose factors are those dealt lie apart and on the polynomial.
LEMMA CorrectPoints ==
  ASSUME PrimeField, Dealt,
         NEW S \in SUBSET Enrolled(helper),
         \A s \in S : factors[s] # Absent /\ factors[s] = bound[s],
         Cardinality(S) >= helper.t
  PROVE  lagrangeAt0(Points(helper, S, factors)) = k
<1> DEFINE P == Points(helper, S, factors)
<1>1. S \in SUBSET Slots /\ S \subseteq Readable(bound)
  BY HelperIs
<1>2. \A s \in S : /\ s \in Readable(factors)
                   /\ deriveX(s, factors[s], helper.salt) \in Field
                   /\ Point(helper, s, factors).x = deriveX(s, bound[s], helper.salt)
                   /\ Point(helper, s, factors).y = helper.share[s]
  <2>1. \A s \in S : s \in Readable(factors)
    BY <1>1 DEF Readable
  <2> QED BY <2>1, Coordinates, HelperIs DEF Dealt, Point
<1>3. PointsApart(P)
  <2>1. \A p \in P : \E s \in S : p = Point(helper, s, factors)
    BY DEF Points
  <2>2. IsFiniteSet(P)
    BY <1>1, PointsOfSlots
  <2>3. \A p \in P : p.x \in Field
    BY <1>2, <2>1
  <2>4. ASSUME NEW p \in P, NEW q \in P, p.x = q.x PROVE p = q
    <3>1. PICK s \in S : p = Point(helper, s, factors)
      BY <2>1
    <3>2. PICK r \in S : q = Point(helper, r, factors)
      BY <2>1
    <3>3. deriveX(s, bound[s], helper.salt) = deriveX(r, bound[r], helper.salt)
      BY <1>2, <2>4, <3>1, <3>2
    <3>4. s = r
      BY <1>1, <3>3, HelperIs DEF Collides
    <3> QED BY <3>1, <3>2, <3>4
  <2> HIDE DEF P
  <2> QED BY <2>2, <2>3, <2>4 DEF PointsApart
<1>4. \A p \in P : p.y = evaluate(k, poly, helper.t, p.x)
  <2>1. \A p \in P : \E s \in S : p = Point(helper, s, factors)
    BY DEF Points
  <2> HIDE DEF P
  <2> QED BY <1>2, <2>1, HelperIs
<1>5. Cardinality(P) >= helper.t
  BY <1>1, PointsOfSlots
<1> HIDE DEF P
<1>6. lagrangeAt0(P) = k
  BY <1>3, <1>4, <1>5, HelperIs, InterpolationExact
<1> QED BY <1>6 DEF P

-----------------------------------------------------------------------------
(* The search. *)

\* The instance counts as this module does.
LEMMA SameCount == \A S : Sharing!Cardinality(S) = Cardinality(S)
BY DEF Sharing!Cardinality, Cardinality

\* What is found has the check word, all mandatory points and t points at least.
LEMMA FoundIs ==
  ASSUME NEW h, NEW f, NEW D, Search(h, f, D) # NotFound,
         NEW M, M = Points(h, (Present(h, f) \cap Locked) \ D, f),
         NEW O, O = Points(h, (Present(h, f) \ Locked) \ D, f)
  PROVE  /\ lagrangeAt0(Search(h, f, D)) = h.cw
         /\ \E o \in SUBSET O :
              /\ Search(h, f, D) = M \cup o
              /\ Cardinality(o) = IF h.t - Cardinality(M) < 0 THEN 0 ELSE h.t - Cardinality(M)
<1> DEFINE need == IF h.t - Cardinality(M) < 0 THEN 0 ELSE h.t - Cardinality(M)
           hits == {pts \in {M \cup o : o \in kSubset(need, O)} : lagrangeAt0(pts) = h.cw}
<1>1. Search(h, f, D) = IF hits = {} THEN NotFound ELSE CHOOSE pts \in hits : TRUE
  BY DEF Search, FindRecoveringSubset, Missing
<1>2. Search(h, f, D) \in hits
  <2> HIDE DEF hits
  <2> QED BY <1>1
<1>3. \A o \in kSubset(need, O) : o \in SUBSET O /\ Cardinality(o) = need
  BY DEF kSubset
<1> QED BY <1>2, <1>3

\* What SecretSharing finds is found.
LEMMA SearchFinds ==
  ASSUME PrimeField, Dealt, NEW D,
         Sharing!Finds(Abstract(helper), factors, D)
  PROVE  Search(helper, factors, D) # NotFound
<1> DEFINE h == Abstract(helper)  C == Sharing!Correct(h, factors)
           A == (Present(helper, factors) \cap Locked) \ D
           B == (Present(helper, factors) \ Locked) \ D
           M == Points(helper, A, factors)  O == Points(helper, B, factors)
           need == IF helper.t - Cardinality(M) < 0 THEN 0 ELSE helper.t - Cardinality(M)
           hits == {pts \in {M \cup o : o \in kSubset(need, O)} : lagrangeAt0(pts) = helper.cw}
<1>1. DOMAIN factors = Slots /\ Enrolled(helper) \subseteq Slots /\ Locked \subseteq Enrolled(helper)
  BY HelperIs DEF Dealt
<1>2. /\ Sharing!Present(h, factors) = Present(helper, factors)
      /\ h.mandatory = Enrolled(helper) \cap Locked /\ h.t = helper.t
      /\ \A s \in Enrolled(helper) : h.bound[s] = bound[s]
  BY <1>1 DEF Abstract, Sharing!Present, Sharing!Bound, Sharing!Available, Present, Readable
<1>3. A \subseteq C /\ Cardinality(B \cap C) >= helper.t - Cardinality(A)
  <2>1. (Sharing!Present(h, factors) \cap h.mandatory) \ D = A
        /\ (Sharing!Present(h, factors) \ h.mandatory) \ D = B
    BY <1>2 DEF Present
  <2> HIDE DEF A, B, C, h
  <2>2. Sharing!FindsSubset(A, B, C, helper.t)
    BY <1>2, <2>1 DEF Sharing!Finds, h, C
  <2> QED BY <2>2, SameCount DEF Sharing!FindsSubset
<1>4. C \subseteq Enrolled(helper) /\ \A s \in C : factors[s] # Absent /\ factors[s] = bound[s]
  BY <1>2 DEF Sharing!Correct, Present, Readable
<1>5. /\ A \in SUBSET Slots /\ B \in SUBSET Slots /\ A \subseteq Locked /\ B \cap Locked = {}
      /\ B \cap C \in SUBSET Slots
  BY <1>1, RecoveryAssumption DEF Present
<1> HIDE DEF h, C, A, B
<1>6. /\ Cardinality(A) \in Nat /\ IsFiniteSet(A) /\ Cardinality(A) < helper.t
      /\ Cardinality(M) = Cardinality(A) /\ helper.t \in Nat
  <2>1. Locked \in SUBSET Slots
    BY RecoveryAssumption
  <2>2. Cardinality(A) <= Cardinality(Locked)
    BY <1>5, <2>1, FiniteSlots, FS_Subset
  <2> QED BY <1>5, <2>1, <2>2, FiniteSlots, HelperIs, PointsOfSlots
<1>7. need = helper.t - Cardinality(A) /\ need \in Nat \ {0}
  BY <1>6
<1> HIDE DEF need
<1>8. PICK S \in SUBSET (B \cap C) : Cardinality(S) = need
  <2> DEFINE E == B \cap C
  <2>1. IsFiniteSet(E) /\ Cardinality(E) >= need
    BY <1>3, <1>5, <1>7, FiniteSlots
  <2> HIDE DEF E
  <2>2. \E S \in SUBSET E : Cardinality(S) = need
    BY <1>7, <2>1, SubsetOfSize
  <2> QED BY <2>2 DEF E
<1>9. IsFiniteSet(S) /\ S \in SUBSET Slots /\ S \cap A = {}
  BY <1>5, FiniteSlots
<1>10. Cardinality(A \cup S) = helper.t
  <2>1. Cardinality(A \cup S) = Cardinality(A) + Cardinality(S) - Cardinality(A \cap S)
    BY <1>6, <1>9, FS_Union
  <2>2. Cardinality(A \cap S) = 0
    BY <1>9, FS_EmptySet
  <2> QED BY <1>6, <1>7, <1>8, <2>1, <2>2
<1>11. lagrangeAt0(Points(helper, A \cup S, factors)) = k
  <2>1. A \cup S \subseteq C
    BY <1>3
  <2>2. A \cup S \in SUBSET Enrolled(helper)
    BY <1>4, <2>1
  <2>3. helper.t >= helper.t
    BY <1>6
  <2> QED BY <1>4, <1>10, <2>1, <2>2, <2>3, CorrectPoints
<1>12. Points(helper, S, factors) \in kSubset(need, O)
  <2>1. Points(helper, S, factors) \subseteq O
    BY DEF Points
  <2>2. Cardinality(Points(helper, S, factors)) = need
    BY <1>8, <1>9, PointsOfSlots
  <2> QED BY <2>1, <2>2 DEF kSubset
<1>13. Points(helper, A \cup S, factors) = M \cup Points(helper, S, factors)
  BY DEF Points
<1>14. hits # {}
  <2>1. Points(helper, A \cup S, factors) \in {M \cup o : o \in kSubset(need, O)}
    BY <1>12, <1>13
  <2> QED BY <1>11, <2>1, HelperIs
<1>15. \A pts \in hits : pts # {}
  <2>1. \A o \in kSubset(need, O) : o # {}
    BY <1>7, FS_EmptySet DEF kSubset
  <2> QED BY <2>1
<1>16. Search(helper, factors, D) = IF hits = {} THEN NotFound ELSE CHOOSE pts \in hits : TRUE
  BY DEF Search, FindRecoveringSubset, Missing, A, B, need
<1> HIDE DEF hits
<1> QED BY <1>14, <1>15, <1>16 DEF NotFound

-----------------------------------------------------------------------------
(* The theorems. *)

LEMMA RecoveredKey ==
  ASSUME Dealt, recoverCore(helper, factors).ok
  PROVE  recoverCore(helper, factors).k = k
<1>1. Search(helper, factors, {}) # NotFound
      /\ recoverCore(helper, factors).k = lagrangeAt0(Search(helper, factors, {}))
  BY DEF recoverCore
<1> QED BY <1>1, FoundIs, HelperIs

\* The key comes back while SecretSharing says so.
LEMMA DealtReturns ==
  ASSUME PrimeField, Dealt
  PROVE  KeyReturns
<1> DEFINE h == Abstract(helper)  r == recoverCore(helper, factors)
           absent == (Enrolled(helper) \cap Locked) \ Readable(factors)
<1>1. Sharing!MissingMandatory(h, factors) = absent /\ h.mandatory = Enrolled(helper) \cap Locked
  <2>1. DOMAIN factors = Slots /\ Enrolled(helper) \subseteq Slots
    BY HelperIs DEF Dealt
  <2> QED BY <2>1 DEF Abstract, Sharing!MissingMandatory, Sharing!Available, Readable
<1> HIDE DEF h
<1>2. ASSUME Sharing!Recovers(h, factors) PROVE r.ok /\ r.k = k
  <2>1. absent = {} /\ Sharing!Finds(h, factors, {})
    BY <1>1, <1>2 DEF Sharing!Recovers
  <2>2. Search(helper, factors, {}) # NotFound
    BY <2>1, SearchFinds DEF h
  <2>3. r.ok
    BY <2>1, <2>2 DEF recoverCore
  <2> QED BY <2>3, RecoveredKey
<1>3. ASSUME ~r.ok PROVE Sharing!Blamed(h, factors) \subseteq r.missing
  <2>1. CASE absent # {}
    BY <1>1, <2>1 DEF recoverCore, Sharing!Blamed
  <2>2. CASE absent = {}
    <3>1. r.missing = {m \in Enrolled(helper) \cap Locked : Search(helper, factors, {m}) # NotFound}
      BY <1>3, <2>2 DEF recoverCore
    <3>2. Sharing!Blamed(h, factors)
            = {m \in Enrolled(helper) \cap Locked : Sharing!Finds(h, factors, {m})}
      BY <1>1, <2>2 DEF Sharing!Blamed, Sharing!Culprits
    <3> QED BY <3>1, <3>2, SearchFinds DEF h
  <2> QED BY <2>1, <2>2
<1> QED BY <1>2, <1>3 DEF KeyReturns, h

LEMMA DealtInit == Init => Dealt
<1> SUFFICES ASSUME Init PROVE Dealt
  OBVIOUS
<1>1. Readable(factors) = Slots
  BY RecoveryAssumption DEF Init, Readable
<1>2. Locked \subseteq Slots /\ Cardinality(Slots) > Cardinality(Locked)
  <2>1. Cardinality(Locked) \in Nat /\ Cardinality(Slots) \in Nat
    BY FiniteSlots, RecoveryAssumption
  <2> QED BY <2>1, FiniteSlots, RecoveryAssumption
<1> QED BY <1>1, <1>2 DEF Init, Dealt

\* A dealing depends on the coordinate function and what it is a dealing of.
CollidesBy(hs, f, salt) ==
  \E s, r \in Readable(f) : s # r /\ hs[<<s, f[s], salt>>] = hs[<<r, f[r], salt>>]

SeparatingSaltBy(hs, f) ==
  CHOOSE salt \in Salts :
    ~CollidesBy(hs, f, salt) /\ \A r \in 0..(salt - 1) : CollidesBy(hs, f, r)

SharedBy(hs, key, c, f) ==
  LET salt == SeparatingSaltBy(hs, f)
      t == Need[Cardinality(Readable(f))]
  IN  [salt |-> salt, t |-> t, cw |-> key,
       share |-> [s \in Readable(f) |-> evaluate(key, c, t, hs[<<s, f[s], salt>>])]]

SeparableBy(hs, f) == \E salt \in Salts : ~CollidesBy(hs, f, salt)

DealtBy(hs, f, h, key, c, b) ==
  /\ hs \in Hashes /\ key \in Keys /\ c \in Polynomials
  /\ f \in [Slots -> Values \cup {Absent}]
  /\ b \in [Slots -> Values \cup {Absent}]
  /\ Locked \subseteq Readable(b) /\ SeparableBy(hs, b)
  /\ Cardinality(Readable(b)) > Cardinality(Locked)
  /\ h = SharedBy(hs, key, c, b)

LEMMA DealtIs ==
  /\ Dealt <=> DealtBy(hash, factors, helper, k, poly, bound)
  /\ Dealt' <=> DealtBy(hash', factors', helper', k', poly', bound')
  /\ \A key, c, f : Shared(key, c, f) = SharedBy(hash, key, c, f)
  /\ \A f : Separable(f) <=> SeparableBy(hash, f)
BY DEF Dealt, DealtBy, Shared, SharedBy, SeparatingSalt, SeparatingSaltBy, Separable, SeparableBy,
   Collides, CollidesBy, deriveX, Readable, Polynomials

LEMMA DealtStep == Dealt /\ [Next]_vars => Dealt'
<1> SUFFICES ASSUME Dealt, [Next]_vars PROVE Dealt'
  OBVIOUS
<1>1. ASSUME NEW s \in Slots, Drift(s) PROVE Dealt'
  <2>1. UNCHANGED <<hash, helper, k, poly, bound>>
    BY <1>1 DEF Drift
  <2>2. factors' \in [Slots -> Values \cup {Absent}]
    BY <1>1 DEF Drift, Dealt
  <2>3. DealtBy(hash', factors', helper', k', poly', bound')
    BY <2>1, <2>2, DealtIs DEF DealtBy
  <2> QED BY <2>3, DealtIs
<1>2. ASSUME Refresh PROVE Dealt'
  <2>1. recoverCore(helper, factors).k = k
    BY <1>2, RecoveredKey DEF Refresh
  <2>2. /\ hash' = hash /\ factors' = factors /\ k' = k /\ bound' = factors
        /\ helper' = Shared(k, poly', factors) /\ poly' \in Polynomials
        /\ Locked \subseteq Readable(factors) /\ Separable(factors)
        /\ Cardinality(Readable(factors)) > Cardinality(Locked)
    BY <1>2, <2>1 DEF Refresh
  <2>3. hash \in Hashes /\ k \in Keys /\ factors \in [Slots -> Values \cup {Absent}]
    BY DEF Dealt
  <2>4. DealtBy(hash', factors', helper', k', poly', bound')
    BY <2>2, <2>3, DealtIs DEF DealtBy
  <2> QED BY <2>4, DealtIs
<1>3. ASSUME UNCHANGED vars PROVE Dealt'
  <2>1. /\ hash' = hash /\ factors' = factors /\ helper' = helper
        /\ k' = k /\ poly' = poly /\ bound' = bound
    BY <1>3 DEF vars
  <2> QED BY <2>1, DealtIs
<1> QED BY <1>1, <1>2, <1>3 DEF Next

\* core.go:773-952.  However factors drift and however often the key is dealt
\* again over what is then readable: the helper shares the key first dealt, and
\* whenever the hard-locked slots and enough others read as they did at the
\* latest dealing, that key is recovered; a hard-locked slot that SecretSharing
\* blames for a failure is named.
THEOREM KeyComesBack == ASSUME PrimeField PROVE Spec => []KeyReturns
<1>1. Init => Dealt
  BY DealtInit
<1>2. Dealt /\ [Next]_vars => Dealt'
  BY DealtStep
<1>3. Dealt => KeyReturns
  BY DealtReturns
<1> QED BY <1>1, <1>2, <1>3, PTL DEF Spec

\* DeadExact's verdict on each slot, when no two recovering points have one
\* coordinate: two that a drift has brought together do not determine a curve.
DeadApart ==
  LET found == Search(helper, factors, {})
  IN  Locked \subseteq Readable(factors) /\ found # NotFound
        /\ (\A p \in found : OnCurve(p.slot)) /\ PointsApart(found)
      => recoverCore(helper, factors).dead =
           {s \in Enrolled(helper) : factors[s] = Absent \/ ~OnCurve(s)}

\* Enough points are found to determine the polynomial they lie on.
LEMMA FoundDetermines ==
  ASSUME PrimeField, Dealt, Search(helper, factors, {}) # NotFound,
         \A p \in Search(helper, factors, {}) : OnCurve(p.slot),
         PointsApart(Search(helper, factors, {})), NEW x \in Field
  PROVE  evaluateAt(Search(helper, factors, {}), x) = evaluate(k, poly, helper.t, x)
<1> DEFINE P == Search(helper, factors, {})
           A == (Present(helper, factors) \cap Locked) \ {}
           B == (Present(helper, factors) \ Locked) \ {}
           M == Points(helper, A, factors)  O == Points(helper, B, factors)
<1>1. PICK o \in SUBSET O :
        /\ P = M \cup o
        /\ Cardinality(o) = IF helper.t - Cardinality(M) < 0 THEN 0 ELSE helper.t - Cardinality(M)
  <2>1. /\ M = Points(helper, (Present(helper, factors) \cap Locked) \ {}, factors)
        /\ O = Points(helper, (Present(helper, factors) \ Locked) \ {}, factors)
    OBVIOUS
  <2> HIDE DEF M, O
  <2> QED BY <2>1, FoundIs
<1>2. A \in SUBSET Slots /\ B \in SUBSET Slots /\ A \cap B = {}
  BY HelperIs DEF Present
<1>3. \A p \in P : \E s \in Slots : p = Point(helper, s, factors)
  BY <1>1, <1>2 DEF Points
<1>4. M \cap O = {}
  BY <1>2 DEF Points, Point
<1> HIDE DEF M, O, P
<1>5. IsFiniteSet(M) /\ IsFiniteSet(o) /\ IsFiniteSet(P)
  <2>1. IsFiniteSet(P)
    BY DEF PointsApart, P
  <2> QED BY <1>1, <2>1, FS_Subset
<1>6. Cardinality(P) >= helper.t
  <2>1. Cardinality(P) = Cardinality(M) + Cardinality(o) - Cardinality(M \cap o)
    BY <1>1, <1>5, FS_Union
  <2>2. Cardinality(M \cap o) = 0
    BY <1>1, <1>4, FS_EmptySet
  <2>3. helper.t \in Nat /\ Cardinality(M) \in Nat
    BY <1>5, HelperIs, FS_CardinalityType
  <2> QED BY <1>1, <2>1, <2>2, <2>3
<1>7. \A p \in P : p.y = evaluate(k, poly, helper.t, p.x)
  BY <1>3 DEF OnCurve, Point, P
<1>8. helper.t \in Nat \ {0} /\ Coefficients(poly, helper.t) /\ k \in Field /\ PointsApart(P)
  BY HelperIs DEF P
<1>9. evaluateAt(P, x) = evaluate(k, poly, helper.t, x)
  BY <1>6, <1>7, <1>8, InterpolationExact
<1> QED BY <1>9 DEF P

LEMMA DealtDecides ==
  ASSUME PrimeField, Dealt
  PROVE  DeadApart
<1> DEFINE P == Search(helper, factors, {})
<1> SUFFICES ASSUME Locked \subseteq Readable(factors), P # NotFound,
                    \A p \in P : OnCurve(p.slot), PointsApart(P)
             PROVE  recoverCore(helper, factors).dead
                      = {s \in Enrolled(helper) : factors[s] = Absent \/ ~OnCurve(s)}
  BY DEF DeadApart
<1>1. recoverCore(helper, factors).dead
        = (Enrolled(helper) \ Readable(factors)) \cup OffCurve(helper, factors, P)
  BY DEF recoverCore
<1>2. Enrolled(helper) \subseteq Slots
  BY HelperIs
<1>3. ASSUME NEW s \in Present(helper, factors)
      PROVE  /\ evaluateAt(P, deriveX(s, factors[s], helper.salt)) = helper.share[s] <=> OnCurve(s)
             /\ Point(helper, s, factors) \in P => OnCurve(s)
  <2>1. deriveX(s, factors[s], helper.salt) \in Field
    BY Coordinates, HelperIs DEF Dealt, Present
  <2>2. evaluateAt(P, deriveX(s, factors[s], helper.salt))
          = evaluate(k, poly, helper.t, deriveX(s, factors[s], helper.salt))
    BY <2>1, FoundDetermines
  <2>3. Point(helper, s, factors).slot = s
    BY DEF Point
  <2> HIDE DEF P
  <2> QED BY <2>2, <2>3 DEF OnCurve
<1> HIDE DEF P
<1>4. OffCurve(helper, factors, P) = {s \in Present(helper, factors) : ~OnCurve(s)}
  BY <1>3 DEF OffCurve
<1>5. \A s \in Enrolled(helper) : s \in Present(helper, factors) <=> factors[s] # Absent
  BY <1>2 DEF Present, Readable
<1>6. \A s \in Enrolled(helper) : s \in Readable(factors) <=> factors[s] # Absent
  BY <1>2 DEF Readable
<1>7. Present(helper, factors) \subseteq Enrolled(helper)
  BY DEF Present
<1> QED BY <1>1, <1>4, <1>5, <1>6, <1>7

\* core.go:882-906.  A slot is declared dead exactly when it is absent or its
\* share lies off the polynomial dealt, if the recovering points lie on it and
\* apart: evaluateAt then returns what the polynomial has at the slot.
THEOREM DeadSlotsExact == ASSUME PrimeField PROVE Spec => []DeadApart
<1>1. Init => Dealt
  BY DealtInit
<1>2. Dealt /\ [Next]_vars => Dealt'
  BY DealtStep
<1>3. Dealt => DeadApart
  BY DealtDecides
<1> QED BY <1>1, <1>2, <1>3, PTL DEF Spec

\* The points found are on the polynomial dealt, and apart: no subset matched
\* the check word by chance, and no drift brought two coordinates together.
Genuine ==
  LET found == Search(helper, factors, {})
  IN  Locked \subseteq Readable(factors) /\ found # NotFound
        => (\A p \in found : OnCurve(p.slot)) /\ PointsApart(found)

\* Then no slot that SecretSharing counts correct is declared dead either.
LEMMA DealtSpares ==
  ASSUME PrimeField, Dealt, Genuine
  PROVE  DeadExact
<1> DEFINE P == Search(helper, factors, {})  r == recoverCore(helper, factors)
           h == Abstract(helper)
           dead == {s \in Enrolled(helper) : factors[s] = Absent \/ ~OnCurve(s)}
<1>1. ASSUME Locked \subseteq Readable(factors), P # NotFound PROVE r.dead = dead
  BY <1>1, DealtDecides DEF DeadApart, Genuine
<1>2. ASSUME Sharing!Recovers(h, factors) PROVE r.dead \subseteq Sharing!Dead(h, factors)
  <2>1. DOMAIN factors = Slots /\ Enrolled(helper) \subseteq Slots /\ Locked \subseteq Enrolled(helper)
    BY HelperIs DEF Dealt
  <2>2. Locked \subseteq Readable(factors)
    BY <1>2, <2>1 DEF Abstract, Sharing!Recovers, Sharing!MissingMandatory,
                      Sharing!Available, Readable
  <2>3. P # NotFound
    <3>1. Sharing!Finds(h, factors, {})
      BY <1>2 DEF Sharing!Recovers
    <3> HIDE DEF h
    <3> QED BY <3>1, SearchFinds DEF h
  <2>4. r.dead = dead
    BY <1>1, <2>2, <2>3
  <2>5. DOMAIN h.bound = Enrolled(helper) /\ \A s \in Enrolled(helper) : h.bound[s] = bound[s]
    BY DEF Abstract
  <2>6. \A s \in Sharing!Correct(h, factors) :
          s \in Enrolled(helper) /\ factors[s] # Absent /\ factors[s] = bound[s]
    BY <2>5 DEF Sharing!Correct, Sharing!Present, Sharing!Available, Sharing!Bound
  <2>7. \A s \in Enrolled(helper) : factors[s] = bound[s] => OnCurve(s)
    BY HelperIs DEF OnCurve
  <2> HIDE DEF h, r, P
  <2> QED BY <2>4, <2>5, <2>6, <2>7 DEF Sharing!Dead, Sharing!Bound
<1>3. QED
  BY <1>1, <1>2 DEF DeadExact

\* core.go:882-906.  Both verdicts of DeadExact, a slot with an unchanged factor
\* spared among them, wherever the points found are genuine.
THEOREM LiveSlotsSpared == ASSUME PrimeField PROVE Spec => [](Genuine => DeadExact)
<1>1. Init => Dealt
  BY DealtInit
<1>2. Dealt /\ [Next]_vars => Dealt'
  BY DealtStep
<1>3. Dealt => (Genuine => DeadExact)
  BY DealtSpares
<1> QED BY <1>1, <1>2, <1>3, PTL DEF Spec
=============================================================================
