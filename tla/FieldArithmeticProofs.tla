------------------------ MODULE FieldArithmeticProofs ------------------------
(***************************************************************************)
(* The sums, differences and products of slhwid/core.go are those of the   *)
(* field, for every even radix: for 2^31 with words of 64 bits as for the  *)
(* small ones that TLC computes with.  No intermediate result wraps where  *)
(* the code relies on it not to.  Where the prime is one, invmod inverts   *)
(* and both interpolations return what the polynomial dealt has there.     *)
(*                                                                         *)
(* Induction is by the least counterexample: a nonempty set of numbers has *)
(* a least one, and one of finite sets has no other below it.              *)
(***************************************************************************)
EXTENDS FieldArithmetic, TLAPS, FiniteSetTheorems

\* Half the radix: 2^30.
H == Radix \div 2

-----------------------------------------------------------------------------
(* Remainders. *)

\* A remainder is known by its range and by what it differs by.
LEMMA FieldRemainder ==
  ASSUME NEW m \in Nat \ {0}, NEW r \in 0..(m - 1), NEW q \in Int
  PROVE  (r + q * m) % m = r /\ (r + q * m) \div m = q
<1> DEFINE n == r + q * m
           d == n \div m
<1>1. n \in Int /\ d \in Int /\ n % m \in 0..(m - 1) /\ n = m * d + (n % m)
  OBVIOUS
<1>2. r - (n % m) = m * (d - q)
  BY <1>1
<1>3. CASE d - q >= 1
  <2>1. m * (d - q) >= m
    BY <1>1, <1>3
  <2> QED BY <1>1, <1>2, <2>1
<1>4. CASE d - q <= -1
  <2>1. m * (d - q) <= -m
    BY <1>1, <1>4
  <2> QED BY <1>1, <1>2, <2>1
<1>5. CASE d = q
  BY <1>1, <1>2, <1>5
<1> QED BY <1>1, <1>3, <1>4, <1>5

\* Every integer is a remainder and a multiple.
LEMMA Division ==
  ASSUME NEW m \in Nat \ {0}, NEW n \in Int
  PROVE  /\ n % m \in 0..(m - 1) /\ n \div m \in Int
         /\ n = (n % m) + (n \div m) * m
OBVIOUS

\* A multiple more or less does not change the remainder.
LEMMA SameRemainder ==
  ASSUME NEW m \in Nat \ {0}, NEW x \in Int, NEW y \in Int, NEW q \in Int, x = y + q * m
  PROVE  x % m = y % m
<1>1. y % m \in 0..(m - 1) /\ y \div m \in Int /\ y = (y % m) + (y \div m) * m
  BY Division
<1>2. x = (y % m) + (y \div m + q) * m
  <2>1. ASSUME NEW a \in Int, NEW b \in Int, NEW c \in Int PROVE (b + c) * a = b * a + c * a
    OBVIOUS
  <2> QED BY <1>1, <2>1
<1>3. y \div m + q \in Int
  BY <1>1
<1> QED BY <1>1, <1>2, <1>3, FieldRemainder

\* The sum of remainders has the remainder of the sum.
LEMMA SumRemainder ==
  ASSUME NEW m \in Nat \ {0}, NEW x \in Int, NEW y \in Int
  PROVE  ((x % m) + (y % m)) % m = (x + y) % m
<1> DEFINE a == x % m  b == y % m  c == x \div m  d == y \div m
<1>1. a \in Int /\ b \in Int /\ c \in Int /\ d \in Int /\ x = a + c * m /\ y = b + d * m
  BY Division
<1> HIDE DEF a, b, c, d
<1>2. x + y = (a + b) + (c + d) * m
  <2>1. (c + d) * m = c * m + d * m
    BY <1>1
  <2> QED BY <1>1, <2>1
<1>3. x + y \in Int /\ a + b \in Int /\ c + d \in Int
  BY <1>1
<1>4. (x + y) % m = (a + b) % m
  BY ONLY m \in Nat \ {0}, <1>2, <1>3, SameRemainder
<1> QED BY <1>4 DEF a, b

-----------------------------------------------------------------------------
(* The widths. *)

\* The prime and the word by the halved radix.
LEMMA Widths ==
  /\ H \in Nat /\ H > 2 /\ Radix = 2 * H
  /\ prime = 2 * (H * H) - 1 /\ prime \in Nat /\ prime > 8
  /\ 4 * Radix * Radix = 8 * (prime + 1) /\ Radix * Radix = 2 * (prime + 1)
  /\ Radix * H = prime + 1
<1>1. H \in Nat /\ H > 2 /\ Radix = 2 * H
  BY RadixAssumption DEF H
<1>2. H * H \in Nat /\ H * H >= 3 * H /\ Radix * Radix = 4 * (H * H) /\ Radix * H = 2 * (H * H)
      /\ 4 * Radix * Radix = 16 * (H * H)
  BY <1>1
<1>3. prime = 2 * (H * H) - 1
  <2> DEFINE s == H * H
  <2>1. s \in Nat /\ Radix * Radix = 4 * s
    BY <1>2
  <2> HIDE DEF s
  <2>2. (4 * s) \div 2 = 2 * s
    BY <2>1
  <2> QED BY <2>1, <2>2 DEF prime, s
<1> QED BY <1>1, <1>2, <1>3

\* A word holds what is less than eight times the prime and one.
LEMMA Unwrapped ==
  ASSUME NEW x \in Nat, x < 8 * (prime + 1)
  PROVE  Wrapped(x) = x
<1>1. 8 * (prime + 1) \in Nat \ {0} /\ x \in 0..(8 * (prime + 1) - 1)
  BY Widths
<1>2. x % (8 * (prime + 1)) = x
  <2> DEFINE w == 8 * (prime + 1)
  <2>1. w \in Nat \ {0} /\ x \in 0..(w - 1)
    BY <1>1
  <2> HIDE DEF w
  <2>2. (x + 0 * w) % w = x
    BY <2>1, FieldRemainder
  <2>3. x + 0 * w = x
    BY <2>1
  <2> QED BY <2>2, <2>3 DEF w
<1> QED BY <1>2, Widths DEF Wrapped

\* The remainder by the prime, where it is the value itself.
LEMMA InField == \A x \in Field : x % prime = x
<1> SUFFICES ASSUME NEW x \in Field PROVE x % prime = x
  OBVIOUS
<1>1. prime \in Nat \ {0} /\ x \in 0..(prime - 1) /\ x + 0 * prime = x
  BY Widths DEF Field
<1> QED BY <1>1, FieldRemainder

\* The prime more or less does not change the remainder.
LEMMA PrimeLess == \A x \in Int : (x - prime) % prime = x % prime
<1> SUFFICES ASSUME NEW x \in Int PROVE (x - prime) % prime = x % prime
  OBVIOUS
<1> DEFINE y == x - prime
           q == -1
<1>1. prime \in Nat \ {0} /\ y \in Int /\ q \in Int /\ y = x + q * prime
  BY Widths
<1> HIDE DEF y, q
<1>2. y % prime = x % prime
  BY ONLY <1>1, x \in Int, SameRemainder
<1> QED BY <1>2 DEF y

-----------------------------------------------------------------------------
(* Sums and differences. *)

\* What is at most the prime too large is brought back by one subtraction.
LEMMA OneSubtraction ==
  ASSUME NEW s \in Nat, s < 2 * prime
  PROVE  /\ (IF s >= prime THEN s - prime ELSE s) = s % prime
         /\ s % prime \in Field
<1>0. prime \in Nat \ {0}
  BY Widths
<1>1. CASE s >= prime
  <2>1. s - prime \in Field
    BY <1>0, <1>1 DEF Field
  <2>2. s % prime = (s - prime) % prime
    BY PrimeLess
  <2> QED BY <1>1, <2>1, <2>2, InField
<1>2. CASE s < prime
  <2>1. s \in Field /\ ~(s >= prime)
    BY <1>0, <1>2 DEF Field
  <2> QED BY <2>1, InField
<1> QED BY <1>0, <1>1, <1>2

(***************************************************************************)
(* core.go:29-35 "no overflow": a sum of two elements is their sum in the  *)
(* field.                                                                  *)
(***************************************************************************)
THEOREM SumExact ==
  \A a, b \in Field : addmod(a, b) \in Field /\ addmod(a, b) = (a + b) % prime
<1> SUFFICES ASSUME NEW a \in Field, NEW b \in Field
             PROVE  addmod(a, b) \in Field /\ addmod(a, b) = (a + b) % prime
  OBVIOUS
<1>1. a + b \in Nat /\ a + b < 2 * prime /\ a + b < 8 * (prime + 1)
  BY Widths DEF Field
<1> DEFINE s == a + b
<1>2. s \in Nat /\ s < 2 * prime /\ s < 8 * (prime + 1)
  BY <1>1
<1>3. addmod(a, b) = (IF Wrapped(s) >= prime THEN Wrapped(s) - prime ELSE Wrapped(s))
  BY DEF addmod
<1> HIDE DEF s
<1>4. addmod(a, b) = s % prime /\ s % prime \in Field
  BY <1>2, <1>3, Unwrapped, OneSubtraction
<1> QED BY <1>4 DEF s

(***************************************************************************)
(* core.go:37-42: a difference of two elements is their difference in the  *)
(* field; the sum it borrows from does not overflow.                       *)
(***************************************************************************)
THEOREM DifferenceExact ==
  \A a, b \in Field : submod(a, b) \in Field /\ submod(a, b) = (a - b) % prime
<1> SUFFICES ASSUME NEW a \in Field, NEW b \in Field
             PROVE  submod(a, b) \in Field /\ submod(a, b) = (a - b) % prime
  OBVIOUS
<1>0. prime \in Nat \ {0} /\ a \in Nat /\ b \in Nat /\ a < prime /\ b < prime
  BY Widths DEF Field
<1>1. CASE a >= b
  <2>1. a - b \in Field
    BY <1>0, <1>1 DEF Field
  <2> QED BY <1>1, <2>1, InField DEF submod
<1>2. CASE a < b
  <2>1. a + prime \in Nat /\ a + prime < 8 * (prime + 1) /\ ~(a >= b)
    BY <1>0, <1>2
  <2> DEFINE s == a + prime
  <2>2. submod(a, b) = Wrapped(s) - b
    BY <2>1 DEF submod
  <2>3. s \in Nat /\ s < 8 * (prime + 1)
    BY <2>1
  <2>4. s - b \in Field /\ s - b \in Int /\ (s - b) - prime = a - b
    BY <1>0, <1>2 DEF Field
  <2> HIDE DEF s
  <2>5. submod(a, b) = s - b
    BY <2>2, <2>3, Unwrapped
  <2>6. (a - b) % prime = (s - b) % prime
    BY <2>4, PrimeLess
  <2> QED BY <2>4, <2>5, <2>6, InField
<1> QED BY <1>0, <1>1, <1>2

-----------------------------------------------------------------------------
(* Products. *)

(***************************************************************************)
(* core.go:44-51 "reduces any x < 2^64 into [0, prime)": one partial       *)
(* reduction and one subtraction do, for every word.                       *)
(***************************************************************************)
THEOREM ReductionExact ==
  \A x \in Nat : x < 8 * (prime + 1) => red64(x) \in Field /\ red64(x) = x % prime
<1> SUFFICES ASSUME NEW x \in Nat, x < 8 * (prime + 1)
             PROVE  red64(x) \in Field /\ red64(x) = x % prime
  OBVIOUS
<1> DEFINE l == x % (prime + 1)  h == x \div (prime + 1)
<1>0. prime \in Nat \ {0} /\ prime > 8 /\ prime + 1 \in Nat \ {0}
  BY Widths
<1>1. l \in 0..prime /\ h \in Int /\ x = l + h * (prime + 1)
  <2> DEFINE m == prime + 1
  <2>1. m \in Nat \ {0} /\ x \in Int
    BY <1>0
  <2> HIDE DEF m
  <2>2. x % m \in 0..(m - 1) /\ x \div m \in Int /\ x = (x % m) + (x \div m) * m
    BY <2>1, Division
  <2> QED BY <1>0, <2>2 DEF m
<1> HIDE DEF l, h
<1>2. h \in 0..7
  <2>1. h >= 0
    <3>1. ASSUME h <= -1 PROVE FALSE
      <4>1. h * (prime + 1) <= -(prime + 1)
        BY <1>0, <1>1, <3>1
      <4> QED BY <1>0, <1>1, <4>1
    <3> QED BY <1>1, <3>1
  <2>2. h < 8
    <3>1. ASSUME h >= 8 PROVE FALSE
      <4>1. h * (prime + 1) >= 8 * (prime + 1)
        BY <1>0, <1>1, <3>1
      <4> QED BY <1>0, <1>1, <4>1
    <3> QED BY <1>1, <3>1
  <2> QED BY <1>1, <2>1, <2>2
<1>3. l + h \in Nat /\ l + h < 2 * prime /\ l + h < 8 * (prime + 1)
  BY <1>0, <1>1, <1>2
<1>4. red64(x) = (IF Wrapped(l + h) >= prime THEN Wrapped(l + h) - prime ELSE Wrapped(l + h))
  BY DEF red64, l, h
<1>5. red64(x) = (l + h) % prime /\ red64(x) \in Field
  <2> DEFINE s == l + h
  <2> HIDE DEF s
  <2>1. s \in Nat /\ s < 2 * prime /\ s < 8 * (prime + 1)
    BY <1>3 DEF s
  <2>2. red64(x) = (IF Wrapped(s) >= prime THEN Wrapped(s) - prime ELSE Wrapped(s))
    BY <1>4 DEF s
  <2>3. red64(x) = s % prime /\ s % prime \in Field
    BY <2>1, <2>2, Unwrapped, OneSubtraction
  <2> QED BY <2>3 DEF s
<1>6. x = (l + h) + h * prime
  <2>1. h * (prime + 1) = h * prime + h
    BY <1>0, <1>1
  <2> QED BY <1>0, <1>1, <2>1
<1>7. x % prime = (l + h) % prime
  <2>1. x \in Int /\ l + h \in Int /\ h \in Int
    BY <1>1, <1>3
  <2> QED BY ONLY <1>0, <1>6, <2>1, SameRemainder
<1> QED BY <1>5, <1>7
\* A number below n times the radix is a low and a high half.
LEMMA Halves ==
  ASSUME NEW x \in Nat, NEW n \in Nat, x < n * Radix
  PROVE  /\ LowHalf(x) \in 0..(Radix - 1) /\ HighHalf(x) \in 0..(n - 1)
         /\ x = LowHalf(x) + HighHalf(x) * Radix
<1> DEFINE l == x % Radix  h == x \div Radix
<1>0. Radix \in Nat \ {0}
  BY RadixAssumption
<1>1. l \in 0..(Radix - 1) /\ h \in Int /\ x = l + h * Radix
  BY <1>0, Division
<1> HIDE DEF l, h
<1>2. ASSUME h <= -1 PROVE FALSE
  <2>1. h * Radix <= -Radix
    BY <1>0, <1>1, <1>2
  <2> QED BY <1>0, <1>1, <2>1
<1>3. ASSUME h >= n PROVE FALSE
  <2>1. h * Radix >= n * Radix
    BY <1>0, <1>1, <1>3
  <2> QED BY <1>0, <1>1, <2>1
<1>4. h \in 0..(n - 1)
  BY <1>1, <1>2, <1>3
<1> QED BY <1>1, <1>4 DEF l, h, LowHalf, HighHalf

\* Products of bounded factors.
LEMMA Bounded ==
  ASSUME NEW m \in Nat, NEW n \in Nat, NEW x \in 0..m, NEW y \in 0..n
  PROVE  x * y \in 0..(m * n)
<1>1. x * y >= 0 /\ x * y <= m * y /\ m * y <= m * n /\ x * y \in Int /\ m * n \in Int
  <2>1. ASSUME NEW i \in Nat, NEW j \in Nat, NEW k \in Nat, i <= j PROVE i * k <= j * k /\ i * k >= 0
    BY <2>1
  <2>2. x \in Nat /\ y \in Nat /\ x <= m /\ y <= n /\ m * y = y * m /\ m * n = n * m
    OBVIOUS
  <2> QED BY <2>1, <2>2
<1> QED BY <1>1

\* Four half products make the product.
LEMMA HalfProducts ==
  ASSUME NEW al \in Int, NEW ah \in Int, NEW bl \in Int, NEW bh \in Int, NEW r \in Int
  PROVE  (al + ah * r) * (bl + bh * r) = al * bl + (al * bh + ah * bl) * r + (ah * bh) * (r * r)
OBVIOUS

\* A carry weighs two: the square of the radix is two more than a multiple of the prime.
LEMMA CarriesFolded ==
  ASSUME NEW ll \in Int, NEW tl \in Int, NEW th \in Int, NEW hh \in Int, NEW r \in Int,
         NEW p \in Int, r * r = 2 * (p + 1)
  PROVE  ll + (tl + th * r) * r + hh * (r * r)
           = (ll + tl * r + th * 2 + hh * 2) + (2 * th + 2 * hh) * p
<1>1. (tl + th * r) * r = tl * r + th * (r * r)
  OBVIOUS
<1>2. th * (r * r) = th * 2 + (2 * th) * p /\ hh * (r * r) = hh * 2 + (2 * hh) * p
  <2>1. ASSUME NEW x \in Int PROVE x * (2 * (p + 1)) = x * 2 + (2 * x) * p
    OBVIOUS
  <2> QED BY <2>1
<1>3. (2 * th + 2 * hh) * p = (2 * th) * p + (2 * hh) * p
  OBVIOUS
<1>4. ASSUME NEW a \in Int, NEW b \in Int, NEW c \in Int, NEW d \in Int, NEW e \in Int, NEW f \in Int
      PROVE  a + (b + (c + d)) + (e + f) = (a + b + c + e) + (d + f)
  OBVIOUS
<1> QED BY <1>1, <1>2, <1>3, <1>4

\* Sums of what was reduced.
LEMMA ReducedSum ==
  \A x, y \in Int : addmod(x % prime, y % prime) = (x + y) % prime
<1> SUFFICES ASSUME NEW x \in Int, NEW y \in Int
             PROVE  addmod(x % prime, y % prime) = (x + y) % prime
  OBVIOUS
<1>1. prime \in Nat \ {0}
  BY Widths
<1>2. x % prime \in Field /\ y % prime \in Field
  BY <1>1, Division DEF Field
<1>3. addmod(x % prime, y % prime) = ((x % prime) + (y % prime)) % prime
  BY <1>2, SumExact
<1> QED BY <1>1, <1>3, SumRemainder

\* A value that fits in a word is reduced whole.
LEMMA WholeReduced ==
  \A x \in Nat : x < 8 * (prime + 1) => red64(Wrapped(x)) = x % prime /\ Wrapped(x) = x
BY Unwrapped, ReductionExact

(***************************************************************************)
(* core.go:53-69: a product of two elements, put together from four half   *)
(* products with each carry and partial reduction where the code has it,   *)
(* is their product in the field; none of the words overflows.             *)
(***************************************************************************)
THEOREM ProductExact ==
  \A a, b \in Field : mulmod(a, b) \in Field /\ mulmod(a, b) = (a * b) % prime
<1> SUFFICES ASSUME NEW a \in Field, NEW b \in Field
             PROVE  mulmod(a, b) \in Field /\ mulmod(a, b) = (a * b) % prime
  OBVIOUS
<1> DEFINE alo == LowHalf(a)  ahi == HighHalf(a)
           blo == LowHalf(b)  bhi == HighHalf(b)
           ll == alo * blo
           t  == alo * bhi + ahi * blo
           hh == ahi * bhi
           tl == LowHalf(t)  th == HighHalf(t)
<1>0. /\ prime \in Nat \ {0} /\ Radix \in Nat /\ H \in Nat /\ H <= prime
      /\ Radix * Radix = 2 * (prime + 1) /\ H * Radix = prime + 1 /\ Radix * H = prime + 1
      /\ 2 * (H * H) = prime + 1
  <2>1. H * H >= H
    BY Widths
  <2> QED BY Widths, <2>1
<1>1. /\ alo \in 0..(Radix - 1) /\ ahi \in 0..(H - 1) /\ a = alo + ahi * Radix
      /\ blo \in 0..(Radix - 1) /\ bhi \in 0..(H - 1) /\ b = blo + bhi * Radix
  <2>1. a \in Nat /\ b \in Nat /\ a < H * Radix /\ b < H * Radix
    BY <1>0 DEF Field
  <2> QED BY <1>0, <2>1, Halves
<1> HIDE DEF alo, ahi, blo, bhi
<1>2. /\ alo \in 0..Radix /\ blo \in 0..Radix /\ ahi \in 0..H /\ bhi \in 0..H
  BY <1>0, <1>1
<1>3. /\ ll \in 0..(Radix * Radix) /\ hh \in 0..(H * H)
      /\ alo * bhi \in 0..(Radix * H) /\ ahi * blo \in 0..(H * Radix)
  BY <1>0, <1>2, Bounded
<1>4. /\ ll \in Nat /\ ll < 8 * (prime + 1) /\ t \in Nat /\ t <= 2 * (prime + 1)
      /\ hh \in Nat /\ 2 * hh <= prime + 1
  BY <1>0, <1>3
<1> HIDE DEF ll, t, hh
<1>5. /\ tl \in 0..(Radix - 1) /\ th \in 0..(2 * H) /\ t = tl + th * Radix
  <2> DEFINE n == 2 * H + 1
  <2>1. n \in Nat /\ n * Radix = 2 * (H * Radix) + Radix
    BY <1>0
  <2>2. t < n * Radix
    BY <1>0, <1>4, <2>1, RadixAssumption
  <2>3. n - 1 = 2 * H
    BY <1>0
  <2> HIDE DEF n
  <2>4. tl \in 0..(Radix - 1) /\ th \in 0..(n - 1) /\ t = tl + th * Radix
    BY <1>4, <2>1, <2>2, Halves
  <2> QED BY <2>3, <2>4
<1> HIDE DEF tl, th
<1>6. tl * Radix \in 0..(Radix * Radix)
  <2>1. tl \in 0..Radix /\ Radix \in 0..Radix
    BY <1>0, <1>5
  <2> QED BY <1>0, <2>1, Bounded
<1> DEFINE tr == tl * Radix
           c == th * 2
           g == hh * 2
<1>7. /\ tr \in Nat /\ tr < 8 * (prime + 1) /\ c \in Nat /\ c < 8 * (prime + 1)
      /\ g \in Nat /\ g < 8 * (prime + 1)
  BY <1>0, <1>4, <1>5, <1>6
<1>8. mulmod(a, b) = addmod(addmod(addmod(red64(Wrapped(ll)), red64(Wrapped(tr))), red64(Wrapped(c))),
                            red64(Wrapped(g)))
  <2>1. Wrapped(t) = t /\ Wrapped(hh) = hh
    <3>1. t < 8 * (prime + 1) /\ hh < 8 * (prime + 1)
      BY <1>0, <1>4
    <3> QED BY <1>4, <3>1, WholeReduced
  <2>2. mulmod(a, b) =
          addmod(addmod(addmod(red64(Wrapped(ll)), red64(Wrapped(LowHalf(Wrapped(t)) * Radix))),
                        red64(Wrapped(HighHalf(Wrapped(t)) * 2))),
                 red64(Wrapped(Wrapped(hh) * 2)))
    BY DEF mulmod, ll, t, hh, alo, ahi, blo, bhi
  <2> QED BY <2>1, <2>2 DEF tl, th
<1> HIDE DEF tr, c, g
<1>9. mulmod(a, b) = (ll + tr + c + g) % prime
  <2>1. mulmod(a, b) = addmod(addmod(addmod(ll % prime, tr % prime), c % prime), g % prime)
    BY <1>4, <1>7, <1>8, WholeReduced
  <2>2. ll \in Int /\ tr \in Int /\ c \in Int /\ g \in Int /\ ll + tr \in Int /\ ll + tr + c \in Int
    BY <1>4, <1>7
  <2> QED BY <2>1, <2>2, ReducedSum
<1>10. a * b = (ll + tr + c + g) + (2 * th + 2 * hh) * prime
  <2>1. a * b = ll + t * Radix + hh * (Radix * Radix)
    <3>1. alo \in Int /\ ahi \in Int /\ blo \in Int /\ bhi \in Int /\ Radix \in Int
      BY <1>0, <1>1
    <3> QED BY <1>1, <3>1, HalfProducts DEF ll, t, hh
  <2>2. ll \in Int /\ tl \in Int /\ th \in Int /\ hh \in Int /\ Radix \in Int /\ prime \in Int
    BY <1>0, <1>4, <1>5
  <2> QED BY <1>0, <1>5, <2>1, <2>2, CarriesFolded DEF tr, c, g
<1>11. (a * b) % prime = (ll + tr + c + g) % prime
  <2> DEFINE x == a * b
             y == ll + tr + c + g
             q == 2 * th + 2 * hh
  <2>1. x \in Int /\ y \in Int /\ q \in Int /\ x = y + q * prime
    BY <1>1, <1>4, <1>5, <1>7, <1>10 DEF Field
  <2> HIDE DEF x, y, q
  <2>2. x % prime = y % prime
    BY ONLY <1>0, <2>1, SameRemainder
  <2> QED BY <2>2 DEF x, y
<1>12. (ll + tr + c + g) % prime \in Field
  BY <1>0, <1>4, <1>7, Division DEF Field
<1> QED BY <1>9, <1>11, <1>12

\* Every set of numbers has a least one (induction, as the provers can use it).
LEMMA LeastOf ==
  ASSUME NEW S, S \subseteq Nat, S # {}
  PROVE  \E n \in S : \A m \in S : n <= m
<1> DEFINE Below(n) == 0..(n - 1)
           T == {Below(n) : n \in S}
<1>1. IsWellFoundedOn(StrictSubsetOrdering(Nat), FiniteSubsetsOf(Nat))
  BY FS_StrictSubsetOrderingWellFounded
<1>2. T \subseteq FiniteSubsetsOf(Nat) /\ T # {}
  <2>1. \A n \in S : IsFiniteSet(0..(n - 1))
    BY FS_Interval
  <2>2. \A n \in S : 0..(n - 1) \in FiniteSubsetsOf(Nat)
    BY <2>1 DEF FiniteSubsetsOf
  <2> QED BY <2>2
<1>3. PICK x \in T : \A y \in T : ~ (<<y, x>> \in StrictSubsetOrdering(Nat))
  <2> HIDE DEF T
  <2> QED BY <1>1, <1>2, WFMin
<1>4. PICK n \in S : x = Below(n)
  OBVIOUS
<1>5. ASSUME NEW m \in S, m < n PROVE FALSE
  <2>1. Below(m) \subseteq Below(n) /\ Below(m) # Below(n) /\ Below(m) \in T
    <3>1. m \in Below(n) /\ m \notin Below(m)
      BY <1>5
    <3> QED BY <3>1, <1>5
  <2>2. Below(m) \subseteq Nat /\ Below(n) \subseteq Nat
    OBVIOUS
  <2> HIDE DEF T
  <2>3. ~ (<<Below(m), x>> \in StrictSubsetOrdering(Nat))
    BY <2>1, <1>3
  <2> QED BY <2>1, <2>2, <2>3, <1>4 DEF StrictSubsetOrdering
<1> QED BY <1>4, <1>5

-----------------------------------------------------------------------------
(* Inverses. *)

\* The prime is one.
PrimeField == \A d \in 2..(prime - 1) : prime % d # 0

\* One turn of the loop keeps the state one.
LEMMA StepState ==
  ASSUME NEW s \in EuclidState, s.low > 1
  PROVE  /\ euclidStep(s) \in EuclidState
         /\ euclidStep(s).low = s.high % s.low /\ euclidStep(s).low < s.low
         /\ s.high = euclidStep(s).low + (s.high \div s.low) * s.low
<1> DEFINE n == s.low  h == s.high  q == h \div n  m == h % n
<1>1. n \in Nat \ {0} /\ h \in Nat /\ s.lm \in Int /\ s.hm \in Int
  BY DEF EuclidState
<1>2. m \in 0..(n - 1) /\ q \in Int /\ h = m + q * n
  <2> HIDE DEF n, h
  <2> QED BY <1>1, Division
<1>3. h - n * q = m
  <2> HIDE DEF n, h, q, m
  <2> QED BY <1>1, <1>2
<1>4. s.hm - s.lm * q \in Int
  BY <1>1, <1>2
<1> QED BY <1>1, <1>2, <1>3, <1>4 DEF euclidStep, EuclidState

\* What the loop from s on returns, as a run of it.
Returns(run, n, v) ==
  /\ \A i \in 0..(n - 1) : run[i].low > 1 /\ run[i + 1] = euclidStep(run[i])
  /\ run[n].low <= 1 /\ v = run[n].lm

Results(s) ==
  {v \in Int : \E n \in Nat, run \in [Nat -> EuclidState] : run[0] = s /\ Returns(run, n, v)}

Loop == [s \in EuclidState |-> CHOOSE v : v \in Results(s)]

\* At the end the loop returns the coefficient of a.
LEMMA ResultsAtEnd ==
  ASSUME NEW s \in EuclidState, s.low <= 1
  PROVE  Results(s) = {s.lm}
<1>1. ASSUME NEW v \in Results(s) PROVE v = s.lm
  <2>1. PICK n \in Nat, run \in [Nat -> EuclidState] : run[0] = s /\ Returns(run, n, v)
    BY DEF Results
  <2>2. n = 0
    <3> SUFFICES ASSUME n # 0 PROVE FALSE
      OBVIOUS
    <3>1. 0 \in 0..(n - 1)
      OBVIOUS
    <3>2. run[0].low > 1
      BY <2>1, <3>1 DEF Returns
    <3> QED BY <2>1, <3>2 DEF EuclidState
  <2> QED BY <2>1, <2>2 DEF Returns
<1>2. s.lm \in Results(s)
  <2> DEFINE run == [i \in Nat |-> s]
  <2>1. run \in [Nat -> EuclidState] /\ run[0] = s
    OBVIOUS
  <2>2. Returns(run, 0, s.lm)
    BY <2>1 DEF Returns
  <2>3. s.lm \in Int
    BY DEF EuclidState
  <2> HIDE DEF run
  <2> QED BY <2>1, <2>2, <2>3 DEF Results
<1> QED BY <1>1, <1>2

\* Before, it returns what it returns after a turn.
LEMMA ResultsAfterStep ==
  ASSUME NEW s \in EuclidState, s.low > 1
  PROVE  Results(s) = Results(euclidStep(s))
<1>0. euclidStep(s) \in EuclidState
  BY StepState
<1>1. ASSUME NEW v \in Results(s) PROVE v \in Results(euclidStep(s))
  <2>1. PICK n \in Nat, run \in [Nat -> EuclidState] : run[0] = s /\ Returns(run, n, v)
    BY DEF Results
  <2>2. n # 0
    BY <2>1 DEF Returns, EuclidState
  <2> DEFINE rest == [i \in Nat |-> run[i + 1]]
  <2>3. rest \in [Nat -> EuclidState] /\ n - 1 \in Nat
    BY <2>2
  <2>4. rest[0] = euclidStep(s)
    <3>1. 0 \in 0..(n - 1)
      BY <2>2
    <3> QED BY <2>1, <3>1 DEF Returns
  <2>5. Returns(rest, n - 1, v)
    <3>1. ASSUME NEW i \in 0..(n - 1 - 1) PROVE rest[i].low > 1 /\ rest[i + 1] = euclidStep(rest[i])
      <4>1. i + 1 \in 0..(n - 1) /\ i \in Nat /\ i + 1 \in Nat
        BY <2>3
      <4> QED BY <2>1, <4>1 DEF Returns
    <3>2. rest[n - 1] = run[n]
      BY <2>3
    <3> QED BY <2>1, <3>1, <3>2 DEF Returns
  <2> HIDE DEF rest
  <2> QED BY <2>3, <2>4, <2>5 DEF Results
<1>2. ASSUME NEW v \in Results(euclidStep(s)) PROVE v \in Results(s)
  <2>1. PICK n \in Nat, run \in [Nat -> EuclidState] :
          run[0] = euclidStep(s) /\ Returns(run, n, v)
    BY DEF Results
  <2> DEFINE whole == [i \in Nat |-> IF i = 0 THEN s ELSE run[i - 1]]
  <2>2. whole \in [Nat -> EuclidState] /\ whole[0] = s /\ n + 1 \in Nat
    OBVIOUS
  <2>3. Returns(whole, n + 1, v)
    <3>1. ASSUME NEW i \in 0..(n + 1 - 1)
          PROVE whole[i].low > 1 /\ whole[i + 1] = euclidStep(whole[i])
      <4>1. CASE i = 0
        BY <2>1, <4>1
      <4>2. CASE i # 0
        <5>1. i - 1 \in 0..(n - 1) /\ i \in Nat /\ i + 1 \in Nat /\ i - 1 \in Nat /\ (i - 1) + 1 = i
              /\ (i + 1) - 1 = i
          BY <4>2
        <5>2. whole[i] = run[i - 1] /\ whole[i + 1] = run[i]
          BY <4>2, <5>1
        <5>3. run[i - 1].low > 1 /\ run[(i - 1) + 1] = euclidStep(run[i - 1])
          BY <2>1, <5>1 DEF Returns
        <5> QED BY <5>1, <5>2, <5>3
      <4> QED BY <4>1, <4>2
    <3>2. whole[n + 1] = run[n]
      OBVIOUS
    <3> HIDE DEF whole
    <3> QED BY <2>1, <3>1, <3>2 DEF Returns
  <2>4. v \in Int
    BY DEF Results
  <2> HIDE DEF whole
  <2> QED BY <2>2, <2>3, <2>4 DEF Results
<1> QED BY <1>1, <1>2

\* euclid is the function its recursive definition describes.
LEMMA EuclidUnfolds ==
  ASSUME NEW s \in EuclidState
  PROVE  euclid[s] = IF s.low <= 1 THEN s.lm ELSE euclid[euclidStep(s)]
<1> DEFINE Fix(f) == f = [r \in EuclidState |-> IF r.low <= 1 THEN r.lm ELSE f[euclidStep(r)]]
<1>1. ASSUME NEW r \in EuclidState
      PROVE Loop[r] = IF r.low <= 1 THEN r.lm ELSE Loop[euclidStep(r)]
  <2>1. CASE r.low <= 1
    BY <2>1, ResultsAtEnd DEF Loop
  <2>2. CASE ~(r.low <= 1)
    <3>1. r.low > 1
      BY <2>2 DEF EuclidState
    <3>2. euclidStep(r) \in EuclidState /\ Results(r) = Results(euclidStep(r))
      BY <3>1, StepState, ResultsAfterStep
    <3> QED BY <2>2, <3>2 DEF Loop
  <2> QED BY <2>1, <2>2
<1>2. Fix(Loop)
  <2>1. Loop = [r \in EuclidState |-> Loop[r]]
    BY DEF Loop
  <2> QED BY <1>1, <2>1
<1>3. euclid = CHOOSE f : Fix(f)
  BY Zenon DEF euclid
<1>4. Fix(euclid)
  <2> HIDE DEF Fix
  <2> QED BY <1>2, <1>3
<1> QED BY <1>4

\* What every state of the loop for the inverse of a satisfies.
Congruent(c, r, a) == \E e \in Int : c * a = r + e * prime

Determined(s) ==
  \/ s.lm >= 0 /\ s.hm <= 0 /\ s.lm * s.high - s.hm * s.low = prime
  \/ s.lm <= 0 /\ s.hm >= 0 /\ s.hm * s.low - s.lm * s.high = prime

EuclidInv(s, a) ==
  /\ s \in EuclidState /\ 0 < s.low /\ s.low < s.high /\ s.high <= prime
  /\ Congruent(s.lm, s.low, a) /\ Congruent(s.hm, s.high, a)
  /\ Determined(s)

\* The loop starts in such a state.
LEMMA EuclidStarts ==
  ASSUME NEW a \in Field, a # 0
  PROVE  EuclidInv([lm |-> 1, hm |-> 0, low |-> a, high |-> prime], a)
<1>1. prime \in Nat /\ a \in Nat /\ 0 < a /\ a < prime
  BY Widths DEF Field
<1>2. 1 * a = a + 0 * prime /\ 0 * a = prime + (-1) * prime
  BY <1>1
<1>3. 1 * prime - 0 * a = prime
  BY <1>1
<1> QED BY <1>1, <1>2, <1>3 DEF EuclidInv, EuclidState, Congruent, Determined

\* The arithmetic of a turn of the loop.
LEMMA CongruentStep ==
  ASSUME NEW a \in Int, NEW q \in Int, NEW l \in Int, NEW h \in Int, NEW n \in Int, NEW m \in Int,
         Congruent(l, n, a), Congruent(h, m + q * n, a)
  PROVE  Congruent(h - l * q, m, a)
<1>1. PICK e \in Int : l * a = n + e * prime
  BY DEF Congruent
<1>2. PICK d \in Int : h * a = m + q * n + d * prime
  BY DEF Congruent
<1>3. prime \in Int
  BY Widths
<1>4. (h - l * q) * a = h * a - q * (l * a)
  OBVIOUS
<1>5. q * (n + e * prime) = q * n + (q * e) * prime
  BY <1>3
<1>6. (d - q * e) * prime = d * prime - (q * e) * prime
  BY <1>3
<1>7. (h - l * q) * a = m + (d - q * e) * prime
  BY <1>1, <1>2, <1>3, <1>4, <1>5, <1>6
<1> QED BY <1>7 DEF Congruent

LEMMA DeterminantStep ==
  ASSUME NEW q \in Int, NEW l \in Int, NEW h \in Int, NEW n \in Int, NEW m \in Int
  PROVE  (h - l * q) * n - l * m = h * n - l * (m + q * n)
OBVIOUS

\* One turn of the loop goes on towards 1, as no remainder divides the prime.
LEMMA EuclidGoesOn ==
  ASSUME PrimeField, NEW a \in Field, NEW s, EuclidInv(s, a), s.low > 1
  PROVE  EuclidInv(euclidStep(s), a)
<1> DEFINE t == euclidStep(s)  n == s.low  h == s.high  q == h \div n  m == t.low  l == s.lm  k == s.hm
<1>1. /\ t \in EuclidState /\ m < n /\ h = m + q * n
      /\ t.high = n /\ t.hm = l /\ t.lm = k - l * q
  BY StepState DEF EuclidInv, euclidStep
<1>2. /\ l \in Int /\ k \in Int /\ n \in Nat /\ h \in Nat /\ m \in Nat /\ q \in Int /\ a \in Int
      /\ prime \in Nat /\ 1 < n /\ n < h /\ h <= prime
  <2>1. q \in Int
    BY DEF EuclidInv, EuclidState
  <2> QED BY <2>1, <1>1, Widths DEF EuclidInv, EuclidState, Field
<1>3. Congruent(l, n, a) /\ Congruent(k, h, a)
  BY DEF EuclidInv
<1>4. \/ l >= 0 /\ k <= 0 /\ l * h - k * n = prime
      \/ l <= 0 /\ k >= 0 /\ k * n - l * h = prime
  BY DEF EuclidInv, Determined
<1> HIDE DEF n, h, q, m, l, k
<1>5. q >= 0
  <2> SUFFICES ASSUME q <= -1 PROVE FALSE
    BY <1>2
  <2>1. q * n <= (-1) * n
    BY <1>2
  <2> QED BY <1>1, <1>2, <2>1
<1>6. Congruent(k - l * q, m, a)
  <2>1. Congruent(k, m + q * n, a)
    BY <1>1, <1>3
  <2>2. m \in Int /\ n \in Int /\ q \in Int /\ l \in Int /\ k \in Int /\ a \in Int
    BY <1>2
  <2> QED BY <1>3, <2>1, <2>2, CongruentStep, Zenon
<1>7. (k - l * q) * n - l * m = k * n - l * h
  BY <1>1, <1>2, DeterminantStep
<1>8. k - l * q \in Int /\ l * q \in Int /\ l * m \in Int /\ (l >= 0 => l * q >= 0) /\ (l <= 0 => l * q <= 0)
  BY <1>2, <1>5
<1>9. \/ k - l * q <= 0 /\ l >= 0 /\ l * m - (k - l * q) * n = prime
      \/ k - l * q >= 0 /\ l <= 0 /\ (k - l * q) * n - l * m = prime
  BY <1>2, <1>4, <1>7, <1>8
<1>10. m # 0
  <2> SUFFICES ASSUME m = 0 PROVE FALSE
    OBVIOUS
  <2>1. PICK d \in Int : prime = 0 + d * n
    <3> DEFINE v == k - l * q
    <3>1. prime = v * n \/ prime = (-v) * n
      <4> HIDE DEF v
      <4>1. v \in Int
        BY <1>8 DEF v
      <4>2. prime = v * n \/ prime = 0 - v * n
        BY <1>2, <1>9, <4>1 DEF v
      <4> QED BY <4>1, <4>2, <1>2
    <3>2. v \in Int /\ -v \in Int
      BY <1>8
    <3>3. \A c \in Int : 0 + c * n = c * n
      BY <1>2
    <3> HIDE DEF v
    <3>4. CASE prime = v * n
      BY <3>2, <3>3, <3>4
    <3>5. CASE prime = (-v) * n
      <4> DEFINE w == -v
      <4>1. w \in Int /\ prime = w * n
        BY <3>2, <3>5
      <4> HIDE DEF w
      <4> QED BY <3>3, <4>1
    <3> QED BY <3>1, <3>4, <3>5
  <2>2. n \in Nat \ {0} /\ 0 \in 0..(n - 1)
    BY <1>2
  <2>3. prime % n = 0
    BY <2>1, <2>2, FieldRemainder
  <2>4. n \in 2..(prime - 1)
    BY <1>2
  <2> QED BY <2>3, <2>4 DEF PrimeField
<1>11. Determined(t)
  BY <1>1, <1>2, <1>9 DEF Determined, m
<1>12. Congruent(t.lm, t.low, a) /\ Congruent(t.hm, t.high, a)
  BY <1>1, <1>3, <1>6 DEF m
<1> QED BY <1>1, <1>2, <1>10, <1>11, <1>12 DEF EuclidInv, m

\* The coefficients, and the product a turn subtracts, stay within the prime:
\* the loop's int64 do not overflow.
LEMMA CoefficientsFit ==
  ASSUME NEW a \in Field, NEW s, EuclidInv(s, a)
  PROVE  s.lm \in (-prime + 1)..(prime - 1) /\ s.hm \in -prime..prime
<1> DEFINE n == s.low  h == s.high  l == s.lm  k == s.hm
<1>1. /\ l \in Int /\ k \in Int /\ n \in Nat /\ h \in Nat /\ prime \in Nat /\ prime > 8
      /\ 0 < n /\ n < h /\ h <= prime
      /\ \/ l >= 0 /\ k <= 0 /\ l * h - k * n = prime
         \/ l <= 0 /\ k >= 0 /\ k * n - l * h = prime
  BY Widths DEF EuclidInv, EuclidState, Determined
<1> HIDE DEF n, h, l, k
<1> SUFFICES l \in (-prime + 1)..(prime - 1) /\ k \in -prime..prime
  BY DEF l, k
<1>2. CASE l >= 0 /\ k <= 0 /\ l * h - k * n = prime
  <2>1. l * h >= l * 2 /\ (-k) * n >= -k /\ (-k) * n = - (k * n)
    BY <1>1, <1>2
  <2>2. l * h \in Int /\ k * n \in Int
    BY <1>1
  <2> QED BY <1>1, <1>2, <2>1, <2>2
<1>3. CASE l <= 0 /\ k >= 0 /\ k * n - l * h = prime
  <2>1. (-l) * h >= (-l) * 2 /\ k * n >= k /\ (-l) * h = - (l * h)
    BY <1>1, <1>3
  <2>2. l * h \in Int /\ k * n \in Int
    BY <1>1
  <2> QED BY <1>1, <1>3, <2>1, <2>2
<1> QED BY <1>1, <1>2, <1>3

Inverts(v, a) == v \in (-prime + 1)..(prime - 1) /\ Congruent(v, 1, a)

\* At remainder 1 the coefficient is an inverse, perhaps negative.
LEMMA EuclidEnds ==
  ASSUME NEW a \in Field, NEW s, EuclidInv(s, a), s.low <= 1
  PROVE  Inverts(s.lm, a)
<1>1. s.low = 1
  BY DEF EuclidInv, EuclidState
<1> QED BY <1>1, CoefficientsFit DEF Inverts, EuclidInv

\* Induction on the remainder: the state with the least one that goes wrong
\* cannot be the last, and after a turn it has a lesser one.
LEMMA EuclidInverts ==
  ASSUME PrimeField, NEW a \in Field, NEW s, EuclidInv(s, a)
  PROVE  Inverts(euclid[s], a)
<1> DEFINE Wrong(r) == EuclidInv(r, a) /\ ~Inverts(euclid[r], a)
           Lows == {n \in Nat : \E r \in EuclidState : r.low = n /\ Wrong(r)}
<1>1. SUFFICES ASSUME Lows # {} PROVE FALSE
  <2>1. s \in EuclidState /\ s.low \in Nat
    BY DEF EuclidInv, EuclidState
  <2> QED BY <1>1, <2>1
<1>2. PICK n \in Lows : \A m \in Lows : n <= m
  <2>1. Lows \subseteq Nat
    OBVIOUS
  <2> HIDE DEF Lows
  <2> QED BY <1>1, <2>1, LeastOf
<1>3. PICK r \in EuclidState : r.low = n /\ Wrong(r)
  OBVIOUS
<1>4. r.low > 1
  <2> SUFFICES ASSUME r.low <= 1 PROVE FALSE
    BY <1>3 DEF EuclidState
  <2>1. euclid[r] = r.lm
    BY <1>3, EuclidUnfolds
  <2> QED BY <1>3, <2>1, EuclidEnds
<1> DEFINE t == euclidStep(r)
<1>5. t \in EuclidState /\ t.low < n /\ EuclidInv(t, a) /\ euclid[r] = euclid[t]
  <2>1. t \in EuclidState /\ t.low < r.low
    BY <1>3, <1>4, StepState
  <2>2. EuclidInv(t, a)
    BY <1>3, <1>4, EuclidGoesOn
  <2>3. euclid[r] = euclid[t]
    <3>1. ~(r.low <= 1)
      BY <1>3, <1>4 DEF EuclidState
    <3> QED BY <1>3, <3>1, EuclidUnfolds
  <2> QED BY <1>3, <2>1, <2>2, <2>3
<1>6. t.low \in Nat /\ n \in Nat
  BY <1>5 DEF EuclidState
<1> HIDE DEF t
<1>7. t.low \in Lows
  BY <1>3, <1>5, <1>6
<1> QED BY <1>2, <1>5, <1>6, <1>7

\* The product with a number congruent to 1.
LEMMA InverseProduct ==
  ASSUME NEW a \in Field, NEW v \in Int, NEW e \in Int, v * a = 1 + e * prime
  PROVE  (a * v) % prime = 1
<1>1. prime \in Nat \ {0} /\ 1 \in 0..(prime - 1) /\ a \in Int
  BY Widths DEF Field
<1>2. a * v = 1 + e * prime
  BY <1>1
<1> QED BY <1>1, <1>2, FieldRemainder

(***************************************************************************)
(* core.go:71-84: invmod inverts every element but zero, though Euclid's   *)
(* coefficients become negative on the way, wherever the prime is one.     *)
(***************************************************************************)
THEOREM InverseExact ==
  PrimeField => \A a \in Field \ {0} : invmod(a) \in Field /\ mulmod(a, invmod(a)) = 1
<1> SUFFICES ASSUME PrimeField, NEW a \in Field, a # 0
             PROVE  invmod(a) \in Field /\ mulmod(a, invmod(a)) = 1
  OBVIOUS
<1> DEFINE lm == euclid[[lm |-> 1, hm |-> 0, low |-> a, high |-> prime]]
           v == invmod(a)
<1>0. prime \in Nat /\ prime > 8 /\ a \in Nat
  BY Widths DEF Field
<1>1. Inverts(lm, a)
  BY EuclidStarts, EuclidInverts
<1>2. PICK e \in Int : lm * a = 1 + e * prime
  BY <1>1 DEF Inverts, Congruent
<1>3. lm \in (-prime + 1)..(prime - 1) /\ v = (IF lm < 0 THEN lm + prime ELSE lm)
  BY <1>1 DEF Inverts, invmod
<1> HIDE DEF lm, v
<1>4. v \in Field
  BY <1>0, <1>3 DEF Field
<1>5. (a * v) % prime = 1
  <2>1. CASE lm < 0
    <3>1. (lm + prime) * a = lm * a + a * prime /\ (e + a) * prime = e * prime + a * prime
      BY <1>0, <1>2, <1>3
    <3>2. v * a = 1 + (e + a) * prime
      <4>1. lm * a \in Int /\ a * prime \in Int /\ e * prime \in Int
        BY <1>0, <1>3
      <4> QED BY <1>2, <1>3, <2>1, <3>1, <4>1
    <3>3. v \in Int /\ e + a \in Int
      BY <1>0, <1>4 DEF Field
    <3> QED BY <3>2, <3>3, InverseProduct
  <2>2. CASE ~(lm < 0)
    BY <1>2, <1>3, <2>2, InverseProduct
  <2> QED BY <2>1, <2>2
<1>6. mulmod(a, v) = (a * v) % prime
  BY <1>4, ProductExact
<1> QED BY <1>4, <1>5, <1>6 DEF v

(***************************************************************************)
(* core.go:29-84: so every operation on every element is the field's, as   *)
(* run Recovery finds on words of 10 bits.                                 *)
(***************************************************************************)
THEOREM ArithmeticExact == PrimeField => \A a \in Field : ExactAt(a)
<1> SUFFICES ASSUME PrimeField, NEW a \in Field PROVE ExactAt(a)
  OBVIOUS
<1>1. ASSUME a # 0 PROVE invmod(a) \in Field /\ (a * invmod(a)) % prime = 1
  <2>1. invmod(a) \in Field /\ mulmod(a, invmod(a)) = 1
    BY <1>1, InverseExact
  <2> QED BY <2>1, ProductExact
<1> QED BY <1>1, SumExact, DifferenceExact, ProductExact DEF ExactAt

-----------------------------------------------------------------------------
(* Folds over finite sets. *)

\* Of finite sets, one has no other below it (induction on finite sets).
LEMMA MinimalSet ==
  ASSUME NEW S, IsFiniteSet(S), NEW B, B \subseteq SUBSET S, B # {}
  PROVE  \E T \in B : \A U \in B : U \subseteq T => U = T
<1>1. IsWellFoundedOn(StrictSubsetOrdering(S), FiniteSubsetsOf(S))
  BY FS_StrictSubsetOrderingWellFounded
<1>2. B \subseteq FiniteSubsetsOf(S)
  BY FS_FiniteSubsetsOfFinite
<1>3. PICK T \in B : \A U \in B : ~ (<<U, T>> \in StrictSubsetOrdering(S))
  BY <1>1, <1>2, WFMin
<1> QED BY <1>3 DEF StrictSubsetOrdering

\* The element the library's folds take first.
One(s) == CHOOSE x \in s : TRUE

\* Commutative and associative operations, as functions.
Operations ==
  {o \in [Field -> [Field -> Field]] :
     /\ \A a, b \in Field : o[a][b] = o[b][a]
     /\ \A a, b, c \in Field : o[a][o[b][c]] = o[o[a][b]][c]}

\* it is what folding f from base with o gives, on every subset of S.
FoldsAt(it, o, base, f, s) ==
  it[s] = IF s = {} THEN base ELSE o[f[One(s)]][it[s \ {One(s)}]]

Folded(it, o, base, f, S) ==
  it \in [SUBSET S -> Field] /\ \A s \in SUBSET S : FoldsAt(it, o, base, f, s)

\* The element that the library takes first is one.
LEMMA OneIn == ASSUME NEW s, s # {} PROVE One(s) \in s
BY DEF One

\* There is a function that folds every subset (induction on their size).
LEMMA FoldExists ==
  ASSUME NEW S, IsFiniteSet(S), NEW f \in [S -> Field], NEW base \in Field,
         NEW o \in [Field -> [Field -> Field]]
  PROVE  \E it : Folded(it, o, base, f, S)
<1> DEFINE Upto(it, n) ==
             /\ it \in [SUBSET S -> Field]
             /\ \A s \in SUBSET S : Cardinality(s) <= n => FoldsAt(it, o, base, f, s)
           Bad == {n \in Nat : ~ \E it : Upto(it, n)}
<1>0. \A s \in SUBSET S : IsFiniteSet(s) /\ Cardinality(s) \in Nat
  BY FS_Subset, FS_CardinalityType
<1>1. ASSUME Bad # {} PROVE FALSE
  <2>1. PICK n \in Bad : \A m \in Bad : n <= m
    <3>1. Bad \subseteq Nat
      OBVIOUS
    <3> HIDE DEF Bad
    <3> QED BY <1>1, <3>1, LeastOf
  <2>2. CASE n = 0
    <3> DEFINE it == [s \in SUBSET S |-> base]
    <3>1. ASSUME NEW s \in SUBSET S, Cardinality(s) <= 0 PROVE s = {}
      BY <1>0, <3>1, FS_EmptySet
    <3>2. Upto(it, 0)
      BY <3>1 DEF FoldsAt
    <3> QED BY <2>1, <2>2, <3>2
  <2>3. CASE n # 0
    <3>0. n \in Nat
      OBVIOUS
    <3>1. n - 1 \in Nat /\ n - 1 \notin Bad
      <4> HIDE DEF Bad
      <4> QED BY <2>1, <2>3, <3>0
    <3>2. PICK old : Upto(old, n - 1)
      BY <3>1
    <3> DEFINE it == [s \in SUBSET S |->
                        IF Cardinality(s) = n THEN o[f[One(s)]][old[s \ {One(s)}]] ELSE old[s]]
    <3>3. ASSUME NEW s \in SUBSET S, s # {}
          PROVE  /\ One(s) \in S /\ s \ {One(s)} \in SUBSET S
                 /\ Cardinality(s \ {One(s)}) = Cardinality(s) - 1
                 /\ o[f[One(s)]][old[s \ {One(s)}]] \in Field
      <4>1. One(s) \in s
        BY <3>3, OneIn
      <4>2. Cardinality(s \ {One(s)}) = Cardinality(s) - 1
        BY <1>0, <4>1, FS_RemoveElement
      <4> HIDE DEF Bad
      <4>3. s \ {One(s)} \in SUBSET S
        OBVIOUS
      <4>4. f[One(s)] \in Field /\ old[s \ {One(s)}] \in Field
        BY <3>2, <4>1, <4>3
      <4> QED BY <4>1, <4>2, <4>3, <4>4
    <3>4. it \in [SUBSET S -> Field]
      <4>1. ASSUME NEW s \in SUBSET S, Cardinality(s) = n PROVE s # {}
        BY <2>3, <4>1, FS_EmptySet
      <4> HIDE DEF Bad
      <4> QED BY <3>2, <3>3, <4>1
    <3>5. ASSUME NEW s \in SUBSET S, Cardinality(s) <= n PROVE FoldsAt(it, o, base, f, s)
      <4>0. n \in Nat /\ Cardinality(s) \in Nat
        BY <1>0
      <4>1. CASE s = {}
        <5>1. Cardinality(s) # n /\ Cardinality(s) <= n - 1
          BY <4>0, <4>1, <2>3, FS_EmptySet
        <5>2. FoldsAt(old, o, base, f, s)
          BY <3>2, <5>1
        <5> HIDE DEF Bad
        <5> QED BY <4>1, <5>1, <5>2 DEF FoldsAt
      <4>2. CASE s # {}
        <5> DEFINE r == s \ {One(s)}
        <5>1. r \in SUBSET S /\ Cardinality(r) = Cardinality(s) - 1
          BY <3>3, <4>2
        <5>2. Cardinality(r) # n
          BY <3>5, <4>0, <5>1
        <5>3. it[r] = old[r]
          BY <5>1, <5>2
        <5>4. CASE Cardinality(s) = n
          BY <4>2, <5>3, <5>4 DEF FoldsAt
        <5>5. CASE Cardinality(s) # n
          <6>1. Cardinality(s) <= n - 1
            <7> HIDE DEF Bad, Upto, it
            <7>1. \A k, m \in Nat : k <= m /\ k # m => k <= m - 1
              OBVIOUS
            <7> QED BY ONLY <7>1, <3>5, <4>0, <5>5
          <6>2. FoldsAt(old, o, base, f, s)
            BY <3>2, <6>1
          <6> QED BY <4>2, <5>3, <5>5, <6>2 DEF FoldsAt
        <5> QED BY <5>4, <5>5
      <4> QED BY <4>1, <4>2
    <3>6. Upto(it, n)
      BY <3>4, <3>5
    <3> HIDE DEF it, Upto
    <3> QED BY <2>1, <3>6
  <2> QED BY <2>2, <2>3
<1>2. Cardinality(S) \in Nat /\ Cardinality(S) \notin Bad
  BY <1>1, FS_CardinalityType
<1>3. PICK it : Upto(it, Cardinality(S))
  BY <1>2
<1>4. \A s \in SUBSET S : Cardinality(s) <= Cardinality(S)
  BY FS_Subset
<1> HIDE DEF Bad
<1> QED BY <1>3, <1>4 DEF Folded

FoldedOn(it, o, base, f, S) == \A s \in SUBSET S : FoldsAt(it, o, base, f, s)

\* A fold depends on the folded values only.
LEMMA FoldAgrees ==
  ASSUME NEW S, IsFiniteSet(S), NEW f, NEW it, NEW R, NEW g, NEW jt, NEW o, NEW base,
         FoldedOn(it, o, base, f, S), FoldedOn(jt, o, base, g, R),
         S \subseteq R, \A x \in S : f[x] = g[x]
  PROVE  it[S] = jt[S]
<1> DEFINE Bad == {s \in SUBSET S : it[s] # jt[s]}
<1>1. ASSUME Bad # {} PROVE FALSE
  <2>1. PICK s \in Bad : \A r \in Bad : r \subseteq s => r = s
    <3>1. Bad \subseteq SUBSET S
      OBVIOUS
    <3> HIDE DEF Bad
    <3> QED BY <1>1, <3>1, MinimalSet
  <2>2. s \in SUBSET S /\ s \in SUBSET R /\ it[s] # jt[s]
    OBVIOUS
  <2>3. s # {}
    BY <2>2 DEF FoldsAt, FoldedOn
  <2> DEFINE r == s \ {One(s)}
  <2>4. One(s) \in s /\ r \subseteq s /\ r # s /\ r \in SUBSET S
    BY <2>2, <2>3, OneIn
  <2>5. it[r] = jt[r]
    BY <2>1, <2>4
  <2>6. f[One(s)] = g[One(s)]
    BY <2>2, <2>4
  <2> HIDE DEF Bad
  <2> QED BY <2>2, <2>3, <2>5, <2>6 DEF FoldsAt, FoldedOn
<1> QED BY <1>1

\* And not on the order: any element may be the last.
LEMMA FoldPicks ==
  ASSUME NEW S, IsFiniteSet(S), NEW f \in [S -> Field], NEW base \in Field, NEW o \in Operations,
         NEW it, Folded(it, o, base, f, S), NEW a \in S
  PROVE  it[S] = o[f[a]][it[S \ {a}]]
<1> DEFINE Bad == {s \in SUBSET S : \E x \in s : it[s] # o[f[x]][it[s \ {x}]]}
<1>1. ASSUME Bad # {} PROVE FALSE
  <2>1. PICK s \in Bad : \A r \in Bad : r \subseteq s => r = s
    <3>1. Bad \subseteq SUBSET S
      OBVIOUS
    <3> HIDE DEF Bad
    <3> QED BY <1>1, <3>1, MinimalSet
  <2>2. PICK x \in s : it[s] # o[f[x]][it[s \ {x}]]
    OBVIOUS
  <2> DEFINE y == One(s)
  <2>3. s \in SUBSET S /\ y \in s /\ it[s] = o[f[y]][it[s \ {y}]]
    BY OneIn DEF Folded, FoldsAt
  <2>4. x # y
    BY <2>2, <2>3
  <2>5. it[s \ {x}] = o[f[y]][it[(s \ {x}) \ {y}]]
    <3>1. s \ {x} \notin Bad /\ s \ {x} \in SUBSET S /\ y \in s \ {x}
      BY <2>1, <2>2, <2>3, <2>4
    <3> QED BY <3>1
  <2>6. it[s \ {y}] = o[f[x]][it[(s \ {y}) \ {x}]]
    <3>1. s \ {y} \notin Bad /\ s \ {y} \in SUBSET S /\ x \in s \ {y}
      BY <2>1, <2>2, <2>3, <2>4
    <3> QED BY <3>1
  <2> DEFINE r == (s \ {y}) \ {x}
  <2>7. (s \ {x}) \ {y} = r /\ r \in SUBSET S
    BY <2>3
  <2>8. f[x] \in Field /\ f[y] \in Field /\ it[r] \in Field
    BY <2>2, <2>3, <2>7 DEF Folded
  <2> DEFINE u == f[x]  v == f[y]  w == it[r]
  <2> HIDE DEF Bad, u, v, w, r, y
  <2>9. o[v][o[u][w]] = o[u][o[v][w]]
    <3>1. u \in Field /\ v \in Field /\ w \in Field
      BY <2>8 DEF u, v, w
    <3>2. o[v][o[u][w]] = o[o[v][u]][w] /\ o[u][o[v][w]] = o[o[u][v]][w] /\ o[u][v] = o[v][u]
      BY <3>1 DEF Operations
    <3> QED BY <3>2
  <2> QED BY <2>2, <2>3, <2>5, <2>6, <2>7, <2>9 DEF u, v, w
<1>2. S \notin Bad
  BY <1>1
<1> QED BY <1>2

-----------------------------------------------------------------------------
(* The field's laws. *)

a \oplus b  == addmod(a, b)
a \ominus b == submod(a, b)
a \otimes b == mulmod(a, b)

\* Elements are numbers, zero and one among them.
LEMMA FieldNumbers ==
  /\ prime \in Nat \ {0} /\ 0 \in Field /\ 1 \in Field /\ Field \subseteq Nat
BY Widths DEF Field

\* A factor may be reduced first.
LEMMA ProductRemainder ==
  ASSUME NEW m \in Nat \ {0}, NEW x \in Int, NEW y \in Int
  PROVE  ((x % m) * y) % m = (x * y) % m
<1> DEFINE r == x % m  q == x \div m
<1>1. r \in Int /\ q \in Int /\ x = r + q * m
  BY Division
<1> HIDE DEF r, q
<1>2. x * y = r * y + (q * y) * m
  BY <1>1
<1>3. x * y \in Int /\ r * y \in Int /\ q * y \in Int
  BY <1>1
<1>4. (x * y) % m = (r * y) % m
  <2> DEFINE u == x * y  v == r * y  w == q * y
  <2>1. u \in Int /\ v \in Int /\ w \in Int /\ u = v + w * m
    BY <1>2, <1>3
  <2> HIDE DEF u, v, w
  <2>2. u % m = v % m
    BY <2>1, SameRemainder
  <2> QED BY <2>2 DEF u, v
<1> QED BY <1>4 DEF r

\* The operations stay in the field.
LEMMA Closed ==
  \A a, b \in Field : a \oplus b \in Field /\ a \ominus b \in Field /\ a \otimes b \in Field
BY SumExact, DifferenceExact, ProductExact DEF \oplus, \ominus, \otimes

\* Addition is commutative, has zero, and is associative.
LEMMA SumLaws ==
  /\ \A a, b \in Field : a \oplus b = b \oplus a
  /\ \A a \in Field : 0 \oplus a = a
  /\ \A a, b, c \in Field : a \oplus (b \oplus c) = (a \oplus b) \oplus c
<1>1. ASSUME NEW a \in Field, NEW b \in Field PROVE a \oplus b = b \oplus a
  <2>1. a + b = b + a
    BY FieldNumbers
  <2> QED BY <2>1, SumExact DEF \oplus
<1>2. ASSUME NEW a \in Field PROVE 0 \oplus a = a
  <2>1. 0 \oplus a = (0 + a) % prime
    BY FieldNumbers, SumExact DEF \oplus
  <2>2. 0 + a = a
    BY FieldNumbers
  <2> QED BY <2>1, <2>2, InField
<1>3. ASSUME NEW a \in Field, NEW b \in Field, NEW c \in Field
      PROVE a \oplus (b \oplus c) = (a \oplus b) \oplus c
  <2>1. a \in Int /\ b \in Int /\ c \in Int /\ a % prime = a /\ c % prime = c
    BY FieldNumbers, InField
  <2>2. a \oplus (b \oplus c) = (a + (b + c)) % prime
    <3>1. b \oplus c = (b + c) % prime /\ b + c \in Int
      BY <2>1, SumExact DEF \oplus
    <3> QED BY <2>1, <3>1, ReducedSum DEF \oplus
  <2>3. (a \oplus b) \oplus c = ((a + b) + c) % prime
    <3>1. a \oplus b = (a + b) % prime /\ a + b \in Int
      BY <2>1, SumExact DEF \oplus
    <3> QED BY <2>1, <3>1, ReducedSum DEF \oplus
  <2>4. a + (b + c) = (a + b) + c
    BY <2>1
  <2> QED BY <2>2, <2>3, <2>4
<1> QED BY <1>1, <1>2, <1>3

\* So is multiplication, with one.
LEMMA ProductLaws ==
  /\ \A a, b \in Field : a \otimes b = b \otimes a
  /\ \A a \in Field : 1 \otimes a = a /\ 0 \otimes a = 0
  /\ \A a, b, c \in Field : a \otimes (b \otimes c) = (a \otimes b) \otimes c
<1>1. ASSUME NEW a \in Field, NEW b \in Field PROVE a \otimes b = b \otimes a
  <2>1. a * b = b * a
    BY FieldNumbers
  <2> QED BY <2>1, ProductExact DEF \otimes
<1>2. ASSUME NEW a \in Field PROVE 1 \otimes a = a /\ 0 \otimes a = 0
  <2>1. 1 \otimes a = (1 * a) % prime /\ 0 \otimes a = (0 * a) % prime
    BY FieldNumbers, ProductExact DEF \otimes
  <2>2. 1 * a = a /\ 0 * a = 0
    BY FieldNumbers
  <2> QED BY <2>1, <2>2, InField, FieldNumbers
<1>3. ASSUME NEW a \in Field, NEW b \in Field, NEW c \in Field
      PROVE (a \otimes b) \otimes c = ((a * b) * c) % prime
  <2>1. a \in Int /\ b \in Int /\ c \in Int /\ a * b \in Int /\ prime \in Nat \ {0}
    BY FieldNumbers
  <2>2. a \otimes b = (a * b) % prime /\ a \otimes b \in Field
    BY ProductExact DEF \otimes
  <2>3. (a \otimes b) \otimes c = (((a * b) % prime) * c) % prime
    BY <2>2, ProductExact DEF \otimes
  <2> QED BY <2>1, <2>3, ProductRemainder
<1>4. ASSUME NEW a \in Field, NEW b \in Field, NEW c \in Field
      PROVE a \otimes (b \otimes c) = (a \otimes b) \otimes c
  <2>1. a \otimes (b \otimes c) = (b \otimes c) \otimes a
    BY <1>1, Closed
  <2>2. (b \otimes c) \otimes a = ((b * c) * a) % prime /\ (a \otimes b) \otimes c = ((a * b) * c) % prime
    BY <1>3
  <2>3. (b * c) * a = (a * b) * c
    BY FieldNumbers
  <2> QED BY <2>1, <2>2, <2>3
<1> QED BY <1>1, <1>2, <1>4

\* Multiplication distributes over addition.
LEMMA Distributes ==
  \A a, b, c \in Field : a \otimes (b \oplus c) = (a \otimes b) \oplus (a \otimes c)
<1> SUFFICES ASSUME NEW a \in Field, NEW b \in Field, NEW c \in Field
             PROVE  a \otimes (b \oplus c) = (a \otimes b) \oplus (a \otimes c)
  OBVIOUS
<1>1. a \in Int /\ b \in Int /\ c \in Int /\ prime \in Nat \ {0}
  BY FieldNumbers
<1>2. a \otimes (b \oplus c) = (((b + c) % prime) * a) % prime
  <2>1. b \oplus c = (b + c) % prime /\ b \oplus c \in Field
    BY SumExact DEF \oplus
  <2>2. a \otimes (b \oplus c) = (b \oplus c) \otimes a
    BY <2>1, ProductLaws
  <2> QED BY <2>1, <2>2, ProductExact DEF \otimes
<1>3. (((b + c) % prime) * a) % prime = ((b + c) * a) % prime
  <2> DEFINE d == b + c
  <2>1. d \in Int
    BY <1>1
  <2> HIDE DEF d
  <2>2. ((d % prime) * a) % prime = (d * a) % prime
    BY <1>1, <2>1, ProductRemainder
  <2> QED BY <2>2 DEF d
<1>4. (a \otimes b) \oplus (a \otimes c) = (a * b + a * c) % prime
  <2>1. a \otimes b = (a * b) % prime /\ a \otimes c = (a * c) % prime /\ a * b \in Int /\ a * c \in Int
    BY <1>1, ProductExact DEF \otimes
  <2> QED BY <2>1, ReducedSum DEF \oplus
<1>5. (b + c) * a = a * b + a * c
  BY <1>1
<1> QED BY <1>2, <1>3, <1>4, <1>5

\* A difference is what gives back the sum, and only that.
LEMMA Differences ==
  /\ \A a, b \in Field : (a \ominus b) \oplus b = a
  /\ \A a, b, c \in Field : a \oplus c = b \oplus c => a = b
<1>1. ASSUME NEW a \in Field, NEW b \in Field PROVE (a \ominus b) \oplus b = a
  <2>1. a \in Int /\ b \in Int /\ a - b \in Int /\ b % prime = b /\ a % prime = a
    BY FieldNumbers, InField
  <2>2. (a \ominus b) \oplus b = ((a - b) + b) % prime
    <3>1. a \ominus b = (a - b) % prime
      BY DifferenceExact DEF \ominus
    <3> QED BY <2>1, <3>1, ReducedSum DEF \oplus
  <2>3. (a - b) + b = a
    BY <2>1
  <2> QED BY <2>1, <2>2, <2>3
<1>2. ASSUME NEW a \in Field, NEW b \in Field, NEW c \in Field, a \oplus c = b \oplus c
      PROVE a = b
  <2> DEFINE n == 0 \ominus c
  <2>1. n \in Field /\ c \oplus n = 0
    BY <1>1, Closed, FieldNumbers, SumLaws
  <2> HIDE DEF n
  <2>2. \A x \in Field : (x \oplus c) \oplus n = x
    <3>1. \A x \in Field : (x \oplus c) \oplus n = x \oplus (c \oplus n)
      BY <2>1, SumLaws
    <3> QED BY <2>1, <3>1, SumLaws, FieldNumbers
  <2> QED BY <1>2, <2>2
<1> QED BY <1>1, <1>2

\* InverseExact, in these signs.
LEMMA Inverted ==
  ASSUME PrimeField, NEW a \in Field, a # 0
  PROVE  invmod(a) \in Field /\ a \otimes invmod(a) = 1
BY InverseExact DEF \otimes

\* A factor that is not zero may be cancelled.
LEMMA Cancels ==
  ASSUME PrimeField, NEW a \in Field, NEW b \in Field, NEW c \in Field, c # 0,
         a \otimes c = b \otimes c
  PROVE  a = b
<1> DEFINE i == invmod(c)
<1>1. i \in Field /\ c \otimes i = 1
  BY Inverted
<1> HIDE DEF i
<1>2. \A x \in Field : (x \otimes c) \otimes i = x
  <2>1. \A x \in Field : (x \otimes c) \otimes i = x \otimes (c \otimes i)
    BY <1>1, ProductLaws
  <2> QED BY <1>1, <2>1, ProductLaws, FieldNumbers
<1> QED BY <1>2

\* A product is zero only if a factor is.
LEMMA NoZeroDivisors ==
  ASSUME PrimeField, NEW a \in Field, NEW b \in Field, a # 0, b # 0
  PROVE  a \otimes b # 0
<1> SUFFICES ASSUME a \otimes b = 0 PROVE FALSE
  OBVIOUS
<1>1. a \otimes b = 0 \otimes b /\ 0 \in Field
  BY ProductLaws, FieldNumbers
<1> QED BY <1>1, Cancels

\* A difference is zero only of equals.
LEMMA ZeroDifference ==
  \A a, b \in Field : a \ominus b = 0 <=> a = b
<1>1. ASSUME NEW a \in Field, NEW b \in Field, a \ominus b = 0 PROVE a = b
  BY <1>1, Differences, SumLaws
<1>2. ASSUME NEW a \in Field PROVE a \ominus a = 0
  <2>1. (a \ominus a) \oplus a = 0 \oplus a
    BY Differences, SumLaws
  <2> QED BY <2>1, Differences, Closed, FieldNumbers
<1> QED BY <1>1, <1>2

-----------------------------------------------------------------------------
(* Sums and products over sets of points. *)

Plus  == [a \in Field |-> [b \in Field |-> a \oplus b]]
Times == [a \in Field |-> [b \in Field |-> a \otimes b]]

\* Both operations can be folded in any order.
LEMMA Both == Plus \in Operations /\ Times \in Operations
<1>1. Plus \in Operations
  BY Closed, SumLaws DEF Plus, Operations
<1>2. Times \in Operations
  BY Closed, ProductLaws DEF Times, Operations
<1> QED BY <1>1, <1>2

\* The sum is the fold of the library, started and ended where Folded has it.
LEMMA SumIsFold ==
  ASSUME NEW S, IsFiniteSet(S), NEW f \in [S -> Field]
  PROVE  \E it : Folded(it, Plus, 0, f, S) /\ SumOf(f) = it[S]
<1> DEFINE Is(it) == it = [s \in SUBSET S |->
                             IF s = {} THEN 0 ELSE addmod(f[One(s)], it[s \ {One(s)}])]
           sum == CHOOSE it : Is(it)
<1>1. PICK it : Folded(it, Plus, 0, f, S)
  BY FoldExists, Both, FieldNumbers DEF Operations
<1>2. ASSUME NEW s \in SUBSET S, s # {}
      PROVE f[One(s)] \in Field /\ it[s \ {One(s)}] \in Field
  <2>1. One(s) \in S /\ s \ {One(s)} \in SUBSET S
    BY <1>2, OneIn
  <2> QED BY <1>1, <2>1 DEF Folded
<1>3. Is(it)
  <2>1. ASSUME NEW s \in SUBSET S
        PROVE it[s] = IF s = {} THEN 0 ELSE addmod(f[One(s)], it[s \ {One(s)}])
    BY <1>1, <1>2 DEF Folded, FoldsAt, Plus, \oplus
  <2>2. it = [s \in SUBSET S |-> it[s]]
    BY <1>1 DEF Folded
  <2> QED BY <2>1, <2>2
<1>4. SumOf(f) = sum[S]
  <2>1. DOMAIN f = S
    OBVIOUS
  <2> QED BY <2>1 DEF SumOf, FoldFunction, FoldFunctionOnSet, MapThenFoldSet, One
<1>5. Is(sum)
  <2> HIDE DEF Is
  <2> QED BY <1>3
<1> HIDE DEF sum
<1>6. sum = it
  <2> DEFINE Bad == {s \in SUBSET S : sum[s] # it[s]}
  <2>1. ASSUME Bad # {} PROVE FALSE
    <3>1. PICK s \in Bad : \A r \in Bad : r \subseteq s => r = s
      <4>1. Bad \subseteq SUBSET S
        OBVIOUS
      <4> HIDE DEF Bad
      <4> QED BY <2>1, <4>1, MinimalSet
    <3>2. s \in SUBSET S /\ s # {} /\ sum[s] # it[s]
      BY <1>3, <1>5
    <3> DEFINE r == s \ {One(s)}
    <3>3. r \subseteq s /\ r # s /\ r \in SUBSET S
      BY <3>2, OneIn
    <3>4. sum[r] = it[r]
      BY <3>1, <3>3
    <3>5. sum[s] = addmod(f[One(s)], sum[r]) /\ it[s] = addmod(f[One(s)], it[r])
      BY <1>3, <1>5, <3>2
    <3> HIDE DEF Is, Bad, r
    <3> QED BY <3>2, <3>4, <3>5
  <2>2. \A s \in SUBSET S : sum[s] = it[s]
    BY <2>1
  <2>3. sum = [s \in SUBSET S |-> sum[s]] /\ it = [s \in SUBSET S |-> it[s]]
    BY <1>3, <1>5
  <2> HIDE DEF Is, Bad
  <2> QED BY <2>2, <2>3
<1> QED BY <1>1, <1>4, <1>6

\* So is the product.
LEMMA ProductIsFold ==
  ASSUME NEW S, IsFiniteSet(S), NEW f \in [S -> Field]
  PROVE  \E it : Folded(it, Times, 1, f, S) /\ ProductOf(f) = it[S]
<1> DEFINE Is(it) == it = [s \in SUBSET S |->
                             IF s = {} THEN 1 ELSE mulmod(f[One(s)], it[s \ {One(s)}])]
           product == CHOOSE it : Is(it)
<1>1. PICK it : Folded(it, Times, 1, f, S)
  BY FoldExists, Both, FieldNumbers DEF Operations
<1>2. ASSUME NEW s \in SUBSET S, s # {}
      PROVE f[One(s)] \in Field /\ it[s \ {One(s)}] \in Field
  <2>1. One(s) \in S /\ s \ {One(s)} \in SUBSET S
    BY <1>2, OneIn
  <2> QED BY <1>1, <2>1 DEF Folded
<1>3. Is(it)
  <2>1. ASSUME NEW s \in SUBSET S
        PROVE it[s] = IF s = {} THEN 1 ELSE mulmod(f[One(s)], it[s \ {One(s)}])
    BY <1>1, <1>2 DEF Folded, FoldsAt, Times, \otimes
  <2>2. it = [s \in SUBSET S |-> it[s]]
    BY <1>1 DEF Folded
  <2> QED BY <2>1, <2>2
<1>4. ProductOf(f) = product[S]
  <2>1. DOMAIN f = S
    OBVIOUS
  <2> QED BY <2>1 DEF ProductOf, FoldFunction, FoldFunctionOnSet, MapThenFoldSet, One
<1>5. Is(product)
  <2> HIDE DEF Is
  <2> QED BY <1>3
<1> HIDE DEF product
<1>6. product = it
  <2> DEFINE Bad == {s \in SUBSET S : product[s] # it[s]}
  <2>1. ASSUME Bad # {} PROVE FALSE
    <3>1. PICK s \in Bad : \A r \in Bad : r \subseteq s => r = s
      <4>1. Bad \subseteq SUBSET S
        OBVIOUS
      <4> HIDE DEF Bad
      <4> QED BY <2>1, <4>1, MinimalSet
    <3>2. s \in SUBSET S /\ s # {} /\ product[s] # it[s]
      BY <1>3, <1>5
    <3> DEFINE r == s \ {One(s)}
    <3>3. r \subseteq s /\ r # s /\ r \in SUBSET S
      BY <3>2, OneIn
    <3>4. product[r] = it[r]
      BY <3>1, <3>3
    <3>5. product[s] = mulmod(f[One(s)], product[r]) /\ it[s] = mulmod(f[One(s)], it[r])
      BY <1>3, <1>5, <3>2
    <3> HIDE DEF Is, Bad, r
    <3> QED BY <3>2, <3>4, <3>5
  <2>2. \A s \in SUBSET S : product[s] = it[s]
    BY <2>1
  <2>3. product = [s \in SUBSET S |-> product[s]] /\ it = [s \in SUBSET S |-> it[s]]
    BY <1>3, <1>5
  <2> HIDE DEF Is, Bad
  <2> QED BY <2>2, <2>3
<1> QED BY <1>1, <1>4, <1>6

\* An element may be taken out, and what is left is the sum of the others.
LEMMA SumPicks ==
  ASSUME NEW S, IsFiniteSet(S), NEW f \in [S -> Field]
  PROVE  /\ SumOf(f) \in Field
         /\ S = {} => SumOf(f) = 0
         /\ \A a \in S : SumOf(f) = f[a] \oplus SumOf(Restrict(f, S \ {a}))
<1>1. PICK it : Folded(it, Plus, 0, f, S) /\ SumOf(f) = it[S]
  BY SumIsFold
<1>2. SumOf(f) \in Field /\ (S = {} => SumOf(f) = 0)
  BY <1>1 DEF Folded, FoldsAt
<1>3. ASSUME NEW a \in S PROVE SumOf(f) = f[a] \oplus SumOf(Restrict(f, S \ {a}))
  <2> DEFINE R == S \ {a}  g == Restrict(f, R)
  <2>1. IsFiniteSet(R) /\ g \in [R -> Field] /\ \A x \in R : g[x] = f[x]
    BY FS_RemoveElement DEF Restrict
  <2> HIDE DEF g
  <2>2. PICK jt : Folded(jt, Plus, 0, g, R) /\ SumOf(g) = jt[R]
    BY <2>1, SumIsFold
  <2>3. jt[R] = it[R]
    <3>1. FoldedOn(jt, Plus, 0, g, R)
      BY <2>2 DEF Folded, FoldedOn
    <3>2. FoldedOn(it, Plus, 0, f, S)
      BY <1>1 DEF Folded, FoldedOn
    <3> HIDE DEF R
    <3>3. R \subseteq S
      BY DEF R
    <3>4. IsFiniteSet(R)
      BY <2>1
    <3>5. \A x \in R : g[x] = f[x]
      BY <2>1
    <3> QED BY <3>1, <3>2, <3>3, <3>4, <3>5, FoldAgrees
  <2>4. it[S] = Plus[f[a]][it[R]]
    BY <1>1, Both, FieldNumbers, FoldPicks
  <2>5. f[a] \in Field /\ it[R] \in Field
    BY <1>1 DEF Folded
  <2> QED BY <1>1, <2>2, <2>3, <2>4, <2>5 DEF Plus, g
<1> QED BY <1>2, <1>3

\* So with the product.
LEMMA ProductPicks ==
  ASSUME NEW S, IsFiniteSet(S), NEW f \in [S -> Field]
  PROVE  /\ ProductOf(f) \in Field
         /\ S = {} => ProductOf(f) = 1
         /\ \A a \in S : ProductOf(f) = f[a] \otimes ProductOf(Restrict(f, S \ {a}))
<1>1. PICK it : Folded(it, Times, 1, f, S) /\ ProductOf(f) = it[S]
  BY ProductIsFold
<1>2. ProductOf(f) \in Field /\ (S = {} => ProductOf(f) = 1)
  BY <1>1 DEF Folded, FoldsAt
<1>3. ASSUME NEW a \in S PROVE ProductOf(f) = f[a] \otimes ProductOf(Restrict(f, S \ {a}))
  <2> DEFINE R == S \ {a}  g == Restrict(f, R)
  <2>1. IsFiniteSet(R) /\ g \in [R -> Field] /\ \A x \in R : g[x] = f[x]
    BY FS_RemoveElement DEF Restrict
  <2> HIDE DEF g
  <2>2. PICK jt : Folded(jt, Times, 1, g, R) /\ ProductOf(g) = jt[R]
    BY <2>1, ProductIsFold
  <2>3. jt[R] = it[R]
    <3>1. FoldedOn(jt, Times, 1, g, R)
      BY <2>2 DEF Folded, FoldedOn
    <3>2. FoldedOn(it, Times, 1, f, S)
      BY <1>1 DEF Folded, FoldedOn
    <3> HIDE DEF R
    <3>3. R \subseteq S
      BY DEF R
    <3>4. IsFiniteSet(R)
      BY <2>1
    <3>5. \A x \in R : g[x] = f[x]
      BY <2>1
    <3> QED BY <3>1, <3>2, <3>3, <3>4, <3>5, FoldAgrees
  <2>4. it[S] = Times[f[a]][it[R]]
    BY <1>1, Both, FieldNumbers, FoldPicks
  <2>5. f[a] \in Field /\ it[R] \in Field
    BY <1>1 DEF Folded
  <2> QED BY <1>1, <2>2, <2>3, <2>4, <2>5 DEF Times, g
<1> QED BY <1>2, <1>3

\* What is left of a function on part of its domain.
LEMMA Restricting ==
  ASSUME NEW S, NEW f \in [S -> Field], NEW T \in SUBSET S
  PROVE  /\ Restrict(f, T) \in [T -> Field] /\ \A x \in T : Restrict(f, T)[x] = f[x]
         /\ \A R \in SUBSET T : Restrict(Restrict(f, T), R) = Restrict(f, R)
         /\ T = S => Restrict(f, T) = f
BY DEF Restrict

\* A common factor may be taken out of a sum.
LEMMA SumScales ==
  ASSUME NEW S, IsFiniteSet(S), NEW f \in [S -> Field], NEW c \in Field
  PROVE  SumOf([x \in S |-> c \otimes f[x]]) = c \otimes SumOf(f)
<1> DEFINE h == [x \in S |-> c \otimes f[x]]
           Bad == {T \in SUBSET S : SumOf(Restrict(h, T)) # c \otimes SumOf(Restrict(f, T))}
<1>0. h \in [S -> Field] /\ \A x \in S : h[x] = c \otimes f[x]
  BY Closed
<1> HIDE DEF h
<1>1. ASSUME Bad # {} PROVE FALSE
  <2>1. PICK T \in Bad : \A R \in Bad : R \subseteq T => R = T
    <3>1. Bad \subseteq SUBSET S
      OBVIOUS
    <3> HIDE DEF Bad
    <3> QED BY <1>1, <3>1, MinimalSet
  <2>2. T \in SUBSET S /\ IsFiniteSet(T) /\ SumOf(Restrict(h, T)) # c \otimes SumOf(Restrict(f, T))
    BY FS_Subset
  <2>3. Restrict(h, T) \in [T -> Field] /\ Restrict(f, T) \in [T -> Field]
    BY <1>0, <2>2, Restricting
  <2>4. T # {}
    <3>1. T = {} => SumOf(Restrict(h, T)) = 0 /\ SumOf(Restrict(f, T)) = 0
      BY <2>2, <2>3, SumPicks
    <3> QED BY <2>2, <3>1, ProductLaws, FieldNumbers
  <2>5. PICK a \in T : TRUE
    BY <2>4
  <2> DEFINE R == T \ {a}
  <2>6. R \in SUBSET S /\ R \in SUBSET T /\ IsFiniteSet(R) /\ R # T
    BY <2>2, <2>5, FS_RemoveElement
  <2>7. SumOf(Restrict(h, R)) = c \otimes SumOf(Restrict(f, R))
    BY <2>1, <2>6
  <2> HIDE DEF Bad
  <2>8. SumOf(Restrict(f, T)) = f[a] \oplus SumOf(Restrict(f, R)) /\ SumOf(Restrict(f, R)) \in Field
    BY <2>2, <2>3, <2>6, SumPicks, Restricting
  <2>9. SumOf(Restrict(h, T)) = h[a] \oplus SumOf(Restrict(h, R))
    <3>1. Restrict(Restrict(h, T), R) = Restrict(h, R) /\ Restrict(h, T)[a] = h[a]
      BY <1>0, <2>2, <2>6, Restricting
    <3> QED BY <2>2, <2>3, <3>1, SumPicks
  <2>10. f[a] \in Field /\ h[a] = c \otimes f[a]
    BY <1>0, <2>2
  <2> QED BY <2>2, <2>7, <2>8, <2>9, <2>10, Distributes
<1>2. S \notin Bad
  BY <1>1
<1>3. SumOf(Restrict(h, S)) = c \otimes SumOf(Restrict(f, S))
  BY <1>2
<1>4. Restrict(h, S) = h /\ Restrict(f, S) = f
  BY <1>0, Restricting
<1> QED BY <1>3, <1>4 DEF h

\* Sums and products of four, in another order.
LEMMA SumsSwap ==
  \A a, b, c, d \in Field : (a \oplus b) \oplus (c \oplus d) = (a \oplus c) \oplus (b \oplus d)
<1> SUFFICES ASSUME NEW a \in Field, NEW b \in Field, NEW c \in Field, NEW d \in Field
             PROVE  (a \oplus b) \oplus (c \oplus d) = (a \oplus c) \oplus (b \oplus d)
  OBVIOUS
<1>1. (a \oplus b) \oplus (c \oplus d) = a \oplus (b \oplus (c \oplus d))
  BY Closed, SumLaws
<1>2. b \oplus (c \oplus d) = c \oplus (b \oplus d)
  <2>1. b \oplus (c \oplus d) = (b \oplus c) \oplus d /\ c \oplus (b \oplus d) = (c \oplus b) \oplus d
    BY SumLaws
  <2> QED BY <2>1, SumLaws
<1>3. (a \oplus c) \oplus (b \oplus d) = a \oplus (c \oplus (b \oplus d))
  BY Closed, SumLaws
<1> QED BY <1>1, <1>2, <1>3

\* A sum of sums is the sum of both.
LEMMA SumAdds ==
  ASSUME NEW S, IsFiniteSet(S), NEW f \in [S -> Field], NEW g \in [S -> Field]
  PROVE  SumOf([x \in S |-> f[x] \oplus g[x]]) = SumOf(f) \oplus SumOf(g)
<1> DEFINE h == [x \in S |-> f[x] \oplus g[x]]
           Bad == {T \in SUBSET S : SumOf(Restrict(h, T)) # SumOf(Restrict(f, T)) \oplus SumOf(Restrict(g, T))}
<1>0. h \in [S -> Field] /\ \A x \in S : h[x] = f[x] \oplus g[x]
  BY Closed
<1> HIDE DEF h
<1>1. ASSUME Bad # {} PROVE FALSE
  <2>1. PICK T \in Bad : \A R \in Bad : R \subseteq T => R = T
    <3>1. Bad \subseteq SUBSET S
      OBVIOUS
    <3> HIDE DEF Bad
    <3> QED BY <1>1, <3>1, MinimalSet
  <2>2. T \in SUBSET S /\ IsFiniteSet(T) /\ SumOf(Restrict(h, T)) # SumOf(Restrict(f, T)) \oplus SumOf(Restrict(g, T))
    BY FS_Subset
  <2>3. Restrict(h, T) \in [T -> Field] /\ Restrict(f, T) \in [T -> Field]
        /\ Restrict(g, T) \in [T -> Field]
    BY <1>0, <2>2, Restricting
  <2>4. T # {}
    <3>1. T = {} => SumOf(Restrict(h, T)) = 0 /\ SumOf(Restrict(f, T)) = 0 /\ SumOf(Restrict(g, T)) = 0
      BY <2>2, <2>3, SumPicks
    <3> QED BY <2>2, <3>1, SumLaws, FieldNumbers
  <2>5. PICK a \in T : TRUE
    BY <2>4
  <2> DEFINE R == T \ {a}
  <2>6. R \in SUBSET S /\ R \in SUBSET T /\ IsFiniteSet(R) /\ R # T
    BY <2>2, <2>5, FS_RemoveElement
  <2>7. SumOf(Restrict(h, R)) = SumOf(Restrict(f, R)) \oplus SumOf(Restrict(g, R))
    BY <2>1, <2>6
  <2> HIDE DEF Bad
  <2>8. SumOf(Restrict(f, T)) = f[a] \oplus SumOf(Restrict(f, R)) /\ SumOf(Restrict(f, R)) \in Field
    BY <2>2, <2>3, <2>6, SumPicks, Restricting
  <2>g. SumOf(Restrict(g, T)) = g[a] \oplus SumOf(Restrict(g, R)) /\ SumOf(Restrict(g, R)) \in Field
    BY <2>2, <2>3, <2>6, SumPicks, Restricting
  <2>9. SumOf(Restrict(h, T)) = h[a] \oplus SumOf(Restrict(h, R))
    <3>1. Restrict(Restrict(h, T), R) = Restrict(h, R) /\ Restrict(h, T)[a] = h[a]
      BY <1>0, <2>2, <2>6, Restricting
    <3> QED BY <2>2, <2>3, <3>1, SumPicks
  <2>10. f[a] \in Field /\ g[a] \in Field /\ h[a] = f[a] \oplus g[a]
    BY <1>0, <2>2
  <2> QED BY <2>2, <2>7, <2>8, <2>g, <2>9, <2>10, SumsSwap
<1>2. S \notin Bad
  BY <1>1
<1>3. SumOf(Restrict(h, S)) = SumOf(Restrict(f, S)) \oplus SumOf(Restrict(g, S))
  BY <1>2
<1>4. Restrict(h, S) = h /\ Restrict(f, S) = f /\ Restrict(g, S) = g
  BY <1>0, Restricting
<1> QED BY <1>3, <1>4 DEF h

\* Factors may change places.
LEMMA ProductsSwap ==
  \A a, b, c, d \in Field : (a \otimes b) \otimes (c \otimes d) = (a \otimes c) \otimes (b \otimes d)
<1> SUFFICES ASSUME NEW a \in Field, NEW b \in Field, NEW c \in Field, NEW d \in Field
             PROVE  (a \otimes b) \otimes (c \otimes d) = (a \otimes c) \otimes (b \otimes d)
  OBVIOUS
<1>1. (a \otimes b) \otimes (c \otimes d) = a \otimes (b \otimes (c \otimes d))
  BY Closed, ProductLaws
<1>2. b \otimes (c \otimes d) = c \otimes (b \otimes d)
  <2>1. b \otimes (c \otimes d) = (b \otimes c) \otimes d /\ c \otimes (b \otimes d) = (c \otimes b) \otimes d
    BY ProductLaws
  <2> QED BY <2>1, ProductLaws
<1>3. (a \otimes c) \otimes (b \otimes d) = a \otimes (c \otimes (b \otimes d))
  BY Closed, ProductLaws
<1> QED BY <1>1, <1>2, <1>3

\* A product of products is the product of both.
LEMMA ProductMultiplies ==
  ASSUME NEW S, IsFiniteSet(S), NEW f \in [S -> Field], NEW g \in [S -> Field]
  PROVE  ProductOf([x \in S |-> f[x] \otimes g[x]]) = ProductOf(f) \otimes ProductOf(g)
<1> DEFINE h == [x \in S |-> f[x] \otimes g[x]]
           Bad == {T \in SUBSET S : ProductOf(Restrict(h, T)) # ProductOf(Restrict(f, T)) \otimes ProductOf(Restrict(g, T))}
<1>0. h \in [S -> Field] /\ \A x \in S : h[x] = f[x] \otimes g[x]
  BY Closed
<1> HIDE DEF h
<1>1. ASSUME Bad # {} PROVE FALSE
  <2>1. PICK T \in Bad : \A R \in Bad : R \subseteq T => R = T
    <3>1. Bad \subseteq SUBSET S
      OBVIOUS
    <3> HIDE DEF Bad
    <3> QED BY <1>1, <3>1, MinimalSet
  <2>2. T \in SUBSET S /\ IsFiniteSet(T) /\ ProductOf(Restrict(h, T)) # ProductOf(Restrict(f, T)) \otimes ProductOf(Restrict(g, T))
    BY FS_Subset
  <2>3. Restrict(h, T) \in [T -> Field] /\ Restrict(f, T) \in [T -> Field]
        /\ Restrict(g, T) \in [T -> Field]
    BY <1>0, <2>2, Restricting
  <2>4. T # {}
    <3>1. T = {} => ProductOf(Restrict(h, T)) = 1 /\ ProductOf(Restrict(f, T)) = 1 /\ ProductOf(Restrict(g, T)) = 1
      BY <2>2, <2>3, ProductPicks
    <3> QED BY <2>2, <3>1, ProductLaws, FieldNumbers
  <2>5. PICK a \in T : TRUE
    BY <2>4
  <2> DEFINE R == T \ {a}
  <2>6. R \in SUBSET S /\ R \in SUBSET T /\ IsFiniteSet(R) /\ R # T
    BY <2>2, <2>5, FS_RemoveElement
  <2>7. ProductOf(Restrict(h, R)) = ProductOf(Restrict(f, R)) \otimes ProductOf(Restrict(g, R))
    BY <2>1, <2>6
  <2> HIDE DEF Bad
  <2>8. ProductOf(Restrict(f, T)) = f[a] \otimes ProductOf(Restrict(f, R)) /\ ProductOf(Restrict(f, R)) \in Field
    BY <2>2, <2>3, <2>6, ProductPicks, Restricting
  <2>g. ProductOf(Restrict(g, T)) = g[a] \otimes ProductOf(Restrict(g, R)) /\ ProductOf(Restrict(g, R)) \in Field
    BY <2>2, <2>3, <2>6, ProductPicks, Restricting
  <2>9. ProductOf(Restrict(h, T)) = h[a] \otimes ProductOf(Restrict(h, R))
    <3>1. Restrict(Restrict(h, T), R) = Restrict(h, R) /\ Restrict(h, T)[a] = h[a]
      BY <1>0, <2>2, <2>6, Restricting
    <3> QED BY <2>2, <2>3, <3>1, ProductPicks
  <2>10. f[a] \in Field /\ g[a] \in Field /\ h[a] = f[a] \otimes g[a]
    BY <1>0, <2>2
  <2> QED BY <2>2, <2>7, <2>8, <2>g, <2>9, <2>10, ProductsSwap
<1>2. S \notin Bad
  BY <1>1
<1>3. ProductOf(Restrict(h, S)) = ProductOf(Restrict(f, S)) \otimes ProductOf(Restrict(g, S))
  BY <1>2
<1>4. Restrict(h, S) = h /\ Restrict(f, S) = f /\ Restrict(g, S) = g
  BY <1>0, Restricting
<1> QED BY <1>3, <1>4 DEF h

\* A product of elements that are not zero is not zero.
LEMMA ProductNotZero ==
  ASSUME PrimeField, NEW S, IsFiniteSet(S), NEW f \in [S -> Field], \A x \in S : f[x] # 0
  PROVE  ProductOf(f) # 0
<1> DEFINE Bad == {T \in SUBSET S : ProductOf(Restrict(f, T)) = 0}
<1>1. ASSUME Bad # {} PROVE FALSE
  <2>1. PICK T \in Bad : \A R \in Bad : R \subseteq T => R = T
    <3>1. Bad \subseteq SUBSET S
      OBVIOUS
    <3> HIDE DEF Bad
    <3> QED BY <1>1, <3>1, MinimalSet
  <2>2. T \in SUBSET S /\ IsFiniteSet(T) /\ ProductOf(Restrict(f, T)) = 0
    BY FS_Subset
  <2>3. Restrict(f, T) \in [T -> Field]
    BY <2>2, Restricting
  <2>4. PICK a \in T : TRUE
    BY <2>2, <2>3, ProductPicks
  <2> DEFINE R == T \ {a}
  <2>5. R \in SUBSET S /\ R \in SUBSET T /\ IsFiniteSet(R) /\ R # T
    BY <2>2, <2>4, FS_RemoveElement
  <2>6. ProductOf(Restrict(f, R)) # 0
    BY <2>1, <2>5
  <2> HIDE DEF Bad
  <2>7. ProductOf(Restrict(f, T)) = f[a] \otimes ProductOf(Restrict(f, R))
        /\ ProductOf(Restrict(f, R)) \in Field
    BY <2>2, <2>3, <2>5, ProductPicks, Restricting
  <2>8. f[a] \in Field /\ f[a] # 0
    BY <2>2
  <2> QED BY <2>2, <2>6, <2>7, <2>8, NoZeroDivisors
<1>2. S \notin Bad
  BY <1>1
<1>3. Restrict(f, S) = f
  BY Restricting
<1> QED BY <1>2, <1>3

-----------------------------------------------------------------------------
(* Weights.  A point is known here by its coordinate x. *)

\* Finitely many points with distinct coordinates in the field.
PointsApart(P) ==
  /\ IsFiniteSet(P) /\ \A p \in P : p.x \in Field
  /\ \A p, q \in P : p.x = q.x => p = q

\* The product of the distances to P; Lagrange's weights, and the value at z of
\* the curve that has value y[p] at each point p.
Roots(P, z)      == ProductOf([q \in P |-> z \ominus q.x])
Weight(P, p, z)  == Roots(P \ {p}, z) \otimes invmod(Roots(P \ {p}, p.x))
Through(P, y, z) == SumOf([p \in P |-> y[p] \otimes Weight(P, p, z)])

\* Points apart stay so when some are left out.
LEMMA FewerApart ==
  ASSUME NEW P, PointsApart(P), NEW Q \in SUBSET P
  PROVE  PointsApart(Q)
BY FS_Subset DEF PointsApart

\* One factor of the product may be taken out.
LEMMA RootsPick ==
  ASSUME NEW P, PointsApart(P), NEW z \in Field
  PROVE  /\ Roots(P, z) \in Field /\ (P = {} => Roots(P, z) = 1)
         /\ \A a \in P : Roots(P, z) = (z \ominus a.x) \otimes Roots(P \ {a}, z)
<1> DEFINE f == [q \in P |-> z \ominus q.x]
<1>1. IsFiniteSet(P) /\ f \in [P -> Field] /\ Roots(P, z) = ProductOf(f)
  BY Closed DEF PointsApart, Roots
<1>2. ASSUME NEW a \in P
      PROVE  f[a] = z \ominus a.x /\ ProductOf(Restrict(f, P \ {a})) = Roots(P \ {a}, z)
  <2>1. f[a] = z \ominus a.x /\ Restrict(f, P \ {a}) = [q \in P \ {a} |-> z \ominus q.x]
    BY DEF Restrict
  <2> QED BY <2>1 DEF Roots
<1> HIDE DEF f
<1>3. Roots(P, z) \in Field /\ (P = {} => Roots(P, z) = 1)
  BY <1>1, ProductPicks
<1>4. ASSUME NEW a \in P PROVE Roots(P, z) = (z \ominus a.x) \otimes Roots(P \ {a}, z)
  <2>1. ProductOf(f) = f[a] \otimes ProductOf(Restrict(f, P \ {a}))
    BY <1>1, ProductPicks
  <2> QED BY <1>1, <1>2, <2>1
<1> QED BY <1>3, <1>4

\* The product is zero at its roots only.
LEMMA RootsNotZero ==
  ASSUME PrimeField, NEW P, PointsApart(P), NEW z \in Field, \A q \in P : z # q.x
  PROVE  Roots(P, z) # 0
<1> DEFINE f == [q \in P |-> z \ominus q.x]
<1>1. f \in [P -> Field] /\ IsFiniteSet(P)
  BY Closed DEF PointsApart
<1>2. \A q \in P : f[q] # 0
  BY ZeroDifference DEF PointsApart
<1> HIDE DEF f
<1>3. ProductOf(f) # 0
  BY <1>1, <1>2, ProductNotZero
<1> QED BY <1>3 DEF f, Roots

\* A weight is the quotient of the products it is made from.
LEMMA WeightIs ==
  ASSUME PrimeField, NEW P, PointsApart(P), NEW p \in P, NEW z \in Field
  PROVE  /\ Weight(P, p, z) \in Field
         /\ Roots(P \ {p}, p.x) \in Field /\ Roots(P \ {p}, p.x) # 0
         /\ Weight(P, p, z) \otimes Roots(P \ {p}, p.x) = Roots(P \ {p}, z)
<1> DEFINE Q == P \ {p}  n == Roots(Q, z)  d == Roots(Q, p.x)  i == invmod(d)
<1>1. PointsApart(Q) /\ p.x \in Field /\ \A q \in Q : p.x # q.x
  BY FewerApart DEF PointsApart
<1>2. n \in Field /\ d \in Field /\ d # 0
  <2> HIDE DEF Q
  <2> QED BY <1>1, RootsPick, RootsNotZero
<1>3. i \in Field /\ d \otimes i = 1
  <2> HIDE DEF d
  <2> QED BY <1>2, Inverted
<1>4. Weight(P, p, z) = n \otimes i
  BY DEF Weight
<1> HIDE DEF n, d, i
<1>5. (n \otimes i) \otimes d = n
  <2>1. (n \otimes i) \otimes d = n \otimes (i \otimes d) /\ i \otimes d = d \otimes i
    BY <1>2, <1>3, ProductLaws
  <2> QED BY <1>2, <1>3, <2>1, ProductLaws, FieldNumbers
<1> QED BY <1>2, <1>3, <1>4, <1>5, Closed DEF n, d

\* What becomes of a weight when another point is left out.
LEMMA WeightStep ==
  ASSUME PrimeField, NEW P, PointsApart(P), NEW p \in P, NEW a \in P, a # p, NEW z \in Field
  PROVE  (p.x \ominus a.x) \otimes Weight(P, p, z) = (z \ominus a.x) \otimes Weight(P \ {a}, p, z)
<1> DEFINE Q == P \ {a}  R == Q \ {p}
           w == Weight(P, p, z)  v == Weight(Q, p, z)  n == Roots(R, z)  d == Roots(R, p.x)
           e == p.x \ominus a.x  f == z \ominus a.x
<1>1. PointsApart(Q) /\ PointsApart(P \ {p}) /\ p \in Q /\ a \in P \ {p} /\ (P \ {p}) \ {a} = R
      /\ p.x \in Field /\ a.x \in Field
  BY FewerApart DEF PointsApart
<1>2. v \in Field /\ d \in Field /\ d # 0 /\ v \otimes d = n
  BY <1>1, WeightIs
<1>3. w \in Field /\ w \otimes (e \otimes d) = f \otimes n
  <2>1. w \in Field /\ w \otimes Roots(P \ {p}, p.x) = Roots(P \ {p}, z)
    BY WeightIs
  <2>2. Roots(P \ {p}, p.x) = e \otimes d /\ Roots(P \ {p}, z) = f \otimes n
    BY <1>1, RootsPick
  <2> QED BY <2>1, <2>2
<1>4. e \in Field /\ f \in Field
  BY <1>1, Closed
<1> HIDE DEF w, v, n, d, e, f
<1>5. (e \otimes w) \otimes d = w \otimes (e \otimes d)
  <2>1. (e \otimes w) \otimes d = (w \otimes e) \otimes d
    BY <1>3, <1>4, ProductLaws
  <2> QED BY <1>2, <1>3, <1>4, <2>1, ProductLaws
<1>6. (f \otimes v) \otimes d = f \otimes n
  BY <1>2, <1>4, ProductLaws
<1>7. e \otimes w \in Field /\ f \otimes v \in Field
  BY <1>2, <1>3, <1>4, Closed
<1>8. e \otimes w = f \otimes v
  BY <1>2, <1>3, <1>5, <1>6, <1>7, Cancels
<1> QED BY <1>8 DEF e, f, w, v

-----------------------------------------------------------------------------
(* The value at z of the curve through given values. *)

\* It is an element.
LEMMA ThroughTyped ==
  ASSUME PrimeField, NEW P, PointsApart(P), NEW y \in [P -> Field], NEW z \in Field
  PROVE  /\ [p \in P |-> y[p] \otimes Weight(P, p, z)] \in [P -> Field]
         /\ Through(P, y, z) \in Field /\ IsFiniteSet(P)
<1>1. [p \in P |-> y[p] \otimes Weight(P, p, z)] \in [P -> Field]
  BY WeightIs, Closed
<1> QED BY <1>1, SumPicks DEF Through, PointsApart

\* Values times c give a curve times c.
LEMMA ThroughScales ==
  ASSUME PrimeField, NEW P, PointsApart(P), NEW y \in [P -> Field], NEW c \in Field, NEW z \in Field
  PROVE  Through(P, [p \in P |-> c \otimes y[p]], z) = c \otimes Through(P, y, z)
<1> DEFINE f == [p \in P |-> y[p] \otimes Weight(P, p, z)]
           h == [p \in P |-> c \otimes y[p]]
<1>1. [p \in P |-> h[p] \otimes Weight(P, p, z)] = [p \in P |-> c \otimes f[p]]
  <2>1. ASSUME NEW p \in P PROVE h[p] \otimes Weight(P, p, z) = c \otimes f[p]
    <3> DEFINE w == Weight(P, p, z)
    <3>1. w \in Field /\ y[p] \in Field
      BY WeightIs
    <3>2. h[p] = c \otimes y[p] /\ f[p] = y[p] \otimes w
      OBVIOUS
    <3> HIDE DEF w, h, f
    <3>3. (c \otimes y[p]) \otimes w = c \otimes (y[p] \otimes w)
      BY <3>1, ProductLaws
    <3> QED BY <3>2, <3>3 DEF w
  <2> HIDE DEF h, f
  <2> QED BY <2>1
<1>2. f \in [P -> Field] /\ IsFiniteSet(P)
  BY ThroughTyped
<1> HIDE DEF f, h
<1>3. SumOf([p \in P |-> c \otimes f[p]]) = c \otimes SumOf(f)
  BY <1>2, SumScales
<1>4. Through(P, h, z) = c \otimes SumOf(f)
  BY <1>1, <1>3 DEF Through
<1> QED BY <1>4 DEF Through, f, h

\* Sums of values give the sum of the curves.
LEMMA ThroughAdds ==
  ASSUME PrimeField, NEW P, PointsApart(P), NEW y \in [P -> Field], NEW g \in [P -> Field],
         NEW z \in Field
  PROVE  Through(P, [p \in P |-> y[p] \oplus g[p]], z) = Through(P, y, z) \oplus Through(P, g, z)
<1> DEFINE f == [p \in P |-> y[p] \otimes Weight(P, p, z)]
           e == [p \in P |-> g[p] \otimes Weight(P, p, z)]
           h == [p \in P |-> y[p] \oplus g[p]]
<1>1. [p \in P |-> h[p] \otimes Weight(P, p, z)] = [p \in P |-> f[p] \oplus e[p]]
  <2>1. ASSUME NEW p \in P PROVE h[p] \otimes Weight(P, p, z) = f[p] \oplus e[p]
    <3> DEFINE w == Weight(P, p, z)
    <3>1. w \in Field /\ y[p] \in Field /\ g[p] \in Field
      BY WeightIs
    <3>2. h[p] = y[p] \oplus g[p] /\ f[p] = y[p] \otimes w /\ e[p] = g[p] \otimes w
      OBVIOUS
    <3> HIDE DEF w, h, f, e
    <3>3. (y[p] \oplus g[p]) \otimes w = w \otimes (y[p] \oplus g[p])
          /\ w \otimes y[p] = y[p] \otimes w /\ w \otimes g[p] = g[p] \otimes w
      BY <3>1, Closed, ProductLaws
    <3> QED BY <3>1, <3>2, <3>3, Distributes DEF w
  <2> HIDE DEF h, f, e
  <2> QED BY <2>1
<1>2. f \in [P -> Field] /\ e \in [P -> Field] /\ IsFiniteSet(P)
  BY ThroughTyped
<1> HIDE DEF f, h, e
<1>3. SumOf([p \in P |-> f[p] \oplus e[p]]) = SumOf(f) \oplus SumOf(e)
  BY <1>2, SumAdds
<1>4. Through(P, h, z) = SumOf(f) \oplus SumOf(e)
  BY <1>1, <1>3 DEF Through
<1> QED BY <1>4 DEF Through, f, h, e

\* A value that vanishes at a is the others' times the distance from a.
LEMMA ThroughVanishing ==
  ASSUME PrimeField, NEW P, PointsApart(P), NEW a \in P, NEW g \in [P -> Field], NEW z \in Field
  PROVE  Through(P, [p \in P |-> (p.x \ominus a.x) \otimes g[p]], z)
           = (z \ominus a.x) \otimes Through(P \ {a}, Restrict(g, P \ {a}), z)
<1> DEFINE Q == P \ {a}  b == z \ominus a.x
           y == [p \in P |-> (p.x \ominus a.x) \otimes g[p]]
           h == [p \in P |-> y[p] \otimes Weight(P, p, z)]
           f == [p \in Q |-> Restrict(g, Q)[p] \otimes Weight(Q, p, z)]
<1>1. PointsApart(Q) /\ b \in Field /\ Restrict(g, Q) \in [Q -> Field]
      /\ \A p \in P : p.x \in Field /\ p.x \ominus a.x \in Field
  BY FewerApart, Restricting, Closed DEF PointsApart
<1>2. y \in [P -> Field]
  BY <1>1, Closed
<1>3. h \in [P -> Field] /\ f \in [Q -> Field] /\ IsFiniteSet(P) /\ IsFiniteSet(Q)
  <2>1. h \in [P -> Field] /\ IsFiniteSet(P)
    <3> HIDE DEF y
    <3>1. ASSUME NEW p \in P PROVE y[p] \otimes Weight(P, p, z) \in Field
      BY <1>2, WeightIs, Closed
    <3> QED BY <3>1 DEF PointsApart
  <2>2. f \in [Q -> Field] /\ IsFiniteSet(Q)
    <3> DEFINE r == Restrict(g, Q)
    <3> HIDE DEF Q, r
    <3>1. PointsApart(Q) /\ r \in [Q -> Field]
      BY <1>1 DEF r
    <3>2. [p \in Q |-> r[p] \otimes Weight(Q, p, z)] \in [Q -> Field] /\ IsFiniteSet(Q)
      BY <3>1, ThroughTyped
    <3> QED BY <3>2 DEF r
  <2> QED BY <2>1, <2>2
<1>4. h[a] = 0
  <2>1. y[a] = 0
    BY <1>1, ZeroDifference, ProductLaws
  <2>2. Weight(P, a, z) \in Field
    BY WeightIs
  <2> QED BY <2>1, <2>2, ProductLaws
<1>5. Restrict(h, Q) = [p \in Q |-> b \otimes f[p]]
  <2>1. ASSUME NEW p \in Q PROVE h[p] = b \otimes f[p]
    <3> DEFINE e == p.x \ominus a.x  w == Weight(P, p, z)  v == Weight(Q, p, z)
    <3>1. e \otimes w = b \otimes v
      BY WeightStep
    <3>2. w \in Field /\ v \in Field /\ g[p] \in Field /\ e \in Field
      BY <1>1, WeightIs
    <3>3. h[p] = (e \otimes g[p]) \otimes w /\ f[p] = g[p] \otimes v
      BY DEF Restrict
    <3> HIDE DEF e, w, v, b, h, f
    <3>4. (e \otimes g[p]) \otimes w = g[p] \otimes (e \otimes w)
      <4>1. (e \otimes g[p]) \otimes w = (g[p] \otimes e) \otimes w
        BY <3>2, ProductLaws
      <4> QED BY <3>2, <4>1, ProductLaws
    <3>5. g[p] \otimes (b \otimes v) = b \otimes (g[p] \otimes v)
      <4>1. g[p] \otimes (b \otimes v) = (g[p] \otimes b) \otimes v /\ g[p] \otimes b = b \otimes g[p]
        BY <1>1, <3>2, ProductLaws
      <4> QED BY <1>1, <3>2, <4>1, ProductLaws
    <3> QED BY <3>1, <3>3, <3>4, <3>5
  <2> HIDE DEF h, f, b
  <2> QED BY <2>1 DEF Restrict
<1> HIDE DEF h, f, b
<1>6. SumOf(h) = SumOf(Restrict(h, Q))
  <2>1. SumOf(h) = h[a] \oplus SumOf(Restrict(h, Q))
    BY <1>3, SumPicks
  <2>2. Restrict(h, Q) \in [Q -> Field]
    BY <1>3 DEF Restrict
  <2>3. SumOf(Restrict(h, Q)) \in Field
    BY <1>3, <2>2, SumPicks
  <2> QED BY <1>4, <2>1, <2>3, SumLaws
<1>7. SumOf([p \in Q |-> b \otimes f[p]]) = b \otimes SumOf(f)
  <2> HIDE DEF Q
  <2> QED BY <1>1, <1>3, SumScales
<1>8. Through(P, y, z) = SumOf(h) /\ Through(Q, Restrict(g, Q), z) = SumOf(f)
  BY DEF Through, h, f
<1> QED BY <1>5, <1>6, <1>7, <1>8 DEF b

\* The value one at every point.
Ones(P) == [p \in P |-> 1]

\* From x to a by way of b.
LEMMA DifferencesAdd ==
  \A x, a, b \in Field : x \ominus a = (x \ominus b) \oplus (b \ominus a)
<1> SUFFICES ASSUME NEW x \in Field, NEW a \in Field, NEW b \in Field
             PROVE  x \ominus a = (x \ominus b) \oplus (b \ominus a)
  OBVIOUS
<1> DEFINE u == x \ominus b  v == b \ominus a  w == x \ominus a
<1>1. u \in Field /\ v \in Field /\ w \in Field /\ u \oplus v \in Field
  BY Closed
<1>2. u \oplus b = x /\ v \oplus a = b /\ w \oplus a = x
  BY Differences
<1> HIDE DEF u, v, w
<1>3. (u \oplus v) \oplus a = u \oplus (v \oplus a)
  BY <1>1, SumLaws
<1>4. u \oplus v = w
  BY <1>1, <1>2, <1>3, Differences
<1> QED BY <1>4 DEF u, v, w

\* A single point has weight one.
LEMMA OneWeighs ==
  ASSUME PrimeField, NEW P, PointsApart(P), NEW a, P = {a}, NEW z \in Field
  PROVE  Through(P, Ones(P), z) = 1
<1>1. P \ {a} = {} /\ PointsApart(P \ {a}) /\ a \in P /\ a.x \in Field
  BY FewerApart DEF PointsApart
<1>2. Weight(P, a, z) = 1
  <2>1. Roots(P \ {a}, z) = 1 /\ Roots(P \ {a}, a.x) = 1
    BY <1>1, RootsPick
  <2>2. invmod(1) \in Field /\ 1 \otimes invmod(1) = 1
    BY Inverted, FieldNumbers
  <2> QED BY <2>1, <2>2 DEF Weight
<1> DEFINE f == [p \in P |-> Ones(P)[p] \otimes Weight(P, p, z)]
<1>3. f \in [P -> Field] /\ IsFiniteSet(P) /\ Through(P, Ones(P), z) = SumOf(f)
  <2>1. ASSUME NEW p \in P PROVE Ones(P)[p] \otimes Weight(P, p, z) \in Field
    BY WeightIs, Closed, FieldNumbers DEF Ones
  <2>2. Through(P, Ones(P), z) = SumOf(f)
    BY DEF Through
  <2> QED BY <2>1, <2>2 DEF PointsApart
<1>4. f[a] = 1
  BY <1>1, <1>2, ProductLaws, FieldNumbers DEF Ones
<1>5. SumOf(Restrict(f, P \ {a})) = 0
  <2>1. Restrict(f, P \ {a}) \in [P \ {a} -> Field]
    BY <1>1, <1>3 DEF Restrict
  <2> HIDE DEF f
  <2> QED BY <1>1, <2>1, SumPicks, FS_EmptySet
<1> HIDE DEF f
<1>6. SumOf(f) = f[a] \oplus SumOf(Restrict(f, P \ {a}))
  BY <1>1, <1>3, SumPicks
<1> QED BY <1>3, <1>4, <1>5, <1>6, SumLaws, FieldNumbers

\* The curve through ones is one everywhere.
LEMMA Unity ==
  ASSUME PrimeField, NEW P, PointsApart(P), P # {}, NEW z \in Field
  PROVE  Through(P, Ones(P), z) = 1
<1> DEFINE Bad == {T \in SUBSET P : T # {} /\ Through(T, Ones(T), z) # 1}
<1>1. ASSUME Bad # {} PROVE FALSE
  <2>1. PICK T \in Bad : \A U \in Bad : U \subseteq T => U = T
    <3>1. Bad \subseteq SUBSET P
      OBVIOUS
    <3> HIDE DEF Bad
    <3>2. IsFiniteSet(P)
      BY DEF PointsApart
    <3> QED BY <1>1, <3>1, <3>2, MinimalSet
  <2>2. T \in SUBSET P /\ T # {} /\ PointsApart(T) /\ Through(T, Ones(T), z) # 1
    BY FewerApart
  <2>3. PICK a \in T : TRUE
    BY <2>2
  <2>4. PICK b \in T : b # a
    <3>1. T # {a}
      BY <2>2, OneWeighs
    <3> QED BY <2>3, <3>1
  <2>5. ASSUME NEW c \in T, NEW d \in T, d # c
        PROVE  Through(T, [p \in T |-> (p.x \ominus c.x) \otimes Ones(T)[p]], z) = z \ominus c.x
    <3> DEFINE Q == T \ {c}
    <3>1. Q \in SUBSET P /\ Q # {} /\ ~ (Q \in Bad)
      BY <2>1, <2>2, <2>5
    <3>2. Through(Q, Ones(Q), z) = 1
      BY <3>1
    <3>3. Restrict(Ones(T), Q) = Ones(Q)
      BY DEF Restrict, Ones
    <3>4. Ones(T) \in [T -> Field]
      BY FieldNumbers DEF Ones
    <3>5. Through(T, [p \in T |-> (p.x \ominus c.x) \otimes Ones(T)[p]], z)
            = (z \ominus c.x) \otimes Through(T \ {c}, Restrict(Ones(T), T \ {c}), z)
      BY <2>2, <3>4, ThroughVanishing
    <3>6. z \ominus c.x \in Field
      BY <2>2, Closed DEF PointsApart
    <3>7. Through(T, [p \in T |-> (p.x \ominus c.x) \otimes Ones(T)[p]], z)
            = (z \ominus c.x) \otimes 1
      BY <3>2, <3>3, <3>5
    <3> QED BY <3>6, <3>7, ProductLaws, FieldNumbers
  <2> HIDE DEF Bad
  <2> DEFINE o == Ones(T)
             u == [p \in T |-> (p.x \ominus a.x) \otimes o[p]]
             v == [p \in T |-> (p.x \ominus b.x) \otimes o[p]]
             e == b.x \ominus a.x
             w == [p \in T |-> e \otimes o[p]]
             t == Through(T, o, z)
  <2>6. o \in [T -> Field] /\ \A p \in T : o[p] = 1
    BY FieldNumbers DEF Ones
  <2>7. \A p \in T : p.x \in Field
    BY <2>2 DEF PointsApart
  <2>8. e \in Field /\ e # 0 /\ z \ominus a.x \in Field /\ z \ominus b.x \in Field
    <3>1. a.x # b.x
      BY <2>2, <2>4 DEF PointsApart
    <3> QED BY <2>7, <3>1, Closed, ZeroDifference
  <2>9. v \in [T -> Field] /\ w \in [T -> Field] /\ u = [p \in T |-> v[p] \oplus w[p]]
    <3> HIDE DEF o
    <3>1. ASSUME NEW p \in T
          PROVE  /\ v[p] \in Field /\ w[p] \in Field /\ u[p] = v[p] \oplus w[p]
      <4>1. p.x \ominus a.x \in Field /\ p.x \ominus b.x \in Field
            /\ p.x \ominus a.x = (p.x \ominus b.x) \oplus e
        BY <2>7, Closed, DifferencesAdd
      <4>2. \A c \in Field : c \otimes o[p] = c
        BY <2>6, ProductLaws, FieldNumbers
      <4>3. u[p] = p.x \ominus a.x /\ v[p] = p.x \ominus b.x /\ w[p] = e
        BY <2>8, <4>1, <4>2
      <4> QED BY <2>8, <4>1, <4>3
    <3> HIDE DEF u, v, w
    <3>2. u = [p \in T |-> u[p]] /\ v = [p \in T |-> v[p]] /\ w = [p \in T |-> w[p]]
      BY DEF u, v, w
    <3> QED BY <3>1, <3>2
  <2>10. Through(T, u, z) = z \ominus a.x /\ Through(T, v, z) = z \ominus b.x
    BY <2>4, <2>5
  <2>11. Through(T, w, z) = e \otimes t /\ t \in Field
    <3> HIDE DEF o, e
    <3> QED BY <2>2, <2>6, <2>8, ThroughScales, ThroughTyped
  <2>12. Through(T, u, z) = Through(T, v, z) \oplus Through(T, w, z)
    <3> HIDE DEF u, v, w
    <3> QED BY <2>2, <2>9, ThroughAdds
  <2>13. z \ominus a.x = (z \ominus b.x) \oplus e
    BY <2>7, DifferencesAdd
  <2>14. t = 1
    <3> HIDE DEF u, v, w, e, t
    <3>1. (z \ominus b.x) \oplus (e \otimes t) = (z \ominus b.x) \oplus e
      BY <2>10, <2>11, <2>12, <2>13
    <3>2. e \otimes t = e
      <4>1. e \otimes t \in Field
        BY <2>8, <2>11, Closed
      <4>2. (e \otimes t) \oplus (z \ominus b.x) = e \oplus (z \ominus b.x)
        BY <2>8, <3>1, <4>1, SumLaws
      <4> QED BY <2>8, <4>1, <4>2, Differences
    <3>3. t \otimes e = 1 \otimes e
      BY <2>8, <2>11, <3>2, ProductLaws
    <3> QED BY <2>8, <2>11, <3>3, Cancels, FieldNumbers
  <2> QED BY <2>2, <2>14
<1> QED BY <1>1

-----------------------------------------------------------------------------
(* Horner's loop, and division by a linear factor. *)

\* The coefficients beyond the constant.
Coefficients(c, t) == \A j \in 1..(t - 1) : c[j] \in Field

\* The values of the accumulator.
HornerOf(A, c, t, x) ==
  /\ A \in [1..t -> Field] /\ A[t] = 0
  /\ \A j \in 1..(t - 1) : A[j] = (A[j + 1] \otimes x) \oplus c[j]

\* There is such an array (induction from its end).
LEMMA HornerExists ==
  ASSUME NEW t \in Nat \ {0}, NEW c, Coefficients(c, t), NEW x \in Field
  PROVE  \E A : HornerOf(A, c, t, x)
<1> DEFINE From(A, i) ==
             /\ A \in [1..t -> Field] /\ A[t] = 0
             /\ \A j \in 1..(t - 1) : j >= t - i => A[j] = (A[j + 1] \otimes x) \oplus c[j]
           Bad == {i \in Nat : i < t /\ ~ \E A : From(A, i)}
<1>1. ASSUME Bad # {} PROVE FALSE
  <2>1. PICK i \in Bad : \A k \in Bad : i <= k
    BY <1>1, LeastOf
  <2>2. i \in Nat /\ i < t /\ ~ \E A : From(A, i)
    OBVIOUS
  <2>3. i # 0
    <3>1. From([j \in 1..t |-> 0], 0)
      BY FieldNumbers
    <3> QED BY <2>2, <3>1
  <2>4. PICK A : From(A, i - 1)
    <3>1. i - 1 \in Nat /\ i - 1 < t
      BY <2>2, <2>3
    <3>2. ~ (i - 1 \in Bad)
      <4> HIDE DEF Bad
      <4> QED BY <2>1, <2>2, <3>1
    <3> QED BY <3>1, <3>2
  <2> DEFINE n == t - i  v == (A[n + 1] \otimes x) \oplus c[n]
             B == [A EXCEPT ![n] = v]
  <2>5. n \in 1..(t - 1) /\ v \in Field
    <3>1. n \in 1..(t - 1) /\ n + 1 \in 1..t
      BY <2>2, <2>3
    <3>2. A[n + 1] \in Field /\ c[n] \in Field
      BY <2>4, <3>1 DEF Coefficients
    <3> HIDE DEF n
    <3> QED BY <3>1, <3>2, Closed
  <2>6. From(B, i)
    <3> HIDE DEF v
    <3>1. B \in [1..t -> Field] /\ B[t] = 0
      BY <2>4, <2>5
    <3>2. ASSUME NEW j \in 1..(t - 1), j >= t - i
          PROVE  B[j] = (B[j + 1] \otimes x) \oplus c[j]
      <4>1. j + 1 \in 1..t /\ j + 1 # n /\ B[j + 1] = A[j + 1]
        BY <2>2, <2>4, <2>5, <3>2
      <4>2. CASE j = n
        <5>1. B[j] = v
          BY <2>4, <2>5, <4>2
        <5> QED BY <4>1, <4>2, <5>1 DEF v
      <4>3. CASE j # n
        <5>1. B[j] = A[j] /\ j >= t - (i - 1)
          BY <2>2, <2>4, <2>5, <3>2, <4>3
        <5> QED BY <2>4, <4>1, <5>1
      <4> QED BY <4>2, <4>3
    <3> QED BY <3>1, <3>2
  <2> QED BY <2>2, <2>6
<1>2. PICK A : From(A, t - 1)
  <2>1. t - 1 \in Nat /\ t - 1 < t
    OBVIOUS
  <2> QED BY <1>1, <2>1
<1>3. HornerOf(A, c, t, x)
  BY <1>2 DEF HornerOf
<1> QED BY <1>3

\* evaluate computes it.
LEMMA HornerIs ==
  ASSUME NEW t \in Nat \ {0}, NEW c, Coefficients(c, t), NEW x \in Field, NEW k \in Field
  PROVE  \E A : HornerOf(A, c, t, x) /\ evaluate(k, c, t, x) = (A[1] \otimes x) \oplus k
<1> DEFINE Is(A) == A = [j \in 1..t |-> IF j = t THEN 0 ELSE addmod(mulmod(A[j + 1], x), c[j])]
           acc == CHOOSE A : Is(A)
<1>1. PICK A : HornerOf(A, c, t, x)
  BY HornerExists
<1>2. Is(A)
  <2>1. ASSUME NEW j \in 1..t
        PROVE  A[j] = IF j = t THEN 0 ELSE addmod(mulmod(A[j + 1], x), c[j])
    BY <1>1 DEF HornerOf, \oplus, \otimes
  <2>2. A = [j \in 1..t |-> A[j]]
    BY <1>1 DEF HornerOf
  <2> QED BY <2>1, <2>2
<1>3. Is(acc)
  <2> HIDE DEF Is
  <2> QED BY <1>2
<1>4. evaluate(k, c, t, x) = (acc[1] \otimes x) \oplus k
  BY DEF evaluate, \oplus, \otimes
<1> HIDE DEF acc
<1>5. \A j \in 1..t : acc[j] = IF j = t THEN 0 ELSE addmod(mulmod(acc[j + 1], x), c[j])
  BY <1>3
<1> DEFINE Bad == {i \in Nat : i < t /\ acc[t - i] # A[t - i]}
<1>6. ASSUME Bad # {} PROVE FALSE
  <2>1. PICK i \in Bad : \A m \in Bad : i <= m
    BY <1>6, LeastOf
  <2>2. i \in Nat /\ i < t /\ acc[t - i] # A[t - i] /\ t - i \in 1..t
    OBVIOUS
  <2>3. i # 0
    <3>1. acc[t] = 0 /\ A[t] = 0
      BY <1>1, <1>5 DEF HornerOf
    <3> QED BY <2>2, <3>1
  <2>4. acc[(t - i) + 1] = A[(t - i) + 1]
    <3>1. i - 1 \in Nat /\ i - 1 < t /\ ~ (i - 1 \in Bad) /\ t - (i - 1) = (t - i) + 1
      BY <2>1, <2>2, <2>3
    <3> QED BY <3>1
  <2>5. t - i # t /\ t - i \in 1..(t - 1)
    BY <2>2, <2>3
  <2>6. acc[t - i] = addmod(mulmod(acc[(t - i) + 1], x), c[t - i])
    BY <1>5, <2>2, <2>5
  <2>7. A[t - i] = addmod(mulmod(A[(t - i) + 1], x), c[t - i])
    BY <1>1, <2>5 DEF HornerOf, \oplus, \otimes
  <2> QED BY <2>2, <2>4, <2>6, <2>7
<1>7. acc[1] = A[1]
  <2>1. t - 1 \in Nat /\ t - 1 < t /\ t - (t - 1) = 1
    OBVIOUS
  <2> QED BY <1>6, <2>1
<1> QED BY <1>1, <1>4, <1>7

\* A polynomial takes values in the field; a constant one its constant.
LEMMA EvaluateTyped ==
  ASSUME NEW t \in Nat \ {0}, NEW c, Coefficients(c, t), NEW x \in Field, NEW k \in Field
  PROVE  evaluate(k, c, t, x) \in Field /\ (t = 1 => evaluate(k, c, t, x) = k)
<1>1. PICK A : HornerOf(A, c, t, x) /\ evaluate(k, c, t, x) = (A[1] \otimes x) \oplus k
  BY HornerIs
<1>2. A[1] \in Field /\ (t = 1 => A[1] = 0)
  BY <1>1 DEF HornerOf
<1>3. A[1] \otimes x \in Field /\ (A[1] \otimes x) \oplus k \in Field
  BY <1>2, Closed
<1>4. ASSUME t = 1 PROVE (A[1] \otimes x) \oplus k = k
  <2>1. A[1] \otimes x = 0
    BY <1>2, <1>4, ProductLaws
  <2> QED BY <2>1, SumLaws
<1> QED BY <1>1, <1>3, <1>4

\* A turn of the loop at x and at a: their difference goes on dividing.
LEMMA HornerStep ==
  ASSUME NEW x \in Field, NEW a \in Field, NEW b \in Field, NEW h \in Field, NEW q \in Field,
         NEW e \in Field, h = b \oplus ((x \ominus a) \otimes q)
  PROVE  (h \otimes x) \oplus e
           = ((b \otimes a) \oplus e) \oplus ((x \ominus a) \otimes ((q \otimes x) \oplus b))
<1> DEFINE d == x \ominus a  qx == q \otimes x  db == d \otimes b  ba == b \otimes a
           dqx == d \otimes qx
<1>1. d \in Field /\ qx \in Field /\ db \in Field /\ ba \in Field /\ dqx \in Field
  BY Closed
<1>2. h \otimes x = (db \oplus ba) \oplus dqx
  <2> DEFINE dq == d \otimes q
  <2>1. dq \in Field /\ h = b \oplus dq
    BY <1>1, Closed
  <2>2. (b \oplus dq) \otimes x = (x \otimes b) \oplus (x \otimes dq)
    <3> HIDE DEF dq
    <3> QED BY <2>1, Closed, ProductLaws, Distributes
  <2>3. x \otimes dq = dqx
    <3> HIDE DEF d
    <3>1. x \otimes dq = (d \otimes q) \otimes x
      BY <1>1, <2>1, ProductLaws
    <3> QED BY <1>1, <3>1, ProductLaws
  <2>4. x \otimes b = db \oplus ba
    <3>1. x = d \oplus a
      BY Differences
    <3> HIDE DEF d
    <3>2. x \otimes b = b \otimes (d \oplus a)
      BY <3>1, ProductLaws
    <3>3. b \otimes (d \oplus a) = (b \otimes d) \oplus (b \otimes a)
      BY <1>1, Distributes
    <3>4. b \otimes d = db
      BY <1>1, ProductLaws
    <3> QED BY <3>2, <3>3, <3>4
  <2> QED BY <2>1, <2>2, <2>3, <2>4
<1>3. d \otimes (qx \oplus b) = dqx \oplus db
  <2> HIDE DEF d, qx
  <2> QED BY <1>1, Distributes
<1> HIDE DEF d, qx, db, ba, dqx
<1>4. ((db \oplus ba) \oplus dqx) \oplus e = (ba \oplus e) \oplus (dqx \oplus db)
  <2>1. ((db \oplus ba) \oplus dqx) \oplus e = (db \oplus ba) \oplus (dqx \oplus e)
    BY <1>1, Closed, SumLaws
  <2>2. (db \oplus ba) \oplus (dqx \oplus e) = (db \oplus dqx) \oplus (ba \oplus e)
    BY <1>1, SumsSwap
  <2>3. (db \oplus dqx) \oplus (ba \oplus e) = (ba \oplus e) \oplus (dqx \oplus db)
    <3>1. db \oplus dqx \in Field /\ ba \oplus e \in Field /\ db \oplus dqx = dqx \oplus db
      BY <1>1, Closed, SumLaws
    <3> QED BY <3>1, SumLaws
  <2> QED BY <2>1, <2>2, <2>3
<1> QED BY <1>2, <1>3, <1>4 DEF d, qx, db, ba, dqx

\* Division of a polynomial by (X - a): a quotient with one coefficient less.
LEMMA Divides ==
  ASSUME NEW t \in Nat \ {0, 1}, NEW c, Coefficients(c, t), NEW k \in Field, NEW a \in Field
  PROVE  \E c2, k2 : Coefficients(c2, t - 1) /\ k2 \in Field /\ \A x \in Field :
           evaluate(k, c, t, x)
             = evaluate(k, c, t, a) \oplus ((x \ominus a) \otimes evaluate(k2, c2, t - 1, x))
<1>1. PICK B : HornerOf(B, c, t, a) /\ evaluate(k, c, t, a) = (B[1] \otimes a) \oplus k
  BY HornerIs
<1> DEFINE c2 == [j \in 1..(t - 2) |-> B[j + 1]]
<1>2. Coefficients(c2, t - 1) /\ B[1] \in Field
  <2>1. \A j \in 1..(t - 2) : j + 1 \in 1..t
    OBVIOUS
  <2>2. (t - 1) - 1 = t - 2 /\ 1 \in 1..t
    OBVIOUS
  <2> QED BY <1>1, <2>1, <2>2 DEF HornerOf, Coefficients
<1>3. ASSUME NEW x \in Field
      PROVE evaluate(k, c, t, x)
             = evaluate(k, c, t, a) \oplus ((x \ominus a) \otimes evaluate(B[1], c2, t - 1, x))
  <2>1. PICK G : HornerOf(G, c, t, x) /\ evaluate(k, c, t, x) = (G[1] \otimes x) \oplus k
    BY HornerIs
  <2>2. PICK Q : /\ HornerOf(Q, c2, t - 1, x)
                 /\ evaluate(B[1], c2, t - 1, x) = (Q[1] \otimes x) \oplus B[1]
    <3>1. t - 1 \in Nat \ {0}
      OBVIOUS
    <3> HIDE DEF c2
    <3> QED BY <1>2, <3>1, HornerIs
  <2> DEFINE Divided(j) == G[j] = B[j] \oplus ((x \ominus a) \otimes Q[j])
             Bad == {i \in Nat : i < t - 1 /\ ~ Divided(t - 1 - i)}
  <2>3. \A j \in 1..(t - 1) : G[j] \in Field /\ B[j] \in Field /\ Q[j] \in Field
    BY <1>1, <2>1, <2>2 DEF HornerOf
  <2>4. x \ominus a \in Field
    BY Closed
  <2>5. ASSUME Bad # {} PROVE FALSE
    <3>1. PICK i \in Bad : \A m \in Bad : i <= m
      BY <2>5, LeastOf
    <3> DEFINE n == t - 1 - i
    <3>2. i \in Nat /\ i < t - 1 /\ n \in 1..(t - 1) /\ ~ Divided(n)
      OBVIOUS
    <3>3. CASE i = 0
      <4>1. n = t - 1 /\ n + 1 = t /\ Q[n] = 0 /\ G[n + 1] = 0 /\ B[n + 1] = 0
        BY <1>1, <2>1, <2>2, <3>3 DEF HornerOf
      <4> HIDE DEF n, Bad
      <4>2. G[n] = (0 \otimes x) \oplus c[n] /\ B[n] = (0 \otimes a) \oplus c[n]
        BY <1>1, <2>1, <3>2, <4>1 DEF HornerOf
      <4>3. G[n] = B[n] /\ G[n] \in Field /\ B[n] \in Field
        BY <2>3, <3>2, <4>2, ProductLaws
      <4>4. (x \ominus a) \otimes Q[n] = 0
        <5>1. ASSUME NEW d \in Field PROVE d \otimes 0 = 0
          BY ProductLaws, FieldNumbers
        <5>2. (x \ominus a) \otimes 0 = 0
          BY <5>1, <2>4
        <5> QED BY <4>1, <5>2
      <4>5. B[n] \oplus 0 = B[n]
        BY <4>3, SumLaws, FieldNumbers
      <4> QED BY <3>2, <4>3, <4>4, <4>5
    <3>4. CASE i # 0
      <4>1. Divided(n + 1) /\ n + 1 \in 1..(t - 1)
        <5>1. i - 1 \in Nat /\ i - 1 < t - 1 /\ ~ (i - 1 \in Bad) /\ t - 1 - (i - 1) = n + 1
          BY <3>1, <3>2, <3>4
        <5>2. Divided(t - 1 - (i - 1))
          BY <5>1
        <5>3. Divided(n + 1)
          BY <5>1, <5>2
        <5> QED BY <3>2, <3>4, <5>3
      <4> DEFINE b == B[n + 1]  h == G[n + 1]  q == Q[n + 1]  e == c[n]
      <4>2. b \in Field /\ h \in Field /\ q \in Field /\ e \in Field
        BY <2>3, <3>2, <4>1 DEF Coefficients
      <4>3. n \in 1..(t - 2) /\ n \in 1..((t - 1) - 1)
        BY <3>2, <4>1
      <4>4. c2[n] = b
        BY <4>3
      <4>5. G[n] = (h \otimes x) \oplus e /\ B[n] = (b \otimes a) \oplus e
            /\ Q[n] = (q \otimes x) \oplus b
        <5> HIDE DEF c2, n
        <5> QED BY <1>1, <2>1, <2>2, <3>2, <4>3, <4>4 DEF HornerOf
      <4>6. h = b \oplus ((x \ominus a) \otimes q)
        BY <4>1
      <4> HIDE DEF b, h, q, e, n, Bad
      <4>7. Divided(n)
        BY <4>2, <4>5, <4>6, HornerStep
      <4> QED BY <3>2, <4>7
    <3> QED BY <3>3, <3>4
  <2>6. Divided(1)
    <3>1. t - 2 \in Nat /\ t - 2 < t - 1 /\ t - 1 - (t - 2) = 1
      OBVIOUS
    <3> QED BY <2>5, <3>1
  <2>7. 1 \in 1..(t - 1)
    OBVIOUS
  <2> HIDE DEF c2, Bad
  <2>8. G[1] \in Field /\ B[1] \in Field /\ Q[1] \in Field
        /\ G[1] = B[1] \oplus ((x \ominus a) \otimes Q[1])
    BY <2>3, <2>6, <2>7
  <2>9. (G[1] \otimes x) \oplus k
          = ((B[1] \otimes a) \oplus k) \oplus ((x \ominus a) \otimes ((Q[1] \otimes x) \oplus B[1]))
    BY <2>8, HornerStep
  <2> QED BY <1>1, <2>1, <2>2, <2>9
<1> QED BY <1>2, <1>3

-----------------------------------------------------------------------------
(* Interpolation. *)

\* The curve through a polynomial's values is the polynomial, when there are
\* at least as many points as coefficients.
LEMMA CurveIsPolynomial ==
  ASSUME PrimeField, NEW z \in Field
  PROVE  \A t \in Nat \ {0} : \A P, c : \A k \in Field :
           PointsApart(P) /\ Coefficients(c, t) /\ Cardinality(P) >= t =>
             Through(P, [p \in P |-> evaluate(k, c, t, p.x)], z) = evaluate(k, c, t, z)
<1> DEFINE Interpolates(t) ==
             \A P, c : \A k \in Field :
               PointsApart(P) /\ Coefficients(c, t) /\ Cardinality(P) >= t =>
                 Through(P, [p \in P |-> evaluate(k, c, t, p.x)], z) = evaluate(k, c, t, z)
           Bad == {t \in Nat \ {0} : ~ Interpolates(t)}
<1>1. ASSUME Bad # {} PROVE FALSE
  <2>1. PICK t \in Bad : \A m \in Bad : t <= m
    <3>1. Bad \subseteq Nat
      OBVIOUS
    <3> HIDE DEF Bad
    <3> QED BY <1>1, <3>1, LeastOf
  <2>2. t \in Nat \ {0} /\ ~ Interpolates(t)
    OBVIOUS
  <2>3. ASSUME NEW P, NEW c, Coefficients(c, t), NEW k \in Field,
               PointsApart(P), Cardinality(P) >= t
        PROVE  Through(P, [p \in P |-> evaluate(k, c, t, p.x)], z) = evaluate(k, c, t, z)
    <3> DEFINE y == [p \in P |-> evaluate(k, c, t, p.x)]
    <3>1. P # {} /\ IsFiniteSet(P) /\ Cardinality(P) \in Nat
      BY <2>2, <2>3, FS_EmptySet, FS_CardinalityType DEF PointsApart
    <3>2. \A p \in P : p.x \in Field
      BY <2>3 DEF PointsApart
    <3>3. CASE t = 1
      <4>1. y = [p \in P |-> k \otimes Ones(P)[p]]
        <5>1. ASSUME NEW p \in P
              PROVE  evaluate(k, c, t, p.x) = k \otimes Ones(P)[p]
          <6>1. evaluate(k, c, t, p.x) = k
            BY <2>3, <2>2, <3>2, <3>3, EvaluateTyped
          <6>2. k \otimes 1 = k
            BY ProductLaws, FieldNumbers
          <6> QED BY <6>1, <6>2 DEF Ones
        <5> QED BY <5>1
      <4>2. Through(P, [p \in P |-> k \otimes Ones(P)[p]], z) = k \otimes Through(P, Ones(P), z)
        <5>1. Ones(P) \in [P -> Field]
          BY FieldNumbers DEF Ones
        <5> QED BY <2>3, <5>1, ThroughScales
      <4>3. Through(P, Ones(P), z) = 1
        BY <2>3, <3>1, Unity
      <4>4. k \otimes 1 = k
        BY ProductLaws, FieldNumbers
      <4>5. evaluate(k, c, t, z) = k
        BY <2>3, <2>2, <3>3, EvaluateTyped
      <4> HIDE DEF y
      <4> QED BY <4>1, <4>2, <4>3, <4>4, <4>5 DEF y
    <3>4. CASE t # 1
      <4>1. t - 1 \in Nat \ {0} /\ t \in Nat \ {0, 1}
        BY <2>2, <3>4
      <4>2. Interpolates(t - 1)
        <5>1. ~ (t - 1 \in Bad)
          <6> HIDE DEF Bad
          <6> QED BY <2>1, <4>1
        <5> HIDE DEF Interpolates
        <5> QED BY <4>1, <5>1
      <4>3. PICK a \in P : TRUE
        BY <3>1
      <4> DEFINE Q == P \ {a}  ea == evaluate(k, c, t, a.x)  b == z \ominus a.x
      <4>4. a.x \in Field
        BY <3>2
      <4>5. PICK c2, k2 : Coefficients(c2, t - 1) /\ k2 \in Field /\ \A x \in Field :
              evaluate(k, c, t, x)
                = ea \oplus ((x \ominus a.x) \otimes evaluate(k2, c2, t - 1, x))
        <5>1. \E c2, k2 : Coefficients(c2, t - 1) /\ k2 \in Field /\ \A x \in Field :
                evaluate(k, c, t, x) = evaluate(k, c, t, a.x)
                  \oplus ((x \ominus a.x) \otimes evaluate(k2, c2, t - 1, x))
          <6> DEFINE u == a.x
          <6>1. u \in Field
            BY <4>4
          <6> HIDE DEF u, Bad
          <6>2. \E c2, k2 : Coefficients(c2, t - 1) /\ k2 \in Field /\ \A x \in Field :
                  evaluate(k, c, t, x) = evaluate(k, c, t, u)
                    \oplus ((x \ominus u) \otimes evaluate(k2, c2, t - 1, x))
            BY <2>3, <4>1, <6>1, Divides
          <6> QED BY <6>2 DEF u
        <5> QED BY <5>1
      <4> DEFINE g == [p \in P |-> evaluate(k2, c2, t - 1, p.x)]
                 s == [p \in P |-> ea \otimes Ones(P)[p]]
                 v == [p \in P |-> (p.x \ominus a.x) \otimes g[p]]
      <4>6. ea \in Field /\ b \in Field /\ g \in [P -> Field]
        <5>1. \A p \in P : evaluate(k2, c2, t - 1, p.x) \in Field
          BY <4>5, <3>2, <4>1, EvaluateTyped
        <5> QED BY <2>3, <2>2, <4>4, <5>1, EvaluateTyped, Closed
      <4>7. Ones(P) \in [P -> Field] /\ \A p \in P : Ones(P)[p] = 1
        BY FieldNumbers DEF Ones
      <4> HIDE DEF ea, g, Bad
      <4>8. s \in [P -> Field] /\ \A p \in P : s[p] = ea
        <5>1. ea \otimes 1 = ea
          BY <4>6, ProductLaws, FieldNumbers
        <5> QED BY <4>6, <4>7, <5>1
      <4>9. v \in [P -> Field]
        BY <3>2, <4>4, <4>6, Closed
      <4>10. y = [p \in P |-> s[p] \oplus v[p]]
        <5>1. ASSUME NEW p \in P PROVE evaluate(k, c, t, p.x) = s[p] \oplus v[p]
          BY <3>2, <4>5, <4>8 DEF g
        <5> HIDE DEF s, v
        <5> QED BY <5>1
      <4>11. Through(P, s, z) = ea
        <5>1. Through(P, s, z) = ea \otimes Through(P, Ones(P), z)
          BY <2>3, <4>6, <4>7, ThroughScales
        <5>2. Through(P, Ones(P), z) = 1
          BY <2>3, <3>1, Unity
        <5>3. ea \otimes 1 = ea
          BY <4>6, ProductLaws, FieldNumbers
        <5> QED BY <5>1, <5>2, <5>3
      <4>12. Through(P, v, z) = b \otimes Through(Q, Restrict(g, Q), z)
        BY <2>3, <4>6, ThroughVanishing
      <4>13. Through(Q, Restrict(g, Q), z) = evaluate(k2, c2, t - 1, z)
        <5>1. PointsApart(Q)
          BY <2>3, FewerApart
        <5>2. Cardinality(Q) >= t - 1
          <6>1. Cardinality(Q) = Cardinality(P) - 1
            BY <3>1, FS_RemoveElement
          <6> HIDE DEF Q
          <6> QED BY <2>2, <2>3, <3>1, <6>1
        <5>3. Restrict(g, Q) = [p \in Q |-> evaluate(k2, c2, t - 1, p.x)]
          BY DEF Restrict, g
        <5> HIDE DEF Q
        <5>4. Through(Q, [p \in Q |-> evaluate(k2, c2, t - 1, p.x)], z) = evaluate(k2, c2, t - 1, z)
          BY <4>5, <4>2, <5>1, <5>2
        <5> QED BY <5>3, <5>4
      <4>14. Through(P, y, z) = Through(P, s, z) \oplus Through(P, v, z)
        <5> HIDE DEF y, s, v
        <5> QED BY <2>3, <4>8, <4>9, <4>10, ThroughAdds
      <4>15. evaluate(k, c, t, z) = ea \oplus (b \otimes evaluate(k2, c2, t - 1, z))
        BY <4>5
      <4> HIDE DEF y, s, v, Q, b
      <4>16. Through(P, y, z) = evaluate(k, c, t, z)
        BY <4>11, <4>12, <4>13, <4>14, <4>15
      <4> QED BY <4>16 DEF y
    <3> QED BY <3>3, <3>4
  <2> QED BY <2>2, <2>3
<1> QED BY <1>1

\* Taken at zero, the products may leave the signs out of both.
LEMMA SignsCancel ==
  \A q, u \in Field : q \otimes (u \ominus q) = (0 \ominus q) \otimes (q \ominus u)
<1> SUFFICES ASSUME NEW q \in Field, NEW u \in Field
             PROVE  q \otimes (u \ominus q) = (0 \ominus q) \otimes (q \ominus u)
  OBVIOUS
<1> DEFINE e == u \ominus q  f == q \ominus u  n == 0 \ominus q
<1>1. e \in Field /\ f \in Field /\ n \in Field
  BY Closed, FieldNumbers
<1>2. n \oplus q = 0
  BY Differences, FieldNumbers
<1>3. e \oplus f = 0
  BY DifferencesAdd, ZeroDifference
<1> HIDE DEF e, f, n
<1>4. (q \otimes e) \oplus (q \otimes f) = 0
  <2>1. q \otimes (e \oplus f) = (q \otimes e) \oplus (q \otimes f)
    BY <1>1, Distributes
  <2>2. q \otimes 0 = 0
    BY ProductLaws, FieldNumbers
  <2> QED BY <1>3, <2>1, <2>2
<1>5. (n \otimes f) \oplus (q \otimes f) = 0
  <2>1. f \otimes (n \oplus q) = (f \otimes n) \oplus (f \otimes q)
    BY <1>1, Distributes
  <2>2. f \otimes 0 = 0 /\ f \otimes n = n \otimes f /\ f \otimes q = q \otimes f
    BY <1>1, ProductLaws, FieldNumbers
  <2> QED BY <1>2, <2>1, <2>2
<1>6. q \otimes e \in Field /\ n \otimes f \in Field /\ q \otimes f \in Field
  BY <1>1, Closed
<1>7. q \otimes e = n \otimes f
  BY <1>4, <1>5, <1>6, Differences
<1> QED BY <1>7 DEF e, f, n

\* Quotients are equal if the products crosswise are.
LEMMA QuotientsEqual ==
  ASSUME PrimeField, NEW n \in Field, NEW d \in Field, NEW m \in Field, NEW e \in Field,
         d # 0, e # 0, n \otimes e = m \otimes d
  PROVE  n \otimes invmod(d) = m \otimes invmod(e)
<1> DEFINE i == invmod(d)  j == invmod(e)
<1>1. i \in Field /\ d \otimes i = 1
  BY Inverted
<1>2. j \in Field /\ e \otimes j = 1
  BY Inverted
<1> HIDE DEF i, j
<1>3. (n \otimes i) \otimes (d \otimes e) = n \otimes e
  <2>1. (n \otimes i) \otimes (d \otimes e) = (n \otimes i) \otimes (e \otimes d)
    BY ProductLaws
  <2>2. (n \otimes i) \otimes (e \otimes d) = (n \otimes e) \otimes (i \otimes d)
    BY <1>1, ProductsSwap
  <2>3. i \otimes d = 1
    BY <1>1, ProductLaws
  <2>4. (n \otimes e) \otimes 1 = n \otimes e
    BY Closed, ProductLaws, FieldNumbers
  <2> QED BY <2>1, <2>2, <2>3, <2>4
<1>4. (m \otimes j) \otimes (d \otimes e) = m \otimes d
  <2>1. (m \otimes j) \otimes (d \otimes e) = (m \otimes d) \otimes (j \otimes e)
    BY <1>2, ProductsSwap
  <2>2. j \otimes e = 1
    BY <1>2, ProductLaws
  <2>3. (m \otimes d) \otimes 1 = m \otimes d
    BY Closed, ProductLaws, FieldNumbers
  <2> QED BY <2>1, <2>2, <2>3
<1>5. d \otimes e \in Field /\ d \otimes e # 0 /\ n \otimes i \in Field /\ m \otimes j \in Field
  BY <1>1, <1>2, Closed, NoZeroDivisors
<1>6. n \otimes i = m \otimes j
  BY <1>3, <1>4, <1>5, Cancels
<1> QED BY <1>6 DEF i, j

\* The weight that lagrangeAt0 computes is the weight at zero.
LEMMA WeightAtZero ==
  ASSUME PrimeField, NEW P, PointsApart(P), NEW p \in P
  PROVE  mulmod(ProductOf([q \in P \ {p} |-> q.x]),
                invmod(ProductOf([q \in P \ {p} |-> submod(q.x, p.x)])))
           = Weight(P, p, 0)
<1> DEFINE Q == P \ {p}  u == p.x
           f == [q \in Q |-> q.x]        g == [q \in Q |-> q.x \ominus u]
           h == [q \in Q |-> 0 \ominus q.x]  e == [q \in Q |-> u \ominus q.x]
<1>1. IsFiniteSet(Q) /\ u \in Field /\ \A q \in Q : q.x \in Field /\ q.x # u
  BY FewerApart DEF PointsApart
<1>2. f \in [Q -> Field] /\ g \in [Q -> Field] /\ h \in [Q -> Field] /\ e \in [Q -> Field]
  BY <1>1, Closed, FieldNumbers
<1>3. [q \in Q |-> f[q] \otimes e[q]] = [q \in Q |-> h[q] \otimes g[q]]
  BY <1>1, SignsCancel
<1>4. \A q \in Q : g[q] # 0 /\ e[q] # 0
  BY <1>1, ZeroDifference
<1>5. mulmod(ProductOf([q \in P \ {p} |-> q.x]),
             invmod(ProductOf([q \in P \ {p} |-> submod(q.x, p.x)])))
        = ProductOf(f) \otimes invmod(ProductOf(g))
  BY DEF \otimes, \ominus
<1>6. Weight(P, p, 0) = ProductOf(h) \otimes invmod(ProductOf(e))
  BY DEF Weight, Roots
<1> HIDE DEF f, g, h, e, Q
<1>7. ProductOf(f) \otimes ProductOf(e) = ProductOf(h) \otimes ProductOf(g)
  <2>1. ProductOf([q \in Q |-> f[q] \otimes e[q]]) = ProductOf(f) \otimes ProductOf(e)
    BY <1>1, <1>2, ProductMultiplies
  <2>2. ProductOf([q \in Q |-> h[q] \otimes g[q]]) = ProductOf(h) \otimes ProductOf(g)
    BY <1>1, <1>2, ProductMultiplies
  <2> QED BY <1>3, <2>1, <2>2
<1>8. /\ ProductOf(f) \in Field /\ ProductOf(g) \in Field
      /\ ProductOf(h) \in Field /\ ProductOf(e) \in Field
  BY <1>1, <1>2, ProductPicks
<1>9. ProductOf(g) # 0 /\ ProductOf(e) # 0
  BY <1>1, <1>2, <1>4, ProductNotZero
<1>10. ProductOf(f) \otimes invmod(ProductOf(g)) = ProductOf(h) \otimes invmod(ProductOf(e))
  BY <1>7, <1>8, <1>9, QuotientsEqual
<1> QED BY <1>5, <1>6, <1>10

(***************************************************************************)
(* core.go:725-763: from at least t points apart on a polynomial with t    *)
(* coefficients, lagrangeAt0 returns its constant, the key, and evaluateAt *)
(* its value anywhere.                                                     *)
(***************************************************************************)
THEOREM InterpolationExact ==
  PrimeField =>
    \A t \in Nat \ {0} : \A points, c : \A k \in Field :
      /\ PointsApart(points) /\ Coefficients(c, t) /\ Cardinality(points) >= t
      /\ \A p \in points : p.y = evaluate(k, c, t, p.x)
      => /\ lagrangeAt0(points) = k
         /\ \A xq \in Field : evaluateAt(points, xq) = evaluate(k, c, t, xq)
<1> SUFFICES ASSUME PrimeField, NEW t \in Nat \ {0}, NEW points, NEW c, Coefficients(c, t),
                    NEW k \in Field, PointsApart(points), Cardinality(points) >= t,
                    \A p \in points : p.y = evaluate(k, c, t, p.x)
             PROVE  /\ lagrangeAt0(points) = k
                    /\ \A xq \in Field : evaluateAt(points, xq) = evaluate(k, c, t, xq)
  OBVIOUS
<1> DEFINE y == [p \in points |-> evaluate(k, c, t, p.x)]
<1>1. ASSUME NEW z \in Field PROVE Through(points, y, z) = evaluate(k, c, t, z)
  BY CurveIsPolynomial
<1>2. ASSUME NEW xq \in Field PROVE evaluateAt(points, xq) = Through(points, y, xq)
  <2>1. \A p \in points :
          mulmod(p.y, mulmod(ProductOf([q \in points \ {p} |-> submod(xq, q.x)]),
                             invmod(ProductOf([q \in points \ {p} |-> submod(p.x, q.x)]))))
            = y[p] \otimes Weight(points, p, xq)
    BY DEF Weight, Roots, \otimes, \ominus
  <2> HIDE DEF y
  <2> QED BY <2>1 DEF evaluateAt, Through
<1>3. lagrangeAt0(points) = Through(points, y, 0)
  <2>1. \A p \in points :
          mulmod(p.y, mulmod(ProductOf([q \in points \ {p} |-> q.x]),
                             invmod(ProductOf([q \in points \ {p} |-> submod(q.x, p.x)]))))
            = y[p] \otimes Weight(points, p, 0)
    <3>1. ASSUME NEW p \in points
          PROVE mulmod(p.y, mulmod(ProductOf([q \in points \ {p} |-> q.x]),
                             invmod(ProductOf([q \in points \ {p} |-> submod(q.x, p.x)]))))
            = mulmod(p.y, Weight(points, p, 0))
      BY WeightAtZero
    <3> QED BY <3>1 DEF \otimes
  <2> HIDE DEF y
  <2> QED BY <2>1 DEF lagrangeAt0, Through
<1>4. evaluate(k, c, t, 0) = k
  <2>1. PICK A : HornerOf(A, c, t, 0) /\ evaluate(k, c, t, 0) = (A[1] \otimes 0) \oplus k
    BY HornerIs, FieldNumbers
  <2>2. A[1] \in Field
    BY <2>1 DEF HornerOf
  <2>3. A[1] \otimes 0 = 0
    BY <2>2, ProductLaws, FieldNumbers
  <2> QED BY <2>1, <2>3, SumLaws
<1> QED BY <1>1, <1>2, <1>3, <1>4, FieldNumbers
=============================================================================
