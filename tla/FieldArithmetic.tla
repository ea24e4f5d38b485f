---------------------------- MODULE FieldArithmetic ----------------------------
(***************************************************************************)
(* The field and the polynomials of slhwid/core.go: arithmetic modulo the  *)
(* Mersenne prime 2^61 - 1 on words of 64 bits, products put together from *)
(* halves of 31 bits; the shares of a key, and interpolation.  Every word  *)
(* operation wraps.  The widths are one parameter: with Radix for 2^31 the *)
(* prime is Radix^2 / 2 - 1, and a word holds 4 Radix^2 values.            *)
(***************************************************************************)
EXTENDS Integers, FiniteSets, Functions

CONSTANT Radix

ASSUME RadixAssumption == Radix \in Nat /\ Radix > 4 /\ Radix % 2 = 0

prime == (Radix * Radix) \div 2 - 1
Field == 0..(prime - 1)

Wrapped(x)  == x % (4 * Radix * Radix)
LowHalf(x)  == x % Radix      \* x & lo31
HighHalf(x) == x \div Radix   \* x >> 31

\* Mutant: a sum equal to the prime is left alone.
addmodLoose(a, b) == LET s == Wrapped(a + b) IN IF s > prime THEN s - prime ELSE s

addmod(a, b) == LET s == Wrapped(a + b) IN IF s >= prime THEN s - prime ELSE s

submod(a, b) == IF a >= b THEN a - b ELSE Wrapped(a + prime) - b

red64(x) ==
  LET r == Wrapped((x % (prime + 1)) + (x \div (prime + 1)))
  IN  IF r >= prime THEN r - prime ELSE r

mulmod(a, b) ==
  LET alo == LowHalf(a)  ahi == HighHalf(a)
      blo == LowHalf(b)  bhi == HighHalf(b)
      ll  == Wrapped(alo * blo)
      t   == Wrapped(alo * bhi + ahi * blo)
      hh  == Wrapped(ahi * bhi)
      low == addmod(red64(ll), red64(Wrapped(LowHalf(t) * Radix)))
  IN  addmod(addmod(low, red64(Wrapped(HighHalf(t) * 2))), red64(Wrapped(hh * 2)))

\* Euclid's loop, on the coefficients of a and the remainders they give.
EuclidState == [lm : Int, hm : Int, low : Nat, high : Nat]

euclidStep(s) ==
  LET r == s.high \div s.low
  IN  [lm |-> s.hm - s.lm * r, hm |-> s.lm, low |-> s.high - s.low * r, high |-> s.low]

\* The coefficient of a once the remainder is at most 1.
euclid[s \in EuclidState] == IF s.low <= 1 THEN s.lm ELSE euclid[euclidStep(s)]

invmod(a) ==
  LET start == [lm |-> 1, hm |-> 0, low |-> a, high |-> prime]
      lm == euclid[start]
  IN  IF lm < 0 THEN lm + prime ELSE lm

SumOf(f)     == FoldFunction(addmod, 0, f)
ProductOf(f) == FoldFunction(mulmod, 1, f)

\* Horner: the value at x of k + c[1] x + ... + c[t-1] x^(t-1).
evaluate(k, c, t, x) ==
  LET acc[j \in 1..t] == IF j = t THEN 0 ELSE addmod(mulmod(acc[j + 1], x), c[j])
  IN  addmod(mulmod(acc[1], x), k)

\* Points are records with a slot and coordinates x and y.
lagrangeAt0(points) ==
  SumOf([p \in points |->
    LET num == ProductOf([q \in points \ {p} |-> q.x])
        den == ProductOf([q \in points \ {p} |-> submod(q.x, p.x)])
    IN  mulmod(p.y, mulmod(num, invmod(den)))])

evaluateAt(points, xq) ==
  SumOf([p \in points |->
    LET num == ProductOf([q \in points \ {p} |-> submod(xq, q.x)])
        den == ProductOf([q \in points \ {p} |-> submod(p.x, q.x)])
    IN  mulmod(p.y, mulmod(num, invmod(den)))])

-----------------------------------------------------------------------------
(***************************************************************************)
(* core.go:29-84: the word that a difference borrows from does not         *)
(* overflow, the product put together from four half products is the       *)
(* field's with each carry and partial reduction where the code has it,    *)
(* and invmod inverts every element but zero, though Euclid's coefficients *)
(* become negative on the way.                                             *)
(***************************************************************************)
ExactAt(a) ==
  /\ \A b \in Field : /\ addmod(a, b) = (a + b) % prime
                      /\ submod(a, b) = (a - b) % prime
                      /\ mulmod(a, b) = (a * b) % prime
  /\ a # 0 => invmod(a) \in Field /\ (a * invmod(a)) % prime = 1
=============================================================================
