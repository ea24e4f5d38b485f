--------------------------- MODULE MCSecretRecovery ---------------------------
(***************************************************************************)
(* Four slots, two readings each, two salts.                               *)
(***************************************************************************)
EXTENDS SecretRecovery, Sequences

MCSlots == {"slstore", "a", "b", "c"}

\* As a helper over that many slots could have it: one slot may fail of four.
MCNeed == <<1, 2, 3, 3>>

\* The coordinates of slstore, a, b and c for the first and the second reading.
Table(first, second) ==
  LET at == [slstore |-> 1, a |-> 2, b |-> 3, c |-> 4]
  IN  [arg \in MCSlots \X Values \X Salts |->
         arg[3] + IF arg[2] = 1 THEN first[at[arg[1]]] ELSE second[at[arg[1]]]]

MCHashes == {
  Table(<<1, 2, 3, 4>>, <<17, 900, 8189, 4095>>),        \* all apart
  Table(<<11, 500, 40, 700>>, <<5, 40, 60, 8000>>),      \* a drifts onto b
  [Table(<<1, 30, 3000, 7>>, <<90, 2, 33, 5000>>) EXCEPT
     !["b", 1, 0] = 30] }                                \* a and b collide

-----------------------------------------------------------------------------
(* The arithmetic alone, on every pair of elements of a smaller field: 7-bit *)
(* elements in 10-bit words, with the slack that 61 bits have in 64.  The    *)
(* first operand is chosen with the initial state; only the behaviours that  *)
(* start without an operand go on.                                           *)

Limb == INSTANCE FieldArithmetic WITH Radix <- 16
NoOperand == Limb!prime

VARIABLE operand

ArithmeticOnly ==
  /\ factors = [s \in Slots |-> 1]
  /\ poly = [i \in DOMAIN poly |-> 1]
  /\ \A s \in Slots, salt \in Salts : hash[s, 1, salt] < 10

MCInit ==
  /\ Init
  /\ operand \in Limb!Field \cup {NoOperand}
  /\ operand # NoOperand => ArithmeticOnly

MCNext == operand = NoOperand /\ Next /\ UNCHANGED operand
MCSpec == MCInit /\ [][MCNext]_<<vars, operand>>

(***************************************************************************)
(* core.go:29-84: sums, differences, products and inverses of elements are *)
(* the field's: no word overflows on the way to them.                      *)
(***************************************************************************)
FieldExact == operand # NoOperand => Limb!ExactAt(operand)
=============================================================================
