------------------------------ MODULE Numerics ------------------------------
(***************************************************************************)
(* Checked integers (reference/python/pcam_runtime/numeric.py).  A result  *)
(* is a set: of the value, or empty where the code raises.                 *)
(***************************************************************************)
EXTENDS Integers

CONSTANT Bound   \* 2^63 in the code

ASSUME NumericsAssumption == Bound \in Nat /\ Bound > 0

I64 == -Bound .. Bound - 1

\* Mutant of AddI64: the sum is not checked.
AddUnchecked(x, n) == {m + n : m \in x}

AddI64(x, n) == {m + n : m \in x} \intersect I64

MulI64(x, n) == {m * n : m \in x} \intersect I64

\* Rounds down; the product is checked before it is divided, and the denominator before that.
ScaleRatio(n, numerator, denominator) ==
  IF denominator > 0 THEN {m \div denominator : m \in MulI64({n}, numerator)} ELSE {}
=============================================================================
