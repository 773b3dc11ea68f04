----------------------------- MODULE Registers ------------------------------
(***************************************************************************)
(* Integer registers of an action and the assignments to them              *)
(* (reference/python/pcam_runtime/runtime.py).  An assignment, in the code *)
(* an expression, adds an amount to the register; what one returns is a    *)
(* set, empty where the code raises.                                       *)
(***************************************************************************)
EXTENDS Integers, Sequences

Declaration == [minimum : Int, maximum : Int, overflow : {"FAULT", "SATURATE", "WRAP"}]

\* Mutant of Normalize: the span of a register is one value short.
NormalizeShort(n, d) ==
  CASE d.minimum <= n /\ n <= d.maximum -> {n}
    [] n < d.minimum /\ d.overflow = "SATURATE" -> {d.minimum}
    [] n > d.maximum /\ d.overflow = "SATURATE" -> {d.maximum}
    [] ~(d.minimum <= n /\ n <= d.maximum) /\ d.overflow = "WRAP" ->
         {d.minimum + ((n - d.minimum) % (d.maximum - d.minimum))}
    [] ~(d.minimum <= n /\ n <= d.maximum) /\ d.overflow = "FAULT" -> {}

Normalize(n, d) ==
  CASE d.minimum <= n /\ n <= d.maximum -> {n}
    [] n < d.minimum /\ d.overflow = "SATURATE" -> {d.minimum}
    [] n > d.maximum /\ d.overflow = "SATURATE" -> {d.maximum}
    [] ~(d.minimum <= n /\ n <= d.maximum) /\ d.overflow = "WRAP" ->
         {d.minimum + ((n - d.minimum) % (d.maximum - d.minimum + 1))}
    [] ~(d.minimum <= n /\ n <= d.maximum) /\ d.overflow = "FAULT" -> {}

\* Each assignment sees what those before it left.
Assign(n, amounts, d) ==
  LET after[k \in 0 .. Len(amounts)] ==
        IF k = 0 THEN {n} ELSE UNION {Normalize(m + amounts[k], d) : m \in after[k - 1]}
  IN  after[Len(amounts)]
=============================================================================
