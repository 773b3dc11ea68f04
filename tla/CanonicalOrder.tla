--------------------------- MODULE CanonicalOrder ---------------------------
(* Canonical orders: what the runtime sorts, it sorts by a tuple of keys. Sums, in any order. *)
EXTENDS Integers, FiniteSets

Sums == INSTANCE FiniteSetsExt

\* Python's comparison of two tuples of the same length.
LexLess(a, b) == \E i \in DOMAIN a : a[i] < b[i] /\ \A j \in 1 .. i - 1 : a[j] = b[j]

\* The members of S by ascending key; keys are distinct.
Sorted(S, Key(_)) ==
  [i \in 1 .. Cardinality(S) |->
     CHOOSE x \in S : Cardinality({y \in S : LexLess(Key(y), Key(x))}) = i - 1]

SumOf(amounts, S) == Sums!MapThenSumSet(LAMBDA x : amounts[x], S)

\* The member of S with the least key.
First(S, Key(_)) == CHOOSE x \in S : \A y \in S \ {x} : LexLess(Key(x), Key(y))
=============================================================================
