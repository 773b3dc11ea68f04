--------------------------- MODULE EffectReduction --------------------------
(***************************************************************************)
(* The reduction of the effects of a tick (reference/python/pcam_runtime/  *)
(* effects.py).  Effect types are numbers, in the order of their names; a  *)
(* value is a set of one integer, or empty where the reduction raises.     *)
(***************************************************************************)
EXTENDS Numerics, CanonicalOrder, Sequences

Reducers ==
  {"SUM", "MIN", "MAX", "SET_UNION", "ORDERED", "FIRST", "LAST", "EXCLUSIVE",
   "CUSTOM_DETERMINISTIC"}

\* The registered custom reducer folds with this factor.
CustomFactor == 10

\* Effects whose keys are the same stay in the order in which they were emitted.  An effect_id
\* is a tuple of small numbers, which sort as their texts do up to 9.
CanonicalKey(effects, i) ==
  LET e == effects[i]
  IN  <<e.target, e.type, -e.priority, e.source, e.instance,
        e.id[1], e.id[2], e.id[3], e.id[4], i>>

\* The effects of a set of places, in canonical order.
CanonicalEffects(effects, places) ==
  LET order == Sorted(places, LAMBDA i : CanonicalKey(effects, i))
  IN  [n \in DOMAIN order |-> effects[order[n]]]

\* An effect is reduced with the others of its target and its type.
Group(effects, g) ==
  CanonicalEffects(effects, {i \in DOMAIN effects : <<effects[i].target, effects[i].type>> = g})

Groups(effects) == {<<effects[i].target, effects[i].type>> : i \in DOMAIN effects}

\* ORDERED and SET_UNION reduce to lists, which no resource takes.
IsInteger(reducer) == reducer \notin {"ORDERED", "SET_UNION"}

\* The payloads taken in one after the other, what there is so far times factor each time.
Folded(payloads, factor) ==
  LET after[n \in 0 .. Len(payloads)] ==
        IF n = 0 THEN {0} ELSE AddI64(MulI64(after[n - 1], factor), payloads[n])
  IN  after[Len(payloads)]

\* Mutant of ReducePayloads: FIRST takes what was emitted last.
ReducePayloadsSwapped(reducer, payloads) ==
  CASE reducer = "SUM" -> Folded(payloads, 1)
    [] reducer = "MIN" -> {Sums!Min({payloads[n] : n \in DOMAIN payloads})}
    [] reducer = "MAX" -> {Sums!Max({payloads[n] : n \in DOMAIN payloads})}
    [] reducer \in {"FIRST", "EXCLUSIVE"} -> {payloads[Len(payloads)]}
    [] reducer = "LAST" -> {payloads[1]}
    [] reducer = "CUSTOM_DETERMINISTIC" -> Folded(payloads, CustomFactor)

ReducePayloads(reducer, payloads) ==
  CASE reducer = "SUM" -> Folded(payloads, 1)
    [] reducer = "MIN" -> {Sums!Min({payloads[n] : n \in DOMAIN payloads})}
    [] reducer = "MAX" -> {Sums!Max({payloads[n] : n \in DOMAIN payloads})}
    [] reducer \in {"FIRST", "EXCLUSIVE"} -> {payloads[1]}
    [] reducer = "LAST" -> {payloads[Len(payloads)]}
    [] reducer = "CUSTOM_DETERMINISTIC" -> Folded(payloads, CustomFactor)

Payloads(effects) == [n \in DOMAIN effects |-> effects[n].payload]

\* A type that mixes reducers, or an integer result out of range.
GroupRaises(group) ==
  \/ \E i, j \in DOMAIN group : group[i].reducer # group[j].reducer
  \/ IsInteger(group[1].reducer) /\ ReducePayloads(group[1].reducer, Payloads(group)) = {}
=============================================================================
