----------------------------- MODULE HitLedgers -----------------------------
(***************************************************************************)
(* Interaction ledgers (reference/python/pcam_runtime/ledgers.py): which   *)
(* hits a policy tells apart, which are refused, and when a hit is         *)
(* receipted.  A ledger maps a key to the tick of its receipt; the key is  *)
(* the tuple that the code hashes.                                         *)
(***************************************************************************)
EXTENDS Integers, Sequences

HitPolicyKinds ==
  {"UNBOUNDED", "ONCE_PER_ACTION_INSTANCE", "ONCE_PER_CYCLE", "ONCE_PER_PREDICATE_ACTIVATION",
   "COOLDOWN_TICKS", "ONCE_PER_CONTACT_PARTITION"}

ReceiptConditions == {"ON_CONTACT", "ON_ACCEPT", "ON_IMPACT"}

HitPolicy(Predicates) ==
  [kind : HitPolicyKinds, receipt : ReceiptConditions, cooldown : Nat \ {0},
   predicate : Predicates]

\* What a policy adds to the key, of a context c.
Window(policy, c) ==
  CASE policy.kind = "ONCE_PER_CYCLE" -> <<c.cycle>>
    [] policy.kind = "ONCE_PER_PREDICATE_ACTIVATION" -> <<c.serials[policy.predicate]>>
    [] policy.kind = "ONCE_PER_CONTACT_PARTITION" -> <<c.partition>>
    [] OTHER -> << >>

LedgerKey(policy, c) == <<policy.kind, c.fact, c.instance, c.target>> \o Window(policy, c)

\* Mutant of IsEligible: the cooldown lasts one tick longer.
IsEligibleLate(ledger, policy, c) ==
  policy.kind # "UNBOUNDED" /\ LedgerKey(policy, c) \in DOMAIN ledger =>
    /\ policy.kind = "COOLDOWN_TICKS"
    /\ c.tick - ledger[LedgerKey(policy, c)] > policy.cooldown

IsEligible(ledger, policy, c) ==
  policy.kind # "UNBOUNDED" /\ LedgerKey(policy, c) \in DOMAIN ledger =>
    /\ policy.kind = "COOLDOWN_TICKS"
    /\ c.tick - ledger[LedgerKey(policy, c)] >= policy.cooldown

ReceiptRequired(condition, accepted, impact) ==
  \/ condition = "ON_CONTACT"
  \/ condition = "ON_ACCEPT" /\ accepted
  \/ condition = "ON_IMPACT" /\ impact

WriteReceipt(ledger, policy, c) ==
  IF policy.kind = "UNBOUNDED" THEN ledger
  ELSE [k \in {LedgerKey(policy, c)} \union DOMAIN ledger |->
          IF k = LedgerKey(policy, c) THEN c.tick ELSE ledger[k]]
=============================================================================
