---------------------------- MODULE Arbitration -----------------------------
(***************************************************************************)
(* Arbitration of the intents of a stage (reference/python/pcam_runtime/   *)
(* intents.py).  claims and releases of an intent are what                 *)
(* _aggregate_claims makes of them: an amount for every kind, owner_id and *)
(* key, where owner_id may be left open.                                   *)
(***************************************************************************)
EXTENDS CanonicalOrder

CONSTANT NoOwner   \* owner_id of a claim that leaves it open

ClaimKinds == {"RESOURCE", "ACTION_SLOT", "CHILD_SLOT", "EXCLUSIVE_KEY", "CAPACITY"}

Kind(c) == c[1]
OwnerId(c) == c[2]
Name(c) == c[3]

ClaimOwner(n, c) ==
  IF OwnerId(c) # NoOwner THEN OwnerId(c)
  ELSE IF Kind(c) = "CHILD_SLOT" THEN n.src ELSE n.owner

\* What n asks for, or gives back, of one resource, key or capacity.
Total(n, amounts, kind, owner, name) ==
  SumOf(amounts, {c \in DOMAIN amounts :
                    Kind(c) = kind /\ ClaimOwner(n, c) = owner /\ Name(c) = name})

\* Canonical order: descending priority first.
Rank(n) == <<-n.prio, n.owner, n.src, n.transition, n.seq>>

Held(f, k) == IF k \in DOMAIN f THEN f[k] ELSE 0

\* release_amounts for c: of two releases of the same thing only the one that names its owner.
GivenBack(n, c) ==
  LET same == {r \in DOMAIN n.releases : Kind(r) = Kind(c) /\ Name(r) = Name(c)
                                            /\ ClaimOwner(n, r) = ClaimOwner(n, c)}
  IN  IF same = {} THEN 0
      ELSE n.releases[CHOOSE r \in same : OwnerId(r) # NoOwner \/ Cardinality(same) = 1]

\* An ArbitrationState: bank by owner and resource, use and cap by kind, owner and key,
\* keys the exclusive keys taken.
ClaimFits(n, c, s) ==
  LET owner == ClaimOwner(n, c)
      back  == GivenBack(n, c)
      place == <<Kind(c), owner, Name(c)>>
  IN  CASE Kind(c) = "RESOURCE" -> n.claims[c] <= Held(s.bank, <<owner, Name(c)>>) + back
        [] Kind(c) = "EXCLUSIVE_KEY" -> Name(c) \notin s.keys
        [] OTHER -> Held(s.use, place) - back + n.claims[c] <= Held(s.cap, place)

\* Mutant of Fits: one claim that fits is enough.
FitsInPart(n, s) == \E c \in DOMAIN n.claims : ClaimFits(n, c, s)

Fits(n, s) == \A c \in DOMAIN n.claims : ClaimFits(n, c, s)

KeysOf(amounts) == {Name(c) : c \in {d \in DOMAIN amounts : Kind(d) = "EXCLUSIVE_KEY"}}

Less(x, y) == IF x > y THEN x - y ELSE 0

ReserveClaims(n, s) ==
  [bank |-> [k \in DOMAIN s.bank |-> s.bank[k] + Total(n, n.releases, "RESOURCE", k[1], k[2])
                                               - Total(n, n.claims, "RESOURCE", k[1], k[2])],
   cap  |-> s.cap,
   use  |-> [k \in DOMAIN s.use |-> Less(s.use[k], Total(n, n.releases, k[1], k[2], k[3]))
                                      + Total(n, n.claims, k[1], k[2], k[3])],
   keys |-> (s.keys \ KeysOf(n.releases)) \union KeysOf(n.claims)]

Admit(d, n) ==
  IF Fits(n, d.state)
  THEN [state |-> ReserveClaims(n, d.state), accepted |-> d.accepted \union {n}]
  ELSE d

\* One intent after the other in canonical order, each against what the ones before left.
Arbitrate(intents, s) ==
  LET after[k \in 0 .. Cardinality(intents)] ==
        IF k = 0 THEN [state |-> s, accepted |-> {}]
        ELSE Admit(after[k - 1], Sorted(intents, Rank)[k])
  IN  after[Cardinality(intents)]
=============================================================================
