-------------------------- MODULE Encounter_proofs ---------------------------
(***************************************************************************)
(* Proofs about Encounter: the ledger of hits, then registers, decisions,  *)
(* the commit and the types.                                               *)
(*                                                                         *)
(* A ledger key is a digest of counters: cycles, activation serials, the   *)
(* tick of the latest receipt.  LedgerExact speaks of what happened: the   *)
(* steps of the timeline, the ticks in which a predicate came true.  The   *)
(* invariant, Exact, counts what happened in a log of candidates and the   *)
(* predicates seen, and says that the counters agree.  It holds of the     *)
(* tick-start state with the log of the ticks gone by, which a fault       *)
(* returns to, and of the present state with the log of this tick added.   *)
(***************************************************************************)
EXTENDS Encounter_lemmas

-----------------------------------------------------------------------------
(* What happened *)

\* In the ticks seen, p of i came true in tick t.
Rose(seen, i, p, t) == p \in seen[t + 1][i] /\ (t = 0 \/ p \notin seen[t][i])

\* The ticks up to n in which p of i came true.
Rises(seen, i, p, n) == {t \in 0 .. n : Rose(seen, i, p, t)}

\* The activation serial that p of i should have in tick n.
Serial(seen, u, i, p, n) == IF u.track THEN Cardinality(Rises(seen, i, p, n)) ELSE 0

\* The cycle that i should be in after so many steps.
CycleOf(u, i, local) == IF u.life[i] = "LOOP" THEN local \div Steps ELSE 0

\* The ledger context that a candidate of the log met.
Met(seen, u, r) ==
  [tick |-> r.tick, instance |-> r.instance, fact |-> r.fact, target |-> r.target,
   cycle |-> CycleOf(u, r.instance, r.local),
   serials |-> [p \in PredicateIds |-> Serial(seen, u, r.instance, p, r.tick)],
   partition |-> r.partition]

\* The key that this context has.
KeyOf(seen, u, r) == LedgerKey(u.policy, Met(seen, u, r))

\* SameWindow, of the ticks seen.
Same(seen, u, g, h) ==
  /\ g.instance = h.instance /\ g.fact = h.fact /\ g.target = h.target
  /\ CASE u.policy.kind = "UNBOUNDED" -> FALSE
       [] u.policy.kind = "ONCE_PER_ACTION_INSTANCE" -> TRUE
       [] u.policy.kind = "ONCE_PER_CYCLE" ->
            u.life[h.instance] = "LOOP" => g.local \div Steps = h.local \div Steps
       [] u.policy.kind = "ONCE_PER_PREDICATE_ACTIVATION" ->
            u.track => ~\E t \in g.tick + 1 .. h.tick : Rose(seen, h.instance, u.policy.predicate, t)
       [] u.policy.kind = "COOLDOWN_TICKS" -> h.tick - g.tick < u.policy.cooldown
       [] u.policy.kind = "ONCE_PER_CONTACT_PARTITION" -> g.partition = h.partition

-----------------------------------------------------------------------------
(* Keys tell windows apart *)

\* Rises are counted tick by tick.
LEMMA RisesCount ==
  ASSUME NEW seen, NEW i, NEW p, NEW n \in Nat
  PROVE  /\ IsFiniteSet(Rises(seen, i, p, n)) /\ Cardinality(Rises(seen, i, p, n)) \in Nat
         /\ Cardinality(Rises(seen, i, p, n + 1)) =
              Cardinality(Rises(seen, i, p, n)) + IF Rose(seen, i, p, n + 1) THEN 1 ELSE 0
<1>1. IsFiniteSet(0 .. n) /\ Rises(seen, i, p, n) \subseteq 0 .. n
  BY FS_Interval DEF Rises
<1>2. IsFiniteSet(Rises(seen, i, p, n)) /\ Cardinality(Rises(seen, i, p, n)) \in Nat
  BY <1>1, FS_Subset, FS_CardinalityType
<1>3. Rises(seen, i, p, n + 1) =
        IF Rose(seen, i, p, n + 1) THEN Rises(seen, i, p, n) \union {n + 1} ELSE Rises(seen, i, p, n)
  BY DEF Rises
<1>4. n + 1 \notin Rises(seen, i, p, n)
  BY DEF Rises
<1> QED
  BY <1>2, <1>3, <1>4, FS_AddElement

\* Two serials are the same when nothing rose in between.
LEMMA SerialsTell ==
  ASSUME NEW seen, NEW i, NEW p, NEW m \in Nat, NEW n \in Nat, m <= n
  PROVE  Cardinality(Rises(seen, i, p, m)) = Cardinality(Rises(seen, i, p, n))
           <=> ~\E t \in m + 1 .. n : Rose(seen, i, p, t)
<1>1. IsFiniteSet(Rises(seen, i, p, n))
  BY RisesCount
<1>2. Rises(seen, i, p, m) \subseteq Rises(seen, i, p, n)
  BY DEF Rises
<1>3. Rises(seen, i, p, m) = Rises(seen, i, p, n)
        <=> Cardinality(Rises(seen, i, p, m)) = Cardinality(Rises(seen, i, p, n))
  BY <1>1, <1>2, FS_Subset
<1>4. ASSUME NEW t \in m + 1 .. n, Rose(seen, i, p, t)
      PROVE  Rises(seen, i, p, m) # Rises(seen, i, p, n)
  <2>1. t \in Rises(seen, i, p, n) /\ t \notin Rises(seen, i, p, m)
    BY <1>4 DEF Rises
  <2> QED
    BY <2>1
<1>5. ASSUME ~\E t \in m + 1 .. n : Rose(seen, i, p, t)
      PROVE  Rises(seen, i, p, m) = Rises(seen, i, p, n)
  <2>1. \A t \in 0 .. n : t \in 0 .. m \/ t \in m + 1 .. n
    OBVIOUS
  <2> QED
    BY <1>2, <1>5, <2>1 DEF Rises
<1> QED
  BY <1>3, <1>4, <1>5

\* Four parts and one more.
LEMMA FiveParts ==
  ASSUME NEW S, NEW s \in Seq(S), NEW x \in Seq(S), Len(s) = 4, Len(x) = 1
  PROVE  /\ (s \o x)[2] = s[2] /\ (s \o x)[3] = s[3] /\ (s \o x)[4] = s[4]
         /\ (s \o x)[5] = x[1]
<1>1. \A n \in 1 .. Len(s) + Len(x) :
        (s \o x)[n] = IF n <= Len(s) THEN s[n] ELSE x[n - Len(s)]
  BY ConcatProperties
<1>2. \A n \in 1 .. 4 + 1 : (s \o x)[n] = IF n <= 4 THEN s[n] ELSE x[n - 4]
  BY <1>1
<1> DEFINE c == s \o x
<1>3. \A n \in 1 .. 4 + 1 : c[n] = IF n <= 4 THEN s[n] ELSE x[n - 4]
  BY <1>2
<1> HIDE DEF c
<1>4. c[2] = s[2] /\ c[3] = s[3] /\ c[4] = s[4]
  BY <1>3
<1>5. c[5] = x[1]
  <2>1. 5 \in 1 .. 4 + 1 /\ ~(5 <= 4) /\ 5 - 4 = 1
    OBVIOUS
  <2> QED
    BY <1>3, <2>1
<1> QED
  BY <1>4, <1>5 DEF c

\* A key is made of its parts.
LEMMA KeysTell ==
  ASSUME NEW policy, policy.kind \in HitPolicyKinds, NEW c, NEW d
  PROVE  LedgerKey(policy, c) = LedgerKey(policy, d)
           <=> /\ c.fact = d.fact /\ c.instance = d.instance /\ c.target = d.target
               /\ policy.kind = "ONCE_PER_CYCLE" => c.cycle = d.cycle
               /\ policy.kind = "ONCE_PER_PREDICATE_ACTIVATION" =>
                    c.serials[policy.predicate] = d.serials[policy.predicate]
               /\ policy.kind = "ONCE_PER_CONTACT_PARTITION" => c.partition = d.partition
<1>1. ASSUME NEW a, NEW b
      PROVE  <<policy.kind, c.fact, c.instance, c.target>> \o <<a>> =
             <<policy.kind, d.fact, d.instance, d.target>> \o <<b>>
               <=> c.fact = d.fact /\ c.instance = d.instance /\ c.target = d.target /\ a = b
  <2> DEFINE s == <<policy.kind, c.fact, c.instance, c.target>>
             t == <<policy.kind, d.fact, d.instance, d.target>>
             x == <<a>>
             y == <<b>>
  <2>1. /\ Len(s) = 4 /\ s[2] = c.fact /\ s[3] = c.instance /\ s[4] = c.target
        /\ Len(t) = 4 /\ t[2] = d.fact /\ t[3] = d.instance /\ t[4] = d.target
        /\ Len(x) = 1 /\ x[1] = a /\ Len(y) = 1 /\ y[1] = b
    OBVIOUS
  <2>2. PICK S : s \in Seq(S) /\ t \in Seq(S) /\ x \in Seq(S) /\ y \in Seq(S)
    <3> DEFINE S == {policy.kind, c.fact, c.instance, c.target, d.fact, d.instance, d.target, a, b}
    <3>1. s \in Seq(S) /\ t \in Seq(S) /\ x \in Seq(S) /\ y \in Seq(S)
      OBVIOUS
    <3> QED
      BY <3>1
  <2>3. c.fact = d.fact /\ c.instance = d.instance /\ c.target = d.target /\ a = b => s \o x = t \o y
    OBVIOUS
  <2> HIDE DEF s, t, x, y
  <2>4. /\ (s \o x)[2] = s[2] /\ (s \o x)[3] = s[3] /\ (s \o x)[4] = s[4] /\ (s \o x)[5] = x[1]
        /\ (t \o y)[2] = t[2] /\ (t \o y)[3] = t[3] /\ (t \o y)[4] = t[4] /\ (t \o y)[5] = y[1]
    BY <2>1, <2>2, FiveParts
  <2>5. s \o x = t \o y <=>
          c.fact = d.fact /\ c.instance = d.instance /\ c.target = d.target /\ a = b
    BY <2>1, <2>3, <2>4
  <2> QED
    BY <2>5 DEF s, t, x, y
<1>2. <<policy.kind, c.fact, c.instance, c.target>> \o << >> =
        <<policy.kind, c.fact, c.instance, c.target>>
      /\ <<policy.kind, d.fact, d.instance, d.target>> \o << >> =
           <<policy.kind, d.fact, d.instance, d.target>>
  OBVIOUS
<1>3. CASE policy.kind = "ONCE_PER_CYCLE"
  BY <1>1, <1>3 DEF LedgerKey, Window
<1>4. CASE policy.kind = "ONCE_PER_PREDICATE_ACTIVATION"
  BY <1>1, <1>4 DEF LedgerKey, Window
<1>5. CASE policy.kind = "ONCE_PER_CONTACT_PARTITION"
  BY <1>1, <1>5 DEF LedgerKey, Window
<1>6. CASE policy.kind \notin {"ONCE_PER_CYCLE", "ONCE_PER_PREDICATE_ACTIVATION",
                                "ONCE_PER_CONTACT_PARTITION"}
  <2>1. Window(policy, c) = << >> /\ Window(policy, d) = << >>
    BY <1>6 DEF Window
  <2> QED
    BY <1>2, <1>6, <2>1 DEF LedgerKey
<1> QED
  BY <1>3, <1>4, <1>5, <1>6

\* By the policies, two candidates meet in a window when their keys are the same and, with a
\* cooldown, the second one comes too early.
LEMMA SameTells ==
  ASSUME NEW u \in Setups, u.policy.kind # "UNBOUNDED", NEW seen, NEW g, NEW h,
         g.tick \in Nat, h.tick \in Nat, g.tick <= h.tick
  PROVE  Same(seen, u, g, h)
           <=> /\ KeyOf(seen, u, g) = KeyOf(seen, u, h)
               /\ u.policy.kind = "COOLDOWN_TICKS" => h.tick - g.tick < u.policy.cooldown
<1> DEFINE c == Met(seen, u, g)
           d == Met(seen, u, h)
           q == u.policy.predicate
<1>1. /\ u.policy.kind \in HitPolicyKinds /\ u.track \in BOOLEAN
      /\ u.policy.kind = "ONCE_PER_PREDICATE_ACTIVATION" => q \in PredicateIds
  BY EncounterAssumption
<1>2. /\ c.fact = g.fact /\ c.instance = g.instance /\ c.target = g.target
      /\ c.partition = g.partition /\ c.cycle = CycleOf(u, g.instance, g.local)
      /\ c.serials = [p \in PredicateIds |-> Serial(seen, u, g.instance, p, g.tick)]
  BY DEF Met
<1>3. /\ d.fact = h.fact /\ d.instance = h.instance /\ d.target = h.target
      /\ d.partition = h.partition /\ d.cycle = CycleOf(u, h.instance, h.local)
      /\ d.serials = [p \in PredicateIds |-> Serial(seen, u, h.instance, p, h.tick)]
  BY DEF Met
<1> HIDE DEF c, d, q
<1>4. g.instance = h.instance =>
        (c.cycle = d.cycle
           <=> (u.life[h.instance] = "LOOP" => g.local \div Steps = h.local \div Steps))
  BY <1>2, <1>3 DEF CycleOf
<1>5. u.policy.kind = "ONCE_PER_PREDICATE_ACTIVATION" /\ g.instance = h.instance =>
        (c.serials[q] = d.serials[q]
           <=> (u.track => ~\E t \in g.tick + 1 .. h.tick : Rose(seen, h.instance, q, t)))
  BY <1>1, <1>2, <1>3, SerialsTell DEF Serial
<1>6. KeyOf(seen, u, g) = KeyOf(seen, u, h) <=> LedgerKey(u.policy, c) = LedgerKey(u.policy, d)
  BY DEF KeyOf, c, d
<1>7. LedgerKey(u.policy, c) = LedgerKey(u.policy, d)
        <=> /\ c.fact = d.fact /\ c.instance = d.instance /\ c.target = d.target
            /\ u.policy.kind = "ONCE_PER_CYCLE" => c.cycle = d.cycle
            /\ u.policy.kind = "ONCE_PER_PREDICATE_ACTIVATION" => c.serials[q] = d.serials[q]
            /\ u.policy.kind = "ONCE_PER_CONTACT_PARTITION" => c.partition = d.partition
  BY <1>1, KeysTell DEF q
<1>8. CASE u.policy.kind = "ONCE_PER_ACTION_INSTANCE"
  BY <1>2, <1>3, <1>6, <1>7, <1>8 DEF Same
<1>9. CASE u.policy.kind = "ONCE_PER_CYCLE"
  BY <1>2, <1>3, <1>4, <1>6, <1>7, <1>9 DEF Same
<1>10. CASE u.policy.kind = "ONCE_PER_PREDICATE_ACTIVATION"
  BY <1>2, <1>3, <1>5, <1>6, <1>7, <1>10 DEF Same, q
<1>11. CASE u.policy.kind = "COOLDOWN_TICKS"
  BY <1>2, <1>3, <1>6, <1>7, <1>11 DEF Same
<1>12. CASE u.policy.kind = "ONCE_PER_CONTACT_PARTITION"
  BY <1>2, <1>3, <1>6, <1>7, <1>12 DEF Same
<1> QED
  BY <1>1, <1>8, <1>9, <1>10, <1>11, <1>12 DEF HitPolicyKinds

\* What happened up to a tick does not depend on what is seen later.
LEMMA SeenBefore ==
  ASSUME NEW seen, NEW later, NEW n \in Nat, \A t \in 1 .. n + 1 : later[t] = seen[t]
  PROVE  \A i, p : /\ Rises(later, i, p, n) = Rises(seen, i, p, n)
                   /\ \A t \in 0 .. n : Rose(later, i, p, t) <=> Rose(seen, i, p, t)
<1>1. \A t \in 0 .. n : later[t + 1] = seen[t + 1] /\ (t # 0 => later[t] = seen[t])
  OBVIOUS
<1> QED
  BY <1>1 DEF Rises, Rose

\* A key stays what it was.
LEMMA KeyStays ==
  ASSUME NEW u, NEW seen, NEW later, NEW r, r.tick \in Nat,
         \A t \in 1 .. r.tick + 1 : later[t] = seen[t]
  PROVE  KeyOf(later, u, r) = KeyOf(seen, u, r)
<1>1. \A i, p : Serial(later, u, i, p, r.tick) = Serial(seen, u, i, p, r.tick)
  BY SeenBefore DEF Serial
<1>2. Met(later, u, r) = Met(seen, u, r)
  BY <1>1 DEF Met
<1> QED
  BY <1>2 DEF KeyOf

\* Two candidates in a window stay in it.
LEMMA SameStays ==
  ASSUME NEW u, NEW seen, NEW later, NEW g, NEW h, h.tick \in Nat, g.tick \in Nat,
         \A t \in 1 .. h.tick + 1 : later[t] = seen[t]
  PROVE  Same(later, u, g, h) <=> Same(seen, u, g, h)
<1>1. \A i, p : \A t \in g.tick + 1 .. h.tick : Rose(later, i, p, t) <=> Rose(seen, i, p, t)
  <2>1. \A t \in g.tick + 1 .. h.tick : t \in 0 .. h.tick
    OBVIOUS
  <2> QED
    BY <2>1, SeenBefore
<1>2. (\E t \in g.tick + 1 .. h.tick : Rose(later, h.instance, u.policy.predicate, t))
        <=> \E t \in g.tick + 1 .. h.tick : Rose(seen, h.instance, u.policy.predicate, t)
  BY <1>1
<1> QED
  BY <1>2 DEF Same

-----------------------------------------------------------------------------
(* The log and the ledger *)

\* A candidate of the log was tried when no receipt before it stood in its window.
Tries(H, seen, u) ==
  \A n \in DOMAIN H :
    H[n].tried <=> ~\E m \in 1 .. n - 1 : H[m].receipt /\ Same(seen, u, H[m], H[n])

\* The ledger holds the latest receipt of every key, and no other.
Receipted(L, H, seen, u) ==
  u.policy.kind # "UNBOUNDED" =>
    /\ \A k \in DOMAIN L : \E n \in DOMAIN H :
         H[n].receipt /\ KeyOf(seen, u, H[n]) = k /\ L[k] = H[n].tick
    /\ \A n \in DOMAIN H : H[n].receipt =>
         KeyOf(seen, u, H[n]) \in DOMAIN L /\ H[n].tick <= L[KeyOf(seen, u, H[n])]

\* What the ledger says of a candidate is what the log says.
LEMMA LedgerTells ==
  ASSUME NEW u \in Setups, NEW seen, NEW H, NEW R, H \in Seq(R), NEW L, NEW r, r.tick \in Nat,
         \A n \in DOMAIN H : H[n].tick \in 0 .. r.tick,
         Receipted(L, H, seen, u), NEW c, c = Met(seen, u, r)
  PROVE  IsEligible(L, u.policy, c)
           <=> ~\E m \in 1 .. Len(H) : H[m].receipt /\ Same(seen, u, H[m], r)
<1> DEFINE k == LedgerKey(u.policy, c)
<1>1. /\ DOMAIN H = 1 .. Len(H)
      /\ c.tick = r.tick /\ k = KeyOf(seen, u, r)
  BY DEF Met, KeyOf
<1>2. CASE u.policy.kind = "UNBOUNDED"
  BY <1>2 DEF IsEligible, Same
<1>3. CASE u.policy.kind # "UNBOUNDED"
  <2> HIDE DEF k
  <2>1. \A m \in DOMAIN H :
          Same(seen, u, H[m], r)
            <=> /\ KeyOf(seen, u, H[m]) = k
                /\ u.policy.kind = "COOLDOWN_TICKS" => r.tick - H[m].tick < u.policy.cooldown
    BY <1>1, <1>3, SameTells
  <2>2. /\ \A x \in DOMAIN L : \E n \in DOMAIN H :
             H[n].receipt /\ KeyOf(seen, u, H[n]) = x /\ L[x] = H[n].tick
        /\ \A n \in DOMAIN H : H[n].receipt =>
             KeyOf(seen, u, H[n]) \in DOMAIN L /\ H[n].tick <= L[KeyOf(seen, u, H[n])]
    BY <1>3 DEF Receipted
  <2>3. IsEligible(L, u.policy, c)
          <=> (k \in DOMAIN L =>
                 u.policy.kind = "COOLDOWN_TICKS" /\ r.tick - L[k] >= u.policy.cooldown)
    BY <1>1, <1>3 DEF IsEligible, k
  <2>4. u.policy.kind = "COOLDOWN_TICKS" => u.policy.cooldown \in Nat
    BY EncounterAssumption
  <2>5. CASE k \notin DOMAIN L
    BY <1>1, <2>1, <2>2, <2>3, <2>5
  <2>6. CASE k \in DOMAIN L
    <3>1. PICK n \in DOMAIN H : H[n].receipt /\ KeyOf(seen, u, H[n]) = k /\ L[k] = H[n].tick
      BY <2>2, <2>6
    <3>2. \A m \in DOMAIN H : H[m].receipt /\ KeyOf(seen, u, H[m]) = k => H[m].tick <= L[k]
      BY <2>2
    <3>3. CASE u.policy.kind # "COOLDOWN_TICKS"
      BY <1>1, <2>1, <2>3, <2>6, <3>1, <3>3
    <3>4. CASE u.policy.kind = "COOLDOWN_TICKS"
      <4>1. CASE r.tick - L[k] >= u.policy.cooldown
        <5>1. ASSUME NEW m \in 1 .. Len(H), H[m].receipt, Same(seen, u, H[m], r) PROVE FALSE
          <6>1. KeyOf(seen, u, H[m]) = k /\ r.tick - H[m].tick < u.policy.cooldown
            BY <1>1, <2>1, <3>4, <5>1
          <6>2. H[m].tick <= L[k] /\ H[m].tick \in Nat /\ L[k] \in Nat
            BY <1>1, <3>1, <3>2, <5>1, <6>1
          <6> QED
            BY <2>4, <3>4, <4>1, <6>1, <6>2
        <5> QED
          BY <2>3, <3>4, <4>1, <5>1
      <4>2. CASE ~(r.tick - L[k] >= u.policy.cooldown)
        <5>1. L[k] \in Nat /\ r.tick - L[k] < u.policy.cooldown
          BY <2>4, <3>1, <3>4, <4>2
        <5>2. Same(seen, u, H[n], r)
          BY <2>1, <3>1, <5>1
        <5> QED
          BY <1>1, <2>3, <2>6, <3>1, <4>2, <5>2
      <4> QED
        BY <4>1, <4>2
    <3> QED
      BY <3>3, <3>4
  <2> QED
    BY <2>5, <2>6
<1> QED
  BY <1>2, <1>3

\* The last of an appended sequence, and those before it.
LEMMA Appended ==
  ASSUME NEW R, NEW H \in Seq(R), NEW r
  PROVE  /\ \E S : Append(H, r) \in Seq(S)
         /\ Len(Append(H, r)) = Len(H) + 1 /\ DOMAIN Append(H, r) = 1 .. Len(H) + 1
         /\ \A n \in 1 .. Len(H) : Append(H, r)[n] = H[n]
         /\ Append(H, r)[Len(H) + 1] = r
<1> DEFINE S == R \union {r}
<1>1. H \in Seq(S) /\ r \in S
  OBVIOUS
<1> HIDE DEF S
<1>2. Append(H, r) \in Seq(S)
  BY <1>1
<1> QED
  BY <1>1, <1>2

\* A receipt is written where the log says that it is.
LEMMA ReceiptWritten ==
  ASSUME NEW u \in Setups, NEW seen, NEW H, NEW R, H \in Seq(R), NEW L, NEW r, r.tick \in Nat,
         \A n \in DOMAIN H : H[n].tick \in 0 .. r.tick,
         Receipted(L, H, seen, u), NEW c, c = Met(seen, u, r),
         NEW M, M = IF r.receipt THEN WriteReceipt(L, u.policy, c) ELSE L
  PROVE  Receipted(M, Append(H, r), seen, u)
<1> SUFFICES ASSUME u.policy.kind # "UNBOUNDED" PROVE Receipted(M, Append(H, r), seen, u)
  BY DEF Receipted
<1> DEFINE G == Append(H, r)
           k == KeyOf(seen, u, r)
<1>1. /\ DOMAIN G = 1 .. Len(H) + 1 /\ DOMAIN H = 1 .. Len(H) /\ Len(H) \in Nat
      /\ \A n \in 1 .. Len(H) : G[n] = H[n]
      /\ G[Len(H) + 1] = r
  BY Appended
<1> HIDE DEF G
<1>2. /\ \A x \in DOMAIN L : \E n \in DOMAIN H :
           H[n].receipt /\ KeyOf(seen, u, H[n]) = x /\ L[x] = H[n].tick
      /\ \A n \in DOMAIN H : H[n].receipt =>
           KeyOf(seen, u, H[n]) \in DOMAIN L /\ H[n].tick <= L[KeyOf(seen, u, H[n])]
  BY DEF Receipted
<1>3. \A n \in DOMAIN G : n \in DOMAIN H \/ n = Len(H) + 1
  BY <1>1
<1>4. \A n \in DOMAIN H : n \in DOMAIN G /\ G[n] = H[n]
  BY <1>1
<1>5. Len(H) + 1 \in DOMAIN G
  BY <1>1
<1>6. CASE ~r.receipt
  <2>1. M = L
    BY <1>6
  <2>2. \A x \in DOMAIN L : \E n \in DOMAIN G :
          G[n].receipt /\ KeyOf(seen, u, G[n]) = x /\ L[x] = G[n].tick
    BY <1>2, <1>4
  <2>3. \A n \in DOMAIN G : G[n].receipt =>
          KeyOf(seen, u, G[n]) \in DOMAIN L /\ G[n].tick <= L[KeyOf(seen, u, G[n])]
    BY <1>1, <1>2, <1>3, <1>6
  <2> QED
    BY <2>1, <2>2, <2>3 DEF Receipted, G
<1>7. CASE r.receipt
  <2>1. k = LedgerKey(u.policy, c) /\ c.tick = r.tick
    BY DEF KeyOf, Met
  <2> HIDE DEF k
  <2>2. /\ DOMAIN M = {k} \union DOMAIN L /\ M[k] = r.tick
        /\ \A x \in DOMAIN L : x # k => M[x] = L[x]
    BY <1>7, <2>1 DEF WriteReceipt
  <2>3. KeyOf(seen, u, r) = k
    BY DEF k
  <2>4. ASSUME NEW x \in DOMAIN M
        PROVE  \E n \in DOMAIN G : G[n].receipt /\ KeyOf(seen, u, G[n]) = x /\ M[x] = G[n].tick
    <3>1. CASE x = k
      BY <1>1, <1>5, <1>7, <2>2, <2>3, <3>1
    <3>2. CASE x # k
      BY <1>2, <1>4, <2>2, <2>4, <3>2
    <3> QED
      BY <3>1, <3>2
  <2>5. ASSUME NEW n \in DOMAIN G, G[n].receipt
        PROVE  KeyOf(seen, u, G[n]) \in DOMAIN M /\ G[n].tick <= M[KeyOf(seen, u, G[n])]
    <3>1. CASE n = Len(H) + 1
      BY <1>1, <2>2, <2>3, <3>1
    <3>2. CASE n \in DOMAIN H
      <4>1. G[n] = H[n] /\ H[n].tick \in 0 .. r.tick
        BY <1>4, <3>2
      <4>2. KeyOf(seen, u, H[n]) \in DOMAIN L /\ H[n].tick <= L[KeyOf(seen, u, H[n])]
        BY <1>2, <2>5, <3>2, <4>1
      <4>3. CASE KeyOf(seen, u, H[n]) = k
        BY <2>2, <4>1, <4>3
      <4>4. CASE KeyOf(seen, u, H[n]) # k
        BY <2>2, <4>1, <4>2, <4>4
      <4> QED
        BY <4>3, <4>4
    <3> QED
      BY <1>3, <2>5, <3>1, <3>2
  <2> QED
    BY <2>4, <2>5 DEF Receipted, G
<1> QED
  BY <1>6, <1>7

\* The log is as long as what is tried.
LEMMA TriesAppended ==
  ASSUME NEW u, NEW seen, NEW H, NEW R, H \in Seq(R), NEW r, Tries(H, seen, u),
         r.tried <=> ~\E m \in 1 .. Len(H) : H[m].receipt /\ Same(seen, u, H[m], r)
  PROVE  Tries(Append(H, r), seen, u)
<1> DEFINE G == Append(H, r)
<1>1. /\ DOMAIN G = 1 .. Len(H) + 1 /\ DOMAIN H = 1 .. Len(H) /\ Len(H) \in Nat
      /\ \A n \in 1 .. Len(H) : G[n] = H[n]
      /\ G[Len(H) + 1] = r
  BY Appended
<1> HIDE DEF G
<1>2. ASSUME NEW n \in DOMAIN H
      PROVE  G[n].tried <=> ~\E m \in 1 .. n - 1 : G[m].receipt /\ Same(seen, u, G[m], G[n])
  <2>1. G[n] = H[n] /\ \A m \in 1 .. n - 1 : G[m] = H[m]
    BY <1>1
  <2>2. H[n].tried <=> ~\E m \in 1 .. n - 1 : H[m].receipt /\ Same(seen, u, H[m], H[n])
    BY DEF Tries
  <2> QED
    BY <2>1, <2>2
<1>3. G[Len(H) + 1].tried
        <=> ~\E m \in 1 .. Len(H) : G[m].receipt /\ Same(seen, u, G[m], G[Len(H) + 1])
  BY <1>1
<1>4. \A n \in DOMAIN G : n \in DOMAIN H \/ n = Len(H) + 1
  BY <1>1
<1>5. (Len(H) + 1) - 1 = Len(H)
  BY <1>1
<1> QED
  BY <1>2, <1>3, <1>4, <1>5 DEF Tries, G

\* Log and ledger agree whatever is seen after the ticks of the log.
LEMMA LogStays ==
  ASSUME NEW u, NEW seen, NEW later, NEW H, NEW R, H \in Seq(R), NEW L,
         \A n \in DOMAIN H : H[n].tick \in Nat /\ \A t \in 1 .. H[n].tick + 1 : later[t] = seen[t],
         Tries(H, seen, u), Receipted(L, H, seen, u)
  PROVE  Tries(H, later, u) /\ Receipted(L, H, later, u)
<1>1. \A n \in DOMAIN H : KeyOf(later, u, H[n]) = KeyOf(seen, u, H[n])
  BY KeyStays
<1>2. \A n \in DOMAIN H, m \in DOMAIN H : Same(later, u, H[m], H[n]) <=> Same(seen, u, H[m], H[n])
  BY SameStays
<1>3. \A n \in DOMAIN H : \A m \in 1 .. n - 1 : m \in DOMAIN H
  BY DOMAIN H = 1 .. Len(H), Len(H) \in Nat
<1>4. Tries(H, later, u)
  BY <1>2, <1>3 DEF Tries
<1>5. Receipted(L, H, later, u)
  BY <1>1 DEF Receipted
<1> QED
  BY <1>4, <1>5

-----------------------------------------------------------------------------
(* A state and its log *)

\* What a state is made of.
StateFields ==
  {"tick", "clock", "truth", "serial", "ledger", "legacyLedger", "bank", "draws", "register",
   "tokens"}

\* A running clock is where its cycles and steps say.
Clocks(s, u) ==
  /\ s.clock \in [Instances -> Clock]
  /\ \A i \in Instances : s.clock[i].life = "RUNNING" => InPlace(s.clock[i], u.life[i])

\* The counters of s are what the log H and the predicates of the ticks gone by say.
Exact(s, H, past, u) ==
  /\ DOMAIN s = StateFields
  /\ Clocks(s, u)
  /\ \E Q : past \in Seq(Q)
  /\ Len(past) = s.tick /\ s.tick \in Nat
  /\ s.serial = [i \in Instances |->
                   [p \in PredicateIds |-> Serial(Append(past, s.truth), u, i, p, s.tick)]]
  /\ \E R : H \in Seq(R)
  /\ \A n \in DOMAIN H : H[n].tick \in 0 .. s.tick
  /\ Tries(H, Append(past, s.truth), u)
  /\ Receipted(s.ledger, H, Append(past, s.truth), u)

\* The predicates of s are those of the tick before.
Settling(s, past) == s.truth = IF s.tick = 0 THEN [i \in Instances |-> {}] ELSE past[s.tick]

\* What a tick does to the clocks does not touch the log.
LEMMA ExactMoves ==
  ASSUME NEW u, NEW s, NEW t, NEW H, NEW past, Exact(s, H, past, u),
         DOMAIN t = StateFields, Clocks(t, u), t.tick = s.tick, t.truth = s.truth,
         t.serial = s.serial, t.ledger = s.ledger
  PROVE  Exact(t, H, past, u)
BY DEF Exact

\* What is seen in a tick is counted once.
LEMMA ExactSees ==
  ASSUME NEW u \in Setups, NEW s, NEW t, NEW H, NEW past, Exact(s, H, past, u), Settling(s, past),
         \A n \in DOMAIN H : H[n].tick < s.tick,
         DOMAIN t = StateFields, t.clock = s.clock, t.tick = s.tick, t.ledger = s.ledger,
         t.serial = [i \in Instances |-> [p \in PredicateIds |->
                       IF u.track /\ p \in t.truth[i] \ s.truth[i]
                       THEN s.serial[i][p] + 1 ELSE s.serial[i][p]]]
  PROVE  Exact(t, H, past, u)
<1> DEFINE seen == Append(past, s.truth)
           later == Append(past, t.truth)
           T == s.tick
<1>1. /\ \E Q : past \in Seq(Q)
      /\ Len(past) = T /\ T \in Nat
      /\ \E R : H \in Seq(R)
      /\ \A n \in DOMAIN H : H[n].tick \in 0 .. T /\ H[n].tick < T
      /\ Tries(H, seen, u) /\ Receipted(s.ledger, H, seen, u)
      /\ s.serial = [i \in Instances |-> [p \in PredicateIds |-> Serial(seen, u, i, p, T)]]
  BY DEF Exact
<1>2. /\ \A n \in 1 .. T : seen[n] = past[n] /\ later[n] = past[n]
      /\ seen[T + 1] = s.truth /\ later[T + 1] = t.truth
  BY <1>1, Appended
<1>3. s.truth = IF T = 0 THEN [i \in Instances |-> {}] ELSE past[T]
  BY DEF Settling
<1> HIDE DEF seen, later, T
<1>4. ASSUME NEW i \in Instances, NEW p
      PROVE  /\ Rises(later, i, p, T) = IF p \in t.truth[i] \ s.truth[i]
                                        THEN Rises(seen, i, p, T) \union {T}
                                        ELSE Rises(seen, i, p, T)
             /\ T \notin Rises(seen, i, p, T)
  <2>1. \A n \in 0 .. T : n # T => (Rose(later, i, p, n) <=> Rose(seen, i, p, n))
    <3>1. \A n \in 0 .. T : n # T => n + 1 \in 1 .. T /\ (n # 0 => n \in 1 .. T)
      BY <1>1
    <3> QED
      BY <1>2, <3>1 DEF Rose
  <2>2. T # 0 => T \in 1 .. T /\ seen[T] = s.truth /\ later[T] = s.truth
    BY <1>1, <1>2, <1>3
  <2>3. ~Rose(seen, i, p, T)
    BY <1>2, <1>3, <2>2 DEF Rose
  <2>4. Rose(later, i, p, T) <=> p \in t.truth[i] \ s.truth[i]
    BY <1>2, <1>3, <2>2 DEF Rose
  <2>5. T \in 0 .. T
    BY <1>1
  <2> QED
    BY <2>1, <2>3, <2>4, <2>5 DEF Rises
<1>5. ASSUME NEW i \in Instances, NEW p
      PROVE  Serial(later, u, i, p, T) = IF u.track /\ p \in t.truth[i] \ s.truth[i]
                                         THEN Serial(seen, u, i, p, T) + 1
                                         ELSE Serial(seen, u, i, p, T)
  <2>1. IsFiniteSet(Rises(seen, i, p, T))
    BY <1>1, RisesCount
  <2>2. Cardinality(Rises(seen, i, p, T) \union {T}) = Cardinality(Rises(seen, i, p, T)) + 1
    BY <1>4, <2>1, FS_AddElement
  <2> QED
    BY <1>4, <2>2 DEF Serial
<1>6. t.serial = [i \in Instances |-> [p \in PredicateIds |-> Serial(later, u, i, p, T)]]
  BY <1>1, <1>5
<1>7. \A n \in DOMAIN H :
        H[n].tick \in Nat /\ \A m \in 1 .. H[n].tick + 1 : later[m] = seen[m]
  <2>1. \A n \in DOMAIN H : H[n].tick \in Nat /\ \A m \in 1 .. H[n].tick + 1 : m \in 1 .. T
    BY <1>1
  <2> QED
    BY <1>2, <2>1
<1>8. Tries(H, later, u) /\ Receipted(s.ledger, H, later, u)
  BY <1>1, <1>7, LogStays
<1>9. Clocks(t, u)
  BY DEF Exact, Clocks
<1> QED
  BY <1>1, <1>6, <1>8, <1>9 DEF Exact, later, T

\* A tick that ends is seen for good.
LEMMA ExactTicks ==
  ASSUME NEW u \in Setups, NEW s, NEW t, NEW H, NEW past, Exact(s, H, past, u),
         DOMAIN t = StateFields, Clocks(t, u), t.tick = s.tick + 1, t.truth = s.truth,
         t.serial = s.serial, t.ledger = s.ledger
  PROVE  /\ Exact(t, H, Append(past, s.truth), u)
         /\ Settling(t, Append(past, s.truth))
         /\ \A n \in DOMAIN H : H[n].tick < t.tick
<1> DEFINE seen == Append(past, s.truth)
           later == Append(seen, t.truth)
           T == s.tick
<1>1. /\ \E Q : past \in Seq(Q)
      /\ Len(past) = T /\ T \in Nat
      /\ \E R : H \in Seq(R)
      /\ \A n \in DOMAIN H : H[n].tick \in 0 .. T
      /\ Tries(H, seen, u) /\ Receipted(s.ledger, H, seen, u)
      /\ s.serial = [i \in Instances |-> [p \in PredicateIds |-> Serial(seen, u, i, p, T)]]
  BY DEF Exact
<1>2. (\E Q : seen \in Seq(Q)) /\ Len(seen) = T + 1 /\ seen[T + 1] = s.truth
  <2>1. PICK Q : past \in Seq(Q)
    BY <1>1
  <2>2. /\ \E S : seen \in Seq(S)
        /\ Len(seen) = Len(past) + 1 /\ seen[Len(past) + 1] = s.truth
    BY <2>1, Appended
  <2> QED
    BY <1>1, <2>2
<1> HIDE DEF seen
<1>3. (\A n \in 1 .. T + 1 : later[n] = seen[n]) /\ later[T + 2] = s.truth
  <2>1. Len(seen) + 1 = T + 2
    BY <1>1, <1>2
  <2> QED
    BY <1>2, <2>1, Appended
<1> HIDE DEF later, T
<1>4. ASSUME NEW i, NEW p PROVE Serial(later, u, i, p, T + 1) = Serial(seen, u, i, p, T)
  <2>1. Rises(later, i, p, T) = Rises(seen, i, p, T)
    BY <1>1, <1>3, SeenBefore
  <2>2. ~Rose(later, i, p, T + 1)
    <3>1. (T + 1) + 1 = T + 2 /\ T + 1 # 0 /\ T + 1 \in 1 .. T + 1
      BY <1>1
    <3>2. later[(T + 1) + 1] = s.truth /\ later[T + 1] = s.truth
      BY <1>2, <1>3, <3>1
    <3> QED
      BY <3>1, <3>2 DEF Rose
  <2>3. Cardinality(Rises(later, i, p, T + 1)) = Cardinality(Rises(seen, i, p, T)) + 0
    BY <1>1, <2>1, <2>2, RisesCount
  <2>4. Cardinality(Rises(seen, i, p, T)) \in Nat
    BY <1>1, RisesCount
  <2> QED
    BY <2>3, <2>4 DEF Serial
<1>5. t.serial = [i \in Instances |-> [p \in PredicateIds |-> Serial(later, u, i, p, T + 1)]]
  BY <1>1, <1>4
<1>6. \A n \in DOMAIN H :
        H[n].tick \in Nat /\ \A m \in 1 .. H[n].tick + 1 : later[m] = seen[m]
  BY <1>1, <1>3
<1>7. Tries(H, later, u) /\ Receipted(s.ledger, H, later, u)
  BY <1>1, <1>6, LogStays
<1>8. \A n \in DOMAIN H : H[n].tick \in 0 .. T + 1 /\ H[n].tick < T + 1
  BY <1>1
<1>9. t.tick = T + 1 /\ T + 1 \in Nat /\ T + 1 # 0
  BY <1>1 DEF T
<1>10. Exact(t, H, seen, u)
  BY <1>1, <1>2, <1>5, <1>7, <1>8, <1>9 DEF Exact, later
<1>11. Settling(t, seen)
  BY <1>2, <1>9 DEF Settling
<1> QED
  BY <1>8, <1>9, <1>10, <1>11 DEF seen

\* A candidate that meets the ledger is logged.
LEMMA ExactTries ==
  ASSUME NEW u \in Setups, NEW s, NEW t, NEW H, NEW past, Exact(s, H, past, u), NEW r, NEW c,
         DOMAIN t = StateFields, t.clock = s.clock, t.tick = s.tick, t.truth = s.truth,
         t.serial = s.serial, r.tick = s.tick,
         c = Met(Append(past, s.truth), u, r),
         r.tried <=> IsEligible(s.ledger, u.policy, c),
         t.ledger = IF r.receipt THEN WriteReceipt(s.ledger, u.policy, c) ELSE s.ledger
  PROVE  Exact(t, Append(H, r), past, u)
<1> DEFINE seen == Append(past, s.truth)
<1>1. PICK R : H \in Seq(R)
  BY DEF Exact
<1>2. /\ s.tick \in Nat /\ \A n \in DOMAIN H : H[n].tick \in 0 .. s.tick
      /\ Tries(H, seen, u) /\ Receipted(s.ledger, H, seen, u)
  BY DEF Exact
<1> HIDE DEF seen
<1>3. c = Met(seen, u, r)
  BY DEF seen
<1>4. r.tried <=> ~\E m \in 1 .. Len(H) : H[m].receipt /\ Same(seen, u, H[m], r)
  BY <1>1, <1>2, <1>3, LedgerTells
<1>5. Tries(Append(H, r), seen, u)
  BY <1>1, <1>2, <1>4, TriesAppended
<1>6. Receipted(t.ledger, Append(H, r), seen, u)
  BY <1>1, <1>2, <1>3, ReceiptWritten
<1>7. \A n \in DOMAIN Append(H, r) : Append(H, r)[n].tick \in 0 .. s.tick
  <2>1. /\ DOMAIN Append(H, r) = 1 .. Len(H) + 1 /\ DOMAIN H = 1 .. Len(H) /\ Len(H) \in Nat
        /\ \A n \in 1 .. Len(H) : Append(H, r)[n] = H[n]
        /\ Append(H, r)[Len(H) + 1] = r
    BY <1>1, Appended
  <2>2. \A n \in DOMAIN Append(H, r) : n \in DOMAIN H \/ n = Len(H) + 1
    BY <2>1
  <2>3. r.tick \in 0 .. s.tick
    BY <1>2
  <2> QED
    BY <1>2, <2>1, <2>2, <2>3
<1>8. \E S : Append(H, r) \in Seq(S)
  BY <1>1, Appended
<1>9. Clocks(t, u)
  BY DEF Exact, Clocks
<1> QED
  BY <1>5, <1>6, <1>7, <1>8, <1>9 DEF Exact, seen

-----------------------------------------------------------------------------
(* The invariant *)

\* What a round is made of.
RoundFields == {"pc", "queue", "active", "legacy", "typed", "decision", "fresh"}

\* Where the tick has got to, and what it has not touched by then.
Controls ==
  /\ setup \in Setups
  /\ DOMAIN round = RoundFields
  /\ round.pc \in {"idle", "snapshot", "resolve"}
  /\ \E R : round.fresh \in Seq(R)
  /\ \A b \in round.active : b[1] \in Instances
  /\ state.tick = start.tick
  /\ round.pc = "idle" => state = start
  /\ round.pc # "resolve" =>
       /\ round.fresh = << >>
       /\ state.truth = start.truth /\ state.serial = start.serial
       /\ state.ledger = start.ledger

\* The inductive invariant of LedgerExact.
LedgerInv ==
  /\ Controls
  /\ Exact(start, hits, shown, setup)
  /\ Settling(start, shown)
  /\ \A n \in DOMAIN hits : hits[n].tick < start.tick
  /\ Exact(state, History, shown, setup)

\* What an empty sequence adds, and what one more element does.
LEMMA Concatenated ==
  ASSUME NEW R, NEW H \in Seq(R), NEW S, NEW F \in Seq(S)
  PROVE  H \o << >> = H /\ \A r : H \o Append(F, r) = Append(H \o F, r)
<1>1. H \o << >> = H
  OBVIOUS
<1>2. ASSUME NEW r PROVE H \o Append(F, r) = Append(H \o F, r)
  <2> DEFINE Q == R \union S \union {r}
  <2>1. H \in Seq(Q) /\ F \in Seq(Q) /\ r \in Q
    OBVIOUS
  <2> HIDE DEF Q
  <2> QED
    BY <2>1
<1> QED
  BY <1>1, <1>2

\* A number of cycles and a remainder.
LEMMA CyclesDivide ==
  ASSUME NEW c \in Nat, NEW n \in Nat, NEW k \in Nat, k > 0, n < k
  PROVE  (c * k + n) \div k = c
<1> DEFINE x == c * k
           y == x + n
<1>1. x \in Nat /\ y \in Nat
  OBVIOUS
<1>2. y \div k \in Nat
  BY <1>1
<1> QED
  BY Z3

\* A running clock is in the cycle that its steps say.
LEMMA CycleInPlace ==
  ASSUME NEW u, NEW i, NEW a \in Clock, InPlace(a, u.life[i])
  PROVE  a.cycle = CycleOf(u, i, a.local)
<1>1. a.cycle \in Nat /\ a.step \in Nat /\ Steps \in Nat /\ Steps > 0
  BY TimelineAssumption DEF Clock
<1>2. CASE u.life[i] = "LOOP"
  <2>1. a.step < Steps /\ a.cycle * Steps + a.step = a.local
    BY <1>2 DEF InPlace
  <2>2. (a.cycle * Steps + a.step) \div Steps = a.cycle
    BY <1>1, <2>1, CyclesDivide
  <2> QED
    BY <1>2, <2>1, <2>2 DEF CycleOf
<1>3. CASE u.life[i] # "LOOP"
  BY <1>3 DEF CycleOf, InPlace
<1> QED
  BY <1>2, <1>3

\* What the ledger is asked is what the candidate met.
LEMMA ContextMet ==
  ASSUME LedgerInv, NEW c, Admissible(c), HasBinding(c), NEW tried, NEW receipt, NEW routed
  PROVE  LedgerContext(c) =
           Met(Append(shown, state.truth), setup, Record(c, tried, receipt, routed))
<1> DEFINE i == c.instance
           a == state.clock[i]
           seen == Append(shown, state.truth)
<1>1. i \in Instances /\ a.life = "RUNNING"
  <2>1. \A b \in round.active : b[1] \in Instances
    BY DEF LedgerInv, Controls
  <2> QED
    BY <2>1 DEF HasBinding, Admissible, Running
<1>2. a \in Clock /\ InPlace(a, setup.life[i])
  BY <1>1 DEF LedgerInv, Exact, Clocks
<1>3. a.cycle = CycleOf(setup, i, a.local)
  BY <1>2, CycleInPlace
<1>4. state.serial[i] = [p \in PredicateIds |-> Serial(seen, setup, i, p, state.tick)]
  <2>1. state.serial = [j \in Instances |-> [p \in PredicateIds |->
                          Serial(seen, setup, j, p, state.tick)]]
    BY DEF LedgerInv, Exact
  <2> QED
    BY <1>1, <2>1
<1> HIDE DEF seen
<1> QED
  BY <1>3, <1>4 DEF LedgerContext, Met, Record, seen

-----------------------------------------------------------------------------
(* Every step keeps the invariant *)

\* A step within a tick that asks nothing of the ledger.
LEMMA Unasked ==
  ASSUME LedgerInv, UNCHANGED <<setup, start, hits, shown>>,
         DOMAIN state' = StateFields, Clocks(state', setup), state'.tick = state.tick,
         state'.truth = state.truth, state'.serial = state.serial, state'.ledger = state.ledger,
         DOMAIN round' = RoundFields, round'.pc \in {"snapshot", "resolve"},
         round.pc # "resolve" => round'.pc = "snapshot",
         round.pc = "resolve" => round'.pc = "resolve",
         round'.fresh = round.fresh, round'.active = round.active
  PROVE  LedgerInv'
<1>1. Exact(state, History, shown, setup)
  BY DEF LedgerInv
<1>2. Exact(state', History, shown, setup)
  BY <1>1, ExactMoves
<1>3. History' = History
  BY DEF History
<1>4. Controls'
  BY DEF LedgerInv, Controls
<1> QED
  BY <1>2, <1>3, <1>4 DEF LedgerInv

\* The tick ends as it began or as the candidates left it.
LEMMA Ends ==
  ASSUME LedgerInv, NEW s, NEW H, Exact(s, H, shown, setup),
         UNCHANGED setup, shown' = Append(shown, s.truth), start' = state', round' = Idle, hits' = H,
         DOMAIN state' = StateFields, Clocks(state', setup), state'.tick = s.tick + 1,
         state'.truth = s.truth, state'.serial = s.serial, state'.ledger = s.ledger
  PROVE  LedgerInv'
<1>1. setup \in Setups
  BY DEF LedgerInv, Controls
<1>2. /\ Exact(state', H, shown', setup)
      /\ Settling(state', shown')
      /\ \A n \in DOMAIN H : H[n].tick < state'.tick
  BY <1>1, ExactTicks
<1>3. PICK R : H \in Seq(R)
  BY DEF Exact
<1>4. History' = H
  BY <1>3, Concatenated DEF History, Idle
<1>5. Controls'
  <2>1. << >> \in Seq({})
    OBVIOUS
  <2> QED
    BY <1>1, <2>1 DEF Controls, Idle, RoundFields
<1> QED
  BY <1>2, <1>4, <1>5 DEF LedgerInv

\* A contained fault returns to the tick-start counters and to the log of the ticks gone by.
LEMMA ContainKeeps ==
  ASSUME LedgerInv, NEW i, Contain(i)
  PROVE  LedgerInv'
<1>1. Exact(start, hits, shown, setup)
  BY DEF LedgerInv
<1>2. /\ DOMAIN start = StateFields /\ start.clock \in [Instances -> Clock]
      /\ \A j \in Instances : start.clock[j].life = "RUNNING" => InPlace(start.clock[j], setup.life[j])
  BY <1>1 DEF Exact, Clocks
<1>3. /\ UNCHANGED <<setup, hits>> /\ shown' = Append(shown, start.truth)
      /\ start' = state' /\ round' = Idle
      /\ state' = [start EXCEPT !.tick = @ + 1, !.clock[i].life = "FAULTED",
                            !.tokens = {t \in @ : t.target # i}]
  BY DEF Contain, Closed
<1>4. /\ DOMAIN state' = StateFields /\ state'.tick = start.tick + 1
      /\ state'.truth = start.truth /\ state'.serial = start.serial
      /\ state'.ledger = start.ledger
      /\ state'.clock = [start.clock EXCEPT ![i].life = "FAULTED"]
  BY <1>2, <1>3 DEF StateFields
<1>5. Clocks(state', setup)
  <2>1. \A a \in Clock : /\ [a EXCEPT !.life = "FAULTED"] \in Clock
                         /\ [a EXCEPT !.life = "FAULTED"].life = "FAULTED"
    BY DEF Clock
  <2> DEFINE f == state'.clock
  <2>2. f = [j \in Instances |-> IF j = i THEN [start.clock[j] EXCEPT !.life = "FAULTED"]
                                 ELSE start.clock[j]]
    BY <1>2, <1>4
  <2> HIDE DEF f
  <2>3. f \in [Instances -> Clock]
    BY <1>2, <2>1, <2>2
  <2>4. \A j \in Instances : f[j].life = "RUNNING" => InPlace(f[j], setup.life[j])
    <3> SUFFICES ASSUME NEW j \in Instances, f[j].life = "RUNNING"
                 PROVE  InPlace(f[j], setup.life[j])
      OBVIOUS
    <3>1. f[j] = start.clock[j]
      BY <1>2, <2>1, <2>2
    <3> QED
      BY <1>2, <3>1
  <2> QED
    BY <2>3, <2>4 DEF Clocks, f
<1> QED
  BY <1>1, <1>3, <1>4, <1>5, Ends

\* So does a tick that raises.
LEMMA AbortKeeps ==
  ASSUME LedgerInv, Abort
  PROVE  LedgerInv'
<1>1. /\ Exact(start, hits, shown, setup)
      /\ \E R : hits \in Seq(R)
  BY DEF LedgerInv, Exact
<1>2. /\ state' = start /\ round' = Idle
      /\ UNCHANGED <<setup, start, hits, shown>>
  BY DEF Abort
<1>3. History' = hits
  BY <1>1, <1>2, Concatenated DEF History, Idle
<1>4. Controls'
  <2>1. << >> \in Seq({})
    OBVIOUS
  <2> QED
    BY <1>2, <2>1 DEF LedgerInv, Controls, Idle, RoundFields
<1> QED
  BY <1>1, <1>2, <1>3, <1>4 DEF LedgerInv

\* A failed effect ends one way or the other.
LEMMA BlameKeeps ==
  ASSUME LedgerInv, NEW instances, Blame(instances)
  PROVE  LedgerInv'
BY ContainKeeps, AbortKeeps DEF Blame

\* A freeze moves no counter of the ledger.
LEMMA FreezeKeeps ==
  ASSUME LedgerInv, Freeze
  PROVE  LedgerInv'
<1>1. PICK kind \in TokenKinds :
        state' = [state EXCEPT !.tokens = AddToken(@, Created(granted, state.tick, kind))]
  BY DEF Freeze
<1>2. /\ round.pc = "idle" /\ start' = state' /\ UNCHANGED <<setup, round, hits, shown>>
      /\ state = start
  BY DEF Freeze, LedgerInv, Controls
<1>3. /\ Exact(start, hits, shown, setup) /\ Exact(state, History, shown, setup)
      /\ DOMAIN state = StateFields
  BY DEF LedgerInv, Exact
<1>4. /\ DOMAIN state' = StateFields /\ state'.tick = state.tick /\ state'.clock = state.clock
      /\ state'.truth = state.truth /\ state'.serial = state.serial
      /\ state'.ledger = state.ledger
  BY <1>1, <1>3 DEF StateFields
<1>5. Clocks(state', setup)
  BY <1>3, <1>4 DEF Exact, Clocks
<1>6. Exact(state', hits, shown, setup) /\ Exact(state', History, shown, setup)
  BY <1>2, <1>3, <1>4, <1>5, ExactMoves
<1>7. History' = History
  BY <1>2 DEF History
<1>8. Controls'
  BY <1>2, <1>4 DEF LedgerInv, Controls
<1>9. Settling(start', shown') /\ \A n \in DOMAIN hits' : hits'[n].tick < start'.tick
  BY <1>2, <1>4 DEF LedgerInv, Settling
<1> QED
  BY <1>2, <1>6, <1>7, <1>8, <1>9 DEF LedgerInv

\* The progression keeps every running clock in place.
LEMMA AdvanceKeeps ==
  ASSUME LedgerInv, Advance
  PROVE  LedgerInv'
<1> DEFINE done == [i \in Instances |-> CHOOSE x \in Transitions(i) : TRUE]
<1>1. /\ state' = [state EXCEPT
                     !.clock = [i \in Instances |->
                        IF Running(i) THEN Progress(@[i], setup.life[i], Accrual(i)) ELSE @[i]],
                     !.register = [i \in Instances |-> done[i].register]]
      /\ \E typed : round' = [round EXCEPT !.pc = "snapshot", !.typed = typed]
      /\ round.pc = "idle" /\ UNCHANGED <<setup, start, hits, shown>>
  BY DEF Advance
<1> HIDE DEF done
<1>2. /\ DOMAIN state = StateFields /\ state.clock \in [Instances -> Clock]
      /\ \A i \in Instances : state.clock[i].life = "RUNNING" => InPlace(state.clock[i], setup.life[i])
      /\ setup \in Setups /\ DOMAIN round = RoundFields
  BY DEF LedgerInv, Controls, Exact, Clocks
<1>3. /\ DOMAIN state' = StateFields /\ state'.tick = state.tick
      /\ state'.truth = state.truth /\ state'.serial = state.serial
      /\ state'.ledger = state.ledger
      /\ state'.clock = [i \in Instances |->
           IF Running(i) THEN Progress(state.clock[i], setup.life[i], Accrual(i))
           ELSE state.clock[i]]
  BY <1>1, <1>2 DEF StateFields
<1>4. /\ DOMAIN round' = RoundFields /\ round'.pc = "snapshot"
      /\ round'.fresh = round.fresh /\ round'.active = round.active
  BY <1>1, <1>2 DEF RoundFields
<1>5. ASSUME NEW i \in Instances
      PROVE  /\ state'.clock[i] \in Clock
             /\ state'.clock[i].life = "RUNNING" => InPlace(state'.clock[i], setup.life[i])
  <2> DEFINE a == state.clock[i]
             b == Progress(a, setup.life[i], Accrual(i))
  <2>1. a \in Clock /\ setup.life[i] \in Lifecycles
    BY <1>2, EncounterAssumption
  <2>2. Accrual(i) \in {"NONE", "HOLD", "ACCRUE"}
    BY DEF Accrual, ProgressionAccrual
  <2>3. CASE Running(i)
    <3>1. a.life = "RUNNING" /\ InPlace(a, setup.life[i])
      BY <1>2, <2>3 DEF Running
    <3>2. b \in Clock /\ (b.life = "RUNNING" => InPlace(b, setup.life[i]))
      BY <2>1, <2>2, <3>1, Progressing
    <3>3. state'.clock[i] = b
      BY <1>3, <2>3
    <3> QED
      BY <3>2, <3>3
  <2>4. CASE ~Running(i)
    <3>1. state'.clock[i] = a
      BY <1>3, <2>4
    <3> QED
      BY <1>2, <3>1
  <2> QED
    BY <2>3, <2>4
<1>6. Clocks(state', setup)
  <2>1. state'.clock \in [Instances -> Clock]
    <3> DEFINE f == state'.clock
    <3>1. f = [i \in Instances |-> f[i]] /\ \A i \in Instances : f[i] \in Clock
      BY <1>3, <1>5
    <3> HIDE DEF f
    <3>2. f \in [Instances -> Clock]
      BY <3>1
    <3> QED
      BY <3>2 DEF f
  <2> QED
    BY <1>5, <2>1 DEF Clocks
<1> QED
  BY <1>1, <1>3, <1>4, <1>6, Unasked

\* The semantic snapshot counts what came true.
LEMMA SnapshotKeeps ==
  ASSUME LedgerInv, SemanticSnapshot
  PROVE  LedgerInv'
<1> DEFINE truth == [i \in Instances |-> IF Running(i) THEN PredicateValues(i) ELSE state.truth[i]]
           active == UNION {{<<i, f.id>> : f \in {g \in Facts[i] : g.when \in truth[i]}} :
                              i \in {j \in Instances : Running(j)}}
<1>1. /\ state' = [state EXCEPT !.truth = truth, !.serial =
                     [i \in Instances |-> [p \in PredicateIds |->
                        IF setup.track /\ p \in truth[i] \ state.truth[i]
                        THEN @[i][p] + 1 ELSE @[i][p]]]]
      /\ \E queue : round' = [round EXCEPT !.pc = "resolve", !.queue = queue, !.active = active]
      /\ round.pc = "snapshot" /\ UNCHANGED <<setup, start, hits, shown>>
  BY DEF SemanticSnapshot
<1>2. \A b \in active : b[1] \in Instances
  OBVIOUS
<1> HIDE DEF truth, active
<1>3. /\ DOMAIN state = StateFields /\ setup \in Setups /\ DOMAIN round = RoundFields
      /\ Exact(state, History, shown, setup) /\ Exact(start, hits, shown, setup)
      /\ \E R : hits \in Seq(R)
  BY DEF LedgerInv, Controls, Exact
<1>4. /\ DOMAIN state' = StateFields /\ state'.tick = state.tick /\ state'.clock = state.clock
      /\ state'.ledger = state.ledger /\ state'.truth = truth
      /\ state'.serial = [i \in Instances |-> [p \in PredicateIds |->
                            IF setup.track /\ p \in truth[i] \ state.truth[i]
                            THEN state.serial[i][p] + 1 ELSE state.serial[i][p]]]
  BY <1>1, <1>3 DEF StateFields
<1>5. /\ DOMAIN round' = RoundFields /\ round'.pc = "resolve"
      /\ round'.fresh = round.fresh /\ round'.active = active
  BY <1>1, <1>3 DEF RoundFields
<1>6. round.fresh = << >> /\ state.truth = start.truth /\ state.tick = start.tick
  BY <1>1 DEF LedgerInv, Controls
<1>7. History = hits /\ History' = hits
  BY <1>1, <1>3, <1>5, <1>6, Concatenated DEF History
<1>8. Settling(state, shown) /\ \A n \in DOMAIN hits : hits[n].tick < state.tick
  BY <1>6 DEF LedgerInv, Settling
<1>9. Exact(state', hits, shown, setup)
  BY <1>3, <1>4, <1>7, <1>8, ExactSees
<1>10. Controls'
  BY <1>1, <1>2, <1>4, <1>5 DEF LedgerInv, Controls
<1> QED
  BY <1>1, <1>7, <1>9, <1>10 DEF LedgerInv

\* A candidate passed over leaves no trace.
LEMMA SkipKeeps ==
  ASSUME LedgerInv, Skip
  PROVE  LedgerInv'
<1>1. /\ round.pc = "resolve" /\ round' = [round EXCEPT !.queue = Tail(@)]
      /\ UNCHANGED <<setup, state, start, hits, shown>>
  BY DEF Skip, Candidate, Resolved
<1>2. /\ DOMAIN state = StateFields /\ Clocks(state, setup) /\ DOMAIN round = RoundFields
  BY DEF LedgerInv, Controls, Exact
<1>3. /\ DOMAIN round' = RoundFields /\ round'.pc = "resolve"
      /\ round'.fresh = round.fresh /\ round'.active = round.active
  BY <1>1, <1>2 DEF RoundFields
<1> QED
  BY <1>1, <1>2, <1>3, Unasked

\* A contact without a binding asks a ledger of its own.
LEMMA LegacyHitKeeps ==
  ASSUME LedgerInv, LegacyHit
  PROVE  LedgerInv'
<1>1. /\ round.pc = "resolve"
      /\ \/ round' = [round EXCEPT !.queue = Tail(@)]
         \/ \E c : round' = [[round EXCEPT !.legacy = @ \union {c}] EXCEPT !.queue = Tail(@)]
      /\ \E key : state' = [state EXCEPT !.legacyLedger = @ \union {key}]
      /\ UNCHANGED <<setup, start, hits, shown>>
  BY DEF LegacyHit, Candidate, Resolved
<1>2. DOMAIN state = StateFields /\ Clocks(state, setup) /\ DOMAIN round = RoundFields
  BY DEF LedgerInv, Controls, Exact
<1>3. /\ DOMAIN round' = RoundFields /\ round'.pc = "resolve"
      /\ round'.fresh = round.fresh /\ round'.active = round.active
  BY <1>1, <1>2 DEF RoundFields
<1>4. /\ DOMAIN state' = StateFields /\ state'.tick = state.tick /\ state'.clock = state.clock
      /\ state'.truth = state.truth /\ state'.serial = state.serial
      /\ state'.ledger = state.ledger
  BY <1>1, <1>2 DEF StateFields
<1>5. Clocks(state', setup)
  BY <1>2, <1>4 DEF Clocks
<1> QED
  BY <1>1, <1>3, <1>4, <1>5, Unasked

\* A candidate is logged as it meets the ledger.
LEMMA Asked ==
  ASSUME LedgerInv, round.pc = "resolve", UNCHANGED <<setup, start, hits, shown>>,
         NEW c, Admissible(c), HasBinding(c), NEW r, NEW tried, NEW receipt, NEW routed,
         r = Record(c, tried, receipt, routed), tried <=> Eligible(c),
         DOMAIN state' = StateFields, state'.clock = state.clock, state'.tick = state.tick,
         state'.truth = state.truth, state'.serial = state.serial,
         state'.ledger = IF r.receipt THEN WriteReceipt(state.ledger, setup.policy, LedgerContext(c))
                         ELSE state.ledger,
         DOMAIN round' = RoundFields, round'.pc = "resolve", round'.active = round.active,
         round'.fresh = Append(round.fresh, r)
  PROVE  LedgerInv'
<1>1. /\ setup \in Setups /\ Exact(state, History, shown, setup)
      /\ Exact(start, hits, shown, setup)
  BY DEF LedgerInv, Controls
<1>2. LedgerContext(c) = Met(Append(shown, state.truth), setup, r)
  BY ContextMet
<1>3. r.tick = state.tick /\ (r.tried <=> tried)
  BY DEF Record
<1>4. r.tried <=> IsEligible(state.ledger, setup.policy, LedgerContext(c))
  BY <1>3 DEF Eligible
<1>5. Exact(state', Append(History, r), shown, setup)
  BY <1>1, <1>2, <1>3, <1>4, ExactTries
<1>6. PICK R : hits \in Seq(R)
  BY <1>1 DEF Exact
<1>7. PICK S : round.fresh \in Seq(S)
  BY DEF LedgerInv, Controls
<1>8. History' = Append(History, r)
  <2>1. hits \o Append(round.fresh, r) = Append(hits \o round.fresh, r)
    BY <1>6, <1>7, Concatenated
  <2>2. History' = hits' \o round'.fresh
    BY DEF History
  <2>3. History' = hits \o Append(round.fresh, r)
    BY <2>2
  <2>4. History = hits \o round.fresh
    BY DEF History
  <2> QED
    BY <2>1, <2>3, <2>4
<1>9. Controls'
  <2>1. \E Q : Append(round.fresh, r) \in Seq(Q)
    BY <1>7, Appended
  <2> QED
    BY <2>1 DEF LedgerInv, Controls
<1> QED
  BY <1>1, <1>5, <1>8, <1>9 DEF LedgerInv

\* A candidate that the ledger refuses.
LEMMA RefuseKeeps ==
  ASSUME LedgerInv, Refuse
  PROVE  LedgerInv'
<1> DEFINE c == Head(round.queue)
           r == Record(c, FALSE, FALSE, "REJECTED")
<1>1. /\ round.pc = "resolve" /\ Admissible(c) /\ HasBinding(c) /\ ~Eligible(c)
      /\ round' = [[round EXCEPT !.fresh = Append(@, r)] EXCEPT !.queue = Tail(@)]
      /\ UNCHANGED <<setup, state, start, hits, shown>>
  BY DEF Refuse, Candidate, Resolved
<1>2. DOMAIN state = StateFields /\ DOMAIN round = RoundFields
  BY DEF LedgerInv, Controls, Exact
<1>3. ~r.receipt
  BY DEF Record
<1> DEFINE fresh == Append(round.fresh, r)
<1>4. round' = [[round EXCEPT !.fresh = fresh] EXCEPT !.queue = Tail(@)]
  BY <1>1
<1> HIDE DEF fresh
<1>5. /\ DOMAIN round' = RoundFields /\ round'.pc = "resolve"
      /\ round'.active = round.active /\ round'.fresh = fresh
  BY <1>1, <1>2, <1>4 DEF RoundFields
<1>6. round'.fresh = Append(round.fresh, r)
  BY <1>5 DEF fresh
<1> HIDE DEF c
<1>7. r = Record(c, FALSE, FALSE, "REJECTED") /\ (FALSE <=> Eligible(c))
  BY <1>1
<1> HIDE DEF r
<1> QED
  BY <1>1, <1>2, <1>3, <1>5, <1>6, <1>7, Asked

\* A candidate that the ledger lets through, with the receipt it may leave.
LEMMA HitKeeps ==
  ASSUME LedgerInv, Hit
  PROVE  LedgerInv'
<1> DEFINE c == Head(round.queue)
<1>1. /\ round.pc = "resolve" /\ Admissible(c) /\ HasBinding(c) /\ Eligible(c)
      /\ UNCHANGED <<setup, start, hits, shown>>
  BY DEF Hit, Candidate
<1> DEFINE Receipt(d) == ReceiptRequired(setup.policy.receipt, d.status = "ACCEPTED",
                                         \E j \in DOMAIN d.generated : d.generated[j].authoritative)
<1>2. PICK d :
        /\ Resolved([round EXCEPT !.typed = @ \o d.generated, !.decision = d,
                       !.fresh = Append(@, Record(c, TRUE, Receipt(d), d.routed))])
        /\ state' = IF Receipt(d)
                    THEN [state EXCEPT !.ledger = WriteReceipt(@, setup.policy, LedgerContext(c))]
                    ELSE state
  BY DEF Hit
<1> DEFINE receipt == Receipt(d)
<1>3. /\ round' = [[round EXCEPT !.typed = @ \o d.generated, !.decision = d,
                        !.fresh = Append(@, Record(c, TRUE, receipt, d.routed))]
                      EXCEPT !.queue = Tail(@)]
      /\ state' = IF receipt
                    THEN [state EXCEPT !.ledger = WriteReceipt(@, setup.policy, LedgerContext(c))]
                    ELSE state
  BY <1>2 DEF Resolved, receipt
<1> HIDE DEF receipt
<1> DEFINE r == Record(c, TRUE, receipt, d.routed)
           fresh == Append(round.fresh, r)
           typed == round.typed \o d.generated
           ledger == WriteReceipt(state.ledger, setup.policy, LedgerContext(c))
<1>4. DOMAIN state = StateFields /\ DOMAIN round = RoundFields
  BY DEF LedgerInv, Controls, Exact
<1>5. /\ round' = [[round EXCEPT !.typed = typed, !.decision = d, !.fresh = fresh]
                     EXCEPT !.queue = Tail(@)]
      /\ state' = IF receipt THEN [state EXCEPT !.ledger = ledger] ELSE state
  BY <1>3
<1>6. (r.receipt <=> receipt) /\ r = Record(c, TRUE, receipt, d.routed) /\ (TRUE <=> Eligible(c))
  BY <1>1 DEF Record
<1> HIDE DEF fresh, typed, ledger, c, r
<1>7. /\ DOMAIN round' = RoundFields /\ round'.pc = "resolve"
      /\ round'.active = round.active /\ round'.fresh = fresh
  BY <1>1, <1>4, <1>5 DEF RoundFields
<1>8. /\ DOMAIN state' = StateFields /\ state'.clock = state.clock /\ state'.tick = state.tick
      /\ state'.truth = state.truth /\ state'.serial = state.serial
      /\ state'.ledger = IF r.receipt THEN ledger ELSE state.ledger
  BY <1>4, <1>5, <1>6 DEF StateFields
<1>9. round'.fresh = Append(round.fresh, r)
  BY <1>7 DEF fresh
<1> QED
  BY <1>1, <1>6, <1>7, <1>8, <1>9, Asked DEF ledger

\* A tick that commits adds its candidates to the log.
LEMMA CommitKeeps ==
  ASSUME LedgerInv, Commit
  PROVE  LedgerInv'
<1>1. /\ \E bank, draws : state' = [state EXCEPT !.tick = @ + 1, !.bank = bank, !.draws = draws,
                                      !.tokens = ExpireTokens(@, state.tick)]
      /\ start' = state' /\ hits' = History /\ shown' = Append(shown, state.truth)
      /\ round' = Idle /\ UNCHANGED setup
  BY DEF Commit, History
<1>2. Exact(state, History, shown, setup) /\ DOMAIN state = StateFields /\ Clocks(state, setup)
  BY DEF LedgerInv, Exact
<1>3. /\ DOMAIN state' = StateFields /\ state'.tick = state.tick + 1
      /\ state'.clock = state.clock /\ state'.truth = state.truth
      /\ state'.serial = state.serial /\ state'.ledger = state.ledger
  BY <1>1, <1>2 DEF StateFields
<1>4. Clocks(state', setup)
  BY <1>2, <1>3 DEF Clocks
<1> QED
  BY <1>1, <1>2, <1>3, <1>4, Ends

\* No candidate, no receipt.
LEMMA EmptyLog ==
  ASSUME NEW H, DOMAIN H = {}, NEW seen, NEW u
  PROVE  Tries(H, seen, u) /\ Receipted(H, H, seen, u)
BY DEF Tries, Receipted

\* Nothing has happened yet.
LEMMA LedgerStarts ==
  ASSUME Init
  PROVE  LedgerInv
<1>1. /\ setup \in Setups /\ start = state /\ round = Idle /\ hits = << >> /\ shown = << >>
      /\ DOMAIN state = StateFields /\ state.tick = 0
      /\ state.clock = [i \in Instances |-> Started(setup.rate[i])]
      /\ state.truth = [i \in Instances |-> {}]
      /\ state.serial = [i \in Instances |-> [p \in PredicateIds |-> 0]]
      /\ state.ledger = << >>
  BY DEF Init, StateFields
<1>2. << >> \in Seq({}) /\ Len(<< >>) = 0 /\ DOMAIN << >> = {} /\ << >> \o << >> = << >>
  OBVIOUS
<1>3. History = << >>
  BY <1>1, <1>2 DEF History, Idle
<1>4. Clocks(state, setup)
  <2>1. ASSUME NEW i \in Instances
        PROVE  Started(setup.rate[i]) \in Clock /\ InPlace(Started(setup.rate[i]), setup.life[i])
    <3>1. setup.rate[i] \in Nat
      BY <1>1, EncounterAssumption
    <3>2. 0 * Steps = 0 /\ 0 < Steps /\ 0 \in 0 .. RateScale - 1
      BY TimelineAssumption
    <3> QED
      BY <3>1, <3>2 DEF Started, Clock, InPlace
  <2>2. state.clock \in [Instances -> Clock]
    <3> DEFINE f == state.clock
    <3>1. f = [i \in Instances |-> f[i]] /\ \A i \in Instances : f[i] \in Clock
      BY <1>1, <2>1
    <3> HIDE DEF f
    <3>2. f \in [Instances -> Clock]
      BY <3>1
    <3> QED
      BY <3>2 DEF f
  <2> QED
    BY <1>1, <2>1, <2>2 DEF Clocks
<1>5. ASSUME NEW i \in Instances, NEW p
      PROVE  Serial(Append(<< >>, state.truth), setup, i, p, 0) = 0
  <2>1. Append(<< >>, state.truth)[1] = state.truth
    OBVIOUS
  <2>2. state.truth[i] = {}
    BY <1>1
  <2>3. ~Rose(Append(<< >>, state.truth), i, p, 0)
    BY <2>1, <2>2 DEF Rose
  <2>4. Rises(Append(<< >>, state.truth), i, p, 0) = {}
    BY <2>3 DEF Rises
  <2>5. Cardinality({}) = 0
    BY FS_EmptySet
  <2> QED
    BY <2>4, <2>5 DEF Serial
<1>6. state.serial = [i \in Instances |-> [p \in PredicateIds |->
                        Serial(Append(<< >>, state.truth), setup, i, p, 0)]]
  <2> DEFINE seen == Append(<< >>, state.truth)
  <2>1. \A i \in Instances : \A p \in PredicateIds : Serial(seen, setup, i, p, 0) = 0
    BY <1>5
  <2> HIDE DEF seen
  <2>2. state.serial = [i \in Instances |-> [p \in PredicateIds |-> Serial(seen, setup, i, p, 0)]]
    BY <1>1, <2>1
  <2> QED
    BY <2>2 DEF seen
<1>7. /\ Tries(<< >>, Append(<< >>, state.truth), setup)
      /\ Receipted(<< >>, << >>, Append(<< >>, state.truth), setup)
  <2> DEFINE none == << >>
             seen == Append(<< >>, state.truth)
  <2>1. DOMAIN none = {}
    OBVIOUS
  <2> HIDE DEF none, seen
  <2>2. Tries(none, seen, setup) /\ Receipted(none, none, seen, setup)
    BY <2>1, EmptyLog
  <2> QED
    BY <2>2 DEF none, seen
<1>8. Exact(state, << >>, << >>, setup)
  <2> DEFINE none == << >>
             seen == Append(none, state.truth)
  <2>1. /\ none \in Seq({}) /\ Len(none) = 0 /\ DOMAIN none = {} /\ state.ledger = none
        /\ Tries(none, seen, setup) /\ Receipted(none, none, seen, setup)
        /\ state.serial = [i \in Instances |-> [p \in PredicateIds |-> Serial(seen, setup, i, p, 0)]]
    BY <1>1, <1>2, <1>6, <1>7
  <2>2. Append(none, state.truth) = seen
    OBVIOUS
  <2> HIDE DEF none, seen
  <2>3. /\ \E Q : none \in Seq(Q)
        /\ \A n \in DOMAIN none : none[n].tick \in 0 .. state.tick
        /\ Len(none) = state.tick /\ state.tick \in Nat
    BY <1>1, <2>1
  <2>4. Exact(state, none, none, setup)
    BY <1>1, <1>4, <2>1, <2>2, <2>3 DEF Exact
  <2> QED
    BY <2>4 DEF none
<1>9. Controls
  BY <1>1, <1>2 DEF Controls, Idle, RoundFields
<1> QED
  BY <1>1, <1>2, <1>3, <1>8, <1>9 DEF LedgerInv, Settling

-----------------------------------------------------------------------------
(* Theorem *)

\* The invariant holds in every state.
LEMMA LedgerInvHolds == Spec => []LedgerInv
<1>1. Init => LedgerInv
  BY LedgerStarts
<1>2. LedgerInv /\ [Next]_vars => LedgerInv'
  <2> SUFFICES ASSUME LedgerInv, [Next]_vars PROVE LedgerInv'
    OBVIOUS
  <2>1. CASE Freeze
    BY <2>1, FreezeKeeps
  <2>2. CASE Advance
    BY <2>2, AdvanceKeeps
  <2>3. CASE AdvanceFault
    BY <2>3, ContainKeeps DEF AdvanceFault
  <2>4. CASE SemanticSnapshot
    BY <2>4, SnapshotKeeps
  <2>5. CASE SnapshotFault
    BY <2>5, ContainKeeps DEF SnapshotFault
  <2>6. CASE Skip
    BY <2>6, SkipKeeps
  <2>7. CASE LegacyHit
    BY <2>7, LegacyHitKeeps
  <2>8. CASE Refuse
    BY <2>8, RefuseKeeps
  <2>9. CASE Hit
    BY <2>9, HitKeeps
  <2>10. CASE CandidateFault
    BY <2>10, ContainKeeps DEF CandidateFault
  <2>11. CASE Commit
    BY <2>11, CommitKeeps
  <2>12. CASE UnknownEffect
    BY <2>12, ContainKeeps DEF UnknownEffect
  <2>13. CASE ReductionFault
    BY <2>13, BlameKeeps DEF ReductionFault
  <2>14. CASE CommitFault
    BY <2>14, BlameKeeps DEF CommitFault
  <2>15. CASE UNCHANGED vars
    BY <2>15 DEF vars, LedgerInv, Controls, History
  <2> QED
    BY <2>1, <2>2, <2>3, <2>4, <2>5, <2>6, <2>7, <2>8, <2>9, <2>10, <2>11, <2>12, <2>13,
       <2>14, <2>15 DEF Next
<1> QED
  BY <1>1, <1>2, PTL DEF Spec

\* What is shown is what was seen.
LEMMA ShownSeen ==
  ASSUME LedgerInv, NEW i, NEW t \in 0 .. state.tick
  PROVE  Shown(i, t) = Append(shown, state.truth)[t + 1][i]
<1>1. PICK Q : shown \in Seq(Q)
  BY DEF LedgerInv, Exact
<1>2. Len(shown) = state.tick /\ state.tick \in Nat
  BY DEF LedgerInv, Exact
<1>3. /\ \A n \in 1 .. Len(shown) : Append(shown, state.truth)[n] = shown[n]
      /\ Append(shown, state.truth)[Len(shown) + 1] = state.truth
  BY <1>1, Appended
<1> DEFINE seen == Append(shown, state.truth)
<1> HIDE DEF seen
<1>4. /\ \A n \in 1 .. state.tick : seen[n] = shown[n]
      /\ seen[state.tick + 1] = state.truth
  BY <1>2, <1>3 DEF seen
<1>5. CASE t = state.tick
  BY <1>4, <1>5 DEF Shown, seen
<1>6. CASE t # state.tick
  <2>1. t + 1 \in 1 .. state.tick
    BY <1>2, <1>6
  <2> QED
    BY <1>4, <1>6, <2>1 DEF Shown, seen
<1> QED
  BY <1>5, <1>6

\* The window of the property is the window of the invariant.
LEMMA WindowSame ==
  ASSUME LedgerInv, NEW g, NEW h, g.tick \in Nat, h.tick \in 0 .. state.tick
  PROVE  SameWindow(g, h) <=> Same(Append(shown, state.truth), setup, g, h)
<1> DEFINE seen == Append(shown, state.truth)
           i == h.instance
           p == setup.policy.predicate
<1>1. state.tick \in Nat
  BY DEF LedgerInv, Exact
<1>2. \A t \in 0 .. state.tick : Shown(i, t) = seen[t + 1][i]
  BY ShownSeen
<1> HIDE DEF seen
<1>3. ASSUME NEW t \in g.tick + 1 .. h.tick
      PROVE  Rose(seen, i, p, t) <=> p \in Shown(i, t) /\ p \notin Shown(i, t - 1)
  <2>1. t \in 0 .. state.tick /\ t - 1 \in 0 .. state.tick /\ (t - 1) + 1 = t /\ t # 0
    BY <1>1
  <2>2. Shown(i, t) = seen[t + 1][i] /\ Shown(i, t - 1) = seen[t][i]
    BY <1>2, <2>1
  <2> QED
    BY <2>1, <2>2 DEF Rose
<1>4. RoseAfter(i, p, g.tick, h.tick) <=> \E t \in g.tick + 1 .. h.tick : Rose(seen, i, p, t)
  BY <1>3 DEF RoseAfter
<1>5. SameWindow(g, h) <=> Same(seen, setup, g, h)
  BY <1>4 DEF SameWindow, Same
<1> QED
  BY <1>5 DEF seen

\* The ledger is exact.
LEMMA InvIsExact ==
  ASSUME LedgerInv
  PROVE  LedgerExact
<1> DEFINE H == History
           seen == Append(shown, state.truth)
<1>1. PICK R : H \in Seq(R)
  BY DEF LedgerInv, Exact
<1>2. /\ \A n \in DOMAIN H : H[n].tick \in 0 .. state.tick
      /\ Tries(H, seen, setup)
      /\ state.tick \in Nat
  BY DEF LedgerInv, Exact
<1>3. \A n \in DOMAIN H : \A m \in 1 .. n - 1 : m \in DOMAIN H
  <2>1. DOMAIN H = 1 .. Len(H) /\ Len(H) \in Nat
    BY <1>1
  <2> QED
    BY <2>1
<1> HIDE DEF seen, H
<1>4. \A n \in DOMAIN H, m \in DOMAIN H : SameWindow(H[m], H[n]) <=> Same(seen, setup, H[m], H[n])
  BY <1>2, WindowSame DEF seen
<1>5. \A n \in DOMAIN H :
        H[n].tried <=> ~\E m \in 1 .. n - 1 : H[m].receipt /\ SameWindow(H[m], H[n])
  BY <1>2, <1>3, <1>4 DEF Tries
<1> QED
  BY <1>5 DEF LedgerExact, H

\* LedgerExact holds of every setup, timeline, contact and rulebook: a candidate is tried exactly
\* when no receipted one before it stands in its window, however often ticks were undone
\* (ledgers.py, _resolve_interactions).
THEOREM LedgerExactHolds == Spec => []LedgerExact
<1>1. LedgerInv => LedgerExact
  BY InvIsExact
<1> QED
  BY <1>1, LedgerInvHolds, PTL

-----------------------------------------------------------------------------
(* What a step changes *)

\* s and t agree but for the fields in F.
Agree(s, t, F) == DOMAIN s = StateFields /\ \A f \in StateFields \ F : s[f] = t[f]

\* A round that goes on, and what else of it than the fields in F stays.
Goes(F) == DOMAIN round' = RoundFields /\ \A f \in RoundFields \ F : round'[f] = round[f]

\* The shapes of the states do not change.
LEMMA Shapes ==
  ASSUME LedgerInv
  PROVE  /\ DOMAIN state = StateFields /\ DOMAIN start = StateFields /\ DOMAIN round = RoundFields
         /\ setup \in Setups /\ state.tick = start.tick /\ start.tick \in Nat
         /\ start.clock \in [Instances -> Clock] /\ state.clock \in [Instances -> Clock]
BY DEF LedgerInv, Controls, Exact, Clocks

\* A contained fault: the tick-start state but for the tick, the clock and tokens of the action.
LEMMA ContainFields ==
  ASSUME LedgerInv, NEW i, Contain(i)
  PROVE  /\ Agree(state', start, {"tick", "clock", "tokens"})
         /\ state'.tick = start.tick + 1
         /\ state'.clock = [start.clock EXCEPT ![i].life = "FAULTED"]
         /\ state'.tokens = {t \in start.tokens : t.target # i}
         /\ start' = state' /\ round' = Idle /\ UNCHANGED <<setup, granted, hits>>
BY Shapes DEF Contain, Agree, StateFields

\* A contained fault leaves no clock running that did not run before, nor in another place.
LEMMA ContainClocks ==
  ASSUME LedgerInv, NEW i, Contain(i), NEW j \in Instances
  PROVE  state'.clock[j] = start.clock[j] \/ state'.clock[j].life = "FAULTED"
<1>1. start.clock \in [Instances -> Clock]
  BY Shapes
<1>2. state'.clock = [start.clock EXCEPT ![i].life = "FAULTED"]
  BY ContainFields
<1>3. \A a \in Clock : [a EXCEPT !.life = "FAULTED"].life = "FAULTED"
  BY DEF Clock
<1>4. state'.clock[j] = IF j = i THEN [start.clock[j] EXCEPT !.life = "FAULTED"] ELSE start.clock[j]
  BY <1>1, <1>2
<1> QED
  BY <1>1, <1>3, <1>4

\* A freeze of the host touches the tokens only.
LEMMA FreezeFields ==
  ASSUME LedgerInv, Freeze
  PROVE  /\ Agree(state', state, {"tokens"})
         /\ \E kind \in TokenKinds :
              /\ Running(kind.target)
              /\ ~Incompatible(state.tokens, Created(granted, state.tick, kind))
              /\ state'.tokens = AddToken(state.tokens, Created(granted, state.tick, kind))
         /\ round.pc = "idle" /\ granted < setup.tokens /\ granted' = granted + 1
         /\ start' = state' /\ UNCHANGED <<setup, round, hits, shown>>
<1>1. PICK kind \in TokenKinds :
        /\ Running(kind.target)
        /\ ~Incompatible(state.tokens, Created(granted, state.tick, kind))
        /\ state' = [state EXCEPT !.tokens = AddToken(@, Created(granted, state.tick, kind))]
  BY DEF Freeze
<1>2. state'.tokens = AddToken(state.tokens, Created(granted, state.tick, kind))
  BY <1>1, Shapes DEF StateFields
<1>3. Agree(state', state, {"tokens"})
  BY <1>1, Shapes DEF Agree, StateFields
<1> QED
  BY <1>1, <1>2, <1>3 DEF Freeze

\* The progression touches clocks and registers.
LEMMA AdvanceFields ==
  ASSUME LedgerInv, Advance
  PROVE  /\ Agree(state', state, {"clock", "register"})
         /\ round.pc = "idle" /\ state.tick < MaxTick /\ Raising = {}
         /\ state'.clock = [i \in Instances |->
              IF Running(i) THEN Progress(state.clock[i], setup.life[i], Accrual(i))
              ELSE state.clock[i]]
         /\ state'.register =
              [i \in Instances |-> (CHOOSE x \in Transitions(i) : TRUE).register]
         /\ Goes({"pc", "typed"}) /\ round'.pc = "snapshot"
         /\ round'.typed = Joint([i \in Instances |-> CHOOSE x \in Transitions(i) : TRUE])
         /\ UNCHANGED <<setup, start, granted, hits, shown>>
<1> DEFINE done == [i \in Instances |-> CHOOSE x \in Transitions(i) : TRUE]
           clock == [i \in Instances |->
                       IF Running(i) THEN Progress(state.clock[i], setup.life[i], Accrual(i))
                       ELSE state.clock[i]]
           register == [i \in Instances |-> done[i].register]
           typed == Joint(done)
<1>1. /\ state' = [state EXCEPT !.clock = clock, !.register = register]
      /\ round' = [round EXCEPT !.pc = "snapshot", !.typed = typed]
  BY DEF Advance
<1>2. register = [i \in Instances |-> (CHOOSE x \in Transitions(i) : TRUE).register]
  OBVIOUS
<1> HIDE DEF clock, register, typed
<1>3. Agree(state', state, {"clock", "register"}) /\ state'.clock = clock /\ state'.register = register
  BY <1>1, Shapes DEF Agree, StateFields
<1>4. Goes({"pc", "typed"}) /\ round'.pc = "snapshot" /\ round'.typed = typed
  BY <1>1, Shapes DEF Goes, RoundFields
<1> QED
  BY <1>2, <1>3, <1>4 DEF Advance, clock, typed

\* The snapshot touches truths and serials, and queues what was reported.
LEMMA SnapshotFields ==
  ASSUME LedgerInv, SemanticSnapshot
  PROVE  /\ Agree(state', state, {"truth", "serial"})
         /\ state'.truth = [i \in Instances |-> IF Running(i) THEN PredicateValues(i) ELSE state.truth[i]]
         /\ Goes({"pc", "queue", "active"}) /\ round.pc = "snapshot" /\ round'.pc = "resolve"
         /\ \E reported \in SUBSET {c \in Contacts : c.id \in setup.contacts} :
              Cardinality(reported) <= setup.perTick /\ round'.queue = Sorted(reported, Order)
         /\ UNCHANGED <<setup, start, granted, hits, shown>>
<1> DEFINE truth == [i \in Instances |-> IF Running(i) THEN PredicateValues(i) ELSE state.truth[i]]
<1>1. PICK reported \in SUBSET {c \in Contacts : c.id \in setup.contacts} :
        /\ Cardinality(reported) <= setup.perTick
        /\ \E active : round' = [round EXCEPT !.pc = "resolve", !.queue = Sorted(reported, Order),
                                              !.active = active]
  BY DEF SemanticSnapshot
<1>2. \E serial : state' = [state EXCEPT !.truth = truth, !.serial = serial]
  BY DEF SemanticSnapshot
<1> HIDE DEF truth
<1>3. Agree(state', state, {"truth", "serial"}) /\ state'.truth = truth
  BY <1>2, Shapes DEF Agree, StateFields
<1> DEFINE queue == Sorted(reported, Order)
<1>4. \E active : round' = [round EXCEPT !.pc = "resolve", !.queue = queue, !.active = active]
  BY <1>1
<1> HIDE DEF queue
<1>5. Goes({"pc", "queue", "active"}) /\ round'.pc = "resolve" /\ round'.queue = queue
  BY <1>4, Shapes DEF Goes, RoundFields
<1> QED
  BY <1>1, <1>3, <1>5 DEF SemanticSnapshot, truth, queue

\* A candidate that is skipped touches nothing.
LEMMA SkipFields ==
  ASSUME LedgerInv, Skip
  PROVE  /\ Goes({"queue"}) /\ round.pc = "resolve" /\ round.queue # << >>
         /\ round'.queue = Tail(round.queue)
         /\ UNCHANGED <<setup, state, start, granted, hits, shown>>
BY Shapes DEF Skip, Candidate, Resolved, Goes, RoundFields

\* A candidate that is refused touches nothing that the commit reads.
LEMMA RefuseFields ==
  ASSUME LedgerInv, Refuse
  PROVE  /\ Goes({"queue", "fresh"}) /\ round.pc = "resolve" /\ round.queue # << >>
         /\ round'.queue = Tail(round.queue)
         /\ UNCHANGED <<setup, state, start, granted, hits, shown>>
<1>1. \E r : round' = [[round EXCEPT !.fresh = Append(@, r)] EXCEPT !.queue = Tail(@)]
  BY DEF Refuse, Resolved
<1>2. Goes({"queue", "fresh"}) /\ round'.queue = Tail(round.queue)
  BY <1>1, Shapes DEF Goes, RoundFields
<1> QED
  BY <1>2 DEF Refuse, Candidate

\* A legacy hit touches its ledger and the contacts to be settled.
LEMMA LegacyHitFields ==
  ASSUME LedgerInv, LegacyHit
  PROVE  /\ Agree(state', state, {"legacyLedger"})
         /\ Goes({"queue", "legacy"}) /\ round.pc = "resolve" /\ round.queue # << >>
         /\ round'.queue = Tail(round.queue)
         /\ round'.legacy = round.legacy \/ round'.legacy = round.legacy \union {Head(round.queue)}
         /\ UNCHANGED <<setup, start, granted, hits, shown>>
<1>1. /\ \/ round' = [round EXCEPT !.queue = Tail(@)]
         \/ round' = [[round EXCEPT !.legacy = @ \union {Head(round.queue)}] EXCEPT !.queue = Tail(@)]
      /\ \E key : state' = [state EXCEPT !.legacyLedger = @ \union {key}]
  BY DEF LegacyHit, Resolved
<1>2. Agree(state', state, {"legacyLedger"})
  BY <1>1, Shapes DEF Agree, StateFields
<1>3. /\ Goes({"queue", "legacy"}) /\ round'.queue = Tail(round.queue)
      /\ round'.legacy = round.legacy \/ round'.legacy = round.legacy \union {Head(round.queue)}
  BY <1>1, Shapes DEF Goes, RoundFields
<1> QED
  BY <1>2, <1>3 DEF LegacyHit, Candidate

\* A hit touches the ledger and adds the effects of its decision.
LEMMA HitFields ==
  ASSUME LedgerInv, Hit
  PROVE  \E d :
         /\ d = Decision(Head(round.queue)) /\ ~Raises(Head(round.queue))
         /\ HasBinding(Head(round.queue)) /\ Eligible(Head(round.queue))
         /\ Agree(state', state, {"ledger"})
         /\ state'.ledger = state.ledger
              \/ state'.ledger = WriteReceipt(state.ledger, setup.policy,
                                              LedgerContext(Head(round.queue)))
         /\ Goes({"queue", "typed", "decision", "fresh"})
         /\ round.pc = "resolve" /\ round.queue # << >>
         /\ round'.queue = Tail(round.queue)
         /\ round'.typed = round.typed \o d.generated /\ round'.decision = d
         /\ UNCHANGED <<setup, start, granted, hits, shown>>
<1> DEFINE c == Head(round.queue)
<1>1. /\ round.pc = "resolve" /\ round.queue # << >> /\ ~Raises(c) /\ HasBinding(c) /\ Eligible(c)
      /\ UNCHANGED <<setup, start, granted, hits, shown>>
  BY DEF Hit, Candidate
<1>2. PICK d \in {Decision(c)} :
        /\ \E fresh : Resolved([round EXCEPT !.typed = @ \o d.generated, !.decision = d, !.fresh = fresh])
        /\ state' = [state EXCEPT !.ledger = WriteReceipt(@, setup.policy, LedgerContext(c))]
             \/ state' = state
  BY DEF Hit
<1> DEFINE typed == round.typed \o d.generated
           ledger == WriteReceipt(state.ledger, setup.policy, LedgerContext(c))
<1>3. /\ \E fresh : round' = [[round EXCEPT !.typed = typed, !.decision = d, !.fresh = fresh]
                                EXCEPT !.queue = Tail(@)]
      /\ state' = [state EXCEPT !.ledger = ledger] \/ state' = state
  BY <1>2 DEF Resolved
<1> HIDE DEF typed, ledger, c
<1>4. /\ Goes({"queue", "typed", "decision", "fresh"}) /\ round'.queue = Tail(round.queue)
      /\ round'.typed = typed /\ round'.decision = d
  BY <1>3, Shapes DEF Goes, RoundFields
<1>5. Agree(state', state, {"ledger"}) /\ (state'.ledger = state.ledger \/ state'.ledger = ledger)
  BY <1>3, Shapes DEF Agree, StateFields
<1> QED
  BY <1>1, <1>2, <1>4, <1>5 DEF c, typed, ledger

\* A commit touches the tick, the banks, the draws and the tokens.
LEMMA CommitFields ==
  ASSUME LedgerInv, Commit
  PROVE  /\ Agree(state', state, {"tick", "bank", "draws", "tokens"})
         /\ state'.tick = state.tick + 1 /\ state'.bank = Settled.bank /\ Settled.failed = {}
         /\ state'.draws = state.draws + Draws
         /\ state'.tokens = ExpireTokens(state.tokens, state.tick)
         /\ Committing /\ Unknown = {} /\ ~ReductionRaises
         /\ start' = state' /\ round' = Idle /\ UNCHANGED <<setup, granted>>
         /\ shown' = Append(shown, state.truth)
<1> DEFINE bank == Settled.bank
           draws == state.draws + Draws
           tokens == ExpireTokens(state.tokens, state.tick)
           tick == state.tick + 1
<1>1. state' = [state EXCEPT !.tick = tick, !.bank = bank, !.draws = draws, !.tokens = tokens]
  BY DEF Commit
<1> HIDE DEF bank, draws, tokens, tick
<1>2. /\ Agree(state', state, {"tick", "bank", "draws", "tokens"})
      /\ state'.tick = tick /\ state'.bank = bank /\ state'.draws = draws /\ state'.tokens = tokens
  BY <1>1, Shapes DEF Agree, StateFields
<1> QED
  BY <1>2 DEF Commit, bank, draws, tokens, tick

-----------------------------------------------------------------------------
(* Registers *)

\* The running registers of s hold what the cycles of their clocks make of them.
RegistersFollow(s) ==
  \A i \in Instances :
    s.clock[i].life = "RUNNING" => RegisterFollows(s.register[i], i, s.clock[i], setup)

\* The inductive invariant of RegisterExact: a fault returns to the registers of the start.
RegisterInv == RegistersFollow(start) /\ RegistersFollow(state)

\* Registers start at their initial values.
LEMMA RegisterStarts ==
  ASSUME Init
  PROVE  RegisterInv
<1>1. /\ setup \in Setups /\ start = state
      /\ state.clock = [i \in Instances |-> Started(setup.rate[i])]
      /\ state.register = [i \in Instances |-> Register[i].initial]
  BY DEF Init
<1>2. ASSUME NEW i \in Instances
      PROVE  RegisterFollows(state.register[i], i, state.clock[i], setup)
  <2> DEFINE r == Register[i].initial
             d == [minimum |-> Register[i].minimum, maximum |-> Register[i].maximum,
                   overflow |-> setup.overflow]
  <2>1. Fired(state.clock[i], setup.life[i]) = 0
    <3>1. state.clock[i].cycle = 0 /\ state.clock[i].local = 0 /\ 0 < Steps
      BY <1>1, TimelineAssumption DEF Started
    <3>2. setup.life[i] \in Lifecycles
      BY <1>1, EncounterAssumption
    <3> QED
      BY <3>1, <3>2 DEF Fired, Lifecycles
  <2>2. 0 * Gain(i) = 0
    BY GainType
  <2>3. /\ r \in Int /\ d.minimum \in Int /\ d.maximum \in Int
        /\ d.minimum <= r /\ r <= d.maximum /\ r + 0 = r
    BY RegisterAssumption
  <2>4. \E q \in Int : r = r + q * (d.maximum - d.minimum + 1)
    <3>1. 0 * (d.maximum - d.minimum + 1) = 0
      BY <2>3
    <3> QED
      BY <2>3, <3>1
  <2> HIDE DEF d
  <2>5. Follows(r, r, d, Rising(i), Falling(i))
    BY <2>3, <2>4 DEF Follows
  <2>6. state.register[i] = r
    BY <1>1
  <2> QED
    BY <2>1, <2>2, <2>3, <2>5, <2>6 DEF RegisterFollows, d
<1> QED
  BY <1>1, <1>2 DEF RegisterInv, RegistersFollow

\* Most steps touch neither the registers nor the clocks.
LEMMA RegistersAlone ==
  ASSUME RegisterInv, NEW F, Agree(state', state, F), "clock" \notin F, "register" \notin F,
         setup' = setup, start' = start \/ start' = state'
  PROVE  RegisterInv'
BY DEF RegisterInv, RegistersFollow, RegisterFollows, Agree, StateFields

\* A contained fault returns to the registers of the start, without one that ran.
LEMMA ContainRegisters ==
  ASSUME LedgerInv, RegisterInv, NEW i, Contain(i)
  PROVE  RegisterInv'
<1>1. /\ start' = state' /\ setup' = setup /\ state'.register = start.register
  BY ContainFields DEF Agree, StateFields
<1>2. \A j \in Instances : state'.clock[j] = start.clock[j] \/ state'.clock[j].life = "FAULTED"
  BY ContainClocks
<1>3. RegistersFollow(start)
  BY DEF RegisterInv
<1> QED
  BY <1>1, <1>2, <1>3 DEF RegisterInv, RegistersFollow, RegisterFollows

\* The progression adds to every register what its transitions add.
LEMMA AdvanceRegisters ==
  ASSUME LedgerInv, RegisterInv, Advance
  PROVE  RegisterInv'
<1>1. /\ start' = start /\ setup' = setup /\ setup \in Setups /\ Raising = {}
      /\ state.clock \in [Instances -> Clock]
      /\ \A i \in Instances : Running(i) => InPlace(state.clock[i], setup.life[i])
  BY AdvanceFields, Shapes DEF LedgerInv, Exact, Clocks, Running
<1>2. ASSUME NEW i \in Instances, state'.clock[i].life = "RUNNING"
      PROVE  RegisterFollows(state'.register[i], i, state'.clock[i], setup)
  <2> DEFINE b == state'.clock[i]
             x == CHOOSE x \in Transitions(i) : TRUE
  <2>1. /\ b = IF Running(i) THEN Progress(state.clock[i], setup.life[i], Accrual(i))
               ELSE state.clock[i]
        /\ state'.register[i] = x.register
    BY AdvanceFields
  <2>2. Running(i)
    BY <1>2, <2>1 DEF Running
  <2>3. Transitions(i) # {}
    BY <1>1, <2>2 DEF Raising
  <2>4. x \in Transitions(i)
    BY <2>3
  <2>5. RegisterFollows(state.register[i], i, state.clock[i], setup)
    BY <2>2 DEF RegisterInv, RegistersFollow, Running
  <2> HIDE DEF b, x
  <2>6. b.life = "RUNNING" /\ state.clock[i] \in Clock
    BY <1>1, <1>2 DEF b
  <2>7. RegisterFollows(x.register, i, b, setup)
    BY <1>1, <2>1, <2>4, <2>5, <2>6, TransitionsFollow
  <2> QED
    BY <2>1, <2>7 DEF b
<1> QED
  BY <1>1, <1>2 DEF RegisterInv, RegistersFollow, RegisterFollows

\* The invariant holds in every state.
LEMMA RegisterInvHolds == Spec => []RegisterInv
<1>1. Init => RegisterInv
  BY RegisterStarts
<1>2. LedgerInv /\ RegisterInv /\ [Next]_vars => RegisterInv'
  <2> SUFFICES ASSUME LedgerInv, RegisterInv, [Next]_vars PROVE RegisterInv'
    OBVIOUS
  <2>1. ASSUME NEW i, Contain(i) PROVE RegisterInv'
    BY <2>1, ContainRegisters
  <2>2. CASE Abort \/ Skip \/ Refuse \/ UNCHANGED vars
    BY <2>2, SkipFields, RefuseFields
       DEF Abort, vars, RegisterInv, RegistersFollow, RegisterFollows
  <2>3. ASSUME NEW instances, Blame(instances) PROVE RegisterInv'
    BY <2>1, <2>2, <2>3 DEF Blame
  <2>4. CASE Freeze
    BY <2>4, FreezeFields, RegistersAlone
  <2>5. CASE Advance
    BY <2>5, AdvanceRegisters
  <2>6. CASE SemanticSnapshot
    BY <2>6, SnapshotFields, RegistersAlone
  <2>7. CASE LegacyHit
    BY <2>7, LegacyHitFields, RegistersAlone
  <2>8. CASE Hit
    BY <2>8, HitFields, RegistersAlone
  <2>9. CASE Commit
    BY <2>9, CommitFields, RegistersAlone
  <2>10. CASE AdvanceFault \/ SnapshotFault \/ CandidateFault \/ UnknownEffect
    BY <2>1, <2>10 DEF AdvanceFault, SnapshotFault, CandidateFault, UnknownEffect
  <2>11. CASE ReductionFault \/ CommitFault
    BY <2>3, <2>11 DEF ReductionFault, CommitFault
  <2> QED
    BY <2>2, <2>4, <2>5, <2>6, <2>7, <2>8, <2>9, <2>10, <2>11 DEF Next
<1> QED
  BY <1>1, <1>2, LedgerInvHolds, PTL DEF Spec

\* One sign is no fall or no rise.
LEMMA SignTells ==
  ASSUME NEW i \in Instances, OneSign(i)
  PROVE  Rising(i) \/ Falling(i)
BY DEF OneSign, Rising, Falling

\* RegisterExact holds of every timeline, rate and freeze, of any assignments and of limits however
\* close: WRAP, SATURATE and FAULT keep what the transitions have added in all
\* (_apply_assignments, _normalize_register_value).
THEOREM RegisterExactHolds == Spec => []RegisterExact
<1>1. LedgerInv /\ RegisterInv => RegisterExact
  <2> SUFFICES ASSUME LedgerInv, RegisterInv, NEW i \in Instances, Running(i)
               PROVE  RegisterExact!(i)
    BY DEF RegisterExact
  <2> DEFINE sum == Register[i].initial + Fired(state.clock[i], setup.life[i]) * Gain(i)
             n == state.register[i]
             d == DeclarationOf(i)
  <2>1. Follows(n, sum, d, Rising(i), Falling(i))
    BY DEF RegisterInv, RegistersFollow, RegisterFollows, Running, DeclarationOf
  <2>2. d \in Declaration
    BY RegisterAssumption, Shapes DEF DeclarationOf, Declaration
  <2> HIDE DEF sum, n, d
  <2>3. n \in Int /\ sum \in Int /\ d.minimum \in Int /\ d.maximum \in Int
        /\ d.minimum <= n /\ n <= d.maximum
    BY <2>1, <2>2 DEF Follows, Declaration
  <2>4. d.overflow = "WRAP" => (n - sum) % (d.maximum - d.minimum + 1) = 0
    <3> SUFFICES ASSUME d.overflow = "WRAP"
                 PROVE  (n - sum) % (d.maximum - d.minimum + 1) = 0
      OBVIOUS
    <3> DEFINE span == d.maximum - d.minimum + 1
    <3>1. span \in Nat /\ span > 0
      BY <2>3
    <3>2. PICK q \in Int : n = sum + q * span
      BY <2>1 DEF Follows
    <3> HIDE DEF span
    <3> DEFINE x == q * span
    <3>3. x \in Int /\ x % span = 0
      BY <3>1, Multiple
    <3>4. n = sum + x
      BY <3>2
    <3> HIDE DEF x
    <3>5. n - sum = x
      BY <2>3, <3>3, <3>4
    <3> QED
      BY <3>3, <3>5 DEF span
  <2>5. d.overflow = "SATURATE" /\ OneSign(i) =>
          n = IF sum < d.minimum THEN d.minimum ELSE IF sum > d.maximum THEN d.maximum ELSE sum
    BY <2>1, <2>3, SignTells DEF Follows
  <2>6. d.overflow = "FAULT" => n = sum
    BY <2>1 DEF Follows
  <2>7. n \in d.minimum .. d.maximum
    BY <2>3
  <2> QED
    BY <2>4, <2>5, <2>6, <2>7 DEF sum, n, d, Gain
<1> QED
  BY <1>1, LedgerInvHolds, RegisterInvHolds, PTL

-----------------------------------------------------------------------------
(* Decisions *)

\* What a step leaves of a decision does not depend on the step.
DecisionInv ==
  /\ \A b \in round.active : \E f \in Facts[b[1]] : f.id = b[2]
  /\ round.decision # NoDecision =>
       /\ \E r \in Nat : Whole(round.decision, r)
       /\ round.decision.halt \in {"NONE", "PIPELINE"}

\* A decision is as whole after a step as before: only the rules of the setup matter to it.
LEMMA WholeLater ==
  ASSUME setup' = setup, NEW d, NEW r \in Nat, Whole(d, r), round'.decision = d
  PROVE  Whole(round.decision, r)'
<1>1. \A k : Rejects(k)' <=> Rejects(k)
  BY DEF Rejects
<1>2. EffectsInOrder(round.decision)'
  BY <1>1 DEF EffectsInOrder, Whole, Decided
<1>3. Barred(round.decision, Len(round.decision.trace))'
  BY <1>1 DEF Barred, Whole
<1>4. TargetsMet(round.decision)'
  BY DEF TargetsMet, Whole, Decided
<1> QED
  BY <1>2, <1>3, <1>4 DEF Whole, Decided

\* A step that decides nothing.
LEMMA DecisionStays ==
  ASSUME DecisionInv, setup' = setup, round'.decision = round.decision,
         \A b \in round'.active : \E f \in Facts[b[1]] : f.id = b[2]
  PROVE  DecisionInv'
<1>1. CASE round.decision = NoDecision
  BY <1>1 DEF DecisionInv, NoDecision
<1>2. CASE round.decision # NoDecision
  <2>1. PICK d : d = round.decision
    OBVIOUS
  <2>2. PICK r \in Nat : Whole(d, r)
    BY <1>2, <2>1 DEF DecisionInv
  <2>3. Whole(round.decision, r)'
    BY <2>1, <2>2, WholeLater
  <2> QED
    BY <1>2, <2>3 DEF DecisionInv
<1> QED
  BY <1>1, <1>2

\* The bindings of a snapshot are to facts.
LEMMA SnapshotDecides ==
  ASSUME LedgerInv, DecisionInv, SemanticSnapshot
  PROVE  DecisionInv'
<1> DEFINE truth == [i \in Instances |-> IF Running(i) THEN PredicateValues(i) ELSE state.truth[i]]
           active == UNION {{<<i, f.id>> : f \in {g \in Facts[i] : g.when \in truth[i]}} :
                              i \in {j \in Instances : Running(j)}}
<1>1. \E queue : round' = [round EXCEPT !.pc = "resolve", !.queue = queue, !.active = active]
  BY DEF SemanticSnapshot
<1>2. \A b \in active : \E f \in Facts[b[1]] : f.id = b[2]
  OBVIOUS
<1> HIDE DEF active
<1>3. round'.active = active /\ round'.decision = round.decision
  BY <1>1, Shapes DEF RoundFields
<1>4. setup' = setup
  BY DEF SemanticSnapshot
<1> QED
  BY <1>2, <1>3, <1>4, DecisionStays

\* A hit decides by the rules.
LEMMA HitDecides ==
  ASSUME LedgerInv, DecisionInv, Hit
  PROVE  DecisionInv'
<1> DEFINE c == Head(round.queue)
           templates == FactOf(c.instance, c.fact).templates
           q == [candidate |-> [id |-> c.id, source |-> Owner[c.instance], instance |-> c.instance,
                                target |-> c.target,
                                templates |-> [j \in DOMAIN templates |->
                                                 Resolve(templates[j], state.clock[c.instance],
                                                         state.register[c.instance])]],
                 rules |-> Rulebook[setup.rules],
                 defenses |-> DefenseMap(c)]
<1>1. /\ round'.decision = Decision(c) /\ ~Raises(c) /\ HasBinding(c) /\ Eligible(c)
      /\ Goes({"queue", "typed", "decision", "fresh"}) /\ setup' = setup /\ setup \in Setups
  BY HitFields, Shapes
<1>2. Decision(c) = ResolveCandidate(q)
  BY DEF Decision
<1>3. c.instance \in Instances /\ \E f \in Facts[c.instance] : f.id = c.fact
  <2>1. <<c.instance, c.fact>> \in round.active
    BY <1>1 DEF HasBinding
  <2>2. \A b \in round.active : b[1] \in Instances
    BY DEF LedgerInv, Controls
  <2> QED
    BY <2>1, <2>2 DEF DecisionInv
<1>4. IsList(templates)
  <2>1. FactOf(c.instance, c.fact) \in Facts[c.instance]
    BY <1>3 DEF FactOf
  <2> QED
    BY <1>3, <2>1, RulebookAssumption
<1> HIDE DEF c, templates
<1>5. Listed(q.candidate.templates)
  <2> DEFINE s == [j \in 1 .. Len(templates) |->
                     Resolve(templates[j], state.clock[c.instance], state.register[c.instance])]
  <2>1. q.candidate.templates = s
    BY <1>4 DEF IsList
  <2>2. s = [j \in 1 .. Len(templates) |-> s[j]]
    OBVIOUS
  <2> HIDE DEF s
  <2>3. Listed(s)
    BY <1>4, <2>2, Indexed DEF IsList
  <2> QED
    BY <2>1, <2>3
<1>6. q.rules = Rulebook[setup.rules]
  OBVIOUS
<1> HIDE DEF q
<1>0. PICK d : d = ResolveCandidate(q)
  OBVIOUS
<1>7. (\E r \in Nat : Whole(d, r)) /\ d.halt \in {"NONE", "PIPELINE", "FAULT"}
  BY <1>0, <1>1, <1>5, <1>6, ResolveKeeps
<1>8. d.halt # "FAULT"
  BY <1>0, <1>1, <1>2 DEF Raises
<1>9. round'.decision = d /\ round'.active = round.active
  BY <1>0, <1>1, <1>2 DEF Goes, RoundFields
<1>10. (\E r \in Nat : Whole(round.decision, r))'
  BY <1>1, <1>7, <1>9, WholeLater
<1>11. (\A b \in round.active : \E f \in Facts[b[1]] : f.id = b[2])'
  BY <1>9 DEF DecisionInv
<1> QED
  BY <1>7, <1>8, <1>9, <1>10, <1>11 DEF DecisionInv

\* Every step keeps it.
LEMMA DecisionInvHolds == Spec => []DecisionInv
<1>1. Init => DecisionInv
  BY DEF Init, DecisionInv, Idle
<1>2. LedgerInv /\ DecisionInv /\ [Next]_vars => DecisionInv'
  <2> SUFFICES ASSUME LedgerInv, DecisionInv, [Next]_vars PROVE DecisionInv'
    OBVIOUS
  <2>1. CASE round' = Idle
    BY <2>1 DEF DecisionInv, Idle
  <2>2. CASE Freeze \/ UNCHANGED vars
    BY <2>2, DecisionStays DEF Freeze, vars, DecisionInv
  <2>3. CASE Advance
    BY <2>3, AdvanceFields, DecisionStays DEF Goes, RoundFields, DecisionInv
  <2>4. CASE SemanticSnapshot
    BY <2>4, SnapshotDecides
  <2>5. CASE Skip \/ Refuse \/ LegacyHit
    BY <2>5, SkipFields, RefuseFields, LegacyHitFields, DecisionStays
       DEF Goes, RoundFields, DecisionInv
  <2>6. CASE Hit
    BY <2>6, HitDecides
  <2>7. CASE Commit
    BY <2>1, <2>7, CommitFields
  <2>8. CASE AdvanceFault \/ SnapshotFault \/ CandidateFault \/ UnknownEffect
    BY <2>1, <2>8 DEF AdvanceFault, SnapshotFault, CandidateFault, UnknownEffect, Contain
  <2>9. CASE ReductionFault \/ CommitFault
    BY <2>1, <2>9 DEF ReductionFault, CommitFault, Blame, Contain, Abort
  <2> QED
    BY <2>2, <2>3, <2>4, <2>5, <2>6, <2>7, <2>8, <2>9 DEF Next
<1> QED
  BY <1>1, <1>2, LedgerInvHolds, PTL DEF Spec

\* DecisionSound holds of every rulebook, limit of redirects and candidate: targets are met once
\* and in order, redirects are bounded, and what a rejected candidate lets out is REACTION
\* (resolve_candidate).
THEOREM DecisionSoundHolds == Spec => []DecisionSound
<1>1. DecisionInv => DecisionSound
  <2> SUFFICES ASSUME DecisionInv, round.decision # NoDecision PROVE DecisionSound
    BY DEF DecisionSound
  <2> DEFINE d == round.decision
  <2>1. PICK r \in Nat : Whole(d, r)
    BY DEF DecisionInv
  <2>2. d.halt \in {"NONE", "PIPELINE"}
    BY DEF DecisionInv
  <2>3. TargetsMet(d) /\ EffectsInOrder(d) /\ d.redirects <= MaxRedirects
    BY <2>1, RulesAssumption DEF Whole, Decided
  <2> HIDE DEF d
  <2>4. ASSUME NEW n \in DOMAIN d.generated
        PROVE  /\ \E v \in DOMAIN d.visited : d.visited[v] = d.generated[n].target
               /\ \A m \in 1 .. n, v, w \in DOMAIN d.visited :
                    d.visited[v] = d.generated[m].target /\ d.visited[w] = d.generated[n].target => v <= w
    BY <2>3 DEF EffectsInOrder
  <2>5. ASSUME NEW n \in DOMAIN d.generated, NEW k \in DOMAIN d.trace,
               Rejects(d.trace[k]), d.generated[n].class # "REACTION"
        PROVE  \E j \in 1 .. k : d.generated[n].id[2] = d.trace[j]
    BY <2>3, <2>5 DEF EffectsInOrder
  <2> QED
    BY <2>2, <2>3, <2>4, <2>5 DEF DecisionSound, TargetsMet, d
<1> QED
  BY <1>1, DecisionInvHolds, PTL

-----------------------------------------------------------------------------
(* The tally of a tick *)

\* The contacts that are left are told apart, and none has had its effects yet.
Waiting(queue, typed) ==
  /\ \A k \in DOMAIN queue : queue[k] \in Contacts
  /\ \A j, k \in DOMAIN queue : queue[j].id = queue[k].id => j = k
  /\ \A k \in DOMAIN queue, n \in DOMAIN typed : typed[n].id[1] # queue[k].id

\* i may still be blamed for a fault.
Blamable(i) == i \in Instances /\ state.clock[i].life # "FAULTED"

\* The tick has touched no bank yet; what is to be settled at its end is told apart, and from
\* actions that a fault may still be blamed on.
TallyInv ==
  /\ state.bank = start.bank /\ \A e \in DOMAIN state.bank : state.bank[e] \in Int
  /\ IsEffects(round.typed) /\ Listed(round.queue) /\ Waiting(round.queue, round.typed)
  /\ \A n \in DOMAIN round.typed : Blamable(round.typed[n].instance)
  /\ round.legacy \subseteq Contacts /\ \A c \in round.legacy : Blamable(c.instance)
  /\ round.pc = "idle" => round = Idle
  /\ round.pc = "snapshot" =>
       /\ round.legacy = {} /\ round.queue = << >>
       /\ \A n \in DOMAIN round.typed : round.typed[n].id[1] = 0

\* Nothing is to be settled between two ticks.
LEMMA TallyEmpty ==
  ASSUME round' = Idle, state'.bank = start'.bank,
         \A e \in DOMAIN state'.bank : state'.bank[e] \in Int
  PROVE  TallyInv'
<1>1. IsEffects(<< >>) /\ DOMAIN << >> = {} /\ Listed(<< >>)
  <2>1. << >> \in Seq(Int)
    OBVIOUS
  <2> QED
    BY <2>1 DEF IsEffects, Unlike, Listed
<1>2. /\ round'.typed = << >> /\ round'.queue = << >> /\ round'.legacy = {} /\ round'.pc = "idle"
  BY DEF Idle
<1> QED
  BY <1>1, <1>2 DEF TallyInv, Waiting, Idle

\* The first of a queue, and the others.
LEMMA QueueGoesOn ==
  ASSUME NEW queue, Listed(queue), queue # << >>, NEW typed, Waiting(queue, typed)
  PROVE  /\ Head(queue) \in Contacts /\ Listed(Tail(queue)) /\ Waiting(Tail(queue), typed)
         /\ \A n \in DOMAIN typed : typed[n].id[1] # Head(queue).id
         /\ \A k \in DOMAIN Tail(queue) : Tail(queue)[k].id # Head(queue).id
<1>1. PICK S : queue \in Seq(S)
  BY DEF Listed
<1>2. /\ Head(queue) = queue[1] /\ 1 \in DOMAIN queue
      /\ Tail(queue) \in Seq(S) /\ Len(Tail(queue)) = Len(queue) - 1
      /\ \A k \in DOMAIN Tail(queue) : k + 1 \in DOMAIN queue /\ Tail(queue)[k] = queue[k + 1] /\ k \in Nat /\ k > 0
  BY <1>1, HeadTailProperties
<1> DEFINE rest == Tail(queue)
           c == Head(queue)
<1> HIDE DEF rest, c
<1>3. /\ c = queue[1] /\ 1 \in DOMAIN queue /\ rest \in Seq(S)
      /\ \A k \in DOMAIN rest : k + 1 \in DOMAIN queue /\ rest[k] = queue[k + 1] /\ k \in Nat /\ k > 0
  BY <1>2 DEF rest, c
<1>4. Waiting(rest, typed)
  <2>1. \A j, k \in DOMAIN rest : rest[j].id = rest[k].id => j + 1 = k + 1
    BY <1>3 DEF Waiting
  <2>2. \A j, k \in DOMAIN rest : j + 1 = k + 1 => j = k
    BY <1>3
  <2>3. \A j, k \in DOMAIN rest : rest[j].id = rest[k].id => j = k
    BY <2>1, <2>2
  <2> QED
    BY <1>3, <2>3 DEF Waiting
<1>5. ASSUME NEW k \in DOMAIN rest PROVE rest[k].id # c.id
  <2>1. k + 1 # 1
    BY <1>3
  <2> QED
    BY <1>3, <2>1 DEF Waiting
<1>6. c \in Contacts /\ Listed(rest) /\ \A n \in DOMAIN typed : typed[n].id[1] # c.id
  BY <1>3 DEF Waiting, Listed
<1> QED
  BY <1>4, <1>5, <1>6 DEF rest, c

\* A candidate that adds no effects.
LEMMA TallyGoesOn ==
  ASSUME LedgerInv, TallyInv, round.pc = "resolve", round.queue # << >>,
         NEW F, Agree(state', state, F), "bank" \notin F, "clock" \notin F,
         start' = start, setup' = setup,
         round'.queue = Tail(round.queue), round'.typed = round.typed, round'.pc = "resolve",
         \/ round'.legacy = round.legacy
         \/ /\ round'.legacy = round.legacy \union {Head(round.queue)}
            /\ Running(Head(round.queue).instance)
  PROVE  TallyInv'
<1>1. state'.bank = state.bank /\ state'.clock = state.clock
  BY DEF Agree, StateFields
<1>2. /\ Head(round.queue) \in Contacts /\ Listed(Tail(round.queue))
      /\ Waiting(Tail(round.queue), round.typed)
  BY QueueGoesOn DEF TallyInv
<1>3. \A i : Blamable(i)' <=> Blamable(i)
  BY <1>1 DEF Blamable
<1>4. Running(Head(round.queue).instance) => Blamable(Head(round.queue).instance)
  BY <1>2, ContactTyped DEF Running, Blamable
<1>5. Listed(round'.queue) /\ Waiting(round'.queue, round'.typed)
  BY <1>2
<1>6. round'.legacy \subseteq Contacts /\ \A c \in round'.legacy : Blamable(c.instance)
  BY <1>2, <1>4 DEF TallyInv
<1>7. IsEffects(round.typed) /\ \A n \in DOMAIN round.typed : Blamable(round.typed[n].instance)
  BY DEF TallyInv
<1>8. state.bank = start.bank /\ \A e \in DOMAIN state.bank : state.bank[e] \in Int
  BY DEF TallyInv
<1> QED
  BY <1>1, <1>3, <1>5, <1>6, <1>7, <1>8 DEF TallyInv

\* The progression adds the effects of the transitions.
LEMMA AdvanceTallies ==
  ASSUME LedgerInv, RegisterInv, TallyInv, Advance
  PROVE  TallyInv'
<1> DEFINE done == [i \in Instances |-> CHOOSE x \in Transitions(i) : TRUE]
           all == Joint(done)
<1>1. /\ start' = start /\ setup' = setup /\ setup \in Setups /\ Raising = {}
      /\ state.clock \in [Instances -> Clock] /\ round.pc = "idle"
      /\ \A i \in Instances : Running(i) => InPlace(state.clock[i], setup.life[i])
      /\ \A i \in Instances :
           Running(i) => RegisterFollows(state.register[i], i, state.clock[i], setup)
  BY AdvanceFields, Shapes
     DEF LedgerInv, Exact, Clocks, Running, RegisterInv, RegistersFollow
<1>2. /\ state'.bank = state.bank /\ round'.typed = all /\ round'.pc = "snapshot"
      /\ round'.queue = round.queue /\ round'.legacy = round.legacy
      /\ state'.clock = [i \in Instances |->
              IF Running(i) THEN Progress(state.clock[i], setup.life[i], Accrual(i))
              ELSE state.clock[i]]
  BY AdvanceFields DEF Agree, StateFields, Goes, RoundFields
<1>3. round.queue = << >> /\ round.legacy = {}
  BY <1>1 DEF TallyInv, Idle
<1>4. ASSUME NEW i \in Instances
      PROVE  /\ IsEffects(done[i].effects)
             /\ \A m \in DOMAIN done[i].effects :
                  done[i].effects[m].instance = i /\ done[i].effects[m].id[1] = 0
             /\ ~Running(i) => done[i].effects = << >>
  <2> DEFINE x == CHOOSE x \in Transitions(i) : TRUE
  <2>1. done[i] = x
    OBVIOUS
  <2>2. state.clock[i] \in Clock
    BY <1>1
  <2>3. Transitions(i) # {}
    BY <1>1, <2>2, TransitionsThere DEF Raising
  <2>4. x \in Transitions(i)
    BY <2>3
  <2> HIDE DEF x, done
  <2> QED
    BY <1>1, <2>1, <2>2, <2>4, TransitionsOwned
<1> HIDE DEF done
<1>5. /\ IsEffects(all)
      /\ \A n \in DOMAIN all :
           all[n].id[1] = 0 /\ all[n].instance \in Instances /\ done[all[n].instance].effects # << >>
  BY <1>4, JointOwned
<1> HIDE DEF all
<1>6. ASSUME NEW i \in Instances, Running(i)
      PROVE  state'.clock[i].life # "FAULTED"
  <2>1. state'.clock[i] = Progress(state.clock[i], setup.life[i], Accrual(i))
    BY <1>2, <1>6
  <2>2. state.clock[i] \in Clock
    BY <1>1
  <2> QED
    BY <1>1, <1>6, <2>1, <2>2, ProgressLives
<1>7. \A n \in DOMAIN all : all[n].instance \in Instances /\ state'.clock[all[n].instance].life # "FAULTED"
  BY <1>4, <1>5, <1>6
<1>8. Listed(<< >>) /\ DOMAIN << >> = {}
  BY <1>3 DEF TallyInv
<1> QED
  BY <1>1, <1>2, <1>3, <1>5, <1>7, <1>8 DEF TallyInv, Waiting, Blamable

\* The snapshot queues contacts, which have had no effects yet.
LEMMA SnapshotTallies ==
  ASSUME LedgerInv, TallyInv, SemanticSnapshot
  PROVE  TallyInv'
<1>1. /\ start' = start /\ setup' = setup /\ round.pc = "snapshot" /\ round'.pc = "resolve"
      /\ state'.bank = state.bank /\ state'.clock = state.clock
      /\ round'.typed = round.typed /\ round'.legacy = round.legacy
  BY SnapshotFields DEF Agree, StateFields, Goes, RoundFields
<1>2. PICK reported \in SUBSET {c \in Contacts : c.id \in setup.contacts} :
        round'.queue = Sorted(reported, Order)
  BY SnapshotFields
<1> DEFINE queue == Sorted(reported, Order)
<1>3. Lists(queue, reported)
  <2>1. reported \in SUBSET Contacts /\ queue = Sorted(reported, Order)
    OBVIOUS
  <2> HIDE DEF queue
  <2> QED
    BY <2>1, ContactsSorted
<1>4. queue = [k \in 1 .. Cardinality(reported) |-> queue[k]]
  <2> DEFINE N == Cardinality(reported)
             B(x) == {y \in reported : LexLess(Order(y), Order(x))}
             Nth(k) == CHOOSE x \in reported : Cardinality(B(x)) = k - 1
  <2>1. queue = [k \in 1 .. N |-> Nth(k)]
    BY DEF Sorted
  <2> HIDE DEF Nth, N, queue
  <2>2. queue = [k \in 1 .. N |-> queue[k]]
    BY <2>1
  <2> QED
    BY <2>2 DEF N
<1>5. round'.queue = queue
  BY <1>2
<1> HIDE DEF queue
<1>6. Listed(queue)
  BY <1>3, <1>4, Indexed DEF Lists
<1>7. ASSUME NEW k \in DOMAIN queue
      PROVE  queue[k] \in Contacts /\ queue[k].id # 0
  <2>1. queue[k] \in reported
    BY <1>3 DEF Lists
  <2>2. queue[k] \in Contacts
    BY <2>1
  <2> QED
    BY <2>2, ContactTyped
<1>8. ASSUME NEW j \in DOMAIN queue, NEW k \in DOMAIN queue, queue[j].id = queue[k].id
      PROVE  j = k
  <2>1. queue[j] = queue[k]
    BY <1>7, <1>8, ContactTyped
  <2> QED
    BY <1>3, <2>1 DEF Lists
<1>9. Waiting(queue, round.typed)
  BY <1>1, <1>7, <1>8 DEF TallyInv, Waiting
<1>10. \A i : Blamable(i)' <=> Blamable(i)
  BY <1>1 DEF Blamable
<1>11. /\ Listed(round'.queue) /\ Waiting(round'.queue, round'.typed)
       /\ IsEffects(round.typed) /\ \A n \in DOMAIN round.typed : Blamable(round.typed[n].instance)
       /\ round.legacy = {} /\ state.bank = start.bank
       /\ \A e \in DOMAIN state.bank : state.bank[e] \in Int
  BY <1>1, <1>5, <1>6, <1>9 DEF TallyInv
<1> QED
  BY <1>1, <1>10, <1>11 DEF TallyInv

\* A decision holds effects of its candidate, told apart.
LEMMA DecisionEffects ==
  ASSUME LedgerInv, DecisionInv, RegisterInv, NEW c \in Contacts, HasBinding(c),
         Running(c.instance)
  PROVE  /\ IsEffects(Decision(c).generated)
         /\ \A n \in DOMAIN Decision(c).generated :
              Decision(c).generated[n].id[1] = c.id /\ Decision(c).generated[n].instance = c.instance
<1> DEFINE i == c.instance
           templates == FactOf(i, c.fact).templates
           asked == [j \in DOMAIN templates |-> Resolve(templates[j], state.clock[i], state.register[i])]
           q == [candidate |-> [id |-> c.id, source |-> Owner[i], instance |-> i,
                                target |-> c.target, templates |-> asked],
                 rules |-> Rulebook[setup.rules],
                 defenses |-> DefenseMap(c)]
<1>1. Decision(c) = ResolveCandidate(q)
  BY DEF Decision
<1>2. setup \in Setups /\ i \in Instances
  BY Shapes, ContactTyped
<1>3. templates \in Seq(EffectTemplate)
  <2>1. \E f \in Facts[i] : f.id = c.fact
    BY DEF DecisionInv, HasBinding
  <2>2. FactOf(i, c.fact) \in Facts[i]
    BY <2>1 DEF FactOf
  <2> QED
    BY <1>2, <2>2, EffectAssumption
<1>4. state.clock[i].cycle \in Int
  <2>1. state.clock[i] \in Clock
    BY <1>2, Shapes
  <2> QED
    BY <2>1 DEF Clock
<1>5. state.register[i] \in Int
  <2>1. RegisterFollows(state.register[i], i, state.clock[i], setup)
    BY <1>2 DEF RegisterInv, RegistersFollow, Running
  <2> QED
    BY <2>1 DEF RegisterFollows, Follows
<1>6. asked \in Seq(EffectTemplate)
  <2> HIDE DEF templates
  <2>1. DOMAIN templates = 1 .. Len(templates) /\ Len(templates) \in Nat
        /\ \A j \in DOMAIN templates : templates[j] \in EffectTemplate
    BY <1>3
  <2>2. \A j \in DOMAIN templates :
          Resolve(templates[j], state.clock[i], state.register[i]) \in EffectTemplate
    BY <1>4, <1>5, <2>1, ResolvedTyped
  <2>3. asked \in [1 .. Len(templates) -> EffectTemplate]
    BY <2>1, <2>2
  <2> QED
    BY <2>1, <2>3
<1> HIDE DEF asked
<1>7. CandidateTyped(q.candidate)
  BY <1>6, ContactTyped DEF CandidateTyped
<1>8. q.rules = Rulebook[setup.rules] /\ q.candidate.id = c.id /\ q.candidate.instance = i
  OBVIOUS
<1> HIDE DEF q
<1>9. Placed(ResolveCandidate(q), q.candidate, Int \X Nat)
  BY <1>2, <1>7, <1>8, ResolvePlaces
<1> QED
  BY <1>1, <1>8, <1>9 DEF Placed

\* A hit adds the effects of its candidate.
LEMMA HitTallies ==
  ASSUME LedgerInv, DecisionInv, RegisterInv, TallyInv, Hit
  PROVE  TallyInv'
<1> DEFINE c == Head(round.queue)
           s == round.typed
           t == Decision(c).generated
           all == s \o t
           rest == Tail(round.queue)
<1>1. /\ HasBinding(c) /\ Agree(state', state, {"ledger"})
      /\ Goes({"queue", "typed", "decision", "fresh"}) /\ round.pc = "resolve" /\ round.queue # << >>
      /\ round'.queue = rest /\ round'.typed = all
      /\ UNCHANGED <<setup, start, granted, hits, shown>>
  BY HitFields
<1>2. Running(c.instance)
  BY DEF Hit, Candidate, Admissible
<1>3. /\ state'.bank = state.bank /\ state'.clock = state.clock /\ round'.pc = "resolve"
      /\ round'.legacy = round.legacy
  BY <1>1 DEF Agree, StateFields, Goes, RoundFields
<1>4. /\ c \in Contacts /\ Listed(rest) /\ Waiting(rest, s)
      /\ \A n \in DOMAIN s : s[n].id[1] # c.id
      /\ \A k \in DOMAIN rest : rest[k].id # c.id
  BY <1>1, QueueGoesOn DEF TallyInv
<1>5. IsEffects(t) /\ \A n \in DOMAIN t : t[n].id[1] = c.id /\ t[n].instance = c.instance
  BY <1>1, <1>2, <1>4, DecisionEffects
<1>6. IsEffects(s) /\ \A n \in DOMAIN s : Blamable(s[n].instance)
  BY DEF TallyInv
<1>7. Blamable(c.instance)
  BY <1>2, <1>4, ContactTyped DEF Running, Blamable
<1> HIDE DEF c, s, t, rest
<1>8. \A m \in DOMAIN s, n \in DOMAIN t : s[m].id # t[n].id
  BY <1>4, <1>5
<1>9. /\ IsEffects(all)
      /\ \A n \in DOMAIN all : (\E m \in DOMAIN s : all[n] = s[m]) \/ (\E m \in DOMAIN t : all[n] = t[m])
  BY <1>5, <1>6, <1>8, EffectsJoined
<1> HIDE DEF all
<1>10. ASSUME NEW n \in DOMAIN all
       PROVE  Blamable(all[n].instance) /\ \A k \in DOMAIN rest : all[n].id[1] # rest[k].id
  <2>1. CASE \E m \in DOMAIN s : all[n] = s[m]
    BY <1>4, <1>6, <2>1 DEF Waiting
  <2>2. CASE \E m \in DOMAIN t : all[n] = t[m]
    BY <1>4, <1>5, <1>7, <2>2
  <2> QED
    BY <1>9, <2>1, <2>2
<1>11. Waiting(rest, all)
  BY <1>4, <1>10 DEF Waiting
<1>12. \A i : Blamable(i)' <=> Blamable(i)
  BY <1>3 DEF Blamable
<1>13. /\ round.legacy \subseteq Contacts /\ \A b \in round.legacy : Blamable(b.instance)
       /\ state.bank = start.bank /\ \A e \in DOMAIN state.bank : state.bank[e] \in Int
  BY DEF TallyInv
<1>14. IsEffects(round'.typed) /\ Listed(round'.queue) /\ Waiting(round'.queue, round'.typed)
       /\ \A n \in DOMAIN round'.typed : Blamable(round'.typed[n].instance)
  BY <1>1, <1>4, <1>9, <1>10, <1>11
<1> QED
  BY <1>1, <1>3, <1>12, <1>13, <1>14 DEF TallyInv

\* What a tick without a fault leaves every entity with.
LEMMA CommitLeaves ==
  ASSUME LedgerInv, TallyInv, Commit, NEW entity
  PROVE  Held(state'.bank, entity) = Expected(entity) /\ Held(state'.bank, entity) \in Int
<1>1. /\ state'.bank = Settled.bank /\ Settled.failed = {} /\ ~ReductionRaises
  BY CommitFields
<1>2. /\ IsEffects(round.typed) /\ state.bank = start.bank
      /\ \A e \in DOMAIN state.bank : state.bank[e] \in Int
      /\ round.legacy \subseteq Contacts
  BY DEF TallyInv
<1>3. IsFiniteSet(round.legacy)
  BY <1>2, EffectAssumption, FS_Subset
<1>4. \A c \in round.legacy : c.amount \in Int
  BY <1>2, ContactTyped
<1>5. Held(Settled.bank, entity) = Expected(entity)
  BY <1>1, <1>2, <1>3, <1>4, SettledExpected
<1>6. \A e : Held(LegacyBank, e) \in Int
  BY <1>2, <1>3, <1>4, LegacyBankIs
<1>7. Held(Settled.bank, entity) \in Int
  <2> DEFINE x == SumOf(Weights(entity), TypesOn(entity))
             y == Held(LegacyBank, entity)
  <2>1. x \in Int /\ y \in Int /\ Held(Settled.bank, entity) = x + y
    BY <1>1, <1>2, <1>6, SettledIs
  <2> HIDE DEF x, y
  <2> QED
    BY <2>1
<1> QED
  BY <1>1, <1>5, <1>7

\* A contained fault and an aborted tick leave the banks as they were.
LEMMA FaultTallies ==
  ASSUME LedgerInv, TallyInv, Abort \/ \E i : Contain(i)
  PROVE  TallyInv'
<1>1. CASE Abort
  <2>1. round' = Idle /\ state' = start /\ start' = start
    BY <1>1 DEF Abort
  <2>2. state'.bank = start'.bank /\ state'.bank = start.bank
    BY <2>1
  <2>3. \A e \in DOMAIN start.bank : start.bank[e] \in Int
    BY DEF TallyInv
  <2> QED
    BY <2>1, <2>2, <2>3, TallyEmpty
<1>2. CASE \E i : Contain(i)
  <2>1. round' = Idle /\ start' = state' /\ state'.bank = start.bank
    BY <1>2, ContainFields DEF Agree, StateFields
  <2>2. \A e \in DOMAIN start.bank : start.bank[e] \in Int
    BY DEF TallyInv
  <2> QED
    BY <2>1, <2>2, TallyEmpty
<1> QED
  BY <1>1, <1>2

\* The invariant holds in every state.
LEMMA TallyInvHolds == Spec => []TallyInv
<1>1. Init => TallyInv
  <2> SUFFICES ASSUME Init PROVE TallyInv
    OBVIOUS
  <2>1. state = start /\ round = Idle /\ state.bank = setup.bank /\ setup \in Setups
    BY DEF Init
  <2>2. \A e \in DOMAIN setup.bank : setup.bank[e] \in Int
    BY <2>1, EffectAssumption DEF I64
  <2>3. IsEffects(<< >>) /\ DOMAIN << >> = {} /\ Listed(<< >>)
    <3>1. << >> \in Seq(Int)
      OBVIOUS
    <3> QED
      BY <3>1 DEF IsEffects, Unlike, Listed
  <2>4. round.typed = << >> /\ round.queue = << >> /\ round.legacy = {} /\ round.pc = "idle"
    BY <2>1 DEF Idle
  <2> QED
    BY <2>1, <2>2, <2>3, <2>4 DEF TallyInv, Waiting
<1>2. LedgerInv /\ DecisionInv /\ RegisterInv /\ TallyInv /\ [Next]_vars => TallyInv'
  <2> SUFFICES ASSUME LedgerInv, DecisionInv, RegisterInv, TallyInv, [Next]_vars PROVE TallyInv'
    OBVIOUS
  <2>1. CASE Freeze
    <3>1. state'.bank = state.bank /\ start' = state' /\ round.pc = "idle" /\ round' = round
      BY <2>1, FreezeFields DEF Agree, StateFields
    <3>2. round' = Idle
      BY <3>1 DEF TallyInv
    <3>3. \A e \in DOMAIN state.bank : state.bank[e] \in Int
      BY DEF TallyInv
    <3> QED
      BY <3>1, <3>2, <3>3, TallyEmpty
  <2>2. CASE UNCHANGED vars
    BY <2>2 DEF vars, TallyInv, Blamable
  <2>3. CASE Advance
    BY <2>3, AdvanceTallies
  <2>4. CASE SemanticSnapshot
    BY <2>4, SnapshotTallies
  <2>5. CASE Skip
    <3>1. /\ round.pc = "resolve" /\ round.queue # << >> /\ round'.queue = Tail(round.queue)
          /\ state' = state /\ start' = start /\ setup' = setup
          /\ round'.typed = round.typed /\ round'.pc = round.pc /\ round'.legacy = round.legacy
      BY <2>5, SkipFields DEF Goes, RoundFields
    <3>2. Agree(state', state, {})
      BY <3>1, Shapes DEF Agree
    <3> QED
      BY <3>1, <3>2, TallyGoesOn
  <2>6. CASE Refuse
    <3>1. /\ round.pc = "resolve" /\ round.queue # << >> /\ round'.queue = Tail(round.queue)
          /\ state' = state /\ start' = start /\ setup' = setup
          /\ round'.typed = round.typed /\ round'.pc = round.pc /\ round'.legacy = round.legacy
      BY <2>6, RefuseFields DEF Goes, RoundFields
    <3>2. Agree(state', state, {})
      BY <3>1, Shapes DEF Agree
    <3> QED
      BY <3>1, <3>2, TallyGoesOn
  <2>7. CASE LegacyHit
    <3>1. /\ round.pc = "resolve" /\ round.queue # << >> /\ round'.queue = Tail(round.queue)
          /\ Agree(state', state, {"legacyLedger"}) /\ start' = start /\ setup' = setup
          /\ round'.typed = round.typed /\ round'.pc = round.pc
          /\ \/ round'.legacy = round.legacy
             \/ round'.legacy = round.legacy \union {Head(round.queue)}
      BY <2>7, LegacyHitFields DEF Goes, RoundFields
    <3>2. Running(Head(round.queue).instance)
      BY <2>7 DEF LegacyHit, Candidate, Admissible
    <3> QED
      BY <3>1, <3>2, TallyGoesOn
  <2>8. CASE Hit
    BY <2>8, HitTallies
  <2>9. CASE Commit
    <3>1. round' = Idle /\ start' = state'
      BY <2>9, CommitFields
    <3>2. \A e : Held(state'.bank, e) \in Int
      BY <2>9, CommitLeaves
    <3>3. \A e \in DOMAIN state'.bank : state'.bank[e] \in Int
      BY <3>2 DEF Held
    <3> QED
      BY <3>1, <3>3, TallyEmpty
  <2>10. CASE AdvanceFault \/ SnapshotFault \/ CandidateFault \/ UnknownEffect
    BY <2>10, FaultTallies DEF AdvanceFault, SnapshotFault, CandidateFault, UnknownEffect
  <2>11. CASE ReductionFault \/ CommitFault
    BY <2>11, FaultTallies DEF ReductionFault, CommitFault, Blame
  <2> QED
    BY <2>1, <2>2, <2>3, <2>4, <2>5, <2>6, <2>7, <2>8, <2>9, <2>10, <2>11 DEF Next
<1> QED
  BY <1>1, <1>2, LedgerInvHolds, DecisionInvHolds, RegisterInvHolds, PTL DEF Spec

-----------------------------------------------------------------------------
(* The commit *)

\* What a tick without effects keeps of the tick-start state.
Undone ==
  /\ state'.bank = start.bank /\ state'.ledger = start.ledger
  /\ state'.draws = start.draws /\ state'.serial = start.serial
  /\ state'.register = start.register

\* A fault has ended an action, or the tick has been undone.
Faulted ==
  \/ state' = start
  \/ \E i \in Instances : state.clock[i].life # "FAULTED" /\ state'.clock[i].life = "FAULTED"

\* A tick applies all of its effects or none.
AllOrNothing ==
  IF Faulted THEN Undone ELSE \A entity \in Entities : Held(state'.bank, entity) = Expected(entity)

\* Every effect that may fail comes from an action that may be blamed.
LEMMA SourcesBlamable ==
  ASSUME TallyInv, NEW g
  PROVE  /\ \A i \in SourcesOf(Authoritative) : Blamable(i)
         /\ \A i \in SourcesOf(Group(Authoritative, g)) : Blamable(i)
<1> DEFINE A == Authoritative
           L == Group(A, g)
<1>1. IsEffects(A) /\ \A n \in DOMAIN A : \E m \in DOMAIN round.typed : A[n] = round.typed[m]
  BY AuthoritativeEffects DEF TallyInv
<1> HIDE DEF A
<1>2. \A n \in DOMAIN A : Blamable(A[n].instance)
  BY <1>1 DEF TallyInv
<1>3. GroupList(L, Cardinality(PlacesOf(A, g)), A, g)
  BY <1>1, GroupLists
<1> HIDE DEF L
<1>4. ASSUME NEW n \in DOMAIN L PROVE \E m \in DOMAIN A : L[n] = A[m]
  <2>1. L[n] \in MembersOf(A, g)
    BY <1>3 DEF GroupList
  <2> QED
    BY <2>1 DEF MembersOf, PlacesOf
<1>5. (\A i \in SourcesOf(A) : Blamable(i)) /\ \A i \in SourcesOf(L) : Blamable(i)
  BY <1>2, <1>4 DEF SourcesOf
<1> QED
  BY <1>5 DEF A, L

\* A fault of an action that may be blamed leaves no effect.
LEMMA ContainUndoes ==
  ASSUME LedgerInv, NEW i, Blamable(i), Contain(i)
  PROVE  Faulted /\ Undone
<1>1. /\ Agree(state', start, {"tick", "clock", "tokens"})
      /\ state'.clock = [start.clock EXCEPT ![i].life = "FAULTED"]
  BY ContainFields
<1>2. Undone
  BY <1>1 DEF Undone, Agree, StateFields
<1>3. i \in Instances /\ start.clock \in [Instances -> Clock]
  BY Shapes DEF Blamable
<1>4. state'.clock[i] = [start.clock[i] EXCEPT !.life = "FAULTED"] /\ start.clock[i] \in Clock
  BY <1>1, <1>3
<1>5. state'.clock[i].life = "FAULTED"
  BY <1>4 DEF Clock
<1> QED
  BY <1>2, <1>3, <1>5 DEF Faulted, Blamable

\* An undone tick leaves no effect.
LEMMA AbortUndoes ==
  ASSUME Abort
  PROVE  Faulted /\ Undone
BY DEF Abort, Faulted, Undone

\* Whatever ends a tick, it applies all of its effects or none.
LEMMA TickWhole ==
  ASSUME LedgerInv, TallyInv, Next, round.pc # "idle", round'.pc = "idle"
  PROVE  AllOrNothing
<1>1. ASSUME NEW i, Blamable(i), Contain(i) PROVE Faulted /\ Undone
  BY <1>1, ContainUndoes
<1>2. ASSUME NEW sources, \A i \in sources : Blamable(i), Blame(sources) PROVE Faulted /\ Undone
  <2>1. CASE Abort
    BY <2>1, AbortUndoes
  <2>2. CASE \E i \in sources : Contain(i)
    BY <1>1, <1>2, <2>2
  <2> QED
    BY <1>2, <2>1, <2>2 DEF Blame
<1>3. CASE Freeze \/ Advance \/ AdvanceFault
  BY <1>3 DEF Freeze, Advance, AdvanceFault
<1>4. CASE SemanticSnapshot
  BY <1>4, SnapshotFields
<1>5. CASE Skip \/ LegacyHit \/ Refuse \/ Hit
  <2>1. round'.pc = round.pc
    BY <1>5, SkipFields, LegacyHitFields, RefuseFields, HitFields DEF Goes, RoundFields
  <2> QED
    BY <2>1
<1>6. CASE SnapshotFault
  <2> DEFINE T == {i \in Instances : Unresolved(i)}
             i == Sums!Min(T)
  <2>1. T # {} /\ Contain(i)
    BY <1>6 DEF SnapshotFault
  <2>2. T \in SUBSET Int /\ IsFiniteSet(T)
    BY EffectAssumption, FS_Subset
  <2> HIDE DEF T
  <2>3. i \in T
    BY <2>1, <2>2, Extremes
  <2>4. Blamable(i)
    BY <2>3 DEF T, Unresolved, Running, Blamable
  <2> QED
    BY <1>1, <2>1, <2>4 DEF AllOrNothing
<1>7. CASE CandidateFault
  <2> DEFINE c == Head(round.queue)
  <2>1. round.queue # << >> /\ Running(c.instance) /\ Contain(c.instance)
    BY <1>7 DEF CandidateFault, Candidate, Admissible
  <2>2. c \in Contacts
    BY <2>1, QueueGoesOn DEF TallyInv
  <2>3. Blamable(c.instance)
    BY <2>1, <2>2, ContactTyped DEF Blamable, Running
  <2> QED
    BY <1>1, <2>1, <2>3 DEF AllOrNothing
<1>8. CASE UnknownEffect
  <2> DEFINE c == First(Unknown, LegacyKey)
  <2>1. Unknown # {} /\ Contain(c.instance)
    BY <1>8 DEF UnknownEffect
  <2>2. Unknown \in SUBSET Contacts /\ \A b \in Unknown : Blamable(b.instance)
    BY DEF Unknown, TallyInv
  <2>3. c \in Unknown
    BY <2>1, <2>2, FirstContact
  <2>4. Blamable(c.instance)
    BY <2>2, <2>3
  <2> QED
    BY <1>1, <2>1, <2>4 DEF AllOrNothing
<1>9. CASE ReductionFault
  <2>1. Blame(SourcesOf(Authoritative))
    BY <1>9 DEF ReductionFault
  <2> QED
    BY <1>2, <2>1, SourcesBlamable DEF AllOrNothing
<1>10. CASE CommitFault
  <2>1. PICK g : Blame(SourcesOf(Group(Authoritative, g)))
    BY <1>10 DEF CommitFault
  <2> QED
    BY <1>2, <2>1, SourcesBlamable DEF AllOrNothing
<1>11. CASE Commit
  <2>1. Agree(state', state, {"tick", "bank", "draws", "tokens"}) /\ state'.tick = state.tick + 1
    BY <1>11, CommitFields
  <2>2. state'.clock = state.clock /\ state'.tick # start.tick
    BY <2>1, Shapes DEF Agree, StateFields
  <2>3. ~Faulted
    BY <2>2 DEF Faulted
  <2>4. \A entity : Held(state'.bank, entity) = Expected(entity)
    BY <1>11, CommitLeaves
  <2> QED
    BY <2>3, <2>4 DEF AllOrNothing
<1> QED
  BY <1>1, <1>3, <1>4, <1>5, <1>6, <1>7, <1>8, <1>9, <1>10, <1>11 DEF Next, AllOrNothing

\* CommitExact holds of all reducers, rules, contacts, freezes and faults: a tick leaves every
\* resource with what its reducers make of all the effects emitted, in whatever order these were
\* emitted and applied, or a fault leaves the tick-start state (_commit_effects, _contain_fault).
THEOREM CommitExactHolds == Spec => CommitExact
<1>1. LedgerInv /\ TallyInv /\ [Next]_vars =>
        [round.pc # "idle" /\ round'.pc = "idle" =>
           AllOrNothing]_vars
  <2> SUFFICES ASSUME LedgerInv, TallyInv, Next, round.pc # "idle", round'.pc = "idle"
               PROVE  AllOrNothing
    OBVIOUS
  <2> QED
    BY TickWhole
<1>2. CommitExact <=>
        [][round.pc # "idle" /\ round'.pc = "idle" =>
             AllOrNothing]_vars
  BY DEF CommitExact, AllOrNothing, Faulted, Undone
<1> QED
  BY <1>1, <1>2, LedgerInvHolds, TallyInvHolds, PTL DEF Spec

-----------------------------------------------------------------------------
(* Types *)

\* A predicate has come true in as many ticks as there have been, at most.
LEMMA SerialBounded ==
  ASSUME LedgerInv, NEW i \in Instances, NEW p \in PredicateIds
  PROVE  /\ state.serial[i][p] \in 0 .. state.tick + 1
         /\ round.pc # "resolve" => state.serial[i][p] \in 0 .. state.tick
<1> DEFINE T == state.tick
           now == Append(shown, state.truth)
           before == Append(shown, start.truth)
<1>1. /\ T \in Nat /\ start.tick = T /\ Settling(start, shown)
      /\ state.serial = [j \in Instances |-> [q \in PredicateIds |-> Serial(now, setup, j, q, T)]]
      /\ start.serial = [j \in Instances |-> [q \in PredicateIds |-> Serial(before, setup, j, q, T)]]
      /\ Len(shown) = T /\ \E Q : shown \in Seq(Q)
      /\ round.pc # "resolve" => state.serial = start.serial
  BY DEF LedgerInv, Exact, Controls
<1>2. /\ \A n \in 1 .. T : before[n] = shown[n]
      /\ before[T + 1] = start.truth
  BY <1>1, Appended
<1> HIDE DEF T, now, before
<1>3. ASSUME NEW seen PROVE Serial(seen, setup, i, p, T) \in 0 .. T + 1
  <2>1. Rises(seen, i, p, T) \subseteq 0 .. T
    BY DEF Rises
  <2>2. IsFiniteSet(0 .. T) /\ Cardinality(0 .. T) = T + 1
    <3>1. 0 \in Int /\ T \in Int /\ 0 <= T /\ T - 0 + 1 = T + 1
      BY <1>1
    <3> QED
      BY <3>1, FS_Interval
  <2>3. Cardinality(Rises(seen, i, p, T)) <= T + 1 /\ Cardinality(Rises(seen, i, p, T)) \in Nat
    BY <1>1, <2>1, <2>2, FS_Subset, RisesCount
  <2> QED
    BY <1>1, <2>3 DEF Serial
<1>4. ~Rose(before, i, p, T)
  <2>1. CASE T = 0
    <3>1. start.truth = [j \in Instances |-> {}]
      BY <1>1, <2>1 DEF Settling
    <3>2. before[T + 1][i] = {}
      BY <1>2, <3>1
    <3> QED
      BY <3>2 DEF Rose
  <2>2. CASE T # 0
    <3>1. start.truth = shown[T] /\ T \in 1 .. T
      BY <1>1, <2>2 DEF Settling
    <3>2. before[T + 1] = before[T]
      BY <1>2, <3>1
    <3> QED
      BY <2>2, <3>2 DEF Rose
  <2> QED
    BY <2>1, <2>2
<1>5. Serial(before, setup, i, p, T) \in 0 .. T
  <2>1. Rises(before, i, p, T) \subseteq 0 .. T - 1
    <3>1. \A t \in 0 .. T : t # T => t \in 0 .. T - 1
      BY <1>1
    <3> QED
      BY <1>4, <3>1 DEF Rises
  <2>2. IsFiniteSet(0 .. T - 1) /\ Cardinality(0 .. T - 1) = T
    <3> DEFINE m == T - 1
    <3>1. 0 \in Int /\ m \in Int /\ (0 > m => T = 0) /\ m - 0 + 1 = T
      BY <1>1
    <3> HIDE DEF m
    <3>2. IsFiniteSet(0 .. m) /\ Cardinality(0 .. m) = IF 0 > m THEN 0 ELSE m - 0 + 1
      BY <3>1, FS_Interval
    <3>3. Cardinality(0 .. m) = T
      BY <3>1, <3>2
    <3> QED
      BY <3>2, <3>3 DEF m
  <2>3. Cardinality(Rises(before, i, p, T)) <= T /\ Cardinality(Rises(before, i, p, T)) \in Nat
    BY <1>1, <2>1, <2>2, FS_Subset, RisesCount
  <2> QED
    BY <1>1, <2>3 DEF Serial
<1>6. /\ state.serial[i][p] = Serial(now, setup, i, p, T)
      /\ start.serial[i][p] = Serial(before, setup, i, p, T)
  BY <1>1
<1> QED
  BY <1>1, <1>3, <1>5, <1>6 DEF T

\* s is what a tick configured with u starts with, or has reached.
HasType(s, u) ==
  /\ s.tick \in 0 .. MaxTick
  /\ \A i \in Instances : s.truth[i] \subseteq PredicateIds
  /\ \A k \in DOMAIN s.ledger : s.ledger[k] \in 0 .. s.tick
  /\ s.tokens \in SUBSET Tokens /\ IsFiniteSet(s.tokens)
  /\ BankTyped(s.bank, u)
  /\ s.draws \in 0 .. s.tick * u.perTick

\* The contacts of the tick that are left, and those to be settled, are no more than the host
\* may report.
Reported ==
  /\ \A k \in DOMAIN round.queue : round.queue[k].id \in setup.contacts
  /\ \A c \in round.legacy : c.id \in setup.contacts
  /\ Len(round.queue) \in Nat /\ Cardinality(round.legacy) + Len(round.queue) <= setup.perTick

\* The inductive invariant of TypeOK: a fault returns to the start, which has its type too.
TypeInv ==
  /\ HasType(start, setup) /\ HasType(state, setup)
  /\ granted \in Nat
  /\ round.pc # "idle" => state.tick < MaxTick
  /\ Reported

\* Nothing is reported between two ticks.
LEMMA ReportedNothing ==
  ASSUME setup \in Setups, setup' = setup, round' = Idle
  PROVE  Reported' /\ round'.pc = "idle"
<1>1. round'.queue = << >> /\ round'.legacy = {} /\ round'.pc = "idle"
  BY DEF Idle
<1>2. Len(<< >>) = 0 /\ DOMAIN << >> = {} /\ Cardinality({}) = 0 /\ setup.perTick \in Nat
  BY EffectAssumption, FS_EmptySet
<1>3. Len(round'.queue) = 0 /\ Cardinality(round'.legacy) = 0 /\ setup'.perTick \in Nat
  BY <1>1, <1>2
<1> QED
  BY <1>1, <1>2, <1>3 DEF Reported

\* What does not touch the fields that are typed keeps the types.
LEMMA TypeStays ==
  ASSUME NEW u, NEW s, NEW t, HasType(s, u), NEW F, Agree(t, s, F),
         F \cap {"tick", "truth", "ledger", "tokens", "bank", "draws"} = {}
  PROVE  HasType(t, u)
<1>1. /\ t.tick = s.tick /\ t.truth = s.truth /\ t.ledger = s.ledger
      /\ t.tokens = s.tokens /\ t.bank = s.bank /\ t.draws = s.draws
  BY DEF Agree, StateFields
<1> QED
  BY <1>1 DEF HasType

\* A contained fault keeps the types: the tick counts as done.
LEMMA ContainTypes ==
  ASSUME LedgerInv, TypeInv, NEW i, Contain(i), state.tick < MaxTick
  PROVE  TypeInv'
<1> DEFINE n == start.tick + 1
           left == {t \in start.tokens : t.target # i}
<1>1. /\ Agree(state', start, {"tick", "clock", "tokens"})
      /\ state'.tick = n /\ state'.tokens = left
      /\ start' = state' /\ round' = Idle /\ setup' = setup /\ granted' = granted
  BY ContainFields
<1>2. /\ state'.truth = start.truth /\ state'.ledger = start.ledger
      /\ state'.bank = start.bank /\ state'.draws = start.draws
  BY <1>1 DEF Agree, StateFields
<1>3. setup \in Setups /\ setup.perTick \in Nat /\ start.tick \in Nat /\ state.tick = start.tick
  BY Shapes, EffectAssumption
<1>4. n \in 0 .. MaxTick
  BY <1>3, HostAssumption
<1>5. \A k \in DOMAIN start.ledger : start.ledger[k] \in 0 .. n
  <2>1. \A x \in 0 .. start.tick : x \in 0 .. n
    BY <1>3
  <2> QED
    BY <2>1 DEF TypeInv, HasType
<1>6. left \in SUBSET Tokens /\ IsFiniteSet(left)
  BY FS_Subset DEF TypeInv, HasType
<1>7. start.draws \in 0 .. n * setup.perTick
  <2>1. /\ start.tick * setup.perTick \in Nat /\ n * setup.perTick \in Nat
        /\ start.tick * setup.perTick <= n * setup.perTick
    <3>1. n \in Nat /\ start.tick <= n
      BY <1>3
    <3> HIDE DEF n
    <3> QED
      BY <1>3, <3>1, ProductGrows
  <2>2. start.draws \in 0 .. start.tick * setup.perTick
    BY DEF TypeInv, HasType
  <2> DEFINE a == start.tick * setup.perTick
             b == n * setup.perTick
  <2> HIDE DEF a, b, n
  <2>3. start.draws \in 0 .. b
    <3>1. a \in Nat /\ b \in Nat /\ a <= b /\ start.draws \in 0 .. a
      BY <2>1, <2>2 DEF a, b
    <3> QED
      BY ONLY <3>1
  <2> QED
    BY <2>3 DEF b
<1> HIDE DEF n, left
<1>8. HasType(state, setup)'
  BY <1>1, <1>2, <1>4, <1>5, <1>6, <1>7 DEF TypeInv, HasType
<1> QED
  BY <1>1, <1>3, <1>8, ReportedNothing DEF TypeInv

\* An aborted tick returns to the start.
LEMMA AbortTypes ==
  ASSUME LedgerInv, TypeInv, Abort
  PROVE  TypeInv'
<1>1. state' = start /\ start' = start /\ round' = Idle /\ setup' = setup /\ granted' = granted
  BY DEF Abort
<1>2. setup \in Setups
  BY Shapes
<1> QED
  BY <1>1, <1>2, ReportedNothing DEF TypeInv

\* A freeze that is granted keeps the types.
LEMMA FreezeTypes ==
  ASSUME LedgerInv, TallyInv, TypeInv, Freeze
  PROVE  TypeInv'
<1>1. PICK kind \in TokenKinds :
        state'.tokens = AddToken(state.tokens, Created(granted, state.tick, kind))
  BY FreezeFields
<1>2. /\ Agree(state', state, {"tokens"}) /\ round.pc = "idle" /\ granted' = granted + 1
      /\ start' = state' /\ setup' = setup /\ round' = round
  BY FreezeFields
<1>3. /\ state'.truth = state.truth /\ state'.ledger = state.ledger /\ state'.tick = state.tick
      /\ state'.bank = state.bank /\ state'.draws = state.draws
  BY <1>2 DEF Agree, StateFields
<1>4. setup \in Setups /\ state.tick \in Nat /\ granted \in Nat
  BY Shapes DEF TypeInv
<1>5. Created(granted, state.tick, kind) \in Tokens
  BY <1>4, GrantedTyped
<1>6. state'.tokens \in SUBSET Tokens /\ IsFiniteSet(state'.tokens)
  <2>1. state.tokens \in SUBSET Tokens /\ IsFiniteSet(state.tokens)
    BY DEF TypeInv, HasType
  <2> QED
    BY <1>1, <1>5, <2>1, AddedTyped
<1>7. HasType(state, setup)'
  BY <1>2, <1>3, <1>6 DEF TypeInv, HasType
<1>8. round' = Idle
  BY <1>2 DEF TallyInv
<1>9. granted' \in Nat
  BY <1>2, <1>4
<1> QED
  BY <1>2, <1>4, <1>7, <1>8, <1>9, ReportedNothing DEF TypeInv

\* What the snapshot sees are predicates, and what it queues was reported.
LEMMA SnapshotTypes ==
  ASSUME LedgerInv, TallyInv, TypeInv, SemanticSnapshot
  PROVE  TypeInv'
<1>1. /\ Agree(state', state, {"truth", "serial"})
      /\ state'.truth = [i \in Instances |-> IF Running(i) THEN PredicateValues(i) ELSE state.truth[i]]
      /\ round.pc = "snapshot" /\ round'.pc = "resolve" /\ round'.legacy = round.legacy
      /\ UNCHANGED <<setup, start, granted, hits, shown>>
  BY SnapshotFields DEF Goes, RoundFields
<1>2. /\ state'.tick = state.tick /\ state'.ledger = state.ledger /\ state'.tokens = state.tokens
      /\ state'.bank = state.bank /\ state'.draws = state.draws
  BY <1>1 DEF Agree, StateFields
<1>3. \A i \in Instances : state'.truth[i] \subseteq PredicateIds
  BY <1>1, PredicatesNamed DEF TypeInv, HasType
<1>4. HasType(state, setup)'
  BY <1>1, <1>2, <1>3 DEF TypeInv, HasType
<1>5. PICK reported \in SUBSET {c \in Contacts : c.id \in setup.contacts} :
        Cardinality(reported) <= setup.perTick /\ round'.queue = Sorted(reported, Order)
  BY SnapshotFields
<1> DEFINE queue == Sorted(reported, Order)
<1>6. Lists(queue, reported)
  <2>1. reported \in SUBSET Contacts /\ queue = Sorted(reported, Order)
    OBVIOUS
  <2> HIDE DEF queue
  <2> QED
    BY <2>1, ContactsSorted
<1>7. round'.queue = queue
  BY <1>5
<1> HIDE DEF queue
<1>8. Len(queue) = Cardinality(reported) /\ Len(queue) \in Nat
  BY <1>6, LenOfLists
<1>9. \A k \in DOMAIN queue : queue[k].id \in setup.contacts
  BY <1>6 DEF Lists
<1>10. round'.legacy = {} /\ Cardinality({}) = 0
  BY <1>1, FS_EmptySet DEF TallyInv
<1>11. Reported'
  <2>1. 0 + Len(queue) <= setup.perTick
    BY <1>5, <1>8
  <2> QED
    BY <1>1, <1>7, <1>8, <1>9, <1>10, <2>1 DEF Reported
<1>12. HasType(start, setup)' /\ granted' \in Nat /\ state'.tick < MaxTick
  BY <1>1, <1>2 DEF TypeInv
<1> QED
  BY <1>4, <1>11, <1>12 DEF TypeInv

\* A candidate that is gone leaves one less, and may be one more to be settled.
LEMMA ReportedGoesOn ==
  ASSUME LedgerInv, TallyInv, TypeInv, round.queue # << >>, setup' = setup,
         round'.queue = Tail(round.queue),
         \/ round'.legacy = round.legacy
         \/ round'.legacy = round.legacy \union {Head(round.queue)}
  PROVE  Reported'
<1> DEFINE queue == round.queue
           rest == Tail(round.queue)
           c == Head(round.queue)
<1>1. PICK S : queue \in Seq(S)
  BY DEF TallyInv, Listed
<1>2. /\ c = queue[1] /\ 1 \in DOMAIN queue /\ rest \in Seq(S) /\ Len(rest) = Len(queue) - 1
      /\ \A k \in DOMAIN rest : k + 1 \in DOMAIN queue /\ rest[k] = queue[k + 1]
      /\ Len(rest) \in Nat
  <2> HIDE DEF queue
  <2>1. /\ Head(queue) = queue[1] /\ 1 \in DOMAIN queue
        /\ Tail(queue) \in Seq(S) /\ Len(Tail(queue)) = Len(queue) - 1
        /\ \A k \in DOMAIN Tail(queue) : k + 1 \in DOMAIN queue /\ Tail(queue)[k] = queue[k + 1]
    BY <1>1, HeadTailProperties DEF queue
  <2>2. Len(Tail(queue)) \in Nat
    BY <2>1
  <2> QED
    BY <2>1, <2>2 DEF queue
<1>3. /\ \A k \in DOMAIN queue : queue[k].id \in setup.contacts
      /\ \A d \in round.legacy : d.id \in setup.contacts
      /\ Len(queue) \in Nat /\ Cardinality(round.legacy) + Len(queue) <= setup.perTick
  BY DEF TypeInv, Reported
<1>4. IsFiniteSet(round.legacy) /\ Cardinality(round.legacy) \in Nat /\ setup.perTick \in Nat
  <2>1. IsFiniteSet(round.legacy)
    BY EffectAssumption, FS_Subset DEF TallyInv
  <2> QED
    BY <2>1, Shapes, EffectAssumption, FS_CardinalityType
<1> HIDE DEF queue, rest, c
<1>5. /\ \A k \in DOMAIN rest : rest[k].id \in setup.contacts
      /\ c.id \in setup.contacts
  BY <1>2, <1>3
<1>6. round'.queue = rest /\ (round'.legacy = round.legacy \/ round'.legacy = round.legacy \union {c})
  BY DEF rest, c
<1>7. Cardinality(round'.legacy) \in Nat /\ Cardinality(round'.legacy) <= Cardinality(round.legacy) + 1
  <2>1. CASE round'.legacy = round.legacy
    BY <1>4, <2>1
  <2>2. CASE round'.legacy = round.legacy \union {c}
    <3>1. Cardinality(round.legacy \union {c}) \in
            {Cardinality(round.legacy), Cardinality(round.legacy) + 1}
      BY <1>4, FS_AddElement
    <3> QED
      BY <1>4, <2>2, <3>1
  <2> QED
    BY <1>6, <2>1, <2>2
<1>8. Cardinality(round'.legacy) + Len(rest) <= setup.perTick
  BY <1>2, <1>3, <1>4, <1>7
<1>9. \A d \in round'.legacy : d.id \in setup.contacts
  BY <1>3, <1>5, <1>6
<1> QED
  BY <1>2, <1>5, <1>6, <1>8, <1>9 DEF Reported

\* A candidate keeps the types when it touches nothing of them but the ledger, in which the
\* present tick is entered.
LEMMA CandidateTypes ==
  ASSUME LedgerInv, TallyInv, TypeInv, Skip \/ Refuse \/ LegacyHit \/ Hit
  PROVE  TypeInv'
<1>1. /\ round.pc = "resolve" /\ round.queue # << >> /\ round'.queue = Tail(round.queue)
      /\ round'.pc = round.pc
      /\ \/ round'.legacy = round.legacy
         \/ round'.legacy = round.legacy \union {Head(round.queue)}
      /\ UNCHANGED <<setup, start, granted, hits, shown>> \/ UNCHANGED <<setup, start, granted>>
  BY SkipFields, RefuseFields, LegacyHitFields, HitFields DEF Goes, RoundFields
<1>2. Reported'
  BY <1>1, ReportedGoesOn
<1>3. CASE Skip \/ Refuse
  <2>1. state' = state
    BY <1>3, SkipFields, RefuseFields
  <2> QED
    BY <1>1, <1>2, <2>1 DEF TypeInv
<1>4. CASE LegacyHit
  <2>1. Agree(state', state, {"legacyLedger"})
    BY <1>4, LegacyHitFields
  <2>2. HasType(state', setup)
    BY <2>1, TypeStays DEF TypeInv
  <2>3. state'.tick = state.tick
    BY <2>1 DEF Agree, StateFields
  <2> QED
    BY <1>1, <1>2, <2>2, <2>3 DEF TypeInv
<1>5. CASE Hit
  <2> DEFINE context == LedgerContext(Head(round.queue))
             key == LedgerKey(setup.policy, context)
  <2>1. /\ Agree(state', state, {"ledger"})
        /\ state'.ledger = state.ledger
             \/ state'.ledger = WriteReceipt(state.ledger, setup.policy, context)
    BY <1>5, HitFields
  <2>2. context.tick = state.tick /\ state.tick \in Nat
    BY Shapes DEF LedgerContext
  <2> HIDE DEF context
  <2>3. \A k \in DOMAIN state'.ledger : state'.ledger[k] \in 0 .. state.tick
    <3>1. \A k \in DOMAIN state.ledger : state.ledger[k] \in 0 .. state.tick
      BY DEF TypeInv, HasType
    <3>2. WriteReceipt(state.ledger, setup.policy, context) = state.ledger
            \/ WriteReceipt(state.ledger, setup.policy, context) =
                 [k \in {key} \union DOMAIN state.ledger |->
                    IF k = key THEN context.tick ELSE state.ledger[k]]
      BY DEF WriteReceipt
    <3>3. state.tick \in 0 .. state.tick
      BY <2>2
    <3> HIDE DEF key
    <3> QED
      BY <2>1, <2>2, <3>1, <3>2, <3>3
  <2>4. /\ state'.tick = state.tick /\ state'.truth = state.truth /\ state'.tokens = state.tokens
        /\ state'.bank = state.bank /\ state'.draws = state.draws
    BY <2>1 DEF Agree, StateFields
  <2>5. HasType(state', setup)
    BY <2>3, <2>4 DEF TypeInv, HasType
  <2> QED
    BY <1>1, <1>2, <2>4, <2>5 DEF TypeInv
<1> QED
  BY <1>3, <1>4, <1>5

\* A commit settles what has its type, and draws no more than was reported.
LEMMA CommitTypes ==
  ASSUME LedgerInv, TallyInv, TypeInv, Commit
  PROVE  TypeInv'
<1> DEFINE n == state.tick + 1
           most == setup.perTick
<1>1. /\ Agree(state', state, {"tick", "bank", "draws", "tokens"})
      /\ state'.tick = n /\ state'.bank = Settled.bank /\ state'.draws = state.draws + Draws
      /\ state'.tokens = ExpireTokens(state.tokens, state.tick) /\ Committing
      /\ start' = state' /\ round' = Idle /\ UNCHANGED <<setup, granted>>
  BY CommitFields
<1>2. state'.truth = state.truth /\ state'.ledger = state.ledger
  BY <1>1 DEF Agree, StateFields
<1>3. /\ setup \in Setups /\ most \in Nat /\ state.tick \in Nat /\ state.tick < MaxTick /\ MaxTick \in Nat
  BY <1>1, Shapes, EffectAssumption, HostAssumption DEF TypeInv, Committing
<1>4. n \in 0 .. MaxTick
  BY <1>3
<1>5. \A k \in DOMAIN state.ledger : state.ledger[k] \in 0 .. n
  <2>1. \A x \in 0 .. state.tick : x \in 0 .. n
    BY <1>3
  <2> QED
    BY <2>1 DEF TypeInv, HasType
<1>6. state'.tokens \in SUBSET Tokens /\ IsFiniteSet(state'.tokens)
  <2>1. state.tokens \in SUBSET Tokens /\ IsFiniteSet(state.tokens)
    BY DEF TypeInv, HasType
  <2> QED
    BY <1>1, <1>3, <2>1, ExpiredTyped
<1>7. BankTyped(state'.bank, setup)
  <2>1. round.legacy \subseteq {c \in Contacts : c.id \in setup.contacts}
    BY DEF TallyInv, TypeInv, Reported
  <2>2. BankTyped(state.bank, setup) /\ \A e \in DOMAIN state.bank : state.bank[e] \in Int
    BY DEF TypeInv, HasType, TallyInv
  <2>3. IsEffects(round.typed)
    BY DEF TallyInv
  <2>4. BankTyped(LegacyBank, setup)
    BY <2>1, <2>2, LegacyTyped
  <2> QED
    BY <1>1, <2>3, <2>4, SettledTyped
<1>8. Draws \in 0 .. most
  <2> DEFINE drawn == {c \in round.legacy : c.effect = "RNG_DRAW" /\ ~Frozen(c.instance, "RNG_CONSUMPTION")}
  <2>1. IsFiniteSet(round.legacy)
    BY EffectAssumption, FS_Subset DEF TallyInv
  <2>2. drawn \subseteq round.legacy
    OBVIOUS
  <2> HIDE DEF drawn
  <2>3. /\ Cardinality(drawn) \in Nat /\ Cardinality(round.legacy) \in Nat
        /\ Cardinality(drawn) <= Cardinality(round.legacy)
    BY <2>1, <2>2, FS_Subset, FS_CardinalityType
  <2>4. Len(round.queue) \in Nat /\ Cardinality(round.legacy) + Len(round.queue) <= most
    BY DEF TypeInv, Reported
  <2>5. Cardinality(drawn) \in 0 .. most
    BY <1>3, <2>3, <2>4
  <2> QED
    BY <2>5 DEF Draws, drawn
<1>9. state.draws + Draws \in 0 .. n * most
  <2> DEFINE a == state.tick * most
             b == n * most
             d == Draws
  <2>1. b = a + most /\ a \in Nat
    <3>1. state.tick \in Nat /\ most \in Nat
      BY <1>3
    <3> HIDE DEF most
    <3>2. state.tick * most \in Nat /\ (state.tick + 1) * most = state.tick * most + most
      BY ONLY <3>1
    <3> QED
      BY <3>2
  <2>2. state.draws \in 0 .. a
    BY DEF TypeInv, HasType
  <2> HIDE DEF a, b, d, n, most
  <2>3. d \in 0 .. most
    BY <1>8 DEF d
  <2>4. state.draws + d \in 0 .. b
    BY ONLY <1>3, <2>1, <2>2, <2>3
  <2> QED
    BY <2>4 DEF b, d
<1> HIDE DEF n
<1>10. HasType(state, setup)'
  BY <1>1, <1>2, <1>4, <1>5, <1>6, <1>7, <1>9 DEF TypeInv, HasType
<1> QED
  BY <1>1, <1>3, <1>10, ReportedNothing DEF TypeInv

\* The invariant holds in every state.
LEMMA TypeInvHolds == Spec => []TypeInv
<1>1. Init => TypeInv
  <2> SUFFICES ASSUME Init PROVE TypeInv
    OBVIOUS
  <2>1. /\ state = start /\ round = Idle /\ setup \in Setups /\ granted = 0
        /\ state.tick = 0 /\ state.truth = [i \in Instances |-> {}] /\ state.ledger = << >>
        /\ state.bank = setup.bank /\ state.draws = 0 /\ state.tokens = {}
    BY DEF Init
  <2>2. BankTyped(setup.bank, setup) /\ setup.perTick \in Nat /\ MaxTick \in Nat
    BY <2>1, EffectAssumption, HostAssumption DEF BankTyped
  <2>3. IsFiniteSet({}) /\ Cardinality({}) = 0 /\ DOMAIN << >> = {} /\ Len(<< >>) = 0
    BY FS_EmptySet
  <2>4. 0 \in 0 .. 0 * setup.perTick
    BY <2>2
  <2>5. 0 \in 0 .. MaxTick
    BY <2>2
  <2>6. HasType(state, setup)
    BY <2>1, <2>2, <2>3, <2>4, <2>5 DEF HasType
  <2>7. round.queue = << >> /\ round.legacy = {} /\ round.pc = "idle"
    BY <2>1 DEF Idle
  <2>8. Len(round.queue) = 0 /\ Cardinality(round.legacy) = 0
    BY <2>3, <2>7
  <2>9. Reported
    BY <2>2, <2>3, <2>7, <2>8 DEF Reported
  <2> QED
    BY <2>1, <2>6, <2>7, <2>9 DEF TypeInv
<1>2. LedgerInv /\ TallyInv /\ TypeInv /\ [Next]_vars => TypeInv'
  <2> SUFFICES ASSUME LedgerInv, TallyInv, TypeInv, [Next]_vars PROVE TypeInv'
    OBVIOUS
  <2>1. ASSUME NEW i, Contain(i), round.pc # "idle" \/ state.tick < MaxTick PROVE TypeInv'
    BY <2>1, ContainTypes DEF TypeInv
  <2>2. ASSUME NEW instances, Blame(instances), round.pc # "idle" PROVE TypeInv'
    BY <2>1, <2>2, AbortTypes DEF Blame
  <2>3. CASE Freeze
    BY <2>3, FreezeTypes
  <2>4. CASE Advance
    <3>1. /\ Agree(state', state, {"clock", "register"}) /\ state.tick < MaxTick
          /\ round'.queue = round.queue /\ round'.legacy = round.legacy
          /\ UNCHANGED <<setup, start, granted, hits, shown>>
      BY <2>4, AdvanceFields DEF Goes, RoundFields
    <3>2. HasType(state', setup)
      BY <3>1, TypeStays DEF TypeInv
    <3>3. state'.tick = state.tick
      BY <3>1 DEF Agree, StateFields
    <3>4. Reported'
      BY <3>1 DEF TypeInv, Reported
    <3> QED
      BY <3>1, <3>2, <3>3, <3>4 DEF TypeInv
  <2>5. CASE SemanticSnapshot
    BY <2>5, SnapshotTypes
  <2>6. CASE Skip \/ Refuse \/ LegacyHit \/ Hit
    BY <2>6, CandidateTypes
  <2>7. CASE Commit
    BY <2>7, CommitTypes
  <2>8. CASE AdvanceFault \/ SnapshotFault \/ CandidateFault \/ UnknownEffect
    BY <2>1, <2>8 DEF AdvanceFault, SnapshotFault, CandidateFault, UnknownEffect, Candidate, Committing
  <2>9. CASE ReductionFault \/ CommitFault
    BY <2>2, <2>9 DEF ReductionFault, CommitFault, Committing
  <2>10. CASE UNCHANGED vars
    BY <2>10 DEF vars, TypeInv, HasType, Reported
  <2> QED
    BY <2>3, <2>4, <2>5, <2>6, <2>7, <2>8, <2>9, <2>10 DEF Next
<1> QED
  BY <1>1, <1>2, LedgerInvHolds, TallyInvHolds, PTL DEF Spec

\* TypeOK: ticks, serials and draws are bounded by the ticks there have been, no ledger entry
\* comes from the future, tokens stay well-formed, and no bank leaves I64 but by an unchecked
\* RESOURCE_DELTA (_commit_effects).
THEOREM TypeCorrect == Spec => []TypeOK
<1>1. LedgerInv /\ TypeInv => TypeOK
  <2> SUFFICES ASSUME LedgerInv, TypeInv PROVE TypeOK
    OBVIOUS
  <2>1. /\ setup \in Setups /\ start.tick = Len(shown) /\ start.tick = state.tick
        /\ round.pc \in {"idle", "snapshot", "resolve"} /\ state.clock \in [Instances -> Clock]
    BY DEF LedgerInv, Controls, Exact, Clocks
  <2>2. /\ state.tick \in 0 .. MaxTick /\ MaxTick \in Nat
        /\ \A i \in Instances : state.truth[i] \subseteq PredicateIds
        /\ \A k \in DOMAIN state.ledger : state.ledger[k] \in 0 .. state.tick
        /\ state.tokens \in SUBSET Tokens
        /\ BankTyped(state.bank, setup)
        /\ state.draws \in 0 .. state.tick * setup.perTick
        /\ round.pc # "idle" => state.tick < MaxTick
    BY HostAssumption DEF TypeInv, HasType
  <2>3. ASSUME NEW i \in Instances, NEW p \in PredicateIds
        PROVE  state.serial[i][p] \in 0 .. MaxTick
    <3>1. CASE round.pc = "resolve"
      BY <2>2, <3>1, SerialBounded
    <3>2. CASE round.pc # "resolve"
      BY <2>2, <3>2, SerialBounded
    <3> QED
      BY <3>1, <3>2
  <2>4. state.draws \in 0 .. MaxTick * setup.perTick
    <3> DEFINE a == state.tick * setup.perTick
               b == MaxTick * setup.perTick
    <3>1. setup.perTick \in Nat /\ state.tick \in Nat /\ state.tick <= MaxTick
      BY <2>1, <2>2, EffectAssumption
    <3>2. a \in Nat /\ b \in Nat /\ a <= b
      BY <2>2, <3>1, ProductGrows
    <3> HIDE DEF a, b
    <3>3. state.draws \in 0 .. b
      <4>1. state.draws \in 0 .. a
        BY <2>2 DEF a
      <4> QED
        BY ONLY <3>2, <4>1
    <3> QED
      BY <3>3 DEF b
  <2>5. /\ state.tokens \subseteq FreezeToken(Instances, FreezeDomains)
        /\ \A e \in DOMAIN state.bank :
             /\ e \in Entities
             /\ state.bank[e] \in I64
                  \/ \E c \in Contacts : c.id \in setup.contacts /\ c.effect = "RESOURCE_DELTA"
    BY <2>2 DEF Tokens, BankTyped
  <2> QED
    BY <2>1, <2>2, <2>3, <2>4, <2>5 DEF TypeOK
<1> QED
  BY <1>1, LedgerInvHolds, TypeInvHolds, PTL
=============================================================================
