---------------------------- MODULE Stage_lemmas -----------------------------
(***************************************************************************)
(* What the stages of ActionClock and of Encounter are built from:         *)
(* canonical orders, the capture of inputs and the progression of a tick.  *)
(*                                                                         *)
(* The last two are recursive functions, over the inputs of a tick and     *)
(* over its quanta.  What they compute is proved from a least              *)
(* counterexample: the least argument for which the claim fails has a      *)
(* predecessor, for which it holds.                                        *)
(***************************************************************************)
EXTENDS Timeline, InputBuffer, Sequences, FiniteSetTheorems, TLAPS

-----------------------------------------------------------------------------
(* Natural numbers *)

\* A set of natural numbers that is not empty has a least member.
LEMMA LeastNatural ==
  ASSUME NEW T \in SUBSET Nat, T # {}
  PROVE  \E x \in T : \A y \in T : x <= y
<1> DEFINE R == {p \in Nat \X Nat : p[1] < p[2]}
<1>1. \A x, y \in Nat : y < x => <<y, x>> \in R
  OBVIOUS
<1>2. IsWellFoundedOn(R, Nat)
  BY NatLessThanWellFounded DEF OpToRel
<1> HIDE DEF R
<1>3. PICK x \in T : \A y \in T : ~(<<y, x>> \in R)
  BY <1>2, WFMin
<1>4. ASSUME NEW y \in T PROVE x <= y
  <2>1. ~(y < x)
    BY <1>1, <1>3
  <2> QED
    BY <2>1
<1> QED
  BY <1>4

\* A bounded set of natural numbers that is not empty has a greatest member.
LEMMA GreatestNatural ==
  ASSUME NEW T \in SUBSET Nat, T # {}, NEW bound \in Nat, \A x \in T : x <= bound
  PROVE  \E x \in T : \A y \in T : y <= x
<1> DEFINE U == {n \in Nat : bound - n \in T}
<1>1. PICK z \in T : TRUE
  OBVIOUS
<1>2. bound - z \in Nat /\ bound - (bound - z) = z
  BY <1>1
<1>3. U \in SUBSET Nat /\ U # {}
  BY <1>2
<1>4. PICK u \in U : \A w \in U : u <= w
  BY <1>3, LeastNatural
<1>5. ASSUME NEW y \in T PROVE y <= bound - u
  <2>1. bound - y \in Nat /\ bound - (bound - y) = y
    OBVIOUS
  <2>2. u <= bound - y
    BY <1>4, <2>1
  <2> QED
    BY <2>1, <2>2
<1> QED
  BY <1>5

-----------------------------------------------------------------------------
(* Canonical orders *)

\* What the runtime sorts by: tuples of n integers.
Key(n) == [1 .. n -> Int]

\* Python compares two different tuples one way or the other.
LEMMA LexTotal ==
  ASSUME NEW n \in Nat, NEW a \in Key(n), NEW b \in Key(n), a # b
  PROVE  LexLess(a, b) \/ LexLess(b, a)
<1> DEFINE T == {i \in 1 .. n : a[i] # b[i]}
<1>1. T \in SUBSET Nat /\ T # {}
  BY DEF Key
<1>2. PICK i \in T : \A j \in T : i <= j
  BY <1>1, LeastNatural
<1>3. i \in 1 .. n /\ a[i] # b[i] /\ a[i] \in Int /\ b[i] \in Int
  BY DEF Key
<1>4. \A j \in 1 .. i - 1 : a[j] = b[j]
  <2>1. ASSUME NEW j \in 1 .. i - 1 PROVE a[j] = b[j]
    <3>1. j \in 1 .. n /\ ~(i <= j)
      BY <1>3
    <3> QED
      BY <1>2, <3>1
  <2> QED
    BY <2>1
<1>5. i \in DOMAIN a /\ i \in DOMAIN b
  BY <1>3 DEF Key
<1>6. a[i] < b[i] \/ b[i] < a[i]
  BY <1>3
<1>7. \A j \in 1 .. i - 1 : b[j] = a[j]
  BY <1>4
<1> QED
  BY <1>4, <1>5, <1>6, <1>7 DEF LexLess

\* No tuple comes before itself, and what comes before what comes before another comes before it.
LEMMA LexStrict ==
  ASSUME NEW n \in Nat, NEW a \in Key(n), NEW b \in Key(n), NEW c \in Key(n)
  PROVE  ~LexLess(a, a) /\ (LexLess(a, b) /\ LexLess(b, c) => LexLess(a, c))
<1>1. ~LexLess(a, a)
  BY DEF LexLess, Key
<1>2. ASSUME LexLess(a, b), LexLess(b, c) PROVE LexLess(a, c)
  <2>1. PICK i \in 1 .. n : a[i] < b[i] /\ \A j \in 1 .. i - 1 : a[j] = b[j]
    BY <1>2 DEF LexLess, Key
  <2>2. PICK k \in 1 .. n : b[k] < c[k] /\ \A j \in 1 .. k - 1 : b[j] = c[j]
    BY <1>2 DEF LexLess, Key
  <2> DEFINE m == IF i <= k THEN i ELSE k
  <2>3. m \in 1 .. n /\ m <= i /\ m <= k /\ (m = i \/ m = k)
    OBVIOUS
  <2>4. a[m] \in Int /\ b[m] \in Int /\ c[m] \in Int
    BY <2>3 DEF Key
  <2>5. a[m] <= b[m]
    <3>1. CASE m = i
      BY <2>1, <2>4, <3>1
    <3>2. CASE m # i
      <4>1. m \in 1 .. i - 1
        BY <2>3, <3>2
      <4> QED
        BY <2>1, <2>4, <4>1
    <3> QED
      BY <3>1, <3>2
  <2>6. b[m] <= c[m]
    <3>1. CASE m = k
      BY <2>2, <2>4, <3>1
    <3>2. CASE m # k
      <4>1. m \in 1 .. k - 1
        BY <2>3, <3>2
      <4> QED
        BY <2>2, <2>4, <4>1
    <3> QED
      BY <3>1, <3>2
  <2>7. a[m] < b[m] \/ b[m] < c[m]
    BY <2>1, <2>2, <2>3
  <2> HIDE DEF m
  <2>8. a[m] < c[m]
    BY <2>4, <2>5, <2>6, <2>7
  <2>9. ASSUME NEW j \in 1 .. m - 1 PROVE a[j] = c[j]
    <3>1. j \in 1 .. i - 1 /\ j \in 1 .. k - 1
      BY <2>3
    <3> QED
      BY <2>1, <2>2, <3>1
  <2>10. m \in DOMAIN a
    BY <2>3 DEF Key
  <2> QED
    BY <2>8, <2>9, <2>10 DEF LexLess
<1> QED
  BY <1>1, <1>2

\* The members of S that come before x.
Before(S, key, x) == {y \in S : LexLess(key[y], key[x])}

\* A key that tells the members of a finite set apart ranks them from 0 to their number.
LEMMA Ranked ==
  ASSUME NEW S, IsFiniteSet(S), NEW n \in Nat, NEW key \in [S -> Key(n)],
         \A x, y \in S : key[x] = key[y] => x = y
  PROVE  /\ \A x, y \in S :
              LexLess(key[x], key[y]) <=> Cardinality(Before(S, key, x)) < Cardinality(Before(S, key, y))
         /\ \A x \in S : Cardinality(Before(S, key, x)) \in 0 .. Cardinality(S) - 1
         /\ \A k \in 0 .. Cardinality(S) - 1 : \E x \in S : Cardinality(Before(S, key, x)) = k
<1> DEFINE rank == [x \in S |-> Cardinality(Before(S, key, x))]
           N == Cardinality(S)
<1>1. N \in Nat
  BY FS_CardinalityType
<1>2. ASSUME NEW x \in S
      PROVE  /\ IsFiniteSet(Before(S, key, x)) /\ Cardinality(Before(S, key, x)) \in 0 .. N - 1
             /\ x \notin Before(S, key, x)
  <2>1. x \notin Before(S, key, x) /\ Before(S, key, x) \subseteq S
    BY LexStrict DEF Before
  <2>2. IsFiniteSet(Before(S, key, x)) /\ Cardinality(Before(S, key, x)) <= N
        /\ (Cardinality(Before(S, key, x)) = N => Before(S, key, x) = S)
    BY <2>1, FS_Subset
  <2>3. Cardinality(Before(S, key, x)) \in Nat
    BY <2>2, FS_CardinalityType
  <2> QED
    BY <1>1, <2>1, <2>2, <2>3
<1>3. ASSUME NEW x \in S, NEW y \in S, LexLess(key[x], key[y])
      PROVE  Cardinality(Before(S, key, x)) < Cardinality(Before(S, key, y))
  <2>1. Before(S, key, x) \subseteq Before(S, key, y)
    BY <1>3, LexStrict DEF Before
  <2>2. x \in Before(S, key, y) /\ x \notin Before(S, key, x)
    BY <1>2, <1>3 DEF Before
  <2>3. /\ Cardinality(Before(S, key, x)) <= Cardinality(Before(S, key, y))
        /\ Cardinality(Before(S, key, x)) # Cardinality(Before(S, key, y))
    BY <1>2, <2>1, <2>2, FS_Subset
  <2> QED
    BY <1>2, <2>3
<1>4. ASSUME NEW x \in S, NEW y \in S, x # y
      PROVE  LexLess(key[x], key[y]) \/ LexLess(key[y], key[x])
  BY <1>4, LexTotal
<1>5. rank \in Injection(S, 0 .. N - 1)
  <2>1. rank \in [S -> 0 .. N - 1]
    BY <1>2
  <2>2. ASSUME NEW x \in S, NEW y \in S, rank[x] = rank[y] PROVE x = y
    <3>1. ~LexLess(key[x], key[y]) /\ ~LexLess(key[y], key[x])
      <4>1. Cardinality(Before(S, key, x)) \in Int
        BY <1>2
      <4> QED
        BY <1>3, <2>2, <4>1
    <3> QED
      BY <1>4, <3>1
  <2> HIDE DEF rank
  <2> QED
    BY <2>1, <2>2 DEF Injection, IsInjective
<1>6. rank \in Surjection(S, 0 .. N - 1)
  <2>1. IsFiniteSet(0 .. N - 1) /\ Cardinality(0 .. N - 1) = N
    BY <1>1, FS_Interval
  <2> HIDE DEF rank
  <2> QED
    BY <1>5, <2>1, FS_Injection
<1>7. ASSUME NEW k \in 0 .. N - 1 PROVE \E x \in S : Cardinality(Before(S, key, x)) = k
  <2>1. PICK x \in S : rank[x] = k
    BY <1>6, <1>7 DEF Surjection
  <2> QED
    BY <2>1
<1>8. ASSUME NEW x \in S, NEW y \in S,
             Cardinality(Before(S, key, x)) < Cardinality(Before(S, key, y))
      PROVE  LexLess(key[x], key[y])
  <2>1. ~LexLess(key[y], key[x]) /\ x # y
    <3>1. Cardinality(Before(S, key, x)) \in Int /\ Cardinality(Before(S, key, y)) \in Int
      BY <1>2
    <3> QED
      BY <1>3, <1>8, <3>1
  <2> QED
    BY <1>4, <2>1
<1> HIDE DEF N
<1> QED
  BY <1>2, <1>3, <1>7, <1>8 DEF N

\* order lists every member of S once.
Lists(order, S) ==
  /\ Cardinality(S) \in Nat /\ DOMAIN order = 1 .. Cardinality(S)
  /\ \A k \in 1 .. Cardinality(S) : order[k] \in S
  /\ \A x \in S : \E k \in 1 .. Cardinality(S) : order[k] = x
  /\ \A j, k \in 1 .. Cardinality(S) : order[j] = order[k] => j = k

\* Members in the order of their ranks are listed once each, in the order of their keys.
LEMMA Enumerated ==
  ASSUME NEW S, IsFiniteSet(S), NEW n \in Nat, NEW key \in [S -> Key(n)],
         \A x, y \in S : key[x] = key[y] => x = y, NEW order,
         DOMAIN order = 1 .. Cardinality(S),
         \A k \in 1 .. Cardinality(S) :
           order[k] \in S /\ Cardinality(Before(S, key, order[k])) = k - 1
  PROVE  /\ Lists(order, S)
         /\ \A j, k \in 1 .. Cardinality(S) : LexLess(key[order[j]], key[order[k]]) <=> j < k
<1> DEFINE N == Cardinality(S)
           rank(x) == Cardinality(Before(S, key, x))
<1>1. N \in Nat
  BY FS_CardinalityType
<1>2. ASSUME NEW k \in 1 .. N PROVE order[k] \in S /\ rank(order[k]) = k - 1
  OBVIOUS
<1>3. ASSUME NEW x \in S PROVE \E k \in 1 .. N : order[k] = x
  <2>1. rank(x) \in 0 .. N - 1
    BY Ranked
  <2>2. rank(x) + 1 \in 1 .. N /\ (rank(x) + 1) - 1 = rank(x)
    BY <1>1, <2>1
  <2>3. PICK y \in S : y = order[rank(x) + 1] /\ rank(y) = rank(x)
    BY <1>2, <2>2
  <2>4. ~LexLess(key[x], key[y]) /\ ~LexLess(key[y], key[x])
    <3>1. ~(rank(x) < rank(y)) /\ ~(rank(y) < rank(x))
      BY <2>1, <2>3
    <3> QED
      BY <3>1, Ranked
  <2>5. x = y
    <3>1. key[x] \in Key(n) /\ key[y] \in Key(n)
      OBVIOUS
    <3>2. key[x] = key[y]
      BY <2>4, <3>1, LexTotal
    <3> QED
      BY <3>2
  <2> QED
    BY <2>2, <2>3, <2>5
<1>4. ASSUME NEW j \in 1 .. N, NEW k \in 1 .. N
      PROVE  /\ order[j] = order[k] => j = k
             /\ LexLess(key[order[j]], key[order[k]]) <=> j < k
  <2>1. order[j] \in S /\ rank(order[j]) = j - 1 /\ order[k] \in S /\ rank(order[k]) = k - 1
    BY <1>2
  <2>2. LexLess(key[order[j]], key[order[k]]) <=> rank(order[j]) < rank(order[k])
    BY <2>1, Ranked
  <2>3. order[j] = order[k] => rank(order[j]) = rank(order[k])
    OBVIOUS
  <2> HIDE DEF rank, N
  <2>4. order[j] = order[k] => j = k
    BY <1>1, <2>1, <2>3
  <2>5. rank(order[j]) < rank(order[k]) <=> j < k
    BY <1>1, <2>1
  <2> QED
    BY <2>2, <2>4, <2>5
<1>5. Lists(order, S)
  BY <1>1, <1>2, <1>3, <1>4 DEF Lists
<1> HIDE DEF N
<1> QED
  BY <1>4, <1>5 DEF N

\* A set with such a key that is not empty has a first member.
LEMMA FirstExists ==
  ASSUME NEW S, IsFiniteSet(S), S # {}, NEW n \in Nat, NEW key \in [S -> Key(n)],
         \A x, y \in S : key[x] = key[y] => x = y
  PROVE  \E x \in S : \A y \in S \ {x} : LexLess(key[x], key[y])
<1>1. Cardinality(S) \in Nat /\ Cardinality(S) # 0
  BY FS_CardinalityType, FS_EmptySet
<1>2. 0 \in 0 .. Cardinality(S) - 1
  BY <1>1
<1>3. PICK x \in S : Cardinality(Before(S, key, x)) = 0
  BY <1>2, Ranked
<1>4. ASSUME NEW y \in S \ {x} PROVE LexLess(key[x], key[y])
  <2>1. ~LexLess(key[y], key[x])
    <3>1. Cardinality(Before(S, key, y)) \in 0 .. Cardinality(S) - 1
      BY Ranked
    <3>2. ~(Cardinality(Before(S, key, y)) < Cardinality(Before(S, key, x)))
      BY <1>3, <3>1
    <3> QED
      BY <3>2, Ranked
  <2>2. key[x] # key[y]
    OBVIOUS
  <2> QED
    BY <2>1, <2>2, LexTotal
<1> QED
  BY <1>4

-----------------------------------------------------------------------------
(* The capture of inputs *)

\* A buffer within its capacity, with one entry for an input.
Buffered(S, C, capacity) ==
  /\ S \subseteq BufferEntry(C) /\ IsFiniteSet(S) /\ Cardinality(S) <= capacity
  /\ \A e, f \in S : e.id = f.id => e = f

\* Entries are told apart by their age.
LEMMA OldestEntry ==
  ASSUME NEW C, NEW S \in SUBSET BufferEntry(C), IsFiniteSet(S), S # {},
         \A e, f \in S : e.id = f.id => e = f
  PROVE  /\ First(S, Age) \in S
         /\ \A y \in S \ {First(S, Age)} : LexLess(Age(First(S, Age)), Age(y))
<1> DEFINE key == [e \in S |-> Age(e)]
<1>1. ASSUME NEW e \in S PROVE Age(e) \in Key(3) /\ Age(e)[3] = e.id
  <2>1. e.at \in Int /\ e.seq \in Int /\ e.id \in Int
    BY DEF BufferEntry
  <2> QED
    BY <2>1 DEF Age, Key
<1>2. key \in [S -> Key(3)]
  BY <1>1
<1>3. ASSUME NEW x \in S, NEW y \in S, key[x] = key[y] PROVE x = y
  <2>1. Age(x) = Age(y)
    BY <1>3
  <2> QED
    BY <1>1, <2>1
<1> HIDE DEF key
<1>4. \E x \in S : \A y \in S \ {x} : LexLess(key[x], key[y])
  BY <1>2, <1>3, FirstExists
<1>5. \E x \in S : \A y \in S \ {x} : LexLess(Age(x), Age(y))
  BY <1>4 DEF key
<1> QED
  BY <1>5 DEF First

\* A capture keeps the buffer within its capacity, and what it evicts is the oldest of a full one.
LEMMA CaptureStep ==
  ASSUME NEW C, NEW S, NEW capacity \in Nat, Buffered(S, C, capacity),
         NEW entry \in BufferEntry(C), NEW policy \in OverflowPolicies,
         ~CaptureRaises(S, entry, capacity, policy),
         NEW T, T = CaptureEntry(S, entry, capacity, policy)
  PROVE  /\ Buffered(T, C, capacity) /\ T \subseteq S \union {entry}
         /\ T # S => entry \in T /\ entry \notin S
         /\ \A e \in S \ T : /\ policy = "DROP_OLDEST" /\ Cardinality(T) = capacity
                             /\ \A f \in S \ {e} : LexLess(Age(e), Age(f))
         /\ S \subseteq T \/ Cardinality(S) = capacity
<1>1. /\ S \subseteq BufferEntry(C) /\ IsFiniteSet(S) /\ Cardinality(S) <= capacity
      /\ Cardinality(S) \in Nat /\ \A e, f \in S : e.id = f.id => e = f
  BY FS_CardinalityType DEF Buffered
<1>2. CASE T = S
  BY <1>2
<1>3. CASE ~Known(S, entry.id) /\ Cardinality(S) < capacity
  <2>1. T = S \union {entry} /\ entry \notin S
    BY <1>3 DEF CaptureEntry, Known
  <2>2. IsFiniteSet(T) /\ Cardinality(T) = Cardinality(S) + 1
    BY <1>1, <2>1, FS_AddElement
  <2>3. \A e, f \in T : e.id = f.id => e = f
    BY <1>1, <1>3, <2>1 DEF Known
  <2> QED
    BY <1>1, <1>3, <2>1, <2>2, <2>3 DEF Buffered
<1>4. CASE ~Known(S, entry.id) /\ ~(Cardinality(S) < capacity) /\ capacity # 0
           /\ policy # "DROP_NEWEST"
  <2> DEFINE o == First(S, Age)
  <2>1. policy = "DROP_OLDEST" /\ Cardinality(S) = capacity /\ capacity > 0
    BY <1>1, <1>4 DEF CaptureRaises, OverflowPolicies
  <2>2. S # {}
    BY <1>1, <2>1, FS_EmptySet
  <2>3. o \in S /\ \A y \in S \ {o} : LexLess(Age(o), Age(y))
    BY <1>1, <2>2, OldestEntry
  <2>4. T = (S \ {o}) \union {entry}
    BY <1>4 DEF CaptureEntry
  <2> HIDE DEF o
  <2>5. entry \notin S
    BY <1>4 DEF Known
  <2>6. IsFiniteSet(S \ {o}) /\ Cardinality(S \ {o}) = Cardinality(S) - 1
    BY <1>1, <2>3, FS_RemoveElement
  <2>7. IsFiniteSet(T) /\ Cardinality(T) = capacity
    <3> DEFINE R == S \ {o}
    <3>1. entry \notin R /\ T = R \union {entry} /\ IsFiniteSet(R)
      BY <2>4, <2>5, <2>6
    <3>2. Cardinality(R) = Cardinality(S) - 1
      BY <2>6
    <3> HIDE DEF R
    <3>3. IsFiniteSet(T) /\ Cardinality(T) = Cardinality(R) + 1
      BY <3>1, FS_AddElement
    <3> QED
      BY <1>1, <2>1, <3>2, <3>3
  <2>8. \A e, f \in T : e.id = f.id => e = f
    BY <1>1, <1>4, <2>4 DEF Known
  <2>9. Buffered(T, C, capacity)
    BY <1>1, <2>4, <2>7, <2>8 DEF Buffered
  <2> QED
    BY <2>1, <2>3, <2>4, <2>5, <2>7, <2>9
<1> QED
  BY <1>2, <1>3, <1>4 DEF CaptureEntry

\* after is what entry after entry makes of the buffer S.
Capturing(after, S, entries, capacity, policy) ==
  after = [n \in 0 .. Len(entries) |->
             IF n = 0 THEN S ELSE CaptureEntry(after[n - 1], entries[n], capacity, policy)]

\* The recursion that Captured writes down has a solution.
LEMMA CapturingExists ==
  ASSUME NEW S, NEW entries, Len(entries) \in Nat, NEW capacity, NEW policy
  PROVE  \E after : Capturing(after, S, entries, capacity, policy)
<1> DEFINE Upto(f, n) ==
             f = [k \in 0 .. n |->
                    IF k = 0 THEN S ELSE CaptureEntry(f[k - 1], entries[k], capacity, policy)]
           T == {n \in Nat : ~\E f : Upto(f, n)}
<1>1. \E f : Upto(f, 0)
  <2> DEFINE f == [k \in 0 .. 0 |-> S]
  <2>1. Upto(f, 0)
    OBVIOUS
  <2> QED
    BY <2>1
<1>2. ASSUME NEW n \in Nat, \E f : Upto(f, n) PROVE \E f : Upto(f, n + 1)
  <2>1. PICK f : Upto(f, n)
    BY <1>2
  <2> DEFINE last == CaptureEntry(f[n], entries[n + 1], capacity, policy)
             g == [k \in 0 .. n + 1 |-> IF k = n + 1 THEN last ELSE f[k]]
  <2>2. \A k \in 0 .. n : g[k] = f[k]
    OBVIOUS
  <2>3. g[n + 1] = last
    OBVIOUS
  <2>4. ASSUME NEW k \in 0 .. n + 1
        PROVE  g[k] = IF k = 0 THEN S ELSE CaptureEntry(g[k - 1], entries[k], capacity, policy)
    <3>1. CASE k = 0
      <4>1. f[0] = S
        BY <2>1
      <4> QED
        BY <2>2, <3>1, <4>1
    <3>2. CASE k \in 1 .. n
      <4>1. k - 1 \in 0 .. n /\ k \in 0 .. n
        BY <3>2
      <4>2. f[k] = CaptureEntry(f[k - 1], entries[k], capacity, policy)
        BY <2>1, <3>2, <4>1
      <4>3. g[k] = f[k] /\ g[k - 1] = f[k - 1]
        BY <2>2, <4>1
      <4> QED
        BY <3>2, <4>2, <4>3
    <3>3. CASE k = n + 1
      <4>1. g[k - 1] = f[n]
        BY <2>2, <3>3
      <4> QED
        BY <2>3, <3>3, <4>1
    <3> QED
      BY <3>1, <3>2, <3>3
  <2>5. g = [k \in 0 .. n + 1 |-> g[k]]
    OBVIOUS
  <2> HIDE DEF g
  <2>6. Upto(g, n + 1)
    BY <2>4, <2>5
  <2> QED
    BY <2>6
<1> HIDE DEF Upto
<1>3. T = {}
  <2> SUFFICES ASSUME T # {} PROVE FALSE
    OBVIOUS
  <2>1. PICK n \in T : \A m \in T : n <= m
    BY LeastNatural
  <2>2. n # 0 /\ n \in Nat
    BY <1>1, <2>1
  <2>3. n - 1 \in Nat /\ n - 1 \notin T
    BY <2>1, <2>2
  <2>4. \E f : Upto(f, n - 1 + 1)
    BY <1>2, <2>3
  <2> QED
    BY <2>1, <2>2, <2>4
<1>4. PICK f : Upto(f, Len(entries))
  BY <1>3
<1> QED
  BY <1>4 DEF Upto, Capturing

\* after are the buffers between the captures of tick t, none of which raises.
CaptureRun(after, S, C, entries, t, capacity, policy) ==
  /\ capacity \in Nat /\ t \in Nat /\ policy \in OverflowPolicies /\ Len(entries) \in Nat
  /\ Buffered(S, C, capacity) /\ \A e \in S : e.at < t
  /\ \A k \in 1 .. Len(entries) : entries[k] \in BufferEntry(C) /\ entries[k].at = t
  /\ Capturing(after, S, entries, capacity, policy)
  /\ \A k \in 1 .. Len(entries) : ~CaptureRaises(after[k - 1], entries[k], capacity, policy)

\* A tick's captures keep the buffer within its capacity, and an entry from before the tick goes
\* only when it is older than what is left of a full buffer.
LEMMA CapturingEvicts ==
  ASSUME NEW after, NEW S, NEW C, NEW entries, NEW t, NEW capacity, NEW policy,
         CaptureRun(after, S, C, entries, t, capacity, policy), NEW m \in 0 .. Len(entries)
  PROVE  /\ Buffered(after[m], C, capacity)
         /\ \A e \in after[m] : e \in S \/ \E k \in 1 .. m : e = entries[k]
         /\ \A e \in S \ after[m] : /\ policy = "DROP_OLDEST"
                                    /\ Cardinality(after[m]) = capacity
                                    /\ \A f \in after[m] : LexLess(Age(e), Age(f))
<1> DEFINE Good(n) == /\ Buffered(after[n], C, capacity)
                      /\ \A e \in after[n] : e \in S \/ \E k \in 1 .. n : e = entries[k]
                      /\ \A e \in S \ after[n] : /\ policy = "DROP_OLDEST"
                                                 /\ Cardinality(after[n]) = capacity
                                                 /\ \A f \in after[n] : LexLess(Age(e), Age(f))
           bad == {n \in 0 .. Len(entries) : ~Good(n)}
<1> USE DEF CaptureRun
<1>1. Good(0)
  <2>1. after[0] = S
    BY DEF Capturing
  <2> QED
    BY <2>1
<1>2. ASSUME NEW n \in 1 .. Len(entries), Good(n - 1) PROVE Good(n)
  <2> DEFINE A == after[n - 1]
             B == after[n]
             entry == entries[n]
  <2>1. n - 1 \in Nat /\ n - 1 \in 0 .. Len(entries) /\ n \in 0 .. Len(entries) /\ n # 0
    OBVIOUS
  <2>2. B = CaptureEntry(A, entry, capacity, policy)
    BY <2>1 DEF Capturing
  <2>3. /\ Buffered(A, C, capacity)
        /\ \A e \in A : e \in S \/ \E k \in 1 .. n - 1 : e = entries[k]
        /\ \A e \in S \ A : /\ policy = "DROP_OLDEST" /\ Cardinality(A) = capacity
                            /\ \A f \in A : LexLess(Age(e), Age(f))
    BY <1>2
  <2>4. entry \in BufferEntry(C) /\ entry.at = t /\ ~CaptureRaises(A, entry, capacity, policy)
    OBVIOUS
  <2> HIDE DEF A, B, entry
  <2>5. /\ Buffered(B, C, capacity) /\ B \subseteq A \union {entry}
        /\ B # A => entry \in B /\ entry \notin A
        /\ \A e \in A \ B : /\ policy = "DROP_OLDEST" /\ Cardinality(B) = capacity
                            /\ \A f \in A \ {e} : LexLess(Age(e), Age(f))
        /\ A \subseteq B \/ Cardinality(A) = capacity
    BY <2>2, <2>3, <2>4, CaptureStep
  <2>6. ASSUME NEW e \in S PROVE LexLess(Age(e), Age(entry))
    <3>1. e \in BufferEntry(C) /\ e.at < t /\ e.at \in Nat
      BY DEF Buffered, BufferEntry
    <3>2. Age(e)[1] = e.at /\ Age(entry)[1] = t /\ 1 \in DOMAIN Age(e)
      BY <2>4 DEF Age
    <3>3. \A j \in 1 .. 1 - 1 : Age(e)[j] = Age(entry)[j]
      OBVIOUS
    <3> QED
      BY <3>1, <3>2, <3>3 DEF LexLess
  <2>7. ASSUME NEW e \in B PROVE e \in S \/ \E k \in 1 .. n : e = entries[k]
    <3>1. CASE e = entry
      BY <3>1 DEF entry
    <3>2. CASE e # entry
      BY <2>3, <2>5, <3>2
    <3> QED
      BY <3>1, <3>2
  <2>8. ASSUME NEW e \in S \ B
        PROVE  policy = "DROP_OLDEST" /\ Cardinality(B) = capacity
               /\ \A f \in B : LexLess(Age(e), Age(f))
    <3>1. CASE e \in A
      <4>1. e \in A \ B
        BY <3>1
      <4>2. \A f \in B : f = entry \/ f \in A \ {e}
        BY <2>5
      <4> QED
        BY <2>5, <2>6, <4>1, <4>2
    <3>2. CASE e \notin A
      <4>1. /\ policy = "DROP_OLDEST" /\ Cardinality(A) = capacity
            /\ \A f \in A : LexLess(Age(e), Age(f))
        BY <2>3, <3>2
      <4>2. Cardinality(B) = capacity
        <5>1. CASE B = A
          BY <4>1, <5>1
        <5>2. CASE B # A /\ A \subseteq B
          <6>1. IsFiniteSet(B) /\ IsFiniteSet(A) /\ Cardinality(B) <= capacity
            BY <2>3, <2>5 DEF Buffered
          <6>2. B = A
            <7>1. Cardinality(A) <= Cardinality(B) /\ (Cardinality(B) = Cardinality(A) => B = A)
              BY <5>2, <6>1, FS_Subset
            <7>2. Cardinality(A) \in Nat /\ Cardinality(B) \in Nat
              BY <6>1, FS_CardinalityType
            <7> QED
              BY <4>1, <6>1, <7>1, <7>2
          <6> QED
            BY <4>1, <6>2
        <5>3. CASE \E x \in A : x \notin B
          BY <2>5, <5>3
        <5> QED
          BY <5>1, <5>2, <5>3
      <4>3. \A f \in B : f = entry \/ f \in A
        BY <2>5
      <4> QED
        BY <2>6, <4>1, <4>2, <4>3
    <3> QED
      BY <3>1, <3>2
  <2> QED
    BY <2>5, <2>7, <2>8 DEF B
<1> HIDE DEF Good
<1>3. bad = {}
  <2> SUFFICES ASSUME bad # {} PROVE FALSE
    OBVIOUS
  <2>1. bad \in SUBSET Nat
    OBVIOUS
  <2>2. PICK n \in bad : \A l \in bad : n <= l
    BY <2>1, LeastNatural
  <2>3. n \in 1 .. Len(entries) /\ ~Good(n)
    BY <1>1, <2>2
  <2>4. n - 1 \in 0 .. Len(entries) /\ n - 1 \notin bad
    BY <2>2, <2>3
  <2> QED
    BY <1>2, <2>3, <2>4
<1>4. \A n \in 0 .. Len(entries) : Good(n)
  BY <1>3
<1> QED
  BY <1>4 DEF Good

-----------------------------------------------------------------------------
(* The progression of a tick *)

\* run is what quantum after quantum makes of a.
Run(run, n, a, lifecycle) ==
  run = [k \in 0 .. n |->
           IF k = 0 THEN [Carried(a) EXCEPT !.deferred = 0] ELSE Quantum(run[k - 1], lifecycle)]

\* The recursion that AfterQuanta writes down has a solution.
LEMMA RunExists ==
  ASSUME NEW a, NEW lifecycle, NEW n \in Nat
  PROVE  \E run : Run(run, n, a, lifecycle)
<1> DEFINE without == {k \in Nat : ~\E run : Run(run, k, a, lifecycle)}
<1> SUFFICES ASSUME without # {} PROVE FALSE
  OBVIOUS
<1>1. PICK k \in without : \A j \in without : k <= j
  BY LeastNatural
<1>2. CASE k = 0
  <2> DEFINE run == [j \in 0 .. 0 |-> [Carried(a) EXCEPT !.deferred = 0]]
  <2>1. Run(run, 0, a, lifecycle)
    BY DEF Run
  <2> QED
    BY <1>2, <2>1
<1>3. CASE k # 0
  <2>1. k - 1 \in Nat /\ k - 1 \notin without
    BY <1>1, <1>3
  <2>2. PICK before : Run(before, k - 1, a, lifecycle)
    BY <2>1
  <2> DEFINE run == [j \in 0 .. k |-> IF j = k THEN Quantum(before[k - 1], lifecycle) ELSE before[j]]
  <2>3. ASSUME NEW j \in 0 .. k
        PROVE  run[j] = IF j = 0 THEN [Carried(a) EXCEPT !.deferred = 0]
                        ELSE Quantum(run[j - 1], lifecycle)
    <3>1. CASE j = k
      BY <1>3, <3>1
    <3>2. CASE j # k
      <4>1. j \in 0 .. k - 1 /\ (j # 0 => j - 1 \in 0 .. k - 1 /\ j - 1 # k)
        BY <1>3, <3>2
      <4>2. run[j] = before[j] /\ (j # 0 => run[j - 1] = before[j - 1])
        BY <3>2, <4>1
      <4>3. before[j] = IF j = 0 THEN [Carried(a) EXCEPT !.deferred = 0]
                        ELSE Quantum(before[j - 1], lifecycle)
        BY <2>2, <4>1 DEF Run
      <4> HIDE DEF run
      <4> QED
        BY <4>2, <4>3
    <3> QED
      BY <3>1, <3>2
  <2>4. Run(run, k, a, lifecycle)
    BY <2>3 DEF Run
  <2> QED
    BY <2>4
<1> QED
  BY <1>2, <1>3

\* AfterQuanta is such a solution.
LEMMA AfterQuantaRuns ==
  ASSUME NEW a, NEW lifecycle, QuantaOf(a) \in Nat
  PROVE  Run(AfterQuanta(a, lifecycle), QuantaOf(a), a, lifecycle)
<1>1. \E run : Run(run, QuantaOf(a), a, lifecycle)
  BY RunExists
<1> QED
  BY <1>1 DEF Run, AfterQuanta
-----------------------------------------------------------------------------
(* What is counted *)

\* What a rate generates is carried over exactly: nothing is lost to rounding.
LEMMA Carrying ==
  ASSUME NEW a \in Clock
  PROVE  /\ Generated(a) \in Nat /\ QuantaOf(a) \in Nat
         /\ (a.acc + a.rate) % RateScale \in 0 .. RateScale - 1
         /\ RateScale * Generated(a) + ((a.acc + a.rate) % RateScale) = a.acc + a.rate
<1>1. a.acc + a.rate \in Nat /\ a.deferred \in Nat /\ RateScale \in Nat /\ RateScale > 0
  BY TimelineAssumption DEF Clock
<1> DEFINE x == a.acc + a.rate
<1>2. x \in Nat
  BY <1>1
<1> HIDE DEF x
<1>3. x \div RateScale \in Nat /\ x % RateScale \in 0 .. RateScale - 1
  BY <1>1, <1>2
<1>4. RateScale * (x \div RateScale) + (x % RateScale) = x
  BY <1>1, <1>2, Z3
<1>5. a.acc + a.rate = x /\ Generated(a) = x \div RateScale
  BY DEF x, Generated
<1>6. Generated(a) \in Nat /\ QuantaOf(a) \in Nat
  BY <1>1, <1>3, <1>5 DEF QuantaOf
<1> QED
  BY <1>3, <1>4, <1>5, <1>6
-----------------------------------------------------------------------------
(* The place in the timeline *)

\* Where a running action is in its timeline follows from the steps it has made.
InPlace(a, lifecycle) ==
  /\ a.step < Steps
  /\ lifecycle = "LOOP" => a.cycle * Steps + a.step = a.local
  /\ lifecycle = "HOLD" => a.step = IF a.local < Steps THEN a.local ELSE Steps - 1
  /\ lifecycle # "LOOP" => a.cycle = 0

\* b is what n quanta leave of a, whose rate has been carried over.
Reached(b, n, a, lifecycle) ==
  /\ b \in Clock
  /\ b.acc = (a.acc + a.rate) % RateScale /\ b.deferred = 0
  /\ b.rate = a.rate \/ (lifecycle = "HOLD" /\ b.rate = 0)
  /\ b.life \in {"RUNNING", "TERMINATED"}
  /\ b.life = "RUNNING" => b.local = a.local + n /\ InPlace(b, lifecycle)

\* Another quantum moves a by one step, from the end of the timeline as its lifecycle says.
LEMMA QuantumReaches ==
  ASSUME NEW a \in Clock, NEW lifecycle \in Lifecycles, NEW n \in Nat, NEW b,
         Reached(b, n, a, lifecycle)
  PROVE  Reached(Quantum(b, lifecycle), n + 1, a, lifecycle)
<1> DEFINE c == [b EXCEPT !.step = @ + 1, !.local = @ + 1]
<1>1. b \in Clock /\ Steps \in Nat /\ Steps > 0
  BY TimelineAssumption DEF Reached
<1>2. b.step \in Nat /\ b.local \in Nat /\ b.cycle \in Nat /\ a.local \in Nat
  BY <1>1 DEF Clock
<1>3. /\ c \in Clock /\ c.life = b.life /\ c.step = b.step + 1 /\ c.local = b.local + 1
      /\ c.cycle = b.cycle /\ c.acc = b.acc /\ c.deferred = b.deferred /\ c.rate = b.rate
  <2> DEFINE x == b.step + 1
             y == b.local + 1
  <2>1. x \in Nat /\ y \in Nat
    BY <1>2
  <2>2. c = [b EXCEPT !.step = x, !.local = y]
    OBVIOUS
  <2> HIDE DEF x, y, c
  <2>3. /\ c \in Clock /\ c.life = b.life /\ c.step = x /\ c.local = y
        /\ c.cycle = b.cycle /\ c.acc = b.acc /\ c.deferred = b.deferred /\ c.rate = b.rate
    BY <1>1, <2>1, <2>2 DEF Clock
  <2> QED
    BY <2>3 DEF x, y
<1> HIDE DEF c
<1>4. CASE b.life # "RUNNING"
  BY <1>4 DEF Quantum, Reached
<1>5. CASE b.life = "RUNNING" /\ c.step < Steps
  <2>1. Quantum(b, lifecycle) = c
    BY <1>1, <1>2, <1>3, <1>5 DEF Quantum, c
  <2>2. b.local = a.local + n /\ InPlace(b, lifecycle)
    BY <1>5 DEF Reached
  <2>3. c.local = a.local + (n + 1)
    BY <1>2, <1>3, <2>2
  <2>4. lifecycle = "LOOP" => c.cycle * Steps + c.step = c.local
    <3>1. b.cycle * Steps \in Int
      BY <1>1, <1>2
    <3>2. lifecycle = "LOOP" => b.cycle * Steps + b.step = b.local
      BY <2>2 DEF InPlace
    <3> DEFINE m == b.cycle * Steps
    <3> HIDE DEF m
    <3>3. m \in Int /\ (lifecycle = "LOOP" => m + b.step = b.local)
      BY <3>1, <3>2 DEF m
    <3>4. lifecycle = "LOOP" => m + c.step = c.local
      BY <1>2, <1>3, <3>3
    <3> QED
      BY <1>3, <3>4 DEF m
  <2>5. lifecycle = "HOLD" => c.step = IF c.local < Steps THEN c.local ELSE Steps - 1
    BY <1>1, <1>2, <1>3, <1>5, <2>2 DEF InPlace
  <2> QED
    BY <1>3, <1>5, <2>1, <2>3, <2>4, <2>5 DEF Reached, InPlace
<1>6. CASE b.life = "RUNNING" /\ ~(c.step < Steps)
  <2>1. Quantum(b, lifecycle) = AtEnd(c, lifecycle)
    BY <1>1, <1>2, <1>3, <1>6 DEF Quantum, c
  <2>2. b.local = a.local + n /\ InPlace(b, lifecycle)
    BY <1>6 DEF Reached
  <2>3. c.local = a.local + (n + 1) /\ b.step = Steps - 1
    BY <1>1, <1>2, <1>3, <1>6, <2>2 DEF InPlace
  <2>4. CASE lifecycle = "TERMINATE"
    <3> DEFINE d == [c EXCEPT !.life = "TERMINATED"]
    <3>1. AtEnd(c, lifecycle) = d
      BY <2>4 DEF AtEnd
    <3>2. d \in Clock /\ d.life = "TERMINATED" /\ d.acc = c.acc /\ d.deferred = c.deferred
          /\ d.rate = c.rate
      BY <1>3 DEF Clock
    <3> HIDE DEF d
    <3> QED
      BY <1>3, <2>1, <3>1, <3>2 DEF Reached
  <2>5. CASE lifecycle = "LOOP"
    <3> DEFINE d == [c EXCEPT !.step = 0, !.cycle = @ + 1]
    <3>1. AtEnd(c, lifecycle) = d
      BY <2>5 DEF AtEnd
    <3>2. d \in Clock /\ d.life = c.life /\ d.acc = c.acc /\ d.deferred = c.deferred
          /\ d.rate = c.rate /\ d.step = 0 /\ d.cycle = c.cycle + 1 /\ d.local = c.local
      <4> DEFINE x == c.cycle + 1
      <4>1. x \in Nat
        BY <1>2, <1>3
      <4>2. d = [c EXCEPT !.step = 0, !.cycle = x]
        OBVIOUS
      <4> HIDE DEF x, d
      <4>3. d \in Clock /\ d.life = c.life /\ d.acc = c.acc /\ d.deferred = c.deferred
            /\ d.rate = c.rate /\ d.step = 0 /\ d.cycle = x /\ d.local = c.local
        BY <1>3, <4>1, <4>2 DEF Clock
      <4> QED
        BY <4>3 DEF x
    <3> HIDE DEF d
    <3>3. b.cycle * Steps + b.step = b.local
      BY <2>2, <2>5 DEF InPlace
    <3>4. (b.cycle + 1) * Steps = b.cycle * Steps + Steps /\ b.cycle * Steps \in Int
      BY <1>1, <1>2, Z3
    <3>5. d.cycle * Steps + d.step = d.local
      <4>1. d.cycle * Steps = b.cycle * Steps + Steps
        BY <1>3, <3>2, <3>4
      <4> DEFINE m == b.cycle * Steps
                 w == d.cycle * Steps
      <4>2. m \in Int /\ w = m + Steps /\ m + b.step = b.local
        BY <3>3, <3>4, <4>1
      <4> HIDE DEF m, w
      <4>3. w + d.step = d.local
        BY <1>1, <1>2, <1>3, <2>3, <3>2, <4>2
      <4> QED
        BY <4>3 DEF w
    <3> QED
      BY <1>1, <1>3, <2>1, <2>3, <2>5, <3>1, <3>2, <3>5 DEF Reached, InPlace
  <2>6. CASE lifecycle = "HOLD"
    <3> DEFINE d == [c EXCEPT !.step = Steps - 1, !.rate = 0]
    <3>1. AtEnd(c, lifecycle) = d
      BY <2>6 DEF AtEnd
    <3>2. d \in Clock /\ d.life = c.life /\ d.acc = c.acc /\ d.deferred = c.deferred
          /\ d.rate = 0 /\ d.step = Steps - 1 /\ d.local = c.local /\ d.cycle = c.cycle
      <4> DEFINE x == Steps - 1
      <4>1. x \in Nat
        BY <1>1
      <4>2. d = [c EXCEPT !.step = x, !.rate = 0]
        OBVIOUS
      <4> HIDE DEF x, d
      <4>3. d \in Clock /\ d.life = c.life /\ d.acc = c.acc /\ d.deferred = c.deferred
            /\ d.rate = 0 /\ d.step = x /\ d.local = c.local /\ d.cycle = c.cycle
        BY <1>3, <4>1, <4>2 DEF Clock
      <4> QED
        BY <4>3 DEF x
    <3> HIDE DEF d
    <3>3. ~(d.local < Steps)
      BY <1>1, <1>2, <1>3, <2>2, <2>3, <2>6, <3>2 DEF InPlace
    <3>4. d.cycle = 0
      BY <1>3, <2>2, <2>6, <3>2 DEF InPlace
    <3> QED
      BY <1>1, <1>3, <2>1, <2>3, <2>6, <3>1, <3>2, <3>3, <3>4 DEF Reached, InPlace
  <2> QED
    BY <2>4, <2>5, <2>6 DEF Lifecycles
<1> QED
  BY <1>4, <1>5, <1>6

\* The quanta of a tick, one after the other.
LEMMA QuantaReach ==
  ASSUME NEW a \in Clock, a.life = "RUNNING", NEW lifecycle \in Lifecycles,
         InPlace(a, lifecycle), NEW n \in 0 .. QuantaOf(a)
  PROVE  Reached(AfterQuanta(a, lifecycle)[n], n, a, lifecycle)
<1> DEFINE run == AfterQuanta(a, lifecycle)
           wrong == {k \in Nat : k \in 0 .. QuantaOf(a) /\ ~Reached(run[k], k, a, lifecycle)}
<1>1. QuantaOf(a) \in Nat
  BY Carrying
<1>2. Run(run, QuantaOf(a), a, lifecycle)
  BY <1>1, AfterQuantaRuns
<1> HIDE DEF run
<1> SUFFICES ASSUME wrong # {} PROVE FALSE
  BY <1>1 DEF run
<1>3. PICK k \in wrong : \A j \in wrong : k <= j
  BY LeastNatural
<1>4. CASE k = 0
  <2> DEFINE b == [[a EXCEPT !.acc = (@ + a.rate) % RateScale] EXCEPT !.deferred = 0]
  <2>1. run[k] = b
    BY <1>1, <1>2, <1>4 DEF Run, Carried
  <2>2. (a.acc + a.rate) % RateScale \in 0 .. RateScale - 1
    BY Carrying
  <2>3. /\ b \in Clock /\ b.life = a.life /\ b.acc = (a.acc + a.rate) % RateScale /\ b.deferred = 0
        /\ b.rate = a.rate /\ b.local = a.local /\ b.step = a.step /\ b.cycle = a.cycle
    BY <2>2 DEF Clock
  <2>4. a.local \in Nat
    BY DEF Clock
  <2> HIDE DEF b
  <2>5. Reached(b, 0, a, lifecycle)
    BY <2>3, <2>4 DEF Reached, InPlace
  <2> QED
    BY <1>4, <2>1, <2>5
<1>5. CASE k # 0
  <2>1. k - 1 \in Nat /\ k - 1 \in 0 .. QuantaOf(a) /\ k - 1 \notin wrong /\ (k - 1) + 1 = k
    BY <1>1, <1>3, <1>5
  <2>2. Reached(run[k - 1], k - 1, a, lifecycle)
    BY <2>1
  <2>3. run[k] = Quantum(run[k - 1], lifecycle)
    BY <1>2, <1>5 DEF Run
  <2> QED
    BY <2>1, <2>2, <2>3, QuantumReaches
<1> QED
  BY <1>4, <1>5
\* All that the rate has generated for a so far, in units of 1 / RateScale quanta: the steps
\* made, the quanta deferred and the rest.
Accrued(a) == RateScale * (a.local + a.deferred) + a.acc

\* Whatever the freezes of a tick are, its progression keeps the type and the place of the
\* action, and the action is given its rate exactly unless HOLD stops it.
LEMMA Progressing ==
  ASSUME NEW a \in Clock, a.life = "RUNNING", NEW lifecycle \in Lifecycles,
         InPlace(a, lifecycle), NEW frozen \in {"NONE", "HOLD", "ACCRUE"},
         NEW b, b = Progress(a, lifecycle, frozen)
  PROVE  /\ b \in Clock /\ b.life \in {"RUNNING", "TERMINATED"}
         /\ b.rate = a.rate \/ (lifecycle = "HOLD" /\ b.rate = 0)
         /\ b.life = "RUNNING" =>
              /\ InPlace(b, lifecycle)
              /\ Accrued(b) = IF frozen = "HOLD" THEN Accrued(a) ELSE Accrued(a) + a.rate
<1> DEFINE acc == (a.acc + a.rate) % RateScale
           u == a.local + a.deferred
           G == Generated(a)
<1>1. /\ RateScale \in Nat /\ a.local \in Nat /\ a.deferred \in Nat /\ a.acc \in Nat
      /\ a.rate \in Nat /\ u \in Nat
  BY TimelineAssumption DEF Clock
<1>2. acc \in 0 .. RateScale - 1 /\ G \in Nat /\ RateScale * G + acc = a.acc + a.rate
  BY Carrying
<1>3. RateScale * (u + G) = RateScale * u + RateScale * G
      /\ RateScale * u \in Int /\ RateScale * G \in Int
  BY <1>1, <1>2, Z3
<1>4. Accrued(a) = RateScale * u + a.acc
  BY DEF Accrued
<1>5. RateScale * (u + G) + acc = Accrued(a) + a.rate
  <2> DEFINE x == RateScale * u
             y == RateScale * G
             z == RateScale * (u + G)
  <2>1. x \in Int /\ y \in Int /\ z = x + y /\ y + acc = a.acc + a.rate /\ Accrued(a) = x + a.acc
        /\ acc \in Int
    BY <1>1, <1>2, <1>3, <1>4
  <2> HIDE DEF x, y, z, acc
  <2>2. z + acc = Accrued(a) + a.rate
    BY <1>1, <2>1
  <2> QED
    BY <2>2 DEF z
<1> HIDE DEF acc, u, G
<1>6. CASE frozen = "HOLD"
  <2>1. b = a
    BY <1>6 DEF Progress
  <2> QED
    BY <1>6, <2>1
<1>7. CASE frozen = "ACCRUE"
  <2> DEFINE d == a.deferred + G
  <2>1. b = [[a EXCEPT !.acc = acc] EXCEPT !.deferred = d]
    BY <1>7 DEF Progress, Carried, acc, G
  <2>2. d \in Nat /\ a.local + d = u + G
    BY <1>1, <1>2 DEF u
  <2> HIDE DEF d
  <2>3. /\ b \in Clock /\ b.life = a.life /\ b.acc = acc /\ b.deferred = d /\ b.rate = a.rate
        /\ b.local = a.local /\ b.step = a.step /\ b.cycle = a.cycle
    BY <1>2, <2>1, <2>2 DEF Clock
  <2>4. Accrued(b) = RateScale * (u + G) + acc
    BY <2>2, <2>3 DEF Accrued
  <2> QED
    BY <1>5, <1>7, <2>3, <2>4 DEF InPlace
<1>8. CASE frozen = "NONE"
  <2> DEFINE Q == QuantaOf(a)
  <2>1. Q \in Nat /\ Q \in 0 .. Q /\ Q = G + a.deferred
    BY <1>1, <1>2 DEF QuantaOf, G
  <2>2. b = AfterQuanta(a, lifecycle)[Q]
    BY <1>8 DEF Progress
  <2>3. Reached(b, Q, a, lifecycle)
    BY <2>1, <2>2, QuantaReach
  <2>4. b.life = "RUNNING" => b.local + b.deferred = u + G
    BY <1>1, <1>2, <2>1, <2>3 DEF Reached, u
  <2>5. b.life = "RUNNING" => Accrued(b) = RateScale * (u + G) + acc
    BY <2>3, <2>4 DEF Accrued, Reached, acc
  <2> QED
    BY <1>5, <1>8, <2>3, <2>5 DEF Reached
<1> QED
  BY <1>6, <1>7, <1>8
-----------------------------------------------------------------------------
(* Sums *)

Pick(s) == CHOOSE x \in s : TRUE

\* it sums w over the members of s.
SumsUp(it, w, s) == it[s] = IF s = {} THEN 0 ELSE w[Pick(s)] + it[s \ {Pick(s)}]

Summing(it, w, S) ==
  it = [s \in SUBSET S |-> IF s = {} THEN 0 ELSE w[Pick(s)] + it[s \ {Pick(s)}]]

\* The recursion that the fold writes down has a solution.
LEMMA SummingExists ==
  ASSUME NEW S, IsFiniteSet(S), NEW w
  PROVE  \E it : Summing(it, w, S)
<1> DEFINE Upto(n) == \E f : \A s \in SUBSET S : Cardinality(s) <= n => SumsUp(f, w, s)
           without == {n \in Nat : ~Upto(n)}
<1>1. ASSUME NEW s \in SUBSET S
      PROVE  /\ IsFiniteSet(s) /\ Cardinality(s) \in Nat /\ (Cardinality(s) = 0 <=> s = {})
             /\ s # {} => Pick(s) \in s /\ Cardinality(s \ {Pick(s)}) = Cardinality(s) - 1
  <2>1. IsFiniteSet(s)
    BY FS_Subset
  <2>2. Cardinality(s) \in Nat /\ (Cardinality(s) = 0 <=> s = {})
    BY <2>1, FS_CardinalityType, FS_EmptySet
  <2>3. s # {} => Pick(s) \in s
    BY DEF Pick
  <2> QED
    BY <2>1, <2>2, <2>3, FS_RemoveElement
<1>2. Upto(0)
  <2> DEFINE f == [s \in SUBSET S |-> 0]
  <2>1. ASSUME NEW s \in SUBSET S, Cardinality(s) <= 0 PROVE SumsUp(f, w, s)
    <3>1. Cardinality(s) \in Nat /\ (Cardinality(s) = 0 <=> s = {})
      BY <1>1
    <3>2. s = {} /\ f[s] = 0
      BY <2>1, <3>1
    <3> HIDE DEF f
    <3> QED
      BY <3>2 DEF SumsUp
  <2> QED
    BY <2>1
<1>3. ASSUME NEW n \in Nat, Upto(n) PROVE Upto(n + 1)
  <2>1. PICK f : \A s \in SUBSET S : Cardinality(s) <= n => SumsUp(f, w, s)
    BY <1>3
  <2> DEFINE g == [s \in SUBSET S |-> IF Cardinality(s) = n + 1
                                      THEN w[Pick(s)] + f[s \ {Pick(s)}] ELSE f[s]]
  <2>2. ASSUME NEW s \in SUBSET S, Cardinality(s) <= n + 1 PROVE SumsUp(g, w, s)
    <3>1. CASE s = {}
      <4>1. Cardinality(s) = 0
        BY <3>1, FS_EmptySet
      <4>2. SumsUp(f, w, s) /\ g[s] = f[s]
        BY <2>1, <4>1
      <4> HIDE DEF g
      <4> QED
        BY <3>1, <4>2 DEF SumsUp
    <3>2. CASE s # {}
      <4> DEFINE r == s \ {Pick(s)}
      <4>1. r \in SUBSET S /\ Cardinality(r) = Cardinality(s) - 1 /\ Cardinality(s) \in Nat
        BY <1>1, <3>2
      <4>2. g[r] = f[r]
        BY <2>2, <4>1
      <4>3. g[s] = w[Pick(s)] + f[r]
        <5>1. CASE Cardinality(s) = n + 1
          BY <5>1
        <5>2. CASE Cardinality(s) # n + 1
          <6>1. g[s] = f[s] /\ SumsUp(f, w, s)
            BY <2>1, <2>2, <4>1, <5>2
          <6> QED
            BY <3>2, <6>1 DEF SumsUp
        <5> QED
          BY <5>1, <5>2
      <4> HIDE DEF g
      <4> QED
        BY <3>2, <4>2, <4>3 DEF SumsUp
    <3> QED
      BY <3>1, <3>2
  <2> HIDE DEF g
  <2> QED
    BY <2>2
<1> HIDE DEF Upto
<1>4. without = {}
  <2> SUFFICES ASSUME without # {} PROVE FALSE
    OBVIOUS
  <2>1. PICK n \in without : \A m \in without : n <= m
    BY LeastNatural
  <2>2. n \in Nat /\ n # 0
    BY <1>2, <2>1
  <2>3. n - 1 \in Nat /\ n - 1 \notin without /\ n - 1 + 1 = n
    BY <2>1, <2>2
  <2>4. Upto(n - 1 + 1)
    BY <1>3, <2>3
  <2> QED
    BY <2>1, <2>3, <2>4
<1>5. Cardinality(S) \in Nat /\ \A s \in SUBSET S : Cardinality(s) <= Cardinality(S)
  BY FS_CardinalityType, FS_Subset
<1>6. PICK f : \A s \in SUBSET S : Cardinality(s) <= Cardinality(S) => SumsUp(f, w, s)
  BY <1>4, <1>5 DEF Upto
<1> DEFINE it == [s \in SUBSET S |-> f[s]]
<1>7. ASSUME NEW s \in SUBSET S
      PROVE  it[s] = IF s = {} THEN 0 ELSE w[Pick(s)] + it[s \ {Pick(s)}]
  <2>1. it[s] = f[s] /\ it[s \ {Pick(s)}] = f[s \ {Pick(s)}]
    OBVIOUS
  <2>2. SumsUp(f, w, s)
    BY <1>5, <1>6
  <2> HIDE DEF it
  <2> QED
    BY <2>1, <2>2 DEF SumsUp
<1>8. it = [s \in SUBSET S |-> it[s]]
  OBVIOUS
<1> HIDE DEF it
<1>9. Summing(it, w, S)
  BY <1>7, <1>8 DEF Summing
<1> QED
  BY <1>9

\* The fold is such a solution.
LEMMA SumIsSumming ==
  ASSUME NEW S, IsFiniteSet(S), NEW w
  PROVE  \E it : Summing(it, w, S) /\ SumOf(w, S) = it[S]
<1> DEFINE it == CHOOSE it : Summing(it, w, S)
<1>1. Summing(it, w, S)
  BY SummingExists
<1>2. SumOf(w, S) = it[S]
  BY DEF SumOf, Sums!MapThenSumSet, Sums!MapThenFoldSet, Summing, Pick
<1> QED
  BY <1>1, <1>2

\* A sum does not depend on the order in which its members are picked.
LEMMA SummingAnyOrder ==
  ASSUME NEW S, IsFiniteSet(S), NEW w, \A x \in S : w[x] \in Int, NEW it, Summing(it, w, S),
         NEW r \in SUBSET S
  PROVE  it[r] \in Int /\ \A x \in r : it[r] = w[x] + it[r \ {x}]
<1> DEFINE Good(s) == it[s] \in Int /\ \A x \in s : it[s] = w[x] + it[s \ {x}]
           bad == {n \in Nat : \E s \in SUBSET S : Cardinality(s) = n /\ ~Good(s)}
<1>1. ASSUME NEW s \in SUBSET S
      PROVE  /\ IsFiniteSet(s) /\ Cardinality(s) \in Nat
             /\ \A x \in s : s \ {x} \in SUBSET S /\ Cardinality(s \ {x}) = Cardinality(s) - 1
  BY FS_Subset, FS_CardinalityType, FS_RemoveElement
<1>2. it[{}] = 0 /\ \A s \in SUBSET S : s # {} => it[s] = w[Pick(s)] + it[s \ {Pick(s)}]
  BY DEF Summing
<1>3. bad = {}
  <2> SUFFICES ASSUME bad # {} PROVE FALSE
    OBVIOUS
  <2>1. PICK n \in bad : \A m \in bad : n <= m
    BY LeastNatural
  <2>2. PICK s \in SUBSET S : Cardinality(s) = n /\ ~Good(s)
    BY <2>1
  <2>3. n \in Nat
    BY <2>1
  <2>4. ASSUME NEW q \in SUBSET S, Cardinality(q) < n PROVE Good(q)
    <3>1. Cardinality(q) \in Nat /\ ~(n <= Cardinality(q))
      BY <1>1, <2>3, <2>4
    <3>2. Cardinality(q) \notin bad
      BY <2>1, <3>1
    <3> HIDE DEF Good
    <3> QED
      BY <3>1, <3>2
  <2>5. s # {}
    <3> SUFFICES ASSUME s = {} PROVE FALSE
      OBVIOUS
    <3>1. it[s] = 0
      BY <1>2
    <3> QED
      BY <2>2, <3>1
  <2> DEFINE p == Pick(s)
  <2>6. p \in s /\ it[s] = w[p] + it[s \ {p}]
    BY <1>2, <2>5 DEF Pick
  <2> HIDE DEF p
  <2>7. ASSUME NEW x \in s
        PROVE  /\ s \ {x} \in SUBSET S /\ Cardinality(s \ {x}) = n - 1 /\ Good(s \ {x})
               /\ w[x] \in Int
    <3>1. s \ {x} \in SUBSET S /\ Cardinality(s \ {x}) = n - 1 /\ n - 1 < n
      BY <1>1, <2>2, <2>3
    <3> HIDE DEF Good
    <3> QED
      BY <2>4, <3>1
  <2>8. it[s \ {p}] \in Int /\ it[s] \in Int /\ w[p] \in Int
    <3>1. Good(s \ {p}) /\ w[p] \in Int
      BY <2>6, <2>7
    <3> QED
      BY <2>6, <3>1
  <2>9. ASSUME NEW x \in s PROVE it[s] = w[x] + it[s \ {x}]
    <3>1. CASE x = p
      BY <2>6, <3>1
    <3>2. CASE x # p
      <4> DEFINE u == (s \ {x}) \ {p}
      <4>1. (s \ {p}) \ {x} = u /\ x \in s \ {p} /\ p \in s \ {x}
        BY <2>6, <3>2
      <4>2. it[s \ {p}] = w[x] + it[u]
        BY <2>6, <2>7, <4>1
      <4>3. it[s \ {x}] = w[p] + it[u]
        BY <2>7, <4>1
      <4>4. it[u] \in Int
        <5>1. u \in SUBSET S /\ Cardinality(u) = n - 1 - 1 /\ n - 1 - 1 < n
          <6>1. s \ {x} \in SUBSET S /\ Cardinality(s \ {x}) = n - 1
            BY <2>7
          <6>2. u \in SUBSET S /\ Cardinality(u) = Cardinality(s \ {x}) - 1
            BY <1>1, <4>1, <6>1
          <6> HIDE DEF u
          <6> QED
            BY <2>3, <6>1, <6>2
        <5> HIDE DEF u
        <5> QED
          BY <2>4, <5>1
      <4> HIDE DEF u
      <4>5. w[x] \in Int
        BY <2>7
      <4> QED
        BY <2>6, <2>8, <4>2, <4>3, <4>4, <4>5
    <3> QED
      BY <3>1, <3>2
  <2> QED
    BY <2>2, <2>8, <2>9
<1>4. ASSUME NEW s \in SUBSET S PROVE Good(s)
  <2>1. Cardinality(s) \in Nat /\ Cardinality(s) \notin bad
    BY <1>1, <1>3
  <2> HIDE DEF Good
  <2> QED
    BY <2>1
<1> QED
  BY <1>4

\* Two sums of the same weights agree on what both reach.
LEMMA SummingAgree ==
  ASSUME NEW S, IsFiniteSet(S), NEW R \in SUBSET S, NEW w, NEW it, Summing(it, w, S),
         NEW jt, Summing(jt, w, R)
  PROVE  \A s \in SUBSET R : it[s] = jt[s]
<1> DEFINE bad == {n \in Nat : \E s \in SUBSET R : Cardinality(s) = n /\ it[s] # jt[s]}
<1>1. ASSUME NEW s \in SUBSET R
      PROVE  /\ Cardinality(s) \in Nat
             /\ \A x \in s : s \ {x} \in SUBSET R /\ Cardinality(s \ {x}) = Cardinality(s) - 1
  <2>1. IsFiniteSet(s) /\ s \in SUBSET S
    BY FS_Subset
  <2> QED
    BY <2>1, FS_CardinalityType, FS_RemoveElement
<1>2. ASSUME NEW s \in SUBSET R
      PROVE  /\ it[s] = IF s = {} THEN 0 ELSE w[Pick(s)] + it[s \ {Pick(s)}]
             /\ jt[s] = IF s = {} THEN 0 ELSE w[Pick(s)] + jt[s \ {Pick(s)}]
  BY DEF Summing
<1>3. bad = {}
  <2> SUFFICES ASSUME bad # {} PROVE FALSE
    OBVIOUS
  <2>1. PICK n \in bad : \A m \in bad : n <= m
    BY LeastNatural
  <2>2. PICK s \in SUBSET R : Cardinality(s) = n /\ it[s] # jt[s]
    BY <2>1
  <2>3. s # {}
    BY <1>2, <2>2
  <2> DEFINE p == Pick(s)
  <2>4. p \in s /\ it[s] = w[p] + it[s \ {p}] /\ jt[s] = w[p] + jt[s \ {p}]
    BY <1>2, <2>3 DEF Pick
  <2> HIDE DEF p
  <2>5. n \in Nat /\ s \ {p} \in SUBSET R /\ Cardinality(s \ {p}) = n - 1
        /\ Cardinality(s \ {p}) \in Nat
    BY <1>1, <2>1, <2>2, <2>4
  <2>6. n - 1 \notin bad
    BY <2>1, <2>5
  <2>7. it[s \ {p}] = jt[s \ {p}]
    BY <2>5, <2>6
  <2> QED
    BY <2>2, <2>4, <2>7
<1>4. ASSUME NEW s \in SUBSET R PROVE it[s] = jt[s]
  <2>1. Cardinality(s) \in Nat /\ Cardinality(s) \notin bad
    BY <1>1, <1>3
  <2> QED
    BY <2>1
<1> QED
  BY <1>4

\* A sum is a number; nothing sums to 0, and one member more adds its weight.
LEMMA SumFacts ==
  ASSUME NEW S, IsFiniteSet(S), NEW w, \A x \in S : w[x] \in Int
  PROVE  /\ SumOf(w, S) \in Int
         /\ S = {} => SumOf(w, S) = 0
         /\ \A x \in S : SumOf(w, S) = w[x] + SumOf(w, S \ {x})
<1>1. PICK it : Summing(it, w, S) /\ SumOf(w, S) = it[S]
  BY SumIsSumming
<1>2. it[S] \in Int /\ \A x \in S : it[S] = w[x] + it[S \ {x}]
  <2>1. S \in SUBSET S
    OBVIOUS
  <2>2. Summing(it, w, S)
    BY <1>1
  <2>3. it[S] \in Int
    BY <2>1, <2>2, SummingAnyOrder
  <2>4. ASSUME NEW x \in S PROVE it[S] = w[x] + it[S \ {x}]
    BY <2>1, <2>2, SummingAnyOrder
  <2> QED
    BY <2>3, <2>4
<1>3. S = {} => it[S] = 0
  BY <1>1 DEF Summing
<1>4. ASSUME NEW x \in S PROVE SumOf(w, S \ {x}) = it[S \ {x}]
  <2> DEFINE R == S \ {x}
  <2>1. R \in SUBSET S /\ IsFiniteSet(R)
    BY FS_Subset
  <2> HIDE DEF R
  <2>2. PICK jt : Summing(jt, w, R) /\ SumOf(w, R) = jt[R]
    BY <2>1, SumIsSumming
  <2>3. \A s \in SUBSET R : it[s] = jt[s]
    BY <1>1, <2>1, <2>2, SummingAgree
  <2>4. it[R] = jt[R]
    BY <2>3
  <2> QED
    BY <2>2, <2>4 DEF R
<1> QED
  BY <1>1, <1>2, <1>3, <1>4

\* Amounts that are not negative sum to one that is not, and to no less than any of them.
LEMMA SumNatural ==
  ASSUME NEW S, IsFiniteSet(S), NEW w, \A x \in S : w[x] \in Nat
  PROVE  SumOf(w, S) \in Nat /\ \A x \in S : w[x] <= SumOf(w, S)
<1> DEFINE bad == {n \in Nat : \E s \in SUBSET S : Cardinality(s) = n /\ SumOf(w, s) \notin Nat}
<1>1. ASSUME NEW s \in SUBSET S
      PROVE  /\ IsFiniteSet(s) /\ Cardinality(s) \in Nat
             /\ \A x \in s : s \ {x} \in SUBSET S /\ Cardinality(s \ {x}) = Cardinality(s) - 1
             /\ s = {} => SumOf(w, s) = 0
             /\ \A x \in s : SumOf(w, s) = w[x] + SumOf(w, s \ {x})
  <2>1. IsFiniteSet(s) /\ \A x \in s : w[x] \in Int
    BY FS_Subset
  <2> QED
    BY <2>1, FS_CardinalityType, FS_RemoveElement, SumFacts
<1>2. bad = {}
  <2> SUFFICES ASSUME bad # {} PROVE FALSE
    OBVIOUS
  <2>1. PICK n \in bad : \A m \in bad : n <= m
    BY LeastNatural
  <2>2. PICK s \in SUBSET S : Cardinality(s) = n /\ SumOf(w, s) \notin Nat
    BY <2>1
  <2>3. PICK x \in s : TRUE
    BY <1>1, <2>2
  <2>4. n \in Nat /\ s \ {x} \in SUBSET S /\ Cardinality(s \ {x}) = n - 1
        /\ Cardinality(s \ {x}) \in Nat
    <3>1. s \ {x} \in SUBSET S /\ Cardinality(s \ {x}) = Cardinality(s) - 1
      BY <1>1, <2>3
    <3>2. Cardinality(s \ {x}) \in Nat
      BY <1>1, <3>1
    <3> QED
      BY <2>1, <2>2, <3>1, <3>2
  <2>5. n - 1 \notin bad
    BY <2>1, <2>4
  <2>6. SumOf(w, s \ {x}) \in Nat
    BY <2>4, <2>5
  <2>7. SumOf(w, s) = w[x] + SumOf(w, s \ {x}) /\ w[x] \in Nat
    BY <1>1, <2>3
  <2> QED
    BY <2>2, <2>6, <2>7
<1>3. ASSUME NEW s \in SUBSET S PROVE SumOf(w, s) \in Nat
  <2>1. Cardinality(s) \in Nat /\ Cardinality(s) \notin bad
    BY <1>1, <1>2
  <2> QED
    BY <2>1
<1>4. ASSUME NEW x \in S PROVE w[x] <= SumOf(w, S)
  <2>1. SumOf(w, S) = w[x] + SumOf(w, S \ {x}) /\ SumOf(w, S \ {x}) \in Nat /\ w[x] \in Nat
    BY <1>1, <1>3
  <2> QED
    BY <2>1
<1> QED
  BY <1>3, <1>4

\* Sums of the same amounts are the same.
LEMMA SumSame ==
  ASSUME NEW S, IsFiniteSet(S), NEW w, NEW v, \A x \in S : w[x] \in Int /\ v[x] = w[x]
  PROVE  SumOf(v, S) = SumOf(w, S)
<1> DEFINE bad == {n \in Nat : \E s \in SUBSET S : Cardinality(s) = n /\ SumOf(v, s) # SumOf(w, s)}
<1>1. ASSUME NEW s \in SUBSET S
      PROVE  /\ Cardinality(s) \in Nat
             /\ \A x \in s : s \ {x} \in SUBSET S /\ Cardinality(s \ {x}) = Cardinality(s) - 1
             /\ s = {} => SumOf(w, s) = 0 /\ SumOf(v, s) = 0
             /\ \A x \in s : /\ SumOf(w, s) = w[x] + SumOf(w, s \ {x})
                             /\ SumOf(v, s) = v[x] + SumOf(v, s \ {x})
  <2>1. IsFiniteSet(s) /\ \A x \in s : w[x] \in Int /\ v[x] \in Int
    BY FS_Subset
  <2>2. /\ s = {} => SumOf(w, s) = 0
        /\ \A x \in s : SumOf(w, s) = w[x] + SumOf(w, s \ {x})
    BY <2>1, SumFacts
  <2>3. /\ s = {} => SumOf(v, s) = 0
        /\ \A x \in s : SumOf(v, s) = v[x] + SumOf(v, s \ {x})
    BY <2>1, SumFacts
  <2> QED
    BY <2>1, <2>2, <2>3, FS_CardinalityType, FS_RemoveElement
<1>2. bad = {}
  <2> SUFFICES ASSUME bad # {} PROVE FALSE
    OBVIOUS
  <2>1. PICK n \in bad : \A m \in bad : n <= m
    BY LeastNatural
  <2>2. PICK s \in SUBSET S : Cardinality(s) = n /\ SumOf(v, s) # SumOf(w, s)
    BY <2>1
  <2>3. PICK x \in s : TRUE
    BY <1>1, <2>2
  <2>4. n \in Nat /\ s \ {x} \in SUBSET S /\ Cardinality(s \ {x}) = n - 1
        /\ Cardinality(s \ {x}) \in Nat
    <3>1. s \ {x} \in SUBSET S /\ Cardinality(s \ {x}) = Cardinality(s) - 1
      BY <1>1, <2>3
    <3>2. Cardinality(s \ {x}) \in Nat
      BY <1>1, <3>1
    <3> QED
      BY <2>1, <2>2, <3>1, <3>2
  <2>5. n - 1 \notin bad
    BY <2>1, <2>4
  <2>6. SumOf(v, s \ {x}) = SumOf(w, s \ {x})
    BY <2>4, <2>5
  <2>7. SumOf(w, s) = w[x] + SumOf(w, s \ {x}) /\ SumOf(v, s) = v[x] + SumOf(v, s \ {x})
        /\ v[x] = w[x]
    BY <1>1, <2>3
  <2> QED
    BY <2>2, <2>6, <2>7
<1>3. Cardinality(S) \in Nat /\ Cardinality(S) \notin bad
  BY <1>1, <1>2
<1> QED
  BY <1>3

=============================================================================
