--------------------------- MODULE Encounter_lemmas --------------------------
(***************************************************************************)
(* Lemmas about the operators of Encounter: registers and the assignments  *)
(* to them, the rule pipeline of a candidate, the reduction of effects.    *)
(***************************************************************************)
EXTENDS Encounter, Stage_lemmas, FiniteSetTheorems, SequenceTheorems

-----------------------------------------------------------------------------
(* Registers *)

\* What the first n of the assignments make of m.
Assigning(f, n, m, amounts, d) ==
  f = [k \in 0 .. n |-> IF k = 0 THEN {m} ELSE UNION {Normalize(r + amounts[k], d) : r \in f[k - 1]}]

\* Such a function exists, for any number of assignments.
LEMMA AssigningExists ==
  ASSUME NEW m, NEW amounts, NEW d, NEW n \in Nat
  PROVE  \E f : Assigning(f, n, m, amounts, d)
<1> DEFINE without == {k \in Nat : ~\E f : Assigning(f, k, m, amounts, d)}
<1> SUFFICES ASSUME without # {} PROVE FALSE
  OBVIOUS
<1>1. PICK k \in without : \A j \in without : k <= j
  BY LeastNatural
<1>2. CASE k = 0
  <2> DEFINE f == [j \in 0 .. 0 |-> {m}]
  <2>1. Assigning(f, 0, m, amounts, d)
    BY DEF Assigning
  <2> QED
    BY <1>2, <2>1
<1>3. CASE k # 0
  <2>1. k - 1 \in Nat /\ k - 1 \notin without
    BY <1>1, <1>3
  <2>2. PICK g : Assigning(g, k - 1, m, amounts, d)
    BY <2>1
  <2> DEFINE f == [j \in 0 .. k |-> IF j = k THEN UNION {Normalize(r + amounts[k], d) : r \in g[k - 1]} ELSE g[j]]
  <2>3. ASSUME NEW j \in 0 .. k
        PROVE  f[j] = IF j = 0 THEN {m} ELSE UNION {Normalize(r + amounts[j], d) : r \in f[j - 1]}
    <3>1. CASE j = k
      <4>1. k - 1 \in 0 .. k /\ k - 1 # k /\ k \in 0 .. k
        BY <1>3, <2>1
      <4>2. f[k - 1] = g[k - 1] /\ f[k] = UNION {Normalize(r + amounts[k], d) : r \in g[k - 1]}
        BY <4>1
      <4> HIDE DEF f
      <4> QED
        BY <1>3, <3>1, <4>2
    <3>2. CASE j # k
      <4>1. j \in 0 .. k - 1 /\ (j # 0 => j - 1 \in 0 .. k - 1 /\ j - 1 # k)
        BY <1>3, <3>2
      <4>2. f[j] = g[j] /\ (j # 0 => f[j - 1] = g[j - 1])
        BY <3>2, <4>1
      <4>3. g[j] = IF j = 0 THEN {m} ELSE UNION {Normalize(r + amounts[j], d) : r \in g[j - 1]}
        BY <2>2, <4>1 DEF Assigning
      <4> HIDE DEF f
      <4> QED
        BY <4>2, <4>3
    <3> QED
      BY <3>1, <3>2
  <2>4. Assigning(f, k, m, amounts, d)
    BY <2>3 DEF Assigning
  <2> QED
    BY <2>4
<1> QED
  BY <1>2, <1>3

\* What the first n of the amounts add.
Adding(f, n, amounts) ==
  f = [k \in 0 .. n |-> IF k = 0 THEN 0 ELSE f[k - 1] + amounts[k]]

\* Such a function exists, for any number of amounts.
LEMMA AddingExists ==
  ASSUME NEW amounts, NEW n \in Nat
  PROVE  \E f : Adding(f, n, amounts)
<1> DEFINE without == {k \in Nat : ~\E f : Adding(f, k, amounts)}
<1> SUFFICES ASSUME without # {} PROVE FALSE
  OBVIOUS
<1>1. PICK k \in without : \A j \in without : k <= j
  BY LeastNatural
<1>2. CASE k = 0
  <2> DEFINE f == [j \in 0 .. 0 |-> 0]
  <2>1. Adding(f, 0, amounts)
    BY DEF Adding
  <2> QED
    BY <1>2, <2>1
<1>3. CASE k # 0
  <2>1. k - 1 \in Nat /\ k - 1 \notin without
    BY <1>1, <1>3
  <2>2. PICK g : Adding(g, k - 1, amounts)
    BY <2>1
  <2> DEFINE f == [j \in 0 .. k |-> IF j = k THEN g[k - 1] + amounts[k] ELSE g[j]]
  <2>3. ASSUME NEW j \in 0 .. k
        PROVE  f[j] = IF j = 0 THEN 0 ELSE f[j - 1] + amounts[j]
    <3>1. CASE j = k
      <4>1. k - 1 \in 0 .. k /\ k - 1 # k /\ k \in 0 .. k
        BY <1>3, <2>1
      <4>2. f[k - 1] = g[k - 1] /\ f[k] = g[k - 1] + amounts[k]
        BY <4>1
      <4> HIDE DEF f
      <4> QED
        BY <1>3, <3>1, <4>2
    <3>2. CASE j # k
      <4>1. j \in 0 .. k - 1 /\ (j # 0 => j - 1 \in 0 .. k - 1 /\ j - 1 # k)
        BY <1>3, <3>2
      <4>2. f[j] = g[j] /\ (j # 0 => f[j - 1] = g[j - 1])
        BY <3>2, <4>1
      <4>3. g[j] = IF j = 0 THEN 0 ELSE g[j - 1] + amounts[j]
        BY <2>2, <4>1 DEF Adding
      <4> HIDE DEF f
      <4> QED
        BY <4>2, <4>3
    <3> QED
      BY <3>1, <3>2
  <2>4. Adding(f, k, amounts)
    BY <2>3 DEF Adding
  <2> QED
    BY <2>4
<1> QED
  BY <1>2, <1>3

\* Assign is the last value of such a function.
LEMMA AssignAssigns ==
  ASSUME NEW m, NEW amounts, Len(amounts) \in Nat, NEW d
  PROVE  \E f : Assigning(f, Len(amounts), m, amounts, d) /\ Assign(m, amounts, d) = f[Len(amounts)]
<1> DEFINE f == CHOOSE f : Assigning(f, Len(amounts), m, amounts, d)
<1>1. Assigning(f, Len(amounts), m, amounts, d)
  BY AssigningExists
<1>2. Assign(m, amounts, d) = f[Len(amounts)]
  BY DEF Assign, Assigning
<1> QED
  BY <1>1, <1>2

\* Added is the last value of such a function.
LEMMA AddedAdds ==
  ASSUME NEW amounts, Len(amounts) \in Nat
  PROVE  \E f : Adding(f, Len(amounts), amounts) /\ Added(amounts) = f[Len(amounts)]
<1> DEFINE f == CHOOSE f : Adding(f, Len(amounts), amounts)
<1>1. Adding(f, Len(amounts), amounts)
  BY AddingExists
<1>2. Added(amounts) = f[Len(amounts)]
  BY DEF Added, Adding
<1> QED
  BY <1>1, <1>2

\* m is what a register holds when sum is what was added to it in all, from amounts of which
\* none is negative (up) or none is positive (down).
Follows(m, sum, d, up, down) ==
  /\ m \in Int /\ sum \in Int
  /\ d.minimum <= m /\ m <= d.maximum
  /\ d.overflow = "WRAP" => \E q \in Int : m = sum + q * (d.maximum - d.minimum + 1)
  /\ d.overflow = "SATURATE" /\ up =>
       d.minimum <= sum /\ m = IF sum > d.maximum THEN d.maximum ELSE sum
  /\ d.overflow = "SATURATE" /\ down =>
       sum <= d.maximum /\ m = IF sum < d.minimum THEN d.minimum ELSE sum
  /\ d.overflow = "FAULT" => m = sum

\* A remainder leaves a multiple behind.
LEMMA Remainder ==
  ASSUME NEW n \in Int, NEW span \in Nat, span > 0
  PROVE  /\ n % span \in 0 .. span - 1
         /\ \E q \in Int : n % span = n + q * span
<1>1. /\ n % span \in 0 .. span - 1 /\ n \div span \in Int
      /\ n = span * (n \div span) + (n % span)
  OBVIOUS
<1> DEFINE k == n \div span
           q == -k
<1>2. q \in Int
  BY <1>1
<1>3. n % span = n + q * span
  <2>1. k \in Int /\ n % span \in Int /\ n = span * k + (n % span)
    BY <1>1
  <2> HIDE DEF k
  <2>2. q * span = -(span * k) /\ span * k \in Int
    BY <2>1, Z3
  <2> DEFINE x == span * k
             r == n % span
             y == q * span
  <2>3. x \in Int /\ r \in Int /\ n = x + r /\ y = -x
    BY <2>1, <2>2
  <2> HIDE DEF x, r, y
  <2>4. r = n + y
    BY <2>3
  <2> QED
    BY <2>4 DEF r, y
<1> QED
  BY <1>1, <1>2, <1>3

\* A multiple has no remainder.
LEMMA Multiple ==
  ASSUME NEW q \in Int, NEW span \in Nat, span > 0
  PROVE  (q * span) % span = 0
<1> DEFINE x == q * span
<1>1. x \in Int
  OBVIOUS
<1>2. /\ x % span \in 0 .. span - 1 /\ x \div span \in Int
      /\ x = span * (x \div span) + (x % span)
  BY <1>1
<1> QED
  BY <1>1, <1>2, Z3

\* An assignment keeps a register what was added to it.
LEMMA NormalizeFollows ==
  ASSUME NEW d \in Declaration, NEW up, NEW down, NEW m, NEW sum, Follows(m, sum, d, up, down),
         NEW a \in Int, up => a >= 0, down => a <= 0, NEW r \in Normalize(m + a, d)
  PROVE  Follows(r, sum + a, d, up, down)
<1> DEFINE lo == d.minimum
           hi == d.maximum
           n == m + a
<1>1. /\ lo \in Int /\ hi \in Int /\ m \in Int /\ sum \in Int /\ lo <= m /\ m <= hi
      /\ d.overflow \in {"FAULT", "SATURATE", "WRAP"} /\ n \in Int /\ sum + a \in Int
  BY DEF Declaration, Follows
<1>2. CASE lo <= n /\ n <= hi
  <2>1. r = n
    <3>1. ~(m + a < d.minimum) /\ ~(m + a > d.maximum)
      BY <1>1, <1>2
    <3>2. Normalize(m + a, d) = {m + a}
      BY <1>2, <3>1 DEF Normalize
    <3> QED
      BY <3>2
  <2>2. d.overflow = "WRAP" => \E q \in Int : r = sum + a + q * (hi - lo + 1)
    <3> SUFFICES ASSUME d.overflow = "WRAP"
                 PROVE  \E q \in Int : r = sum + a + q * (hi - lo + 1)
      OBVIOUS
    <3>1. PICK q \in Int : m = sum + q * (hi - lo + 1)
      BY DEF Follows
    <3> DEFINE y == q * (hi - lo + 1)
    <3>2. y \in Int /\ m = sum + y
      BY <1>1, <3>1
    <3> HIDE DEF y
    <3>3. r = sum + a + y
      BY <1>1, <2>1, <3>2
    <3> QED
      BY <3>3 DEF y
  <2>3. d.overflow = "SATURATE" /\ up =>
          lo <= sum + a /\ r = IF sum + a > hi THEN hi ELSE sum + a
    BY <1>1, <1>2, <2>1 DEF Follows
  <2>4. d.overflow = "SATURATE" /\ down =>
          sum + a <= hi /\ r = IF sum + a < lo THEN lo ELSE sum + a
    BY <1>1, <1>2, <2>1 DEF Follows
  <2>5. d.overflow = "FAULT" => r = sum + a
    BY <1>1, <2>1 DEF Follows
  <2> QED
    BY <1>1, <1>2, <2>1, <2>2, <2>3, <2>4, <2>5 DEF Follows
<1>3. CASE ~(lo <= n /\ n <= hi)
  <2>1. CASE d.overflow = "WRAP"
    <3> DEFINE span == hi - lo + 1
    <3>1. span \in Nat /\ span > 0 /\ n - lo \in Int
      BY <1>1
    <3>2. r = lo + ((n - lo) % span)
      BY <1>3, <2>1 DEF Normalize
    <3> DEFINE z == (n - lo) % span
    <3>3. z \in 0 .. span - 1
      BY <3>1, Remainder
    <3>4. PICK p \in Int : z = n - lo + p * span
      BY <3>1, Remainder
    <3>5. PICK q \in Int : m = sum + q * span
      BY <2>1 DEF Follows
    <3>6. r = lo + z
      BY <3>2
    <3> HIDE DEF span, z
    <3> DEFINE x == p * span
               y == q * span
    <3>7. x \in Int /\ y \in Int /\ (p + q) * span = x + y /\ p + q \in Int
      BY <3>1, Z3
    <3>8. z = n - lo + x /\ m = sum + y
      BY <3>4, <3>5
    <3> HIDE DEF x, y
    <3>9. r = sum + a + (p + q) * span
      <4>1. z \in Int
        BY <3>3, <3>1
      <4>2. r = n + x
        BY <1>1, <3>6, <3>7, <3>8, <4>1
      <4>3. r = sum + a + (x + y)
        BY <1>1, <3>7, <3>8, <4>2
      <4> QED
        BY <3>7, <4>3
    <3>10. r \in Int /\ lo <= r /\ r <= hi
      BY <1>1, <3>1, <3>3, <3>6 DEF span
    <3>11. \E k \in Int : r = sum + a + k * (hi - lo + 1)
      BY <3>7, <3>9 DEF span
    <3> QED
      BY <1>1, <2>1, <3>10, <3>11 DEF Follows
  <2>2. CASE d.overflow = "SATURATE"
    <3>1. r = IF n < lo THEN lo ELSE hi
      BY <1>1, <1>3, <2>2 DEF Normalize
    <3>2. up => lo <= sum + a /\ r = IF sum + a > hi THEN hi ELSE sum + a
      BY <1>1, <1>3, <2>2, <3>1 DEF Follows
    <3>3. down => sum + a <= hi /\ r = IF sum + a < lo THEN lo ELSE sum + a
      BY <1>1, <1>3, <2>2, <3>1 DEF Follows
    <3>4. r \in Int /\ lo <= r /\ r <= hi
      BY <1>1, <3>1
    <3> QED
      BY <1>1, <2>2, <3>2, <3>3, <3>4 DEF Follows
  <2>3. CASE d.overflow = "FAULT"
    BY <1>1, <1>3, <2>3 DEF Normalize
  <2> QED
    BY <1>1, <2>1, <2>2, <2>3
<1> QED
  BY <1>2, <1>3

\* So do several.
LEMMA AssignFollows ==
  ASSUME NEW d \in Declaration, NEW up, NEW down, NEW m, NEW sum, Follows(m, sum, d, up, down),
         NEW amounts \in Seq(Int), up => \A k \in DOMAIN amounts : amounts[k] >= 0,
         down => \A k \in DOMAIN amounts : amounts[k] <= 0, NEW r \in Assign(m, amounts, d)
  PROVE  Follows(r, sum + Added(amounts), d, up, down) /\ Added(amounts) \in Int
<1> DEFINE top == Len(amounts)
<1>1. top \in Nat /\ DOMAIN amounts = 1 .. top /\ \A k \in 1 .. top : amounts[k] \in Int
  OBVIOUS
<1> HIDE DEF top
<1>2. PICK f : Assigning(f, top, m, amounts, d) /\ Assign(m, amounts, d) = f[top]
  BY <1>1, AssignAssigns DEF top
<1>3. PICK g : Adding(g, top, amounts) /\ Added(amounts) = g[top]
  BY <1>1, AddedAdds DEF top
<1> DEFINE Good(k) == g[k] \in Int /\ \A s \in f[k] : Follows(s, sum + g[k], d, up, down)
           bad == {k \in Nat : k \in 0 .. top /\ ~Good(k)}
<1>4. Good(0)
  <2>1. f[0] = {m} /\ g[0] = 0
    BY <1>1, <1>2, <1>3 DEF Assigning, Adding
  <2>2. sum \in Int
    BY DEF Follows
  <2>3. sum + 0 = sum
    BY <2>2
  <2> QED
    BY <2>1, <2>3
<1>5. ASSUME NEW k \in 1 .. top, Good(k - 1)
      PROVE  Good(k)
  <2>1. k - 1 \in 0 .. top /\ k \in 0 .. top /\ k # 0
    BY <1>1
  <2>2. /\ f[k] = UNION {Normalize(s + amounts[k], d) : s \in f[k - 1]}
        /\ g[k] = g[k - 1] + amounts[k]
    BY <1>2, <1>3, <2>1 DEF Assigning, Adding
  <2>3. g[k - 1] \in Int /\ amounts[k] \in Int /\ sum \in Int
    BY <1>1, <1>5 DEF Follows
  <2>4. g[k] \in Int /\ sum + g[k - 1] + amounts[k] = sum + g[k]
    BY <2>2, <2>3
  <2>5. (up => amounts[k] >= 0) /\ (down => amounts[k] <= 0)
    BY <1>1
  <2>6. ASSUME NEW t \in f[k]
        PROVE  Follows(t, sum + g[k], d, up, down)
    <3>1. PICK s \in f[k - 1] : t \in Normalize(s + amounts[k], d)
      BY <2>2
    <3>2. Follows(s, sum + g[k - 1], d, up, down)
      BY <1>5
    <3>3. Follows(t, sum + g[k - 1] + amounts[k], d, up, down)
      BY <2>3, <2>5, <3>1, <3>2, NormalizeFollows
    <3> QED
      BY <2>4, <3>3
  <2> QED
    BY <2>4, <2>6
<1> HIDE DEF Good
<1>6. bad = {}
  <2> SUFFICES ASSUME bad # {} PROVE FALSE
    OBVIOUS
  <2>1. PICK k \in bad : \A j \in bad : k <= j
    BY LeastNatural
  <2>2. k \in 1 .. top /\ k - 1 \in Nat /\ k - 1 \in 0 .. top /\ k - 1 \notin bad
    BY <1>1, <1>4, <2>1
  <2> QED
    BY <1>5, <2>1, <2>2
<1>7. Good(top)
  BY <1>1, <1>6
<1> QED
  BY <1>2, <1>3, <1>7 DEF Good
\* What the first n quanta leave of the register and the effects of i.
Transiting(f, n, i, base, fired, run) ==
  f = [k \in 0 .. n |-> IF k = 0 THEN {base} ELSE (IF k \notin fired THEN f[k - 1] ELSE UNION {ApplyTransition(x, i, k, run[k]) : x \in f[k - 1]})]

\* Such a function exists, for any number of quanta.
LEMMA TransitingExists ==
  ASSUME NEW i, NEW base, NEW fired, NEW run, NEW n \in Nat
  PROVE  \E f : Transiting(f, n, i, base, fired, run)
<1> DEFINE without == {k \in Nat : ~\E f : Transiting(f, k, i, base, fired, run)}
<1> SUFFICES ASSUME without # {} PROVE FALSE
  OBVIOUS
<1>1. PICK k \in without : \A j \in without : k <= j
  BY LeastNatural
<1>2. CASE k = 0
  <2> DEFINE f == [j \in 0 .. 0 |-> {base}]
  <2>1. Transiting(f, 0, i, base, fired, run)
    BY DEF Transiting
  <2> QED
    BY <1>2, <2>1
<1>3. CASE k # 0
  <2>1. k - 1 \in Nat /\ k - 1 \notin without
    BY <1>1, <1>3
  <2>2. PICK g : Transiting(g, k - 1, i, base, fired, run)
    BY <2>1
  <2> DEFINE f == [j \in 0 .. k |-> IF j = k THEN (IF k \notin fired THEN g[k - 1] ELSE UNION {ApplyTransition(x, i, k, run[k]) : x \in g[k - 1]}) ELSE g[j]]
  <2>3. ASSUME NEW j \in 0 .. k
        PROVE  f[j] = IF j = 0 THEN {base} ELSE (IF j \notin fired THEN f[j - 1] ELSE UNION {ApplyTransition(x, i, j, run[j]) : x \in f[j - 1]})
    <3>1. CASE j = k
      <4>1. k - 1 \in 0 .. k /\ k - 1 # k /\ k \in 0 .. k
        BY <1>3, <2>1
      <4>2. f[k - 1] = g[k - 1] /\ f[k] = (IF k \notin fired THEN g[k - 1] ELSE UNION {ApplyTransition(x, i, k, run[k]) : x \in g[k - 1]})
        BY <4>1
      <4> HIDE DEF f
      <4> QED
        BY <1>3, <3>1, <4>2
    <3>2. CASE j # k
      <4>1. j \in 0 .. k - 1 /\ (j # 0 => j - 1 \in 0 .. k - 1 /\ j - 1 # k)
        BY <1>3, <3>2
      <4>2. f[j] = g[j] /\ (j # 0 => f[j - 1] = g[j - 1])
        BY <3>2, <4>1
      <4>3. g[j] = IF j = 0 THEN {base} ELSE (IF j \notin fired THEN g[j - 1] ELSE UNION {ApplyTransition(x, i, j, run[j]) : x \in g[j - 1]})
        BY <2>2, <4>1 DEF Transiting
      <4> HIDE DEF f
      <4> QED
        BY <4>2, <4>3
    <3> QED
      BY <3>1, <3>2
  <2>4. Transiting(f, k, i, base, fired, run)
    BY <2>3 DEF Transiting
  <2> QED
    BY <2>4
<1> QED
  BY <1>2, <1>3

\* Transitions is a value of such a function: the last one, or the first where nothing accrues.
LEMMA TransitionsTransit ==
  ASSUME NEW i \in Instances, QuantaOf(state.clock[i]) \in Nat
  PROVE  \E f : /\ Transiting(f, QuantaOf(state.clock[i]), i,
                              [register |-> state.register[i], effects |-> << >>],
                              Firings(state.clock[i], setup.life[i]),
                              AfterQuanta(state.clock[i], setup.life[i]))
                /\ Transitions(i) = f[IF Running(i) /\ Accrual(i) = "NONE"
                                      THEN QuantaOf(state.clock[i]) ELSE 0]
<1> DEFINE base == [register |-> state.register[i], effects |-> << >>]
           fired == Firings(state.clock[i], setup.life[i])
           run == AfterQuanta(state.clock[i], setup.life[i])
           top == QuantaOf(state.clock[i])
           f == CHOOSE f : Transiting(f, top, i, base, fired, run)
<1>1. Transiting(f, top, i, base, fired, run)
  BY TransitingExists
<1>2. Transitions(i) = f[IF Running(i) /\ Accrual(i) = "NONE" THEN top ELSE 0]
  BY DEF Transitions, Transiting
<1> QED
  BY <1>1, <1>2

-----------------------------------------------------------------------------
(* How often a transition fires *)

\* A quantum that fires the transition is counted, and no other.
LEMMA QuantumCounts ==
  ASSUME NEW b \in Clock, NEW lifecycle \in Lifecycles, b.life = "RUNNING",
         InPlace(b, lifecycle), NEW q, q = Quantum(b, lifecycle), q.life = "RUNNING"
  PROVE  /\ Fired(b, lifecycle) \in Nat
         /\ Fired(q, lifecycle) = Fired(b, lifecycle) + (IF b.step + 1 >= Steps THEN 1 ELSE 0)
<1> DEFINE x == b.step + 1
           y == b.local + 1
           z == b.cycle + 1
           c == [b EXCEPT !.step = x, !.local = y]
<1>1. b.step \in Nat /\ b.local \in Nat /\ b.cycle \in Nat /\ Steps \in Nat /\ Steps > 0
  BY TimelineAssumption DEF Clock
<1>2. x \in Nat /\ y \in Nat /\ z \in Nat
  BY <1>1
<1>3. q = IF x >= Steps THEN AtEnd(c, lifecycle) ELSE c
  <2>1. [b EXCEPT !.step = x, !.local = y].step = x
    BY DEF Clock
  <2>2. q = IF c.step >= Steps THEN AtEnd(c, lifecycle) ELSE c
    BY DEF Quantum
  <2> QED
    BY <2>1, <2>2
<1> HIDE DEF x, y, z
<1>4. c \in Clock /\ c.step = x /\ c.local = y /\ c.cycle = b.cycle
  BY <1>1, <1>2 DEF Clock
<1> HIDE DEF c
<1>5. CASE lifecycle = "LOOP"
  <2>1. CASE x >= Steps
    <3>1. AtEnd(c, lifecycle) = [c EXCEPT !.step = 0, !.cycle = @ + 1]
      BY <1>5 DEF AtEnd
    <3>2. q = [c EXCEPT !.step = 0, !.cycle = z]
      BY <1>3, <1>4, <2>1, <3>1 DEF z
    <3>3. q.cycle = z
      BY <1>2, <1>4, <3>2 DEF Clock
    <3> QED
      BY <1>1, <1>5, <2>1, <3>3 DEF Fired, x, z
  <2>2. CASE ~(x >= Steps)
    BY <1>1, <1>3, <1>4, <1>5, <2>2 DEF Fired, x
  <2> QED
    BY <2>1, <2>2
<1>6. CASE lifecycle = "HOLD"
  <2>1. AtEnd(c, lifecycle) = [c EXCEPT !.step = Steps - 1, !.rate = 0]
    BY <1>6 DEF AtEnd
  <2>2. AtEnd(c, lifecycle).local = y
    BY <1>4, <2>1 DEF Clock
  <2>3. q.local = y
    BY <1>3, <1>4, <2>2
  <2>4. b.step = IF b.local < Steps THEN b.local ELSE Steps - 1
    BY <1>6 DEF InPlace
  <2>5. x >= Steps <=> y >= Steps
    BY <1>1, <2>4 DEF x, y
  <2>6. /\ Fired(b, lifecycle) = IF b.local < Steps THEN 0 ELSE b.local - Steps + 1
        /\ Fired(q, lifecycle) = IF y < Steps THEN 0 ELSE y - Steps + 1
    BY <1>6, <2>3 DEF Fired
  <2> QED
    BY <1>1, <2>5, <2>6 DEF x, y
<1>7. CASE lifecycle = "TERMINATE"
  <2>1. AtEnd(c, lifecycle) = [c EXCEPT !.life = "TERMINATED"]
    BY <1>7 DEF AtEnd
  <2>2. AtEnd(c, lifecycle).life = "TERMINATED"
    BY <1>4, <2>1 DEF Clock
  <2>3. ~(x >= Steps)
    BY <1>3, <2>2
  <2>4. Fired(b, lifecycle) = 0 /\ Fired(q, lifecycle) = 0
    BY <1>7 DEF Fired
  <2> QED
    BY <2>3, <2>4 DEF x
<1> QED
  BY <1>5, <1>6, <1>7 DEF Lifecycles

\* So it is in a tick.
LEMMA QuantumFires ==
  ASSUME NEW a \in Clock, NEW lifecycle \in Lifecycles, a.life = "RUNNING",
         InPlace(a, lifecycle), NEW n \in 1 .. QuantaOf(a), NEW run,
         run = AfterQuanta(a, lifecycle), run[n].life = "RUNNING"
  PROVE  /\ run[n - 1].life = "RUNNING" /\ Fired(run[n - 1], lifecycle) \in Nat
         /\ Fired(run[n], lifecycle) =
              Fired(run[n - 1], lifecycle) + (IF n \in Firings(a, lifecycle) THEN 1 ELSE 0)
<1>1. QuantaOf(a) \in Nat /\ n - 1 \in 0 .. QuantaOf(a) /\ n \in 0 .. QuantaOf(a) /\ n # 0
  BY Carrying
<1>2. run[n] = Quantum(run[n - 1], lifecycle)
  BY <1>1, AfterQuantaRuns DEF Run
<1>3. Reached(run[n - 1], n - 1, a, lifecycle)
  BY <1>1, QuantaReach
<1>4. n \in Firings(a, lifecycle) <=> run[n - 1].life = "RUNNING" /\ run[n - 1].step + 1 >= Steps
  BY DEF Firings
<1>5. run[n - 1].life = "RUNNING"
  BY <1>2 DEF Quantum
<1>6. run[n - 1] \in Clock /\ InPlace(run[n - 1], lifecycle)
  BY <1>3, <1>5 DEF Reached
<1> QED
  BY <1>2, <1>4, <1>5, <1>6, QuantumCounts

-----------------------------------------------------------------------------
(* A transition's assignments *)

\* None of what the transition of i adds is negative, or none is positive.
Rising(i) ==
  /\ \A k \in DOMAIN Assignments[i].leaving : Assignments[i].leaving[k] >= 0
  /\ \A k \in DOMAIN Assignments[i].entering : Assignments[i].entering[k] >= 0

Falling(i) ==
  /\ \A k \in DOMAIN Assignments[i].leaving : Assignments[i].leaving[k] <= 0
  /\ \A k \in DOMAIN Assignments[i].entering : Assignments[i].entering[k] <= 0

\* What the transition of i adds.
Gain(i) == Added(Assignments[i].leaving) + Added(Assignments[i].entering)

\* The register of i is m, and its clock a.
RegisterFollows(m, i, a, u) ==
  Follows(m, Register[i].initial + Fired(a, u.life[i]) * Gain(i),
          [minimum |-> Register[i].minimum, maximum |-> Register[i].maximum,
           overflow |-> u.overflow], Rising(i), Falling(i))

\* A transition adds its gain.
LEMMA ApplyFollows ==
  ASSUME NEW i \in Instances, setup \in Setups, NEW x, NEW n, NEW a, NEW sum,
         Follows(x.register, sum, DeclarationOf(i), Rising(i), Falling(i)),
         NEW y \in ApplyTransition(x, i, n, a)
  PROVE  Follows(y.register, sum + Gain(i), DeclarationOf(i), Rising(i), Falling(i))
<1> DEFINE d == DeclarationOf(i)
<1>1. /\ d \in Declaration /\ sum \in Int
      /\ Assignments[i].leaving \in Seq(Int) /\ Assignments[i].entering \in Seq(Int)
  BY RegisterAssumption DEF DeclarationOf, Declaration, Follows
<1> HIDE DEF d
<1>2. PICK left \in Assign(x.register, Assignments[i].leaving, d) :
        \E m \in Assign(left, Assignments[i].entering, d) : y.register = m
  BY DEF ApplyTransition, d
<1>6. PICK m \in Assign(left, Assignments[i].entering, d) : y.register = m
  BY <1>2
<1>3. /\ Follows(left, sum + Added(Assignments[i].leaving), d, Rising(i), Falling(i))
      /\ Added(Assignments[i].leaving) \in Int
  BY <1>1, AssignFollows DEF Rising, Falling, d
<1>4. /\ Follows(m, sum + Added(Assignments[i].leaving) + Added(Assignments[i].entering), d,
                 Rising(i), Falling(i))
      /\ Added(Assignments[i].entering) \in Int
  BY <1>1, <1>3, AssignFollows DEF Rising, Falling
<1>5. sum + Added(Assignments[i].leaving) + Added(Assignments[i].entering) = sum + Gain(i)
  BY <1>1, <1>3, <1>4 DEF Gain
<1> QED
  BY <1>4, <1>5, <1>6 DEF d

\* The gains of a transition are numbers.
LEMMA GainType ==
  ASSUME NEW i \in Instances
  PROVE  Gain(i) \in Int
<1>1. ASSUME NEW amounts \in Seq(Int) PROVE Added(amounts) \in Int
  <2> DEFINE top == Len(amounts)
  <2>1. top \in Nat /\ \A k \in 1 .. top : amounts[k] \in Int
    OBVIOUS
  <2>2. PICK g : Adding(g, top, amounts) /\ Added(amounts) = g[top]
    BY <2>1, AddedAdds
  <2> HIDE DEF top
  <2> DEFINE bad == {k \in Nat : k \in 0 .. top /\ g[k] \notin Int}
  <2>3. bad = {}
    <3> SUFFICES ASSUME bad # {} PROVE FALSE
      OBVIOUS
    <3>1. PICK k \in bad : \A j \in bad : k <= j
      BY LeastNatural
    <3>2. k # 0
      BY <2>1, <2>2, <3>1 DEF Adding
    <3>3. k \in 1 .. top /\ k - 1 \in 0 .. top /\ k - 1 \in Nat /\ k - 1 \notin bad
      BY <2>1, <3>1, <3>2
    <3>4. g[k] = g[k - 1] + amounts[k]
      BY <2>2, <3>1, <3>2 DEF Adding
    <3> QED
      BY <2>1, <3>1, <3>3, <3>4
  <2> QED
    BY <2>1, <2>2, <2>3
<1> QED
  BY <1>1, RegisterAssumption DEF Gain

\* The transitions of a tick add their gain as often as they fire.
LEMMA TransitionsFollow ==
  ASSUME NEW i \in Instances, setup \in Setups, state.clock[i] \in Clock,
         Running(i) => InPlace(state.clock[i], setup.life[i]),
         RegisterFollows(state.register[i], i, state.clock[i], setup),
         NEW x \in Transitions(i), NEW b,
         b = IF Running(i) THEN Progress(state.clock[i], setup.life[i], Accrual(i))
             ELSE state.clock[i],
         b.life = "RUNNING"
  PROVE  RegisterFollows(x.register, i, b, setup)
<1> DEFINE a == state.clock[i]
           life == setup.life[i]
           fired == Firings(a, life)
           top == QuantaOf(a)
           base == [register |-> state.register[i], effects |-> << >>]
           d == DeclarationOf(i)
<1>1. life \in Lifecycles /\ a \in Clock /\ top \in Nat
  BY EncounterAssumption, Carrying
<1> DEFINE run == AfterQuanta(a, life)
<1>2. PICK f : /\ Transiting(f, top, i, base, fired, run)
               /\ Transitions(i) = f[IF Running(i) /\ Accrual(i) = "NONE" THEN top ELSE 0]
  BY <1>1, TransitionsTransit
<1>3. f[0] = {base} /\ base.register = state.register[i]
  BY <1>1, <1>2 DEF Transiting
<1>4. d = [minimum |-> Register[i].minimum, maximum |-> Register[i].maximum,
           overflow |-> setup.overflow]
  BY DEF DeclarationOf
<1>5. Running(i)
  BY DEF Running
<1>6. a.life = "RUNNING" /\ InPlace(a, life)
  BY <1>5 DEF Running
<1>7. CASE Accrual(i) # "NONE"
  <2>1. x.register = state.register[i]
    BY <1>2, <1>3, <1>7
  <2>2. Accrual(i) \in {"HOLD", "ACCRUE"}
    BY <1>7 DEF Accrual, ProgressionAccrual
  <2>3. b = a \/ b = [Carried(a) EXCEPT !.deferred = @ + Generated(a)]
    BY <1>5, <2>2 DEF Progress
  <2>4. b.cycle = a.cycle /\ b.local = a.local
    <3>1. /\ [Carried(a) EXCEPT !.deferred = @ + Generated(a)].cycle = a.cycle
          /\ [Carried(a) EXCEPT !.deferred = @ + Generated(a)].local = a.local
      BY <1>1 DEF Carried, Clock
    <3> QED
      BY <2>3, <3>1
  <2>5. Fired(b, life) = Fired(a, life)
    BY <2>4 DEF Fired
  <2> QED
    BY <2>1, <2>5 DEF RegisterFollows
<1>8. CASE Accrual(i) = "NONE"
  <2>1. x \in f[top] /\ b = run[top]
    BY <1>2, <1>5, <1>8 DEF Progress
  <2> DEFINE Sum(k) == Register[i].initial + Fired(run[k], life) * Gain(i)
             Good(k) == run[k].life = "RUNNING" =>
                          \A y \in f[k] : Follows(y.register, Sum(k), d, Rising(i), Falling(i))
             bad == {k \in Nat : k \in 0 .. top /\ ~Good(k)}
  <2>2. Good(0)
    <3>1. run[0] = [Carried(a) EXCEPT !.deferred = 0]
      BY <1>1, AfterQuantaRuns DEF Run
    <3>2. run[0].cycle = a.cycle /\ run[0].local = a.local
      BY <1>1, <3>1 DEF Carried, Clock
    <3>3. Fired(run[0], life) = Fired(a, life)
      BY <3>2 DEF Fired
    <3>4. Follows(state.register[i], Sum(0), d, Rising(i), Falling(i))
      BY <1>4, <3>3 DEF RegisterFollows
    <3> QED
      BY <1>3, <3>4
  <2>3. ASSUME NEW k \in 1 .. top, Good(k - 1)
        PROVE  Good(k)
    <3> SUFFICES ASSUME run[k].life = "RUNNING", NEW y \in f[k]
                 PROVE  Follows(y.register, Sum(k), d, Rising(i), Falling(i))
      OBVIOUS
    <3>1. k \in 0 .. top /\ k # 0
      BY <1>1
    <3>2. f[k] = IF k \notin fired THEN f[k - 1]
                 ELSE UNION {ApplyTransition(z, i, k, run[k]) : z \in f[k - 1]}
      BY <1>2, <3>1 DEF Transiting
    <3>3. /\ run[k - 1].life = "RUNNING" /\ Fired(run[k - 1], life) \in Nat
          /\ Fired(run[k], life) = Fired(run[k - 1], life) + (IF k \in fired THEN 1 ELSE 0)
      BY <1>1, <1>6, QuantumFires
    <3>4. \A z \in f[k - 1] : Follows(z.register, Sum(k - 1), d, Rising(i), Falling(i))
      BY <2>3, <3>3
    <3>5. CASE k \notin fired
      BY <3>2, <3>3, <3>4, <3>5
    <3>6. CASE k \in fired
      <4>1. PICK z \in f[k - 1] : y \in ApplyTransition(z, i, k, run[k])
        BY <3>2, <3>6
      <4>2. Follows(y.register, Sum(k - 1) + Gain(i), d, Rising(i), Falling(i))
        BY <3>4, <4>1, ApplyFollows
      <4>3. Sum(k - 1) + Gain(i) = Sum(k)
        <5> DEFINE n == Fired(run[k - 1], life)
                   g == Gain(i)
                   r == Register[i].initial
        <5>1. n \in Nat /\ g \in Int /\ r \in Int /\ Fired(run[k], life) = n + 1
          BY <3>3, <3>6, GainType, RegisterAssumption
        <5> HIDE DEF n, g, r
        <5>2. (r + (n * g)) + g = r + ((n + 1) * g)
          BY <5>1, Z3
        <5>3. Sum(k - 1) = r + (n * g) /\ Sum(k) = r + ((n + 1) * g)
          BY <5>1 DEF n, g, r
        <5> QED
          BY <5>2, <5>3 DEF g
      <4> QED
        BY <4>2, <4>3
    <3> QED
      BY <3>5, <3>6
  <2> HIDE DEF Good
  <2>4. bad = {}
    <3> SUFFICES ASSUME bad # {} PROVE FALSE
      OBVIOUS
    <3>1. PICK k \in bad : \A j \in bad : k <= j
      BY LeastNatural
    <3>2. k \in 1 .. top /\ k - 1 \in Nat /\ k - 1 \in 0 .. top /\ k - 1 \notin bad
      BY <1>1, <2>2, <3>1
    <3> QED
      BY <2>3, <3>1, <3>2
  <2>5. Good(top)
    BY <1>1, <2>4
  <2> QED
    BY <1>4, <2>1, <2>5 DEF Good, RegisterFollows
<1> QED
  BY <1>7, <1>8

-----------------------------------------------------------------------------
(* Lists *)

Listed(s) == \E S : s \in Seq(S)

\* Induction up to a number, over a set.
LEMMA UpTo ==
  ASSUME NEW top \in Nat, NEW good, 0 \in good, \A k \in 1 .. top : k - 1 \in good => k \in good
  PROVE  top \in good
<1> DEFINE bad == {k \in Nat : k <= top /\ k \notin good}
<1> SUFFICES ASSUME bad # {} PROVE FALSE
  OBVIOUS
<1>1. PICK k \in bad : \A j \in bad : k <= j
  BY LeastNatural
<1>2. k \in 1 .. top /\ k - 1 \in Nat /\ k - 1 <= top /\ k - 1 \notin bad
  BY <1>1
<1> QED
  BY <1>1, <1>2

\* The places of a list, and its first ones.
LEMMA ListFacts ==
  ASSUME NEW s, Listed(s)
  PROVE  Len(s) \in Nat /\ DOMAIN s = 1 .. Len(s)
<1>1. PICK S : s \in Seq(S)
  BY DEF Listed
<1> QED
  BY <1>1, LenProperties

\* What is indexed from 1 to a number is a list.
LEMMA Indexed ==
  ASSUME NEW n \in Nat, NEW s, s = [i \in 1 .. n |-> s[i]]
  PROVE  Listed(s) /\ Len(s) = n
<1> DEFINE S == {s[i] : i \in 1 .. n}
<1>1. s \in [1 .. n -> S]
  OBVIOUS
<1>2. s \in Seq(S) /\ Len(s) = n
  BY <1>1
<1> QED
  BY <1>2 DEF Listed

\* One more element.
LEMMA ListAppended ==
  ASSUME NEW s, Listed(s), NEW e
  PROVE  /\ Listed(Append(s, e)) /\ Len(Append(s, e)) = Len(s) + 1
         /\ \A i \in 1 .. Len(s) : Append(s, e)[i] = s[i]
         /\ Append(s, e)[Len(s) + 1] = e
<1>1. PICK S : s \in Seq(S)
  BY DEF Listed
<1>2. s \in Seq(S \union {e}) /\ e \in S \union {e}
  <2>1. s \in [1 .. Len(s) -> S] /\ Len(s) \in Nat
    BY <1>1, LenProperties
  <2>2. s \in [1 .. Len(s) -> S \union {e}]
    BY <2>1
  <2> QED
    BY <2>1, <2>2
<1> QED
  BY <1>2, AppendProperties DEF Listed

\* One list after another.
LEMMA Joined ==
  ASSUME NEW s, Listed(s), NEW t, Listed(t)
  PROVE  /\ Listed(s \o t) /\ Len(s \o t) = Len(s) + Len(t)
         /\ \A i \in 1 .. Len(s) : (s \o t)[i] = s[i]
         /\ \A i \in Len(s) + 1 .. Len(s) + Len(t) : (s \o t)[i] = t[i - Len(s)]
<1>1. PICK S : s \in Seq(S)
  BY DEF Listed
<1>2. PICK T : t \in Seq(T)
  BY DEF Listed
<1>3. s \in Seq(S \union T) /\ t \in Seq(S \union T)
  <2>1. s \in [1 .. Len(s) -> S] /\ Len(s) \in Nat /\ t \in [1 .. Len(t) -> T] /\ Len(t) \in Nat
    BY <1>1, <1>2, LenProperties
  <2>2. s \in [1 .. Len(s) -> S \union T] /\ t \in [1 .. Len(t) -> S \union T]
    BY <2>1
  <2> QED
    BY <2>1, <2>2
<1> QED
  BY <1>3, ConcatProperties DEF Listed

-----------------------------------------------------------------------------
(* The rule pipeline *)

DecisionFields ==
  {"status", "target", "templates", "tags", "generated", "redirects", "visited", "trace",
   "halt", "routed"}

\* The target is the last of those that were met, each once.
TargetsMet(d) ==
  /\ Listed(d.visited) /\ Len(d.visited) = d.redirects + 1
  /\ \A v, w \in DOMAIN d.visited : d.visited[v] = d.visited[w] => v = w
  /\ d.target = d.visited[Len(d.visited)]

\* Effects go to targets in the order in which these were met; behind a rule that rejects they
\* are REACTION.
EffectsInOrder(d) ==
  /\ Listed(d.generated) /\ Listed(d.trace)
  /\ \A n \in DOMAIN d.generated :
       /\ \E v \in DOMAIN d.visited : d.visited[v] = d.generated[n].target
       /\ \A m \in 1 .. n, v, w \in DOMAIN d.visited :
            d.visited[v] = d.generated[m].target /\ d.visited[w] = d.generated[n].target => v <= w
       /\ \E j \in DOMAIN d.trace : d.generated[n].id[2] = d.trace[j]
       /\ \A k \in DOMAIN d.trace :
            Rejects(d.trace[k]) /\ d.generated[n].class # "REACTION" =>
              \E j \in 1 .. k : d.generated[n].id[2] = d.trace[j]

\* A decision in a pass that began with r redirects.
Decided(d, r) ==
  /\ DOMAIN d = DecisionFields
  /\ d.halt \in {"NONE", "STAGE", "PIPELINE", "RESTART", "FAULT"}
  /\ d.redirects \in r .. MaxRedirects
  /\ d.halt = "RESTART" => r < d.redirects
  /\ Listed(d.templates)
  /\ TargetsMet(d) /\ EffectsInOrder(d)

\* A rule among the first l that fired has rejected the candidate if it does so at all.
Barred(d, l) ==
  d.halt = "FAULT" \/ d.status = "REJECTED" \/ \A k \in 1 .. l : ~Rejects(d.trace[k])

\* What holds of a decision between two rules.
Whole(d, r) == Decided(d, r) /\ Barred(d, Len(d.trace))

\* A decision of which only what the order of its effects does not see has changed.
LEMMA StillDecided ==
  ASSUME NEW r, NEW d, Decided(d, r), NEW e, DOMAIN e = DecisionFields,
         \A f \in {"target", "generated", "redirects", "visited", "trace"} : e[f] = d[f],
         Listed(e.templates), e.halt \in {"NONE", "STAGE", "PIPELINE", "FAULT"}
  PROVE  Decided(e, r)
<1>1. /\ e.target = d.target /\ e.generated = d.generated /\ e.redirects = d.redirects
      /\ e.visited = d.visited /\ e.trace = d.trace
  OBVIOUS
<1>2. TargetsMet(e)
  BY <1>1 DEF Decided, TargetsMet
<1>3. EffectsInOrder(e)
  BY <1>1 DEF Decided, EffectsInOrder
<1> QED
  BY <1>1, <1>2, <1>3 DEF Decided

\* A redirect meets a new target or faults the candidate.
LEMMA RedirectKeeps ==
  ASSUME NEW r \in Nat, NEW d, Decided(d, r), NEW op
  PROVE  LET e == Redirect(d, op)
         IN  /\ Decided(e, r) /\ e.trace = d.trace /\ e.status = d.status
<1> DEFINE n == Len(d.visited)
           met == Append(d.visited, op.target)
           e == [d EXCEPT !.target = op.target, !.visited = met, !.redirects = @ + 1, !.halt = "RESTART"]
<1>1. CASE (\E i \in DOMAIN d.visited : d.visited[i] = op.target) \/ d.redirects >= MaxRedirects
  <2>1. Redirect(d, op) = [d EXCEPT !.halt = "FAULT"]
    BY <1>1 DEF Redirect, Fault
  <2> DEFINE x == [d EXCEPT !.halt = "FAULT"]
  <2>2. /\ DOMAIN x = DecisionFields /\ x.halt = "FAULT" /\ x.status = d.status /\ x.trace = d.trace
        /\ x.templates = d.templates
        /\ \A f \in {"target", "generated", "redirects", "visited", "trace"} : x[f] = d[f]
    BY DEF Decided, DecisionFields
  <2>3. Listed(x.templates)
    BY <2>2 DEF Decided
  <2> HIDE DEF x
  <2>4. Decided(x, r)
    BY <2>2, <2>3, StillDecided
  <2> QED
    BY <2>1, <2>2, <2>4 DEF x
<1>2. CASE ~(\E i \in DOMAIN d.visited : d.visited[i] = op.target) /\ ~(d.redirects >= MaxRedirects)
  <2>1. Redirect(d, op) = e
    BY <1>2 DEF Redirect
  <2>2. /\ Listed(d.visited) /\ n = d.redirects + 1 /\ n \in Nat /\ DOMAIN d.visited = 1 .. n
        /\ MaxRedirects \in Nat /\ d.redirects \in r .. MaxRedirects
    BY ListFacts, RulesAssumption DEF Decided, TargetsMet
  <2>3. /\ Listed(met) /\ Len(met) = n + 1 /\ DOMAIN met = 1 .. n + 1
        /\ \A i \in 1 .. n : met[i] = d.visited[i]
        /\ met[n + 1] = op.target
    BY <2>2, ListAppended, ListFacts
  <2> HIDE DEF met
  <2>4. /\ DOMAIN e = DecisionFields /\ e.target = op.target /\ e.visited = met
        /\ e.redirects = d.redirects + 1 /\ e.halt = "RESTART" /\ e.status = d.status
        /\ e.trace = d.trace /\ e.generated = d.generated /\ e.templates = d.templates
    BY DEF Decided, DecisionFields
  <2> HIDE DEF e
  <2>5. \A v, w \in 1 .. n + 1 : met[v] = met[w] => v = w
    <3> SUFFICES ASSUME NEW v \in 1 .. n + 1, NEW w \in 1 .. n + 1, met[v] = met[w] PROVE v = w
      OBVIOUS
    <3>1. v = n + 1 \/ v \in 1 .. n
      BY <2>2
    <3>2. w = n + 1 \/ w \in 1 .. n
      BY <2>2
    <3>3. \A i \in 1 .. n : d.visited[i] # op.target
      BY <1>2, <2>2
    <3>4. \A i, j \in 1 .. n : d.visited[i] = d.visited[j] => i = j
      BY <2>2 DEF Decided, TargetsMet
    <3> QED
      BY <2>3, <3>1, <3>2, <3>3, <3>4
  <2>6. TargetsMet(e)
    BY <2>2, <2>3, <2>4, <2>5 DEF TargetsMet
  <2>7. EffectsInOrder(e)
    <3>1. \A v \in 1 .. n : v \in 1 .. n + 1 /\ met[v] = d.visited[v]
      BY <2>2, <2>3
    <3>2. EffectsInOrder(d)
      BY DEF Decided
    <3>3. ASSUME NEW k \in DOMAIN d.generated
          PROVE  /\ \E v \in 1 .. n : met[v] = d.generated[k].target
                 /\ \A v \in 1 .. n + 1 : met[v] = d.generated[k].target => v \in 1 .. n
      <4>1. PICK v \in 1 .. n : d.visited[v] = d.generated[k].target
        BY <2>2, <3>2 DEF EffectsInOrder
      <4> QED
        BY <3>1, <4>1, <2>5
    <3>4. \A k \in DOMAIN d.generated : 1 .. k \subseteq DOMAIN d.generated
      BY <3>2, ListFacts DEF EffectsInOrder
    <3>5. ASSUME NEW k \in DOMAIN d.generated, NEW m \in 1 .. k, NEW v \in 1 .. n + 1, NEW w \in 1 .. n + 1,
                 met[v] = d.generated[m].target, met[w] = d.generated[k].target
          PROVE  v <= w
      <4>1. v \in 1 .. n /\ w \in 1 .. n
        BY <3>3, <3>4, <3>5
      <4>2. d.visited[v] = d.generated[m].target /\ d.visited[w] = d.generated[k].target
        BY <3>1, <3>5, <4>1
      <4>3. \A x \in 1 .. k, y, z \in 1 .. n :
              d.visited[y] = d.generated[x].target /\ d.visited[z] = d.generated[k].target => y <= z
        BY <2>2, <3>2 DEF EffectsInOrder
      <4> QED
        BY <4>1, <4>2, <4>3
    <3>6. /\ Listed(e.generated) /\ Listed(e.trace)
          /\ \A k \in DOMAIN e.generated :
               /\ \E j \in DOMAIN e.trace : e.generated[k].id[2] = e.trace[j]
               /\ \A l \in DOMAIN e.trace :
                    Rejects(e.trace[l]) /\ e.generated[k].class # "REACTION" =>
                      \E j \in 1 .. l : e.generated[k].id[2] = e.trace[j]
      BY <2>4, <3>2 DEF EffectsInOrder
    <3> QED
      BY <2>3, <2>4, <3>1, <3>3, <3>5, <3>6 DEF EffectsInOrder
  <2>8. Listed(e.templates)
    BY <2>4 DEF Decided
  <2>9. e.redirects \in r .. MaxRedirects /\ r < e.redirects
    BY <1>2, <2>2, <2>4
  <2> QED
    BY <2>1, <2>4, <2>6, <2>7, <2>8, <2>9 DEF Decided
<1> QED
  BY <1>1, <1>2
\* What is selected from a list is one.
LEMMA SelectedListed ==
  ASSUME NEW s, Listed(s), NEW P \in SUBSET DOMAIN s
  PROVE  LET places == Sorted(P, Place)
         IN  Listed([n \in DOMAIN places |-> s[places[n]]])
<1> DEFINE places == Sorted(P, Place)
           kept == [n \in DOMAIN places |-> s[places[n]]]
<1>1. IsFiniteSet(P) /\ Cardinality(P) \in Nat
  <2>1. IsFiniteSet(1 .. Len(s))
    BY ListFacts, FS_Interval
  <2> QED
    BY <2>1, ListFacts, FS_Subset, FS_CardinalityType
<1>2. DOMAIN places = 1 .. Cardinality(P)
  BY DEF Sorted
<1>3. kept = [n \in 1 .. Cardinality(P) |-> kept[n]]
  BY <1>2
<1> HIDE DEF kept
<1>4. Listed(kept)
  BY <1>1, <1>3, Indexed
<1> QED
  BY <1>4 DEF kept

\* A record with other templates keeps its other fields.
LEMMA Retemplated ==
  ASSUME NEW r, NEW d, Decided(d, r), d.halt # "RESTART", NEW T, Listed(T),
         NEW e, e = [d EXCEPT !.templates = T]
  PROVE  Decided(e, r) /\ e.trace = d.trace /\ e.status = d.status /\ e.halt = d.halt
<1>1. /\ DOMAIN e = DecisionFields /\ e.templates = T /\ e.status = d.status
      /\ \A f \in DecisionFields \ {"templates"} : e[f] = d[f]
  BY DEF Decided, DecisionFields
<1>2. e.halt = d.halt /\ e.trace = d.trace
  BY <1>1 DEF DecisionFields
<1>3. \A f \in {"target", "generated", "redirects", "visited", "trace"} : e[f] = d[f]
  BY <1>1 DEF DecisionFields
<1>4. e.halt \in {"NONE", "STAGE", "PIPELINE", "FAULT"}
  BY <1>2 DEF Decided
<1>5. Decided(e, r)
  BY <1>1, <1>3, <1>4, StillDecided
<1> QED
  BY <1>1, <1>2, <1>5

\* The same of a decision that halts or faults.
LEMMA Halted ==
  ASSUME NEW r, NEW d, Decided(d, r), NEW h \in {"NONE", "STAGE", "PIPELINE", "FAULT"},
         NEW e, e = [d EXCEPT !.halt = h]
  PROVE  Decided(e, r) /\ e.trace = d.trace /\ e.status = d.status /\ e.halt = h
<1>1. /\ DOMAIN e = DecisionFields /\ e.halt = h /\ e.status = d.status
      /\ \A f \in DecisionFields \ {"halt"} : e[f] = d[f]
  BY DEF Decided, DecisionFields
<1>2. e.templates = d.templates /\ e.trace = d.trace
  BY <1>1 DEF DecisionFields
<1>3. \A f \in {"target", "generated", "redirects", "visited", "trace"} : e[f] = d[f]
  BY <1>1 DEF DecisionFields
<1>4. Listed(e.templates)
  BY <1>2 DEF Decided
<1>5. Decided(e, r)
  BY <1>1, <1>3, <1>4, StillDecided
<1> QED
  BY <1>1, <1>2, <1>5

\* The effects that rule k, the last that fired, adds for the target of the moment.
LEMMA GeneratedKeeps ==
  ASSUME NEW r \in Nat, NEW d, Decided(d, r), d.halt = "NONE", Len(d.trace) # 0,
         Barred(d, Len(d.trace) - 1), NEW more, Listed(more),
         \A i \in DOMAIN more :
            /\ more[i].target = d.target /\ more[i].id[2] = d.trace[Len(d.trace)]
            /\ d.status = "REJECTED" => more[i].class = "REACTION",
         NEW e, e = [d EXCEPT !.generated = @ \o more]
  PROVE  Decided(e, r) /\ e.trace = d.trace /\ e.status = d.status /\ e.halt = d.halt
<1> DEFINE all == d.generated \o more
           p == Len(d.generated)
           l == Len(d.trace)
           t == Len(d.visited)
<1>1. EffectsInOrder(d) /\ TargetsMet(d)
  BY DEF Decided
<1>2. /\ p \in Nat /\ DOMAIN d.generated = 1 .. p /\ DOMAIN more = 1 .. Len(more) /\ Len(more) \in Nat
      /\ l \in Nat /\ DOMAIN d.trace = 1 .. l /\ t \in Nat /\ DOMAIN d.visited = 1 .. t
      /\ t # 0
  <2>1. /\ p \in Nat /\ DOMAIN d.generated = 1 .. p /\ DOMAIN more = 1 .. Len(more) /\ Len(more) \in Nat
        /\ l \in Nat /\ DOMAIN d.trace = 1 .. l /\ t \in Nat /\ DOMAIN d.visited = 1 .. t
    BY <1>1, ListFacts DEF EffectsInOrder, TargetsMet
  <2>2. t = d.redirects + 1 /\ d.redirects \in Nat
    BY <1>1, RulesAssumption DEF TargetsMet, Decided
  <2> QED
    BY <2>1, <2>2
<1>3. /\ Listed(all) /\ DOMAIN all = 1 .. p + Len(more)
      /\ \A n \in 1 .. p : all[n] = d.generated[n]
      /\ \A n \in p + 1 .. p + Len(more) : all[n] = more[n - p]
  <2>1. Listed(d.generated)
    BY <1>1 DEF EffectsInOrder
  <2>2. /\ Listed(all) /\ Len(all) = p + Len(more)
        /\ \A n \in 1 .. p : all[n] = d.generated[n]
        /\ \A n \in p + 1 .. p + Len(more) : all[n] = more[n - p]
    BY <2>1, Joined
  <2> HIDE DEF all
  <2> QED
    BY <2>2, ListFacts
<1>4. ASSUME NEW n \in p + 1 .. p + Len(more)
      PROVE  /\ all[n].target = d.visited[t] /\ all[n].id[2] = d.trace[l]
             /\ d.status = "REJECTED" => all[n].class = "REACTION"
  <2>1. n - p \in DOMAIN more /\ all[n] = more[n - p]
    BY <1>2, <1>3
  <2> QED
    BY <1>1, <2>1 DEF TargetsMet
<1>0. e = [d EXCEPT !.generated = all]
  OBVIOUS
<1> HIDE DEF all
<1>5. /\ DOMAIN e = DecisionFields /\ e.generated = all /\ e.status = d.status
      /\ \A f \in DecisionFields \ {"generated"} : e[f] = d[f]
  BY <1>0 DEF Decided, DecisionFields
<1>6. /\ e.trace = d.trace /\ e.visited = d.visited /\ e.target = d.target /\ e.halt = d.halt
      /\ e.redirects = d.redirects /\ e.templates = d.templates
  BY <1>5 DEF DecisionFields
<1>7. TargetsMet(e)
  BY <1>1, <1>6 DEF TargetsMet
<1>8. \A n \in 1 .. p + Len(more) : n \in 1 .. p \/ n \in p + 1 .. p + Len(more)
  BY <1>2
<1>9. ASSUME NEW n \in 1 .. p + Len(more)
      PROVE  \E v \in 1 .. t : d.visited[v] = all[n].target
  <2>1. CASE n \in 1 .. p
    <3>1. all[n] = d.generated[n] /\ n \in DOMAIN d.generated
      BY <1>2, <1>3, <2>1
    <3>2. \E v \in 1 .. t : d.visited[v] = d.generated[n].target
      BY <1>1, <1>2, <3>1 DEF EffectsInOrder
    <3> QED
      BY <3>1, <3>2
  <2>2. CASE n \in p + 1 .. p + Len(more)
    <3>1. t \in 1 .. t /\ d.visited[t] = all[n].target
      BY <1>2, <1>4, <2>2
    <3> QED
      BY <3>1
  <2> QED
    BY <1>8, <2>1, <2>2
<1>10. ASSUME NEW n \in 1 .. p + Len(more), NEW m \in 1 .. n, NEW v \in 1 .. t, NEW w \in 1 .. t,
              d.visited[v] = all[m].target, d.visited[w] = all[n].target
       PROVE  v <= w
  <2>1. CASE n \in 1 .. p
    <3>1. m \in 1 .. p
      BY <1>2, <2>1
    <3>2. all[m] = d.generated[m] /\ all[n] = d.generated[n] /\ n \in DOMAIN d.generated
      BY <1>2, <1>3, <2>1, <3>1
    <3>3. \A i \in 1 .. n, x, y \in DOMAIN d.visited :
            d.visited[x] = d.generated[i].target /\ d.visited[y] = d.generated[n].target => x <= y
      BY <1>1, <3>2 DEF EffectsInOrder
    <3>4. v \in DOMAIN d.visited /\ w \in DOMAIN d.visited
      BY <1>2
    <3>5. d.visited[v] = d.generated[m].target /\ d.visited[w] = d.generated[n].target
      BY <1>10, <3>2
    <3> QED
      BY <3>3, <3>4, <3>5
  <2>2. CASE n \in p + 1 .. p + Len(more)
    <3>1. d.visited[w] = d.visited[t]
      BY <1>4, <1>10, <2>2
    <3>2. w = t
      BY <1>1, <1>2, <3>1 DEF TargetsMet
    <3> QED
      BY <1>2, <3>2
  <2> QED
    BY <1>8, <2>1, <2>2
<1>11. ASSUME NEW n \in 1 .. p + Len(more)
       PROVE  /\ \E j \in 1 .. l : all[n].id[2] = d.trace[j]
              /\ \A k \in 1 .. l :
                   Rejects(d.trace[k]) /\ all[n].class # "REACTION" =>
                     \E j \in 1 .. k : all[n].id[2] = d.trace[j]
  <2>1. CASE n \in 1 .. p
    <3>1. all[n] = d.generated[n] /\ n \in DOMAIN d.generated
      BY <1>2, <1>3, <2>1
    <3>2. /\ \E j \in 1 .. l : d.generated[n].id[2] = d.trace[j]
          /\ \A k \in 1 .. l :
               Rejects(d.trace[k]) /\ d.generated[n].class # "REACTION" =>
                 \E j \in 1 .. k : d.generated[n].id[2] = d.trace[j]
      BY <1>1, <1>2, <3>1 DEF EffectsInOrder
    <3> QED
      BY <3>1, <3>2
  <2>2. CASE n \in p + 1 .. p + Len(more)
    <3>1. l \in 1 .. l
      BY <1>2
    <3>2. ASSUME NEW k \in 1 .. l, Rejects(d.trace[k]), all[n].class # "REACTION"
          PROVE  \E j \in 1 .. k : all[n].id[2] = d.trace[j]
      <4>1. d.status # "REJECTED" /\ d.halt # "FAULT"
        BY <1>4, <2>2, <3>2
      <4>2. \A j \in 1 .. l - 1 : ~Rejects(d.trace[j])
        BY <4>1 DEF Barred
      <4>3. k = l
        BY <1>2, <3>2, <4>2
      <4> QED
        BY <1>4, <2>2, <3>1, <4>3
    <3> QED
      BY <1>4, <2>2, <3>1, <3>2
  <2> QED
    BY <1>8, <2>1, <2>2
<1> HIDE DEF p, l, t
<1>12. EffectsInOrder(e)
  <2>1. Listed(e.trace)
    BY <1>1, <1>6 DEF EffectsInOrder
  <2>2. /\ Listed(e.generated) /\ DOMAIN e.generated = 1 .. p + Len(more)
        /\ DOMAIN e.visited = 1 .. t /\ DOMAIN e.trace = 1 .. l
    BY <1>2, <1>3, <1>5, <1>6
  <2>6. e.generated = all /\ e.visited = d.visited /\ e.trace = d.trace
    BY <1>5, <1>6
  <2>3. ASSUME NEW n \in DOMAIN e.generated
        PROVE  \E v \in DOMAIN e.visited : e.visited[v] = e.generated[n].target
    BY <2>6, <1>9, <2>2
  <2>4. ASSUME NEW n \in DOMAIN e.generated, NEW m \in 1 .. n,
               NEW v \in DOMAIN e.visited, NEW w \in DOMAIN e.visited,
               e.visited[v] = e.generated[m].target, e.visited[w] = e.generated[n].target
        PROVE  v <= w
    BY <2>6, <1>10, <2>2, <2>4
  <2>5. ASSUME NEW n \in DOMAIN e.generated
        PROVE  /\ \E j \in DOMAIN e.trace : e.generated[n].id[2] = e.trace[j]
               /\ \A k \in DOMAIN e.trace :
                    Rejects(e.trace[k]) /\ e.generated[n].class # "REACTION" =>
                      \E j \in 1 .. k : e.generated[n].id[2] = e.trace[j]
    <3>1. /\ \E j \in 1 .. l : all[n].id[2] = d.trace[j]
          /\ \A k \in 1 .. l :
               Rejects(d.trace[k]) /\ all[n].class # "REACTION" =>
                 \E j \in 1 .. k : all[n].id[2] = d.trace[j]
      BY <1>11, <2>2
    <3>2. DOMAIN e.trace = 1 .. l /\ e.trace = d.trace /\ e.generated[n] = all[n]
      BY <2>2, <2>6
    <3>3. \E j \in DOMAIN e.trace : e.generated[n].id[2] = e.trace[j]
      BY <3>1, <3>2
    <3>4. ASSUME NEW k \in DOMAIN e.trace, Rejects(e.trace[k]), e.generated[n].class # "REACTION"
          PROVE  \E j \in 1 .. k : e.generated[n].id[2] = e.trace[j]
      <4>1. k \in 1 .. l /\ Rejects(d.trace[k]) /\ all[n].class # "REACTION"
        BY <3>2, <3>4
      <4>2. \E j \in 1 .. k : all[n].id[2] = d.trace[j]
        BY <3>1, <4>1
      <4> QED
        BY <3>2, <4>2
    <3> QED
      BY <3>3, <3>4
  <2>7. Listed(e.generated)
    BY <2>2
  <2>8. ASSUME NEW n \in DOMAIN e.generated
        PROVE  /\ \E v \in DOMAIN e.visited : e.visited[v] = e.generated[n].target
               /\ \A m \in 1 .. n, v, w \in DOMAIN e.visited :
                    e.visited[v] = e.generated[m].target /\ e.visited[w] = e.generated[n].target => v <= w
    BY <2>3, <2>4
  <2> QED
    BY <2>1, <2>5, <2>7, <2>8 DEF EffectsInOrder
<1>13. Decided(e, r)
  BY <1>5, <1>6, <1>7, <1>12 DEF Decided
<1> QED
  BY <1>5, <1>6, <1>13

\* Materialisation adds effects, faults the candidate, or does neither.
LEMMA MaterializeKeeps ==
  ASSUME NEW r \in Nat, NEW d, Decided(d, r), d.halt = "NONE", Len(d.trace) # 0,
         Barred(d, Len(d.trace) - 1), NEW c, NEW op, NEW n
  PROVE  LET e == Materialize(c, d, op, <<d.trace[Len(d.trace)], n>>)
         IN  /\ Decided(e, r) /\ e.trace = d.trace /\ e.status = d.status
             /\ e.halt \in {"NONE", "FAULT"}
<1> DEFINE k == d.trace[Len(d.trace)]
           e == Materialize(c, d, op, <<k, n>>)
           P == {i \in DOMAIN d.templates : op.classes = {} \/ d.templates[i].class \in op.classes}
           places == Sorted(P, Place)
           kept == [i \in DOMAIN places |-> d.templates[places[i]]]
           more == Concrete(c, d.target, kept, <<k, n>>)
<1>1. Selected(d.templates, LAMBDA t : op.classes = {} \/ t.class \in op.classes) = kept
  BY DEF Selected, Sorted
<1>2. Listed(kept)
  BY SelectedListed DEF Decided
<1>3. \/ e = d
      \/ e = [d EXCEPT !.halt = "FAULT"]
      \/ /\ e = [d EXCEPT !.generated = @ \o more]
         /\ d.status = "REJECTED" => \A i \in DOMAIN kept : kept[i].class = "REACTION"
  BY <1>1 DEF Materialize, Fault
<1>4. CASE e = d
  BY <1>4
<1>5. CASE e = [d EXCEPT !.halt = "FAULT"]
  BY <1>5, Halted
<1>6. CASE /\ e = [d EXCEPT !.generated = @ \o more]
           /\ d.status = "REJECTED" => \A i \in DOMAIN kept : kept[i].class = "REACTION"
  <2> HIDE DEF kept
  <2>1. /\ more = [i \in 1 .. Len(kept) |-> more[i]] /\ DOMAIN more = 1 .. Len(kept) /\ Len(kept) \in Nat
    BY <1>2, ListFacts DEF Concrete
  <2>2. ASSUME NEW i \in DOMAIN more
        PROVE  /\ more[i].target = d.target /\ more[i].class = kept[i].class
               /\ more[i].id[2] = k
    <3>1. i \in DOMAIN kept
      BY <1>2, <2>1, ListFacts, <2>2
    <3>2. more[i].id[2] = k
      BY <3>1 DEF Concrete
    <3> QED
      BY <3>1, <3>2 DEF Concrete
  <2> HIDE DEF more, e
  <2>3. Listed(more)
    BY <2>1, Indexed
  <2>4. DOMAIN more = DOMAIN kept
    BY <1>2, <2>1, ListFacts
  <2>5. \A i \in DOMAIN more :
          /\ more[i].target = d.target /\ more[i].id[2] = d.trace[Len(d.trace)]
          /\ d.status = "REJECTED" => more[i].class = "REACTION"
    BY <1>6, <2>2, <2>4
  <2>6. Decided(e, r) /\ e.trace = d.trace /\ e.status = d.status /\ e.halt = d.halt
    BY <1>6, <2>3, <2>5, GeneratedKeeps
  <2> QED
    BY <2>6 DEF e
<1> QED
  BY <1>3, <1>4, <1>5, <1>6
\* The operations after which the rest of a rule is not performed.
Stops == {"STOP_STAGE", "STOP_PIPELINE", "REDIRECT"}

\* A decision with another status or other tags.
LEMMA Marked ==
  ASSUME NEW r, NEW d, Decided(d, r), d.halt = "NONE", NEW e,
         DOMAIN e = DecisionFields, \A f \in DecisionFields \ {"status", "tags"} : e[f] = d[f]
  PROVE  Decided(e, r) /\ e.trace = d.trace /\ e.halt = d.halt
<1>1. DOMAIN e = DecisionFields /\ \A f \in DecisionFields \ {"status", "tags"} : e[f] = d[f]
  OBVIOUS
<1>2. e.templates = d.templates /\ e.trace = d.trace /\ e.halt = d.halt
  BY <1>1 DEF DecisionFields
<1>3. \A f \in {"target", "generated", "redirects", "visited", "trace"} : e[f] = d[f]
  BY <1>1 DEF DecisionFields
<1>4. Listed(e.templates)
  BY <1>2 DEF Decided
<1>5. Decided(e, r)
  BY <1>1, <1>2, <1>3, <1>4, StillDecided
<1> QED
  BY <1>1, <1>2, <1>5

\* One operation of rule k, the last that fired.
LEMMA PerformKeeps ==
  ASSUME NEW r \in Nat, NEW d, Decided(d, r), d.halt = "NONE", Len(d.trace) # 0,
         Barred(d, Len(d.trace) - 1), NEW c, NEW op, NEW n
  PROVE  LET e == Perform(c, d, op, <<d.trace[Len(d.trace)], n>>)
         IN  /\ Decided(e, r) /\ e.trace = d.trace
             /\ d.status = "REJECTED" \/ op.op = "REJECT" => e.status = "REJECTED"
             /\ e.halt \in {"NONE", "FAULT"} \/ op.op \in Stops
<1> DEFINE place == <<d.trace[Len(d.trace)], n>>
           e == Perform(c, d, op, place)
           Goal == /\ Decided(e, r) /\ e.trace = d.trace
                   /\ d.status = "REJECTED" \/ op.op = "REJECT" => e.status = "REJECTED"
                   /\ e.halt \in {"NONE", "FAULT"} \/ op.op \in Stops
<1>1. CASE op.op = "REJECT"
  <2> DEFINE tags == d.tags \union {op.tag}
  <2>1. e = [d EXCEPT !.status = "REJECTED", !.tags = tags]
    BY <1>1 DEF Perform
  <2> HIDE DEF tags, e
  <2>2. /\ DOMAIN e = DecisionFields /\ e.status = "REJECTED"
        /\ \A f \in DecisionFields \ {"status", "tags"} : e[f] = d[f]
    BY <2>1 DEF Decided, DecisionFields
  <2>3. Decided(e, r) /\ e.trace = d.trace /\ e.halt = d.halt
    BY <2>2, Marked
  <2> QED
    BY <2>2, <2>3 DEF e
<1>2. CASE op.op = "REDIRECT"
  <2>1. e = Redirect(d, op)
    BY <1>2 DEF Perform
  <2> QED
    BY <1>2, <2>1, RedirectKeeps DEF Stops
<1>3. CASE op.op = "REMOVE_EFFECT_CLASS"
  <2> DEFINE P == {i \in DOMAIN d.templates : d.templates[i].class # op.class}
             places == Sorted(P, Place)
             kept == [i \in DOMAIN places |-> d.templates[places[i]]]
  <2>1. Selected(d.templates, LAMBDA t : t.class # op.class) = kept
    BY DEF Selected, Sorted
  <2>2. Listed(kept)
    BY SelectedListed DEF Decided
  <2>3. e = [d EXCEPT !.templates = kept]
    BY <1>3, <2>1 DEF Perform
  <2> HIDE DEF kept
  <2> QED
    BY <1>3, <2>2, <2>3, Retemplated
<1>4. CASE op.op \in {"SCALE_EFFECT_CLASS", "CAP_EFFECT_CLASS", "REPLACE_EFFECT_CLASS",
                      "APPEND_EFFECT_TEMPLATE"}
  <2>1. Listed(d.templates) /\ Len(d.templates) \in Nat /\ DOMAIN d.templates = 1 .. Len(d.templates)
    BY ListFacts DEF Decided
  <2>2. \/ e = [d EXCEPT !.halt = "FAULT"]
        \/ \E T : Listed(T) /\ e = [d EXCEPT !.templates = T]
    <3>1. CASE op.op = "SCALE_EFFECT_CLASS"
      <4> DEFINE Scaled(t) == ScaleRatio(t.payload, op.numerator, op.denominator)
                 T == [i \in 1 .. Len(d.templates) |->
                         IF d.templates[i].class = op.class
                         THEN [d.templates[i] EXCEPT !.payload = CHOOSE m \in Scaled(d.templates[i]) : TRUE]
                         ELSE d.templates[i]]
      <4>1. e = [d EXCEPT !.halt = "FAULT"] \/ e = [d EXCEPT !.templates = T]
        BY <2>1, <3>1 DEF Perform, ScaleClass, OnClass, Fault
      <4>2. T = [i \in 1 .. Len(d.templates) |-> T[i]]
        OBVIOUS
      <4> HIDE DEF T
      <4>3. Listed(T)
        BY <2>1, <4>2, Indexed
      <4> QED
        BY <4>1, <4>3
    <3>2. CASE op.op = "CAP_EFFECT_CLASS"
      <4> DEFINE T == [i \in 1 .. Len(d.templates) |->
                         IF d.templates[i].class = op.class
                         THEN [d.templates[i] EXCEPT !.payload = IF op.cap < @ THEN op.cap ELSE @]
                         ELSE d.templates[i]]
      <4>1. e = [d EXCEPT !.templates = T]
        BY <2>1, <3>2 DEF Perform, OnClass
      <4>2. T = [i \in 1 .. Len(d.templates) |-> T[i]]
        OBVIOUS
      <4> HIDE DEF T
      <4>3. Listed(T)
        BY <2>1, <4>2, Indexed
      <4> QED
        BY <4>1, <4>3
    <3>3. CASE op.op = "REPLACE_EFFECT_CLASS"
      <4> DEFINE T == [i \in 1 .. Len(d.templates) |->
                         IF d.templates[i].class = op.class THEN op.template ELSE d.templates[i]]
      <4>1. e = [d EXCEPT !.templates = T]
        BY <2>1, <3>3 DEF Perform, OnClass
      <4>2. T = [i \in 1 .. Len(d.templates) |-> T[i]]
        OBVIOUS
      <4> HIDE DEF T
      <4>3. Listed(T)
        BY <2>1, <4>2, Indexed
      <4> QED
        BY <4>1, <4>3
    <3>4. CASE op.op = "APPEND_EFFECT_TEMPLATE"
      <4> DEFINE T == Append(d.templates, op.template)
      <4>1. e = [d EXCEPT !.templates = T]
        BY <3>4 DEF Perform
      <4>2. Listed(T)
        BY <2>1, ListAppended
      <4> QED
        BY <4>1, <4>2
    <3> QED
      BY <1>4, <3>1, <3>2, <3>3, <3>4
  <2>3. CASE e = [d EXCEPT !.halt = "FAULT"]
    BY <1>4, <2>3, Halted
  <2>4. CASE \E T : Listed(T) /\ e = [d EXCEPT !.templates = T]
    BY <1>4, <2>4, Retemplated
  <2> QED
    BY <2>2, <2>3, <2>4
<1>5. CASE op.op = "ADD_DECISION_TAG"
  <2> DEFINE tags == d.tags \union {op.tag}
  <2>1. e = [d EXCEPT !.tags = tags]
    BY <1>5 DEF Perform
  <2> HIDE DEF tags, e
  <2>2. /\ DOMAIN e = DecisionFields /\ e.status = d.status
        /\ \A f \in DecisionFields \ {"status", "tags"} : e[f] = d[f]
    BY <2>1 DEF Decided, DecisionFields
  <2>3. Decided(e, r) /\ e.trace = d.trace /\ e.halt = d.halt
    BY <2>2, Marked
  <2> QED
    BY <1>5, <2>2, <2>3 DEF e
<1>6. CASE op.op = "REQUEST_RECEIPT"
  <2>1. e = d
    BY <1>6 DEF Perform
  <2> QED
    BY <1>6, <2>1
<1>7. CASE op.op = "MATERIALIZE"
  <2>1. e = Materialize(c, d, op, place)
    BY <1>7 DEF Perform
  <2> QED
    BY <1>7, <2>1, MaterializeKeeps
<1>8. CASE op.op = "STOP_STAGE"
  <2>1. e = [d EXCEPT !.halt = "STAGE"]
    BY <1>8 DEF Perform
  <2> QED
    BY <1>8, <2>1, Halted DEF Stops
<1>9. CASE op.op = "STOP_PIPELINE"
  <2>1. e = [d EXCEPT !.halt = "PIPELINE"]
    BY <1>9 DEF Perform
  <2> QED
    BY <1>9, <2>1, Halted DEF Stops
<1>10. CASE op.op \notin {"REJECT", "REDIRECT", "REMOVE_EFFECT_CLASS", "SCALE_EFFECT_CLASS",
                          "CAP_EFFECT_CLASS", "REPLACE_EFFECT_CLASS", "APPEND_EFFECT_TEMPLATE",
                          "ADD_DECISION_TAG", "REQUEST_RECEIPT", "MATERIALIZE", "STOP_STAGE",
                          "STOP_PIPELINE"}
  <2>1. e = [d EXCEPT !.halt = "FAULT"]
    BY <1>10 DEF Perform, Fault
  <2> QED
    BY <1>10, <2>1, Halted
<1> QED
  BY <1>1, <1>2, <1>3, <1>4, <1>5, <1>6, <1>7, <1>8, <1>9, <1>10
\* What the first n operations of a rule make of a decision.
Firing(f, n, base, c, ops, place) ==
  f = [k \in 0 .. n |-> IF k = 0 THEN {base} ELSE {IF x.halt = "NONE" THEN Perform(c, x, ops[k], <<place, k>>) ELSE x : x \in f[k - 1]}]

\* Such a function exists, for any number of operations.
LEMMA FiringExists ==
  ASSUME NEW base, NEW c, NEW ops, NEW place, NEW n \in Nat
  PROVE  \E f : Firing(f, n, base, c, ops, place)
<1> DEFINE without == {k \in Nat : ~\E f : Firing(f, k, base, c, ops, place)}
<1> SUFFICES ASSUME without # {} PROVE FALSE
  OBVIOUS
<1>1. PICK k \in without : \A j \in without : k <= j
  BY LeastNatural
<1>2. CASE k = 0
  <2> DEFINE f == [j \in 0 .. 0 |-> {base}]
  <2>1. Firing(f, 0, base, c, ops, place)
    BY DEF Firing
  <2> QED
    BY <1>2, <2>1
<1>3. CASE k # 0
  <2>1. k - 1 \in Nat /\ k - 1 \notin without
    BY <1>1, <1>3
  <2>2. PICK g : Firing(g, k - 1, base, c, ops, place)
    BY <2>1
  <2> DEFINE f == [j \in 0 .. k |-> IF j = k THEN {IF x.halt = "NONE" THEN Perform(c, x, ops[k], <<place, k>>) ELSE x : x \in g[k - 1]} ELSE g[j]]
  <2>3. ASSUME NEW j \in 0 .. k
        PROVE  f[j] = IF j = 0 THEN {base} ELSE {IF x.halt = "NONE" THEN Perform(c, x, ops[j], <<place, j>>) ELSE x : x \in f[j - 1]}
    <3>1. CASE j = k
      <4>1. k - 1 \in 0 .. k /\ k - 1 # k /\ k \in 0 .. k
        BY <1>3, <2>1
      <4>2. f[k - 1] = g[k - 1] /\ f[k] = {IF x.halt = "NONE" THEN Perform(c, x, ops[k], <<place, k>>) ELSE x : x \in g[k - 1]}
        BY <4>1
      <4> HIDE DEF f
      <4> QED
        BY <1>3, <3>1, <4>2
    <3>2. CASE j # k
      <4>1. j \in 0 .. k - 1 /\ (j # 0 => j - 1 \in 0 .. k - 1 /\ j - 1 # k)
        BY <1>3, <3>2
      <4>2. f[j] = g[j] /\ (j # 0 => f[j - 1] = g[j - 1])
        BY <3>2, <4>1
      <4>3. g[j] = IF j = 0 THEN {base} ELSE {IF x.halt = "NONE" THEN Perform(c, x, ops[j], <<place, j>>) ELSE x : x \in g[j - 1]}
        BY <2>2, <4>1 DEF Firing
      <4> HIDE DEF f
      <4> QED
        BY <4>2, <4>3
    <3> QED
      BY <3>1, <3>2
  <2>4. Firing(f, k, base, c, ops, place)
    BY <2>3 DEF Firing
  <2> QED
    BY <2>4
<1> QED
  BY <1>2, <1>3

\* A decision after n operations of rule k: what the rule stops or rejects shows in it.
InRule(d, r, k, ops, n) ==
  /\ Decided(d, r) /\ Len(d.trace) # 0 /\ d.trace[Len(d.trace)] = k
  /\ Barred(d, Len(d.trace) - 1)
  /\ d.halt \in {"NONE", "FAULT"} \/ \E m \in 1 .. n : ops[m].op \in Stops
  /\ \A o \in 1 .. n :
       ops[o].op = "REJECT" /\ (\A m \in 1 .. o - 1 : ops[m].op \notin Stops) =>
         d.status = "REJECTED" \/ d.halt = "FAULT"

\* A rule that fires is noted.
LEMMA RuleStarts ==
  ASSUME NEW r \in Nat, NEW d, Whole(d, r), d.halt = "NONE", NEW k, NEW ops
  PROVE  InRule([d EXCEPT !.trace = Append(@, k)], r, k, ops, 0)
<1> DEFINE trace == Append(d.trace, k)
           e == [d EXCEPT !.trace = trace]
           l == Len(d.trace)
<1>1. Decided(d, r) /\ EffectsInOrder(d) /\ TargetsMet(d) /\ Barred(d, l)
  BY DEF Whole, Decided
<1>2. l \in Nat /\ DOMAIN d.trace = 1 .. l
  BY <1>1, ListFacts DEF EffectsInOrder
<1>3. /\ Listed(trace) /\ Len(trace) = l + 1 /\ DOMAIN trace = 1 .. l + 1
      /\ \A i \in 1 .. l : trace[i] = d.trace[i]
      /\ trace[l + 1] = k
  BY <1>1, <1>2, ListAppended, ListFacts DEF EffectsInOrder
<1> HIDE DEF trace
<1>4. /\ DOMAIN e = DecisionFields /\ e.trace = trace
      /\ \A f \in DecisionFields \ {"trace"} : e[f] = d[f]
  BY <1>1 DEF Decided, DecisionFields
<1> HIDE DEF e
<1>5. /\ e.halt = "NONE" /\ e.status = d.status /\ e.generated = d.generated /\ e.visited = d.visited
      /\ e.target = d.target /\ e.redirects = d.redirects /\ e.templates = d.templates
  BY <1>4 DEF DecisionFields
<1>6. TargetsMet(e)
  BY <1>1, <1>5 DEF TargetsMet
<1>7. ASSUME NEW n \in DOMAIN d.generated
      PROVE  /\ \E j \in 1 .. l + 1 : d.generated[n].id[2] = trace[j]
             /\ \A i \in 1 .. l + 1 :
                  Rejects(trace[i]) /\ d.generated[n].class # "REACTION" =>
                    \E j \in 1 .. i : d.generated[n].id[2] = trace[j]
  <2>1. PICK j \in 1 .. l : d.generated[n].id[2] = d.trace[j]
    BY <1>1, <1>2 DEF EffectsInOrder
  <2>2. j \in 1 .. l + 1 /\ d.generated[n].id[2] = trace[j]
    BY <1>2, <1>3, <2>1
  <2>3. ASSUME NEW i \in 1 .. l + 1, Rejects(trace[i]), d.generated[n].class # "REACTION"
        PROVE  \E h \in 1 .. i : d.generated[n].id[2] = trace[h]
    <3>1. CASE i = l + 1
      BY <2>2, <3>1
    <3>2. CASE i # l + 1
      <4>1. i \in 1 .. l /\ trace[i] = d.trace[i]
        BY <1>2, <1>3, <3>2
      <4>2. PICK h \in 1 .. i : d.generated[n].id[2] = d.trace[h]
        BY <1>1, <1>2, <2>3, <4>1 DEF EffectsInOrder
      <4>3. h \in 1 .. l /\ trace[h] = d.trace[h]
        BY <1>2, <1>3, <4>1
      <4> QED
        BY <4>2, <4>3
    <3> QED
      BY <3>1, <3>2
  <2> QED
    BY <2>2, <2>3
<1>8. EffectsInOrder(e)
  BY <1>1, <1>3, <1>4, <1>5, <1>7 DEF EffectsInOrder
<1>9. Decided(e, r)
  BY <1>1, <1>4, <1>5, <1>6, <1>8 DEF Decided
<1>10. Barred(e, l)
  BY <1>1, <1>2, <1>3, <1>4, <1>5 DEF Barred
<1>11. /\ Len(e.trace) # 0 /\ e.trace[Len(e.trace)] = k /\ Len(e.trace) - 1 = l
  BY <1>2, <1>3, <1>4
<1>12. InRule(e, r, k, ops, 0)
  BY <1>5, <1>9, <1>10, <1>11 DEF InRule
<1> QED
  BY <1>12 DEF e, trace

\* The next operation.
LEMMA RuleGoesOn ==
  ASSUME NEW r \in Nat, NEW d, NEW k, NEW ops, NEW n \in Nat, n # 0, InRule(d, r, k, ops, n - 1), NEW c
  PROVE  InRule(IF d.halt = "NONE" THEN Perform(c, d, ops[n], <<k, n>>) ELSE d, r, k, ops, n)
<1> DEFINE before == 1 .. n - 1
<1>1. \A m \in 1 .. n : m = n \/ m \in 1 .. n - 1
  OBVIOUS
<1>2. \A m \in 1 .. n - 1 : m \in 1 .. n
  OBVIOUS
<1>3. n \in 1 .. n
  OBVIOUS
<1>4. CASE d.halt # "NONE"
  <2>1. d.halt \in {"NONE", "FAULT"} \/ \E m \in 1 .. n : ops[m].op \in Stops
    BY <1>2 DEF InRule
  <2>2. ASSUME NEW o \in 1 .. n, ops[o].op = "REJECT", \A m \in 1 .. o - 1 : ops[m].op \notin Stops
        PROVE  d.status = "REJECTED" \/ d.halt = "FAULT"
    <3>1. CASE o \in 1 .. n - 1
      BY <2>2, <3>1 DEF InRule
    <3>2. CASE o = n
      BY <1>4, <2>2, <3>2 DEF InRule
    <3> QED
      BY <1>1, <3>1, <3>2
  <2>3. InRule(d, r, k, ops, n)
    BY <2>1, <2>2 DEF InRule
  <2> QED
    BY <1>4, <2>3
<1>5. CASE d.halt = "NONE"
  <2> DEFINE e == Perform(c, d, ops[n], <<k, n>>)
  <2>1. /\ Decided(d, r) /\ Len(d.trace) # 0 /\ d.trace[Len(d.trace)] = k
        /\ Barred(d, Len(d.trace) - 1)
    BY DEF InRule
  <2>2. /\ Decided(e, r) /\ e.trace = d.trace
        /\ d.status = "REJECTED" \/ ops[n].op = "REJECT" => e.status = "REJECTED"
        /\ e.halt \in {"NONE", "FAULT"} \/ ops[n].op \in Stops
    BY <1>5, <2>1, PerformKeeps
  <2> HIDE DEF e
  <2>3. Barred(e, Len(e.trace) - 1)
    BY <1>5, <2>1, <2>2 DEF Barred
  <2>4. e.halt \in {"NONE", "FAULT"} \/ \E m \in 1 .. n : ops[m].op \in Stops
    BY <1>3, <2>2
  <2>5. ASSUME NEW o \in 1 .. n, ops[o].op = "REJECT", \A m \in 1 .. o - 1 : ops[m].op \notin Stops
        PROVE  e.status = "REJECTED" \/ e.halt = "FAULT"
    <3>1. CASE o \in 1 .. n - 1
      BY <1>5, <2>2, <2>5, <3>1 DEF InRule
    <3>2. CASE o = n
      BY <2>2, <2>5, <3>2
    <3> QED
      BY <1>1, <3>1, <3>2
  <2>6. InRule(e, r, k, ops, n)
    BY <2>1, <2>2, <2>3, <2>4, <2>5 DEF InRule
  <2> QED
    BY <1>5, <2>6 DEF e
<1> QED
  BY <1>4, <1>5

\* The stops of a rule change nothing that matters here.
LEMMA StoppedKeeps ==
  ASSUME NEW r, NEW d, Decided(d, r), NEW rule
  PROVE  LET e == Stopped(d, rule)
         IN  /\ Decided(e, r) /\ e.trace = d.trace /\ e.status = d.status
             /\ d.halt = "FAULT" => e.halt = "FAULT"
<1> DEFINE e == Stopped(d, rule)
<1>1. \/ e = d
      \/ e = [d EXCEPT !.halt = "PIPELINE"] /\ d.halt # "FAULT"
      \/ e = [d EXCEPT !.halt = "STAGE"] /\ d.halt # "FAULT"
  BY DEF Stopped
<1> QED
  BY <1>1, Halted

\* A rule that fires leaves a decision as good as it found it.
LEMMA FireKeeps ==
  ASSUME setup \in Setups, NEW q, q.rules = Rulebook[setup.rules], NEW k \in DOMAIN q.rules,
         NEW r \in Nat, NEW d, Whole(d, r), d.halt = "NONE"
  PROVE  Fire(q, d, k) # {} /\ \A x \in Fire(q, d, k) : Whole(x, r)
<1> DEFINE ops == q.rules[k].ops
           top == Len(ops)
           base == [d EXCEPT !.trace = Append(@, k)]
<1>1. top \in Nat /\ DOMAIN ops = 1 .. top
  BY RulebookAssumption DEF IsList
<1> DEFINE f == CHOOSE f : Firing(f, top, base, q.candidate, ops, k)
<1>2. Firing(f, top, base, q.candidate, ops, k) /\ Fire(q, d, k) = {Stopped(x, q.rules[k]) : x \in f[top]}
  <2>1. Firing(f, top, base, q.candidate, ops, k)
    BY <1>1, FiringExists
  <2>2. Fire(q, d, k) = {Stopped(x, q.rules[k]) : x \in f[top]}
    BY DEF Fire, Firing
  <2> QED
    BY <2>1, <2>2
<1> HIDE DEF f
<1> DEFINE good == {n \in 0 .. top : f[n] # {} /\ \A x \in f[n] : InRule(x, r, k, ops, n)}
<1>3. InRule(base, r, k, ops, 0)
  BY RuleStarts
<1> HIDE DEF base, top
<1>4. 0 \in good
  <2>1. f[0] = {base} /\ 0 \in 0 .. top
    BY <1>1, <1>2 DEF Firing
  <2> QED
    BY <1>3, <2>1
<1>5. ASSUME NEW n \in 1 .. top, n - 1 \in good
      PROVE  n \in good
  <2>1. n \in 0 .. top /\ n # 0 /\ n \in Nat
    BY <1>1
  <2>2. f[n] = {IF x.halt = "NONE" THEN Perform(q.candidate, x, ops[n], <<k, n>>) ELSE x : x \in f[n - 1]}
    BY <1>2, <2>1 DEF Firing
  <2>3. f[n] # {}
    BY <1>5, <2>2
  <2>4. ASSUME NEW x \in f[n - 1]
        PROVE  InRule(IF x.halt = "NONE" THEN Perform(q.candidate, x, ops[n], <<k, n>>) ELSE x, r, k, ops, n)
    BY <1>5, <2>1, RuleGoesOn
  <2>5. \A y \in f[n] : InRule(y, r, k, ops, n)
    BY <2>2, <2>4
  <2> QED
    BY <2>1, <2>3, <2>5
<1>6. f[top] # {} /\ \A x \in f[top] : InRule(x, r, k, ops, top)
  <2>1. top \in good
    BY <1>1, <1>4, <1>5, UpTo
  <2> QED
    BY <2>1
<1>7. ASSUME NEW x \in f[top]
      PROVE  Whole(Stopped(x, q.rules[k]), r)
  <2> DEFINE e == Stopped(x, q.rules[k])
             l == Len(x.trace)
  <2>1. InRule(x, r, k, ops, top)
    BY <1>6
  <2>2. Decided(e, r) /\ e.trace = x.trace /\ e.status = x.status /\ (x.halt = "FAULT" => e.halt = "FAULT")
    BY <2>1, StoppedKeeps DEF InRule
  <2> HIDE DEF e
  <2>3. l \in Nat
    BY <2>1, ListFacts DEF InRule, Decided, EffectsInOrder
  <2>4. Rejects(k) => x.status = "REJECTED" \/ x.halt = "FAULT"
    <3>1. Rejects(k) => \E o \in 1 .. top :
            ops[o].op = "REJECT" /\ \A m \in 1 .. o - 1 : ops[m].op \notin Stops
      BY <1>1 DEF Rejects, Stops
    <3> QED
      BY <2>1, <3>1 DEF InRule
  <2>5. Barred(x, l)
    <3>1. CASE x.halt = "FAULT" \/ x.status = "REJECTED"
      BY <3>1 DEF Barred
    <3>2. CASE x.halt # "FAULT" /\ x.status # "REJECTED"
      <4>1. \A i \in 1 .. l - 1 : ~Rejects(x.trace[i])
        BY <2>1, <3>2 DEF InRule, Barred
      <4>2. ~Rejects(x.trace[l])
        BY <2>1, <2>4, <3>2 DEF InRule
      <4>3. \A i \in 1 .. l : i = l \/ i \in 1 .. l - 1
        BY <2>3
      <4>4. \A i \in 1 .. l : ~Rejects(x.trace[i])
        BY <4>1, <4>2, <4>3
      <4> QED
        BY <4>4 DEF Barred
    <3> QED
      BY <3>1, <3>2
  <2>6. Whole(e, r)
    BY <2>2, <2>5 DEF Whole, Barred
  <2> QED
    BY <2>6 DEF e
<1> QED
  BY <1>2, <1>6, <1>7

\* Rules that differ in their order each have a rank.
LEMMA RulesRanked ==
  ASSUME NEW rules, NEW S, IsFiniteSet(S), \A k \in S : rules[k].order \in Int,
         \A j, k \in S : rules[j].order = rules[k].order => j = k,
         NEW n \in 1 .. Cardinality(S)
  PROVE  \E x \in S : Cardinality({y \in S : LexLess(OrderOf(rules, y), OrderOf(rules, x))}) = n - 1
<1> DEFINE key == [k \in S |-> OrderOf(rules, k)]
<1>1. key \in [S -> Key(1)]
  <2>1. \A k \in S : OrderOf(rules, k) \in Key(1)
    BY DEF OrderOf, Key
  <2> QED
    BY <2>1
<1>2. ASSUME NEW j \in S, NEW k \in S, key[j] = key[k] PROVE j = k
  <2>1. OrderOf(rules, j)[1] = rules[j].order /\ OrderOf(rules, k)[1] = rules[k].order
    BY DEF OrderOf
  <2>2. OrderOf(rules, j) = OrderOf(rules, k)
    BY <1>2
  <2> QED
    BY <2>1, <2>2
<1>3. \A x \in S : {y \in S : LexLess(OrderOf(rules, y), OrderOf(rules, x))} = Before(S, key, x)
  BY DEF Before
<1> HIDE DEF key
<1>4. n - 1 \in 0 .. Cardinality(S) - 1
  BY FS_CardinalityType
<1>5. \E x \in S : Cardinality(Before(S, key, x)) = n - 1
  BY <1>1, <1>2, <1>4, Ranked
<1> QED
  BY <1>3, <1>5

\* The rules of a stage, one after the other.
LEMMA StageRules ==
  ASSUME setup \in Setups, NEW q, q.rules = Rulebook[setup.rules], NEW stage
  PROVE  /\ Len(InStage(q.rules, stage)) \in Nat
         /\ \A n \in 1 .. Len(InStage(q.rules, stage)) : InStage(q.rules, stage)[n] \in DOMAIN q.rules
<1> DEFINE rules == q.rules
           S == {k \in DOMAIN rules : rules[k].stage = stage}
           order == InStage(rules, stage)
<1>1. /\ IsList(rules) /\ \A k \in DOMAIN rules : rules[k].order \in Int
      /\ \A j, k \in DOMAIN rules :
           rules[j].stage = rules[k].stage /\ rules[j].order = rules[k].order => j = k
  BY RulebookAssumption
<1>2. IsFiniteSet(S) /\ Cardinality(S) \in Nat
  <2>1. Len(rules) \in Nat /\ DOMAIN rules = 1 .. Len(rules)
    BY <1>1 DEF IsList
  <2>2. IsFiniteSet(1 .. Len(rules)) /\ S \subseteq 1 .. Len(rules)
    BY <2>1, FS_Interval
  <2> QED
    BY <2>2, FS_Subset, FS_CardinalityType
<1>3. /\ \A k \in S : rules[k].order \in Int
      /\ \A j, k \in S : rules[j].order = rules[k].order => j = k
  BY <1>1
<1>4. order = [n \in 1 .. Cardinality(S) |->
                 CHOOSE x \in S : Cardinality({y \in S : LexLess(OrderOf(rules, y), OrderOf(rules, x))}) = n - 1]
  BY DEF InStage, Sorted
<1>5. S \subseteq DOMAIN rules
  OBVIOUS
<1> HIDE DEF S, rules
<1>6. ASSUME NEW n \in 1 .. Cardinality(S) PROVE order[n] \in S
  <2>1. \E x \in S : Cardinality({y \in S : LexLess(OrderOf(rules, y), OrderOf(rules, x))}) = n - 1
    BY <1>2, <1>3, RulesRanked
  <2> HIDE DEF order
  <2> QED
    BY <1>4, <2>1
<1>7. order = [n \in 1 .. Cardinality(S) |-> order[n]]
  BY <1>4
<1> HIDE DEF order
<1>8. Len(order) = Cardinality(S)
  BY <1>2, <1>7, Indexed
<1> QED
  BY <1>2, <1>5, <1>6, <1>8 DEF order, rules

\* What the first n rules of a stage make of a decision.
Staging(f, n, d, q, order) ==
  f = [k \in 0 .. n |-> IF k = 0 THEN {d} ELSE UNION {IF x.halt = "NONE" /\ Holds(q.rules[order[k]].when, x, q.defenses) THEN Fire(q, x, order[k]) ELSE {x} : x \in f[k - 1]}]

\* Such a function exists, for any number of rules.
LEMMA StagingExists ==
  ASSUME NEW d, NEW q, NEW order, NEW n \in Nat
  PROVE  \E f : Staging(f, n, d, q, order)
<1> DEFINE without == {k \in Nat : ~\E f : Staging(f, k, d, q, order)}
<1> SUFFICES ASSUME without # {} PROVE FALSE
  OBVIOUS
<1>1. PICK k \in without : \A j \in without : k <= j
  BY LeastNatural
<1>2. CASE k = 0
  <2> DEFINE f == [j \in 0 .. 0 |-> {d}]
  <2>1. Staging(f, 0, d, q, order)
    BY DEF Staging
  <2> QED
    BY <1>2, <2>1
<1>3. CASE k # 0
  <2>1. k - 1 \in Nat /\ k - 1 \notin without
    BY <1>1, <1>3
  <2>2. PICK g : Staging(g, k - 1, d, q, order)
    BY <2>1
  <2> DEFINE f == [j \in 0 .. k |-> IF j = k THEN UNION {IF x.halt = "NONE" /\ Holds(q.rules[order[k]].when, x, q.defenses) THEN Fire(q, x, order[k]) ELSE {x} : x \in g[k - 1]} ELSE g[j]]
  <2>3. ASSUME NEW j \in 0 .. k
        PROVE  f[j] = IF j = 0 THEN {d} ELSE UNION {IF x.halt = "NONE" /\ Holds(q.rules[order[j]].when, x, q.defenses) THEN Fire(q, x, order[j]) ELSE {x} : x \in f[j - 1]}
    <3>1. CASE j = k
      <4>1. k - 1 \in 0 .. k /\ k - 1 # k /\ k \in 0 .. k
        BY <1>3, <2>1
      <4>2. f[k - 1] = g[k - 1] /\ f[k] = UNION {IF x.halt = "NONE" /\ Holds(q.rules[order[k]].when, x, q.defenses) THEN Fire(q, x, order[k]) ELSE {x} : x \in g[k - 1]}
        BY <4>1
      <4> HIDE DEF f
      <4> QED
        BY <1>3, <3>1, <4>2
    <3>2. CASE j # k
      <4>1. j \in 0 .. k - 1 /\ (j # 0 => j - 1 \in 0 .. k - 1 /\ j - 1 # k)
        BY <1>3, <3>2
      <4>2. f[j] = g[j] /\ (j # 0 => f[j - 1] = g[j - 1])
        BY <3>2, <4>1
      <4>3. g[j] = IF j = 0 THEN {d} ELSE UNION {IF x.halt = "NONE" /\ Holds(q.rules[order[j]].when, x, q.defenses) THEN Fire(q, x, order[j]) ELSE {x} : x \in g[j - 1]}
        BY <2>2, <4>1 DEF Staging
      <4> HIDE DEF f
      <4> QED
        BY <4>2, <4>3
    <3> QED
      BY <3>1, <3>2
  <2>4. Staging(f, k, d, q, order)
    BY <2>3 DEF Staging
  <2> QED
    BY <2>4
<1> QED
  BY <1>2, <1>3

\* RunStage is made of the last value of such a function.
LEMMA RunStageRuns ==
  ASSUME NEW q, NEW d, NEW stage, Len(InStage(q.rules, stage)) \in Nat
  PROVE  \E f : /\ Staging(f, Len(InStage(q.rules, stage)), d, q, InStage(q.rules, stage))
                /\ RunStage(q, d, stage) = {StageOver(x, stage) : x \in f[Len(InStage(q.rules, stage))]}
<1> DEFINE order == InStage(q.rules, stage)
           f == CHOOSE f : Staging(f, Len(order), d, q, order)
<1>1. Staging(f, Len(order), d, q, order)
  BY StagingExists
<1>2. RunStage(q, d, stage) = {StageOver(x, stage) : x \in f[Len(order)]}
  BY DEF RunStage, Staging
<1> QED
  BY <1>1, <1>2

\* Between two stages no stop of a stage is left.
Between(d, r) == Whole(d, r) /\ d.halt # "STAGE"

\* The end of a stage.
LEMMA StageOverKeeps ==
  ASSUME NEW r, NEW d, Whole(d, r), NEW stage
  PROVE  Between(StageOver(d, stage), r)
<1> DEFINE left == IF d.halt = "STAGE" THEN [d EXCEPT !.halt = "NONE"] ELSE d
           e == StageOver(d, stage)
<1>1. /\ Decided(left, r) /\ left.trace = d.trace /\ left.status = d.status /\ left.halt # "STAGE"
      /\ d.halt = "FAULT" => left.halt = "FAULT"
  <2>1. CASE d.halt = "STAGE"
    BY <2>1, Halted DEF Whole
  <2>2. CASE d.halt # "STAGE"
    BY <2>2 DEF Whole
  <2> QED
    BY <2>1, <2>2
<1>2. e = left \/ e = [left EXCEPT !.routed = left.status]
  BY DEF StageOver
<1> HIDE DEF left, e
<1>3. Barred(left, Len(left.trace))
  BY <1>1 DEF Whole, Barred
<1>4. CASE e = left
  BY <1>1, <1>3, <1>4 DEF Between, Whole, e
<1>5. CASE e = [left EXCEPT !.routed = left.status]
  <2>1. DOMAIN e = DecisionFields /\ \A f \in DecisionFields \ {"routed"} : e[f] = left[f]
    BY <1>1, <1>5 DEF Decided, DecisionFields
  <2>2. /\ e.halt = left.halt /\ e.status = left.status /\ e.trace = left.trace
        /\ e.templates = left.templates /\ e.generated = left.generated /\ e.visited = left.visited
        /\ e.target = left.target /\ e.redirects = left.redirects
    BY <2>1 DEF DecisionFields
  <2>3. TargetsMet(e)
    BY <1>1, <2>2 DEF Decided, TargetsMet
  <2>4. EffectsInOrder(e)
    BY <1>1, <2>2 DEF Decided, EffectsInOrder
  <2>5. Decided(e, r)
    BY <1>1, <2>1, <2>2, <2>3, <2>4 DEF Decided
  <2>6. Between(e, r)
    BY <1>1, <1>3, <2>2, <2>5 DEF Between, Whole, Barred
  <2> QED
    BY <2>6 DEF e
<1> QED
  BY <1>2, <1>4, <1>5

\* A stage leaves a decision as good as it found it.
LEMMA RunStageKeeps ==
  ASSUME setup \in Setups, NEW q, q.rules = Rulebook[setup.rules], NEW stage,
         NEW r \in Nat, NEW d, Whole(d, r)
  PROVE  RunStage(q, d, stage) # {} /\ \A x \in RunStage(q, d, stage) : Between(x, r)
<1> DEFINE order == InStage(q.rules, stage)
           top == Len(order)
<1>1. top \in Nat /\ \A n \in 1 .. top : order[n] \in DOMAIN q.rules
  BY StageRules
<1>2. PICK f : /\ Staging(f, top, d, q, order)
               /\ RunStage(q, d, stage) = {StageOver(x, stage) : x \in f[top]}
  BY <1>1, RunStageRuns
<1> HIDE DEF order, top
<1> DEFINE good == {n \in 0 .. top : f[n] # {} /\ \A x \in f[n] : Whole(x, r)}
<1>3. 0 \in good
  <2>1. f[0] = {d} /\ 0 \in 0 .. top
    BY <1>1, <1>2 DEF Staging
  <2> QED
    BY <2>1
<1>4. ASSUME NEW n \in 1 .. top, n - 1 \in good
      PROVE  n \in good
  <2> DEFINE Onward(x) == IF x.halt = "NONE" /\ Holds(q.rules[order[n]].when, x, q.defenses)
                         THEN Fire(q, x, order[n]) ELSE {x}
  <2>1. n \in 0 .. top /\ n # 0
    BY <1>1
  <2>2. f[n] = UNION {Onward(x) : x \in f[n - 1]}
    BY <1>2, <2>1 DEF Staging
  <2>3. ASSUME NEW x \in f[n - 1]
        PROVE  Onward(x) # {} /\ \A y \in Onward(x) : Whole(y, r)
    <3>1. Whole(x, r) /\ order[n] \in DOMAIN q.rules
      BY <1>1, <1>4
    <3>2. x.halt = "NONE" =>
            Fire(q, x, order[n]) # {} /\ \A y \in Fire(q, x, order[n]) : Whole(y, r)
      BY <3>1, FireKeeps
    <3> QED
      BY <3>1, <3>2
  <2> HIDE DEF Onward
  <2>4. f[n] # {} /\ \A y \in f[n] : Whole(y, r)
    BY <1>4, <2>2, <2>3
  <2> QED
    BY <2>1, <2>4
<1>5. f[top] # {} /\ \A x \in f[top] : Whole(x, r)
  <2>1. top \in good
    BY <1>1, <1>3, <1>4, UpTo
  <2> QED
    BY <2>1
<1> QED
  BY <1>2, <1>5, StageOverKeeps

\* What the first n stages make of a decision.
Passing(f, n, base, q) ==
  f = [k \in 0 .. n |-> IF k = 0 THEN {base} ELSE UNION {IF x.halt = "NONE" THEN RunStage(q, x, Stages[k]) ELSE {x} : x \in f[k - 1]}]

\* Such a function exists, for any number of stages.
LEMMA PassingExists ==
  ASSUME NEW base, NEW q, NEW n \in Nat
  PROVE  \E f : Passing(f, n, base, q)
<1> DEFINE without == {k \in Nat : ~\E f : Passing(f, k, base, q)}
<1> SUFFICES ASSUME without # {} PROVE FALSE
  OBVIOUS
<1>1. PICK k \in without : \A j \in without : k <= j
  BY LeastNatural
<1>2. CASE k = 0
  <2> DEFINE f == [j \in 0 .. 0 |-> {base}]
  <2>1. Passing(f, 0, base, q)
    BY DEF Passing
  <2> QED
    BY <1>2, <2>1
<1>3. CASE k # 0
  <2>1. k - 1 \in Nat /\ k - 1 \notin without
    BY <1>1, <1>3
  <2>2. PICK g : Passing(g, k - 1, base, q)
    BY <2>1
  <2> DEFINE f == [j \in 0 .. k |-> IF j = k THEN UNION {IF x.halt = "NONE" THEN RunStage(q, x, Stages[k]) ELSE {x} : x \in g[k - 1]} ELSE g[j]]
  <2>3. ASSUME NEW j \in 0 .. k
        PROVE  f[j] = IF j = 0 THEN {base} ELSE UNION {IF x.halt = "NONE" THEN RunStage(q, x, Stages[j]) ELSE {x} : x \in f[j - 1]}
    <3>1. CASE j = k
      <4>1. k - 1 \in 0 .. k /\ k - 1 # k /\ k \in 0 .. k
        BY <1>3, <2>1
      <4>2. f[k - 1] = g[k - 1] /\ f[k] = UNION {IF x.halt = "NONE" THEN RunStage(q, x, Stages[k]) ELSE {x} : x \in g[k - 1]}
        BY <4>1
      <4> HIDE DEF f
      <4> QED
        BY <1>3, <3>1, <4>2
    <3>2. CASE j # k
      <4>1. j \in 0 .. k - 1 /\ (j # 0 => j - 1 \in 0 .. k - 1 /\ j - 1 # k)
        BY <1>3, <3>2
      <4>2. f[j] = g[j] /\ (j # 0 => f[j - 1] = g[j - 1])
        BY <3>2, <4>1
      <4>3. g[j] = IF j = 0 THEN {base} ELSE UNION {IF x.halt = "NONE" THEN RunStage(q, x, Stages[j]) ELSE {x} : x \in g[j - 1]}
        BY <2>2, <4>1 DEF Passing
      <4> HIDE DEF f
      <4> QED
        BY <4>2, <4>3
    <3> QED
      BY <3>1, <3>2
  <2>4. Passing(f, k, base, q)
    BY <2>3 DEF Passing
  <2> QED
    BY <2>4
<1> QED
  BY <1>2, <1>3

\* A pass with what it found in the decision, from which nothing stops it.
LEMMA PassKeeps ==
  ASSUME setup \in Setups, NEW q, q.rules = Rulebook[setup.rules],
         NEW r \in Nat, NEW d, Whole([d EXCEPT !.halt = "NONE"], r)
  PROVE  Pass(q, d) # {} /\ \A x \in Pass(q, d) : Between(x, r)
<1> DEFINE base == [d EXCEPT !.halt = "NONE"]
           top == Len(Stages)
           f == CHOOSE f : Passing(f, top, base, q)
<1>1. top \in Nat
  BY DEF Stages
<1>2. base.halt = "NONE"
  BY DEF Whole, Decided, DecisionFields
<1>3. Passing(f, top, base, q)
  BY <1>1, PassingExists
<1>4. Pass(q, d) = f[top]
  BY DEF Pass, Passing
<1> HIDE DEF base, top, f
<1> DEFINE good == {n \in 0 .. top : f[n] # {} /\ \A x \in f[n] : Between(x, r)}
<1>5. 0 \in good
  <2>1. f[0] = {base} /\ 0 \in 0 .. top
    BY <1>1, <1>3 DEF Passing
  <2>2. Between(base, r)
    BY <1>2 DEF Between, base
  <2> QED
    BY <2>1, <2>2
<1>6. ASSUME NEW n \in 1 .. top, n - 1 \in good
      PROVE  n \in good
  <2> DEFINE Onward(x) == IF x.halt = "NONE" THEN RunStage(q, x, Stages[n]) ELSE {x}
  <2>1. n \in 0 .. top /\ n # 0
    BY <1>1
  <2>2. f[n] = UNION {Onward(x) : x \in f[n - 1]}
    BY <1>3, <2>1 DEF Passing
  <2>3. ASSUME NEW x \in f[n - 1]
        PROVE  Onward(x) # {} /\ \A y \in Onward(x) : Between(y, r)
    <3>1. Between(x, r)
      BY <1>6
    <3>2. RunStage(q, x, Stages[n]) # {} /\ \A y \in RunStage(q, x, Stages[n]) : Between(y, r)
      BY <3>1, RunStageKeeps DEF Between
    <3> QED
      BY <3>1, <3>2
  <2> HIDE DEF Onward
  <2>4. f[n] # {} /\ \A y \in f[n] : Between(y, r)
    BY <1>6, <2>2, <2>3
  <2> QED
    BY <2>1, <2>4
<1>7. top \in good
  BY <1>1, <1>5, <1>6, UpTo
<1> QED
  BY <1>4, <1>7

\* What n redirects make of a candidate.
Resolving(f, n, q) ==
  f = [k \in 0 .. n |-> IF k = 0 THEN Pass(q, NewDecision(q.candidate)) ELSE UNION {IF x.halt = "RESTART" THEN Pass(q, x) ELSE {x} : x \in f[k - 1]}]

\* Such a function exists, for any number of redirects.
LEMMA ResolvingExists ==
  ASSUME NEW q, NEW n \in Nat
  PROVE  \E f : Resolving(f, n, q)
<1> DEFINE without == {k \in Nat : ~\E f : Resolving(f, k, q)}
<1> SUFFICES ASSUME without # {} PROVE FALSE
  OBVIOUS
<1>1. PICK k \in without : \A j \in without : k <= j
  BY LeastNatural
<1>2. CASE k = 0
  <2> DEFINE f == [j \in 0 .. 0 |-> Pass(q, NewDecision(q.candidate))]
  <2>1. Resolving(f, 0, q)
    BY DEF Resolving
  <2> QED
    BY <1>2, <2>1
<1>3. CASE k # 0
  <2>1. k - 1 \in Nat /\ k - 1 \notin without
    BY <1>1, <1>3
  <2>2. PICK g : Resolving(g, k - 1, q)
    BY <2>1
  <2> DEFINE f == [j \in 0 .. k |-> IF j = k THEN UNION {IF x.halt = "RESTART" THEN Pass(q, x) ELSE {x} : x \in g[k - 1]} ELSE g[j]]
  <2>3. ASSUME NEW j \in 0 .. k
        PROVE  f[j] = IF j = 0 THEN Pass(q, NewDecision(q.candidate)) ELSE UNION {IF x.halt = "RESTART" THEN Pass(q, x) ELSE {x} : x \in f[j - 1]}
    <3>1. CASE j = k
      <4>1. k - 1 \in 0 .. k /\ k - 1 # k /\ k \in 0 .. k
        BY <1>3, <2>1
      <4>2. f[k - 1] = g[k - 1] /\ f[k] = UNION {IF x.halt = "RESTART" THEN Pass(q, x) ELSE {x} : x \in g[k - 1]}
        BY <4>1
      <4> HIDE DEF f
      <4> QED
        BY <1>3, <3>1, <4>2
    <3>2. CASE j # k
      <4>1. j \in 0 .. k - 1 /\ (j # 0 => j - 1 \in 0 .. k - 1 /\ j - 1 # k)
        BY <1>3, <3>2
      <4>2. f[j] = g[j] /\ (j # 0 => f[j - 1] = g[j - 1])
        BY <3>2, <4>1
      <4>3. g[j] = IF j = 0 THEN Pass(q, NewDecision(q.candidate)) ELSE UNION {IF x.halt = "RESTART" THEN Pass(q, x) ELSE {x} : x \in g[j - 1]}
        BY <2>2, <4>1 DEF Resolving
      <4> HIDE DEF f
      <4> QED
        BY <4>2, <4>3
    <3> QED
      BY <3>1, <3>2
  <2>4. Resolving(f, k, q)
    BY <2>3 DEF Resolving
  <2> QED
    BY <2>4
<1> QED
  BY <1>2, <1>3

\* A new decision.
LEMMA NewWhole ==
  ASSUME NEW c, Listed(c.templates), NEW e, e = [NewDecision(c) EXCEPT !.halt = "NONE"]
  PROVE  Whole(e, 0)
<1>1. /\ DOMAIN e = DecisionFields /\ e.halt = "NONE" /\ e.redirects = 0 /\ e.templates = c.templates
      /\ e.visited = <<c.target>> /\ e.target = c.target /\ e.generated = << >> /\ e.trace = << >>
  BY DEF NewDecision, DecisionFields
<1>2. Listed(<< >>) /\ Len(<< >>) = 0 /\ DOMAIN << >> = {}
  BY EmptySeq DEF Listed
<1> DEFINE s == <<c.target>>
<1>3. Listed(s) /\ Len(s) = 1 /\ DOMAIN s = 1 .. 1 /\ s[1] = c.target
  <2>1. s = [i \in 1 .. 1 |-> s[i]] /\ DOMAIN s = 1 .. 1 /\ s[1] = c.target
    OBVIOUS
  <2> HIDE DEF s
  <2> QED
    BY <2>1, Indexed
<1>8. e.visited = s
  BY <1>1
<1>9. e.redirects = 0 /\ e.target = c.target
  BY <1>1
<1> HIDE DEF s
<1>4. TargetsMet(e)
  <2>1. Listed(e.visited) /\ Len(e.visited) = e.redirects + 1
    <3>1. Listed(e.visited)
      BY <1>3, <1>8
    <3>2. Len(e.visited) = 1
      BY <1>3, <1>8
    <3>3. e.redirects + 1 = 1
      BY <1>9
    <3> QED
      BY <3>1, <3>2, <3>3
  <2>2. \A v, w \in DOMAIN e.visited : v = 1 /\ w = 1
    BY <1>3, <1>8
  <2>4. e.target = e.visited[Len(e.visited)]
    BY <1>1, <1>3, <1>8
  <2> QED
    BY <2>1, <2>2, <2>4 DEF TargetsMet
<1>5. EffectsInOrder(e)
  BY <1>1, <1>2 DEF EffectsInOrder
<1>6. Barred(e, Len(e.trace))
  BY <1>1, <1>2 DEF Barred
<1>7. Decided(e, 0)
  BY <1>1, <1>4, <1>5, RulesAssumption DEF Decided
<1> QED
  BY <1>6, <1>7 DEF Whole

\* Every redirect is counted, and so the last pass allows no other.
LEMMA ResolveKeeps ==
  ASSUME setup \in Setups, NEW q, q.rules = Rulebook[setup.rules], Listed(q.candidate.templates)
  PROVE  LET d == ResolveCandidate(q)
         IN  /\ \E r \in Nat : Whole(d, r)
             /\ d.halt \in {"NONE", "PIPELINE", "FAULT"}
<1> DEFINE top == MaxRedirects
           f == CHOOSE f : Resolving(f, top, q)
           Met(x, n) == /\ \E r \in Nat : Between(x, r)
                        /\ x.halt = "RESTART" => x.redirects > n
           good == {n \in 0 .. top : f[n] # {} /\ \A x \in f[n] : Met(x, n)}
<1>1. top \in Nat
  BY RulesAssumption
<1>2. Resolving(f, top, q)
  BY <1>1, ResolvingExists
<1>3. ResolveCandidate(q) = CHOOSE d \in f[top] : TRUE
  BY DEF ResolveCandidate, Resolving
<1> HIDE DEF f
<1>4. 0 \in good
  <2>1. f[0] = Pass(q, NewDecision(q.candidate)) /\ 0 \in 0 .. top
    BY <1>1, <1>2 DEF Resolving
  <2>2. f[0] # {} /\ \A x \in f[0] : Between(x, 0)
    BY <2>1, NewWhole, PassKeeps
  <2>3. \A x \in f[0] : x.halt = "RESTART" => x.redirects > 0
    BY <2>2 DEF Between, Whole, Decided
  <2> QED
    BY <2>1, <2>2, <2>3
<1>5. ASSUME NEW n \in 1 .. top, n - 1 \in good
      PROVE  n \in good
  <2> DEFINE Onward(x) == IF x.halt = "RESTART" THEN Pass(q, x) ELSE {x}
  <2>1. n \in 0 .. top /\ n # 0 /\ n \in Nat
    BY <1>1
  <2>2. f[n] = UNION {Onward(x) : x \in f[n - 1]}
    BY <1>2, <2>1 DEF Resolving
  <2>3. ASSUME NEW x \in f[n - 1]
        PROVE  Onward(x) # {} /\ \A y \in Onward(x) : Met(y, n)
    <3>1. Met(x, n - 1)
      BY <1>5
    <3>2. CASE x.halt # "RESTART"
      BY <3>1, <3>2
    <3>3. CASE x.halt = "RESTART"
      <4> DEFINE s == x.redirects
                 e == [x EXCEPT !.halt = "NONE"]
      <4>1. PICK r \in Nat : Between(x, r)
        BY <3>1
      <4>2. s \in Nat /\ s >= n /\ s <= top
        BY <1>1, <2>1, <3>1, <3>3, <4>1 DEF Between, Whole, Decided
      <4>3. Decided(e, r) /\ e.trace = x.trace /\ e.status = x.status /\ e.halt = "NONE"
        BY <4>1, Halted DEF Between, Whole
      <4>4. e.redirects = s
        BY <4>1 DEF Between, Whole, Decided, DecisionFields
      <4> HIDE DEF e
      <4>5. Decided(e, s)
        BY <1>1, <4>2, <4>3, <4>4 DEF Decided
      <4>6. Barred(e, Len(e.trace))
        BY <3>3, <4>1, <4>3 DEF Between, Whole, Barred
      <4>7. Whole(e, s)
        BY <4>5, <4>6 DEF Whole
      <4>8. Pass(q, x) # {} /\ \A y \in Pass(q, x) : Between(y, s)
        BY <4>2, <4>7, PassKeeps DEF e
      <4>9. ASSUME NEW y \in Pass(q, x) PROVE Met(y, n)
        <5>1. Between(y, s)
          BY <4>8
        <5>2. y.halt = "RESTART" => s < y.redirects /\ y.redirects \in Int
          BY <1>1, <4>2, <5>1 DEF Between, Whole, Decided
        <5> QED
          BY <2>1, <4>2, <5>1, <5>2
      <4> QED
        BY <3>3, <4>8, <4>9
    <3> QED
      BY <3>2, <3>3
  <2> HIDE DEF Onward, Met
  <2>4. f[n] # {} /\ \A y \in f[n] : Met(y, n)
    BY <1>5, <2>2, <2>3
  <2> QED
    BY <2>1, <2>4
<1>6. top \in good
  <2> HIDE DEF good
  <2> QED
    BY <1>1, <1>4, <1>5, UpTo
<1> DEFINE d == ResolveCandidate(q)
<1>7. Met(d, top)
  BY <1>3, <1>6
<1> HIDE DEF d
<1>8. PICK r \in Nat : Between(d, r)
  BY <1>7
<1>9. d.halt # "RESTART"
  <2>1. d.redirects <= top /\ d.redirects \in Int
    BY <1>1, <1>8 DEF Between, Whole, Decided
  <2> QED
    BY <1>1, <1>7, <2>1
<1> QED
  BY <1>8, <1>9 DEF Between, Whole, Decided, d

-----------------------------------------------------------------------------
(* Reduction *)

Effect ==
  [id : Key(4), type : Int, class : STRING, source : Int, target : Entities, instance : Int,
   priority : Int, payload : Int, reducer : Reducers, authoritative : BOOLEAN]

\* Effects of the same target are told apart by their instance and their id.
Unlike(s) ==
  \A m, n \in DOMAIN s :
    s[m].target = s[n].target /\ s[m].instance = s[n].instance /\ s[m].id = s[n].id => m = n

IsEffects(s) == s \in Seq(Effect) /\ Unlike(s)

\* The places of the effects of group g.
PlacesOf(s, g) == {i \in DOMAIN s : <<s[i].target, s[i].type>> = g}

\* What tells effects of a group apart and orders them.
Rank(e) == <<-e.priority, e.source, e.instance, e.id[1], e.id[2], e.id[3], e.id[4]>>

\* What comes first behind two keys that are the same comes first.
LEMMA LexBehind ==
  ASSUME NEW p \in Key(7), NEW q \in Key(7), NEW u \in Key(10), NEW v \in Key(10),
         u[1] = v[1], u[2] = v[2], \A k \in 1 .. 7 : p[k] = u[k + 2] /\ q[k] = v[k + 2],
         LexLess(p, q)
  PROVE  LexLess(u, v)
<1>1. PICK k \in 1 .. 7 : p[k] < q[k] /\ \A h \in 1 .. k - 1 : p[h] = q[h]
  BY DEF LexLess, Key
<1>2. k + 2 \in DOMAIN u /\ u[k + 2] < v[k + 2]
  BY <1>1 DEF Key
<1>3. ASSUME NEW h \in 1 .. (k + 2) - 1 PROVE u[h] = v[h]
  <2>1. CASE h \in {1, 2}
    BY <2>1
  <2>2. CASE h \notin {1, 2}
    <3>1. h - 2 \in 1 .. k - 1 /\ h - 2 \in 1 .. 7 /\ (h - 2) + 2 = h
      BY <1>1, <1>3, <2>2
    <3>2. p[h - 2] = u[h] /\ q[h - 2] = v[h]
      BY <3>1
    <3> QED
      BY <1>1, <3>1, <3>2
  <2> QED
    BY <2>1, <2>2
<1> QED
  BY <1>2, <1>3 DEF LexLess

\* Within a group, the canonical order is that of the ranks.
LEMMA GroupOrder ==
  ASSUME NEW s, IsEffects(s), NEW g, NEW i \in PlacesOf(s, g), NEW j \in PlacesOf(s, g)
  PROVE  /\ CanonicalKey(s, i) \in Key(10)
         /\ CanonicalKey(s, i) = CanonicalKey(s, j) => i = j
         /\ i # j => (LexLess(CanonicalKey(s, i), CanonicalKey(s, j)) <=> Precedes(s[i], s[j]))
         /\ ~Precedes(s[i], s[i])
<1> DEFINE a == s[i]
           b == s[j]
           u == CanonicalKey(s, i)
           v == CanonicalKey(s, j)
<1>1. a \in Effect /\ b \in Effect /\ i \in Int /\ j \in Int
  BY DEF IsEffects, PlacesOf
<1>2. a.target = b.target /\ a.type = b.type
  BY DEF PlacesOf
<1>3. a.id \in Key(4) /\ b.id \in Key(4)
  BY <1>1 DEF Effect
<1>4. /\ {a.id[1], a.id[2], a.id[3], a.id[4], b.id[1], b.id[2], b.id[3], b.id[4]} \subseteq Int
      /\ (\A k \in 1 .. 4 : a.id[k] = b.id[k]) => a.id = b.id
  BY <1>3 DEF Key
<1>5. /\ u = <<a.target, a.type, -a.priority, a.source, a.instance,
               a.id[1], a.id[2], a.id[3], a.id[4], i>>
      /\ v = <<b.target, b.type, -b.priority, b.source, b.instance,
               b.id[1], b.id[2], b.id[3], b.id[4], j>>
  BY DEF CanonicalKey
<1>6. {a.target, a.type, -a.priority, a.source, a.instance, b.target, b.type, -b.priority,
       b.source, b.instance} \subseteq Int
  <2>1. a.target \in Int /\ b.target \in Int
    <3>1. Entities \subseteq Int
      BY EffectAssumption
    <3>2. a.target \in Entities /\ b.target \in Entities
      BY <1>1 DEF Effect
    <3> QED
      BY <3>1, <3>2
  <2>2. /\ a.type \in Int /\ a.priority \in Int /\ a.source \in Int /\ a.instance \in Int
        /\ b.type \in Int /\ b.priority \in Int /\ b.source \in Int /\ b.instance \in Int
    BY <1>1 DEF Effect
  <2> HIDE DEF a, b
  <2> QED
    BY <2>1, <2>2
<1>7. a.instance = b.instance /\ a.id = b.id => i = j
  BY <1>2 DEF IsEffects, Unlike, PlacesOf
<1> HIDE DEF a, b, u, v
<1>8. u \in Key(10) /\ v \in Key(10)
  BY <1>1, <1>4, <1>5, <1>6 DEF Key
<1>9. /\ u[1] = v[1] /\ u[2] = v[2]
      /\ Rank(a) \in Key(7) /\ Rank(b) \in Key(7)
      /\ \A k \in 1 .. 7 : Rank(a)[k] = u[k + 2] /\ Rank(b)[k] = v[k + 2]
  BY <1>2, <1>4, <1>5, <1>6 DEF Key, Rank
<1>10. Rank(a) = Rank(b) => i = j
  <2> SUFFICES ASSUME Rank(a) = Rank(b) PROVE i = j
    OBVIOUS
  <2>1. /\ Rank(a)[3] = a.instance /\ Rank(b)[3] = b.instance
        /\ \A k \in 1 .. 4 : Rank(a)[k + 3] = a.id[k] /\ Rank(b)[k + 3] = b.id[k]
    BY DEF Rank
  <2>2. a.instance = b.instance /\ \A k \in 1 .. 4 : a.id[k] = b.id[k]
    BY <2>1
  <2> QED
    BY <1>4, <1>7, <2>2
<1>11. u = v => i = j
  <2>1. u[10] = i /\ v[10] = j
    BY <1>5
  <2> QED
    BY <2>1
<1>12. LexLess(Rank(a), Rank(b)) => LexLess(u, v)
  BY <1>8, <1>9, LexBehind
<1>13. LexLess(Rank(b), Rank(a)) => LexLess(v, u)
  BY <1>8, <1>9, LexBehind
<1>14. i # j => (LexLess(u, v) <=> LexLess(Rank(a), Rank(b)))
  <2> SUFFICES ASSUME i # j, LexLess(u, v), ~LexLess(Rank(a), Rank(b)) PROVE FALSE
    BY <1>12
  <2>1. LexLess(Rank(b), Rank(a))
    BY <1>9, <1>10, LexTotal
  <2>2. LexLess(v, u)
    BY <1>13, <2>1
  <2> QED
    BY <1>8, <2>2, LexStrict
<1>15. Precedes(a, b) <=> LexLess(Rank(a), Rank(b))
  BY DEF Precedes, Rank
<1>16. ~Precedes(a, a)
  BY <1>9, LexStrict DEF Precedes, Rank
<1> QED
  BY <1>8, <1>11, <1>14, <1>15, <1>16 DEF a, b, u, v

\* The effects of group g.
MembersOf(s, g) == {s[i] : i \in PlacesOf(s, g)}

\* A group lists its effects, each once, in the order of their ranks.
GroupList(L, N, s, g) ==
  /\ N \in Nat /\ L \in Seq(Effect) /\ Len(L) = N /\ N = Cardinality(PlacesOf(s, g))
  /\ \A n \in 1 .. N : L[n] \in MembersOf(s, g)
  /\ \A e \in MembersOf(s, g) : \E n \in 1 .. N : L[n] = e
  /\ \A m, n \in 1 .. N : (Precedes(L[m], L[n]) <=> m < n) /\ (L[m] = L[n] => m = n)

\* So does the group of g.
LEMMA GroupLists ==
  ASSUME NEW s, IsEffects(s), NEW g
  PROVE  GroupList(Group(s, g), Cardinality(PlacesOf(s, g)), s, g)
<1> DEFINE P == PlacesOf(s, g)
           N == Cardinality(P)
           key == [i \in P |-> CanonicalKey(s, i)]
           order == [k \in 1 .. N |-> CHOOSE x \in P :
                       Cardinality({y \in P : LexLess(CanonicalKey(s, y), CanonicalKey(s, x))}) = k - 1]
           L == Group(s, g)
<1>1. IsFiniteSet(P) /\ N \in Nat
  <2>1. Len(s) \in Nat /\ DOMAIN s = 1 .. Len(s)
    BY DEF IsEffects
  <2>2. IsFiniteSet(1 .. Len(s)) /\ P \subseteq 1 .. Len(s)
    BY <2>1, FS_Interval DEF PlacesOf
  <2> QED
    BY <2>2, FS_Subset, FS_CardinalityType
<1>2. key \in [P -> Key(10)] /\ \A x, y \in P : key[x] = key[y] => x = y
  BY GroupOrder
<1>3. \A x \in P : {y \in P : LexLess(CanonicalKey(s, y), CanonicalKey(s, x))} = Before(P, key, x)
  BY DEF Before
<1>4. ASSUME NEW k \in 1 .. N
      PROVE  order[k] \in P /\ Cardinality(Before(P, key, order[k])) = k - 1
  <2> DEFINE B(x) == {y \in P : LexLess(CanonicalKey(s, y), CanonicalKey(s, x))}
  <2>1. k - 1 \in 0 .. N - 1
    BY <1>1
  <2>2. order[k] = CHOOSE x \in P : Cardinality(B(x)) = k - 1
    OBVIOUS
  <2>3. \A x \in P : B(x) = Before(P, key, x)
    BY <1>3
  <2> HIDE DEF key, P, order, B
  <2>4. \E x \in P : Cardinality(Before(P, key, x)) = k - 1
    BY <1>1, <1>2, <2>1, Ranked
  <2>5. order[k] \in P /\ Cardinality(B(order[k])) = k - 1
    BY <2>2, <2>3, <2>4
  <2> QED
    BY <2>3, <2>5
<1>5. /\ \A x \in P : \E k \in 1 .. N : order[k] = x
      /\ \A j, k \in 1 .. N : /\ order[j] = order[k] => j = k
                              /\ LexLess(key[order[j]], key[order[k]]) <=> j < k
  <2>1. DOMAIN order = 1 .. N
    OBVIOUS
  <2> HIDE DEF key, P, order
  <2>2. /\ Lists(order, P)
        /\ \A j, k \in 1 .. N : LexLess(key[order[j]], key[order[k]]) <=> j < k
    BY <1>1, <1>2, <1>4, <2>1, Enumerated
  <2> QED
    BY <2>2 DEF Lists
<1>6. L = [n \in 1 .. N |-> s[order[n]]]
  <2>1. Sorted(P, LAMBDA i : CanonicalKey(s, i)) = order
    BY DEF Sorted
  <2> HIDE DEF order, key
  <2> QED
    BY <2>1 DEF Group, CanonicalEffects, PlacesOf, order
<1>7. \A k \in 1 .. N : key[order[k]] = CanonicalKey(s, order[k])
  BY <1>4
<1> HIDE DEF order, key, L
<1>8. L = [n \in 1 .. N |-> L[n]] /\ \A n \in 1 .. N : L[n] = s[order[n]]
  BY <1>6
<1>9. \A x \in P : s[x] \in Effect
  BY DEF PlacesOf, IsEffects
<1>10. L \in Seq(Effect) /\ Len(L) = N
  <2>1. L \in [1 .. N -> Effect]
    BY <1>4, <1>8, <1>9
  <2> QED
    BY <1>1, <2>1
<1>11. \A n \in 1 .. N : L[n] \in MembersOf(s, g)
  BY <1>4, <1>5, <1>8 DEF MembersOf
<1>12. \A e \in MembersOf(s, g) : \E n \in 1 .. N : L[n] = e
  BY <1>4, <1>5, <1>8 DEF MembersOf
<1>13. ASSUME NEW m \in 1 .. N, NEW n \in 1 .. N
       PROVE  (Precedes(L[m], L[n]) <=> m < n) /\ (L[m] = L[n] => m = n)
  <2> DEFINE i == order[m]
             j == order[n]
  <2>1. i \in P /\ j \in P /\ (i = j => m = n) /\ L[m] = s[i] /\ L[n] = s[j]
    BY <1>4, <1>5, <1>8
  <2>2. LexLess(CanonicalKey(s, i), CanonicalKey(s, j)) <=> m < n
    BY <1>5, <1>7
  <2> HIDE DEF i, j
  <2>3. /\ i # j => (LexLess(CanonicalKey(s, i), CanonicalKey(s, j)) <=> Precedes(s[i], s[j]))
        /\ ~Precedes(s[i], s[i])
    BY <2>1, GroupOrder
  <2>4. Precedes(L[m], L[n]) <=> m < n
    <3>1. CASE i = j
      BY <2>1, <2>3, <3>1
    <3>2. CASE i # j
      BY <2>1, <2>2, <2>3, <3>2
    <3> QED
      BY <3>1, <3>2
  <2>5. L[m] = L[n] => m = n
    <3> SUFFICES ASSUME L[m] = L[n], m # n PROVE FALSE
      OBVIOUS
    <3>1. i # j
      <4>1. m < n \/ n < m
        BY <1>1
      <4>2. i = j => ~(m < n)
        BY <2>1, <2>3, <2>4
      <4> QED
        BY <2>1
    <3>2. s[i] = s[j] /\ s[i].target = s[j].target
      BY <2>1
    <3> QED
      BY <2>1, <3>1, <3>2 DEF IsEffects, Unlike, PlacesOf
  <2> QED
    BY <2>4, <2>5
<1> HIDE DEF N
<1> QED
  BY <1>1, <1>10, <1>11, <1>12, <1>13 DEF GroupList, L, N

\* As many members as numbers that they belong to.
LEMMA Counted ==
  ASSUME NEW m \in Int, NEW n \in Int, m <= n + 1, NEW T, NEW f \in [m .. n -> T],
         \A j, k \in m .. n : f[j] = f[k] => j = k,
         \A x \in T : \E k \in m .. n : f[k] = x
  PROVE  IsFiniteSet(T) /\ Cardinality(T) = (n - m) + 1
<1>1. f \in Surjection(m .. n, T)
  BY DEF Surjection
<1>2. f \in Injection(m .. n, T)
  BY DEF Injection, IsInjective
<1>3. IsFiniteSet(m .. n) /\ Cardinality(m .. n) = (n - m) + 1
  BY FS_Interval
<1> QED
  BY <1>1, <1>2, <1>3, FS_Surjection

\* As many effects come after one as there are places behind it.
LEMMA AfterIs ==
  ASSUME NEW s, NEW g, NEW L, NEW N, GroupList(L, N, s, g), NEW n \in 0 .. N
  PROVE  LET T == {e \in MembersOf(s, g) : n = 0 \/ Precedes(L[n], e)}
         IN  IsFiniteSet(T) /\ Cardinality(T) = N - n
<1> DEFINE T == {e \in MembersOf(s, g) : n = 0 \/ Precedes(L[n], e)}
           f == [k \in n + 1 .. N |-> L[k]]
<1>1. /\ N \in Nat /\ \A k \in 1 .. N : L[k] \in MembersOf(s, g)
      /\ \A e \in MembersOf(s, g) : \E k \in 1 .. N : L[k] = e
      /\ \A j, k \in 1 .. N : (Precedes(L[j], L[k]) <=> j < k) /\ (L[j] = L[k] => j = k)
  BY DEF GroupList
<1>2. n + 1 \in Int /\ N \in Int /\ n + 1 <= N + 1 /\ (N - (n + 1)) + 1 = N - n
  BY <1>1
<1>3. \A k \in n + 1 .. N : k \in 1 .. N /\ n < k /\ (n = 0 \/ n \in 1 .. N)
  BY <1>1
<1>4. ASSUME NEW k \in n + 1 .. N PROVE L[k] \in T
  BY <1>1, <1>3
<1>5. ASSUME NEW e \in T PROVE \E k \in n + 1 .. N : f[k] = e
  <2>1. PICK k \in 1 .. N : L[k] = e
    BY <1>1
  <2>2. n < k
    BY <1>1, <2>1
  <2>3. k \in n + 1 .. N
    BY <1>1, <2>2
  <2> QED
    BY <2>1, <2>3
<1>6. \A j, k \in n + 1 .. N : f[j] = f[k] => j = k
  BY <1>1, <1>3
<1> HIDE DEF T
<1>7. f \in [n + 1 .. N -> T]
  BY <1>4
<1> HIDE DEF f
<1>8. IsFiniteSet(T) /\ Cardinality(T) = (N - (n + 1)) + 1
  BY <1>2, <1>5, <1>6, <1>7, Counted
<1> QED
  BY <1>2, <1>8 DEF T

\* The powers of a up to the n-th.
Powering(f, n, a) ==
  f = [k \in 0 .. n |-> IF k = 0 THEN 1 ELSE a * f[k - 1]]

\* Such a function exists, for any number of powers.
LEMMA PoweringExists ==
  ASSUME NEW a, NEW n \in Nat
  PROVE  \E f : Powering(f, n, a)
<1> DEFINE without == {k \in Nat : ~\E f : Powering(f, k, a)}
<1> SUFFICES ASSUME without # {} PROVE FALSE
  OBVIOUS
<1>1. PICK k \in without : \A j \in without : k <= j
  BY LeastNatural
<1>2. CASE k = 0
  <2> DEFINE f == [j \in 0 .. 0 |-> 1]
  <2>1. Powering(f, 0, a)
    BY DEF Powering
  <2> QED
    BY <1>2, <2>1
<1>3. CASE k # 0
  <2>1. k - 1 \in Nat /\ k - 1 \notin without
    BY <1>1, <1>3
  <2>2. PICK g : Powering(g, k - 1, a)
    BY <2>1
  <2> DEFINE f == [j \in 0 .. k |-> IF j = k THEN a * g[k - 1] ELSE g[j]]
  <2>3. ASSUME NEW j \in 0 .. k
        PROVE  f[j] = IF j = 0 THEN 1 ELSE a * f[j - 1]
    <3>1. CASE j = k
      <4>1. k - 1 \in 0 .. k /\ k - 1 # k /\ k \in 0 .. k
        BY <1>3, <2>1
      <4>2. f[k - 1] = g[k - 1] /\ f[k] = a * g[k - 1]
        BY <4>1
      <4> HIDE DEF f
      <4> QED
        BY <1>3, <3>1, <4>2
    <3>2. CASE j # k
      <4>1. j \in 0 .. k - 1 /\ (j # 0 => j - 1 \in 0 .. k - 1 /\ j - 1 # k)
        BY <1>3, <3>2
      <4>2. f[j] = g[j] /\ (j # 0 => f[j - 1] = g[j - 1])
        BY <3>2, <4>1
      <4>3. g[j] = IF j = 0 THEN 1 ELSE a * g[j - 1]
        BY <2>2, <4>1 DEF Powering
      <4> HIDE DEF f
      <4> QED
        BY <4>2, <4>3
    <3> QED
      BY <3>1, <3>2
  <2>4. Powering(f, k, a)
    BY <2>3 DEF Powering
  <2> QED
    BY <2>4
<1> QED
  BY <1>2, <1>3


\* Power is what it is called.
LEMMA Powers ==
  ASSUME NEW a \in Int
  PROVE  Power(a, 0) = 1 /\ \A n \in Nat : Power(a, n) \in Int /\ Power(a, n + 1) = a * Power(a, n)
<1> DEFINE f(n) == CHOOSE f : Powering(f, n, a)
<1>1. ASSUME NEW n \in Nat PROVE Powering(f(n), n, a) /\ Power(a, n) = f(n)[n]
  <2>1. Powering(f(n), n, a)
    BY PoweringExists
  <2>2. Power(a, n) = f(n)[n]
    BY DEF Power, Powering
  <2> QED
    BY <2>1, <2>2
<1> HIDE DEF f
<1>2. ASSUME NEW n \in Nat, NEW k \in 0 .. n
      PROVE  f(n)[k] = IF k = 0 THEN 1 ELSE a * f(n)[k - 1]
  BY <1>1 DEF Powering
<1>3. ASSUME NEW n \in Nat PROVE f(n)[n] \in Int
  <2> DEFINE good == {k \in 0 .. n : f(n)[k] \in Int}
  <2>1. 0 \in good
    BY <1>2
  <2>2. ASSUME NEW k \in 1 .. n, k - 1 \in good PROVE k \in good
    BY <1>2, <2>2
  <2>3. n \in good
    <3> HIDE DEF good
    <3> QED
      BY <2>1, <2>2, UpTo
  <2> QED
    BY <2>3
<1>4. ASSUME NEW n \in Nat PROVE f(n + 1)[n] = f(n)[n]
  <2> DEFINE good == {k \in 0 .. n : f(n + 1)[k] = f(n)[k]}
  <2>1. n + 1 \in Nat /\ 0 \in 0 .. n /\ 0 \in 0 .. n + 1
    OBVIOUS
  <2>2. 0 \in good
    BY <1>2, <2>1
  <2>3. ASSUME NEW k \in 1 .. n, k - 1 \in good PROVE k \in good
    <3>1. k \in 0 .. n /\ k \in 0 .. n + 1 /\ k # 0
      OBVIOUS
    <3>2. f(n)[k] = a * f(n)[k - 1] /\ f(n + 1)[k] = a * f(n + 1)[k - 1]
      BY <1>2, <2>1, <3>1
    <3> QED
      BY <2>3, <3>1, <3>2
  <2>4. n \in good
    <3> HIDE DEF good
    <3> QED
      BY <2>2, <2>3, UpTo
  <2> QED
    BY <2>4
<1>5. ASSUME NEW n \in Nat PROVE f(n + 1)[n + 1] = a * f(n)[n]
  <2>1. n + 1 \in Nat /\ n + 1 \in 0 .. n + 1 /\ n + 1 # 0 /\ (n + 1) - 1 = n
    OBVIOUS
  <2>2. f(n + 1)[n + 1] = a * f(n + 1)[n]
    BY <1>2, <2>1
  <2> QED
    BY <1>4, <2>2
<1>6. Power(a, 0) = 1
  BY <1>1, <1>2
<1>7. ASSUME NEW n \in Nat PROVE Power(a, n) \in Int /\ Power(a, n + 1) = a * Power(a, n)
  <2>1. n + 1 \in Nat
    OBVIOUS
  <2> QED
    BY <1>1, <1>3, <1>5, <2>1
<1> QED
  BY <1>6, <1>7

\* What the first n payloads fold to.
Folding(f, n, payloads, factor) ==
  f = [k \in 0 .. n |-> IF k = 0 THEN {0} ELSE AddI64(MulI64(f[k - 1], factor), payloads[k])]

\* Such a function exists, for any number of payloads.
LEMMA FoldingExists ==
  ASSUME NEW payloads, NEW factor, NEW n \in Nat
  PROVE  \E f : Folding(f, n, payloads, factor)
<1> DEFINE without == {k \in Nat : ~\E f : Folding(f, k, payloads, factor)}
<1> SUFFICES ASSUME without # {} PROVE FALSE
  OBVIOUS
<1>1. PICK k \in without : \A j \in without : k <= j
  BY LeastNatural
<1>2. CASE k = 0
  <2> DEFINE f == [j \in 0 .. 0 |-> {0}]
  <2>1. Folding(f, 0, payloads, factor)
    BY DEF Folding
  <2> QED
    BY <1>2, <2>1
<1>3. CASE k # 0
  <2>1. k - 1 \in Nat /\ k - 1 \notin without
    BY <1>1, <1>3
  <2>2. PICK g : Folding(g, k - 1, payloads, factor)
    BY <2>1
  <2> DEFINE f == [j \in 0 .. k |-> IF j = k THEN AddI64(MulI64(g[k - 1], factor), payloads[k]) ELSE g[j]]
  <2>3. ASSUME NEW j \in 0 .. k
        PROVE  f[j] = IF j = 0 THEN {0} ELSE AddI64(MulI64(f[j - 1], factor), payloads[j])
    <3>1. CASE j = k
      <4>1. k - 1 \in 0 .. k /\ k - 1 # k /\ k \in 0 .. k
        BY <1>3, <2>1
      <4>2. f[k - 1] = g[k - 1] /\ f[k] = AddI64(MulI64(g[k - 1], factor), payloads[k])
        BY <4>1
      <4> HIDE DEF f
      <4> QED
        BY <1>3, <3>1, <4>2
    <3>2. CASE j # k
      <4>1. j \in 0 .. k - 1 /\ (j # 0 => j - 1 \in 0 .. k - 1 /\ j - 1 # k)
        BY <1>3, <3>2
      <4>2. f[j] = g[j] /\ (j # 0 => f[j - 1] = g[j - 1])
        BY <3>2, <4>1
      <4>3. g[j] = IF j = 0 THEN {0} ELSE AddI64(MulI64(g[j - 1], factor), payloads[j])
        BY <2>2, <4>1 DEF Folding
      <4> HIDE DEF f
      <4> QED
        BY <4>2, <4>3
    <3> QED
      BY <3>1, <3>2
  <2>4. Folding(f, k, payloads, factor)
    BY <2>3 DEF Folding
  <2> QED
    BY <2>4
<1> QED
  BY <1>2, <1>3


\* A list of effects folds to a sum, in which every payload takes the factors of those behind it.
LEMMA FoldedSums ==
  ASSUME NEW s, NEW g, NEW L, NEW N, GroupList(L, N, s, g), NEW factor \in Int,
         NEW c, c[0] = 1, \A k \in Nat : c[k] \in Int /\ c[k + 1] = factor * c[k],
         NEW w, \A k \in 1 .. N : w[L[k]] = L[k].payload * c[N - k]
  PROVE  /\ SumOf(w, MembersOf(s, g)) \in Int
         /\ Folded(Payloads(L), factor) \in {{}, {SumOf(w, MembersOf(s, g))}}
<1> DEFINE F(k) == {L[j] : j \in 1 .. k}
           p == Payloads(L)
           f == CHOOSE f : Folding(f, N, p, factor)
<1>1. /\ N \in Nat /\ \A k \in 1 .. N : L[k] \in MembersOf(s, g) /\ L[k] \in Effect
      /\ \A e \in MembersOf(s, g) : \E k \in 1 .. N : L[k] = e
      /\ \A j, k \in 1 .. N : L[j] = L[k] => j = k
      /\ Len(L) = N /\ DOMAIN L = 1 .. N
  <2>1. N \in Nat /\ L \in Seq(Effect) /\ Len(L) = N
    BY DEF GroupList
  <2>2. DOMAIN L = 1 .. N /\ \A k \in 1 .. N : L[k] \in Effect
    BY <2>1
  <2> QED
    BY <2>1, <2>2 DEF GroupList
<1>2. ASSUME NEW k \in 1 .. N PROVE p[k] = L[k].payload /\ p[k] \in Int /\ w[L[k]] \in Int
  <2>1. p[k] = L[k].payload /\ p[k] \in Int
    BY <1>1 DEF Payloads, Effect
  <2>2. N - k \in Nat
    BY <1>1
  <2>3. c[N - k] \in Int
    BY <2>2
  <2> QED
    BY <2>1, <2>3
<1>3. Len(p) = N
  <2>1. p = [k \in 1 .. N |-> L[k].payload]
    BY <1>1 DEF Payloads
  <2>2. p \in [1 .. N -> Int]
    BY <1>1, <2>1 DEF Effect
  <2>3. p \in Seq(Int) /\ Len(p) = N
    BY <1>1, <2>2
  <2> QED
    BY <2>3
<1>4. Folding(f, N, p, factor)
  BY <1>1, FoldingExists
<1>5. Folded(p, factor) = f[N]
  BY <1>3 DEF Folded, Folding
<1> HIDE DEF p, f
<1>6. IsFiniteSet(MembersOf(s, g))
  <2>1. 0 \in 0 .. N
    BY <1>1
  <2>2. MembersOf(s, g) = {e \in MembersOf(s, g) : 0 = 0 \/ Precedes(L[0], e)}
    OBVIOUS
  <2> QED
    BY <2>1, <2>2, AfterIs
<1>7. ASSUME NEW e \in MembersOf(s, g) PROVE w[e] \in Int
  BY <1>1, <1>2
<1>8. ASSUME NEW k \in 0 .. N PROVE F(k) \subseteq MembersOf(s, g) /\ SumOf(w, F(k)) \in Int
  <2>1. F(k) \subseteq MembersOf(s, g)
    BY <1>1
  <2>2. IsFiniteSet(F(k)) /\ \A e \in F(k) : w[e] \in Int
    BY <1>6, <1>7, <2>1, FS_Subset
  <2> HIDE DEF F
  <2> QED
    BY <2>1, <2>2, SumFacts
<1>9. ASSUME NEW k \in 1 .. N PROVE SumOf(w, F(k)) = w[L[k]] + SumOf(w, F(k - 1))
  <2>1. k \in 0 .. N /\ L[k] \in F(k)
    BY <1>1
  <2>2. F(k) \ {L[k]} = F(k - 1)
    <3>1. ASSUME NEW e \in F(k) \ {L[k]} PROVE e \in F(k - 1)
      <4>1. PICK j \in 1 .. k : e = L[j]
        OBVIOUS
      <4>2. j # k /\ j \in 1 .. k - 1
        BY <3>1, <4>1
      <4> QED
        BY <4>1, <4>2
    <3>2. ASSUME NEW e \in F(k - 1) PROVE e \in F(k) \ {L[k]}
      <4>1. PICK j \in 1 .. k - 1 : e = L[j]
        OBVIOUS
      <4>2. j \in 1 .. k /\ j \in 1 .. N /\ j # k
        BY <1>1
      <4>3. L[j] # L[k]
        BY <1>1, <4>2
      <4> QED
        BY <4>1, <4>2, <4>3
    <3> HIDE DEF F
    <3> QED
      BY <3>1, <3>2
  <2>3. IsFiniteSet(F(k)) /\ \A e \in F(k) : w[e] \in Int
    <3>1. F(k) \subseteq MembersOf(s, g)
      BY <1>8, <2>1
    <3> HIDE DEF F
    <3> QED
      BY <1>6, <1>7, <3>1, FS_Subset
  <2> HIDE DEF F
  <2>4. SumOf(w, F(k)) = w[L[k]] + SumOf(w, F(k) \ {L[k]})
    BY <2>1, <2>3, SumFacts
  <2> QED
    BY <2>2, <2>4
<1>10. SumOf(w, F(0)) = 0
  <2>1. F(0) = {}
    OBVIOUS
  <2>2. IsFiniteSet({}) /\ \A e \in {} : w[e] \in Int
    BY FS_EmptySet
  <2>3. SumOf(w, {}) = 0
    BY <2>2, SumFacts
  <2> QED
    BY <2>1, <2>3
<1>11. F(N) = MembersOf(s, g)
  BY <1>1
<1>12. N \in 0 .. N
  BY <1>1
<1> HIDE DEF F
<1> DEFINE Good(k) == \/ f[k] = {}
                      \/ \E v \in Int : f[k] = {v} /\ c[N - k] * v = SumOf(w, F(k))
           good == {k \in 0 .. N : Good(k)}
<1>13. 0 \in good
  <2>1. f[0] = {0} /\ 0 \in 0 .. N
    BY <1>1, <1>4 DEF Folding
  <2>2. c[N - 0] * 0 = 0
    <3>1. N - 0 = N /\ c[N] \in Int
      BY <1>1
    <3> QED
      BY <3>1
  <2> QED
    BY <1>10, <2>1, <2>2
<1>14. ASSUME NEW k \in 1 .. N, k - 1 \in good PROVE k \in good
  <2>1. k \in 0 .. N /\ k # 0 /\ k - 1 \in 0 .. N
    BY <1>1
  <2>2. f[k] = AddI64(MulI64(f[k - 1], factor), p[k])
    BY <1>4, <2>1 DEF Folding
  <2>3. CASE f[k - 1] = {}
    <3>1. f[k] = {}
      BY <2>2, <2>3 DEF AddI64, MulI64
    <3> QED
      BY <2>1, <3>1
  <2>4. CASE f[k - 1] # {}
    <3>1. PICK v \in Int : f[k - 1] = {v} /\ c[N - (k - 1)] * v = SumOf(w, F(k - 1))
      BY <1>14, <2>4
    <3> DEFINE x == v * factor + p[k]
               a == c[N - k]
    <3>2. f[k] \in {{}, {x}}
      BY <2>2, <3>1 DEF AddI64, MulI64
    <3>3. x \in Int /\ a \in Int /\ p[k] \in Int
      <4>1. N - k \in Nat
        BY <1>1
      <4>2. a \in Int
        BY <4>1
      <4>3. p[k] \in Int
        BY <1>2
      <4>4. v * factor \in Int
        OBVIOUS
      <4> QED
        BY <4>2, <4>3, <4>4
    <3>4. c[N - (k - 1)] = factor * a
      <4>1. N - k \in Nat /\ N - (k - 1) = (N - k) + 1
        BY <1>1
      <4> QED
        BY <4>1
    <3>5. a * x = (factor * a) * v + p[k] * a
      <4> HIDE DEF a
      <4> QED
        BY <3>3
    <3>6. w[L[k]] = p[k] * a
      BY <1>2
    <3> HIDE DEF x, a
    <3>7. SumOf(w, F(k)) = p[k] * a + SumOf(w, F(k - 1))
      BY <1>9, <3>6
    <3>8. a * x = SumOf(w, F(k))
      <4>1. SumOf(w, F(k - 1)) \in Int /\ (factor * a) * v = SumOf(w, F(k - 1))
        BY <1>8, <2>1, <3>1, <3>4
      <4>2. p[k] * a \in Int
        BY <3>3
      <4> QED
        BY <3>5, <3>7, <4>1, <4>2
    <3> QED
      BY <2>1, <3>2, <3>3, <3>8 DEF a
  <2> QED
    BY <2>3, <2>4
<1>15. N \in good
  <2> HIDE DEF good
  <2> QED
    BY <1>1, <1>13, <1>14, UpTo
<1>16. c[N - N] = 1
  <2>1. N - N = 0
    BY <1>1
  <2> QED
    BY <2>1
<1>17. f[N] = {} \/ \E v \in Int : f[N] = {v} /\ v = SumOf(w, F(N))
  BY <1>15, <1>16
<1> QED
  BY <1>5, <1>8, <1>11, <1>12, <1>17 DEF p

\* A finite set of integers that is not empty has a least and a greatest member.
LEMMA Extremes ==
  ASSUME NEW T \in SUBSET Int, IsFiniteSet(T), T # {}
  PROVE  Sums!Min(T) \in T /\ Sums!Max(T) \in T /\ \E z \in T : \A y \in T : z >= y
<1> DEFINE up == [x \in T |-> <<x>>]
           down == [x \in T |-> <<-x>>]
<1>1. /\ up \in [T -> Key(1)] /\ down \in [T -> Key(1)]
      /\ \A x \in T : up[x][1] = x /\ down[x][1] = -x
  <2>1. \A x \in T : <<x>> \in Key(1) /\ <<-x>> \in Key(1)
    BY DEF Key
  <2> QED
    BY <2>1
<1> HIDE DEF up, down
<1>2. /\ 1 \in Nat /\ \A x, y \in T : up[x] = up[y] => x = y
      /\ \A x, y \in T : down[x] = down[y] => x = y
  <2>1. ASSUME NEW x \in T, NEW y \in T, down[x] = down[y] PROVE x = y
    <3>1. -x = -y
      BY <1>1, <2>1
    <3> QED
      BY <3>1
  <2> QED
    BY <1>1, <2>1
<1>3. \E x \in T : \A y \in T \ {x} : LexLess(up[x], up[y])
  BY <1>1, <1>2, FirstExists
<1>4. \E z \in T : \A y \in T \ {z} : LexLess(down[z], down[y])
  BY <1>1, <1>2, FirstExists
<1>5. PICK x \in T : \A y \in T \ {x} : LexLess(up[x], up[y])
  BY <1>3
<1>6. PICK z \in T : \A y \in T \ {z} : LexLess(down[z], down[y])
  BY <1>4
<1>7. ASSUME NEW y \in T PROVE x <= y /\ z >= y
  <2>1. x <= y
    <3>1. CASE y = x
      BY <3>1
    <3>2. CASE y # x
      <4>1. PICK k \in DOMAIN up[x] : up[x][k] < up[y][k]
        BY <1>5, <3>2 DEF LexLess
      <4>2. k = 1
        BY <1>1, <4>1 DEF Key
      <4> QED
        BY <1>1, <4>1, <4>2
    <3> QED
      BY <3>1, <3>2
  <2>2. z >= y
    <3>1. CASE y = z
      BY <3>1
    <3>2. CASE y # z
      <4>1. PICK k \in DOMAIN down[z] : down[z][k] < down[y][k]
        BY <1>6, <3>2 DEF LexLess
      <4>2. k = 1
        BY <1>1, <4>1 DEF Key
      <4> QED
        BY <1>1, <4>1, <4>2
    <3> QED
      BY <3>1, <3>2
  <2> QED
    BY <2>1, <2>2
<1>8. Sums!Min(T) \in T
  BY <1>7 DEF Sums!Min
<1>9. Sums!Max(T) \in T
  BY <1>7 DEF Sums!Max
<1>10. \E w \in T : \A y \in T : w >= y
  BY <1>7
<1> QED
  BY <1>8, <1>9, <1>10

\* A group that does not raise is reduced to what its effects contribute, whatever the order of
\* their emission.
LEMMA ReduceIs ==
  ASSUME NEW s, IsEffects(s), NEW g \in Groups(s), NEW L, L = Group(s, g), ~GroupRaises(L),
         IsInteger(L[1].reducer)
  PROVE  /\ Contribution(MembersOf(s, g)) \in Int
         /\ ReducePayloads(L[1].reducer, Payloads(L)) = {Contribution(MembersOf(s, g))}
<1> DEFINE N == Cardinality(PlacesOf(s, g))
           S == MembersOf(s, g)
           p == Payloads(L)
           r == L[1].reducer
<1>1. GroupList(L, N, s, g)
  BY GroupLists
<1> HIDE DEF N
<1>2. /\ N \in Nat /\ L \in Seq(Effect) /\ Len(L) = N /\ \A k \in 1 .. N : L[k] \in S
      /\ \A e \in S : \E k \in 1 .. N : L[k] = e
  BY <1>1 DEF GroupList
<1>3. /\ DOMAIN L = 1 .. N /\ \A k \in 1 .. N : L[k] \in Effect
  BY <1>2
<1>4. N # 0 /\ 1 \in 1 .. N /\ N \in 1 .. N /\ S # {}
  <2>1. PICK i \in DOMAIN s : g = <<s[i].target, s[i].type>>
    BY DEF Groups
  <2>2. s[i] \in S
    BY <2>1 DEF MembersOf, PlacesOf
  <2>3. PICK k \in 1 .. N : TRUE
    BY <1>2, <2>2
  <2> QED
    BY <1>2, <2>2, <2>3
<1>5. ASSUME NEW e \in S PROVE e \in Effect /\ e.reducer = r
  <2>1. PICK k \in 1 .. N : L[k] = e
    BY <1>2
  <2> QED
    BY <1>3, <1>4, <2>1 DEF GroupRaises
<1>6. (CHOOSE e \in S : TRUE).reducer = r
  BY <1>4, <1>5
<1>7. ReducePayloads(r, p) # {}
  BY DEF GroupRaises
<1>8. r \in Reducers \ {"ORDERED", "SET_UNION"}
  BY <1>3, <1>4 DEF Effect, IsInteger
<1>9. p = [k \in 1 .. N |-> L[k].payload] /\ DOMAIN p = 1 .. N
  BY <1>3 DEF Payloads
<1>10. \A k \in 1 .. N : p[k] = L[k].payload /\ p[k] \in Int
  BY <1>3, <1>9 DEF Effect
<1>11. Len(p) = N
  <2>1. p \in [1 .. N -> Int]
    BY <1>9, <1>10
  <2> HIDE DEF p
  <2> QED
    BY <1>2, <2>1
<1> DEFINE After(e) == Cardinality({f \in S : Precedes(e, f)})
<1>12. /\ IsFiniteSet(S) /\ Cardinality(S) = N
       /\ \A k \in 1 .. N : After(L[k]) = N - k
  <2>1. 0 \in 0 .. N /\ N - 0 = N
    BY <1>2
  <2>2. S = {e \in MembersOf(s, g) : 0 = 0 \/ Precedes(L[0], e)}
    OBVIOUS
  <2>3. IsFiniteSet(S) /\ Cardinality(S) = N
    BY <1>1, <2>1, <2>2, AfterIs
  <2>4. ASSUME NEW k \in 1 .. N PROVE After(L[k]) = N - k
    <3>1. k \in 0 .. N /\ {f \in S : Precedes(L[k], f)} = {f \in S : k = 0 \/ Precedes(L[k], f)}
      BY <1>2
    <3> QED
      BY <1>1, <3>1, AfterIs
  <2> QED
    BY <2>3, <2>4
<1>13. {p[n] : n \in DOMAIN p} = {e.payload : e \in S}
  <2>1. ASSUME NEW n \in DOMAIN p PROVE p[n] \in {e.payload : e \in S}
    BY <1>2, <1>9, <1>10
  <2>2. ASSUME NEW e \in S PROVE e.payload \in {p[n] : n \in DOMAIN p}
    BY <1>2, <1>9, <1>10
  <2> QED
    BY <2>1, <2>2
<1>14. ASSUME NEW e \in S PROVE e.payload \in Int
  BY <1>5 DEF Effect
<1>15. {e.payload : e \in S} \in SUBSET Int /\ IsFiniteSet({e.payload : e \in S})
       /\ {e.payload : e \in S} # {}
  <2>1. {e.payload : e \in S} \in SUBSET Int /\ {e.payload : e \in S} # {}
    BY <1>4, <1>14
  <2> DEFINE T == {e.payload : e \in S}
             f == [e \in S |-> e.payload]
  <2>2. f \in Surjection(S, T)
    BY DEF Surjection
  <2> HIDE DEF T, f
  <2>3. IsFiniteSet(T)
    BY <1>12, <2>2, FS_Surjection
  <2> QED
    BY <2>1, <2>3 DEF T
<1> DEFINE v == Contribution(S)
           Goal == v \in Int /\ ReducePayloads(r, p) = {v}
<1>16. CASE r = "SUM"
  <2> DEFINE w == [e \in S |-> e.payload]
             c == [k \in Nat |-> 1]
  <2>1. v = SumOf(w, S)
    BY <1>6, <1>16 DEF Contribution
  <2>2. ReducePayloads(r, p) = Folded(p, 1)
    BY <1>16 DEF ReducePayloads
  <2>3. \A k \in 1 .. N : w[L[k]] = L[k].payload * c[N - k]
    <3>1. ASSUME NEW k \in 1 .. N PROVE w[L[k]] = L[k].payload * c[N - k]
      <4>1. N - k \in Nat /\ L[k] \in S /\ L[k].payload \in Int
        BY <1>2, <1>10
      <4> QED
        BY <4>1
    <3> QED
      BY <3>1
  <2>4. c[0] = 1 /\ \A k \in Nat : c[k] \in Int /\ c[k + 1] = 1 * c[k]
    OBVIOUS
  <2> HIDE DEF w, c, v, p, S
  <2>5. SumOf(w, S) \in Int /\ Folded(p, 1) \in {{}, {SumOf(w, S)}}
    BY <1>1, <2>3, <2>4, FoldedSums DEF S, p
  <2> QED
    BY <1>7, <2>1, <2>2, <2>5 DEF v, p, S
<1>17. CASE r = "CUSTOM_DETERMINISTIC"
  <2> DEFINE w == [e \in S |-> e.payload * Power(CustomFactor, After(e))]
             c == [k \in Nat |-> Power(CustomFactor, k)]
  <2>1. v = SumOf(w, S)
    BY <1>6, <1>17 DEF Contribution
  <2>2. ReducePayloads(r, p) = Folded(p, CustomFactor)
    BY <1>17 DEF ReducePayloads
  <2>3. \A k \in 1 .. N : w[L[k]] = L[k].payload * c[N - k]
    <3>1. ASSUME NEW k \in 1 .. N PROVE w[L[k]] = L[k].payload * c[N - k]
      <4>1. N - k \in Nat /\ L[k] \in S /\ After(L[k]) = N - k
        BY <1>2, <1>12
      <4> HIDE DEF After
      <4> QED
        BY <4>1
    <3> QED
      BY <3>1
  <2>4. c[0] = 1 /\ \A k \in Nat : c[k] \in Int /\ c[k + 1] = CustomFactor * c[k]
    <3>1. CustomFactor \in Int
      BY DEF CustomFactor
    <3>2. ASSUME NEW k \in Nat PROVE c[k] \in Int /\ c[k + 1] = CustomFactor * c[k]
      <4>1. k + 1 \in Nat
        OBVIOUS
      <4>2. c[k] = Power(CustomFactor, k) /\ c[k + 1] = Power(CustomFactor, k + 1)
        BY <4>1
      <4> HIDE DEF c
      <4> QED
        BY <3>1, <4>2, Powers
    <3>3. c[0] = Power(CustomFactor, 0)
      OBVIOUS
    <3> HIDE DEF c
    <3> QED
      BY <3>1, <3>2, <3>3, Powers
  <2>5. CustomFactor \in Int
    BY DEF CustomFactor
  <2> HIDE DEF w, c, v, p, S
  <2> DEFINE a == CustomFactor
  <2>7. a \in Int /\ \A k \in Nat : c[k] \in Int /\ c[k + 1] = a * c[k]
    BY <2>4, <2>5
  <2> HIDE DEF a
  <2>6. SumOf(w, S) \in Int /\ Folded(p, a) \in {{}, {SumOf(w, S)}}
    BY <1>1, <2>3, <2>4, <2>7, FoldedSums DEF S, p
  <2> QED
    BY <1>7, <2>1, <2>2, <2>6 DEF v, p, S, a
<1>18. CASE r = "MIN"
  <2>1. v = Sums!Min({e.payload : e \in S})
    BY <1>6, <1>18 DEF Contribution
  <2>2. ReducePayloads(r, p) = {Sums!Min({p[n] : n \in DOMAIN p})}
    BY <1>18 DEF ReducePayloads
  <2>3. Sums!Min({e.payload : e \in S}) \in Int
    BY <1>15, Extremes
  <2> HIDE DEF v, p, S
  <2> QED
    BY <1>13, <2>1, <2>2, <2>3 DEF v, p, S
<1>19. CASE r = "MAX"
  <2>1. v = Sums!Max({e.payload : e \in S})
    BY <1>6, <1>19 DEF Contribution
  <2>2. ReducePayloads(r, p) = {Sums!Max({p[n] : n \in DOMAIN p})}
    BY <1>19 DEF ReducePayloads
  <2>3. Sums!Max({e.payload : e \in S}) \in Int
    BY <1>15, Extremes
  <2> HIDE DEF v, p, S
  <2> QED
    BY <1>13, <2>1, <2>2, <2>3 DEF v, p, S
<1>20. CASE r \in {"FIRST", "EXCLUSIVE"}
  <2> DEFINE x == CHOOSE e \in S : After(e) = Cardinality(S) - 1
  <2>1. v = x.payload
    BY <1>6, <1>20 DEF Contribution
  <2>2. ReducePayloads(r, p) = {p[1]}
    BY <1>20 DEF ReducePayloads
  <2>3. After(L[1]) = Cardinality(S) - 1 /\ L[1] \in S
    BY <1>2, <1>4, <1>12
  <2>4. x \in S /\ After(x) = Cardinality(S) - 1
    <3> HIDE DEF After
    <3> QED
      BY <2>3
  <2> HIDE DEF x, After
  <2>5. PICK k \in 1 .. N : L[k] = x
    BY <1>2, <2>4
  <2>6. k = 1
    BY <1>2, <1>12, <2>4, <2>5
  <2> HIDE DEF v, p
  <2> QED
    BY <1>4, <1>10, <2>1, <2>2, <2>5, <2>6 DEF v, p, S
<1>21. CASE r = "LAST"
  <2> DEFINE x == CHOOSE e \in S : After(e) = 0
  <2>1. v = x.payload
    BY <1>6, <1>21 DEF Contribution
  <2>2. ReducePayloads(r, p) = {p[N]}
    BY <1>11, <1>21 DEF ReducePayloads
  <2>3. After(L[N]) = 0 /\ L[N] \in S
    BY <1>2, <1>4, <1>12
  <2>4. x \in S /\ After(x) = 0
    <3> HIDE DEF After
    <3> QED
      BY <2>3
  <2> HIDE DEF x, After
  <2>5. PICK k \in 1 .. N : L[k] = x
    BY <1>2, <2>4
  <2>6. k = N
    BY <1>2, <1>12, <2>4, <2>5
  <2> HIDE DEF v, p
  <2> QED
    BY <1>4, <1>10, <2>1, <2>2, <2>5, <2>6 DEF v, p, S
<1> HIDE DEF v, p, S, r
<1> QED
  BY <1>8, <1>16, <1>17, <1>18, <1>19, <1>20, <1>21 DEF Reducers, v, p, S, r

-----------------------------------------------------------------------------
(* The settlement of a tick *)

\* Numbers are sorted by themselves.
LEMMA PlacesSorted ==
  ASSUME NEW S \in SUBSET Int, IsFiniteSet(S), NEW order, order = Sorted(S, Place)
  PROVE  Lists(order, S)
<1> DEFINE key == [x \in S |-> Place(x)]
           N == Cardinality(S)
           B(x) == {y \in S : LexLess(Place(y), Place(x))}
<1>1. N \in Nat
  BY FS_CardinalityType
<1>2. key \in [S -> Key(1)] /\ \A x, y \in S : key[x] = key[y] => x = y
  <2>1. ASSUME NEW x \in S PROVE Place(x) \in Key(1) /\ Place(x)[1] = x
    <3>1. x \in Int
      OBVIOUS
    <3> QED
      BY ONLY <3>1 DEF Place, Key
  <2>2. key \in [S -> Key(1)]
    BY <2>1
  <2>3. \A x, y \in S : key[x] = key[y] => x = y
    BY <2>1
  <2> QED
    BY <2>2, <2>3
<1>3. \A x \in S : B(x) = Before(S, key, x)
  BY DEF Before
<1>4. order = [k \in 1 .. N |-> CHOOSE x \in S : Cardinality(B(x)) = k - 1]
  BY DEF Sorted
<1> HIDE DEF key, B
<1>5. ASSUME NEW k \in 1 .. N
      PROVE  order[k] \in S /\ Cardinality(Before(S, key, order[k])) = k - 1
  <2>1. k - 1 \in 0 .. N - 1
    BY <1>1
  <2>2. \E x \in S : Cardinality(Before(S, key, x)) = k - 1
    BY <1>2, <2>1, Ranked
  <2>3. order[k] = CHOOSE x \in S : Cardinality(B(x)) = k - 1
    BY <1>4
  <2>4. order[k] \in S /\ Cardinality(B(order[k])) = k - 1
    BY <1>3, <2>2, <2>3
  <2> QED
    BY <1>3, <2>4
<1>6. DOMAIN order = 1 .. N
  BY <1>4
<1>7. Lists(order, S)
  BY <1>2, <1>5, <1>6, Enumerated
<1> QED
  BY <1>7

\* What a contact names are numbers.
LEMMA ContactTyped ==
  ASSUME NEW c \in Contacts
  PROVE  /\ c.id \in Int /\ c.id # 0 /\ c.instance \in Instances /\ c.instance \in Int
         /\ c.target \in Entities /\ c.target \in Int
         /\ Owner[c.instance] \in Entities /\ Owner[c.instance] \in Int
         /\ c.fact \in Int /\ c.defense \in Int /\ c.partition \in Int /\ c.priority \in Int
         /\ c.amount \in Int
         /\ \A e \in Contacts : e.id = c.id => e = c
<1>1. /\ c.id \in Nat \ {0} /\ c.target \in Entities /\ c.instance \in Instances
      /\ {c.fact, c.defense, c.partition, c.priority, c.amount} \subseteq Int
      /\ \A e \in Contacts : e.id = c.id => e = c
  BY EffectAssumption
<1>2. Instances \subseteq Int /\ Entities \subseteq Int /\ Owner[c.instance] \in Entities
  BY <1>1, EffectAssumption
<1>3. {c.fact, c.defense, c.partition, c.priority, c.amount} \subseteq Int
  BY <1>1
<1>4. c.fact \in Int /\ c.defense \in Int /\ c.partition \in Int /\ c.priority \in Int /\ c.amount \in Int
  BY ONLY <1>3
<1>5. c.instance \in Int /\ c.target \in Int /\ Owner[c.instance] \in Int
  BY ONLY <1>1, <1>2
<1>6. c.id \in Int /\ c.id # 0
  BY ONLY <1>1
<1> QED
  BY <1>1, <1>2, <1>4, <1>5, <1>6

\* Of contacts, one comes first.
LEMMA FirstContact ==
  ASSUME NEW S \in SUBSET Contacts, S # {}
  PROVE  First(S, LegacyKey) \in S
<1> DEFINE key == [x \in S |-> LegacyKey(x)]
<1>1. IsFiniteSet(S)
  BY EffectAssumption, FS_Subset
<1>2. ASSUME NEW x \in S PROVE LegacyKey(x) \in Key(5) /\ LegacyKey(x)[5] = x.id
  <2>1. x \in Contacts
    OBVIOUS
  <2>2. /\ x.target \in Int /\ -x.priority \in Int /\ Owner[x.instance] \in Int
        /\ x.instance \in Int /\ x.id \in Int
    BY <2>1, ContactTyped
  <2> QED
    BY ONLY <2>2 DEF LegacyKey, Key
<1>3. key \in [S -> Key(5)]
  BY <1>2
<1>4. \A x, y \in S : key[x] = key[y] => x = y
  <2>1. \A x, y \in S : x.id = y.id => x = y
    BY ContactTyped
  <2> QED
    BY <1>2, <2>1
<1>5. \A x \in S : key[x] = LegacyKey(x)
  OBVIOUS
<1> HIDE DEF key
<1>6. \E x \in S : \A y \in S \ {x} : LexLess(key[x], key[y])
  BY <1>1, <1>3, <1>4, FirstExists
<1>7. \E x \in S : \A y \in S \ {x} : LexLess(LegacyKey(x), LegacyKey(y))
  BY <1>5, <1>6
<1> QED
  BY <1>7 DEF First

\* Contacts are sorted by what they name, and last by their ids.
LEMMA ContactsSorted ==
  ASSUME NEW S \in SUBSET Contacts, NEW order, order = Sorted(S, Order)
  PROVE  Lists(order, S)
<1> DEFINE key == [x \in S |-> Order(x)]
           N == Cardinality(S)
           B(x) == {y \in S : LexLess(Order(y), Order(x))}
<1>1. IsFiniteSet(S) /\ N \in Nat
  BY EffectAssumption, FS_Subset, FS_CardinalityType
<1>2. key \in [S -> Key(7)] /\ \A x, y \in S : key[x] = key[y] => x = y
  <2>1. ASSUME NEW x \in S PROVE Order(x) \in Key(7) /\ Order(x)[7] = x.id
    <3>1. x \in Contacts
      OBVIOUS
    <3>2. /\ Owner[x.instance] \in Int /\ x.target \in Int /\ x.instance \in Int
          /\ x.fact \in Int /\ x.defense \in Int /\ x.partition \in Int /\ x.id \in Int
      BY <3>1, ContactTyped
    <3> QED
      BY ONLY <3>2 DEF Order, Key
  <2>2. key \in [S -> Key(7)]
    BY <2>1
  <2>3. \A x, y \in S : key[x] = key[y] => x = y
    <3>1. \A x, y \in S : x.id = y.id => x = y
      BY EffectAssumption
    <3> QED
      BY <2>1, <3>1
  <2> QED
    BY <2>2, <2>3
<1>3. \A x \in S : B(x) = Before(S, key, x)
  BY DEF Before
<1>4. order = [k \in 1 .. N |-> CHOOSE x \in S : Cardinality(B(x)) = k - 1]
  BY DEF Sorted
<1> HIDE DEF key, B
<1>5. ASSUME NEW k \in 1 .. N
      PROVE  order[k] \in S /\ Cardinality(Before(S, key, order[k])) = k - 1
  <2>1. k - 1 \in 0 .. N - 1
    BY <1>1
  <2>2. \E x \in S : Cardinality(Before(S, key, x)) = k - 1
    BY <1>1, <1>2, <2>1, Ranked
  <2>3. order[k] = CHOOSE x \in S : Cardinality(B(x)) = k - 1
    BY <1>4
  <2>4. order[k] \in S /\ Cardinality(B(order[k])) = k - 1
    BY <1>3, <2>2, <2>3
  <2> QED
    BY <1>3, <2>4
<1>6. DOMAIN order = 1 .. N
  BY <1>4
<1>7. Lists(order, S)
  BY <1>1, <1>2, <1>5, <1>6, Enumerated
<1> QED
  BY <1>7

\* Groups are sorted by target and type.
LEMMA GroupsSorted ==
  ASSUME NEW S \in SUBSET (Int \X Int), IsFiniteSet(S), NEW order, order = Sorted(S, GroupKey)
  PROVE  Lists(order, S)
<1> DEFINE key == [x \in S |-> GroupKey(x)]
           N == Cardinality(S)
           B(x) == {y \in S : LexLess(GroupKey(y), GroupKey(x))}
<1>1. N \in Nat
  BY FS_CardinalityType
<1>2. key \in [S -> Key(2)] /\ \A x, y \in S : key[x] = key[y] => x = y
  <2>1. \A x \in S : GroupKey(x) \in Key(2) /\ GroupKey(x) = x
    BY DEF GroupKey, Key
  <2> QED
    BY <2>1
<1>3. \A x \in S : B(x) = Before(S, key, x)
  BY DEF Before
<1>4. order = [k \in 1 .. N |-> CHOOSE x \in S : Cardinality(B(x)) = k - 1]
  BY DEF Sorted
<1> HIDE DEF key, B
<1>5. ASSUME NEW k \in 1 .. N
      PROVE  order[k] \in S /\ Cardinality(Before(S, key, order[k])) = k - 1
  <2>1. k - 1 \in 0 .. N - 1
    BY <1>1
  <2>2. \E x \in S : Cardinality(Before(S, key, x)) = k - 1
    BY <1>2, <2>1, Ranked
  <2>3. order[k] = CHOOSE x \in S : Cardinality(B(x)) = k - 1
    BY <1>4
  <2>4. order[k] \in S /\ Cardinality(B(order[k])) = k - 1
    BY <1>3, <2>2, <2>3
  <2> QED
    BY <1>3, <2>4
<1>6. DOMAIN order = 1 .. N
  BY <1>4
<1>7. Lists(order, S)
  BY <1>2, <1>5, <1>6, Enumerated
<1> QED
  BY <1>7

\* The authoritative effects are those of the tick, each once.
LEMMA AuthoritativeEffects ==
  ASSUME IsEffects(round.typed)
  PROVE  /\ IsEffects(Authoritative)
         /\ \A n \in DOMAIN Authoritative : \E m \in DOMAIN round.typed :
              Authoritative[n] = round.typed[m] /\ round.typed[m].authoritative
         /\ \A m \in DOMAIN round.typed : round.typed[m].authoritative =>
              \E n \in DOMAIN Authoritative : Authoritative[n] = round.typed[m]
<1> DEFINE s == round.typed
           P == {i \in DOMAIN s : s[i].authoritative}
           places == Sorted(P, Place)
           A == Authoritative
<1>1. s \in Seq(Effect) /\ Len(s) \in Nat /\ DOMAIN s = 1 .. Len(s) /\ \A i \in DOMAIN s : s[i] \in Effect
  <2>1. s \in Seq(Effect)
    BY DEF IsEffects
  <2> HIDE DEF s
  <2> QED
    BY <2>1
<1>2. P \in SUBSET Int /\ IsFiniteSet(P)
  <2>1. IsFiniteSet(1 .. Len(s)) /\ P \subseteq 1 .. Len(s)
    BY <1>1, FS_Interval
  <2>2. P \subseteq Int
    BY <1>1
  <2> HIDE DEF P
  <2> QED
    BY <2>1, <2>2, FS_Subset
<1>3. A = [n \in DOMAIN places |-> s[places[n]]]
  BY DEF Authoritative, Selected, Sorted
<1> HIDE DEF P, A
<1>4. Lists(places, P)
  BY <1>2, PlacesSorted
<1> HIDE DEF places
<1> DEFINE N == Cardinality(P)
<1>5. /\ N \in Nat /\ DOMAIN places = 1 .. N /\ \A k \in 1 .. N : places[k] \in P
      /\ \A x \in P : \E k \in 1 .. N : places[k] = x
      /\ \A j, k \in 1 .. N : places[j] = places[k] => j = k
  BY <1>4 DEF Lists
<1> HIDE DEF N
<1>6. \A k \in 1 .. N : places[k] \in DOMAIN s /\ s[places[k]].authoritative
  BY <1>5 DEF P
<1>7. A \in [1 .. N -> Effect]
  BY <1>1, <1>3, <1>5, <1>6
<1>8. A \in Seq(Effect) /\ DOMAIN A = 1 .. N
  BY <1>5, <1>7
<1>9. \A k \in 1 .. N : A[k] = s[places[k]]
  BY <1>3, <1>5
<1>10. Unlike(A)
  <2>1. Unlike(s)
    BY DEF IsEffects
  <2> QED
    BY <1>5, <1>6, <1>8, <1>9, <2>1 DEF Unlike
<1>11. \A n \in DOMAIN A : \E m \in DOMAIN s : A[n] = s[m] /\ s[m].authoritative
  BY <1>6, <1>8, <1>9
<1>12. \A m \in DOMAIN s : s[m].authoritative => \E n \in DOMAIN A : A[n] = s[m]
  BY <1>5, <1>8, <1>9 DEF P
<1> QED
  BY <1>8, <1>10, <1>11, <1>12 DEF IsEffects, A

\* What the contacts without a binding leave entity with.
LEMMA LegacyBankIs ==
  ASSUME \A e \in DOMAIN state.bank : state.bank[e] \in Int,
         IsFiniteSet(round.legacy), \A c \in round.legacy : c.amount \in Int, NEW entity
  PROVE  LET deltas == {c \in round.legacy : c.effect = "RESOURCE_DELTA" /\ c.target = entity}
         IN  /\ Held(LegacyBank, entity) \in Int
             /\ Held(LegacyBank, entity) =
                  Held(state.bank, entity) + SumOf([c \in deltas |-> c.amount], deltas)
<1> DEFINE all == {c \in round.legacy : c.effect = "RESOURCE_DELTA"}
           deltas == {c \in round.legacy : c.effect = "RESOURCE_DELTA" /\ c.target = entity}
           w == [c \in deltas |-> c.amount]
           v == [c \in all |-> c.amount]
<1>1. {c \in all : c.target = entity} = deltas
  OBVIOUS
<1>2. IsFiniteSet(deltas)
  <2>1. deltas \subseteq round.legacy
    OBVIOUS
  <2> QED
    BY <2>1, FS_Subset
<1>3. \A c \in deltas : w[c] \in Int /\ v[c] = w[c]
  OBVIOUS
<1>4. LegacyBank = [e \in DOMAIN state.bank \union {c.target : c \in all} |->
                      Held(state.bank, e) + SumOf(v, {c \in all : c.target = e})]
  BY DEF LegacyBank
<1>5. entity \in {c.target : c \in all} <=> deltas # {}
  OBVIOUS
<1> DEFINE D == {c.target : c \in all}
<1> HIDE DEF w, v, deltas
<1>6. SumOf(v, deltas) = SumOf(w, deltas) /\ SumOf(w, deltas) \in Int
      /\ (deltas = {} => SumOf(w, deltas) = 0)
  BY <1>2, <1>3, SumSame, SumFacts
<1>7. Held(state.bank, entity) \in Int
  BY DEF Held
<1>8. Held(LegacyBank, entity) = Held(state.bank, entity) + SumOf(w, deltas)
  <2>1. CASE entity \in DOMAIN state.bank \union D
    <3>1. LegacyBank[entity] = Held(state.bank, entity) + SumOf(v, {c \in all : c.target = entity})
      BY <1>4, <2>1
    <3>2. LegacyBank[entity] = Held(state.bank, entity) + SumOf(v, deltas)
      BY <1>1, <3>1
    <3>3. entity \in DOMAIN LegacyBank
      BY <1>4, <2>1
    <3> QED
      BY <1>6, <3>2, <3>3 DEF Held
  <2>2. CASE entity \notin DOMAIN state.bank \union D
    <3>1. entity \notin DOMAIN LegacyBank
      BY <1>4, <2>2
    <3>2. deltas = {}
      BY <1>5, <2>2
    <3> QED
      BY <1>6, <2>2, <3>1, <3>2 DEF Held
  <2> QED
    BY <2>1, <2>2
<1> QED
  BY <1>6, <1>7, <1>8 DEF w, deltas

\* What the first n groups leave.
Banking(f, n, order) ==
  f = [k \in 0 .. n |-> IF k = 0 THEN {[bank |-> LegacyBank, failed |-> {}]} ELSE {Settle(x, order[k]) : x \in f[k - 1]}]

\* Such a function exists, for any number of groups.
LEMMA BankingExists ==
  ASSUME NEW order, NEW n \in Nat
  PROVE  \E f : Banking(f, n, order)
<1> DEFINE without == {k \in Nat : ~\E f : Banking(f, k, order)}
<1> SUFFICES ASSUME without # {} PROVE FALSE
  OBVIOUS
<1>1. PICK k \in without : \A j \in without : k <= j
  BY LeastNatural
<1>2. CASE k = 0
  <2> DEFINE f == [j \in 0 .. 0 |-> {[bank |-> LegacyBank, failed |-> {}]}]
  <2>1. Banking(f, 0, order)
    BY DEF Banking
  <2> QED
    BY <1>2, <2>1
<1>3. CASE k # 0
  <2>1. k - 1 \in Nat /\ k - 1 \notin without
    BY <1>1, <1>3
  <2>2. PICK g : Banking(g, k - 1, order)
    BY <2>1
  <2> DEFINE f == [j \in 0 .. k |-> IF j = k THEN {Settle(x, order[k]) : x \in g[k - 1]} ELSE g[j]]
  <2>3. ASSUME NEW j \in 0 .. k
        PROVE  f[j] = IF j = 0 THEN {[bank |-> LegacyBank, failed |-> {}]} ELSE {Settle(x, order[j]) : x \in f[j - 1]}
    <3>1. CASE j = k
      <4>1. k - 1 \in 0 .. k /\ k - 1 # k /\ k \in 0 .. k
        BY <1>3, <2>1
      <4>2. f[k - 1] = g[k - 1] /\ f[k] = {Settle(x, order[k]) : x \in g[k - 1]}
        BY <4>1
      <4> HIDE DEF f
      <4> QED
        BY <1>3, <3>1, <4>2
    <3>2. CASE j # k
      <4>1. j \in 0 .. k - 1 /\ (j # 0 => j - 1 \in 0 .. k - 1 /\ j - 1 # k)
        BY <1>3, <3>2
      <4>2. f[j] = g[j] /\ (j # 0 => f[j - 1] = g[j - 1])
        BY <3>2, <4>1
      <4>3. g[j] = IF j = 0 THEN {[bank |-> LegacyBank, failed |-> {}]} ELSE {Settle(x, order[j]) : x \in g[j - 1]}
        BY <2>2, <4>1 DEF Banking
      <4> HIDE DEF f
      <4> QED
        BY <4>2, <4>3
    <3> QED
      BY <3>1, <3>2
  <2>4. Banking(f, k, order)
    BY <2>3 DEF Banking
  <2> QED
    BY <2>4
<1> QED
  BY <1>2, <1>3

\* What the tick's effects on entity are, of which types, and what each type does.
TypedOn(entity) ==
  {e \in {round.typed[n] : n \in DOMAIN round.typed} : e.authoritative /\ e.target = entity}

TypesOn(entity) == {e.type : e \in TypedOn(entity)}

Weights(entity) ==
  [t \in TypesOn(entity) |-> Registry[t] * Contribution({e \in TypedOn(entity) : e.type = t})]

\* A group holds the effects of a type on an entity.
LEMMA GroupMembers ==
  ASSUME IsEffects(round.typed)
  PROVE  /\ IsFiniteSet(Groups(Authoritative)) /\ Groups(Authoritative) \in SUBSET (Int \X Int)
         /\ Groups(Authoritative) \in SUBSET (Entities \X Int)
         /\ \A g \in Groups(Authoritative) :
              /\ g[2] \in TypesOn(g[1])
              /\ MembersOf(Authoritative, g) = {e \in TypedOn(g[1]) : e.type = g[2]}
         /\ \A entity : \A t \in TypesOn(entity) : <<entity, t>> \in Groups(Authoritative)
<1> DEFINE A == Authoritative
           s == round.typed
           G == Groups(A)
<1>1. /\ IsEffects(A)
      /\ \A n \in DOMAIN A : \E m \in DOMAIN s : A[n] = s[m] /\ s[m].authoritative
      /\ \A m \in DOMAIN s : s[m].authoritative => \E n \in DOMAIN A : A[n] = s[m]
  BY AuthoritativeEffects
<1>2. Len(A) \in Nat /\ DOMAIN A = 1 .. Len(A) /\ \A n \in DOMAIN A : A[n] \in Effect
  <2>1. A \in Seq(Effect)
    BY <1>1 DEF IsEffects
  <2> HIDE DEF A
  <2> QED
    BY <2>1
<1> HIDE DEF A
<1>3. IsFiniteSet(G)
  <2> DEFINE f == [i \in DOMAIN A |-> <<A[i].target, A[i].type>>]
  <2>1. f \in [DOMAIN A -> G] /\ \A g \in G : \E i \in DOMAIN A : f[i] = g
    BY DEF Groups
  <2>2. IsFiniteSet(DOMAIN A)
    BY <1>2, FS_Interval
  <2> HIDE DEF f, G
  <2>3. f \in Surjection(DOMAIN A, G)
    BY <2>1 DEF Surjection
  <2> QED
    BY <2>2, <2>3, FS_Surjection
<1>4. G \in SUBSET (Entities \X Int) /\ G \in SUBSET (Int \X Int)
  <2>1. Entities \subseteq Int
    BY EffectAssumption
  <2>2. G \in SUBSET (Entities \X Int)
    BY <1>2 DEF Groups, Effect
  <2> HIDE DEF G
  <2> QED
    BY <2>1, <2>2
<1>5. \A entity, e : e \in TypedOn(entity) <=> e.target = entity /\ \E n \in DOMAIN A : A[n] = e
  <2>1. ASSUME NEW entity, NEW e \in TypedOn(entity)
        PROVE  e.target = entity /\ \E n \in DOMAIN A : A[n] = e
    <3>1. PICK m \in DOMAIN s : e = s[m]
      BY DEF TypedOn
    <3>2. s[m].authoritative /\ e.target = entity
      BY <3>1 DEF TypedOn
    <3> QED
      BY <1>1, <3>1, <3>2
  <2>2. ASSUME NEW entity, NEW n \in DOMAIN A, A[n].target = entity PROVE A[n] \in TypedOn(entity)
    <3>1. PICK m \in DOMAIN s : A[n] = s[m] /\ s[m].authoritative
      BY <1>1
    <3> QED
      BY <2>2, <3>1 DEF TypedOn
  <2> QED
    BY <2>1, <2>2
<1>6. ASSUME NEW g \in G
      PROVE  /\ g[2] \in TypesOn(g[1])
             /\ MembersOf(A, g) = {e \in TypedOn(g[1]) : e.type = g[2]}
  <2>1. PICK i \in DOMAIN A : g = <<A[i].target, A[i].type>>
    BY DEF Groups
  <2>2. A[i] \in TypedOn(g[1]) /\ A[i].type = g[2]
    BY <1>5, <2>1
  <2>3. \A j \in DOMAIN A :
          <<A[j].target, A[j].type>> = g <=> A[j].target = g[1] /\ A[j].type = g[2]
    BY <2>1
  <2>4. ASSUME NEW e
        PROVE  e \in MembersOf(A, g) <=> e \in TypedOn(g[1]) /\ e.type = g[2]
    <3>1. e \in MembersOf(A, g) <=> \E j \in DOMAIN A : e = A[j] /\ e.target = g[1] /\ e.type = g[2]
      BY <2>3 DEF MembersOf, PlacesOf
    <3> QED
      BY <1>5, <3>1
  <2> QED
    BY <2>2, <2>4 DEF TypesOn
<1>7. ASSUME NEW entity, NEW t \in TypesOn(entity) PROVE <<entity, t>> \in G
  <2>1. PICK e \in TypedOn(entity) : t = e.type
    BY DEF TypesOn
  <2>2. PICK n \in DOMAIN A : A[n] = e /\ e.target = entity
    BY <1>5
  <2> QED
    BY <2>1, <2>2 DEF Groups
<1> QED
  BY <1>3, <1>4, <1>6, <1>7 DEF A

\* A group that applies adds what its type does to its target.
LEMMA SettleAdds ==
  ASSUME IsEffects(round.typed), ~ReductionRaises, NEW g \in Groups(Authoritative),
         NEW bank, NEW x, x = [bank |-> bank, failed |-> {}], NEW y, y = Settle(x, g), y.failed = {}
  PROVE  /\ y = [bank |-> y.bank, failed |-> {}]
         /\ Weights(g[1])[g[2]] \in Int
         /\ \A e : Held(y.bank, e) =
                     IF e = g[1] THEN Weights(g[1])[g[2]] + Held(bank, e) ELSE Held(bank, e)
<1> DEFINE L == Group(Authoritative, g)
           v == Contribution(MembersOf(Authoritative, g))
           r == Registry[g[2]]
           b == y.bank
<1>1. Applied(bank, g) # {} /\ y = [bank |-> CHOOSE z \in Applied(bank, g) : TRUE, failed |-> {}]
  BY DEF Settle
<1>2. b \in Applied(bank, g) /\ y = [bank |-> b, failed |-> {}]
  BY <1>1
<1>3. /\ g[2] \in DOMAIN Registry /\ IsInteger(L[1].reducer)
      /\ \E n \in AddI64(MulI64(ReducePayloads(L[1].reducer, Payloads(L)), r), Held(bank, g[1])) :
           b = [e \in DOMAIN bank \union {g[1]} |-> IF e = g[1] THEN n ELSE bank[e]]
  BY <1>2 DEF Applied
<1>4. r \in Int
  BY <1>3, EffectAssumption
<1>5. v \in Int /\ ReducePayloads(L[1].reducer, Payloads(L)) = {v}
  <2>1. ~GroupRaises(L) /\ IsEffects(Authoritative)
    BY AuthoritativeEffects DEF ReductionRaises
  <2> QED
    BY <1>3, <2>1, ReduceIs
<1>6. Weights(g[1])[g[2]] = r * v
  BY GroupMembers DEF Weights
<1> HIDE DEF v, r, b, L
<1>7. PICK n \in AddI64(MulI64({v}, r), Held(bank, g[1])) :
        b = [e \in DOMAIN bank \union {g[1]} |-> IF e = g[1] THEN n ELSE bank[e]]
  BY <1>3, <1>5
<1>8. n = r * v + Held(bank, g[1])
  <2>1. v * r = r * v
    BY <1>4, <1>5
  <2>2. n \in {m + Held(bank, g[1]) : m \in {v * r}}
    BY <1>7 DEF AddI64, MulI64
  <2> QED
    BY <2>1, <2>2
<1>9. ASSUME NEW e
      PROVE  Held(b, e) = IF e = g[1] THEN Weights(g[1])[g[2]] + Held(bank, e) ELSE Held(bank, e)
  <2>1. DOMAIN b = DOMAIN bank \union {g[1]} /\ b[g[1]] = n
        /\ (e # g[1] /\ e \in DOMAIN bank => b[e] = bank[e])
    BY <1>7
  <2>2. CASE e = g[1]
    BY <1>6, <1>8, <2>1, <2>2 DEF Held
  <2>3. CASE e # g[1]
    BY <2>1, <2>3 DEF Held
  <2> QED
    BY <2>2, <2>3
<1>10. Weights(g[1])[g[2]] \in Int
  BY <1>4, <1>5, <1>6
<1> QED
  BY <1>2, <1>9, <1>10 DEF b

\* The types of the first k groups that are on entity.
TypesReached(order, entity, k) == {order[j][2] : j \in {h \in 1 .. k : order[h][1] = entity}}

\* x is what the first k groups leave when each of them applies.
SettledBy(x, order, k) ==
  /\ x = [bank |-> x.bank, failed |-> {}]
  /\ \A e : /\ IsFiniteSet(TypesReached(order, e, k))
            /\ \A t \in TypesReached(order, e, k) : Weights(e)[t] \in Int
            /\ Held(x.bank, e) = SumOf(Weights(e), TypesReached(order, e, k)) + Held(LegacyBank, e)

\* The groups are settled one after the other, up to the first that does not apply.
LEMMA SettledUpTo ==
  ASSUME IsEffects(round.typed), ~ReductionRaises, \A e : Held(LegacyBank, e) \in Int,
         NEW N \in Nat, NEW order, Lists(order, Groups(Authoritative)),
         N = Cardinality(Groups(Authoritative)), NEW f, Banking(f, N, order)
  PROVE  \A k \in 0 .. N : \E x : f[k] = {x} /\ (x.failed = {} => SettledBy(x, order, k))
<1> DEFINE G == Groups(Authoritative)
           Good(k) == \E x : f[k] = {x} /\ (x.failed = {} => SettledBy(x, order, k))
           bad == {k \in 0 .. N : ~Good(k)}
<1> SUFFICES ASSUME bad # {} PROVE FALSE
  OBVIOUS
<1>1. PICK k \in bad : \A j \in bad : k <= j
  <2>1. bad \in SUBSET Nat
    OBVIOUS
  <2> HIDE DEF bad
  <2> QED
    BY <2>1, LeastNatural
<1>2. k \in 0 .. N /\ ~Good(k) /\ \A j \in 0 .. k - 1 : Good(j)
  BY <1>1
<1>3. CASE k = 0
  <2> DEFINE x == [bank |-> LegacyBank, failed |-> {}]
  <2>1. f[0] = {x}
    BY DEF Banking
  <2>2. \A e : TypesReached(order, e, 0) = {}
    BY DEF TypesReached
  <2>3. ASSUME NEW e
        PROVE  /\ IsFiniteSet(TypesReached(order, e, 0))
               /\ \A t \in TypesReached(order, e, 0) : Weights(e)[t] \in Int
               /\ Held(x.bank, e) = SumOf(Weights(e), TypesReached(order, e, 0)) + Held(LegacyBank, e)
    <3>1. IsFiniteSet(TypesReached(order, e, 0)) /\ \A t \in TypesReached(order, e, 0) : Weights(e)[t] \in Int
      BY <2>2, FS_EmptySet
    <3>2. SumOf(Weights(e), TypesReached(order, e, 0)) = 0
      BY <2>2, <3>1, SumFacts
    <3>3. Held(x.bank, e) = Held(LegacyBank, e) /\ Held(LegacyBank, e) \in Int
      OBVIOUS
    <3> HIDE DEF x
    <3> QED
      BY <3>1, <3>2, <3>3
  <2>4. SettledBy(x, order, 0)
    BY <2>3 DEF SettledBy
  <2> QED
    BY <1>2, <1>3, <2>1, <2>4
<1>4. CASE k # 0
  <2> DEFINE g == order[k]
  <2>1. k \in 1 .. N /\ k - 1 \in 0 .. k - 1 /\ k - 1 \in 0 .. N
    BY <1>2, <1>4
  <2>2. PICK x : f[k - 1] = {x} /\ (x.failed = {} => SettledBy(x, order, k - 1))
    BY <1>2, <2>1
  <2> DEFINE y == Settle(x, g)
  <2>3. f[k] = {y}
    <3>1. f[k] = {Settle(z, order[k]) : z \in f[k - 1]}
      BY <1>2, <1>4 DEF Banking
    <3> QED
      BY <2>2, <3>1
  <2>4. g \in G /\ \A j \in 1 .. N : order[j] \in G /\ (order[j] = g => j = k)
    BY <2>1 DEF Lists
  <2>5. \A h \in G : h \in Int \X Int
    BY GroupMembers
  <2> HIDE DEF y, g
  <2>6. ASSUME y.failed = {} PROVE SettledBy(y, order, k)
    <3>1. x.failed = {}
      BY <2>6 DEF y, Settle
    <3>2. SettledBy(x, order, k - 1) /\ x = [bank |-> x.bank, failed |-> {}]
      BY <2>2, <3>1 DEF SettledBy
    <3>3. /\ y = [bank |-> y.bank, failed |-> {}]
          /\ Weights(g[1])[g[2]] \in Int
          /\ \A e : Held(y.bank, e) = IF e = g[1] THEN Weights(g[1])[g[2]] + Held(x.bank, e)
                                      ELSE Held(x.bank, e)
      BY <2>4, <2>6, <3>2, SettleAdds DEF y
    <3>4. ASSUME NEW e
          PROVE  /\ IsFiniteSet(TypesReached(order, e, k))
                 /\ \A t \in TypesReached(order, e, k) : Weights(e)[t] \in Int
                 /\ Held(y.bank, e) = SumOf(Weights(e), TypesReached(order, e, k)) + Held(LegacyBank, e)
      <4> DEFINE R == TypesReached(order, e, k)
                 Q == TypesReached(order, e, k - 1)
                 w == Weights(e)
      <4>1. /\ IsFiniteSet(Q) /\ \A t \in Q : w[t] \in Int
            /\ Held(x.bank, e) = SumOf(w, Q) + Held(LegacyBank, e)
        BY <3>2 DEF SettledBy
      <4>2. CASE e = g[1]
        <5>1. R = Q \union {g[2]}
          BY <2>1, <4>2 DEF TypesReached, g
        <5>2. g[2] \notin Q
          <6>1. SUFFICES ASSUME NEW j \in 1 .. k - 1, order[j][1] = e, order[j][2] = g[2]
                         PROVE  FALSE
            BY DEF TypesReached
          <6>2. j \in 1 .. N /\ j # k
            BY <2>1
          <6>3. order[j] \in Int \X Int /\ g \in Int \X Int
            BY <2>4, <2>5, <6>2
          <6>4. order[j] = g
            BY <4>2, <6>1, <6>3
          <6> QED
            BY <2>4, <6>2, <6>4
        <5> HIDE DEF R, Q
        <5>3. IsFiniteSet(R) /\ \A t \in R : w[t] \in Int
          BY <3>3, <4>1, <4>2, <5>1, FS_AddElement DEF w
        <5>4. R \ {g[2]} = Q /\ g[2] \in R
          BY <5>1, <5>2
        <5>5. SumOf(w, R) = w[g[2]] + SumOf(w, Q)
          BY <5>3, <5>4, SumFacts
        <5>6. Held(y.bank, e) = w[g[2]] + Held(x.bank, e)
          BY <3>3, <4>2 DEF w
        <5>7. SumOf(w, Q) \in Int
          BY <4>1, SumFacts
        <5>8. w[g[2]] \in Int /\ Held(LegacyBank, e) \in Int
          BY <5>3, <5>4
        <5> HIDE DEF w
        <5>9. Held(y.bank, e) = SumOf(w, R) + Held(LegacyBank, e)
          BY <4>1, <5>5, <5>6, <5>7, <5>8
        <5> QED
          BY <5>3, <5>9 DEF R, w
      <4>3. CASE e # g[1]
        <5>1. R = Q
          BY <2>1, <4>3 DEF TypesReached, g
        <5>2. Held(y.bank, e) = Held(x.bank, e)
          BY <3>3, <4>3
        <5> QED
          BY <4>1, <5>1, <5>2
      <4> QED
        BY <4>2, <4>3
    <3> QED
      BY <3>3, <3>4 DEF SettledBy
  <2>7. Good(k)
    BY <2>3, <2>6
  <2> QED
    BY <1>2, <2>7
<1> QED
  BY <1>3, <1>4

\* When every group applies, each entity is left with what the contacts and the effects on it
\* add up to, in whatever order these were emitted.
LEMMA SettledIs ==
  ASSUME IsEffects(round.typed), ~ReductionRaises, \A e : Held(LegacyBank, e) \in Int,
         Settled.failed = {}, NEW entity
  PROVE  /\ SumOf(Weights(entity), TypesOn(entity)) \in Int
         /\ Held(Settled.bank, entity) =
              SumOf(Weights(entity), TypesOn(entity)) + Held(LegacyBank, entity)
<1> DEFINE G == Groups(Authoritative)
           N == Cardinality(G)
           order == Sorted(G, GroupKey)
<1>1. IsFiniteSet(G) /\ G \in SUBSET (Int \X Int)
  BY GroupMembers
<1>2. Lists(order, G)
  <2> HIDE DEF G
  <2>1. order = Sorted(G, GroupKey)
    OBVIOUS
  <2> HIDE DEF order
  <2> QED
    BY <1>1, <2>1, GroupsSorted
<1>3. N \in Nat /\ DOMAIN order = 1 .. N
  BY <1>2 DEF Lists
<1>5. Len(order) = N
  <2> HIDE DEF N, order
  <2> QED
    BY <1>3, Indexed
<1> DEFINE f == CHOOSE f : Banking(f, Len(order), order)
<1>4. Banking(f, N, order)
  <2>1. \E g : Banking(g, Len(order), order)
    BY <1>3, <1>5, BankingExists
  <2> HIDE DEF N, order
  <2> QED
    BY <1>5, <2>1
<1>0. Settled = CHOOSE z \in f[Len(order)] : TRUE
  BY DEF Settled, Banking
<1> HIDE DEF f
<1>6. PICK x : f[N] = {x} /\ (x.failed = {} => SettledBy(x, order, N))
  <2>1. N = Cardinality(Groups(Authoritative)) /\ N \in 0 .. N
    BY <1>3
  <2>2. Lists(order, Groups(Authoritative))
    BY <1>2
  <2> HIDE DEF N, order, G
  <2>3. \A k \in 0 .. N : \E y : f[k] = {y} /\ (y.failed = {} => SettledBy(y, order, k))
    BY <1>3, <1>4, <2>1, <2>2, SettledUpTo
  <2> QED
    BY <2>1, <2>3
<1>7. SettledBy(Settled, order, N)
  <2>1. Settled = CHOOSE z \in f[N] : TRUE
    BY <1>0, <1>5
  <2>2. x = Settled
    BY <1>6, <2>1
  <2> QED
    BY <1>6, <2>2
<1>8. TypesReached(order, entity, N) = TypesOn(entity)
  <2>1. ASSUME NEW j \in 1 .. N, order[j][1] = entity PROVE order[j][2] \in TypesOn(entity)
    <3>1. order[j] \in G
      BY <1>2 DEF Lists
    <3> QED
      BY <2>1, <3>1, GroupMembers
  <2>2. ASSUME NEW t \in TypesOn(entity)
        PROVE  \E j \in {h \in 1 .. N : order[h][1] = entity} : order[j][2] = t
    <3>1. <<entity, t>> \in G
      BY GroupMembers
    <3>2. PICK j \in 1 .. N : order[j] = <<entity, t>>
      BY <1>2, <3>1 DEF Lists
    <3> HIDE DEF N, order, G
    <3> QED
      BY <3>2
  <2> HIDE DEF N, order, G
  <2> QED
    BY <2>1, <2>2 DEF TypesReached
<1>9. /\ IsFiniteSet(TypesOn(entity)) /\ \A t \in TypesOn(entity) : Weights(entity)[t] \in Int
      /\ Held(Settled.bank, entity) =
           SumOf(Weights(entity), TypesOn(entity)) + Held(LegacyBank, entity)
  BY <1>7, <1>8 DEF SettledBy
<1> QED
  BY <1>9, SumFacts

\* What a settled tick leaves an entity with is what its contacts and its effects say.
LEMMA SettledExpected ==
  ASSUME IsEffects(round.typed), ~ReductionRaises, Settled.failed = {}, state.bank = start.bank,
         \A e \in DOMAIN state.bank : state.bank[e] \in Int,
         IsFiniteSet(round.legacy), \A c \in round.legacy : c.amount \in Int, NEW entity
  PROVE  Held(Settled.bank, entity) = Expected(entity)
<1> DEFINE deltas == {c \in round.legacy : c.effect = "RESOURCE_DELTA" /\ c.target = entity}
           sum == SumOf([c \in deltas |-> c.amount], deltas)
           types == SumOf(Weights(entity), TypesOn(entity))
           held == Held(start.bank, entity)
<1>1. \A e : Held(LegacyBank, e) \in Int
  BY LegacyBankIs
<1>2. types \in Int /\ Held(Settled.bank, entity) = types + Held(LegacyBank, entity)
  BY <1>1, SettledIs
<1>3. Held(LegacyBank, entity) = held + sum
  BY LegacyBankIs
<1>4. held \in Int
  BY DEF Held
<1>5. sum \in Int
  <2>1. IsFiniteSet(deltas) /\ \A c \in deltas : [b \in deltas |-> b.amount][c] \in Int
    <3>1. deltas \subseteq round.legacy
      OBVIOUS
    <3> QED
      BY <3>1, FS_Subset
  <2> DEFINE w == [c \in deltas |-> c.amount]
  <2> HIDE DEF deltas, w
  <2>2. IsFiniteSet(deltas) /\ \A c \in deltas : w[c] \in Int
    BY <2>1 DEF w
  <2>3. SumOf(w, deltas) \in Int
    BY <2>2, SumFacts
  <2> QED
    BY <2>3 DEF w
<1>6. Expected(entity) = held + sum + types
  BY DEF Expected, TypedOn, TypesOn, Weights
<1> HIDE DEF held, sum, types
<1> QED
  BY <1>2, <1>3, <1>4, <1>5, <1>6

-----------------------------------------------------------------------------
(* The effects of a candidate *)

\* Two lists of effects that share none.
LEMMA EffectsJoined ==
  ASSUME NEW s, IsEffects(s), NEW t, IsEffects(t),
         \A i \in DOMAIN s, j \in DOMAIN t :
           ~(s[i].target = t[j].target /\ s[i].instance = t[j].instance /\ s[i].id = t[j].id)
  PROVE  /\ IsEffects(s \o t)
         /\ \A n \in DOMAIN (s \o t) :
              \/ \E i \in DOMAIN s : (s \o t)[n] = s[i]
              \/ \E j \in DOMAIN t : (s \o t)[n] = t[j]
<1> DEFINE all == s \o t
           p == Len(s)
           q == Len(t)
<1>1. s \in Seq(Effect) /\ t \in Seq(Effect) /\ Unlike(s) /\ Unlike(t)
  BY DEF IsEffects
<1>2. p \in Nat /\ DOMAIN s = 1 .. p /\ q \in Nat /\ DOMAIN t = 1 .. q
  BY <1>1
<1>3. /\ all \in Seq(Effect) /\ DOMAIN all = 1 .. p + q
      /\ \A i \in 1 .. p : all[i] = s[i]
      /\ \A i \in p + 1 .. p + q : all[i] = t[i - p]
  BY <1>1, ConcatProperties
<1> HIDE DEF all, p, q
<1>4. \A n \in 1 .. p + q : n \in 1 .. p \/ (n \in p + 1 .. p + q /\ n - p \in 1 .. q)
  BY <1>2
<1>5. ASSUME NEW m \in DOMAIN all, NEW n \in DOMAIN all, all[m].target = all[n].target,
             all[m].instance = all[n].instance, all[m].id = all[n].id
      PROVE  m = n
  <2>1. CASE m \in 1 .. p /\ n \in 1 .. p
    BY <1>1, <1>2, <1>3, <1>5, <2>1 DEF Unlike
  <2>2. CASE m \in 1 .. p /\ n \notin 1 .. p
    <3>1. n - p \in DOMAIN t /\ all[n] = t[n - p] /\ all[m] = s[m] /\ m \in DOMAIN s
      BY <1>2, <1>3, <1>4, <2>2
    <3> QED
      BY <1>5, <3>1
  <2>3. CASE m \notin 1 .. p /\ n \in 1 .. p
    <3>1. m - p \in DOMAIN t /\ all[m] = t[m - p] /\ all[n] = s[n] /\ n \in DOMAIN s
      BY <1>2, <1>3, <1>4, <2>3
    <3> QED
      BY <1>5, <3>1
  <2>4. CASE m \notin 1 .. p /\ n \notin 1 .. p
    <3>1. /\ m - p \in DOMAIN t /\ all[m] = t[m - p] /\ n - p \in DOMAIN t /\ all[n] = t[n - p]
          /\ m \in Int /\ n \in Int
      BY <1>2, <1>3, <1>4, <2>4
    <3>2. m - p = n - p
      BY <1>1, <1>5, <3>1 DEF Unlike
    <3> QED
      BY <1>2, <3>1, <3>2
  <2> QED
    BY <2>1, <2>2, <2>3, <2>4
<1>6. ASSUME NEW n \in DOMAIN all
      PROVE  (\E i \in DOMAIN s : all[n] = s[i]) \/ (\E j \in DOMAIN t : all[n] = t[j])
  <2>1. CASE n \in 1 .. p
    BY <1>2, <1>3, <2>1
  <2>2. CASE n \notin 1 .. p
    <3>1. n - p \in DOMAIN t /\ all[n] = t[n - p]
      BY <1>2, <1>3, <1>4, <2>2
    <3> QED
      BY <3>1
  <2> QED
    BY <2>1, <2>2
<1>7. Unlike(all)
  BY <1>5 DEF Unlike
<1> QED
  BY <1>3, <1>6, <1>7 DEF IsEffects, all

\* What a contact asks the rules has its type.
CandidateTyped(c) ==
  /\ c.id \in Int /\ c.source \in Int /\ c.instance \in Int /\ c.target \in Entities
  /\ c.templates \in Seq(EffectTemplate)

\* The effects a decision holds are those of c, told apart; those on the target of the moment
\* come from the places S, a rule and one of its operations.
Placed(d, c, S) ==
  /\ d.templates \in Seq(EffectTemplate) /\ d.target \in Entities
  /\ IsEffects(d.generated)
  /\ \A n \in DOMAIN d.generated :
       /\ d.generated[n].id[1] = c.id /\ d.generated[n].instance = c.instance
       /\ d.generated[n].target = d.target =>
            d.halt # "RESTART" /\ <<d.generated[n].id[2], d.generated[n].id[3]>> \in S

\* A decision with the same effects on the same target.
LEMMA PlacedSame ==
  ASSUME NEW d, NEW c, NEW S, Placed(d, c, S), NEW T, S \subseteq T, NEW e,
         e.generated = d.generated, e.target = d.target, e.templates \in Seq(EffectTemplate),
         e.halt # "RESTART"
  PROVE  Placed(e, c, T)
  BY DEF Placed

\* Effects of an operation that has added none yet.
LEMMA PlacedMore ==
  ASSUME NEW d, DOMAIN d = DecisionFields, d.halt = "NONE", NEW c, CandidateTyped(c), NEW S, Placed(d, c, S),
         NEW k \in Int, NEW n \in Int, <<k, n>> \notin S, NEW kept \in Seq(EffectTemplate),
         NEW e, e = [d EXCEPT !.generated = @ \o Concrete(c, d.target, kept, <<k, n>>)]
  PROVE  Placed(e, c, S \union {<<k, n>>})
<1> DEFINE more == Concrete(c, d.target, kept, <<k, n>>)
           all == d.generated \o more
<1>1. /\ DOMAIN kept = 1 .. Len(kept) /\ Len(kept) \in Nat
      /\ \A i \in DOMAIN kept : kept[i] \in EffectTemplate
  OBVIOUS
<1>2. d.target \in Entities
  BY DEF Placed
<1>3. ASSUME NEW i \in DOMAIN kept
      PROVE  /\ more[i] \in Effect
             /\ more[i].target = d.target /\ more[i].instance = c.instance
             /\ more[i].id[1] = c.id /\ more[i].id[2] = k /\ more[i].id[3] = n /\ more[i].id[4] = i
  <2> DEFINE id == <<c.id, k, n, i>>
             t == kept[i]
  <2>1. more[i] = [id |-> id, type |-> t.type, class |-> t.class, source |-> c.source,
                   target |-> d.target, instance |-> c.instance, priority |-> t.priority,
                   payload |-> t.payload, reducer |-> t.reducer, authoritative |-> t.authoritative]
    BY DEF Concrete
  <2>2. i \in Int /\ c.id \in Int /\ c.source \in Int /\ c.instance \in Int
    BY <1>1 DEF CandidateTyped
  <2>3. id \in Key(4) /\ id[1] = c.id /\ id[2] = k /\ id[3] = n /\ id[4] = i
    BY <2>2 DEF Key
  <2>4. t \in EffectTemplate
    BY <1>1
  <2> HIDE DEF id, t, more
  <2>5. more[i] \in Effect
    BY <1>2, <2>1, <2>2, <2>3, <2>4 DEF Effect, EffectTemplate
  <2> QED
    BY <2>1, <2>3, <2>5
<1>4. DOMAIN more = DOMAIN kept /\ more = [i \in DOMAIN kept |-> more[i]]
  BY DEF Concrete
<1> HIDE DEF more
<1>5. more \in Seq(Effect)
  <2>1. more \in [1 .. Len(kept) -> Effect]
    BY <1>1, <1>3, <1>4
  <2> QED
    BY <1>1, <2>1
<1>6. Unlike(more)
  BY <1>3, <1>4 DEF Unlike
<1>7. IsEffects(d.generated) /\ IsEffects(more)
  BY <1>5, <1>6 DEF IsEffects, Placed
<1>8. ASSUME NEW i \in DOMAIN d.generated, NEW j \in DOMAIN more, d.generated[i].target = more[j].target,
             d.generated[i].id = more[j].id
      PROVE  FALSE
  <2>1. d.generated[i].target = d.target /\ d.generated[i].id[2] = k /\ d.generated[i].id[3] = n
    BY <1>3, <1>4, <1>8
  <2> QED
    BY <2>1 DEF Placed
<1>9. /\ IsEffects(all)
      /\ \A m \in DOMAIN all : (\E i \in DOMAIN d.generated : all[m] = d.generated[i])
                               \/ (\E j \in DOMAIN more : all[m] = more[j])
  <2>1. \A i \in DOMAIN d.generated, j \in DOMAIN more :
          ~(/\ d.generated[i].target = more[j].target
            /\ d.generated[i].instance = more[j].instance
            /\ d.generated[i].id = more[j].id)
    BY <1>8
  <2> DEFINE s == d.generated
  <2>2. IsEffects(s) /\ all = s \o more
    BY <1>7
  <2>3. \A i \in DOMAIN s, j \in DOMAIN more :
          ~(s[i].target = more[j].target /\ s[i].instance = more[j].instance /\ s[i].id = more[j].id)
    BY <2>1
  <2> HIDE DEF s, all
  <2>4. /\ IsEffects(all)
        /\ \A m \in DOMAIN all : (\E i \in DOMAIN s : all[m] = s[i]) \/ (\E j \in DOMAIN more : all[m] = more[j])
    BY <1>7, <2>2, <2>3, EffectsJoined
  <2> QED
    BY <2>4 DEF s
<1> HIDE DEF all
<1>10. /\ e.generated = all /\ e.target = d.target /\ e.templates = d.templates /\ e.halt = "NONE"
  BY DEF DecisionFields, all, more
<1>11. ASSUME NEW m \in DOMAIN all
       PROVE  /\ all[m].id[1] = c.id /\ all[m].instance = c.instance
              /\ all[m].target = d.target => <<all[m].id[2], all[m].id[3]>> \in S \union {<<k, n>>}
  <2>1. CASE \E i \in DOMAIN d.generated : all[m] = d.generated[i]
    BY <2>1 DEF Placed
  <2>2. CASE \E j \in DOMAIN more : all[m] = more[j]
    BY <1>3, <1>4, <2>2
  <2> QED
    BY <1>9, <2>1, <2>2
<1>12. d.templates \in Seq(EffectTemplate) /\ d.target \in Entities
  BY DEF Placed
<1> HIDE DEF more
<1>13. /\ e.templates \in Seq(EffectTemplate) /\ e.target \in Entities /\ IsEffects(e.generated)
       /\ e.halt # "RESTART"
  BY <1>9, <1>10, <1>12
<1>14. ASSUME NEW m \in DOMAIN e.generated
       PROVE  /\ e.generated[m].id[1] = c.id /\ e.generated[m].instance = c.instance
              /\ e.generated[m].target = e.target =>
                   <<e.generated[m].id[2], e.generated[m].id[3]>> \in S \union {<<k, n>>}
  BY <1>10, <1>11
<1> QED
  BY <1>13, <1>14 DEF Placed

\* What is selected from typed templates is typed.
LEMMA SelectedTyped ==
  ASSUME NEW s \in Seq(EffectTemplate), NEW P \in SUBSET DOMAIN s
  PROVE  LET places == Sorted(P, Place)
         IN  [n \in DOMAIN places |-> s[places[n]]] \in Seq(EffectTemplate)
<1> DEFINE places == Sorted(P, Place)
           kept == [n \in DOMAIN places |-> s[places[n]]]
<1>1. P \in SUBSET Int /\ IsFiniteSet(P) /\ \A i \in P : s[i] \in EffectTemplate
  <2>1. IsFiniteSet(1 .. Len(s)) /\ P \subseteq 1 .. Len(s) /\ P \in SUBSET Int
    BY FS_Interval
  <2> QED
    BY <2>1, FS_Subset
<1>2. Lists(places, P)
  <2>1. places = Sorted(P, Place)
    OBVIOUS
  <2> HIDE DEF places
  <2> QED
    BY <1>1, <2>1, PlacesSorted
<1>3. kept \in [1 .. Cardinality(P) -> EffectTemplate] /\ Cardinality(P) \in Nat
  BY <1>1, <1>2 DEF Lists
<1> HIDE DEF kept
<1>4. kept \in Seq(EffectTemplate)
  BY <1>3
<1> QED
  BY <1>4 DEF kept

\* One operation adds effects of its own place.
LEMMA PerformPlaces ==
  ASSUME NEW r \in Nat, NEW d, Decided(d, r), d.halt = "NONE", NEW c, CandidateTyped(c),
         NEW S, Placed(d, c, S), NEW k \in Int, NEW n \in Int, <<k, n>> \notin S, NEW op, Operates(op)
  PROVE  Placed(Perform(c, d, op, <<k, n>>), c, S \union {<<k, n>>})
<1> DEFINE T == S \union {<<k, n>>}
           e == Perform(c, d, op, <<k, n>>)
           s == d.templates
<1>1. DOMAIN d = DecisionFields /\ s \in Seq(EffectTemplate) /\ d.target \in Entities
  BY DEF Decided, Placed
<1>2. /\ Len(s) \in Nat /\ DOMAIN s = 1 .. Len(s) /\ \A i \in DOMAIN s : s[i] \in EffectTemplate
  BY <1>1
<1>3. ASSUME NEW x, x.generated = d.generated, x.target = d.target, x.templates \in Seq(EffectTemplate),
             x.halt # "RESTART"
      PROVE  Placed(x, c, T)
  BY <1>3, PlacedSame
<1>4. ASSUME NEW h, h # "RESTART" PROVE Placed([d EXCEPT !.halt = h], c, T)
  <2> DEFINE x == [d EXCEPT !.halt = h]
  <2>1. x.generated = d.generated /\ x.target = d.target /\ x.templates = s /\ x.halt = h
    BY <1>1 DEF DecisionFields
  <2> HIDE DEF x
  <2> QED
    BY <1>1, <1>3, <1>4, <2>1 DEF x
<1>5. ASSUME NEW t \in Seq(EffectTemplate) PROVE Placed([d EXCEPT !.templates = t], c, T)
  <2> DEFINE x == [d EXCEPT !.templates = t]
  <2>1. x.generated = d.generated /\ x.target = d.target /\ x.templates = t /\ x.halt = "NONE"
    BY <1>1 DEF DecisionFields
  <2> HIDE DEF x
  <2> QED
    BY <1>1, <1>3, <2>1 DEF x
<1>6. Placed(d, c, T)
  BY <1>1, <1>3
<1> HIDE DEF T
<1>7. CASE op.op \in {"REJECT", "ADD_DECISION_TAG"}
  <2> DEFINE tags == d.tags \union {op.tag}
  <2>1. e = [d EXCEPT !.status = "REJECTED", !.tags = tags] \/ e = [d EXCEPT !.tags = tags]
    BY <1>7 DEF Perform
  <2> HIDE DEF tags, e
  <2>2. e.generated = d.generated /\ e.target = d.target /\ e.templates = s /\ e.halt = "NONE"
    BY <1>1, <2>1 DEF DecisionFields
  <2>3. Placed(e, c, T)
    BY <1>1, <1>3, <2>2
  <2> QED
    BY <2>3 DEF e, T
<1>8. CASE op.op = "REDIRECT"
  <2> DEFINE met == Append(d.visited, op.target)
             x == [d EXCEPT !.target = op.target, !.visited = met, !.redirects = @ + 1, !.halt = "RESTART"]
  <2>1. e = Redirect(d, op) /\ op.target \in Entities
    BY <1>8 DEF Perform, Operates
  <2>2. CASE (\E i \in DOMAIN d.visited : d.visited[i] = op.target) \/ d.redirects >= MaxRedirects
    <3>1. e = [d EXCEPT !.halt = "FAULT"]
      BY <2>1, <2>2 DEF Redirect, Fault
    <3> QED
      BY <1>4, <3>1 DEF T
  <2>3. CASE ~(\E i \in DOMAIN d.visited : d.visited[i] = op.target) /\ ~(d.redirects >= MaxRedirects)
    <3>1. e = x
      BY <2>1, <2>3 DEF Redirect
    <3>2. x.generated = d.generated /\ x.target = op.target /\ x.templates = s
      BY <1>1 DEF DecisionFields
    <3>3. ASSUME NEW m \in DOMAIN d.generated PROVE d.generated[m].target # op.target
      <4>1. \E v \in DOMAIN d.visited : d.visited[v] = d.generated[m].target
        BY DEF Decided, EffectsInOrder
      <4> QED
        BY <2>3, <4>1
    <3> HIDE DEF x
    <3>4. Placed(x, c, T)
      BY <1>1, <2>1, <3>2, <3>3 DEF Placed
    <3> QED
      BY <3>1, <3>4 DEF T
  <2> QED
    BY <2>2, <2>3
<1>9. CASE op.op = "REMOVE_EFFECT_CLASS"
  <2> DEFINE P == {i \in DOMAIN s : s[i].class # op.class}
             places == Sorted(P, Place)
             kept == [i \in DOMAIN places |-> s[places[i]]]
  <2>1. Selected(s, LAMBDA t : t.class # op.class) = kept
    BY DEF Selected, Sorted
  <2>2. kept \in Seq(EffectTemplate)
    BY <1>1, SelectedTyped
  <2>3. e = [d EXCEPT !.templates = kept]
    BY <1>9, <2>1 DEF Perform
  <2> HIDE DEF kept
  <2> QED
    BY <1>5, <2>2, <2>3 DEF T
<1>10. CASE op.op = "SCALE_EFFECT_CLASS"
  <2> DEFINE Scaled(t) == ScaleRatio(t.payload, op.numerator, op.denominator)
             One(t) == IF t.class = op.class THEN [t EXCEPT !.payload = CHOOSE m \in Scaled(t) : TRUE] ELSE t
             all == [i \in 1 .. Len(s) |-> One(s[i])]
  <2>1. \/ e = [d EXCEPT !.halt = "FAULT"]
        \/ /\ e = [d EXCEPT !.templates = all]
           /\ \A i \in DOMAIN s : s[i].class = op.class => Scaled(s[i]) # {}
    BY <1>2, <1>10 DEF Perform, ScaleClass, OnClass, Fault
  <2>2. CASE e = [d EXCEPT !.halt = "FAULT"]
    BY <1>4, <2>2 DEF T
  <2>3. CASE /\ e = [d EXCEPT !.templates = all]
             /\ \A i \in DOMAIN s : s[i].class = op.class => Scaled(s[i]) # {}
    <3>1. ASSUME NEW i \in 1 .. Len(s) PROVE One(s[i]) \in EffectTemplate
      <4>1. s[i] \in EffectTemplate
        BY <1>2
      <4>2. CASE s[i].class # op.class
        BY <4>1, <4>2
      <4>3. CASE s[i].class = op.class
        <5> DEFINE m == CHOOSE m \in Scaled(s[i]) : TRUE
        <5>1. m \in Scaled(s[i])
          BY <1>2, <2>3, <4>3
        <5>2. s[i].payload \in Int /\ op.numerator \in Int /\ op.denominator \in Int
          BY <1>10, <4>1 DEF EffectTemplate, Operates
        <5>3. Scaled(s[i]) \subseteq Int
          BY <5>2 DEF ScaleRatio, MulI64
        <5>4. One(s[i]) = [s[i] EXCEPT !.payload = m] /\ m \in Int
          BY <4>3, <5>1, <5>3
        <5> HIDE DEF m, One
        <5> QED
          BY <4>1, <5>4 DEF EffectTemplate
      <4> QED
        BY <4>2, <4>3
    <3> HIDE DEF One
    <3>2. all \in Seq(EffectTemplate)
      BY <1>2, <3>1
    <3> HIDE DEF all
    <3> QED
      BY <1>5, <2>3, <3>2 DEF T
  <2> QED
    BY <2>1, <2>2, <2>3
<1>11. CASE op.op = "CAP_EFFECT_CLASS"
  <2> DEFINE One(t) == IF t.class = op.class
                       THEN [t EXCEPT !.payload = IF op.cap < @ THEN op.cap ELSE @] ELSE t
             all == [i \in 1 .. Len(s) |-> One(s[i])]
  <2>1. e = [d EXCEPT !.templates = all]
    BY <1>2, <1>11 DEF Perform, OnClass
  <2>2. ASSUME NEW i \in 1 .. Len(s) PROVE One(s[i]) \in EffectTemplate
    <3>1. s[i] \in EffectTemplate /\ op.cap \in Int
      BY <1>2, <1>11 DEF Operates
    <3> QED
      BY <3>1 DEF EffectTemplate
  <2> HIDE DEF One
  <2>3. all \in Seq(EffectTemplate)
    BY <1>2, <2>2
  <2> HIDE DEF all
  <2> QED
    BY <1>5, <2>1, <2>3 DEF T
<1>12. CASE op.op = "REPLACE_EFFECT_CLASS"
  <2> DEFINE all == [i \in 1 .. Len(s) |-> IF s[i].class = op.class THEN op.template ELSE s[i]]
  <2>1. e = [d EXCEPT !.templates = all]
    BY <1>2, <1>12 DEF Perform, OnClass
  <2>2. all \in Seq(EffectTemplate)
    BY <1>2, <1>12 DEF Operates
  <2> HIDE DEF all
  <2> QED
    BY <1>5, <2>1, <2>2 DEF T
<1>13. CASE op.op = "APPEND_EFFECT_TEMPLATE"
  <2> DEFINE all == Append(s, op.template)
  <2>1. e = [d EXCEPT !.templates = all]
    BY <1>13 DEF Perform
  <2>2. all \in Seq(EffectTemplate)
    BY <1>1, <1>13 DEF Operates
  <2> HIDE DEF all
  <2> QED
    BY <1>5, <2>1, <2>2 DEF T
<1>14. CASE op.op = "MATERIALIZE"
  <2> DEFINE P == {i \in DOMAIN s : op.classes = {} \/ s[i].class \in op.classes}
             places == Sorted(P, Place)
             kept == [i \in DOMAIN places |-> s[places[i]]]
  <2>1. Selected(s, LAMBDA t : op.classes = {} \/ t.class \in op.classes) = kept
    BY DEF Selected, Sorted
  <2>2. kept \in Seq(EffectTemplate)
    BY <1>1, SelectedTyped
  <2>3. e = Materialize(c, d, op, <<k, n>>)
    BY <1>14 DEF Perform
  <2>4. \/ e = d
        \/ e = [d EXCEPT !.halt = "FAULT"]
        \/ e = [d EXCEPT !.generated = @ \o Concrete(c, d.target, kept, <<k, n>>)]
    BY <2>1, <2>3 DEF Materialize, Fault
  <2> HIDE DEF kept, e
  <2>5. CASE e = [d EXCEPT !.generated = @ \o Concrete(c, d.target, kept, <<k, n>>)]
    BY <1>1, <2>2, <2>5, PlacedMore DEF e
  <2> QED
    BY <1>4, <1>6, <2>4, <2>5 DEF e, T
<1>15. CASE op.op \in {"STOP_STAGE", "STOP_PIPELINE"}
  <2>1. e = [d EXCEPT !.halt = "STAGE"] \/ e = [d EXCEPT !.halt = "PIPELINE"]
    BY <1>15 DEF Perform
  <2> QED
    BY <1>4, <2>1 DEF T
<1>16. CASE op.op = "REQUEST_RECEIPT"
  <2>1. e = d
    BY <1>16 DEF Perform
  <2> QED
    BY <1>6, <2>1 DEF T
<1>17. CASE op.op \notin {"REJECT", "REDIRECT", "REMOVE_EFFECT_CLASS", "SCALE_EFFECT_CLASS",
                          "CAP_EFFECT_CLASS", "REPLACE_EFFECT_CLASS", "APPEND_EFFECT_TEMPLATE",
                          "ADD_DECISION_TAG", "REQUEST_RECEIPT", "MATERIALIZE", "STOP_STAGE",
                          "STOP_PIPELINE"}
  <2>1. e = [d EXCEPT !.halt = "FAULT"]
    BY <1>17 DEF Perform, Fault
  <2> QED
    BY <1>4, <2>1 DEF T
<1> QED
  BY <1>7, <1>8, <1>9, <1>10, <1>11, <1>12, <1>13, <1>14, <1>15, <1>16, <1>17

\* A rule that fires adds effects of its own places.
LEMMA FirePlaces ==
  ASSUME setup \in Setups, NEW q, q.rules = Rulebook[setup.rules], CandidateTyped(q.candidate),
         NEW k \in DOMAIN q.rules, NEW r \in Nat, NEW d, Whole(d, r), d.halt = "NONE",
         NEW K \in SUBSET Int, k \notin K, Placed(d, q.candidate, K \X Nat)
  PROVE  \A x \in Fire(q, d, k) : Placed(x, q.candidate, (K \union {k}) \X Nat)
<1> DEFINE ops == q.rules[k].ops
           top == Len(ops)
           c == q.candidate
           base == [d EXCEPT !.trace = Append(@, k)]
           At(n) == (K \X Nat) \union {<<k, m>> : m \in 1 .. n}
<1>1. top \in Nat /\ DOMAIN ops = 1 .. top /\ k \in Int /\ \A n \in DOMAIN ops : Operates(ops[n])
  <2>1. top \in Nat /\ DOMAIN ops = 1 .. top /\ k \in Int
    BY RulebookAssumption DEF IsList
  <2>2. \A n \in DOMAIN ops : Operates(ops[n])
    BY EffectAssumption
  <2> QED
    BY <2>1, <2>2
<1> DEFINE f == CHOOSE f : Firing(f, top, base, c, ops, k)
<1>2. Firing(f, top, base, c, ops, k) /\ Fire(q, d, k) = {Stopped(x, q.rules[k]) : x \in f[top]}
  <2>1. Firing(f, top, base, c, ops, k)
    BY <1>1, FiringExists
  <2>2. Fire(q, d, k) = {Stopped(x, q.rules[k]) : x \in f[top]}
    BY DEF Fire, Firing
  <2> QED
    BY <2>1, <2>2
<1> HIDE DEF f
<1> DEFINE Good(x, n) == InRule(x, r, k, ops, n) /\ Placed(x, c, At(n))
           good == {n \in 0 .. top : \A x \in f[n] : Good(x, n)}
<1>3. Good(base, 0)
  <2>1. InRule(base, r, k, ops, 0)
    BY RuleStarts
  <2>2. DOMAIN d = DecisionFields
    BY DEF Whole, Decided
  <2>3. base.generated = d.generated /\ base.target = d.target /\ base.templates = d.templates
        /\ base.halt = "NONE"
    BY <2>2 DEF DecisionFields
  <2>4. d.templates \in Seq(EffectTemplate) /\ K \X Nat \subseteq At(0)
    BY DEF Placed
  <2> HIDE DEF base, At
  <2>5. Placed(base, c, At(0))
    BY <2>3, <2>4, PlacedSame
  <2> QED
    BY <2>1, <2>5
<1> HIDE DEF base, top
<1>4. 0 \in good
  <2>1. f[0] = {base} /\ 0 \in 0 .. top
    BY <1>1, <1>2 DEF Firing
  <2> QED
    BY <1>3, <2>1
<1>5. ASSUME NEW n \in 1 .. top, n - 1 \in good
      PROVE  n \in good
  <2> DEFINE Onward(x) == IF x.halt = "NONE" THEN Perform(c, x, ops[n], <<k, n>>) ELSE x
  <2>1. n \in 0 .. top /\ n # 0 /\ n \in Nat /\ n \in Int
    BY <1>1
  <2>2. f[n] = {Onward(x) : x \in f[n - 1]}
    BY <1>2, <2>1 DEF Firing
  <2>3. At(n) = At(n - 1) \union {<<k, n>>} /\ <<k, n>> \notin At(n - 1)
    <3>1. 1 .. n = (1 .. n - 1) \union {n} /\ n \notin 1 .. n - 1
      BY <2>1
    <3> QED
      BY <3>1
  <2> HIDE DEF At
  <2>4. ASSUME NEW x \in f[n - 1] PROVE Good(Onward(x), n)
    <3>1. InRule(x, r, k, ops, n - 1) /\ Placed(x, c, At(n - 1))
      BY <1>5
    <3>2. InRule(Onward(x), r, k, ops, n)
      BY <2>1, <3>1, RuleGoesOn
    <3>3. Placed(Onward(x), c, At(n))
      <4>1. CASE x.halt = "NONE"
        <5>1. Decided(x, r) /\ Operates(ops[n])
          BY <1>1, <3>1 DEF InRule
        <5>2. Placed(Perform(c, x, ops[n], <<k, n>>), c, At(n - 1) \union {<<k, n>>})
          BY <1>1, <2>1, <2>3, <3>1, <4>1, <5>1, PerformPlaces
        <5> QED
          BY <2>3, <4>1, <5>2
      <4>2. CASE x.halt # "NONE"
        BY <2>3, <3>1, <4>2 DEF Placed
      <4> QED
        BY <4>1, <4>2
    <3> QED
      BY <3>2, <3>3
  <2> HIDE DEF Onward, Good
  <2>5. \A y \in f[n] : Good(y, n)
    BY <2>2, <2>4
  <2> QED
    BY <2>1, <2>5
<1>6. \A x \in f[top] : Placed(x, c, At(top))
  <2>1. top \in good
    <3> HIDE DEF good
    <3> QED
      BY <1>1, <1>4, <1>5, UpTo
  <2> QED
    BY <2>1
<1>7. At(top) \subseteq (K \union {k}) \X Nat
  BY <1>1
<1> HIDE DEF At
<1>8. ASSUME NEW x \in f[top]
      PROVE  Placed(Stopped(x, q.rules[k]), c, (K \union {k}) \X Nat)
  <2> DEFINE e == Stopped(x, q.rules[k])
  <2>1. \/ e = x
        \/ e = [x EXCEPT !.halt = "PIPELINE"] /\ x.halt # "RESTART"
        \/ e = [x EXCEPT !.halt = "STAGE"] /\ x.halt # "RESTART"
    BY DEF Stopped
  <2>2. InRule(x, r, k, ops, top) /\ Placed(x, c, At(top))
    <3>1. top \in good
      <4> HIDE DEF good
      <4> QED
        BY <1>1, <1>4, <1>5, UpTo
    <3> QED
      BY <3>1
  <2>3. DOMAIN x = DecisionFields
    BY <2>2 DEF InRule, Decided
  <2> HIDE DEF e
  <2>4. CASE e = x
    BY <1>7, <2>2, <2>4 DEF Placed, e
  <2>5. CASE e # x
    <3>1. e.generated = x.generated /\ e.target = x.target /\ e.templates = x.templates
          /\ e.halt # "RESTART"
      BY <2>1, <2>3, <2>5 DEF DecisionFields
    <3>2. x.templates \in Seq(EffectTemplate)
      BY <2>2 DEF Placed
    <3>3. Placed(e, c, (K \union {k}) \X Nat)
      BY <1>7, <2>2, <3>1, <3>2, PlacedSame
    <3> QED
      BY <3>3 DEF e
  <2> QED
    BY <2>4, <2>5
<1> QED
  BY <1>2, <1>8

\* A stage lists its rules once each.
LEMMA StageLists ==
  ASSUME setup \in Setups, NEW q, q.rules = Rulebook[setup.rules], NEW stage
  PROVE  LET S == {k \in DOMAIN q.rules : q.rules[k].stage = stage}
         IN  /\ Lists(InStage(q.rules, stage), S)
             /\ Len(InStage(q.rules, stage)) = Cardinality(S) /\ Cardinality(S) \in Nat
<1> DEFINE rules == q.rules
           S == {k \in DOMAIN rules : rules[k].stage = stage}
           order == InStage(rules, stage)
           key == [k \in S |-> OrderOf(rules, k)]
           N == Cardinality(S)
           B(x) == {y \in S : LexLess(OrderOf(rules, y), OrderOf(rules, x))}
<1>1. /\ IsList(rules) /\ \A k \in DOMAIN rules : rules[k].order \in Int
      /\ \A j, k \in DOMAIN rules :
           rules[j].stage = rules[k].stage /\ rules[j].order = rules[k].order => j = k
  BY RulebookAssumption
<1>2. IsFiniteSet(S) /\ N \in Nat
  <2>1. Len(rules) \in Nat /\ DOMAIN rules = 1 .. Len(rules)
    BY <1>1 DEF IsList
  <2>2. IsFiniteSet(1 .. Len(rules)) /\ S \subseteq 1 .. Len(rules)
    BY <2>1, FS_Interval
  <2> QED
    BY <2>2, FS_Subset, FS_CardinalityType
<1>3. /\ \A k \in S : rules[k].order \in Int
      /\ \A j, k \in S : rules[j].order = rules[k].order => j = k
  BY <1>1
<1>4. order = [n \in 1 .. N |-> CHOOSE x \in S : Cardinality(B(x)) = n - 1]
  BY DEF InStage, Sorted
<1> HIDE DEF S, rules
<1>5. key \in [S -> Key(1)] /\ \A x, y \in S : key[x] = key[y] => x = y
  <2>1. \A k \in S : OrderOf(rules, k) \in Key(1) /\ OrderOf(rules, k)[1] = rules[k].order
    BY <1>3 DEF OrderOf, Key
  <2>2. key \in [S -> Key(1)]
    BY <2>1
  <2>3. \A x, y \in S : key[x] = key[y] => x = y
    BY <1>3, <2>1
  <2> QED
    BY <2>2, <2>3
<1>6. \A x \in S : B(x) = Before(S, key, x)
  BY DEF Before
<1> HIDE DEF key, B
<1>7. ASSUME NEW n \in 1 .. N
      PROVE  order[n] \in S /\ Cardinality(Before(S, key, order[n])) = n - 1
  <2>1. n - 1 \in 0 .. N - 1
    BY <1>2
  <2>2. \E x \in S : Cardinality(Before(S, key, x)) = n - 1
    BY <1>2, <1>5, <2>1, Ranked
  <2>3. order[n] = CHOOSE x \in S : Cardinality(B(x)) = n - 1
    <3> HIDE DEF order
    <3> QED
      BY <1>4
  <2> HIDE DEF order
  <2>4. order[n] \in S /\ Cardinality(B(order[n])) = n - 1
    BY <1>6, <2>2, <2>3
  <2> QED
    BY <1>6, <2>4
<1>10. order = [n \in 1 .. N |-> order[n]]
  BY <1>4
<1> HIDE DEF order
<1>8. DOMAIN order = 1 .. N
  BY <1>4
<1>9. Lists(order, S)
  BY <1>2, <1>5, <1>7, <1>8, Enumerated
<1>11. Len(order) = N
  <2> HIDE DEF N
  <2> QED
    BY <1>2, <1>10, Indexed
<1> QED
  BY <1>2, <1>9, <1>11 DEF order, S, rules

\* A stage adds effects of the places of its rules.
LEMMA RunStagePlaces ==
  ASSUME setup \in Setups, NEW q, q.rules = Rulebook[setup.rules], CandidateTyped(q.candidate), NEW stage,
         NEW r \in Nat, NEW d, Whole(d, r), NEW K \in SUBSET Int, NEW S,
         S = {k \in DOMAIN q.rules : q.rules[k].stage = stage}, K \intersect S = {},
         Placed(d, q.candidate, K \X Nat)
  PROVE  \A x \in RunStage(q, d, stage) : Placed(x, q.candidate, (K \union S) \X Nat)
<1> DEFINE order == InStage(q.rules, stage)
           top == Len(order)
           c == q.candidate
           At(n) == K \union {order[m] : m \in 1 .. n}
<1>0. /\ Lists(order, {k \in DOMAIN q.rules : q.rules[k].stage = stage})
      /\ top = Cardinality({k \in DOMAIN q.rules : q.rules[k].stage = stage}) /\ top \in Nat
  BY ONLY setup \in Setups, q.rules = Rulebook[setup.rules], StageLists
<1>1. Lists(order, S) /\ top = Cardinality(S)
  BY <1>0
<1>2. top \in Nat
  BY <1>0
<1>3. PICK f : /\ Staging(f, top, d, q, order)
               /\ RunStage(q, d, stage) = {StageOver(x, stage) : x \in f[top]}
  BY ONLY <1>2, RunStageRuns
<1>4. S \subseteq DOMAIN q.rules /\ DOMAIN q.rules \subseteq Int
  BY RulebookAssumption DEF IsList
<1>5. \A n \in 1 .. top : order[n] \in S /\ \A m \in 1 .. top : order[m] = order[n] => m = n
  BY <1>1 DEF Lists
<1>6. ASSUME NEW n \in 0 .. top PROVE At(n) \in SUBSET Int
  <2>1. \A m \in 1 .. n : m \in 1 .. top
    BY <1>2
  <2>2. \A m \in 1 .. n : order[m] \in Int
    BY <1>4, <1>5, <2>1
  <2> HIDE DEF order
  <2> QED
    BY <2>2
<1> HIDE DEF order, top
<1> DEFINE Good(x, n) == Whole(x, r) /\ Placed(x, c, At(n) \X Nat)
           good == {n \in 0 .. top : \A x \in f[n] : Good(x, n)}
<1>7. 0 \in good
  <2>1. f[0] = {d} /\ 0 \in 0 .. top
    BY <1>2, <1>3 DEF Staging
  <2>2. At(0) = K
    OBVIOUS
  <2> HIDE DEF At
  <2> QED
    BY <2>1, <2>2
<1>8. ASSUME NEW n \in 1 .. top, n - 1 \in good
      PROVE  n \in good
  <2> DEFINE Onward(x) == IF x.halt = "NONE" /\ Holds(q.rules[order[n]].when, x, q.defenses)
                         THEN Fire(q, x, order[n]) ELSE {x}
             k == order[n]
  <2>1. n \in 0 .. top /\ n # 0 /\ n - 1 \in 0 .. top
    BY <1>2
  <2>2. f[n] = UNION {Onward(x) : x \in f[n - 1]}
    BY <1>3, <2>1 DEF Staging
  <2>3. At(n) = At(n - 1) \union {k}
    <3>1. 1 .. n = (1 .. n - 1) \union {n}
      BY <1>2
    <3> QED
      BY <3>1
  <2>4. k \notin At(n - 1) /\ k \in DOMAIN q.rules
    <3>1. \A m \in 1 .. n - 1 : m \in 1 .. top /\ m # n
      BY <1>2
    <3>2. k \in S /\ k \notin K
      BY <1>5
    <3> QED
      BY <1>4, <1>5, <3>1, <3>2
  <2>5. At(n - 1) \in SUBSET Int
    BY <1>6, <2>1
  <2> HIDE DEF At
  <2>6. ASSUME NEW x \in f[n - 1], NEW y \in Onward(x) PROVE Good(y, n)
    <3>1. Whole(x, r) /\ Placed(x, c, At(n - 1) \X Nat)
      BY <1>8
    <3>2. CASE y = x
      <4>1. At(n - 1) \X Nat \subseteq At(n) \X Nat
        BY <2>3
      <4> HIDE DEF k
      <4> QED
        BY <3>1, <3>2, <4>1 DEF Placed
    <3>3. CASE y # x
      <4>1. x.halt = "NONE" /\ y \in Fire(q, x, k)
        BY <2>6, <3>3
      <4>2. Whole(y, r)
        BY <2>4, <3>1, <4>1, FireKeeps
      <4> HIDE DEF k
      <4>3. Placed(y, c, (At(n - 1) \union {k}) \X Nat)
        BY <2>4, <2>5, <3>1, <4>1, FirePlaces
      <4> QED
        BY <2>3, <4>2, <4>3
    <3> QED
      BY <3>2, <3>3
  <2> HIDE DEF Onward, Good
  <2>7. \A y \in f[n] : Good(y, n)
    BY <2>2, <2>6
  <2> QED
    BY <2>1, <2>7
<1>9. \A x \in f[top] : Good(x, top)
  <2>1. top \in good
    <3> HIDE DEF good
    <3> QED
      BY <1>2, <1>7, <1>8, UpTo
  <2> QED
    BY <2>1
<1>10. At(top) \X Nat \subseteq (K \union S) \X Nat
  BY <1>5
<1> HIDE DEF At
<1>11. ASSUME NEW x \in f[top]
       PROVE  Placed(StageOver(x, stage), c, (K \union S) \X Nat)
  <2> DEFINE e == StageOver(x, stage)
             left == IF x.halt = "STAGE" THEN [x EXCEPT !.halt = "NONE"] ELSE x
  <2>1. Placed(x, c, At(top) \X Nat) /\ DOMAIN x = DecisionFields
    BY <1>9 DEF Whole, Decided
  <2>2. e = left \/ e = [left EXCEPT !.routed = left.status]
    BY DEF StageOver
  <2>3. /\ left.generated = x.generated /\ left.target = x.target /\ left.templates = x.templates
        /\ left.halt = x.halt \/ left.halt = "NONE"
        /\ DOMAIN left = DecisionFields
    BY <2>1 DEF DecisionFields
  <2> HIDE DEF left, e
  <2>4. /\ e.generated = x.generated /\ e.target = x.target /\ e.templates = x.templates
        /\ e.halt = x.halt \/ e.halt = "NONE"
    BY <2>2, <2>3 DEF DecisionFields
  <2>5. CASE x.halt = "RESTART"
    BY <1>10, <2>1, <2>4, <2>5 DEF Placed, e
  <2>6. CASE x.halt # "RESTART"
    <3>1. e.halt # "RESTART" /\ x.templates \in Seq(EffectTemplate)
      BY <2>1, <2>4, <2>6 DEF Placed
    <3>2. Placed(e, c, (K \union S) \X Nat)
      BY <1>10, <2>1, <2>4, <3>1, PlacedSame
    <3> QED
      BY <3>2 DEF e
  <2> QED
    BY <2>5, <2>6
<1> QED
  BY <1>3, <1>11

\* A pass fires no rule twice.
LEMMA PassPlaces ==
  ASSUME setup \in Setups, NEW q, q.rules = Rulebook[setup.rules], CandidateTyped(q.candidate),
         NEW r \in Nat, NEW d, Whole([d EXCEPT !.halt = "NONE"], r),
         Placed([d EXCEPT !.halt = "NONE"], q.candidate, {})
  PROVE  \A x \in Pass(q, d) : Placed(x, q.candidate, Int \X Nat)
<1> DEFINE base == [d EXCEPT !.halt = "NONE"]
           top == Len(Stages)
           c == q.candidate
           f == CHOOSE f : Passing(f, top, base, q)
           Of(m) == {k \in DOMAIN q.rules : q.rules[k].stage = Stages[m]}
           At(n) == {k \in DOMAIN q.rules : \E m \in 1 .. n : q.rules[k].stage = Stages[m]}
<1>1. top \in Nat /\ \A m, n \in 1 .. top : Stages[m] = Stages[n] => m = n
  BY DEF Stages
<1>2. base.halt = "NONE" /\ base.templates \in Seq(EffectTemplate)
  BY DEF Whole, Decided, DecisionFields, Placed
<1>3. Passing(f, top, base, q)
  BY <1>1, PassingExists
<1>4. Pass(q, d) = f[top]
  BY DEF Pass, Passing
<1>5. DOMAIN q.rules \subseteq Int
  BY RulebookAssumption DEF IsList
<1> HIDE DEF base, top, f
<1> DEFINE Good(x, n) == Between(x, r) /\ Placed(x, c, At(n) \X Nat)
           good == {n \in 0 .. top : \A x \in f[n] : Good(x, n)}
<1>6. 0 \in good
  <2>1. f[0] = {base} /\ 0 \in 0 .. top
    BY <1>1, <1>3 DEF Passing
  <2>2. Between(base, r)
    BY <1>2 DEF Between, base
  <2>3. Placed(base, c, {}) /\ {} \subseteq At(0) \X Nat
    BY DEF base
  <2> HIDE DEF At
  <2>4. Placed(base, c, At(0) \X Nat)
    BY <1>2, <2>3, PlacedSame
  <2> QED
    BY <2>1, <2>2, <2>4
<1>7. ASSUME NEW n \in 1 .. top, n - 1 \in good
      PROVE  n \in good
  <2> DEFINE Onward(x) == IF x.halt = "NONE" THEN RunStage(q, x, Stages[n]) ELSE {x}
             K == At(n - 1)
             S == Of(n)
  <2>1. n \in 0 .. top /\ n # 0
    BY <1>1
  <2>2. f[n] = UNION {Onward(x) : x \in f[n - 1]}
    BY <1>3, <2>1 DEF Passing
  <2>3. At(n) = K \union S
    <3>1. \A m \in 1 .. n : m \in 1 .. n - 1 \/ m = n
      BY <1>1
    <3>2. n \in 1 .. n /\ \A m \in 1 .. n - 1 : m \in 1 .. n
      BY <1>1
    <3> QED
      BY <3>1, <3>2
  <2>4. K \intersect S = {}
    <3>1. \A m \in 1 .. n - 1 : m \in 1 .. top /\ m # n
      BY <1>1
    <3> QED
      BY <1>1, <3>1
  <2>5. K \in SUBSET Int /\ S = {k \in DOMAIN q.rules : q.rules[k].stage = Stages[n]}
    BY <1>5
  <2> HIDE DEF K, S
  <2>6. ASSUME NEW x \in f[n - 1], NEW y \in Onward(x) PROVE Good(y, n)
    <3>1. Between(x, r) /\ Placed(x, c, K \X Nat)
      BY <1>7 DEF K
    <3> HIDE DEF At
    <3>2. CASE x.halt # "NONE"
      <4>1. y = x /\ K \X Nat \subseteq At(n) \X Nat
        BY <2>3, <2>6, <3>2
      <4>2. Placed(y, c, At(n) \X Nat)
        BY <3>1, <4>1 DEF Placed
      <4> QED
        BY <3>1, <4>1, <4>2
    <3>3. CASE x.halt = "NONE"
      <4>1. y \in RunStage(q, x, Stages[n]) /\ Whole(x, r)
        BY <2>6, <3>1, <3>3 DEF Between
      <4>2. Between(y, r)
        BY <4>1, RunStageKeeps
      <4>3. Placed(y, c, (K \union S) \X Nat)
        BY <2>4, <2>5, <3>1, <4>1, RunStagePlaces
      <4> QED
        BY <2>3, <4>2, <4>3
    <3> QED
      BY <3>2, <3>3
  <2> HIDE DEF Onward, Good
  <2>7. \A y \in f[n] : Good(y, n)
    BY <2>2, <2>6
  <2> QED
    BY <2>1, <2>7
<1>8. top \in good
  <2> HIDE DEF good
  <2> QED
    BY <1>1, <1>6, <1>7, UpTo
<1>9. At(top) \X Nat \subseteq Int \X Nat
  BY <1>5
<1> HIDE DEF At
<1>10. \A x \in f[top] : Placed(x, c, Int \X Nat)
  BY <1>8, <1>9 DEF Placed
<1> QED
  BY <1>4, <1>10

\* A decision that starts over.
LEMMA Restarted ==
  ASSUME NEW r \in Nat, NEW x, Between(x, r), x.halt = "RESTART"
  PROVE  x.redirects \in Nat /\ Whole([x EXCEPT !.halt = "NONE"], x.redirects)
<1> DEFINE s == x.redirects
           e == [x EXCEPT !.halt = "NONE"]
<1>1. s \in Nat /\ s <= MaxRedirects /\ MaxRedirects \in Nat
  BY RulesAssumption DEF Between, Whole, Decided
<1>2. Decided(e, r) /\ e.trace = x.trace /\ e.status = x.status /\ e.halt = "NONE"
  BY Halted DEF Between, Whole
<1>3. e.redirects = s
  BY DEF Between, Whole, Decided, DecisionFields
<1> HIDE DEF e
<1>4. Decided(e, s)
  BY <1>1, <1>2, <1>3 DEF Decided
<1>5. Barred(e, Len(e.trace))
  BY <1>2 DEF Between, Whole, Barred
<1> QED
  BY <1>1, <1>4, <1>5 DEF Whole, e

\* Every effect of a candidate is the candidate's, told apart from the others.
LEMMA ResolvePlaces ==
  ASSUME setup \in Setups, NEW q, q.rules = Rulebook[setup.rules], CandidateTyped(q.candidate)
  PROVE  Placed(ResolveCandidate(q), q.candidate, Int \X Nat)
<1> DEFINE top == MaxRedirects
           c == q.candidate
           f == CHOOSE f : Resolving(f, top, q)
           Met(x) == (\E r \in Nat : Between(x, r)) /\ Placed(x, c, Int \X Nat)
           good == {n \in 0 .. top : f[n] # {} /\ \A x \in f[n] : Met(x)}
<1>1. top \in Nat
  BY RulesAssumption
<1>2. Resolving(f, top, q)
  BY <1>1, ResolvingExists
<1>3. ResolveCandidate(q) = CHOOSE d \in f[top] : TRUE
  BY DEF ResolveCandidate, Resolving
<1> HIDE DEF f
<1>4. 0 \in good
  <2> DEFINE d == NewDecision(c)
             e == [d EXCEPT !.halt = "NONE"]
  <2>1. f[0] = Pass(q, d) /\ 0 \in 0 .. top
    BY <1>1, <1>2 DEF Resolving
  <2>2. Whole(e, 0)
    BY NewWhole DEF CandidateTyped, Listed
  <2>3. e.generated = << >> /\ e.target = c.target /\ e.templates = c.templates /\ e.halt = "NONE"
    BY DEF NewDecision
  <2> HIDE DEF e
  <2>4. IsEffects(<< >>) /\ DOMAIN << >> = {}
    BY DEF IsEffects, Unlike
  <2>5. Placed(e, c, {})
    BY <2>3, <2>4 DEF Placed, CandidateTyped
  <2>6. Pass(q, d) # {} /\ \A x \in Pass(q, d) : Between(x, 0) /\ Placed(x, c, Int \X Nat)
    BY <2>2, <2>5, PassKeeps, PassPlaces DEF e
  <2> HIDE DEF d
  <2> QED
    BY <2>1, <2>6
<1>5. ASSUME NEW n \in 1 .. top, n - 1 \in good
      PROVE  n \in good
  <2> DEFINE Onward(x) == IF x.halt = "RESTART" THEN Pass(q, x) ELSE {x}
  <2>1. n \in 0 .. top /\ n # 0
    BY <1>1
  <2>2. f[n] = UNION {Onward(x) : x \in f[n - 1]}
    BY <1>2, <2>1 DEF Resolving
  <2>3. ASSUME NEW x \in f[n - 1]
        PROVE  Onward(x) # {} /\ \A y \in Onward(x) : Met(y)
    <3>1. Met(x)
      BY <1>5
    <3>2. CASE x.halt # "RESTART"
      BY <3>1, <3>2
    <3>3. CASE x.halt = "RESTART"
      <4> DEFINE s == x.redirects
                 e == [x EXCEPT !.halt = "NONE"]
      <4>1. PICK r \in Nat : Between(x, r)
        BY <3>1
      <4>2. s \in Nat /\ Whole(e, s)
        BY <3>3, <4>1, Restarted
      <4>3. e.generated = x.generated /\ e.target = x.target /\ e.templates = x.templates
            /\ e.halt = "NONE"
        BY <4>1 DEF Between, Whole, Decided, DecisionFields
      <4> HIDE DEF e, s
      <4>4. Placed(e, c, {})
        BY <3>1, <3>3, <4>3 DEF Placed
      <4>5. Pass(q, x) # {} /\ \A y \in Pass(q, x) : Between(y, s) /\ Placed(y, c, Int \X Nat)
        BY <4>2, <4>4, PassKeeps, PassPlaces DEF e
      <4> QED
        BY <3>3, <4>2, <4>5
    <3> QED
      BY <3>2, <3>3
  <2> HIDE DEF Onward, Met
  <2>4. f[n] # {} /\ \A y \in f[n] : Met(y)
    BY <1>5, <2>2, <2>3
  <2> QED
    BY <2>1, <2>4
<1>6. top \in good
  <2> HIDE DEF good
  <2> QED
    BY <1>1, <1>4, <1>5, UpTo
<1> QED
  BY <1>3, <1>6

-----------------------------------------------------------------------------
(* The effects of the transitions *)

\* s holds effects of i from its first n quanta.
Owned(s, i, n) ==
  /\ IsEffects(s)
  /\ \A m \in DOMAIN s : s[m].instance = i /\ s[m].id[1] = 0 /\ s[m].id[2] <= n

\* A payload is evaluated to a number.
LEMMA ResolvedTyped ==
  ASSUME NEW t \in EffectTemplate, NEW a, a.cycle \in Int, NEW register \in Int
  PROVE  Resolve(t, a, register) \in EffectTemplate
<1> DEFINE payload == CASE t.ref = "LITERAL" -> t.payload
                        [] t.ref = "CYCLE" -> a.cycle
                        [] t.ref = "REGISTER" -> register
<1>1. payload \in Int
  BY DEF EffectTemplate
<1>2. Resolve(t, a, register) = [t EXCEPT !.payload = payload]
  BY DEF Resolve
<1> HIDE DEF payload
<1> QED
  BY <1>1, <1>2 DEF EffectTemplate

\* What a transition emits is told apart by its place.
LEMMA EmittedOwned ==
  ASSUME NEW i \in Instances, NEW n \in Nat, NEW a \in Clock, NEW register \in Int
  PROVE  /\ IsEffects(Emitted(i, n, a, register))
         /\ \A m \in DOMAIN Emitted(i, n, a, register) :
              LET e == Emitted(i, n, a, register)[m]
              IN  e.instance = i /\ e.id[1] = 0 /\ e.id[2] = n
<1> DEFINE kept == CycleEffects[i]
           s == Emitted(i, n, a, register)
<1>1. /\ kept \in Seq(EffectTemplate) /\ DOMAIN kept = 1 .. Len(kept) /\ Len(kept) \in Nat
      /\ i \in Int /\ Owner[i] \in Int /\ Owner[i] \in Entities /\ a.cycle \in Int
  <2>1. kept \in Seq(EffectTemplate) /\ i \in Int /\ Owner[i] \in Int /\ Owner[i] \in Entities
    BY EffectAssumption
  <2>2. a.cycle \in Int
    BY DEF Clock
  <2> HIDE DEF kept
  <2> QED
    BY <2>1, <2>2
<1>2. ASSUME NEW j \in DOMAIN kept
      PROVE  /\ s[j] \in Effect
             /\ s[j].instance = i /\ s[j].id[1] = 0 /\ s[j].id[2] = n /\ s[j].id[3] = j
  <2> DEFINE id == <<0, n, j, 0>>
             t == Resolve(kept[j], a, register)
  <2>1. s[j] = [id |-> id, type |-> t.type, class |-> t.class, source |-> Owner[i],
                target |-> Owner[i], instance |-> i, priority |-> t.priority,
                payload |-> t.payload, reducer |-> t.reducer, authoritative |-> t.authoritative]
    BY DEF Emitted
  <2>2. id \in Key(4) /\ id[1] = 0 /\ id[2] = n /\ id[3] = j
    <3>1. j \in Int
      BY <1>1
    <3> QED
      BY <3>1 DEF Key
  <2>3. kept[j] \in EffectTemplate
    BY <1>1
  <2>4. t \in EffectTemplate
    BY <1>1, <2>3, ResolvedTyped
  <2> HIDE DEF id, t, s
  <2>5. s[j] \in Effect
    <3>1. /\ t.type \in Int /\ t.class \in STRING /\ t.priority \in Int /\ t.payload \in Int
          /\ t.reducer \in Reducers /\ t.authoritative \in BOOLEAN
      BY <2>4 DEF EffectTemplate
    <3>2. id \in Key(4) /\ Owner[i] \in Int /\ Owner[i] \in Entities /\ i \in Int
      BY <1>1, <2>2
    <3> QED
      BY <2>1, <3>1, <3>2 DEF Effect
  <2> QED
    BY <2>1, <2>2, <2>5
<1>3. DOMAIN s = DOMAIN kept /\ s = [j \in DOMAIN kept |-> s[j]]
  BY DEF Emitted
<1> HIDE DEF s
<1>4. s \in Seq(Effect)
  <2>1. s \in [1 .. Len(kept) -> Effect]
    BY <1>1, <1>2, <1>3
  <2> QED
    BY <1>1, <2>1
<1>5. Unlike(s)
  BY <1>2, <1>3 DEF Unlike
<1> QED
  BY <1>2, <1>3, <1>4, <1>5 DEF IsEffects, s

\* A transition adds its effects to those of the quanta before.
LEMMA ApplyOwned ==
  ASSUME NEW i \in Instances, setup \in Setups, NEW x, NEW n \in Nat, NEW a \in Clock, NEW sum,
         Follows(x.register, sum, DeclarationOf(i), Rising(i), Falling(i)),
         Owned(x.effects, i, n - 1), n > 0, NEW y \in ApplyTransition(x, i, n, a)
  PROVE  Owned(y.effects, i, n)
<1> DEFINE d == DeclarationOf(i)
<1>1. /\ d \in Declaration /\ sum \in Int /\ Assignments[i].leaving \in Seq(Int)
  BY RegisterAssumption DEF DeclarationOf, Declaration, Follows
<1>2. PICK left \in Assign(x.register, Assignments[i].leaving, d) :
        y.effects = x.effects \o Emitted(i, n, a, left)
  BY DEF ApplyTransition
<1> HIDE DEF d
<1>3. Follows(left, sum + Added(Assignments[i].leaving), d, Rising(i), Falling(i))
  BY <1>1, AssignFollows DEF Rising, Falling, d
<1>4. left \in Int
  BY <1>3 DEF Follows
<1> DEFINE s == x.effects
           t == Emitted(i, n, a, left)
<1>5. IsEffects(s) /\ \A m \in DOMAIN s : s[m].instance = i /\ s[m].id[1] = 0 /\ s[m].id[2] <= n - 1
  BY DEF Owned
<1>6. IsEffects(t) /\ \A m \in DOMAIN t : t[m].instance = i /\ t[m].id[1] = 0 /\ t[m].id[2] = n
  BY <1>4, EmittedOwned
<1> HIDE DEF s, t
<1>7. \A m \in DOMAIN s : s[m].id[2] \in Int
  <2>1. \A m \in DOMAIN s : s[m] \in Effect
    BY <1>5 DEF IsEffects
  <2>2. \A e \in Effect : e.id[2] \in Int
    BY DEF Effect, Key
  <2> QED
    BY <2>1, <2>2
<1>8. \A j \in DOMAIN s, m \in DOMAIN t : s[j].id # t[m].id
  BY <1>5, <1>6, <1>7
<1>9. /\ IsEffects(s \o t)
      /\ \A m \in DOMAIN (s \o t) :
           (\E j \in DOMAIN s : (s \o t)[m] = s[j]) \/ (\E j \in DOMAIN t : (s \o t)[m] = t[j])
  BY <1>5, <1>6, <1>8, EffectsJoined
<1> DEFINE all == s \o t
<1>10. y.effects = all
  BY <1>2 DEF s, t
<1> HIDE DEF all
<1>11. ASSUME NEW m \in DOMAIN all
       PROVE  all[m].instance = i /\ all[m].id[1] = 0 /\ all[m].id[2] <= n
  <2>1. CASE \E j \in DOMAIN s : all[m] = s[j]
    BY <1>5, <1>7, <2>1
  <2>2. CASE \E j \in DOMAIN t : all[m] = t[j]
    BY <1>6, <2>2
  <2> QED
    BY <1>9, <2>1, <2>2 DEF all
<1> QED
  BY <1>9, <1>10, <1>11 DEF Owned, all

\* What the first n quanta own, one more owns.
LEMMA OwnedMore ==
  ASSUME NEW s, NEW i, NEW n \in Int, Owned(s, i, n - 1)
  PROVE  Owned(s, i, n)
<1>1. \A m \in DOMAIN s : s[m] \in Effect
  BY DEF Owned, IsEffects
<1>2. \A e \in Effect : e.id[2] \in Int
  BY DEF Effect, Key
<1>3. \A m \in DOMAIN s : s[m].id[2] <= n
  BY <1>1, <1>2 DEF Owned
<1> QED
  BY <1>3 DEF Owned

\* The effects of the transitions of a tick are told apart; an action that does not run has none.
LEMMA TransitionsOwned ==
  ASSUME NEW i \in Instances, setup \in Setups, state.clock[i] \in Clock,
         Running(i) => InPlace(state.clock[i], setup.life[i]),
         Running(i) => RegisterFollows(state.register[i], i, state.clock[i], setup),
         NEW x \in Transitions(i)
  PROVE  /\ IsEffects(x.effects) /\ \A m \in DOMAIN x.effects : x.effects[m].instance = i /\ x.effects[m].id[1] = 0
         /\ ~Running(i) => x.effects = << >>
<1> DEFINE a == state.clock[i]
           life == setup.life[i]
           fired == Firings(a, life)
           top == QuantaOf(a)
           base == [register |-> state.register[i], effects |-> << >>]
           d == DeclarationOf(i)
           run == AfterQuanta(a, life)
<1>1. life \in Lifecycles /\ a \in Clock /\ top \in Nat
  BY EncounterAssumption, Carrying
<1>2. PICK f : /\ Transiting(f, top, i, base, fired, run)
               /\ Transitions(i) = f[IF Running(i) /\ Accrual(i) = "NONE" THEN top ELSE 0]
  BY <1>1, TransitionsTransit
<1>3. f[0] = {base} /\ base.register = state.register[i] /\ base.effects = << >>
  BY <1>1, <1>2 DEF Transiting
<1>4. Owned(<< >>, i, 0)
  BY DEF Owned, IsEffects, Unlike
<1>5. CASE ~(Running(i) /\ Accrual(i) = "NONE")
  <2>1. x.effects = << >>
    BY <1>2, <1>3, <1>5
  <2> QED
    BY <1>4, <2>1 DEF Owned
<1>6. CASE Running(i) /\ Accrual(i) = "NONE"
  <2> DEFINE Good(k) == \A y \in f[k] :
                          /\ Owned(y.effects, i, k)
                          /\ \E sum : Follows(y.register, sum, d, Rising(i), Falling(i))
             good == {k \in 0 .. top : Good(k)}
  <2>1. 0 \in good
    <3>1. Follows(state.register[i], Register[i].initial + Fired(a, life) * Gain(i), d,
                  Rising(i), Falling(i))
      BY <1>6 DEF RegisterFollows, DeclarationOf
    <3> QED
      BY <1>1, <1>3, <1>4, <3>1
  <2>2. ASSUME NEW k \in 1 .. top, k - 1 \in good
        PROVE  k \in good
    <3>1. k \in 0 .. top /\ k # 0 /\ k \in Nat /\ k > 0
      BY <1>1
    <3>2. f[k] = IF k \notin fired THEN f[k - 1]
                 ELSE UNION {ApplyTransition(z, i, k, run[k]) : z \in f[k - 1]}
      BY <1>2, <3>1 DEF Transiting
    <3>3. run[k] \in Clock
      BY <1>1, <1>6, <3>1, QuantaReach DEF Reached, Running
    <3>4. Good(k - 1)
      BY <2>2
    <3>5. ASSUME NEW z \in f[k - 1]
          PROVE  Owned(z.effects, i, k)
      <4> DEFINE s == z.effects
      <4>1. Owned(s, i, k - 1)
        BY <3>4
      <4> HIDE DEF s
      <4> QED
        BY <3>1, <4>1, OwnedMore DEF s
    <3>6. ASSUME k \in fired, NEW y \in f[k]
          PROVE  /\ Owned(y.effects, i, k)
                 /\ \E sum : Follows(y.register, sum, d, Rising(i), Falling(i))
      <4>1. PICK z \in f[k - 1] : y \in ApplyTransition(z, i, k, run[k])
        BY <3>2, <3>6
      <4>2. PICK sum : Follows(z.register, sum, d, Rising(i), Falling(i))
        BY <3>4
      <4>3. Owned(z.effects, i, k - 1)
        BY <3>4
      <4>4. Owned(y.effects, i, k)
        BY <3>1, <3>3, <4>1, <4>2, <4>3, ApplyOwned
      <4>5. Follows(y.register, sum + Gain(i), d, Rising(i), Falling(i))
        BY <4>1, <4>2, ApplyFollows
      <4> QED
        BY <4>4, <4>5
    <3>7. Good(k)
      BY <3>2, <3>4, <3>5, <3>6
    <3> QED
      BY <3>1, <3>7
  <2> HIDE DEF good
  <2>3. top \in good
    BY <1>1, <2>1, <2>2, UpTo
  <2> QED
    BY <1>2, <1>6, <2>3 DEF good, Owned
<1> QED
  BY <1>5, <1>6

\* An action that does not run has nothing to fire.
LEMMA TransitionsThere ==
  ASSUME NEW i \in Instances, state.clock[i] \in Clock, ~Running(i)
  PROVE  Transitions(i) # {}
<1>1. QuantaOf(state.clock[i]) \in Nat
  BY Carrying
<1>2. PICK f : /\ Transiting(f, QuantaOf(state.clock[i]), i,
                            [register |-> state.register[i], effects |-> << >>],
                            Firings(state.clock[i], setup.life[i]),
                            AfterQuanta(state.clock[i], setup.life[i]))
               /\ Transitions(i) = f[0]
  BY <1>1, TransitionsTransit
<1>3. f[0] = {[register |-> state.register[i], effects |-> << >>]}
  BY <1>1, <1>2 DEF Transiting
<1> QED
  BY <1>2, <1>3

\* A running action is not faulted by its progression.
LEMMA ProgressLives ==
  ASSUME NEW i \in Instances, setup \in Setups, state.clock[i] \in Clock, Running(i),
         InPlace(state.clock[i], setup.life[i])
  PROVE  Progress(state.clock[i], setup.life[i], Accrual(i)).life # "FAULTED"
<1>1. setup.life[i] \in Lifecycles /\ state.clock[i].life = "RUNNING"
  BY EncounterAssumption DEF Running
<1>2. Accrual(i) \in {"NONE", "HOLD", "ACCRUE"}
  BY DEF Accrual, ProgressionAccrual
<1> QED
  BY <1>1, <1>2, Progressing

\* The effects of the first n instances of order.
Joining(f, n, order, done) ==
  f = [k \in 0 .. n |-> IF k = 0 THEN << >> ELSE f[k - 1] \o done[order[k]].effects]

\* Such a function exists.
LEMMA JoiningExists ==
  ASSUME NEW order, NEW done, NEW n \in Nat
  PROVE  \E f : Joining(f, n, order, done)
<1> DEFINE without == {k \in Nat : ~\E f : Joining(f, k, order, done)}
<1> SUFFICES ASSUME without # {} PROVE FALSE
  OBVIOUS
<1>1. PICK k \in without : \A j \in without : k <= j
  BY LeastNatural
<1>2. CASE k = 0
  <2> DEFINE f == [j \in 0 .. 0 |-> << >>]
  <2>1. Joining(f, 0, order, done)
    BY DEF Joining
  <2> QED
    BY <1>2, <2>1
<1>3. CASE k # 0
  <2>1. k - 1 \in Nat /\ k - 1 \notin without
    BY <1>1, <1>3
  <2>2. PICK g : Joining(g, k - 1, order, done)
    BY <2>1
  <2> DEFINE f == [j \in 0 .. k |-> IF j = k THEN g[k - 1] \o done[order[k]].effects ELSE g[j]]
  <2>3. ASSUME NEW j \in 0 .. k
        PROVE  f[j] = IF j = 0 THEN << >> ELSE f[j - 1] \o done[order[j]].effects
    <3>1. CASE j = k
      <4>1. k - 1 \in 0 .. k /\ k - 1 # k /\ k \in 0 .. k
        BY <1>3, <2>1
      <4>2. f[k - 1] = g[k - 1] /\ f[k] = g[k - 1] \o done[order[k]].effects
        BY <4>1
      <4> HIDE DEF f
      <4> QED
        BY <1>3, <3>1, <4>2
    <3>2. CASE j # k
      <4>1. j \in 0 .. k - 1 /\ (j # 0 => j - 1 \in 0 .. k - 1 /\ j - 1 # k)
        BY <1>3, <3>2
      <4>2. f[j] = g[j] /\ (j # 0 => f[j - 1] = g[j - 1])
        BY <3>2, <4>1
      <4>3. g[j] = IF j = 0 THEN << >> ELSE g[j - 1] \o done[order[j]].effects
        BY <2>2, <4>1 DEF Joining
      <4> HIDE DEF f
      <4> QED
        BY <4>2, <4>3
    <3> QED
      BY <3>1, <3>2
  <2>4. Joining(f, k, order, done)
    BY <2>3 DEF Joining
  <2> QED
    BY <2>4
<1> QED
  BY <1>2, <1>3


\* A list of S is as long as S.
LEMMA LenOfLists ==
  ASSUME NEW S, NEW order, Lists(order, S)
  PROVE  Len(order) = Cardinality(S) /\ Len(order) \in Nat
<1> DEFINE N == Cardinality(S)
<1>1. N \in Nat /\ DOMAIN order = 1 .. N
  BY DEF Lists
<1>3. \A n \in Nat : 1 .. n = 1 .. N => n = N
  BY <1>1
<1> HIDE DEF N
<1> QED
  BY <1>1 DEF N

\* The effects of the instances are told apart, each from the instance that it names.
LEMMA JointOwned ==
  ASSUME NEW done,
         \A i \in Instances :
           /\ IsEffects(done[i].effects)
           /\ \A m \in DOMAIN done[i].effects : done[i].effects[m].instance = i /\ done[i].effects[m].id[1] = 0
  PROVE  /\ IsEffects(Joint(done))
         /\ \A n \in DOMAIN Joint(done) :
              /\ Joint(done)[n].id[1] = 0 /\ Joint(done)[n].instance \in Instances
              /\ done[Joint(done)[n].instance].effects # << >>
<1> DEFINE order == Sorted(Instances, Place)
           top == Len(order)
           N == Cardinality(Instances)
           f == CHOOSE f : Joining(f, top, order, done)
<1>1. Lists(order, Instances)
  BY EffectAssumption, PlacesSorted
<1>2. top = N /\ top \in Nat
  BY <1>1, LenOfLists
<1>3. Joining(f, top, order, done) /\ Joint(done) = f[top]
  <2>1. Joining(f, top, order, done)
    BY <1>2, JoiningExists
  <2>2. Joint(done) = f[top]
    BY DEF Joint, Joining
  <2> QED
    BY <2>1, <2>2
<1> HIDE DEF f, order, top
<1> DEFINE Good(k) ==
             /\ IsEffects(f[k])
             /\ \A n \in DOMAIN f[k] : \E j \in 1 .. k :
                  f[k][n].id[1] = 0 /\ f[k][n].instance = order[j] /\ done[order[j]].effects # << >>
           good == {k \in 0 .. top : Good(k)}
<1>4. 0 \in good
  <2>1. f[0] = << >> /\ DOMAIN << >> = {} /\ IsEffects(<< >>)
    BY <1>2, <1>3 DEF Joining, IsEffects, Unlike
  <2> QED
    BY <1>2, <2>1
<1>5. ASSUME NEW k \in 1 .. top, k - 1 \in good
      PROVE  k \in good
  <2> DEFINE s == f[k - 1]
             t == done[order[k]].effects
             all == s \o t
  <2>1. k \in 0 .. top /\ k # 0 /\ order[k] \in Instances /\ k \in 1 .. k
        /\ \A j \in 1 .. k - 1 : j \in 1 .. k /\ j # k /\ j \in 1 .. top
    BY <1>1, <1>2 DEF Lists
  <2>2. f[k] = all
    BY <1>3, <2>1 DEF Joining
  <2>3. /\ IsEffects(s)
        /\ \A n \in DOMAIN s : \E j \in 1 .. k - 1 :
             s[n].id[1] = 0 /\ s[n].instance = order[j] /\ done[order[j]].effects # << >>
    BY <1>5
  <2>4. IsEffects(t) /\ \A n \in DOMAIN t : t[n].instance = order[k] /\ t[n].id[1] = 0
    BY <2>1
  <2>5. \A n \in DOMAIN t : t # << >>
    OBVIOUS
  <2> HIDE DEF s, Good
  <2>6. \A j \in 1 .. k - 1 : order[j] # order[k]
    BY <1>1, <1>2, <2>1 DEF Lists
  <2>7. t = done[order[k]].effects
    OBVIOUS
  <2> HIDE DEF t
  <2>8. \A m \in DOMAIN s, n \in DOMAIN t : s[m].instance # t[n].instance
    BY <2>3, <2>4, <2>6
  <2>9. /\ IsEffects(all)
        /\ \A n \in DOMAIN all : (\E m \in DOMAIN s : all[n] = s[m]) \/ (\E m \in DOMAIN t : all[n] = t[m])
    BY <2>3, <2>4, <2>8, EffectsJoined
  <2> HIDE DEF all
  <2>10. ASSUME NEW n \in DOMAIN all
         PROVE  \E j \in 1 .. k :
                  all[n].id[1] = 0 /\ all[n].instance = order[j] /\ done[order[j]].effects # << >>
    <3>1. CASE \E m \in DOMAIN s : all[n] = s[m]
      BY <2>1, <2>3, <3>1
    <3>2. CASE \E m \in DOMAIN t : all[n] = t[m]
      BY <2>1, <2>4, <2>5, <2>7, <3>2
    <3> QED
      BY <2>9, <3>1, <3>2
  <2>11. Good(k)
    BY <2>2, <2>9, <2>10 DEF Good
  <2> QED
    BY <2>1, <2>11
<1> HIDE DEF good
<1>6. top \in good
  BY <1>2, <1>4, <1>5, UpTo
<1> DEFINE all == Joint(done)
<1>7. /\ IsEffects(all)
      /\ \A n \in DOMAIN all : \E j \in 1 .. top :
           all[n].id[1] = 0 /\ all[n].instance = order[j] /\ done[order[j]].effects # << >>
  BY <1>3, <1>6 DEF good
<1> HIDE DEF all
<1>8. \A j \in 1 .. top : order[j] \in Instances
  BY <1>1, <1>2 DEF Lists
<1>9. ASSUME NEW n \in DOMAIN all
      PROVE  /\ all[n].id[1] = 0 /\ all[n].instance \in Instances
             /\ done[all[n].instance].effects # << >>
  BY <1>7, <1>8
<1> QED
  BY <1>7, <1>9 DEF all

-----------------------------------------------------------------------------
(* Types *)

\* Products of naturals grow with their factors.
LEMMA ProductGrows ==
  ASSUME NEW m \in Nat, NEW n \in Nat, m <= n, NEW p \in Nat
  PROVE  m * p \in Nat /\ n * p \in Nat /\ m * p <= n * p
<1> DEFINE d == n - m
<1>1. d \in Nat /\ n = m + d
  OBVIOUS
<1>2. d * p \in Nat /\ m * p \in Nat
  BY ONLY <1>1, m \in Nat, p \in Nat
<1>3. (m + d) * p = m * p + d * p
  BY ONLY <1>1, m \in Nat, p \in Nat
<1> HIDE DEF d
<1> QED
  BY <1>1, <1>2, <1>3

\* The predicates that hold at the depths up to n.
Deciding(f, n, i) == f = [k \in 0 .. n |-> Truths(i, k, f[k - 1])]

\* Such a function exists, to any depth.
LEMMA DecidingExists ==
  ASSUME NEW i, NEW n \in Nat
  PROVE  \E f : Deciding(f, n, i)
<1> DEFINE without == {k \in Nat : ~\E f : Deciding(f, k, i)}
<1> SUFFICES ASSUME without # {} PROVE FALSE
  OBVIOUS
<1>1. PICK k \in without : \A j \in without : k <= j
  BY LeastNatural
<1>2. ASSUME NEW before, NEW other PROVE Truths(i, 0, before) = Truths(i, 0, other)
  BY DEF Truths
<1>3. CASE k = 0
  <2> DEFINE f == [j \in 0 .. 0 |-> Truths(i, 0, {})]
  <2>1. ASSUME NEW j \in 0 .. 0 PROVE f[j] = Truths(i, j, f[j - 1])
    <3>1. j = 0 /\ f[0] = Truths(i, 0, {})
      OBVIOUS
    <3> HIDE DEF f
    <3> QED
      BY <1>2, <3>1
  <2>2. Deciding(f, 0, i)
    BY <2>1 DEF Deciding
  <2> QED
    BY <1>3, <2>2
<1>4. CASE k # 0
  <2>1. k - 1 \in Nat /\ k - 1 \notin without
    BY <1>1, <1>4
  <2>2. PICK g : Deciding(g, k - 1, i)
    BY <2>1
  <2> DEFINE f == [j \in 0 .. k |-> IF j = k THEN Truths(i, k, g[k - 1]) ELSE g[j]]
  <2>3. ASSUME NEW j \in 0 .. k
        PROVE  f[j] = Truths(i, j, f[j - 1])
    <3>1. CASE j = k
      <4>1. k - 1 \in 0 .. k /\ k - 1 # k /\ k \in 0 .. k
        BY <1>4, <2>1
      <4>2. f[k - 1] = g[k - 1] /\ f[k] = Truths(i, k, g[k - 1])
        BY <4>1
      <4> HIDE DEF f
      <4> QED
        BY <3>1, <4>2
    <3>2. CASE j # k
      <4>1. j \in 0 .. k - 1 /\ (j # 0 => j - 1 \in 0 .. k - 1 /\ j - 1 # k)
        BY <1>4, <3>2
      <4>2. f[j] = g[j] /\ (j # 0 => f[j - 1] = g[j - 1])
        BY <3>2, <4>1
      <4>3. g[j] = Truths(i, j, g[j - 1])
        BY <2>2, <4>1 DEF Deciding
      <4> HIDE DEF f
      <4> QED
        BY <1>2, <4>2, <4>3
    <3> QED
      BY <3>1, <3>2
  <2>4. Deciding(f, k, i)
    BY <2>3 DEF Deciding
  <2> QED
    BY <2>4
<1> QED
  BY <1>3, <1>4

\* What holds of an instance are predicates of its definition.
LEMMA PredicatesNamed ==
  ASSUME NEW i \in Instances
  PROVE  PredicateValues(i) \subseteq PredicateIds
<1> DEFINE n == Cardinality(Predicates[i])
           f == CHOOSE f : Deciding(f, n, i)
<1>1. n \in Nat
  BY HostAssumption, FS_CardinalityType
<1>2. Deciding(f, n, i)
  BY <1>1, DecidingExists
<1>3. PredicateValues(i) = f[n]
  BY DEF PredicateValues, Deciding
<1> HIDE DEF n, f
<1>4. PredicateValues(i) = Truths(i, n, f[n - 1])
  BY <1>1, <1>2, <1>3 DEF Deciding
<1>5. \A before : Truths(i, n, before) \subseteq {p.id : p \in Predicates[i]}
  BY DEF Truths
<1> QED
  BY <1>4, <1>5 DEF PredicateIds

\* Tokens of instances.
Tokens == FreezeToken(Instances, FreezeDomains)

\* A granted token has its type.
LEMMA GrantedTyped ==
  ASSUME NEW kind \in TokenKinds, NEW id \in Nat, NEW now \in Nat
  PROVE  Created(id, now, kind) \in Tokens
<1>1. /\ kind.target \in Instances /\ kind.duration \in Nat \ {0}
      /\ kind.domains \in (SUBSET FreezeDomains) \ {{}}
      /\ kind.accrual \in {"HOLD", "ACCRUE"} /\ kind.group \in STRING /\ kind.policy \in StackPolicies
  BY HostAssumption
<1> QED
  BY <1>1 DEF Created, FreezeToken, Tokens

\* A token that joins the others keeps them finitely many, and typed.
LEMMA AddedTyped ==
  ASSUME NEW T \in SUBSET Tokens, IsFiniteSet(T), NEW new \in Tokens
  PROVE  AddToken(T, new) \in SUBSET Tokens /\ IsFiniteSet(AddToken(T, new))
<1> DEFINE G == GroupOf(T, new)
           now == new.act - 1
           ends == {ExpirationExclusive(t, now) : t \in G}
           all == {new.act} \union ends
<1>1. new.act \in Nat /\ now \in Int /\ G \in SUBSET T /\ IsFiniteSet(G)
  BY FS_Subset DEF Tokens, FreezeToken, GroupOf
<1>2. ASSUME NEW t \in G PROVE ExpirationExclusive(t, now) \in Int
  <2>1. t.act \in Nat /\ t.rem \in Nat
    BY <1>1 DEF Tokens, FreezeToken
  <2> HIDE DEF now
  <2> QED
    BY <1>1, <2>1 DEF ExpirationExclusive
<1>3. IsFiniteSet(ends)
  <2> DEFINE f == [t \in G |-> ExpirationExclusive(t, now)]
  <2>1. f \in [G -> ends] /\ \A e \in ends : \E t \in G : f[t] = e
    OBVIOUS
  <2> HIDE DEF f, ends, G
  <2>2. f \in Surjection(G, ends)
    BY <2>1 DEF Surjection
  <2> QED
    BY <1>1, <2>2, FS_Surjection
<1>4. all \in SUBSET Int /\ IsFiniteSet(all) /\ new.act \in all
  <2>1. ends \in SUBSET Int
    BY <1>2
  <2> HIDE DEF ends
  <2>2. IsFiniteSet({new.act}) /\ IsFiniteSet({new.act} \union ends)
    BY <1>3, FS_Singleton, FS_Union
  <2> QED
    BY <1>1, <2>1, <2>2
<1> HIDE DEF all
<1>5. PICK act \in all : \A y \in all : act >= y
  BY <1>4, Extremes
<1>6. Ext!Max(all) \in all /\ Ext!Max(all) >= new.act
  BY <1>4, <1>5 DEF Ext!Max
<1>7. Ext!Max(all) \in Nat
  <2> DEFINE m == Ext!Max(all)
  <2>1. m \in Int /\ m >= new.act
    BY <1>4, <1>6
  <2> HIDE DEF m, now, G, ends
  <2>2. m \in Nat
    BY <1>1, <2>1
  <2> QED
    BY <2>2 DEF m
<1>8. Queued(T, new) \in Tokens
  <2>1. CASE new.policy # "SUM_DURATION"
    BY <2>1 DEF Queued
  <2>2. CASE new.policy = "SUM_DURATION"
    <3> DEFINE m == Ext!Max(all)
    <3>1. Queued(T, new) = [new EXCEPT !.act = m]
      BY <2>2 DEF Queued, all
    <3> HIDE DEF m
    <3>2. m \in Nat
      BY <1>7 DEF m
    <3> QED
      BY <3>1, <3>2 DEF Tokens, FreezeToken
  <2> QED
    BY <2>1, <2>2
<1>9. IsFiniteSet(T \ G) /\ \A x : IsFiniteSet(T \union {x}) /\ IsFiniteSet((T \ G) \union {x})
  <2>1. IsFiniteSet(T \ G)
    BY FS_Subset
  <2> QED
    BY <2>1, FS_AddElement
<1>10. AddToken(T, new) \in {T, (T \ G) \union {new}, T \union {Queued(T, new)}}
  BY DEF AddToken
<1> HIDE DEF G
<1> QED
  BY <1>8, <1>9, <1>10

\* The end of a tick keeps the tokens that are left finitely many, and typed.
LEMMA ExpiredTyped ==
  ASSUME NEW T \in SUBSET Tokens, IsFiniteSet(T), NEW n \in Nat
  PROVE  ExpireTokens(T, n) \in SUBSET Tokens /\ IsFiniteSet(ExpireTokens(T, n))
<1> DEFINE late == {t \in T : t.act > n}
           used == {u \in T : u.act <= n /\ u.rem > 1}
           left == {[t EXCEPT !.rem = @ - 1] : t \in used}
<1>1. ExpireTokens(T, n) = late \union left
  BY DEF ExpireTokens
<1>2. IsFiniteSet(late) /\ IsFiniteSet(used) /\ late \in SUBSET Tokens
  BY FS_Subset
<1>3. ASSUME NEW t \in used PROVE [t EXCEPT !.rem = @ - 1] \in Tokens
  <2> DEFINE r == t.rem - 1
  <2>1. t \in Tokens /\ t.rem \in Nat \ {0} /\ t.rem > 1
    BY DEF Tokens, FreezeToken
  <2>2. r \in Nat \ {0}
    BY <2>1
  <2>3. [t EXCEPT !.rem = @ - 1] = [t EXCEPT !.rem = r]
    OBVIOUS
  <2> HIDE DEF r
  <2> QED
    BY <2>1, <2>2, <2>3 DEF Tokens, FreezeToken
<1>4. left \in SUBSET Tokens
  BY <1>3
<1>5. IsFiniteSet(left)
  <2> DEFINE f == [t \in used |-> [t EXCEPT !.rem = @ - 1]]
  <2>1. f \in [used -> left] /\ \A u \in left : \E t \in used : f[t] = u
    OBVIOUS
  <2> HIDE DEF f, left, used
  <2>2. f \in Surjection(used, left)
    BY <2>1 DEF Surjection
  <2> QED
    BY <1>2, <2>2, FS_Surjection
<1> HIDE DEF late, left
<1> QED
  BY <1>1, <1>2, <1>4, <1>5, FS_Union

\* Entities and their resources, within I64 unless a contact may add without a check.
BankTyped(bank, u) ==
  \A e \in DOMAIN bank :
    /\ e \in Entities
    /\ bank[e] \in I64 \/ \E c \in Contacts : c.id \in u.contacts /\ c.effect = "RESOURCE_DELTA"

\* The contacts without a binding keep banks typed.
LEMMA LegacyTyped ==
  ASSUME NEW u, round.legacy \subseteq {c \in Contacts : c.id \in u.contacts},
         BankTyped(state.bank, u), \A e \in DOMAIN state.bank : state.bank[e] \in Int
  PROVE  BankTyped(LegacyBank, u)
<1> DEFINE deltas == {c \in round.legacy : c.effect = "RESOURCE_DELTA"}
           Amount(e) == SumOf([c \in deltas |-> c.amount], {c \in deltas : c.target = e})
           b == LegacyBank
<1>1. b = [e \in DOMAIN state.bank \union {c.target : c \in deltas} |->
             Held(state.bank, e) + Amount(e)]
  BY DEF LegacyBank
<1>2. \A c \in round.legacy : c.target \in Entities
  BY ContactTyped
<1>3. \A e \in DOMAIN b : e \in Entities
  BY <1>1, <1>2 DEF BankTyped
<1>4. CASE deltas # {}
  BY <1>3, <1>4 DEF BankTyped
<1>5. CASE deltas = {}
  <2> DEFINE w == [c \in deltas |-> c.amount]
  <2>1. \A e : {c \in deltas : c.target = e} = {}
    BY <1>5
  <2> HIDE DEF deltas
  <2>2. SumOf(w, {}) = 0
    BY FS_EmptySet, SumFacts
  <2>3. \A e : Amount(e) = 0
    BY <2>1, <2>2
  <2> HIDE DEF Amount
  <2>4. DOMAIN b = DOMAIN state.bank /\ \A e \in DOMAIN b : b[e] = state.bank[e] + 0
    BY <1>1, <1>5, <2>3 DEF Held
  <2>5. \A e \in DOMAIN b : b[e] = state.bank[e]
    BY <2>4
  <2> HIDE DEF b
  <2>6. BankTyped(b, u)
    BY <2>4, <2>5 DEF BankTyped
  <2> QED
    BY <2>6 DEF b
<1> QED
  BY <1>4, <1>5

\* A group that is settled keeps the bank typed.
LEMMA SettleTyped ==
  ASSUME NEW u, NEW g, g[1] \in Entities, NEW x, DOMAIN x = {"bank", "failed"},
         BankTyped(x.bank, u), NEW y, y = Settle(x, g)
  PROVE  DOMAIN y = {"bank", "failed"} /\ BankTyped(y.bank, u)
<1>1. CASE x.failed # {}
  BY <1>1 DEF Settle
<1>2. CASE x.failed = {} /\ Applied(x.bank, g) = {}
  <2>1. y = [x EXCEPT !.failed = {g}]
    BY <1>2 DEF Settle
  <2> QED
    BY <2>1
<1>3. CASE x.failed = {} /\ Applied(x.bank, g) # {}
  <2> DEFINE b == CHOOSE z \in Applied(x.bank, g) : TRUE
  <2>1. b \in Applied(x.bank, g)
    BY <1>3
  <2>2. y = [x EXCEPT !.bank = b]
    BY <1>3 DEF Settle
  <2> HIDE DEF b
  <2>3. DOMAIN y = {"bank", "failed"} /\ y.bank = b
    BY <2>2
  <2>4. PICK n \in I64 :
          b = [e \in DOMAIN x.bank \union {g[1]} |-> IF e = g[1] THEN n ELSE x.bank[e]]
    BY <2>1 DEF Applied, AddI64
  <2>5. BankTyped(b, u)
    BY <2>4 DEF BankTyped
  <2> QED
    BY <2>3, <2>5
<1> QED
  BY <1>1, <1>2, <1>3

\* A settled tick keeps banks typed.
LEMMA SettledTyped ==
  ASSUME NEW u, IsEffects(round.typed), BankTyped(LegacyBank, u)
  PROVE  BankTyped(Settled.bank, u)
<1> DEFINE G == Groups(Authoritative)
           order == Sorted(G, GroupKey)
           top == Len(order)
           f == CHOOSE f : Banking(f, top, order)
<1>1. IsFiniteSet(G) /\ G \in SUBSET (Int \X Int) /\ G \in SUBSET (Entities \X Int)
  BY GroupMembers
<1>2. Lists(order, G)
  <2> HIDE DEF G
  <2>1. order = Sorted(G, GroupKey)
    OBVIOUS
  <2> HIDE DEF order
  <2> QED
    BY <1>1, <2>1, GroupsSorted
<1>3. top = Cardinality(G) /\ top \in Nat
  <2> HIDE DEF order, G
  <2> QED
    BY <1>2, LenOfLists
<1>4. Banking(f, top, order)
  <2>1. \E h : Banking(h, top, order)
    BY <1>3, BankingExists
  <2> HIDE DEF top, order
  <2> QED
    BY <2>1
<1>5. Settled = CHOOSE z \in f[top] : TRUE
  BY DEF Settled, Banking
<1> HIDE DEF f, order, top, G
<1> DEFINE Good(k) == f[k] # {} /\ \A x \in f[k] : DOMAIN x = {"bank", "failed"} /\ BankTyped(x.bank, u)
           good == {k \in 0 .. top : Good(k)}
<1>6. 0 \in good
  <2> DEFINE x == [bank |-> LegacyBank, failed |-> {}]
  <2>1. f[0] = {x} /\ 0 \in 0 .. top
    BY <1>3, <1>4 DEF Banking
  <2>2. DOMAIN x = {"bank", "failed"} /\ x.bank = LegacyBank
    OBVIOUS
  <2> HIDE DEF x
  <2> QED
    BY <2>1, <2>2
<1>7. ASSUME NEW k \in 1 .. top, k - 1 \in good
      PROVE  k \in good
  <2>1. k \in 0 .. top /\ k # 0
    BY <1>3
  <2>2. f[k] = {Settle(x, order[k]) : x \in f[k - 1]}
    BY <1>4, <2>1 DEF Banking
  <2>3. order[k] \in G
    BY <1>2, <1>3 DEF Lists
  <2>4. order[k][1] \in Entities
    BY <1>1, <2>3
  <2>5. ASSUME NEW y \in f[k] PROVE DOMAIN y = {"bank", "failed"} /\ BankTyped(y.bank, u)
    <3>1. PICK x \in f[k - 1] : y = Settle(x, order[k])
      BY <2>2
    <3>2. DOMAIN x = {"bank", "failed"} /\ BankTyped(x.bank, u)
      BY <1>7
    <3> QED
      BY <2>4, <3>1, <3>2, SettleTyped
  <2>6. f[k] # {}
    BY <1>7, <2>2
  <2> QED
    BY <2>1, <2>5, <2>6
<1>8. top \in good
  <2> HIDE DEF good
  <2> QED
    BY <1>3, <1>6, <1>7, UpTo
<1>9. Settled \in f[top]
  BY <1>5, <1>8
<1> QED
  BY <1>8, <1>9
=============================================================================
