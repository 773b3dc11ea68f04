------------------------- MODULE TickHistory_proofs -------------------------
(***************************************************************************)
(* Proofs about what one tick, committed, contained or aborted, makes of   *)
(* the state that the one before it returned, for every forest of actions, *)
(* every set of transitions and definitions and every fault policy.        *)
(*                                                                         *)
(* The host sees only the states between ticks, and a tick is many steps:  *)
(* the invariant is a relation, Later, between the tick-start state and    *)
(* the working copy.  Every operator that a stage applies is a step of it, *)
(* and it is reflexive and transitive.                                     *)
(***************************************************************************)
EXTENDS TickExecutor_proofs

\* The children of p that p had in o met their policies when p ended.
KidsMet(o, n, p) ==
  \A c \in o.acts[p].kids :
    LET policy == TermPolicy[o.acts[c].slot] IN
    /\ policy = "TERMINATE_CHILD" => Terminal(n.acts[c])
    /\ policy = "DETACH_CHILD" => Terminal(n.acts[c]) \/ n.acts[c].parent = NoParent
    /\ policy # "FAULT_IF_OCCUPIED"

\* The children that p had in o are still its children.
KidsKept(o, n, p) ==
  \A c \in o.acts[p].kids : c \in n.acts[p].kids /\ n.acts[c].slot = o.acts[c].slot

\* n comes from o by operations of the stages of one tick.
Later(o, n) ==
  /\ DOMAIN o.acts \subseteq DOMAIN n.acts
  /\ \A i \in DOMAIN o.acts :
       /\ n.acts[i].owner = o.acts[i].owner
       /\ n.acts[i].claim = o.acts[i].claim
       /\ n.acts[i].told = o.acts[i].told
       /\ n.acts[i].parent \in {o.acts[i].parent, NoParent}
       /\ Terminal(o.acts[i]) => Terminal(n.acts[i])
       /\ ~Terminal(n.acts[i]) => KidsKept(o, n, i)
       /\ ~Terminal(o.acts[i]) /\ Terminal(n.acts[i]) => KidsMet(o, n, i)
  /\ \A i \in DOMAIN n.acts \ DOMAIN o.acts :
       /\ ~n.acts[i].told
       /\ n.acts[i].parent \in DOMAIN o.acts => ~Terminal(o.acts[n.acts[i].parent])
  /\ \A t \in o.tokens : t \in n.tokens \/ Terminal(n.acts[t.tgt])

\* An action that was over in o has kept its outcome in n, unless it had faulted unheard and its
\* parent is over too.
OutcomesKept(o, n) ==
  \A i \in DOMAIN o.acts :
    LET a == o.acts[i]
    IN  Terminal(a) /\ n.acts[i].life # a.life =>
          /\ a.life = "FAULTED" /\ ~a.told
          /\ a.parent # NoParent /\ a.parent \in DOMAIN o.acts /\ Terminal(n.acts[a.parent])

\* Links and freezes name instances of the state.
Closed(s) ==
  /\ \A i \in DOMAIN s.acts : i # NoParent /\ \A c \in s.acts[i].kids : c \in DOMAIN s.acts
  /\ \A t \in s.tokens : t.tgt \in DOMAIN s.acts

-----------------------------------------------------------------------------
(* Later is a preorder *)

\* The links and freezes of a coherent state name its own instances.
LEMMA CoherentClosed ==
  ASSUME NEW s \in SimState, NEW U, CoherentBut(s, U)
  PROVE  Closed(s)
BY ActsFacts DEF CoherentBut, LinksBut, FreezesAgree, Closed

\* An operation that leaves the links, lives and freezes alone is a step of Later.
LEMMA LaterSame ==
  ASSUME NEW o, NEW n, DOMAIN n.acts = DOMAIN o.acts, n.tokens = o.tokens,
         \A i \in DOMAIN o.acts :
           /\ n.acts[i].owner = o.acts[i].owner
           /\ n.acts[i].claim = o.acts[i].claim
           /\ n.acts[i].told = o.acts[i].told
           /\ n.acts[i].parent = o.acts[i].parent
           /\ n.acts[i].slot = o.acts[i].slot
           /\ n.acts[i].kids = o.acts[i].kids
           /\ Terminal(n.acts[i]) = Terminal(o.acts[i]),
         Closed(o)
  PROVE  Later(o, n)
BY DEF Later, KidsKept, Closed

\* Later is reflexive.
LEMMA LaterRefl ==
  ASSUME NEW o, Closed(o) PROVE Later(o, o)
BY LaterSame

\* Later is transitive.
LEMMA LaterTrans ==
  ASSUME NEW o, NEW m, NEW n, Closed(o), Closed(m), Later(o, m), Later(m, n)
  PROVE  Later(o, n)
<1>1. /\ DOMAIN o.acts \subseteq DOMAIN m.acts /\ DOMAIN m.acts \subseteq DOMAIN n.acts
      /\ NoParent \notin DOMAIN o.acts /\ NoParent \notin DOMAIN m.acts
  BY DEF Later, Closed
<1>2. \A i \in DOMAIN o.acts : \A c \in o.acts[i].kids : c \in DOMAIN o.acts
  BY DEF Closed
<1>3. ASSUME NEW i \in DOMAIN o.acts
      PROVE  /\ n.acts[i].owner = o.acts[i].owner
             /\ n.acts[i].claim = o.acts[i].claim
             /\ n.acts[i].told = o.acts[i].told
             /\ n.acts[i].parent \in {o.acts[i].parent, NoParent}
             /\ Terminal(o.acts[i]) => Terminal(n.acts[i])
             /\ Terminal(m.acts[i]) => Terminal(n.acts[i])
             /\ m.acts[i].parent = NoParent => n.acts[i].parent = NoParent
  BY <1>1 DEF Later
<1>4. ASSUME NEW i \in DOMAIN o.acts, ~Terminal(n.acts[i]) PROVE KidsKept(o, n, i)
  <2>1. ~Terminal(m.acts[i])
    BY <1>3, <1>4
  <2>2. KidsKept(o, m, i) /\ KidsKept(m, n, i)
    BY <1>1, <1>4, <2>1 DEF Later
  <2> QED
    BY <2>2 DEF KidsKept
<1>5. ASSUME NEW i \in DOMAIN o.acts, ~Terminal(o.acts[i]), Terminal(n.acts[i])
      PROVE  KidsMet(o, n, i)
  <2>1. CASE Terminal(m.acts[i])
    <3>1. KidsMet(o, m, i)
      BY <1>5, <2>1 DEF Later
    <3> QED
      BY <1>2, <1>3, <3>1 DEF KidsMet
  <2>2. CASE ~Terminal(m.acts[i])
    <3>1. KidsKept(o, m, i) /\ KidsMet(m, n, i)
      BY <1>1, <1>5, <2>2 DEF Later
    <3> QED
      BY <3>1 DEF KidsKept, KidsMet
  <2> QED
    BY <2>1, <2>2
<1>6. ASSUME NEW i \in DOMAIN n.acts \ DOMAIN o.acts
      PROVE  /\ ~n.acts[i].told
             /\ n.acts[i].parent \in DOMAIN o.acts => ~Terminal(o.acts[n.acts[i].parent])
  <2>1. CASE i \in DOMAIN m.acts
    <3>1. /\ ~m.acts[i].told /\ n.acts[i].told = m.acts[i].told
          /\ m.acts[i].parent \in DOMAIN o.acts => ~Terminal(o.acts[m.acts[i].parent])
          /\ n.acts[i].parent \in {m.acts[i].parent, NoParent}
      BY <2>1, <1>6 DEF Later
    <3> QED
      BY <1>1, <3>1
  <2>2. CASE i \notin DOMAIN m.acts
    <3>1. /\ ~n.acts[i].told
          /\ n.acts[i].parent \in DOMAIN m.acts => ~Terminal(m.acts[n.acts[i].parent])
      BY <2>2, <1>6 DEF Later
    <3>2. \A p \in DOMAIN o.acts : Terminal(o.acts[p]) => Terminal(m.acts[p])
      BY DEF Later
    <3> QED
      BY <1>1, <3>1, <3>2
  <2> QED
    BY <2>1, <2>2
<1>7. ASSUME NEW t \in o.tokens PROVE t \in n.tokens \/ Terminal(n.acts[t.tgt])
  <2>1. t.tgt \in DOMAIN o.acts
    BY DEF Closed
  <2>2. t \in m.tokens \/ Terminal(m.acts[t.tgt])
    BY DEF Later
  <2> QED
    BY <1>3, <2>1, <2>2 DEF Later
<1> QED
  BY <1>1, <1>3, <1>4, <1>5, <1>6, <1>7 DEF Later

\* An operation that changes no life keeps the outcomes.
LEMMA OutcomesSame ==
  ASSUME NEW o, NEW n, \A i \in DOMAIN o.acts : n.acts[i].life = o.acts[i].life
  PROVE  OutcomesKept(o, n)
BY DEF OutcomesKept

\* An operation that changes no instance of m keeps what m kept.
LEMMA OutcomesUntouched ==
  ASSUME NEW o, NEW m, NEW n, OutcomesKept(o, m), DOMAIN o.acts \subseteq DOMAIN m.acts,
         \A i \in DOMAIN m.acts : n.acts[i] = m.acts[i]
  PROVE  OutcomesKept(o, n)
<1> SUFFICES ASSUME NEW i \in DOMAIN o.acts, Terminal(o.acts[i]),
                    n.acts[i].life # o.acts[i].life
             PROVE  LET a == o.acts[i]
                    IN  /\ a.life = "FAULTED" /\ ~a.told
                        /\ a.parent # NoParent /\ a.parent \in DOMAIN o.acts
                        /\ Terminal(n.acts[a.parent])
  BY DEF OutcomesKept
<1>1. n.acts[i] = m.acts[i]
  OBVIOUS
<1>2. /\ o.acts[i].life = "FAULTED" /\ ~o.acts[i].told /\ o.acts[i].parent # NoParent
      /\ o.acts[i].parent \in DOMAIN o.acts /\ Terminal(m.acts[o.acts[i].parent])
  BY <1>1 DEF OutcomesKept
<1>3. n.acts[o.acts[i].parent] = m.acts[o.acts[i].parent]
  BY <1>2
<1> QED
  BY <1>2, <1>3

\* Outcomes are kept through a chain of operations.
LEMMA OutcomesTrans ==
  ASSUME NEW o, NEW m, NEW n, Later(o, m), Later(m, n), OutcomesKept(o, m), OutcomesKept(m, n),
         \A i \in DOMAIN o.acts : o.acts[i].parent \in DOMAIN o.acts \union {NoParent}
  PROVE  OutcomesKept(o, n)
<1> SUFFICES ASSUME NEW i \in DOMAIN o.acts, Terminal(o.acts[i]),
                    n.acts[i].life # o.acts[i].life
             PROVE  LET a == o.acts[i]
                    IN  /\ a.life = "FAULTED" /\ ~a.told
                        /\ a.parent # NoParent /\ a.parent \in DOMAIN o.acts
                        /\ Terminal(n.acts[a.parent])
  BY DEF OutcomesKept
<1>1. /\ i \in DOMAIN m.acts /\ m.acts[i].told = o.acts[i].told
      /\ m.acts[i].parent \in {o.acts[i].parent, NoParent}
      /\ DOMAIN o.acts \subseteq DOMAIN m.acts
  BY DEF Later
<1>2. CASE m.acts[i].life = o.acts[i].life
  <2>1. /\ m.acts[i].life = "FAULTED" /\ ~m.acts[i].told /\ m.acts[i].parent # NoParent
        /\ Terminal(n.acts[m.acts[i].parent])
    BY <1>1, <1>2 DEF OutcomesKept, Terminal
  <2>2. m.acts[i].parent = o.acts[i].parent
    BY <1>1, <2>1
  <2>3. o.acts[i].parent \in DOMAIN o.acts
    BY <2>1, <2>2
  <2> QED
    BY <1>1, <1>2, <2>1, <2>2, <2>3
<1>3. CASE m.acts[i].life # o.acts[i].life
  <2>1. /\ o.acts[i].life = "FAULTED" /\ ~o.acts[i].told /\ o.acts[i].parent # NoParent
        /\ o.acts[i].parent \in DOMAIN o.acts /\ Terminal(m.acts[o.acts[i].parent])
    BY <1>3 DEF OutcomesKept
  <2>2. Terminal(n.acts[o.acts[i].parent])
    BY <1>1, <2>1 DEF Later
  <2> QED
    BY <2>1, <2>2
<1> QED
  BY <1>2, <1>3

-----------------------------------------------------------------------------
(* The operators of the stages are steps of Later *)

\* Ending an action that can be ended.
LEMMA EndActionLater ==
  ASSUME NEW s \in SimState, NEW U, CoherentBut(s, U), NEW i \in DOMAIN s.acts,
         NEW life \in {"TERMINATED", "FAULTED"}, ~CannotEnd(s, i)
  PROVE  Later(s, EndAction(s, i, life))
<1> DEFINE D == Doomed(s, i)
           X == KidsUnder(s, D, "DETACH_CHILD")
           n == EndAction(s, i, life)
<1>1. /\ DOMAIN n.acts = DOMAIN s.acts
      /\ n.tokens = {t \in s.tokens : t.tgt \notin D}
      /\ \A j \in DOMAIN s.acts :
           /\ n.acts[j].owner = s.acts[j].owner
           /\ n.acts[j].told = s.acts[j].told
           /\ n.acts[j].claim = s.acts[j].claim
           /\ j \in D => /\ n.acts[j].life = IF j = i THEN life ELSE "TERMINATED"
                         /\ n.acts[j].kids = s.acts[j].kids \ X
                         /\ n.acts[j].parent = s.acts[j].parent
                         /\ n.acts[j].slot = s.acts[j].slot
           /\ j \notin D => /\ n.acts[j].life = s.acts[j].life
                            /\ n.acts[j].kids = s.acts[j].kids
                            /\ j \notin X => n.acts[j] = s.acts[j]
                            /\ j \in X => n.acts[j].parent = NoParent
  BY EndActionActs DEF Lives
<1>2. Closed(s) /\ \A j \in DOMAIN s.acts : \A c \in s.acts[j].kids : s.acts[c].parent = j
  BY CoherentClosed DEF CoherentBut, LinksBut
<1>3. D \subseteq DOMAIN s.acts /\ KidsUnder(s, D, "TERMINATE_CHILD") \subseteq D
  BY DoomedFacts
<1>4. KidsUnder(s, D, "FAULT_IF_OCCUPIED") = {}
  BY DEF CannotEnd
<1> HIDE DEF D, n
<1>5. \A j \in DOMAIN s.acts : j \in D => Terminal(n.acts[j])
  BY <1>1 DEF Terminal
<1>6. \A j \in DOMAIN s.acts : j \notin D => Terminal(n.acts[j]) = Terminal(s.acts[j])
  BY <1>1 DEF Terminal
<1>7. ASSUME NEW p \in DOMAIN s.acts, ~Terminal(n.acts[p]) PROVE KidsKept(s, n, p)
  <2>1. p \notin D
    BY <1>5, <1>7
  <2>2. ASSUME NEW c \in s.acts[p].kids PROVE c \in n.acts[p].kids /\ n.acts[c].slot = s.acts[c].slot
    <3>1. c \in DOMAIN s.acts
      BY <1>2 DEF Closed
    <3>2. \A q \in D : c \notin s.acts[q].kids
      BY <1>2, <1>3, <2>1
    <3>3. c \notin X
      BY <3>2 DEF KidsUnder
    <3> HIDE DEF X
    <3> QED
      BY <1>1, <2>1, <3>1, <3>3
  <2> QED
    BY <2>2 DEF KidsKept
<1>8. ASSUME NEW p \in DOMAIN s.acts, ~Terminal(s.acts[p]), Terminal(n.acts[p])
      PROVE  KidsMet(s, n, p)
  <2>1. p \in D
    BY <1>6, <1>8
  <2>2. ASSUME NEW c \in s.acts[p].kids
        PROVE  /\ TermPolicy[s.acts[c].slot] = "TERMINATE_CHILD" => Terminal(n.acts[c])
               /\ TermPolicy[s.acts[c].slot] = "DETACH_CHILD" =>
                    Terminal(n.acts[c]) \/ n.acts[c].parent = NoParent
               /\ TermPolicy[s.acts[c].slot] # "FAULT_IF_OCCUPIED"
    <3>1. c \in DOMAIN s.acts
      BY <1>2 DEF Closed
    <3>2. TermPolicy[s.acts[c].slot] = "TERMINATE_CHILD" => c \in D
      BY <1>3, <2>1, <3>1 DEF KidsUnder
    <3>3. TermPolicy[s.acts[c].slot] = "DETACH_CHILD" => c \in X
      BY <2>1, <3>1 DEF KidsUnder
    <3>4. TermPolicy[s.acts[c].slot] # "FAULT_IF_OCCUPIED"
      BY <1>4, <2>1, <3>1 DEF KidsUnder
    <3> HIDE DEF X
    <3> QED
      BY <1>1, <1>5, <3>1, <3>2, <3>3, <3>4
  <2> QED
    BY <2>2 DEF KidsMet
<1>9. ASSUME NEW t \in s.tokens PROVE t \in n.tokens \/ Terminal(n.acts[t.tgt])
  BY <1>1, <1>2, <1>5 DEF Closed
<1>10. \A j \in DOMAIN s.acts :
         /\ n.acts[j].parent \in {s.acts[j].parent, NoParent}
         /\ Terminal(s.acts[j]) => Terminal(n.acts[j])
  <2> HIDE DEF X
  <2> QED
    BY <1>1, <1>5, <1>6
<1>11. Later(s, n)
  BY <1>1, <1>7, <1>8, <1>9, <1>10 DEF Later
<1> QED
  BY <1>11 DEF n

\* Who ends because of another one is a child of one that ends, and has not reported.
LEMMA DoomedIsKid ==
  ASSUME NEW s \in SimState, NEW i \in DOMAIN s.acts, NEW j \in Doomed(s, i), j # i
  PROVE  \E q \in Doomed(s, i) : j \in s.acts[q].kids
<1> DEFINE D == Doomed(s, i)
           E == D \ {j}
<1>1. /\ i \in D /\ D \subseteq DOMAIN s.acts
      /\ KidsUnder(s, D, "TERMINATE_CHILD") \subseteq D
      /\ \A S \in SUBSET (DOMAIN s.acts) :
           i \in S /\ KidsUnder(s, S, "TERMINATE_CHILD") \subseteq S => D \subseteq S
  BY DoomedFacts
<1> SUFFICES ASSUME \A q \in D : j \notin s.acts[q].kids PROVE FALSE
  OBVIOUS
<1> HIDE DEF D
<1>2. i \in E /\ E \in SUBSET (DOMAIN s.acts) /\ ~(D \subseteq E)
  <2>1. j \in D
    BY DEF D
  <2> QED
    BY <1>1, <2>1
<1>3. KidsUnder(s, E, "TERMINATE_CHILD") \subseteq E
  BY <1>1 DEF KidsUnder
<1> QED
  BY <1>1, <1>2, <1>3

\* Ending an action that is not over ends nobody a second time, but for children of actions
\* that end with it which have not reported.
LEMMA EndActionKeeps ==
  ASSUME NEW s \in SimState, NEW U, LinksBut(s, U), NEW i \in DOMAIN s.acts,
         ~Terminal(s.acts[i]), NEW life \in {"TERMINATED", "FAULTED"}
  PROVE  OutcomesKept(s, EndAction(s, i, life))
<1> DEFINE D == Doomed(s, i)
           n == EndAction(s, i, life)
<1>1. \A j \in DOMAIN s.acts :
        /\ j \in D => n.acts[j].life = IF j = i THEN life ELSE "TERMINATED"
        /\ j \notin D => n.acts[j].life = s.acts[j].life
  BY EndActionActs DEF Lives
<1>2. D \subseteq DOMAIN s.acts
  BY DoomedFacts
<1>3. ASSUME NEW j \in D, j # i
      PROVE  /\ s.acts[j].parent # NoParent /\ s.acts[j].parent \in D /\ ~s.acts[j].told
  <2>1. PICK q \in D : j \in s.acts[q].kids
    BY <1>3, DoomedIsKid
  <2>2. q \in DOMAIN s.acts /\ q # NoParent
    BY <1>2, ActsFacts DEF NoParent
  <2> QED
    BY <2>1, <2>2 DEF LinksBut
<1> HIDE DEF D, n
<1>4. \A j \in D : Terminal(n.acts[j])
  BY <1>1, <1>2 DEF Terminal
<1>5. OutcomesKept(s, n)
  <2> SUFFICES ASSUME NEW j \in DOMAIN s.acts, Terminal(s.acts[j]),
                      n.acts[j].life # s.acts[j].life
               PROVE  /\ s.acts[j].life = "FAULTED" /\ ~s.acts[j].told
                      /\ s.acts[j].parent # NoParent /\ s.acts[j].parent \in DOMAIN s.acts
                      /\ Terminal(n.acts[s.acts[j].parent])
    BY DEF OutcomesKept
  <2>1. j \in D /\ j # i
    BY <1>1
  <2>2. n.acts[j].life = "TERMINATED"
    BY <1>1, <2>1
  <2> QED
    BY <1>2, <1>3, <1>4, <2>1, <2>2 DEF Terminal
<1> QED
  BY <1>5 DEF n

\* Starting an action under no parent or under one that is not over.
LEMMA StartActionLater ==
  ASSUME NEW s \in SimState, Closed(s), NEW d \in Definition, NEW e \in Entities,
         NEW parent \in Nat, parent \in DOMAIN s.acts => ~Terminal(s.acts[parent]),
         NEW slot \in ChildSlots \union {NoSlot}
  PROVE  /\ Later(s, StartAction(s, d, e, parent, slot))
         /\ StartAction(s, d, e, parent, slot).acts[Len(s.acts) + 1]
              = [owner |-> e, life |-> IF d.terminal THEN "TERMINATED" ELSE "RUNNING",
                 parent |-> parent, slot |-> slot, kids |-> {}, told |-> FALSE,
                 inbox |-> {}, claim |-> d.claim]
<1> DEFINE c == Len(s.acts) + 1
           n == StartAction(s, d, e, parent, slot)
           a == [owner |-> e, life |-> IF d.terminal THEN "TERMINATED" ELSE "RUNNING",
                 parent |-> parent, slot |-> slot, kids |-> {}, told |-> FALSE,
                 inbox |-> {}, claim |-> d.claim]
<1>1. /\ DOMAIN n.acts = DOMAIN s.acts \union {c}
      /\ \A i \in DOMAIN s.acts : n.acts[i] = s.acts[i]
  BY StartActionType
<1>2. n = [s EXCEPT !.acts = Append(s.acts, a)]
  BY DEF StartAction
<1>3. n.tokens = s.tokens /\ n.events = s.events
  <2> HIDE DEF a, n
  <2> QED
    BY <1>2 DEF SimState
<1>4. n.acts[c] = a
  <2>1. a \in Action /\ s.acts \in Seq(Action)
    BY DEF Action, Lives, Definition, SimState
  <2> HIDE DEF a, n
  <2>2. n.acts = Append(s.acts, a)
    BY <1>2 DEF SimState
  <2> QED
    BY <2>1, <2>2, AppendProperties
<1>5. ~n.acts[c].told /\ n.acts[c].parent = parent
  BY <1>4
<1> HIDE DEF n, a
<1>6. \A i \in DOMAIN n.acts \ DOMAIN s.acts : i = c
  BY <1>1
<1>7. \A i \in DOMAIN s.acts : KidsKept(s, n, i)
  BY <1>1 DEF KidsKept, Closed
<1> HIDE DEF c
<1>8. Later(s, n)
  BY <1>1, <1>3, <1>5, <1>6, <1>7 DEF Later
<1> QED
  BY <1>3, <1>4, <1>8 DEF n, a, c

\* What becomes of the actions when a child is launched: the new one is linked to i after
\* its other children were dealt with.
LEMMA LaunchChildLater ==
  ASSUME NEW s \in SimState, Coherent(s), NEW now \in Nat, NEW i \in DOMAIN s.acts,
         ~Terminal(s.acts[i]), NEW t \in Transition, t.slot \in ChildSlots,
         t.policy = "TERMINATE_PARENT" => ~CannotEnd(s, i)
  PROVE  /\ Later(s, LaunchChild(s, now, i, t)) /\ LaunchChild(s, now, i, t).events = s.events
         /\ OutcomesKept(s, LaunchChild(s, now, i, t))
<1> DEFINE c == Len(s.acts) + 1
           o == s.acts[i].owner
           started == StartAction(s, t.target, o, i, t.slot)
           settled == IF t.policy = "TERMINATE_PARENT" THEN EndAction(started, i, "TERMINATED")
                      ELSE started
           freeze  == [src |-> c, tgt |-> i, from |-> now + 1, domains |-> FrozenBy(t.policy)]
           q == [settled.acts EXCEPT ![i].kids = @ \union {c}]
           T == IF FrozenBy(t.policy) = {} THEN settled.tokens ELSE settled.tokens \union {freeze}
           n == LaunchChild(s, now, i, t)
<1>1. /\ i \in Nat /\ i # NoParent /\ o \in Entities /\ t.target \in Definition
      /\ Closed(s) /\ LinksAgree(s)
  BY ActsFacts, CoherentIsCoherentBut, CoherentClosed DEF Action, Transition, Coherent
<1>2. /\ started \in SimState
      /\ DOMAIN started.acts = DOMAIN s.acts \union {c}
      /\ \A j \in DOMAIN s.acts : started.acts[j] = s.acts[j]
      /\ Later(s, started) /\ started.events = s.events
      /\ CoherentBut(started, {c})
      /\ started.acts[c].kids = {}
  <2>1. /\ started \in SimState
        /\ DOMAIN started.acts = DOMAIN s.acts \union {c}
        /\ \A j \in DOMAIN s.acts : started.acts[j] = s.acts[j]
    BY <1>1, StartActionType
  <2>2. Later(s, started) /\ started.events = s.events
    <3>1. Later(s, started)
      BY <1>1, StartActionLater
    <3>2. started.events = s.events
      BY DEF StartAction, SimState
    <3> QED
      BY <3>1, <3>2
  <2>3. started.acts[c]
          = [owner |-> o, life |-> IF t.target.terminal THEN "TERMINATED" ELSE "RUNNING",
             parent |-> i, slot |-> t.slot, kids |-> {}, told |-> FALSE,
             inbox |-> {}, claim |-> t.target.claim]
    BY <1>1, StartActionLater
  <2>4. CoherentBut(started, {c})
    <3>1. o = s.acts[i].owner
      OBVIOUS
    <3> HIDE DEF o
    <3> QED
      BY <1>1, <3>1, StartActionCoherent
  <2>5. started.acts[c].kids = {}
    <3> HIDE DEF started
    <3> QED
      BY <2>3
  <2> QED
    BY <2>1, <2>2, <2>4, <2>5
<1> HIDE DEF o, started
<1>3. t.policy = "TERMINATE_PARENT" => ~CannotEnd(started, i)
  <2> DEFINE D == Doomed(s, i)
  <2>1. ASSUME NEW p, NEW E \in SUBSET (DOMAIN s.acts)
        PROVE  KidsUnder(started, E, p) = KidsUnder(s, E, p)
    BY <1>1, <1>2 DEF KidsUnder, Closed
  <2>2. /\ i \in D /\ D \subseteq DOMAIN s.acts
        /\ KidsUnder(s, D, "TERMINATE_CHILD") \subseteq D
    BY DoomedFacts
  <2>3. i \in DOMAIN started.acts /\ D \in SUBSET (DOMAIN started.acts)
    BY <1>2, <2>2
  <2> HIDE DEF D
  <2>4. Doomed(started, i) \subseteq D
    BY <1>2, <2>1, <2>2, <2>3, DoomedFacts
  <2>5. KidsUnder(started, Doomed(started, i), "FAULT_IF_OCCUPIED")
          \subseteq KidsUnder(started, D, "FAULT_IF_OCCUPIED")
    BY <2>4 DEF KidsUnder
  <2> QED
    BY <2>1, <2>2, <2>5 DEF CannotEnd, D
<1>4. /\ settled \in SimState /\ DOMAIN settled.acts = DOMAIN started.acts
      /\ Later(started, settled) /\ Closed(started) /\ Closed(settled)
      /\ settled.events = s.events /\ OutcomesKept(started, settled)
  <2>1. Closed(started)
    BY <1>2, CoherentClosed
  <2>2. CASE t.policy = "TERMINATE_PARENT"
    <3>1. settled = EndAction(started, i, "TERMINATED") /\ i \in DOMAIN started.acts
      BY <1>2, <2>2
    <3>2. settled \in SimState /\ DOMAIN settled.acts = DOMAIN started.acts
      BY <1>2, <3>1, EndActionType DEF Lives
    <3>3. CoherentBut(settled, {c})
      BY <1>2, <3>1, EndActionCoherent
    <3>4. Later(started, settled)
      BY <1>2, <1>3, <2>2, <3>1, EndActionLater
    <3>5. settled.events = started.events
      BY <1>2, <3>1, EndActionActs DEF Lives
    <3>6. OutcomesKept(started, settled)
      BY <1>2, <3>1, EndActionKeeps DEF CoherentBut
    <3> QED
      BY <1>2, <2>1, <3>2, <3>3, <3>4, <3>5, <3>6, CoherentClosed
  <2>3. CASE t.policy # "TERMINATE_PARENT"
    BY <1>2, <2>1, <2>3, LaterRefl, OutcomesSame
  <2> QED
    BY <2>2, <2>3
<1>5. n = [settled EXCEPT !.acts = q, !.tokens = T]
  BY DEF LaunchChild, started, o
<1> HIDE DEF settled
<1>6. n.acts = q /\ n.tokens = T /\ n.events = settled.events
  <2> HIDE DEF q, T, n
  <2> QED
    BY <1>4, <1>5 DEF SimState
<1>7. settled.tokens \subseteq T
  OBVIOUS
<1>8. /\ DOMAIN n.acts = DOMAIN settled.acts
      /\ \A j \in DOMAIN settled.acts : j # i => n.acts[j] = settled.acts[j]
      /\ n.acts[i] = [settled.acts[i] EXCEPT !.kids = @ \union {c}]
  <2>1. i \in DOMAIN settled.acts
    BY <1>2, <1>4
  <2> HIDE DEF n, T
  <2> QED
    BY <1>6, <2>1
<1> HIDE DEF n, q, T, freeze
<1>9. \A j \in DOMAIN settled.acts :
        /\ n.acts[j].owner = settled.acts[j].owner
        /\ n.acts[j].claim = settled.acts[j].claim
        /\ n.acts[j].told = settled.acts[j].told
        /\ n.acts[j].parent = settled.acts[j].parent
        /\ n.acts[j].slot = settled.acts[j].slot
        /\ settled.acts[j].kids \subseteq n.acts[j].kids
        /\ n.acts[j].life = settled.acts[j].life
  <2>1. settled.acts[i] \in Action /\ i \in DOMAIN settled.acts
    BY <1>2, <1>4, ActsFacts
  <2> HIDE DEF c
  <2>2. /\ n.acts[i].owner = settled.acts[i].owner
        /\ n.acts[i].claim = settled.acts[i].claim
        /\ n.acts[i].told = settled.acts[i].told
        /\ n.acts[i].parent = settled.acts[i].parent
        /\ n.acts[i].slot = settled.acts[i].slot
        /\ settled.acts[i].kids \subseteq n.acts[i].kids
        /\ n.acts[i].life = settled.acts[i].life
    BY <1>8, <2>1 DEF Action
  <2> QED
    BY <1>8, <2>2
<1>10. Later(settled, n)
  <2>1. \A j \in DOMAIN settled.acts : KidsKept(settled, n, j)
    BY <1>4, <1>9 DEF KidsKept, Closed
  <2> QED
    BY <1>6, <1>7, <1>8, <1>9, <2>1 DEF Later, Terminal
<1>11. Later(s, n)
  <2>1. Later(started, n)
    BY <1>4, <1>10, LaterTrans
  <2> QED
    BY <1>1, <1>2, <1>4, <2>1, LaterTrans
<1>12. OutcomesKept(s, n)
  <2> SUFFICES ASSUME NEW j \in DOMAIN s.acts, Terminal(s.acts[j]),
                      n.acts[j].life # s.acts[j].life
               PROVE  /\ s.acts[j].life = "FAULTED" /\ ~s.acts[j].told
                      /\ s.acts[j].parent # NoParent /\ s.acts[j].parent \in DOMAIN s.acts
                      /\ Terminal(n.acts[s.acts[j].parent])
    BY DEF OutcomesKept
  <2>1. /\ j \in DOMAIN started.acts /\ started.acts[j] = s.acts[j]
        /\ n.acts[j].life = settled.acts[j].life
    BY <1>2, <1>4, <1>9
  <2>2. /\ s.acts[j].life = "FAULTED" /\ ~s.acts[j].told /\ s.acts[j].parent # NoParent
        /\ s.acts[j].parent \in DOMAIN started.acts
        /\ Terminal(settled.acts[s.acts[j].parent])
    BY <1>4, <2>1 DEF OutcomesKept
  <2>3. s.acts[j].parent \in DOMAIN s.acts
    BY <1>1, <2>2, ActsFacts DEF LinksAgree, NoParent
  <2> QED
    BY <1>2, <1>4, <1>9, <2>2, <2>3 DEF Terminal
<1> QED
  BY <1>4, <1>6, <1>11, <1>12 DEF n

\* A transition that does not raise, applied to a running action.
LEMMA ApplyTransitionLater ==
  ASSUME NEW s \in SimState, Coherent(s), NEW now \in Nat, NEW i \in DOMAIN s.acts,
         s.acts[i].life = "RUNNING", NEW t \in Transition,
         t.kind = "CHILD_ACTION" => t.slot \in ChildSlots,
         ~Raises(s, i, t)
  PROVE  /\ Later(s, ApplyTransition(s, now, i, t))
         /\ ApplyTransition(s, now, i, t).events = s.events
         /\ OutcomesKept(s, ApplyTransition(s, now, i, t))
<1> DEFINE o == s.acts[i].owner
           Launch(from) == StartAction(from, t.target, o, NoParent, NoSlot)
           suspended == [s EXCEPT !.acts[i].life = "SUSPENDED"]
<1>1. /\ s.acts[i] \in Action /\ o \in Entities /\ t.target \in Definition
      /\ ~Terminal(s.acts[i])
  BY ActsFacts DEF Action, Transition, Terminal
<1>2. CoherentBut(s, {}) /\ Closed(s)
  BY CoherentIsCoherentBut, CoherentClosed
<1> HIDE DEF o
<1>3. ASSUME NEW from \in SimState, Closed(from)
      PROVE  /\ Later(from, Launch(from)) /\ Launch(from).events = from.events
             /\ \A j \in DOMAIN from.acts : Launch(from).acts[j] = from.acts[j]
  <2>1. /\ NoParent \in Nat /\ NoParent \notin DOMAIN from.acts
        /\ NoSlot \in ChildSlots \union {NoSlot}
    BY <1>3 DEF NoParent, Closed
  <2>2. Later(from, Launch(from))
    BY <1>1, <1>3, <2>1, StartActionLater
  <2>3. Launch(from).events = from.events
    BY DEF StartAction, SimState
  <2>4. \A j \in DOMAIN from.acts : Launch(from).acts[j] = from.acts[j]
    BY <1>1, <2>1, StartActionType
  <2> QED
    BY <2>2, <2>3, <2>4
<1>4. ASSUME NEW life \in {"TERMINATED", "FAULTED"}, ~CannotEnd(s, i)
      PROVE  /\ EndAction(s, i, life) \in SimState /\ Closed(EndAction(s, i, life))
             /\ Later(s, EndAction(s, i, life)) /\ EndAction(s, i, life).events = s.events
             /\ OutcomesKept(s, EndAction(s, i, life))
  <2>1. EndAction(s, i, life) \in SimState /\ EndAction(s, i, life).events = s.events
    BY EndActionType, EndActionActs DEF Lives
  <2>2. CoherentBut(EndAction(s, i, life), {})
    BY <1>2, EndActionCoherent
  <2>3. Later(s, EndAction(s, i, life))
    BY <1>2, <1>4, EndActionLater
  <2>4. OutcomesKept(s, EndAction(s, i, life))
    BY <1>1, <1>2, EndActionKeeps DEF CoherentBut
  <2> QED
    BY <2>1, <2>2, <2>3, <2>4, CoherentClosed
<1>5. ASSUME NEW from \in SimState, Closed(from), Later(s, from), from.events = s.events,
             Closed(Launch(from)), OutcomesKept(s, from)
      PROVE  /\ Later(s, Launch(from)) /\ Launch(from).events = s.events
             /\ OutcomesKept(s, Launch(from))
  <2>1. Later(s, Launch(from)) /\ Launch(from).events = s.events
    BY <1>2, <1>3, <1>5, LaterTrans
  <2>2. DOMAIN s.acts \subseteq DOMAIN from.acts
    BY <1>5 DEF Later
  <2>3. \A j \in DOMAIN from.acts : Launch(from).acts[j] = from.acts[j]
    BY <1>3, <1>5
  <2> HIDE DEF Launch
  <2> QED
    BY <1>5, <2>1, <2>2, <2>3, OutcomesUntouched
<1>6. /\ suspended \in SimState /\ Closed(suspended) /\ Later(s, suspended)
      /\ suspended.events = s.events /\ OutcomesKept(s, suspended)
  <2> DEFINE f == [s.acts EXCEPT ![i].life = "SUSPENDED"]
  <2>1. [s.acts[i] EXCEPT !.life = "SUSPENDED"] \in Action
    BY <1>1 DEF Action, Lives
  <2>2. f = [j \in DOMAIN s.acts |->
               IF j = i THEN [s.acts[i] EXCEPT !.life = "SUSPENDED"] ELSE s.acts[j]]
    BY ActsFacts DEF SimState
  <2>3. f \in [DOMAIN s.acts -> Action]
    BY <2>1, <2>2, ActsFacts
  <2>4. f \in Seq(Action) /\ DOMAIN f = DOMAIN s.acts
    BY <2>3, RemapType
  <2>5. suspended = [s EXCEPT !.acts = f]
    OBVIOUS
  <2>6. ASSUME NEW j \in DOMAIN s.acts
        PROVE  /\ f[j].owner = s.acts[j].owner /\ f[j].claim = s.acts[j].claim
               /\ f[j].told = s.acts[j].told /\ f[j].parent = s.acts[j].parent
               /\ f[j].slot = s.acts[j].slot /\ f[j].kids = s.acts[j].kids
               /\ Terminal(f[j]) = Terminal(s.acts[j])
               /\ Terminal(s.acts[j]) => f[j].life = s.acts[j].life
    <3>1. CASE j = i
      BY <1>1, <2>2, <3>1 DEF Action, Terminal
    <3>2. CASE j # i
      BY <2>2, <3>2
    <3> QED
      BY <3>1, <3>2
  <2> HIDE DEF f, suspended
  <2>7. /\ suspended \in SimState /\ suspended.acts = f
        /\ suspended.tokens = s.tokens /\ suspended.events = s.events
    BY <2>4, <2>5 DEF SimState
  <2>8. Later(s, suspended)
    BY <1>2, <2>4, <2>6, <2>7, LaterSame
  <2>9. Closed(suspended)
    BY <1>2, <2>4, <2>6, <2>7 DEF Closed
  <2>10. OutcomesKept(s, suspended)
    BY <2>6, <2>7 DEF OutcomesKept
  <2> QED
    BY <2>7, <2>8, <2>9, <2>10
<1> HIDE DEF suspended
<1>7. ASSUME NEW from \in SimState, Closed(from) PROVE Closed(Launch(from))
  <2> DEFINE n == Launch(from)
             c == Len(from.acts) + 1
  <2>1. /\ NoParent \in Nat /\ NoParent \notin DOMAIN from.acts
        /\ NoSlot \in ChildSlots \union {NoSlot}
    BY <1>7 DEF NoParent, Closed
  <2>2. /\ n \in SimState /\ DOMAIN n.acts = DOMAIN from.acts \union {c}
        /\ \A j \in DOMAIN from.acts : n.acts[j] = from.acts[j]
    BY <1>1, <2>1, StartActionType
  <2>3. n.acts[c].kids = {}
    <3>1. n.acts[c]
            = [owner |-> o, life |-> IF t.target.terminal THEN "TERMINATED" ELSE "RUNNING",
               parent |-> NoParent, slot |-> NoSlot, kids |-> {}, told |-> FALSE,
               inbox |-> {}, claim |-> t.target.claim]
      BY <1>1, <1>7, <2>1, StartActionLater
    <3> HIDE DEF n
    <3> QED
      BY <3>1
  <2>4. n.tokens = from.tokens
    BY DEF StartAction, SimState
  <2> HIDE DEF n, c
  <2>5. Closed(n)
    BY <1>7, <2>2, <2>3, <2>4, ActsFacts DEF Closed
  <2> QED
    BY <2>5 DEF n
<1> HIDE DEF Launch
<1>8. CASE t.kind = "TERMINATE"
  BY <1>4, <1>8 DEF ApplyTransition, Raises, SourceEnds
<1>9. CASE t.kind = "FAULT"
  BY <1>4, <1>9 DEF ApplyTransition, Raises, SourceEnds
<1>10. CASE t.kind = "TERMINATE_SOURCE"
  <2>1. ApplyTransition(s, now, i, t) = Launch(EndAction(s, i, "TERMINATED")) /\ ~CannotEnd(s, i)
    BY <1>10 DEF ApplyTransition, Launch, o, Raises, SourceEnds
  <2> QED
    BY <1>4, <1>5, <1>7, <2>1
<1>11. CASE t.kind = "SUSPEND_SOURCE"
  <2>1. ApplyTransition(s, now, i, t) = Launch(suspended)
    BY <1>11 DEF ApplyTransition, Launch, o, suspended
  <2> QED
    BY <1>5, <1>6, <1>7, <2>1
<1>12. CASE t.kind = "KEEP_SOURCE"
  <2>1. ApplyTransition(s, now, i, t) = Launch(s)
    BY <1>12 DEF ApplyTransition, Launch, o
  <2>2. Later(s, s) /\ OutcomesKept(s, s)
    BY <1>2, LaterRefl, OutcomesSame
  <2> QED
    BY <1>2, <1>5, <1>7, <2>1, <2>2
<1>13. CASE t.kind = "CHILD_ACTION"
  <2>1. ApplyTransition(s, now, i, t) = LaunchChild(s, now, i, t)
    BY <1>13 DEF ApplyTransition
  <2>2. t.policy = "TERMINATE_PARENT" => ~CannotEnd(s, i)
    BY <1>13 DEF Raises, SourceEnds
  <2> QED
    BY <1>1, <1>13, <2>1, <2>2, LaunchChildLater
<1>14. t.kind \in {"TERMINATE", "FAULT", "TERMINATE_SOURCE", "SUSPEND_SOURCE", "KEEP_SOURCE",
                   "CHILD_ACTION"}
  BY DEF Transition, Kinds, LaunchKinds
<1> QED
  BY <1>8, <1>9, <1>10, <1>11, <1>12, <1>13, <1>14

\* Delivery changes what actions have heard, and nothing else about them.
LEMMA DeliverEventsFacts ==
  ASSUME NEW s \in SimState, NEW now
  PROVE  /\ DOMAIN DeliverEvents(s, now).acts = DOMAIN s.acts
         /\ DeliverEvents(s, now).tokens = s.tokens
         /\ DeliverEvents(s, now).usage = s.usage
         /\ DeliverEvents(s, now).events = s.events \ Due(s, now)
         /\ \A i \in DOMAIN s.acts :
              /\ DeliverEvents(s, now).acts[i].owner = s.acts[i].owner
              /\ DeliverEvents(s, now).acts[i].claim = s.acts[i].claim
              /\ DeliverEvents(s, now).acts[i].told = s.acts[i].told
              /\ DeliverEvents(s, now).acts[i].parent = s.acts[i].parent
              /\ DeliverEvents(s, now).acts[i].slot = s.acts[i].slot
              /\ DeliverEvents(s, now).acts[i].kids = s.acts[i].kids
              /\ DeliverEvents(s, now).acts[i].life = s.acts[i].life
<1> DEFINE seen(i) == {e.child : e \in {d \in Due(s, now) : d.tgt = i}}
           n == DeliverEvents(s, now)
<1>1. n = [s EXCEPT !.acts = [i \in DOMAIN s.acts |-> [s.acts[i] EXCEPT !.inbox = @ \union seen(i)]],
                    !.events = @ \ Due(s, now)]
  BY DEF DeliverEvents
<1> HIDE DEF n, seen
<1>2. /\ n.tokens = s.tokens /\ n.usage = s.usage /\ n.events = s.events \ Due(s, now)
      /\ n.acts = [i \in DOMAIN s.acts |-> [s.acts[i] EXCEPT !.inbox = @ \union seen(i)]]
  BY <1>1 DEF SimState
<1>3. \A i \in DOMAIN s.acts : s.acts[i] \in Action
  BY ActsFacts
<1>4. ASSUME NEW i \in DOMAIN s.acts
      PROVE  /\ n.acts[i].owner = s.acts[i].owner
             /\ n.acts[i].claim = s.acts[i].claim
             /\ n.acts[i].told = s.acts[i].told
             /\ n.acts[i].parent = s.acts[i].parent
             /\ n.acts[i].slot = s.acts[i].slot
             /\ n.acts[i].kids = s.acts[i].kids
             /\ n.acts[i].life = s.acts[i].life
  BY <1>2, <1>3 DEF Action
<1> QED
  BY <1>2, <1>4 DEF n

-----------------------------------------------------------------------------
(* The working copy comes from the tick-start state *)

\* What a step makes of the working copy.
WorkStep ==
  \/ work' = state' /\ pc' = "idle"
  \/ /\ UNCHANGED <<tick, state, lastFault>>
     /\ \/ work' = work /\ (pc = "idle" <=> pc' = "idle")
        \/ pc = "idle" /\ pc' = "pre" /\ work' = DeliverEvents(state, tick)
        \/ pc # "idle" /\ pc' # "idle" /\ work' = RebuildSlots(work)
        \/ /\ pc # "idle" /\ pc' # "idle"
           /\ \E d \in Definition, e \in Entities :
                work' = StartAction(work, d, e, NoParent, NoSlot)
        \/ /\ pc # "idle" /\ pc' # "idle"
           /\ \E i \in DOMAIN work.acts, t \in Transitions :
                /\ work.acts[i].life = "RUNNING" /\ ~Raises(work, i, t)
                /\ work' = ApplyTransition(work, tick, i, t)

\* What a step of the executor does to the working copy.
LEMMA WorkSteps == IInv /\ [Next]_vars => WorkStep
<1> SUFFICES ASSUME IInv, [Next]_vars PROVE WorkStep
  OBVIOUS
<1>1. ASSUME Contained PROVE work' = state' /\ pc' = "idle"
  BY <1>1 DEF Contained, Contain, Idle
<1>2. ASSUME NEW i, NEW e, Fail(i, e) PROVE work' = state' /\ pc' = "idle"
  BY <1>1, <1>2, FailSteps
<1>3. CASE RejectTick \/ CommitFails \/ RuntimeFault
  <2>1. \E i, e : Fail(i, e)
    BY <1>3 DEF RejectTick, CommitFails, RuntimeFault, Fail
  <2> QED
    BY <1>2, <2>1 DEF WorkStep
<1>4. ASSUME NEW n \in todo, AcceptFails(n) PROVE WorkStep
  BY <1>2, <1>4 DEF AcceptFails, WorkStep
<1>5. ASSUME NEW i \in queue, NEW t \in Transitions, AfterQuantumFails(i, t) PROVE WorkStep
  BY <1>2, <1>5 DEF AfterQuantumFails, WorkStep
<1>6. CASE BeginTick
  BY <1>6 DEF BeginTick, WorkStep
<1>7. CASE Commit
  BY <1>7 DEF Commit, Idle, WorkStep
<1>8. CASE EndPre \/ EndPost
  BY <1>8 DEF EndPre, EndPost, WorkStep
<1>9. CASE BeginPost \/ Horizon \/ UNCHANGED vars
  BY <1>9 DEF BeginPost, Horizon, vars, WorkStep
<1>10. ASSUME NEW n \in todo, Reject(n) PROVE WorkStep
  BY <1>10 DEF Reject, WorkStep
<1>11. ASSUME NEW i \in queue, EndProgress(i) PROVE WorkStep
  BY <1>11 DEF EndProgress, WorkStep
<1>12. ASSUME NEW i \in queue, NEW t \in Transitions, AfterQuantum(i, t) PROVE WorkStep
  <2>1. i \in DOMAIN work.acts
    BY DEF IInv, IntentsNameActions
  <2> QED
    BY <1>12, <2>1 DEF AfterQuantum, CanProgress, WorkStep
<1>13. ASSUME NEW n \in todo, Accept(n) PROVE WorkStep
  <2>1. /\ pc # "idle" /\ pc' # "idle" /\ pc' = pc /\ UNCHANGED <<tick, state, lastFault>>
    BY <1>13 DEF Accept
  <2>2. CASE n.t.kind = "START"
    <3>1. work' = StartAction(work, n.t.target, n.owner, NoParent, NoSlot)
      BY <1>13, <2>2 DEF Accept
    <3>2. n.owner \in Entities /\ n.t \in Transitions \union {StartOf(d) : d \in Definitions}
      BY DEF IInv, TypeOK, Intent
    <3>3. n.t \notin Transitions
      BY <2>2, DefinitionAssumption DEF Transition, Kinds, LaunchKinds
    <3>4. n.t.target \in Definition
      BY <3>2, <3>3, DefinitionAssumption DEF StartOf
    <3> QED
      BY <2>1, <3>1, <3>2, <3>4 DEF WorkStep
  <2>3. CASE n.t.kind # "START" /\ work.acts[n.src].life = "RUNNING"
    <3>1. n.src \in DOMAIN work.acts /\ n.t \in Transitions
      BY <2>3 DEF IInv, IntentsNameActions
    <3>2. ~Raises(work, n.src, n.t) /\ work' = ApplyTransition(work, tick, n.src, n.t)
      BY <1>13, <2>3 DEF Accept
    <3> QED
      BY <2>1, <2>3, <3>1, <3>2 DEF WorkStep
  <2>4. CASE n.t.kind # "START" /\ work.acts[n.src].life # "RUNNING"
    BY <1>13, <2>1, <2>4 DEF Accept, WorkStep
  <2> QED
    BY <2>2, <2>3, <2>4
<1> QED
  BY <1>3, <1>4, <1>5, <1>6, <1>7, <1>8, <1>9, <1>10, <1>11, <1>12, <1>13 DEF Next, Step

\* Both copies are closed.
LEMMA StateClosed == IInv => Closed(state) /\ Closed(work)
BY CoherentIsCoherentBut, CoherentClosed DEF IInv, TypeOK, Coherence

\* The working copy comes from the tick-start state at every step of a tick, and is the
\* tick-start state between two ticks.
Advances == Later(state, work)

\* Every stage takes the working copy further.
LEMMA AdvancesNext == IInv /\ Advances /\ [Next]_vars => Advances'
<1> SUFFICES ASSUME IInv, Advances, [Next]_vars PROVE Advances'
  OBVIOUS
<1>1. /\ state \in SimState /\ work \in SimState /\ Coherent(work) /\ tick \in Nat
      /\ Closed(state) /\ Closed(work)
  BY StateClosed DEF IInv, TypeOK, Coherence
<1>2. IInv' /\ Closed(state') /\ Closed(work')
  <2>1. IInv'
    BY NextIInv
  <2>2. (IInv => Closed(state) /\ Closed(work))'
    BY StateClosed, PTL
  <2> QED
    BY <2>1, <2>2
<1>3. CASE work' = state'
  BY <1>2, <1>3, LaterRefl DEF Advances
<1>4. CASE UNCHANGED state /\ work' = DeliverEvents(state, tick)
  <2>1. Later(state, DeliverEvents(state, tick))
    BY <1>1, DeliverEventsFacts, LaterSame DEF Terminal
  <2> QED
    BY <1>4, <2>1 DEF Advances
<1>5. ASSUME UNCHANGED state, Later(work, work') PROVE Advances'
  BY <1>1, <1>2, <1>5, LaterTrans DEF Advances
<1>6. CASE work' = work
  BY <1>1, <1>5, <1>6, LaterRefl, WorkSteps, <1>3 DEF WorkStep, Advances
<1>7. CASE UNCHANGED state /\ work' = RebuildSlots(work)
  <2>1. RebuildSlots(work).acts = work.acts /\ RebuildSlots(work).tokens = work.tokens
    BY <1>1 DEF RebuildSlots, SimState
  <2>2. Later(work, RebuildSlots(work))
    BY <1>1, <2>1, LaterSame
  <2> QED
    BY <1>5, <1>7, <2>2
<1>8. ASSUME UNCHANGED state, NEW d \in Definition, NEW e \in Entities,
             work' = StartAction(work, d, e, NoParent, NoSlot)
      PROVE  Advances'
  <2>1. /\ NoParent \in Nat /\ NoParent \notin DOMAIN work.acts
        /\ NoSlot \in ChildSlots \union {NoSlot}
    BY <1>1 DEF NoParent, Closed
  <2>2. Later(work, StartAction(work, d, e, NoParent, NoSlot))
    BY <1>1, <2>1, StartActionLater
  <2> QED
    BY <1>5, <1>8, <2>2
<1>9. ASSUME UNCHANGED state, NEW i \in DOMAIN work.acts, NEW t \in Transitions,
             work.acts[i].life = "RUNNING", ~Raises(work, i, t),
             work' = ApplyTransition(work, tick, i, t)
      PROVE  Advances'
  <2>1. t \in Transition /\ (t.kind = "CHILD_ACTION" => t.slot \in ChildSlots)
    BY DefinitionAssumption
  <2>2. Later(work, ApplyTransition(work, tick, i, t))
    BY <1>1, <1>9, <2>1, ApplyTransitionLater
  <2> QED
    BY <1>5, <1>9, <2>2
<1> QED
  BY <1>3, <1>4, <1>6, <1>7, <1>8, <1>9, WorkSteps DEF WorkStep

\* At every step of a tick the working copy comes from the tick-start state.
LEMMA AdvancesAlways == Spec => []Advances
<1>1. Init => Advances
  <2> SUFFICES ASSUME Init PROVE Advances
    OBVIOUS
  <2>1. IInv
    BY InitIInv
  <2> QED
    BY <2>1, StateClosed, LaterRefl DEF Init, Advances
<1>2. IInv /\ Advances /\ [Next]_vars => Advances'
  BY AdvancesNext
<1> QED
  BY <1>1, <1>2, IInvAlways, PTL DEF Spec

\* What a tick that returns another state did to the instances of the one before.
Returned ==
  \/ /\ Later(state, work) /\ work \in SimState
     /\ state' = Maintain(work, tick) /\ UNCHANGED lastFault
  \/ /\ lastFault' = tick
     /\ \E i \in DOMAIN state.acts :
          LET s == EndAction(state, i, "FAULTED") IN
          /\ ~CannotEnd(state, i) /\ Later(state, s)
          /\ state'.acts = s.acts /\ state'.tokens = s.tokens
  \/ /\ lastFault' = tick /\ FaultPolicy = "FAULT_ENTITY"
     /\ \E e \in Entities :
          LET s == EndEntity(state, e) IN state'.acts = s.acts /\ state'.tokens = s.tokens

\* The state changes only when a tick returns one, committed or contained.
LEMMA ReturnedSteps ==
  ASSUME IInv, Advances, [Next]_vars
  PROVE  Returned \/ UNCHANGED <<tick, state, lastFault>>
<1>1. state \in SimState /\ work \in SimState /\ CoherentBut(state, {})
  BY CoherentIsCoherentBut DEF IInv, TypeOK, Coherence
<1>2. CASE Commit
  BY <1>1, <1>2 DEF Commit, Advances, Returned
<1>3. CASE Contained
  <2>1. PICK s \in SimState :
          /\ \/ /\ FaultPolicy = "FAULT_ACTION"
                /\ \E i \in DOMAIN state.acts :
                     ~CannotEnd(state, i) /\ s = EndAction(state, i, "FAULTED")
             \/ /\ FaultPolicy = "FAULT_ENTITY"
                /\ \E e \in Entities : s = EndEntity(state, e)
          /\ state'.acts = s.acts /\ state'.tokens = s.tokens /\ lastFault' = tick
    BY <1>3, ContainedFacts
  <2>2. ASSUME NEW i \in DOMAIN state.acts, ~CannotEnd(state, i)
        PROVE  Later(state, EndAction(state, i, "FAULTED"))
    BY <1>1, <2>2, EndActionLater
  <2> QED
    BY <2>1, <2>2 DEF Returned
<1> QED
  BY <1>2, <1>3, StateSteps

-----------------------------------------------------------------------------
(* What the host sees from one state between ticks to the next *)

\* The lives, owners and parents of a committed tick are those of the working copy.
LEMMA CommittedFacts ==
  ASSUME IInv, work \in SimState, Later(state, work), state' = Maintain(work, tick)
  PROVE  /\ DOMAIN state.acts \subseteq DOMAIN state'.acts
         /\ DOMAIN state'.acts = DOMAIN work.acts
         /\ \A i \in DOMAIN work.acts :
              /\ state'.acts[i].owner = work.acts[i].owner
              /\ state'.acts[i].parent = work.acts[i].parent
              /\ Terminal(state'.acts[i]) = Terminal(work.acts[i])
              /\ state'.acts[i].told = (work.acts[i].told \/ i \in Finished(work))
         /\ state'.tokens = {t \in work.tokens :
                               ~(t.src \in Finished(work) /\ t.tgt = work.acts[t.src].parent)}
<1>1. DOMAIN state.acts \subseteq DOMAIN work.acts
  BY DEF Later
<1> QED
  BY <1>1, MaintainFacts DEF Terminal

\* The lives, owners and parents of a state in which entity e was faulted.
LEMMA FaultedFacts ==
  ASSUME NEW s \in SimState, NEW e \in Entities, NEW n,
         n.acts = EndEntity(s, e).acts, n.tokens = EndEntity(s, e).tokens
  PROVE  /\ DOMAIN n.acts = DOMAIN s.acts
         /\ \A i \in DOMAIN s.acts :
              /\ n.acts[i].owner = s.acts[i].owner
              /\ n.acts[i].parent \in {s.acts[i].parent, NoParent}
              /\ Terminal(s.acts[i]) => Terminal(n.acts[i])
              /\ s.acts[i].owner = e => Terminal(n.acts[i])
              /\ s.acts[i].owner # e => Terminal(n.acts[i]) = Terminal(s.acts[i])
              /\ n.acts[i].told = s.acts[i].told
         /\ n.tokens = {t \in s.tokens : t.tgt \notin LiveOf(s, e)}
<1> DEFINE D == LiveOf(s, e)
           m == EndEntity(s, e)
<1>1. DOMAIN n.acts = DOMAIN s.acts
  BY EndEntityType
<1>2. n.acts = m.acts
  OBVIOUS
<1>3. n.tokens = {t \in s.tokens : t.tgt \notin D}
  BY EndEntityFacts
<1>4. ASSUME NEW j \in DOMAIN s.acts
      PROVE  /\ m.acts[j].owner = s.acts[j].owner
             /\ m.acts[j].told = s.acts[j].told
             /\ j \in D => m.acts[j].life = "FAULTED"
             /\ j \notin D => m.acts[j].life = s.acts[j].life
             /\ m.acts[j].parent \in {s.acts[j].parent, NoParent}
  <2>1. m.acts[j].owner = s.acts[j].owner /\ m.acts[j].told = s.acts[j].told
    BY EndEntityFacts
  <2>2. /\ j \in D => m.acts[j].life = "FAULTED"
        /\ j \notin D => m.acts[j].life = s.acts[j].life
    BY EndEntityFacts
  <2>3. m.acts[j].parent \in {s.acts[j].parent, NoParent}
    BY EndEntityFacts
  <2> QED
    BY <2>1, <2>2, <2>3
<1>5. \A j \in DOMAIN s.acts : j \in D <=> s.acts[j].owner = e /\ ~Terminal(s.acts[j])
  BY DEF LiveOf
<1> HIDE DEF D, m
<1>6. \A i \in DOMAIN s.acts :
        /\ Terminal(s.acts[i]) => Terminal(n.acts[i])
        /\ s.acts[i].owner = e => Terminal(n.acts[i])
        /\ s.acts[i].owner # e => Terminal(n.acts[i]) = Terminal(s.acts[i])
  BY <1>2, <1>4, <1>5 DEF Terminal
<1> QED
  BY <1>1, <1>2, <1>3, <1>4, <1>6 DEF D

\* No tick, committed, contained or aborted, brings an action back that had ended.
THEOREM TerminalForeverHolds == Spec => TerminalForever
<1> DEFINE Stays == \A i \in DOMAIN state.acts :
                      Terminal(state.acts[i]) =>
                        i \in DOMAIN state'.acts /\ Terminal(state'.acts[i])
<1>1. IInv /\ Advances /\ [Next]_vars => [Stays]_vars
  <2> SUFFICES ASSUME IInv, Advances, [Next]_vars PROVE Stays
    OBVIOUS
  <2>0. state \in SimState
    BY DEF IInv, TypeOK
  <2>1. CASE Returned
    <3>1. CASE Later(state, work) /\ work \in SimState /\ state' = Maintain(work, tick)
      BY <3>1, CommittedFacts DEF Later
    <3>2. ASSUME NEW i \in DOMAIN state.acts, Later(state, EndAction(state, i, "FAULTED")),
                 state'.acts = EndAction(state, i, "FAULTED").acts
          PROVE  Stays
      BY <3>2 DEF Later, Terminal
    <3>3. ASSUME NEW e \in Entities, state'.acts = EndEntity(state, e).acts,
                 state'.tokens = EndEntity(state, e).tokens
          PROVE  Stays
      BY <2>0, <3>3, FaultedFacts
    <3> QED
      BY <2>1, <3>1, <3>2, <3>3 DEF Returned
  <2>2. CASE UNCHANGED <<tick, state, lastFault>>
    BY <2>2 DEF Terminal
  <2> QED
    BY <2>1, <2>2, ReturnedSteps
<1> QED
  BY <1>1, IInvAlways, AdvancesAlways, PTL DEF Spec, TerminalForever

\* An action stays frozen behind its child until one of the two has ended.
THEOREM FreezeHoldsAlways == Spec => FreezeHolds
<1> DEFINE Lifted == \A t \in state.tokens \ state'.tokens :
                       Terminal(state'.acts[t.tgt]) \/ Terminal(state'.acts[t.src])
<1>1. IInv /\ Advances /\ [Next]_vars => [Lifted]_vars
  <2> SUFFICES ASSUME IInv, Advances, [Next]_vars, NEW t \in state.tokens \ state'.tokens
               PROVE  Terminal(state'.acts[t.tgt]) \/ Terminal(state'.acts[t.src])
    OBVIOUS
  <2>0. state \in SimState
    BY DEF IInv, TypeOK
  <2>1. t.tgt \in DOMAIN state.acts
    BY StateClosed DEF Closed
  <2>2. CASE Returned
    <3>1. CASE Later(state, work) /\ work \in SimState /\ state' = Maintain(work, tick)
      <4>1. t.tgt \in DOMAIN work.acts /\ (t \in work.tokens \/ Terminal(work.acts[t.tgt]))
        BY <2>1, <3>1 DEF Later
      <4>2. t \in work.tokens => t.src \in Finished(work)
        BY <3>1, CommittedFacts
      <4>3. \A c \in Finished(work) : c \in DOMAIN work.acts /\ Terminal(work.acts[c])
        BY DEF Finished
      <4> QED
        BY <3>1, <4>1, <4>2, <4>3, CommittedFacts
    <3>2. ASSUME NEW i \in DOMAIN state.acts, Later(state, EndAction(state, i, "FAULTED")),
                 state'.acts = EndAction(state, i, "FAULTED").acts,
                 state'.tokens = EndAction(state, i, "FAULTED").tokens
          PROVE  Terminal(state'.acts[t.tgt])
      BY <3>2 DEF Later, Terminal
    <3>3. ASSUME NEW e \in Entities, state'.acts = EndEntity(state, e).acts,
                 state'.tokens = EndEntity(state, e).tokens
          PROVE  Terminal(state'.acts[t.tgt])
      <4>1. t.tgt \in LiveOf(state, e)
        BY <2>0, <3>3, FaultedFacts
      <4>2. state.acts[t.tgt].owner = e
        BY <4>1 DEF LiveOf
      <4> QED
        BY <2>0, <2>1, <3>3, <4>2, FaultedFacts
    <3> QED
      BY <2>2, <3>1, <3>2, <3>3 DEF Returned
  <2>3. CASE UNCHANGED <<tick, state, lastFault>>
    BY <2>3
  <2> QED
    BY <2>2, <2>3, ReturnedSteps
<1> QED
  BY <1>1, IInvAlways, AdvancesAlways, PTL DEF Spec, FreezeHolds

\* A fault is blamed on an action that was not over when the tick began.
LEMMA BlamedIsLive ==
  ASSUME IInv, Advances, [Next]_vars
  PROVE  \/ Commit \/ UNCHANGED <<tick, state, lastFault>>
         \/ \E i \in DOMAIN state.acts : ~Terminal(state.acts[i]) /\ FaultAction(i)
         \/ \E e : FaultEntity(e)
<1> DEFINE Blamed == \/ UNCHANGED <<tick, state, lastFault>>
                     \/ \E i \in DOMAIN state.acts : ~Terminal(state.acts[i]) /\ FaultAction(i)
                     \/ \E e : FaultEntity(e)
<1>1. ASSUME NEW i, NEW e, Fail(i, e), i \in DOMAIN state.acts => ~Terminal(state.acts[i])
      PROVE  Blamed
  <2>1. FaultAction(i) => i \in DOMAIN state.acts
    BY DEF FaultAction
  <2>2. Abort(i, e) => UNCHANGED <<tick, state, lastFault>>
    BY DEF Abort
  <2> QED
    BY <1>1, <2>1, <2>2 DEF Fail
<1>2. 0 \notin DOMAIN state.acts
  BY StateClosed DEF Closed, NoParent
<1>3. ASSUME NEW i, work.acts[i].life = "RUNNING"
      PROVE  i \in DOMAIN state.acts => ~Terminal(state.acts[i])
  BY <1>3 DEF Advances, Later, Terminal
<1> HIDE DEF Blamed
<1>4. CASE RejectTick \/ CommitFails
  <2>1. Fail(0, NoEntity)
    BY <1>4 DEF RejectTick, CommitFails, Fail
  <2> QED
    BY <1>1, <1>2, <2>1 DEF Blamed
<1>5. CASE RuntimeFault
  <2>1. \/ \E i \in DOMAIN work.acts : /\ i \in DOMAIN state.acts => ~Terminal(state.acts[i])
                                      /\ Fail(i, work.acts[i].owner)
        \/ \E e \in Entities : Fail(0, e)
        \/ Fail(0, NoEntity)
    BY <1>5 DEF RuntimeFault
  <2> QED
    BY <1>1, <1>2, <2>1 DEF Blamed
<1>6. CASE \E n \in todo : AcceptFails(n)
  <2>1. PICK n \in todo : work.acts[n.src].life = "RUNNING" /\ Fail(n.src, n.owner)
    BY <1>6 DEF AcceptFails
  <2> QED
    BY <1>1, <1>3, <2>1 DEF Blamed
<1>7. CASE \E i \in queue, t \in Transitions : AfterQuantumFails(i, t)
  <2>1. PICK i \in queue : work.acts[i].life = "RUNNING" /\ Fail(i, work.acts[i].owner)
    BY <1>7 DEF AfterQuantumFails, CanProgress
  <2> QED
    BY <1>1, <1>3, <2>1 DEF Blamed
<1>8. CASE BeginTick \/ EndPre \/ BeginPost \/ EndPost \/ Horizon \/ UNCHANGED vars
  BY <1>8 DEF BeginTick, EndPre, BeginPost, EndPost, Horizon, vars
<1>9. CASE \E n \in todo : Reject(n) \/ Accept(n)
  BY <1>9 DEF Reject, Accept
<1>10. CASE \E i \in queue : EndProgress(i)
  BY <1>10 DEF EndProgress
<1>11. CASE \E i \in queue, t \in Transitions : AfterQuantum(i, t)
  BY <1>11 DEF AfterQuantum
<1> QED
  BY <1>4, <1>5, <1>6, <1>7, <1>8, <1>9, <1>10, <1>11 DEF Next, Step, Blamed

\* In the working copy the actions that were over at the start of the tick have their outcomes.
Keeps == OutcomesKept(state, work)

\* Every stage keeps them.
LEMMA KeepsNext == IInv /\ Advances /\ Keeps /\ [Next]_vars => Keeps'
<1> SUFFICES ASSUME IInv, Advances, Keeps, [Next]_vars PROVE Keeps'
  OBVIOUS
<1>1. /\ state \in SimState /\ work \in SimState /\ Coherent(work) /\ LinksAgree(state)
      /\ tick \in Nat /\ Closed(work)
  BY StateClosed DEF IInv, TypeOK, Coherence, Coherent
<1>2. \A i \in DOMAIN state.acts : state.acts[i].parent \in DOMAIN state.acts \union {NoParent}
  BY <1>1, ActsFacts DEF LinksAgree, NoParent
<1>3. CASE work' = state'
  BY <1>3, OutcomesSame DEF Keeps
<1>4. ASSUME UNCHANGED state, Later(work, work'), OutcomesKept(work, work') PROVE Keeps'
  <2>1. Later(state, work) /\ OutcomesKept(state, work)
    BY DEF Advances, Keeps
  <2>2. OutcomesKept(state, work')
    BY <1>2, <1>4, <2>1, OutcomesTrans
  <2> QED
    BY <1>4, <2>2 DEF Keeps
<1>5. CASE UNCHANGED state /\ work' = DeliverEvents(state, tick)
  <2>1. OutcomesKept(state, DeliverEvents(state, tick))
    BY <1>1, DeliverEventsFacts, OutcomesSame
  <2> QED
    BY <1>5, <2>1 DEF Keeps
<1>6. CASE UNCHANGED state /\ work' = work
  BY <1>6 DEF Keeps
<1>7. CASE UNCHANGED state /\ work' = RebuildSlots(work)
  <2>1. RebuildSlots(work).acts = work.acts
    BY <1>1 DEF RebuildSlots, SimState
  <2> QED
    BY <1>7, <2>1 DEF Keeps, OutcomesKept
<1>8. ASSUME UNCHANGED state, NEW d \in Definition, NEW e \in Entities,
             work' = StartAction(work, d, e, NoParent, NoSlot)
      PROVE  Keeps'
  <2>1. /\ NoParent \in Nat /\ NoParent \notin DOMAIN work.acts
        /\ NoSlot \in ChildSlots \union {NoSlot}
    BY <1>1 DEF NoParent, Closed
  <2>2. Later(work, StartAction(work, d, e, NoParent, NoSlot))
    BY <1>1, <2>1, StartActionLater
  <2>3. OutcomesKept(work, StartAction(work, d, e, NoParent, NoSlot))
    <3> DEFINE n == StartAction(work, d, e, NoParent, NoSlot)
    <3>1. \A j \in DOMAIN work.acts : n.acts[j] = work.acts[j]
      BY <1>1, <1>8, <2>1, StartActionType
    <3> HIDE DEF n
    <3>2. OutcomesKept(work, n)
      BY <3>1, OutcomesSame
    <3> QED
      BY <3>2 DEF n
  <2> QED
    BY <1>4, <1>8, <2>2, <2>3
<1>9. ASSUME UNCHANGED state, NEW i \in DOMAIN work.acts, NEW t \in Transitions,
             work.acts[i].life = "RUNNING", ~Raises(work, i, t),
             work' = ApplyTransition(work, tick, i, t)
      PROVE  Keeps'
  <2>1. t \in Transition /\ (t.kind = "CHILD_ACTION" => t.slot \in ChildSlots)
    BY DefinitionAssumption
  <2>2. /\ Later(work, ApplyTransition(work, tick, i, t))
        /\ OutcomesKept(work, ApplyTransition(work, tick, i, t))
    BY <1>1, <1>9, <2>1, ApplyTransitionLater
  <2> QED
    BY <1>4, <1>9, <2>2
<1> QED
  BY <1>3, <1>5, <1>6, <1>7, <1>8, <1>9, WorkSteps DEF WorkStep

\* No tick changes the outcome of an action that ended before it, except that the end of its
\* parent turns an unheard fault of a child into a termination (_terminate_action).
THEOREM OutcomeKeptHolds == Spec => OutcomeKept
<1> DEFINE Kept == \A i \in DOMAIN state.acts :
                     LET a == state.acts[i]
                     IN  Terminal(a) /\ state'.acts[i].life # a.life =>
                           /\ a.life = "FAULTED" /\ ~a.told
                           /\ a.parent # NoParent /\ Terminal(state'.acts[a.parent])
<1>1. IInv /\ Advances /\ Keeps /\ [Next]_vars => [Kept]_vars
  <2> SUFFICES ASSUME IInv, Advances, Keeps, [Next]_vars PROVE Kept
    OBVIOUS
  <2>1. state \in SimState /\ work \in SimState /\ LinksBut(state, {})
    BY DEF IInv, TypeOK, Coherence, Coherent, LinksAgree, LinksBut
  <2>2. ASSUME OutcomesKept(state, state') PROVE Kept
    BY <2>2 DEF OutcomesKept
  <2> HIDE DEF Kept
  <2>3. CASE Commit
    <3>1. /\ state' = Maintain(work, tick) /\ OutcomesKept(state, work)
          /\ DOMAIN state.acts \subseteq DOMAIN work.acts
      BY <2>3 DEF Commit, Keeps, Advances, Later
    <3>2. \A i \in DOMAIN work.acts : state'.acts[i].life = work.acts[i].life
      BY <2>1, <3>1, MaintainFacts
    <3>3. OutcomesKept(state, state')
      BY <3>1, <3>2 DEF OutcomesKept, Terminal
    <3> QED
      BY <2>2, <3>3
  <2>4. ASSUME NEW s \in SimState, Contain(s) PROVE state'.acts = s.acts
    BY <2>4 DEF Contain, RebuildSlots, SimState
  <2>5. ASSUME NEW i \in DOMAIN state.acts, ~Terminal(state.acts[i]), FaultAction(i) PROVE Kept
    <3>1. EndAction(state, i, "FAULTED") \in SimState
      BY <2>1, EndActionType DEF Lives
    <3>2. state'.acts = EndAction(state, i, "FAULTED").acts
      BY <2>4, <2>5, <3>1 DEF FaultAction
    <3>3. OutcomesKept(state, EndAction(state, i, "FAULTED"))
      BY <2>1, <2>5, EndActionKeeps
    <3>4. OutcomesKept(state, state')
      BY <3>2, <3>3 DEF OutcomesKept
    <3> QED
      BY <2>2, <3>4
  <2>6. ASSUME NEW e, FaultEntity(e) PROVE Kept
    <3>1. e \in Entities /\ Contain(EndEntity(state, e))
      BY <2>6 DEF FaultEntity
    <3>2. state'.acts = EndEntity(state, e).acts
      BY <2>1, <2>4, <3>1, EndEntityType
    <3>3. \A j \in DOMAIN state.acts :
            j \notin LiveOf(state, e) => EndEntity(state, e).acts[j].life = state.acts[j].life
      BY <2>1, <3>1, EndEntityFacts
    <3>4. OutcomesKept(state, state')
      BY <3>2, <3>3 DEF OutcomesKept, LiveOf
    <3> QED
      BY <2>2, <3>4
  <2>7. CASE UNCHANGED <<tick, state, lastFault>>
    BY <2>2, <2>7, OutcomesSame
  <2> QED
    BY <2>3, <2>5, <2>6, <2>7, BlamedIsLive
<1>2. Init => Keeps
  BY OutcomesSame DEF Init, Keeps
<1>3. IInv /\ Advances /\ Keeps /\ [Next]_vars => Keeps'
  BY KeepsNext
<1> QED
  BY <1>1, <1>2, <1>3, IInvAlways, AdvancesAlways, PTL DEF Spec, OutcomeKept

\* The children an action had between two ticks meet their policies when it ends.
THEOREM ChildPolicyHonouredAlways == Spec => ChildPolicyHonoured
<1> DEFINE Met(p) == \A c \in state.acts[p].kids :
                       LET policy == TermPolicy[state.acts[c].slot]
                           ended  == Terminal(state'.acts[c])
                       IN  /\ policy = "TERMINATE_CHILD" => ended
                           /\ policy = "DETACH_CHILD" => ended \/ state'.acts[c].parent = NoParent
                           /\ policy = "FAULT_IF_OCCUPIED" => ended /\ FaultPolicy = "FAULT_ENTITY"
           Honoured == \A p \in DOMAIN state.acts :
                         ~Terminal(state.acts[p]) /\ Terminal(state'.acts[p]) => Met(p)
<1>1. IInv /\ Advances /\ [Next]_vars => [Honoured]_vars
  <2> SUFFICES ASSUME IInv, Advances, [Next]_vars, NEW p \in DOMAIN state.acts,
                      ~Terminal(state.acts[p]), Terminal(state'.acts[p])
               PROVE  Met(p)
    OBVIOUS
  <2>0. state \in SimState
    BY DEF IInv, TypeOK
  <2>1. /\ \A c \in state.acts[p].kids : c \in DOMAIN state.acts
        /\ \A c \in state.acts[p].kids : state.acts[c].owner = state.acts[p].owner
    BY DEF IInv, Coherence, Coherent, LinksAgree, NoParent
  <2>2. CASE Returned
    <3>1. CASE Later(state, work) /\ work \in SimState /\ state' = Maintain(work, tick)
      <4>1. DOMAIN state.acts \subseteq DOMAIN work.acts
        BY <3>1 DEF Later
      <4>2. Terminal(work.acts[p])
        BY <3>1, <4>1, CommittedFacts
      <4>3. KidsMet(state, work, p)
        BY <3>1, <4>2 DEF Later
      <4> QED
        BY <2>1, <3>1, <4>1, <4>3, CommittedFacts DEF KidsMet
    <3>2. ASSUME NEW i \in DOMAIN state.acts, Later(state, EndAction(state, i, "FAULTED")),
                 state'.acts = EndAction(state, i, "FAULTED").acts
          PROVE  Met(p)
      <4> DEFINE s == EndAction(state, i, "FAULTED")
      <4>1. Terminal(s.acts[p]) /\ \A c \in state.acts[p].kids :
              Terminal(s.acts[c]) = Terminal(state'.acts[c])
        BY <3>2 DEF Terminal
      <4>2. Later(state, s)
        BY <3>2
      <4>3. s.acts = state'.acts
        BY <3>2
      <4> HIDE DEF s
      <4>4. KidsMet(state, s, p)
        BY <4>1, <4>2 DEF Later
      <4> QED
        BY <4>1, <4>3, <4>4 DEF KidsMet
    <3>3. ASSUME NEW e \in Entities, FaultPolicy = "FAULT_ENTITY",
                 state'.acts = EndEntity(state, e).acts,
                 state'.tokens = EndEntity(state, e).tokens
          PROVE  Met(p)
      <4>1. state.acts[p].owner = e
        BY <2>0, <3>3, FaultedFacts
      <4>2. \A c \in state.acts[p].kids : Terminal(state'.acts[c])
        BY <2>0, <2>1, <3>3, <4>1, FaultedFacts
      <4> QED
        BY <3>3, <4>2
    <3> QED
      BY <2>2, <3>1, <3>2, <3>3 DEF Returned
  <2>3. CASE UNCHANGED <<tick, state, lastFault>>
    BY <2>3 DEF Terminal
  <2> QED
    BY <2>2, <2>3, ReturnedSteps
<1> QED
  BY <1>1, IInvAlways, AdvancesAlways, PTL DEF Spec, ChildPolicyHonoured

\* Faulting an entity leaves an action alone that is not linked to one it faults.
LEMMA EndEntitySpares ==
  ASSUME NEW s \in SimState, NEW e \in Entities, NEW j \in DOMAIN s.acts,
         j \notin LiveOf(s, e), s.acts[j].parent \notin LiveOf(s, e),
         \A c \in s.acts[j].kids : c \notin LiveOf(s, e)
  PROVE  EndEntity(s, e).acts[j] = s.acts[j]
<1> DEFINE D == LiveOf(s, e)
           a == s.acts[j]
           n == EndEntity(s, e).acts[j]
           cut == (j \in D) # (a.parent \in D)
           life == IF j \in D THEN "FAULTED" ELSE a.life
           kids == IF j \in D THEN a.kids \intersect D ELSE a.kids \ D
           parent == IF cut THEN NoParent ELSE a.parent
           slot == IF cut THEN NoSlot ELSE a.slot
<1>1. a \in Action
  BY ActsFacts
<1>2. n = [a EXCEPT !.life = life, !.kids = kids, !.parent = parent, !.slot = slot]
  BY DEF EndEntity, SimState
<1>3. life = a.life /\ parent = a.parent /\ slot = a.slot
  OBVIOUS
<1>4. kids = a.kids \ D /\ a.kids \ D = a.kids
  OBVIOUS
<1> HIDE DEF D, a, n, cut, life, kids, parent, slot
<1>5. n = a
  BY <1>1, <1>2, <1>3, <1>4 DEF Action
<1> QED
  BY <1>5 DEF n, a

\* A contained tick starts nothing, and changes the actions of one entity only: children
\* belong to the entity of their parent, so neither ending nor cutting links leaves it.
THEOREM FaultIsolationHolds == Spec => FaultIsolation
<1> DEFINE Isolated == lastFault' # lastFault =>
                         /\ DOMAIN state'.acts = DOMAIN state.acts
                         /\ \E e \in Entities : \A i \in DOMAIN state.acts :
                              state.acts[i].owner # e => state'.acts[i] = state.acts[i]
<1>1. IInv /\ Advances /\ [Next]_vars => [Isolated]_vars
  <2> SUFFICES ASSUME IInv, Advances, [Next]_vars, lastFault' # lastFault
               PROVE  /\ DOMAIN state'.acts = DOMAIN state.acts
                      /\ \E e \in Entities : \A i \in DOMAIN state.acts :
                           state.acts[i].owner # e => state'.acts[i] = state.acts[i]
    OBVIOUS
  <2>1. state \in SimState
    BY DEF IInv, TypeOK
  <2>2. \A j \in DOMAIN state.acts :
          /\ state.acts[j].owner \in Entities
          /\ NoParent \notin DOMAIN state.acts
          /\ state.acts[j].parent # NoParent =>
               state.acts[state.acts[j].parent].owner = state.acts[j].owner
          /\ \A c \in state.acts[j].kids :
               c \in DOMAIN state.acts /\ state.acts[c].owner = state.acts[j].owner
    BY <2>1, ActsFacts DEF IInv, Coherence, Coherent, LinksAgree, Action
  <2>3. ASSUME NEW i \in DOMAIN state.acts, state'.acts = EndAction(state, i, "FAULTED").acts
        PROVE  /\ DOMAIN state'.acts = DOMAIN state.acts
               /\ \A j \in DOMAIN state.acts :
                    state.acts[j].owner # state.acts[i].owner => state'.acts[j] = state.acts[j]
    <3> DEFINE D == Doomed(state, i)
               X == KidsUnder(state, D, "DETACH_CHILD")
               Own == {j \in DOMAIN state.acts : state.acts[j].owner = state.acts[i].owner}
    <3>1. i \in Own /\ Own \in SUBSET (DOMAIN state.acts)
      OBVIOUS
    <3>2. ASSUME NEW policy, NEW S, S \subseteq Own PROVE KidsUnder(state, S, policy) \subseteq Own
      BY <2>2, <3>2 DEF KidsUnder
    <3>3. D \subseteq Own
      <4>1. KidsUnder(state, Own, "TERMINATE_CHILD") \subseteq Own
        BY <3>2
      <4> HIDE DEF Own
      <4> QED
        BY <2>1, <3>1, <4>1, DoomedFacts
    <3>4. X \subseteq Own
      BY <3>2, <3>3
    <3>5. DOMAIN state'.acts = DOMAIN state.acts
      BY <2>1, <2>3, EndActionType DEF Lives
    <3>6. \A j \in DOMAIN state.acts :
            j \notin D /\ j \notin X => state'.acts[j] = state.acts[j]
      BY <2>1, <2>3, EndActionActs DEF Lives
    <3> QED
      BY <3>3, <3>4, <3>5, <3>6
  <2>4. ASSUME NEW e \in Entities, state'.acts = EndEntity(state, e).acts
        PROVE  /\ DOMAIN state'.acts = DOMAIN state.acts
               /\ \A j \in DOMAIN state.acts :
                    state.acts[j].owner # e => state'.acts[j] = state.acts[j]
    <3>1. DOMAIN state'.acts = DOMAIN state.acts
      BY <2>1, <2>4, EndEntityType
    <3>2. ASSUME NEW j \in DOMAIN state.acts, state.acts[j].owner # e
          PROVE  state'.acts[j] = state.acts[j]
      <4>1. /\ j \notin LiveOf(state, e) /\ state.acts[j].parent \notin LiveOf(state, e)
            /\ \A c \in state.acts[j].kids : c \notin LiveOf(state, e)
        BY <2>2, <3>2 DEF LiveOf
      <4>2. EndEntity(state, e).acts[j] = state.acts[j]
        BY <2>1, <4>1, EndEntitySpares
      <4> QED
        BY <2>4, <4>2
    <3> QED
      BY <3>1, <3>2
  <2> QED
    BY <2>2, <2>3, <2>4, ReturnedSteps DEF Returned
<1> QED
  BY <1>1, IInvAlways, AdvancesAlways, PTL DEF Spec, FaultIsolation

-----------------------------------------------------------------------------
(* The forest *)

\* What the abstract forest sees of an instance.
NodeOf(s, i) == [owner    |-> s.acts[i].owner,
                 parent   |-> s.acts[i].parent,
                 over     |-> Terminal(s.acts[i]),
                 reported |-> s.acts[i].told]

View(s) == [i \in DOMAIN s.acts |-> NodeOf(s, i)]

\* The view of a state is a sequence of as many nodes as the state has instances.
LEMMA ViewFacts ==
  ASSUME NEW s \in SimState
  PROVE  /\ View(s) \in Seq(Forest!Node)
         /\ Len(View(s)) = Len(s.acts) /\ Len(s.acts) \in Nat
         /\ DOMAIN s.acts = 1 .. Len(s.acts) /\ DOMAIN View(s) = 1 .. Len(s.acts)
         /\ \A i \in DOMAIN s.acts :
              /\ View(s)[i].owner = s.acts[i].owner
              /\ View(s)[i].parent = s.acts[i].parent
              /\ View(s)[i].over = Terminal(s.acts[i])
              /\ View(s)[i].reported = s.acts[i].told
<1>1. Len(s.acts) \in Nat /\ DOMAIN s.acts = 1 .. Len(s.acts)
  BY ActsFacts
<1>2. ASSUME NEW i \in DOMAIN s.acts PROVE NodeOf(s, i) \in Forest!Node
  <2>1. s.acts[i] \in Action
    BY ActsFacts
  <2>2. Terminal(s.acts[i]) \in BOOLEAN
    BY DEF Terminal
  <2> QED
    BY <2>1, <2>2 DEF NodeOf, Action, Forest!Node
<1>3. View(s) \in [1 .. Len(s.acts) -> Forest!Node]
  BY <1>1, <1>2 DEF View
<1>4. View(s) \in Seq(Forest!Node)
  BY <1>1, <1>3, SeqDef
<1>5. Len(View(s)) = Len(s.acts)
  BY <1>1, <1>3, <1>4, LenProperties
<1>6. ASSUME NEW i \in DOMAIN s.acts
      PROVE  /\ View(s)[i].owner = s.acts[i].owner
             /\ View(s)[i].parent = s.acts[i].parent
             /\ View(s)[i].over = Terminal(s.acts[i])
             /\ View(s)[i].reported = s.acts[i].told
  BY DEF View, NodeOf
<1> QED
  BY <1>1, <1>3, <1>4, <1>5, <1>6

\* What a returned tick did to the instances of the forest, and to those it started.
LEMMA ReturnedForest ==
  ASSUME IInv, Advances, Returned
  PROVE  /\ DOMAIN state.acts \subseteq DOMAIN state'.acts
         /\ \A i \in DOMAIN state.acts :
              /\ state'.acts[i].owner = state.acts[i].owner
              /\ state'.acts[i].parent \in {state.acts[i].parent, NoParent}
              /\ Terminal(state.acts[i]) => Terminal(state'.acts[i])
              /\ state.acts[i].told => state'.acts[i].told
              /\ ~state.acts[i].told /\ state'.acts[i].told =>
                   Terminal(state'.acts[i]) /\ state'.acts[i].parent # NoParent
         /\ \A i \in DOMAIN state'.acts \ DOMAIN state.acts :
              /\ state'.acts[i].parent \in DOMAIN state.acts =>
                   ~Terminal(state.acts[state'.acts[i].parent])
              /\ state'.acts[i].told =>
                   Terminal(state'.acts[i]) /\ state'.acts[i].parent # NoParent
<1>1. state \in SimState
  BY DEF IInv, TypeOK
<1>2. CASE Later(state, work) /\ work \in SimState /\ state' = Maintain(work, tick)
  <2>1. \A c \in Finished(work) :
          c \in DOMAIN work.acts /\ Terminal(work.acts[c]) /\ work.acts[c].parent # NoParent
    BY DEF Finished
  <2>2. /\ DOMAIN state.acts \subseteq DOMAIN state'.acts
        /\ DOMAIN state'.acts = DOMAIN work.acts
        /\ \A i \in DOMAIN work.acts :
             /\ state'.acts[i].owner = work.acts[i].owner
             /\ state'.acts[i].parent = work.acts[i].parent
             /\ Terminal(state'.acts[i]) = Terminal(work.acts[i])
             /\ state'.acts[i].told = (work.acts[i].told \/ i \in Finished(work))
    BY <1>2, CommittedFacts
  <2>3. ASSUME NEW i \in DOMAIN state.acts
        PROVE  /\ state'.acts[i].owner = state.acts[i].owner
               /\ state'.acts[i].parent \in {state.acts[i].parent, NoParent}
               /\ Terminal(state.acts[i]) => Terminal(state'.acts[i])
               /\ state.acts[i].told => state'.acts[i].told
               /\ ~state.acts[i].told /\ state'.acts[i].told =>
                    Terminal(state'.acts[i]) /\ state'.acts[i].parent # NoParent
    <3>1. /\ i \in DOMAIN work.acts
          /\ work.acts[i].owner = state.acts[i].owner
          /\ work.acts[i].parent \in {state.acts[i].parent, NoParent}
          /\ Terminal(state.acts[i]) => Terminal(work.acts[i])
          /\ work.acts[i].told = state.acts[i].told
      BY <1>2 DEF Later
    <3> QED
      BY <2>1, <2>2, <3>1
  <2>4. ASSUME NEW i \in DOMAIN state'.acts \ DOMAIN state.acts
        PROVE  /\ state'.acts[i].parent \in DOMAIN state.acts =>
                    ~Terminal(state.acts[state'.acts[i].parent])
               /\ state'.acts[i].told =>
                    Terminal(state'.acts[i]) /\ state'.acts[i].parent # NoParent
    <3>1. /\ ~work.acts[i].told
          /\ work.acts[i].parent \in DOMAIN state.acts =>
               ~Terminal(state.acts[work.acts[i].parent])
      BY <1>2, <2>2 DEF Later
    <3> QED
      BY <2>1, <2>2, <3>1
  <2> QED
    BY <2>2, <2>3, <2>4
<1>3. ASSUME NEW i \in DOMAIN state.acts, Later(state, EndAction(state, i, "FAULTED")),
             state'.acts = EndAction(state, i, "FAULTED").acts
      PROVE  /\ DOMAIN state'.acts = DOMAIN state.acts
             /\ \A j \in DOMAIN state.acts :
                  /\ state'.acts[j].owner = state.acts[j].owner
                  /\ state'.acts[j].parent \in {state.acts[j].parent, NoParent}
                  /\ Terminal(state.acts[j]) => Terminal(state'.acts[j])
                  /\ state'.acts[j].told = state.acts[j].told
  <2>1. DOMAIN state'.acts = DOMAIN state.acts
    BY <1>1, <1>3, EndActionType DEF Lives
  <2> QED
    BY <1>3, <2>1 DEF Later, Terminal
<1>4. ASSUME NEW e \in Entities, state'.acts = EndEntity(state, e).acts,
             state'.tokens = EndEntity(state, e).tokens
      PROVE  /\ DOMAIN state'.acts = DOMAIN state.acts
             /\ \A j \in DOMAIN state.acts :
                  /\ state'.acts[j].owner = state.acts[j].owner
                  /\ state'.acts[j].parent \in {state.acts[j].parent, NoParent}
                  /\ Terminal(state.acts[j]) => Terminal(state'.acts[j])
                  /\ state'.acts[j].told = state.acts[j].told
  BY <1>1, <1>4, FaultedFacts
<1> QED
  BY <1>2, <1>3, <1>4 DEF Returned

\* The states between ticks implement the abstract forest: identities and owners are kept,
\* what is over stays over, links are made once and only cut, an end is reported at most
\* once, and no action that was over starts a child.
THEOREM ForestImplemented == Spec => ForestSpec
<1> USE DEF NoParent
<1>1. Init => View(state) = << >>
  BY DEF Init, EmptyState, View
<1>2. IInv /\ Advances /\ [Next]_vars =>
        \/ UNCHANGED state
        \/ /\ View(state)' \in Seq(Forest!Node)
           /\ Len(View(state)) <= Len(View(state)')
           /\ \A i \in 1 .. Len(View(state)) :
                /\ Forest!Kept(View(state)[i], View(state)'[i])
                /\ Forest!Reports(View(state)[i], View(state)'[i])
           /\ \A i \in Len(View(state)) + 1 .. Len(View(state)') :
                LET a == View(state)'[i] IN
                /\ a.parent \in 0 .. (i - 1)
                /\ a.parent # 0 => View(state)'[a.parent].owner = a.owner
                /\ a.parent \in DOMAIN View(state) => ~View(state)[a.parent].over
                /\ a.reported => a.over /\ a.parent # 0
  <2> SUFFICES ASSUME IInv, Advances, [Next]_vars, Returned
               PROVE  /\ View(state)' \in Seq(Forest!Node)
                      /\ Len(View(state)) <= Len(View(state)')
                      /\ \A i \in 1 .. Len(View(state)) :
                           /\ Forest!Kept(View(state)[i], View(state)'[i])
                           /\ Forest!Reports(View(state)[i], View(state)'[i])
                      /\ \A i \in Len(View(state)) + 1 .. Len(View(state)') :
                           LET a == View(state)'[i] IN
                           /\ a.parent \in 0 .. (i - 1)
                           /\ a.parent # 0 => View(state)'[a.parent].owner = a.owner
                           /\ a.parent \in DOMAIN View(state) => ~View(state)[a.parent].over
                           /\ a.reported => a.over /\ a.parent # 0
    BY ReturnedSteps
  <2>1. /\ state \in SimState /\ state' \in SimState
        /\ LinksAgree(state')
    <3>1. IInv'
      BY NextIInv
    <3> QED
      BY <3>1 DEF IInv, TypeOK, Coherence, Coherent
  <2>2. View(state)' = View(state')
    BY DEF View, NodeOf, Terminal
  <2>3. ASSUME NEW i \in DOMAIN state.acts
        PROVE  /\ Forest!Kept(View(state)[i], View(state')[i])
               /\ Forest!Reports(View(state)[i], View(state')[i])
    <3>1. i \in DOMAIN state'.acts
      BY ReturnedForest
    <3> QED
      BY <2>1, <3>1, ReturnedForest, ViewFacts DEF Forest!Kept, Forest!Reports
  <2>4. ASSUME NEW i \in DOMAIN state'.acts \ DOMAIN state.acts
        PROVE  LET a == View(state')[i] IN
               /\ a.parent \in 0 .. (i - 1)
               /\ a.parent # 0 => View(state')[a.parent].owner = a.owner
               /\ a.parent \in DOMAIN View(state) => ~View(state)[a.parent].over
               /\ a.reported => a.over /\ a.parent # 0
    <3> DEFINE p == state'.acts[i].parent
    <3>1. p \in 0 .. (i - 1) /\ (p # 0 => state'.acts[p].owner = state'.acts[i].owner)
      BY <2>1 DEF LinksAgree
    <3>2. p # 0 => p \in DOMAIN state'.acts
      BY <2>1, <3>1, ActsFacts
    <3>3. p \in DOMAIN state.acts => ~Terminal(state.acts[p])
      BY ReturnedForest
    <3>4. state'.acts[i].told => Terminal(state'.acts[i]) /\ p # 0
      BY ReturnedForest
    <3> QED
      BY <2>1, <3>1, <3>2, <3>3, <3>4, ViewFacts
  <2>5. DOMAIN state.acts \subseteq DOMAIN state'.acts
    BY ReturnedForest
  <2>6. Len(state.acts) <= Len(state'.acts)
    BY <2>1, <2>5, ActsFacts
  <2>7. \A i \in Len(state.acts) + 1 .. Len(state'.acts) : i \in DOMAIN state'.acts \ DOMAIN state.acts
    BY <2>1, ActsFacts
  <2> QED
    BY <2>1, <2>2, <2>3, <2>4, <2>6, <2>7, ViewFacts
<1>3. UNCHANGED state => UNCHANGED View(state)
  BY DEF View, NodeOf, Terminal
<1> DEFINE seen == [i \in DOMAIN state.acts |-> [owner    |-> state.acts[i].owner,
                                                 parent   |-> state.acts[i].parent,
                                                 over     |-> Terminal(state.acts[i]),
                                                 reported |-> state.acts[i].told]]
<1>4. seen = View(state) /\ seen' = View(state)'
  BY DEF View, NodeOf
<1>5. Init => Forest!Init
  BY <1>1, <1>4 DEF Forest!Init
<1>6. IInv /\ Advances /\ [Next]_vars => [Forest!Tick]_seen
  <2> HIDE DEF seen
  <2> QED
    BY <1>2, <1>3, <1>4 DEF Forest!Tick, Forest!Started, seen
<1> QED
  BY <1>5, <1>6, IInvAlways, AdvancesAlways, PTL DEF Spec, ForestSpec, Forest!Spec

-----------------------------------------------------------------------------
(* Without containment *)

\* Under ABORT_SIMULATION every returned tick has run to its end: what is pending at a tick
\* is due at it, the tick takes all of it, and every end is reported in its own tick.
Timely ==
  /\ \A e \in state.events : e.due = tick
  /\ pc # "idle" => work.events = {}
  /\ AllReported

AbortInv == FaultPolicy = "ABORT_SIMULATION" => Timely

\* Every step of a simulation that contains nothing.
LEMMA AbortInvNext == IInv /\ AbortInv /\ [Next]_vars => AbortInv'
<1> SUFFICES ASSUME IInv, Timely, [Next]_vars, FaultPolicy = "ABORT_SIMULATION" PROVE Timely'
  BY DEF AbortInv
<1>1. /\ state \in SimState /\ work \in SimState /\ Coherent(work) /\ tick \in Nat
      /\ Closed(work)
  BY StateClosed DEF IInv, TypeOK, Coherence
<1>2. CASE Commit
  <2>1. state' = Maintain(work, tick) /\ tick' = tick + 1 /\ pc' = "idle" /\ work.events = {}
    BY <1>2 DEF Commit, Idle, Timely
  <2>2. \A e \in state'.events : e.due = tick + 1
    BY <1>1, <2>1, MaintainFacts
  <2>3. AllReported'
    BY <1>1, <2>1, MaintainReports DEF AllReported
  <2> QED
    BY <2>1, <2>2, <2>3 DEF Timely
<1>3. CASE UNCHANGED <<tick, state, lastFault>>
  <2>1. AllReported' /\ \A e \in state'.events : e.due = tick'
    BY <1>3 DEF Timely, AllReported
  <2>2. ASSUME pc' # "idle" PROVE work'.events = {}
    <3>1. CASE work' = work /\ (pc = "idle" <=> pc' = "idle")
      BY <2>2, <3>1 DEF Timely
    <3>2. CASE work' = DeliverEvents(state, tick)
      <4>1. work'.events = state.events \ Due(state, tick)
        BY <1>1, <3>2, DeliverEventsFacts
      <4>2. Due(state, tick) = state.events
        BY DEF Timely, Due
      <4> QED
        BY <4>1, <4>2
    <3>3. CASE pc # "idle" /\ work' = RebuildSlots(work)
      BY <1>1, <3>3 DEF RebuildSlots, SimState, Timely
    <3>4. ASSUME pc # "idle", NEW d \in Definition, NEW e \in Entities,
                 work' = StartAction(work, d, e, NoParent, NoSlot)
          PROVE  work'.events = {}
      BY <1>1, <3>4 DEF StartAction, SimState, Timely
    <3>5. ASSUME pc # "idle", NEW i \in DOMAIN work.acts, NEW t \in Transitions,
                 work.acts[i].life = "RUNNING", ~Raises(work, i, t),
                 work' = ApplyTransition(work, tick, i, t)
          PROVE  work'.events = {}
      <4>1. t \in Transition /\ (t.kind = "CHILD_ACTION" => t.slot \in ChildSlots)
        BY DefinitionAssumption
      <4>2. ApplyTransition(work, tick, i, t).events = work.events
        BY <1>1, <3>5, <4>1, ApplyTransitionLater
      <4> QED
        BY <3>5, <4>2 DEF Timely
    <3> QED
      BY <2>2, <3>1, <3>2, <3>3, <3>4, <3>5, WorkSteps DEF WorkStep
  <2> QED
    BY <2>1, <2>2 DEF Timely
<1> QED
  BY <1>2, <1>3, StateSteps DEF Contained

\* Every state of a simulation that contains nothing.
LEMMA AbortInvAlways == Spec => []AbortInv
<1>1. Init => AbortInv
  BY DEF Init, AbortInv, Timely, AllReported, EmptyState
<1>2. IInv /\ AbortInv /\ [Next]_vars => AbortInv'
  BY AbortInvNext
<1> QED
  BY <1>1, <1>2, IInvAlways, PTL DEF Spec

\* Under ABORT_SIMULATION no pending event is ever past its delivery tick: only a contained
\* tick leaves one behind.
THEOREM NeverStaleUnderAbort ==
  Spec => [](FaultPolicy = "ABORT_SIMULATION" => NeverStale)
<1>1. IInv /\ AbortInv => (FaultPolicy = "ABORT_SIMULATION" => NeverStale)
  <2> SUFFICES ASSUME IInv, Timely, NEW e \in state.events PROVE ~(e.due < tick)
    BY DEF AbortInv, NeverStale, Stale
  <2> QED
    BY DEF Timely, IInv, TypeOK
<1> QED
  BY <1>1, IInvAlways, AbortInvAlways, PTL

\* Under ABORT_SIMULATION the end of a child is published in its own tick.
THEOREM ResultsPublishedUnderAbort ==
  Spec => [](FaultPolicy = "ABORT_SIMULATION" => ResultsPublishedAtOnce)
<1>1. AbortInv => (FaultPolicy = "ABORT_SIMULATION" => ResultsPublishedAtOnce)
  BY DEF AbortInv, Timely, ResultsPublishedAtOnce
<1> QED
  BY <1>1, AbortInvAlways, PTL

-----------------------------------------------------------------------------
(***************************************************************************)
(* The action slots that the arbitration books.                            *)
(*                                                                         *)
(* A stage is arbitrated on the usage of its start while the actions that  *)
(* hold the slots end under it: what is booked is not what is held.  The   *)
(* invariant counts, beside the live claimants, the actions whose claim an *)
(* intent still to be arbitrated will give back.                           *)
(***************************************************************************)

-----------------------------------------------------------------------------
(* The instances a transition adds *)

\* A launched child takes the claim of its definition, for the entity of its parent, and
\* ends other actions at most.
LEMMA LaunchChildActs ==
  ASSUME NEW s \in SimState, Coherent(s), NEW now \in Nat, NEW i \in DOMAIN s.acts,
         ~Terminal(s.acts[i]), NEW t \in Transition, t.slot \in ChildSlots,
         NEW c, c = Len(s.acts) + 1, NEW n, n = LaunchChild(s, now, i, t)
  PROVE  /\ DOMAIN n.acts = DOMAIN s.acts \union {c}
         /\ n.acts[c].owner = s.acts[i].owner
         /\ n.acts[c].claim = t.target.claim
         /\ \A j \in DOMAIN s.acts : n.acts[j].life \in {s.acts[j].life, "TERMINATED"}
<1> DEFINE o == s.acts[i].owner
           started == StartAction(s, t.target, o, i, t.slot)
           settled == IF t.policy = "TERMINATE_PARENT" THEN EndAction(started, i, "TERMINATED")
                      ELSE started
           freeze  == [src |-> c, tgt |-> i, from |-> now + 1, domains |-> FrozenBy(t.policy)]
           q == [settled.acts EXCEPT ![i].kids = @ \union {c}]
           T == IF FrozenBy(t.policy) = {} THEN settled.tokens ELSE settled.tokens \union {freeze}
<1>1. /\ i \in Nat /\ i # NoParent /\ o \in Entities /\ t.target \in Definition
      /\ t.slot \in ChildSlots \union {NoSlot} /\ Closed(s)
  BY ActsFacts, CoherentIsCoherentBut, CoherentClosed DEF Action, Transition
<1>2. /\ started \in SimState
      /\ DOMAIN started.acts = DOMAIN s.acts \union {c}
      /\ \A j \in DOMAIN s.acts : started.acts[j] = s.acts[j]
      /\ started.acts[c].owner = o /\ started.acts[c].claim = t.target.claim
  <2>1. /\ started \in SimState
        /\ DOMAIN started.acts = DOMAIN s.acts \union {c}
        /\ \A j \in DOMAIN s.acts : started.acts[j] = s.acts[j]
    BY <1>1, StartActionType
  <2>2. started.acts[c]
          = [owner |-> o, life |-> IF t.target.terminal THEN "TERMINATED" ELSE "RUNNING",
             parent |-> i, slot |-> t.slot, kids |-> {}, told |-> FALSE,
             inbox |-> {}, claim |-> t.target.claim]
    BY <1>1, StartActionLater
  <2> HIDE DEF started, o
  <2> QED
    BY <2>1, <2>2
<1> HIDE DEF o, started
<1>3. /\ settled \in SimState /\ DOMAIN settled.acts = DOMAIN started.acts
      /\ \A j \in DOMAIN started.acts :
           /\ settled.acts[j].owner = started.acts[j].owner
           /\ settled.acts[j].claim = started.acts[j].claim
           /\ settled.acts[j].life \in {started.acts[j].life, "TERMINATED"}
  <2>1. CASE t.policy = "TERMINATE_PARENT"
    <3>1. settled = EndAction(started, i, "TERMINATED") /\ i \in DOMAIN started.acts
      BY <1>2, <2>1
    <3> HIDE DEF settled
    <3>2. settled \in SimState /\ DOMAIN settled.acts = DOMAIN started.acts
      BY <1>2, <3>1, EndActionType DEF Lives
    <3>3. \A j \in DOMAIN started.acts :
            /\ settled.acts[j].owner = started.acts[j].owner
            /\ settled.acts[j].claim = started.acts[j].claim
            /\ settled.acts[j].life \in {started.acts[j].life, "TERMINATED"}
      BY <1>2, <3>1, EndActionActs DEF Lives
    <3> QED
      BY <3>2, <3>3
  <2>2. CASE t.policy # "TERMINATE_PARENT"
    BY <1>2, <2>2
  <2> QED
    BY <2>1, <2>2
<1>4. n = [settled EXCEPT !.acts = q, !.tokens = T]
  BY DEF LaunchChild, started, o
<1> HIDE DEF settled
<1>5. n.acts = q
  <2> HIDE DEF q, T
  <2> QED
    BY <1>3, <1>4 DEF SimState
<1>6. /\ DOMAIN n.acts = DOMAIN settled.acts
      /\ \A j \in DOMAIN settled.acts : j # i => n.acts[j] = settled.acts[j]
      /\ n.acts[i] = [settled.acts[i] EXCEPT !.kids = @ \union {c}]
      /\ i \in DOMAIN settled.acts
  BY <1>2, <1>3, <1>5
<1>7. \A j \in DOMAIN settled.acts :
        /\ n.acts[j].owner = settled.acts[j].owner
        /\ n.acts[j].claim = settled.acts[j].claim
        /\ n.acts[j].life = settled.acts[j].life
  <2>1. settled.acts[i] \in Action
    BY <1>3, <1>6, ActsFacts
  <2>2. /\ n.acts[i].owner = settled.acts[i].owner
        /\ n.acts[i].claim = settled.acts[i].claim
        /\ n.acts[i].life = settled.acts[i].life
    BY <1>6, <2>1 DEF Action
  <2> QED
    BY <1>6, <2>2
<1> QED
  BY <1>2, <1>3, <1>6, <1>7 DEF o

\* A transition adds one instance at most, which takes the claim of the launched definition
\* for the entity of its source; TERMINATE_SOURCE ends the source; no action but the source
\* is suspended.
LEMMA ApplyTransitionActs ==
  ASSUME NEW s \in SimState, Coherent(s), NEW now \in Nat, NEW i \in DOMAIN s.acts,
         s.acts[i].life = "RUNNING", NEW t \in Transition,
         t.kind = "CHILD_ACTION" => t.slot \in ChildSlots,
         NEW c, c = Len(s.acts) + 1, NEW n, n = ApplyTransition(s, now, i, t)
  PROVE  /\ DOMAIN n.acts \subseteq DOMAIN s.acts \union {c}
         /\ c \in DOMAIN n.acts => /\ t.kind \in LaunchKinds
                                   /\ n.acts[c].owner = s.acts[i].owner
                                   /\ n.acts[c].claim = t.target.claim
         /\ t.kind = "TERMINATE_SOURCE" => Terminal(n.acts[i])
         /\ \A j \in DOMAIN s.acts :
              j # i => n.acts[j].life \in {s.acts[j].life, "TERMINATED"}
<1> DEFINE o == s.acts[i].owner
           Launch(from) == StartAction(from, t.target, o, NoParent, NoSlot)
           suspended == [s EXCEPT !.acts[i].life = "SUSPENDED"]
<1>1. /\ s.acts[i] \in Action /\ o \in Entities /\ t.target \in Definition
      /\ ~Terminal(s.acts[i]) /\ c \notin DOMAIN s.acts
  BY ActsFacts DEF Action, Transition, Terminal
<1>2. CoherentBut(s, {}) /\ Closed(s)
  BY CoherentIsCoherentBut, CoherentClosed
<1>3. ASSUME NEW life \in {"TERMINATED", "FAULTED"}
      PROVE  /\ EndAction(s, i, life) \in SimState /\ Closed(EndAction(s, i, life))
             /\ DOMAIN EndAction(s, i, life).acts = DOMAIN s.acts
             /\ Len(EndAction(s, i, life).acts) = Len(s.acts)
             /\ EndAction(s, i, life).acts[i].life = life
             /\ \A j \in DOMAIN s.acts :
                  j # i => EndAction(s, i, life).acts[j].life \in {s.acts[j].life, "TERMINATED"}
  <2>1. /\ EndAction(s, i, life) \in SimState
        /\ DOMAIN EndAction(s, i, life).acts = DOMAIN s.acts
        /\ Len(EndAction(s, i, life).acts) = Len(s.acts)
    BY EndActionType DEF Lives
  <2>2. Closed(EndAction(s, i, life))
    <3>1. CoherentBut(EndAction(s, i, life), {})
      BY <1>2, EndActionCoherent
    <3> QED
      BY <2>1, <3>1, CoherentClosed
  <2>3. ASSUME NEW j \in DOMAIN s.acts, j # i
        PROVE  EndAction(s, i, life).acts[j].life \in {s.acts[j].life, "TERMINATED"}
    BY <2>3, EndActionActs DEF Lives
  <2>4. EndAction(s, i, life).acts[i].life = life
    BY DoomedFacts, EndActionActs DEF Lives
  <2> QED
    BY <2>1, <2>2, <2>3, <2>4
<1>4. ASSUME NEW from \in SimState, Closed(from), DOMAIN from.acts = DOMAIN s.acts,
             Len(from.acts) = Len(s.acts)
      PROVE  /\ DOMAIN Launch(from).acts = DOMAIN s.acts \union {c}
             /\ Launch(from).acts[c].owner = o /\ Launch(from).acts[c].claim = t.target.claim
             /\ \A j \in DOMAIN s.acts : Launch(from).acts[j] = from.acts[j]
  <2> DEFINE n2 == Launch(from)
  <2>1. /\ NoParent \in Nat /\ NoParent \notin DOMAIN from.acts
        /\ NoSlot \in ChildSlots \union {NoSlot}
    BY <1>4 DEF NoParent, Closed
  <2>2. /\ DOMAIN n2.acts = DOMAIN s.acts \union {c}
        /\ \A j \in DOMAIN s.acts : n2.acts[j] = from.acts[j]
    BY <1>1, <1>4, <2>1, StartActionType
  <2>3. n2.acts[Len(from.acts) + 1]
          = [owner |-> o, life |-> IF t.target.terminal THEN "TERMINATED" ELSE "RUNNING",
             parent |-> NoParent, slot |-> NoSlot, kids |-> {}, told |-> FALSE,
             inbox |-> {}, claim |-> t.target.claim]
    <3>1. Closed(from)
      BY <1>4
    <3> HIDE <1>4
    <3> QED
      BY <1>1, <2>1, <3>1, StartActionLater
  <2> HIDE DEF n2
  <2>4. n2.acts[c].owner = o /\ n2.acts[c].claim = t.target.claim
    BY <1>4, <2>3
  <2> QED
    BY <2>2, <2>4 DEF n2
<1>5. /\ suspended \in SimState /\ Closed(suspended) /\ DOMAIN suspended.acts = DOMAIN s.acts
      /\ Len(suspended.acts) = Len(s.acts)
      /\ \A j \in DOMAIN s.acts : j # i => suspended.acts[j] = s.acts[j]
  <2> DEFINE f == [s.acts EXCEPT ![i].life = "SUSPENDED"]
  <2>1. [s.acts[i] EXCEPT !.life = "SUSPENDED"] \in Action
    BY <1>1 DEF Action, Lives
  <2>2. f = [j \in DOMAIN s.acts |->
               IF j = i THEN [s.acts[i] EXCEPT !.life = "SUSPENDED"] ELSE s.acts[j]]
    BY ActsFacts DEF SimState
  <2>3. f \in [DOMAIN s.acts -> Action]
    BY <2>1, <2>2, ActsFacts
  <2>4. f \in Seq(Action) /\ DOMAIN f = DOMAIN s.acts /\ Len(f) = Len(s.acts)
    BY <2>3, RemapType
  <2>5. /\ f[i].kids = s.acts[i].kids
        /\ \A j \in DOMAIN s.acts : j # i => f[j] = s.acts[j]
    BY <1>1, <2>2 DEF Action
  <2>6. suspended = [s EXCEPT !.acts = f]
    OBVIOUS
  <2> HIDE DEF f, suspended
  <2>7. suspended \in SimState /\ suspended.acts = f /\ suspended.tokens = s.tokens
    BY <2>4, <2>6 DEF SimState
  <2>8. Closed(suspended)
    BY <1>2, <2>4, <2>5, <2>7 DEF Closed
  <2> QED
    BY <2>4, <2>5, <2>7, <2>8
<1> HIDE DEF suspended, Launch
<1>6. CASE t.kind = "TERMINATE"
  <2>1. n = EndAction(s, i, "TERMINATED")
    BY <1>6 DEF ApplyTransition
  <2> QED
    BY <1>1, <1>3, <1>6, <2>1
<1>7. CASE t.kind = "FAULT"
  <2>1. n = EndAction(s, i, "FAULTED")
    BY <1>7 DEF ApplyTransition
  <2> QED
    BY <1>1, <1>3, <1>7, <2>1
<1>8. CASE t.kind = "TERMINATE_SOURCE"
  <2>1. n = Launch(EndAction(s, i, "TERMINATED"))
    BY <1>8 DEF ApplyTransition, Launch
  <2> QED
    BY <1>3, <1>4, <1>8, <2>1 DEF LaunchKinds, Terminal
<1>9. CASE t.kind = "SUSPEND_SOURCE"
  <2>1. n = Launch(suspended)
    BY <1>9 DEF ApplyTransition, Launch, suspended
  <2> QED
    BY <1>4, <1>5, <1>9, <2>1 DEF LaunchKinds
<1>10. CASE t.kind = "KEEP_SOURCE"
  <2>1. n = Launch(s)
    BY <1>10 DEF ApplyTransition, Launch
  <2> QED
    BY <1>2, <1>4, <1>10, <2>1 DEF LaunchKinds
<1>11. CASE t.kind = "CHILD_ACTION"
  <2>1. n = LaunchChild(s, now, i, t)
    BY <1>11 DEF ApplyTransition
  <2> QED
    BY <1>1, <1>11, <2>1, LaunchChildActs DEF LaunchKinds
<1>12. t.kind \in {"TERMINATE", "FAULT", "TERMINATE_SOURCE", "SUSPEND_SOURCE", "KEEP_SOURCE",
                   "CHILD_ACTION"}
  BY DEF Transition, Kinds, LaunchKinds
<1> QED
  BY <1>6, <1>7, <1>8, <1>9, <1>10, <1>11, <1>12

-----------------------------------------------------------------------------
(* What is booked *)

\* The live actions of entity e that hold a place of its action slot.
Claimants(s, e) == {i \in LiveOf(s, e) : s.acts[i].claim = 1}

\* The actions whose place an intent of this stage gives back, ended meanwhile or not.
Returning(e) ==
  {i \in DOMAIN work.acts :
     /\ work.acts[i].owner = e /\ work.acts[i].claim = 1
     /\ \E n \in todo : n.t.kind = "TERMINATE_SOURCE" /\ n.src = i}

Booked(e) == Claimants(work, e) \union Returning(e)

\* Each action has one intent, in the name of its owner, and only that intent suspends it.
OneIntentEach ==
  \A n \in todo : n.t.kind # "START" =>
    /\ n.owner = work.acts[n.src].owner
    /\ work.acts[n.src].life = "RUNNING" \/ Terminal(work.acts[n.src])
    /\ \A m \in todo : m.t.kind # "START" /\ m.src = n.src => m = n

\* The arbitration state of a stage covers what is booked.
Covered ==
  /\ "slots" \in DOMAIN arb /\ arb.slots \in [Entities -> Nat]
  /\ \A e \in Entities : Cardinality(Booked(e)) <= arb.slots[e] /\ arb.slots[e] <= SlotCapacity

\* The usage recorded at the end of a stage covers what is held until the next one.
Held == \A e \in Entities :
          Cardinality(Claimants(work, e)) <= work.usage[e] /\ work.usage[e] <= SlotCapacity

\* The launches that no stage arbitrates claim nothing.
QuantumClaimsNothing ==
  \A t \in Transitions : t.point = "AFTER_QUANTUM" /\ t.kind \in LaunchKinds => t.target.claim = 0

Booking ==
  /\ SlotsWithinCapacity
  /\ pc \in {"pre", "post"} => OneIntentEach /\ Covered
  /\ pc \in {"progress", "commit"} => Held

\* Sets of instances can be counted.
LEMMA InstancesCount ==
  ASSUME NEW s \in SimState, NEW S \in SUBSET (DOMAIN s.acts), NEW R \in SUBSET S
  PROVE  /\ IsFiniteSet(S) /\ Cardinality(S) \in Nat
         /\ IsFiniteSet(R) /\ Cardinality(R) \in Nat /\ Cardinality(R) <= Cardinality(S)
<1>1. IsFiniteSet(DOMAIN s.acts)
  BY ActsFacts, FS_Interval
<1>2. IsFiniteSet(S) /\ IsFiniteSet(R)
  BY <1>1, FS_Subset
<1> QED
  BY <1>2, FS_Subset, FS_CardinalityType

\* What is recorded is the number of claimants.
LEMMA UsageCounts ==
  ASSUME NEW s, NEW e \in Entities
  PROVE  SlotUsage(s)[e] = Cardinality(Claimants(s, e))
BY DEF SlotUsage, Claimants

\* One more action may be counted, and one that is counted may go.
LEMMA OneMore ==
  ASSUME NEW S, IsFiniteSet(S), NEW R, NEW x, R \subseteq S \union {x}
  PROVE  IsFiniteSet(R) /\ Cardinality(R) \in Nat /\ Cardinality(R) <= Cardinality(S) + 1
<1>1. /\ IsFiniteSet(S \union {x})
      /\ Cardinality(S \union {x}) \in {Cardinality(S), Cardinality(S) + 1}
  BY FS_AddElement
<1>2. IsFiniteSet(R) /\ Cardinality(R) <= Cardinality(S \union {x})
  BY <1>1, FS_Subset
<1> QED
  BY <1>1, <1>2, FS_CardinalityType

\* One that is counted goes.
LEMMA OneLess ==
  ASSUME NEW S, IsFiniteSet(S), NEW x \in S
  PROVE  /\ IsFiniteSet(S \ {x}) /\ Cardinality(S \ {x}) \in Nat
         /\ Cardinality(S \ {x}) = Cardinality(S) - 1
BY FS_RemoveElement, FS_CardinalityType

-----------------------------------------------------------------------------
(* An accepted intent *)

\* What an accepted intent makes of the instances.
AcceptedActs(n, c) ==
  /\ DOMAIN work.acts \subseteq DOMAIN work'.acts
  /\ DOMAIN work'.acts \subseteq DOMAIN work.acts \union {c}
  /\ c \in DOMAIN work'.acts => /\ Launches(n)
                                /\ work'.acts[c].owner = n.owner
                                /\ work'.acts[c].claim = n.t.target.claim
  /\ \A j \in DOMAIN work.acts :
       /\ work'.acts[j].owner = work.acts[j].owner
       /\ work'.acts[j].claim = work.acts[j].claim
       /\ Terminal(work.acts[j]) => Terminal(work'.acts[j])
       /\ n.t.kind = "TERMINATE_SOURCE" /\ j = n.src => Terminal(work'.acts[j])
       /\ n.t.kind = "START" \/ j # n.src =>
            work'.acts[j].life \in {work.acts[j].life, "TERMINATED"}

\* What an intent names.
LEMMA IntentFacts ==
  ASSUME IInv, OneIntentEach, NEW n \in todo
  PROVE  /\ n.owner \in Entities /\ n.t.target \in Definition
         /\ n.t.kind # "START" =>
              /\ n.src \in DOMAIN work.acts /\ n.t \in Transitions /\ n.t \in Transition
              /\ n.t.kind = "CHILD_ACTION" => n.t.slot \in ChildSlots
              /\ n.owner = work.acts[n.src].owner
<1>1. n.owner \in Entities /\ n.t \in Transitions \union {StartOf(d) : d \in Definitions}
  BY DEF IInv, TypeOK, Intent
<1>2. CASE n.t.kind = "START"
  <2>1. n.t \notin Transitions
    BY <1>2, DefinitionAssumption DEF Transition, Kinds, LaunchKinds
  <2> QED
    BY <1>1, <1>2, <2>1, DefinitionAssumption DEF StartOf
<1>3. CASE n.t.kind # "START"
  <2>1. n.src \in DOMAIN work.acts /\ n.t \in Transitions
    BY <1>3 DEF IInv, IntentsNameActions
  <2>2. n.owner = work.acts[n.src].owner
    BY <1>3 DEF OneIntentEach
  <2> QED
    BY <1>1, <2>1, <2>2, DefinitionAssumption DEF Transition
<1> QED
  BY <1>2, <1>3

\* What applying an accepted intent does to the actions: it starts one, and may end its source.
LEMMA AcceptActs ==
  ASSUME IInv, OneIntentEach, NEW n \in todo, Accept(n), NEW c, c = Len(work.acts) + 1
  PROVE  AcceptedActs(n, c) /\ c \notin DOMAIN work.acts
<1>1. /\ work \in SimState /\ Coherent(work) /\ Closed(work) /\ tick \in Nat
      /\ c \notin DOMAIN work.acts
  BY StateClosed, ActsFacts DEF IInv, TypeOK, Coherence
<1>2. CASE n.t.kind = "START"
  <2> DEFINE s == StartAction(work, n.t.target, n.owner, NoParent, NoSlot)
  <2>1. work' = s /\ n.owner \in Entities /\ n.t.target \in Definition
    BY <1>2, IntentFacts DEF Accept
  <2>2. /\ NoParent \in Nat /\ NoParent \notin DOMAIN work.acts
        /\ NoSlot \in ChildSlots \union {NoSlot}
    BY <1>1 DEF NoParent, Closed
  <2>3. /\ DOMAIN s.acts = DOMAIN work.acts \union {c}
        /\ \A j \in DOMAIN work.acts : s.acts[j] = work.acts[j]
    BY <1>1, <2>1, <2>2, StartActionType
  <2>4. s.acts[c]
          = [owner |-> n.owner, life |-> IF n.t.target.terminal THEN "TERMINATED" ELSE "RUNNING",
             parent |-> NoParent, slot |-> NoSlot, kids |-> {}, told |-> FALSE,
             inbox |-> {}, claim |-> n.t.target.claim]
    BY <1>1, <2>1, <2>2, StartActionLater
  <2> HIDE DEF s
  <2>5. s.acts[c].owner = n.owner /\ s.acts[c].claim = n.t.target.claim
    BY <2>4
  <2> QED
    BY <1>1, <1>2, <2>1, <2>3, <2>5 DEF AcceptedActs, Launches
<1>3. CASE n.t.kind # "START" /\ work.acts[n.src].life = "RUNNING"
  <2> DEFINE s == ApplyTransition(work, tick, n.src, n.t)
  <2>1. work' = s /\ ~Raises(work, n.src, n.t)
    BY <1>3 DEF Accept
  <2>2. /\ n.src \in DOMAIN work.acts /\ n.t \in Transition
        /\ n.t.kind = "CHILD_ACTION" => n.t.slot \in ChildSlots
        /\ n.owner = work.acts[n.src].owner
    BY <1>3, IntentFacts
  <2>3. Later(work, s)
    BY <1>1, <1>3, <2>1, <2>2, ApplyTransitionLater
  <2>4. /\ DOMAIN s.acts \subseteq DOMAIN work.acts \union {c}
        /\ c \in DOMAIN s.acts => /\ n.t.kind \in LaunchKinds
                                  /\ s.acts[c].owner = work.acts[n.src].owner
                                  /\ s.acts[c].claim = n.t.target.claim
        /\ n.t.kind = "TERMINATE_SOURCE" => Terminal(s.acts[n.src])
        /\ \A j \in DOMAIN work.acts :
             j # n.src => s.acts[j].life \in {work.acts[j].life, "TERMINATED"}
    BY <1>1, <1>3, <2>2, ApplyTransitionActs
  <2> HIDE DEF s
  <2> QED
    BY <1>1, <1>3, <2>1, <2>2, <2>3, <2>4 DEF AcceptedActs, Launches, Later
<1>4. CASE n.t.kind # "START" /\ work.acts[n.src].life # "RUNNING"
  <2>1. work' = work
    BY <1>4 DEF Accept
  <2>2. Terminal(work.acts[n.src])
    BY <1>4 DEF OneIntentEach
  <2> QED
    BY <1>1, <1>4, <2>1, <2>2 DEF AcceptedActs
<1> QED
  BY <1>2, <1>3, <1>4

\* An accepted intent, carried out or dropped, keeps what is booked covered: it gives its
\* claim back before it takes the one of what it launches.
LEMMA AcceptBooks ==
  ASSUME IInv, OneIntentEach, Covered, NEW n \in todo, Accept(n)
  PROVE  OneIntentEach' /\ Covered'
<1> DEFINE c == Len(work.acts) + 1
           F == Freed(work, n).slot
           k == n.t.target.claim
           o == n.owner
<1>1. AcceptedActs(n, c) /\ c \notin DOMAIN work.acts
  BY AcceptActs
<1>2. /\ work \in SimState /\ todo' = todo \ {n} /\ Admitted(work, n) /\ arb' = Reserve(work, n)
      /\ n.owner \in Entities /\ k \in 0..1
  BY IntentFacts DEF IInv, TypeOK, Accept, Definition
<1> HIDE DEF c
<1>3. \A m \in todo : m.t.kind # "START" => m.src \in DOMAIN work.acts
  BY DEF IInv, IntentsNameActions
<1>4. OneIntentEach'
  <2> SUFFICES ASSUME NEW m \in todo \ {n}, m.t.kind # "START"
               PROVE  /\ m.owner = work'.acts[m.src].owner
                      /\ work'.acts[m.src].life = "RUNNING" \/ Terminal(work'.acts[m.src])
                      /\ \A l \in todo \ {n} : l.t.kind # "START" /\ l.src = m.src => l = m
    BY <1>2 DEF OneIntentEach, Terminal
  <2>1. m.src \in DOMAIN work.acts /\ (n.t.kind = "START" \/ n.src # m.src)
    BY <1>3 DEF OneIntentEach
  <2>2. /\ work'.acts[m.src].owner = work.acts[m.src].owner
        /\ Terminal(work.acts[m.src]) => Terminal(work'.acts[m.src])
        /\ work'.acts[m.src].life \in {work.acts[m.src].life, "TERMINATED"}
    BY <1>1, <2>1 DEF AcceptedActs
  <2> QED
    BY <2>2 DEF OneIntentEach, Terminal
<1>5. /\ n.t.kind = "TERMINATE_SOURCE" => F = work.acts[n.src].claim /\ n.src \in DOMAIN work.acts
                                          /\ work.acts[n.src].owner = o
      /\ n.t.kind # "TERMINATE_SOURCE" => F = 0
      /\ F \in 0..1
  <2>1. CASE n.t.kind = "TERMINATE_SOURCE"
    <3>1. n.src \in DOMAIN work.acts /\ work.acts[n.src].owner = o
      BY <2>1, IntentFacts
    <3>2. work.acts[n.src].claim \in 0..1
      BY <1>2, <3>1, ActsFacts DEF Action
    <3> QED
      BY <2>1, <3>1, <3>2 DEF Freed
  <2>2. CASE n.t.kind # "TERMINATE_SOURCE"
    BY <2>2 DEF Freed
  <2> QED
    BY <2>1, <2>2
<1>6. /\ ~Launches(n) => arb' = arb
      /\ Launches(n) => arb'.slots = [arb.slots EXCEPT ![o] = Less(@, F) + k]
      /\ "slots" \in DOMAIN arb'
  BY <1>2 DEF Reserve, Covered
<1>7. Launches(n) /\ k = 1 => arb.slots[o] - F + 1 <= SlotCapacity
  BY <1>2 DEF Admitted
<1>8. ASSUME NEW e \in Entities
      PROVE  Booked(e)' \subseteq
               (IF n.t.kind = "TERMINATE_SOURCE" THEN Booked(e) \ {n.src} ELSE Booked(e))
                 \union (IF Launches(n) /\ e = o /\ k = 1 THEN {c} ELSE {})
  <2>1. ASSUME NEW i \in Booked(e)'
        PROVE  /\ i = c \/ (i \in Booked(e) /\ (n.t.kind = "TERMINATE_SOURCE" => i # n.src))
               /\ i = c => Launches(n) /\ e = o /\ k = 1
    <3>1. CASE i \in Claimants(work', e)
      <4>1. i \in DOMAIN work'.acts /\ work'.acts[i].owner = e /\ work'.acts[i].claim = 1
            /\ ~Terminal(work'.acts[i])
        BY <3>1 DEF Claimants, LiveOf
      <4>2. CASE i = c
        BY <1>1, <4>1, <4>2 DEF AcceptedActs
      <4>3. CASE i \in DOMAIN work.acts
        <5>1. /\ work.acts[i].owner = e /\ work.acts[i].claim = 1 /\ ~Terminal(work.acts[i])
              /\ n.t.kind = "TERMINATE_SOURCE" => i # n.src
          BY <1>1, <4>1, <4>3 DEF AcceptedActs
        <5> QED
          BY <1>1, <4>3, <5>1 DEF Booked, Claimants, LiveOf
      <4> QED
        BY <1>1, <4>1, <4>2, <4>3 DEF AcceptedActs
    <3>2. CASE i \in Returning(e)'
      <4>1. PICK m \in todo \ {n} : m.t.kind = "TERMINATE_SOURCE" /\ m.src = i
        BY <1>2, <3>2 DEF Returning
      <4>2. i \in DOMAIN work.acts /\ (n.t.kind = "TERMINATE_SOURCE" => i # n.src)
        BY <1>3, <4>1 DEF OneIntentEach
      <4>3. work.acts[i].owner = e /\ work.acts[i].claim = 1
        BY <1>1, <3>2, <4>2 DEF Returning, AcceptedActs
      <4> QED
        BY <1>1, <4>1, <4>2, <4>3 DEF Booked, Returning
    <3>3. i \in Claimants(work', e) \/ i \in Returning(e)'
      BY DEF Booked, Claimants, LiveOf, Terminal
    <3> QED
      BY <3>1, <3>2, <3>3
  <2> QED
    BY <2>1
<1>9. ASSUME NEW e \in Entities PROVE Booked(e) \in SUBSET (DOMAIN work.acts)
  BY DEF Booked, Claimants, LiveOf, Returning
<1>10. ASSUME NEW e \in Entities
       PROVE  /\ IsFiniteSet(Booked(e)) /\ Cardinality(Booked(e)) \in Nat
              /\ Cardinality(Booked(e)) <= arb.slots[e] /\ arb.slots[e] <= SlotCapacity
              /\ arb.slots[e] \in Nat /\ SlotCapacity \in Nat
  BY <1>2, <1>9, InstancesCount, LimitAssumption DEF Covered
<1> DEFINE S == IF F = 1 THEN Booked(o) \ {n.src} ELSE Booked(o)
<1>11. /\ IsFiniteSet(S) /\ Cardinality(S) \in Nat
       /\ Cardinality(S) = Cardinality(Booked(o)) - F
  <2>1. CASE F = 1
    <3>1. n.t.kind = "TERMINATE_SOURCE" /\ n.src \in Returning(o)
      BY <1>5, <2>1 DEF Returning
    <3>2. n.src \in Booked(o)
      BY <3>1 DEF Booked
    <3> QED
      BY <1>2, <1>10, <2>1, <3>2, OneLess
  <2>2. CASE F = 0
    BY <1>2, <1>10, <2>2
  <2> QED
    BY <1>5, <2>1, <2>2
<1>12. n.t.kind = "TERMINATE_SOURCE" => Launches(n)
  BY DEF Launches, LaunchKinds
<1>13. ASSUME NEW e \in Entities, e # o
       PROVE  Cardinality(Booked(e)') <= arb'.slots[e] /\ arb'.slots[e] <= SlotCapacity
  <2>1. arb'.slots[e] = arb.slots[e]
    BY <1>2, <1>6, <1>13 DEF Covered
  <2>2. Booked(e)' \in SUBSET Booked(e)
    BY <1>8, <1>13
  <2>3. Cardinality(Booked(e)') <= Cardinality(Booked(e)) /\ Cardinality(Booked(e)') \in Nat
    BY <1>10, <2>2, FS_Subset, FS_CardinalityType
  <2> QED
    BY <1>10, <2>1, <2>3
<1>14. Cardinality(Booked(o)') <= arb'.slots[o] /\ arb'.slots[o] <= SlotCapacity
       /\ arb'.slots[o] \in Nat
  <2>1. CASE ~Launches(n)
    <3>1. Booked(o)' \in SUBSET Booked(o)
      BY <1>2, <1>8, <1>12, <2>1
    <3>2. Cardinality(Booked(o)') <= Cardinality(Booked(o)) /\ Cardinality(Booked(o)') \in Nat
      BY <1>2, <1>10, <3>1, FS_Subset, FS_CardinalityType
    <3> QED
      BY <1>2, <1>6, <1>10, <2>1, <3>2
  <2>2. CASE Launches(n)
    <3>1. arb'.slots[o] = arb.slots[o] - F + k
      BY <1>2, <1>5, <1>6, <1>10, <1>11, <2>2 DEF Less, Covered
    <3>2. Booked(o)' \subseteq S \union (IF k = 1 THEN {c} ELSE {})
      BY <1>2, <1>5, <1>8
    <3>3. Cardinality(Booked(o)') <= Cardinality(S) + k /\ Cardinality(Booked(o)') \in Nat
      <4> HIDE DEF S, k, o
      <4>1. CASE k = 1
        BY <1>11, <3>2, <4>1, OneMore
      <4>2. CASE k = 0
        <5>1. Booked(o)' \in SUBSET S
          BY <3>2, <4>2
        <5> QED
          BY <1>11, <4>2, <5>1, FS_Subset, FS_CardinalityType
      <4> QED
        BY <1>2, <4>1, <4>2
    <3> QED
      BY <1>2, <1>5, <1>7, <1>10, <1>11, <2>2, <3>1, <3>3
  <2> QED
    BY <2>1, <2>2
<1>15. arb'.slots \in [Entities -> Nat]
  <2>1. CASE ~Launches(n)
    BY <1>6, <2>1 DEF Covered
  <2>2. CASE Launches(n)
    <3>1. arb'.slots[o] \in Nat
      BY <1>14
    <3>2. arb'.slots = [arb.slots EXCEPT ![o] = Less(arb.slots[o], F) + k]
      BY <1>6, <2>2
    <3> HIDE DEF F, k, o
    <3> QED
      BY <1>2, <3>1, <3>2 DEF Covered, o
  <2> QED
    BY <2>1, <2>2
<1>16. \A e \in Entities : Cardinality(Booked(e)') <= arb'.slots[e] /\ arb'.slots[e] <= SlotCapacity
  BY <1>13, <1>14
<1> QED
  BY <1>4, <1>6, <1>15, <1>16 DEF Covered

-----------------------------------------------------------------------------
(* The other steps *)

\* Applying a transition leaves the recorded usage alone.
LEMMA ApplyTransitionUsage ==
  ASSUME NEW s \in SimState, NEW now \in Nat, NEW i \in DOMAIN s.acts, NEW t \in Transition
  PROVE  ApplyTransition(s, now, i, t).usage = s.usage
<1> DEFINE o == s.acts[i].owner
           Launch(from) == StartAction(from, t.target, o, NoParent, NoSlot)
           suspended == [s EXCEPT !.acts[i].life = "SUSPENDED"]
           started == StartAction(s, t.target, o, i, t.slot)
           settled == IF t.policy = "TERMINATE_PARENT" THEN EndAction(started, i, "TERMINATED")
                      ELSE started
           c == Len(s.acts) + 1
           freeze == [src |-> c, tgt |-> i, from |-> now + 1, domains |-> FrozenBy(t.policy)]
           q == [settled.acts EXCEPT ![i].kids = @ \union {c}]
           T == IF FrozenBy(t.policy) = {} THEN settled.tokens ELSE settled.tokens \union {freeze}
<1>1. ASSUME NEW from, DOMAIN from = DOMAIN s, from.usage = s.usage,
             NEW d, NEW e, NEW p, NEW k
      PROVE  /\ StartAction(from, d, e, p, k).usage = s.usage
             /\ DOMAIN StartAction(from, d, e, p, k) = DOMAIN s
  BY <1>1 DEF StartAction, SimState
<1>2. ASSUME NEW from, DOMAIN from = DOMAIN s, from.usage = s.usage, NEW life
      PROVE  /\ EndAction(from, i, life).usage = s.usage
             /\ DOMAIN EndAction(from, i, life) = DOMAIN s
  BY <1>2 DEF EndAction, SimState
<1>3. suspended.usage = s.usage /\ DOMAIN suspended = DOMAIN s
  BY DEF SimState
<1>4. LaunchChild(s, now, i, t).usage = s.usage
  <2>1. settled.usage = s.usage /\ DOMAIN settled = DOMAIN s
    BY <1>1, <1>2
  <2>2. LaunchChild(s, now, i, t) = [settled EXCEPT !.acts = q, !.tokens = T]
    BY DEF LaunchChild
  <2> HIDE DEF settled, q, T
  <2> QED
    BY <2>1, <2>2 DEF SimState
<1>5. ASSUME NEW from, DOMAIN from = DOMAIN s, from.usage = s.usage
      PROVE  Launch(from).usage = s.usage
  BY <1>1, <1>5
<1>6. /\ t.kind = "TERMINATE" => ApplyTransition(s, now, i, t) = EndAction(s, i, "TERMINATED")
      /\ t.kind = "FAULT" => ApplyTransition(s, now, i, t) = EndAction(s, i, "FAULTED")
      /\ t.kind = "TERMINATE_SOURCE" =>
           ApplyTransition(s, now, i, t) = Launch(EndAction(s, i, "TERMINATED"))
      /\ t.kind = "SUSPEND_SOURCE" => ApplyTransition(s, now, i, t) = Launch(suspended)
      /\ t.kind = "KEEP_SOURCE" => ApplyTransition(s, now, i, t) = Launch(s)
      /\ t.kind = "CHILD_ACTION" => ApplyTransition(s, now, i, t) = LaunchChild(s, now, i, t)
  BY DEF ApplyTransition
<1>7. t.kind \in {"TERMINATE", "FAULT", "TERMINATE_SOURCE", "SUSPEND_SOURCE", "KEEP_SOURCE",
                  "CHILD_ACTION"}
  BY DEF Transition, Kinds, LaunchKinds
<1> HIDE DEF Launch, suspended
<1>8. ASSUME NEW life PROVE /\ EndAction(s, i, life).usage = s.usage
                            /\ Launch(EndAction(s, i, life)).usage = s.usage
  BY <1>2, <1>5
<1>9. Launch(suspended).usage = s.usage /\ Launch(s).usage = s.usage
  BY <1>3, <1>5
<1> QED
  BY <1>4, <1>6, <1>7, <1>8, <1>9

\* The intents a stage is offered come from running actions, one from each.
LEMMA TransitionIntentsEach ==
  ASSUME NEW s \in SimState, NEW point, NEW ns \in TransitionIntents(s, point)
  PROVE  /\ \A n \in ns : /\ n.src \in DOMAIN s.acts /\ s.acts[n.src].life = "RUNNING"
                          /\ n.owner = s.acts[n.src].owner
         /\ \A m, n \in ns : m.src = n.src => m = n
<1> DEFINE choices == {t \in Transitions : t.point = point}
           able == {i \in DOMAIN s.acts :
                      s.acts[i].life = "RUNNING" /\ ~Frozen(s, tick, i, "TRANSITIONS")}
<1>1. PICK chosen \in SUBSET able :
        \E pick \in [chosen -> choices] :
           ns = {[src |-> i, owner |-> s.acts[i].owner, t |-> pick[i]] : i \in chosen}
  BY DEF TransitionIntents
<1>2. PICK pick \in [chosen -> choices] :
        ns = {[src |-> i, owner |-> s.acts[i].owner, t |-> pick[i]] : i \in chosen}
  BY <1>1
<1>3. \A n \in ns : \E i \in chosen : n = [src |-> i, owner |-> s.acts[i].owner, t |-> pick[i]]
  BY <1>2
<1> QED
  BY <1>3

\* What a stage starts from covers its bookings: every intent comes from a live claimant.
LEMMA StageCovered ==
  ASSUME NEW s \in SimState, work' = s, arb' = ArbitrationState(s),
         NEW ns, todo' = ns,
         \A n \in ns : n.t.kind # "START" =>
           /\ n.src \in DOMAIN s.acts /\ s.acts[n.src].life = "RUNNING"
           /\ n.owner = s.acts[n.src].owner
         , \A m, n \in ns : m.t.kind # "START" /\ n.t.kind # "START" /\ m.src = n.src => m = n,
         \A e \in Entities : Cardinality(Claimants(s, e)) <= s.usage[e] /\ s.usage[e] <= SlotCapacity
  PROVE  OneIntentEach' /\ Covered'
<1>1. OneIntentEach'
  BY DEF OneIntentEach, Terminal
<1>2. ASSUME NEW e \in Entities PROVE Booked(e)' = Claimants(s, e)
  <2>1. ASSUME NEW i \in Returning(e)' PROVE i \in Claimants(s, e)
    BY DEF Returning, Claimants, LiveOf, Terminal
  <2>2. Claimants(work, e)' = Claimants(s, e)
    BY DEF Claimants, LiveOf, Terminal
  <2> QED
    BY <2>1, <2>2 DEF Booked
<1>3. "slots" \in DOMAIN arb' /\ arb'.slots = s.usage /\ s.usage \in [Entities -> Nat]
  BY DEF ArbitrationState, SimState
<1> QED
  BY <1>1, <1>2, <1>3 DEF Covered

\* The slots of the actions that are still held when a stage ends.
LEMMA StageHeld ==
  ASSUME IInv, Covered, work' = RebuildSlots(work)
  PROVE  Held'
<1>1. /\ work \in SimState
      /\ work'.usage = SlotUsage(work) /\ work'.acts = work.acts
  BY DEF IInv, TypeOK, RebuildSlots, SimState
<1>2. ASSUME NEW e \in Entities
      PROVE  /\ Cardinality(Claimants(work, e)) \in Nat
             /\ Cardinality(Claimants(work, e)) <= SlotCapacity
  <2>1. Claimants(work, e) \in SUBSET Booked(e) /\ Booked(e) \in SUBSET (DOMAIN work.acts)
    BY DEF Booked, Claimants, LiveOf, Returning
  <2>2. /\ Cardinality(Claimants(work, e)) \in Nat /\ Cardinality(Booked(e)) \in Nat
        /\ Cardinality(Claimants(work, e)) <= Cardinality(Booked(e))
    BY <1>1, <2>1, InstancesCount
  <2>3. Cardinality(Booked(e)) <= arb.slots[e] /\ arb.slots[e] <= SlotCapacity
        /\ arb.slots[e] \in Nat /\ SlotCapacity \in Nat
    BY LimitAssumption DEF Covered
  <2> QED
    BY <2>2, <2>3
<1>3. ASSUME NEW e \in Entities PROVE Claimants(work', e) = Claimants(work, e)
  BY <1>1 DEF Claimants, LiveOf
<1>4. \A e \in Entities : work'.usage[e] = Cardinality(Claimants(work, e))
  BY <1>1, UsageCounts
<1> QED
  BY <1>2, <1>3, <1>4 DEF Held

\* What no stage arbitrates takes no slot.
LEMMA QuantumHeld ==
  ASSUME IInv, Held, QuantumClaimsNothing, NEW i \in DOMAIN work.acts, NEW t \in Transitions,
         AfterQuantum(i, t)
  PROVE  Held'
<1> SUFFICES ASSUME NEW c, c = Len(work.acts) + 1 PROVE Held'
  OBVIOUS
<1>1. /\ work \in SimState /\ Coherent(work) /\ tick \in Nat /\ t \in Transition
      /\ t.kind = "CHILD_ACTION" => t.slot \in ChildSlots
      /\ work.acts[i].life = "RUNNING" /\ ~Raises(work, i, t)
      /\ work' = ApplyTransition(work, tick, i, t) /\ t.point = "AFTER_QUANTUM"
  <2>1. t \in Transition /\ (t.kind = "CHILD_ACTION" => t.slot \in ChildSlots)
    BY DefinitionAssumption
  <2> QED
    BY <2>1 DEF IInv, TypeOK, Coherence, AfterQuantum, CanProgress
<1>2. /\ DOMAIN work'.acts \subseteq DOMAIN work.acts \union {c}
      /\ c \in DOMAIN work'.acts => t.kind \in LaunchKinds /\ work'.acts[c].claim = t.target.claim
  <2> DEFINE n == ApplyTransition(work, tick, i, t)
  <2>1. work' = n
    BY <1>1
  <2>2. /\ DOMAIN n.acts \subseteq DOMAIN work.acts \union {c}
        /\ c \in DOMAIN n.acts => /\ t.kind \in LaunchKinds
                                  /\ n.acts[c].owner = work.acts[i].owner
                                  /\ n.acts[c].claim = t.target.claim
        /\ t.kind = "TERMINATE_SOURCE" => Terminal(n.acts[i])
        /\ \A j \in DOMAIN work.acts :
             j # i => n.acts[j].life \in {work.acts[j].life, "TERMINATED"}
    BY <1>1, ApplyTransitionActs
  <2> HIDE DEF n
  <2> QED
    BY <2>1, <2>2
<1>3. Later(work, work')
  BY <1>1, ApplyTransitionLater
<1>4. work'.usage = work.usage
  BY <1>1, ApplyTransitionUsage
<1>5. c \in DOMAIN work'.acts => work'.acts[c].claim = 0
  BY <1>1, <1>2 DEF QuantumClaimsNothing
<1>6. ASSUME NEW e \in Entities PROVE Claimants(work', e) \in SUBSET Claimants(work, e)
  <2>1. ASSUME NEW j \in Claimants(work', e) PROVE j \in Claimants(work, e)
    <3>1. j \in DOMAIN work'.acts /\ work'.acts[j].owner = e /\ work'.acts[j].claim = 1
          /\ ~Terminal(work'.acts[j])
      BY DEF Claimants, LiveOf
    <3>2. j \in DOMAIN work.acts
      BY <1>2, <1>5, <3>1
    <3> QED
      BY <1>3, <3>1, <3>2 DEF Later, Claimants, LiveOf
  <2> QED
    BY <2>1
<1>7. ASSUME NEW e \in Entities
      PROVE  Cardinality(Claimants(work', e)) <= work'.usage[e] /\ work'.usage[e] <= SlotCapacity
  <2>1. Claimants(work, e) \in SUBSET (DOMAIN work.acts)
    BY DEF Claimants, LiveOf
  <2>2. /\ Cardinality(Claimants(work, e)) \in Nat /\ Cardinality(Claimants(work', e)) \in Nat
        /\ Cardinality(Claimants(work', e)) <= Cardinality(Claimants(work, e))
    BY <1>1, <1>6, <2>1, InstancesCount
  <2>3. work.usage[e] \in Nat
    BY <1>1 DEF SimState
  <2> QED
    BY <1>4, <2>2, <2>3 DEF Held
<1>8. ASSUME NEW e \in Entities PROVE Claimants(work, e)' = Claimants(work', e)
  BY DEF Claimants, LiveOf, Terminal
<1> QED
  BY <1>7, <1>8 DEF Held

\* A containment ends actions, so it takes no slot either.
LEMMA ContainedWithin ==
  ASSUME IInv, UsageExact, SlotsWithinCapacity, Contained
  PROVE  SlotsWithinCapacity'
<1>1. state \in SimState
  BY DEF IInv, TypeOK
<1>2. PICK s \in SimState :
        /\ \/ \E i \in DOMAIN state.acts : s = EndAction(state, i, "FAULTED")
           \/ \E e \in Entities : s = EndEntity(state, e)
        /\ state' = RebuildSlots(s)
  BY ContainedFacts
<1>3. /\ DOMAIN s.acts = DOMAIN state.acts
      /\ \A j \in DOMAIN state.acts :
           /\ s.acts[j].owner = state.acts[j].owner /\ s.acts[j].claim = state.acts[j].claim
           /\ Terminal(state.acts[j]) => Terminal(s.acts[j])
  <2>1. ASSUME NEW i \in DOMAIN state.acts, s = EndAction(state, i, "FAULTED")
        PROVE  /\ DOMAIN s.acts = DOMAIN state.acts
               /\ \A j \in DOMAIN state.acts :
                    /\ s.acts[j].owner = state.acts[j].owner /\ s.acts[j].claim = state.acts[j].claim
                    /\ s.acts[j].life \in {state.acts[j].life, "FAULTED", "TERMINATED"}
    BY <1>1, <2>1, EndActionActs DEF Lives
  <2>2. ASSUME NEW e \in Entities, s = EndEntity(state, e)
        PROVE  /\ DOMAIN s.acts = DOMAIN state.acts
               /\ \A j \in DOMAIN state.acts :
                    /\ s.acts[j].owner = state.acts[j].owner /\ s.acts[j].claim = state.acts[j].claim
                    /\ s.acts[j].life \in {state.acts[j].life, "FAULTED", "TERMINATED"}
    <3>1. DOMAIN s.acts = DOMAIN state.acts
      BY <1>1, <2>2, EndEntityType
    <3> QED
      BY <1>1, <2>2, <3>1, EndEntityFacts
  <2> QED
    BY <1>2, <2>1, <2>2 DEF Terminal
<1>4. ASSUME NEW e \in Entities PROVE state'.usage[e] <= SlotCapacity
  <2>1. state'.usage[e] = Cardinality(Claimants(s, e))
    BY <1>2, UsageCounts DEF RebuildSlots, SimState
  <2>2. state.usage[e] = Cardinality(Claimants(state, e)) /\ state.usage[e] <= SlotCapacity
    BY UsageCounts DEF UsageExact, SlotsWithinCapacity
  <2>3. Claimants(s, e) \in SUBSET Claimants(state, e) /\ Claimants(state, e) \in SUBSET (DOMAIN state.acts)
    BY <1>3 DEF Claimants, LiveOf
  <2>4. /\ Cardinality(Claimants(s, e)) <= Cardinality(Claimants(state, e))
        /\ Cardinality(Claimants(s, e)) \in Nat /\ Cardinality(Claimants(state, e)) \in Nat
    BY <1>1, <2>3, InstancesCount
  <2> QED
    BY <2>1, <2>2, <2>4, LimitAssumption
<1> QED
  BY <1>4 DEF SlotsWithinCapacity

\* Every step of a tick, of a containment and of an aborted tick.
LEMMA BookingNext ==
  QuantumClaimsNothing /\ IInv /\ UsageInv /\ Booking /\ [Next]_vars => Booking'
<1> SUFFICES ASSUME QuantumClaimsNothing, IInv, UsageInv, Booking, [Next]_vars PROVE Booking'
  OBVIOUS
<1>1. state \in SimState /\ work \in SimState /\ SlotsWithinCapacity /\ UsageExact
  BY DEF IInv, TypeOK, Booking, UsageInv
<1>2. SlotsWithinCapacity'
  <2>1. CASE Commit
    <3>1. state' = Maintain(work, tick) /\ Held
      BY <2>1 DEF Commit, Booking
    <3>2. state'.usage = work.usage
      BY <1>1, <3>1, MaintainFacts
    <3> QED
      BY <3>1, <3>2 DEF Held, SlotsWithinCapacity
  <2>2. CASE Contained
    BY <1>1, <2>2, ContainedWithin
  <2>3. CASE UNCHANGED <<tick, state, lastFault>>
    BY <1>1, <2>3 DEF SlotsWithinCapacity
  <2> QED
    BY <2>1, <2>2, <2>3, StateSteps
<1>3. ASSUME pc' = "idle" PROVE Booking'
  BY <1>2, <1>3 DEF Booking
<1>4. ASSUME NEW i, NEW e, Fail(i, e) PROVE pc' = "idle"
  BY <1>4 DEF Fail, FaultAction, FaultEntity, Abort, Contain, Idle
<1>5. CASE RejectTick \/ CommitFails \/ RuntimeFault
  <2>1. \E i, e : Fail(i, e)
    BY <1>5 DEF RejectTick, CommitFails, RuntimeFault, Fail
  <2> QED
    BY <1>3, <1>4, <2>1
<1>6. CASE Commit
  BY <1>3, <1>6 DEF Commit, Idle
<1>7. ASSUME NEW n \in todo, AcceptFails(n) PROVE Booking'
  BY <1>3, <1>4, <1>7 DEF AcceptFails
<1>8. ASSUME NEW i \in queue, NEW t \in Transitions, AfterQuantumFails(i, t) PROVE Booking'
  BY <1>3, <1>4, <1>8 DEF AfterQuantumFails
<1>9. CASE Horizon \/ UNCHANGED vars
  <2>1. pc' = pc /\ todo' = todo /\ work' = work /\ arb' = arb
    BY <1>9 DEF Horizon, vars
  <2>2. ASSUME NEW e \in Entities
        PROVE  Booked(e)' = Booked(e) /\ Claimants(work, e)' = Claimants(work, e)
    BY <2>1 DEF Booked, Claimants, Returning, LiveOf, Terminal
  <2>3. OneIntentEach => OneIntentEach'
    BY <2>1 DEF OneIntentEach, Terminal
  <2>4. Covered => Covered'
    BY <2>1, <2>2 DEF Covered
  <2>5. Held => Held'
    BY <2>1, <2>2 DEF Held
  <2> QED
    BY <1>2, <2>1, <2>3, <2>4, <2>5 DEF Booking
<1>10. CASE BeginTick
  <2> DEFINE s == DeliverEvents(state, tick)
  <2>1. work' = s /\ arb' = ArbitrationState(s) /\ pc' = "pre"
    BY <1>10 DEF BeginTick
  <2>2. PICK ns \in TransitionIntents(s, "PRE_ADVANCE"), starts \in SUBSET StartIntents :
          todo' = ns \union starts
    BY <1>10 DEF BeginTick
  <2>3. s \in SimState
    BY <1>1, DeliverEventsType DEF IInv, TypeOK
  <2>4. \A e \in Entities : Cardinality(Claimants(s, e)) <= s.usage[e] /\ s.usage[e] <= SlotCapacity
    <3>1. s.usage = state.usage
      BY <1>1, DeliverEventsFacts
    <3>2. ASSUME NEW e \in Entities PROVE Claimants(s, e) = Claimants(state, e)
      BY <1>1, DeliverEventsFacts DEF Claimants, LiveOf, Terminal
    <3>3. \A e \in Entities : state.usage[e] = Cardinality(Claimants(state, e))
      BY <1>1, UsageCounts DEF UsageExact
    <3>4. \A e \in Entities : state.usage[e] \in Nat
      BY <1>1 DEF SimState
    <3> HIDE DEF s
    <3> QED
      BY <1>1, <3>1, <3>2, <3>3, <3>4 DEF SlotsWithinCapacity
  <2>5. \A n \in starts : n.t.kind = "START"
    BY DEF StartIntents, StartOf
  <2>6. /\ \A n \in ns : /\ n.src \in DOMAIN s.acts /\ s.acts[n.src].life = "RUNNING"
                         /\ n.owner = s.acts[n.src].owner
        /\ \A m, n \in ns : m.src = n.src => m = n
    BY <2>3, TransitionIntentsEach
  <2> HIDE DEF s
  <2>7. OneIntentEach' /\ Covered'
    BY <2>1, <2>2, <2>3, <2>4, <2>5, <2>6, StageCovered
  <2> QED
    BY <1>2, <2>1, <2>7 DEF Booking
<1>11. CASE BeginPost
  <2>1. /\ work' = work /\ arb' = ArbitrationState(work) /\ pc' = "post" /\ Held
        /\ todo' \in TransitionIntents(work, "POST_ADVANCE")
    BY <1>11 DEF BeginPost, Booking
  <2>2. /\ \A n \in todo' : /\ n.src \in DOMAIN work.acts /\ work.acts[n.src].life = "RUNNING"
                            /\ n.owner = work.acts[n.src].owner
        /\ \A m, n \in todo' : m.src = n.src => m = n
    BY <1>1, <2>1, TransitionIntentsEach
  <2>3. OneIntentEach' /\ Covered'
    BY <1>1, <2>1, <2>2, StageCovered DEF Held
  <2> QED
    BY <1>2, <2>1, <2>3 DEF Booking
<1>12. ASSUME NEW n \in todo, Reject(n) PROVE Booking'
  <2>1. /\ pc \in {"pre", "post"} /\ pc' = pc /\ todo' = todo \ {n} /\ UNCHANGED <<work, arb>>
        /\ OneIntentEach /\ Covered
    BY <1>12 DEF Reject, Booking
  <2>2. OneIntentEach'
    BY <2>1 DEF OneIntentEach, Terminal
  <2>3. ASSUME NEW e \in Entities
        PROVE  Cardinality(Booked(e)') <= arb.slots[e]
    <3>1. Booked(e)' \in SUBSET Booked(e) /\ Booked(e) \in SUBSET (DOMAIN work.acts)
      BY <2>1 DEF Booked, Claimants, Returning, LiveOf, Terminal
    <3>2. /\ Cardinality(Booked(e)') <= Cardinality(Booked(e))
          /\ Cardinality(Booked(e)') \in Nat /\ Cardinality(Booked(e)) \in Nat
      BY <1>1, <3>1, InstancesCount
    <3>3. Cardinality(Booked(e)) <= arb.slots[e] /\ arb.slots[e] \in Nat
      BY <2>1 DEF Covered
    <3> QED
      BY <3>2, <3>3
  <2>4. Covered'
    BY <2>1, <2>3 DEF Covered
  <2> QED
    BY <1>2, <2>1, <2>2, <2>4 DEF Booking
<1>13. ASSUME NEW n \in todo, Accept(n) PROVE Booking'
  <2>1. pc \in {"pre", "post"} /\ pc' = pc
    BY <1>13 DEF Accept
  <2>2. OneIntentEach' /\ Covered'
    BY <1>13, <2>1, AcceptBooks DEF Booking
  <2> QED
    BY <1>2, <2>1, <2>2 DEF Booking
<1>14. CASE EndPre \/ EndPost
  <2>1. work' = RebuildSlots(work) /\ Covered /\ pc' \in {"progress", "commit"}
    BY <1>14 DEF EndPre, EndPost, Booking
  <2>2. Held'
    BY <2>1, StageHeld
  <2> QED
    BY <1>2, <2>1, <2>2 DEF Booking
<1>15. ASSUME NEW i \in queue, EndProgress(i) PROVE Booking'
  <2>1. pc' = "progress" /\ work' = work /\ Held
    BY <1>15 DEF EndProgress, Booking
  <2>2. Held'
    BY <2>1 DEF Held, Claimants, LiveOf, Terminal
  <2> QED
    BY <1>2, <2>1, <2>2 DEF Booking
<1>16. ASSUME NEW i \in queue, NEW t \in Transitions, AfterQuantum(i, t) PROVE Booking'
  <2>1. pc' = "progress" /\ Held
    BY <1>16 DEF AfterQuantum, Booking
  <2>2. i \in DOMAIN work.acts
    BY DEF IInv, IntentsNameActions
  <2>3. Held'
    BY <1>16, <2>1, <2>2, QuantumHeld
  <2> QED
    BY <1>2, <2>1, <2>3 DEF Booking
<1> QED
  BY <1>5, <1>6, <1>7, <1>8, <1>9, <1>10, <1>11, <1>12, <1>13, <1>14, <1>15, <1>16 DEF Next, Step

\* When the launches of AFTER_QUANTUM transitions, which no stage arbitrates, claim nothing,
\* arbitration never books an action slot beyond its capacity: not with intents dropped
\* after their claims were booked, with actions ended under the stage or with a fault
\* contained.
THEOREM SlotsWithinCapacityHolds ==
  Spec => [](QuantumClaimsNothing => SlotsWithinCapacity)
<1> DEFINE Inv == QuantumClaimsNothing => Booking
<1>1. Init => Inv
  BY LimitAssumption DEF Init, EmptyState, Booking, SlotsWithinCapacity
<1>2. IInv /\ UsageInv /\ Inv /\ [Next]_vars => Inv'
  BY BookingNext DEF QuantumClaimsNothing
<1>3. Inv => (QuantumClaimsNothing => SlotsWithinCapacity)
  BY DEF Booking
<1> HIDE DEF Inv
<1> QED
  BY <1>1, <1>2, <1>3, IInvAlways, UsageInvAlways, PTL DEF Spec
=============================================================================
