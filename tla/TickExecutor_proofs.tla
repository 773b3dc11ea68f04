------------------------ MODULE TickExecutor_proofs ------------------------
(***************************************************************************)
(* Proofs about TickExecutor for every forest of actions, every set of     *)
(* transitions and definitions, every fault policy and every limit: first  *)
(* lemmas that each operator of ActionTree keeps a state well-formed and   *)
(* coherent, then the steps of the executor.                               *)
(*                                                                         *)
(* Coherence is not inductive alone: a stage applies the intents and       *)
(* progresses the instances that were chosen when it began, so they must   *)
(* still name instances of the working copy.                               *)
(***************************************************************************)
EXTENDS TickExecutor, TLAPS, FiniteSetTheorems, SequenceTheorems

-----------------------------------------------------------------------------
(* The instances of a state *)

\* The instances of a state are numbered from 1 without gaps.
LEMMA ActsFacts ==
  ASSUME NEW s \in SimState
  PROVE  /\ Len(s.acts) \in Nat
         /\ DOMAIN s.acts = 1 .. Len(s.acts)
         /\ \A i \in DOMAIN s.acts : i \in Nat /\ i # NoParent /\ s.acts[i] \in Action
<1>1. s.acts \in Seq(Action)
  BY DEF SimState
<1>2. Len(s.acts) \in Nat /\ DOMAIN s.acts = 1 .. Len(s.acts)
  BY <1>1, LenProperties
<1>3. \A i \in 1 .. Len(s.acts) : s.acts[i] \in Action
  BY <1>1, ElementOfSeq
<1> QED
  BY <1>2, <1>3 DEF NoParent

\* An operation that rewrites every instance keeps their number.
LEMMA RemapType ==
  ASSUME NEW s \in SimState, NEW f \in [DOMAIN s.acts -> Action]
  PROVE  f \in Seq(Action) /\ Len(f) = Len(s.acts) /\ DOMAIN f = DOMAIN s.acts
<1>1. Len(s.acts) \in Nat /\ DOMAIN s.acts = 1 .. Len(s.acts)
  BY ActsFacts
<1>2. f \in Seq(Action)
  BY <1>1, SeqDef
<1>3. Len(f) = Len(s.acts)
  BY <1>1, <1>2, LenProperties
<1> QED
  BY <1>2, <1>3

\* Ending an action keeps a state well-formed.
LEMMA EndActionType ==
  ASSUME NEW s \in SimState, NEW i \in DOMAIN s.acts, NEW life \in Lives
  PROVE  /\ EndAction(s, i, life) \in SimState
         /\ Len(EndAction(s, i, life).acts) = Len(s.acts)
         /\ DOMAIN EndAction(s, i, life).acts = DOMAIN s.acts
<1> DEFINE D == Doomed(s, i)
           X == KidsUnder(s, D, "DETACH_CHILD")
           f == [j \in DOMAIN s.acts |->
                     IF j \in D
                       THEN [s.acts[j] EXCEPT !.life = IF j = i THEN life ELSE "TERMINATED",
                                              !.kids = @ \ X]
                     ELSE IF j \in X
                       THEN [s.acts[j] EXCEPT !.parent = NoParent, !.slot = NoSlot]
                     ELSE s.acts[j]]
           T == {t \in s.tokens : t.tgt \notin D}
<1> HIDE DEF D, X
<1>1. \A j \in DOMAIN s.acts : s.acts[j] \in Action
  BY ActsFacts
<1>2. f \in [DOMAIN s.acts -> Action]
  BY <1>1 DEF Action, Lives, NoParent
<1>3. f \in Seq(Action) /\ Len(f) = Len(s.acts) /\ DOMAIN f = DOMAIN s.acts
  BY <1>2, RemapType
<1>4. T \in SUBSET Token
  BY DEF SimState
<1>5. EndAction(s, i, life) = [s EXCEPT !.acts = f, !.tokens = T]
  BY DEF EndAction, D, X
<1> HIDE DEF f, T
<1> QED
  BY <1>3, <1>4, <1>5 DEF SimState

\* Faulting an entity keeps a state well-formed.
LEMMA EndEntityType ==
  ASSUME NEW s \in SimState, NEW e \in Entities
  PROVE  /\ EndEntity(s, e) \in SimState
         /\ Len(EndEntity(s, e).acts) = Len(s.acts)
         /\ DOMAIN EndEntity(s, e).acts = DOMAIN s.acts
<1> DEFINE D == LiveOf(s, e)
           g(j) == LET a   == s.acts[j]
                       cut == (j \in D) # (a.parent \in D)
                   IN  [a EXCEPT !.life   = IF j \in D THEN "FAULTED" ELSE @,
                                 !.kids   = IF j \in D THEN @ \intersect D ELSE @ \ D,
                                 !.parent = IF cut THEN NoParent ELSE @,
                                 !.slot   = IF cut THEN NoSlot ELSE @]
           f == [j \in DOMAIN s.acts |-> g(j)]
           T == {t \in s.tokens : t.tgt \notin D}
<1>1. EndEntity(s, e) = [s EXCEPT !.acts = f, !.tokens = T]
  BY DEF EndEntity, D, f, T
<1> HIDE DEF D
<1>2. ASSUME NEW j \in DOMAIN s.acts PROVE g(j) \in Action
  <2> DEFINE a == s.acts[j]
             cut == (j \in D) # (a.parent \in D)
             life == IF j \in D THEN "FAULTED" ELSE a.life
             kids == IF j \in D THEN a.kids \intersect D ELSE a.kids \ D
             parent == IF cut THEN NoParent ELSE a.parent
             slot == IF cut THEN NoSlot ELSE a.slot
  <2>1. a \in Action
    BY ActsFacts
  <2>2. life \in Lives /\ kids \in SUBSET Nat
    BY <2>1 DEF Action, Lives
  <2>3. parent \in Nat /\ slot \in ChildSlots \union {NoSlot}
    BY <2>1 DEF Action, NoParent
  <2>4. g(j) = [a EXCEPT !.life = life, !.kids = kids, !.parent = parent, !.slot = slot]
    OBVIOUS
  <2> HIDE DEF a, life, kids, parent, slot, g
  <2> QED
    BY <2>1, <2>2, <2>3, <2>4 DEF Action
<1>3. f \in Seq(Action) /\ Len(f) = Len(s.acts) /\ DOMAIN f = DOMAIN s.acts
  BY <1>2, RemapType
<1>4. T \in SUBSET Token
  BY DEF SimState
<1> HIDE DEF f, T
<1> QED
  BY <1>1, <1>3, <1>4 DEF SimState

\* Starting an action appends one instance, which is not linked to anything yet.
LEMMA StartActionType ==
  ASSUME NEW s \in SimState, NEW d \in Definition, NEW e \in Entities, NEW parent \in Nat,
         NEW slot \in ChildSlots \union {NoSlot}
  PROVE  /\ StartAction(s, d, e, parent, slot) \in SimState
         /\ Len(StartAction(s, d, e, parent, slot).acts) = Len(s.acts) + 1
         /\ DOMAIN StartAction(s, d, e, parent, slot).acts
              = DOMAIN s.acts \union {Len(s.acts) + 1}
         /\ \A i \in DOMAIN s.acts : StartAction(s, d, e, parent, slot).acts[i] = s.acts[i]
<1> DEFINE a == [owner |-> e, life |-> IF d.terminal THEN "TERMINATED" ELSE "RUNNING",
                 parent |-> parent, slot |-> slot, kids |-> {}, told |-> FALSE,
                 inbox |-> {}, claim |-> d.claim]
           q == Append(s.acts, a)
<1>1. a \in Action
  BY DEF Action, Lives, Definition
<1>2. s.acts \in Seq(Action)
  BY DEF SimState
<1>3. StartAction(s, d, e, parent, slot) = [s EXCEPT !.acts = q]
  BY DEF StartAction
<1> HIDE DEF a
<1>4. /\ q \in Seq(Action)
      /\ Len(q) = Len(s.acts) + 1
      /\ \A i \in 1 .. Len(s.acts) : q[i] = s.acts[i]
      /\ q[Len(s.acts) + 1] = a
  BY <1>1, <1>2, AppendProperties
<1>5. DOMAIN q = 1 .. Len(s.acts) + 1
  BY <1>4, LenProperties
<1>6. DOMAIN q = DOMAIN s.acts \union {Len(s.acts) + 1}
  BY <1>5, ActsFacts
<1> HIDE DEF q
<1> QED
  BY <1>3, <1>4, <1>6, ActsFacts DEF SimState

\* Launching a child keeps a state well-formed.
LEMMA LaunchChildType ==
  ASSUME SlotAssumption, NEW s \in SimState, NEW now \in Nat, NEW i \in DOMAIN s.acts,
         NEW t \in Transition
  PROVE  /\ LaunchChild(s, now, i, t) \in SimState
         /\ Len(LaunchChild(s, now, i, t).acts) = Len(s.acts) + 1
<1> DEFINE c == Len(s.acts) + 1
           started == StartAction(s, t.target, s.acts[i].owner, i, t.slot)
           settled == IF t.policy = "TERMINATE_PARENT" THEN EndAction(started, i, "TERMINATED")
                      ELSE started
           freeze  == [src |-> c, tgt |-> i, from |-> now + 1, domains |-> FrozenBy(t.policy)]
           T == IF FrozenBy(t.policy) = {} THEN settled.tokens ELSE settled.tokens \union {freeze}
           q == [settled.acts EXCEPT ![i].kids = @ \union {c}]
<1>1. i \in Nat /\ s.acts[i] \in Action /\ Len(s.acts) \in Nat
  BY ActsFacts
<1>2. s.acts[i].owner \in Entities /\ t.target \in Definition /\ t.slot \in ChildSlots \union {NoSlot}
  BY <1>1 DEF Action, Transition
<1>3. started \in SimState /\ Len(started.acts) = c /\ i \in DOMAIN started.acts
  <2> HIDE DEF started
  <2> QED
    BY <1>1, <1>2, StartActionType DEF started
<1>4. settled \in SimState /\ Len(settled.acts) = c /\ i \in DOMAIN settled.acts
  BY <1>3, EndActionType DEF Lives
<1>5. freeze \in Token
  BY <1>1 DEF Token, FrozenBy, Domains
<1>6. LaunchChild(s, now, i, t) = [settled EXCEPT !.acts = q, !.tokens = T]
  BY DEF LaunchChild
<1> HIDE DEF settled, freeze, started
<1>7. T \in SUBSET Token
  BY <1>4, <1>5 DEF SimState
<1> HIDE DEF T
<1>8. q \in [DOMAIN settled.acts -> Action]
  <2>1. settled.acts[i] \in Action /\ c \in Nat
    BY <1>1, <1>4, ActsFacts
  <2>2. [settled.acts[i] EXCEPT !.kids = @ \union {c}] \in Action
    BY <2>1 DEF Action
  <2>3. q = [j \in DOMAIN settled.acts |->
               IF j = i THEN [settled.acts[i] EXCEPT !.kids = @ \union {c}] ELSE settled.acts[j]]
    BY <1>4, ActsFacts
  <2> QED
    BY <1>4, <2>2, <2>3, ActsFacts
<1>9. q \in Seq(Action) /\ Len(q) = c
  BY <1>4, <1>8, RemapType
<1> HIDE DEF q
<1> QED
  BY <1>4, <1>6, <1>7, <1>9 DEF SimState

\* Applying a transition keeps a state well-formed and starts at most one action.
LEMMA ApplyTransitionType ==
  ASSUME SlotAssumption, NEW s \in SimState, NEW now \in Nat, NEW i \in DOMAIN s.acts,
         NEW t \in Transition
  PROVE  /\ ApplyTransition(s, now, i, t) \in SimState
         /\ DOMAIN s.acts \subseteq DOMAIN ApplyTransition(s, now, i, t).acts
<1> DEFINE Launch(from) == StartAction(from, t.target, s.acts[i].owner, NoParent, NoSlot)
           suspended == [s EXCEPT !.acts[i].life = "SUSPENDED"]
<1>1. s.acts[i] \in Action /\ s.acts[i].owner \in Entities /\ t.target \in Definition
  BY ActsFacts DEF Action, Transition
<1>2. ASSUME NEW from \in SimState, DOMAIN from.acts = DOMAIN s.acts
      PROVE  Launch(from) \in SimState /\ DOMAIN s.acts \subseteq DOMAIN Launch(from).acts
  <2>1. NoParent \in Nat /\ NoSlot \in ChildSlots \union {NoSlot}
    BY DEF NoParent
  <2> DEFINE o == s.acts[i].owner
  <2>2. o \in Entities
    BY <1>1
  <2> HIDE DEF o
  <2>3. /\ StartAction(from, t.target, o, NoParent, NoSlot) \in SimState
        /\ DOMAIN StartAction(from, t.target, o, NoParent, NoSlot).acts
             = DOMAIN from.acts \union {Len(from.acts) + 1}
    BY <1>1, <2>1, <2>2, StartActionType
  <2> QED
    BY <1>2, <2>3 DEF o
<1>3. \A life \in Lives : /\ EndAction(s, i, life) \in SimState
                           /\ DOMAIN EndAction(s, i, life).acts = DOMAIN s.acts
  BY EndActionType
<1>4. suspended \in SimState /\ DOMAIN suspended.acts = DOMAIN s.acts
  <2> DEFINE f == [s.acts EXCEPT ![i].life = "SUSPENDED"]
  <2>1. [s.acts[i] EXCEPT !.life = "SUSPENDED"] \in Action
    BY <1>1 DEF Action, Lives
  <2>2. f = [j \in DOMAIN s.acts |->
               IF j = i THEN [s.acts[i] EXCEPT !.life = "SUSPENDED"] ELSE s.acts[j]]
    BY ActsFacts DEF SimState
  <2>3. f \in [DOMAIN s.acts -> Action]
    BY <2>1, <2>2, ActsFacts
  <2>4. f \in Seq(Action) /\ DOMAIN f = DOMAIN s.acts
    BY <2>3, RemapType
  <2>5. suspended = [s EXCEPT !.acts = f]
    OBVIOUS
  <2> HIDE DEF f, suspended
  <2> QED
    BY <2>4, <2>5 DEF SimState
<1> HIDE DEF suspended
<1>5. CASE t.kind = "TERMINATE"
  BY <1>3, <1>5 DEF ApplyTransition, Lives
<1>6. CASE t.kind = "FAULT"
  BY <1>3, <1>6 DEF ApplyTransition, Lives
<1>7. CASE t.kind = "TERMINATE_SOURCE"
  <2>1. ApplyTransition(s, now, i, t) = Launch(EndAction(s, i, "TERMINATED"))
    BY <1>7 DEF ApplyTransition
  <2> HIDE DEF Launch
  <2> QED
    BY <2>1, <1>2, <1>3 DEF Lives
<1>8. CASE t.kind = "SUSPEND_SOURCE"
  <2>1. ApplyTransition(s, now, i, t) = Launch(suspended)
    BY <1>8 DEF ApplyTransition, suspended
  <2> HIDE DEF Launch
  <2> QED
    BY <2>1, <1>2, <1>4
<1>9. CASE t.kind = "KEEP_SOURCE"
  <2>1. ApplyTransition(s, now, i, t) = Launch(s)
    BY <1>9 DEF ApplyTransition
  <2> HIDE DEF Launch
  <2> QED
    BY <2>1, <1>2
<1>10. CASE t.kind = "CHILD_ACTION"
  <2>1. ApplyTransition(s, now, i, t) = LaunchChild(s, now, i, t)
    BY <1>10 DEF ApplyTransition
  <2>2. /\ LaunchChild(s, now, i, t) \in SimState
        /\ Len(LaunchChild(s, now, i, t).acts) = Len(s.acts) + 1
    BY LaunchChildType
  <2> QED
    BY <2>1, <2>2, ActsFacts
<1>11. t.kind \in {"TERMINATE", "FAULT", "TERMINATE_SOURCE", "SUSPEND_SOURCE", "KEEP_SOURCE",
                   "CHILD_ACTION"}
  BY DEF Transition, Kinds, LaunchKinds
<1> QED
  BY <1>5, <1>6, <1>7, <1>8, <1>9, <1>10, <1>11

\* Delivering events keeps a state well-formed.
LEMMA DeliverEventsType ==
  ASSUME NEW s \in SimState, NEW now \in Nat
  PROVE  /\ DeliverEvents(s, now) \in SimState
         /\ DOMAIN DeliverEvents(s, now).acts = DOMAIN s.acts
<1> DEFINE seen(i) == {e.child : e \in {d \in Due(s, now) : d.tgt = i}}
           f == [i \in DOMAIN s.acts |-> [s.acts[i] EXCEPT !.inbox = @ \union seen(i)]]
           E == s.events \ Due(s, now)
<1>1. E \in SUBSET Event /\ \A i : seen(i) \in SUBSET Nat
  BY DEF SimState, Due, Event
<1>2. DeliverEvents(s, now) = [s EXCEPT !.acts = f, !.events = E]
  BY DEF DeliverEvents
<1> HIDE DEF seen, E
<1>3. f \in [DOMAIN s.acts -> Action]
  BY <1>1, ActsFacts DEF Action
<1>4. f \in Seq(Action) /\ DOMAIN f = DOMAIN s.acts
  BY <1>3, RemapType
<1> HIDE DEF f
<1> QED
  BY <1>1, <1>2, <1>4 DEF SimState

\* Publishing the results of finished children keeps a state well-formed.
LEMMA FinalizeType ==
  ASSUME NEW s \in SimState, NEW now \in Nat
  PROVE  /\ FinalizeChildResults(s, now) \in SimState
         /\ DOMAIN FinalizeChildResults(s, now).acts = DOMAIN s.acts
<1> DEFINE F == Finished(s)
           result(c) == [child |-> c, tgt |-> s.acts[c].parent, result |-> s.acts[c].life,
                         due |-> now + 1]
           f == [i \in DOMAIN s.acts |->
                     [s.acts[i] EXCEPT !.kids = @ \ {c \in F : s.acts[c].parent = i},
                                       !.told = @ \/ i \in F]]
           T == {t \in s.tokens : ~(t.src \in F /\ t.tgt = s.acts[t.src].parent)}
           E == s.events \union {result(c) : c \in F}
<1>1. FinalizeChildResults(s, now) = [s EXCEPT !.acts = f, !.tokens = T, !.events = E]
  BY DEF FinalizeChildResults
<1>2. \A c \in F : result(c) \in Event
  BY ActsFacts DEF Finished, Terminal, Action, Event
<1>3. E \in SUBSET Event /\ T \in SUBSET Token
  <2> HIDE DEF F, result
  <2> QED
    BY <1>2 DEF SimState
<1> HIDE DEF F, E, T
<1>4. ASSUME NEW i \in DOMAIN s.acts PROVE f[i] \in Action
  <2> DEFINE told == s.acts[i].told \/ i \in F
             kids == s.acts[i].kids \ {c \in F : s.acts[c].parent = i}
  <2>1. s.acts[i] \in Action
    BY ActsFacts
  <2>2. kids \in SUBSET Nat
    BY <2>1 DEF Action
  <2>3. told \in BOOLEAN
    OBVIOUS
  <2>4. f[i] = [s.acts[i] EXCEPT !.kids = kids, !.told = told]
    OBVIOUS
  <2> HIDE DEF told, kids, f
  <2> QED
    BY <2>1, <2>2, <2>3, <2>4 DEF Action
<1>5. f \in [DOMAIN s.acts -> Action]
  BY <1>4
<1>6. f \in Seq(Action) /\ DOMAIN f = DOMAIN s.acts
  BY <1>5, RemapType
<1> HIDE DEF f
<1> QED
  BY <1>1, <1>3, <1>6 DEF SimState

\* So does the maintenance of a tick.
LEMMA MaintainType ==
  ASSUME NEW s \in SimState, NEW now \in Nat
  PROVE  Maintain(s, now) \in SimState /\ DOMAIN Maintain(s, now).acts = DOMAIN s.acts
<1> DEFINE g == FinalizeChildResults(s, now)
           f == [i \in DOMAIN g.acts |-> [g.acts[i] EXCEPT !.inbox = {}]]
<1>1. g \in SimState /\ DOMAIN g.acts = DOMAIN s.acts
  BY FinalizeType
<1>2. Maintain(s, now) = [g EXCEPT !.acts = f]
  BY DEF Maintain
<1> HIDE DEF g
<1>3. f \in [DOMAIN g.acts -> Action]
  BY <1>1, ActsFacts DEF Action
<1>4. f \in Seq(Action) /\ DOMAIN f = DOMAIN g.acts
  BY <1>1, <1>3, RemapType
<1> HIDE DEF f
<1> QED
  BY <1>1, <1>2, <1>4 DEF SimState

\* The number of instances of any kind is a number.
LEMMA RebuildType ==
  ASSUME NEW s \in SimState
  PROVE  RebuildSlots(s) \in SimState /\ RebuildSlots(s).acts = s.acts
<1>1. ASSUME NEW e \in Entities
      PROVE  Cardinality({i \in LiveOf(s, e) : s.acts[i].claim = 1}) \in Nat
  <2>1. IsFiniteSet(1 .. Len(s.acts))
    BY ActsFacts, FS_Interval
  <2>2. {i \in LiveOf(s, e) : s.acts[i].claim = 1} \subseteq 1 .. Len(s.acts)
    BY ActsFacts DEF LiveOf
  <2>3. IsFiniteSet({i \in LiveOf(s, e) : s.acts[i].claim = 1})
    BY <2>1, <2>2, FS_Subset
  <2> QED
    BY <2>3, FS_CardinalityType
<1>2. SlotUsage(s) \in [Entities -> Nat]
  BY <1>1 DEF SlotUsage
<1> QED
  BY <1>2 DEF RebuildSlots, SimState

-----------------------------------------------------------------------------
(* The actions that end together *)

\* Doomed is the least set that contains i and the children that end with a member.
LEMMA DoomedFacts ==
  ASSUME NEW s \in SimState, NEW i \in DOMAIN s.acts
  PROVE  /\ i \in Doomed(s, i)
         /\ Doomed(s, i) \subseteq DOMAIN s.acts
         /\ KidsUnder(s, Doomed(s, i), "TERMINATE_CHILD") \subseteq Doomed(s, i)
         /\ \A D \in SUBSET (DOMAIN s.acts) :
              i \in D /\ KidsUnder(s, D, "TERMINATE_CHILD") \subseteq D => Doomed(s, i) \subseteq D
<1>1. Doomed(s, i) \subseteq DOMAIN s.acts /\ i \in Doomed(s, i)
  BY DEF Doomed
<1>2. \A D \in SUBSET (DOMAIN s.acts) :
        i \in D /\ KidsUnder(s, D, "TERMINATE_CHILD") \subseteq D => Doomed(s, i) \subseteq D
  BY DEF Doomed
<1>3. ASSUME NEW c \in KidsUnder(s, Doomed(s, i), "TERMINATE_CHILD"),
             NEW D \in SUBSET (DOMAIN s.acts),
             i \in D, KidsUnder(s, D, "TERMINATE_CHILD") \subseteq D
      PROVE  c \in D
  <2>1. Doomed(s, i) \subseteq D
    BY <1>2, <1>3
  <2>2. c \in KidsUnder(s, D, "TERMINATE_CHILD")
    BY <2>1 DEF KidsUnder
  <2> QED
    BY <2>2, <1>3
<1>4. \A c \in KidsUnder(s, Doomed(s, i), "TERMINATE_CHILD") : c \in DOMAIN s.acts
  BY DEF KidsUnder
<1>5. KidsUnder(s, Doomed(s, i), "TERMINATE_CHILD") \subseteq Doomed(s, i)
  BY <1>3, <1>4 DEF Doomed
<1> QED
  BY <1>1, <1>2, <1>5

\* The links agree, except that the actions of U may be missing from the list of their
\* parent: the child that a transition launches is linked last.
LinksBut(s, U) ==
  \A i \in DOMAIN s.acts :
    LET a == s.acts[i] IN
    /\ a.parent \in 0 .. (i - 1)
    /\ a.parent # NoParent => a.slot \in ChildSlots /\ s.acts[a.parent].owner = a.owner
    /\ a.parent # NoParent /\ ~a.told /\ i \notin U => i \in s.acts[a.parent].kids
    /\ \A c \in a.kids : c \in DOMAIN s.acts /\ s.acts[c].parent = i /\ ~s.acts[c].told

CoherentBut(s, U) == LinksBut(s, U) /\ FreezesAgree(s) /\ ResultsAgree(s)

\* Coherence has no exceptions.
LEMMA CoherentIsCoherentBut ==
  ASSUME NEW s
  PROVE  Coherent(s) <=> CoherentBut(s, {})
BY DEF Coherent, CoherentBut, LinksAgree, LinksBut

\* No action of the set that ends is detached: neither the first one, since its
\* descendants are younger, nor another one, which ends because of its policy.
LEMMA DetachedSurvive ==
  ASSUME NEW s \in SimState, NEW U, LinksBut(s, U), NEW i \in DOMAIN s.acts
  PROVE  KidsUnder(s, Doomed(s, i), "DETACH_CHILD") \intersect Doomed(s, i) = {}
<1> DEFINE D == Doomed(s, i)
<1>1. /\ i \in D /\ D \subseteq DOMAIN s.acts
      /\ KidsUnder(s, D, "TERMINATE_CHILD") \subseteq D
      /\ \A S \in SUBSET (DOMAIN s.acts) :
           i \in S /\ KidsUnder(s, S, "TERMINATE_CHILD") \subseteq S => D \subseteq S
  BY DoomedFacts
<1> HIDE DEF D
<1>2. \A p \in DOMAIN s.acts : \A c \in s.acts[p].kids :
        c \in DOMAIN s.acts /\ c \in Nat /\ p \in Nat /\ p < c
  BY ActsFacts DEF LinksBut
<1>3. \A x \in D : x >= i
  <2> DEFINE S == {x \in DOMAIN s.acts : x >= i}
  <2>1. i \in S
    BY ActsFacts
  <2>2. KidsUnder(s, S, "TERMINATE_CHILD") \subseteq S
    BY <1>2, ActsFacts DEF KidsUnder
  <2> QED
    BY <1>1, <2>1, <2>2
<1>4. SUFFICES ASSUME NEW c \in KidsUnder(s, D, "DETACH_CHILD"), c \in D PROVE FALSE
  BY DEF D
<1>5. PICK p \in D : c \in s.acts[p].kids /\ TermPolicy[s.acts[c].slot] = "DETACH_CHILD"
  BY DEF KidsUnder
<1>6. c # i
  BY <1>1, <1>2, <1>3, <1>5, ActsFacts
<1>7. KidsUnder(s, D \ {c}, "TERMINATE_CHILD") \subseteq D \ {c}
  BY <1>1, <1>5 DEF KidsUnder
<1>8. i \in D \ {c} /\ D \ {c} \in SUBSET (DOMAIN s.acts)
  BY <1>1, <1>6
<1>9. D \subseteq D \ {c}
  BY <1>1, <1>7, <1>8
<1> QED
  BY <1>4, <1>9

\* An action that no other one lists as its child is left alone by the end of any other.
LEMMA UnlistedSpared ==
  ASSUME NEW s \in SimState, NEW i \in DOMAIN s.acts, NEW c \in DOMAIN s.acts, c # i,
         \A p \in DOMAIN s.acts : c \notin s.acts[p].kids
  PROVE  c \notin Doomed(s, i) /\ c \notin KidsUnder(s, Doomed(s, i), "DETACH_CHILD")
<1> DEFINE D == Doomed(s, i)
<1>1. /\ i \in D /\ D \subseteq DOMAIN s.acts
      /\ KidsUnder(s, D, "TERMINATE_CHILD") \subseteq D
      /\ \A S \in SUBSET (DOMAIN s.acts) :
           i \in S /\ KidsUnder(s, S, "TERMINATE_CHILD") \subseteq S => D \subseteq S
  BY DoomedFacts
<1> HIDE DEF D
<1>2. ASSUME NEW S \in SUBSET (DOMAIN s.acts), NEW p PROVE c \notin KidsUnder(s, S, p)
  BY DEF KidsUnder
<1>3. KidsUnder(s, D \ {c}, "TERMINATE_CHILD") \subseteq KidsUnder(s, D, "TERMINATE_CHILD")
  BY DEF KidsUnder
<1>4. KidsUnder(s, D \ {c}, "TERMINATE_CHILD") \subseteq D \ {c}
  BY <1>1, <1>2, <1>3
<1>5. D \subseteq D \ {c}
  BY <1>1, <1>4
<1> QED
  BY <1>1, <1>2, <1>5 DEF D

\* What the end of an action changes, instance by instance.
LEMMA EndActionActs ==
  ASSUME NEW s \in SimState, NEW i \in DOMAIN s.acts, NEW life \in Lives,
         NEW D, D = Doomed(s, i), NEW X, X = KidsUnder(s, D, "DETACH_CHILD"),
         NEW n, n = EndAction(s, i, life)
  PROVE  /\ DOMAIN n.acts = DOMAIN s.acts
         /\ n.tokens = {t \in s.tokens : t.tgt \notin D}
         /\ n.events = s.events /\ n.usage = s.usage
         /\ \A j \in DOMAIN s.acts :
              /\ n.acts[j].owner = s.acts[j].owner
              /\ n.acts[j].told = s.acts[j].told
              /\ n.acts[j].inbox = s.acts[j].inbox
              /\ n.acts[j].claim = s.acts[j].claim
              /\ j \in D => /\ n.acts[j].life = IF j = i THEN life ELSE "TERMINATED"
                            /\ n.acts[j].kids = s.acts[j].kids \ X
                            /\ n.acts[j].parent = s.acts[j].parent
                            /\ n.acts[j].slot = s.acts[j].slot
              /\ j \notin D => /\ n.acts[j].life = s.acts[j].life
                               /\ n.acts[j].kids = s.acts[j].kids
                               /\ j \notin X => n.acts[j] = s.acts[j]
                               /\ j \in X => n.acts[j].parent = NoParent
<1> DEFINE g(j) == IF j \in D
                     THEN [s.acts[j] EXCEPT !.life = IF j = i THEN life ELSE "TERMINATED",
                                            !.kids = @ \ X]
                   ELSE IF j \in X
                     THEN [s.acts[j] EXCEPT !.parent = NoParent, !.slot = NoSlot]
                   ELSE s.acts[j]
           f == [j \in DOMAIN s.acts |-> g(j)]
           T == {t \in s.tokens : t.tgt \notin D}
<1>1. n = [s EXCEPT !.acts = f, !.tokens = T]
  BY DEF EndAction
<1>2. n.acts = f /\ n.tokens = T /\ n.events = s.events /\ n.usage = s.usage
  BY <1>1 DEF SimState
<1>3. ASSUME NEW j \in DOMAIN s.acts
      PROVE  n.acts[j] = g(j) /\ s.acts[j] \in Action
  BY <1>2, ActsFacts
<1> HIDE DEF f
<1>4. DOMAIN n.acts = DOMAIN s.acts
  BY <1>2 DEF f
<1>5. ASSUME NEW j \in DOMAIN s.acts
      PROVE  /\ n.acts[j].owner = s.acts[j].owner
             /\ n.acts[j].told = s.acts[j].told
             /\ n.acts[j].inbox = s.acts[j].inbox
             /\ n.acts[j].claim = s.acts[j].claim
             /\ j \in D => /\ n.acts[j].life = IF j = i THEN life ELSE "TERMINATED"
                           /\ n.acts[j].kids = s.acts[j].kids \ X
                           /\ n.acts[j].parent = s.acts[j].parent
                           /\ n.acts[j].slot = s.acts[j].slot
             /\ j \notin D => /\ n.acts[j].life = s.acts[j].life
                              /\ n.acts[j].kids = s.acts[j].kids
                              /\ j \notin X => n.acts[j] = s.acts[j]
                              /\ j \in X => n.acts[j].parent = NoParent
  <2>1. n.acts[j] = g(j) /\ s.acts[j] \in Action
    BY <1>3
  <2>2. CASE j \in D
    BY <2>1, <2>2 DEF Action
  <2>3. CASE j \notin D /\ j \in X
    BY <2>1, <2>3 DEF Action
  <2>4. CASE j \notin D /\ j \notin X
    BY <2>1, <2>4 DEF Action
  <2> QED
    BY <2>2, <2>3, <2>4
<1> QED
  BY <1>2, <1>4, <1>5

\* The end of an action keeps a state coherent.
LEMMA EndActionCoherent ==
  ASSUME NEW s \in SimState, NEW U, CoherentBut(s, U), NEW i \in DOMAIN s.acts,
         NEW life \in {"TERMINATED", "FAULTED"}
  PROVE  CoherentBut(EndAction(s, i, life), U)
<1> DEFINE D == Doomed(s, i)
           X == KidsUnder(s, D, "DETACH_CHILD")
           n == EndAction(s, i, life)
<1>1. /\ DOMAIN n.acts = DOMAIN s.acts
      /\ n.tokens = {t \in s.tokens : t.tgt \notin D}
      /\ n.events = s.events
      /\ \A j \in DOMAIN s.acts :
           /\ n.acts[j].owner = s.acts[j].owner
           /\ n.acts[j].told = s.acts[j].told
           /\ n.acts[j].inbox = s.acts[j].inbox
           /\ j \in D => /\ n.acts[j].life \in {"TERMINATED", "FAULTED"}
                         /\ n.acts[j].kids = s.acts[j].kids \ X
                         /\ n.acts[j].parent = s.acts[j].parent
                         /\ n.acts[j].slot = s.acts[j].slot
           /\ j \notin D => /\ n.acts[j].life = s.acts[j].life
                            /\ n.acts[j].kids = s.acts[j].kids
                            /\ j \notin X => n.acts[j] = s.acts[j]
                            /\ j \in X => n.acts[j].parent = NoParent
  <2> life \in Lives
    BY DEF Lives
  <2> HIDE DEF D, X, n
  <2> QED
    BY EndActionActs DEF D, X, n
<1>2. X \intersect D = {}
  BY DetachedSurvive DEF CoherentBut
<1>3. X \subseteq UNION {s.acts[p].kids : p \in D} /\ D \subseteq DOMAIN s.acts
  BY DEF KidsUnder, Doomed
<1> HIDE DEF D, X, n
<1>4. LinksBut(n, U)
  <2>1. SUFFICES ASSUME NEW j \in DOMAIN s.acts
                 PROVE  /\ n.acts[j].parent \in 0 .. (j - 1)
                        /\ n.acts[j].parent # NoParent =>
                             /\ n.acts[j].slot \in ChildSlots
                             /\ n.acts[n.acts[j].parent].owner = n.acts[j].owner
                        /\ n.acts[j].parent # NoParent /\ ~n.acts[j].told /\ j \notin U =>
                             j \in n.acts[n.acts[j].parent].kids
                        /\ \A c \in n.acts[j].kids :
                             c \in DOMAIN s.acts /\ n.acts[c].parent = j /\ ~n.acts[c].told
    BY <1>1 DEF LinksBut
  <2>2. /\ s.acts[j].parent \in 0 .. (j - 1)
        /\ s.acts[j].parent # NoParent =>
             s.acts[j].slot \in ChildSlots /\ s.acts[s.acts[j].parent].owner = s.acts[j].owner
        /\ s.acts[j].parent # NoParent /\ ~s.acts[j].told /\ j \notin U =>
             j \in s.acts[s.acts[j].parent].kids
        /\ \A c \in s.acts[j].kids :
             c \in DOMAIN s.acts /\ s.acts[c].parent = j /\ ~s.acts[c].told
    BY DEF CoherentBut, LinksBut
  <2>3. s.acts[j].parent # NoParent => s.acts[j].parent \in DOMAIN s.acts
    BY <2>2, ActsFacts DEF NoParent
  <2>4. /\ j \in Nat /\ j # NoParent
        /\ n.acts[j].parent = NoParent \/ n.acts[j].parent = s.acts[j].parent
        /\ n.acts[j].parent # NoParent => n.acts[j].slot = s.acts[j].slot /\ j \notin X
    BY <1>1, <1>2, ActsFacts
  <2>5. n.acts[j].parent \in 0 .. (j - 1)
    BY <2>2, <2>4 DEF NoParent
  <2>6. n.acts[j].parent # NoParent =>
          /\ n.acts[j].slot \in ChildSlots
          /\ n.acts[n.acts[j].parent].owner = n.acts[j].owner
    BY <1>1, <2>2, <2>3, <2>4
  <2>7. n.acts[j].parent # NoParent /\ ~n.acts[j].told /\ j \notin U =>
          j \in n.acts[n.acts[j].parent].kids
    BY <1>1, <2>2, <2>3, <2>4
  <2>8. ASSUME NEW c \in n.acts[j].kids
        PROVE  c \in DOMAIN s.acts /\ n.acts[c].parent = j /\ ~n.acts[c].told
    <3>1. c \in s.acts[j].kids /\ (j \in D => c \notin X)
      BY <1>1
    <3>2. c \in DOMAIN s.acts /\ s.acts[c].parent = j /\ ~s.acts[c].told
      BY <2>2, <3>1
    <3>3. c \notin X
      <4>1. SUFFICES ASSUME c \in X PROVE FALSE
        OBVIOUS
      <4>2. PICK p \in D : c \in s.acts[p].kids
        BY <4>1, <1>3
      <4>3. s.acts[c].parent = p
        BY <4>2, <1>3 DEF CoherentBut, LinksBut
      <4> QED
        BY <4>1, <4>3, <3>1, <3>2
    <3> QED
      BY <1>1, <3>2, <3>3
  <2> QED
    BY <2>5, <2>6, <2>7, <2>8
<1>5. FreezesAgree(n)
  BY <1>1 DEF CoherentBut, FreezesAgree, Terminal
<1>6. ResultsAgree(n)
  BY <1>1 DEF CoherentBut, ResultsAgree, Terminal
<1> QED
  BY <1>4, <1>5, <1>6 DEF CoherentBut, n

\* The links agree as long as nothing they depend on changes.
LEMMA LinksCarry ==
  ASSUME NEW s \in SimState, LinksAgree(s), NEW n, DOMAIN n.acts = DOMAIN s.acts,
         \A j \in DOMAIN s.acts :
           /\ n.acts[j].owner = s.acts[j].owner
           /\ n.acts[j].parent = s.acts[j].parent
           /\ n.acts[j].slot = s.acts[j].slot
           /\ n.acts[j].told = s.acts[j].told
           /\ n.acts[j].kids = s.acts[j].kids
  PROVE  LinksAgree(n)
<1>1. \A j \in DOMAIN s.acts : s.acts[j].parent # NoParent => s.acts[j].parent \in DOMAIN s.acts
  BY ActsFacts DEF LinksAgree, NoParent
<1>2. ASSUME NEW j \in DOMAIN s.acts
      PROVE  /\ n.acts[j].parent \in 0 .. (j - 1)
             /\ n.acts[j].parent # NoParent =>
                  /\ n.acts[j].slot \in ChildSlots
                  /\ n.acts[n.acts[j].parent].owner = n.acts[j].owner
             /\ n.acts[j].parent # NoParent /\ ~n.acts[j].told =>
                  j \in n.acts[n.acts[j].parent].kids
             /\ \A c \in n.acts[j].kids :
                  c \in DOMAIN s.acts /\ n.acts[c].parent = j /\ ~n.acts[c].told
  BY <1>1 DEF LinksAgree
<1> QED
  BY <1>2 DEF LinksAgree

\* Starting an action keeps a state coherent, but for the link its parent still lacks.
LEMMA StartActionCoherent ==
  ASSUME NEW s \in SimState, Coherent(s), NEW d \in Definition, NEW e \in Entities,
         NEW parent \in Nat, parent \in {NoParent} \union DOMAIN s.acts,
         NEW slot \in ChildSlots \union {NoSlot},
         parent # NoParent => slot \in ChildSlots /\ s.acts[parent].owner = e
  PROVE  /\ CoherentBut(StartAction(s, d, e, parent, slot), {Len(s.acts) + 1})
         /\ parent = NoParent => Coherent(StartAction(s, d, e, parent, slot))
         /\ StartAction(s, d, e, parent, slot).acts[Len(s.acts) + 1].parent \in {parent}
         /\ ~StartAction(s, d, e, parent, slot).acts[Len(s.acts) + 1].told
         /\ StartAction(s, d, e, parent, slot).tokens = s.tokens
         /\ \A p \in DOMAIN StartAction(s, d, e, parent, slot).acts :
              Len(s.acts) + 1 \notin StartAction(s, d, e, parent, slot).acts[p].kids
<1> DEFINE c == Len(s.acts) + 1
           n == StartAction(s, d, e, parent, slot)
           a == [owner |-> e, life |-> IF d.terminal THEN "TERMINATED" ELSE "RUNNING",
                 parent |-> parent, slot |-> slot, kids |-> {}, told |-> FALSE,
                 inbox |-> {}, claim |-> d.claim]
<1>1. /\ Len(s.acts) \in Nat /\ DOMAIN s.acts = 1 .. Len(s.acts) /\ c \notin DOMAIN s.acts
      /\ \A i \in DOMAIN s.acts : i \in Nat /\ i # NoParent /\ i < c
  BY ActsFacts
<1>2. parent \in Nat /\ parent \in 0 .. (c - 1)
  BY <1>1 DEF NoParent
<1>3. /\ DOMAIN n.acts = DOMAIN s.acts \union {c}
      /\ \A i \in DOMAIN s.acts : n.acts[i] = s.acts[i]
  <2> HIDE DEF n
  <2> QED
    BY <1>2, StartActionType DEF n
<1>4. n = [s EXCEPT !.acts = Append(s.acts, a)]
  BY DEF StartAction
<1>5. n.tokens = s.tokens /\ n.events = s.events
  <2> HIDE DEF a, n
  <2> QED
    BY <1>4 DEF SimState
<1>6. n.acts[c] = a
  <2>1. a \in Action /\ s.acts \in Seq(Action)
    BY <1>2 DEF Action, Lives, Definition, SimState
  <2> HIDE DEF a, n
  <2>2. n.acts = Append(s.acts, a)
    BY <1>4 DEF SimState
  <2> QED
    BY <2>1, <2>2, AppendProperties
<1>7. /\ n.acts[c].parent = parent /\ n.acts[c].slot = slot /\ n.acts[c].owner = e
      /\ ~n.acts[c].told /\ n.acts[c].kids = {} /\ n.acts[c].inbox = {}
  BY <1>6
<1> HIDE DEF a, n, c
<1>8. \A i \in DOMAIN s.acts : \A k \in s.acts[i].kids : k \in DOMAIN s.acts
  BY DEF Coherent, LinksAgree
<1>9. \A p \in DOMAIN n.acts : c \notin n.acts[p].kids
  BY <1>1, <1>3, <1>7, <1>8
<1>10. LinksBut(n, {c})
  <2>1. ASSUME NEW i \in DOMAIN s.acts
        PROVE  /\ n.acts[i].parent \in 0 .. (i - 1)
               /\ n.acts[i].parent # NoParent =>
                    /\ n.acts[i].slot \in ChildSlots
                    /\ n.acts[n.acts[i].parent].owner = n.acts[i].owner
               /\ n.acts[i].parent # NoParent /\ ~n.acts[i].told =>
                    i \in n.acts[n.acts[i].parent].kids
               /\ \A k \in n.acts[i].kids :
                    k \in DOMAIN n.acts /\ n.acts[k].parent = i /\ ~n.acts[k].told
    <3>1. /\ s.acts[i].parent \in 0 .. (i - 1)
          /\ s.acts[i].parent # NoParent =>
               s.acts[i].slot \in ChildSlots /\ s.acts[s.acts[i].parent].owner = s.acts[i].owner
          /\ s.acts[i].parent # NoParent /\ ~s.acts[i].told => i \in s.acts[s.acts[i].parent].kids
          /\ \A k \in s.acts[i].kids :
               k \in DOMAIN s.acts /\ s.acts[k].parent = i /\ ~s.acts[k].told
      BY DEF Coherent, LinksAgree
    <3>2. s.acts[i].parent # NoParent => s.acts[i].parent \in DOMAIN s.acts
      BY <1>1, <3>1 DEF NoParent
    <3> QED
      BY <1>3, <3>1, <3>2
  <2>2. /\ n.acts[c].parent \in 0 .. (c - 1)
        /\ n.acts[c].parent # NoParent =>
             /\ n.acts[c].slot \in ChildSlots
             /\ n.acts[n.acts[c].parent].owner = n.acts[c].owner
        /\ n.acts[c].kids = {}
    BY <1>2, <1>3, <1>7
  <2> QED
    BY <1>3, <2>1, <2>2 DEF LinksBut
<1>11. FreezesAgree(n)
  BY <1>3, <1>5 DEF Coherent, FreezesAgree
<1>12. ResultsAgree(n)
  <2>1. \A i \in DOMAIN n.acts :
          /\ n.acts[i].told => Terminal(n.acts[i])
          /\ \A k \in n.acts[i].inbox : k \in DOMAIN n.acts /\ n.acts[k].told
    BY <1>3, <1>7 DEF Coherent, ResultsAgree
  <2>2. \A x \in n.events :
          /\ x.child \in DOMAIN n.acts /\ x.tgt \in DOMAIN n.acts
          /\ n.acts[x.child].told
          /\ \A i \in DOMAIN n.acts : x.child \notin n.acts[i].inbox
          /\ \A f \in n.events : x.child = f.child => x = f
    BY <1>3, <1>5, <1>7 DEF Coherent, ResultsAgree
  <2> QED
    BY <2>1, <2>2 DEF ResultsAgree
<1>13. parent = NoParent => LinksBut(n, {})
  BY <1>7, <1>10 DEF LinksBut
<1> QED
  BY <1>5, <1>7, <1>9, <1>10, <1>11, <1>12, <1>13, CoherentIsCoherentBut DEF CoherentBut, n, c

\* Launching a child keeps a state coherent: the child is linked to its parent after the
\* children the parent had were dealt with, and freezes it only if it did not end.
LEMMA LaunchChildCoherent ==
  ASSUME NEW s \in SimState, Coherent(s), NEW now \in Nat, NEW i \in DOMAIN s.acts,
         ~Terminal(s.acts[i]), NEW t \in Transition, t.slot \in ChildSlots
  PROVE  Coherent(LaunchChild(s, now, i, t))
<1> DEFINE c == Len(s.acts) + 1
           o == s.acts[i].owner
           started == StartAction(s, t.target, o, i, t.slot)
           settled == IF t.policy = "TERMINATE_PARENT" THEN EndAction(started, i, "TERMINATED")
                      ELSE started
           freeze  == [src |-> c, tgt |-> i, from |-> now + 1, domains |-> FrozenBy(t.policy)]
           q == [settled.acts EXCEPT ![i].kids = @ \union {c}]
           T == IF FrozenBy(t.policy) = {} THEN settled.tokens ELSE settled.tokens \union {freeze}
           n == LaunchChild(s, now, i, t)
<1>1. i \in Nat /\ i # NoParent /\ o \in Entities /\ t.target \in Definition /\ c # i
  BY ActsFacts DEF Action, Transition
<1>2. n = [settled EXCEPT !.acts = q, !.tokens = T]
  BY DEF LaunchChild
<1> HIDE DEF o
<1>3. /\ started \in SimState
      /\ DOMAIN started.acts = DOMAIN s.acts \union {c}
      /\ \A j \in DOMAIN s.acts : started.acts[j] = s.acts[j]
      /\ CoherentBut(started, {c})
      /\ started.acts[c].parent = i
      /\ ~started.acts[c].told
      /\ \A p \in DOMAIN started.acts : c \notin started.acts[p].kids
  <2>1. /\ i \in Nat /\ i \in {NoParent} \union DOMAIN s.acts
        /\ t.slot \in ChildSlots \union {NoSlot}
        /\ i # NoParent => t.slot \in ChildSlots /\ s.acts[i].owner = o
    BY <1>1 DEF o
  <2> HIDE DEF started
  <2>2. /\ started \in SimState
        /\ DOMAIN started.acts = DOMAIN s.acts \union {c}
        /\ \A j \in DOMAIN s.acts : started.acts[j] = s.acts[j]
    BY <1>1, <2>1, StartActionType DEF started
  <2>3. /\ CoherentBut(started, {c})
        /\ started.acts[c].parent = i
        /\ ~started.acts[c].told
        /\ \A p \in DOMAIN started.acts : c \notin started.acts[p].kids
    <3> USE DEF started
    <3>1. CoherentBut(started, {c})
      BY <1>1, <2>1, StartActionCoherent
    <3>2. started.acts[c].parent = i
      <4>1. started.acts[c].parent \in {i}
        BY <1>1, <2>1, StartActionCoherent
      <4> QED
        BY <4>1
    <3>4. ~started.acts[c].told
      BY <1>1, <2>1, StartActionCoherent
    <3>3. \A p \in DOMAIN started.acts : c \notin started.acts[p].kids
      BY <1>1, <2>1, StartActionCoherent
    <3> QED
      BY <3>1, <3>2, <3>3, <3>4
  <2> QED
    BY <2>2, <2>3
<1> HIDE DEF started
<1>4. /\ settled \in SimState
      /\ DOMAIN settled.acts = DOMAIN s.acts \union {c}
      /\ CoherentBut(settled, {c})
      /\ settled.acts[c].parent = i
      /\ ~settled.acts[c].told
  <2>1. CASE t.policy = "TERMINATE_PARENT"
    <3>1. settled = EndAction(started, i, "TERMINATED")
      BY <2>1
    <3>2. settled \in SimState /\ DOMAIN settled.acts = DOMAIN started.acts
      BY <1>3, <3>1, EndActionType DEF Lives
    <3>3. CoherentBut(settled, {c})
      BY <1>3, <3>1, EndActionCoherent
    <3>4. settled.acts[c] = started.acts[c]
      <4>1. /\ c \notin Doomed(started, i)
            /\ c \notin KidsUnder(started, Doomed(started, i), "DETACH_CHILD")
        BY <1>1, <1>3, UnlistedSpared
      <4>2. i \in DOMAIN started.acts /\ c \in DOMAIN started.acts /\ "TERMINATED" \in Lives
        BY <1>3 DEF Lives
      <4> HIDE DEF settled, c
      <4> QED
        BY <1>3, <3>1, <4>1, <4>2, EndActionActs
    <3> QED
      BY <1>3, <3>2, <3>3, <3>4
  <2>2. CASE t.policy # "TERMINATE_PARENT"
    BY <1>3, <2>2
  <2> QED
    BY <2>1, <2>2
<1>5. FrozenBy(t.policy) # {} => ~Terminal(settled.acts[i])
  BY <1>3 DEF FrozenBy, Transition, ParentPolicies
<1> HIDE DEF settled
<1>6. n.acts = q /\ n.tokens = T /\ n.events = settled.events
  <2> HIDE DEF q, T, n
  <2> QED
    BY <1>2, <1>4 DEF SimState
<1>7. /\ DOMAIN n.acts = DOMAIN settled.acts
      /\ \A j \in DOMAIN settled.acts : j # i => n.acts[j] = settled.acts[j]
      /\ n.acts[i] = [settled.acts[i] EXCEPT !.kids = @ \union {c}]
  <2>1. i \in DOMAIN settled.acts
    BY <1>4
  <2> HIDE DEF n
  <2> QED
    BY <1>6, <2>1
<1>8. \A j \in DOMAIN settled.acts :
        /\ settled.acts[j] \in Action
        /\ n.acts[j].owner = settled.acts[j].owner
        /\ n.acts[j].life = settled.acts[j].life
        /\ n.acts[j].parent = settled.acts[j].parent
        /\ n.acts[j].slot = settled.acts[j].slot
        /\ n.acts[j].told = settled.acts[j].told
        /\ n.acts[j].inbox = settled.acts[j].inbox
        /\ \A k : k \in n.acts[j].kids <=> k \in settled.acts[j].kids \/ (j = i /\ k = c)
  <2>1. \A j \in DOMAIN settled.acts : settled.acts[j] \in Action
    BY <1>4, ActsFacts
  <2> HIDE DEF n
  <2>2. ASSUME NEW j \in DOMAIN settled.acts, j = i
        PROVE  /\ n.acts[j].owner = settled.acts[j].owner
               /\ n.acts[j].life = settled.acts[j].life
               /\ n.acts[j].parent = settled.acts[j].parent
               /\ n.acts[j].slot = settled.acts[j].slot
               /\ n.acts[j].told = settled.acts[j].told
               /\ n.acts[j].inbox = settled.acts[j].inbox
               /\ n.acts[j].kids = settled.acts[j].kids \union {c}
    BY <1>7, <2>1, <2>2 DEF Action
  <2> QED
    BY <1>7, <2>1, <2>2
<1>9. T \subseteq settled.tokens \union {freeze} /\ (T # settled.tokens => FrozenBy(t.policy) # {})
  OBVIOUS
<1>10. freeze.tgt = i /\ freeze.src = c
  OBVIOUS
<1> HIDE DEF n, q, T, freeze, c
<1>11. LinksAgree(n)
  <2>1. ASSUME NEW j \in DOMAIN settled.acts
        PROVE  /\ n.acts[j].parent \in 0 .. (j - 1)
               /\ n.acts[j].parent # NoParent =>
                    /\ n.acts[j].slot \in ChildSlots
                    /\ n.acts[n.acts[j].parent].owner = n.acts[j].owner
               /\ n.acts[j].parent # NoParent /\ ~n.acts[j].told =>
                    j \in n.acts[n.acts[j].parent].kids
               /\ \A k \in n.acts[j].kids :
                    k \in DOMAIN n.acts /\ n.acts[k].parent = j /\ ~n.acts[k].told
    <3>1. /\ settled.acts[j].parent \in 0 .. (j - 1)
          /\ settled.acts[j].parent # NoParent =>
               /\ settled.acts[j].slot \in ChildSlots
               /\ settled.acts[settled.acts[j].parent].owner = settled.acts[j].owner
          /\ settled.acts[j].parent # NoParent /\ ~settled.acts[j].told /\ j # c =>
               j \in settled.acts[settled.acts[j].parent].kids
          /\ \A k \in settled.acts[j].kids :
               k \in DOMAIN settled.acts /\ settled.acts[k].parent = j /\ ~settled.acts[k].told
      BY <1>4 DEF CoherentBut, LinksBut
    <3>2. settled.acts[j].parent # NoParent => settled.acts[j].parent \in DOMAIN settled.acts
      BY <1>4, <3>1, ActsFacts DEF NoParent
    <3>3. c \in DOMAIN settled.acts /\ i \in DOMAIN settled.acts
      BY <1>4
    <3>4. n.acts[j].parent # NoParent /\ ~n.acts[j].told => j \in n.acts[n.acts[j].parent].kids
      <4>1. SUFFICES ASSUME n.acts[j].parent # NoParent, ~n.acts[j].told
                     PROVE  j \in n.acts[settled.acts[j].parent].kids
        BY <1>8
      <4>2. j # c => j \in settled.acts[settled.acts[j].parent].kids
        BY <1>8, <3>1, <4>1
      <4>3. settled.acts[j].parent \in DOMAIN settled.acts
        BY <1>8, <3>2, <4>1
      <4>4. CASE j = c
        BY <1>4, <1>8, <4>3, <4>4
      <4>5. CASE j # c
        BY <1>8, <4>2, <4>3, <4>5
      <4> QED
        BY <4>4, <4>5
    <3>5. \A k \in n.acts[j].kids :
            k \in DOMAIN n.acts /\ n.acts[k].parent = j /\ ~n.acts[k].told
      <4>1. ASSUME NEW k \in n.acts[j].kids
            PROVE  k \in DOMAIN settled.acts /\ settled.acts[k].parent = j /\ ~settled.acts[k].told
        BY <1>4, <1>8, <3>1, <3>3, <4>1
      <4> QED
        BY <1>7, <1>8, <4>1
    <3> QED
      BY <1>8, <3>1, <3>2, <3>4, <3>5
  <2> QED
    BY <1>7, <2>1 DEF LinksAgree
<1>12. FreezesAgree(n)
  <2>1. ASSUME NEW x \in n.tokens
        PROVE  x.tgt \in DOMAIN n.acts /\ ~Terminal(n.acts[x.tgt]) /\ x.src \in n.acts[x.tgt].kids
    <3>1. CASE x \in settled.tokens
      BY <1>4, <1>7, <1>8, <3>1 DEF CoherentBut, FreezesAgree, Terminal
    <3>2. CASE x \notin settled.tokens
      <4>1. x.tgt = i /\ x.src = c /\ ~Terminal(settled.acts[i]) /\ i \in DOMAIN settled.acts
        BY <1>4, <1>5, <1>6, <1>9, <1>10, <3>2
      <4> QED
        BY <1>7, <1>8, <4>1 DEF Terminal
    <3> QED
      BY <3>1, <3>2
  <2> QED
    BY <2>1 DEF FreezesAgree
<1>13. ResultsAgree(n)
  BY <1>4, <1>6, <1>7, <1>8 DEF CoherentBut, ResultsAgree, Terminal
<1> QED
  BY <1>11, <1>12, <1>13 DEF Coherent, n

\* Applying a transition that does not raise keeps a state coherent.
LEMMA ApplyTransitionCoherent ==
  ASSUME NEW s \in SimState, Coherent(s), NEW now \in Nat, NEW i \in DOMAIN s.acts,
         s.acts[i].life = "RUNNING", NEW t \in Transition,
         t.kind = "CHILD_ACTION" => t.slot \in ChildSlots
  PROVE  Coherent(ApplyTransition(s, now, i, t))
<1> DEFINE o == s.acts[i].owner
           Launch(from) == StartAction(from, t.target, o, NoParent, NoSlot)
           suspended == [s EXCEPT !.acts[i].life = "SUSPENDED"]
<1>1. s.acts[i] \in Action /\ o \in Entities /\ t.target \in Definition /\ ~Terminal(s.acts[i])
  BY ActsFacts DEF Action, Transition, Terminal
<1> HIDE DEF o
<1>2. ASSUME NEW from \in SimState, Coherent(from)
      PROVE  Coherent(Launch(from))
  <2>1. /\ NoParent \in Nat /\ NoParent \in {NoParent} \union DOMAIN from.acts
        /\ NoSlot \in ChildSlots \union {NoSlot}
    BY DEF NoParent
  <2> QED
    BY <1>1, <1>2, <2>1, StartActionCoherent
<1>3. \A life \in {"TERMINATED", "FAULTED"} :
        EndAction(s, i, life) \in SimState /\ Coherent(EndAction(s, i, life))
  BY EndActionType, EndActionCoherent, CoherentIsCoherentBut DEF Lives
<1>4. suspended \in SimState /\ Coherent(suspended)
  <2> DEFINE f == [s.acts EXCEPT ![i].life = "SUSPENDED"]
  <2>1. [s.acts[i] EXCEPT !.life = "SUSPENDED"] \in Action
    BY <1>1 DEF Action, Lives
  <2>2. f = [j \in DOMAIN s.acts |->
               IF j = i THEN [s.acts[i] EXCEPT !.life = "SUSPENDED"] ELSE s.acts[j]]
    BY ActsFacts DEF SimState
  <2>3. f \in [DOMAIN s.acts -> Action]
    BY <2>1, <2>2, ActsFacts
  <2>4. f \in Seq(Action) /\ DOMAIN f = DOMAIN s.acts
    BY <2>3, RemapType
  <2>5. suspended = [s EXCEPT !.acts = f]
    OBVIOUS
  <2>6. ASSUME NEW j \in DOMAIN s.acts
        PROVE  /\ f[j].owner = s.acts[j].owner
               /\ f[j].life = s.acts[j].life \/ (j = i /\ f[j].life = "SUSPENDED")
               /\ f[j].parent = s.acts[j].parent
               /\ f[j].slot = s.acts[j].slot
               /\ f[j].told = s.acts[j].told
               /\ f[j].inbox = s.acts[j].inbox
               /\ f[j].kids = s.acts[j].kids
    <3>1. s.acts[j] \in Action
      BY ActsFacts
    <3>2. CASE j = i
      BY <2>2, <3>1, <3>2 DEF Action
    <3>3. CASE j # i
      BY <2>2, <3>3
    <3> QED
      BY <3>2, <3>3
  <2> HIDE DEF f
  <2>7. suspended.acts = f /\ suspended.tokens = s.tokens /\ suspended.events = s.events
    BY <2>4, <2>5 DEF SimState
  <2>8. suspended \in SimState
    BY <2>4, <2>5 DEF SimState
  <2> HIDE DEF suspended
  <2>9. LinksAgree(suspended)
    BY <2>4, <2>6, <2>7, LinksCarry DEF Coherent
  <2>10. FreezesAgree(suspended)
    BY <2>4, <2>6, <2>7 DEF Coherent, FreezesAgree, Terminal
  <2>11. \A j \in DOMAIN s.acts : s.acts[j].told => j # i
    BY <1>1 DEF Coherent, ResultsAgree
  <2>12. ResultsAgree(suspended)
    BY <2>4, <2>6, <2>7, <2>11 DEF Coherent, ResultsAgree, Terminal
  <2> QED
    BY <2>8, <2>9, <2>10, <2>12 DEF Coherent
<1> HIDE DEF suspended
<1>5. CASE t.kind = "TERMINATE"
  BY <1>3, <1>5 DEF ApplyTransition
<1>6. CASE t.kind = "FAULT"
  BY <1>3, <1>6 DEF ApplyTransition
<1>7. CASE t.kind = "TERMINATE_SOURCE"
  <2>1. ApplyTransition(s, now, i, t) = Launch(EndAction(s, i, "TERMINATED"))
    BY <1>7 DEF ApplyTransition, o
  <2> HIDE DEF Launch
  <2> QED
    BY <2>1, <1>2, <1>3
<1>8. CASE t.kind = "SUSPEND_SOURCE"
  <2>1. ApplyTransition(s, now, i, t) = Launch(suspended)
    BY <1>8 DEF ApplyTransition, suspended, o
  <2> HIDE DEF Launch
  <2> QED
    BY <2>1, <1>2, <1>4
<1>9. CASE t.kind = "KEEP_SOURCE"
  <2>1. ApplyTransition(s, now, i, t) = Launch(s)
    BY <1>9 DEF ApplyTransition, o
  <2> HIDE DEF Launch
  <2> QED
    BY <2>1, <1>2
<1>10. CASE t.kind = "CHILD_ACTION"
  <2>1. ApplyTransition(s, now, i, t) = LaunchChild(s, now, i, t)
    BY <1>10 DEF ApplyTransition
  <2> QED
    BY <1>1, <1>10, <2>1, LaunchChildCoherent
<1>11. t.kind \in {"TERMINATE", "FAULT", "TERMINATE_SOURCE", "SUSPEND_SOURCE", "KEEP_SOURCE",
                   "CHILD_ACTION"}
  BY DEF Transition, Kinds, LaunchKinds
<1> QED
  BY <1>5, <1>6, <1>7, <1>8, <1>9, <1>10, <1>11

\* Faulting an entity keeps a state coherent: every link between a faulted action and
\* any other is cut at both ends, and a parent is never frozen by another entity's child.
LEMMA EndEntityCoherent ==
  ASSUME NEW s \in SimState, Coherent(s), NEW e \in Entities
  PROVE  Coherent(EndEntity(s, e))
<1> DEFINE D == LiveOf(s, e)
           g(j) == LET a   == s.acts[j]
                       cut == (j \in D) # (a.parent \in D)
                   IN  [a EXCEPT !.life   = IF j \in D THEN "FAULTED" ELSE @,
                                 !.kids   = IF j \in D THEN @ \intersect D ELSE @ \ D,
                                 !.parent = IF cut THEN NoParent ELSE @,
                                 !.slot   = IF cut THEN NoSlot ELSE @]
           n == EndEntity(s, e)
           T == {t \in s.tokens : t.tgt \notin D}
<1>1. /\ D \subseteq DOMAIN s.acts
      /\ \A j \in D : s.acts[j].owner = e
      /\ \A j \in DOMAIN s.acts : j \notin D => s.acts[j].owner # e \/ Terminal(s.acts[j])
  BY DEF LiveOf
<1>2. n = [s EXCEPT !.acts = [j \in DOMAIN s.acts |-> g(j)], !.tokens = T]
  BY DEF EndEntity
<1> HIDE DEF D, g, T, n
<1>3. n.acts = [j \in DOMAIN s.acts |-> g(j)] /\ n.tokens = T /\ n.events = s.events
  BY <1>2 DEF SimState
<1>4. DOMAIN n.acts = DOMAIN s.acts /\ \A j \in DOMAIN s.acts : n.acts[j] = g(j)
  BY <1>3
<1>5. ASSUME NEW j \in DOMAIN s.acts
      PROVE  /\ n.acts[j].owner = s.acts[j].owner
             /\ n.acts[j].told = s.acts[j].told
             /\ n.acts[j].inbox = s.acts[j].inbox
             /\ IF j \in D THEN n.acts[j].life = "FAULTED" ELSE n.acts[j].life = s.acts[j].life
             /\ \A k : k \in n.acts[j].kids <=> k \in s.acts[j].kids /\ (j \in D <=> k \in D)
             /\ n.acts[j].parent = NoParent \/
                  /\ n.acts[j].parent = s.acts[j].parent
                  /\ n.acts[j].slot = s.acts[j].slot
                  /\ j \in D <=> s.acts[j].parent \in D
             /\ (j \in D <=> s.acts[j].parent \in D) => n.acts[j].parent = s.acts[j].parent
  <2> DEFINE a == s.acts[j]
             cut == (j \in D) # (a.parent \in D)
             life == IF j \in D THEN "FAULTED" ELSE a.life
             kids == IF j \in D THEN a.kids \intersect D ELSE a.kids \ D
             parent == IF cut THEN NoParent ELSE a.parent
             slot == IF cut THEN NoSlot ELSE a.slot
  <2>1. a \in Action
    BY ActsFacts
  <2>2. n.acts[j] = [a EXCEPT !.life = life, !.kids = kids, !.parent = parent, !.slot = slot]
    BY <1>4 DEF g
  <2>3. /\ cut => parent = NoParent
        /\ ~cut => parent = a.parent /\ slot = a.slot
        /\ cut <=> ~(j \in D <=> a.parent \in D)
        /\ \A k : k \in kids <=> k \in a.kids /\ (j \in D <=> k \in D)
        /\ IF j \in D THEN life = "FAULTED" ELSE life = a.life
    OBVIOUS
  <2> HIDE DEF a, life, kids, parent, slot, cut
  <2>4. /\ n.acts[j].owner = a.owner /\ n.acts[j].told = a.told /\ n.acts[j].inbox = a.inbox
        /\ n.acts[j].life = life /\ n.acts[j].kids = kids
        /\ n.acts[j].parent = parent /\ n.acts[j].slot = slot
    BY <2>1, <2>2 DEF Action
  <2> QED
    BY <2>3, <2>4 DEF a
<1>6. \A j \in DOMAIN s.acts : s.acts[j].parent # NoParent => s.acts[j].parent \in DOMAIN s.acts
  BY ActsFacts DEF Coherent, LinksAgree, NoParent
<1>7. LinksAgree(n)
  <2>1. SUFFICES ASSUME NEW j \in DOMAIN s.acts
                 PROVE  /\ n.acts[j].parent \in 0 .. (j - 1)
                        /\ n.acts[j].parent # NoParent =>
                             /\ n.acts[j].slot \in ChildSlots
                             /\ n.acts[n.acts[j].parent].owner = n.acts[j].owner
                        /\ n.acts[j].parent # NoParent /\ ~n.acts[j].told =>
                             j \in n.acts[n.acts[j].parent].kids
                        /\ \A c \in n.acts[j].kids :
                             c \in DOMAIN s.acts /\ n.acts[c].parent = j /\ ~n.acts[c].told
    BY <1>4 DEF LinksAgree
  <2>2. /\ s.acts[j].parent \in 0 .. (j - 1)
        /\ s.acts[j].parent # NoParent =>
             s.acts[j].slot \in ChildSlots /\ s.acts[s.acts[j].parent].owner = s.acts[j].owner
        /\ s.acts[j].parent # NoParent /\ ~s.acts[j].told => j \in s.acts[s.acts[j].parent].kids
        /\ \A c \in s.acts[j].kids :
             c \in DOMAIN s.acts /\ s.acts[c].parent = j /\ ~s.acts[c].told
    BY DEF Coherent, LinksAgree
  <2>3. n.acts[j].parent \in 0 .. (j - 1)
    <3>1. CASE n.acts[j].parent = NoParent
      BY <3>1, ActsFacts DEF NoParent
    <3>2. CASE n.acts[j].parent # NoParent
      BY <3>2, <1>5, <2>2
    <3> QED
      BY <3>1, <3>2
  <2>4. n.acts[j].parent # NoParent =>
          /\ n.acts[j].slot \in ChildSlots
          /\ n.acts[n.acts[j].parent].owner = n.acts[j].owner
          /\ ~n.acts[j].told => j \in n.acts[n.acts[j].parent].kids
    BY <1>5, <1>6, <2>2
  <2>5. ASSUME NEW c \in n.acts[j].kids
        PROVE  c \in DOMAIN s.acts /\ n.acts[c].parent = j /\ ~n.acts[c].told
    <3>1. c \in s.acts[j].kids /\ (j \in D <=> c \in D)
      BY <1>5
    <3>2. c \in DOMAIN s.acts /\ s.acts[c].parent = j /\ ~s.acts[c].told
      BY <2>2, <3>1
    <3> QED
      BY <1>5, <3>1, <3>2
  <2> QED
    BY <2>3, <2>4, <2>5
<1>8. FreezesAgree(n)
  <2>1. SUFFICES ASSUME NEW t \in T
                 PROVE  /\ t.tgt \in DOMAIN s.acts
                        /\ ~Terminal(n.acts[t.tgt])
                        /\ t.src \in n.acts[t.tgt].kids
    BY <1>3, <1>4 DEF FreezesAgree
  <2>2. /\ t.tgt \in DOMAIN s.acts /\ t.tgt \notin D
        /\ ~Terminal(s.acts[t.tgt])
        /\ t.src \in s.acts[t.tgt].kids
    BY DEF T, Coherent, FreezesAgree
  <2>3. /\ t.src \in DOMAIN s.acts /\ s.acts[t.src].parent = t.tgt /\ t.tgt # NoParent
        /\ s.acts[t.src].owner = s.acts[t.tgt].owner
    BY <2>2, ActsFacts DEF Coherent, LinksAgree
  <2>4. t.src \notin D
    BY <1>1, <2>2, <2>3
  <2> QED
    BY <1>5, <2>2, <2>4 DEF Terminal
<1>9. ResultsAgree(n)
  BY <1>3, <1>4, <1>5 DEF Coherent, ResultsAgree, Terminal
<1> QED
  BY <1>7, <1>8, <1>9 DEF Coherent, n

\* Delivering events keeps a state coherent: a result moves from the pending events to
\* the inbox of the parent.
LEMMA DeliverEventsCoherent ==
  ASSUME NEW s \in SimState, Coherent(s), NEW now \in Nat
  PROVE  Coherent(DeliverEvents(s, now))
<1> DEFINE seen(i) == {e.child : e \in {d \in Due(s, now) : d.tgt = i}}
           n == DeliverEvents(s, now)
<1>1. n = [s EXCEPT !.acts = [i \in DOMAIN s.acts |->
                                [s.acts[i] EXCEPT !.inbox = @ \union seen(i)]],
                    !.events = s.events \ Due(s, now)]
  BY DEF DeliverEvents
<1>2. \A i : \A c \in seen(i) : \E e \in s.events : e \in Due(s, now) /\ e.child = c
  BY DEF Due
<1> HIDE DEF n, seen
<1>3. /\ DOMAIN n.acts = DOMAIN s.acts
      /\ \A i \in DOMAIN s.acts : n.acts[i] = [s.acts[i] EXCEPT !.inbox = @ \union seen(i)]
      /\ n.events = s.events \ Due(s, now)
      /\ n.tokens = s.tokens
  BY <1>1 DEF SimState
<1>4. \A i \in DOMAIN s.acts :
        /\ n.acts[i].owner = s.acts[i].owner
        /\ n.acts[i].life = s.acts[i].life
        /\ n.acts[i].parent = s.acts[i].parent
        /\ n.acts[i].slot = s.acts[i].slot
        /\ n.acts[i].told = s.acts[i].told
        /\ n.acts[i].kids = s.acts[i].kids
        /\ n.acts[i].inbox = s.acts[i].inbox \union seen(i)
  BY <1>3, ActsFacts DEF Action
<1>5. LinksAgree(n)
  BY <1>3, <1>4, LinksCarry DEF Coherent
<1>6. FreezesAgree(n)
  BY <1>3, <1>4 DEF Coherent, FreezesAgree, Terminal
<1>7. ResultsAgree(n)
  <2>1. ASSUME NEW i \in DOMAIN s.acts
        PROVE  /\ n.acts[i].told => Terminal(n.acts[i])
               /\ \A c \in n.acts[i].inbox : c \in DOMAIN s.acts /\ n.acts[c].told
    BY <1>2, <1>4 DEF Coherent, ResultsAgree, Terminal
  <2>2. ASSUME NEW e \in n.events
        PROVE  /\ e.child \in DOMAIN s.acts /\ e.tgt \in DOMAIN s.acts
               /\ n.acts[e.child].told
               /\ \A i \in DOMAIN s.acts : e.child \notin n.acts[i].inbox
               /\ \A f \in n.events : e.child = f.child => e = f
    BY <1>2, <1>3, <1>4 DEF Coherent, ResultsAgree
  <2> QED
    BY <1>3, <2>1, <2>2 DEF ResultsAgree
<1> QED
  BY <1>5, <1>6, <1>7 DEF Coherent, n

\* Publishing results keeps a state coherent: a child leaves the list of its parent, and
\* the freezes it caused go, as its only result is made.
LEMMA FinalizeCoherent ==
  ASSUME NEW s \in SimState, Coherent(s), NEW now \in Nat
  PROVE  Coherent(FinalizeChildResults(s, now))
<1> DEFINE F == Finished(s)
           result(c) == [child |-> c, tgt |-> s.acts[c].parent, result |-> s.acts[c].life,
                         due |-> now + 1]
           f == [i \in DOMAIN s.acts |->
                     [s.acts[i] EXCEPT !.kids = @ \ {c \in F : s.acts[c].parent = i},
                                       !.told = @ \/ i \in F]]
           T == {t \in s.tokens : ~(t.src \in F /\ t.tgt = s.acts[t.src].parent)}
           E == s.events \union {result(c) : c \in F}
           n == FinalizeChildResults(s, now)
<1>1. n = [s EXCEPT !.acts = f, !.tokens = T, !.events = E]
  BY DEF FinalizeChildResults
<1>2. \A c \in F : /\ c \in DOMAIN s.acts /\ s.acts[c].parent # NoParent
                   /\ Terminal(s.acts[c]) /\ ~s.acts[c].told
  BY DEF Finished
<1> HIDE DEF F, n
<1>3. DOMAIN n.acts = DOMAIN s.acts /\ n.tokens = T /\ n.events = E /\ n.acts = f
  <2> HIDE DEF f, T, E
  <2> n.acts = f /\ n.tokens = T /\ n.events = E
    BY <1>1 DEF SimState
  <2> QED
    BY DEF f
<1>4. ASSUME NEW i \in DOMAIN s.acts
      PROVE  /\ n.acts[i].owner = s.acts[i].owner
             /\ n.acts[i].life = s.acts[i].life
             /\ n.acts[i].parent = s.acts[i].parent
             /\ n.acts[i].slot = s.acts[i].slot
             /\ n.acts[i].inbox = s.acts[i].inbox
             /\ n.acts[i].told <=> s.acts[i].told \/ i \in F
             /\ \A c : c \in n.acts[i].kids <=>
                         c \in s.acts[i].kids /\ ~(c \in F /\ s.acts[c].parent = i)
  <2> DEFINE told == s.acts[i].told \/ i \in F
             kids == s.acts[i].kids \ {c \in F : s.acts[c].parent = i}
  <2>1. s.acts[i] \in Action
    BY ActsFacts
  <2>2. n.acts[i] = [s.acts[i] EXCEPT !.kids = kids, !.told = told]
    BY <1>3
  <2>3. \A c : c \in kids <=> c \in s.acts[i].kids /\ ~(c \in F /\ s.acts[c].parent = i)
    OBVIOUS
  <2>4. (told <=> s.acts[i].told \/ i \in F) /\ told \in BOOLEAN
    OBVIOUS
  <2> HIDE DEF told, kids
  <2>5. /\ n.acts[i].owner = s.acts[i].owner
        /\ n.acts[i].life = s.acts[i].life
        /\ n.acts[i].parent = s.acts[i].parent
        /\ n.acts[i].slot = s.acts[i].slot
        /\ n.acts[i].inbox = s.acts[i].inbox
        /\ n.acts[i].kids = kids
    BY <2>1, <2>2 DEF Action
  <2>6. n.acts[i].told <=> told
    BY <2>1, <2>2, <2>4 DEF Action
  <2> QED
    BY <2>3, <2>4, <2>5, <2>6
<1> HIDE DEF f
<1>5. \A j \in DOMAIN s.acts : s.acts[j].parent # NoParent => s.acts[j].parent \in DOMAIN s.acts
  BY ActsFacts DEF Coherent, LinksAgree, NoParent
<1>6. LinksAgree(n)
  <2>1. SUFFICES ASSUME NEW j \in DOMAIN s.acts
                 PROVE  /\ n.acts[j].parent \in 0 .. (j - 1)
                        /\ n.acts[j].parent # NoParent =>
                             /\ n.acts[j].slot \in ChildSlots
                             /\ n.acts[n.acts[j].parent].owner = n.acts[j].owner
                        /\ n.acts[j].parent # NoParent /\ ~n.acts[j].told =>
                             j \in n.acts[n.acts[j].parent].kids
                        /\ \A c \in n.acts[j].kids :
                             c \in DOMAIN s.acts /\ n.acts[c].parent = j /\ ~n.acts[c].told
    BY <1>3 DEF LinksAgree
  <2>2. /\ s.acts[j].parent \in 0 .. (j - 1)
        /\ s.acts[j].parent # NoParent =>
             s.acts[j].slot \in ChildSlots /\ s.acts[s.acts[j].parent].owner = s.acts[j].owner
        /\ s.acts[j].parent # NoParent /\ ~s.acts[j].told => j \in s.acts[s.acts[j].parent].kids
        /\ \A c \in s.acts[j].kids :
             c \in DOMAIN s.acts /\ s.acts[c].parent = j /\ ~s.acts[c].told
    BY DEF Coherent, LinksAgree
  <2>3. n.acts[j].parent \in 0 .. (j - 1)
    BY <1>4, <2>2
  <2>4. n.acts[j].parent # NoParent =>
          /\ n.acts[j].slot \in ChildSlots
          /\ n.acts[n.acts[j].parent].owner = n.acts[j].owner
          /\ ~n.acts[j].told => j \in n.acts[n.acts[j].parent].kids
    BY <1>4, <1>5, <2>2
  <2>5. \A c \in n.acts[j].kids : c \in DOMAIN s.acts /\ n.acts[c].parent = j /\ ~n.acts[c].told
    BY <1>4, <2>2
  <2> QED
    BY <2>3, <2>4, <2>5
<1>7. FreezesAgree(n)
  <2>1. SUFFICES ASSUME NEW t \in T
                 PROVE  /\ t.tgt \in DOMAIN s.acts
                        /\ ~Terminal(n.acts[t.tgt])
                        /\ t.src \in n.acts[t.tgt].kids
    BY <1>3 DEF FreezesAgree
  <2>2. /\ t.tgt \in DOMAIN s.acts
        /\ ~Terminal(s.acts[t.tgt])
        /\ t.src \in s.acts[t.tgt].kids
        /\ ~(t.src \in F /\ t.tgt = s.acts[t.src].parent)
    BY DEF Coherent, FreezesAgree
  <2> QED
    BY <1>4, <2>2 DEF Terminal
<1>8. ResultsAgree(n)
  <2>1. ASSUME NEW i \in DOMAIN s.acts
        PROVE  /\ n.acts[i].told => Terminal(n.acts[i])
               /\ \A c \in n.acts[i].inbox : c \in DOMAIN s.acts /\ n.acts[c].told
    BY <1>2, <1>4 DEF Coherent, ResultsAgree, Terminal
  <2>2. \A e \in E : e \in s.events \/ \E c \in F : e = result(c)
    OBVIOUS
  <2>3. \A c \in F : result(c).child = c /\ result(c).tgt = s.acts[c].parent
    OBVIOUS
  <2> HIDE DEF E, result
  <2>4. ASSUME NEW e \in E
        PROVE  /\ e.child \in DOMAIN s.acts /\ e.tgt \in DOMAIN s.acts
               /\ n.acts[e.child].told
               /\ \A i \in DOMAIN s.acts : e.child \notin n.acts[i].inbox
    <3>1. CASE e \in s.events
      BY <1>4, <3>1 DEF Coherent, ResultsAgree
    <3>2. CASE \E c \in F : e = result(c)
      BY <1>2, <1>4, <1>5, <2>3, <3>2 DEF Coherent, ResultsAgree
    <3> QED
      BY <2>2, <3>1, <3>2
  <2>5. ASSUME NEW e \in E, NEW x \in E, e.child = x.child
        PROVE  e = x
    BY <1>2, <2>2, <2>3, <2>5 DEF Coherent, ResultsAgree
  <2> QED
    BY <1>3, <2>1, <2>4, <2>5 DEF ResultsAgree
<1> QED
  BY <1>6, <1>7, <1>8 DEF Coherent, n

\* So does the maintenance of a tick.
LEMMA MaintainCoherent ==
  ASSUME NEW s \in SimState, Coherent(s), NEW now \in Nat
  PROVE  Coherent(Maintain(s, now))
<1> DEFINE g == FinalizeChildResults(s, now)
           n == Maintain(s, now)
<1>1. g \in SimState /\ Coherent(g)
  BY FinalizeType, FinalizeCoherent
<1>2. n = [g EXCEPT !.acts = [i \in DOMAIN g.acts |-> [g.acts[i] EXCEPT !.inbox = {}]]]
  BY DEF Maintain
<1> HIDE DEF g, n
<1>3. /\ DOMAIN n.acts = DOMAIN g.acts
      /\ \A i \in DOMAIN g.acts : n.acts[i] = [g.acts[i] EXCEPT !.inbox = {}]
      /\ n.events = g.events /\ n.tokens = g.tokens
  BY <1>1, <1>2 DEF SimState
<1>4. \A i \in DOMAIN g.acts :
        /\ n.acts[i].owner = g.acts[i].owner
        /\ n.acts[i].life = g.acts[i].life
        /\ n.acts[i].parent = g.acts[i].parent
        /\ n.acts[i].slot = g.acts[i].slot
        /\ n.acts[i].told = g.acts[i].told
        /\ n.acts[i].kids = g.acts[i].kids
        /\ n.acts[i].inbox = {}
  <2>1. \A i \in DOMAIN g.acts : g.acts[i] \in Action
    BY <1>1, ActsFacts
  <2> QED
    BY <1>3, <2>1 DEF Action
<1>5. LinksAgree(n)
  BY <1>1, <1>3, <1>4, LinksCarry DEF Coherent
<1>6. FreezesAgree(n)
  BY <1>1, <1>3, <1>4 DEF Coherent, FreezesAgree, Terminal
<1>7. ResultsAgree(n)
  BY <1>1, <1>3, <1>4 DEF Coherent, ResultsAgree, Terminal
<1> QED
  BY <1>5, <1>6, <1>7 DEF Coherent, n

\* The recorded usage has no part in coherence.
LEMMA RebuildCoherent ==
  ASSUME NEW s \in SimState, Coherent(s)
  PROVE  Coherent(RebuildSlots(s))
<1> DEFINE n == RebuildSlots(s)
<1>1. n.acts = s.acts /\ n.tokens = s.tokens /\ n.events = s.events
  BY DEF RebuildSlots, SimState
<1> HIDE DEF n
<1> QED
  BY <1>1 DEF Coherent, LinksAgree, FreezesAgree, ResultsAgree, n

-----------------------------------------------------------------------------
(* The executor *)

IntentsNameActions ==
  /\ \A n \in todo : n.t.kind # "START" => n.src \in DOMAIN work.acts /\ n.t \in Transitions
  /\ queue \subseteq DOMAIN work.acts
  /\ pc = "idle" => queue = {}

IInv == TypeOK /\ Coherence /\ IntentsNameActions

\* The initial state.
LEMMA InitIInv == Init => IInv
<1> SUFFICES ASSUME Init PROVE IInv
  OBVIOUS
<1>1. << >> \in Seq(Action) /\ Len(<< >>) = 0
  BY EmptySeq
<1>2. EmptyState \in SimState
  BY <1>1 DEF EmptyState, SimState
<1>3. DOMAIN EmptyState.acts = {} /\ EmptyState.tokens = {} /\ EmptyState.events = {}
  BY <1>1 DEF EmptyState
<1>4. Coherent(EmptyState)
  BY <1>3 DEF Coherent, LinksAgree, FreezesAgree, ResultsAgree
<1> QED
  BY <1>2, <1>4 DEF Init, IInv, TypeOK, Coherence, IntentsNameActions

\* A contained tick returns a state that is as good as the one it faults.
LEMMA ContainIInv ==
  ASSUME IInv, NEW s \in SimState, Coherent(s), Contain(s)
  PROVE  IInv'
<1>1. RebuildSlots(s) \in SimState /\ Coherent(RebuildSlots(s))
  BY RebuildType, RebuildCoherent
<1> QED
  BY <1>1 DEF Contain, Idle, IInv, TypeOK, Coherence, IntentsNameActions

\* Whatever becomes of a fault, the host is left with a good state.
LEMMA FailIInv ==
  ASSUME IInv, NEW i, NEW e, Fail(i, e)
  PROVE  IInv'
<1>1. CASE FaultAction(i)
  <2>1. i \in DOMAIN state.acts /\ state \in SimState /\ Coherent(state) /\ "FAULTED" \in Lives
    BY <1>1 DEF FaultAction, IInv, TypeOK, Coherence, Lives
  <2>2. EndAction(state, i, "FAULTED") \in SimState
    BY <2>1, EndActionType
  <2>3. Coherent(EndAction(state, i, "FAULTED"))
    BY <2>1, EndActionCoherent, CoherentIsCoherentBut
  <2> QED
    BY <1>1, <2>2, <2>3, ContainIInv DEF FaultAction
<1>2. CASE FaultEntity(e)
  <2>1. e \in Entities /\ state \in SimState /\ Coherent(state)
    BY <1>2 DEF FaultEntity, IInv, TypeOK, Coherence
  <2>2. EndEntity(state, e) \in SimState /\ Coherent(EndEntity(state, e))
    BY <2>1, EndEntityType, EndEntityCoherent
  <2> QED
    BY <1>2, <2>2, ContainIInv DEF FaultEntity
<1>3. CASE Abort(i, e)
  BY <1>3 DEF Abort, Idle, IInv, TypeOK, Coherence, IntentsNameActions
<1> QED
  BY <1>1, <1>2, <1>3 DEF Fail

\* The intents a stage is offered come from instances of the working copy.
LEMMA TransitionIntentsType ==
  ASSUME NEW s \in SimState, NEW point, NEW ns \in TransitionIntents(s, point)
  PROVE  /\ ns \subseteq Intent
         /\ \A n \in ns : n.src \in DOMAIN s.acts /\ n.t \in Transitions
<1> DEFINE choices == {t \in Transitions : t.point = point}
<1>1. PICK chosen \in SUBSET (DOMAIN s.acts) :
        \E pick \in [chosen -> choices] :
           ns = {[src |-> i, owner |-> s.acts[i].owner, t |-> pick[i]] : i \in chosen}
  BY DEF TransitionIntents
<1>0. PICK pick \in [chosen -> choices] :
        ns = {[src |-> i, owner |-> s.acts[i].owner, t |-> pick[i]] : i \in chosen}
  BY <1>1
<1>2. ASSUME NEW i \in chosen
      PROVE  i \in Nat /\ s.acts[i].owner \in Entities /\ pick[i] \in Transitions
  BY ActsFacts DEF Action
<1>3. \A n \in ns : \E i \in chosen : n = [src |-> i, owner |-> s.acts[i].owner, t |-> pick[i]]
  BY <1>0
<1>4. ASSUME NEW n \in ns
      PROVE  n \in Intent /\ n.src \in DOMAIN s.acts /\ n.t \in Transitions
  <2>1. PICK i \in chosen : n = [src |-> i, owner |-> s.acts[i].owner, t |-> pick[i]]
    BY <1>3
  <2> QED
    BY <1>2, <2>1 DEF Intent
<1> QED
  BY <1>4

\* A transition of the definition set, applied to a running action.
LEMMA ApplyIInv ==
  ASSUME IInv, NEW i \in DOMAIN work.acts, work.acts[i].life = "RUNNING", NEW t \in Transitions
  PROVE  /\ ApplyTransition(work, tick, i, t) \in SimState
         /\ Coherent(ApplyTransition(work, tick, i, t))
         /\ DOMAIN work.acts \subseteq DOMAIN ApplyTransition(work, tick, i, t).acts
<1>1. work \in SimState /\ Coherent(work) /\ tick \in Nat
  BY DEF IInv, TypeOK, Coherence
<1>2. t \in Transition /\ (t.kind = "CHILD_ACTION" => t.slot \in ChildSlots)
  BY DefinitionAssumption
<1> QED
  BY <1>1, <1>2, SlotAssumption, ApplyTransitionType, ApplyTransitionCoherent

\* Every step of a tick, of a containment and of an aborted tick.
LEMMA NextIInv == IInv /\ [Next]_vars => IInv'
<1> SUFFICES ASSUME IInv, [Next]_vars PROVE IInv'
  OBVIOUS
<1>1. /\ tick \in Nat /\ state \in SimState /\ work \in SimState
      /\ todo \subseteq Intent /\ queue \subseteq Nat /\ spent \in Nat
      /\ Coherent(state) /\ Coherent(work)
      /\ queue \subseteq DOMAIN work.acts
  BY DEF IInv, TypeOK, Coherence, IntentsNameActions
<1>2. CASE UNCHANGED vars
  BY <1>2 DEF vars, IInv, TypeOK, Coherence, IntentsNameActions
<1>3. CASE BeginTick
  <2>1. DeliverEvents(state, tick) \in SimState /\ Coherent(DeliverEvents(state, tick))
    BY <1>1, DeliverEventsType, DeliverEventsCoherent
  <2>2. /\ work' = DeliverEvents(state, tick) /\ pc' = "pre"
        /\ UNCHANGED <<tick, state, queue, spent, lastFault>>
    BY <1>3 DEF BeginTick
  <2>3. PICK ns \in TransitionIntents(work', "PRE_ADVANCE"), starts \in SUBSET StartIntents :
          todo' = ns \union starts
    BY <1>3 DEF BeginTick
  <2>4. /\ ns \subseteq Intent
        /\ \A n \in ns : n.src \in DOMAIN work'.acts /\ n.t \in Transitions
    BY <2>1, <2>2, TransitionIntentsType
  <2>5. starts \subseteq Intent /\ \A n \in starts : n.t.kind = "START"
    BY DEF StartIntents, Intent, StartOf
  <2>6. queue' \subseteq DOMAIN work'.acts
    BY <2>2, <1>3 DEF BeginTick, IInv, IntentsNameActions
  <2> QED
    BY <2>1, <2>2, <2>3, <2>4, <2>5, <2>6 DEF IInv, TypeOK, Coherence, IntentsNameActions
<1>4. CASE RejectTick
  BY <1>4, FailIInv DEF RejectTick, Fail
<1>5. ASSUME NEW n \in todo, Reject(n) PROVE IInv'
  BY <1>5 DEF Reject, IInv, TypeOK, Coherence, IntentsNameActions
<1>6. ASSUME NEW n \in todo, Accept(n) PROVE IInv'
  <2>1. /\ todo' = todo \ {n}
        /\ UNCHANGED <<tick, state, pc, queue, spent, lastFault>>
    BY <1>6 DEF Accept
  <2>2. work' \in SimState /\ Coherent(work') /\ DOMAIN work.acts \subseteq DOMAIN work'.acts
    <3>1. CASE n.t.kind = "START"
      <4>1. work' = StartAction(work, n.t.target, n.owner, NoParent, NoSlot)
        BY <1>6, <3>1 DEF Accept
      <4>2. n.owner \in Entities /\ n.t.target \in Definition
        <5>1. n \in Intent
          BY <1>1
        <5>2. n.owner \in Entities /\ n.t \in Transitions \union {StartOf(d) : d \in Definitions}
          BY <5>1 DEF Intent
        <5>3. n.t \notin Transitions
          BY <3>1, DefinitionAssumption DEF Transition, Kinds, LaunchKinds
        <5>4. PICK d \in Definitions : n.t = StartOf(d)
          BY <5>2, <5>3
        <5> QED
          BY <5>2, <5>4, DefinitionAssumption DEF StartOf
      <4>3. /\ NoParent \in Nat /\ NoParent \in {NoParent} \union DOMAIN work.acts
            /\ NoSlot \in ChildSlots \union {NoSlot}
        BY DEF NoParent
      <4>4. /\ StartAction(work, n.t.target, n.owner, NoParent, NoSlot) \in SimState
            /\ DOMAIN work.acts
                 \subseteq DOMAIN StartAction(work, n.t.target, n.owner, NoParent, NoSlot).acts
        BY <1>1, <4>2, <4>3, StartActionType
      <4>5. Coherent(StartAction(work, n.t.target, n.owner, NoParent, NoSlot))
        BY <1>1, <4>2, <4>3, StartActionCoherent
      <4> QED
        BY <4>1, <4>4, <4>5
    <3>2. CASE n.t.kind # "START" /\ work.acts[n.src].life = "RUNNING"
      <4>1. work' = ApplyTransition(work, tick, n.src, n.t)
        BY <1>6, <3>2 DEF Accept
      <4>2. n.src \in DOMAIN work.acts /\ n.t \in Transitions
        BY <3>2 DEF IInv, IntentsNameActions
      <4> QED
        BY <3>2, <4>1, <4>2, ApplyIInv
    <3>3. CASE n.t.kind # "START" /\ work.acts[n.src].life # "RUNNING"
      BY <1>1, <1>6, <3>3 DEF Accept
    <3> QED
      BY <3>1, <3>2, <3>3
  <2> QED
    BY <2>1, <2>2 DEF IInv, TypeOK, Coherence, IntentsNameActions
<1>7. ASSUME NEW n \in todo, AcceptFails(n) PROVE IInv'
  BY <1>7, FailIInv DEF AcceptFails
<1>8. CASE EndPre
  <2>1. RebuildSlots(work) \in SimState /\ Coherent(RebuildSlots(work))
        /\ RebuildSlots(work).acts = work.acts
    BY <1>1, RebuildType, RebuildCoherent
  <2>2. DOMAIN work.acts \subseteq Nat
    BY <1>1, ActsFacts
  <2> QED
    BY <1>8, <2>1, <2>2 DEF EndPre, IInv, TypeOK, Coherence, IntentsNameActions
<1>9. ASSUME NEW i \in queue, EndProgress(i) PROVE IInv'
  BY <1>9 DEF EndProgress, IInv, TypeOK, Coherence, IntentsNameActions
<1>10. ASSUME NEW i \in queue, NEW t \in Transitions, AfterQuantum(i, t) PROVE IInv'
  <2>1. /\ work' \in SimState /\ Coherent(work')
        /\ DOMAIN work.acts \subseteq DOMAIN work'.acts
    BY <1>1, <1>10, ApplyIInv DEF AfterQuantum, CanProgress
  <2> QED
    BY <1>10, <2>1 DEF AfterQuantum, IInv, TypeOK, Coherence, IntentsNameActions
<1>11. ASSUME NEW i \in queue, NEW t \in Transitions, AfterQuantumFails(i, t) PROVE IInv'
  BY <1>11, FailIInv DEF AfterQuantumFails
<1>12. CASE BeginPost
  <2>1. /\ pc' = "post" /\ UNCHANGED <<tick, state, work, queue, spent, lastFault>>
        /\ todo' \in TransitionIntents(work, "POST_ADVANCE")
    BY <1>12 DEF BeginPost
  <2>2. /\ todo' \subseteq Intent
        /\ \A n \in todo' : n.src \in DOMAIN work.acts /\ n.t \in Transitions
    BY <1>1, <2>1, TransitionIntentsType
  <2> QED
    BY <2>1, <2>2 DEF IInv, TypeOK, Coherence, IntentsNameActions
<1>13. CASE EndPost
  <2>1. RebuildSlots(work) \in SimState /\ Coherent(RebuildSlots(work))
        /\ RebuildSlots(work).acts = work.acts
    BY <1>1, RebuildType, RebuildCoherent
  <2> QED
    BY <1>13, <2>1 DEF EndPost, IInv, TypeOK, Coherence, IntentsNameActions
<1>14. CASE Commit
  <2>1. Maintain(work, tick) \in SimState /\ Coherent(Maintain(work, tick))
    BY <1>1, MaintainType, MaintainCoherent
  <2> QED
    BY <1>14, <2>1 DEF Commit, Idle, IInv, TypeOK, Coherence, IntentsNameActions
<1>15. CASE CommitFails
  BY <1>15, FailIInv DEF CommitFails, Fail
<1>16. CASE RuntimeFault
  BY <1>16, FailIInv DEF RuntimeFault
<1>17. CASE Horizon
  BY <1>2, <1>17 DEF Horizon
<1> QED
  BY <1>2, <1>3, <1>4, <1>5, <1>6, <1>7, <1>8, <1>9, <1>10, <1>11, <1>12, <1>13, <1>14,
     <1>15, <1>16, <1>17 DEF Next, Step

\* The invariant that the properties follow from holds at every stage of every tick.
THEOREM IInvAlways == Spec => []IInv
<1>1. Init => IInv
  BY InitIInv
<1>2. IInv /\ [Next]_vars => IInv'
  BY NextIInv
<1> QED
  BY <1>1, <1>2, PTL DEF Spec

\* The variables of the executor keep their types through every stage, containment and
\* aborted tick.
THEOREM TypeCorrect == Spec => []TypeOK
<1>1. IInv => TypeOK
  BY DEF IInv
<1> QED
  BY <1>1, IInvAlways, PTL

\* Links, freezes and results agree in every state the host sees and in every state in
\* between.
THEOREM CoherenceHolds == Spec => []Coherence
<1>1. IInv => Coherence
  BY DEF IInv
<1> QED
  BY <1>1, IInvAlways, PTL

-----------------------------------------------------------------------------
(* How a step changes the state the host holds *)

\* The failed tick is contained.
Contained ==
  \/ /\ FaultPolicy = "FAULT_ACTION"
     /\ \E i \in DOMAIN state.acts :
          ~CannotEnd(state, i) /\ Contain(EndAction(state, i, "FAULTED"))
  \/ /\ FaultPolicy = "FAULT_ENTITY"
     /\ \E e \in Entities : Contain(EndEntity(state, e))

\* A fault is contained or leaves the tick-start state.
LEMMA FailSteps ==
  ASSUME NEW i, NEW e, Fail(i, e)
  PROVE  Contained \/ (UNCHANGED <<tick, state, lastFault>> /\ work' = state /\ pc' = "idle")
<1>1. CASE FaultAction(i)
  BY <1>1 DEF FaultAction, Contained
<1>2. CASE FaultEntity(e)
  BY <1>2 DEF FaultEntity, Contained
<1>3. CASE Abort(i, e)
  BY <1>3 DEF Abort, Idle
<1> QED
  BY <1>1, <1>2, <1>3 DEF Fail

\* The host gets another state only from a commit and from a containment.
LEMMA StateSteps ==
  ASSUME [Next]_vars
  PROVE  Commit \/ Contained \/ UNCHANGED <<tick, state, lastFault>>
<1>1. ASSUME NEW i, NEW e, Fail(i, e) PROVE Contained \/ UNCHANGED <<tick, state, lastFault>>
  BY <1>1, FailSteps
<1>2. CASE RejectTick \/ CommitFails
  BY <1>1, <1>2 DEF RejectTick, CommitFails, Fail
<1>3. CASE RuntimeFault
  BY <1>1, <1>3 DEF RuntimeFault
<1>4. CASE \E n \in todo : AcceptFails(n)
  BY <1>1, <1>4 DEF AcceptFails
<1>5. CASE \E i \in queue, t \in Transitions : AfterQuantumFails(i, t)
  BY <1>1, <1>5 DEF AfterQuantumFails
<1>6. CASE BeginTick \/ EndPre \/ BeginPost \/ EndPost \/ Horizon
  BY <1>6 DEF BeginTick, EndPre, BeginPost, EndPost, Horizon, vars
<1>7. CASE \E n \in todo : Reject(n) \/ Accept(n)
  BY <1>7 DEF Reject, Accept
<1>8. CASE \E i \in queue : EndProgress(i)
  BY <1>8 DEF EndProgress
<1>9. CASE \E i \in queue, t \in Transitions : AfterQuantum(i, t)
  BY <1>9 DEF AfterQuantum
<1>10. CASE UNCHANGED vars
  BY <1>10 DEF vars
<1> QED
  BY <1>2, <1>3, <1>4, <1>5, <1>6, <1>7, <1>8, <1>9, <1>10 DEF Next, Step

\* A containment ends an action or an entity, and records the tick.
LEMMA ContainedFacts ==
  ASSUME IInv, Contained
  PROVE  \E s \in SimState :
           /\ \/ /\ FaultPolicy = "FAULT_ACTION"
                 /\ \E i \in DOMAIN state.acts :
                      ~CannotEnd(state, i) /\ s = EndAction(state, i, "FAULTED")
              \/ /\ FaultPolicy = "FAULT_ENTITY"
                 /\ \E e \in Entities : s = EndEntity(state, e)
           /\ state' = RebuildSlots(s) /\ work' = state' /\ pc' = "idle"
           /\ state'.acts = s.acts /\ state'.tokens = s.tokens /\ state'.events = s.events
           /\ tick' = tick + 1 /\ lastFault' = tick
<1>1. state \in SimState
  BY DEF IInv, TypeOK
<1>2. ASSUME NEW s \in SimState, Contain(s)
      PROVE  /\ state' = RebuildSlots(s) /\ work' = state' /\ pc' = "idle"
             /\ state'.acts = s.acts /\ state'.tokens = s.tokens /\ state'.events = s.events
             /\ tick' = tick + 1 /\ lastFault' = tick
  BY <1>2, RebuildType DEF Contain, Idle, RebuildSlots, SimState
<1>3. ASSUME NEW i \in DOMAIN state.acts PROVE EndAction(state, i, "FAULTED") \in SimState
  BY <1>1, EndActionType DEF Lives
<1>4. ASSUME NEW e \in Entities PROVE EndEntity(state, e) \in SimState
  BY <1>1, EndEntityType
<1> QED
  BY <1>2, <1>3, <1>4 DEF Contained

-----------------------------------------------------------------------------
(* The books *)

\* Usage depends on who owns, who is alive and what is claimed.
LEMMA UsageCarry ==
  ASSUME NEW s, NEW n, DOMAIN n.acts = DOMAIN s.acts,
         \A i \in DOMAIN s.acts :
           /\ n.acts[i].owner = s.acts[i].owner
           /\ n.acts[i].life = s.acts[i].life
           /\ n.acts[i].claim = s.acts[i].claim
  PROVE  SlotUsage(n) = SlotUsage(s)
<1>1. ASSUME NEW e \in Entities
      PROVE  {i \in LiveOf(n, e) : n.acts[i].claim = 1} = {i \in LiveOf(s, e) : s.acts[i].claim = 1}
  BY DEF LiveOf, Terminal
<1> QED
  BY <1>1 DEF SlotUsage

\* The maintenance of a tick, field by field.
LEMMA MaintainFacts ==
  ASSUME NEW s \in SimState, NEW now
  PROVE  /\ DOMAIN Maintain(s, now).acts = DOMAIN s.acts
         /\ Maintain(s, now).usage = s.usage
         /\ Maintain(s, now).tokens
              = {t \in s.tokens : ~(t.src \in Finished(s) /\ t.tgt = s.acts[t.src].parent)}
         /\ Maintain(s, now).events
              = s.events \union {[child |-> c, tgt |-> s.acts[c].parent,
                                  result |-> s.acts[c].life, due |-> now + 1] : c \in Finished(s)}
         /\ \A i \in DOMAIN s.acts :
              /\ Maintain(s, now).acts[i].owner = s.acts[i].owner
              /\ Maintain(s, now).acts[i].life = s.acts[i].life
              /\ Maintain(s, now).acts[i].parent = s.acts[i].parent
              /\ Maintain(s, now).acts[i].slot = s.acts[i].slot
              /\ Maintain(s, now).acts[i].claim = s.acts[i].claim
              /\ Maintain(s, now).acts[i].kids
                   = s.acts[i].kids \ {c \in Finished(s) : s.acts[c].parent = i}
              /\ Maintain(s, now).acts[i].told = (s.acts[i].told \/ i \in Finished(s))
<1> DEFINE F == Finished(s)
           f == FinalizeChildResults(s, now)
<1>1. /\ DOMAIN f.acts = DOMAIN s.acts /\ f.usage = s.usage
      /\ f.tokens = {t \in s.tokens : ~(t.src \in F /\ t.tgt = s.acts[t.src].parent)}
      /\ f.events = s.events \union {[child |-> c, tgt |-> s.acts[c].parent,
                                      result |-> s.acts[c].life, due |-> now + 1] : c \in F}
      /\ DOMAIN f = DOMAIN s
  BY DEF FinalizeChildResults, SimState
<1>2. ASSUME NEW i \in DOMAIN s.acts
      PROVE  f.acts[i] = [s.acts[i] EXCEPT !.kids = @ \ {c \in F : s.acts[c].parent = i},
                                           !.told = @ \/ i \in F]
  BY DEF FinalizeChildResults, SimState
<1>3. ASSUME NEW i \in DOMAIN s.acts
      PROVE  /\ f.acts[i].owner = s.acts[i].owner /\ f.acts[i].life = s.acts[i].life
             /\ f.acts[i].parent = s.acts[i].parent /\ f.acts[i].slot = s.acts[i].slot
             /\ f.acts[i].claim = s.acts[i].claim
             /\ f.acts[i].kids = s.acts[i].kids \ {c \in F : s.acts[c].parent = i}
             /\ f.acts[i].told = (s.acts[i].told \/ i \in F)
             /\ DOMAIN f.acts[i] = DOMAIN s.acts[i]
             /\ "inbox" \in DOMAIN f.acts[i]
  <2>1. s.acts[i] \in Action
    BY ActsFacts
  <2> HIDE DEF F, f
  <2> QED
    BY <1>2, <2>1 DEF Action
<1>4. /\ Maintain(s, now).usage = f.usage /\ Maintain(s, now).tokens = f.tokens
      /\ Maintain(s, now).events = f.events
      /\ Maintain(s, now).acts = [i \in DOMAIN f.acts |-> [f.acts[i] EXCEPT !.inbox = {}]]
  <2> HIDE DEF f
  <2> QED
    BY <1>1 DEF Maintain, f, SimState
<1> HIDE DEF f, F
<1>5. ASSUME NEW i \in DOMAIN s.acts
      PROVE  /\ Maintain(s, now).acts[i].owner = f.acts[i].owner
             /\ Maintain(s, now).acts[i].life = f.acts[i].life
             /\ Maintain(s, now).acts[i].parent = f.acts[i].parent
             /\ Maintain(s, now).acts[i].slot = f.acts[i].slot
             /\ Maintain(s, now).acts[i].claim = f.acts[i].claim
             /\ Maintain(s, now).acts[i].kids = f.acts[i].kids
             /\ Maintain(s, now).acts[i].told = f.acts[i].told
  BY <1>1, <1>4
<1> QED
  BY <1>1, <1>3, <1>4, <1>5 DEF F

\* What is recorded is what is held, between ticks and when a tick is about to commit.
UsageInv == UsageExact /\ (pc = "commit" => work.usage = SlotUsage(work))

\* Only a commit and a containment set the recorded usage, and both count the live claims.
LEMMA UsageInvNext == IInv /\ UsageInv /\ [Next]_vars => UsageInv'
<1> SUFFICES ASSUME IInv, UsageInv, [Next]_vars PROVE UsageInv'
  OBVIOUS
<1>1. state \in SimState /\ work \in SimState
  BY DEF IInv, TypeOK
<1>2. ASSUME NEW s \in SimState
      PROVE  RebuildSlots(s).usage = SlotUsage(RebuildSlots(s))
  <2>1. RebuildSlots(s).usage = SlotUsage(s) /\ RebuildSlots(s).acts = s.acts
    BY DEF RebuildSlots, SimState
  <2> QED
    BY <2>1, UsageCarry
<1>3. UsageExact'
  <2>1. CASE Commit
    <3>1. state' = Maintain(work, tick) /\ work.usage = SlotUsage(work)
      BY <2>1 DEF Commit, UsageInv
    <3> QED
      BY <1>1, <3>1, MaintainFacts, UsageCarry DEF UsageExact
  <2>2. CASE Contained
    BY <1>2, <2>2, ContainedFacts DEF UsageExact
  <2>3. CASE UNCHANGED <<tick, state, lastFault>>
    BY <2>3 DEF UsageInv, UsageExact
  <2> QED
    BY <2>1, <2>2, <2>3, StateSteps
<1>4. ASSUME pc' = "commit" PROVE work'.usage = SlotUsage(work')
  <2>1. EndPost \/ (UNCHANGED <<work, pc>>)
    <3>1. ASSUME NEW i, NEW e, Fail(i, e) PROVE FALSE
      BY <1>4, <3>1 DEF Fail, FaultAction, FaultEntity, Abort, Contain, Idle
    <3>2. ~RejectTick /\ ~CommitFails /\ ~RuntimeFault
      BY <3>1 DEF RejectTick, CommitFails, RuntimeFault, Fail
    <3>3. ~Commit /\ ~BeginTick /\ ~EndPre /\ ~BeginPost
      BY <1>4 DEF Commit, Idle, BeginTick, EndPre, BeginPost
    <3>4. ASSUME NEW n \in todo PROVE ~Reject(n) /\ ~Accept(n) /\ ~AcceptFails(n)
      BY <1>4, <3>1 DEF Reject, Accept, AcceptFails
    <3>5. ASSUME NEW i \in queue PROVE ~EndProgress(i)
      BY <1>4 DEF EndProgress
    <3>6. ASSUME NEW i \in queue, NEW t \in Transitions
          PROVE  ~AfterQuantum(i, t) /\ ~AfterQuantumFails(i, t)
      BY <1>4, <3>1 DEF AfterQuantum, AfterQuantumFails
    <3> QED
      BY <3>2, <3>3, <3>4, <3>5, <3>6 DEF Next, Step, Horizon, vars
  <2> QED
    BY <1>1, <1>2, <1>4, <2>1 DEF EndPost, UsageInv
<1> QED
  BY <1>3, <1>4 DEF UsageInv

\* The books are right in every state.
LEMMA UsageInvAlways == Spec => []UsageInv
<1>1. Init => UsageInv
  <2> SUFFICES ASSUME Init PROVE UsageInv
    OBVIOUS
  <2>1. \A e \in Entities : {i \in LiveOf(EmptyState, e) : EmptyState.acts[i].claim = 1} = {}
    BY DEF EmptyState, LiveOf
  <2>2. \A e \in Entities : SlotUsage(EmptyState)[e] = 0
    BY <2>1, FS_EmptySet DEF SlotUsage
  <2>3. SlotUsage(EmptyState) = [e \in Entities |-> 0]
    BY <2>2 DEF SlotUsage
  <2> QED
    BY <2>3 DEF Init, UsageInv, UsageExact, EmptyState
<1>2. IInv /\ UsageInv /\ [Next]_vars => UsageInv'
  BY UsageInvNext
<1> QED
  BY <1>1, <1>2, IInvAlways, PTL DEF Spec

\* The usage that the next tick's arbitration starts from is what the live actions hold,
\* after a commit and after a containment.
THEOREM UsageExactHolds == Spec => []UsageExact
<1>1. UsageInv => UsageExact
  BY DEF UsageInv
<1> QED
  BY <1>1, UsageInvAlways, PTL

-----------------------------------------------------------------------------
(* The limits *)

\* An operation that only ends actions, unlinks them and takes children off the lists of
\* their parents leaves a state within the limits in which it was.
LEMMA LimitsCarry ==
  ASSUME NEW s \in SimState, WithinForestLimits(s), NEW n \in SimState,
         DOMAIN n.acts = DOMAIN s.acts, n.events = s.events,
         \A i \in DOMAIN s.acts :
           /\ n.acts[i].owner = s.acts[i].owner
           /\ Terminal(s.acts[i]) => Terminal(n.acts[i])
           /\ n.acts[i].parent \in {s.acts[i].parent, NoParent}
           /\ n.acts[i].kids \subseteq s.acts[i].kids
           /\ \A c \in s.acts[i].kids : c \in DOMAIN s.acts
  PROVE  WithinForestLimits(n)
<1>1. IsFiniteSet(DOMAIN s.acts)
  BY ActsFacts, FS_Interval
<1>2. ASSUME NEW S, S \subseteq DOMAIN s.acts, NEW T, T \subseteq S
      PROVE  Cardinality(S) \in Nat /\ Cardinality(T) \in Nat /\ Cardinality(T) <= Cardinality(S)
  <2>1. IsFiniteSet(S) /\ IsFiniteSet(T)
    BY <1>1, <1>2, FS_Subset
  <2> QED
    BY <1>2, <2>1, FS_Subset, FS_CardinalityType
<1>3. ASSUME NEW e \in Entities PROVE Cardinality(LiveOf(n, e)) <= MaxActionsPerEntity
  <2>1. LiveOf(n, e) \subseteq LiveOf(s, e) /\ LiveOf(s, e) \subseteq DOMAIN s.acts
    BY DEF LiveOf
  <2>2. Cardinality(LiveOf(s, e)) <= MaxActionsPerEntity
    BY DEF WithinForestLimits
  <2> QED
    BY <1>2, <2>1, <2>2, LimitAssumption
<1>4. ASSUME NEW i \in DOMAIN s.acts
      PROVE  Cardinality({c \in n.acts[i].kids : ~Terminal(n.acts[c])}) <= MaxChildren
  <2>1. /\ {c \in n.acts[i].kids : ~Terminal(n.acts[c])}
             \subseteq {c \in s.acts[i].kids : ~Terminal(s.acts[c])}
        /\ {c \in s.acts[i].kids : ~Terminal(s.acts[c])} \subseteq DOMAIN s.acts
    OBVIOUS
  <2>2. Cardinality({c \in s.acts[i].kids : ~Terminal(s.acts[c])}) <= MaxChildren
    BY DEF WithinForestLimits
  <2> QED
    BY <1>2, <2>1, <2>2, LimitAssumption
<1>5. ASSUME NEW i \in DOMAIN s.acts PROVE Cardinality(Lineage(n, i)) - 1 <= MaxNesting
  <2>1. ASSUME NEW x \in Lineage(n, i), NEW D \in SUBSET (DOMAIN s.acts),
               i \in D, \A c \in D : s.acts[c].parent \in D \union {NoParent}
        PROVE  x \in D
    <3>1. \A c \in D : n.acts[c].parent \in D \union {NoParent}
      BY <2>1
    <3> QED
      BY <2>1, <3>1 DEF Lineage
  <2>2. Lineage(n, i) \subseteq Lineage(s, i) /\ Lineage(s, i) \subseteq DOMAIN s.acts
    BY <2>1 DEF Lineage
  <2>3. Cardinality(Lineage(s, i)) - 1 <= MaxNesting
    BY DEF WithinForestLimits
  <2> QED
    BY <1>2, <2>2, <2>3, LimitAssumption
<1> QED
  BY <1>3, <1>4, <1>5 DEF WithinForestLimits

\* Ending an action keeps a state within the limits.
LEMMA EndActionLimits ==
  ASSUME NEW s \in SimState, Coherent(s), WithinForestLimits(s), NEW i \in DOMAIN s.acts
  PROVE  WithinForestLimits(EndAction(s, i, "FAULTED"))
<1> DEFINE D == Doomed(s, i)
           X == KidsUnder(s, D, "DETACH_CHILD")
           n == EndAction(s, i, "FAULTED")
<1>1. "FAULTED" \in Lives
  BY DEF Lives
<1>2. n \in SimState /\ DOMAIN n.acts = DOMAIN s.acts
  BY <1>1, EndActionType
<1>3. /\ n.events = s.events
      /\ \A j \in DOMAIN s.acts :
           /\ n.acts[j].owner = s.acts[j].owner
           /\ j \in D => /\ n.acts[j].life = IF j = i THEN "FAULTED" ELSE "TERMINATED"
                         /\ n.acts[j].kids = s.acts[j].kids \ X
                         /\ n.acts[j].parent = s.acts[j].parent
           /\ j \notin D => /\ n.acts[j].life = s.acts[j].life
                            /\ n.acts[j].kids = s.acts[j].kids
                            /\ j \notin X => n.acts[j] = s.acts[j]
                            /\ j \in X => n.acts[j].parent = NoParent
  BY <1>1, EndActionActs
<1>4. \A j \in DOMAIN s.acts : \A c \in s.acts[j].kids : c \in DOMAIN s.acts
  BY DEF Coherent, LinksAgree
<1>5. \A j \in DOMAIN s.acts :
           /\ Terminal(s.acts[j]) => Terminal(n.acts[j])
           /\ n.acts[j].parent \in {s.acts[j].parent, NoParent}
           /\ n.acts[j].kids \subseteq s.acts[j].kids
  <2> HIDE DEF D, X, n
  <2> QED
    BY <1>3 DEF Terminal
<1> HIDE DEF D, X, n
<1>6. WithinForestLimits(n)
  BY <1>2, <1>3, <1>4, <1>5, LimitsCarry
<1> QED
  BY <1>6 DEF n

\* What becomes of each action when an entity is faulted.
LEMMA EndEntityFacts ==
  ASSUME NEW s \in SimState, NEW e \in Entities, NEW D, D = LiveOf(s, e),
         NEW m, m = EndEntity(s, e)
  PROVE  /\ m.events = s.events
         /\ m.tokens = {t \in s.tokens : t.tgt \notin D}
         /\ \A j \in DOMAIN s.acts :
              /\ m.acts[j].owner = s.acts[j].owner
              /\ m.acts[j].told = s.acts[j].told
              /\ m.acts[j].claim = s.acts[j].claim
              /\ m.acts[j].parent \in {s.acts[j].parent, NoParent}
              /\ j \in D => m.acts[j].life = "FAULTED"
              /\ j \notin D => m.acts[j].life = s.acts[j].life
              /\ m.acts[j].kids \subseteq s.acts[j].kids
<1>1. m.events = s.events /\ m.tokens = {t \in s.tokens : t.tgt \notin D}
  BY DEF EndEntity, SimState
<1>2. ASSUME NEW j \in DOMAIN s.acts
      PROVE  /\ m.acts[j].owner = s.acts[j].owner
             /\ m.acts[j].told = s.acts[j].told
             /\ m.acts[j].claim = s.acts[j].claim
             /\ m.acts[j].parent \in {s.acts[j].parent, NoParent}
             /\ j \in D => m.acts[j].life = "FAULTED"
             /\ j \notin D => m.acts[j].life = s.acts[j].life
             /\ m.acts[j].kids \subseteq s.acts[j].kids
  <2> DEFINE a == s.acts[j]
             n == m.acts[j]
             cut == (j \in D) # (a.parent \in D)
             life == IF j \in D THEN "FAULTED" ELSE a.life
             kids == IF j \in D THEN a.kids \intersect D ELSE a.kids \ D
             parent == IF cut THEN NoParent ELSE a.parent
             slot == IF cut THEN NoSlot ELSE a.slot
  <2>1. a \in Action
    BY ActsFacts
  <2>2. n = [a EXCEPT !.life = life, !.kids = kids, !.parent = parent, !.slot = slot]
    BY DEF EndEntity, SimState
  <2>3. /\ parent \in {a.parent, NoParent} /\ kids \subseteq a.kids
        /\ j \in D => life = "FAULTED"
        /\ j \notin D => life = a.life
    OBVIOUS
  <2> HIDE DEF a, n, cut, life, kids, parent, slot
  <2>4. /\ n.owner = a.owner /\ n.told = a.told /\ n.claim = a.claim /\ n.parent = parent
        /\ n.life = life /\ n.kids = kids
    BY <2>1, <2>2 DEF Action
  <2> QED
    BY <2>3, <2>4 DEF a, n
<1> QED
  BY <1>1, <1>2

\* So does the faulting of an entity.
LEMMA EndEntityLimits ==
  ASSUME NEW s \in SimState, Coherent(s), WithinForestLimits(s), NEW e \in Entities
  PROVE  WithinForestLimits(EndEntity(s, e))
<1> DEFINE D == LiveOf(s, e)
           n == EndEntity(s, e)
<1>1. n \in SimState /\ DOMAIN n.acts = DOMAIN s.acts
  BY EndEntityType
<1>2. /\ n.events = s.events
      /\ \A j \in DOMAIN s.acts :
           /\ n.acts[j].owner = s.acts[j].owner
           /\ j \in D => n.acts[j].life = "FAULTED"
           /\ j \notin D => n.acts[j].life = s.acts[j].life
           /\ n.acts[j].kids \subseteq s.acts[j].kids
           /\ n.acts[j].parent \in {s.acts[j].parent, NoParent}
  BY EndEntityFacts
<1>3. \A j \in DOMAIN s.acts : \A c \in s.acts[j].kids : c \in DOMAIN s.acts
  BY DEF Coherent, LinksAgree
<1> HIDE DEF D, n
<1>4. WithinForestLimits(n)
  BY <1>1, <1>2, <1>3, LimitsCarry DEF Terminal
<1> QED
  BY <1>4 DEF n

\* A tick never returns a forest that the next one rejects for its events, children, nesting or
\* actions: a commit has checked them, and a containment (_contain_fault) adds to none of them.
THEOREM ForestLimitsHoldAlways == Spec => []ForestLimitsHold
<1>1. Init => ForestLimitsHold
  BY FS_EmptySet, LimitAssumption DEF Init, ForestLimitsHold, WithinForestLimits, EmptyState, LiveOf
<1>2. IInv /\ ForestLimitsHold /\ [Next]_vars => ForestLimitsHold'
  <2> SUFFICES ASSUME IInv, ForestLimitsHold, [Next]_vars PROVE ForestLimitsHold'
    OBVIOUS
  <2>1. CASE Commit
    BY <2>1 DEF Commit, ForestLimitsHold
  <2>2. CASE Contained
    <3>1. state \in SimState /\ Coherent(state) /\ WithinForestLimits(state)
      BY DEF IInv, TypeOK, Coherence, ForestLimitsHold
    <3>2. PICK s \in SimState :
            /\ \/ \E i \in DOMAIN state.acts : s = EndAction(state, i, "FAULTED")
               \/ \E e \in Entities : s = EndEntity(state, e)
            /\ state'.acts = s.acts /\ state'.events = s.events
      BY <2>2, ContainedFacts
    <3>3. WithinForestLimits(s)
      BY <3>1, <3>2, EndActionLimits, EndEntityLimits
    <3> QED
      BY <3>2, <3>3 DEF ForestLimitsHold, WithinForestLimits, LiveOf, Lineage
  <2>3. CASE UNCHANGED <<tick, state, lastFault>>
    BY <2>3 DEF ForestLimitsHold
  <2> QED
    BY <2>1, <2>2, <2>3, StateSteps
<1> QED
  BY <1>1, <1>2, IInvAlways, PTL DEF Spec

-----------------------------------------------------------------------------
(* The results of children *)

\* After the maintenance of a tick, every child that has ended has reported.
LEMMA MaintainReports ==
  ASSUME NEW s \in SimState, NEW now, NEW c \in DOMAIN Maintain(s, now).acts,
         Maintain(s, now).acts[c].parent # NoParent, Terminal(Maintain(s, now).acts[c])
  PROVE  Maintain(s, now).acts[c].told
<1> DEFINE n == Maintain(s, now)
<1>1. /\ c \in DOMAIN s.acts /\ n.acts[c].life = s.acts[c].life
      /\ n.acts[c].parent = s.acts[c].parent
      /\ n.acts[c].told = (s.acts[c].told \/ c \in Finished(s))
  BY MaintainFacts
<1> HIDE DEF n
<1>2. s.acts[c].told \/ c \in Finished(s)
  BY <1>1 DEF n, Finished, Terminal
<1> QED
  BY <1>1, <1>2 DEF n

\* A result is published in the tick in which the child ends, or that tick was contained.
THEOREM ResultsWaitForFaultOnlyHolds == Spec => []ResultsWaitForFaultOnly
<1>1. Init => ResultsWaitForFaultOnly
  BY DEF Init, ResultsWaitForFaultOnly, AllReported, EmptyState
<1>2. IInv /\ ResultsWaitForFaultOnly /\ [Next]_vars => ResultsWaitForFaultOnly'
  <2> SUFFICES ASSUME IInv, ResultsWaitForFaultOnly, [Next]_vars PROVE ResultsWaitForFaultOnly'
    OBVIOUS
  <2>1. CASE Commit
    <3>1. state' = Maintain(work, tick) /\ work \in SimState
      BY <2>1 DEF Commit, IInv, TypeOK
    <3> QED
      BY <3>1, MaintainReports DEF ResultsWaitForFaultOnly, AllReported
  <2>2. CASE Contained
    <3>1. tick' = tick + 1 /\ lastFault' = tick /\ tick \in Nat
      BY <2>2, ContainedFacts DEF IInv, TypeOK
    <3> QED
      BY <3>1 DEF ResultsWaitForFaultOnly
  <2>3. CASE UNCHANGED <<tick, state, lastFault>>
    BY <2>3 DEF ResultsWaitForFaultOnly, AllReported
  <2> QED
    BY <2>1, <2>2, <2>3, StateSteps
<1> QED
  BY <1>1, <1>2, IInvAlways, PTL DEF Spec
=============================================================================
