----------------------------- MODULE ActionTree -----------------------------
(***************************************************************************)
(* The parent-child forest of action instances that the tick executor      *)
(* (reference/python/pcam_runtime/runtime.py) keeps in a SimulationState,  *)
(* and the operations it applies to it: starting, terminating, faulting    *)
(* and linking actions, freezing a parent behind a child, and publishing   *)
(* the result of a finished child.                                         *)
(*                                                                         *)
(* A simulation state is a record:                                         *)
(*   acts    the action instances; the instance_id is the position, and    *)
(*           next_action_instance_id is Len(acts) + 1                      *)
(*   tokens  the PARENT_CHILD freeze tokens; their duration is U64_MAX, so *)
(*           they never run out and remaining_ticks is left out            *)
(*   events  the pending CHILD_RESULT events                               *)
(*   usage   the usage recorded in action_slots, one slot per entity       *)
(*                                                                         *)
(* Everything here is a pure operator on such a record: the executor is    *)
(* functional and the module TickExecutor threads the record through the   *)
(* stages of a tick.  No operator is recursive, so the module can be used  *)
(* in proofs: the recursion of _terminate_action is given by its closure.  *)
(***************************************************************************)
EXTENDS Integers, Sequences, FiniteSets

CONSTANTS
  Entities,             \* owner_entity_id values
  ChildSlots,           \* child slots, one per (action definition, slot id)
  NoSlot,               \* parent_slot_id of an action without a parent
  ChildCapacity,        \* child_slot_capacities of each child slot
  TermPolicy,           \* child_termination_policies of each child slot
  SlotCapacity,         \* capacity of the entity's action slot
  MaxActionsPerEntity,  \* max_actions_per_entity
  MaxChildren,          \* max_children_per_action
  MaxNesting,           \* max_action_nesting_depth
  MaxPendingEvents      \* max_pending_events_per_entity

TermPolicies ==
  {"TERMINATE_CHILD", "DETACH_CHILD", "ALLOW_CHILD_TO_COMPLETE", "FAULT_IF_OCCUPIED"}

ASSUME SlotAssumption ==
  /\ NoSlot \notin ChildSlots
  /\ ChildCapacity \in [ChildSlots -> Nat]
  /\ TermPolicy \in [ChildSlots -> TermPolicies]

ASSUME LimitAssumption ==
  {SlotCapacity, MaxActionsPerEntity, MaxChildren, MaxNesting, MaxPendingEvents} \subseteq Nat

-----------------------------------------------------------------------------
(* The state *)

NoParent == 0

Lives == {"RUNNING", "SUSPENDED", "TERMINATED", "FAULTED"}

Domains == {"PROGRESSION", "TRANSITIONS"}

\* parent and slot survive the end of the action; kids loses a child when its
\* result is published; told is extension_state["pcam.child_result_emitted"];
\* inbox holds the children whose result is visible in the current tick;
\* claim is the amount of the entity's action slot the action holds.
Action == [owner  : Entities,
           life   : Lives,
           parent : Nat,
           slot   : ChildSlots \union {NoSlot},
           kids   : SUBSET Nat,
           told   : BOOLEAN,
           inbox  : SUBSET Nat,
           claim  : 0..1]

\* from is activation_tick.
Token == [src : Nat, tgt : Nat, from : Nat, domains : SUBSET Domains]

\* due is delivery_tick.
Event == [child : Nat, tgt : Nat, result : {"TERMINATED", "FAULTED"}, due : Nat]

SimState == [acts   : Seq(Action),
             tokens : SUBSET Token,
             events : SUBSET Event,
             usage  : [Entities -> Nat]]

EmptyState == [acts   |-> << >>,
               tokens |-> {},
               events |-> {},
               usage  |-> [e \in Entities |-> 0]]

Terminal(a) == a.life \in {"TERMINATED", "FAULTED"}

LiveOf(s, e) ==
  {i \in DOMAIN s.acts : s.acts[i].owner = e /\ ~Terminal(s.acts[i])}

Frozen(s, now, i, domain) ==
  \E t \in s.tokens : t.tgt = i /\ t.from <= now /\ domain \in t.domains

-----------------------------------------------------------------------------
(* Ending an action *)

\* The children of the actions of D that are subject to policy p.
KidsUnder(s, D, p) ==
  {c \in DOMAIN s.acts :
     \E i \in D : c \in s.acts[i].kids /\ TermPolicy[s.acts[c].slot] = p}

\* Mutant of Doomed: the children are ended, and theirs are forgotten.
DoomedShallow(s, i) == {i} \union KidsUnder(s, {i}, "TERMINATE_CHILD")

\* The actions _terminate_action reaches from i: i itself, and every child, finished
\* or not, that it finds linked under a TERMINATE_CHILD slot of one it has reached.
Doomed(s, i) ==
  {x \in DOMAIN s.acts :
     \A D \in SUBSET (DOMAIN s.acts) :
        i \in D /\ KidsUnder(s, D, "TERMINATE_CHILD") \subseteq D => x \in D}

\* The call raises STATE_INVARIANT_FAILURE when it meets a FAULT_IF_OCCUPIED child.
CannotEnd(s, i) == KidsUnder(s, Doomed(s, i), "FAULT_IF_OCCUPIED") # {}

\* Mutant of EndAction: the freezes that target the ended actions stay.
EndActionFrozen(s, i, life) ==
  LET D == Doomed(s, i)
      X == KidsUnder(s, D, "DETACH_CHILD")
  IN  [s EXCEPT
         !.acts = [j \in DOMAIN s.acts |->
                     IF j \in D
                       THEN [s.acts[j] EXCEPT !.life = IF j = i THEN life ELSE "TERMINATED",
                                              !.kids = @ \ X]
                     ELSE IF j \in X
                       THEN [s.acts[j] EXCEPT !.parent = NoParent, !.slot = NoSlot]
                     ELSE s.acts[j]]]

EndAction(s, i, life) ==
  LET D == Doomed(s, i)
      X == KidsUnder(s, D, "DETACH_CHILD")
  IN  [s EXCEPT
         !.acts = [j \in DOMAIN s.acts |->
                     IF j \in D
                       THEN [s.acts[j] EXCEPT !.life = IF j = i THEN life ELSE "TERMINATED",
                                              !.kids = @ \ X]
                     ELSE IF j \in X
                       THEN [s.acts[j] EXCEPT !.parent = NoParent, !.slot = NoSlot]
                     ELSE s.acts[j]],
         !.tokens = {t \in s.tokens : t.tgt \notin D}]

\* Mutant of EndEntity: every live action is faulted, whoever owns it.
EndEveryone(s, e) ==
  LET D == {i \in DOMAIN s.acts : ~Terminal(s.acts[i])}
  IN  [s EXCEPT
         !.acts = [j \in DOMAIN s.acts |->
                     LET a   == s.acts[j]
                         cut == (j \in D) # (a.parent \in D)
                     IN  [a EXCEPT !.life   = IF j \in D THEN "FAULTED" ELSE @,
                                   !.kids   = IF j \in D THEN @ \intersect D ELSE @ \ D,
                                   !.parent = IF cut THEN NoParent ELSE @,
                                   !.slot   = IF cut THEN NoSlot ELSE @]],
         !.tokens = {t \in s.tokens : t.tgt \notin D}]

\* The FAULT_ENTITY branch of _contain_fault: every live action of the entity is
\* faulted, and links between a faulted action and any other one are cut.
EndEntity(s, e) ==
  LET D == LiveOf(s, e)
  IN  [s EXCEPT
         !.acts = [j \in DOMAIN s.acts |->
                     LET a   == s.acts[j]
                         cut == (j \in D) # (a.parent \in D)
                     IN  [a EXCEPT !.life   = IF j \in D THEN "FAULTED" ELSE @,
                                   !.kids   = IF j \in D THEN @ \intersect D ELSE @ \ D,
                                   !.parent = IF cut THEN NoParent ELSE @,
                                   !.slot   = IF cut THEN NoSlot ELSE @]],
         !.tokens = {t \in s.tokens : t.tgt \notin D}]

-----------------------------------------------------------------------------
(* Starting an action *)

\* A definition is a record [claim, terminal]: what it takes of the action slot, and
\* whether its initial node is TERMINAL, so that the new action ends as it starts.
Definition == [claim : 0..1, terminal : BOOLEAN]

StartAction(s, d, e, parent, slot) ==
  [s EXCEPT !.acts = Append(@, [owner  |-> e,
                                life   |-> IF d.terminal THEN "TERMINATED" ELSE "RUNNING",
                                parent |-> parent,
                                slot   |-> slot,
                                kids   |-> {},
                                told   |-> FALSE,
                                inbox  |-> {},
                                claim  |-> d.claim])]

\* i and the actions above it, ended ones included: parent links outlive the parent.
Lineage(s, i) ==
  {x \in DOMAIN s.acts :
     \A D \in SUBSET (DOMAIN s.acts) :
        i \in D /\ (\A c \in D : s.acts[c].parent \in D \union {NoParent}) => x \in D}

TooDeep(s, i) == Cardinality(Lineage(s, i)) >= MaxNesting

-----------------------------------------------------------------------------
(* Applying a transition to its action *)

ParentPolicies ==
  {"CONTINUE", "FREEZE_PROGRESSION", "FREEZE_TRANSITIONS", "FREEZE_ALL_ACTION_LOGIC",
   "TERMINATE_PARENT"}

\* TRANSITIONS stands for the PRE_ADVANCE_ and POST_ADVANCE_TRANSITIONS domains, which
\* the parent policies always freeze together.
FrozenBy(policy) ==
  CASE policy = "FREEZE_PROGRESSION"      -> {"PROGRESSION"}
    [] policy = "FREEZE_TRANSITIONS"      -> {"TRANSITIONS"}
    [] policy = "FREEZE_ALL_ACTION_LOGIC" -> Domains
    [] OTHER                              -> {}

\* TERMINATE is also a NODE transition into a TERMINAL node; other NODE transitions
\* leave the forest alone.  The three dispositions are those of an ACTION target.
LaunchKinds == {"TERMINATE_SOURCE", "SUSPEND_SOURCE", "KEEP_SOURCE", "CHILD_ACTION"}

Kinds == {"TERMINATE", "FAULT"} \union LaunchKinds

Points == {"PRE_ADVANCE", "AFTER_QUANTUM", "POST_ADVANCE"}

Transition == [point  : Points,
               kind   : Kinds,
               target : Definition,
               slot   : ChildSlots \union {NoSlot},
               policy : ParentPolicies]

SourceEnds(t) ==
  \/ t.kind \in {"TERMINATE", "FAULT", "TERMINATE_SOURCE"}
  \/ t.kind = "CHILD_ACTION" /\ t.policy = "TERMINATE_PARENT"

\* The transition raises instead of being applied.
Raises(s, i, t) ==
  \/ SourceEnds(t) /\ CannotEnd(s, i)
  \/ t.kind = "CHILD_ACTION" /\ TooDeep(s, i)

\* The new child is linked to i after the children i had were dealt with.
LaunchChild(s, now, i, t) ==
  LET c == Len(s.acts) + 1
      started == StartAction(s, t.target, s.acts[i].owner, i, t.slot)
      settled == IF t.policy = "TERMINATE_PARENT" THEN EndAction(started, i, "TERMINATED")
                 ELSE started
      freeze  == [src |-> c, tgt |-> i, from |-> now + 1, domains |-> FrozenBy(t.policy)]
  IN  [settled EXCEPT
         !.acts[i].kids = @ \union {c},
         !.tokens = IF FrozenBy(t.policy) = {} THEN @ ELSE @ \union {freeze}]

ApplyTransition(s, now, i, t) ==
  LET Launch(from) == StartAction(from, t.target, s.acts[i].owner, NoParent, NoSlot)
  IN  CASE t.kind = "TERMINATE"        -> EndAction(s, i, "TERMINATED")
        [] t.kind = "FAULT"            -> EndAction(s, i, "FAULTED")
        [] t.kind = "TERMINATE_SOURCE" -> Launch(EndAction(s, i, "TERMINATED"))
        [] t.kind = "SUSPEND_SOURCE"   -> Launch([s EXCEPT !.acts[i].life = "SUSPENDED"])
        [] t.kind = "KEEP_SOURCE"      -> Launch(s)
        [] t.kind = "CHILD_ACTION"     -> LaunchChild(s, now, i, t)

-----------------------------------------------------------------------------
(* The tick's own bookkeeping *)

SlotUsage(s) ==
  [e \in Entities |-> Cardinality({i \in LiveOf(s, e) : s.acts[i].claim = 1})]

RebuildSlots(s) == [s EXCEPT !.usage = SlotUsage(s)]

Due(s, now) == {e \in s.events : e.due = now}

Stale(s, now) == {e \in s.events : e.due < now}

\* Mutant of DeliverEvents: the result of a child wakes its parent, dead or alive.
DeliverEventsWaking(s, now) ==
  [s EXCEPT
     !.acts = [i \in DOMAIN s.acts |->
                 LET D == {d \in Due(s, now) : d.tgt = i}
                 IN  [s.acts[i] EXCEPT !.inbox = @ \union {e.child : e \in D},
                                       !.life  = IF D = {} THEN @ ELSE "RUNNING"]],
     !.events = @ \ Due(s, now)]

\* Mutant of DeliverEvents: a result is left pending when its parent has ended.
DeliverEventsToLive(s, now) ==
  LET Ready == {d \in Due(s, now) : ~Terminal(s.acts[d.tgt])}
  IN  [s EXCEPT
         !.acts = [i \in DOMAIN s.acts |->
                     [s.acts[i] EXCEPT
                        !.inbox = @ \union {e.child : e \in {d \in Ready : d.tgt = i}}]],
         !.events = @ \ Ready]

DeliverEvents(s, now) ==
  [s EXCEPT
     !.acts = [i \in DOMAIN s.acts |->
                 [s.acts[i] EXCEPT
                    !.inbox = @ \union {e.child : e \in {d \in Due(s, now) : d.tgt = i}}]],
     !.events = @ \ Due(s, now)]

\* Mutant of Finished: a child counts as finished as soon as it is linked.
FinishedEarly(s) == {c \in DOMAIN s.acts : s.acts[c].parent # NoParent /\ ~s.acts[c].told}

\* Mutant of Finished: a FAULTED child has no result.
FinishedCleanly(s) ==
  {c \in DOMAIN s.acts :
     s.acts[c].parent # NoParent /\ s.acts[c].life = "TERMINATED" /\ ~s.acts[c].told}

\* Mutant of Finished: nobody is told about the child of a parent that has ended.
FinishedHeeded(s) ==
  {c \in DOMAIN s.acts :
     /\ s.acts[c].parent # NoParent /\ Terminal(s.acts[c]) /\ ~s.acts[c].told
     /\ ~Terminal(s.acts[s.acts[c].parent])}

\* The finished children whose result is still to be published.
Finished(s) ==
  {c \in DOMAIN s.acts :
     s.acts[c].parent # NoParent /\ Terminal(s.acts[c]) /\ ~s.acts[c].told}

\* Mutant of FinalizeChildResults: a finished child lifts every freeze of its parent.
FinalizeThawing(s, now) ==
  LET F == Finished(s)
      result(c) == [child |-> c, tgt |-> s.acts[c].parent, result |-> s.acts[c].life,
                    due |-> now + 1]
  IN  [s EXCEPT
         !.acts = [i \in DOMAIN s.acts |->
                     [s.acts[i] EXCEPT !.kids = @ \ {c \in F : s.acts[c].parent = i},
                                       !.told = @ \/ i \in F]],
         !.tokens = {t \in s.tokens : \A c \in F : t.tgt # s.acts[c].parent},
         !.events = @ \union {result(c) : c \in F}]

\* Mutant of FinalizeChildResults: a child that has reported stays in the list of its parent.
FinalizeLinked(s, now) ==
  LET F == Finished(s)
      result(c) == [child |-> c, tgt |-> s.acts[c].parent, result |-> s.acts[c].life,
                    due |-> now + 1]
  IN  [s EXCEPT
         !.acts = [i \in DOMAIN s.acts |-> [s.acts[i] EXCEPT !.told = @ \/ i \in F]],
         !.tokens = {t \in s.tokens : ~(t.src \in F /\ t.tgt = s.acts[t.src].parent)},
         !.events = @ \union {result(c) : c \in F}]

FinalizeChildResults(s, now) ==
  LET F == Finished(s)
      result(c) == [child |-> c, tgt |-> s.acts[c].parent, result |-> s.acts[c].life,
                    due |-> now + 1]
  IN  [s EXCEPT
         !.acts = [i \in DOMAIN s.acts |->
                     [s.acts[i] EXCEPT !.kids = @ \ {c \in F : s.acts[c].parent = i},
                                       !.told = @ \/ i \in F]],
         !.tokens = {t \in s.tokens : ~(t.src \in F /\ t.tgt = s.acts[t.src].parent)},
         !.events = @ \union {result(c) : c \in F}]

Maintain(s, now) ==
  LET f == FinalizeChildResults(s, now)
  IN  [f EXCEPT !.acts = [i \in DOMAIN f.acts |-> [f.acts[i] EXCEPT !.inbox = {}]]]

\* _validate_limits accepts the forest: its counts of events, children and actions, and its
\* depth.  The sizes that it checks besides (snapshot, input buffers, extension state) are of
\* data that the forest has not; that they may be exceeded is among the faults without an owner.
WithinForestLimits(s) ==
  /\ \A e \in Entities : Cardinality(LiveOf(s, e)) <= MaxActionsPerEntity
  /\ \A i \in DOMAIN s.acts :
       /\ Cardinality({c \in s.acts[i].kids : ~Terminal(s.acts[c])}) <= MaxChildren
       /\ Cardinality(Lineage(s, i)) - 1 <= MaxNesting
       /\ Cardinality({e \in s.events : e.tgt = i}) <= MaxPendingEvents

-----------------------------------------------------------------------------
(* What the executor relies on about a state *)

\* A child that has not reported is in its parent's list, and only there; an action is
\* younger than its parent, so the links form a forest.
LinksAgree(s) ==
  \A i \in DOMAIN s.acts :
    LET a == s.acts[i] IN
    /\ a.parent \in 0 .. (i - 1)
    /\ a.parent # NoParent => a.slot \in ChildSlots /\ s.acts[a.parent].owner = a.owner
    /\ a.parent # NoParent /\ ~a.told => i \in s.acts[a.parent].kids
    /\ \A c \in a.kids : c \in DOMAIN s.acts /\ s.acts[c].parent = i /\ ~s.acts[c].told

\* Whatever freezes an action is a child it still waits for.
FreezesAgree(s) ==
  \A t \in s.tokens :
    /\ t.tgt \in DOMAIN s.acts
    /\ ~Terminal(s.acts[t.tgt])
    /\ t.src \in s.acts[t.tgt].kids

\* A result belongs to a child that ended, and is pending or visible at one place.
ResultsAgree(s) ==
  /\ \A i \in DOMAIN s.acts :
       /\ s.acts[i].told => Terminal(s.acts[i])
       /\ \A c \in s.acts[i].inbox : c \in DOMAIN s.acts /\ s.acts[c].told
  /\ \A e \in s.events :
       /\ e.child \in DOMAIN s.acts /\ e.tgt \in DOMAIN s.acts
       /\ s.acts[e.child].told
       /\ \A i \in DOMAIN s.acts : e.child \notin s.acts[i].inbox
       /\ \A f \in s.events : e.child = f.child => e = f

Coherent(s) == LinksAgree(s) /\ FreezesAgree(s) /\ ResultsAgree(s)
=============================================================================
