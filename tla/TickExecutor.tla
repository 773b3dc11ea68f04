---------------------------- MODULE TickExecutor ----------------------------
(***************************************************************************)
(* TickExecutor.tick (reference/python/pcam_runtime/runtime.py): one tick  *)
(* takes the tick-start state through its stages in a working copy, and    *)
(* either commits the copy, contains a fault, or raises to the host.       *)
(*                                                                         *)
(* The code is sequential, but which transitions are eligible, in which    *)
(* order intents are arbitrated and where a stage raises depends on the    *)
(* definitions, the inputs and the host: all of that is nondeterministic   *)
(* here.  One step is one stage boundary, one arbitrated intent, or one    *)
(* transition of the progression stage.                                    *)
(***************************************************************************)
EXTENDS ActionTree

CONSTANTS
  Transitions,   \* the transitions of the definition set
  Definitions,   \* the definitions a START input may name
  NoEntity,      \* owner_entity_id of a fault that names no entity
  FaultPolicy,   \* fault_policy of the runtime profile
  FaultSources,  \* the faults that may arise besides those of the action forest
  MaxInternal,   \* max_internal_transitions_per_action_per_tick
  MaxTick,       \* bound: the host stops calling tick
  MaxActions     \* bound: instances ever started

ASSUME DefinitionAssumption ==
  /\ Transitions \subseteq Transition
  /\ Definitions \subseteq Definition
  /\ \A t \in Transitions : t.kind = "CHILD_ACTION" => t.slot \in ChildSlots

ASSUME PolicyAssumption ==
  /\ NoEntity \notin Entities
  /\ FaultPolicy \in {"ABORT_SIMULATION", "FAULT_ACTION", "FAULT_ENTITY"}
  /\ FaultSources \subseteq {"ACTION", "START", "GLOBAL"}
  /\ {MaxInternal, MaxTick, MaxActions} \subseteq Nat

VARIABLES
  tick,       \* state.tick
  state,      \* the tick-start state, which tick returns or leaves untouched
  work,       \* the copy the stages of _tick_once build on
  pc,         \* the stage in progress, "idle" between two ticks
  todo,       \* intents still to be arbitrated in this stage
  arb,        \* the ArbitrationState of this stage
  queue,      \* instances still to be progressed in this tick
  spent,      \* internal transitions of the instance being progressed
  lastFault   \* fault_state["last_fault"]["tick"], -1 before the first one

vars == <<tick, state, work, pc, todo, arb, queue, spent, lastFault>>

NoArb == [active |-> << >>, slots |-> << >>, kids |-> << >>]

Init ==
  /\ tick = 0
  /\ state = EmptyState
  /\ work = EmptyState
  /\ pc = "idle"
  /\ todo = {}
  /\ arb = NoArb
  /\ queue = {}
  /\ spent = 0
  /\ lastFault = -1

-----------------------------------------------------------------------------
(* Intents *)

\* A START input as a transition of no action.
StartOf(d) == [point |-> "PRE_ADVANCE", kind |-> "START", target |-> d,
               slot |-> NoSlot, policy |-> "CONTINUE"]

StartIntents == [src : {0}, owner : Entities, t : {StartOf(d) : d \in Definitions}]

\* src is the transitioning action, or 0.
Intent == [src : Nat, owner : Entities, t : Transitions \union {StartOf(d) : d \in Definitions}]

Launches(n) == n.t.kind \in LaunchKinds \union {"START"}

\* The bound on instances limits the launches a stage is offered.
Room(s, ns) == Cardinality({n \in ns : Launches(n)}) <= MaxActions - Len(s.acts)

\* One intent for each running, unfrozen action of chosen, and no other.
TransitionIntents(s, point) ==
  LET able    == {i \in DOMAIN s.acts :
                    s.acts[i].life = "RUNNING" /\ ~Frozen(s, tick, i, "TRANSITIONS")}
      choices == {t \in Transitions : t.point = point}
  IN  UNION {{{[src |-> i, owner |-> s.acts[i].owner, t |-> pick[i]] : i \in chosen}
                : pick \in [chosen -> choices]} : chosen \in SUBSET able}

ArbitrationState(s) ==
  [active |-> [e \in Entities |-> Cardinality(LiveOf(s, e))],
   slots  |-> s.usage,
   kids   |-> [p \in (DOMAIN s.acts) \X ChildSlots |->
                 Cardinality({c \in s.acts[p[1]].kids :
                                s.acts[c].slot = p[2] /\ ~Terminal(s.acts[c])})]]

\* What an intent gives back before it claims: an ACTION target that ends its source
\* releases the source's place and its action slot.
Freed(s, n) ==
  IF n.t.kind = "TERMINATE_SOURCE" THEN [active |-> 1, slot |-> s.acts[n.src].claim]
  ELSE [active |-> 0, slot |-> 0]

Less(x, y) == IF x > y THEN x - y ELSE 0

Admitted(s, n) ==
  Launches(n) =>
    /\ arb.active[n.owner] - Freed(s, n).active + 1 <= MaxActionsPerEntity
    /\ n.t.target.claim = 1 => arb.slots[n.owner] - Freed(s, n).slot + 1 <= SlotCapacity
    /\ n.t.kind = "CHILD_ACTION" =>
         /\ arb.kids[n.src, n.t.slot] + 1 <= ChildCapacity[n.t.slot]
         /\ arb.kids[n.src, n.t.slot] + 1 <= MaxChildren

\* Mutant of Reserve: what a launch takes of the action slot is not booked.
ReserveUnbooked(s, n) ==
  IF ~Launches(n) THEN arb
  ELSE [arb EXCEPT
          !.active[n.owner] = Less(@, Freed(s, n).active) + 1,
          !.slots[n.owner]  = Less(@, Freed(s, n).slot),
          !.kids = IF n.t.kind = "CHILD_ACTION" THEN [@ EXCEPT ![<<n.src, n.t.slot>>] = @ + 1]
                   ELSE @]

Reserve(s, n) ==
  IF ~Launches(n) THEN arb
  ELSE [arb EXCEPT
          !.active[n.owner] = Less(@, Freed(s, n).active) + 1,
          !.slots[n.owner]  = Less(@, Freed(s, n).slot) + n.t.target.claim,
          !.kids = IF n.t.kind = "CHILD_ACTION" THEN [@ EXCEPT ![<<n.src, n.t.slot>>] = @ + 1]
                   ELSE @]

-----------------------------------------------------------------------------
(* Failing *)

Idle ==
  /\ pc' = "idle"
  /\ todo' = {}
  /\ arb' = NoArb
  /\ queue' = {}
  /\ spent' = 0

\* Mutant of Contain: the slots of the faulted actions stay booked.
ContainBooked(s) ==
  /\ state' = s
  /\ work' = state'
  /\ tick' = tick + 1
  /\ lastFault' = tick
  /\ Idle

\* The failed tick is replaced by one that only faults; its events stay pending.
Contain(s) ==
  /\ state' = RebuildSlots(s)
  /\ work' = state'
  /\ tick' = tick + 1
  /\ lastFault' = tick
  /\ Idle

\* A fault blamed on action i (0 for none) of entity e (NoEntity for none).
FaultAction(i) ==
  /\ FaultPolicy = "FAULT_ACTION"
  /\ i \in DOMAIN state.acts
  /\ ~CannotEnd(state, i)
  /\ Contain(EndAction(state, i, "FAULTED"))

FaultEntity(e) ==
  /\ FaultPolicy = "FAULT_ENTITY"
  /\ e \in Entities
  /\ Contain(EndEntity(state, e))

\* tick raises; the host still holds the tick-start state and may call tick again.
Abort(i, e) ==
  /\ FaultPolicy = "FAULT_ACTION" /\ i \in DOMAIN state.acts => CannotEnd(state, i)
  /\ FaultPolicy = "FAULT_ENTITY" => e \notin Entities
  /\ work' = state
  /\ Idle
  /\ UNCHANGED <<tick, state, lastFault>>

Fail(i, e) == FaultAction(i) \/ FaultEntity(e) \/ Abort(i, e)

\* Expressions, effects, the host and the limits of a profile raise too.  A fault is
\* blamed on an action that was not over when the tick began.
RuntimeFault ==
  /\ pc # "idle"
  /\ \/ /\ "ACTION" \in FaultSources
        /\ \E i \in DOMAIN work.acts :
             /\ i \in DOMAIN state.acts => ~Terminal(state.acts[i])
             /\ Fail(i, work.acts[i].owner)
     \/ "START" \in FaultSources /\ pc = "pre" /\ \E e \in Entities : Fail(0, e)
     \/ "GLOBAL" \in FaultSources /\ Fail(0, NoEntity)

-----------------------------------------------------------------------------
(* The stages *)

\* Stages 1 to 3: limits, event delivery, inputs, PRE_ADVANCE evaluation.
BeginTick ==
  /\ pc = "idle" /\ tick < MaxTick
  /\ WithinForestLimits(state) /\ Stale(state, tick) = {}
  /\ LET s == DeliverEvents(state, tick)
     IN  /\ work' = s
         /\ arb' = ArbitrationState(s)
         /\ \E ns \in TransitionIntents(s, "PRE_ADVANCE"), starts \in SUBSET StartIntents :
              Room(s, ns \union starts) /\ todo' = ns \union starts
  /\ pc' = "pre"
  /\ UNCHANGED <<tick, state, queue, spent, lastFault>>

\* Nothing names an action or an entity yet, so no policy contains this fault.
RejectTick ==
  /\ pc = "idle" /\ tick < MaxTick
  /\ ~WithinForestLimits(state) \/ Stale(state, tick) # {}
  /\ Abort(0, NoEntity)

\* Mutant of Reject: a rejected intent is tried again.
RejectAgain(n) ==
  /\ pc \in {"pre", "post"} /\ n \in todo
  /\ ~Admitted(work, n)
  /\ UNCHANGED vars

\* Stages 4 and 6: a rejected intent is dropped.
Reject(n) ==
  /\ pc \in {"pre", "post"} /\ n \in todo
  /\ ~Admitted(work, n)
  /\ todo' = todo \ {n}
  /\ UNCHANGED <<tick, state, work, pc, arb, queue, spent, lastFault>>

\* An accepted transition is dropped too, its claims kept, when its action has ended
\* earlier in the stage.
Accept(n) ==
  /\ pc \in {"pre", "post"} /\ n \in todo
  /\ Admitted(work, n)
  /\ arb' = Reserve(work, n)
  /\ todo' = todo \ {n}
  /\ \/ /\ n.t.kind = "START"
        /\ work' = StartAction(work, n.t.target, n.owner, NoParent, NoSlot)
     \/ /\ n.t.kind # "START" /\ work.acts[n.src].life = "RUNNING"
        /\ ~Raises(work, n.src, n.t)
        /\ work' = ApplyTransition(work, tick, n.src, n.t)
     \/ /\ n.t.kind # "START" /\ work.acts[n.src].life # "RUNNING"
        /\ work' = work
  /\ UNCHANGED <<tick, state, pc, queue, spent, lastFault>>

AcceptFails(n) ==
  /\ pc \in {"pre", "post"} /\ n \in todo
  /\ Admitted(work, n)
  /\ n.t.kind # "START" /\ work.acts[n.src].life = "RUNNING"
  /\ Raises(work, n.src, n.t)
  /\ Fail(n.src, n.owner)

EndPre ==
  /\ pc = "pre" /\ todo = {}
  /\ work' = RebuildSlots(work)
  /\ pc' = "progress"
  /\ queue' = DOMAIN work.acts
  /\ UNCHANGED <<tick, state, todo, arb, spent, lastFault>>

-----------------------------------------------------------------------------
(* Stage 5 *)

\* The instance being progressed, the lowest of the queue.
Current(i) == i \in queue /\ \A j \in queue : i <= j

\* Mutant of CanProgress: an action that has ended still progresses.
CanProgressEnded(i) == ~Frozen(work, tick, i, "PROGRESSION")

CanProgress(i) ==
  work.acts[i].life = "RUNNING" /\ ~Frozen(work, tick, i, "PROGRESSION")

\* No arbitration: the claims of a launched definition are not looked at.
AfterQuantum(i, t) ==
  /\ pc = "progress" /\ Current(i) /\ CanProgress(i)
  /\ t.point = "AFTER_QUANTUM" /\ spent < MaxInternal
  /\ ~Raises(work, i, t)
  /\ t.kind \in LaunchKinds => Len(work.acts) < MaxActions
  /\ work' = ApplyTransition(work, tick, i, t)
  /\ spent' = spent + 1
  /\ UNCHANGED <<tick, state, pc, todo, arb, queue, lastFault>>

AfterQuantumFails(i, t) ==
  /\ pc = "progress" /\ Current(i) /\ CanProgress(i)
  /\ t.point = "AFTER_QUANTUM"
  /\ spent = MaxInternal \/ Raises(work, i, t)
  /\ Fail(i, work.acts[i].owner)

EndProgress(i) ==
  /\ pc = "progress" /\ Current(i)
  /\ queue' = queue \ {i}
  /\ spent' = 0
  /\ UNCHANGED <<tick, state, work, pc, todo, arb, lastFault>>

\* The slot usage that POST_ADVANCE arbitration reads is the one of the end of stage 4.
BeginPost ==
  /\ pc = "progress" /\ queue = {}
  /\ pc' = "post"
  /\ arb' = ArbitrationState(work)
  /\ \E ns \in TransitionIntents(work, "POST_ADVANCE") : Room(work, ns) /\ todo' = ns
  /\ UNCHANGED <<tick, state, work, queue, spent, lastFault>>

EndPost ==
  /\ pc = "post" /\ todo = {}
  /\ work' = RebuildSlots(work)
  /\ pc' = "commit"
  /\ UNCHANGED <<tick, state, todo, arb, queue, spent, lastFault>>

-----------------------------------------------------------------------------
(* Stages 7 to 12 *)

\* Mutant of Commit: the limits are not checked again.
CommitUnchecked ==
  /\ pc = "commit"
  /\ state' = Maintain(work, tick)
  /\ work' = state'
  /\ tick' = tick + 1
  /\ Idle
  /\ UNCHANGED lastFault

Commit ==
  /\ pc = "commit"
  /\ WithinForestLimits(Maintain(work, tick))
  /\ state' = Maintain(work, tick)
  /\ work' = state'
  /\ tick' = tick + 1
  /\ Idle
  /\ UNCHANGED lastFault

CommitFails ==
  /\ pc = "commit"
  /\ ~WithinForestLimits(Maintain(work, tick))
  /\ Abort(0, NoEntity)

\* The host stops at the bound.
Horizon == pc = "idle" /\ tick = MaxTick /\ UNCHANGED vars

Step ==
  \/ \E n \in todo : Reject(n) \/ Accept(n) \/ AcceptFails(n)
  \/ EndPre
  \/ \E i \in queue : EndProgress(i)
  \/ \E i \in queue, t \in Transitions : AfterQuantum(i, t) \/ AfterQuantumFails(i, t)
  \/ BeginPost \/ EndPost \/ Commit \/ CommitFails

Next == BeginTick \/ RejectTick \/ Step \/ RuntimeFault \/ Horizon

Spec == Init /\ [][Next]_vars

-----------------------------------------------------------------------------
(* Fairness *)

\* A call of tick returns, and the host keeps calling tick.
Fairness == WF_vars(Step) /\ WF_vars(BeginTick)

FairSpec == Spec /\ Fairness

-----------------------------------------------------------------------------
(* Properties *)

\* Types of the variables; arb is covered by the guards that read it.
TypeOK ==
  /\ tick \in Nat
  /\ state \in SimState
  /\ work \in SimState
  /\ pc \in {"idle", "pre", "progress", "post", "commit"}
  /\ todo \subseteq Intent
  /\ queue \subseteq Nat
  /\ spent \in Nat
  /\ lastFault \in Nat \union {-1}

\* Neither the stages of a tick nor a containment ever leave links that disagree, an
\* action frozen by a child it no longer waits for, or a result published twice: what
\* _terminate_action, _finalize_child_results and canonical_events would crash on.
Coherence == Coherent(state) /\ Coherent(work)

\* The usage recorded between ticks is the usage of the live actions, also after the
\* containment of a fault (_rebuild_action_slots).
UsageExact == state.usage = SlotUsage(state)

\* Arbitration never books an action slot beyond its capacity (_first_failure), although
\* it decides a whole stage on the usage of its start and an accepted intent whose
\* action has meanwhile ended is dropped.
SlotsWithinCapacity == \A e \in Entities : state.usage[e] <= SlotCapacity

\* A tick, committed or contained, never returns a forest that the limit check of the next
\* tick rejects, although a contained tick skips that check: ending and unlinking makes no
\* count of _validate_limits larger.  (The records of the fault make the snapshot larger.)
ForestLimitsHold == WithinForestLimits(state)

\* Every child that has ended has reported to its parent.
AllReported ==
  \A c \in DOMAIN state.acts :
    state.acts[c].parent # NoParent /\ Terminal(state.acts[c]) => state.acts[c].told

\* A finished child has reported to its parent by the end of its tick, unless that tick
\* ended in a containment, which skips _finalize_child_results.
ResultsWaitForFaultOnly == AllReported \/ lastFault = tick - 1

\* PCAM-v3.md 17.3: the result of a child that ends in a tick is available to its parent
\* at the next one, so no state between two ticks holds an unpublished result.
ResultsPublishedAtOnce == AllReported

\* events.py deliver_due: an event whose delivery tick has passed is a broken state.
NeverStale == Stale(state, tick) = {}

\* PCAM-v3.md 7.4: an action that ended is never reactivated, whatever is rolled back.
TerminalForever ==
  [][\A i \in DOMAIN state.acts :
        Terminal(state.acts[i]) => i \in DOMAIN state'.acts /\ Terminal(state'.acts[i])]_vars

\* An action that ended keeps its outcome, also when its parent ends later, with one exception
\* (against PCAM-v3.md 30.3): _terminate_action ends a child that has already faulted once
\* more while its result is unpublished.  What a parent was told stays true.
OutcomeKept ==
  [][\A i \in DOMAIN state.acts :
       LET a == state.acts[i]
       IN  Terminal(a) /\ state'.acts[i].life # a.life =>
             /\ a.life = "FAULTED" /\ ~a.told
             /\ a.parent # NoParent /\ Terminal(state'.acts[a.parent])]_vars

\* A contained tick starts nothing and changes the actions of one entity only, also when
\* the fault spreads to children (_contain_fault).
FaultIsolation ==
  [][lastFault' # lastFault =>
       /\ DOMAIN state'.acts = DOMAIN state.acts
       /\ \E e \in Entities : \A i \in DOMAIN state.acts :
            state.acts[i].owner # e => state'.acts[i] = state.acts[i]]_vars

\* A parent stays frozen behind its child until one of the two has ended, whatever other
\* children end, are detached or fault meanwhile.
FreezeHolds ==
  [][\A t \in state.tokens \ state'.tokens :
        Terminal(state'.acts[t.tgt]) \/ Terminal(state'.acts[t.src])]_vars

\* When an action ends between two ticks, each child it had at the first of them meets its
\* declared policy (_terminate_action): through any chain of ends, and under a contained
\* fault too, except that FAULT_ENTITY ends every action of the entity alike.
ChildPolicyHonoured ==
  [][\A p \in DOMAIN state.acts :
       ~Terminal(state.acts[p]) /\ Terminal(state'.acts[p]) =>
         \A c \in state.acts[p].kids :
           LET policy == TermPolicy[state.acts[c].slot]
               ended  == Terminal(state'.acts[c])
           IN  /\ policy = "TERMINATE_CHILD" => ended
               /\ policy = "DETACH_CHILD" => ended \/ state'.acts[c].parent = NoParent
               /\ policy = "FAULT_IF_OCCUPIED" => ended /\ FaultPolicy = "FAULT_ENTITY"]_vars

\* The states between ticks behave as the abstract forest.
Forest ==
  INSTANCE ActionForest
  WITH forest <- [i \in DOMAIN state.acts |->
                    [owner    |-> state.acts[i].owner,
                     parent   |-> state.acts[i].parent,
                     over     |-> Terminal(state.acts[i]),
                     reported |-> state.acts[i].told]]

ForestSpec == Forest!Spec

\* A tick that began returns: the progression and arbitration of an action forest that
\* changes under them terminate.
TickReturns == pc # "idle" ~> pc = "idle"
=============================================================================
