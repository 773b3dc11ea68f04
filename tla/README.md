# PCAM in TLA+

PCAM (Phase-Controlled Action Machine) is a deterministic runtime for action
games: entities own *action instances*, small state machines over nodes, which a
*tick executor* advances in lock step. Round the executor there are a rollback
history, a lockstep coordinator and the pieces of a tick (freezes, events,
arbitration, buffers, interactions, effects). The reference implementation is
`reference/python/pcam_runtime/`; the contract is `spec/PCAM-v3.md`.

This directory holds TLA+ modules translated from the reference implementation,
TLC configurations for small instances, and TLAPS proofs. Paths below are
relative to the repository; `PROJECT.json` maps every definition to its lines.

To run: `tlc -workers 2 -config FaultAction.cfg MCTickExecutor`, and
`tlapm TickExecutor_proofs.tla`.

## 1. Inventory

| Component | State | Operations | What is hard |
|---|---|---|---|
| Tick executor (`runtime.py`) | `SimulationState`, a working copy per tick | `tick`: twelve stages; `_contain_fault` | a stage raises after others ran; stages decide on older states |
| Action forest (`runtime.py`, `state.py`) | `action_instances` with parent, children, slot; `action_slots` | start, terminate, suspend, launch child, publish child results, rebuild slots | links in both directions through chains of ends and faults |
| Freeze tokens (`freezes.py`) | tokens with activation, duration, stacking | `add_token`, `expire_tokens`, queries by domain | frozen ticks counted once; stacking policies |
| Events (`events.py`) | `pending_events`, inboxes | emit, deliver, defer | deferral under freezes, staleness |
| Arbitration (`intents.py`) | `ArbitrationState` of a stage | admit, reserve, reject | all-or-nothing claims over several resources |
| Input buffers (`buffers.py`) | entries per action | capture, consume, expire | overflow policies, repeated inputs |
| Progression (`runtime.py`) | accumulator, deferred quanta, registers | advance quanta, AFTER_QUANTUM transitions with their assignments and effects | ACCRUE backlog against the quanta limit; registers at their limits |
| Hit ledgers (`ledgers.py`) | the tick of the last receipt by key | key, eligibility, receipt | what a window is under hit-stop, loops and re-entered predicates; cooldown boundaries |
| Interactions (`interactions.py`) | the decision on a candidate | five stages of rules, redirects, materialise | a redirect starts over with what was done; rejection before and after materialisation |
| Effects (`effects.py`, `_commit_effects`) | effects of one tick, resource banks | group, reduce, commit | independence of emission order; a failure after other effects were added |
| Predicates (`expressions.py`, `model.py`) | none (pure) | evaluate | acyclic reference graph, limits |
| Numerics, random streams (`numeric.py`, `rng.py`) | PCG32 counters | U64/I64 arithmetic, draws | overflow, bounded draws |
| PCAM-24 profile (`pcam24.py`) | profile registers | lifecycle of the 24-phase profile | recovery and interruption |
| Rollback (`rollback.py`) | retained frames, head, presented effects | `advance`, `correct_and_resimulate`, `_prune` | corrections on corrected ticks, effects withdrawn and restored |
| Lockstep (`networking.py`) | packets, next tick, digest reports | `submit`, `advance`, `submit_digest`; correction planner | lost, late and repeated packets, drift, one peer aborting |
| Canonical encoding, snapshots, schema, documents, migration, extensions, CLI, vectors | - | serialisation, validation, I/O | not modelled: bytes and files |
| Rust runtime (`independent/rust`) | as above | second implementation, compared by shared vectors | not modelled: the reference is |

**Interactions.** A host calls `TickExecutor.tick` with a state, inputs and a
host snapshot, and gets the next state or an exception, in which case it still
holds the old one. Inside a tick everything is sequential: the components pass
one immutable state along. `RetainedRollbackHistory` calls `tick` forward and
again from saved snapshots. A `LockstepCoordinator` at each peer turns packets
into the input document of the next tick; hosts run it and exchange digests of
the state. So there are three kinds of nondeterminism: what the definitions,
inputs and contacts make eligible; where a stage raises; and, over the network,
which packet or digest arrives when.

**What makes each component correct.** The forest: links agree, a freeze lasts
as long as the child it waits for, an ended action stays ended, termination
policies reach every child through any chain. The executor: usage and limits
hold between ticks, a contained fault leaves nothing of the failed attempt, and
a tick returns. Rollback: a corrected history is the history that had the
correct inputs at once, in state and on screen. Lockstep: peers never run
different ticks without being told. Freezes: each holds its target for one span of
the granted length. Inputs and events: none is lost, early, late or taken twice.
Progression: no quantum is lost or invented. Arbitration: all or nothing, in
canonical order. Hits: once per window, whatever happens in between. Effects: a
tick applies all of them or none.

`PROJECT.json` lists the hazards of the code at the line where each bites, with
the properties that catch it or the reason none does.

## 2. Modules

| Module | Models | State and actions |
|---|---|---|
| `ActionTree` | the forest inside a `SimulationState` and the operators on it | pure operators: `EndAction` (`_terminate_action`), `EndEntity`, `StartAction`, `LaunchChild`, `ApplyTransition`, `DeliverEvents`, `FinalizeChildResults`, `Maintain`, `RebuildSlots` |
| `TickExecutor` | `tick`, `_tick_once`, `_contain_fault`, arbitration of slots and child slots | one step per stage boundary, arbitrated intent and AFTER_QUANTUM transition; `state` is what the host holds, `work` the copy |
| `ActionForest` | abstract: what ticks may do to a forest | `forest`; one action per tick |
| `RollbackHistory` | `RetainedRollbackHistory`, `RollbackManager` | `frames`, `head`, `presented`; `Begin`/`Grow` (`advance`), `Correct`, `Refuse`, and the calls that raise |
| `InputTimeline` | abstract: one rewritable timeline and what it shows | `timeline`, `shown`; begin, grow, rewrite |
| `Lockstep` | a `LockstepCoordinator` at every peer | `Submit`, `Advance`, `SubmitDigest`; external `Send` |
| `FreezeTokens` | `freezes.py` | pure operators: `AddToken` (the five stacking policies), `ExpireTokens`, `IsFrozen`, `ProgressionAccrual` |
| `FreezeSchedule` | abstract: what is frozen when follows from the requests made | `asked`, `spans`; ask, tick, stretch, release |
| `InputBuffer` | `buffers.py` | `CaptureEntry`, `SelectEntry`, `ApplyConsumption`, `ExpireEntries` |
| `EventQueue` | `events.py` | `Delivered`, `StillPending`, `DeliveryRaises` |
| `Arbitration` | `intents.py` | `Fits` (`_first_failure`), `ReserveClaims` (`_reserve`), `Arbitrate` |
| `Timeline` | `_progress_action` on a definition compiled by `pcam24.py` | `Progress`, `Quantum`, `AtEnd`, `ProgressRaises` |
| `ActionClock` | one action through the stages that count time for it, and its host | an action per stage (`Begin`, `ArbitrateStage`, `ProgressStage`, `Close`), host freezes, three kinds of fault |
| `Numerics`, `Registers` | `numeric.py`; `_normalize_register_value`, `_apply_assignments` | results as sets, empty where the code raises |
| `HitLedgers` | `ledgers.py` | `LedgerKey`, `IsEligible`, `ReceiptRequired`, `WriteReceipt` |
| `InteractionRules` | `resolve_candidate` | `Perform` (the operations), `Fire`, `RunStage`, `Pass`, `ResolveCandidate` |
| `EffectReduction` | `effects.py` | `CanonicalEffects`, `Groups`, `ReducePayloads`, `GroupRaises` |
| `Encounter` | actions of several entities through the stages in which they hit each other | `Advance`, `SemanticSnapshot`, one action per outcome of a candidate, `Commit`, and a fault action per stage |
| `CanonicalOrder` | sort keys | `LexLess`, `Sorted`, `First` |
| `MC...` | instances for TLC | definitions of constants |
| `..._proofs`, `..._lemmas` | theorems and lemmas | section 4 |

### How the executor is abstracted

An action instance keeps its owner, lifecycle state, parent link, children,
the flag that its result was published, its inbox and its claim on the entity's
action slot. Nodes, registers, buffers, clocks and predicates decide only *which*
transition is eligible, so that choice is nondeterministic: a stage offers any
set of intents with at most one per running, unfrozen action, and arbitrates
them in any order. This covers every order the code's sort keys can give.

The recursion of `_terminate_action` is its closure: `Doomed` is the least set
with the action that contains each TERMINATE_CHILD child of a member. The code
raises when it meets a FAULT_IF_OCCUPIED child anywhere on the way (`CannotEnd`),
and nothing of the working copy is used after a raise, so the order of the
recursion does not matter.

A raise anywhere is `RuntimeFault` or one of the `...Fails` actions: it restores
the tick-start state and, by policy, faults an action or an entity in it and
advances the tick (`Contain`), or goes out to the host (`Abort`).

### Three cuts through a tick

One model of all twelve stages would be out of TLC's reach, so the tick is cut
along what its state has in common. `TickExecutor` has the action forest and
leaves open why a transition is eligible. `ActionClock` has one action with
everything that counts ticks for it (tokens, events, buffer entries, quanta) and
the arbitration of its transition against starts of other actions. `Encounter`
has several actions without launches, from progression to the commit of effects.
Each cut has its own fault containment, translated from `_contain_fault` for the
state it keeps.

`ActionClock` runs a stage as one action: within a stage nothing else happens, and
the state between stages is what faults and freezes see. `Encounter` resolves one
candidate per action, since a fault at any candidate undoes those before it.
Expressions become what they read: a predicate is a range of steps, a floor under a
resource, or a conjunction of others; a rule's condition asks for statuses, tags,
targets and defenses; a payload is a literal, the cycle or a register; an
assignment adds an amount. Integers are bounded by `Bound` in place of 2^63.
History variables (`asked`, `past`, `hits`, `shown`) let the properties speak of earlier ticks;
no action's guard reads them.

### How rollback is abstracted

`tick` is a deterministic function, so a state is represented by the batches
that led to it; equal histories give equal states and snapshots. What a tick
presents (`Cues`) and whether it raises are constant functions of the history
and the batch, given in `MCRollbackHistory` so that a correction changes the
effects of later ticks as well as of its own. The model identifies a
presentation effect with its `effect_id`, as the code does.

### How lockstep is abstracted

`sent` is the network: a packet in it may be submitted to any peer at any time,
any number of times or never. A document is the set of the inputs in the
packets (the code sorts them, so the order of arrival is gone) and the
contacts. A digest is injective: it stands for the definitions and all documents
run so far. Hosts report the digest of a tick they have run; `verdict` records
what the coordinator answered.

## 3. Runs

| Run | Instance | Shows |
|---|---|---|
| `fault_action` | 1 entity, 4 child slots (one per termination policy), every kind of freeze, FAULT_ACTION, 4 ticks, 4 actions | coherence, forest limits, results, outcomes, freezes, child policies; ticks implement `ActionForest` |
| `fault_entity` | 2 entities, an action slot of capacity 2 that every arbitrated launch claims, FAULT_ENTITY | a contained fault leaves the other entity alone; arbitration never overbooks, and usage is exact after replacements, ends and faults |
| `abort` | ABORT_SIMULATION, tight limits, fair | no event is missed, no result delayed, every call of `tick` returns |
| `rollback` | window 3, 5 ticks, corrections anywhere | the history implements `InputTimeline`; window, frames, reconciliation, `RollbackManager` |
| `lockstep_safety` | 2 peers, WAIT and PREDICT, equal or different definitions, hosts that may disagree, colliding inputs | waiting peers run the same ticks and stay within one tick; a MATCH is right |
| `lockstep_fair` | 2 peers, all policies, equal or different definitions, fair transport, exchange every second tick | waiting sessions end, a drift before an exchange is told to both at it, an abort spreads |
| `clock` | one action, 7 kinds of freezes under every stacking policy, 5 inputs, every lifecycle, overflow and consumption policy, 16 setups (one with an input, a freeze and a contained fault) | every request for a freeze gets the span that its policy gives it (`FreezeSchedule`); events, inputs and quanta are exact under any freezes and faults; arbitration is all or nothing |
| `encounter` | 3 actions of 2 entities and a bystander, 15 contacts, 7 rulebooks, every hit policy and receipt condition, every integer reducer, 22 setups | hits once per window, sound decisions, registers as declared, effects all or none |
| `receipt_lost` | `encounter` with a REACTION rule that rejects | the disagreement on receipts of section 6 |
| `freezes_overlap` | `clock` with two SUM_DURATION freezes and a contained tick | the disagreement on queued freezes of section 6 |
| `stale_event`, `slot_overbooked` | as `fault_action`; action slot of capacity 1 | the other disagreements of section 6 |

Each property of a passing run has a mutant of a mapped definition that it
refutes; mutants stand before the definition they change.

**Bounds.** `MaxTick` stops the host, `MaxActions` the launches,
`MaxInternal` is a limit of the code's profile. Four ticks and four actions are
enough for a chain parent - child - grandchild built in two ticks, ended in the
third and reported in the fourth, with a fault in any of them, which is as long
as any counterexample of section 6 and of the mutants. `rollback` runs two
ticks more than its window, so that frames fall out of it and corrections meet
already corrected frames. `clock` stops after as
many ticks as two queued freezes and a deferred event need to run out, and
`MaxQuanta` is low enough for a backlog to exceed it. `encounter` has four ticks of
two-step timelines: two cycles at rate one, four at the highest, so that windows of
every kind close and open again, a cooldown of two ticks runs out, and registers of
three to six values wrap. Its `Bound` of 8 is within reach of two hits. Each setup
reports a few of the contacts, two or three in a tick, so that duplicates in a tick
and repeats across ticks both happen. Lockstep needs two
ticks, so that a packet can be late for the second and a digest of the first can
arrive after it; with an exchange every second tick, `DriftNoticed` speaks of drifts in a tick that
an exchange still follows. `CHECK_DEADLOCK FALSE` in the
lockstep runs: a session really stops when it is aborted, when hosts disagree,
or at the bound. In `clock` too: `tick` raises for good once a contained fault has
left an event behind (`stale_event`), and the host stops at `MaxTick`; in `encounter` the
host stops at `MaxTick`.

**Fairness.** `TickExecutor`: `WF_vars(Step)`, the tick is one sequential call
that always takes its next step, and `WF_vars(BeginTick)`, the host keeps
calling. Faults are not fair. `Lockstep`: each peer's host keeps sending and
calling `advance`, and the transport loses nothing: delivery is left to it (the
coordinator has no timeout and asks for nothing again), and a waiting session
that loses a packet rightly stops. Packets still arrive in any order and
repeatedly. `SessionAdvances` is for hosts that agree (one contact, no shared
identifiers) on the same definitions: otherwise `advance` raises for good. Safety runs use no fairness.

## 4. Proofs

Every theorem is of the specification that the runs check, for every value of the
constants the named ASSUMEs allow: any number of entities, actions, peers and
ticks, any definitions, rules and contacts. TLC evaluates each ASSUME on the
instances of section 3.

| Module | Theorems |
|---|---|
| `TickExecutor_proofs` | lemmas on the operators of `ActionTree`; `TypeCorrect`, `CoherenceHolds`, `UsageExactHolds`, `ForestLimitsHoldAlways`, `ResultsWaitForFaultOnlyHolds` |
| `TickHistory_proofs` | `TerminalForeverHolds`, `OutcomeKeptHolds`, `FreezeHoldsAlways`, `ChildPolicyHonouredAlways`, `FaultIsolationHolds`, `ForestImplemented`, `NeverStaleUnderAbort`, `ResultsPublishedUnderAbort`, `SlotsWithinCapacityHolds` |
| `RollbackHistory_proofs` | `TypeCorrect`, `FramesOnHistoryHolds`, `WindowCompleteHolds`, `PresentedIsShownHolds`, `ManagerAgreesHolds`, `ReconciledOnceHolds`, `TimelineImplemented` |
| `Lockstep_proofs` | `TypeCorrect`, `InStepHolds`, `SameTimelineHolds`, `MatchMeansEqualHolds` |
| `Stage_lemmas` | lemmas: canonical orders, captures one after the other, any number of quanta |
| `ActionClock_proofs` | `ClockTypeOK`, `TimelineExactHolds`, `EventsOnTimeHolds`, `FreezesImplemented`, `SerializedUntilFault`, `InputsExactHolds`, `GreedyAdmissionHolds` |
| `Encounter_lemmas` | lemmas: assignments to registers and the transitions of a tick, lists, the rule pipeline, the reduction and settlement of effects, where effects come from, the types of tokens, predicates and banks |
| `Encounter_proofs` | `LedgerExactHolds`, `RegisterExactHolds`, `DecisionSoundHolds`, `CommitExactHolds`, `TypeCorrect` |

### The executor

`IInv` is `TypeOK`, `Coherence` and `IntentsNameActions`. `Coherence` alone is not
inductive: a stage applies intents and progresses instances chosen when the stage
began, so one must know that they still name instances of the working copy, whose
domain only grows inside a tick. One lemma shows the type and one the coherence
of every operator of `ActionTree`. `EndAction` in the middle of `LaunchChild` is the
difficult one, because the new child names a parent that does not list it yet; the
lemmas are stated for `CoherentBut(s, c)`, coherence up to one child.

On it rest, each with what it needs besides:

- `UsageExact`: at the commit, the usage of the working copy has just been recounted
  (`UsageInv`); before it, nothing that the host holds has changed.
- `ForestLimitsHold` and `ResultsWaitForFaultOnly`: what `Maintain` and
  `FinalizeChildResults` leave, and what `Contain` makes of a state that satisfied them. The
  first is about children, nesting, actions and pending events only (section 7).

The host sees only states between ticks, and a tick is many steps, so the action
properties need a relation across all of them. `Later(o, n)` says what any operator
of a stage may make of a state: actions are added, and keep owner and claim; one that has ended stays ended; a live
parent keeps its children, an ended one has met their policies; a token goes only
when its target ends. It is reflexive and transitive, every
operator is a step of it, and the invariant is `Advances == Later(state, work)`.
`TerminalForever`, `FreezeHolds`, `ChildPolicyHonoured` and the refinement
`ForestSpec` are read off it at the commit, and `OutcomeKept` off
`OutcomesKept(o, n)`, a relation of the same kind that needs the links of o; `FaultIsolation` and the containing steps
of the refinement off `Contain`.

Two theorems have a hypothesis, because without it a run refutes the property:

- `NeverStaleUnderAbort` and `ResultsPublishedUnderAbort` suppose
  `FaultPolicy = "ABORT_SIMULATION"`; a contained tick leaves an event behind
  (`stale_event`) and reports a child late. `Timely` adds to the two properties
  that inside a tick the working copy has no event left.
- `SlotsWithinCapacityHolds` supposes `QuantumClaimsNothing`: launches that arbitration
  never sees, those of AFTER_QUANTUM transitions, claim no slot (`slot_overbooked` has one that
  does). A stage arbitrates on the usage of its start, while the actions that hold the slots end
  one by one: `Booking` counts, beside the live claimants of an entity, the actions
  whose claim an intent still to be applied gives back.

### Rollback and lockstep

A state of `RollbackHistory` is the sequence of batches that led to it. `IInv`
says that every retained frame is the frame of that sequence at its tick, that
the window has no gap, and that what is presented and shown is what the sequence shows
from the first retained tick on. The properties are consequences; a correction
is the case with work, since it replaces a suffix and must show the difference only.
`TimelineImplemented` maps it to `InputTimeline` with the head as the timeline.

`IInv` of `Lockstep` says that a packet held was sent, that a peer sends one packet for
a tick, and that a tick a peer has run under WAIT has the packets of all peers, hence
`SameTimeline` and `InStep` for any number of peers; and that a report kept is of a
log that only grows (`PrefixKept`), hence that a MATCH is right.

### One action in time

`Stage_lemmas` shows that n quanta take a clock from place to place (`InPlace`:
the steps taken are the cycles and the step it is at) and that a rate is carried over
exactly. `TimelineInv` counts, over the ticks gone by, what the rate has
generated; `EventsInv` says that every tick since the creation of a pending event put it off. For `FreezesImplemented`, the mapping of
`ActionClock` gives a token that has been counted down the span of ticks it stands for.
`TokensInv` types the tokens, keeps their numbers apart from those to come, and bounds
their ends, so that a group has a last one to queue behind. Each of the five policies
of `AddToken`, the expiry at the end of a tick, the tick lost to a fault and the release
is shown to be the step of `FreezeSchedule` that it should be. The abstract step is bound to the
request made: `asked` is shared, the n-th request gets the n-th span or none, and a span keeps the
policy and the group that placed it. `SerializedUntilFault` says that SUM_DURATION does what
it is for until the first contained tick: `SerialInv` keeps the spans of a group apart as long
as `Lost` is 0. Afterwards they may overlap (`freezes_overlap`).

`BufferInv` says that the lifetime an entry has left and the ticks that aged it make up the
whole lifetime, and that an input is buffered once. `InputsExact` is then read off each
stage: the captures of a tick are followed one by one (`CapturingEvicts`: whatever they
evicted was the oldest of a full buffer and older than everything that stayed), and what the
arbitration consumes is the oldest entry of the one selected command. An undone tick brings
the buffer of its start back and so ages nothing: `Aged` leaves it out, and one setup of
`clock` is there to meet it.

For `GreedyAdmission` the intents are followed in canonical order. `LedgerAt(acc)` is the
arbitration state in terms of the intents accepted so far (`AdmitStep`), and an intent is in
the verdict exactly when it fits what those before it left (`AdmittedBefore`). `RoomStep`
is the one with a trap: a replacement gives back the place it holds before it takes one.
Two theorems have a hypothesis on the claims of starts:

- `ClockTypeOK` supposes `PaysOnce`: no start claims the resource both with and without its
  owner. Without it the stamina goes below zero (section 6); documents name no owner.
- `GreedyAdmissionHolds` supposes `PlainClaims`: besides that, starts claim their place and
  exclusive keys. What is claimed beyond the means in the model (another capacity) is
  refused by the code, and `GreedyAdmission` does not speak of it.

### Hits

A ledger key is made of counters: cycles, activation serials, the tick of the latest
receipt. `LedgerExact` speaks of what happened instead. `Exact(s, H, past, u)` of
`Encounter_proofs` ties a state to a log of candidates and to the predicates seen: a
serial is the number of ticks in which the predicate came true, a running clock is in
place, the ledger holds the latest receipt of every key and no other, and the
log was tried as the property demands. `SameTells` is the heart: two candidates have one
key, and the second comes within a cooldown, exactly when they share a window. `LedgerInv`
says `Exact` twice, of the present state with the log of this tick and of
the tick-start state with the log of the ticks gone by: the second is what a
fault returns to, and why ticks that were undone neither repeat a hit nor lose one.

### Registers

`RegisterExact` compares a register with a sum that no code keeps: how often the
transition has fired, read off the clock (`Fired`), times what its assignments add.
`Follows(n, sum, d, ...)` says what is known of the register n after any part of such a sum: it is
within its limits, equal to the sum modulo its span under WRAP, at the limit the sum is past
under SATURATE, equal to it under FAULT. `NormalizeFollows` shows it of one assignment,
`AssignFollows` of a list, `TransitionsFollow` of the quanta of a tick, in which
the transition fires as often as `Fired` grows (`QuantumFires`). Under
SATURATE it needs amounts of one sign, and so does the property: a register that went past its
maximum and came back is not where the sum is. `RegisterInv` says it of the
present state and of the tick-start state, to which a fault returns.

### Decisions

A decision changes hands between five levels: operation, rule, stage, pass, candidate. Each
is followed by an invariant of its own, from the inside out: `Decided(d, r)` (targets met once,
effects in the order of their targets, a rule that rejects behind every effect that is
not REACTION), `InRule` (a decision after some operations of a rule: what stops or rejects so
far shows in it), `Whole` (between two rules). What makes the effects come out right is
`Barred`: once a rule that rejects has fired, the decision is REJECTED or faulty, so a later
MATERIALIZE lets only REACTION out, also in the pass after a redirect, where the
templates, tags and effects of the passes before are still there. r is the number of redirects
at the start of a pass: every pass that ends in RESTART adds one, so the last pass the limit
allows cannot ask for another, and the loop of `resolve_candidate` ends.
`RulebookAssumption` says that rulebooks are lists and that the orders of a stage differ, as
`validate_rules` has it; without the latter a stage would have no order to follow (`RulesRanked`).

### The commit

`CommitExact` says what a tick leaves in the banks without speaking of order: `Contribution` is
a function of the *set* of effects of a type on a target. The code sorts, groups, folds and adds
one group after the other. The proof goes through four facts.

- *Effects are told apart.* `Unlike` says that no two effects of a tick have the same action and
  id, so canonical keys differ and the canonical order of a group is its only one
  (`GroupOrder`, `GroupLists`). The effects of a transition carry the id 0 and their quantum
  and place (`TransitionsOwned`, `JointOwned`), those of a candidate the id of its contact and
  their place in the decision (`ResolvePlaces`); contact ids are not 0 and differ.
- *A reducer sees the set only.* `ReduceIs`: on a group that does not raise, each of the
  reducers returns the `Contribution` of its members. First and last are the members with the
  most and the fewest after them; the custom reducer, a polynomial in the place, is a sum
  weighted by powers of the number of effects after each.
- *Settling adds up.* `SettledExpected`: group by group, the bank of a target grows by the sign of
  the type times the contribution, on top of what contacts without a binding have added.
- *Nothing is settled early, and a fault has someone to blame.* `TallyInv`: until the
  commit the banks are those of the start; contacts that wait have had no effects yet; every effect to
  be settled comes from an action that is not FAULTED. Hence an effect that fails at the commit faults an
  action that was sound, or, with several sources, aborts the tick: both leave what was at the
  start (`TickWhole`).

`EffectAssumption` types the effects, has contacts told apart by their ids, and says that
`Entities` is all that is named; the code has that from the schema and from
`_canonical_contacts`.

`TypeCorrect` adds `TypeInv`: the two states and what was reported. Its one step of interest is the bound on
activation serials: they are not counted in ticks but by edges, and a snapshot may raise one
in the tick it is in. `SerialBounded` has it from `Exact`, by which a serial is a number of
ticks with an edge, and the present tick has none until its snapshot. For banks
(`BankTyped`), `AddI64` keeps what typed effects leave within I64; only a RESOURCE_DELTA moves it out.
`HostAssumption` says that definitions have finitely many predicates and that the host grants
well-formed freezes.

### How the proofs get by without induction

The library's induction theorems take an operator as a parameter, which none of the
provers can instantiate. Where a fact is needed of every n (`QuantaReach`, `RunExists`), the
proof takes the least counterexample: the order on Nat is well-founded
(`NatLessThanWellFounded`), so a set of naturals has a least member (`LeastNatural`), and the member
before it is no counterexample. Recursive functions are unfolded only after a lemma has
shown that there is one (`RunExists`, `CapturingExists`, `AdmittingExists`), and the
set sums of the community modules after `SummingExists`, the folds over a group, the banks and the
instances after `FoldingExists`, `BankingExists` and `JoiningExists`, predicates that ask for others after `DecidingExists`; that these do not depend on the order
of the choices is `SummingAnyOrder`. `Sorted` is what it says because the number of smaller keys
tells the members of a finite set apart (`Ranked`). `WriteReceipt` and the states of the
arbitration are function and record constructors, not `:>`, `@@` and EXCEPT: the
provers know nothing of the first two and little of the third.

### Only model-checked

- Liveness (`TickReturns`, `SessionAdvances`, `DriftNoticed`, `AbortSpreads`): fairness
  and ENABLED are out of the prover's reach.
- `NeverStale`, `ResultsPublishedAtOnce`, `SlotsWithinCapacity`, `GreedyAdmission` and `TypeOK`
  of `ActionClock` beyond the hypotheses above, `GroupsSerialized` once a tick was contained, and
  the properties that the runs of section 6 refute.

## 5. Plan

The modules of section 2 are complete as far as section 7 allows, and every safety property
that a passing run checks has a theorem, under the hypotheses named in section 4. What could come next:

- a module that composes `Encounter` with the launches of `TickExecutor`, so that a start in the
  middle of an encounter and its containment meet in one state;
- `SlotsWithinCapacity` and `ClockTypeOK` without hypotheses, once the code arbitrates every launch
  and claim: section 6 has what refutes them now.

## 6. Where code and documents disagree

Four have a run that TLC refutes.

- `stale_event`: `_contain_fault` advances the tick without delivering the
  events due in it. The next tick finds an event of the past, which
  `deliver_due` treats as a broken state that no policy contains, so every later
  tick raises: a contained fault ends the simulation.
- `slot_overbooked`: an AFTER_QUANTUM transition launches its target without
  arbitrating the target's claims.
- `receipt_lost`: `_resolve_interactions` decides on a receipt with the status at
  the end of the pipeline. When a REACTION rule rejects what routing accepted, the
  effects are applied, no receipt is written and the hit repeats.
- `freezes_overlap`: a contained tick does not count tokens down, so an active token
  lasts a tick longer, while a SUM_DURATION token queued behind it keeps its activation
  tick: for a tick both are active and both are counted down, against
  `spec/PCAM-v3.md` 18.5 ("thereby serializing group durations").

One more follows from the same cause as `stale_event`: a child faulted by a
containment is reported one tick late, since the contained tick skips
`_finalize_child_results` (`ResultsWaitForFaultOnly` allows exactly that, and
`abort` shows `ResultsPublishedAtOnce` where nothing is contained).

Met while translating, in the models where noted, and without a run of their own:

- `_first_failure` compares claim by claim. A definition may claim one resource twice,
  with its owner named and left open; `_aggregate_claims` keeps the two apart, each
  passes alone, and `_reserve` takes both: the bank goes below zero, against
  `spec/PCAM-v3.md` 15.4 ("accepted only when all claims can be satisfied
  atomically"). Of two such releases only the last counts (`GivenBack`).
  `GreedyAdmission` is stated for intents that claim a thing once.
- `_terminate_action` does not look whether a child has ended already: a child that is
  FAULTED and not yet reported becomes TERMINATED and loses its fault record when its
  parent ends, against 30.3 ("The runtime MUST NOT silently ignore an authoritative
  fault"); `fault_state` still names the last fault. `OutcomeKept` has this as its one
  exception, and `OutcomeKeptHolds` proves that there is no other.
- `_contain_fault` adds fault records to the state and does not check
  `max_snapshot_size_bytes` again: a tick that starts just below that limit can be
  contained into a state above it, which every later tick rejects. `ForestLimitsHold` is
  about the counts of the forest, which a containment never raises.
- Quanta deferred under ACCRUE are released at once; more than
  `max_quanta_per_action_per_tick` of them fault the action (`ProgressRaises`).
- Predicate activation serials advance only when the definition tracks edges;
  otherwise ONCE_PER_PREDICATE_ACTIVATION is once per action (`SameWindow`).
- After a redirect the pipeline runs again with the templates, tags and effects of the
  pass before: modifications apply twice, and two effects may share an effect_id. The
  ledger key keeps the target of the contact.
- Two bound defenses of an entity the candidate does not reach still fault the
  attacker's action (`Ambiguous`).
- RESOURCE_DELTA is added without the overflow check of all other effects
  (`LegacyBank`).
- REQUEST_RECEIPT is recorded in the decision and never read (`Perform`).
- An accepted intent whose action ended before it is applied keeps the resources it
  reserved spent.
- An AFTER_QUANTUM transition that fires twice in a tick with an EVENT effect creates
  two events with one event_id.

## 7. Not modelled

Serialisation, hashing, schemas, documents, migration, the command line and the
vectors are matters of bytes and files, covered by shared vectors. Extensions
are host callbacks: what matters here is that they may raise, which
`RuntimeFault` allows anywhere. The expression language is a pure evaluator whose
limits only make it raise. The Rust runtime is a second implementation of the same
contract, and the experiments are measurements.

Of the parts that are modelled, these are left out:

- of `_validate_limits`, the size of the snapshot and of the extension state, the length
  of input buffers against the profile (`InputBuffer` has the capacity of the definition), and
  the numbers of candidates and effects of a tick; exceeding one is a raise
  (`RuntimeFault`), but which states exceed it is not said;
- of `submit`, inputs with another `assigned_tick` than their packet or with an identifier
  twice in one packet: a sender that keeps to the format sends neither;
- the text of identifiers: effect ids and input ids sort as numbers, which is the order
  of the code for the identifiers in use;
- actions with several nodes: entry and exit of nodes other than the one of a
  compiled timeline; non-integer registers and payloads; captured parameters;
- the BROADCAST and CHILD delivery modes; EVENT effects of `Encounter` (events are
  created in `ActionClock`);
- the outputs of PCG32 (only the number of draws is state that faults could lose);
- identity hashes of the effect registry and of custom reducers: one custom reducer
  stands for any;
- host imports, which enter predicates as values the host sends;
- `ServerAuthoritativeCorrectionPlanner`: it compares two ticks with a bound, keeps no
  state, and nothing in the code connects it to the rollback history;
- the composition of the three cuts of a tick: a launch in the middle of an encounter,
  or a hit-stop that an effect grants, happens in no module.
