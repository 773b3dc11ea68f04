----------------------------- MODULE Encounter ------------------------------
(***************************************************************************)
(* The actions of several entities through the stages of a tick in which   *)
(* they hit each other (reference/python/pcam_runtime/runtime.py): the     *)
(* progression with the effects of its transitions, the semantic snapshot, *)
(* the interactions in canonical order, and the commit of their effects.   *)
(*                                                                         *)
(* Facts, contacts and effect types are numbers in the order of their      *)
(* names.  There is one resource, one RNG stream and one register in each  *)
(* action.  Faults are contained under FAULT_ACTION; a fault without an    *)
(* action aborts the tick.                                                 *)
(***************************************************************************)
EXTENDS HitLedgers, InteractionRules, EffectReduction, FreezeTokens, Registers, Timeline

CONSTANTS
  Entities,
  Owner,         \* the entity of an instance
  Predicates,    \* of an instance: id, kind, and what the kind asks for
  Facts,         \* of an instance: id, direction, the predicate that binds it, templates
  CycleEffects,  \* of an instance: definition_effects of the transition at its end
  Assignments,   \* of an instance: what that transition adds to the register, as it leaves
                 \* the node (exit_assignments, assignments) and as it enters the next
                 \* (entry_assignments)
  Register,      \* of an instance: the register's initial value and limits
  Rulebook,      \* the rules of a name
  Registry,      \* effect_registry: the sign of an effect type
  Contacts,      \* contacts the host may report
  TokenKinds,    \* freezes the host may grant
  Setups,        \* what a run may be configured with
  MaxTick        \* bound: the host stops calling tick

VARIABLES
  setup,    \* rules, hit policy, rates and lifecycles; what the host may do
  state,    \* the state, in a tick the one the stages have reached
  start,    \* the state at the start of the tick
  round,    \* of the tick: candidates left, bindings, effects, the last decision
  granted,  \* next_freeze_token_id
  hits,     \* every candidate that met its ledger, of the ticks gone by and of this one
  shown     \* for each tick gone by, the predicates that held

vars == <<setup, state, start, round, granted, hits, shown>>

Instances == DOMAIN Owner

\* The domains that stages 5 to 10 ask for.
FreezeDomains ==
  {"PROGRESSION", "INTERACTION_EMISSION", "INTERACTION_RECEPTION", "RNG_CONSUMPTION"}

PredicateIds == UNION {{p.id : p \in Predicates[i]} : i \in Instances}

\* What a run is configured with has its type; a policy names what its kind needs (HitPolicy).
ASSUME EncounterAssumption ==
  \A s \in Setups :
    /\ s.rate \in [Instances -> Nat] /\ s.life \in [Instances -> Lifecycles]
    /\ s.track \in BOOLEAN /\ s.policy.kind \in HitPolicyKinds
    /\ s.policy.kind = "ONCE_PER_PREDICATE_ACTIVATION" => s.policy.predicate \in PredicateIds
    /\ s.policy.kind = "COOLDOWN_TICKS" => s.policy.cooldown \in Nat \ {0}

\* Instances have finitely many predicates; the host grants well-formed freezes and counts ticks.
ASSUME HostAssumption ==
  /\ MaxTick \in Nat
  /\ \A i \in Instances : IsFiniteSet(Predicates[i])
  /\ \A kind \in TokenKinds :
       /\ kind.target \in Instances /\ kind.duration \in Nat \ {0}
       /\ kind.domains \in (SUBSET FreezeDomains) \ {{}}
       /\ kind.accrual \in {"HOLD", "ACCRUE"} /\ kind.group \in STRING /\ kind.policy \in StackPolicies

\* A register starts within its limits (schema.py:305).
ASSUME RegisterAssumption ==
  /\ \A i \in Instances :
       /\ {Register[i].initial, Register[i].minimum, Register[i].maximum} \subseteq Int
       /\ Register[i].minimum <= Register[i].initial /\ Register[i].initial <= Register[i].maximum
       /\ {Assignments[i].leaving, Assignments[i].entering} \subseteq Seq(Int)
  /\ \A s \in Setups : s.overflow \in {"FAULT", "SATURATE", "WRAP"}

IsList(s) == Len(s) \in Nat /\ DOMAIN s = 1 .. Len(s)

\* No two rules of a stage have the same order (validate_rules).
ASSUME RulebookAssumption ==
  /\ \A s \in Setups :
       LET rules == Rulebook[s.rules]
       IN  /\ IsList(rules)
           /\ \A k \in DOMAIN rules : rules[k].order \in Int /\ IsList(rules[k].ops)
           /\ \A j, k \in DOMAIN rules :
                rules[j].stage = rules[k].stage /\ rules[j].order = rules[k].order => j = k
  /\ \A i \in Instances : \A f \in Facts[i] : IsList(f.templates)

EffectTemplate ==
  [type : Int, class : STRING, ref : {"LITERAL", "CYCLE", "REGISTER"}, payload : Int,
   reducer : Reducers, priority : Int, authoritative : BOOLEAN]

\* What an operation puts into a decision has its type.
Operates(op) ==
  /\ op.op = "REDIRECT" => op.target \in Entities
  /\ op.op = "SCALE_EFFECT_CLASS" => op.numerator \in Int /\ op.denominator \in Int
  /\ op.op = "CAP_EFFECT_CLASS" => op.cap \in Int
  /\ op.op \in {"REPLACE_EFFECT_CLASS", "APPEND_EFFECT_TEMPLATE"} => op.template \in EffectTemplate

\* Effects are typed; the host tells its contacts apart; Entities are all that anything names.
ASSUME EffectAssumption ==
  /\ Instances \subseteq Int /\ IsFiniteSet(Instances) /\ Entities \subseteq Int
  /\ \A i \in Instances :
       /\ Owner[i] \in Entities /\ CycleEffects[i] \in Seq(EffectTemplate)
       /\ \A f \in Facts[i] : f.templates \in Seq(EffectTemplate)
  /\ \A s \in Setups :
       /\ \A k \in DOMAIN Rulebook[s.rules] : \A n \in DOMAIN Rulebook[s.rules][k].ops :
            Operates(Rulebook[s.rules][k].ops[n])
       /\ s.perTick \in Nat /\ DOMAIN s.bank \subseteq Entities
       /\ \A e \in DOMAIN s.bank : s.bank[e] \in I64
  /\ \A t \in DOMAIN Registry : Registry[t] \in Int
  /\ IsFiniteSet(Contacts)
  /\ \A c \in Contacts :
       /\ c.id \in Nat \ {0} /\ c.target \in Entities /\ c.instance \in Instances
       /\ {c.fact, c.defense, c.partition, c.priority, c.amount} \subseteq Int
       /\ \A e \in Contacts : e.id = c.id => e = c

NoDecision == << >>

Idle ==
  [pc |-> "idle", queue |-> << >>, active |-> {}, legacy |-> {}, typed |-> << >>,
   decision |-> NoDecision, fresh |-> << >>]

Init ==
  /\ setup \in Setups
  /\ state = [tick |-> 0, clock |-> [i \in Instances |-> Started(setup.rate[i])],
              truth |-> [i \in Instances |-> {}],
              serial |-> [i \in Instances |-> [p \in PredicateIds |-> 0]],
              ledger |-> << >>, legacyLedger |-> {}, bank |-> setup.bank, draws |-> 0,
              register |-> [i \in Instances |-> Register[i].initial], tokens |-> {}]
  /\ start = state
  /\ round = Idle
  /\ granted = 0
  /\ hits = << >>
  /\ shown = << >>

Running(i) == state.clock[i].life = "RUNNING"

Frozen(i, domain) == IsFrozen(state.tokens, state.tick, i, domain)

\* The host, between two ticks.
Freeze ==
  /\ round.pc = "idle"
  /\ granted < setup.tokens
  /\ \E kind \in TokenKinds :
       LET new == Created(granted, state.tick, kind)
       IN  /\ Running(kind.target) /\ ~Incompatible(state.tokens, new)
           /\ state' = [state EXCEPT !.tokens = AddToken(@, new)]
  /\ granted' = granted + 1
  /\ start' = state'
  /\ UNCHANGED <<setup, round, hits, shown>>

-----------------------------------------------------------------------------
(* Faults *)

Closed == shown' = Append(shown, start.truth)

\* The tick-start state with the action ended: the tick counts as done.
Contain(i) ==
  /\ state' = [start EXCEPT !.tick = @ + 1, !.clock[i].life = "FAULTED",
                            !.tokens = {t \in @ : t.target # i}]
  /\ start' = state'
  /\ round' = Idle
  /\ Closed
  /\ UNCHANGED <<setup, granted, hits>>

\* Several actions are to blame, and so none: tick raises, and the host may call it again.
Abort ==
  /\ state' = start
  /\ round' = Idle
  /\ UNCHANGED <<setup, start, granted, hits, shown>>

\* instances is the set of actions a failed effect came from.
Blame(instances) ==
  \/ \E i \in instances : instances = {i} /\ Contain(i)
  \/ Cardinality(instances) # 1 /\ Abort

-----------------------------------------------------------------------------
(* Stage 5: action progression *)

Accrual(i) == ProgressionAccrual(state.tokens, state.tick, i)

DeclarationOf(i) ==
  [minimum |-> Register[i].minimum, maximum |-> Register[i].maximum, overflow |-> setup.overflow]

\* The payload is evaluated where the effect is emitted.
Resolve(t, a, register) ==
  [t EXCEPT !.payload = CASE t.ref = "LITERAL" -> @
                          [] t.ref = "CYCLE" -> a.cycle
                          [] t.ref = "REGISTER" -> register]

\* The effects of the n-th quantum of i, which leaves it as a.
Emitted(i, n, a, register) ==
  [j \in DOMAIN CycleEffects[i] |->
     LET t == Resolve(CycleEffects[i][j], a, register)
     IN  [id |-> <<0, n, j, 0>>, type |-> t.type, class |-> t.class, source |-> Owner[i],
          target |-> Owner[i], instance |-> i, priority |-> t.priority,
          payload |-> t.payload, reducer |-> t.reducer, authoritative |-> t.authoritative]]

\* The register and the effects of i when its transition has fired in the n-th quantum, none
\* where an assignment raises.
ApplyTransition(x, i, n, a) ==
  UNION {{[register |-> m, effects |-> x.effects \o Emitted(i, n, a, left)] :
            m \in Assign(left, Assignments[i].entering, DeclarationOf(i))} :
           left \in Assign(x.register, Assignments[i].leaving, DeclarationOf(i))}

Transitions(i) ==
  LET a == state.clock[i]
      run == AfterQuanta(a, setup.life[i])
      fired == Firings(a, setup.life[i])
      after[n \in 0 .. QuantaOf(a)] ==
        IF n = 0 THEN {[register |-> state.register[i], effects |-> << >>]}
        ELSE IF n \notin fired THEN after[n - 1]
        ELSE UNION {ApplyTransition(x, i, n, run[n]) : x \in after[n - 1]}
  IN  after[IF Running(i) /\ Accrual(i) = "NONE" THEN QuantaOf(a) ELSE 0]

\* The effects of the instances, one instance after the other.
Joint(done) ==
  LET order == Sorted(Instances, Place)
      after[n \in 0 .. Len(order)] ==
        IF n = 0 THEN << >> ELSE after[n - 1] \o done[order[n]].effects
  IN  after[Len(order)]

Raising ==
  {i \in Instances :
     /\ Running(i)
     /\ \/ ProgressRaises(state.clock[i], setup.life[i], Accrual(i))
        \/ Transitions(i) = {}}

Advance ==
  /\ round.pc = "idle" /\ state.tick < MaxTick
  /\ Raising = {}
  /\ \E done \in {[i \in Instances |-> CHOOSE x \in Transitions(i) : TRUE]} :
       /\ round' = [round EXCEPT !.pc = "snapshot", !.typed = Joint(done)]
       /\ state' = [state EXCEPT
                      !.clock = [i \in Instances |->
                         IF Running(i) THEN Progress(@[i], setup.life[i], Accrual(i)) ELSE @[i]],
                      !.register = [i \in Instances |-> done[i].register]]
  /\ UNCHANGED <<setup, start, granted, hits, shown>>

AdvanceFault ==
  /\ round.pc = "idle" /\ state.tick < MaxTick
  /\ Raising # {}
  /\ Contain(Sums!Min(Raising))

-----------------------------------------------------------------------------
(* Stages 7 and 8: semantic snapshot and candidates *)

\* A predicate of kind OWNER reads a resource that the owner has yet to get.
Unresolved(i) ==
  /\ Running(i) /\ Owner[i] \notin DOMAIN state.bank
  /\ \E p \in Predicates[i] : p.kind = "OWNER"

\* The predicates of i that hold when those in known do; at depth 0 none of kind ALL does.
Truths(i, depth, known) ==
  {p.id : p \in {q \in Predicates[i] :
     CASE q.kind = "STEPS" -> q.from <= state.clock[i].step /\ state.clock[i].step < q.below
       [] q.kind = "OWNER" -> state.bank[Owner[i]] >= q.from
       [] q.kind = "ALL" -> depth > 0 /\ q.needs \subseteq known}}

\* The predicates of i that hold; one of kind ALL asks for others, and for none of those
\* that ask for it.
PredicateValues(i) ==
  LET OfDepth[n \in 0 .. Cardinality(Predicates[i])] == Truths(i, n, OfDepth[n - 1])
  IN  OfDepth[Cardinality(Predicates[i])]

Order(c) == <<Owner[c.instance], c.target, c.instance, c.fact, c.defense, c.partition, c.id>>

SemanticSnapshot ==
  /\ round.pc = "snapshot"
  /\ \A i \in Instances : ~Unresolved(i)
  /\ LET truth == [i \in Instances |-> IF Running(i) THEN PredicateValues(i) ELSE state.truth[i]]
     IN  /\ state' = [state EXCEPT !.truth = truth, !.serial =
                        [i \in Instances |-> [p \in PredicateIds |->
                           IF setup.track /\ p \in truth[i] \ state.truth[i]
                           THEN @[i][p] + 1 ELSE @[i][p]]]]
         /\ \E reported \in SUBSET {c \in Contacts : c.id \in setup.contacts} :
              /\ Cardinality(reported) <= setup.perTick
              /\ round' = [round EXCEPT !.pc = "resolve", !.queue = Sorted(reported, Order),
                             !.active = UNION {{<<i, f.id>> : f \in {g \in Facts[i] : g.when \in truth[i]}} :
                                                 i \in {j \in Instances : Running(j)}}]
  /\ UNCHANGED <<setup, start, granted, hits, shown>>

SnapshotFault ==
  /\ round.pc = "snapshot"
  /\ \E i \in Instances : Unresolved(i)
  /\ Contain(Sums!Min({i \in Instances : Unresolved(i)}))

-----------------------------------------------------------------------------
(* Stage 9: interaction resolution, a candidate at a time *)

FactOf(i, id) == CHOOSE f \in Facts[i] : f.id = id

HasBinding(c) == <<c.instance, c.fact>> \in round.active

Offends(c) == FactOf(c.instance, c.fact).direction = "OFFENSE"

LedgerContext(c) ==
  [tick |-> state.tick, instance |-> c.instance, fact |-> c.fact, target |-> c.target,
   cycle |-> state.clock[c.instance].cycle, serials |-> state.serial[c.instance],
   partition |-> c.partition]

Admissible(c) == Running(c.instance) /\ ~Frozen(c.instance, "INTERACTION_EMISSION")

\* The bound defenses of an entity that may meet c, which may ask for one.
DefensesOf(entity, c) ==
  {b \in round.active :
     /\ Owner[b[1]] = entity
     /\ FactOf(b[1], b[2]).direction = "DEFENSE"
     /\ ~Frozen(b[1], "INTERACTION_RECEPTION")
     /\ c.defense \in {0, b[2]}}

\* Of any entity, whether c reaches it or not.
Ambiguous(c) == \E entity \in Entities : Cardinality(DefensesOf(entity, c)) > 1

DefenseMap(c) ==
  [entity \in Entities |-> IF DefensesOf(entity, c) = {} THEN 0
                           ELSE (CHOOSE b \in DefensesOf(entity, c) : TRUE)[2]]

Decision(c) ==
  LET templates == FactOf(c.instance, c.fact).templates
  IN  ResolveCandidate(
        [candidate |-> [id |-> c.id, source |-> Owner[c.instance], instance |-> c.instance,
                        target |-> c.target,
                        templates |-> [j \in DOMAIN templates |->
                                         Resolve(templates[j], state.clock[c.instance],
                                                 state.register[c.instance])]],
         rules |-> Rulebook[setup.rules],
         defenses |-> DefenseMap(c)])

\* What the history keeps of a candidate that met its ledger.
Record(c, tried, receipt, routed) ==
  [tick |-> state.tick, instance |-> c.instance, fact |-> c.fact, target |-> c.target,
   partition |-> c.partition, local |-> state.clock[c.instance].local,
   tried |-> tried, receipt |-> receipt, routed |-> routed]

\* The candidate at the head of the queue satisfies P.
Candidate(P(_)) == round.pc = "resolve" /\ round.queue # << >> /\ P(Head(round.queue))

Resolved(r) == round' = [r EXCEPT !.queue = Tail(@)]

Skip ==
  /\ Candidate(LAMBDA c : ~Admissible(c))
  /\ Resolved(round)
  /\ UNCHANGED <<setup, state, start, granted, hits, shown>>

\* Without a binding, the effect of the contact itself, once for every target.
LegacyHit ==
  /\ Candidate(LAMBDA c : Admissible(c) /\ ~HasBinding(c) /\ c.effect # "NONE")
  /\ LET c == Head(round.queue)
         key == <<c.instance, c.target, c.fact>>
     IN  /\ Resolved(IF key \in state.legacyLedger THEN round
                     ELSE [round EXCEPT !.legacy = @ \union {c}])
         /\ state' = [state EXCEPT !.legacyLedger = @ \union {key}]
  /\ UNCHANGED <<setup, start, granted, hits, shown>>

Eligible(c) == IsEligible(state.ledger, setup.policy, LedgerContext(c))

Refuse ==
  /\ Candidate(LAMBDA c : Admissible(c) /\ HasBinding(c) /\ Offends(c) /\ ~Eligible(c))
  /\ Resolved([round EXCEPT !.fresh = Append(@, Record(Head(round.queue), FALSE, FALSE, "REJECTED"))])
  /\ UNCHANGED <<setup, state, start, granted, hits, shown>>

\* The candidate raises: no binding and no effect, a fact that is no offense, a choice
\* between defenses, or a rule.
Raises(c) ==
  IF ~HasBinding(c) THEN c.effect = "NONE"
  ELSE \/ ~Offends(c)
       \/ Eligible(c) /\ (Ambiguous(c) \/ Decision(c).halt = "FAULT")

Hit ==
  /\ Candidate(LAMBDA c : Admissible(c) /\ HasBinding(c) /\ ~Raises(c) /\ Eligible(c))
  /\ \E d \in {Decision(Head(round.queue))} : LET
         c == Head(round.queue)
         impact == \E j \in DOMAIN d.generated : d.generated[j].authoritative
         receipt == ReceiptRequired(setup.policy.receipt, d.status = "ACCEPTED", impact)
     IN  /\ Resolved([round EXCEPT !.typed = @ \o d.generated, !.decision = d,
                        !.fresh = Append(@, Record(c, TRUE, receipt, d.routed))])
         /\ state' = IF receipt
                     THEN [state EXCEPT !.ledger = WriteReceipt(@, setup.policy, LedgerContext(c))]
                     ELSE state
  /\ UNCHANGED <<setup, start, granted, hits, shown>>

CandidateFault ==
  /\ Candidate(LAMBDA c : Admissible(c) /\ Raises(c))
  /\ Contain(Head(round.queue).instance)

-----------------------------------------------------------------------------
(* Stages 10 to 12: commit, maintenance, the end of the tick *)

Held(bank, entity) == IF entity \in DOMAIN bank THEN bank[entity] ELSE 0

Unknown == {c \in round.legacy : c.effect \notin {"RESOURCE_DELTA", "RNG_DRAW"}}

\* RESOURCE_DELTA adds without a check.
LegacyBank ==
  LET deltas == {c \in round.legacy : c.effect = "RESOURCE_DELTA"}
      Amount(e) == SumOf([c \in deltas |-> c.amount], {c \in deltas : c.target = e})
  IN  [e \in DOMAIN state.bank \union {c.target : c \in deltas} |-> Held(state.bank, e) + Amount(e)]

\* A draw that is frozen is dropped.
Draws ==
  Cardinality({c \in round.legacy :
                 c.effect = "RNG_DRAW" /\ ~Frozen(c.instance, "RNG_CONSUMPTION")})

Authoritative == Selected(round.typed, LAMBDA e : e.authoritative)

SourcesOf(effects) == {effects[n].instance : n \in DOMAIN effects}

ReductionRaises == \E g \in Groups(Authoritative) : GroupRaises(Group(Authoritative, g))

\* The bank with a reduced effect, none where it does not apply: no registration, no
\* integer, an overflow.
Applied(bank, g) ==
  LET group == Group(Authoritative, g)
  IN  IF g[2] \notin DOMAIN Registry \/ ~IsInteger(group[1].reducer) THEN {}
      ELSE LET value == ReducePayloads(group[1].reducer, Payloads(group))
               sum == AddI64(MulI64(value, Registry[g[2]]), Held(bank, g[1]))
           IN  {[e \in DOMAIN bank \union {g[1]} |-> IF e = g[1] THEN n ELSE bank[e]] : n \in sum}

GroupKey(g) == g

Settle(x, g) ==
  IF x.failed # {} THEN x
  ELSE IF Applied(x.bank, g) = {} THEN [x EXCEPT !.failed = {g}]
  ELSE [x EXCEPT !.bank = CHOOSE b \in Applied(x.bank, g) : TRUE]

\* The typed effects applied in the order of target and type, up to the first that does not
\* apply.
Settled ==
  LET order == Sorted(Groups(Authoritative), GroupKey)
      after[n \in 0 .. Len(order)] ==
        IF n = 0 THEN {[bank |-> LegacyBank, failed |-> {}]}
        ELSE {Settle(x, order[n]) : x \in after[n - 1]}
  IN  CHOOSE x \in after[Len(order)] : TRUE

Committing == round.pc = "resolve" /\ round.queue = << >>

Commit ==
  /\ Committing
  /\ Unknown = {} /\ ~ReductionRaises
  /\ \E settled \in {Settled} :
       /\ settled.failed = {}
       /\ state' = [state EXCEPT !.tick = @ + 1, !.bank = settled.bank, !.draws = @ + Draws,
                                 !.tokens = ExpireTokens(@, state.tick)]
  /\ start' = state'
  /\ hits' = hits \o round.fresh
  /\ shown' = Append(shown, state.truth)
  /\ round' = Idle
  /\ UNCHANGED <<setup, granted>>

\* One of kind UNKNOWN is named after those that are known.
LegacyKey(c) == <<c.target, -c.priority, Owner[c.instance], c.instance, c.id>>

UnknownEffect ==
  /\ Committing
  /\ Unknown # {}
  /\ Contain(First(Unknown, LegacyKey).instance)

ReductionFault ==
  /\ Committing
  /\ Unknown = {} /\ ReductionRaises
  /\ Blame(SourcesOf(Authoritative))

CommitFault ==
  /\ Committing
  /\ Unknown = {} /\ ~ReductionRaises
  /\ \E g \in Settled.failed : Blame(SourcesOf(Group(Authoritative, g)))

Next ==
  \/ Freeze
  \/ Advance \/ AdvanceFault
  \/ SemanticSnapshot \/ SnapshotFault
  \/ Skip \/ LegacyHit \/ Refuse \/ Hit \/ CandidateFault
  \/ Commit \/ UnknownEffect \/ ReductionFault \/ CommitFault

Spec == Init /\ [][Next]_vars

-----------------------------------------------------------------------------
(* Properties *)

\* The state keeps its shape; no ledger entry comes from the future, and banks stay within
\* I64 as long as no unchecked RESOURCE_DELTA moves them (_commit_effects).
TypeOK ==
  /\ setup \in Setups
  /\ state.tick \in 0 .. MaxTick /\ start.tick = Len(shown) /\ start.tick = state.tick
  /\ \A i \in Instances :
       /\ state.clock[i] \in Clock
       /\ state.truth[i] \subseteq PredicateIds
       /\ \A p \in PredicateIds : state.serial[i][p] \in 0 .. MaxTick
  /\ \A k \in DOMAIN state.ledger : state.ledger[k] \in 0 .. state.tick
  /\ state.tokens \subseteq FreezeToken(Instances, FreezeDomains)
  /\ \A e \in DOMAIN state.bank :
       /\ e \in Entities
       /\ state.bank[e] \in I64
            \/ \E c \in Contacts : c.id \in setup.contacts /\ c.effect = "RESOURCE_DELTA"
  /\ state.draws \in 0 .. MaxTick * setup.perTick
  /\ round.pc \in {"idle", "snapshot", "resolve"}

History == hits \o round.fresh

\* The predicates of i that held in tick t.
Shown(i, t) == IF t = state.tick THEN state.truth[i] ELSE shown[t + 1][i]

\* Predicate p of i came true in a tick after `from`, up to `to`.
RoseAfter(i, p, from, to) ==
  \E t \in from + 1 .. to : p \in Shown(i, t) /\ p \notin Shown(i, t - 1)

\* By the policy, receipt g still stands when h comes: what the timeline, the predicates and
\* the ticks say, whatever the ledger keys are.
SameWindow(g, h) ==
  /\ g.instance = h.instance /\ g.fact = h.fact /\ g.target = h.target
  /\ CASE setup.policy.kind = "UNBOUNDED" -> FALSE
       [] setup.policy.kind = "ONCE_PER_ACTION_INSTANCE" -> TRUE
       [] setup.policy.kind = "ONCE_PER_CYCLE" ->
            setup.life[h.instance] = "LOOP" => g.local \div Steps = h.local \div Steps
       [] setup.policy.kind = "ONCE_PER_PREDICATE_ACTIVATION" ->
            setup.track => ~RoseAfter(h.instance, setup.policy.predicate, g.tick, h.tick)
       [] setup.policy.kind = "COOLDOWN_TICKS" -> h.tick - g.tick < setup.policy.cooldown
       [] setup.policy.kind = "ONCE_PER_CONTACT_PARTITION" -> g.partition = h.partition

\* A candidate is tried exactly when no receipted one before it, of an earlier tick or of the
\* same one, stands in its window: hit-stop, loops, re-entered predicates, refused candidates
\* in between and ticks that were undone neither repeat a hit nor lose one (ledgers.py,
\* _resolve_interactions).
LedgerExact ==
  \A n \in DOMAIN History :
    History[n].tried <=> ~\E m \in 1 .. n - 1 : History[m].receipt /\ SameWindow(History[m], History[n])

\* Rule k rejects, in an operation that nothing before it stops.
Rejects(k) ==
  LET ops == Rulebook[setup.rules][k].ops
  IN  \E o \in DOMAIN ops :
        /\ ops[o].op = "REJECT"
        /\ \A n \in 1 .. o - 1 : ops[n].op \notin {"STOP_STAGE", "STOP_PIPELINE", "REDIRECT"}

\* However rules redirect, reject and stop: no target is met twice, the redirects are
\* counted and bounded, effects go to targets in the order in which these were met, and what
\* comes out of a rejected candidate is REACTION only (resolve_candidate).
DecisionSound ==
  LET d == round.decision
      Meets(v, n) == d.visited[v] = d.generated[n].target
  IN  d # NoDecision =>
        /\ \A v, w \in DOMAIN d.visited : d.visited[v] = d.visited[w] => v = w
        /\ Len(d.visited) = d.redirects + 1 /\ d.redirects <= MaxRedirects
        /\ d.target = d.visited[Len(d.visited)]
        /\ d.halt \in {"NONE", "PIPELINE"}
        /\ \A n \in DOMAIN d.generated :
             /\ \E v \in DOMAIN d.visited : Meets(v, n)
             /\ \A m \in 1 .. n, v, w \in DOMAIN d.visited : Meets(v, m) /\ Meets(w, n) => v <= w
        /\ \A n \in DOMAIN d.generated, k \in DOMAIN d.trace :
             Rejects(d.trace[k]) /\ d.generated[n].class # "REACTION" =>
               \E j \in 1 .. k : d.generated[n].id[2] = d.trace[j]

\* e comes before f among the effects of a type on a target.
Precedes(e, f) ==
  LexLess(<<-e.priority, e.source, e.instance, e.id[1], e.id[2], e.id[3], e.id[4]>>,
          <<-f.priority, f.source, f.instance, f.id[1], f.id[2], f.id[3], f.id[4]>>)

Power(n, exponent) ==
  LET power[k \in 0 .. exponent] == IF k = 0 THEN 1 ELSE n * power[k - 1]
  IN  power[exponent]

\* What the effects of a type do to a resource, from what each of them contributes.
Contribution(effects) ==
  LET reducer == (CHOOSE e \in effects : TRUE).reducer
      After(e) == Cardinality({f \in effects : Precedes(e, f)})
  IN  CASE reducer = "SUM" -> SumOf([e \in effects |-> e.payload], effects)
        [] reducer = "MIN" -> Sums!Min({e.payload : e \in effects})
        [] reducer = "MAX" -> Sums!Max({e.payload : e \in effects})
        [] reducer \in {"FIRST", "EXCLUSIVE"} ->
             (CHOOSE e \in effects : After(e) = Cardinality(effects) - 1).payload
        [] reducer = "LAST" -> (CHOOSE e \in effects : After(e) = 0).payload
        [] reducer = "CUSTOM_DETERMINISTIC" ->
             SumOf([e \in effects |-> e.payload * Power(CustomFactor, After(e))], effects)

\* What the tick should leave entity with.
Expected(entity) ==
  LET effects == {e \in {round.typed[n] : n \in DOMAIN round.typed} :
                    e.authoritative /\ e.target = entity}
      deltas == {c \in round.legacy : c.effect = "RESOURCE_DELTA" /\ c.target = entity}
      types == {e.type : e \in effects}
  IN  Held(start.bank, entity)
        + SumOf([c \in deltas |-> c.amount], deltas)
        + SumOf([t \in types |-> Registry[t] * Contribution({e \in effects : e.type = t})], types)

\* A tick that ends either applies every effect it emitted, each resource as the reducers
\* say whatever the order of emission, or none at all: a fault at any stage keeps the banks,
\* the ledger, the draws, the serials and the registers of the tick-start state (_commit_effects,
\* _contain_fault).
CommitExact ==
  [][round.pc # "idle" /\ round'.pc = "idle" =>
       IF \/ state' = start
          \/ \E i \in Instances : state.clock[i].life # "FAULTED" /\ state'.clock[i].life = "FAULTED"
       THEN /\ state'.bank = start.bank /\ state'.ledger = start.ledger
            /\ state'.draws = start.draws /\ state'.serial = start.serial
            /\ state'.register = start.register
       ELSE \A entity \in Entities : Held(state'.bank, entity) = Expected(entity)]_vars

\* How often the transition of a has fired by now.
Fired(a, lifecycle) ==
  CASE lifecycle = "LOOP" -> a.cycle
    [] lifecycle = "HOLD" -> IF a.local < Steps THEN 0 ELSE a.local - Steps + 1
    [] lifecycle = "TERMINATE" -> 0

\* What assignments add, one after the other.
Added(amounts) ==
  LET sum[k \in 0 .. Len(amounts)] == IF k = 0 THEN 0 ELSE sum[k - 1] + amounts[k]
  IN  sum[Len(amounts)]

\* What the transition of i adds has one sign.
OneSign(i) ==
  LET amounts == {Assignments[i].leaving[k] : k \in DOMAIN Assignments[i].leaving}
                   \union {Assignments[i].entering[k] : k \in DOMAIN Assignments[i].entering}
  IN  (\A n \in amounts : n >= 0) \/ (\A n \in amounts : n <= 0)

\* A register is what the cycles gone through make of it, whatever order a transition's
\* assignments and effects take and however often the register met its limits: WRAP is the
\* sum modulo its span, SATURATE stays at the limit it has met, and under FAULT an action with
\* another sum has ended, its register untouched (_apply_assignments,
\* _normalize_register_value).
RegisterExact ==
  \A i \in Instances : Running(i) =>
    LET d == DeclarationOf(i)
        sum == Register[i].initial
                 + Fired(state.clock[i], setup.life[i])
                     * (Added(Assignments[i].leaving) + Added(Assignments[i].entering))
        n == state.register[i]
    IN  /\ n \in d.minimum .. d.maximum
        /\ d.overflow = "WRAP" => (n - sum) % (d.maximum - d.minimum + 1) = 0
        /\ d.overflow = "SATURATE" /\ OneSign(i) =>
             n = IF sum < d.minimum THEN d.minimum ELSE IF sum > d.maximum THEN d.maximum ELSE sum
        /\ d.overflow = "FAULT" => n = sum

\* With ON_ACCEPT, a candidate that is accepted after routing leaves a receipt: no later one
\* of its window is tried (spec/PCAM-v3.md, 22.4).
OncePerWindow ==
  setup.policy.receipt = "ON_ACCEPT" =>
    \A n \in DOMAIN History : \A m \in 1 .. n - 1 :
      /\ History[m].tried /\ History[m].routed = "ACCEPTED"
      /\ SameWindow(History[m], History[n])
      => ~History[n].tried
=============================================================================
