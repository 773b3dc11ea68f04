---------------------------- MODULE ActionClock -----------------------------
(***************************************************************************)
(* One action through the stages of its ticks that count time for it       *)
(* (reference/python/pcam_runtime/runtime.py): the delivery of events, the *)
(* capture of inputs, the arbitration of the transition that an input      *)
(* triggers against the starts of other actions, the progression, and the  *)
(* maintenance.  Freeze tokens stop any of them.                           *)
(*                                                                         *)
(* A fault is contained under FAULT_ACTION: the tick-start state comes     *)
(* back with the faulted action ended, and the tick counts as done.        *)
(***************************************************************************)
EXTENDS FreezeTokens, InputBuffer, EventQueue, Arbitration, Timeline, Sequences

CONSTANTS
  Self,        \* the action, as a freeze target
  Setups,      \* what a run may be configured with
  TokenKinds,  \* freezes the host may grant
  Inputs,      \* inputs the host may send: id, cmd, seq and the claims of the action it starts;
               \* the ids number them by command_id, then input_id, as the sort keys have it
  Commands,    \* commands an input may carry
  Capacity,    \* buffer_capacity
  Lifetime,    \* default_buffer_lifetime
  MaxActionsPerEntity,
  MaxTick      \* bound: the host stops calling tick

ASSUME ClockAssumption ==
  /\ {Capacity, Lifetime, MaxActionsPerEntity, MaxTick} \subseteq Nat
  /\ Lifetime > 0
  /\ Setups \subseteq [lifecycle : Lifecycles, rate : Nat, overflow : OverflowPolicies,
                       consume : ConsumePolicies, stamina : Nat, tokens : Nat, inputs : Nat,
                       events : Nat, faults : Nat]

\* What FreezeToken.created lets through: a positive duration and a domain at least.
ASSUME TokenAssumption ==
  TokenKinds \subseteq [target : {Self}, group : STRING, policy : StackPolicies,
                        accrual : {"HOLD", "ACCRUE"}, duration : Nat \ {0},
                        domains : (SUBSET STRING) \ {{}}]

\* The claims on a place among the running actions of the owner, and on its resource.
Place == <<"CAPACITY", NoOwner, "ACTIONS">>
Stamina == <<"RESOURCE", NoOwner, "stamina">>

\* What an input is, and what the runtime makes a start claim: a place among the actions beside
\* what its definition asks for.
ASSUME InputAssumption ==
  /\ IsFiniteSet(Inputs)
  /\ \A i \in Inputs :
       /\ i.id \in Nat /\ i.cmd \in Commands /\ i.seq \in Nat
       /\ \A j \in Inputs : i.id = j.id => i = j
       /\ IsFiniteSet(DOMAIN i.claims) /\ \A c \in DOMAIN i.claims : i.claims[c] \in Nat
       /\ i.claims # << >> => Place \in DOMAIN i.claims /\ i.claims[Place] > 0

VARIABLES
  setup,    \* lifecycle, rate, overflow and consume policy; the budgets of the host
  tick,     \* state.tick
  pc,       \* the stage that comes next
  action,   \* the progression of the action
  tokens,   \* state.freeze_tokens
  asked,    \* the freezes asked for so far
  events,   \* state.pending_events
  inbox,    \* the event_inbox of the action and of its entity
  buffer,   \* the input_buffer of the action
  stamina,  \* the resource of the owner that starts claim
  others,   \* running actions of the owner besides this one
  start,    \* of the tick-start state what a fault restores, and the inputs of the tick
  past      \* for each tick gone by, how the action was frozen in it

vars == <<setup, tick, pc, action, tokens, asked, events, inbox, buffer, stamina, others,
          start, past>>

Frozen(domain) == IsFrozen(tokens, tick, Self, domain)

Accrual == ProgressionAccrual(tokens, tick, Self)

Running == action.life = "RUNNING"

\* next_freeze_token_id: a request takes a number, refused or not.
granted == Len(asked)

NoStart == << >>

Init ==
  /\ setup \in Setups
  /\ tick = 0
  /\ pc = "begin"
  /\ action = Started(setup.rate)
  /\ tokens = {}
  /\ asked = << >>
  /\ events = {}
  /\ inbox = {}
  /\ buffer = {}
  /\ stamina = setup.stamina
  /\ others = 0
  /\ start = NoStart
  /\ past = << >>

-----------------------------------------------------------------------------
(* The host, between two ticks *)

\* A token for the action, created in the tick to come; one that does not fit raises.
Freeze ==
  /\ pc = "begin" /\ Running
  /\ granted < setup.tokens
  /\ \E kind \in TokenKinds :
       LET new == Created(granted, tick, kind)
       IN  /\ ~Incompatible(tokens, new)
           /\ tokens' = AddToken(tokens, new)
           /\ asked' = Append(asked, kind)
  /\ UNCHANGED <<setup, tick, pc, action, events, inbox, buffer, stamina, others, start, past>>

-----------------------------------------------------------------------------
(* The stages of a tick *)

\* How the action was frozen in this tick; "OFF" when no progression was due.
Remember(progression, deferring) ==
  past' = Append(past, [progression |-> progression, deferring |-> deferring,
                        buffer |-> Frozen("BUFFER_EXPIRY")])

\* The inputs that _eligible_inputs leaves, in canonical order.  The code compares the commands
\* before the identifiers: inputs are numbered in the order of their commands.
InputKey(i) == <<i.seq, i.id>>

Captures(inputs) ==
  IF ~Running \/ Frozen("INPUT_CAPTURE") THEN << >>
  ELSE [k \in DOMAIN Sorted(inputs, InputKey) |->
          Capture(Sorted(inputs, InputKey)[k], tick, Lifetime)]

\* The buffer after the first n captures.
Captured(entries) ==
  LET after[n \in 0 .. Len(entries)] ==
        IF n = 0 THEN buffer ELSE CaptureEntry(after[n - 1], entries[n], Capacity, setup.overflow)
  IN  after

CaptureFaults(inputs) ==
  LET entries == Captures(inputs)
  IN  \E n \in 1 .. Len(entries) :
        CaptureRaises(Captured(entries)[n - 1], entries[n], Capacity, setup.overflow)

Offered == {inputs \in SUBSET Inputs : Cardinality(inputs) <= setup.inputs}

\* Stages 1 and 2.
Begin ==
  /\ pc = "begin" /\ tick < MaxTick
  /\ ~DeliveryRaises(events, tick)
  /\ \E inputs \in Offered :
       LET frozen == IF Frozen("EVENT_DELIVERY") THEN {Self} ELSE {}
           entries == Captures(inputs)
       IN  /\ ~CaptureFaults(inputs)
           /\ inbox' = Delivered(events, tick, frozen)
           /\ events' = StillPending(events, tick, frozen)
           /\ buffer' = Captured(entries)[Len(entries)]
           /\ start' = [inputs |-> inputs, deferring |-> frozen # {}, events |-> events,
                         buffer |-> buffer, stamina |-> stamina, others |-> others]
  /\ pc' = "arbitrate"
  /\ UNCHANGED <<setup, tick, action, tokens, asked, stamina, others, past>>

\* The tick is undone; own says whether this action is the one that faults.
Contain(own) ==
  /\ tick' = tick + 1
  /\ pc' = "begin"
  /\ start' = NoStart
  /\ inbox' = {}
  /\ IF own THEN /\ action' = [action EXCEPT !.life = "FAULTED"]
                 /\ tokens' = {t \in tokens : t.target # Self}
     ELSE UNCHANGED <<action, tokens>>
  /\ Remember("OFF", FALSE)

\* The buffer is full and its overflow policy is FAULT.
BufferFault ==
  /\ pc = "begin" /\ tick < MaxTick
  /\ ~DeliveryRaises(events, tick)
  /\ \E inputs \in Offered : CaptureFaults(inputs)
  /\ Contain(TRUE)
  /\ UNCHANGED <<setup, asked, events, buffer, stamina, others>>

\* Another action faults, in whatever stage.
FaultElsewhere ==
  /\ pc = "begin" /\ tick < MaxTick
  /\ ~DeliveryRaises(events, tick)
  /\ setup.faults > 0
  /\ setup' = [setup EXCEPT !.faults = @ - 1]
  /\ Contain(FALSE)
  /\ UNCHANGED <<asked, events, buffer, stamina, others>>

\* The transitions of the action: "go" starts an action beside it, "swap" in its place.
Priority(cmd) == IF cmd = "swap" THEN 2 ELSE 1

OwnIntent(cmd, entry) ==
  [prio |-> Priority(cmd), owner |-> 1, src |-> 1, transition |-> Priority(cmd),
   seq |-> entry.seq,
   claims |-> [c \in {Place, Stamina} |-> 1],
   releases |-> [c \in IF cmd = "swap" THEN {Place} ELSE {} |-> 1]]

\* {} or the command of the transition that _evaluate_transitions selects.
Selected ==
  LET eligible == {cmd \in {"go", "swap"} : SelectEntry(buffer, cmd) # {}}
  IN  IF ~Running \/ Frozen("PRE_ADVANCE_TRANSITIONS") THEN {}
      ELSE {cmd \in eligible : \A other \in eligible : Priority(other) <= Priority(cmd)}

StartIntent(i) ==
  [prio |-> 0, owner |-> 1, src |-> 0, transition |-> i.id, seq |-> i.seq,
   claims |-> i.claims, releases |-> << >>]

ArbitrationState ==
  [bank |-> [k \in {<<1, "stamina">>} |-> stamina],
   cap  |-> [k \in {<<"CAPACITY", 1, "ACTIONS">>} |-> MaxActionsPerEntity],
   use  |-> [k \in {<<"CAPACITY", 1, "ACTIONS">>} |-> others + (IF Running THEN 1 ELSE 0)],
   keys |-> {}]

OwnIntents == UNION {{OwnIntent(cmd, e) : e \in SelectEntry(buffer, cmd)} : cmd \in Selected}

Intents == OwnIntents \union {StartIntent(i) : i \in {j \in start.inputs : j.claims # << >>}}

Consumed(accepted) ==
  IF Selected = {} THEN buffer
  ELSE UNION {ApplyConsumption(buffer, SelectEntry(buffer, cmd), setup.consume, accepted) :
                cmd \in Selected}

\* Stages 3 and 4: the action's own intent among the starts that inputs ask for.
ArbitrateStage ==
  /\ pc = "arbitrate"
  /\ LET verdict  == Arbitrate(Intents, ArbitrationState)
         accepted == OwnIntents \intersect verdict.accepted # {}
     IN  /\ stamina' = verdict.state.bank[<<1, "stamina">>]
         /\ others' = others + Cardinality(verdict.accepted)
         /\ buffer' = Consumed(accepted)
         /\ IF accepted /\ Selected = {"swap"}
            THEN /\ action' = [action EXCEPT !.life = "TERMINATED"]
                 /\ tokens' = {t \in tokens : t.target # Self}
            ELSE UNCHANGED <<action, tokens>>
  /\ pc' = "progress"
  /\ UNCHANGED <<setup, tick, asked, events, inbox, start, past>>

ProgressFaults == Running /\ ProgressRaises(action, setup.lifecycle, Accrual)

\* Stage 5.
ProgressStage ==
  /\ pc = "progress" /\ ~ProgressFaults
  /\ action' = IF Running THEN Progress(action, setup.lifecycle, Accrual) ELSE action
  /\ tokens' = IF action'.life = "TERMINATED" THEN {t \in tokens : t.target # Self} ELSE tokens
  /\ Remember(IF Running THEN Accrual ELSE "OFF", start.deferring)
  /\ pc' = "close"
  /\ UNCHANGED <<setup, tick, asked, events, inbox, buffer, stamina, others, start>>

\* Too many quanta or internal transitions: the tick is undone and the action ended.
ProgressFault ==
  /\ pc = "progress" /\ ProgressFaults
  /\ Contain(TRUE)
  /\ events' = start.events
  /\ buffer' = start.buffer
  /\ stamina' = start.stamina
  /\ others' = start.others
  /\ UNCHANGED <<setup, asked>>

Modes == {"TARGET_ACTION", "TARGET_ENTITY"}

\* Stages 10 to 12: events are created, then buffers and freezes lose their tick.
Close ==
  /\ pc = "close"
  /\ \E modes \in SUBSET Modes :
       /\ Cardinality(modes) <= setup.events
       /\ events' = events \union {NextTick(Self, mode, tick) : mode \in modes}
  /\ buffer' = ExpireEntries(buffer, Frozen("BUFFER_EXPIRY"))
  /\ tokens' = ExpireTokens(tokens, tick)
  /\ inbox' = {}
  /\ tick' = tick + 1
  /\ pc' = "begin"
  /\ start' = NoStart
  /\ UNCHANGED <<setup, action, asked, stamina, others, past>>

Next ==
  \/ Freeze \/ Begin \/ ArbitrateStage \/ ProgressStage \/ Close
  \/ BufferFault \/ ProgressFault \/ FaultElsewhere

Spec == Init /\ [][Next]_vars

-----------------------------------------------------------------------------
(* Properties *)

\* The state has its type (state.py, freezes.py, events.py, buffers.py).
TypeOK ==
  /\ setup \in [lifecycle : Lifecycles, rate : Nat, overflow : OverflowPolicies,
                consume : ConsumePolicies, stamina : Nat, tokens : Nat, inputs : Nat,
                events : Nat, faults : Nat]
  /\ tick \in 0 .. MaxTick /\ asked \in Seq(TokenKinds) /\ granted <= setup.tokens
  /\ pc \in {"begin", "arbitrate", "progress", "close"}
  /\ action \in Clock
  /\ \A t \in tokens : t \in FreezeToken({Self}, t.domains) /\ t.id < granted
  /\ events \union inbox \subseteq EventEnvelope({Self})
  /\ buffer \subseteq BufferEntry(Commands)
  /\ stamina \in Nat /\ others \in 0 .. MaxActionsPerEntity
  /\ Len(past) = IF pc = "close" THEN tick + 1 ELSE tick

\* The requests for freezes settle which ticks are frozen, though the runtime counts tokens
\* down: each gets an absolute span of its length beside, behind or in the place of its group,
\* or none, as its own stack policy says.  Only a contained tick makes a span longer.
Schedule == INSTANCE FreezeSchedule WITH
  Requests <- TokenKinds,
  now <- tick,
  lost <- Cardinality({k \in 1 .. tick : past[k].progression = "OFF"}),
  spans <- {[id |-> t.id, target |-> t.target, group |-> t.group, policy |-> t.policy,
             domains |-> t.domains, accrual |-> t.accrual, first |-> t.act,
             last |-> ExpirationExclusive(t, tick) - 1] : t \in tokens}

FreezeSpec == Schedule!Spec

\* SUM_DURATION serializes the durations of its group (spec 18.5): no tick is frozen by two of
\* its tokens.
GroupsSerialized ==
  \A t \in tokens : \A u \in GroupOf(tokens, t) :
    t.id # u.id /\ t.policy = "SUM_DURATION" /\ u.policy = "SUM_DURATION" =>
      t.act > tick \/ u.act > tick

\* An event is delivered in the first tick after its creation in which its delivery is not
\* frozen (spec 25.4): every tick it was put off was frozen, it is in no inbox early, late or
\* beside the queue, and a queue that misses its tick does so in a contained one.
EventsOnTime ==
  LET deferred(k) == past[k + 1].deferring
  IN  /\ \A e \in inbox :
           /\ e.due = tick /\ e \notin events
           /\ \A k \in e.origin + 1 .. tick - 1 : deferred(k) /\ e.mode \in ActionModes
      /\ \A e \in events :
           /\ \A k \in e.origin + 1 .. e.due - 1 :
                 e.mode \in ActionModes /\ IF k < Len(past) THEN deferred(k) ELSE start.deferring
           /\ e.due < tick => past[e.due + 1].progression = "OFF"

\* No quantum is lost or invented by freezes, rates and cycles: what the rate generated in the
\* ticks that HOLD did not stop is the steps made, the quanta deferred and the rest; and the
\* steps made are the cycles gone through and the place in the current one.
TimelineExact ==
  LET counted == {k \in DOMAIN past : past[k].progression \in {"NONE", "ACCRUE"}}
  IN  Running =>
        /\ action.rate = setup.rate =>
             setup.rate * Cardinality(counted)
               = RateScale * (action.local + action.deferred) + action.acc
        /\ setup.lifecycle = "LOOP" => action.cycle * Steps + action.step = action.local
        /\ action.step < Steps
        /\ setup.lifecycle = "HOLD" =>
             action.step = IF action.local < Steps THEN action.local ELSE Steps - 1

\* Ticks in which an entry has aged by the end of this one: a contained tick, which brings the
\* buffer of its start back, ages nothing.
Aged(e) ==
  Cardinality({k \in e.at + 1 .. Len(past) : ~past[k].buffer /\ past[k].progression # "OFF"})

\* A buffer entry goes only when it must: evicted while it is the oldest and the buffer full,
\* consumed while it is the oldest of its command and as its policy says, or expired after
\* exactly its lifetime of ticks that went through and did not freeze BUFFER_EXPIRY.
InputsExact ==
  [][\A e \in buffer :
       LET gone == \A f \in buffer' : f.id # e.id
       IN  CASE pc = "begin" /\ pc' = "arbitrate" ->
                  gone => /\ setup.overflow = "DROP_OLDEST"
                          /\ Cardinality(buffer') = Capacity
                          /\ \A f \in buffer' : LexLess(Age(e), Age(f))
             [] pc = "arbitrate" ->
                  gone => /\ {e.cmd} = Selected
                          /\ \A f \in buffer' : f.cmd = e.cmd => LexLess(Age(e), Age(f))
                          /\ \/ setup.consume = "ON_ATTEMPT"
                             \/ setup.consume = "ON_ACCEPT" /\ stamina' < stamina
             [] pc = "close" -> Running => (gone <=> Aged(e) >= Lifetime)
             [] OTHER -> ~gone \/ pc' = "begin"]_vars

\* What the intents of ns take of one resource or capacity.
Taken(ns, kind, name) ==
  LET net == [n \in ns |-> Total(n, n.claims, kind, 1, name) - Total(n, n.releases, kind, 1, name)]
  IN  SumOf(net, ns)

\* The stage accepts an intent exactly when the owner can pay for it beside the accepted ones
\* before it in canonical order: what it cannot pay stops nobody behind it, and nothing is
\* paid in part.
GreedyAdmission ==
  [][pc = "arbitrate" =>
       \E accepted \in SUBSET Intents :
         /\ \A n \in Intents :
              LET before == {m \in accepted : LexLess(Rank(m), Rank(n))}
                  payable == /\ Taken(before \union {n}, "RESOURCE", "stamina") <= stamina
                             /\ Taken(before \union {n}, "CAPACITY", "ACTIONS") + others
                                   + (IF Running THEN 1 ELSE 0) <= MaxActionsPerEntity
                             /\ KeysOf(n.claims) \intersect UNION {KeysOf(m.claims) : m \in before} = {}
              IN  n \in accepted <=> payable
         /\ stamina' = stamina - Taken(accepted, "RESOURCE", "stamina")
         /\ others' = others + Cardinality(accepted)]_vars
=============================================================================
