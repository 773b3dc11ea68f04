------------------------- MODULE ActionClock_proofs -------------------------
(***************************************************************************)
(* Proofs about ActionClock: the progression of an action, the delivery of *)
(* its events, its freezes, its input buffer and the arbitration.          *)
(***************************************************************************)
EXTENDS ActionClock, Stage_lemmas

-----------------------------------------------------------------------------
(* The ticks gone by *)

Accruals == {"NONE", "HOLD", "ACCRUE"}

PastTick == [progression : Accruals \union {"OFF"}, deferring : BOOLEAN, buffer : BOOLEAN]

SetupType ==
  [lifecycle : Lifecycles, rate : Nat, overflow : OverflowPolicies, consume : ConsumePolicies,
   stamina : Nat, tokens : Nat, inputs : Nat, events : Nat, faults : Nat]

\* The part of the type that the ticks gone by rest on.
TicksTyped ==
  /\ setup \in SetupType
  /\ tick \in 0 .. MaxTick
  /\ pc \in {"begin", "arbitrate", "progress", "close"}
  /\ pc # "begin" => start.deferring \in BOOLEAN /\ tick < MaxTick
  /\ past \in Seq(PastTick)
  /\ Len(past) = IF pc = "close" THEN tick + 1 ELSE tick

\* The ticks of s up to n in which the progression was one of K.
Ticks(s, n, K) == {k \in 1 .. n : s[k].progression \in K}

\* Counting the ticks of a kind, tick by tick.
LEMMA TicksCount ==
  ASSUME NEW s, NEW n \in Nat, NEW K
  PROVE  /\ IsFiniteSet(Ticks(s, n, K)) /\ Cardinality(Ticks(s, n, K)) \in Nat
         /\ Cardinality(Ticks(s, n + 1, K)) =
              Cardinality(Ticks(s, n, K)) + IF s[n + 1].progression \in K THEN 1 ELSE 0
<1>1. IsFiniteSet(Ticks(s, n, K))
  <2>1. IsFiniteSet(1 .. n)
    BY FS_Interval
  <2> QED
    BY <2>1, FS_Subset DEF Ticks
<1>2. Cardinality(Ticks(s, n, K)) \in Nat
  BY <1>1, FS_CardinalityType
<1>3. CASE s[n + 1].progression \in K
  <2>1. Ticks(s, n + 1, K) = Ticks(s, n, K) \union {n + 1} /\ n + 1 \notin Ticks(s, n, K)
    BY <1>3 DEF Ticks
  <2> QED
    BY <1>1, <1>2, <1>3, <2>1, FS_AddElement
<1>4. CASE s[n + 1].progression \notin K
  <2>1. Ticks(s, n + 1, K) = Ticks(s, n, K)
    BY <1>4 DEF Ticks
  <2> QED
    BY <1>1, <1>2, <1>4, <2>1
<1> QED
  BY <1>1, <1>2, <1>3, <1>4

\* The accrual policy in force is one of the three.
LEMMA AccrualType == Accrual \in Accruals
BY DEF Accrual, ProgressionAccrual, Accruals

\* What Remember adds is a tick gone by, after those that are there.
LEMMA Remembered ==
  ASSUME TicksTyped, NEW progression \in Accruals \union {"OFF"}, NEW deferring \in BOOLEAN,
         Remember(progression, deferring)
  PROVE  /\ past' \in Seq(PastTick) /\ Len(past') = Len(past) + 1
         /\ \A k \in 1 .. Len(past) : past'[k] = past[k]
         /\ past'[Len(past) + 1].progression = progression
         /\ past'[Len(past) + 1].deferring = deferring
<1> DEFINE frozen == Frozen("BUFFER_EXPIRY")
           p == [progression |-> progression, deferring |-> deferring, buffer |-> frozen]
<1>1. frozen \in BOOLEAN
  BY DEF Frozen, IsFrozen
<1>2. past \in Seq(PastTick) /\ past' = Append(past, p)
  BY DEF TicksTyped, Remember
<1> HIDE DEF frozen
<1>3. p \in PastTick
  BY <1>1 DEF PastTick
<1>4. p.progression = progression /\ p.deferring = deferring
  OBVIOUS
<1> HIDE DEF p
<1> QED
  BY <1>2, <1>3, <1>4

\* How the ticks gone by change: a stage leaves them alone or adds the present one, and a tick
\* that is undone is added as one without progression.
LEMMA TicksSteps ==
  ASSUME TicksTyped, [Next]_vars
  PROVE  \/ UNCHANGED <<tick, past>>
         \/ ProgressStage
         \/ pc = "close" /\ pc' = "begin" /\ Close /\ past' = past /\ tick' = tick + 1
         \/ /\ pc \in {"begin", "progress"} /\ pc' = "begin" /\ tick' = tick + 1
            /\ Remember("OFF", FALSE)
BY DEF Next, vars, Freeze, Begin, ArbitrateStage, Close, BufferFault, ProgressFault,
       FaultElsewhere, Contain

\* A run starts with no tick gone by.
LEMMA TicksTypedInit == Init => TicksTyped
<1> SUFFICES ASSUME Init PROVE TicksTyped
  OBVIOUS
<1>1. MaxTick \in Nat /\ Setups \subseteq SetupType
  BY ClockAssumption DEF SetupType
<1>2. << >> \in Seq(PastTick) /\ Len(<< >>) = 0
  OBVIOUS
<1> QED
  BY <1>1, <1>2 DEF Init, TicksTyped

\* Every stage that adds a tick to those gone by adds it once.
LEMMA TicksTypedNext == TicksTyped /\ [Next]_vars => TicksTyped'
<1> SUFFICES ASSUME TicksTyped, [Next]_vars PROVE TicksTyped'
  OBVIOUS
<1>1. MaxTick \in Nat /\ tick \in 0 .. MaxTick /\ setup \in SetupType
  BY ClockAssumption DEF TicksTyped
<1>2. setup' \in SetupType
  <2>1. CASE FaultElsewhere
    <3> DEFINE n == setup.faults - 1
    <3>1. n \in Nat /\ setup' = [setup EXCEPT !.faults = n]
      BY <1>1, <2>1 DEF FaultElsewhere, SetupType
    <3> HIDE DEF n
    <3> QED
      BY <1>1, <3>1 DEF SetupType
  <2>2. CASE setup' = setup
    BY <1>1, <2>2
  <2> QED
    BY <2>1, <2>2 DEF Next, vars, Freeze, Begin, ArbitrateStage, ProgressStage, Close, BufferFault,
                      ProgressFault
<1>3. /\ pc' \in {"begin", "arbitrate", "progress", "close"}
      /\ pc' # "begin" => start'.deferring \in BOOLEAN /\ tick' < MaxTick /\ tick' = tick
      /\ pc' = "close" => pc = "close" \/ ProgressStage
      /\ pc' # "close" => pc # "close" \/ Close
  <2>1. CASE Begin
    <3>1. start'.deferring \in BOOLEAN /\ tick' = tick /\ pc' = "arbitrate" /\ tick < MaxTick
      BY <2>1 DEF Begin
    <3> QED
      BY <2>1, <3>1 DEF Begin
  <2>2. CASE Freeze \/ ArbitrateStage \/ ProgressStage \/ UNCHANGED vars
    BY <2>2 DEF TicksTyped, Freeze, ArbitrateStage, ProgressStage, vars
  <2>3. CASE Close \/ BufferFault \/ ProgressFault \/ FaultElsewhere
    BY <2>3 DEF Close, BufferFault, ProgressFault, FaultElsewhere, Contain
  <2> QED
    BY <2>1, <2>2, <2>3 DEF Next
<1>4. tick' \in 0 .. MaxTick
  <2>1. pc # "begin" => tick < MaxTick
    BY DEF TicksTyped
  <2>2. tick' = tick \/ (tick' = tick + 1 /\ tick < MaxTick)
    BY <2>1 DEF Next, vars, Freeze, Begin, ArbitrateStage, ProgressStage, Close, BufferFault,
                ProgressFault, FaultElsewhere, Contain
  <2> QED
    BY <1>1, <2>2
<1>5. past' \in Seq(PastTick) /\ Len(past') = IF pc' = "close" THEN tick' + 1 ELSE tick'
  <2>1. CASE ProgressStage
    <3>1. /\ \E progression \in Accruals \union {"OFF"} : Remember(progression, start.deferring)
          /\ start.deferring \in BOOLEAN /\ pc = "progress" /\ pc' = "close" /\ tick' = tick
      BY <2>1, AccrualType DEF ProgressStage, TicksTyped, Accruals
    <3>2. past' \in Seq(PastTick) /\ Len(past') = Len(past) + 1
      BY <3>1, Remembered
    <3> QED
      BY <3>1, <3>2 DEF TicksTyped
  <2>2. CASE pc \in {"begin", "progress"} /\ pc' = "begin" /\ tick' = tick + 1 /\ Remember("OFF", FALSE)
    <3>1. past' \in Seq(PastTick) /\ Len(past') = Len(past) + 1
      BY <2>2, Remembered
    <3> QED
      BY <2>2, <3>1 DEF TicksTyped
  <2>3. CASE pc = "close" /\ pc' = "begin" /\ past' = past /\ tick' = tick + 1
    BY <2>3 DEF TicksTyped
  <2>4. CASE UNCHANGED <<tick, past>> /\ ~ProgressStage
    <3>1. ~Close
      BY <1>1, <2>4 DEF Close
    <3> QED
      BY <1>3, <2>4, <3>1 DEF TicksTyped
  <2> QED
    BY <2>1, <2>2, <2>3, <2>4, TicksSteps
<1> QED
  BY <1>2, <1>3, <1>4, <1>5 DEF TicksTyped
-----------------------------------------------------------------------------
(* The progression *)

\* The ticks whose progression HOLD did not stop.
Counted == Ticks(past, Len(past), {"NONE", "ACCRUE"})

\* TimelineExact, the type of the action and where HOLD may have taken its rate from it.
TimelineInv ==
  /\ action \in Clock
  /\ action.rate \in {setup.rate, 0}
  /\ Running => /\ InPlace(action, setup.lifecycle)
                /\ action.rate = setup.rate =>
                     setup.rate * Cardinality(Counted) = Accrued(action)

\* An action starts with nothing generated and nothing done.
LEMMA TimelineInvInit == Init => TimelineInv
<1> SUFFICES ASSUME Init PROVE TimelineInv
  OBVIOUS
<1>1. /\ setup.rate \in Nat /\ action = Started(setup.rate) /\ past = << >>
      /\ Steps \in Nat /\ Steps > 0 /\ RateScale \in Nat /\ RateScale > 0
  BY ClockAssumption, TimelineAssumption DEF Init
<1>2. /\ action \in Clock /\ action.rate = setup.rate /\ action.step = 0 /\ action.local = 0
      /\ action.cycle = 0 /\ action.acc = 0 /\ action.deferred = 0
  BY <1>1 DEF Started, Clock
<1>3. InPlace(action, setup.lifecycle)
  <2>1. 0 * Steps = 0
    BY <1>1
  <2> QED
    BY <1>1, <1>2, <2>1 DEF InPlace
<1>4. Cardinality(Counted) = 0
  <2>1. Counted = {}
    BY <1>1 DEF Counted, Ticks
  <2> QED
    BY <2>1, FS_EmptySet
<1>5. Accrued(action) = 0 /\ setup.rate * 0 = 0
  BY <1>1, <1>2 DEF Accrued
<1> QED
  BY <1>2, <1>3, <1>4, <1>5 DEF TimelineInv

\* A tick gone by that is not counted, or none, leaves the count alone.
LEMMA CountedSame ==
  ASSUME TicksTyped,
         \/ past' = past
         \/ /\ Len(past') = Len(past) + 1
            /\ \A k \in 1 .. Len(past) : past'[k] = past[k]
            /\ past'[Len(past) + 1].progression \notin {"NONE", "ACCRUE"}
  PROVE  Counted' = Counted
<1>1. Len(past) \in Nat
  BY DEF TicksTyped
<1>2. CASE past' = past
  BY <1>2 DEF Counted, Ticks
<1>3. CASE /\ Len(past') = Len(past) + 1
           /\ \A k \in 1 .. Len(past) : past'[k] = past[k]
           /\ past'[Len(past) + 1].progression \notin {"NONE", "ACCRUE"}
  <2>1. Counted' = {k \in 1 .. Len(past) + 1 : past'[k].progression \in {"NONE", "ACCRUE"}}
    BY <1>3 DEF Counted, Ticks
  <2>2. \A k \in 1 .. Len(past) + 1 : k \in 1 .. Len(past) \/ k = Len(past) + 1
    BY <1>1
  <2> QED
    BY <1>1, <1>3, <2>1, <2>2 DEF Counted, Ticks
<1> QED
  BY <1>2, <1>3

\* A tick gone by that is counted adds one.
LEMMA CountedNext ==
  ASSUME TicksTyped, Len(past') = Len(past) + 1,
         \A k \in 1 .. Len(past) : past'[k] = past[k],
         past'[Len(past) + 1].progression \in {"NONE", "ACCRUE"}
  PROVE  Cardinality(Counted') = Cardinality(Counted) + 1 /\ Cardinality(Counted) \in Nat
<1>1. Len(past) \in Nat
  BY DEF TicksTyped
<1>2. Counted = Ticks(past', Len(past), {"NONE", "ACCRUE"})
  BY DEF Counted, Ticks
<1>3. Counted' = Ticks(past', Len(past) + 1, {"NONE", "ACCRUE"})
  BY DEF Counted, Ticks
<1> QED
  BY <1>1, <1>2, <1>3, TicksCount

\* The balance of the quanta survives every stage: the progression adds what the rate
\* generates, and a contained tick or an ended action changes nothing that is counted.
LEMMA TimelineInvNext == TicksTyped /\ TimelineInv /\ [Next]_vars => TimelineInv'
<1> SUFFICES ASSUME TicksTyped, TimelineInv, [Next]_vars PROVE TimelineInv'
  OBVIOUS
<1>1. /\ action \in Clock /\ setup.rate \in Nat /\ setup.lifecycle \in Lifecycles
      /\ action.rate \in {setup.rate, 0} /\ Len(past) \in Nat
  BY DEF TimelineInv, TicksTyped, SetupType
<1>2. setup'.rate = setup.rate /\ setup'.lifecycle = setup.lifecycle
  <2>1. CASE FaultElsewhere
    <3>1. setup \in SetupType /\ setup' = [setup EXCEPT !.faults = @ - 1]
      BY <2>1 DEF FaultElsewhere, TicksTyped
    <3> QED
      BY <3>1 DEF SetupType
  <2>2. CASE setup' = setup
    BY <2>2
  <2> QED
    BY <2>1, <2>2 DEF Next, vars, Freeze, Begin, ArbitrateStage, ProgressStage, Close, BufferFault,
                      ProgressFault
<1>3. CASE ~ProgressStage
  <2>1. \/ action' = action
        \/ \E life \in {"TERMINATED", "FAULTED"} : action' = [action EXCEPT !.life = life]
    BY <1>3 DEF Next, vars, Freeze, Begin, ArbitrateStage, Close, BufferFault, ProgressFault,
               FaultElsewhere, Contain
  <2>2. Counted' = Counted
    <3>1. \/ past' = past
          \/ Remember("OFF", FALSE)
      BY <1>3, TicksSteps
    <3>2. ASSUME Remember("OFF", FALSE)
          PROVE  /\ Len(past') = Len(past) + 1
                 /\ \A k \in 1 .. Len(past) : past'[k] = past[k]
                 /\ past'[Len(past) + 1].progression = "OFF"
      BY <3>2, Remembered
    <3> QED
      BY <3>1, <3>2, CountedSame
  <2>3. CASE action' = action
    <3>1. Accrued(action)' = Accrued(action) /\ (InPlace(action, setup.lifecycle) => InPlace(action, setup.lifecycle)')
      BY <1>2, <2>3 DEF Accrued, InPlace
    <3> QED
      BY <1>2, <2>2, <2>3, <3>1 DEF TimelineInv, Running
  <2>4. ASSUME NEW life \in {"TERMINATED", "FAULTED"}, action' = [action EXCEPT !.life = life]
        PROVE  TimelineInv'
    <3>1. action' \in Clock /\ action'.life # "RUNNING" /\ action'.rate = action.rate
      BY <1>1, <2>4 DEF Clock
    <3> QED
      BY <1>1, <1>2, <3>1 DEF TimelineInv, Running
  <2> QED
    BY <2>1, <2>3, <2>4
<1>4. CASE ProgressStage
  <2>1. /\ action' = IF Running THEN Progress(action, setup.lifecycle, Accrual) ELSE action
        /\ Remember(IF Running THEN Accrual ELSE "OFF", start.deferring)
        /\ start.deferring \in BOOLEAN
    BY <1>4 DEF ProgressStage, TicksTyped
  <2>2. CASE ~Running
    BY <1>1, <1>2, <2>1, <2>2 DEF TimelineInv, Running
  <2>3. CASE Running
    <3> DEFINE b == Progress(action, setup.lifecycle, Accrual)
    <3>1. Accrual \in Accruals /\ action.life = "RUNNING" /\ InPlace(action, setup.lifecycle)
          /\ action' = b
      BY <2>1, <2>3, AccrualType DEF TimelineInv, Running
    <3>2. /\ b \in Clock
          /\ b.rate = action.rate \/ (setup.lifecycle = "HOLD" /\ b.rate = 0)
          /\ b.life = "RUNNING" =>
               /\ InPlace(b, setup.lifecycle)
               /\ Accrued(b) = IF Accrual = "HOLD" THEN Accrued(action)
                               ELSE Accrued(action) + action.rate
      BY <1>1, <3>1, Progressing DEF Accruals
    <3>3. /\ Len(past') = Len(past) + 1
          /\ \A k \in 1 .. Len(past) : past'[k] = past[k]
          /\ past'[Len(past) + 1].progression = Accrual
      BY <2>1, <2>3, <3>1, Remembered
    <3> HIDE DEF b
    <3>4. b.rate \in {setup.rate, 0} /\ (b.rate = setup.rate => action.rate = setup.rate)
      BY <1>1, <3>2
    <3>5. ASSUME b.life = "RUNNING", b.rate = setup.rate
          PROVE  setup.rate * Cardinality(Counted') = Accrued(b)
      <4>1. setup.rate * Cardinality(Counted) = Accrued(action) /\ action.rate = setup.rate
        BY <2>3, <3>4, <3>5 DEF TimelineInv
      <4>2. CASE Accrual = "HOLD"
        <5>1. Counted' = Counted
          BY <3>3, <4>2, CountedSame
        <5> QED
          BY <3>2, <3>5, <4>1, <4>2, <5>1
      <4>3. CASE Accrual \in {"NONE", "ACCRUE"}
        <5>1. Cardinality(Counted') = Cardinality(Counted) + 1 /\ Cardinality(Counted) \in Nat
          BY <3>3, <4>3, CountedNext
        <5>2. \A r, n \in Nat : r * (n + 1) = r * n + r
          BY Z3
        <5>3. setup.rate * Cardinality(Counted') = setup.rate * Cardinality(Counted) + setup.rate
          BY <1>1, <5>1, <5>2
        <5> QED
          BY <3>2, <3>5, <4>1, <4>3, <5>3
      <4> QED
        BY <3>1, <4>2, <4>3 DEF Accruals
    <3>6. Accrued(action)' = Accrued(b) /\ InPlace(action, setup.lifecycle)' = InPlace(b, setup.lifecycle)
      BY <1>2, <3>1 DEF Accrued, InPlace
    <3> QED
      BY <1>2, <3>1, <3>2, <3>4, <3>5, <3>6 DEF TimelineInv, Running
  <2> QED
    BY <2>2, <2>3
<1> QED
  BY <1>3, <1>4

\* The balance, and the place that steps lead to, are what TimelineExact asks for.
LEMMA TimelineInvImplies == TicksTyped /\ TimelineInv => TimelineExact
<1> SUFFICES ASSUME TicksTyped, TimelineInv, Running PROVE TimelineExact
  BY DEF TimelineExact
<1> DEFINE counted == {k \in DOMAIN past : past[k].progression \in {"NONE", "ACCRUE"}}
<1>1. counted = Counted
  BY DEF Counted, Ticks, TicksTyped
<1>2. InPlace(action, setup.lifecycle)
      /\ (action.rate = setup.rate => setup.rate * Cardinality(Counted) = Accrued(action))
  BY DEF TimelineInv
<1> HIDE DEF counted
<1>3. action.rate = setup.rate =>
        setup.rate * Cardinality(counted)
          = RateScale * (action.local + action.deferred) + action.acc
  BY <1>1, <1>2 DEF Accrued
<1> QED
  BY <1>2, <1>3 DEF TimelineExact, InPlace, counted

\* No quantum is lost or invented: for every number of steps, every rate and scale, every
\* lifecycle and every sequence of freezes, deferred quanta, contained ticks and replaced
\* actions, the steps a running action has made, the quanta it has deferred and the rest in
\* its accumulator are what its rate generated in the ticks that HOLD did not stop, and its
\* place and its cycle follow from its steps (_progress_action of runtime.py).
THEOREM TimelineExactHolds == Spec => []TimelineExact
<1>1. Init => TicksTyped /\ TimelineInv
  BY TicksTypedInit, TimelineInvInit
<1>2. TicksTyped /\ TimelineInv /\ [Next]_vars => (TicksTyped /\ TimelineInv)'
  BY TicksTypedNext, TimelineInvNext
<1> QED
  BY <1>1, <1>2, TimelineInvImplies, PTL DEF Spec

-----------------------------------------------------------------------------
(* The events *)

\* Every tick that put off the delivery of e was frozen, up to the n-th.
PutOff(e, n) == \A k \in e.origin + 1 .. n : past[k + 1].deferring /\ e.mode \in ActionModes

\* Between two ticks, events are due in the coming one, unless a contained tick was theirs;
\* within a tick, the events that are left are due in the next one, after the present tick
\* put them off if they are older, and those of the tick-start state are due now.
EventsInv ==
  /\ \A e \in events \union inbox : e \in EventEnvelope({Self})
  /\ pc = "begin" =>
       /\ inbox = {}
       /\ \A e \in events :
            /\ e.due <= tick /\ PutOff(e, e.due - 1)
            /\ e.due < tick => past[e.due + 1].progression = "OFF"
  /\ pc # "begin" =>
       /\ \A e \in events :
            /\ e.due = tick + 1 /\ PutOff(e, tick - 1)
            /\ e.origin < tick => start.deferring /\ e.mode \in ActionModes
       /\ pc = "close" => past[tick + 1].deferring = start.deferring
       /\ \A e \in inbox : e.due = tick /\ PutOff(e, tick - 1)
       /\ \A e \in start.events :
            e \in EventEnvelope({Self}) /\ e.due = tick /\ PutOff(e, tick - 1)

\* The ticks of an event.
LEMMA EnvelopeTicks ==
  ASSUME NEW e \in EventEnvelope({Self})
  PROVE  e.due \in Nat /\ e.origin \in Nat
BY DEF EventEnvelope

\* What was put off stays so as ticks go by.
LEMMA PutOffStays ==
  ASSUME TicksTyped, \A k \in 1 .. Len(past) : past'[k] = past[k],
         NEW e, e.origin \in Nat, NEW n \in Int, n < Len(past), PutOff(e, n)
  PROVE  \A k \in e.origin + 1 .. n : past'[k + 1].deferring /\ e.mode \in ActionModes
<1>1. Len(past) \in Nat
  BY DEF TicksTyped
<1>2. ASSUME NEW k \in e.origin + 1 .. n PROVE past'[k + 1] = past[k + 1]
  BY <1>1
<1> QED
  BY <1>2 DEF PutOff

\* There are no events at the start.
LEMMA EventsInvInit == Init => EventsInv
BY DEF Init, EventsInv

\* A step that touches neither the events nor the tick.
LEMMA EventsAlone ==
  ASSUME EventsInv, UNCHANGED <<tick, events, inbox, past>>,
         \/ pc' = pc /\ start' = start
         \/ pc = "arbitrate" /\ pc' = "progress" /\ start' = start
  PROVE  EventsInv'
BY DEF EventsInv, PutOff

\* The delivery hands out what is due, and puts all of it off or none.
LEMMA BeginEvents ==
  ASSUME TicksTyped, EventsInv, Begin
  PROVE  EventsInv'
<1>1. pc = "begin" /\ pc' = "arbitrate" /\ tick' = tick /\ past' = past /\ tick \in Nat
  BY DEF Begin, TicksTyped
<1>2. PICK frozen \in {{}, {Self}} :
        /\ inbox' = Delivered(events, tick, frozen)
        /\ events' = StillPending(events, tick, frozen)
        /\ start'.events = events /\ start'.deferring = (frozen # {})
  <2>1. \E inputs \in Offered :
          /\ inbox' = Delivered(events, tick, IF Frozen("EVENT_DELIVERY") THEN {Self} ELSE {})
          /\ events' = StillPending(events, tick, IF Frozen("EVENT_DELIVERY") THEN {Self} ELSE {})
          /\ start'.events = events
          /\ start'.deferring = ((IF Frozen("EVENT_DELIVERY") THEN {Self} ELSE {}) # {})
    BY DEF Begin
  <2> QED
    BY <2>1
<1>3. ASSUME NEW e \in events
      PROVE  /\ e \in EventEnvelope({Self}) /\ e.due = tick /\ e.origin \in Nat
             /\ PutOff(e, tick - 1)
             /\ (\A k \in e.origin + 1 .. tick - 1 : past'[k + 1].deferring /\ e.mode \in ActionModes)
  <2>1. e.due <= tick /\ ~(e.due < tick) /\ e.due \in Nat /\ PutOff(e, e.due - 1) /\ e.origin \in Nat
        /\ e \in EventEnvelope({Self})
    BY <1>1, EnvelopeTicks DEF EventsInv, Begin, DeliveryRaises
  <2>2. e.due = tick
    BY <1>1, <2>1
  <2> QED
    BY <1>1, <2>1, <2>2 DEF PutOff
<1>4. ASSUME NEW e \in inbox'
      PROVE  e \in EventEnvelope({Self}) /\ e.due = tick /\ PutOff(e, tick - 1)'
  <2>1. e \in events
    BY <1>2 DEF Delivered
  <2> QED
    BY <1>1, <1>3, <2>1 DEF PutOff
<1>5. ASSUME NEW e \in events'
      PROVE  /\ e \in EventEnvelope({Self}) /\ e.due = tick + 1 /\ PutOff(e, tick - 1)'
             /\ start'.deferring /\ e.mode \in ActionModes
  <2>1. PICK d \in events : /\ d \in Deferred(events, tick, frozen)
                            /\ e = [d EXCEPT !.due = tick + 1]
    <3>1. events' = {d \in events : d.due > tick}
                      \union {[d EXCEPT !.due = tick + 1] : d \in Deferred(events, tick, frozen)}
      BY <1>2 DEF StillPending
    <3>2. \A d \in events : ~(d.due > tick)
      BY <1>1, <1>3
    <3>3. e \in {[d EXCEPT !.due = tick + 1] : d \in Deferred(events, tick, frozen)}
      BY <3>1, <3>2
    <3> QED
      BY <3>3 DEF Deferred
  <2>2. d.mode \in ActionModes /\ frozen # {}
    BY <2>1 DEF Deferred
  <2>3. /\ e \in EventEnvelope({Self}) /\ e.due = tick + 1 /\ e.origin = d.origin
        /\ e.mode = d.mode
    <3> DEFINE n == tick + 1
    <3>1. d \in EventEnvelope({Self})
      BY <1>3
    <3>2. n \in Nat /\ e = [d EXCEPT !.due = n]
      BY <1>1, <2>1
    <3> HIDE DEF n
    <3>3. e \in EventEnvelope({Self}) /\ e.due = n /\ e.origin = d.origin /\ e.mode = d.mode
      BY <3>1, <3>2 DEF EventEnvelope
    <3> QED
      BY <3>3 DEF n
  <2> QED
    BY <1>1, <1>2, <1>3, <2>2, <2>3 DEF PutOff
<1>6. ASSUME NEW e \in start'.events
      PROVE  e \in EventEnvelope({Self}) /\ e.due = tick /\ PutOff(e, tick - 1)'
  BY <1>1, <1>2, <1>3, <1>6 DEF PutOff
<1> QED
  BY <1>1, <1>4, <1>5, <1>6 DEF EventsInv

\* The tick goes by as one that put the queue off when the delivery did.
LEMMA ProgressEvents ==
  ASSUME TicksTyped, EventsInv, ProgressStage
  PROVE  EventsInv'
<1>1. /\ pc = "progress" /\ pc' = "close" /\ tick' = tick /\ tick \in Nat /\ Len(past) = tick
      /\ UNCHANGED <<events, inbox, start>>
  BY DEF ProgressStage, TicksTyped
<1>2. /\ \A k \in 1 .. Len(past) : past'[k] = past[k]
      /\ past'[Len(past) + 1].deferring = start.deferring
  <2>1. PICK progression \in Accruals \union {"OFF"} : Remember(progression, start.deferring)
    BY AccrualType DEF ProgressStage
  <2>2. start.deferring \in BOOLEAN
    BY <1>1 DEF TicksTyped
  <2> QED
    BY <2>1, <2>2, Remembered
<1>3. ASSUME NEW e, e.origin \in Nat, PutOff(e, tick - 1) PROVE PutOff(e, tick - 1)'
  BY <1>1, <1>2, <1>3, PutOffStays DEF PutOff
<1>4. ASSUME NEW e \in events
      PROVE  /\ e \in EventEnvelope({Self}) /\ e.due = tick + 1 /\ PutOff(e, tick - 1)'
             /\ e.origin < tick => start.deferring /\ e.mode \in ActionModes
  BY <1>1, <1>3, EnvelopeTicks DEF EventsInv
<1>5. ASSUME NEW e \in inbox
      PROVE  e \in EventEnvelope({Self}) /\ e.due = tick /\ PutOff(e, tick - 1)'
  BY <1>1, <1>3, EnvelopeTicks DEF EventsInv
<1>6. ASSUME NEW e \in start.events
      PROVE  e \in EventEnvelope({Self}) /\ e.due = tick /\ PutOff(e, tick - 1)'
  BY <1>1, <1>3, EnvelopeTicks DEF EventsInv
<1>7. past'[tick + 1].deferring = start.deferring
  BY <1>1, <1>2
<1> QED
  BY <1>1, <1>4, <1>5, <1>6, <1>7 DEF EventsInv

\* The events of a tick are due in the next one, like those it put off.
LEMMA CloseEvents ==
  ASSUME TicksTyped, EventsInv, Close
  PROVE  EventsInv'
<1>1. /\ pc = "close" /\ pc' = "begin" /\ tick' = tick + 1 /\ tick \in Nat /\ Len(past) = tick + 1
      /\ past' = past /\ inbox' = {}
  BY DEF Close, TicksTyped
<1>2. ASSUME NEW e \in events'
      PROVE  /\ e \in EventEnvelope({Self}) /\ e.due = tick + 1 /\ e.origin \in Nat
             /\ \A k \in e.origin + 1 .. tick : past'[k + 1].deferring /\ e.mode \in ActionModes
  <2>1. CASE e \in events
    <3>1. /\ e \in EventEnvelope({Self}) /\ e.due = tick + 1 /\ e.origin \in Nat
          /\ PutOff(e, tick - 1)
          /\ e.origin < tick => past[tick + 1].deferring /\ e.mode \in ActionModes
      BY <1>1, <2>1, EnvelopeTicks DEF EventsInv
    <3>2. ASSUME NEW k \in e.origin + 1 .. tick
          PROVE  past'[k + 1].deferring /\ e.mode \in ActionModes
      <4>1. CASE k = tick
        BY <1>1, <3>1, <4>1
      <4>2. CASE k \in e.origin + 1 .. tick - 1
        BY <1>1, <3>1, <4>2 DEF PutOff
      <4> QED
        BY <1>1, <3>1, <4>1, <4>2
    <3> QED
      BY <3>1, <3>2
  <2>2. CASE e \notin events
    <3>1. PICK mode \in Modes : e = NextTick(Self, mode, tick)
      BY <2>2 DEF Close
    <3>2. e \in EventEnvelope({Self}) /\ e.due = tick + 1 /\ e.origin = tick
      BY <1>1, <3>1 DEF NextTick, EventEnvelope, Modes, DeliveryModes, ActionModes
    <3>3. \A k \in e.origin + 1 .. tick : FALSE
      BY <1>1, <3>2
    <3> QED
      BY <1>1, <3>2, <3>3
  <2> QED
    BY <2>1, <2>2
<1>3. ASSUME NEW e \in events'
      PROVE  /\ e \in EventEnvelope({Self}) /\ e.due <= tick' /\ ~(e.due < tick')
             /\ PutOff(e, e.due - 1)'
  <2>1. /\ e \in EventEnvelope({Self}) /\ e.due = tick + 1
        /\ \A k \in e.origin + 1 .. tick : past'[k + 1].deferring /\ e.mode \in ActionModes
    BY <1>2
  <2>2. e.due - 1 = tick
    BY <1>1, <2>1
  <2>3. PutOff(e, e.due - 1)'
    BY <2>1, <2>2 DEF PutOff
  <2> QED
    BY <1>1, <2>1, <2>3
<1> QED
  BY <1>1, <1>3 DEF EventsInv

\* A contained tick passes over the events that were due in it.
LEMMA ContainEvents ==
  ASSUME TicksTyped, EventsInv, BufferFault \/ ProgressFault \/ FaultElsewhere
  PROVE  EventsInv'
<1>1. /\ pc' = "begin" /\ tick' = tick + 1 /\ tick \in Nat /\ Len(past) = tick
      /\ inbox' = {} /\ Remember("OFF", FALSE)
      /\ \A e \in events' : e \in EventEnvelope({Self}) /\ e.due = tick /\ PutOff(e, tick - 1)
  <2>1. /\ pc' = "begin" /\ tick' = tick + 1 /\ inbox' = {} /\ Remember("OFF", FALSE)
        /\ \/ pc = "begin" /\ ~DeliveryRaises(events, tick) /\ events' = events
           \/ pc = "progress" /\ events' = start.events
    BY DEF BufferFault, ProgressFault, FaultElsewhere, Contain
  <2>2. tick \in Nat /\ Len(past) = tick
    BY <2>1 DEF TicksTyped
  <2>3. CASE pc = "begin" /\ ~DeliveryRaises(events, tick) /\ events' = events
    <3>1. ASSUME NEW e \in events
          PROVE  e \in EventEnvelope({Self}) /\ e.due = tick /\ PutOff(e, tick - 1)
      <4>1. e.due <= tick /\ ~(e.due < tick) /\ e.due \in Nat /\ PutOff(e, e.due - 1)
            /\ e \in EventEnvelope({Self})
        BY <2>3, EnvelopeTicks DEF EventsInv, DeliveryRaises
      <4>2. e.due = tick
        BY <2>2, <4>1
      <4> QED
        BY <4>1, <4>2
    <3> QED
      BY <2>1, <2>2, <2>3, <3>1
  <2>4. CASE pc = "progress" /\ events' = start.events
    <3>1. ASSUME NEW e \in start.events
          PROVE  e \in EventEnvelope({Self}) /\ e.due = tick /\ PutOff(e, tick - 1)
      BY <2>2, <2>4 DEF EventsInv
    <3> QED
      BY <2>1, <2>2, <2>4, <3>1
  <2> QED
    BY <2>1, <2>3, <2>4
<1>2. /\ \A k \in 1 .. Len(past) : past'[k] = past[k]
      /\ past'[tick + 1].progression = "OFF"
  BY <1>1, Remembered
<1>3. ASSUME NEW e \in events'
      PROVE  /\ e \in EventEnvelope({Self}) /\ e.due <= tick'
             /\ past'[e.due + 1].progression = "OFF"
             /\ PutOff(e, e.due - 1)'
  <2>1. e \in EventEnvelope({Self}) /\ e.due = tick /\ PutOff(e, tick - 1)
    BY <1>1
  <2>2. e.origin \in Nat /\ tick - 1 < Len(past) /\ tick - 1 \in Int
    BY <1>1, <2>1, EnvelopeTicks
  <2>3. \A k \in e.origin + 1 .. tick - 1 : past'[k + 1].deferring /\ e.mode \in ActionModes
    BY <1>2, <2>1, <2>2, PutOffStays
  <2>4. e.due - 1 = tick - 1
    BY <2>1
  <2>5. PutOff(e, e.due - 1)'
    BY <2>3, <2>4 DEF PutOff
  <2> QED
    BY <1>1, <1>2, <2>1, <2>5
<1> QED
  BY <1>1, <1>3 DEF EventsInv

\* The queue stays on time through every stage and every undone tick.
LEMMA EventsInvNext == TicksTyped /\ EventsInv /\ [Next]_vars => EventsInv'
<1> SUFFICES ASSUME TicksTyped, EventsInv, [Next]_vars PROVE EventsInv'
  OBVIOUS
<1>1. CASE Freeze \/ ArbitrateStage \/ UNCHANGED vars
  BY <1>1, EventsAlone DEF Freeze, ArbitrateStage, vars
<1> QED
  BY <1>1, BeginEvents, ProgressEvents, CloseEvents, ContainEvents DEF Next

\* What is put off up to this tick was put off in every tick before it.
LEMMA EventsInvImplies == TicksTyped /\ EventsInv => EventsOnTime
<1> SUFFICES ASSUME TicksTyped, EventsInv PROVE EventsOnTime
  OBVIOUS
<1>1. tick \in Nat /\ Len(past) = IF pc = "close" THEN tick + 1 ELSE tick
  BY DEF TicksTyped
<1>2. ASSUME NEW e \in inbox
      PROVE  /\ e.due = tick /\ e \notin events
             /\ \A k \in e.origin + 1 .. tick - 1 : past[k + 1].deferring /\ e.mode \in ActionModes
  <2>1. pc # "begin" /\ e.due = tick /\ PutOff(e, tick - 1) /\ \A d \in events : d.due = tick + 1
    BY EnvelopeTicks DEF EventsInv
  <2> QED
    BY <1>1, <2>1 DEF PutOff
<1>3. ASSUME NEW e \in events
      PROVE  /\ \A k \in e.origin + 1 .. e.due - 1 :
                   e.mode \in ActionModes
                     /\ IF k < Len(past) THEN past[k + 1].deferring ELSE start.deferring
             /\ e.due < tick => past[e.due + 1].progression = "OFF"
  <2>1. CASE pc = "begin"
    <3>1. e.due \in Nat /\ e.origin \in Nat /\ e.due <= tick /\ PutOff(e, e.due - 1)
          /\ (e.due < tick => past[e.due + 1].progression = "OFF")
      BY <2>1, EnvelopeTicks DEF EventsInv
    <3> QED
      BY <1>1, <2>1, <3>1 DEF PutOff
  <2>2. CASE pc # "begin"
    <3>1. /\ e.due = tick + 1 /\ e.origin \in Nat /\ PutOff(e, tick - 1)
          /\ e.origin < tick => start.deferring /\ e.mode \in ActionModes
          /\ pc = "close" => past[tick + 1].deferring = start.deferring
      BY <2>2, EnvelopeTicks DEF EventsInv
    <3>2. ASSUME NEW k \in e.origin + 1 .. e.due - 1
          PROVE  e.mode \in ActionModes
                   /\ IF k < Len(past) THEN past[k + 1].deferring ELSE start.deferring
      <4>1. CASE k = tick
        BY <1>1, <3>1, <4>1
      <4>2. CASE k # tick
        BY <1>1, <3>1, <4>2 DEF PutOff
      <4> QED
        BY <4>1, <4>2
    <3> QED
      BY <1>1, <3>1, <3>2
  <2> QED
    BY <2>1, <2>2
<1> QED
  BY <1>2, <1>3 DEF EventsOnTime

\* An event is in an inbox only in the first tick after its creation in which nothing puts its
\* delivery off, never beside the queue, and a queue misses a tick only in a contained one, in
\* every sequence of freezes, faults and undone ticks (deliver_events of events.py).
THEOREM EventsOnTimeHolds == Spec => []EventsOnTime
<1>1. Init => TicksTyped /\ EventsInv
  BY TicksTypedInit, EventsInvInit
<1>2. TicksTyped /\ EventsInv /\ [Next]_vars => (TicksTyped /\ EventsInv)'
  BY TicksTypedNext, EventsInvNext
<1> QED
  BY <1>1, <1>2, EventsInvImplies, PTL DEF Spec

-----------------------------------------------------------------------------
(* The freezes *)

\* The tokens have their type and were granted before; none of them outlives the action, and
\* all of them end some time.
TokensInv ==
  /\ asked \in Seq(TokenKinds) /\ granted \in 0 .. setup.tokens
  /\ \A t \in tokens : t \in FreezeToken({Self}, STRING) /\ t.id < granted
  /\ ~Running => tokens = {}
  /\ pc = "close" /\ past[tick + 1].progression = "OFF" => tokens = {}
  /\ \E bound \in Nat : \A t \in tokens : ExpirationExclusive(t, tick) <= bound

\* What a token needs for its span.
LEMMA TokenFacts ==
  ASSUME NEW t \in FreezeToken({Self}, STRING), NEW n \in Nat
  PROVE  /\ t.id \in Nat /\ t.act \in Nat /\ t.rem \in Nat /\ t.rem > 0 /\ t.target = Self
         /\ ExpirationExclusive(t, n) \in Nat /\ ExpirationExclusive(t, n) > n
         /\ ExpirationExclusive(t, n) > t.act
<1>1. t.id \in Nat /\ t.act \in Nat /\ t.rem \in Nat /\ t.rem > 0 /\ t.target = Self
  BY DEF FreezeToken
<1> QED
  BY <1>1 DEF ExpirationExclusive

\* A queued token freezes right after the last of its group.
LEMMA QueuedFacts ==
  ASSUME NEW T \in SUBSET FreezeToken({Self}, STRING), NEW new \in FreezeToken({Self}, STRING),
         NEW now \in Nat, new.act = now + 1, new.policy = "SUM_DURATION",
         NEW bound \in Nat, \A t \in T : ExpirationExclusive(t, now) <= bound
  PROVE  \E act \in Nat :
           /\ Queued(T, new) = [new EXCEPT !.act = act]
           /\ act \in {now + 1} \union {ExpirationExclusive(t, now) : t \in GroupOf(T, new)}
           /\ act > now
           /\ \A t \in GroupOf(T, new) : ExpirationExclusive(t, now) <= act
<1> DEFINE ends == {now + 1} \union {ExpirationExclusive(t, now) : t \in GroupOf(T, new)}
           act == CHOOSE x \in ends : \A y \in ends : x >= y
           B == IF bound < now + 1 THEN now + 1 ELSE bound
<1>1. Queued(T, new) = [new EXCEPT !.act = act]
  <2>1. new.act - 1 = now
    OBVIOUS
  <2> QED
    BY <2>1 DEF Queued, Ext!Max
<1>2. \A t \in GroupOf(T, new) : t \in T
  BY DEF GroupOf
<1>3. ends \in SUBSET Nat /\ ends # {} /\ B \in Nat /\ \A x \in ends : x <= B
  <2>1. \A t \in GroupOf(T, new) :
          ExpirationExclusive(t, now) \in Nat /\ ExpirationExclusive(t, now) <= bound
    BY <1>2, TokenFacts
  <2>2. B \in Nat /\ now + 1 <= B /\ \A x \in Nat : x <= bound => x <= B
    OBVIOUS
  <2> HIDE DEF B
  <2> QED
    BY <2>1, <2>2
<1>4. \E x \in ends : \A y \in ends : y <= x
  <2> HIDE DEF ends, B
  <2> QED
    BY <1>3, GreatestNatural
<1>5. \E x \in ends : \A y \in ends : x >= y
  <2> HIDE DEF ends
  <2> QED
    BY <1>3, <1>4
<1>6. act \in ends /\ \A y \in ends : act >= y
  <2> HIDE DEF ends
  <2> QED
    BY <1>5
<1>7. now + 1 \in ends /\ \A t \in GroupOf(T, new) : ExpirationExclusive(t, now) \in ends
  OBVIOUS
<1>8. act \in Nat /\ act > now /\ \A t \in GroupOf(T, new) : ExpirationExclusive(t, now) <= act
  <2> HIDE DEF ends, act
  <2>1. act \in Nat /\ \A y \in ends : y \in Nat /\ y <= act
    BY <1>3, <1>6
  <2>2. now + 1 <= act /\ \A t \in GroupOf(T, new) : ExpirationExclusive(t, now) <= act
    BY <1>7, <2>1
  <2> QED
    BY <2>1, <2>2
<1> HIDE DEF act
<1> QED
  BY <1>1, <1>6, <1>8

\* A token that joins its group comes last of all, from its activation on for its duration.
Joins(T, new, now, bound, act) ==
  /\ act > now /\ [new EXCEPT !.act = act] \in FreezeToken({Self}, STRING)
  /\ act <= now + 1 \/ act <= bound
  /\ new.policy # "SUM_DURATION" => act = now + 1
  /\ new.policy = "SUM_DURATION" =>
       /\ act \in {now + 1} \union {ExpirationExclusive(t, now) : t \in GroupOf(T, new)}
       /\ \A t \in GroupOf(T, new) : ExpirationExclusive(t, now) <= act
  /\ AddToken(T, new) =
       CASE new.policy = "REJECT_NEW" /\ GroupOf(T, new) # {} -> T
         [] new.policy = "REPLACE" -> (T \ GroupOf(T, new)) \union {[new EXCEPT !.act = act]}
         [] OTHER -> T \union {[new EXCEPT !.act = act]}

\* Where it joins it.
LEMMA AddedFacts ==
  ASSUME NEW T \in SUBSET FreezeToken({Self}, STRING), NEW new \in FreezeToken({Self}, STRING),
         NEW now \in Nat, new.act = now + 1,
         NEW bound \in Nat, \A t \in T : ExpirationExclusive(t, now) <= bound
  PROVE  \E act \in Nat : Joins(T, new, now, bound, act)
<1>1. ASSUME NEW act \in Nat PROVE [new EXCEPT !.act = act] \in FreezeToken({Self}, STRING)
  BY DEF FreezeToken
<1>2. new = [new EXCEPT !.act = now + 1] /\ now + 1 \in Nat /\ now + 1 > now
  BY DEF FreezeToken
<1>3. CASE new.policy # "SUM_DURATION"
  <2>1. Queued(T, new) = [new EXCEPT !.act = now + 1]
    BY <1>2, <1>3 DEF Queued
  <2> DEFINE act == now + 1
             added == [new EXCEPT !.act = act]
  <2>2. new = added /\ Queued(T, new) = added /\ added \in FreezeToken({Self}, STRING)
    BY <1>1, <1>2, <2>1
  <2>3. act \in Nat /\ act > now /\ act <= now + 1 /\ act = now + 1
    BY <1>2
  <2> HIDE DEF act
  <2>4. AddToken(T, new) =
          CASE new.policy = "REJECT_NEW" /\ GroupOf(T, new) # {} -> T
            [] new.policy = "REPLACE" -> (T \ GroupOf(T, new)) \union {added}
            [] OTHER -> T \union {added}
    <3> HIDE DEF added
    <3> QED
      BY <2>2 DEF AddToken
  <2> QED
    BY <1>3, <2>2, <2>3, <2>4 DEF Joins
<1>4. CASE new.policy = "SUM_DURATION"
  <2>1. PICK act \in Nat :
          /\ Queued(T, new) = [new EXCEPT !.act = act]
          /\ act \in {now + 1} \union {ExpirationExclusive(t, now) : t \in GroupOf(T, new)}
          /\ act > now
          /\ \A t \in GroupOf(T, new) : ExpirationExclusive(t, now) <= act
    BY <1>4, QueuedFacts
  <2>2. AddToken(T, new) = T \union {[new EXCEPT !.act = act]}
    BY <1>4, <2>1 DEF AddToken
  <2>3. act <= now + 1 \/ act <= bound
    BY <2>1 DEF GroupOf
  <2> QED
    BY <1>1, <1>4, <2>1, <2>2, <2>3 DEF Joins
<1> QED
  BY <1>3, <1>4

\* A granted token has its type.
LEMMA CreatedType ==
  ASSUME NEW kind \in TokenKinds, NEW id \in Nat, NEW now \in Nat
  PROVE  /\ Created(id, now, kind) \in FreezeToken({Self}, STRING)
         /\ Created(id, now, kind).act = now + 1 /\ Created(id, now, kind).id = id
         /\ Created(id, now, kind).policy = kind.policy
         /\ Created(id, now, kind).group = kind.group
         /\ Created(id, now, kind).target = kind.target
         /\ Created(id, now, kind).rem = kind.duration
         /\ Created(id, now, kind).domains = kind.domains
         /\ Created(id, now, kind).accrual = kind.accrual
<1>1. kind \in [target : {Self}, group : STRING, policy : StackPolicies,
                accrual : {"HOLD", "ACCRUE"}, duration : Nat \ {0},
                domains : (SUBSET STRING) \ {{}}]
  BY TokenAssumption
<1> QED
  BY <1>1 DEF Created, FreezeToken

\* There are no freezes at the start.
LEMMA TokensInvInit == Init => TokensInv
<1> SUFFICES ASSUME Init PROVE TokensInv
  OBVIOUS
<1>1. setup.tokens \in Nat /\ asked = << >> /\ tokens = {} /\ pc = "begin"
  BY ClockAssumption DEF Init
<1>2. asked \in Seq(TokenKinds) /\ granted = 0
  BY <1>1 DEF granted
<1> QED
  BY <1>1, <1>2 DEF TokensInv

\* A step that grants nothing and at most takes tokens away, in the same tick or over to the
\* next one.
LEMMA TokensAway ==
  ASSUME TicksTyped, TokensInv, tokens' \subseteq tokens, asked' = asked,
         setup'.tokens = setup.tokens, tick' \in {tick, tick + 1},
         ~Running' => tokens' = {},
         pc' = "close" /\ past'[tick' + 1].progression = "OFF" => tokens' = {}
  PROVE  TokensInv'
<1>1. tick \in Nat /\ \A t \in tokens : t \in FreezeToken({Self}, STRING)
  <2>1. tick \in Nat
    BY DEF TicksTyped
  <2> QED
    BY <2>1 DEF TokensInv
<1>2. PICK bound \in Nat : \A t \in tokens : ExpirationExclusive(t, tick) <= bound
  BY DEF TokensInv
<1>3. ASSUME NEW t \in tokens' PROVE ExpirationExclusive(t, tick') <= bound + 1
  <2>1. t \in FreezeToken({Self}, STRING) /\ ExpirationExclusive(t, tick) <= bound
    BY <1>1, <1>2
  <2>2. t.act \in Nat /\ t.rem \in Nat
    BY <1>1, <2>1, TokenFacts
  <2> QED
    BY <1>1, <2>1, <2>2 DEF ExpirationExclusive
<1>4. \E B \in Nat : \A t \in tokens' : ExpirationExclusive(t, tick') <= B
  BY <1>3
<1>5. /\ asked' \in Seq(TokenKinds) /\ granted' \in 0 .. setup'.tokens
      /\ \A t \in tokens' : t \in FreezeToken({Self}, STRING) /\ t.id < granted'
  BY DEF TokensInv, granted
<1> QED
  BY <1>4, <1>5 DEF TokensInv

\* What a token is whatever time it has left.
Alike(u, t) ==
  /\ u.id = t.id /\ u.group = t.group /\ u.act = t.act
  /\ u.policy = t.policy /\ u.domains = t.domains /\ u.accrual = t.accrual

\* The maintenance keeps the ends of the tokens that it keeps: a token that is active loses a
\* tick as the tick goes by, and goes with its last one.
LEMMA ExpireFacts ==
  ASSUME NEW T \in SUBSET FreezeToken({Self}, STRING), NEW n \in Nat
  PROVE  /\ \A u \in ExpireTokens(T, n) :
              /\ u \in FreezeToken({Self}, STRING)
              /\ \E t \in T : /\ Alike(u, t)
                              /\ ExpirationExclusive(t, n) - 1 > n
                              /\ ExpirationExclusive(u, n + 1) = ExpirationExclusive(t, n)
         /\ \A t \in T : ExpirationExclusive(t, n) - 1 > n =>
              \E u \in ExpireTokens(T, n) :
                 /\ Alike(u, t)
                 /\ ExpirationExclusive(u, n + 1) = ExpirationExclusive(t, n)
<1>1. ASSUME NEW t \in T
      PROVE  t.id \in Nat /\ t.act \in Nat /\ t.rem \in Nat /\ t.rem > 0
             /\ t \in FreezeToken({Self}, STRING)
  BY TokenFacts
<1>2. ASSUME NEW t \in T, t.act > n
      PROVE  /\ ExpirationExclusive(t, n) - 1 > n
             /\ ExpirationExclusive(t, n + 1) = ExpirationExclusive(t, n)
  BY <1>1, <1>2 DEF ExpirationExclusive
<1>3. ASSUME NEW t \in T, t.act <= n, t.rem > 1, NEW u, u = [t EXCEPT !.rem = @ - 1]
      PROVE  /\ u \in FreezeToken({Self}, STRING)
             /\ Alike(u, t)
             /\ ExpirationExclusive(t, n) - 1 > n
             /\ ExpirationExclusive(u, n + 1) = ExpirationExclusive(t, n)
  <2> DEFINE r == t.rem - 1
  <2>1. r \in Nat \ {0} /\ u = [t EXCEPT !.rem = r]
    BY <1>1, <1>3
  <2> HIDE DEF r
  <2>2. u \in FreezeToken({Self}, STRING) /\ Alike(u, t)
        /\ u.rem = r
    BY <1>1, <2>1 DEF FreezeToken, Alike
  <2> QED
    BY <1>1, <1>3, <2>1, <2>2 DEF ExpirationExclusive, r, Alike
<1>4. ASSUME NEW t \in T, ExpirationExclusive(t, n) - 1 > n, ~(t.act > n)
      PROVE  t.act <= n /\ t.rem > 1
  BY <1>1, <1>4 DEF ExpirationExclusive
<1>5. ASSUME NEW u \in ExpireTokens(T, n)
      PROVE  \/ u \in T /\ u.act > n
             \/ \E t \in T : t.act <= n /\ t.rem > 1 /\ u = [t EXCEPT !.rem = @ - 1]
  BY DEF ExpireTokens
<1>6. ASSUME NEW t \in T, ExpirationExclusive(t, n) - 1 > n
      PROVE  \E u \in ExpireTokens(T, n) :
                 /\ Alike(u, t)
                 /\ ExpirationExclusive(u, n + 1) = ExpirationExclusive(t, n)
  <2>1. CASE t.act > n
    <3>1. t \in ExpireTokens(T, n)
      BY <2>1 DEF ExpireTokens
    <3> QED
      BY <1>2, <2>1, <3>1 DEF Alike
  <2>2. CASE ~(t.act > n)
    <3>1. t.act <= n /\ t.rem > 1
      BY <1>4, <1>6, <2>2
    <3>2. [t EXCEPT !.rem = @ - 1] \in ExpireTokens(T, n)
      BY <3>1 DEF ExpireTokens
    <3> QED
      BY <1>3, <3>1, <3>2
  <2> QED
    BY <2>1, <2>2
<1>7. ASSUME NEW u \in ExpireTokens(T, n)
      PROVE  /\ u \in FreezeToken({Self}, STRING)
             /\ \E t \in T : /\ Alike(u, t)
                             /\ ExpirationExclusive(t, n) - 1 > n
                             /\ ExpirationExclusive(u, n + 1) = ExpirationExclusive(t, n)
  <2>1. CASE u \in T /\ u.act > n
    BY <1>1, <1>2, <2>1 DEF Alike
  <2>2. ASSUME NEW t \in T, t.act <= n, t.rem > 1, u = [t EXCEPT !.rem = @ - 1]
        PROVE  /\ u \in FreezeToken({Self}, STRING)
               /\ Alike(u, t) /\ ExpirationExclusive(t, n) - 1 > n
               /\ ExpirationExclusive(u, n + 1) = ExpirationExclusive(t, n)
    BY <1>3, <2>2
  <2> QED
    BY <1>5, <2>1, <2>2
<1> QED
  BY <1>6, <1>7

\* A freeze adds one token at most, after all that were granted before.
LEMMA FreezeGrants ==
  ASSUME TicksTyped, TokensInv, Freeze
  PROVE  TokensInv'
<1>1. /\ tick \in Nat /\ granted \in Nat /\ tokens \in SUBSET FreezeToken({Self}, STRING)
      /\ setup.tokens \in Nat
  <2>1. tick \in Nat /\ setup.tokens \in Nat
    BY DEF TicksTyped, SetupType
  <2>2. granted \in Nat
    BY <2>1 DEF TokensInv
  <2>3. tokens \in SUBSET FreezeToken({Self}, STRING)
    BY DEF TokensInv
  <2> QED
    BY <2>1, <2>2, <2>3
<1>2. /\ pc = "begin" /\ pc' = "begin" /\ Running /\ granted < setup.tokens
      /\ UNCHANGED <<setup, tick, action>>
  BY DEF Freeze
<1>3. PICK kind \in TokenKinds : /\ tokens' = AddToken(tokens, Created(granted, tick, kind))
                                 /\ asked' = Append(asked, kind)
  BY DEF Freeze
<1>4. PICK bound \in Nat : \A t \in tokens : ExpirationExclusive(t, tick) <= bound
  BY DEF TokensInv
<1> DEFINE new == Created(granted, tick, kind)
<1>5. new \in FreezeToken({Self}, STRING) /\ new.act = tick + 1 /\ new.id = granted
  BY <1>1, CreatedType
<1> HIDE DEF new
<1>6. PICK act \in Nat : Joins(tokens, new, tick, bound, act)
  BY <1>1, <1>4, <1>5, AddedFacts
<1> DEFINE added == [new EXCEPT !.act = act]
<1>7. added \in FreezeToken({Self}, STRING) /\ added.id = granted /\ added.act = act
      /\ added.rem \in Nat
  <2>1. added.id = granted /\ added.act = act
    BY <1>5, <1>6 DEF Joins, FreezeToken
  <2>2. added \in FreezeToken({Self}, STRING)
    BY <1>6 DEF Joins
  <2> HIDE DEF added
  <2>3. added.rem \in Nat
    BY <1>1, <2>2, TokenFacts
  <2> QED
    BY <2>1, <2>2, <2>3
<1> HIDE DEF added
<1>8. tokens' \subseteq tokens \union {added}
  BY <1>3, <1>6 DEF Joins, added, new
<1>9. ASSUME NEW t \in tokens'
      PROVE  /\ t \in FreezeToken({Self}, STRING) /\ t.id < granted + 1
             /\ ExpirationExclusive(t, tick) <= bound + tick + 1 + added.rem
  <2>1. CASE t \in tokens
    <3>1. t \in FreezeToken({Self}, STRING) /\ t.id < granted /\ t.id \in Nat
      BY <1>1, <2>1, TokenFacts DEF TokensInv
    <3>2. ExpirationExclusive(t, tick) \in Nat /\ ExpirationExclusive(t, tick) <= bound
      BY <1>1, <1>4, <2>1, <3>1, TokenFacts
    <3> QED
      BY <1>1, <1>7, <3>1, <3>2
  <2>2. CASE t = added
    <3>1. ExpirationExclusive(t, tick) = act + added.rem
      BY <1>1, <1>6, <1>7, <2>2 DEF Joins, ExpirationExclusive
    <3>2. act + added.rem <= bound + tick + 1 + added.rem
      BY <1>1, <1>6, <1>7 DEF Joins
    <3>3. t.id < granted + 1
      BY <1>1, <1>7, <2>2
    <3> QED
      BY <1>7, <2>2, <3>1, <3>2, <3>3
  <2> QED
    BY <1>8, <2>1, <2>2
<1>10. \E B \in Nat : \A t \in tokens' : ExpirationExclusive(t, tick') <= B
  <2>1. bound + tick + 1 + added.rem \in Nat
    BY <1>1, <1>7
  <2> QED
    BY <1>2, <1>9, <2>1
<1>11. /\ asked' \in Seq(TokenKinds) /\ granted' = granted + 1
       /\ granted' \in 0 .. setup'.tokens
  <2>1. asked \in Seq(TokenKinds)
    BY DEF TokensInv
  <2>2. asked' \in Seq(TokenKinds) /\ Len(asked') = Len(asked) + 1
    BY <1>3, <2>1
  <2> QED
    BY <1>1, <1>2, <2>2 DEF granted
<1>12. Running' /\ pc' # "close"
  BY <1>2 DEF Running
<1> QED
  BY <1>2, <1>9, <1>10, <1>11, <1>12 DEF TokensInv

\* The maintenance of a tick keeps the tokens typed and their ends bounded.
LEMMA CloseTokens ==
  ASSUME TicksTyped, TokensInv, Close
  PROVE  TokensInv'
<1>1. /\ tick \in Nat /\ tokens \in SUBSET FreezeToken({Self}, STRING)
      /\ pc' = "begin" /\ tick' = tick + 1 /\ tokens' = ExpireTokens(tokens, tick)
      /\ UNCHANGED <<setup, asked, action>> /\ granted' = granted
  <2>1. tick \in Nat
    BY DEF TicksTyped
  <2> QED
    BY <2>1 DEF TokensInv, Close, granted
<1>2. PICK bound \in Nat : \A t \in tokens : ExpirationExclusive(t, tick) <= bound
  BY DEF TokensInv
<1>3. ASSUME NEW u \in tokens'
      PROVE  /\ u \in FreezeToken({Self}, STRING) /\ u.id < granted
             /\ ExpirationExclusive(u, tick') <= bound
  <2>1. /\ u \in FreezeToken({Self}, STRING)
        /\ \E t \in tokens : /\ u.id = t.id
                             /\ ExpirationExclusive(u, tick + 1) = ExpirationExclusive(t, tick)
    BY <1>1, ExpireFacts DEF Alike
  <2> QED
    BY <1>1, <1>2, <2>1 DEF TokensInv
<1>4. ~Running' => tokens' = {}
  <2>1. tokens = {} => ExpireTokens(tokens, tick) = {}
    BY DEF ExpireTokens
  <2> QED
    BY <1>1, <2>1 DEF TokensInv, Running
<1> QED
  BY <1>1, <1>2, <1>3, <1>4 DEF TokensInv

\* Every stage does: tokens are granted, counted down, or go with the action.
LEMMA TokensInvNext == TicksTyped /\ TimelineInv /\ TokensInv /\ [Next]_vars => TokensInv'
<1> SUFFICES ASSUME TicksTyped, TimelineInv, TokensInv, [Next]_vars PROVE TokensInv'
  OBVIOUS
<1>1. {t \in tokens : t.target # Self} = {}
  <2>1. \A t \in tokens : t.target = Self
    BY TokenFacts DEF TokensInv, FreezeToken
  <2> QED
    BY <2>1
<1>2. CASE Begin \/ UNCHANGED vars
  <2>1. UNCHANGED <<setup, tick, action, tokens, asked>> /\ (pc' = "close" => pc = "close")
        /\ past' = past
    BY <1>2 DEF Begin, vars
  <2> QED
    BY <2>1, TokensAway DEF TokensInv, Running
<1>3. CASE ArbitrateStage
  <2>1. /\ UNCHANGED <<setup, tick, asked>> /\ pc' = "progress"
        /\ \/ action' = action /\ tokens' = tokens
           \/ tokens' = {}
    BY <1>1, <1>3 DEF ArbitrateStage
  <2> QED
    BY <2>1, TokensAway DEF TokensInv, Running
<1>4. CASE ProgressStage
  <2>1. /\ UNCHANGED <<setup, tick, asked>> /\ pc' = "close"
        /\ tokens' = IF action'.life = "TERMINATED" THEN {} ELSE tokens
        /\ action' = IF Running THEN Progress(action, setup.lifecycle, Accrual) ELSE action
        /\ Remember(IF Running THEN Accrual ELSE "OFF", start.deferring)
    BY <1>1, <1>4 DEF ProgressStage
  <2>2. start.deferring \in BOOLEAN /\ Len(past) = tick
    BY <1>4 DEF ProgressStage, TicksTyped
  <2>3. CASE ~Running
    <3>1. tokens = {}
      BY <2>3 DEF TokensInv
    <3> QED
      BY <2>1, <3>1, TokensAway
  <2>4. CASE Running
    <3>1. past'[tick + 1].progression = Accrual /\ Accrual \in Accruals
      BY <2>1, <2>2, <2>4, AccrualType, Remembered
    <3>2. past'[tick' + 1].progression # "OFF"
      BY <2>1, <3>1 DEF Accruals
    <3>3. action'.life \in {"RUNNING", "TERMINATED"}
      <4>1. /\ action \in Clock /\ action.life = "RUNNING" /\ setup.lifecycle \in Lifecycles
            /\ InPlace(action, setup.lifecycle)
        BY <2>4 DEF TimelineInv, Running, TicksTyped, SetupType
      <4> QED
        BY <2>1, <2>4, <3>1, <4>1, Progressing DEF Accruals
    <3> QED
      BY <2>1, <3>2, <3>3, TokensAway DEF Running
  <2> QED
    BY <2>3, <2>4
<1>5. CASE BufferFault \/ ProgressFault
  <2>1. asked' = asked /\ setup' = setup /\ tick' = tick + 1 /\ pc' = "begin" /\ tokens' = {}
    BY <1>1, <1>5 DEF BufferFault, ProgressFault, Contain
  <2> QED
    BY <2>1, TokensAway
<1>6. CASE FaultElsewhere
  <2>1. /\ asked' = asked /\ tick' = tick + 1 /\ pc' = "begin" /\ tokens' = tokens
        /\ action' = action /\ setup' = [setup EXCEPT !.faults = @ - 1]
    BY <1>6 DEF FaultElsewhere, Contain
  <2>2. setup'.tokens = setup.tokens
    BY <2>1 DEF TicksTyped, SetupType
  <2> QED
    BY <2>1, <2>2, TokensAway DEF TokensInv, Running
<1> QED
  BY <1>2, <1>3, <1>4, <1>5, <1>6, FreezeGrants, CloseTokens DEF Next

-----------------------------------------------------------------------------
(* The schedule that the tokens implement *)

SpanAt(t, n) ==
  [id |-> t.id, target |-> t.target, group |-> t.group, policy |-> t.policy,
   domains |-> t.domains, accrual |-> t.accrual, first |-> t.act,
   last |-> ExpirationExclusive(t, n) - 1]

Spans == {SpanAt(t, tick) : t \in tokens}

Lost == Cardinality({k \in 1 .. tick : past[k].progression = "OFF"})

\* A tick that passes is lost when it is one without progression.
LEMMA LostNext ==
  ASSUME TicksTyped, tick' = tick + 1, \A k \in 1 .. tick : past'[k] = past[k]
  PROVE  Lost' = Lost + (IF past'[tick + 1].progression = "OFF" THEN 1 ELSE 0) /\ Lost \in Nat
<1>1. tick \in Nat
  BY DEF TicksTyped
<1>2. {k \in 1 .. tick : past[k].progression = "OFF"} = Ticks(past', tick, {"OFF"})
  BY DEF Ticks
<1>3. {k \in 1 .. tick' : past'[k].progression = "OFF"} = Ticks(past', tick + 1, {"OFF"})
  BY DEF Ticks
<1>4. Lost = Cardinality(Ticks(past', tick, {"OFF"}))
  BY <1>2 DEF Lost
<1>5. Lost' = Cardinality(Ticks(past', tick + 1, {"OFF"}))
  BY <1>3 DEF Lost
<1>6. past'[tick + 1].progression \in {"OFF"} <=> past'[tick + 1].progression = "OFF"
  OBVIOUS
<1> QED
  BY <1>1, <1>4, <1>5, <1>6, TicksCount

\* No tick is lost while none passes.
LEMMA LostSame ==
  ASSUME TicksTyped, tick' = tick, \A k \in 1 .. tick : past'[k] = past[k]
  PROVE  Lost' = Lost
<1>1. {k \in 1 .. tick : past[k].progression = "OFF"}' = {k \in 1 .. tick : past[k].progression = "OFF"}
  OBVIOUS
<1> QED
  BY <1>1 DEF Lost

\* The span of a token; a tick that does not count the token down stretches an active one.
LEMMA SpanFacts ==
  ASSUME NEW t \in FreezeToken({Self}, STRING), NEW n \in Nat
  PROVE  /\ SpanAt(t, n).id = t.id /\ SpanAt(t, n).target = Self /\ SpanAt(t, n).group = t.group
         /\ SpanAt(t, n).policy = t.policy /\ SpanAt(t, n).domains = t.domains
         /\ SpanAt(t, n).accrual = t.accrual
         /\ SpanAt(t, n).first = t.act /\ SpanAt(t, n).last = ExpirationExclusive(t, n) - 1
         /\ t.act \in Nat /\ ExpirationExclusive(t, n) \in Nat
         /\ SpanAt(t, n + 1) = IF t.act <= n THEN [SpanAt(t, n) EXCEPT !.last = @ + 1]
                               ELSE SpanAt(t, n)
<1>1. t.act \in Nat /\ t.rem \in Nat /\ t.target = Self /\ ExpirationExclusive(t, n) \in Nat
  BY TokenFacts
<1>2. t.act <= n => ExpirationExclusive(t, n + 1) - 1 = (ExpirationExclusive(t, n) - 1) + 1
  BY <1>1 DEF ExpirationExclusive
<1>3. ~(t.act <= n) => ExpirationExclusive(t, n + 1) = ExpirationExclusive(t, n)
  BY <1>1 DEF ExpirationExclusive
<1>4. SpanAt(t, n + 1) = IF t.act <= n THEN [SpanAt(t, n) EXCEPT !.last = @ + 1] ELSE SpanAt(t, n)
  <2> DEFINE x == ExpirationExclusive(t, n) - 1
             y == ExpirationExclusive(t, n + 1) - 1
  <2>1. /\ t.act <= n => y = x + 1
        /\ ~(t.act <= n) => y = x
    BY <1>2, <1>3
  <2>2. /\ SpanAt(t, n) = [id |-> t.id, target |-> t.target, group |-> t.group,
                           policy |-> t.policy, domains |-> t.domains, accrual |-> t.accrual,
                           first |-> t.act, last |-> x]
        /\ SpanAt(t, n + 1) = [id |-> t.id, target |-> t.target, group |-> t.group,
                               policy |-> t.policy, domains |-> t.domains, accrual |-> t.accrual,
                               first |-> t.act, last |-> y]
    BY DEF SpanAt
  <2> HIDE DEF x, y
  <2> QED
    BY <2>1, <2>2
<1> QED
  BY <1>1, <1>4 DEF SpanAt

\* A tick that is undone stretches the spans it falls into, or ends all of them.
LEMMA StretchStep ==
  ASSUME TicksTyped, TokensInv, tick' = tick + 1, Lost' = Lost + 1, asked' = asked,
         tokens' = tokens \/ tokens' = {}
  PROVE  Schedule!Stretch
<1>1. tick \in Nat /\ \A t \in tokens : t \in FreezeToken({Self}, STRING)
  <2>1. tick \in Nat
    BY DEF TicksTyped
  <2> QED
    BY <2>1 DEF TokensInv
<1> DEFINE Stretched(gone) ==
             {IF s.first <= tick THEN [s EXCEPT !.last = @ + 1] ELSE s :
                s \in {r \in Spans : r.target \notin gone}}
<1>2. \E gone \in SUBSET {s.target : s \in Spans} : Spans' = Stretched(gone)
  <2>1. CASE tokens' = tokens
    <3> DEFINE F(s) == IF s.first <= tick THEN [s EXCEPT !.last = @ + 1] ELSE s
    <3>1. \A t \in tokens : SpanAt(t, tick + 1) = F(SpanAt(t, tick))
      BY <1>1, SpanFacts
    <3>2. Spans' = {SpanAt(t, tick + 1) : t \in tokens}
      BY <2>1 DEF Spans, SpanAt
    <3>3. Stretched({}) = {F(s) : s \in Spans}
      OBVIOUS
    <3>4. \A s : s \in Spans <=> \E t \in tokens : s = SpanAt(t, tick)
      BY DEF Spans
    <3> HIDE DEF F, Stretched
    <3>5. Spans' = {F(s) : s \in Spans}
      BY <3>1, <3>2, <3>4
    <3> QED
      BY <3>3, <3>5
  <2>2. CASE tokens' = {}
    <3> DEFINE all == {s.target : s \in Spans}
    <3>1. {r \in Spans : r.target \notin all} = {}
      OBVIOUS
    <3>2. Spans' = {}
      BY <2>2 DEF Spans
    <3>3. Spans' = Stretched(all) /\ all \in SUBSET all
      BY <3>1, <3>2
    <3> QED
      BY <3>3
  <2> QED
    BY <2>1, <2>2
<1> QED
  BY <1>2 DEF Schedule!Stretch, Spans, SpanAt, Lost

\* A tick that passes ends the spans that it is the last tick of.
LEMMA TickStep ==
  ASSUME TicksTyped, TokensInv, tick' = tick + 1, Lost' = Lost, asked' = asked,
         tokens' = ExpireTokens(tokens, tick)
  PROVE  Schedule!Tick
<1>1. tick \in Nat /\ tokens \in SUBSET FreezeToken({Self}, STRING)
  <2>1. tick \in Nat
    BY DEF TicksTyped
  <2> QED
    BY <2>1 DEF TokensInv
<1>2. ASSUME NEW t \in FreezeToken({Self}, STRING), NEW u \in FreezeToken({Self}, STRING),
             Alike(u, t), ExpirationExclusive(u, tick + 1) = ExpirationExclusive(t, tick)
      PROVE  SpanAt(u, tick + 1) = SpanAt(t, tick)
  <2>1. u.target = t.target
    BY <1>1, TokenFacts
  <2> QED
    BY <1>2, <2>1 DEF SpanAt, Alike
<1>3. ASSUME NEW u \in tokens'
      PROVE  \E t \in tokens : SpanAt(u, tick + 1) = SpanAt(t, tick) /\ SpanAt(t, tick).last > tick
  <2>1. u \in FreezeToken({Self}, STRING)
        /\ \E t \in tokens : /\ Alike(u, t)
                             /\ ExpirationExclusive(t, tick) - 1 > tick
                             /\ ExpirationExclusive(u, tick + 1) = ExpirationExclusive(t, tick)
    BY <1>1, ExpireFacts
  <2> QED
    BY <1>1, <1>2, <2>1, SpanFacts
<1>4. ASSUME NEW t \in tokens, SpanAt(t, tick).last > tick
      PROVE  \E u \in tokens' : SpanAt(u, tick + 1) = SpanAt(t, tick)
  <2>1. ExpirationExclusive(t, tick) - 1 > tick
    BY <1>1, <1>4, SpanFacts
  <2>2. \E u \in ExpireTokens(tokens, tick) :
           /\ Alike(u, t)
           /\ ExpirationExclusive(u, tick + 1) = ExpirationExclusive(t, tick)
    BY <1>1, <2>1, ExpireFacts
  <2>3. \A u \in ExpireTokens(tokens, tick) : u \in FreezeToken({Self}, STRING)
    BY <1>1, ExpireFacts
  <2> QED
    BY <1>1, <1>2, <2>2, <2>3
<1>5. Spans' = {SpanAt(u, tick + 1) : u \in tokens'}
  BY DEF Spans, SpanAt
<1>6. Spans' = {s \in Spans : s.last > tick}
  BY <1>3, <1>4, <1>5 DEF Spans
<1> QED
  BY <1>6 DEF Schedule!Tick, Spans, SpanAt, Lost

\* An action that ends takes its spans with it.
LEMMA ReleaseStep ==
  ASSUME TicksTyped, TokensInv, tick' = tick, Lost' = Lost, asked' = asked, tokens' = {},
         tokens # {}
  PROVE  Schedule!Release
<1>1. tick \in Nat /\ \A t \in tokens : t \in FreezeToken({Self}, STRING)
  <2>1. tick \in Nat
    BY DEF TicksTyped
  <2> QED
    BY <2>1 DEF TokensInv
<1>2. \A s \in Spans : s.target = Self
  <2>1. \A t \in tokens : SpanAt(t, tick).target = Self
    BY <1>1, SpanFacts
  <2> QED
    BY <2>1 DEF Spans
<1>3. Self \in {s.target : s \in Spans}
  BY <1>2 DEF Spans
<1>4. Spans' = {s \in Spans : s.target # Self}
  BY <1>2 DEF Spans
<1> QED
  BY <1>3, <1>4 DEF Schedule!Release, Spans, SpanAt, Lost

\* A request gets its span where the schedule puts it, or none.
LEMMA AskStep ==
  ASSUME TicksTyped, TokensInv, Freeze
  PROVE  Schedule!Next
<1>1. tick \in Nat /\ granted \in Nat
  <2>1. tick \in Nat /\ setup.tokens \in Nat
    BY DEF TicksTyped, SetupType
  <2> QED
    BY <2>1 DEF TokensInv
<1>2. tokens \in SUBSET FreezeToken({Self}, STRING) /\ \A t \in tokens : t.id < granted
  BY DEF TokensInv
<1>3. tick' = tick /\ past' = past
  BY DEF Freeze
<1>4. Lost' = Lost
  BY <1>3, LostSame
<1>5. PICK kind \in TokenKinds : /\ tokens' = AddToken(tokens, Created(granted, tick, kind))
                                 /\ ~Incompatible(tokens, Created(granted, tick, kind))
                                 /\ asked' = Append(asked, kind)
  BY DEF Freeze
<1>6. PICK bound \in Nat : \A t \in tokens : ExpirationExclusive(t, tick) <= bound
  BY DEF TokensInv
<1> DEFINE new == Created(granted, tick, kind)
<1>7. /\ new \in FreezeToken({Self}, STRING) /\ new.act = tick + 1 /\ new.id = granted
      /\ new.policy = kind.policy /\ new.group = kind.group /\ new.target = kind.target
      /\ new.rem = kind.duration /\ new.domains = kind.domains /\ new.accrual = kind.accrual
  <2>1. kind \in TokenKinds
    OBVIOUS
  <2> QED
    BY <1>1, <2>1, CreatedType, Zenon
<1> HIDE DEF new
<1>8. PICK act \in Nat : Joins(tokens, new, tick, bound, act)
  BY <1>1, <1>2, <1>6, <1>7, AddedFacts
<1> DEFINE added == [new EXCEPT !.act = act]
           group == GroupOf(tokens, new)
           rivals == {s \in Spans : s.target = kind.target /\ s.group = kind.group}
           span == [id |-> granted, target |-> kind.target, group |-> kind.group,
                    policy |-> kind.policy, domains |-> kind.domains, accrual |-> kind.accrual,
                    first |-> act, last |-> act + kind.duration - 1]
<1>9. kind.target = Self /\ kind.duration \in Nat /\ kind.policy \in StackPolicies
  BY TokenAssumption
<1>10. SpanAt(added, tick) = span
  <2>1. /\ added.id = granted /\ added.target = kind.target /\ added.group = kind.group
        /\ added.act = act /\ added.rem = kind.duration /\ added.policy = kind.policy
        /\ added.domains = kind.domains /\ added.accrual = kind.accrual
    BY <1>7 DEF FreezeToken
  <2>2. act > tick
    BY <1>8 DEF Joins
  <2> HIDE DEF added
  <2>3. ExpirationExclusive(added, tick) = act + kind.duration
    BY <1>1, <2>1, <2>2 DEF ExpirationExclusive
  <2>4. ExpirationExclusive(added, tick) - 1 = act + kind.duration - 1
    BY <1>8, <1>9, <2>3
  <2> DEFINE end == act + kind.duration - 1
  <2>5. span = [id |-> granted, target |-> kind.target, group |-> kind.group,
                policy |-> kind.policy, domains |-> kind.domains, accrual |-> kind.accrual,
                first |-> act, last |-> end]
    OBVIOUS
  <2> HIDE DEF span, end
  <2>6. ExpirationExclusive(added, tick) - 1 = end
    BY <2>4 DEF end
  <2> QED
    BY <2>1, <2>5, <2>6 DEF SpanAt
<1>11. \A t \in tokens : /\ SpanAt(t, tick).target = Self /\ SpanAt(t, tick).group = t.group
                         /\ SpanAt(t, tick).id = t.id /\ t.target = Self
                         /\ SpanAt(t, tick).policy = t.policy
                         /\ SpanAt(t, tick).domains = t.domains
                         /\ SpanAt(t, tick).accrual = t.accrual
                         /\ SpanAt(t, tick).last = ExpirationExclusive(t, tick) - 1
                         /\ ExpirationExclusive(t, tick) \in Nat
  BY <1>1, <1>2, SpanFacts, TokenFacts
<1>12. \A t \in tokens : t \in group <=> SpanAt(t, tick) \in rivals
  BY <1>7, <1>9, <1>11 DEF GroupOf, Spans
<1>13. \A s : s \in Spans <=> \E t \in tokens : s = SpanAt(t, tick)
  BY DEF Spans
<1>14. Schedule!Suits(kind)
  <2>1. ASSUME new.policy \in {"MAX_DURATION", "SUM_DURATION"}, NEW t \in group
        PROVE  t.domains = new.domains /\ t.accrual = new.accrual /\ t.policy = new.policy
    BY <1>5, <2>1 DEF Incompatible, new
  <2>2. ASSUME kind.policy \in {"MAX_DURATION", "SUM_DURATION"}, NEW s \in rivals
        PROVE  s.policy = kind.policy /\ s.domains = kind.domains /\ s.accrual = kind.accrual
    <3>1. PICK t \in tokens : s = SpanAt(t, tick)
      BY <1>13, <2>2
    <3>2. t \in group
      BY <1>12, <2>2, <3>1
    <3> QED
      BY <1>7, <1>11, <2>1, <2>2, <3>1, <3>2
  <2> HIDE DEF rivals, group
  <2>3. Schedule!Rivals(kind) = rivals
    BY DEF Schedule!Rivals, Spans, SpanAt, rivals
  <2> QED
    BY <2>2, <2>3 DEF Schedule!Suits
<1>15. Spans' = {SpanAt(t, tick) : t \in tokens'}
  BY <1>3 DEF Spans, SpanAt
<1>16. tokens' = CASE kind.policy = "REJECT_NEW" /\ group # {} -> tokens
                   [] kind.policy = "REPLACE" -> (tokens \ group) \union {added}
                   [] OTHER -> tokens \union {added}
  BY <1>5, <1>7, <1>8 DEF Joins, new
<1>17. kind.policy # "SUM_DURATION" => act = tick + 1
  BY <1>7, <1>8 DEF Joins
<1>18. kind.policy = "SUM_DURATION" =>
         /\ act \in {tick + 1} \union {ExpirationExclusive(t, tick) : t \in group}
         /\ \A t \in group : ExpirationExclusive(t, tick) <= act
  BY <1>7, <1>8 DEF Joins
<1>19. act > tick
  BY <1>8 DEF Joins
<1>20. group = {} <=> rivals = {}
  BY <1>12, <1>13 DEF GroupOf
<1>21. group \subseteq tokens
  BY DEF GroupOf
<1>22. Schedule!Rivals(kind) = rivals
  BY DEF Schedule!Rivals, Spans, SpanAt
<1>23. Schedule!SpanOf(Len(asked), kind, act) = span
  BY DEF Schedule!SpanOf, granted
<1>24. rivals \subseteq Spans /\ span.id = granted /\ kind \in TokenKinds
  OBVIOUS
<1>25. kind.policy = "SUM_DURATION" => Schedule!Behind(kind) = act
  <2> SUFFICES ASSUME kind.policy = "SUM_DURATION" PROVE Schedule!Behind(kind) = act
    OBVIOUS
  <2> HIDE DEF added, group, rivals, span
  <2> DEFINE starts == {tick + 1} \union {s.last + 1 : s \in rivals}
             Clear(n) == n > tick /\ \A s \in rivals : n > s.last
  <2>1. \A s : s \in rivals <=> \E t \in group : s = SpanAt(t, tick)
    BY <1>12, <1>13, <1>21, <1>24
  <2>2. \A t \in group : /\ SpanAt(t, tick).last = ExpirationExclusive(t, tick) - 1
                         /\ ExpirationExclusive(t, tick) \in Nat
    BY <1>11, <1>21
  <2>3. \A t \in group : SpanAt(t, tick).last + 1 = ExpirationExclusive(t, tick)
    BY <2>2
  <2>4. act \in starts
    <3>1. CASE act = tick + 1
      BY <3>1
    <3>2. CASE act # tick + 1
      <4>1. PICK t \in group : act = ExpirationExclusive(t, tick)
        BY <1>18, <3>2
      <4>2. SpanAt(t, tick) \in rivals /\ act = SpanAt(t, tick).last + 1
        BY <2>1, <2>3, <4>1
      <4> QED
        BY <4>2
    <3> QED
      BY <3>1, <3>2
  <2>5. Clear(act)
    <3>1. ASSUME NEW s \in rivals PROVE act > s.last
      <4>1. PICK t \in group : s = SpanAt(t, tick)
        BY <2>1
      <4> QED
        BY <1>8, <1>18, <2>2, <4>1
    <3> QED
      BY <1>19, <3>1
  <2>6. ASSUME NEW n \in starts, Clear(n) PROVE n = act
    <3>1. n \in Int /\ n >= act
      <4>1. CASE act = tick + 1
        <5>1. n \in Int
          <6>1. CASE n = tick + 1
            BY <1>1, <6>1
          <6>2. CASE n # tick + 1
            <7>1. PICK s \in rivals : n = s.last + 1
              BY <6>2
            <7>2. PICK t \in group : s = SpanAt(t, tick)
              BY <2>1
            <7> QED
              BY <2>2, <2>3, <7>1, <7>2
          <6> QED
            BY <6>1, <6>2
        <5> QED
          BY <1>1, <2>6, <4>1, <5>1
      <4>2. CASE act # tick + 1
        <5>1. PICK t \in group : act = ExpirationExclusive(t, tick)
          BY <1>18, <4>2
        <5>2. n > SpanAt(t, tick).last
          BY <2>1, <2>6
        <5>3. n \in Int
          <6>1. CASE n = tick + 1
            BY <1>1, <6>1
          <6>2. CASE n # tick + 1
            <7>1. PICK s \in rivals : n = s.last + 1
              BY <6>2
            <7>2. PICK u \in group : s = SpanAt(u, tick)
              BY <2>1
            <7> QED
              BY <2>2, <2>3, <7>1, <7>2
          <6> QED
            BY <6>1, <6>2
        <5> QED
          BY <2>2, <5>1, <5>2, <5>3
      <4> QED
        BY <4>1, <4>2
    <3>2. act >= n
      <4>1. CASE n = tick + 1
        BY <1>1, <1>8, <1>19, <4>1
      <4>2. CASE n # tick + 1
        <5>1. PICK s \in rivals : n = s.last + 1
          BY <4>2
        <5>2. PICK t \in group : s = SpanAt(t, tick)
          BY <2>1
        <5>3. n = ExpirationExclusive(t, tick)
          BY <2>3, <5>1, <5>2
        <5> QED
          BY <1>8, <1>18, <2>2, <5>2, <5>3
      <4> QED
        BY <4>1, <4>2
    <3> QED
      BY <1>8, <3>1, <3>2
  <2>7. Schedule!Behind(kind) = CHOOSE n \in starts : Clear(n)
    BY <1>22 DEF Schedule!Behind
  <2> HIDE DEF starts, Clear
  <2> QED
    BY <2>4, <2>5, <2>6, <2>7
<1> HIDE DEF added, group, rivals, span
<1> DEFINE soon == Schedule!SpanOf(Len(asked), kind, tick + 1)
           late == Schedule!SpanOf(Len(asked), kind, Schedule!Behind(kind))
           Placed == CASE kind.policy \in {"INDEPENDENT", "MAX_DURATION"} -> Spans \union {soon}
                       [] kind.policy = "SUM_DURATION" -> Spans \union {late}
                       [] kind.policy = "REPLACE" -> (Spans \ rivals) \union {soon}
                       [] kind.policy = "REJECT_NEW" ->
                            IF rivals = {} THEN Spans \union {soon} ELSE Spans
<1>26. Spans' = Placed => Schedule!Ask(kind)
  <2>1. Schedule!Ask(kind) <=>
          /\ Schedule!Suits(kind) /\ asked' = Append(asked, kind)
          /\ UNCHANGED <<tick, Lost>>
          /\ Spans' = CASE kind.policy \in {"INDEPENDENT", "MAX_DURATION"} -> Spans \union {soon}
                        [] kind.policy = "SUM_DURATION" -> Spans \union {late}
                        [] kind.policy = "REPLACE" ->
                             (Spans \ Schedule!Rivals(kind)) \union {soon}
                        [] kind.policy = "REJECT_NEW" ->
                             IF Schedule!Rivals(kind) = {} THEN Spans \union {soon} ELSE Spans
    BY DEF Schedule!Ask, Spans, SpanAt, Lost
  <2> HIDE DEF soon, late
  <2> QED
    BY <1>3, <1>4, <1>5, <1>14, <1>22, <2>1
<1>27. /\ kind.policy = "SUM_DURATION" => late = span
       /\ kind.policy # "SUM_DURATION" => soon = span
  BY <1>17, <1>23, <1>25
<1> HIDE DEF soon, late
<1>28. ASSUME kind.policy = "REJECT_NEW" /\ group # {} PROVE Spans' = Placed
  <2>1. tokens' = tokens
    BY <1>16, <1>28
  <2>2. Spans' = Spans
    BY <1>3, <1>15, <2>1 DEF Spans
  <2> QED
    BY <1>20, <1>28, <2>2
<1>29. ASSUME kind.policy = "REPLACE" PROVE Spans' = Placed
  <2>1. tokens' = (tokens \ group) \union {added}
    BY <1>16, <1>29
  <2>2. \A s : s \in Spans' <=> \E t \in tokens' : s = SpanAt(t, tick)
    BY <1>15
  <2>3. \A s : s \in Spans' <=> s = span \/ \E t \in tokens \ group : s = SpanAt(t, tick)
    BY <1>10, <2>1, <2>2
  <2>4. Spans' = (Spans \ rivals) \union {span}
    BY <1>12, <1>13, <2>3
  <2> QED
    BY <1>27, <1>29, <2>4
<1>30. ASSUME kind.policy # "REPLACE", ~(kind.policy = "REJECT_NEW" /\ group # {})
       PROVE  Spans' = Placed
  <2>1. tokens' = tokens \union {added}
    BY <1>16, <1>30
  <2>2. \A s : s \in Spans' <=> \E t \in tokens' : s = SpanAt(t, tick)
    BY <1>15
  <2>3. \A s : s \in Spans' <=> s = span \/ \E t \in tokens : s = SpanAt(t, tick)
    BY <1>10, <2>1, <2>2
  <2>4. Spans' = Spans \union {span}
    BY <1>13, <2>3
  <2>5. /\ kind.policy \in {"INDEPENDENT", "MAX_DURATION", "SUM_DURATION", "REJECT_NEW"}
        /\ kind.policy = "REJECT_NEW" => rivals = {}
    BY <1>9, <1>20, <1>30 DEF StackPolicies
  <2> QED
    BY <1>27, <2>4, <2>5
<1>31. Spans' = Placed
  BY <1>28, <1>29, <1>30
<1>32. Schedule!Ask(kind)
  BY <1>26, <1>31
<1> QED
  BY <1>32 DEF Schedule!Next, Spans, SpanAt

\* A tick without progression, contained or not, keeps the tokens or ends them all.
LEMMA LostStep ==
  ASSUME TicksTyped, TokensInv, tick' = tick + 1, \A k \in 1 .. tick : past'[k] = past[k],
         past'[tick + 1].progression = "OFF", tokens' = tokens \/ tokens' = {}, asked' = asked
  PROVE  Schedule!Stretch
BY LostNext, StretchStep

\* Tokens that stay or all go within a tick.
LEMMA StillStep ==
  ASSUME TicksTyped, TokensInv, tick' = tick, \A k \in 1 .. tick : past'[k] = past[k],
         tokens' = tokens \/ tokens' = {}, asked' = asked
  PROVE  Schedule!Release \/ UNCHANGED <<tick, Lost, asked, Spans>>
<1>1. Lost' = Lost
  BY LostSame
<1>2. CASE tokens' = tokens
  BY <1>1, <1>2 DEF Spans, SpanAt
<1>3. CASE tokens' = {} /\ tokens # {}
  BY <1>1, <1>3, ReleaseStep
<1> QED
  BY <1>2, <1>3

\* Every step of the action is a step of the schedule of its freezes, or none.
LEMMA ScheduleStep ==
  TicksTyped /\ TimelineInv /\ TokensInv /\ [Next]_vars
    => Schedule!Next \/ UNCHANGED <<tick, Lost, asked, Spans>>
<1> SUFFICES ASSUME TicksTyped, TimelineInv, TokensInv, [Next]_vars
             PROVE  Schedule!Next \/ UNCHANGED <<tick, Lost, asked, Spans>>
  OBVIOUS
<1>1. {t \in tokens : t.target # Self} = {}
  <2>1. \A t \in tokens : t.target = Self
    BY TokenFacts DEF TokensInv, FreezeToken
  <2> QED
    BY <2>1
<1>2. Len(past) = (IF pc = "close" THEN tick + 1 ELSE tick) /\ tick \in Nat
  BY DEF TicksTyped
<1>3. CASE Freeze
  BY <1>3, AskStep
<1>4. CASE Begin \/ UNCHANGED vars
  <2>1. UNCHANGED <<tick, past, tokens, asked>>
    BY <1>4 DEF Begin, vars
  <2> QED
    BY <2>1, StillStep DEF Schedule!Next
<1>5. CASE ArbitrateStage
  <2>1. UNCHANGED <<tick, past, asked>> /\ (tokens' = tokens \/ tokens' = {})
    BY <1>1, <1>5 DEF ArbitrateStage
  <2> QED
    BY <2>1, StillStep DEF Schedule!Next
<1>6. CASE ProgressStage
  <2>1. /\ UNCHANGED <<tick, asked>> /\ (tokens' = tokens \/ tokens' = {})
        /\ Remember(IF Running THEN Accrual ELSE "OFF", start.deferring)
    BY <1>1, <1>6 DEF ProgressStage
  <2>2. start.deferring \in BOOLEAN /\ Len(past) = tick
    BY <1>6 DEF ProgressStage, TicksTyped
  <2>3. (IF Running THEN Accrual ELSE "OFF") \in Accruals \union {"OFF"}
    BY AccrualType
  <2>4. \A k \in 1 .. tick : past'[k] = past[k]
    BY <2>1, <2>2, <2>3, Remembered
  <2> QED
    BY <2>1, <2>4, StillStep DEF Schedule!Next
<1>7. CASE Close
  <2>1. /\ pc = "close" /\ tick' = tick + 1 /\ UNCHANGED <<past, asked>>
        /\ tokens' = ExpireTokens(tokens, tick)
    BY <1>7 DEF Close
  <2>2. CASE past[tick + 1].progression = "OFF"
    <3>1. tokens = {}
      BY <2>1, <2>2 DEF TokensInv
    <3>2. tokens' = {}
      BY <2>1, <3>1 DEF ExpireTokens
    <3> QED
      BY <2>1, <2>2, <3>2, LostStep DEF Schedule!Next
  <2>3. CASE past[tick + 1].progression # "OFF"
    <3>1. Lost' = Lost + 0 /\ Lost \in Nat
      BY <2>1, <2>3, LostNext
    <3>2. Lost' = Lost
      BY <3>1
    <3> QED
      BY <2>1, <3>2, TickStep DEF Schedule!Next
  <2> QED
    BY <2>2, <2>3
<1>8. CASE BufferFault \/ ProgressFault \/ FaultElsewhere
  <2>1. /\ tick' = tick + 1 /\ pc # "close" /\ (tokens' = tokens \/ tokens' = {})
        /\ Remember("OFF", FALSE) /\ asked' = asked
    BY <1>1, <1>8 DEF BufferFault, ProgressFault, FaultElsewhere, Contain
  <2>2. Len(past) = tick
    BY <1>2, <2>1
  <2>3. /\ \A k \in 1 .. tick : past'[k] = past[k]
        /\ past'[tick + 1].progression = "OFF"
    BY <2>1, <2>2, Remembered
  <2> QED
    BY <2>1, <2>3, LostStep DEF Schedule!Next
<1> QED
  BY <1>3, <1>4, <1>5, <1>6, <1>7, <1>8 DEF Next

\* Freeze tokens, which the runtime counts down tick by tick and whose group it rearranges when
\* a token joins (freezes.py), freeze for the absolute spans of FreezeSchedule.
THEOREM FreezesImplemented == Spec => FreezeSpec
<1>1. Init => Schedule!Init
  <2> SUFFICES ASSUME Init PROVE Schedule!Init
    OBVIOUS
  <2>1. tick = 0 /\ tokens = {} /\ asked = << >>
    BY DEF Init
  <2>2. {k \in 1 .. tick : past[k].progression = "OFF"} = {}
    BY <2>1
  <2>3. Lost = 0 /\ Spans = {}
    BY <2>1, <2>2, FS_EmptySet DEF Lost, Spans
  <2> QED
    BY <2>1, <2>3 DEF Schedule!Init, Lost, Spans, SpanAt
<1>2. Init => TicksTyped /\ TimelineInv /\ TokensInv
  BY TicksTypedInit, TimelineInvInit, TokensInvInit
<1>3. TicksTyped /\ TimelineInv /\ TokensInv /\ [Next]_vars
        => (TicksTyped /\ TimelineInv /\ TokensInv)'
  BY TicksTypedNext, TimelineInvNext, TokensInvNext
<1>4. TicksTyped /\ TimelineInv /\ TokensInv /\ [Next]_vars
        => [Schedule!Next]_(Schedule!vars)
  BY ScheduleStep DEF Schedule!vars, Lost, Spans, SpanAt
<1> QED
  BY <1>1, <1>2, <1>3, <1>4, PTL DEF Spec, FreezeSpec, Schedule!Spec
-----------------------------------------------------------------------------
(* The durations of a group *)

\* While no tick was lost, two SUM_DURATION tokens of a group freeze one after the other.
SerialInv ==
  Lost = 0 =>
    \A t, u \in tokens :
      /\ t.id # u.id /\ t.group = u.group
      /\ t.policy = "SUM_DURATION" /\ u.policy = "SUM_DURATION"
      => ExpirationExclusive(t, tick) <= u.act \/ ExpirationExclusive(u, tick) <= t.act

\* A token that joins queues behind all of its group.
LEMMA SerialFreeze ==
  ASSUME TicksTyped, TokensInv, SerialInv, Freeze
  PROVE  SerialInv'
<1>1. tick \in Nat /\ granted \in Nat
  <2>1. tick \in Nat /\ setup.tokens \in Nat
    BY DEF TicksTyped, SetupType
  <2> QED
    BY <2>1 DEF TokensInv
<1>2. tick' = tick /\ past' = past
  BY DEF Freeze
<1>3. Lost' = Lost
  BY <1>2, LostSame
<1>4. tokens \in SUBSET FreezeToken({Self}, STRING)
  BY DEF TokensInv
<1>5. PICK kind \in TokenKinds : tokens' = AddToken(tokens, Created(granted, tick, kind))
  BY DEF Freeze
<1>6. PICK bound \in Nat : \A t \in tokens : ExpirationExclusive(t, tick) <= bound
  BY DEF TokensInv
<1> DEFINE new == Created(granted, tick, kind)
<1>7. new \in FreezeToken({Self}, STRING) /\ new.act = tick + 1
  BY <1>1, CreatedType
<1> HIDE DEF new
<1>8. PICK act \in Nat : Joins(tokens, new, tick, bound, act)
  BY <1>1, <1>4, <1>6, <1>7, AddedFacts
<1> DEFINE added == [new EXCEPT !.act = act]
<1>9. added.group = new.group /\ added.policy = new.policy /\ added.act = act
  BY <1>7 DEF FreezeToken
<1>10. tokens' \subseteq tokens \union {added}
  BY <1>5, <1>8 DEF Joins, new
<1>11. ASSUME NEW t \in tokens, t.group = added.group, added.policy = "SUM_DURATION"
       PROVE  ExpirationExclusive(t, tick) <= added.act
  <2>1. t \in GroupOf(tokens, new)
    <3>1. t.target = Self /\ new.target = Self
      BY <1>4, <1>7 DEF FreezeToken
    <3> QED
      BY <1>9, <1>11, <3>1 DEF GroupOf
  <2> QED
    BY <1>8, <1>9, <1>11, <2>1 DEF Joins
<1> HIDE DEF added
<1> QED
  BY <1>2, <1>3, <1>10, <1>11 DEF SerialInv

\* The ends of the tokens stay where they are as a tick goes by.
LEMMA SerialClose ==
  ASSUME TicksTyped, TokensInv, SerialInv, tick' = tick + 1, Lost' = Lost,
         tokens' = ExpireTokens(tokens, tick)
  PROVE  SerialInv'
<1>1. tick \in Nat /\ tokens \in SUBSET FreezeToken({Self}, STRING)
  <2>1. tick \in Nat
    BY DEF TicksTyped
  <2> QED
    BY <2>1 DEF TokensInv
<1>2. \A u \in tokens' :
        \E t \in tokens : /\ Alike(u, t)
                          /\ ExpirationExclusive(u, tick + 1) = ExpirationExclusive(t, tick)
  BY <1>1, ExpireFacts
<1> SUFFICES ASSUME Lost = 0, NEW u \in tokens', NEW v \in tokens', u.id # v.id,
                    u.group = v.group, u.policy = "SUM_DURATION", v.policy = "SUM_DURATION"
             PROVE  \/ ExpirationExclusive(u, tick + 1) <= v.act
                    \/ ExpirationExclusive(v, tick + 1) <= u.act
  BY DEF SerialInv
<1>3. PICK t \in tokens : /\ Alike(u, t)
                          /\ ExpirationExclusive(u, tick + 1) = ExpirationExclusive(t, tick)
  BY <1>2
<1>4. PICK w \in tokens : /\ Alike(v, w)
                          /\ ExpirationExclusive(v, tick + 1) = ExpirationExclusive(w, tick)
  BY <1>2
<1> QED
  BY <1>3, <1>4 DEF SerialInv, Alike

\* A tick that passes was lost, or counts the tokens down; a stage moves none.
LEMMA SerialNext == TicksTyped /\ TimelineInv /\ TokensInv /\ SerialInv /\ [Next]_vars => SerialInv'
<1> SUFFICES ASSUME TicksTyped, TimelineInv, TokensInv, SerialInv, [Next]_vars
             PROVE  SerialInv'
  OBVIOUS
<1>1. {t \in tokens : t.target # Self} = {}
  <2>1. \A t \in tokens : t.target = Self
    BY TokenFacts DEF TokensInv, FreezeToken
  <2> QED
    BY <2>1
<1>2. Len(past) = (IF pc = "close" THEN tick + 1 ELSE tick) /\ tick \in Nat
  BY DEF TicksTyped
<1>3. ASSUME tick' = tick, \A k \in 1 .. tick : past'[k] = past[k],
             tokens' = tokens \/ tokens' = {}
      PROVE  SerialInv'
  <2>1. Lost' = Lost
    BY <1>3, LostSame
  <2> QED
    BY <1>3, <2>1 DEF SerialInv
<1>4. CASE Begin \/ ArbitrateStage \/ UNCHANGED vars
  <2>1. UNCHANGED <<tick, past>> /\ (tokens' = tokens \/ tokens' = {})
    BY <1>1, <1>4 DEF Begin, ArbitrateStage, vars
  <2> QED
    BY <1>3, <2>1
<1>5. CASE ProgressStage
  <2>1. /\ tick' = tick /\ (tokens' = tokens \/ tokens' = {})
        /\ Remember(IF Running THEN Accrual ELSE "OFF", start.deferring)
    BY <1>1, <1>5 DEF ProgressStage
  <2>2. start.deferring \in BOOLEAN /\ Len(past) = tick
    BY <1>5 DEF ProgressStage, TicksTyped
  <2>3. (IF Running THEN Accrual ELSE "OFF") \in Accruals \union {"OFF"}
    BY AccrualType
  <2>4. \A k \in 1 .. tick : past'[k] = past[k]
    BY <2>1, <2>2, <2>3, Remembered
  <2> QED
    BY <1>3, <2>1, <2>4
<1>6. ASSUME tick' = tick + 1, \A k \in 1 .. tick : past'[k] = past[k],
             past'[tick + 1].progression = "OFF"
      PROVE  SerialInv'
  <2>1. Lost' = Lost + 1 /\ Lost \in Nat
    BY <1>6, LostNext
  <2>2. Lost' # 0
    BY <2>1
  <2> QED
    BY <2>2 DEF SerialInv
<1>7. CASE Close
  <2>1. /\ tick' = tick + 1 /\ past' = past /\ tokens' = ExpireTokens(tokens, tick)
    BY <1>7 DEF Close
  <2>2. CASE past[tick + 1].progression # "OFF"
    <3>1. Lost' = Lost + 0 /\ Lost \in Nat
      BY <2>1, <2>2, LostNext
    <3>2. Lost' = Lost
      BY <3>1
    <3> QED
      BY <2>1, <3>2, SerialClose
  <2> QED
    BY <1>6, <2>1, <2>2
<1>8. CASE BufferFault \/ ProgressFault \/ FaultElsewhere
  <2>1. tick' = tick + 1 /\ pc # "close" /\ Remember("OFF", FALSE)
    BY <1>8 DEF BufferFault, ProgressFault, FaultElsewhere, Contain
  <2>2. Len(past) = tick
    BY <1>2, <2>1
  <2>3. /\ \A k \in 1 .. tick : past'[k] = past[k]
        /\ past'[tick + 1].progression = "OFF"
    BY <2>1, <2>2, Remembered
  <2> QED
    BY <1>6, <2>1, <2>3
<1> QED
  BY <1>4, <1>5, <1>7, <1>8, SerialFreeze DEF Next

\* SUM_DURATION serializes the durations of its group (spec 18.5) as long as no tick was undone:
\* only a contained tick, which counts no token down (_contain_fault), lets one span run into
\* the next.
THEOREM SerializedUntilFault == Spec => [](Lost = 0 => GroupsSerialized)
<1>1. ASSUME TicksTyped, TokensInv, SerialInv, Lost = 0 PROVE GroupsSerialized
  <2> SUFFICES ASSUME NEW t \in tokens, NEW u \in GroupOf(tokens, t), t.id # u.id,
                      t.policy = "SUM_DURATION", u.policy = "SUM_DURATION",
                      ~(t.act > tick), ~(u.act > tick)
               PROVE  FALSE
    BY DEF GroupsSerialized
  <2>1. tick \in Nat /\ u \in tokens /\ u.group = t.group
    BY <1>1 DEF TicksTyped, GroupOf
  <2>2. /\ t.act \in Nat /\ ExpirationExclusive(t, tick) \in Nat
        /\ ExpirationExclusive(t, tick) > tick
        /\ u.act \in Nat /\ ExpirationExclusive(u, tick) \in Nat
        /\ ExpirationExclusive(u, tick) > tick
    BY <1>1, <2>1, TokenFacts DEF TokensInv
  <2>3. ExpirationExclusive(t, tick) <= u.act \/ ExpirationExclusive(u, tick) <= t.act
    BY <1>1, <2>1 DEF SerialInv
  <2> QED
    BY <2>1, <2>2, <2>3
<1>2. Init => TicksTyped /\ TimelineInv /\ TokensInv /\ SerialInv
  <2>1. Init => SerialInv
    BY DEF Init, SerialInv
  <2> QED
    BY <2>1, TicksTypedInit, TimelineInvInit, TokensInvInit
<1>3. TicksTyped /\ TimelineInv /\ TokensInv /\ SerialInv /\ [Next]_vars
        => (TicksTyped /\ TimelineInv /\ TokensInv /\ SerialInv)'
  BY TicksTypedNext, TimelineInvNext, TokensInvNext, SerialNext
<1>4. TicksTyped /\ TimelineInv /\ TokensInv /\ SerialInv => (Lost = 0 => GroupsSerialized)
  BY <1>1
<1> QED
  BY <1>2, <1>3, <1>4, PTL DEF Spec

-----------------------------------------------------------------------------
(* The input buffer *)

\* The ticks up to the n-th in which e aged.
AgedIn(e, n) == {k \in e.at + 1 .. n : ~past[k].buffer /\ past[k].progression # "OFF"}

\* What is buffered was captured before the tick that comes next, once for every input, and has
\* what is left of its lifetime after the ticks that aged it.  The tick going by is not counted
\* before its maintenance.
BufferInv ==
  /\ Buffered(buffer, Commands, Capacity)
  /\ \A e \in buffer : e.at <= tick /\ (pc = "begin" => e.at < tick)
  /\ Running => \A e \in buffer : e.rem + Cardinality(AgedIn(e, tick)) = Lifetime
  /\ pc # "begin" =>
       /\ start.inputs \subseteq Inputs
       /\ Buffered(start.buffer, Commands, Capacity)
       /\ \A e \in start.buffer : e.at < tick
  /\ pc = "close" /\ Running =>
       /\ past[tick + 1].progression # "OFF"
       /\ past[tick + 1].buffer = Frozen("BUFFER_EXPIRY")

\* The ticks of an entry.
LEMMA EntryTicks ==
  ASSUME NEW S, Buffered(S, Commands, Capacity), NEW e \in S
  PROVE  e \in BufferEntry(Commands) /\ e.at \in Nat /\ e.id \in Nat /\ e.rem \in Nat \ {0}
BY DEF Buffered, BufferEntry

\* Counting the ticks of an entry, tick by tick.
LEMMA AgedCount ==
  ASSUME NEW e, e.at \in Nat, NEW n \in Nat
  PROVE  /\ IsFiniteSet(AgedIn(e, n)) /\ Cardinality(AgedIn(e, n)) \in Nat
         /\ e.at >= n => Cardinality(AgedIn(e, n)) = 0
         /\ e.at <= n =>
              Cardinality(AgedIn(e, n + 1)) = Cardinality(AgedIn(e, n))
                + IF ~past[n + 1].buffer /\ past[n + 1].progression # "OFF" THEN 1 ELSE 0
<1>1. IsFiniteSet(AgedIn(e, n))
  <2>1. IsFiniteSet(e.at + 1 .. n)
    BY FS_Interval
  <2> QED
    BY <2>1, FS_Subset DEF AgedIn
<1>2. Cardinality(AgedIn(e, n)) \in Nat
  BY <1>1, FS_CardinalityType
<1>3. ASSUME e.at >= n PROVE Cardinality(AgedIn(e, n)) = 0
  <2>1. AgedIn(e, n) = {}
    BY <1>3 DEF AgedIn
  <2> QED
    BY <2>1, FS_EmptySet
<1>4. ASSUME e.at <= n, ~past[n + 1].buffer, past[n + 1].progression # "OFF"
      PROVE  Cardinality(AgedIn(e, n + 1)) = Cardinality(AgedIn(e, n)) + 1
  <2>1. AgedIn(e, n + 1) = AgedIn(e, n) \union {n + 1} /\ n + 1 \notin AgedIn(e, n)
    BY <1>4 DEF AgedIn
  <2> QED
    BY <1>1, <1>2, <2>1, FS_AddElement
<1>5. ASSUME e.at <= n, past[n + 1].buffer \/ past[n + 1].progression = "OFF"
      PROVE  Cardinality(AgedIn(e, n + 1)) = Cardinality(AgedIn(e, n))
  <2>1. AgedIn(e, n + 1) = AgedIn(e, n)
    BY <1>5 DEF AgedIn
  <2> QED
    BY <2>1
<1> QED
  BY <1>1, <1>2, <1>3, <1>4, <1>5

\* Ticks gone by stay.
LEMMA AgedStays ==
  ASSUME TicksTyped, \A k \in 1 .. Len(past) : past'[k] = past[k],
         NEW e, e.at \in Nat, NEW n \in Nat, n <= Len(past)
  PROVE  AgedIn(e, n)' = AgedIn(e, n)
<1>1. Len(past) \in Nat
  BY DEF TicksTyped
<1>2. \A k \in e.at + 1 .. n : past'[k] = past[k]
  BY <1>1
<1> QED
  BY <1>2 DEF AgedIn

\* The buffer starts empty.
LEMMA BufferInvInit == Init => BufferInv
<1> SUFFICES ASSUME Init PROVE BufferInv
  OBVIOUS
<1>1. Capacity \in Nat
  BY ClockAssumption
<1>2. Buffered({}, Commands, Capacity)
  BY <1>1, FS_EmptySet DEF Buffered
<1> QED
  BY <1>2 DEF Init, BufferInv

\* The inputs of a tick are taken one after the other.
LEMMA InputsSorted ==
  ASSUME NEW inputs \in SUBSET Inputs
  PROVE  /\ Cardinality(inputs) \in Nat
         /\ DOMAIN Sorted(inputs, InputKey) = 1 .. Cardinality(inputs)
         /\ \A k \in 1 .. Cardinality(inputs) : Sorted(inputs, InputKey)[k] \in inputs
<1> DEFINE key == [i \in inputs |-> InputKey(i)]
<1>1. IsFiniteSet(inputs) /\ Cardinality(inputs) \in Nat
  BY InputAssumption, FS_Subset, FS_CardinalityType
<1>2. ASSUME NEW i \in inputs PROVE InputKey(i) \in Key(2) /\ InputKey(i)[2] = i.id
  <2>1. i.seq \in Int /\ i.id \in Int
    BY InputAssumption
  <2> QED
    BY <2>1 DEF InputKey, Key
<1>3. key \in [inputs -> Key(2)]
  BY <1>2
<1>4. ASSUME NEW x \in inputs, NEW y \in inputs, key[x] = key[y] PROVE x = y
  <2>1. InputKey(x) = InputKey(y)
    BY <1>4
  <2>2. x.id = y.id
    BY <1>2, <2>1
  <2> QED
    BY <2>2, InputAssumption
<1>5. ASSUME NEW x \in inputs
      PROVE  {y \in inputs : LexLess(InputKey(y), InputKey(x))} = Before(inputs, key, x)
  BY DEF Before
<1> HIDE DEF key
<1>6. ASSUME NEW k \in 1 .. Cardinality(inputs) PROVE Sorted(inputs, InputKey)[k] \in inputs
  <2>1. k - 1 \in 0 .. Cardinality(inputs) - 1
    BY <1>1
  <2>2. \E x \in inputs : Cardinality(Before(inputs, key, x)) = k - 1
    BY <1>1, <1>3, <1>4, <2>1, Ranked
  <2>3. \E x \in inputs :
          Cardinality({y \in inputs : LexLess(InputKey(y), InputKey(x))}) = k - 1
    BY <1>5, <2>2
  <2>4. Sorted(inputs, InputKey)[k] =
          CHOOSE x \in inputs :
            Cardinality({y \in inputs : LexLess(InputKey(y), InputKey(x))}) = k - 1
    BY DEF Sorted
  <2> QED
    BY <2>3, <2>4
<1> QED
  BY <1>1, <1>6 DEF Sorted

\* What a tick captures is typed, is of this tick and has its whole lifetime.
LEMMA CapturesTyped ==
  ASSUME TicksTyped, NEW inputs \in SUBSET Inputs
  PROVE  /\ Len(Captures(inputs)) \in Nat
         /\ \A k \in 1 .. Len(Captures(inputs)) :
              /\ Captures(inputs)[k] \in BufferEntry(Commands)
              /\ Captures(inputs)[k].at = tick /\ Captures(inputs)[k].rem = Lifetime
         /\ ~Running => Len(Captures(inputs)) = 0
<1>1. CASE ~Running \/ Frozen("INPUT_CAPTURE")
  <2>1. Captures(inputs) = << >>
    BY <1>1 DEF Captures
  <2>2. Len(<< >>) = 0 /\ \A k \in 1 .. 0 : FALSE
    OBVIOUS
  <2> QED
    BY <2>1, <2>2
<1>2. CASE Running /\ ~Frozen("INPUT_CAPTURE")
  <2> DEFINE order == Sorted(inputs, InputKey)
             n == Cardinality(inputs)
  <2>1. n \in Nat /\ DOMAIN order = 1 .. n /\ \A k \in 1 .. n : order[k] \in inputs
    BY InputsSorted
  <2>2. Captures(inputs) = [k \in 1 .. n |-> Capture(order[k], tick, Lifetime)]
    BY <1>2, <2>1 DEF Captures
  <2> HIDE DEF order, n
  <2>3. Len(Captures(inputs)) = n
    BY <2>1, <2>2
  <2>4. ASSUME NEW k \in 1 .. n
        PROVE  /\ Captures(inputs)[k] \in BufferEntry(Commands)
               /\ Captures(inputs)[k].at = tick /\ Captures(inputs)[k].rem = Lifetime
    <3>1. order[k] \in Inputs
      BY <2>1
    <3>2. order[k].id \in Nat /\ order[k].cmd \in Commands /\ order[k].seq \in Nat
      BY <3>1, InputAssumption
    <3>3. tick \in Nat /\ Lifetime \in Nat \ {0}
      BY ClockAssumption DEF TicksTyped
    <3>4. Captures(inputs)[k] = Capture(order[k], tick, Lifetime)
      BY <2>2
    <3> QED
      BY <3>2, <3>3, <3>4 DEF Capture, BufferEntry
  <2> QED
    BY <1>2, <2>1, <2>3, <2>4
<1> QED
  BY <1>1, <1>2
\* What a tick captures leaves a buffer of that kind, and evicts only the oldest of a full one.
LEMMA BeginBuffer ==
  ASSUME TicksTyped, BufferInv, Begin
  PROVE  /\ BufferInv'
         /\ \A e \in buffer \ buffer' : /\ setup.overflow = "DROP_OLDEST"
                                        /\ Cardinality(buffer') = Capacity
                                        /\ \A f \in buffer' : LexLess(Age(e), Age(f))
<1>1. /\ pc = "begin" /\ pc' = "arbitrate" /\ tick' = tick /\ past' = past /\ action' = action
      /\ tick \in Nat /\ Capacity \in Nat /\ Lifetime \in Nat
  BY ClockAssumption DEF Begin, TicksTyped
<1>2. PICK inputs \in SUBSET Inputs :
        /\ ~CaptureFaults(inputs)
        /\ buffer' = Captured(Captures(inputs))[Len(Captures(inputs))]
        /\ start'.inputs = inputs /\ start'.buffer = buffer
  BY DEF Begin, Offered
<1> DEFINE entries == Captures(inputs)
           after == Captured(entries)
           n == Len(entries)
<1>3. /\ n \in Nat
      /\ \A k \in 1 .. n : /\ entries[k] \in BufferEntry(Commands)
                           /\ entries[k].at = tick /\ entries[k].rem = Lifetime
      /\ ~Running => n = 0
  BY CapturesTyped
<1>4. setup.overflow \in OverflowPolicies
  BY DEF TicksTyped, SetupType
<1>5. Capturing(after, buffer, entries, Capacity, setup.overflow)
  <2>1. \E f : Capturing(f, buffer, entries, Capacity, setup.overflow)
    BY <1>3, CapturingExists
  <2> HIDE DEF entries
  <2> QED
    BY <2>1 DEF Capturing, Captured
<1>6. \A k \in 1 .. n : ~CaptureRaises(after[k - 1], entries[k], Capacity, setup.overflow)
  BY <1>2 DEF CaptureFaults
<1>7. Buffered(buffer, Commands, Capacity) /\ \A e \in buffer : e.at < tick
  BY <1>1 DEF BufferInv
<1>8. buffer' = after[n]
  BY <1>2
<1> HIDE DEF entries, after, n
<1>9. ASSUME NEW m \in 0 .. Len(entries)
      PROVE  /\ Buffered(after[m], Commands, Capacity)
             /\ \A e \in after[m] : e \in buffer \/ \E j \in 1 .. m : e = entries[j]
             /\ \A e \in buffer \ after[m] : /\ setup.overflow = "DROP_OLDEST"
                                             /\ Cardinality(after[m]) = Capacity
                                             /\ \A f \in after[m] : LexLess(Age(e), Age(f))
  <2>1. Len(entries) \in Nat /\ Len(entries) = n
    BY <1>3 DEF n
  <2>2. \A k \in 1 .. Len(entries) :
          entries[k] \in BufferEntry(Commands) /\ entries[k].at = tick
    BY <1>3, <2>1
  <2>3. \A k \in 1 .. Len(entries) :
          ~CaptureRaises(after[k - 1], entries[k], Capacity, setup.overflow)
    BY <1>6, <2>1
  <2>4. CaptureRun(after, buffer, Commands, entries, tick, Capacity, setup.overflow)
    BY <1>1, <1>4, <1>5, <1>7, <2>1, <2>2, <2>3 DEF CaptureRun
  <2> QED
    BY <2>4, CapturingEvicts
<1>10. n \in 0 .. Len(entries)
  BY <1>3 DEF n
<1>11. /\ Buffered(buffer', Commands, Capacity)
       /\ \A e \in buffer' : e \in buffer \/ \E j \in 1 .. n : e = entries[j]
       /\ \A e \in buffer \ buffer' : /\ setup.overflow = "DROP_OLDEST"
                                      /\ Cardinality(buffer') = Capacity
                                      /\ \A f \in buffer' : LexLess(Age(e), Age(f))
  BY <1>8, <1>9, <1>10
<1>12. ASSUME NEW e \in buffer'
       PROVE  e.at <= tick /\ (Running => e.rem + Cardinality(AgedIn(e, tick)) = Lifetime)
  <2>1. CASE e \in buffer
    <3>1. e.at \in Nat /\ e.at < tick
      BY <1>7, <2>1, EntryTicks
    <3> QED
      BY <1>1, <2>1, <3>1 DEF BufferInv
  <2>2. CASE e \notin buffer
    <3>1. PICK j \in 1 .. n : e = entries[j]
      BY <1>11, <2>2
    <3>2. e.at = tick /\ e.rem = Lifetime
      BY <1>3, <3>1
    <3>3. Cardinality(AgedIn(e, tick)) = 0
      BY <1>1, <3>2, AgedCount
    <3> QED
      BY <1>1, <3>2, <3>3
  <2> QED
    BY <2>1, <2>2
<1>13. BufferInv'
  <2>1. \A e \in buffer' : Running' => e.rem + Cardinality(AgedIn(e, tick)') = Lifetime
    BY <1>1, <1>12 DEF AgedIn, Running
  <2> QED
    BY <1>1, <1>2, <1>7, <1>11, <1>12, <2>1 DEF BufferInv
<1> QED
  BY <1>11, <1>13

\* A part of a buffer is one.
LEMMA BufferedPart ==
  ASSUME NEW S, Buffered(S, Commands, Capacity), NEW T \in SUBSET S
  PROVE  Buffered(T, Commands, Capacity)
<1>1. IsFiniteSet(S) /\ Cardinality(S) <= Capacity /\ Capacity \in Nat
  BY ClockAssumption DEF Buffered
<1>2. IsFiniteSet(T) /\ Cardinality(T) <= Cardinality(S)
  BY <1>1, FS_Subset
<1>3. Cardinality(T) \in Nat /\ Cardinality(S) \in Nat
  BY <1>1, <1>2, FS_CardinalityType
<1>4. Cardinality(T) <= Capacity
  BY <1>1, <1>2, <1>3
<1> QED
  BY <1>2, <1>4 DEF Buffered

\* What a transition consumes leaves the buffer, and nothing joins it.
LEMMA ConsumedPart ==
  ASSUME NEW accepted
  PROVE  Consumed(accepted) \subseteq buffer
BY DEF Consumed, ApplyConsumption

\* The tick goes by for the entries when the progression is due.
LEMMA ProgressBuffer ==
  ASSUME TicksTyped, BufferInv, ProgressStage
  PROVE  BufferInv'
<1>1. /\ pc = "progress" /\ pc' = "close" /\ tick' = tick /\ tick \in Nat /\ Len(past) = tick
      /\ UNCHANGED <<buffer, start>>
  BY DEF ProgressStage, TicksTyped
<1>2. /\ \A k \in 1 .. Len(past) : past'[k] = past[k]
      /\ Running => past'[tick + 1].progression \in Accruals
      /\ past'[tick + 1].buffer = Frozen("BUFFER_EXPIRY")
  <2>1. Remember(IF Running THEN Accrual ELSE "OFF", start.deferring) /\ start.deferring \in BOOLEAN
    BY <1>1 DEF ProgressStage, TicksTyped
  <2>2. (IF Running THEN Accrual ELSE "OFF") \in Accruals \union {"OFF"}
        /\ (Running => Accrual \in Accruals)
    BY AccrualType
  <2>3. /\ \A k \in 1 .. Len(past) : past'[k] = past[k]
        /\ past'[Len(past) + 1].progression = IF Running THEN Accrual ELSE "OFF"
    BY <2>1, <2>2, Remembered
  <2>4. past'[Len(past) + 1].buffer = Frozen("BUFFER_EXPIRY")
    <3>1. past \in Seq(PastTick) /\ Len(past) \in Nat
      BY DEF TicksTyped
    <3> DEFINE p == [progression |-> IF Running THEN Accrual ELSE "OFF",
                     deferring |-> start.deferring, buffer |-> Frozen("BUFFER_EXPIRY")]
    <3>2. past' = Append(past, p) /\ p.buffer = Frozen("BUFFER_EXPIRY")
      BY <2>1 DEF Remember
    <3> HIDE DEF p
    <3>3. past'[Len(past) + 1] = p
      BY <3>1, <3>2
    <3> QED
      BY <3>2, <3>3
  <2> QED
    BY <1>1, <2>2, <2>3, <2>4
<1>3. Running' => Running /\ tokens' = tokens
  BY DEF ProgressStage, Running
<1>4. Running' => Frozen("BUFFER_EXPIRY")' = Frozen("BUFFER_EXPIRY")
  BY <1>1, <1>3 DEF Frozen, IsFrozen, ActiveTokens
<1>5. \A e \in buffer : AgedIn(e, tick)' = AgedIn(e, tick)
  BY <1>1, <1>2, EntryTicks, AgedStays DEF BufferInv
<1>6. "OFF" \notin Accruals
  BY DEF Accruals
<1> QED
  BY <1>1, <1>2, <1>3, <1>4, <1>5, <1>6 DEF BufferInv
\* The maintenance ages every entry of a running action whose BUFFER_EXPIRY is not frozen.
LEMMA CloseBuffer ==
  ASSUME TicksTyped, BufferInv, Close
  PROVE  /\ BufferInv'
         /\ Running => \A e \in buffer :
              (\A f \in buffer' : f.id # e.id) <=> Cardinality(AgedIn(e, tick + 1)) >= Lifetime
<1> DEFINE frozen == Frozen("BUFFER_EXPIRY")
<1>1. /\ pc = "close" /\ pc' = "begin" /\ tick' = tick + 1 /\ tick \in Nat /\ Lifetime \in Nat
      /\ past' = past /\ action' = action /\ buffer' = ExpireEntries(buffer, frozen)
  BY ClockAssumption DEF Close, TicksTyped
<1> HIDE DEF frozen
<1>2. /\ Buffered(buffer, Commands, Capacity) /\ \A e \in buffer : e.at <= tick
      /\ Running => \A e \in buffer : e.rem + Cardinality(AgedIn(e, tick)) = Lifetime
      /\ Running => past[tick + 1].progression # "OFF" /\ past[tick + 1].buffer = frozen
  BY <1>1 DEF BufferInv, frozen
<1>3. /\ buffer \subseteq BufferEntry(Commands) /\ IsFiniteSet(buffer)
      /\ \A e, f \in buffer : e.id = f.id => e = f
  BY <1>2 DEF Buffered
<1>4. ASSUME NEW e \in buffer
      PROVE  /\ e.at \in Nat /\ e.rem \in Nat \ {0} /\ e.id \in Nat
             /\ Cardinality(AgedIn(e, tick)) \in Nat
             /\ Running => Cardinality(AgedIn(e, tick + 1)) =
                             Cardinality(AgedIn(e, tick)) + IF frozen THEN 0 ELSE 1
  <2>1. e.at \in Nat /\ e.rem \in Nat \ {0} /\ e.id \in Nat
    BY <1>2, EntryTicks
  <2> QED
    BY <1>1, <1>2, <2>1, AgedCount
<1>5. CASE frozen
  <2>1. buffer' = buffer
    BY <1>1, <1>5 DEF ExpireEntries
  <2>2. ASSUME NEW e \in buffer
        PROVE  e.at < tick + 1 /\ (Running => e.rem + Cardinality(AgedIn(e, tick + 1)) = Lifetime)
    BY <1>1, <1>2, <1>4, <1>5
  <2>3. BufferInv'
    <3>1. \A e \in buffer' : Running' => e.rem + Cardinality(AgedIn(e, tick)') = Lifetime
      BY <1>1, <2>1, <2>2 DEF AgedIn, Running
    <3>2. \A e \in buffer' : e.at <= tick' /\ e.at < tick'
      BY <1>1, <1>4, <2>1, <2>2
    <3> QED
      BY <1>1, <1>2, <2>1, <3>1, <3>2 DEF BufferInv
  <2>4. ASSUME Running, NEW e \in buffer
        PROVE  (\A f \in buffer' : f.id # e.id) <=> Cardinality(AgedIn(e, tick + 1)) >= Lifetime
    <3>1. e \in buffer'
      BY <2>1
    <3>2. e.rem + Cardinality(AgedIn(e, tick + 1)) = Lifetime /\ e.rem \in Nat \ {0}
          /\ Cardinality(AgedIn(e, tick + 1)) \in Nat
      BY <1>4, <1>5, <2>2, <2>4
    <3>3. ~(Cardinality(AgedIn(e, tick + 1)) >= Lifetime)
      BY <1>1, <3>2
    <3> QED
      BY <3>1, <3>3
  <2> QED
    BY <2>3, <2>4
<1>6. CASE ~frozen
  <2> DEFINE stay == {e \in buffer : e.rem > 1}
             aged == [e \in stay |-> [e EXCEPT !.rem = @ - 1]]
  <2>1. buffer' = {aged[e] : e \in stay}
    BY <1>1, <1>6 DEF ExpireEntries
  <2>2. ASSUME NEW e \in stay
        PROVE  /\ aged[e] \in BufferEntry(Commands) /\ aged[e].id = e.id /\ aged[e].at = e.at
               /\ aged[e].rem = e.rem - 1 /\ e \in buffer
    <3> DEFINE r == e.rem - 1
    <3>1. e \in BufferEntry(Commands) /\ r \in Nat \ {0} /\ aged[e] = [e EXCEPT !.rem = r]
      BY <1>3, <1>4
    <3> HIDE DEF r, aged
    <3>2. /\ aged[e] \in BufferEntry(Commands) /\ aged[e].id = e.id /\ aged[e].at = e.at
          /\ aged[e].rem = r
      BY <3>1 DEF BufferEntry
    <3> QED
      BY <3>2 DEF r
  <2> HIDE DEF aged
  <2>3. \A f \in buffer' : \E e \in stay : f = aged[e]
    BY <2>1
  <2>4. Buffered(buffer', Commands, Capacity)
    <3>1. aged \in Surjection(stay, buffer')
      <4>1. aged \in [stay -> buffer']
        BY <2>1 DEF aged
      <4> QED
        BY <2>3, <4>1 DEF Surjection
    <3>2. stay \in SUBSET buffer
      OBVIOUS
    <3> HIDE DEF stay
    <3>3. IsFiniteSet(stay) /\ Cardinality(stay) <= Cardinality(buffer)
      BY <1>3, <3>2, FS_Subset
    <3>4. IsFiniteSet(buffer') /\ Cardinality(buffer') <= Cardinality(stay)
      BY <3>1, <3>3, FS_Surjection
    <3>5. Cardinality(buffer') <= Capacity
      <4>1. /\ Cardinality(buffer) \in Nat /\ Cardinality(stay) \in Nat
            /\ Cardinality(buffer') \in Nat /\ Capacity \in Nat /\ Cardinality(buffer) <= Capacity
        BY <1>2, <1>3, <3>3, <3>4, FS_CardinalityType, ClockAssumption DEF Buffered
      <4> QED
        BY <3>3, <3>4, <4>1
    <3>6. \A e \in buffer' : e \in BufferEntry(Commands)
      BY <2>2, <2>3
    <3>7. ASSUME NEW e \in buffer', NEW f \in buffer', e.id = f.id PROVE e = f
      <4>1. PICK d \in stay : e = aged[d]
        BY <2>3
      <4>2. PICK g \in stay : f = aged[g]
        BY <2>3
      <4>3. d = g
        BY <1>3, <2>2, <3>7, <4>1, <4>2
      <4> QED
        BY <4>1, <4>2, <4>3
    <3> QED
      BY <3>4, <3>5, <3>6, <3>7 DEF Buffered
  <2>5. ASSUME NEW f \in buffer'
        PROVE  /\ f.at <= tick' /\ f.at < tick'
               /\ Running' => f.rem + Cardinality(AgedIn(f, tick)') = Lifetime
    <3>1. PICK e \in stay : f = aged[e]
      BY <2>3
    <3>2. f.at = e.at /\ f.rem = e.rem - 1 /\ e \in buffer /\ e.at <= tick /\ e.at \in Nat
      BY <1>2, <1>4, <2>2, <3>1
    <3>3. AgedIn(f, tick)' = AgedIn(e, tick + 1)
      BY <1>1, <3>2 DEF AgedIn
    <3>4. Running => f.rem + Cardinality(AgedIn(e, tick + 1)) = Lifetime
      BY <1>1, <1>2, <1>4, <1>6, <3>2
    <3>5. Running' = Running
      BY <1>1 DEF Running
    <3> QED
      BY <1>1, <3>2, <3>3, <3>4, <3>5
  <2>6. BufferInv'
    BY <1>1, <2>4, <2>5 DEF BufferInv
  <2>7. ASSUME Running, NEW e \in buffer
        PROVE  (\A f \in buffer' : f.id # e.id) <=> Cardinality(AgedIn(e, tick + 1)) >= Lifetime
    <3>1. Cardinality(AgedIn(e, tick + 1)) = Cardinality(AgedIn(e, tick)) + 1
          /\ e.rem + Cardinality(AgedIn(e, tick)) = Lifetime
      BY <1>2, <1>4, <1>6, <2>7
    <3>2. Cardinality(AgedIn(e, tick + 1)) >= Lifetime <=> ~(e.rem > 1)
      BY <1>1, <1>4, <3>1
    <3>3. CASE e \in stay
      <4>1. aged[e] \in buffer' /\ aged[e].id = e.id
        BY <2>1, <2>2, <3>3
      <4> QED
        BY <3>2, <3>3, <4>1
    <3>4. CASE e \notin stay
      <4>1. ASSUME NEW f \in buffer' PROVE f.id # e.id
        <5>1. PICK d \in stay : f = aged[d]
          BY <2>3
        <5> QED
          BY <1>3, <2>2, <3>4, <5>1
      <4> QED
        BY <3>2, <3>4, <4>1
    <3> QED
      BY <3>3, <3>4
  <2> QED
    BY <2>6, <2>7
<1> QED
  BY <1>5, <1>6

\* A contained tick brings the buffer of its start back and ages nothing.
LEMMA ContainBuffer ==
  ASSUME TicksTyped, BufferInv, action \in Clock, BufferFault \/ ProgressFault \/ FaultElsewhere
  PROVE  BufferInv'
<1>1. /\ pc' = "begin" /\ tick' = tick + 1 /\ Remember("OFF", FALSE)
      /\ \/ pc = "begin" /\ buffer' = buffer /\ (Running' => Running)
         \/ pc = "progress" /\ buffer' = start.buffer /\ ~Running'
  <2>1. CASE BufferFault \/ ProgressFault
    <3>1. action' = [action EXCEPT !.life = "FAULTED"]
      BY <2>1 DEF BufferFault, ProgressFault, Contain
    <3>2. ~Running'
      BY <3>1 DEF Clock, Running
    <3> QED
      BY <2>1, <3>2 DEF BufferFault, ProgressFault, Contain
  <2>2. CASE FaultElsewhere
    BY <2>2 DEF FaultElsewhere, Contain, Running
  <2> QED
    BY <2>1, <2>2
<1>2. tick \in Nat /\ Len(past) = tick
  BY <1>1 DEF TicksTyped
<1>3. /\ \A k \in 1 .. Len(past) : past'[k] = past[k]
      /\ past'[tick + 1].progression = "OFF"
  BY <1>1, <1>2, Remembered
<1>4. Buffered(buffer', Commands, Capacity) /\ \A e \in buffer' : e.at < tick
  BY <1>1 DEF BufferInv
<1>5. ASSUME NEW e \in buffer', Running'
      PROVE  e.rem + Cardinality(AgedIn(e, tick)') = Lifetime
  <2>1. /\ e \in buffer /\ Running /\ e.at \in Nat
        /\ e.rem + Cardinality(AgedIn(e, tick)) = Lifetime
    BY <1>1, <1>4, <1>5, EntryTicks DEF BufferInv
  <2>2. AgedIn(e, tick)' = AgedIn(e, tick)
    <3>1. \A k \in e.at + 1 .. tick + 1 : k \in e.at + 1 .. tick \/ k = tick + 1
      BY <1>2, <2>1
    <3>2. e.at + 1 .. tick \subseteq e.at + 1 .. tick + 1
      BY <1>2, <2>1
    <3>3. AgedIn(e, tick)' = {k \in e.at + 1 .. tick + 1 :
                                 ~past'[k].buffer /\ past'[k].progression # "OFF"}
      BY <1>1 DEF AgedIn
    <3>4. \A k \in e.at + 1 .. tick : past'[k] = past[k]
      BY <1>2, <1>3, <2>1
    <3> QED
      BY <1>3, <3>1, <3>2, <3>3, <3>4 DEF AgedIn
  <2> QED
    BY <2>1, <2>2
<1>6. \A e \in buffer' : e.at <= tick' /\ e.at < tick'
  BY <1>1, <1>2, <1>4, EntryTicks
<1> QED
  BY <1>1, <1>4, <1>5, <1>6 DEF BufferInv

\* The buffer survives every stage.
LEMMA BufferInvNext == TicksTyped /\ TimelineInv /\ BufferInv /\ [Next]_vars => BufferInv'
<1> SUFFICES ASSUME TicksTyped, action \in Clock, BufferInv, [Next]_vars PROVE BufferInv'
  BY DEF TimelineInv
<1>1. CASE Freeze \/ UNCHANGED vars
  <2>1. UNCHANGED <<tick, pc, action, buffer, start, past>> /\ (pc = "close" => tokens' = tokens)
    BY <1>1 DEF Freeze, vars
  <2> QED
    BY <2>1 DEF BufferInv, AgedIn, Running, Frozen, IsFrozen, ActiveTokens
<1>2. CASE ArbitrateStage
  <2>1. /\ UNCHANGED <<tick, start, past>> /\ pc = "arbitrate" /\ pc' = "progress"
        /\ buffer' \subseteq buffer /\ (Running' => Running)
    <3>1. PICK accepted \in BOOLEAN :
            buffer' = Consumed(accepted)
              /\ \/ action' = [action EXCEPT !.life = "TERMINATED"]
                 \/ action' = action
      BY <1>2 DEF ArbitrateStage
    <3>2. Running' => Running
      BY <3>1 DEF Running, Clock
    <3> QED
      BY <1>2, <3>1, <3>2, ConsumedPart DEF ArbitrateStage
  <2>2. Buffered(buffer', Commands, Capacity)
    BY <2>1, BufferedPart DEF BufferInv
  <2> QED
    BY <2>1, <2>2 DEF BufferInv, AgedIn
<1> QED
  BY <1>1, <1>2, BeginBuffer, ProgressBuffer, CloseBuffer, ContainBuffer DEF Next
-----------------------------------------------------------------------------
(* Intent by intent *)

\* after is what intent after intent makes of the state s.
Admitting(after, order, n, s) ==
  after = [k \in 0 .. n |-> IF k = 0 THEN [state |-> s, accepted |-> {}]
                            ELSE Admit(after[k - 1], order[k])]

\* The recursion that Arbitrate writes down has a solution.
LEMMA AdmittingExists ==
  ASSUME NEW order, NEW n \in Nat, NEW s
  PROVE  \E after : Admitting(after, order, n, s)
<1> DEFINE none == [state |-> s, accepted |-> {}]
           without == {k \in Nat : ~\E after : Admitting(after, order, k, s)}
<1>1. ASSUME NEW k \in Nat, NEW f, Admitting(f, order, k, s)
      PROVE  \E after : Admitting(after, order, k + 1, s)
  <2> DEFINE last == Admit(f[k], order[k + 1])
             g == [j \in 0 .. k + 1 |-> IF j = k + 1 THEN last ELSE f[j]]
  <2>1. \A j \in 0 .. k : g[j] = f[j]
    OBVIOUS
  <2>2. g[k + 1] = last /\ g = [j \in 0 .. k + 1 |-> g[j]]
    OBVIOUS
  <2>3. \A j \in 0 .. k : f[j] = IF j = 0 THEN none ELSE Admit(f[j - 1], order[j])
    BY <1>1 DEF Admitting
  <2> HIDE DEF g
  <2>4. ASSUME NEW j \in 0 .. k + 1
        PROVE  g[j] = IF j = 0 THEN none ELSE Admit(g[j - 1], order[j])
    <3>1. CASE j = k + 1
      <4>1. g[j - 1] = f[k] /\ j # 0
        BY <2>1, <3>1
      <4> QED
        BY <2>2, <3>1, <4>1
    <3>2. CASE j # k + 1
      <4>1. j \in 0 .. k /\ (j # 0 => j - 1 \in 0 .. k)
        BY <3>2
      <4>2. g[j] = f[j] /\ (j # 0 => g[j - 1] = f[j - 1])
        BY <2>1, <4>1
      <4> QED
        BY <2>3, <4>1, <4>2
    <3> QED
      BY <3>1, <3>2
  <2>5. Admitting(g, order, k + 1, s)
    BY <2>2, <2>4 DEF Admitting
  <2> QED
    BY <2>5
<1>2. \E after : Admitting(after, order, 0, s)
  <2> DEFINE f == [j \in 0 .. 0 |-> none]
  <2>1. Admitting(f, order, 0, s)
    BY DEF Admitting
  <2> QED
    BY <2>1
<1>3. without = {}
  <2> SUFFICES ASSUME without # {} PROVE FALSE
    OBVIOUS
  <2>1. PICK k \in without : \A j \in without : k <= j
    BY LeastNatural
  <2>2. k \in Nat /\ k # 0
    BY <1>2, <2>1
  <2>3. k - 1 \in Nat /\ k - 1 \notin without /\ k - 1 + 1 = k
    BY <2>1, <2>2
  <2>4. PICK f : Admitting(f, order, k - 1, s)
    BY <2>3
  <2>5. \E after : Admitting(after, order, k - 1 + 1, s)
    BY <1>1, <2>3, <2>4
  <2> QED
    BY <2>1, <2>3, <2>5
<1> QED
  BY <1>3

\* Arbitrate ends such a solution.
LEMMA ArbitrateAdmits ==
  ASSUME NEW intents, IsFiniteSet(intents), NEW s
  PROVE  \E after : /\ Admitting(after, Sorted(intents, Rank), Cardinality(intents), s)
                    /\ Arbitrate(intents, s) = after[Cardinality(intents)]
<1> DEFINE order == Sorted(intents, Rank)
           n == Cardinality(intents)
           after == CHOOSE f : Admitting(f, order, n, s)
<1>1. n \in Nat
  BY FS_CardinalityType
<1>2. Arbitrate(intents, s) = after[n]
  BY DEF Arbitrate, Admitting
<1> HIDE DEF order, n
<1>3. Admitting(after, order, n, s)
  BY <1>1, AdmittingExists
<1> QED
  BY <1>2, <1>3 DEF order, n

-----------------------------------------------------------------------------
(* The arbitration *)

\* A transition is selected with the oldest entry of its command, or none is.
LEMMA SelectedOne ==
  ASSUME BufferInv
  PROVE  \/ Selected = {} /\ OwnIntents = {}
         \/ \E cmd \in {"go", "swap"}, e \in buffer :
              /\ Selected = {cmd} /\ OwnIntents = {OwnIntent(cmd, e)} /\ Running
              /\ SelectEntry(buffer, cmd) = {e} /\ e.cmd = cmd
              /\ \A f \in buffer \ {e} : f.cmd = cmd => LexLess(Age(e), Age(f))
<1> DEFINE eligible == {cmd \in {"go", "swap"} : SelectEntry(buffer, cmd) # {}}
<1>1. Selected = IF ~Running \/ Frozen("PRE_ADVANCE_TRANSITIONS") THEN {}
                 ELSE {cmd \in eligible : \A other \in eligible : Priority(other) <= Priority(cmd)}
  BY DEF Selected
<1>2. CASE Selected = {}
  <2>1. OwnIntents = {}
    BY <1>2 DEF OwnIntents
  <2> QED
    BY <1>2, <2>1
<1>3. CASE Selected # {}
  <2>1. /\ Running /\ Selected \subseteq eligible
        /\ \A cmd \in Selected, other \in eligible : Priority(other) <= Priority(cmd)
    BY <1>1, <1>3
  <2>2. PICK cmd \in {"go", "swap"} : cmd \in Selected /\ SelectEntry(buffer, cmd) # {}
    BY <1>3, <2>1
  <2>3. Selected = {cmd}
    <3>1. ASSUME NEW other \in Selected PROVE other = cmd
      <4>1. Priority(other) <= Priority(cmd) /\ Priority(cmd) <= Priority(other)
            /\ other \in {"go", "swap"}
        BY <2>1, <2>2
      <4> QED
        BY <4>1 DEF Priority
    <3> QED
      BY <2>2, <3>1
  <2> DEFINE M == Matching(buffer, cmd)
             e == First(M, Age)
  <2>4. M # {} /\ SelectEntry(buffer, cmd) = {e}
    BY <2>2 DEF SelectEntry
  <2>5. /\ M \in SUBSET BufferEntry(Commands) /\ IsFiniteSet(M) /\ M \subseteq buffer
        /\ \A d, f \in M : d.id = f.id => d = f
    <3>1. M \subseteq buffer
      BY DEF Matching
    <3> HIDE DEF M
    <3> QED
      BY <3>1, FS_Subset DEF BufferInv, Buffered
  <2>6. e \in M /\ \A y \in M \ {e} : LexLess(Age(e), Age(y))
    <3> HIDE DEF M
    <3> QED
      BY <2>4, <2>5, OldestEntry
  <2> HIDE DEF e
  <2>7. e \in buffer /\ e.cmd = cmd /\ \A f \in buffer \ {e} : f.cmd = cmd => f \in M \ {e}
    BY <2>6 DEF Matching
  <2>8. OwnIntents = {OwnIntent(cmd, e)}
    BY <2>3, <2>4 DEF OwnIntents
  <2> QED
    BY <2>1, <2>3, <2>4, <2>6, <2>7, <2>8
<1> QED
  BY <1>2, <1>3

Own(n) == \E cmd \in {"go", "swap"}, e \in buffer :
            Running /\ Selected = {cmd} /\ OwnIntents = {n} /\ n = OwnIntent(cmd, e)

Start(n) == \E i \in Inputs : i.claims # << >> /\ n = StartIntent(i)

\* An intent is the action's own, of which there is one at most, or a start that an input asks for.
LEMMA IntentKinds ==
  ASSUME BufferInv, pc = "arbitrate", NEW n \in Intents
  PROVE  (Own(n) /\ n \in OwnIntents) \/ (Start(n) /\ n \notin OwnIntents)
<1>1. CASE n \in OwnIntents
  <2>1. PICK cmd \in {"go", "swap"}, e \in buffer :
          Selected = {cmd} /\ OwnIntents = {OwnIntent(cmd, e)} /\ Running
    BY <1>1, SelectedOne
  <2>2. n = OwnIntent(cmd, e)
    BY <1>1, <2>1
  <2>3. OwnIntents = {n}
    BY <2>1, <2>2
  <2> QED
    BY <1>1, <2>1, <2>2, <2>3 DEF Own
<1>2. CASE n \notin OwnIntents
  <2>1. PICK i \in start.inputs : i.claims # << >> /\ n = StartIntent(i)
    BY <1>2 DEF Intents
  <2>2. i \in Inputs
    BY DEF BufferInv
  <2> QED
    BY <1>2, <2>1, <2>2 DEF Start
<1> QED
  BY <1>1, <1>2

\* The canonical order tells intents apart.
LEMMA IntentRanks ==
  ASSUME BufferInv, pc = "arbitrate"
  PROVE  /\ IsFiniteSet(Intents)
         /\ \A n \in Intents : Rank(n) \in Key(5)
         /\ \A m, n \in Intents : Rank(m) = Rank(n) => m = n
<1>1. ASSUME NEW n, Own(n)
      PROVE  Rank(n) \in Key(5) /\ Rank(n)[3] = 1
  <2>1. PICK cmd \in {"go", "swap"}, e \in buffer : n = OwnIntent(cmd, e)
    BY <1>1 DEF Own
  <2>2. e.seq \in Nat
    BY DEF BufferInv, Buffered, BufferEntry
  <2>3. /\ n.prio \in Int /\ n.owner = 1 /\ n.src = 1 /\ n.transition \in Int /\ n.seq = e.seq
    BY <2>1 DEF OwnIntent, Priority
  <2>4. -n.prio \in Int
    BY <2>3
  <2> QED
    BY <2>2, <2>3, <2>4 DEF Rank, Key
<1>2. ASSUME NEW i \in Inputs
      PROVE  Rank(StartIntent(i)) \in Key(5) /\ Rank(StartIntent(i))[3] = 0
             /\ Rank(StartIntent(i))[4] = i.id
  <2> DEFINE n == StartIntent(i)
  <2>1. i.id \in Nat /\ i.seq \in Nat
    BY InputAssumption
  <2>2. n.prio = 0 /\ n.owner = 1 /\ n.src = 0 /\ n.transition = i.id /\ n.seq = i.seq
    BY DEF StartIntent
  <2> HIDE DEF n
  <2>3. -n.prio \in Int
    BY <2>2
  <2>4. Rank(n) \in Key(5) /\ Rank(n)[3] = 0 /\ Rank(n)[4] = i.id
    BY <2>1, <2>2, <2>3 DEF Rank, Key
  <2> QED
    BY <2>4 DEF n
<1>3. ASSUME NEW m \in Intents, NEW n \in Intents, Rank(m) = Rank(n) PROVE m = n
  <2>1. CASE Own(m)
    <3>1. ~Start(n)
      BY <1>1, <1>2, <1>3, <2>1 DEF Start
    <3>2. OwnIntents = {m} /\ OwnIntents = {n}
      BY <2>1, <3>1, IntentKinds DEF Own
    <3> QED
      BY <3>2
  <2>2. CASE Start(m)
    <3>1. ~Own(n)
      BY <1>1, <1>2, <1>3, <2>2 DEF Start
    <3>2. Start(n)
      BY <3>1, IntentKinds
    <3>3. PICK i \in Inputs : m = StartIntent(i)
      BY <2>2 DEF Start
    <3>4. PICK j \in Inputs : n = StartIntent(j)
      BY <3>2 DEF Start
    <3>5. i.id = j.id
      BY <1>2, <1>3, <3>3, <3>4
    <3> QED
      BY <3>3, <3>4, <3>5, InputAssumption
  <2> QED
    BY <2>1, <2>2, IntentKinds
<1>4. IsFiniteSet(Intents)
  <2> DEFINE asking == {j \in start.inputs : j.claims # << >>}
             starts == {StartIntent(i) : i \in asking}
             f == [i \in asking |-> StartIntent(i)]
  <2>1. IsFiniteSet(asking)
    <3>1. asking \subseteq Inputs
      BY DEF BufferInv
    <3> HIDE DEF asking
    <3> QED
      BY <3>1, InputAssumption, FS_Subset
  <2>2. f \in Surjection(asking, starts)
    BY DEF Surjection
  <2>3. IsFiniteSet(starts)
    <3> HIDE DEF asking, starts, f
    <3> QED
      BY <2>1, <2>2, FS_Surjection
  <2>4. IsFiniteSet(OwnIntents)
    <3>1. OwnIntents = {} \/ \E n : OwnIntents = {n}
      BY SelectedOne
    <3> QED
      BY <3>1, FS_EmptySet, FS_Singleton
  <2>5. Intents = OwnIntents \union starts
    BY DEF Intents
  <2> HIDE DEF starts
  <2> QED
    BY <2>3, <2>4, <2>5, FS_Union
<1> QED
  BY <1>1, <1>2, <1>3, <1>4, IntentKinds DEF Start

\* The intents in canonical order: each once.
LEMMA IntentOrder ==
  ASSUME BufferInv, pc = "arbitrate"
  PROVE  /\ Cardinality(Intents) \in Nat
         /\ \A k \in 1 .. Cardinality(Intents) : Sorted(Intents, Rank)[k] \in Intents
         /\ \A n \in Intents : \E k \in 1 .. Cardinality(Intents) : Sorted(Intents, Rank)[k] = n
         /\ \A j, k \in 1 .. Cardinality(Intents) :
              LexLess(Rank(Sorted(Intents, Rank)[j]), Rank(Sorted(Intents, Rank)[k])) <=> j < k
<1> DEFINE key == [n \in Intents |-> Rank(n)]
           order == Sorted(Intents, Rank)
           N == Cardinality(Intents)
           rank(n) == Cardinality(Before(Intents, key, n))
<1>1. /\ IsFiniteSet(Intents) /\ N \in Nat
      /\ key \in [Intents -> Key(5)]
      /\ \A m, n \in Intents : key[m] = key[n] => m = n
  BY IntentRanks, FS_CardinalityType
<1>2. ASSUME NEW n \in Intents
      PROVE  {m \in Intents : LexLess(Rank(m), Rank(n))} = Before(Intents, key, n)
  BY DEF Before
<1>3. key = [n \in Intents |-> Rank(n)]
  OBVIOUS
<1> HIDE DEF key
<1>4. /\ \A m, n \in Intents : LexLess(key[m], key[n]) <=> rank(m) < rank(n)
      /\ \A n \in Intents : rank(n) \in 0 .. N - 1
      /\ \A k \in 0 .. N - 1 : \E n \in Intents : rank(n) = k
  BY <1>1, Ranked
<1>5. ASSUME NEW k \in 1 .. N PROVE order[k] \in Intents /\ rank(order[k]) = k - 1
  <2>1. k - 1 \in 0 .. N - 1
    BY <1>1
  <2>2. \E n \in Intents : Cardinality({m \in Intents : LexLess(Rank(m), Rank(n))}) = k - 1
    BY <1>2, <1>4, <2>1
  <2>3. order[k] = CHOOSE n \in Intents :
                     Cardinality({m \in Intents : LexLess(Rank(m), Rank(n))}) = k - 1
    BY DEF Sorted
  <2>4. order[k] \in Intents
        /\ Cardinality({m \in Intents : LexLess(Rank(m), Rank(order[k]))}) = k - 1
    <3> HIDE DEF order
    <3> QED
      BY <2>2, <2>3
  <2> HIDE DEF order
  <2> QED
    BY <1>2, <2>4
<1> HIDE DEF order, N
<1>6. ASSUME NEW m \in Intents, NEW n \in Intents, rank(m) = rank(n) PROVE m = n
  <2>1. ~LexLess(key[m], key[n]) /\ ~LexLess(key[n], key[m])
    <3>1. rank(m) \in 0 .. N - 1 /\ rank(n) \in 0 .. N - 1
      BY <1>4
    <3>2. ~(rank(m) < rank(n)) /\ ~(rank(n) < rank(m))
      BY <1>6, <3>1
    <3> QED
      BY <1>4, <3>2
  <2>2. key[m] \in Key(5) /\ key[n] \in Key(5)
    BY <1>1
  <2>3. key[m] = key[n]
    BY <2>1, <2>2, LexTotal
  <2> QED
    BY <1>1, <2>3
<1>7. ASSUME NEW n \in Intents PROVE \E k \in 1 .. N : order[k] = n
  <2>1. rank(n) \in 0 .. N - 1
    BY <1>4
  <2>2. PICK k \in 1 .. N : rank(n) = k - 1
    <3> DEFINE r == rank(n)
    <3>1. r \in 0 .. N - 1
      BY <2>1
    <3> HIDE DEF r
    <3> DEFINE s == r + 1
    <3>2. s \in 1 .. N /\ r = s - 1
      BY <1>1, <3>1
    <3> HIDE DEF s
    <3>3. \E k \in 1 .. N : r = k - 1
      BY <3>2
    <3> QED
      BY <3>3 DEF r
  <2>3. order[k] \in Intents /\ rank(order[k]) = rank(n)
    BY <1>5, <2>2
  <2> QED
    BY <1>6, <2>3
<1>8. ASSUME NEW j \in 1 .. N, NEW k \in 1 .. N
      PROVE  LexLess(Rank(order[j]), Rank(order[k])) <=> j < k
  <2>1. order[j] \in Intents /\ order[k] \in Intents /\ rank(order[j]) = j - 1 /\ rank(order[k]) = k - 1
    BY <1>5
  <2>2. key[order[j]] = Rank(order[j]) /\ key[order[k]] = Rank(order[k])
    BY <1>3, <2>1
  <2>3. LexLess(key[order[j]], key[order[k]]) <=> j - 1 < k - 1
    BY <1>4, <2>1
  <2> QED
    BY <2>2, <2>3
<1> QED
  BY <1>1, <1>5, <1>7, <1>8 DEF order, N
\* The two claims every start makes.
LEMMA ClaimNames ==
  /\ Kind(Place) = "CAPACITY" /\ OwnerId(Place) = NoOwner /\ Name(Place) = "ACTIONS"
  /\ Kind(Stamina) = "RESOURCE" /\ OwnerId(Stamina) = NoOwner /\ Name(Stamina) = "stamina"
  /\ Place # Stamina
<1>1. Kind(Place) = "CAPACITY" /\ OwnerId(Place) = NoOwner /\ Name(Place) = "ACTIONS"
  BY DEF Place, Kind, OwnerId, Name
<1>2. Kind(Stamina) = "RESOURCE" /\ OwnerId(Stamina) = NoOwner /\ Name(Stamina) = "stamina"
  BY DEF Stamina, Kind, OwnerId, Name
<1> QED
  BY <1>1, <1>2

\* The claims of n on one resource or capacity of the owner.
On(n, amounts, kind, name) ==
  {c \in DOMAIN amounts : Kind(c) = kind /\ ClaimOwner(n, c) = 1 /\ Name(c) = name}

\* The total of such claims is the sum of their amounts.
LEMMA TotalSum ==
  ASSUME NEW n, NEW amounts, NEW kind, NEW name
  PROVE  Total(n, amounts, kind, 1, name) = SumOf(amounts, On(n, amounts, kind, name))
BY DEF Total, On

\* The action's own intent that replaces it.
Swapping(n) == n \in OwnIntents /\ Selected = {"swap"}

\* Every intent asks for a place, the action's own for one and for one of the resource; nothing
\* but a replacement gives anything back, its place.
LEMMA IntentAmounts ==
  ASSUME BufferInv, pc = "arbitrate", NEW n \in Intents
  PROVE  /\ n.owner = 1 /\ IsFiniteSet(DOMAIN n.claims)
         /\ \A c \in DOMAIN n.claims : n.claims[c] \in Nat
         /\ Place \in DOMAIN n.claims /\ n.claims[Place] > 0
         /\ Swapping(n) => /\ DOMAIN n.releases = {Place} /\ n.releases[Place] = 1
                           /\ n.claims[Place] = 1
         /\ ~Swapping(n) => DOMAIN n.releases = {}
         /\ n \in OwnIntents => /\ DOMAIN n.claims = {Place, Stamina} /\ Running
                                /\ n.claims[Place] = 1 /\ n.claims[Stamina] = 1
<1>1. CASE Own(n) /\ n \in OwnIntents
  <2>1. PICK cmd \in {"go", "swap"}, e \in buffer :
          Running /\ Selected = {cmd} /\ n = OwnIntent(cmd, e)
    BY <1>1 DEF Own
  <2>2. /\ n.owner = 1 /\ n.claims = [c \in {Place, Stamina} |-> 1]
        /\ n.releases = [c \in IF cmd = "swap" THEN {Place} ELSE {} |-> 1]
    BY <2>1 DEF OwnIntent
  <2>3. IsFiniteSet({Place, Stamina})
    <3>1. {Place, Stamina} = {Place} \union {Stamina}
      OBVIOUS
    <3>2. IsFiniteSet({Place}) /\ IsFiniteSet({Stamina})
      BY FS_Singleton
    <3>3. IsFiniteSet({Place} \union {Stamina})
      BY <3>2, FS_Union
    <3> QED
      BY <3>1, <3>3
  <2>4. Swapping(n) <=> cmd = "swap"
    BY <1>1, <2>1 DEF Swapping
  <2>5. DOMAIN n.claims = {Place, Stamina} /\ n.claims[Place] = 1 /\ n.claims[Stamina] = 1
    BY <2>2
  <2>6. CASE cmd = "swap"
    <3>1. n.releases = [c \in {Place} |-> 1]
      BY <2>2, <2>6
    <3>2. DOMAIN n.releases = {Place} /\ n.releases[Place] = 1
      BY <3>1
    <3> QED
      BY <2>1, <2>2, <2>3, <2>4, <2>5, <2>6, <3>2
  <2>7. CASE cmd # "swap"
    <3>1. n.releases = [c \in {} |-> 1]
      BY <2>2, <2>7
    <3>2. DOMAIN n.releases = {}
      BY <3>1
    <3> QED
      BY <2>1, <2>2, <2>3, <2>4, <2>5, <2>7, <3>2
  <2> QED
    BY <2>6, <2>7
<1>2. CASE Start(n) /\ n \notin OwnIntents
  <2>1. PICK i \in Inputs : i.claims # << >> /\ n = StartIntent(i)
    BY <1>2 DEF Start
  <2>2. n.owner = 1 /\ n.claims = i.claims /\ n.releases = << >>
    BY <2>1 DEF StartIntent
  <2>3. DOMAIN n.releases = {}
    BY <2>2
  <2>4. /\ IsFiniteSet(DOMAIN i.claims) /\ \A c \in DOMAIN i.claims : i.claims[c] \in Nat
        /\ Place \in DOMAIN i.claims /\ i.claims[Place] > 0
    BY <2>1, InputAssumption
  <2> QED
    BY <1>2, <2>2, <2>3, <2>4 DEF Swapping
<1> QED
  BY <1>1, <1>2, IntentKinds

\* What an intent asks for and gives back of the resource and of the places.
Asks == [n \in Intents |-> Total(n, n.claims, "RESOURCE", 1, "stamina")
                             - Total(n, n.releases, "RESOURCE", 1, "stamina")]
Takes == [n \in Intents |-> Total(n, n.claims, "CAPACITY", 1, "ACTIONS")
                              - Total(n, n.releases, "CAPACITY", 1, "ACTIONS")]

\* What an intent asks for and gives back of the resource and of the places.
LEMMA IntentTotals ==
  ASSUME BufferInv, pc = "arbitrate", NEW n \in Intents
  PROVE  /\ Total(n, n.claims, "RESOURCE", 1, "stamina") \in Nat
         /\ Total(n, n.releases, "RESOURCE", 1, "stamina") = 0
         /\ Total(n, n.claims, "CAPACITY", 1, "ACTIONS") \in Nat
         /\ Total(n, n.claims, "CAPACITY", 1, "ACTIONS") >= n.claims[Place]
         /\ Total(n, n.releases, "CAPACITY", 1, "ACTIONS") = IF Swapping(n) THEN 1 ELSE 0
         /\ n \in OwnIntents => Total(n, n.claims, "RESOURCE", 1, "stamina") >= 1
<1>1. /\ n.owner = 1 /\ IsFiniteSet(DOMAIN n.claims)
      /\ \A c \in DOMAIN n.claims : n.claims[c] \in Nat
      /\ Place \in DOMAIN n.claims
      /\ Swapping(n) => DOMAIN n.releases = {Place} /\ n.releases[Place] = 1
      /\ ~Swapping(n) => DOMAIN n.releases = {}
      /\ n \in OwnIntents => Stamina \in DOMAIN n.claims /\ n.claims[Stamina] = 1
  BY IntentAmounts
<1>2. ClaimOwner(n, Place) = 1 /\ ClaimOwner(n, Stamina) = 1
  BY <1>1, ClaimNames DEF ClaimOwner
<1>3. ASSUME NEW kind, NEW name
      PROVE  /\ SumOf(n.claims, On(n, n.claims, kind, name)) \in Nat
             /\ \A c \in On(n, n.claims, kind, name) :
                  n.claims[c] <= SumOf(n.claims, On(n, n.claims, kind, name))
  <2>1. On(n, n.claims, kind, name) \subseteq DOMAIN n.claims
    BY DEF On
  <2>2. IsFiniteSet(On(n, n.claims, kind, name))
        /\ \A c \in On(n, n.claims, kind, name) : n.claims[c] \in Nat
    BY <1>1, <2>1, FS_Subset
  <2> QED
    BY <2>2, SumNatural
<1>4. Place \in On(n, n.claims, "CAPACITY", "ACTIONS")
      /\ (n \in OwnIntents => Stamina \in On(n, n.claims, "RESOURCE", "stamina"))
  BY <1>1, <1>2, ClaimNames DEF On
<1>5. SumOf(n.releases, On(n, n.releases, "RESOURCE", "stamina")) = 0
  <2>1. On(n, n.releases, "RESOURCE", "stamina") = {}
    BY <1>1, ClaimNames DEF On
  <2> QED
    BY <2>1, FS_EmptySet, SumFacts
<1>6. SumOf(n.releases, On(n, n.releases, "CAPACITY", "ACTIONS")) = IF Swapping(n) THEN 1 ELSE 0
  <2>1. CASE Swapping(n)
    <3>1. On(n, n.releases, "CAPACITY", "ACTIONS") = {Place}
      BY <1>1, <1>2, <2>1, ClaimNames DEF On
    <3>2. IsFiniteSet({Place}) /\ n.releases[Place] = 1
      BY <1>1, <2>1, FS_Singleton
    <3>3. \A c \in {Place} : n.releases[c] \in Int
      BY <3>2
    <3>4. SumOf(n.releases, {Place}) = n.releases[Place] + SumOf(n.releases, {Place} \ {Place})
      BY <3>2, <3>3, SumFacts
    <3>5. SumOf(n.releases, {}) = 0
      BY FS_EmptySet, SumFacts
    <3>6. {Place} \ {Place} = {}
      OBVIOUS
    <3> QED
      BY <2>1, <3>1, <3>2, <3>4, <3>5, <3>6
  <2>2. CASE ~Swapping(n)
    <3>1. On(n, n.releases, "CAPACITY", "ACTIONS") = {}
      BY <1>1, <2>2 DEF On
    <3> QED
      BY <2>2, <3>1, FS_EmptySet, SumFacts
  <2> QED
    BY <2>1, <2>2
<1> QED
  BY <1>1, <1>3, <1>4, <1>5, <1>6, TotalSum
Purse == <<1, "stamina">>
Room == <<"CAPACITY", 1, "ACTIONS">>

\* An arbitration state: b is left of the resource, u places are taken, K are the keys taken.
Ledger(b, u, K) ==
  [bank |-> [k \in {Purse} |-> b], cap |-> [k \in {Room} |-> MaxActionsPerEntity],
   use |-> [k \in {Room} |-> u], keys |-> K]

\* The accounts have their names.
LEMMA AccountNames ==
  /\ Purse[1] = 1 /\ Purse[2] = "stamina"
  /\ Room[1] = "CAPACITY" /\ Room[2] = 1 /\ Room[3] = "ACTIONS"
BY DEF Purse, Room

\* What reserving an intent makes of an arbitration state.
LEMMA LedgerReserve ==
  ASSUME NEW n, NEW b, NEW u, NEW K
  PROVE  ReserveClaims(n, Ledger(b, u, K)) =
           Ledger(b + Total(n, n.releases, "RESOURCE", 1, "stamina")
                    - Total(n, n.claims, "RESOURCE", 1, "stamina"),
                  Less(u, Total(n, n.releases, "CAPACITY", 1, "ACTIONS"))
                    + Total(n, n.claims, "CAPACITY", 1, "ACTIONS"),
                  (K \ KeysOf(n.releases)) \union KeysOf(n.claims))
<1> DEFINE B == [k \in {Purse} |-> b]
           U == [k \in {Room} |-> u]
           C == [k \in {Room} |-> MaxActionsPerEntity]
           s == [bank |-> B, cap |-> C, use |-> U, keys |-> K]
           BB == [k \in DOMAIN B |-> B[k] + Total(n, n.releases, "RESOURCE", k[1], k[2])
                                          - Total(n, n.claims, "RESOURCE", k[1], k[2])]
           UU == [k \in DOMAIN U |-> Less(U[k], Total(n, n.releases, k[1], k[2], k[3]))
                                          + Total(n, n.claims, k[1], k[2], k[3])]
           KK == (K \ KeysOf(n.releases)) \union KeysOf(n.claims)
<1>1. ReserveClaims(n, s) = [bank |-> BB, cap |-> C, use |-> UU, keys |-> KK]
  BY DEF ReserveClaims
<1>2. BB = [k \in {Purse} |-> b + Total(n, n.releases, "RESOURCE", 1, "stamina")
                                - Total(n, n.claims, "RESOURCE", 1, "stamina")]
  BY AccountNames
<1>3. UU = [k \in {Room} |-> Less(u, Total(n, n.releases, "CAPACITY", 1, "ACTIONS"))
                                + Total(n, n.claims, "CAPACITY", 1, "ACTIONS")]
  BY AccountNames
<1> HIDE DEF BB, UU, KK
<1>4. Ledger(b, u, K) = s
  BY DEF Ledger
<1> QED
  BY <1>1, <1>2, <1>3, <1>4 DEF Ledger, KK

Present == others + (IF Running THEN 1 ELSE 0)

\* The state after the intents of acc have been admitted.
LedgerAt(acc) ==
  Ledger(stamina - SumOf(Asks, acc), Present + SumOf(Takes, acc),
         UNION {KeysOf(n.claims) : n \in acc})

\* The stage starts with nothing admitted.
LEMMA LedgerStart ==
  ASSUME stamina \in Int, others \in Nat
  PROVE  ArbitrationState = LedgerAt({})
<1>1. SumOf(Asks, {}) = 0 /\ SumOf(Takes, {}) = 0
  BY FS_EmptySet, SumFacts
<1>2. stamina - 0 = stamina /\ Present + 0 = Present
  BY DEF Present
<1>3. UNION {KeysOf(n.claims) : n \in {}} = {}
  OBVIOUS
<1>4. ArbitrationState = Ledger(stamina, Present, {})
  BY DEF ArbitrationState, Ledger, Present, Purse, Room
<1> QED
  BY <1>1, <1>2, <1>3, <1>4 DEF LedgerAt

\* Sums over admitted intents, intent by intent.
LEMMA AdmittedSums ==
  ASSUME BufferInv, pc = "arbitrate", NEW acc \in SUBSET Intents
  PROVE  /\ IsFiniteSet(acc) /\ SumOf(Asks, acc) \in Nat /\ SumOf(Takes, acc) \in Nat
         /\ \A n \in acc : Asks[n] <= SumOf(Asks, acc)
         /\ \A n \in Intents : /\ Asks[n] \in Nat /\ Takes[n] \in Nat
                               /\ n \in OwnIntents => Asks[n] >= 1
                               /\ ~Swapping(n) => Takes[n] >= n.claims[Place]
                               /\ n.claims[Place] \in Nat /\ n.claims[Place] >= 1
         /\ \A n \in Intents \ acc : /\ SumOf(Asks, acc \union {n}) = Asks[n] + SumOf(Asks, acc)
                                     /\ SumOf(Takes, acc \union {n}) = Takes[n] + SumOf(Takes, acc)
<1>1. ASSUME NEW n \in Intents
      PROVE  /\ Asks[n] \in Nat /\ Takes[n] \in Nat
             /\ n \in OwnIntents => Asks[n] >= 1
             /\ ~Swapping(n) => Takes[n] >= n.claims[Place]
             /\ n.claims[Place] \in Nat /\ n.claims[Place] >= 1
  <2> DEFINE p == n.claims[Place]
             r == Total(n, n.claims, "RESOURCE", 1, "stamina")
             q == Total(n, n.releases, "RESOURCE", 1, "stamina")
             t == Total(n, n.claims, "CAPACITY", 1, "ACTIONS")
             f == Total(n, n.releases, "CAPACITY", 1, "ACTIONS")
  <2>1. p \in Nat /\ p > 0
    BY IntentAmounts
  <2>2. r \in Nat /\ q = 0 /\ t \in Nat /\ t >= p /\ f = (IF Swapping(n) THEN 1 ELSE 0)
        /\ (n \in OwnIntents => r >= 1)
    BY IntentTotals
  <2>3. Asks[n] = r - q /\ Takes[n] = t - f
    BY DEF Asks, Takes
  <2> HIDE DEF p, q, r, t, f
  <2>4. r - q \in Nat /\ t - f \in Nat /\ (n \in OwnIntents => r - q >= 1)
        /\ (~Swapping(n) => t - f >= p) /\ p >= 1
    BY <2>1, <2>2
  <2> QED
    BY <2>1, <2>3, <2>4 DEF p
<1>2. IsFiniteSet(acc)
  BY IntentRanks, FS_Subset
<1>3. /\ SumOf(Asks, acc) \in Nat /\ SumOf(Takes, acc) \in Nat
      /\ \A n \in acc : Asks[n] <= SumOf(Asks, acc)
  BY <1>1, <1>2, SumNatural
<1>4. ASSUME NEW n \in Intents \ acc
      PROVE  /\ SumOf(Asks, acc \union {n}) = Asks[n] + SumOf(Asks, acc)
             /\ SumOf(Takes, acc \union {n}) = Takes[n] + SumOf(Takes, acc)
  <2> DEFINE more == acc \union {n}
  <2>1. IsFiniteSet(more)
    BY <1>2, FS_AddElement
  <2>2. \A m \in more : Asks[m] \in Int /\ Takes[m] \in Int
    BY <1>1
  <2>3. n \in more /\ more \ {n} = acc
    OBVIOUS
  <2> HIDE DEF more
  <2>4. SumOf(Asks, more) = Asks[n] + SumOf(Asks, more \ {n})
    BY <2>1, <2>2, <2>3, SumFacts
  <2>5. SumOf(Takes, more) = Takes[n] + SumOf(Takes, more \ {n})
    BY <2>1, <2>2, <2>3, SumFacts
  <2> QED
    BY <2>3, <2>4, <2>5 DEF more
<1> QED
  BY <1>1, <1>2, <1>3, <1>4

\* Admitting an intent books what it asks for.
LEMMA AdmitStep ==
  ASSUME BufferInv, pc = "arbitrate", stamina \in Int, others \in Nat,
         NEW acc \in SUBSET Intents, NEW n \in Intents \ acc
  PROVE  ReserveClaims(n, LedgerAt(acc)) = LedgerAt(acc \union {n})
<1> DEFINE b == stamina - SumOf(Asks, acc)
           u == Present + SumOf(Takes, acc)
           K == UNION {KeysOf(m.claims) : m \in acc}
           r == Total(n, n.claims, "RESOURCE", 1, "stamina")
           q == Total(n, n.releases, "RESOURCE", 1, "stamina")
           t == Total(n, n.claims, "CAPACITY", 1, "ACTIONS")
           f == Total(n, n.releases, "CAPACITY", 1, "ACTIONS")
<1>1. /\ SumOf(Asks, acc) \in Nat /\ SumOf(Takes, acc) \in Nat
      /\ SumOf(Asks, acc \union {n}) = Asks[n] + SumOf(Asks, acc)
      /\ SumOf(Takes, acc \union {n}) = Takes[n] + SumOf(Takes, acc)
  BY AdmittedSums
<1>2. r \in Nat /\ q = 0 /\ t \in Nat /\ f = (IF Swapping(n) THEN 1 ELSE 0)
  BY IntentTotals
<1>3. Asks[n] = r - q /\ Takes[n] = t - f
  BY DEF Asks, Takes
<1>4. Present \in Nat /\ (Swapping(n) => Present >= 1)
  <2>1. Swapping(n) => Running
    BY IntentAmounts DEF Swapping
  <2> QED
    BY <2>1 DEF Present
<1>5. KeysOf(n.releases) = {}
  BY IntentAmounts, ClaimNames DEF KeysOf
<1>6. ReserveClaims(n, LedgerAt(acc)) = Ledger(b + q - r, Less(u, f) + t,
                                               (K \ KeysOf(n.releases)) \union KeysOf(n.claims))
  BY LedgerReserve DEF LedgerAt
<1>7. (K \ KeysOf(n.releases)) \union KeysOf(n.claims)
        = UNION {KeysOf(m.claims) : m \in acc \union {n}}
  BY <1>5
<1> HIDE DEF r, q, t, f, K
<1>8. b + q - r = stamina - SumOf(Asks, acc \union {n})
  BY <1>1, <1>2, <1>3
<1>9. Less(u, f) + t = Present + SumOf(Takes, acc \union {n})
  <2>1. Less(u, f) = u - f
    BY <1>1, <1>2, <1>4 DEF Less
  <2> QED
    BY <1>1, <1>2, <1>3, <1>4, <2>1
<1> QED
  BY <1>6, <1>7, <1>8, <1>9 DEF LedgerAt

\* What an intent gives back.
LEMMA IntentGivesBack ==
  ASSUME BufferInv, pc = "arbitrate", NEW n \in Intents
  PROVE  /\ GivenBack(n, Place) = IF Swapping(n) THEN 1 ELSE 0
         /\ \A c : Kind(c) = "RESOURCE" => GivenBack(n, c) = 0
<1> DEFINE Same(c) == {r \in DOMAIN n.releases : Kind(r) = Kind(c) /\ Name(r) = Name(c)
                                                   /\ ClaimOwner(n, r) = ClaimOwner(n, c)}
<1>1. /\ Swapping(n) => DOMAIN n.releases = {Place} /\ n.releases[Place] = 1
      /\ ~Swapping(n) => DOMAIN n.releases = {}
  BY IntentAmounts
<1>2. ASSUME NEW c, Same(c) = {} PROVE GivenBack(n, c) = 0
  BY <1>2 DEF GivenBack
<1>3. ASSUME NEW c, Kind(c) = "RESOURCE" PROVE GivenBack(n, c) = 0
  <2>1. Same(c) = {}
    BY <1>1, <1>3, ClaimNames
  <2> QED
    BY <1>2, <2>1
<1>4. CASE ~Swapping(n)
  <2>1. Same(Place) = {}
    BY <1>1, <1>4
  <2> QED
    BY <1>2, <1>3, <1>4, <2>1
<1>5. CASE Swapping(n)
  <2>1. Same(Place) = {Place} /\ Cardinality({Place}) = 1
    BY <1>1, <1>5, FS_Singleton
  <2>2. GivenBack(n, Place) =
          n.releases[CHOOSE r \in {Place} : OwnerId(r) # NoOwner \/ Cardinality({Place}) = 1]
    BY <2>1 DEF GivenBack
  <2>3. (CHOOSE r \in {Place} : OwnerId(r) # NoOwner \/ Cardinality({Place}) = 1) = Place
    BY <2>1
  <2> QED
    BY <1>1, <1>3, <1>5, <2>2, <2>3
<1> QED
  BY <1>4, <1>5

\* When a place, a price and a key are left for an intent.
LEMMA PlaceFits ==
  ASSUME BufferInv, pc = "arbitrate", NEW n \in Intents, NEW acc
  PROVE  ClaimFits(n, Place, LedgerAt(acc)) <=>
           ((Present + SumOf(Takes, acc)) - (IF Swapping(n) THEN 1 ELSE 0)) + n.claims[Place]
             <= MaxActionsPerEntity
<1> DEFINE s == LedgerAt(acc)
           taken == Present + SumOf(Takes, acc)
           back == IF Swapping(n) THEN 1 ELSE 0
<1>1. n.owner = 1
  BY IntentAmounts
<1>2. <<Kind(Place), ClaimOwner(n, Place), Name(Place)>> = Room
  BY <1>1, ClaimNames DEF ClaimOwner, Room
<1>3. Held(s.use, Room) = taken /\ Held(s.cap, Room) = MaxActionsPerEntity
  BY DEF LedgerAt, Ledger, Held
<1> HIDE DEF s, taken, back
<1>4. ClaimFits(n, Place, s) <=> Held(s.use, Room) - GivenBack(n, Place) + n.claims[Place]
                                   <= Held(s.cap, Room)
  BY <1>2, ClaimNames DEF ClaimFits
<1>5. GivenBack(n, Place) = back
  BY IntentGivesBack DEF back
<1>6. ClaimFits(n, Place, s) <=> (taken - back) + n.claims[Place] <= MaxActionsPerEntity
  BY <1>3, <1>4, <1>5
<1> QED
  BY <1>6 DEF s, taken, back

\* A claim on the resource fits exactly when what the accepted intents leave covers it.
LEMMA PriceFits ==
  ASSUME BufferInv, pc = "arbitrate", NEW n \in Intents, NEW acc,
         NEW c \in On(n, n.claims, "RESOURCE", "stamina"), stamina - SumOf(Asks, acc) \in Int
  PROVE  ClaimFits(n, c, LedgerAt(acc)) <=> n.claims[c] <= stamina - SumOf(Asks, acc)
<1> DEFINE s == LedgerAt(acc)
           left == stamina - SumOf(Asks, acc)
<1>1. Kind(c) = "RESOURCE" /\ ClaimOwner(n, c) = 1 /\ Name(c) = "stamina"
  BY DEF On
<1>2. <<ClaimOwner(n, c), Name(c)>> = Purse
  BY <1>1 DEF Purse
<1>3. Held(s.bank, Purse) = left
  BY DEF LedgerAt, Ledger, Held
<1> HIDE DEF s, left
<1>4. ClaimFits(n, c, s) <=> n.claims[c] <= Held(s.bank, Purse) + GivenBack(n, c)
  BY <1>1, <1>2 DEF ClaimFits
<1>5. GivenBack(n, c) = 0
  BY <1>1, IntentGivesBack
<1>6. left + 0 = left
  BY DEF left
<1> QED
  BY <1>3, <1>4, <1>5, <1>6 DEF s, left

\* A claim on a key fits exactly when no accepted intent claims it.
LEMMA KeyFits ==
  ASSUME NEW n, NEW acc, NEW c, Kind(c) = "EXCLUSIVE_KEY"
  PROVE  ClaimFits(n, c, LedgerAt(acc)) <=> Name(c) \notin UNION {KeysOf(m.claims) : m \in acc}
<1>1. LedgerAt(acc).keys = UNION {KeysOf(m.claims) : m \in acc}
  BY DEF LedgerAt, Ledger
<1> QED
  BY <1>1 DEF ClaimFits

\* The intents one by one.
Nth(k) == Sorted(Intents, Rank)[k]
Upto(k) == {Nth(j) : j \in 1 .. k}
Count == Cardinality(Intents)

\* acc is what has been admitted after the first k intents.
Admitted(acc) ==
  /\ acc = [k \in 0 .. Count |-> acc[k]] /\ acc[0] = {}
  /\ \A k \in 0 .. Count : acc[k] \in SUBSET Intents /\ acc[k] \subseteq Upto(k)
  /\ \A k \in 1 .. Count :
       acc[k] = IF Fits(Nth(k), LedgerAt(acc[k - 1])) THEN acc[k - 1] \union {Nth(k)}
                ELSE acc[k - 1]

\* No intent comes twice.
LEMMA NthOnce ==
  ASSUME BufferInv, pc = "arbitrate"
  PROVE  /\ Count \in Nat
         /\ \A k \in 1 .. Count : Nth(k) \in Intents /\ Nth(k) \notin Upto(k - 1)
         /\ \A n \in Intents : \E k \in 1 .. Count : Nth(k) = n
         /\ \A j, k \in 1 .. Count : /\ LexLess(Rank(Nth(j)), Rank(Nth(k))) <=> j < k
                                     /\ Nth(j) = Nth(k) => j = k
<1>1. /\ Count \in Nat
      /\ \A k \in 1 .. Count : Nth(k) \in Intents
      /\ \A n \in Intents : \E k \in 1 .. Count : Nth(k) = n
      /\ \A j, k \in 1 .. Count : LexLess(Rank(Nth(j)), Rank(Nth(k))) <=> j < k
  BY IntentOrder DEF Count, Nth
<1>2. ASSUME NEW j \in 1 .. Count, NEW k \in 1 .. Count, Nth(j) = Nth(k) PROVE j = k
  <2>1. j < k <=> j < j
    BY <1>1, <1>2
  <2>2. k < j <=> j < j
    BY <1>1, <1>2
  <2> QED
    BY <1>1, <2>1, <2>2
<1>3. ASSUME NEW k \in 1 .. Count PROVE Nth(k) \notin Upto(k - 1)
  <2> SUFFICES ASSUME NEW j \in 1 .. k - 1, Nth(k) = Nth(j) PROVE FALSE
    BY DEF Upto
  <2>1. j \in 1 .. Count /\ j # k
    BY <1>1
  <2> QED
    BY <1>2, <2>1
<1> QED
  BY <1>1, <1>2, <1>3

\* The stage's verdict is what such a run ends with.
LEMMA VerdictRuns ==
  ASSUME BufferInv, pc = "arbitrate", stamina \in Int, others \in Nat
  PROVE  \E acc : /\ Admitted(acc)
                  /\ Arbitrate(Intents, ArbitrationState).accepted = acc[Count]
                  /\ Arbitrate(Intents, ArbitrationState).state = LedgerAt(acc[Count])
<1>1. PICK after : /\ Admitting(after, Sorted(Intents, Rank), Count, ArbitrationState)
                   /\ Arbitrate(Intents, ArbitrationState) = after[Count]
  BY IntentRanks, ArbitrateAdmits DEF Count
<1>2. Count \in Nat
  BY NthOnce
<1>3. /\ after[0].state = LedgerAt({}) /\ after[0].accepted = {}
      /\ \A k \in 1 .. Count : after[k] = Admit(after[k - 1], Nth(k))
  <2>1. \A k \in 0 .. Count :
          after[k] = IF k = 0 THEN [state |-> ArbitrationState, accepted |-> {}]
                     ELSE Admit(after[k - 1], Nth(k))
    BY <1>1 DEF Admitting, Nth
  <2>2. after[0] = [state |-> ArbitrationState, accepted |-> {}]
    BY <1>2, <2>1
  <2>3. \A k \in 1 .. Count : after[k] = Admit(after[k - 1], Nth(k))
    BY <1>2, <2>1
  <2> QED
    BY <2>2, <2>3, LedgerStart
<1> DEFINE Good(k) == /\ after[k].accepted \in SUBSET Intents /\ after[k].accepted \subseteq Upto(k)
                      /\ after[k].state = LedgerAt(after[k].accepted)
           Next1(k) == after[k].accepted =
                         IF Fits(Nth(k), LedgerAt(after[k - 1].accepted))
                         THEN after[k - 1].accepted \union {Nth(k)} ELSE after[k - 1].accepted
<1>4. Good(0)
  BY <1>3 DEF Upto
<1>5. ASSUME NEW k \in 1 .. Count, Good(k - 1) PROVE Good(k) /\ Next1(k)
  <2> DEFINE d == after[k - 1]
             n == Nth(k)
  <2>1. after[k] = IF Fits(n, d.state)
                   THEN [state |-> ReserveClaims(n, d.state), accepted |-> d.accepted \union {n}]
                   ELSE d
    BY <1>3 DEF Admit
  <2>2. n \in Intents /\ n \notin Upto(k - 1)
    BY NthOnce
  <2>3. Upto(k - 1) \subseteq Upto(k) /\ n \in Upto(k)
    BY <1>2 DEF Upto
  <2>4. /\ d.accepted \in SUBSET Intents /\ d.accepted \subseteq Upto(k - 1)
        /\ d.state = LedgerAt(d.accepted)
    BY <1>5
  <2> HIDE DEF d, n
  <2>5. CASE Fits(n, d.state)
    <3>1. after[k].accepted = d.accepted \union {n} /\ after[k].state = ReserveClaims(n, d.state)
      BY <2>1, <2>5
    <3>2. n \in Intents \ d.accepted
      BY <2>2, <2>4
    <3>3. ReserveClaims(n, d.state) = LedgerAt(d.accepted \union {n})
      BY <2>4, <3>2, AdmitStep
    <3> QED
      BY <2>2, <2>3, <2>4, <2>5, <3>1, <3>3 DEF d, n
  <2>6. CASE ~Fits(n, d.state)
    <3>1. after[k] = d
      BY <2>1, <2>6
    <3> QED
      BY <2>3, <2>4, <2>6, <3>1 DEF d, n
  <2> QED
    BY <2>5, <2>6
<1> HIDE DEF Good, Next1
<1>6. \A k \in 0 .. Count : Good(k)
  <2> DEFINE bad == {k \in Nat : k \in 0 .. Count /\ ~Good(k)}
  <2> SUFFICES ASSUME bad # {} PROVE FALSE
    BY <1>2
  <2>1. PICK k \in bad : \A j \in bad : k <= j
    BY LeastNatural
  <2>2. k \in 1 .. Count /\ ~Good(k)
    BY <1>2, <1>4, <2>1
  <2>3. k - 1 \in 0 .. Count /\ k - 1 \notin bad /\ k - 1 \in Nat
    BY <1>2, <2>1, <2>2
  <2> QED
    BY <1>5, <2>2, <2>3
<1>7. \A k \in 1 .. Count : Next1(k)
  <2> TAKE k \in 1 .. Count
  <2>1. k - 1 \in 0 .. Count
    BY <1>2
  <2> QED
    BY <1>5, <1>6, <2>1
<1> DEFINE acc == [k \in 0 .. Count |-> after[k].accepted]
<1>8. Admitted(acc)
  <2>1. \A k \in 0 .. Count : acc[k] = after[k].accepted
    OBVIOUS
  <2>2. acc = [k \in 0 .. Count |-> acc[k]]
    OBVIOUS
  <2>3. 0 \in 0 .. Count /\ \A k \in 1 .. Count : k \in 0 .. Count /\ k - 1 \in 0 .. Count
    BY <1>2
  <2> HIDE DEF acc
  <2> QED
    BY <1>3, <1>6, <1>7, <2>1, <2>2, <2>3 DEF Admitted, Good, Next1
<1>9. Count \in 0 .. Count
  BY <1>2
<1> QED
  BY <1>1, <1>6, <1>8, <1>9 DEF Good

\* What was admitted before an intent.
Earlier(accepted, n) == {m \in accepted : LexLess(Rank(m), Rank(n))}

\* In the end an intent is admitted exactly when it fits beside the admitted ones before it.
LEMMA AdmittedBefore ==
  ASSUME BufferInv, pc = "arbitrate", NEW acc, Admitted(acc), NEW k \in 1 .. Count
  PROVE  /\ Earlier(acc[Count], Nth(k)) = acc[k - 1]
         /\ Nth(k) \in acc[Count] <=> Fits(Nth(k), LedgerAt(acc[k - 1]))
<1>1. /\ Count \in Nat
      /\ \A j \in 1 .. Count : Nth(j) \in Intents /\ Nth(j) \notin Upto(j - 1)
      /\ \A i, j \in 1 .. Count : /\ LexLess(Rank(Nth(i)), Rank(Nth(j))) <=> i < j
                                  /\ Nth(i) = Nth(j) => i = j
  BY NthOnce
<1>2. ASSUME NEW m \in 0 .. Count
      PROVE  \A l \in 0 .. Count : m <= l => acc[m] = acc[l] \intersect Upto(m)
  <2> DEFINE bad == {l \in Nat : l \in 0 .. Count /\ m <= l /\ acc[m] # acc[l] \intersect Upto(m)}
  <2> SUFFICES ASSUME bad # {} PROVE FALSE
    BY <1>1
  <2>1. PICK l \in bad : \A j \in bad : l <= j
    BY LeastNatural
  <2>2. acc[m] \subseteq Upto(m)
    BY DEF Admitted
  <2>3. l # m
    BY <2>1, <2>2
  <2>4. l \in 1 .. Count /\ l - 1 \in 0 .. Count /\ m <= l - 1 /\ l - 1 \in Nat /\ l - 1 \notin bad
    BY <1>1, <2>1, <2>3
  <2>5. acc[m] = acc[l - 1] \intersect Upto(m)
    BY <2>4
  <2>6. acc[l] = acc[l - 1] \/ acc[l] = acc[l - 1] \union {Nth(l)}
    BY <2>4 DEF Admitted
  <2>7. Nth(l) \notin Upto(m)
    <3>1. Upto(m) \subseteq Upto(l - 1)
      BY <2>4 DEF Upto
    <3> QED
      BY <1>1, <2>4, <3>1
  <2> QED
    BY <2>1, <2>5, <2>6, <2>7
<1>3. k - 1 \in 0 .. Count /\ k \in 0 .. Count /\ Count \in 0 .. Count
  BY <1>1
<1>4. acc[k - 1] = acc[Count] \intersect Upto(k - 1) /\ acc[k] = acc[Count] \intersect Upto(k)
  BY <1>1, <1>2, <1>3
<1>5. acc[Count] \subseteq Upto(Count)
  BY <1>3 DEF Admitted
<1>6. ASSUME NEW m \in acc[Count]
      PROVE  LexLess(Rank(m), Rank(Nth(k))) <=> m \in Upto(k - 1)
  <2>1. PICK i \in 1 .. Count : m = Nth(i)
    BY <1>5 DEF Upto
  <2>2. m \in Upto(k - 1) <=> i \in 1 .. k - 1
    <3>1. i \in 1 .. k - 1 => m \in Upto(k - 1)
      BY <2>1 DEF Upto
    <3>2. ASSUME m \in Upto(k - 1) PROVE i \in 1 .. k - 1
      <4>1. PICK j \in 1 .. k - 1 : m = Nth(j)
        BY <3>2 DEF Upto
      <4>2. j \in 1 .. Count
        BY <1>1
      <4> QED
        BY <1>1, <2>1, <4>1, <4>2
    <3> QED
      BY <3>1, <3>2
  <2> QED
    BY <1>1, <2>1, <2>2
<1>7. Earlier(acc[Count], Nth(k)) = acc[k - 1]
  BY <1>4, <1>6 DEF Earlier
<1>8. Nth(k) \in Upto(k)
  BY <1>1 DEF Upto
<1>9. Nth(k) \notin acc[k - 1]
  BY <1>1, <1>3 DEF Admitted
<1>10. Nth(k) \in acc[k] <=> Fits(Nth(k), LedgerAt(acc[k - 1]))
  BY <1>9 DEF Admitted
<1> QED
  BY <1>4, <1>7, <1>8, <1>10

\* No start claims the resource under two spellings, without its owner and with it: documents
\* name no owner (documents.py), but a definition built in Python may.
PaysOnce ==
  \A i \in Inputs : \A c, d \in On(StartIntent(i), i.claims, "RESOURCE", "stamina") : c = d

\* What an intent asks for in sum is then what its claim asks for.
LEMMA OnePrice ==
  ASSUME PaysOnce, BufferInv, pc = "arbitrate", NEW n \in Intents
  PROVE  \/ Asks[n] = 0 /\ On(n, n.claims, "RESOURCE", "stamina") = {}
         \/ \E c : /\ On(n, n.claims, "RESOURCE", "stamina") = {c}
                   /\ Asks[n] = n.claims[c]
<1> DEFINE paid == On(n, n.claims, "RESOURCE", "stamina")
<1>1. \A c, d \in paid : c = d
  <2>1. CASE Start(n)
    <3>1. PICK i \in Inputs : n = StartIntent(i)
      BY <2>1 DEF Start
    <3>2. n.claims = i.claims
      BY <3>1 DEF StartIntent
    <3> QED
      BY <3>1, <3>2 DEF PaysOnce
  <2>2. CASE n \in OwnIntents
    <3>1. paid \subseteq {Place, Stamina} /\ \A c \in paid : Kind(c) = "RESOURCE"
      BY <2>2, IntentAmounts DEF On
    <3> QED
      BY <3>1, ClaimNames
  <2> QED
    BY <2>1, <2>2, IntentKinds
<1>2. Asks[n] = SumOf(n.claims, paid) - 0
  BY IntentTotals, TotalSum DEF Asks
<1>3. paid \subseteq DOMAIN n.claims /\ \A c \in DOMAIN n.claims : n.claims[c] \in Nat
  BY IntentAmounts DEF On
<1> HIDE DEF paid
<1>4. CASE paid = {}
  <2>1. SumOf(n.claims, {}) = 0
    BY FS_EmptySet, SumFacts
  <2> QED
    BY <1>2, <1>4, <2>1 DEF paid
<1>5. CASE paid # {}
  <2>1. PICK c : paid = {c}
    <3>1. PICK c \in paid : TRUE
      BY <1>5
    <3>2. paid = {c}
      BY <1>1, <3>1
    <3> QED
      BY <3>2
  <2>2. IsFiniteSet({c}) /\ n.claims[c] \in Int
    BY <1>3, <2>1, FS_Singleton
  <2>3. \A d \in {c} : n.claims[d] \in Int
    BY <2>2
  <2>4. SumOf(n.claims, {c}) = n.claims[c] + SumOf(n.claims, {c} \ {c})
    BY <2>2, <2>3, SumFacts
  <2>5. {c} \ {c} = {}
    OBVIOUS
  <2>6. SumOf(n.claims, {}) = 0
    BY FS_EmptySet, SumFacts
  <2>7. SumOf(n.claims, {c}) = n.claims[c]
    <3>1. SumOf(n.claims, {c} \ {c}) = 0
      BY <2>5, <2>6, Zenon
    <3>2. SumOf(n.claims, {c}) = n.claims[c] + 0
      BY <2>4, <3>1, Zenon
    <3> QED
      BY <2>2, <3>2
  <2>8. Asks[n] = n.claims[c]
    BY <1>2, <2>1, <2>2, <2>7
  <2> QED
    BY <2>1, <2>8 DEF paid
<1> QED
  BY <1>4, <1>5

\* Within the means of the owner.
RoomKept(acc) ==
  /\ others + Cardinality(acc) <= MaxActionsPerEntity
  /\ Cardinality(acc) <= SumOf(Takes, acc) + IF \E m \in acc : Swapping(m) THEN 1 ELSE 0

Paid(acc) == SumOf(Asks, acc) <= stamina

\* Accepting an intent that fits keeps the count of the places.
LEMMA RoomStep ==
  ASSUME BufferInv, pc = "arbitrate", others \in Nat, NEW acc \in SUBSET Intents,
         NEW n \in Intents \ acc, RoomKept(acc), Fits(n, LedgerAt(acc))
  PROVE  RoomKept(acc \union {n})
<1> DEFINE card == Cardinality(acc)
           taken == SumOf(Takes, acc)
           place == n.claims[Place]
           more == acc \union {n}
           take == Takes[n]
<1>1. /\ IsFiniteSet(acc) /\ taken \in Nat /\ place \in Nat /\ place >= 1 /\ take \in Nat
      /\ ~Swapping(n) => take >= place
      /\ SumOf(Takes, more) = take + taken
  BY AdmittedSums
<1>2. card \in Nat /\ Cardinality(more) = card + 1
  BY <1>1, FS_CardinalityType, FS_AddElement
<1>3. ((Present + taken) - (IF Swapping(n) THEN 1 ELSE 0)) + place <= MaxActionsPerEntity
  <2>1. Place \in DOMAIN n.claims
    BY IntentAmounts
  <2>2. ClaimFits(n, Place, LedgerAt(acc))
    BY <2>1 DEF Fits
  <2> QED
    BY <2>2, PlaceFits
<1>4. Present = others + (IF Running THEN 1 ELSE 0)
  BY DEF Present
<1>5. \A m \in Intents : Swapping(m) => Running /\ m.claims[Place] = 1
  BY IntentAmounts DEF Swapping
<1>6. Swapping(n) => ~\E m \in acc : Swapping(m)
  <2> SUFFICES ASSUME Swapping(n), NEW m \in acc, Swapping(m) PROVE FALSE
    OBVIOUS
  <2>1. \A x, y \in OwnIntents : x = y
    BY SelectedOne
  <2> QED
    BY <2>1 DEF Swapping
<1>7. /\ others + card <= MaxActionsPerEntity
      /\ card <= taken + IF \E m \in acc : Swapping(m) THEN 1 ELSE 0
  BY DEF RoomKept
<1> HIDE DEF card, taken, place, more, take
<1>8. CASE Swapping(n)
  <2>1. card <= taken
    BY <1>1, <1>2, <1>6, <1>7, <1>8
  <2>2. Present = others + 1 /\ place = 1
    BY <1>4, <1>5, <1>8 DEF place
  <2>3. others + (card + 1) <= MaxActionsPerEntity
    BY <1>1, <1>2, <1>3, <1>8, <2>1, <2>2, ClockAssumption
  <2>4. \E m \in more : Swapping(m)
    BY <1>8 DEF more
  <2>5. Cardinality(more) <= SumOf(Takes, more) + IF \E m \in more : Swapping(m) THEN 1 ELSE 0
    BY <1>1, <1>2, <2>1, <2>4
  <2> QED
    BY <1>2, <2>3, <2>5 DEF RoomKept, more
<1>9. CASE ~Swapping(n)
  <2>1. (\E m \in more : Swapping(m)) <=> (\E m \in acc : Swapping(m))
    BY <1>9 DEF more
  <2>2. (\E m \in acc : Swapping(m)) => Running
    BY <1>5
  <2>3. others + (card + 1) <= MaxActionsPerEntity
    BY <1>1, <1>2, <1>3, <1>4, <1>7, <1>9, <2>2, ClockAssumption
  <2>4. Cardinality(more) <= SumOf(Takes, more) + IF \E m \in more : Swapping(m) THEN 1 ELSE 0
    BY <1>1, <1>2, <1>7, <1>9, <2>1
  <2> QED
    BY <1>2, <2>3, <2>4 DEF RoomKept, more
<1> QED
  BY <1>8, <1>9

\* Accepting an intent that fits keeps the accepted ones paid.
LEMMA PaidStep ==
  ASSUME PaysOnce, BufferInv, pc = "arbitrate", stamina \in Nat, NEW acc \in SUBSET Intents,
         NEW n \in Intents \ acc, Paid(acc), Fits(n, LedgerAt(acc))
  PROVE  Paid(acc \union {n})
<1> DEFINE paid == SumOf(Asks, acc)
           ask == Asks[n]
<1>1. paid \in Nat /\ ask \in Nat /\ SumOf(Asks, acc \union {n}) = ask + paid
  BY AdmittedSums
<1>2. paid <= stamina
  BY DEF Paid
<1>3. ask = 0 \/ ask <= stamina - paid
  <2>1. CASE ask = 0
    BY <2>1
  <2>2. CASE ask # 0
    <3>1. PICK c : On(n, n.claims, "RESOURCE", "stamina") = {c} /\ ask = n.claims[c]
      BY <2>2, OnePrice
    <3>2. c \in On(n, n.claims, "RESOURCE", "stamina") /\ c \in DOMAIN n.claims
      BY <3>1 DEF On
    <3>3. ClaimFits(n, c, LedgerAt(acc))
      BY <3>2 DEF Fits
    <3>4. stamina - SumOf(Asks, acc) \in Int
      BY <1>1
    <3>5. n.claims[c] <= stamina - SumOf(Asks, acc)
      BY <3>2, <3>3, <3>4, PriceFits
    <3> QED
      BY <3>1, <3>5
  <2> QED
    BY <2>1, <2>2
<1> HIDE DEF paid, ask
<1>4. ask + paid <= stamina
  BY <1>1, <1>2, <1>3
<1> QED
  BY <1>1, <1>4 DEF Paid

\* The verdict stays within the means of the owner.
LEMMA VerdictKeeps ==
  ASSUME BufferInv, pc = "arbitrate", others \in 0 .. MaxActionsPerEntity,
         NEW acc, Admitted(acc), NEW k \in 0 .. Count
  PROVE  RoomKept(acc[k]) /\ (PaysOnce /\ stamina \in Nat => Paid(acc[k]))
<1>1. Count \in Nat /\ \A j \in 1 .. Count : Nth(j) \in Intents /\ Nth(j) \notin Upto(j - 1)
  BY NthOnce
<1>2. others \in Nat
  OBVIOUS
<1> DEFINE Good(j) == RoomKept(acc[j]) /\ (PaysOnce /\ stamina \in Nat => Paid(acc[j]))
           bad == {j \in Nat : j \in 0 .. Count /\ ~Good(j)}
<1>3. Good(0)
  <2>1. acc[0] = {} /\ Cardinality({}) = 0 /\ SumOf(Asks, {}) = 0 /\ SumOf(Takes, {}) = 0
    BY FS_EmptySet, SumFacts DEF Admitted
  <2>2. RoomKept({})
    <3>1. others + 0 <= MaxActionsPerEntity
      BY ClockAssumption
    <3>2. 0 <= 0 + IF \E m \in {} : Swapping(m) THEN 1 ELSE 0
      OBVIOUS
    <3> QED
      BY <2>1, <3>1, <3>2 DEF RoomKept
  <2>3. stamina \in Nat => Paid({})
    BY <2>1 DEF Paid
  <2> QED
    BY <2>1, <2>2, <2>3
<1>4. ASSUME NEW j \in 1 .. Count, Good(j - 1) PROVE Good(j)
  <2> DEFINE before == acc[j - 1]
             n == Nth(j)
  <2>1. j - 1 \in 0 .. Count
    BY <1>1
  <2>2. before \in SUBSET Intents /\ before \subseteq Upto(j - 1)
    BY <2>1 DEF Admitted
  <2>3. n \in Intents \ before
    BY <1>1, <2>2
  <2>4. acc[j] = IF Fits(n, LedgerAt(before)) THEN before \union {n} ELSE before
    BY DEF Admitted
  <2>5. RoomKept(before) /\ (PaysOnce /\ stamina \in Nat => Paid(before))
    BY <1>4
  <2> HIDE DEF before, n
  <2>6. Fits(n, LedgerAt(before)) => RoomKept(before \union {n})
    BY <1>2, <2>2, <2>3, <2>5, RoomStep
  <2>7. Fits(n, LedgerAt(before)) /\ PaysOnce /\ stamina \in Nat => Paid(before \union {n})
    BY <2>2, <2>3, <2>5, PaidStep
  <2> QED
    BY <2>4, <2>5, <2>6, <2>7
<1> HIDE DEF Good
<1>5. bad = {}
  <2> SUFFICES ASSUME bad # {} PROVE FALSE
    OBVIOUS
  <2>1. PICK j \in bad : \A i \in bad : j <= i
    BY LeastNatural
  <2>2. j \in 1 .. Count /\ ~Good(j)
    BY <1>1, <1>3, <2>1
  <2>3. j - 1 \in 0 .. Count /\ j - 1 \notin bad /\ j - 1 \in Nat
    BY <1>1, <2>1, <2>2
  <2> QED
    BY <1>4, <2>2, <2>3
<1> QED
  BY <1>1, <1>5 DEF Good

\* What the stage accepts, and what it leaves of the means of the owner.
LEMMA StageVerdict ==
  ASSUME BufferInv, stamina \in Int, others \in 0 .. MaxActionsPerEntity, ArbitrateStage
  PROVE  \E acc : /\ Admitted(acc) /\ acc[Count] \in SUBSET Intents
                  /\ stamina' = stamina - SumOf(Asks, acc[Count])
                  /\ others' = others + Cardinality(acc[Count])
                  /\ buffer' = Consumed(OwnIntents \intersect acc[Count] # {})
                  /\ IsFiniteSet(acc[Count]) /\ SumOf(Asks, acc[Count]) \in Nat
                  /\ \A n \in acc[Count] : Asks[n] <= SumOf(Asks, acc[Count])
                  /\ RoomKept(acc[Count])
                  /\ PaysOnce /\ stamina \in Nat => Paid(acc[Count])
<1>1. pc = "arbitrate" /\ others \in Nat
  BY DEF ArbitrateStage
<1>2. PICK acc : /\ Admitted(acc)
                 /\ Arbitrate(Intents, ArbitrationState).accepted = acc[Count]
                 /\ Arbitrate(Intents, ArbitrationState).state = LedgerAt(acc[Count])
  BY <1>1, VerdictRuns
<1>3. Count \in 0 .. Count
  <2>1. Count \in Nat
    BY <1>1, NthOnce
  <2> QED
    BY <2>1
<1>4. acc[Count] \in SUBSET Intents
  BY <1>2, <1>3 DEF Admitted
<1>5. LedgerAt(acc[Count]).bank[<<1, "stamina">>] = stamina - SumOf(Asks, acc[Count])
  BY DEF LedgerAt, Ledger, Purse
<1>6. /\ stamina' = stamina - SumOf(Asks, acc[Count])
      /\ others' = others + Cardinality(acc[Count])
      /\ buffer' = Consumed(OwnIntents \intersect acc[Count] # {})
  BY <1>2, <1>5 DEF ArbitrateStage
<1>7. /\ IsFiniteSet(acc[Count]) /\ SumOf(Asks, acc[Count]) \in Nat
      /\ \A n \in acc[Count] : Asks[n] <= SumOf(Asks, acc[Count])
  BY <1>1, <1>4, AdmittedSums
<1>8. RoomKept(acc[Count]) /\ (PaysOnce /\ stamina \in Nat => Paid(acc[Count]))
  BY <1>1, <1>2, <1>3, VerdictKeeps
<1> QED
  BY <1>2, <1>4, <1>6, <1>7, <1>8

\* The owner has no more running actions than it may, and spends no more than it has.
MeansInv ==
  /\ stamina \in Int /\ others \in 0 .. MaxActionsPerEntity
  /\ PaysOnce => stamina \in Nat
  /\ pc # "begin" => /\ start.stamina \in Int /\ start.others \in 0 .. MaxActionsPerEntity
                     /\ PaysOnce => start.stamina \in Nat

\* It holds at first.
LEMMA MeansInvInit == Init => MeansInv
BY ClockAssumption DEF Init, MeansInv

\* Every step keeps it.
LEMMA MeansInvNext == BufferInv /\ MeansInv /\ [Next]_vars => MeansInv'
<1> SUFFICES ASSUME BufferInv, MeansInv, [Next]_vars PROVE MeansInv'
  OBVIOUS
<1>1. CASE ArbitrateStage
  <2>1. PICK acc : /\ stamina' = stamina - SumOf(Asks, acc[Count])
                   /\ others' = others + Cardinality(acc[Count])
                   /\ IsFiniteSet(acc[Count]) /\ SumOf(Asks, acc[Count]) \in Nat
                   /\ RoomKept(acc[Count])
                   /\ PaysOnce /\ stamina \in Nat => Paid(acc[Count])
    BY <1>1, StageVerdict DEF MeansInv
  <2>2. Cardinality(acc[Count]) \in Nat
    BY <2>1, FS_CardinalityType
  <2>3. others' \in 0 .. MaxActionsPerEntity
    BY <2>1, <2>2, ClockAssumption DEF RoomKept, MeansInv
  <2>4. stamina' \in Int
    BY <2>1 DEF MeansInv
  <2>5. PaysOnce => stamina' \in Nat
    BY <2>1, <2>4 DEF MeansInv, Paid
  <2>6. start' = start /\ pc # "begin"
    BY <1>1 DEF ArbitrateStage
  <2> QED
    BY <2>3, <2>4, <2>5, <2>6 DEF MeansInv, PaysOnce
<1>2. CASE Begin
  <2>1. /\ stamina' = stamina /\ others' = others
        /\ start'.stamina = stamina /\ start'.others = others
    BY <1>2 DEF Begin
  <2> QED
    BY <2>1 DEF MeansInv
<1>3. CASE ProgressFault
  BY <1>3 DEF ProgressFault, Contain, MeansInv
<1>4. CASE Freeze \/ ProgressStage \/ Close \/ BufferFault \/ FaultElsewhere \/ UNCHANGED vars
  <2>1. /\ stamina' = stamina /\ others' = others
        /\ (pc' = "begin" \/ (pc # "begin" /\ start' = start))
    BY <1>4 DEF Freeze, ProgressStage, Close, BufferFault, FaultElsewhere, Contain, vars
  <2> QED
    BY <2>1 DEF MeansInv
<1> QED
  BY <1>1, <1>2, <1>3, <1>4 DEF Next

-----------------------------------------------------------------------------
(* What the input buffer loses *)

\* What the arbitration takes from the buffer is the oldest entry of the selected command, as
\* the consume policy says.
LEMMA ArbitrateBuffer ==
  ASSUME BufferInv, MeansInv, ArbitrateStage,
         NEW e \in buffer, \A f \in buffer' : f.id # e.id
  PROVE  /\ {e.cmd} = Selected
         /\ \A f \in buffer' : f.cmd = e.cmd => LexLess(Age(e), Age(f))
         /\ \/ setup.consume = "ON_ATTEMPT"
            \/ setup.consume = "ON_ACCEPT" /\ stamina' < stamina
<1>1. PICK acc : /\ acc[Count] \in SUBSET Intents
                 /\ stamina' = stamina - SumOf(Asks, acc[Count])
                 /\ buffer' = Consumed(OwnIntents \intersect acc[Count] # {})
                 /\ SumOf(Asks, acc[Count]) \in Nat
                 /\ \A n \in acc[Count] : Asks[n] <= SumOf(Asks, acc[Count])
  BY StageVerdict DEF MeansInv
<1> DEFINE accepted == OwnIntents \intersect acc[Count] # {}
<1>2. buffer' \subseteq buffer /\ e \notin buffer' /\ buffer' = Consumed(accepted)
  BY <1>1, ConsumedPart
<1>3. Selected # {}
  BY <1>2 DEF Consumed
<1>4. PICK cmd \in {"go", "swap"}, d \in buffer :
        /\ Selected = {cmd} /\ OwnIntents = {OwnIntent(cmd, d)}
        /\ SelectEntry(buffer, cmd) = {d} /\ d.cmd = cmd
        /\ \A f \in buffer \ {d} : f.cmd = cmd => LexLess(Age(d), Age(f))
  BY <1>3, SelectedOne
<1>5. buffer' = ApplyConsumption(buffer, {d}, setup.consume, accepted)
  <2>1. Consumed(accepted) =
          UNION {ApplyConsumption(buffer, SelectEntry(buffer, c), setup.consume, accepted) :
                   c \in {cmd}}
    BY <1>4 DEF Consumed
  <2> HIDE DEF accepted
  <2>2. Consumed(accepted) =
          UNION {ApplyConsumption(buffer, SelectEntry(buffer, cmd), setup.consume, accepted)}
    BY <2>1
  <2> QED
    BY <1>2, <1>4, <2>2
<1>6. e = d /\ (setup.consume = "ON_ATTEMPT" \/ (setup.consume = "ON_ACCEPT" /\ accepted))
  <2> HIDE DEF accepted
  <2> QED
    BY <1>2, <1>5 DEF ApplyConsumption
<1>7. accepted => stamina' < stamina
  <2> SUFFICES ASSUME accepted PROVE stamina' < stamina
    OBVIOUS
  <2>1. PICK n \in acc[Count] : n \in OwnIntents
    OBVIOUS
  <2>2. pc = "arbitrate" /\ stamina \in Int
    BY DEF ArbitrateStage, MeansInv
  <2>3. Asks[n] \in Nat /\ Asks[n] >= 1
    BY <1>1, <2>1, <2>2, AdmittedSums
  <2>4. SumOf(Asks, acc[Count]) >= 1
    BY <1>1, <2>1, <2>3
  <2> QED
    BY <1>1, <2>2, <2>4
<1>8. \A f \in buffer' : f.cmd = e.cmd => LexLess(Age(e), Age(f))
  BY <1>2, <1>4, <1>6
<1> QED
  BY <1>4, <1>6, <1>7, <1>8

\* A buffer entry goes only when it must (buffers.py): evicted while it is the oldest of a full
\* buffer, consumed while it is the oldest of its command, as its policy says, or expired after
\* exactly its lifetime.
THEOREM InputsExactHolds == Spec => InputsExact
<1> DEFINE Gone(e) == \A f \in buffer' : f.id # e.id
           Exact(e) ==
             CASE pc = "begin" /\ pc' = "arbitrate" ->
                    Gone(e) => /\ setup.overflow = "DROP_OLDEST"
                               /\ Cardinality(buffer') = Capacity
                               /\ \A f \in buffer' : LexLess(Age(e), Age(f))
               [] pc = "arbitrate" ->
                    Gone(e) => /\ {e.cmd} = Selected
                               /\ \A f \in buffer' : f.cmd = e.cmd => LexLess(Age(e), Age(f))
                               /\ \/ setup.consume = "ON_ATTEMPT"
                                  \/ setup.consume = "ON_ACCEPT" /\ stamina' < stamina
               [] pc = "close" -> Running => (Gone(e) <=> Aged(e) >= Lifetime)
               [] OTHER -> ~Gone(e) \/ pc' = "begin"
<1>1. ASSUME TicksTyped, TimelineInv, BufferInv, MeansInv, [Next]_vars, NEW e \in buffer
      PROVE  Exact(e) \/ UNCHANGED vars
  <2>1. CASE Begin
    <3>1. pc = "begin" /\ pc' = "arbitrate"
      BY <2>1 DEF Begin
    <3>2. Gone(e) => e \in buffer \ buffer'
      OBVIOUS
    <3> HIDE DEF Gone
    <3> QED
      BY <1>1, <2>1, <3>1, <3>2, BeginBuffer
  <2>2. CASE ArbitrateStage
    <3>1. pc = "arbitrate"
      BY <2>2 DEF ArbitrateStage
    <3>2. Gone(e) => /\ {e.cmd} = Selected
                     /\ \A f \in buffer' : f.cmd = e.cmd => LexLess(Age(e), Age(f))
                     /\ \/ setup.consume = "ON_ATTEMPT"
                        \/ setup.consume = "ON_ACCEPT" /\ stamina' < stamina
      BY <1>1, <2>2, ArbitrateBuffer
    <3> HIDE DEF Gone
    <3> QED
      BY <3>1, <3>2
  <2>3. CASE Close
    <3>1. pc = "close"
      BY <2>3 DEF Close
    <3>2. Len(past) = tick + 1
      BY <1>1, <3>1 DEF TicksTyped
    <3>3. Aged(e) = Cardinality(AgedIn(e, tick + 1))
      BY <3>2 DEF Aged, AgedIn
    <3>4. Running => (Gone(e) <=> Aged(e) >= Lifetime)
      BY <1>1, <2>3, <3>3, CloseBuffer
    <3> HIDE DEF Gone
    <3> QED
      BY <3>1, <3>4
  <2>4. CASE ProgressStage
    <3>1. pc = "progress" /\ buffer' = buffer
      BY <2>4 DEF ProgressStage
    <3>2. ~Gone(e)
      BY <3>1
    <3> HIDE DEF Gone
    <3> QED
      BY <3>1, <3>2
  <2>5. CASE Freeze \/ BufferFault \/ FaultElsewhere \/ ProgressFault
    <3>1. pc' = "begin" /\ pc \in {"begin", "progress"}
      BY <2>5 DEF Freeze, BufferFault, FaultElsewhere, ProgressFault, Contain
    <3> HIDE DEF Gone
    <3> QED
      BY <3>1
  <2> QED
    BY <1>1, <2>1, <2>2, <2>3, <2>4, <2>5 DEF Next
<1>2. TicksTyped /\ TimelineInv /\ BufferInv /\ MeansInv /\ [Next]_vars
        => [\A e \in buffer : Exact(e)]_vars
  BY <1>1
<1>3. Init => TicksTyped /\ TimelineInv /\ BufferInv /\ MeansInv
  BY TicksTypedInit, TimelineInvInit, BufferInvInit, MeansInvInit
<1>4. TicksTyped /\ TimelineInv /\ BufferInv /\ MeansInv /\ [Next]_vars
        => (TicksTyped /\ TimelineInv /\ BufferInv /\ MeansInv)'
  BY TicksTypedNext, TimelineInvNext, BufferInvNext, MeansInvNext
<1>5. InputsExact <=> [][\A e \in buffer : Exact(e)]_vars
  BY DEF InputsExact
<1> QED
  BY <1>2, <1>3, <1>4, <1>5, PTL DEF Spec

\* The state has its type (state.py, freezes.py, events.py, buffers.py).  That no resource goes
\* below zero takes that no start claims it under two spellings.
THEOREM ClockTypeOK ==
  ASSUME PaysOnce
  PROVE  Spec => []TypeOK
<1>1. ASSUME TicksTyped, TimelineInv, EventsInv, TokensInv, BufferInv, MeansInv PROVE TypeOK
  <2>1. \A t \in tokens : t \in FreezeToken({Self}, t.domains)
    <3> TAKE t \in tokens
    <3>1. t \in FreezeToken({Self}, STRING)
      BY <1>1 DEF TokensInv
    <3> QED
      BY <3>1 DEF FreezeToken
  <2>2. buffer \subseteq BufferEntry(Commands)
    BY <1>1 DEF BufferInv, Buffered
  <2>3. asked \in Seq(TokenKinds) /\ granted <= setup.tokens /\ \A t \in tokens : t.id < granted
    BY <1>1 DEF TicksTyped, SetupType, TokensInv
  <2> QED
    BY <1>1, <2>1, <2>2, <2>3 DEF TypeOK, TicksTyped, SetupType, TimelineInv, EventsInv, MeansInv
<1>2. Init => TicksTyped /\ TimelineInv /\ EventsInv /\ TokensInv /\ BufferInv /\ MeansInv
  BY TicksTypedInit, TimelineInvInit, EventsInvInit, TokensInvInit, BufferInvInit, MeansInvInit
<1>3. TicksTyped /\ TimelineInv /\ EventsInv /\ TokensInv /\ BufferInv /\ MeansInv /\ [Next]_vars
        => (TicksTyped /\ TimelineInv /\ EventsInv /\ TokensInv /\ BufferInv /\ MeansInv)'
  BY TicksTypedNext, TimelineInvNext, EventsInvNext, TokensInvNext, BufferInvNext, MeansInvNext
<1> QED
  BY <1>1, <1>2, <1>3, PTL DEF Spec

-----------------------------------------------------------------------------
(* Who is admitted *)

\* The starts claim their place, the resource of the owner under one spelling, and exclusive
\* keys: what the means of the owner in this model are.
PlainClaims ==
  /\ PaysOnce
  /\ \A i \in Inputs : \A c \in DOMAIN i.claims :
       \/ c = Place \/ c \in On(StartIntent(i), i.claims, "RESOURCE", "stamina")
       \/ Kind(c) = "EXCLUSIVE_KEY"

\* What a set of intents takes is what they ask for.
LEMMA TakenSums ==
  ASSUME BufferInv, pc = "arbitrate", NEW ns \in SUBSET Intents
  PROVE  /\ Taken(ns, "RESOURCE", "stamina") = SumOf(Asks, ns)
         /\ Taken(ns, "CAPACITY", "ACTIONS") = SumOf(Takes, ns)
<1> DEFINE net(kind, name) ==
             [n \in ns |-> Total(n, n.claims, kind, 1, name) - Total(n, n.releases, kind, 1, name)]
<1>1. ASSUME NEW kind, NEW name PROVE Taken(ns, kind, name) = SumOf(net(kind, name), ns)
  BY DEF Taken
<1>2. IsFiniteSet(ns) /\ \A n \in ns : Asks[n] \in Int /\ Takes[n] \in Int
  <2>1. IsFiniteSet(ns) /\ \A n \in Intents : Asks[n] \in Nat /\ Takes[n] \in Nat
    BY AdmittedSums
  <2> QED
    BY <2>1
<1>3. \A n \in ns : /\ net("RESOURCE", "stamina")[n] = Asks[n]
                    /\ net("CAPACITY", "ACTIONS")[n] = Takes[n]
  BY DEF Asks, Takes
<1> HIDE DEF net
<1>4. SumOf(net("RESOURCE", "stamina"), ns) = SumOf(Asks, ns)
  BY <1>2, <1>3, SumSame
<1>5. SumOf(net("CAPACITY", "ACTIONS"), ns) = SumOf(Takes, ns)
  BY <1>2, <1>3, SumSame
<1> QED
  BY <1>1, <1>4, <1>5

\* What an intent claims then, and that it takes the place it claims.
LEMMA PlainIntent ==
  ASSUME PlainClaims, BufferInv, pc = "arbitrate", NEW n \in Intents
  PROVE  /\ \A c \in DOMAIN n.claims :
              \/ c = Place \/ c \in On(n, n.claims, "RESOURCE", "stamina")
              \/ Kind(c) = "EXCLUSIVE_KEY"
         /\ Takes[n] = n.claims[Place] - IF Swapping(n) THEN 1 ELSE 0
<1>1. \A c \in DOMAIN n.claims :
        \/ c = Place \/ c \in On(n, n.claims, "RESOURCE", "stamina") \/ Kind(c) = "EXCLUSIVE_KEY"
  <2>1. CASE Start(n)
    <3>1. PICK i \in Inputs : n = StartIntent(i)
      BY <2>1 DEF Start
    <3>2. n.claims = i.claims
      BY <3>1 DEF StartIntent
    <3> QED
      BY <3>1, <3>2 DEF PlainClaims
  <2>2. CASE n \in OwnIntents
    <3>1. DOMAIN n.claims = {Place, Stamina} /\ n.owner = 1
      BY <2>2, IntentAmounts
    <3>2. Stamina \in On(n, n.claims, "RESOURCE", "stamina")
      BY <3>1, ClaimNames DEF On, ClaimOwner
    <3> QED
      BY <3>1, <3>2
  <2> QED
    BY <2>1, <2>2, IntentKinds
<1>2. On(n, n.claims, "CAPACITY", "ACTIONS") = {Place}
  <2>1. n.owner = 1 /\ Place \in DOMAIN n.claims
    BY IntentAmounts
  <2>2. Place \in On(n, n.claims, "CAPACITY", "ACTIONS")
    BY <2>1, ClaimNames DEF On, ClaimOwner
  <2>3. \A c \in On(n, n.claims, "CAPACITY", "ACTIONS") : c = Place
    BY <1>1 DEF On
  <2> QED
    BY <2>2, <2>3
<1>3. Total(n, n.claims, "CAPACITY", 1, "ACTIONS") = n.claims[Place]
  <2> DEFINE place == n.claims[Place]
  <2>1. IsFiniteSet({Place}) /\ place \in Int
    <3>1. \A c \in DOMAIN n.claims : n.claims[c] \in Nat
      BY IntentAmounts
    <3>2. place \in Int
      BY <3>1, IntentAmounts
    <3>3. IsFiniteSet({Place})
      BY FS_Singleton
    <3> QED
      BY <3>2, <3>3
  <2>2. \A c \in {Place} : n.claims[c] \in Int
    BY <2>1
  <2>3. SumOf(n.claims, {Place}) = place + SumOf(n.claims, {Place} \ {Place})
    BY <2>1, <2>2, SumFacts
  <2>4. {Place} \ {Place} = {}
    OBVIOUS
  <2>5. SumOf(n.claims, {}) = 0
    BY FS_EmptySet, SumFacts
  <2>6. SumOf(n.claims, {Place} \ {Place}) = 0
    BY <2>4, <2>5, Zenon
  <2>7. SumOf(n.claims, {Place}) = place + 0
    BY <2>3, <2>6, Zenon
  <2> HIDE DEF place
  <2>8. SumOf(n.claims, {Place}) = place
    BY <2>1, <2>7
  <2> QED
    BY <1>2, <2>8, TotalSum DEF place
<1>4. Takes[n] = Total(n, n.claims, "CAPACITY", 1, "ACTIONS")
                   - Total(n, n.releases, "CAPACITY", 1, "ACTIONS")
  BY DEF Takes
<1>5. Total(n, n.releases, "CAPACITY", 1, "ACTIONS") = IF Swapping(n) THEN 1 ELSE 0
  BY IntentTotals
<1> QED
  BY <1>1, <1>3, <1>4, <1>5

\* Every claim on its own fits exactly when the owner can pay for the whole intent.
LEMMA PayableFits ==
  ASSUME PlainClaims, BufferInv, pc = "arbitrate", stamina \in Nat, others \in Nat,
         NEW acc \in SUBSET Intents, Paid(acc), NEW n \in Intents \ acc
  PROVE  Fits(n, LedgerAt(acc)) <=>
           /\ Taken(acc \union {n}, "RESOURCE", "stamina") <= stamina
           /\ Taken(acc \union {n}, "CAPACITY", "ACTIONS") + others + (IF Running THEN 1 ELSE 0)
                <= MaxActionsPerEntity
           /\ KeysOf(n.claims) \intersect UNION {KeysOf(m.claims) : m \in acc} = {}
<1> DEFINE paid == SumOf(Asks, acc)
           taken == SumOf(Takes, acc)
           ask == Asks[n]
           take == Takes[n]
           place == n.claims[Place]
           back == IF Swapping(n) THEN 1 ELSE 0
           fit(c) == ClaimFits(n, c, LedgerAt(acc))
           Priced == On(n, n.claims, "RESOURCE", "stamina")
           taking == UNION {KeysOf(m.claims) : m \in acc}
<1>1. /\ paid \in Nat /\ taken \in Nat /\ ask \in Nat /\ take \in Nat /\ place \in Nat
      /\ SumOf(Asks, acc \union {n}) = ask + paid /\ SumOf(Takes, acc \union {n}) = take + taken
  BY AdmittedSums
<1>2. /\ Taken(acc \union {n}, "RESOURCE", "stamina") = ask + paid
      /\ Taken(acc \union {n}, "CAPACITY", "ACTIONS") = take + taken
  <2>1. acc \union {n} \in SUBSET Intents
    OBVIOUS
  <2> QED
    BY <1>1, <2>1, TakenSums
<1>3. paid <= stamina
  BY DEF Paid
<1>4. /\ take = place - back
      /\ \A c \in DOMAIN n.claims : c = Place \/ c \in Priced \/ Kind(c) = "EXCLUSIVE_KEY"
  BY PlainIntent
<1>5. Place \in DOMAIN n.claims /\ Priced \subseteq DOMAIN n.claims
  BY IntentAmounts DEF On
<1>6. fit(Place) <=> ((Present + taken) - back) + place <= MaxActionsPerEntity
  BY PlaceFits
<1>7. \A c \in Priced : fit(c) <=> n.claims[c] <= stamina - paid
  <2>1. stamina - SumOf(Asks, acc) \in Int
    BY <1>1
  <2> QED
    BY <2>1, PriceFits
<1>8. \A c : Kind(c) = "EXCLUSIVE_KEY" => (fit(c) <=> Name(c) \notin taking)
  BY KeyFits
<1>9. (Priced = {} /\ ask = 0) \/ \E c : Priced = {c} /\ ask = n.claims[c]
  BY OnePrice DEF PlainClaims
<1>10. Present = others + (IF Running THEN 1 ELSE 0) /\ back \in Nat
  BY DEF Present
<1>11. Fits(n, LedgerAt(acc)) <=>
         /\ fit(Place) /\ \A c \in Priced : fit(c)
         /\ \A c \in DOMAIN n.claims : Kind(c) = "EXCLUSIVE_KEY" => fit(c)
  BY <1>4, <1>5 DEF Fits
<1>12. (\A c \in DOMAIN n.claims : Kind(c) = "EXCLUSIVE_KEY" => Name(c) \notin taking)
         <=> KeysOf(n.claims) \intersect taking = {}
  BY DEF KeysOf
<1> HIDE DEF paid, taken, ask, take, place, back, fit, Priced, taking
<1>13. (\A c \in Priced : fit(c)) <=> ask + paid <= stamina
  <2>1. CASE Priced = {} /\ ask = 0
    BY <1>1, <1>3, <2>1
  <2>2. ASSUME NEW c, Priced = {c}, ask = n.claims[c]
        PROVE  (\A d \in Priced : fit(d)) <=> ask + paid <= stamina
    <3>1. (\A d \in Priced : fit(d)) <=> ask <= stamina - paid
      BY <1>7, <2>2
    <3> QED
      BY <1>1, <3>1
  <2> QED
    BY <1>9, <2>1, <2>2
<1>14. fit(Place) <=> take + taken + others + (IF Running THEN 1 ELSE 0) <= MaxActionsPerEntity
  BY <1>1, <1>4, <1>6, <1>10, ClockAssumption
<1>15. Fits(n, LedgerAt(acc)) <=>
         /\ ask + paid <= stamina
         /\ take + taken + others + (IF Running THEN 1 ELSE 0) <= MaxActionsPerEntity
         /\ KeysOf(n.claims) \intersect taking = {}
  BY <1>8, <1>11, <1>12, <1>13, <1>14
<1> QED
  BY <1>2, <1>15 DEF taking

\* An intent is accepted exactly when the owner can pay for it beside the accepted ones before it
\* in canonical order, and nothing is paid in part (_arbitrate_stage), when the starts make plain
\* claims.
THEOREM GreedyAdmissionHolds ==
  ASSUME PlainClaims
  PROVE  Spec => GreedyAdmission
<1> DEFINE Payable(n, before) ==
             /\ Taken(before \union {n}, "RESOURCE", "stamina") <= stamina
             /\ Taken(before \union {n}, "CAPACITY", "ACTIONS") + others
                  + (IF Running THEN 1 ELSE 0) <= MaxActionsPerEntity
             /\ KeysOf(n.claims) \intersect UNION {KeysOf(m.claims) : m \in before} = {}
           Greedy ==
             \E accepted \in SUBSET Intents :
               /\ \A n \in Intents : n \in accepted <=> Payable(n, Earlier(accepted, n))
               /\ stamina' = stamina - Taken(accepted, "RESOURCE", "stamina")
               /\ others' = others + Cardinality(accepted)
<1>1. ASSUME BufferInv, MeansInv, ArbitrateStage PROVE Greedy
  <2>1. /\ pc = "arbitrate" /\ stamina \in Nat /\ stamina \in Int
        /\ others \in 0 .. MaxActionsPerEntity /\ others \in Nat
    BY <1>1 DEF ArbitrateStage, MeansInv, PlainClaims
  <2>2. PICK acc : /\ Admitted(acc) /\ acc[Count] \in SUBSET Intents
                   /\ stamina' = stamina - SumOf(Asks, acc[Count])
                   /\ others' = others + Cardinality(acc[Count])
    BY <1>1, <2>1, StageVerdict
  <2>3. ASSUME NEW n \in Intents
        PROVE  n \in acc[Count] <=> Payable(n, Earlier(acc[Count], n))
    <3>1. PICK k \in 1 .. Count : Nth(k) = n
      BY <1>1, <2>1, NthOnce
    <3>2. k - 1 \in 0 .. Count /\ n \notin Upto(k - 1)
      BY <1>1, <2>1, <3>1, NthOnce
    <3> DEFINE before == acc[k - 1]
    <3>3. before \in SUBSET Intents /\ n \in Intents \ before
      BY <2>2, <3>2 DEF Admitted
    <3>4. Paid(before)
      BY <1>1, <2>1, <2>2, <3>2, VerdictKeeps DEF PlainClaims
    <3>5. Earlier(acc[Count], n) = before /\ (n \in acc[Count] <=> Fits(n, LedgerAt(before)))
      BY <1>1, <2>1, <2>2, <3>1, AdmittedBefore
    <3> HIDE DEF before
    <3>6. Fits(n, LedgerAt(before)) <=> Payable(n, before)
      BY <1>1, <2>1, <3>3, <3>4, PayableFits
    <3> HIDE DEF Payable
    <3> QED
      BY <3>5, <3>6
  <2>4. Taken(acc[Count], "RESOURCE", "stamina") = SumOf(Asks, acc[Count])
    BY <1>1, <2>1, <2>2, TakenSums
  <2> HIDE DEF Payable
  <2> QED
    BY <2>2, <2>3, <2>4
<1>2. BufferInv /\ MeansInv /\ [Next]_vars => [pc = "arbitrate" => Greedy]_vars
  <2> SUFFICES ASSUME BufferInv, MeansInv, Next, pc = "arbitrate" PROVE Greedy
    OBVIOUS
  <2>1. ArbitrateStage
    BY DEF Next, Freeze, Begin, ProgressStage, Close, BufferFault, ProgressFault, FaultElsewhere
  <2> HIDE DEF Greedy
  <2> QED
    BY <1>1, <2>1
<1>3. Init => TicksTyped /\ TimelineInv /\ BufferInv /\ MeansInv
  BY TicksTypedInit, TimelineInvInit, BufferInvInit, MeansInvInit
<1>4. TicksTyped /\ TimelineInv /\ BufferInv /\ MeansInv /\ [Next]_vars
        => (TicksTyped /\ TimelineInv /\ BufferInv /\ MeansInv)'
  BY TicksTypedNext, TimelineInvNext, BufferInvNext, MeansInvNext
<1>5. GreedyAdmission <=> [][pc = "arbitrate" => Greedy]_vars
  BY DEF GreedyAdmission, Earlier
<1> QED
  BY <1>2, <1>3, <1>4, <1>5, PTL DEF Spec
=============================================================================
