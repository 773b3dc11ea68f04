------------------------------ MODULE Timeline ------------------------------
(***************************************************************************)
(* The progression of an action that PCAM-24 compiled (pcam24.py, and      *)
(* _progress_action of runtime.py): one node of Steps steps, left by one   *)
(* AFTER_QUANTUM transition at its end, which ends the action, starts the  *)
(* next cycle or holds the last step at rate 0.                            *)
(***************************************************************************)
EXTENDS Integers, FiniteSets

CONSTANTS
  Steps,       \* quanta of a timeline, 24 in the code
  RateScale,   \* rate_scale of the definition
  MaxQuanta,   \* max_quanta_per_action_per_tick
  MaxInternal  \* max_internal_transitions_per_action_per_tick

ASSUME TimelineAssumption ==
  /\ {Steps, RateScale, MaxQuanta, MaxInternal} \subseteq Nat
  /\ Steps > 0 /\ RateScale > 0

Lifecycles == {"TERMINATE", "LOOP", "HOLD"}

Clock ==
  [life : {"RUNNING", "TERMINATED", "FAULTED"}, step : Nat, local : Nat, cycle : Nat,
   acc : 0 .. RateScale - 1, deferred : Nat, rate : Nat]

Started(rate) ==
  [life |-> "RUNNING", step |-> 0, local |-> 0, cycle |-> 0, acc |-> 0, deferred |-> 0,
   rate |-> rate]

\* timeline_terminate, timeline_loop and timeline_hold.
AtEnd(a, lifecycle) ==
  CASE lifecycle = "TERMINATE" -> [a EXCEPT !.life = "TERMINATED"]
    [] lifecycle = "LOOP" -> [a EXCEPT !.step = 0, !.cycle = @ + 1]
    [] lifecycle = "HOLD" -> [a EXCEPT !.step = Steps - 1, !.rate = 0]

Quantum(a, lifecycle) ==
  LET b == [a EXCEPT !.step = @ + 1, !.local = @ + 1]
  IN  IF a.life # "RUNNING" THEN a
      ELSE IF b.step >= Steps THEN AtEnd(b, lifecycle) ELSE b

Generated(a) == (a.acc + a.rate) \div RateScale

\* The quanta of this tick when nothing freezes a.
QuantaOf(a) == Generated(a) + a.deferred

Carried(a) == [a EXCEPT !.acc = (@ + a.rate) % RateScale]

AfterQuanta(a, lifecycle) ==
  LET run[n \in 0 .. QuantaOf(a)] ==
        IF n = 0 THEN [Carried(a) EXCEPT !.deferred = 0] ELSE Quantum(run[n - 1], lifecycle)
  IN  run

\* How often the transition fires: in every quantum that ends the timeline.
Firings(a, lifecycle) ==
  LET after == AfterQuanta(a, lifecycle)
  IN  {n \in 1 .. QuantaOf(a) : after[n - 1].life = "RUNNING" /\ after[n - 1].step + 1 >= Steps}

\* QUANTUM_LIMIT_EXCEEDED or TRANSITION_LIMIT_EXCEEDED.
ProgressRaises(a, lifecycle, frozen) ==
  /\ frozen = "NONE"
  /\ \/ QuantaOf(a) > MaxQuanta
     \/ Cardinality(Firings(a, lifecycle)) > MaxInternal

\* Mutant of Progress: HOLD keeps what the rate generates.
ProgressHeld(a, lifecycle, frozen) ==
  IF frozen # "NONE" THEN [Carried(a) EXCEPT !.deferred = @ + Generated(a)]
  ELSE AfterQuanta(a, lifecycle)[QuantaOf(a)]

\* frozen is what ProgressionAccrual says of the action.
Progress(a, lifecycle, frozen) ==
  CASE frozen = "HOLD" -> a
    [] frozen = "ACCRUE" -> [Carried(a) EXCEPT !.deferred = @ + Generated(a)]
    [] frozen = "NONE" -> AfterQuanta(a, lifecycle)[QuantaOf(a)]
=============================================================================
