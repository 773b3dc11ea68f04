--------------------------- MODULE MCActionClock ----------------------------
(* Instances of ActionClock for TLC. *)
EXTENDS ActionClock, TLC

Claim1(amount) ==
  (<<"CAPACITY", NoOwner, "ACTIONS">> :> 1) @@ (<<"RESOURCE", NoOwner, "stamina">> :> amount)

Stance(amount) == Claim1(amount) @@ (<<"EXCLUSIVE_KEY", NoOwner, "stance">> :> 1)

Input(id, cmd, seq, claims) == [id |-> id, cmd |-> cmd, seq |-> seq, claims |-> claims]

\* Two inputs of one command against the order of their sequence numbers, one that replaces
\* the action, and two that start actions.
FiveInputs ==
  {Input(1, "go", 2, << >>), Input(2, "go", 1, << >>), Input(3, "start", 1, Stance(1)),
   Input(4, "start", 2, Stance(2)), Input(5, "swap", 1, << >>)}

Kind1(policy, accrual, duration, domains) ==
  [target |-> Self, group |-> "default", policy |-> policy, accrual |-> accrual,
   duration |-> duration, domains |-> domains]

Motion == {"PROGRESSION", "EVENT_DELIVERY"}
Intake == {"INPUT_CAPTURE", "BUFFER_EXPIRY", "PRE_ADVANCE_TRANSITIONS"}

Freezes ==
  {Kind1("SUM_DURATION", "HOLD", 1, Motion), Kind1("SUM_DURATION", "HOLD", 2, Motion),
   Kind1("INDEPENDENT", "ACCRUE", 2, Motion), Kind1("MAX_DURATION", "ACCRUE", 1, Motion),
   Kind1("REPLACE", "ACCRUE", 1, {"PROGRESSION"}), Kind1("REJECT_NEW", "HOLD", 1, Intake),
   [Kind1("INDEPENDENT", "HOLD", 1, {"BUFFER_EXPIRY"}) EXCEPT !.group = "hitstop"]}

Setup(lifecycle, rate, overflow, consume, nTokens, nInputs, nEvents, nFaults) ==
  [lifecycle |-> lifecycle, rate |-> rate, overflow |-> overflow, consume |-> consume,
   stamina |-> 3, tokens |-> nTokens, inputs |-> nInputs, events |-> nEvents,
   faults |-> nFaults]

\* Many freezes and events on every lifecycle, many inputs under every policy, or an input and
\* a freeze beside a contained fault.
AllSetups ==
  {Setup(lifecycle, rate, "DROP_NEWEST", "NEVER", 3, 0, 1, 1) :
     lifecycle \in Lifecycles, rate \in {2, 3}}
  \union {Setup("LOOP", 2, overflow, consume, 1, 2, 0, 0) :
            overflow \in OverflowPolicies, consume \in ConsumePolicies}
  \union {Setup("LOOP", 2, "DROP_OLDEST", "NEVER", 1, 1, 0, 1)}

\* A freeze that another one queues behind, and a contained tick.
TwoFreezes == {Setup("LOOP", 2, "DROP_NEWEST", "NEVER", 2, 0, 0, 1)}
=============================================================================
