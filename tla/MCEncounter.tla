---------------------------- MODULE MCEncounter -----------------------------
(***************************************************************************)
(* An attacker of entity 1 and two defenders of entity 2; entity 3 has no  *)
(* action.  Effect types: 1 damage, 2 heal, 3 combo, 4 loot (which no      *)
(* registration knows), 5 rage, 6 spark, 7 mark.                           *)
(***************************************************************************)
EXTENDS Encounter, TLC

MCEntities == 1 .. 3
MCOwner == <<1, 2, 2>>

Within(id, from, below) ==
  [id |-> id, kind |-> "STEPS", from |-> from, below |-> below, needs |-> {}]
Owns(id, floor) == [id |-> id, kind |-> "OWNER", from |-> floor, below |-> 0, needs |-> {}]
AllOf(id, needs) == [id |-> id, kind |-> "ALL", from |-> 0, below |-> 0, needs |-> needs]

MCPredicates ==
  <<{Within("ACTIVE", 1, 2), Within("READY", 0, 2), Owns("RICH", 1),
     AllOf("FURY", {"READY", "RICH"})},
    {Within("READY", 0, 2)},
    {Within("ACTIVE", 1, 2), Within("READY", 0, 2)}>>

Template(type, class, payload, reducer, priority) ==
  [type |-> type, class |-> class, ref |-> "LITERAL", payload |-> payload, reducer |-> reducer,
   priority |-> priority, authoritative |-> class # "PRESENTATION"]

Cycle(type, class, reducer) ==
  [Template(type, class, 0, reducer, 0) EXCEPT !.ref = "CYCLE"]

Charge(type, class, reducer) ==
  [Template(type, class, 0, reducer, 0) EXCEPT !.ref = "REGISTER"]

Fact(id, direction, when, templates) ==
  [id |-> id, direction |-> direction, when |-> when, templates |-> templates]

Slash == <<Template(1, "IMPACT", 2, "SUM", 0), Template(6, "PRESENTATION", 1, "ORDERED", 0)>>
Surge == <<Template(2, "IMPACT", 1, "FIRST", 0), Template(2, "IMPACT", 3, "FIRST", 1),
           Cycle(3, "IMPACT", "CUSTOM_DETERMINISTIC")>>
Counter == <<Template(1, "IMPACT", 1, "SUM", 0), Template(2, "IMPACT", 1, "LAST", 0)>>
Loot == <<Template(4, "IMPACT", 1, "MAX", 0)>>
Mark == <<Template(7, "IMPACT", 1, "SET_UNION", 0)>>
Clash == <<Template(5, "IMPACT", 7, "SUM", 0), Template(5, "IMPACT", 1, "SUM", 0)>>
Drain == <<Template(2, "IMPACT", 2, "EXCLUSIVE", 0)>>

MCFacts ==
  <<{Fact(1, "OFFENSE", "ACTIVE", Slash), Fact(2, "OFFENSE", "FURY", Surge),
     Fact(3, "NEUTRAL", "READY", << >>), Fact(8, "OFFENSE", "READY", Slash),
     Fact(11, "OFFENSE", "READY", Clash)},
    {Fact(4, "DEFENSE", "READY", << >>), Fact(6, "OFFENSE", "READY", Counter),
     Fact(9, "OFFENSE", "READY", Mark)},
    {Fact(5, "DEFENSE", "ACTIVE", << >>), Fact(7, "OFFENSE", "READY", Loot),
     Fact(10, "OFFENSE", "READY", Drain)}>>

MCCycleEffects ==
  <<<<Cycle(5, "RAGE", "MAX"), Template(5, "RAGE", 2, "MAX", 0)>>, << >>,
    <<Template(5, "RAGE", 1, "MIN", 0), Charge(5, "RAGE", "MIN")>>>>

MCAssignments ==
  <<[leaving |-> <<1>>, entering |-> <<2, 1>>], [leaving |-> <<-2>>, entering |-> << >>],
    [leaving |-> << >>, entering |-> <<1>>]>>

Limits(initial, minimum, maximum) ==
  [initial |-> initial, minimum |-> minimum, maximum |-> maximum]

MCRegister == <<Limits(0, -1, 4), Limits(0, -1, 1), Limits(1, 0, 2)>>

MCRegistry == (1 :> -1) @@ (2 :> 1) @@ (3 :> 1) @@ (5 :> 1) @@ (6 :> 1) @@ (7 :> 1)

\* Rules
Always == [statuses |-> {"ACCEPTED", "REJECTED"}, tags |-> {}, targets |-> 1 .. 3, defenses |-> 0 .. 5]
Rule(stage, order, when, ops) ==
  [stage |-> stage, order |-> order, when |-> when, ops |-> ops, stopStage |-> FALSE,
   stopPipeline |-> FALSE]
Materialized(classes, statuses) ==
  [op |-> "MATERIALIZE", classes |-> classes, statuses |-> statuses]
Deliver == Rule("MATERIALIZATION", 5, Always, <<Materialized({}, {"ACCEPTED"})>>)
Reject == [op |-> "REJECT", tag |-> "NO"]
Tag(tag) == [op |-> "ADD_DECISION_TAG", tag |-> tag]
To(target) == [op |-> "REDIRECT", target |-> target]
Scale(n, d) == [op |-> "SCALE_EFFECT_CLASS", class |-> "IMPACT", numerator |-> n, denominator |-> d]
Recoil == [op |-> "APPEND_EFFECT_TEMPLATE", template |-> Template(1, "REACTION", 1, "SUM", 0)]

MCRulebook ==
  [plain |-> <<Deliver>>,
   guarded |->
     <<Rule("ROUTING", 0, [Always EXCEPT !.defenses = {4}], <<Reject, Recoil>>), Deliver,
       Rule("REACTION", 0, [Always EXCEPT !.statuses = {"REJECTED"}],
            <<Materialized({"REACTION"}, {"REJECTED"})>>)>>,
   careless |->
     <<Rule("ADMISSION", 0, [Always EXCEPT !.defenses = {4}], <<Reject>>),
       Rule("MATERIALIZATION", 0, Always, <<Materialized({}, {"ACCEPTED", "REJECTED"})>>)>>,
   reflect |->
     <<Rule("ROUTING", 2, [Always EXCEPT !.targets = {3}], <<Tag("BACK"), To(1)>>),
       Rule("ROUTING", 1, [Always EXCEPT !.defenses = {4}], <<To(3)>>), Deliver,
       Rule("ADMISSION", 0, Always, <<Materialized({"PRESENTATION"}, {"ACCEPTED"})>>)>>,
   mirror |->
     <<Rule("ROUTING", 0, [Always EXCEPT !.tags = {"BACK"}, !.targets = {2}], <<[op |-> "STOP_STAGE"]>>),
       Rule("ROUTING", 1, [Always EXCEPT !.defenses = {4}], <<To(3)>>),
       Rule("ROUTING", 2, [Always EXCEPT !.targets = {3}], <<Tag("BACK"), To(2)>>), Deliver>>,
   late |->
     <<Rule("MODIFICATION", 0, Always, <<Scale(3, 2), [op |-> "CAP_EFFECT_CLASS", class |-> "IMPACT", cap |-> 2]>>),
       Deliver, Rule("REACTION", 0, [Always EXCEPT !.targets = {2}], <<Reject>>)>>,
   stops |->
     <<[Rule("ADMISSION", 0, [Always EXCEPT !.defenses = {4, 5}], <<Tag("MET"), [op |-> "REQUEST_RECEIPT"]>>)
          EXCEPT !.stopStage = TRUE],
       Rule("ADMISSION", 1, Always, <<[op |-> "REMOVE_EFFECT_CLASS", class |-> "IMPACT"]>>),
       Rule("MODIFICATION", 0, [Always EXCEPT !.tags = {"MET"}],
            <<[op |-> "REPLACE_EFFECT_CLASS", class |-> "IMPACT",
               template |-> Template(2, "IMPACT", 1, "FIRST", 0)]>>),
       [Rule("MATERIALIZATION", 0, [Always EXCEPT !.targets = {2}], <<Materialized({}, {"ACCEPTED"})>>)
          EXCEPT !.stopPipeline = TRUE],
       Rule("MATERIALIZATION", 1, [Always EXCEPT !.targets = {1}], <<[op |-> "STOP_PIPELINE"], Reject>>),
       Rule("REACTION", 0, Always, <<Reject>>)>>]

Contact(id, instance, target, fact, partition, defense) ==
  [id |-> id, instance |-> instance, target |-> target, fact |-> fact,
   partition |-> partition, defense |-> defense, effect |-> "NONE", amount |-> 0, priority |-> 0]

MCContacts ==
  {Contact(1, 1, 2, 1, 1, 4), Contact(2, 1, 2, 1, 2, 4), Contact(3, 1, 2, 2, 1, 0),
   Contact(4, 1, 3, 8, 1, 0), Contact(5, 1, 2, 3, 1, 0), Contact(6, 2, 2, 6, 1, 0),
   Contact(7, 3, 1, 7, 1, 0), Contact(8, 2, 1, 9, 1, 0), Contact(9, 3, 2, 10, 1, 0),
   [Contact(10, 1, 2, 12, 1, 0) EXCEPT !.effect = "RESOURCE_DELTA", !.amount = -6],
   [Contact(11, 1, 2, 12, 2, 0) EXCEPT !.effect = "RNG_DRAW"],
   [Contact(12, 2, 1, 12, 1, 0) EXCEPT !.effect = "TELEPORT"],
   Contact(13, 1, 1, 1, 1, 0), Contact(14, 1, 2, 8, 1, 5),
   Contact(15, 1, 3, 11, 1, 0)}

Token(target, duration, domain) ==
  [target |-> target, duration |-> duration, domains |-> {domain}, accrual |-> "HOLD",
   group |-> "hit_stop", policy |-> "INDEPENDENT"]

MCTokenKinds ==
  {Token(1, 2, "PROGRESSION"), Token(1, 1, "INTERACTION_EMISSION"),
   Token(2, 2, "INTERACTION_RECEPTION"), Token(1, 1, "RNG_CONSUMPTION")}

Policy(kind, receipt) == [kind |-> kind, receipt |-> receipt, cooldown |-> 2, predicate |-> "ACTIVE"]
Rich == (1 :> 2) @@ (2 :> 3)
Poor == (2 :> 3)

Setup(rules, kind, receipt, contacts) ==
  [rules |-> rules, policy |-> Policy(kind, receipt), rate |-> <<2, 1, 1>>,
   life |-> <<"LOOP", "HOLD", "LOOP">>, contacts |-> contacts, perTick |-> 2, tokens |-> 1,
   track |-> TRUE, bank |-> Rich, overflow |-> "WRAP"]

MCSetups ==
  {[Setup("plain", "UNBOUNDED", "ON_CONTACT", {1, 6, 14}) EXCEPT !.bank[2] = -3],
   Setup("plain", "ONCE_PER_ACTION_INSTANCE", "ON_CONTACT", {1, 2, 10, 11}),
   Setup("plain", "ONCE_PER_CYCLE", "ON_IMPACT", {1, 2, 4}),
   [Setup("plain", "ONCE_PER_CYCLE", "ON_ACCEPT", {1, 4, 13}) EXCEPT !.life[1] = "HOLD"],
   Setup("plain", "ONCE_PER_PREDICATE_ACTIVATION", "ON_ACCEPT", {1, 2}),
   [Setup("plain", "ONCE_PER_PREDICATE_ACTIVATION", "ON_ACCEPT", {1, 3}) EXCEPT !.track = FALSE],
   [Setup("plain", "ONCE_PER_PREDICATE_ACTIVATION", "ON_IMPACT", {1, 3})
      EXCEPT !.policy.predicate = "FURY"],
   [Setup("plain", "COOLDOWN_TICKS", "ON_CONTACT", {1, 4}) EXCEPT !.rate[1] = 1],
   [Setup("plain", "COOLDOWN_TICKS", "ON_CONTACT", {3, 6, 9}) EXCEPT !.perTick = 3],
   [Setup("plain", "UNBOUNDED", "ON_CONTACT", {3, 5}) EXCEPT !.bank = Poor],
   Setup("plain", "UNBOUNDED", "ON_CONTACT", {7, 8, 12, 15}),
   [Setup("plain", "UNBOUNDED", "ON_CONTACT", {1}) EXCEPT !.rate[1] = 8],
   [Setup("plain", "UNBOUNDED", "ON_CONTACT", {1, 10}) EXCEPT !.rate = <<4, 2, 4>>],
   [Setup("plain", "UNBOUNDED", "ON_CONTACT", {1, 10})
      EXCEPT !.rate = <<4, 2, 4>>, !.overflow = "SATURATE"],
   [Setup("plain", "UNBOUNDED", "ON_CONTACT", {1, 10}) EXCEPT !.rate = <<4, 2, 2>>, !.overflow = "FAULT"],
   Setup("guarded", "ONCE_PER_ACTION_INSTANCE", "ON_ACCEPT", {1, 2, 14}),
   Setup("guarded", "ONCE_PER_CONTACT_PARTITION", "ON_IMPACT", {1, 2, 4}),
   Setup("careless", "ONCE_PER_ACTION_INSTANCE", "ON_CONTACT", {1, 4}),
   Setup("reflect", "ONCE_PER_CONTACT_PARTITION", "ON_CONTACT", {1, 2, 4}),
   Setup("mirror", "ONCE_PER_CYCLE", "ON_CONTACT", {1, 4}),
   Setup("late", "COOLDOWN_TICKS", "ON_IMPACT", {1, 3, 4}),
   Setup("stops", "ONCE_PER_ACTION_INSTANCE", "ON_ACCEPT", {1, 13, 14})}

\* One in which a reaction rejects what routing accepted.
LateSetups == {Setup("late", "ONCE_PER_ACTION_INSTANCE", "ON_ACCEPT", {1, 2})}
=============================================================================
