-------------------------- MODULE InteractionRules --------------------------
(***************************************************************************)
(* The rule pipeline of one candidate (reference/python/pcam_runtime/      *)
(* interactions.py).                                                       *)
(*                                                                         *)
(* A rule is named by its place in the rulebook.  A condition, in the code *)
(* an expression over the decision and the facts, is the statuses, tags,   *)
(* targets and defense facts it asks for; payloads are integers.  A        *)
(* question is a candidate with the rulebook and the defenses it meets.    *)
(***************************************************************************)
EXTENDS Numerics, CanonicalOrder, Sequences

CONSTANT MaxRedirects   \* max_redirects_per_candidate

ASSUME RulesAssumption == MaxRedirects \in Nat

Stages == <<"ADMISSION", "ROUTING", "MODIFICATION", "MATERIALIZATION", "REACTION">>

\* halt says what is left: nothing stopped, the rest of the stage or of the pipeline is
\* skipped, the pipeline starts over, or the candidate raised.  routed is a history variable:
\* the status with which the last pass left ROUTING.
NewDecision(c) ==
  [status |-> "ACCEPTED", target |-> c.target, templates |-> c.templates, tags |-> {},
   generated |-> << >>, redirects |-> 0, visited |-> <<c.target>>, trace |-> << >>,
   halt |-> "NONE", routed |-> "ACCEPTED"]

Fault(d) == [d EXCEPT !.halt = "FAULT"]

\* Mutant of Redirect: the first target is not remembered.
RedirectBack(d, op) ==
  IF (\E i \in 2 .. Len(d.visited) : d.visited[i] = op.target) \/ d.redirects >= MaxRedirects
  THEN Fault(d)
  ELSE [d EXCEPT !.target = op.target, !.visited = Append(@, op.target),
                 !.redirects = @ + 1, !.halt = "RESTART"]

Redirect(d, op) ==
  IF (\E i \in DOMAIN d.visited : d.visited[i] = op.target) \/ d.redirects >= MaxRedirects
  THEN Fault(d)
  ELSE [d EXCEPT !.target = op.target, !.visited = Append(@, op.target),
                 !.redirects = @ + 1, !.halt = "RESTART"]

Place(i) == <<i>>

\* The templates that are wanted, in their order.
Selected(templates, Wanted(_)) ==
  LET places == Sorted({i \in DOMAIN templates : Wanted(templates[i])}, Place)
  IN  [n \in DOMAIN places |-> templates[places[n]]]

\* The templates with F applied to those of a class.
OnClass(templates, class, F(_)) ==
  [i \in DOMAIN templates |->
     IF templates[i].class = class THEN F(templates[i]) ELSE templates[i]]

ScaleClass(d, op) ==
  LET Scaled(t) == ScaleRatio(t.payload, op.numerator, op.denominator)
  IN  IF \E i \in DOMAIN d.templates :
           d.templates[i].class = op.class /\ Scaled(d.templates[i]) = {}
      THEN Fault(d)
      ELSE [d EXCEPT !.templates =
              OnClass(@, op.class, LAMBDA t : [t EXCEPT !.payload = CHOOSE n \in Scaled(t) : TRUE])]

\* Concrete effects of the current target; place is the rule and the operation.
Concrete(c, target, templates, place) ==
  [i \in DOMAIN templates |->
     [id |-> <<c.id, place[1], place[2], i>>, type |-> templates[i].type,
      class |-> templates[i].class, source |-> c.source, target |-> target,
      instance |-> c.instance, priority |-> templates[i].priority,
      payload |-> templates[i].payload, reducer |-> templates[i].reducer,
      authoritative |-> templates[i].authoritative]]

Materialize(c, d, op, place) ==
  LET selected == Selected(d.templates, LAMBDA t : op.classes = {} \/ t.class \in op.classes)
  IN  IF d.status \notin op.statuses THEN d
      ELSE IF d.status = "REJECTED"
              /\ (op.classes = {} \/ \E i \in DOMAIN selected : selected[i].class # "REACTION")
      THEN Fault(d)
      ELSE [d EXCEPT !.generated = @ \o Concrete(c, d.target, selected, place)]

\* REQUEST_RECEIPT is noted in the decision, where the runtime never looks.
Perform(c, d, op, place) ==
  CASE op.op = "REJECT" -> [d EXCEPT !.status = "REJECTED", !.tags = @ \union {op.tag}]
    [] op.op = "REDIRECT" -> Redirect(d, op)
    [] op.op = "REMOVE_EFFECT_CLASS" ->
         [d EXCEPT !.templates = Selected(@, LAMBDA t : t.class # op.class)]
    [] op.op = "SCALE_EFFECT_CLASS" -> ScaleClass(d, op)
    [] op.op = "CAP_EFFECT_CLASS" ->
         [d EXCEPT !.templates =
            OnClass(@, op.class,
                    LAMBDA t : [t EXCEPT !.payload = IF op.cap < @ THEN op.cap ELSE @])]
    [] op.op = "REPLACE_EFFECT_CLASS" ->
         [d EXCEPT !.templates = OnClass(@, op.class, LAMBDA t : op.template)]
    [] op.op = "APPEND_EFFECT_TEMPLATE" -> [d EXCEPT !.templates = Append(@, op.template)]
    [] op.op = "ADD_DECISION_TAG" -> [d EXCEPT !.tags = @ \union {op.tag}]
    [] op.op = "REQUEST_RECEIPT" -> d
    [] op.op = "MATERIALIZE" -> Materialize(c, d, op, place)
    [] op.op = "STOP_STAGE" -> [d EXCEPT !.halt = "STAGE"]
    [] op.op = "STOP_PIPELINE" -> [d EXCEPT !.halt = "PIPELINE"]
    [] OTHER -> Fault(d)

\* condition against the decision as it is when its rule comes up.
Holds(when, d, defenses) ==
  /\ d.status \in when.statuses
  /\ when.tags \subseteq d.tags
  /\ d.target \in when.targets
  /\ defenses[d.target] \in when.defenses

\* What follows works on the set of the one decision reached so far: what names its argument
\* once is computed once.

Stopped(d, rule) ==
  CASE d.halt \in {"PIPELINE", "RESTART", "FAULT"} -> d
    [] d.halt \in {"NONE", "STAGE"} /\ rule.stopPipeline -> [d EXCEPT !.halt = "PIPELINE"]
    [] d.halt = "NONE" /\ rule.stopStage -> [d EXCEPT !.halt = "STAGE"]
    [] OTHER -> d

\* The operations of rule k, then its own stops.
Fire(q, d, k) ==
  LET ops == q.rules[k].ops
      after[n \in 0 .. Len(ops)] ==
        IF n = 0 THEN {[d EXCEPT !.trace = Append(@, k)]}
        ELSE {IF x.halt = "NONE" THEN Perform(q.candidate, x, ops[n], <<k, n>>) ELSE x : x \in after[n - 1]}
  IN  {Stopped(x, q.rules[k]) : x \in after[Len(ops)]}

\* validate_rules: no two rules of a stage have the same order.
OrderOf(rules, k) == <<rules[k].order>>

InStage(rules, stage) ==
  Sorted({k \in DOMAIN rules : rules[k].stage = stage}, LAMBDA k : OrderOf(rules, k))

\* A stop of the stage ends with it; the history notes how ROUTING, or the stop that kept the
\* candidate from it, left the decision.
StageOver(d, stage) ==
  LET left == IF d.halt = "STAGE" THEN [d EXCEPT !.halt = "NONE"] ELSE d
  IN  IF stage = "ROUTING" \/ (stage = "ADMISSION" /\ left.halt # "NONE")
      THEN [left EXCEPT !.routed = left.status] ELSE left

RunStage(q, d, stage) ==
  LET order == InStage(q.rules, stage)
      after[n \in 0 .. Len(order)] ==
        IF n = 0 THEN {d}
        ELSE UNION {IF x.halt = "NONE" /\ Holds(q.rules[order[n]].when, x, q.defenses)
                    THEN Fire(q, x, order[n]) ELSE {x} : x \in after[n - 1]}
  IN  {StageOver(x, stage) : x \in after[Len(order)]}

\* From ADMISSION on, with everything the earlier passes did to the decision.
Pass(q, d) ==
  LET after[n \in 0 .. Len(Stages)] ==
        IF n = 0 THEN {[d EXCEPT !.halt = "NONE"]}
        ELSE UNION {IF x.halt = "NONE" THEN RunStage(q, x, Stages[n]) ELSE {x} : x \in after[n - 1]}
  IN  after[Len(Stages)]

\* resolve_candidate: a pass for the candidate and one for every redirect.
ResolveCandidate(q) ==
  LET after[n \in 0 .. MaxRedirects] ==
        IF n = 0 THEN Pass(q, NewDecision(q.candidate))
        ELSE UNION {IF x.halt = "RESTART" THEN Pass(q, x) ELSE {x} : x \in after[n - 1]}
  IN  CHOOSE d \in after[MaxRedirects] : TRUE
=============================================================================
