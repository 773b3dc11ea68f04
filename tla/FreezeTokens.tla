---------------------------- MODULE FreezeTokens ----------------------------
(***************************************************************************)
(* Freeze tokens (reference/python/pcam_runtime/freezes.py): how a token   *)
(* joins the tokens of its group, which tokens are active in a tick, and   *)
(* how the maintenance of a tick uses them up.                             *)
(*                                                                         *)
(* A set of tokens is a set here: the code keeps it sorted by token_id,    *)
(* and nothing it computes depends on that order.                          *)
(***************************************************************************)
EXTENDS Integers, FiniteSets
Ext == INSTANCE FiniteSetsExt

StackPolicies == {"INDEPENDENT", "MAX_DURATION", "SUM_DURATION", "REPLACE", "REJECT_NEW"}

\* act is activation_tick, rem is remaining_ticks.
FreezeToken(Targets, Domains) ==
  [id : Nat, target : Targets, act : Nat, rem : Nat \ {0}, domains : (SUBSET Domains) \ {{}},
   accrual : {"HOLD", "ACCRUE"}, group : STRING, policy : StackPolicies]

\* A token created in tick now freezes from the next one; kind gives its other fields.
Created(id, now, kind) ==
  [id |-> id, target |-> kind.target, act |-> now + 1, rem |-> kind.duration,
   domains |-> kind.domains, accrual |-> kind.accrual, group |-> kind.group,
   policy |-> kind.policy]

GroupOf(tokens, new) == {t \in tokens : t.target = new.target /\ t.group = new.group}

\* The first tick in which t is over.
ExpirationExclusive(t, now) == (IF t.act > now THEN t.act ELSE now) + t.rem

\* MAX_DURATION and SUM_DURATION want a group of equals.
Incompatible(tokens, new) ==
  /\ new.policy \in {"MAX_DURATION", "SUM_DURATION"}
  /\ \E t \in GroupOf(tokens, new) :
       t.domains # new.domains \/ t.accrual # new.accrual \/ t.policy # new.policy

\* Mutant of Queued: SUM_DURATION joins its group as INDEPENDENT does.
QueuedBeside(tokens, new) == new

Queued(tokens, new) ==
  IF new.policy # "SUM_DURATION" THEN new
  ELSE [new EXCEPT !.act = Ext!Max({@} \union {ExpirationExclusive(t, new.act - 1) :
                                             t \in GroupOf(tokens, new)})]

\* add_token; it raises when the new token is Incompatible.
AddToken(tokens, new) ==
  CASE new.policy = "REJECT_NEW" /\ GroupOf(tokens, new) # {} -> tokens
    [] new.policy = "REPLACE" -> (tokens \ GroupOf(tokens, new)) \union {new}
    [] OTHER -> tokens \union {Queued(tokens, new)}

ActiveTokens(tokens, tick, target, domain) ==
  {t \in tokens : t.target = target /\ t.act <= tick /\ t.rem > 0 /\ domain \in t.domains}

IsFrozen(tokens, tick, target, domain) == ActiveTokens(tokens, tick, target, domain) # {}

\* HOLD dominates; "NONE" when progression is not frozen.
ProgressionAccrual(tokens, tick, target) ==
  LET active == ActiveTokens(tokens, tick, target, "PROGRESSION")
  IN  IF active = {} THEN "NONE"
      ELSE IF \E t \in active : t.accrual = "HOLD" THEN "HOLD" ELSE "ACCRUE"

\* end_tick: what is active loses a tick, what is used up goes.
ExpireTokens(tokens, tick) ==
  {t \in tokens : t.act > tick}
    \union {[t EXCEPT !.rem = @ - 1] : t \in {u \in tokens : u.act <= tick /\ u.rem > 1}}
=============================================================================
