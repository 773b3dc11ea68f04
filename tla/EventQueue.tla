----------------------------- MODULE EventQueue -----------------------------
(***************************************************************************)
(* Pending events (reference/python/pcam_runtime/events.py): delivery in   *)
(* the tick after their creation, put off while the target is frozen.      *)
(***************************************************************************)
EXTENDS Integers

ActionModes == {"TARGET_ACTION", "PARENT", "CHILD"}
DeliveryModes == ActionModes \union {"TARGET_ENTITY", "BROADCAST"}

\* due is delivery_tick.
EventEnvelope(Targets) ==
  [target : Targets, mode : DeliveryModes, origin : Nat, due : Nat]

NextTick(target, mode, tick) ==
  [target |-> target, mode |-> mode, origin |-> tick, due |-> tick + 1]

DeliveryRaises(events, tick) == \E e \in events : e.due < tick

Deferred(events, tick, frozen) ==
  {e \in events : e.due = tick /\ e.mode \in ActionModes /\ e.target \in frozen}

Delivered(events, tick, frozen) ==
  {e \in events : e.due = tick} \ Deferred(events, tick, frozen)

\* Mutant of StillPending: a deferred event keeps its delivery tick.
StillDue(events, tick, frozen) ==
  {e \in events : e.due > tick} \union Deferred(events, tick, frozen)

StillPending(events, tick, frozen) ==
  {e \in events : e.due > tick}
    \union {[e EXCEPT !.due = tick + 1] : e \in Deferred(events, tick, frozen)}
=============================================================================
