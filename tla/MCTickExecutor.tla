--------------------------- MODULE MCTickExecutor ---------------------------
(* Instances of TickExecutor for TLC. *)
EXTENDS TickExecutor, TLC

EntitySymmetry == Permutations(Entities)

T(point, kind, slot, policy, claim) ==
  [point |-> point, kind |-> kind, target |-> [claim |-> claim, terminal |-> FALSE],
   slot |-> slot, policy |-> policy]

NoTarget(point, kind) == T(point, kind, NoSlot, "CONTINUE", 0)

Child(point, slot, policy) == T(point, "CHILD_ACTION", slot, policy, 0)

Plain == {[claim |-> 0, terminal |-> FALSE]}

OneEach == [k \in ChildSlots |-> 1]

AllPolicies ==
  [k \in ChildSlots |->
     CASE k = "kill"   -> "TERMINATE_CHILD"
       [] k = "detach" -> "DETACH_CHILD"
       [] k = "keep"   -> "ALLOW_CHILD_TO_COMPLETE"
       [] k = "refuse" -> "FAULT_IF_OCCUPIED"]

Claiming == {[claim |-> 1, terminal |-> FALSE]}

TreeTransitions ==
  {NoTarget("PRE_ADVANCE", "TERMINATE"),
   Child("PRE_ADVANCE", "kill", "FREEZE_ALL_ACTION_LOGIC"),
   Child("PRE_ADVANCE", "refuse", "FREEZE_PROGRESSION"),
   Child("AFTER_QUANTUM", "keep", "TERMINATE_PARENT"),
   NoTarget("AFTER_QUANTUM", "FAULT"),
   Child("POST_ADVANCE", "detach", "FREEZE_TRANSITIONS")}

EntityTransitions ==
  {T("PRE_ADVANCE", "CHILD_ACTION", "kill", "FREEZE_PROGRESSION", 1),
   Child("PRE_ADVANCE", "detach", "CONTINUE"),
   NoTarget("AFTER_QUANTUM", "TERMINATE"),
   T("POST_ADVANCE", "CHILD_ACTION", "keep", "TERMINATE_PARENT", 1),
   T("POST_ADVANCE", "TERMINATE_SOURCE", NoSlot, "CONTINUE", 1)}

AbortTransitions ==
  {Child("PRE_ADVANCE", "kill", "FREEZE_TRANSITIONS"),
   Child("PRE_ADVANCE", "keep", "CONTINUE"),
   T("AFTER_QUANTUM", "TERMINATE_SOURCE", NoSlot, "CONTINUE", 0),
   T("PRE_ADVANCE", "SUSPEND_SOURCE", NoSlot, "CONTINUE", 0),
   NoTarget("POST_ADVANCE", "TERMINATE")}

QuantumTransitions ==
  {T("AFTER_QUANTUM", "TERMINATE_SOURCE", NoSlot, "CONTINUE", 1),
   T("AFTER_QUANTUM", "KEEP_SOURCE", NoSlot, "CONTINUE", 1)}
=============================================================================
