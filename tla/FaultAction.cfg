SPECIFICATION Spec
CONSTANTS
  Entities = {e1}
  ChildSlots = {"kill", "detach", "keep", "refuse"}
  NoSlot = "none"
  NoEntity = noone
  ChildCapacity <- OneEach
  TermPolicy <- AllPolicies
  SlotCapacity = 1
  MaxActionsPerEntity = 4
  MaxChildren = 2
  MaxNesting = 3
  MaxPendingEvents = 2
  Transitions <- TreeTransitions
  Definitions <- Plain
  FaultPolicy = "FAULT_ACTION"
  FaultSources = {"ACTION"}
  MaxInternal = 1
  MaxTick = 4
  MaxActions = 4
INVARIANTS TypeOK Coherence ForestLimitsHold ResultsWaitForFaultOnly
PROPERTIES TerminalForever OutcomeKept FreezeHolds ChildPolicyHonoured ForestSpec
