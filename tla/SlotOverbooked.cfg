SPECIFICATION Spec
CONSTANTS
  Entities = {e1}
  ChildSlots = {"kill"}
  NoSlot = "none"
  NoEntity = noone
  ChildCapacity <- OneEach
  TermPolicy <- AllPolicies
  SlotCapacity = 1
  MaxActionsPerEntity = 4
  MaxChildren = 2
  MaxNesting = 3
  MaxPendingEvents = 2
  Transitions <- QuantumTransitions
  Definitions <- Claiming
  FaultPolicy = "FAULT_ACTION"
  FaultSources = {}
  MaxInternal = 1
  MaxTick = 4
  MaxActions = 3
INVARIANTS SlotsWithinCapacity
