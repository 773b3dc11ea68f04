SPECIFICATION Spec
CONSTANTS
  Entities = {e1, e2}
  ChildSlots = {"kill", "detach", "keep", "refuse"}
  NoSlot = "none"
  NoEntity = noone
  ChildCapacity <- OneEach
  TermPolicy <- AllPolicies
  SlotCapacity = 2
  MaxActionsPerEntity = 4
  MaxChildren = 2
  MaxNesting = 3
  MaxPendingEvents = 2
  Transitions <- EntityTransitions
  Definitions <- Claiming
  FaultPolicy = "FAULT_ENTITY"
  FaultSources = {"ACTION", "START"}
  MaxInternal = 1
  MaxTick = 4
  MaxActions = 4
SYMMETRY EntitySymmetry
INVARIANTS UsageExact SlotsWithinCapacity
PROPERTIES FaultIsolation
