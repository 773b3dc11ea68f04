SPECIFICATION FairSpec
CONSTANTS
  Entities = {e1}
  ChildSlots = {"kill", "detach", "keep", "refuse"}
  NoSlot = "none"
  NoEntity = noone
  ChildCapacity <- OneEach
  TermPolicy <- AllPolicies
  SlotCapacity = 1
  MaxActionsPerEntity = 3
  MaxChildren = 1
  MaxNesting = 2
  MaxPendingEvents = 1
  Transitions <- AbortTransitions
  Definitions <- Plain
  FaultPolicy = "ABORT_SIMULATION"
  FaultSources = {"GLOBAL"}
  MaxInternal = 1
  MaxTick = 4
  MaxActions = 4
INVARIANTS NeverStale ResultsPublishedAtOnce
PROPERTIES TickReturns
