SPECIFICATION Spec
CONSTANTS
  NoOwner = "open"
  Self = "action"
  Setups <- AllSetups
  TokenKinds <- Freezes
  Inputs <- FiveInputs
  Commands = {"go", "swap", "start"}
  Capacity = 2
  Lifetime = 2
  MaxActionsPerEntity = 3
  MaxTick = 4
  Steps = 3
  RateScale = 2
  MaxQuanta = 3
  MaxInternal = 1
CHECK_DEADLOCK FALSE
INVARIANTS TypeOK EventsOnTime TimelineExact
PROPERTIES FreezeSpec InputsExact GreedyAdmission
