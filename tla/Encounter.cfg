SPECIFICATION Spec
CONSTANTS
  Bound = 8
  MaxRedirects = 2
  Steps = 2
  RateScale = 2
  MaxQuanta = 4
  MaxInternal = 1
  Entities <- MCEntities
  Owner <- MCOwner
  Predicates <- MCPredicates
  Facts <- MCFacts
  CycleEffects <- MCCycleEffects
  Assignments <- MCAssignments
  Register <- MCRegister
  Rulebook <- MCRulebook
  Registry <- MCRegistry
  Contacts <- MCContacts
  TokenKinds <- MCTokenKinds
  Setups <- MCSetups
  MaxTick = 4
INVARIANTS
  TypeOK
  LedgerExact
  DecisionSound
  RegisterExact
PROPERTIES
  CommitExact
CHECK_DEADLOCK FALSE
