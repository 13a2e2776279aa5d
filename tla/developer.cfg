SPECIFICATION FairSpec
CONSTANTS
  None = None
  MaxIterations = 3
  TokenBudget = 4
  StuckRepeats = 3
  Calls <- MCCalls
  MaxCalls = 2
  Costs = {1, 3}
  VerifierResults <- MCResults
INVARIANTS
  TypeOK
  BudgetHolds
  StuckExact
  EditsVerified
  AuditComplete
  ToolCallsAnswered
  RetrievalComplete
PROPERTIES
  EveryStepCounts
  ImplementsBuild
  Terminates
CHECK_DEADLOCK FALSE
