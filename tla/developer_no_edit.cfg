SPECIFICATION Spec
CONSTANTS
  None = None
  MaxIterations = 3
  TokenBudget = 4
  StuckRepeats = 3
  Calls <- MCCalls
  MaxCalls = 2
  Costs = {1, 3}
  VerifierResults <- MCResults
INVARIANT PassedAfterEdit
CHECK_DEADLOCK FALSE
