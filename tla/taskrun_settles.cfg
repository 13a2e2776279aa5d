SPECIFICATION FairSpec
CONSTANTS
  t1 = t1
  t2 = t2
  NoReport = NoReport
  Tasks = {t1}
  Environments <- MCEnvironments
  FaultSets <- MCFaultSets
  VerifierResults <- MCGateResults
  MaxLoopVerifies = 2
INVARIANTS
  SandboxReleased
  FallbacksRunThrough
PROPERTIES
  VerdictStable
  RunsAdvance
  RunSettles
CHECK_DEADLOCK FALSE
