SPECIFICATION Spec
CONSTANTS
  t1 = t1
  t2 = t2
  NoReport = NoReport
  Tasks = {t1}
  Environments <- MCDeployed
  FaultSets = {{"db"}}
  VerifierResults <- MCResults
  MaxLoopVerifies = 1
INVARIANT FailedRunRecorded
CHECK_DEADLOCK FALSE
