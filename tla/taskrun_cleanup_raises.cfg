SPECIFICATION Spec
CONSTANTS
  t1 = t1
  t2 = t2
  NoReport = NoReport
  Tasks = {t1}
  Environments <- MCDeployed
  FaultSets = {{"delete"}}
  VerifierResults <- MCResults
  MaxLoopVerifies = 1
PROPERTY VerdictFinal
CHECK_DEADLOCK FALSE
