SPECIFICATION Spec
CONSTANTS
  t1 = t1
  t2 = t2
  NoReport = NoReport
  Tasks <- MCTasks
  Environments <- MCDeployed
  FaultSets = {{"db", "delete", "stop"}}
  VerifierResults <- MCResults
  MaxLoopVerifies = 1
SYMMETRY Symmetry
INVARIANTS
  TypeOK
  ShippedOnGreen
  FailedVerifyUnshipped
  WorktreeOutlivesGate
PROPERTIES
  ImplementsLifecycle
  ImplementsSandboxLife
  ImplementsBuild
