SPECIFICATION ApiSpec
CONSTANTS
  t1 = t1
  c1 = c1
  c2 = c2
  NoReport = NoReport
  Tasks <- MCTasks
  Clients <- MCClients
  Environments <- MCEnvironments
  FaultSets = {{"db", "delete", "stop"}}
  VerifierResults <- MCResults
  MaxLoopVerifies = 1
SYMMETRY Symmetry
INVARIANTS
  ApiTypeOK
  AnswerSupportsVerdict
  AnswersStand
