SPECIFICATION Spec
CONSTANTS
  Tasks <- MCTasks
  Limits = {1, 2}
  MaxClock = 1
INVARIANTS
  TypeOK
  NoTaskSkipped
  RepeatsMeanGrowth
CHECK_DEADLOCK FALSE
