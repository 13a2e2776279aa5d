SPECIFICATION Spec
CONSTANTS
  i1 = i1
  r1 = r1
  r2 = r2
  r3 = r3
  r4 = r4
  r5 = r5
  None = None
  Ids = {i1}
  Requests = {r1, r2}
INVARIANT FailedSpawnLeavesNoContainer
