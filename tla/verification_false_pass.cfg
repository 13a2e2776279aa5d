SPECIFICATION Spec
CONSTANTS
  v1 = v1
  v2 = v2
  None = None
  Requests = {v1}
  Sources <- MCSources
INVARIANT NoFalseTestPass
CHECK_DEADLOCK FALSE
