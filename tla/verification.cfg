SPECIFICATION Spec
CONSTANTS
  v1 = v1
  v2 = v2
  None = None
  Requests = {v1, v2}
  Sources <- MCSources
SYMMETRY Symmetry
INVARIANTS
  TypeOK
  ChecksRunAlone
  ReportIsCurrent
  DurableReports
  ShipsTestedCode
CHECK_DEADLOCK FALSE
