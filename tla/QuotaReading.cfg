CONSTANTS
  Loop = loop
  Requests = {q1, q2}
  MaxAge = 2
  MonthLength = 3
  ReadTime = 1
  UnknownLane = "hosted"
  OverageLane = "local"
  MaxNow = 4
  Reasons = 2
  None = None
SYMMETRY MCSymmetry
SPECIFICATION Spec
CHECK_DEADLOCK FALSE
INVARIANT ServedIsFresh
PROPERTY ReadAfreshAtReset
