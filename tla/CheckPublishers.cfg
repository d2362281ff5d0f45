CONSTANTS
  MaxAttempts = 2
  Publishers = {p1, p2}
  MaxDeliveries = 2
  MaxFaults = 1
  MaxRemovals = 1
  None = None
SPECIFICATION Spec
CHECK_DEADLOCK FALSE
INVARIANTS ClosedOnItsVerdict OneCheckPerRun SettledCheckCloses
PROPERTIES ReopenedOnlyUnseen
SYMMETRY MCSymmetry
