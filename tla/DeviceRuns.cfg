CONSTANTS
  Attempts = {a1, a2}
  Script <- MCScript
  MaxCrashes = 1
  MaxLeft = 2
  None = None
  StepCount = 2
  StepCost = 2
  StepBudget = 3
  MaxAttempts = 3
SYMMETRY MCSymmetry
SPECIFICATION Spec
CHECK_DEADLOCK FALSE
INVARIANTS GreenIsEarned LeftoversHaveACause StopIsNamed
PROPERTY CleanupTakesItsOwn
