CONSTANTS
  Jobs = {j1}
  Devices = {d1}
  MaxAttempts = 2
  Timer = timer
  Requests = {claim1}
  Reporters = {report1}
  MaxDeliveries = 1
  MaxRefusals = 0
  MaxCrashes = 0
  None = None
SPECIFICATION Spec
CHECK_DEADLOCK TRUE
INVARIANT CommitShowsVerdict
