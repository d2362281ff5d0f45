CONSTANTS
  Jobs = {j1}
  Devices = {d1}
  MaxAttempts = 2
  Timer = timer
  Requests = {claim1}
  Reporters = {report1, report2}
  MaxDeliveries = 1
  MaxRefusals = 1
  MaxCrashes = 1
  None = None
SPECIFICATION FairSpec
CHECK_DEADLOCK TRUE
INVARIANTS PostsUnderLock NoVerdictLost SettledRunsToldTheirVerdict
PROPERTIES PostedInOrder ImplementsLifecycle OwedIsPosted
