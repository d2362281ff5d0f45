CONSTANTS
  j1 = j1  j2 = j2  d1 = d1  d2 = d2  s1 = s1  s2 = s2  r1 = r1  linux = linux  gpu = gpu
  None = None
  Jobs = {j1, j2}
  Devices = {d1, d2}
  Slots = {s1, s2}
  Repositories = {r1}
  Labels = {linux, gpu}
  DeviceOf <- MCDeviceOfPair
  RepositoryOf <- MCRepositoryOfPair
  Needs <- MCNeedsPair
  Offers <- MCOffers
  LeaseSeconds = 1
  Grace = 0
  BaseBackoff = 1
  MaxBackoff = 1
  MaxAttempts = 2
  MaxRepositoryRunning = 1
  Outcomes = {"failure", "error"}
SPECIFICATION Spec
CHECK_DEADLOCK TRUE
INVARIANTS TypeOK AttemptsSpent RepositoryCap EveryAttemptAccounted
PROPERTIES ImplementsLifecycle ForeignAttemptRefused
