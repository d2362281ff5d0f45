CONSTANTS
  Deliveries = {d1, d2}
  AutoLane = {d2}
  DeviceOK = {d1}
  Handlers = {h1}
  Replay = replay
  Callers = {c1}
  Ceiling = 1
  Limit = 1
  MaxSends = 1
  MaxCalls = 1
  MaxPreviews = 0
  MaxMonths = 0
  MaxFaults = 2
  MaxCrashes = 0
  None = None
SPECIFICATION FairSpec
CHECK_DEADLOCK FALSE
INVARIANTS ClaimIsExclusive
PROPERTIES FreeLaneIsReplayed ReadyIsReplayed
