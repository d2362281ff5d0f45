CONSTANTS
  Deliveries = {d1}
  AutoLane = {d1}
  DeviceOK = {d1}
  Handlers = {h1, h2}
  Replay = replay
  Callers = {c1}
  Ceiling = 1
  Limit = 1
  MaxSends = 2
  MaxCalls = 1
  MaxPreviews = 1
  MaxMonths = 1
  MaxFaults = 1
  MaxCrashes = 1
  None = None
SPECIFICATION Spec
CHECK_DEADLOCK FALSE
INVARIANTS TypeOK OneAttempt HandedOverOnce RefusedIsHandedOver NoHoldStranded
