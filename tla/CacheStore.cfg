CONSTANTS
  r1 = r1
  r2 = r2
  r3 = r3
  b1 = b1
  b2 = b2
  b3 = b3
  acme = acme
  other = other
  Runs = {r1, r2, r3}
  Entries = {1, 2, 3, 4}
  Key <- MCKey
  Scope <- MCScope
  Repository <- MCRepository
  Blobs = {b1, b2, b3}
  Size <- MCSize
  Stored <- MCStored
  RepositoryQuota = 2
  StorageQuota = 2
  Ttl = 1
  MaxNow = 2
  MaxFaults = 1
  None = None
SPECIFICATION Spec
SYMMETRY MCSymmetry
CHECK_DEADLOCK FALSE
INVARIANTS FilesMatchRows QuotasHold RestoredFromScope
PROPERTIES ImplementsStore
