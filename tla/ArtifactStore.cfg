CONSTANTS
  j1 = j1
  j2 = j2
  d1 = d1
  d2 = d2
  r1 = r1
  Jobs = {j1, j2}
  Devices = {d1, d2}
  Readers = {reader1}
  Tries <- MCTries
  Repository <- MCRepository
  Size <- MCSize
  RepositoryQuota = 2
  StorageQuota = 2
  Stored = {j2}
  MaxFaults = 2
  None = None
SPECIFICATION Spec
CHECK_DEADLOCK FALSE
INVARIANTS AckedArchiveStands VerdictOwnsArchive DiskIsAccounted
PROPERTIES ImplementsStore
