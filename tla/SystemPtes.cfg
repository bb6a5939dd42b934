SPECIFICATION FairSpec
CONSTANTS
  Cpus = {c1, c2}
  NoCpu = NoCpu
  PoolSize = 5
  Requests = {1, 2, 3}
INVARIANTS
  TypeOK
  PtePartition
  FreeListSorted
  FreeListCoalesced
  MetadataIntact
PROPERTIES
  ImplementsPool
  ReleaseTerminates
