SPECIFICATION Spec
CONSTANTS
  Cpus = {c1}
  NoCpu = NoCpu
  PoolSize = 4
  Requests = {1, 2}
PROPERTY ReserveKeepsMappings
