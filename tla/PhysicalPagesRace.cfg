SPECIFICATION Spec
CONSTANTS
  Cpus = {c1, c2}
  Blocks = {b1, b2}
  LastFrame = 6
  Colors = 2
  Ambiguous = {}
  PoolRequests = {4}
  StackRequests = {1}
SYMMETRY BlockSymmetry
INVARIANT PicksExclusive
CHECK_DEADLOCK FALSE
