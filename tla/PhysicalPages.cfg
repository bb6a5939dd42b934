SPECIFICATION Spec
CONSTANTS
  Cpus = {c1}
  Blocks = {b1, b2, b3}
  LastFrame = 6
  Colors = 2
  Ambiguous = {5}
  PoolRequests = {4}
  StackRequests = {1, 2}
SYMMETRY BlockSymmetry
INVARIANTS
  ColorsThreadFreeList
  FramesConserved
  CountsAgree
  PoolFramesReal
PROPERTIES
  PanicsExplained
  ImplementsQueue
CHECK_DEADLOCK FALSE
