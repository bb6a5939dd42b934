SPECIFICATION Spec
CONSTANTS
  Cpus = {c1}
  Blocks = {b1, b2}
  LastFrame = 6
  Colors = 2
  Ambiguous = {}
  PoolRequests = {4}
  StackRequests = {1}
PROPERTY FreedFramesReturn
CHECK_DEADLOCK FALSE
