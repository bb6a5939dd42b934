SPECIFICATION Spec
CONSTANTS
  Cpus = {c1, c2}
  InitialSize = 4
  ExpansionSize = 5
  Frames = 4
  Heads = 3
  Kept = 2
  Requests = {1, 3}
SYMMETRY CpuSymmetry
INVARIANTS
  RunsTile
  RunsFiled
  BlocksMarked
  ExpansionAccounted
PROPERTIES
  ExpandsOnlyWhenNeeded
