SPECIFICATION Spec
CONSTANTS
  Cpus = {c1, c2}
  Pages = {p1, p2}
  Units = 7
  Requests = {2, 3, 6}
SYMMETRY NameSymmetry
INVARIANTS
  BlocksTile
  ListsComplete
  FreeCoalesced
  PagesReturned
PROPERTIES
  PanicsExplained
CHECK_DEADLOCK FALSE
