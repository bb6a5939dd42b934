SPECIFICATION BitMapSpec
CONSTANTS
  WordBits = 4
  ByteBits = 2
  IntBits = 3
  MapSize = 7
  Lengths = {1, 2, 3}
INVARIANTS RegionsAlike
