SPECIFICATION Spec
CONSTANTS
  Cpus = {boot, other}
  Boot = boot
  Clock = clock
  Readers = {}
  Setters = {}
  LowSize = 2
  Horizon = 12
  NewTimes = {}
  LocalClock = FALSE
  TimeIncrement = 2
  Fraction = 1
  FractionUnit = 2
INVARIANT TicksMatchIncrements
