SPECIFICATION FairSpec
CONSTANTS
  Cpus = {boot, other}
  Boot = boot
  Clock = clock
  Readers = {other}
  Setters = {boot}
  LowSize = 2
  Horizon = 4
  NewTimes = {0, 3}
  LocalClock = TRUE
  TimeIncrement = 1
  Fraction = 1
  FractionUnit = 2
INVARIANTS
  ReadsUntorn
  TickCountExact
  UptimeKept
PROPERTY InterruptEnds
