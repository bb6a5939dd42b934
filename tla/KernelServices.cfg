SPECIFICATION Spec
CONSTANTS
  Cpus = {c1, c2}
  ClockCpu = c1
  ErrorCpus = {c2}
  Resources = {r1}
  Callers = {p1, p2}
  Rollover = 2
  Period = 3
  Waits = {4}
  LastTick = 6
  Users = {u1, u2, u3}
  Pushers = {q1, q2}
  Entries = {e1, e2, e3}
  ApCount = 3
  MaxCpus = 3
  Structures = {s1, s2}
  Tags = {"t1", "t2"}
  Mgr = "Mgr"
  BigA = "BigA"
  TagHash <- MCTagHash
  Mask = 1
  PageEntries = 1
  MaxExpansion = 2
  Pages = {0, 2, 3, 4}
  FirstSize = 2
  MaxSize = 4
  MaxSmall = 1
  Memory <- MCMemory
  Align = 4
  Descriptors = 4
  Requests <- MCRequests
  PageFormats <- MCFormats
  BootMemories <- MCBootMemories
  RecordSize = 1
  ColorBytes = 6
  HyperPages = 7
  LowPages = 20
  ZeroPtes = 2
  HeapPages = 6
  Fixed = {3}
  Sizes = {1, 2}
  WordBits = 4
  ByteBits = 2
  IntBits = 3
  MapSize = 7
  Lengths = {1, 2, 3}
  Nodes = {n1, n2, n3}
  Heads = {h1, h2}
  HoursPerDay = 2
  MinutesPerHour = 2
  SecondsPerMinute = 2
  Windows <- MCWindows
  WindowDays = 800
  HourSeconds = 3
  Starts <- MCStarts
  NewTimes <- MCNewTimes
  MaxUpdates = 2
  Attempts = 2
  HalfBits = 4
  ByteWidth = 2
  FloatBase = 4
  Positions = 12
  Values <- MCValues
  Exponents <- MCExponents
  Fractions <- MCFractions
  FieldWidths <- MCFieldWidths
  MaxArguments = 3
  Letters = 2
  MaxText = 3
  MaxNumeral = 4
  MAXULONG = 63
  Displays <- MCDisplays
  FontWidth = 3
  FontHeight = 2
  Glyphs <- MCGlyphs
  TabStop = 2
  Firmwares <- MCFirmwares
  Signatures = {"XSDT", "FADT", "DSDT", "FACS", "SSDT", "HPET"}
  VaPages = {1, 2, 3, 4, 5, 7, 8, 9, 10, 11}
  PageUnits = 4
  MaxCached = 4
  InfoPage = 30
  CpusPerPage = 2
  Machines <- MCMachines
  MaxControllers = 2
  MaxOverrides = 2
  Allocations <- MCAllocations
  Processors <- MCProcessors
  IpiVectors = {"v1"}
  MaxGiven = 2
  MaxSends = 2
  TimerMachines <- MCTimerMachines
  TimerCpus = {0, 1}
  BootCpu = 0
  TimeUnits = 400
  Thousand = 10
  Femto = 1000
  ClockHz = 4
  WindowHz = 2
  PitHz = 34
  PmHz = 36
  StandardHpetHz = 14
  PitLimit = 255
  RateLimits <- MCRateLimits
  Rates = {0, 100, 250, 3000}
  ProfileLimits <- MCProfileLimits
  ProfileIntervals = {0, 10, 350, 20000}
  MaxLate = 1
  LongBits = 8
INVARIANTS SyncSound TimeKept LockFreeSound TrackingSound
           MappingsSound RuntimeExact SetUpSound
PROPERTIES CounterMonotonic
CHECK_DEADLOCK FALSE
