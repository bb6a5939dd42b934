SPECIFICATION Spec
CONSTANTS
  Modules = {"xtos", "xtos_o", "pecoff", "acpi", "framebuf"}
  Dependencies <- MCDependencies
  Registers <- MCRegisters
  Prefixes <- MCPrefixes
  Lists <- MCLists
  SystemTypes = {"XTOS", "CHAIN"}
  MaxFailures = 1
  ImageOf <- MCImageOf
  Claims <- MCClaims
  Kseg0 = 100
  HolePage = 5
  HolePages = 2
  EfiMaps <- MCEfiMaps
  Trampoline = 4
  ApicPage = 45
  ApicVa = 300
  KernelVa = 200
  KernelPages = 2
  FilePages = 1
  LoaderImage <- MCLoaderImage
  FrameBuffers <- MCFrameBuffers
  HardwareTables = {10, 11}
  TableSpan = 32
  PerPage = 8
  CommandLines <- MCCommandLines
  Files <- MCFiles
  Beginnings <- MCBeginnings
  Editable <- MCEditable
  Values = {"a", "b", ""}
  MaxEdits = 1
  BoxRows = 2
  Seconds <- MCSeconds
  Letters = {"a", " "}
  BufferSize = 4
  FieldSize = 5
  OldTexts <- MCOldTexts
  HistorySize = 2
  PeFiles <- MCPeFiles
  PageCells = 4
  Scale = 4
  Places = {32, 44}
  Addresses = {8, 57}
  LongRange = 64
  ShortRange = 32
  DiskSets <- MCDiskSets
  ArcPaths <- MCArcPaths
  DriveNumbers = 4
  MaxTries = 2
INVARIANTS ModulesInOrder MemorySound ConsoleSound FilesSound
PROPERTIES LoadingEnds
CHECK_DEADLOCK FALSE
