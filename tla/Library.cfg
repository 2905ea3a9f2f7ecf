CONSTANTS
  ValidatorKind = "timed"
  ValidFor = 1
  CounterMod = 16
  Roots = {0, 1}
  RootsPerFrame = 2
  Entries = 2
  PageSize = 4
  VPages <- MCVPages
  Frames = {7}
  None = None
  Batches <- NarrowBatches
  MaxTime = 2
  Regions <- MCRegions
  Elements <- MCElements
  Limits <- MCLimits
  MaxRegions = 3
  MaxElements = 2
  BsearchThresh = 3
  MemSizes = {4, 5}
  Ratio = 2
  MapSize = 2
  MaxTables = 1
  MaxProcs = 2
  Nothing = Nothing
  Guids = {"g"}
  Builds = {1, 2, 3}
  MaxFiles = 2
  MaxFaults = 1
  BuiltIn <- MCBuiltIn
  ClassNames = {"EPROCESS", "TEB32"}
  FieldNames = {"Peb", "Wow"}
  Wanted <- MCWanted
  MaxTypes = 3
  p0 = p0
  p1 = p1
  p2 = p2
  exe = exe
  dll = dll
  wowdll = wowdll
  Procs <- MCProcs
  Sys = p0
  ActiveHead = ActiveHead
  Exe = exe
  Dlls <- MCDlls
  LdrHead = LdrHead
  WowHead = WowHead
  WowEntry = wowdll
  FullName <- MCFullName
  DllName <- MCDllName
  Wow64 <- MCWow64
  HasTeb = TRUE
  Null = Null
  MaxIter = 6
  MaxGuest = 2
  MaxOps = 2
  Queries <- MCQueries
  ConnectorFails = TRUE
  la = la
  lb = lb
  Slots = {1, 2, 3, 4}
  Libs = {la, lb}
  NoLib = NoLib
  Paths = {"d", "x"}
  SearchPaths <- MCSearch
  Files <- MCFiles
  Invalid = Invalid
  NameOfLib <- MCNames
  ConnectorNames = {"qemu"}
  MaxLen = 3
  MaxCalls = 7
SPECIFICATION LibrarySpec
CHECK_DEADLOCK FALSE
INVARIANTS
  AnswersFresh
  PiecesRight
  PiecesApart
  OrderedExact
  OrderKept
  FramesApart
  ScanFinds
  OffsetsRight
  OwnFieldWins
  ListFaithful
  LookupFinds
  ModulesFaithful
  LibraryLifetime
