CONSTANTS
  la = la
  Slots = {1, 2, 3, 4, 5, 6}
  Keys = {"ctrl", "space"}
  Beyond = "beyond"
  Hover = "ctrl"
  ConnectorName = "qemu"
  Libs = {la}
  NoLib = NoLib
  Paths = {"d", "x"}
  SearchPaths <- MCSearch
  Files <- MCFiles
  Invalid = Invalid
  NameOfLib <- MCNames
  ConnectorNames = {"qemu"}
  MaxLen = 3
  MaxCalls = 16
  Programs = {"p", "q"}
  Parts = 2
  MaxLoads = 4
  MaxNodes = 3
  MaxRotations = 1
  MaxFailures = 1
  ValidFor = 3
  CounterMod = 8
  SlotCount = 2
  MaxTime = 12
SPECIFICATION ProgramsSpec
CHECK_DEADLOCK FALSE
INVARIANTS
  CallsValid
