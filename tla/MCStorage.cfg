CONSTANTS
  Paths <- MCPaths
  LongNames = {}
  Total = 4
  FatEntries = 8
  SectorsPerCluster = 1
  SlotsPerSector = 2
  Handles = {1}
  MaxUnits = 2
  MaxOps = 5
  MaxFaults = 1
  MaxBlocks = 4000
  Callers = {1, 2}
  Blocks = 3
  MaxCalls = 2
  MaxLost = 1
  Users = {1, 2}
  Files = {"f", "g"}
  MaxFileCalls = 4
  MaxKills = 1
SPECIFICATION Spec
INVARIANTS
    LayoutSafe  HandlesSafe
PROPERTIES
  CallsAnswered FilesReleased
CHECK_DEADLOCK FALSE
