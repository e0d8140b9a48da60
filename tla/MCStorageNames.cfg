CONSTANTS
  Paths <- MCNames
  LongNames = {"b"}
  Total = 4
  FatEntries = 8
  SectorsPerCluster = 1
  SlotsPerSector = 4
  Handles = {1}
  MaxUnits = 1
  MaxOps = 5
  MaxFaults = 0
  MaxBlocks = 4000
  Callers = {1, 2}
  Blocks = 3
  MaxCalls = 2
  MaxLost = 1
  Users = {1, 2}
  Files = {"f", "g"}
  MaxFileCalls = 4
  MaxKills = 1
SPECIFICATION Spec
PROPERTY CreateKeepsOthers
CHECK_DEADLOCK FALSE
