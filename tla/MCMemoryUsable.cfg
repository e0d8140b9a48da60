CONSTANTS
  Bases = {0, 1, 2}
  Extents = {0, 1, 3}
  Kinds = {1, 3}
  MaxRegions = 3
  PAGE = 4
  Regions <- MCRegions
  Start = 8
  Owners = {1, 2}
  Fan = 2
  NFrames = 9
  StaticPages = {1, 14}
  MaxPages = 2
  MaxPageOps = 5
  Copiers = {1, 2}
  UNIT = 2
  Offsets = {0, 1}
  Amounts = {0, 1, 3}
  MaxCopies = 1
  SizeClasses <- MCClasses
  PageUnits = 4
  HeadUnits = 1
  NPages = 4
  Sizes = {1, 2, 3, 6}
  MaxHeapOps = 9
  PAGE_SIZE = 4
  BUF = 2
  Low = 4
  High = 20
  FileLen = 8
  Segments <- MCSegments
  MaxSegments = 2
  Keys = {1, 2, 3, 4, 5, 6, 7, 8}
  Holders = {1, 2, 3}
  MaxRefs = 2
  LNodes = {a, b, c, d}
  Dangling = Dangling
  MaxLen = 4
SPECIFICATION Spec
INVARIANT FramesUsable
CHECK_DEADLOCK FALSE
