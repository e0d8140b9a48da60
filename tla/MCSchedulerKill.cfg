SPECIFICATION LiveSpec
CONSTANTS
  Threads = {k, a, b}
  Kernel = k
  Idle = idle
  None = None
  MaxDepth = 2
PROPERTY KilledIsReclaimed
