CONSTANTS
  Threads = {k, a, b}
  Kernel = k
  Idle = idle
  None = None
  MaxDepth = 2
SPECIFICATION LiveSpec
INVARIANTS
  SchedulerSafe

   
