CONSTANTS
  Tids = {1, 2, 3}
  Pids = {1, 2}
  MaxCalls = 4
  Waiters = {1, 2, 3}
  Addrs = {1, 2}
  MaxFutexCalls = 3
  MaxStops = 1
SPECIFICATION Spec
INVARIANTS
  ProcessSafe SleepsUnlocked FutexSafe
CHECK_DEADLOCK FALSE
