CONSTANTS
  Tasks = {t1, t2, t3}
  NoTask = NoTask
  MaxWaits = 3
  MaxPuts = 2
  NoSide = NoSide
  Size = 2
  MaxItems = 3
  Empty = Empty
  Subs = {1, 2}
  First = 1
  MaxSends = 2
  Readers = {r1, r2}
  KeyBuffer = 2
  MaxKeys = 4
  Sleepers = {1, 2}
  LIMIT = 32
  MicrosPerSecond = 3
  NanosPerMicro = 2
  Seconds = {0, 1, 11, 31}
  Nanos = {0, 5, 6, 13}
  ELAPSED = 2
  MaxClock = 8
SPECIFICATION Spec
INVARIANTS
  CondvarSafe OneshotSafe  WatchSafe  SleepSafe
CHECK_DEADLOCK FALSE
