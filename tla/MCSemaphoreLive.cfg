CONSTANTS
  Futures = {f1, f2, f3}
  Total = 2
  Requests = {1, 2}
  NoOne = NoOne
SPECIFICATION LiveSpec
PROPERTY EveryoneServed
CHECK_DEADLOCK FALSE
