CONSTANTS
  Tasks = {t1, t2}
  Callers = {c1, c2}
  NoTask = NoTask
  Wakers = {w1, w2}
  Self = self
  NoOne = NoOne
SPECIFICATION MCSpec
INVARIANTS
  RuntimeSafe BlockOnSafe
PROPERTIES
  EventsArrive 
CHECK_DEADLOCK FALSE
