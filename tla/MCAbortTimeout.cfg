\* One thread crashes; stacks of the origin only, as replica.cpp sets it.
SPECIFICATION Spec
CONSTANTS
  App = {a1, a2}
  Flusher = flusher
  NoThread = nobody
  N = 2
  Ticks = 1
  OriginOnly = {TRUE}
  CrashAt = {"idle"}
  MaxPuts = 2
  MaxCrash = 1
CHECK_DEADLOCK FALSE
PROPERTIES TimeoutAborts
