\* Two threads that may both crash, at steps that differ in what they leave held.
\* Handlers can wait for each other for ever.
SPECIFICATION Spec
CONSTANTS
  App = {a1, a2}
  Flusher = flusher
  NoThread = nobody
  N = 2
  Ticks = 1
  OriginOnly = {TRUE, FALSE}
  CrashAt = {"idle", "wrapper", "avail", "writing", "flush", "flushing"}
  MaxPuts = 1
  MaxCrash = 2
CHECK_DEADLOCK FALSE
INVARIANTS TypeOK OneUpdater StacksComplete SignalledAlive FlushedUnlessBlocked
PROPERTIES CrashEnds
