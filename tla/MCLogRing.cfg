\* Three calls of two threads fill a ring of two slots, with rotation, retention
\* and I/O that fails; every put() and stop() returns.
SPECIFICATION Spec
CONSTANTS
  Putters = {p1, p2}
  Main = main
  Flusher = flusher
  NoThread = nobody
  NoMsg = nomsg
  N = 2
  MaxPuts = 3
  MaxFileSize = 1
  MaxLogFiles = 1
  IOFails = TRUE
INVARIANTS TypeOK OneWorker JobsCounted AcceptedOnce StopFlushesAll NewestKept StopOutlivesJobs
PROPERTIES PutReturns StopReturns
