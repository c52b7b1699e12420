\* put() may drop its message.
SPECIFICATION Spec
CONSTANTS
  Putters = {p1, p2}
  Main = main
  Flusher = flusher
  NoThread = nobody
  NoMsg = nomsg
  N = 2
  MaxPuts = 3
  MaxFileSize = 1
  MaxLogFiles = 1
  IOFails = FALSE
INVARIANT NoMessageLost
