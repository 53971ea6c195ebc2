\* The comments of simplified_synchronization_explained.cpp on the farmers, on what
\* the code does: Larry may put the next hole in the queue before Curley puts back
\* the one he planted.
SPECIFICATION ThreadsSpec
CONSTANTS
  BUFFER_SIZE = 3
  NUM_ITEMS = 7
  Chars = {a, b}
  NoChar = NoChar
  NUM_CHILDREN = 4
  Days = 3
  KIDS = 4
  Ncycles = 3
  Holes = 5
  Ahead = 3
  PerThread = 3
  Room = 5
  Seats = 5
  CopyBlock = 2
  MaxTotal = 7
  Depths = {0, 2}
  CopyFaults = {"submit", "error", "short_read", "short_write"}
  Chunks = 4
  QueueDepth = 2
CHECK_DEADLOCK FALSE
INVARIANT MoeFillsPlanted
