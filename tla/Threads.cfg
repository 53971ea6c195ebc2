\* Buffers that wrap, days with one before and one after, a file that ends within
\* a chunk and one that fills its chunks.
SPECIFICATION ThreadsSpec
CONSTANTS
  BUFFER_SIZE = 3
  NUM_ITEMS = 7
  Chars = {a, b}
  NoChar = NoChar
  NUM_CHILDREN = 4
  Days = 3
  KIDS = 4
  Ncycles = 3
  Holes = 5
  Ahead = 3
  PerThread = 3
  Room = 5
  Seats = 5
  CopyBlock = 2
  MaxTotal = 7
  Depths = {0, 2}
  CopyFaults = {"submit", "error", "short_read", "short_write"}
  Chunks = 4
  QueueDepth = 2
CHECK_DEADLOCK FALSE
INVARIANTS
  CountExact
  NoOverrun
  OneWriter
  QueueInOrder
  ResetFindsEmpty
  FarmInStep
  QueuesDeliver
  CopyExact
PROPERTIES
  IsFifo
  TasksInOrder
  BothHouseholds
  ThreadsEnd
