SPECIFICATION Spec
CONSTANTS
  d1 = d1
  c1 = c1
  c2 = c2
  NoSnapshot = NoSnapshot
  NoThread = NoThread
  Docs = {d1}
  Chunks = {c1, c2}
  ParentOf <- AllOfFirst
  Writers <- WriterThreads
  Readers = {r1}
  ParallelReads = TRUE
  MaxVersion = 2
  ChunksAt <- Pair
  Modes <- BothModes
  MaxFaults = 1
  MaxSearches = 2
CHECK_DEADLOCK FALSE
INVARIANT CommittedIsIndexed
