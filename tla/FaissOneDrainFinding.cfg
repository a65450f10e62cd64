\* Two writer threads of the FAISS store at once.
CONSTANTS
  VectorKeys = {1}
  RowValues <- RowPairs
  StoredRows <- OneRow
  Objects = {1, 2, 3, 4, 5, 6, 7, 8}
  Searchers = {1}
  Drains = {1, 2, 3}
  TombstoneNum = 1
  TombstoneDen = 2
  FaissBudgets <- BusyWriter
SPECIFICATION FaissSpec
INVARIANT OneDrainAtATime
CHECK_DEADLOCK FALSE
