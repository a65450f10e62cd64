\* Federated search and its HTTP source, fan-out, validated read cache, query
\* embedding cache and FAISS store.
CONSTANTS
  NumSources = 3
  MaxConcurrency = 2
  Filterable = {1, 2}
  Answers <- LinkedAnswers
  TopK = 2
  RrfK = 1
  Scale = 12
  RerankLimit = 2
  RerankScore <- TextScores
  NumTasks = 3
  w1 = w1  w2 = w2  w3 = w3
  Readers <- TwoReaders
  Asynchronous <- TwoReaders
  MaxVersion = 3
  MaxReadFaults = 1
  Callers <- ThreeCallers
  AsyncCallers <- TwoReaders
  MaxEpoch = 2
  MaxCacheFaults = 1
  VectorKeys = {1, 2}
  RowValues <- RowPairs
  StoredRows <- OneRow
  Objects = {1, 2, 3, 4, 5, 6}
  Searchers = {1, 2}
  Drains = {1, 2}
  TombstoneNum = 1
  TombstoneDen = 2
  FaissBudgets <- FaissProfiles
SPECIFICATION Spec
INVARIANTS AuthoritativeIsOrderFree MergedOnce NoTaskOutlivesCall
INVARIANTS CachedAnswersExplained WireFaithful
INVARIANTS FaissAnswersFresh FaissStatesAreWhole
PROPERTIES StoreMovesForward EveryCallEnds
CHECK_DEADLOCK FALSE
