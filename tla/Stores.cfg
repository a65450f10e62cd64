\* Filters, PostgreSQL store, graph stores, graph expansion, local searches,
\* bootstrap checkpoint and embedding work.
CONSTANTS
  Corpus <- SomeCorpus
  Terms <- SomeTerms
  MaxTerms = 3
  PgKeys = {"k1", "k2"}
  Batches <- OneOrBothKeys
  Models = {"A", "B"}
  Dims = {1, 2}
  Processes = {v, w}
  PgVersions = {1, 2}
  MaxCalls = 3
  GraphNodes = {1, 2, 3, 4}
  GraphEdges <- SomeEdges
  EdgeTypes = {"cites", "parent"}
  Costs = {0, 1}
  Questions <- SomeQuestions
  MaxEdges = 5
  MaxGraphCalls = 8
  Inputs <- SomeInputs
  Unit = 2
  Damping = 1
  LocalKeys = {1, 2, 3}
  RecordKinds <- SomeKinds
  FirstRecords <- SomeRecords
  SearchCalls <- SomeCalls
  SnapshotRows = 2
  PageRows = 1
  Overfetch = 2
  FuzzyRows = 2
  MaxLocalWrites = 2
  Targets = {"a.md", "a.txt", "b.md"}
  DocOf <- DocIds
  Jobs <- SomeJobs
  BootWorkers = {v, w}
  Encoders = {"e", "f"}
  Exclusions <- SomeExclusions
  MaxFileVersion = 2
  BootBudgets <- SomeBootBudgets
  Texts = {1, 2, 3}
  TextOf <- TextIds
  Executors = {v, w}
  WorkInputs <- SomeWork
  BatchSize = 2
  CacheFiles = {1, 2, 3}
  WorkBudgets <- SomeWorkBudgets
SPECIFICATION Spec
INVARIANTS FiltersHold RememberedTablesExist WalksAgree ExpansionHolds
INVARIANTS SearchExplained BootstrapHonest EmbeddingWorkKept
PROPERTIES StoreEpochsCover VectorsKeepRecords CompletionsStay
SYMMETRY Interchangeable
CHECK_DEADLOCK FALSE
