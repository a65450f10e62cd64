# Verification of searchkernel

TLA+ models of `searchkernel`, TLC configurations that check them on small
instances, and TLAPS proofs of their main safety properties for every instance.
The modules cover the parts of the program whose correctness depends on the
order in which things happen, or on several pieces of code agreeing about one
thing: model migration, resumable ingestion, the local and PostgreSQL stores with
their epochs and graphs, the FAISS store over them, searches behind single-flight
caches, federated search, the bootstrap checkpoint, embedding work, and the
filters that five backends compile.

Paths below are relative to `src/searchkernel/` unless they start with `docs/`
or `tests/`. `PROJECT.json` holds the machine-readable side: components, runs,
mutants, the map from definitions to source lines, findings, hazards, theorems.

Contents: 1 inventory, 2 modules and how they correspond to the code, 3 runs,
4 fairness, 5 proofs, 6 findings, 7 limits (disagreements not checked as
findings, what is only model-checked, what is left out), 8 plan.

## 1. Inventory

searchkernel is a Python search library: it reads records from content sources,
splits them into chunks, writes them to keyword, vector and graph indexes,
searches several lanes, fuses and hydrates the results, and federates several
such searches. Everything runs on asyncio; stores are synchronous and run on
worker threads (`asyncio.to_thread`).

| Component | State it keeps | Operations | Talks to | What is hard | Modules |
|---|---|---|---|---|---|
| Model migration (`runtime/reindex.py`) | durable `MigrationState`, active model with generation, namespaces, backups, a transition lock file | expand, backfill, validate, flip, contract, rollback, retry | model lifecycle store, vector store, encoder | crash between any two store calls, several operators, another program that activates a model | Reindex, ServingModel |
| Ingestion coordinator and kernel (`indexing/coordinator.py`, `kernel.py`, `indexing/checkpoints.py`) | current checkpoint, `checkpoint_blocked`, stream position; one checkpoint file for all sources | `run_source`, `iter_ingest_source`, load and save of a cursor | content source, stages, record ingestor, planner | partial batches, cancellation while threads write, two writers of one file | Ingestion |
| Record ingestor (`ingestion/records.py`) | outcomes per stage during a call | `index_records` with batch and per-record paths, collapse, merge | keyword store and planner/vector store on two threads | both stages write the same rows, either falls back, receipts pair outcomes by position | RecordIngest |
| Local record store (`indices/local*.py`) | SQLite rows for records, chunks, vectors, graph; mutation epochs; cached vector snapshot and statistics | index, upsert, delete, search lanes, graph walks | its reader/writer lock, FAISS store on top | sleeping readers and writers, snapshot labelled and published outside the lock, cascades, several reads per answer | LocalStore, LocalSearch, GraphStores |
| PostgreSQL stores (`adapters/stores/`) | rows, one vector table per model and dimension, epochs, remembered table names | the same ports as the local store | the database | concurrent READ COMMITTED transactions, deadlocks, rollbacks, other processes | PgStore, GraphStores |
| FAISS store (`indices/faiss_local.py`) | resident index, ids, generation files and manifest | refresh, search, publish a generation, load | local store | index changed in place under a search, debounced publication by a thread, crash while publishing | FaissStore |
| Record search pipeline and caches (`search/record_pipeline.py`, `search/pipeline_candidate_*.py`, `search/record_hydration.py`, `runtime/canonical_cache.py`) | candidate cache, hydration cache, their flights | acquire, fuse, expand, hydrate, refine | lanes, record source, reranker | a miss shared by searches, an owner that fails or is cancelled, epochs read early and used late | RecordSearch |
| Query embedding and validated read caches (`runtime/query_embedding_cache.py`, `validated_read_cache.py`) | entries, in-flight futures | get or compute, invalidate | encoder, validators, cache stores | waiters that are cancelled, invalidation during a load | QueryCache, ReadCache |
| Federation and fan-out (`runtime/federation.py`, `fanout.py`, `http_federation.py`, `ports/federation.py`) | worker pool, queues, deadlines, wire models | select, fan out, fuse, report; exchange over HTTP | remote searches | answers that are late, out of order or missing; a wire both sides must read alike | Federation, Fanout, HttpSource |
| Semantic planner and embedding cache (`indexing/semantic.py`, `indexing/embedding_cache.py`, `ingestion/embedding.py`) | cache file of embeddings | plan, deduplicate, encode in batches, store, upsert | encoder, vector store | a batch that fails in the middle, a malformed file with several users | SemanticWork |
| Bootstrap checkpoint, snapshot, manifest, readiness, reconciliation (`indexing/bootstrap_*.py`, `manifest.py`, `reconciler.py`, `runtime_readiness.py`) | one JSON document per workspace, the manifest | prepare, mark, publish, derive readiness | file discovery, indexing workers | load-modify-replace without a lock, stamps taken late, moved files | Bootstrap |
| Filters (`domain/vector_filters.py` and the stores' compilers) | none | compile, evaluate | every store | absent, null and empty values, three SQL dialects and FAISS masks | Filters |
| Ranking (`search/`) | none | graph expansion; fusion, diversity, calibration | pipeline | cycles, limits, ties | GraphExpansion (the expansion) |
| Query planning, orchestrators, domain, ports, adapters, chunking, keyword scoring, evaluation | wiring and values | | | none of their own | |

What makes each modelled component correct:

- *Migration*: the namespace that answers queries is never deleted and always
  holds the whole corpus; a checkpoint never runs ahead of the vectors; the
  corpus can always be recovered; a migration that is driven ends.
- *Ingestion*: the durable cursor never passes a record an index lacks or holds
  in an older version; receipts stay true; every record is indexed in the end.
- *Record ingestor and stores*: a record reported committed is in both indexes,
  whole and at that version; searches see every committed vector, and what one
  answer mixes is explained by commits that fell into it; epochs move with what
  they guard; a writer is alone; a vector never lacks its record; the three
  graph walks find the same nodes; every call returns.
- *FAISS*: an answer holds what was stored when the search began; states and
  published generations are whole; one writer at a time.
- *Search*: results are no older than the search, a strict search never hides a
  failure, no candidate vanishes silently, nobody waits for a flight that no
  one will end, every search ends.
- *Caches*: an answer is the value of a moment of the call, or a declared
  fallback; the backing store does not go backwards; an invalidated embedding
  does not come back unless a call overlapped the invalidation.
- *Federation*: each source is accounted for once; the authoritative order does
  not depend on who was first; nothing outlives the call; the call ends.
- *Bootstrap and embedding work*: what is reported complete is indexed and
  embedded, in spite of lost updates; work that ends well is whole.
- *Filters*: a record found by one lane is found by all.

`PROJECT.json` lists 40 hazards at the line where they bite, with the property
that covers each or the reason why none does.

## 2. Modules

```
ServingModel <--refines-- Reindex    <-- MCReindex, ReindexProofs
                          Ingestion  <-- MCIngestion, IngestionProofs
LocalStore <--extends, refines-- RecordIngest <-- MCRecordIngest, RecordIngestProofs
                          RecordSearch <-- MCRecordSearch, RecordSearchProofs

Runtime:   Federation | Fanout | ReadCache | QueryCache
Runtime | HttpSource   <-- RuntimeProofs
MCRuntime: Runtime | HttpSource | FaissStore
StoreEpochs: PgStore | GraphStores
StoreEpochs | Filters | LocalSearch | GraphExpansion   <-- StoreProofs
MCStores:  Filters | StoreEpochs | GraphExpansion | LocalSearch
           | Bootstrap | SemanticWork
Bootstrap | SemanticWork <-- BootstrapProofs
FaissStore <-- MCFaiss, FaissProofs
```

`Runtime` puts four services together and states what is said of two of them at once.
The `MC*` modules give constants their values. `MCRuntime` and `MCStores` each put
several modules that share no state into one instance: the variable `subject` is
chosen at the start and says which of them moves, so that the behaviours of the
instance are the union of theirs, not the product. A definition whose comment
begins with "Mutant" is never part of a specification: it is the mutated form of
the definition it names, and the run listed with it must fail when it takes that
definition's place.

### Reindex (`runtime/reindex.py`, `domain/reindex.py`, `ports/reindex.py`)

One action per store call of `ReindexRoutine`; `Begin*` are the first steps of
the operations, with the guards of their early refusals, and the named steps
(`BatchAttempt`, `FlipSwitch`, `ContractDelete`, ...) follow the order in the
code. `saved[m]` is the durable `MigrationState`, `active` the active model with
its generation (the compare-and-set), `lock` the transition lock, `work[p]` the
call in progress with its draft state (what the code keeps in `state`).
`StoreRaises` is a call that raises and the way through `_fail`;
`Crash` the death of the process, which frees the file lock; `ForeignActivate`
another program that selects a model without the lock. The corpus is a number of
batches and a namespace is the set of batches in it. `attempts`, errors and
timestamps decide nothing and are left out.

`ServingModel` is the abstract promise to queries: the serving namespace
switches in one step, only to a whole (or foreign) one, and is never taken apart.

### Ingestion (`indexing/coordinator.py`, `indexing/checkpoints.py`, `kernel.py`)

A source is a log of positions, each a version of a record or, where the source
filters, none; a cursor is a position. `Start` loads the cursor,
`DeliverRecords` and `DeliverSourceBatch` are the two kinds of stream, `Hand`
cuts a source batch and gives only the last part its cursor. The coordinator's
path is `LexicalStage`, `SemanticStage`, `Settle`; the kernel's is
`IngestBatch` with `SafeBatchCheckpoint`. `SaveRead` and `SaveWrite` are the two
halves of `JsonCheckpointStore._save`. `Cancel` ends a call and leaves any of its
worker threads behind in `orphans`, which write later. `index` holds the version
each store wrote last, `written` is a history variable: all positions ever
written.

### LocalStore and RecordIngest (`indices/local*.py`, `ingestion/records.py`)

`LocalStore` has the reader/writer lock as the code builds it (sleep on a
condition, be notified, look again: `Enter`, `WakeUp`, `Release`), the
transactions `Index`, `Upsert`, `Delete` with the chunk replacement of
`_sync_chunk_state`, the cascade to vectors and the epochs each commit moves, and
`search_vector` from statistics through the snapshot lock, loading, labelling and
caching a snapshot, to the answer. `StoreSpec` lets any thread mutate it at any
time. `RecordIngest` extends it with `index_records`: `IndexRecords` expands a
batch, `WriteBatch` and `WriteOne` are the batch and fallback calls of each
stage, `EncodeBatch`/`EncodeFails` the planner, `Return` collapses and merges the
outcomes. `CommitDelete` and `SearchVector` are the store's other callers.

### LocalSearch (`indices/local.py`)

What one search of the local store reads, in separate locks: `ReadEligible` (the
keys a typed filter lets through), `ReadStats`, then `ReadSnapshot`, or `ReadBlock`
page by page when the namespace is larger than the snapshot may be; `ReadFts` and
`ReadScan` are the keyword search with its ladder of FTS queries, the fallback
scan and the fuzzy scan. `StoreRecord` and `RemoveRecord` commit in between. A
record says whether filter, status and words match, and how well. Hits are kept as a
set, since `Better` orders them; the batch form answers each query from one reading.
`seen`, the records each key has held during the call, lets `SearchExplained` say which
of them a hit was read from.

### GraphStores (`indices/local.py`, `adapters/stores/pgvector.py`)

Nodes, edges and their epoch, with the cascade of deleted nodes. The batched walk
goes hop by hop over rows read in key order (`ReadRow`, `NextHop`); the recursive
walks in SQL, for one seed and for PostgreSQL, are the operators `ManyWalks` and
`SingleWalks`. `WalksAgree` compares what they reach and at which cost.

### PgStore (`adapters/stores/pgvector.py`, `postgres_epochs.py`)

A call of a process is one transaction of several statements; a statement sees
what was committed when it began, waits for locked rows, and publishes with the
commit. `BeginUpsert` to `UpsertVectors`, `BeginIndex`/`IndexKeywords`,
`BeginDelete` to `DeleteRecords`, `BeginDeleteForModel` to `DeleteUnembedded` are
its writes; either deletion chooses its edges first (`CutEdges`, `DeleteTheirEdges`) and
locks them a step later, so an edge committed in between stays; `Bump` is the rule which of the three lanes' epochs a statement moves.
`EnsureTable` creates the table of a model and dimension with its registry row;
`Fail` rolls both back. `Searchable` and `RememberTable` are the readers that learn
table names.

### FaissStore (`indices/faiss_local.py`)

The epoch moves with `Commit` and not with `CascadeSilently`, a removal through the
chunk cascade (`silent` remembers what went until the epoch moves). A search takes the
cached state (`UseCached`), loads a generation (`LoadPublished`), or refreshes:
`StartUpdate` reads what changed since its base in batches (`ReadBatch`), and `RemoveReplaced`, `AddBatch`, `FinishUpdate` change the
index in place; `StartBuild` to `FinishBuild` make a new one; whatever raises ends
in `SearchExactly`. Index objects have an identity, so that a search that holds a
state sees what a refresh does to its index. `Request` starts a drain; `TakeSnapshot`,
`WriteGeneration`, `PublishManifest`, `LeaveDrain` are its steps; `CrashFaiss` the death
of the process.

### RecordSearch (`search/`, `runtime/canonical_cache.py`)

Searches are tasks of one event loop, so an action runs from one `await` to the
next. `Begin` computes the cache key from the epochs of that moment and hits,
claims or joins the flight; `SearchLane`, `FuseLanes`, `Expand` acquire
candidates and `StoreCandidates` is `CandidateResultCache.set`. `NextBatch`,
`ReadVersion`, `Lookup`, `Joined`, `LoadBatch`, `LoadOne`, `FinishLoads` are
`hydrate_candidates`, with the claims of a batch held while it joins other
flights. `OwnerDone` is the callback on the owner's task that fails the flights it
left; the task of a search in `Catching` catches its error and releases nobody. A
candidate list is the fixed ranking of its query marked with the epoch it
was read at and the stages lost; a record is the version loaded.

### ReadCache, QueryCache (`runtime/validated_read_cache.py`, `query_embedding_cache.py`)

One key each. In `ReadCache` a reader reads the entry, validates its token, starts or
joins the flight, loads, writes the store and completes the future, with the three
ways a cancellation can fall (`CancelLeader`, `CancelWaiter`, and `CancelAgain`, whose
write goes on as `OrphanWrite`). A value is the version of the source it was
loaded from. `QueryCache` has the memory cache before an optional store, the shared
future that a cancelled waiter cancels for everybody, and invalidation by epoch; an
embedding is the generation of the model that computed it.

### Federation, Fanout, HttpSource (`runtime/`, `ports/federation.py`)

`Federation`: the workers' loop (`TakeNext`, `StartWorker`, `Answer`, `Fail`,
`Timeout`, `Put`), the collector (`Receive`, `AllDone`), the deadline, and the two ends
(`BuildResponse`; `LeaveStream`, `FinalizeGenerator` of the streaming form). Fusion is
the operator `FuseHits`: identity and URI linking as union-find in the order of
arrival (`AddNode`, `Unite`), scores as sums over the lists, scaled to integers;
`InOrder` sorts by an order given as a set of pairs, as the code sorts by a key. `Fanout` is `gather` with its strict and
lenient forms. `HttpSource` has every field of the wire models as the set of values
its constructor, its writer and its reader accept, which fields a reader insists on
(`Required`), and the exchange around them.

### Bootstrap, SemanticWork, GraphExpansion, Filters

`Bootstrap`: every update of the checkpoint is a load and a save (`LoadToMark`,
`SaveMark`; `LoadToPrepare`, `SavePrepared`; `Embed`, `SaveSemantic`; `LoadToPublish`,
`SavePublished`) by one starting process and several workers, while files change and
move. The application that calls these functions is not in the repository: the model
lets workers run jobs on disjoint files, as `submission.py` provides for.
`SemanticWork`: executors with a cache instance each on one path; `Recover` unlinks a
malformed file that others may have open, so a file has an identity. `Plan` and
`DeleteInvalid` are the two statements of a lookup. Misses, batches
and what is left of one are sets of texts, taken in the order of their numbers.
`GraphExpansion`: personalised propagation one node at a time, with the integer
arithmetic of a scaled damping, beside the one-hop form. What the code sorts and cuts
(seeds, edges of a node) is the set of those that fewer than the limit precede; the
edges of a node are a set; of the first hops that gave a node the most mass, all are
its provenances, where the code takes the first. Scores and discounts are naturals.
`Filters`: a filter is a function from the names it gives to their values, built term
by term (`AddTerm`). Each of the six evaluations is translated on its own, and
`StoresAgree` compares five with the reference, record by record; what the code is
known to treat differently is named in `PgDiffers`, `SqliteDiffers` and
`ExclusionLost`. `ScopeIsKept` has no such exceptions but one.

## 3. Runs

| Run | States | Checks | Shows |
|---|---|---|---|
| `reindex_single` | 8,013 | NeverDeleteActive, ActiveServesCorpus, CheckpointBacked, SourceRecoverable, EventuallyComplete | one process drives a migration, in any legal order, and may roll it back, while a second one flips and contracts it; failing calls, crashes, foreign activations |
| `reindex_pair` | 6,762 | ImplementsServing | two migrations compete; they refine ServingModel |
| `ingestion_resume` | 225,104 | CheckpointCovered, IndexCurrent, EventuallyIndexed | two processes, one source each, save into one checkpoint file; both entry points and failure modes, crashes |
| `ingestion_concurrent` | 541,248 | CheckpointCovered | coordinator and kernel on one source, batches without a cursor, cancellation, late threads |
| `local_ingest` | 385,636 | Exclusive, SearchIsFresh, CommittedIsIndexed, KeywordEpochCovers, CallsReturn, ImplementsStore | a record whose chunk is replaced is ingested by two threads, deleted and searched, with fallbacks |
| `record_search` | 319,962 | FreshResults, StrictSearchIsComplete, CandidatesAccounted, SearchesEnd | two searches of one query share a candidate flight and two hydration flights; changes, evictions, failures, cancellation, a task that catches its search's error |
| `runtime` | 427,024 | AuthoritativeIsOrderFree, MergedOnce, WireFaithful, NoTaskOutlivesCall, CachedAnswersExplained, StoreMovesForward, FaissAnswersFresh, FaissStatesAreWhole, EveryCallEnds | federated search, its HTTP source, fan-out, both single-flight caches and the FAISS store, each on its own |
| `stores` | 1,248,494 | FiltersHold, RememberedTablesExist, VectorsKeepRecords, StoreEpochsCover, WalksAgree, ExpansionHolds, SearchExplained, BootstrapHonest, CompletionsStay, EmbeddingWorkKept | filters, PostgreSQL store, graph stores, graph expansion, local searches, bootstrap checkpoint and embedding work, each on its own |

Four further runs end in a violation; see section 6. Type invariants are part of the
inductive invariants of section 5, which TLC evaluated while the proofs were found.

A property whose name joins others (`CachedAnswersExplained`, `StoreEpochsCover`,
`BootstrapHonest`, ...) is their conjunction over modules of one run; its parts are
stated, with their comments, where the state they speak of is.

Bounds, and why they are enough:

- `NumBatches = 2` in `reindex_single`: a batch can be stored while the next is
  not, the smallest corpus in which a checkpoint can be wrong. Two processes, of which
  the second flips and contracts: a contraction then falls between the steps of a
  rollback, and the lock, the owner check and the compare-and-set decide. That the
  second has no other operation is deliberate: two that save drafts of one migration
  undo each other's work (section 7). `MaxFaults = 3`: a
  failure, one while recovering from it, and a crash. `MaxGeneration = 3` bounds
  foreign activations: before, between and after the flip. One batch is enough in the
  other runs, which are about namespaces as a whole.
- `MaxLog = 2` in `ingestion_resume`, `BatchSize = 2`: two versions of a record in one
  batch or on either side of a cut, and a filtered position at the end of the batched
  source. Two processes with a source of their own: each loads the file before the
  other replaces it, one cursor is lost, and its records are ingested again. The
  concurrent run has two positions, batches of one, and two tasks, which is what two
  writers of one cursor need.
- `MaxVersion = 2` with a chunk per version in `local_ingest`: the second version
  replaces the chunk of the first, so that stale chunks occur. `MaxFaults = 2`:
  one batch call of each stage fails, or a batch call and one of its fallbacks.
  One reader: more readers or writers add only lock contention, which the proofs
  of section 5 cover for any number. `MaxSearches = 2` ends the stream of searches:
  the second finds the snapshot of the first.
- In `record_search` two searches are an owner and a waiter, two records make a
  batch in which one is claimed while the other is joined, `MaxChanges = 1` makes
  an epoch or version stale, or evicts an entry; `MaxFaults = 2` lets the owner
  and the waiter fail. `Catching = {s1}`: one task catches the error of its search and
  lives on, the other ends with it.
- `runtime`: three sources and two workers, so that one source waits for a worker;
  answers in which two hits are one only through a third (`LinkedAnswers`), which is
  where an order-dependent fusion would show. Two readers of one key are a leader
  and a waiter; `MaxVersion = 3` gives a stale entry, a value loaded and a newer one.
  Three callers of the embedding cache: a leader, a waiter that is cancelled and one
  that is not. FAISS: two keys of which one is stored, two searchers, two drains, six
  index objects (never all in use);
  `FaissBudgets` trade commits for incidents (crashes, failing calls, cascades), and
  `TombstoneNum`/`TombstoneDen` let one removal reach the rebuild threshold.
- `stores`: terms of filters are combined up to three; the corpus has, for each term,
  records on both sides of it, with absent, null and mistyped values. PostgreSQL: two
  processes, keys, models and dimensions, three calls: two that conflict and one that
  sees the outcome. Graphs: a chain with a shortcut, a second type, a loop and a
  cycle; five edges stored at once, and three writes more than that, before and while
  a walk reads. Local search: a page of one row and a snapshot of two out of three
  records, so that a namespace is searched page by page; two commits, one before and one
  after the row they change. Bootstrap: three files of which two share a doc id, two workers and
  a starting process, budgets that trade edits, jobs, restarts and crashes. Embedding
  work: three texts of four sources in batches of two, two executors, a file that
  breaks; `WorkBudgets` give three executions with one fault, or one with two: the
  first is what it takes for a row to be deleted, or a file unlinked, that another
  executor has meanwhile repaired. Processes, workers and executors are model values
  under symmetry: no definition chooses among them or orders them.

Deadlock checking is on in the two ingestion runs and off in the others, where an
instance stops when its calls, versions, searches or budgets are used up. "Every
call returns" is said by the liveness properties instead (`EventuallyComplete`,
`CallsReturn`, `SearchesEnd`, `EveryCallEnds`), under fairness.

## 4. Fairness

Liveness is checked under fairness the code's scheduling justifies and no more.

- *Reindex* `FairSpec`: weak fairness of a process's steps (a call that has begun
  continues), strong fairness of `Begin*` for every forward operation and retry (the
  operator keeps driving the migration, although crashes and failures disable the
  operation again and again). Rollback and crashes are never fair.
  `EventuallyComplete` therefore excepts migrations that are rolled back and
  programs that take the active model away.
- *Ingestion* `FairSpec`: weak fairness of the tasks (event loop and threads),
  strong fairness of starting ingestion of each source: the application runs it
  again, as docs/guides/custom-content-source.md asks. `Produce`, failures and
  crashes are not fair.
- *RecordIngest* `FairSpec`: weak fairness of each thread and of resuming the call
  whose stages are done. Python's `threading.Lock` and `Condition` promise no
  order among waiters, so weak fairness of a thread alone would let a stream of
  new searches starve one; `MaxSearches` ends that stream, and `CallsReturn` says
  that then everybody comes back.
- *RecordSearch* `FairSpec`: weak fairness of each task: every backend call
  answers or fails and the event loop runs every ready task. That a task which has
  caught an error ends some day is not assumed.
- `FedFairness`: weak fairness of the collector and of each worker. That of
  `BuildResponse` is written `[]<>~AllReceived`, the same thing: `AllReceived` is what
  enables it, and it alone ends it unless the caller leaves. The answer of a
  remote source is not fair, its timeout is (`asyncio.wait_for`). `FanFairness`: the
  same of `gather` and of the timeout and the stop of each task.
- `ReadFairness`, `QueryFairness`: weak fairness of each reader's next step (a
  loader, validator or store answers or raises) and of an invalidation that has
  begun. Changes of the source, expiry and cancellation are not fair.
- `FaissFairness`: weak fairness of each searcher, of the refresh it runs under the
  store's lock, of each drain thread and of the end of a flush. Commits, crashes and
  the choice which searcher gets the lock are not.

The modules of `stores` have safety properties only; what ends there is in the other
runs, or is a single loop over data.

## 5. Proofs

Checked by `tlapm`, for every value of the constants that satisfies the named
assumptions of the modules (disjoint sets, typed parameters, natural bounds):

| Module | Theorem | States |
|---|---|---|
| ReindexProofs | `TypeCorrect`, `ActiveNeverDeleted`, `SoundAlways` | TypeOK; NeverDeleteActive; the inductive invariant |
| | `CorpusKeptAlways`, `CheckpointAlwaysBacked`, `SourceAlwaysRecoverable`, `ActiveAlwaysServesCorpus`, `ServingImplemented` | the inductive invariant of the corpus; CheckpointBacked; SourceRecoverable; ActiveServesCorpus; ImplementsServing (under the hypotheses below) |
| IngestionProofs | `TypeCorrect`, `CheckpointAlwaysCovered`, `SoundAlways`, `ReceiptAlwaysDurable`, `IndexAlwaysCurrent` | TypeOK; CheckpointCovered; the inductive invariant; ReceiptDurable and IndexCurrent (for one task, see below; ReceiptDurable is in no run, since with two tasks it is false) |
| RecordIngestProofs | `StoreTypeCorrect`, `LockExclusive`, `SearchAlwaysFresh`, `KeywordEpochAlwaysCovers`, `SoundAlways` | of LocalStore alone: StoreTypeOK; Exclusive; SearchIsFresh; KeywordEpochCovers; the inductive invariant |
| | `RecordsHandedAlways`, `ImplementsStoreAlways`, `IngestTypeCorrect`, `IngestExclusive`, `IngestSearchFresh`, `IngestEpochCovers` | of ingestion over it: the inductive invariant; ImplementsStore; TypeOK; Exclusive, SearchIsFresh and KeywordEpochCovers of the composition |
| | `CommittedAlwaysIndexed` | CommittedIsIndexed, for records that are cleanly split (see below) |
| RecordSearchProofs | `SearchSound`, `SearchTypeCorrect`, `ResultsStayFresh`, `StrictStaysComplete`, `CandidatesStayAccounted` | the inductive invariant; TypeOK; FreshResults; StrictSearchIsComplete; CandidatesAccounted |
| FaissProofs | `FaissSound`, `FaissAlwaysFresh`, `FaissAlwaysWhole` | the inductive invariant; FaissAnswersFresh; FaissStatesAreWhole |
| RuntimeProofs | `FederationSound`, `AnswersStayOrderFree`, `NoTaskEverOutlivesCall` | the inductive invariant of a federated search; AuthoritativeIsOrderFree; NoTaskOutlivesCall |
| | `ReadSoundAlways`, `StoreAlwaysMovesForward`, `QuerySoundAlways`, `CachedAnswersStayExplained` | the inductive invariant of each cache; StoreMovesForward; CachedAnswersExplained |
| | `FusionShowsEachOnce`, `WireIsFaithful` | MergedOnce; of the HTTP source: WireFaithful |
| StoreProofs | `SearchInvariant`, `SearchIsExplained`, `FiltersAgree` | of local searches: the inductive invariant and SearchExplained; of the filters: FiltersHold |
| | `PgSoundAlways`, `TablesAlwaysExist`, `VectorsAlwaysKeepRecords` | the inductive invariant; RememberedTablesExist; VectorsKeepRecords |
| | `LocksAlwaysHold`, `EpochsAlwaysCover` | what row locks give an upsert; StoreEpochsCover |
| | `EdgesNeverDangle`, `WalksAlwaysAgree` | of the local graph: no edge dangles; WalksAgree |
| | `ExpansionInvariant`, `ExpansionAlwaysHolds` | of the expansion of a search: the inductive invariant; ExpansionHolds |
| BootstrapProofs | `BootstrapSoundAlways`, `BootstrapAlwaysHonest`, `CompletionsAlwaysStay` | the inductive invariant; BootstrapHonest; CompletionsStay |
| | `WorkSoundAlways`, `WorkAlwaysKept` | of embedding work: the inductive invariant; EmbeddingWorkKept |

*Reindex.* `NeverDeleteActive` speaks of one step, so the invariant has to say
what a process about to delete knows. `IInv` adds to the types that a saved
migration has a source other than its target, that a transition holds the lock
from its first step to its last, and that on the way to a deletion the owner check
has seen the target (contract) or the source (rollback) active. Between check and
deletion only foreign programs can change the model, because every compare-and-set
of a migration runs under the lock; and they activate namespaces no migration
touches. This is the assumption `Foreign \cap Namespaces = {}`: without it the
window between check and deletion is real.

*Reindex, the corpus.* These theorems have the hypothesis `Separate`: a migration has
one operator, moves from a namespace that holds the corpus to a new one, and shares
no namespace with another migration. With two operators they are false (hazard at
`runtime/reindex.py:555`); chains, where one migration starts from the target of
another, are left to the run `reindex_pair`. The invariant `JInv` adds to `IInv` that a state of a
migration, durable or drafted by a call, claims no more than there is (`Backed`: its
checkpoint is stored, what it calls validated is whole, a backup it records exists);
that the corpus is in the source or recorded as backed up, and what serves is whole
but for a source a rollback is restoring (`Kept`); and how a draft follows the durable
state (`Follows`: a rollback that has begun is never taken back, a backup is recorded
before the source is deleted). Drafts matter because a call works on what it read and
saves it later, also after a failure. `ServingImplemented` assumes in addition that no
contracted source is being restored: there the code does serve a source before its
backup is whole again (section 6).

*Ingestion.* `CheckpointCovered` alone is not inductive: a cursor is computed long
before it is saved. `IInv` says that every cursor anywhere, in a task, about to be
saved, in a file image read earlier or in a thread left behind, is covered by both
stores; that everything the stream has delivered is written, still to be handed
out, or in hand, unless the checkpoint is blocked; and that only the last part of a
source batch carries its cursor. Steps of other tasks only add to what is written.

`ReceiptDurable` and `IndexCurrent` are proved under `Alone`: one task, which is not
cancelled, over any number of sources, in both modes and through any failures and
crashes. Without it they are false (section 6). Coverage is no help here: what was
written may have been overwritten by something older. `Lone` therefore speaks of the
order of writes. The task's checkpoint is the durable one, and everything it holds or
is about to hand out comes after it; what is in hand comes after what was taken and
before what is left; unless a batch has failed, each store is fresh up to what it has
still to take. So a write, or the part of it that happened before a failure, only
replaces versions by later ones, and a replay after a crash starts at the cursor.

*LocalStore.* The freshness of a search rests on what a snapshot is worth: it is
labelled with a committed epoch and, as long as that is the current one, holds every
stored vector. `IInv` states this of the cached snapshot and of every search that
carries one, and that a search between loading and labelling holds the lock. It
survives commits because each commit that could falsify it moves the vector epoch.
The only exception, a commit of new chunks that removes old ones with their
vectors, takes rows away and so leaves the statement true: a snapshot may hold
vectors that are gone (see the hazard at `indices/local_records.py:165`).

*RecordIngest.* The theorems about the store alone are about `StoreSpec`; they hold of
ingestion, fallbacks, deletion and search together because every step of
`RecordIngest` is a step of the store or leaves it alone (`ImplementsStoreAlways`).
That needs the records of a call to be keys with versions, and a stage that is not
done to have a record left to write: `RInv`. What a call hands to its stages is a
concatenation of bundles, a record with its chunks; that concatenation keeps bundles
is proved by the least counterexample, since the induction theorems of the library
are out of reach.

*RecordIngest, the receipt.* `CommittedAlwaysIndexed` has the hypothesis `CleanlySplit`,
which says where the promise is kept: every version of a record has chunks or none has,
and either no call raises or no record has two chunks at a version. Both halves are
needed. A record that is no longer split keeps its old chunks, since the store only
replaces chunks by chunks; two chunks and a fallback are the finding below. The
instances of `local_ingest` satisfy it. The invariant `CInv` says what a stage has
*landed* when it lists an outcome: the row at the version read, its vector if the
stage is the semantic one, and, for a chunk, that no chunk of the record outside the
call is left (a chunk of the call may still be on its way). That stays true under the
writes of the other stage, which write the same versions in any order. A merged record
is then indexed only if both stages listed *all* of it, although a strict stage stops
early: it stops at a record that failed, the receipt ends there, and the records of
one source are handed over before those of the next. So `Handed` speaks of order, and
`FlattenLays` proves of `FlattenSeq` that it lays the sources one behind the other.
Records promised earlier are safe because a call first takes back the receipts of its
sources, and a write touches only keys of its sources, stale chunks included.

*RecordSearch.* What a search may use is read long before, by itself or by the owner
of a flight it joined, and kept in a cache in between. `IInv` therefore says of every
search, at each of its program points, what it holds (`Fits`): a candidate list read no
earlier than the epoch the search began with, versions no newer than the records have
now, records loaded at no older version than the search knew (`NotOlder`, `BatchSound`),
and every candidate it has taken up found or still in its batch (`Accounted`). It says
the same of what a flight has delivered to a search that has not woken up
(`DeliveredWell`) and of the two caches, whose entries are at least as new as their keys
claim. In strict mode no list that goes round has lost a stage and no search that goes on
has failed at one; a lenient search may take a list with losses from a cache or a
flight, which is why completeness is claimed of strict searches. The source only moves
on, so every clause survives its changes; one lemma says so for all searches that do not
move (`SearchesFollow`), and each action is then about one search.

*FaissStore.* An index is changed in place while others hold states of the same object,
so the invariant is about objects as much as about states. A row *stands* when the store
holds it or lost it silently at its present epoch (`Stands`). A state is *whole* when its
table stood at its epoch (`Vouched`) and, unless a refresh is embedding, the
object holds what the table lists (`Describes`). The cached and the queued state are
whole; a snapshot in the hands of a writer thread is whole as long as no refresh has
begun since it was taken (`mutations`), which is why the bytes written are those
described. Nothing the writer remembers is newer than the cached state of the same
object (`NotNewer`): otherwise a refresh could find its result already queued and leave
an older snapshot of the changed object to be written. What a search that holds a state
will still find (`Findable`) is a vector of its call, or nothing, and nothing only while
the refresh that removed it has still to bring it back, or after one that failed
(`torn`). `Embedding` follows the refresh key by key, from the difference it read to the
index it leaves. The theorems hold for every set `Objects`, the bound on index objects
in use; an infinite one never disables a step.

*ReadCache.* A value in the store may be old; what must not happen is that the store
goes back to an older one, except through a write nobody waits for any more. The
invariant says who owns a flight, from taking it to the end of the write: there is at
most one owner, the reader whose write was orphaned by a second cancellation is the
one exception, a value loaded was current after the call began, and a value about to
be written is no older than what the store holds. That an answer is explained follows
from the ways a reader can have come by it.

*QueryCache.* An embedding is current when a call finds it and may be old when the call
keeps it, so the invariant follows it through the calls: as long as no call has
overlapped an invalidation, no call is open between the halves of one, and whatever a
call is about to insert, complete or save is of the present model, or nothing.

*Federation.* That the answer does not depend on the order of arrival is shown by
counting. A place in the selection, once taken, is in exactly one of three places: with
one worker, in one entry of the queue, or once among the arrived (`InOnePlace`); and its
outcome, wherever it is, is one its own source may have come to (`WithItsSource`). So
when as many outcomes have arrived as sources were selected, the arrivals are an
injection of the places into themselves, and every place has its outcome.

*Federation, what fusion makes of them.* `MergedOnce` speaks of recursive functions, and
the induction theorems of the library are out of reach, so the lemmas argue by the least
counterexample in an interval (`LeastExists`, `IntervalInduction`) and show that a
function defined by recursion over one exists (`RecursionExists`). After each hit is
added, hits that share an identity or a URI have one root (`Grouped`): the first holder
of each is enough (`IdentityHolder`, `UriHolder`), because later ones were joined to it.
Nothing else is joined: a root's group, however it is divided, has a link across
(`Joining`). Sorting is a bijection because the number of predecessors in a strict
order tells the elements of a finite set apart (`BeforeCounts`, `InOrderPlaces`); so
fusion, reranking and the cut only *pick* hits, at different places of one per group.

*HttpSource.* `WireInv` keeps what the exchange has established: a request sent was
built, a response to be parsed was built, by the configured source or another. The rest
compares constructors and parsers field by field, and the fields a parser insists on
with those it reads by default.

*Fanout* needs only that a lenient failure is noted in the step in which its task ends and that
a strict call passes through "stopping".

*GraphStores.* The query's answer is a union of levels, each computed from the one
before (`Levels`); that such levels exist, and that the recursive functions of the
query are they, is shown by the least counterexample in an interval. A row of a level
ends a path that began at the seed and has grown with every level (`LevelShape`), so no
walk is longer than there are nodes (`WalksEnd`), and a walk whose next node is already
on its path passed that node before at no higher cost (`WalkGoesOn`). The local walk
keeps no paths, only the best cost of each node and the frontier. `SeedOk` says what it
knows in the middle of a hop: each node it names is reached by a walk of the query as
short and by one as cheap; whatever the walks of the hops before reach it has at no
higher cost; and a walk of the last level ends in the frontier, at the seed, or was
preceded by a shorter walk over the same records. The last is why dropping the seed and
what a hop did not improve loses nothing (`HopEnds`). It assumes finitely many nodes,
seeds among them and a depth of at least 1: the code raises below.

*GraphExpansion.* What is reported says nothing of the way the mass came, so `PprInv`
follows it: mass of a first hop at a node lies behind an edge of that type selected at
the seed, no further than the walk has hops (`Came`, `CameOn`). The cache is exactly
what was asked for, which bounds the calls. `Departed` says which seeds are through
their first hop; unless a bound cuts, these have reached all their selected targets.
That rests on the budget: over one hop the cache holds departed seeds only, so there is
room for the next one (`SeedSpeaks`); over more hops the budget must cover the graph,
because the walk of an earlier seed can use up what a later one needs. From one seed
over one hop each edge is one flow, and the edge of the best discount has both the
greatest mass and the greatest contribution (`OneHopMasses`, `WinnerShape`). The
assumption is a well-formed call: finite graphs, positive limits, scores and discounts
that are natural numbers; nothing bounds the graph, its cycles or the limits.

*PgStore.* A statement sees what was committed when it began, so the danger is between
the statement that looks for vectors and the commit of their records' deletion. The
invariant types the transactions and says that a deletion which has locked the
vectors of its keys knows every such vector but those committed since; a table name
that is remembered anywhere was created by a transaction that has committed.
That the epochs cover every commit (`EpochsAlwaysCover`) needs the row locks too: an
upsert decides whether it moves the vector epoch by what it found different when it
locked its rows, one statement before it commits. `LInv` says that no row is locked
twice, and that the records of an upsert in between still differ just where it found
them different, because whoever writes a record holds its row or waits for it.

*LocalSearch.* `SearchInv` says of a search at each of its reads what it has in hand. A
hit is `Justified` by a record its key has held during the call. A record that has not
changed since the call began, and is wanted, is *due*: it is among the keys the filter
let through; if it belongs to what has been read so far, it is among the best kept, or
k better hits are. The last is preserved by merging a page and cutting it to k again
(`TopCounts`, `TopKeeps`), by counting: what falls out of the best k has k before it.
Keys are not met twice because a page begins after the last key, or row, of the one
before; a row changes its place only through a deletion, which is what `readded` notes.

*Filters.* There is no induction here, but there are many cases: each backend's
predicate is compared with the reference term by term (`PgAgrees`, `SqliteAgrees`,
`SnapshotAgrees`, `FaissAgrees`), under the negation of the differences named. A filter
pushed down as keys is the filter without its typed terms; that the keys then stand for
them (`PushedAgrees`) needs that a key names one record, and that terms are independent
(`WithoutMetadata`: a filter without a name reads every other name as before).

*Bootstrap.* Updates are load, modify and replace without a lock, so the invariant
quantifies over the images of the checkpoint: the stored one and each that was loaded
by a process which will save what it makes of it. Every image agrees with itself
(counts, generations, what is called complete); a completed stamp is no newer than
the file or than what the worker that holds it has read; if it equals the file's
version, has not been overtaken, and the manifest names the path, then the document
in the index is that version. The jobs of two workers are apart. That readiness
counts documents honestly needs one argument about sizes, an injection of the
documents into the files they come from.

*SemanticWork.* `WInv` says of an execution that a source without the vector of its own
text is still ahead of it: its text is a hit not yet materialised, a miss outside the
current batch, or in what is left of the batch (`ExecutionSound`). Ending with nothing
ahead is then the same as being whole, however batches fell. Nothing ahead is a text
the execution knew to be cached when it planned, which holds because such a text is
good in the file at the path and that file is in order (`SettledSound`). Two steps lose
texts that are whole: a lookup deletes, in a statement of its own, a row it found
invalid and another executor has stored again since, and a recovery unlinks a file that
another has made since. `CachedIsNotEncoded` excepts what was so lost; `OwnWorkStays`
says that it is always somebody else's: a row an executor is about to delete is none it
has cached itself, and one whose file is no longer at the path has nothing there to
lose. Of `embed_and_upsert`, taken, refused and remaining
sources partition what was given and the counts are those of the first two. Proved for
any texts, batch size, executors and files of the cache.

## 6. Findings

Runs that end in a violation of what the repository says of itself:

- `reindex_rollback_finding`: `rollback` saves phase ROLLBACK before it restores the
  backup of a contracted source (`runtime/reindex.py:697`). If the restore raises or
  the process dies, the repeated rollback no longer knows that there is anything to
  restore, activates the empty source and deletes the target.
- `local_ingest_fallback_finding`: when a batch write falls back to one record at a
  time, each chunk deletes the chunks of its parent written before it
  (`indices/local_records.py:139`); the receipt still says committed.
- `record_search_deadlock_finding`: two searches that rank two records in opposite
  orders wait for each other's hydration flights for ever
  (`search/record_hydration.py:118`).
- `faiss_one_drain_finding`: a drain that leaves an empty queue clears the writer's
  flag a second time in its `finally` (`indices/faiss_local.py:651`); a drain started
  in between loses the flag, and the next request starts a second one beside it,
  against the comment at `indices/faiss_local.py:627`.

The passing runs are set up beside these, and say so in what they leave out:
`IndexCurrent` is checked without cancellation, `CommittedIsIndexed` with one chunk per
version, `SearchesEnd` with one ranking, and `ActiveServesCorpus` excepts a source whose
restoration has begun.

## 7. Limits

### Disagreements met while modelling and not run as findings

- `ingestion/records.py:135`: a cancelled ingestion leaves its threads running; one
  that writes after the retry has gone further puts an old version behind the durable
  cursor. `ingestion_concurrent` contains the behaviour; `IndexCurrent` is therefore
  only checked without cancellation.
- `indexing/checkpoints.py:54`: two processes, or two sources, that save into one
  checkpoint file at the same time lose a cursor: `ReceiptDurable` is false with two
  tasks, and is proved for one. `ingestion_resume` has the two writers and shows what
  the loss costs: the records are ingested once more, none is skipped, none is left at
  an older version, and the source reaches its end.
- `runtime/canonical_cache.py:515`: the flights of a search are failed when its task
  ends with an exception. A task that catches the error of a strict search and goes on
  (`runtime/federation.py:385` does) releases nobody: who has joined its flights waits
  until another search delivers them. `record_search` has such a task, and `SearchesEnd`
  excepts exactly the searches it strands.
- `adapters/stores/pgvector.py`: an upsert of records alone does not move the keyword
  epoch; the `incoming` walk deeper than one hop differs from `ports/stores.py:159`.
- `ingestion/embedding.py:47`: "Every provider response is validated before any
  writes occur" holds of each batch: the batches before a failing one are written.
- `indices/local.py`: the snapshot path drops `exclude_storage_keys` when a metadata
  filter is given. `indices/local_records.py:165`: a cascade removes vectors without
  moving the vector epoch, where `docs/faiss-search.md:55-57` promises that
  deletes are not served from an old candidate snapshot. `FaissAnswersFresh` says how
  long they are: until the next write that moves the epoch.
- `indexing/embedding_cache.py`: recovery of a malformed cache file unlinks whatever
  is at the path by then, which may be the healthy file of another instance; a lookup
  deletes the rows it found invalid by their keys (`:105`), also a good one that another
  instance has committed since. Either way a text is encoded again.
- `indexing/bootstrap_checkpoint.py`: the stamp of a file is taken when it is marked,
  not when it was read: a file changed in between counts as indexed. `BootstrapHonest`
  excepts it (`overtaken`), so nothing here speaks against that.
- `search/pipeline_candidate_acquisition.py:535`: a lenient search caches candidates
  it got after a lane failed, and a later search answers from them without the
  diagnostics, where `docs/search-performance-roadmap.md:126-127` says that caches
  must not hide a failure.

### What the models show and their properties except

- Federation: a source that raises `CancelledError` itself ends its worker without an
  outcome, and the call waits for it for ever (`fed.lost`); workers of an abandoned
  stream run until the generator is finalised. A `request_id` of blanks makes
  `_with_provenance` raise; not modelled.
- Fan-out: in lenient mode, a child that raises `CancelledError`, or a cancellation
  from outside, ends the call without waiting for the other tasks.
- ReadCache: a second cancellation of a leader orphans its write, which may then
  overwrite a newer value. QueryCache: a waiter that is cancelled cancels the future
  everybody waits for; the lookup thread of a cancelled leader may still fill the
  memory; an old embedding comes back if a call overlaps the invalidation or the store
  fails.
- HttpSource: the constructor of a hit accepts some values its `from_dict` refuses. A
  response that has lost its hits, or the flag that it is partial, is read as empty, or
  as complete (`ports/federation.py:817`).
- Bootstrap: the `complete` flag and the generation race when one process publishes
  what it loaded before another's change; two paths with one document id are never
  both counted; a stale loaded count makes readiness early; completion of the semantic
  stage is not dropped when a file changes; an encoder change skips the target check.
- Reindex: with two operators of one migration, a late unlocked save undoes what the
  other did (hazard at `runtime/reindex.py:555`). The corpus properties hold for one
  operator per migration, `NeverDeleteActive` for any number.
- FaissStore: at most as many writer threads as `Drains` has elements, and as many
  index objects in use as `Objects` has; the runs never need more than theirs.

### Only model-checked

Every liveness property (TLAPS proves none), the migrations of the runs that are not
`Separate`, and `IndexCurrent` with several tasks.

### Left out

Of the modelled components: the cursor-based record source of `backfill`;
`run_batches`, progress events and an explicit `since` in ingestion; FTS rows, scores
and schema migrations of the local store; scores, chunk aggregation, the batch version
provider and callers on several event loops in the search pipeline; events and the
lifetime of the client in federation; the legacy format, over-fetching and the choice
of a strategy in FAISS; ranking, HNSW settings and the cache store in PostgreSQL; the
walk over directories, batch sizes and the queue of file submission, which belong to
the application; the text given to the encoder.

Not modelled: model adapters, chunking, compression, keyword scoring, ranking other
than graph expansion, and evaluation (text processing and real-valued scores kept
nowhere; where modules need them they are functions or calls that may raise); query
planning, ports, domain values, orchestrators (no state of their own); the database
manager (connections per thread and atomic file replacement are assumed).

## 8. Plan

Done: the modules of section 2, in the order of what is lost when they are wrong:
migration, ingestion, stores and record ingestion, search; then FAISS, caches,
federation, PostgreSQL, bootstrap, embedding work, graphs and filters.

Next, by what it would add:

1. The corpus of chained migrations.
2. The pipeline's diagnostics, so that a lenient search can be held to say what it
   lost also when it answers from the cache.
3. Reindex with the cursor-based record source; fusion, diversity and isotonic
   regression against their definitions.
