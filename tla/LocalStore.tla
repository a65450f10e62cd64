----------------------------- MODULE LocalStore -----------------------------
(***************************************************************************)
(* The local record store: records, chunks and vectors of                  *)
(* LocalRecordBackend (indices/local.py, indices/local_records.py), the    *)
(* reader/writer lock its threads share, the mutation epochs committed     *)
(* with every write, and the vector snapshot an exact search is answered   *)
(* from.                                                                   *)
(*                                                                         *)
(* A record is a key with a version; two versions of a record differ in    *)
(* their indexed text.  0 is an absent row.  local_chunk_state holds the   *)
(* chunk keys whose record exists (its foreign key cascades), so it is no  *)
(* variable of its own.  One encoder namespace; the graph lane, the FTS    *)
(* rows, metadata columns and the block-wise search of a namespace larger  *)
(* than the snapshot limits are left out.                                  *)
(***************************************************************************)
EXTENDS Naturals, FiniteSets

CONSTANTS
  Docs,          \* records that are not chunks
  Chunks,        \* records that carry _searchkernel_chunk
  ParentOf,      \* chunk -> its _chunk_parent_storage_key
  Writers,       \* threads that mutate the store
  Readers,       \* threads that search it
  ParallelReads, \* allow_parallel_reads: a file database, not :memory:
  NoSnapshot,    \* no vector snapshot cached yet
  NoThread,      \* a mutex nobody holds
  MaxVersion     \* bound on the versions of a record

Keys == Docs \cup Chunks
Threads == Writers \cup Readers
Versions == 1..MaxVersion

ASSUME StoreAssumption ==
  /\ Docs \cap Chunks = {}
  /\ ParentOf \in [Chunks -> Docs]
  /\ Writers \cap Readers = {}
  /\ NoThread \notin Threads
  /\ ParallelReads \in BOOLEAN
  /\ MaxVersion \in Nat

VARIABLES
  rec,          \* local_records: key -> version
  vec,          \* local_vectors_v2: key -> version its vector was made from
  epoch,        \* system_state: the durable keyword and vector epochs
  snapshot,     \* the cached VectorSnapshot
  turn,         \* thread -> its standing in the reader/writer lock
  statsLock,    \* holder of _storage_stats_lock
  snapshotLock, \* holder of _snapshot_lock
  search        \* reader -> its search_vector call

tables == <<rec, vec, epoch>>
mutexes == <<statsLock, snapshotLock>>
storeVars == <<tables, snapshot, turn, mutexes, search>>

Stored == Versions \cup {0}
Rows == [Keys -> [record : Stored, vector : Stored]]
Snapshots == [epoch : Nat, rows : Rows]

Turns == {"out", "asleep", "awake", "reading", "writing"}
SearchPCs == {"idle", "stats", "count", "lookup", "load", "label", "keep",
              "served"}

\* began: the vector epoch when the search was called; found: what it will
\* be answered from.
Searches == [pc : SearchPCs, began : Nat, found : Snapshots]

NoRow == [record |-> 0, vector |-> 0]

\* The join of local_records and local_vectors_v2.
VectorRows ==
  [k \in Keys |-> IF vec[k] = 0 THEN NoRow
                  ELSE [record |-> rec[k], vector |-> vec[k]]]

NoSearch == [pc |-> "idle", began |-> 0,
             found |-> [epoch |-> 0, rows |-> [k \in Keys |-> NoRow]]]

StoreInit ==
  /\ rec = [k \in Keys |-> 0]
  /\ vec = [k \in Keys |-> 0]
  /\ epoch = [keyword |-> 0, vector |-> 0]
  /\ snapshot = NoSnapshot
  /\ turn = [th \in Threads |-> "out"]
  /\ statsLock = NoThread
  /\ snapshotLock = NoThread
  /\ search = [r \in Readers |-> NoSearch]

-----------------------------------------------------------------------------
(* _SQLiteReadWriteLock.  A thread that must wait sleeps on the condition  *)
(* until a release notifies it, and then looks again.                      *)

\* With an in-memory database a read takes the write lock.
Exclusively(th) == th \in Writers \/ ~ParallelReads

Holding(th) == turn[th] \in {"reading", "writing"}

Queued(th) == turn[th] \in {"asleep", "awake"}

\* Mutant of Admitted: a reader does not look at the writer.
AdmittedAnyway(th) ==
  IF Exclusively(th)
  THEN \A x \in Threads : ~Holding(x)
  ELSE ~\E x \in Threads : Exclusively(x) /\ Queued(x)

\* Writers are preferred: a reader also waits for the waiting writers.
Admitted(th) ==
  IF Exclusively(th)
  THEN \A x \in Threads : ~Holding(x)
  ELSE ~\E x \in Threads : turn[x] = "writing" \/ (Exclusively(x) /\ Queued(x))

Enter(th) ==
  turn' = [turn EXCEPT ![th] =
             IF ~Admitted(th) THEN "asleep"
             ELSE IF Exclusively(th) THEN "writing" ELSE "reading"]

Ask(th) == turn[th] = "out" /\ Enter(th)

WakeUp(th) ==
  /\ turn[th] = "awake"
  /\ Enter(th)
  /\ UNCHANGED <<tables, snapshot, mutexes, search>>

\* Mutant of Release: only a writer wakes the threads that wait.
ReleaseQuietly(th) ==
  turn' = [x \in Threads |->
             IF x = th THEN "out"
             ELSE IF turn[x] = "asleep" /\ turn[th] = "writing"
                  THEN "awake" ELSE turn[x]]

\* A writer, and the last reader, notify all.
Release(th) ==
  turn' = [x \in Threads |->
             IF x = th THEN "out"
             ELSE IF /\ turn[x] = "asleep"
                     /\ \A y \in Threads \ {th} : turn[y] # "reading"
                  THEN "awake" ELSE turn[x]]

-----------------------------------------------------------------------------
(* Transactions, each under the write lock: records are written with their *)
(* chunks, and the epochs of the lanes they touch in the same commit.  A   *)
(* batch maps keys to the versions written.                                *)

Bump(keyword, vector) ==
  epoch' = [keyword |-> IF keyword THEN epoch.keyword + 1 ELSE epoch.keyword,
            vector |-> IF vector THEN epoch.vector + 1 ELSE epoch.vector]

\* _sync_chunk_state: the chunks of a parent that are not in a batch which
\* carries chunks of that parent.
Stale(batch) ==
  {c \in Chunks \ DOMAIN batch :
     rec[c] # 0 /\ \E b \in Chunks \cap DOMAIN batch : ParentOf[b] = ParentOf[c]}

Written(batch) ==
  [k \in Keys |-> IF k \in DOMAIN batch THEN batch[k]
                  ELSE IF k \in Stale(batch) THEN 0 ELSE rec[k]]

Changes(batch) == Written(batch) # rec

\* KeywordStore.index.  Stale chunks lose their vectors by cascade.
Index(batch) ==
  /\ rec' = Written(batch)
  /\ vec' = [k \in Keys |-> IF k \in Stale(batch) THEN 0 ELSE vec[k]]
  /\ Bump(Changes(batch),
          Changes(batch) /\ \E k \in DOMAIN batch : vec[k] # 0)

Embedded(batch) ==
  [k \in Keys |-> IF k \in DOMAIN batch THEN batch[k]
                  ELSE IF k \in Stale(batch) THEN 0 ELSE vec[k]]

\* Mutant of Upsert: only the vector epoch moves.
UpsertBumpsVectors(batch) ==
  /\ rec' = Written(batch)
  /\ vec' = Embedded(batch)
  /\ Bump(FALSE,
          Changes(batch) \/ \E k \in DOMAIN batch : vec[k] # batch[k])

\* VectorStore.upsert
Upsert(batch) ==
  /\ rec' = Written(batch)
  /\ vec' = Embedded(batch)
  /\ Bump(Changes(batch),
          Changes(batch) \/ \E k \in DOMAIN batch : vec[k] # batch[k])

Delete(K) ==
  /\ rec' = [k \in Keys |-> IF k \in K THEN 0 ELSE rec[k]]
  /\ vec' = [k \in Keys |-> IF k \in K THEN 0 ELSE vec[k]]
  /\ Bump(\E k \in K : rec[k] # 0, \E k \in K : vec[k] # 0)

Commit(w) ==
  /\ turn[w] = "writing"
  /\ Release(w)
  /\ UNCHANGED <<snapshot, mutexes, search>>

-----------------------------------------------------------------------------
(* _VectorEngine.search_vector                                             *)

AtSearch(r, pc) == search[r].pc = pc

Continue(r, pc) == search' = [search EXCEPT ![r].pc = pc]

BeginSearch(r) ==
  /\ AtSearch(r, "idle")
  /\ search' = [search EXCEPT ![r] = [pc |-> "stats", began |-> epoch.vector,
                                      found |-> NoSearch.found]]
  /\ UNCHANGED <<tables, snapshot, turn, mutexes>>

\* vector_storage_stats takes _storage_stats_lock, then the read lock.
AskStats(r) ==
  /\ AtSearch(r, "stats")
  /\ statsLock = NoThread
  /\ statsLock' = r
  /\ Ask(r)
  /\ Continue(r, "count")
  /\ UNCHANGED <<tables, snapshot, snapshotLock>>

CountVectors(r) ==
  /\ AtSearch(r, "count")
  /\ Holding(r)
  /\ Release(r)
  /\ statsLock' = NoThread
  /\ Continue(r, "lookup")
  /\ UNCHANGED <<tables, snapshot, snapshotLock>>

\* _get_vector_snapshot takes _snapshot_lock, then the read lock.
AskSnapshot(r) ==
  /\ AtSearch(r, "lookup")
  /\ snapshotLock = NoThread
  /\ snapshotLock' = r
  /\ Ask(r)
  /\ Continue(r, "load")
  /\ UNCHANGED <<tables, snapshot, statsLock>>

\* Mutant of CachedNow: a cached snapshot is served whatever the epoch.
CachedAtAnyEpoch == snapshot # NoSnapshot

CachedNow == snapshot # NoSnapshot /\ snapshot.epoch = epoch.vector

ServeCached(r) ==
  /\ AtSearch(r, "load")
  /\ Holding(r)
  /\ CachedNow
  /\ Release(r)
  /\ snapshotLock' = NoThread
  /\ search' = [search EXCEPT ![r].pc = "served", ![r].found = snapshot]
  /\ UNCHANGED <<tables, snapshot, statsLock>>

LoadRows(r) ==
  /\ AtSearch(r, "load")
  /\ Holding(r)
  /\ ~CachedNow
  /\ search' = [search EXCEPT ![r].pc = "label", ![r].found.rows = VectorRows]
  /\ UNCHANGED <<tables, snapshot, turn, mutexes>>

LabelRows(r) ==
  /\ AtSearch(r, "label")
  /\ search' = [search EXCEPT ![r].pc = "keep", ![r].found.epoch = epoch.vector]
  /\ Release(r)
  /\ UNCHANGED <<tables, snapshot, mutexes>>

\* The snapshot is built and cached after the read lock is released; its
\* statistics are cached under _storage_stats_lock.
KeepSnapshot(r) ==
  /\ AtSearch(r, "keep")
  /\ statsLock = NoThread
  /\ snapshot' = search[r].found
  /\ snapshotLock' = NoThread
  /\ Continue(r, "served")
  /\ UNCHANGED <<tables, turn, statsLock>>

ReturnHits(r) ==
  /\ AtSearch(r, "served")
  /\ search' = [search EXCEPT ![r] = NoSearch]
  /\ UNCHANGED <<tables, snapshot, turn, mutexes>>

Search(r) ==
  \/ AskStats(r) \/ CountVectors(r) \/ AskSnapshot(r) \/ ServeCached(r)
  \/ LoadRows(r) \/ LabelRows(r) \/ KeepSnapshot(r) \/ ReturnHits(r)

-----------------------------------------------------------------------------
(* The store on its own: any thread may mutate it at any time.             *)

Batches == UNION {[K -> Versions] : K \in SUBSET Keys}

Request(w) == Ask(w) /\ UNCHANGED <<tables, snapshot, mutexes, search>>

Mutate(w) ==
  /\ Commit(w)
  /\ \/ \E batch \in Batches : Index(batch) \/ Upsert(batch)
     \/ \E K \in SUBSET Keys : Delete(K)
     \/ UNCHANGED tables

StoreNext ==
  \/ \E w \in Writers : Request(w) \/ Mutate(w)
  \/ \E r \in Readers : BeginSearch(r) \/ Search(r)
  \/ \E th \in Threads : WakeUp(th)

StoreSpec == StoreInit /\ [][StoreNext]_storeVars

-----------------------------------------------------------------------------
(* Properties of the store                                                 *)

\* Every variable stays in its domain, and a mutex is held exactly by the
\* search that is between taking it and giving it back.
StoreTypeOK ==
  /\ rec \in [Keys -> Stored]
  /\ vec \in [Keys -> Stored]
  /\ epoch \in [keyword : Nat, vector : Nat]
  /\ snapshot \in Snapshots \cup {NoSnapshot}
  /\ turn \in [Threads -> Turns]
  /\ statsLock \in Readers \cup {NoThread}
  /\ snapshotLock \in Readers \cup {NoThread}
  /\ search \in [Readers -> Searches]
  /\ \A r \in Readers :
       /\ (statsLock = r) <=> AtSearch(r, "count")
       /\ (snapshotLock = r) <=> search[r].pc \in {"load", "label", "keep"}

\* The reader/writer lock: a thread that writes is alone in the database,
\* whichever way threads sleep, are notified and look again.
Exclusive ==
  \A x, y \in Threads : turn[x] = "writing" /\ Holding(y) => x = y

\* Every vector that is stored now is in these rows, as it is stored now.
Serves(rows) == \A k \in Keys : vec[k] # 0 => rows[k] = VectorRows[k]

\* A search is answered from rows at least as recent as its call, and if no
\* vector epoch was committed since they were labelled they hold every stored
\* vector: no record is searched by a vector or metadata it no longer has.
SearchIsFresh ==
  \A r \in Readers :
    AtSearch(r, "served") =>
      /\ search[r].began <= search[r].found.epoch
      /\ search[r].found.epoch = epoch.vector => Serves(search[r].found.rows)

\* Results cached under a keyword epoch are those of the records: no commit
\* changes a record without a new keyword epoch.
KeywordEpochCovers == [][rec' # rec => epoch'.keyword # epoch.keyword]_storeVars
=============================================================================
