------------------------- MODULE RecordIngestProofs -------------------------
(***************************************************************************)
(* Proofs about the local store, and about the ingestor, the deletions and *)
(* the searches composed with it.  First: the reader/writer lock is        *)
(* exclusive and an exact vector search is fresh, for any records, chunks, *)
(* readers and writers.  Then: ingestion, deletion and search as           *)
(* RecordIngest composes them take only steps of the store, for any number *)
(* of records, chunks, readers, versions and faults, so that what is       *)
(* proved of the store holds of the composed system.                       *)
(* Last: a receipt keeps its promise; the argument is the order in which a *)
(* batch is laid out and what a stage landed when it lists an outcome.     *)
(***************************************************************************)
EXTENDS RecordIngest, FiniteSetTheorems, SequenceTheorems, WellFoundedInduction,
        TLAPS

USE StoreAssumption

-----------------------------------------------------------------------------
(* The inductive invariant of the store                                    *)

\* What a snapshot is worth: it is labelled with a committed epoch, and as
\* long as that is the current one it holds every stored vector.
Current(shot) ==
  /\ shot.epoch <= epoch.vector
  /\ shot.epoch = epoch.vector => Serves(shot.rows)

SnapshotSound == snapshot # NoSnapshot => Current(snapshot)

\* Between loading and labelling a reader keeps the lock, so that no epoch can
\* be committed in between.
SearchSound(r) ==
  /\ ~AtSearch(r, "idle") => search[r].began <= epoch.vector
  /\ AtSearch(r, "label") => Holding(r) /\ search[r].found.rows = VectorRows
  /\ search[r].pc \in {"keep", "served"} =>
       search[r].began <= search[r].found.epoch /\ Current(search[r].found)

IInv ==
  /\ StoreTypeOK
  /\ Exclusive
  /\ SnapshotSound
  /\ \A r \in Readers : SearchSound(r)

-----------------------------------------------------------------------------
(* The lock                                                                *)

\* What a lock step of th leaves to the others.
OthersHold(th) == \A x \in Threads \ {th} : Holding(x) => turn'[x] = turn[x]

\* Entering never lets a second thread in beside a writer.
LEMMA EnterKeeps ==
  ASSUME StoreTypeOK, Exclusive, NEW th \in Threads, Enter(th), ~Holding(th)
  PROVE  turn' \in [Threads -> Turns] /\ Exclusive' /\ OthersHold(th)
<1>1. turn' \in [Threads -> Turns] /\ OthersHold(th)
  BY DEF StoreTypeOK, Enter, Turns, OthersHold
<1>2. ASSUME NEW x \in Threads, NEW y \in Threads,
             turn'[x] = "writing", turn'[y] \in {"reading", "writing"}, x # y
      PROVE  FALSE
  BY <1>2 DEF StoreTypeOK, Exclusive, Enter, Admitted, Holding, Turns
<1> QED BY <1>1, <1>2 DEF Exclusive, Holding

\* Leaving only wakes threads up.
LEMMA ReleaseKeeps ==
  ASSUME StoreTypeOK, Exclusive, NEW th \in Threads, Release(th)
  PROVE  turn' \in [Threads -> Turns] /\ Exclusive' /\ OthersHold(th)
<1>1. turn' \in [Threads -> Turns] /\ OthersHold(th)
  BY DEF StoreTypeOK, Release, Turns, OthersHold, Holding
<1>2. \A x \in Threads : Holding(x)' => Holding(x) /\ turn'[x] = turn[x]
  BY DEF StoreTypeOK, Release, Turns, Holding
<1> QED BY <1>1, <1>2 DEF Exclusive, Holding

-----------------------------------------------------------------------------
(* Transactions                                                            *)

\* A commit leaves the tables as they are but for what it declares.
TablesTyped ==
  /\ rec' \in [Keys -> Stored]
  /\ vec' \in [Keys -> Stored]
  /\ epoch' \in [keyword : Nat, vector : Nat]
  /\ epoch'.vector \in {epoch.vector, epoch.vector + 1}

\* The rows of every vector that is left are as before the commit.
RowsKept == \A k \in Keys : vec'[k] # 0 => vec'[k] = vec[k] /\ rec'[k] = rec[k]

\* An epoch moves by one or stays.
LEMMA BumpTyped ==
  ASSUME StoreTypeOK, NEW keyword \in BOOLEAN, NEW vector \in BOOLEAN,
         Bump(keyword, vector)
  PROVE  /\ epoch' \in [keyword : Nat, vector : Nat]
         /\ epoch'.vector \in {epoch.vector, epoch.vector + 1}
         /\ epoch'.vector = epoch.vector => ~vector
  BY DEF StoreTypeOK, Bump

\* A batch is a map from some keys to versions.
LEMMA BatchTyped ==
  ASSUME NEW batch \in Batches
  PROVE  DOMAIN batch \subseteq Keys /\ \A k \in DOMAIN batch : batch[k] \in Versions
  BY DEF Batches

\* Records written are versions, and a batch with stale chunks changes records.
LEMMA WrittenTyped ==
  ASSUME StoreTypeOK, NEW batch \in Batches
  PROVE  /\ Written(batch) \in [Keys -> Stored]
         /\ \A k \in Stale(batch) : k \in Keys /\ rec[k] # 0 /\ Written(batch)[k] = 0
         /\ \A k \in Keys \ (DOMAIN batch \cup Stale(batch)) : Written(batch)[k] = rec[k]
         /\ Stale(batch) \cap DOMAIN batch = {}
  BY BatchTyped DEF StoreTypeOK, Written, Stale, Stored, Keys

\* index: the cascade removes vectors, and a record that has one does not
\* change without a new epoch.
LEMMA IndexKeeps ==
  ASSUME StoreTypeOK, NEW batch \in Batches, Index(batch)
  PROVE  TablesTyped /\ (epoch'.vector = epoch.vector => RowsKept)
<1> DEFINE embedded == \E k \in DOMAIN batch : vec[k] # 0
<1>1. TablesTyped /\ (epoch'.vector = epoch.vector => ~(Changes(batch) /\ embedded))
  <2>1. rec' \in [Keys -> Stored] /\ vec' \in [Keys -> Stored]
    BY WrittenTyped DEF Index, StoreTypeOK, Stored
  <2>2. /\ Changes(batch) \in BOOLEAN
        /\ (Changes(batch) /\ embedded) \in BOOLEAN
        /\ Bump(Changes(batch), Changes(batch) /\ embedded)
    BY DEF Index, Changes
  <2> HIDE DEF embedded
  <2> QED BY <2>1, <2>2, BumpTyped DEF TablesTyped
<1>2. ASSUME ~(Changes(batch) /\ embedded), NEW k \in Keys, vec'[k] # 0
      PROVE  vec'[k] = vec[k] /\ rec'[k] = rec[k]
  <2>1. k \notin Stale(batch) /\ vec'[k] = vec[k]
    BY <1>2 DEF Index
  <2>2. CASE k \in DOMAIN batch
    BY <1>2, <2>1, <2>2 DEF Index, Changes
  <2>3. CASE k \notin DOMAIN batch
    BY <2>1, <2>3, WrittenTyped DEF Index
  <2> QED BY <2>1, <2>2, <2>3
<1> QED BY <1>1, <1>2 DEF RowsKept

\* upsert: without a new epoch it writes what is stored already.
LEMMA UpsertKeeps ==
  ASSUME StoreTypeOK, NEW batch \in Batches, Upsert(batch)
  PROVE  TablesTyped /\ (epoch'.vector = epoch.vector => RowsKept)
<1> DEFINE new == \E k \in DOMAIN batch : vec[k] # batch[k]
<1>1. TablesTyped /\ (epoch'.vector = epoch.vector => ~(Changes(batch) \/ new))
  <2>1. rec' \in [Keys -> Stored] /\ vec' \in [Keys -> Stored]
    BY WrittenTyped, BatchTyped DEF Upsert, Embedded, StoreTypeOK, Stored
  <2>2. /\ Changes(batch) \in BOOLEAN
        /\ (Changes(batch) \/ new) \in BOOLEAN
        /\ Bump(Changes(batch), Changes(batch) \/ new)
    BY DEF Upsert, Changes
  <2> HIDE DEF new
  <2> QED BY <2>1, <2>2, BumpTyped DEF TablesTyped
<1>2. ASSUME ~(Changes(batch) \/ new) PROVE RowsKept
  BY <1>2 DEF Upsert, Embedded, Changes, RowsKept
<1> QED BY <1>1, <1>2

\* delete: without a new epoch it removes no vector.
LEMMA DeleteKeeps ==
  ASSUME StoreTypeOK, NEW K \in SUBSET Keys, Delete(K)
  PROVE  TablesTyped /\ (epoch'.vector = epoch.vector => RowsKept)
<1>1. rec' \in [Keys -> Stored] /\ vec' \in [Keys -> Stored]
  BY DEF StoreTypeOK, Delete, Stored
<1>2. /\ epoch' \in [keyword : Nat, vector : Nat]
      /\ epoch'.vector \in {epoch.vector, epoch.vector + 1}
  BY DEF StoreTypeOK, Delete, Bump
<1>3. RowsKept
  BY DEF Delete, RowsKept
<1> QED BY <1>1, <1>2, <1>3 DEF TablesTyped

\* Whatever a writer commits, a snapshot keeps its worth.
LEMMA CurrentStays ==
  ASSUME StoreTypeOK, TablesTyped, epoch'.vector = epoch.vector => RowsKept,
         NEW shot \in Snapshots, Current(shot)
  PROVE  Current(shot)'
  BY DEF StoreTypeOK, TablesTyped, RowsKept, Current, Serves, VectorRows, Snapshots

-----------------------------------------------------------------------------
(* The steps                                                               *)

LEMMA InitSound == StoreInit => IInv
<1> SUFFICES ASSUME StoreInit PROVE IInv
  OBVIOUS
<1>1. NoSearch \in Searches /\ NoSearch.pc = "idle"
  BY DEF NoSearch, Searches, SearchPCs, Snapshots, Rows, NoRow, Stored
<1>2. StoreTypeOK
  BY <1>1 DEF StoreInit, StoreTypeOK, Stored, Turns, Threads, AtSearch
<1>3. Exclusive
  BY DEF StoreInit, Exclusive, Holding
<1>4. SnapshotSound /\ \A r \in Readers : SearchSound(r)
  BY <1>1 DEF StoreInit, SnapshotSound, SearchSound, AtSearch
<1> QED BY <1>2, <1>3, <1>4 DEF IInv

\* A thread takes a turn in the lock and nothing else happens.
LEMMA WaitingSound ==
  ASSUME IInv, NEW th \in Threads, Enter(th), ~Holding(th),
         UNCHANGED <<tables, snapshot, mutexes, search>>
  PROVE  IInv'
<1>1. turn' \in [Threads -> Turns] /\ Exclusive' /\ OthersHold(th)
  BY EnterKeeps DEF IInv
<1>2. StoreTypeOK'
  BY <1>1 DEF IInv, StoreTypeOK, tables, mutexes, AtSearch
<1>3. SnapshotSound'
  BY DEF IInv, SnapshotSound, Current, Serves, VectorRows, tables
<1>4. ASSUME NEW r \in Readers PROVE SearchSound(r)'
  BY <1>1, <1>4 DEF IInv, SearchSound, Current, Serves, VectorRows, tables, AtSearch,
                    OthersHold, Holding, Threads
<1> QED BY <1>1, <1>2, <1>3, <1>4 DEF IInv

\* A commit: no reader is inside, and snapshots keep their worth.
LEMMA MutateSound ==
  ASSUME IInv, NEW w \in Writers, Mutate(w)
  PROVE  IInv'
<1> USE DEF IInv
<1>1. TablesTyped /\ (epoch'.vector = epoch.vector => RowsKept)
  <2>1. CASE UNCHANGED tables
    BY <2>1 DEF TablesTyped, RowsKept, StoreTypeOK, tables
  <2>2. CASE \E batch \in Batches : Index(batch) \/ Upsert(batch)
    BY <2>2, IndexKeeps, UpsertKeeps
  <2>3. CASE \E K \in SUBSET Keys : Delete(K)
    BY <2>3, DeleteKeeps
  <2> QED BY <2>1, <2>2, <2>3 DEF Mutate
<1>2. UNCHANGED <<snapshot, mutexes, search>> /\ Release(w) /\ turn[w] = "writing"
  BY DEF Mutate, Commit
<1>3. w \in Threads /\ \A r \in Readers : r \in Threads /\ r # w
  BY DEF Threads
<1>4. turn' \in [Threads -> Turns] /\ Exclusive'
  BY <1>2, <1>3, ReleaseKeeps
<1>5. StoreTypeOK'
  BY <1>1, <1>2, <1>4 DEF StoreTypeOK, TablesTyped, mutexes, AtSearch
<1>6. ASSUME snapshot # NoSnapshot PROVE Current(snapshot)'
  <2>1. snapshot \in Snapshots /\ snapshot' = snapshot
    BY <1>2, <1>6 DEF StoreTypeOK
  <2> QED BY <1>1, <1>6, <2>1, CurrentStays DEF SnapshotSound, Current, Serves, VectorRows
<1>7. ASSUME NEW r \in Readers PROVE SearchSound(r)'
  <2>1. ~Holding(r)
    BY <1>2, <1>3 DEF Exclusive
  <2>2. ~AtSearch(r, "label") /\ search' = search
    BY <2>1, <1>2 DEF SearchSound
  <2>3. ~AtSearch(r, "idle") => search[r].began <= epoch'.vector
    BY <1>1 DEF SearchSound, TablesTyped, StoreTypeOK, Searches
  <2>4. ASSUME search[r].pc \in {"keep", "served"}
        PROVE  Current(search[r].found)'
    <3>1. search[r].found \in Snapshots /\ search' = search
      BY <2>2 DEF StoreTypeOK, Searches
    <3>2. PICK shot \in Snapshots : search[r].found = shot
      BY <3>1
    <3>3. Current(shot)'
      BY <1>1, <2>4, <3>2, CurrentStays DEF SearchSound
    <3> QED BY <3>1, <3>2, <3>3 DEF Current, Serves, VectorRows
  <2> QED BY <2>2, <2>3, <2>4 DEF SearchSound, AtSearch
<1> QED BY <1>2, <1>4, <1>5, <1>6, <1>7 DEF SnapshotSound

\* A search step: the tables stay, and what it is about to return is current.
LEMMA SearchStepSound ==
  ASSUME IInv, NEW r \in Readers, BeginSearch(r) \/ Search(r)
  PROVE  IInv'
<1> USE DEF IInv, Continue
<1>1. r \in Threads /\ search[r] \in Searches /\ NoSearch \in Searches
  BY DEF Threads, StoreTypeOK, NoSearch, Searches, SearchPCs, Snapshots, Rows, NoRow, Stored
<1>2. UNCHANGED tables
  BY DEF Search, BeginSearch, AskStats, CountVectors, AskSnapshot, ServeCached, LoadRows,
         LabelRows, KeepSnapshot, ReturnHits
<1>3. VectorRows \in Rows
  BY DEF VectorRows, Rows, StoreTypeOK, NoRow, Stored
<1>4. turn' \in [Threads -> Turns] /\ Exclusive' /\ OthersHold(r)
  <2>1. CASE Ask(r)
    BY <2>1, <1>1, EnterKeeps DEF Ask, Holding
  <2>2. CASE Release(r)
    BY <2>2, <1>1, ReleaseKeeps
  <2>3. CASE UNCHANGED turn
    BY <2>3 DEF StoreTypeOK, Exclusive, Holding, OthersHold
  <2> QED
    BY <2>1, <2>2, <2>3 DEF Search, BeginSearch, AskStats, CountVectors, AskSnapshot,
       ServeCached, LoadRows, LabelRows, KeepSnapshot, ReturnHits
<1>5. PICK next \in Searches : search' = [search EXCEPT ![r] = next]
  <2>1. CASE BeginSearch(r)
    BY <2>1, <1>1 DEF BeginSearch, StoreTypeOK, Searches, SearchPCs
  <2>2. CASE AskStats(r) \/ CountVectors(r) \/ AskSnapshot(r) \/ KeepSnapshot(r)
    BY <2>2, <1>1 DEF AskStats, CountVectors, AskSnapshot, KeepSnapshot, StoreTypeOK, Searches,
                      SearchPCs
  <2>3. CASE ServeCached(r)
    BY <2>3, <1>1 DEF ServeCached, CachedNow, StoreTypeOK, Searches, SearchPCs
  <2>4. CASE LoadRows(r)
    BY <2>4, <1>1, <1>3 DEF LoadRows, StoreTypeOK, Searches, SearchPCs, Snapshots
  <2>5. CASE LabelRows(r)
    BY <2>5, <1>1 DEF LabelRows, StoreTypeOK, Searches, SearchPCs, Snapshots
  <2>6. CASE ReturnHits(r)
    BY <2>6, <1>1 DEF ReturnHits
  <2> QED BY <2>1, <2>2, <2>3, <2>4, <2>5, <2>6 DEF Search
<1>6. StoreTypeOK'
  <2>1. /\ rec' \in [Keys -> Stored]
        /\ vec' \in [Keys -> Stored]
        /\ epoch' \in [keyword : Nat, vector : Nat]
        /\ search' \in [Readers -> Searches]
    BY <1>2, <1>5 DEF StoreTypeOK, tables
  <2>2. snapshot' \in Snapshots \cup {NoSnapshot}
    BY <1>1 DEF Search, BeginSearch, AskStats, CountVectors, AskSnapshot, ServeCached, LoadRows,
       LabelRows, KeepSnapshot, ReturnHits, StoreTypeOK, Searches
  <2>3. /\ statsLock' \in Readers \cup {NoThread}
        /\ snapshotLock' \in Readers \cup {NoThread}
    BY DEF Search, BeginSearch, AskStats, CountVectors, AskSnapshot, ServeCached, LoadRows,
       LabelRows, KeepSnapshot, ReturnHits, StoreTypeOK, mutexes
  <2>4. ASSUME NEW x \in Readers
        PROVE  /\ (statsLock' = x) <=> AtSearch(x, "count")'
               /\ (snapshotLock' = x) <=> search'[x].pc \in {"load", "label", "keep"}
    <3> USE <1>1 DEF StoreTypeOK, mutexes, AtSearch, Searches, Threads
    <3>1. x # r => search'[x] = search[x]
      BY <1>5
    <3>2. NoThread # x /\ NoThread # r
      OBVIOUS
    <3>3. CASE BeginSearch(r) \/ ReturnHits(r)
      BY <3>1, <3>3 DEF BeginSearch, ReturnHits, NoSearch
    <3>4. CASE AskStats(r) \/ CountVectors(r)
      BY <3>1, <3>2, <3>4 DEF AskStats, CountVectors
    <3>5. CASE AskSnapshot(r)
      BY <3>1, <3>2, <3>5 DEF AskSnapshot
    <3>6. CASE ServeCached(r)
      BY <3>1, <3>2, <3>6 DEF ServeCached
    <3>7. CASE LoadRows(r)
      BY <3>1, <3>2, <3>7 DEF LoadRows
    <3>8. CASE LabelRows(r)
      BY <3>1, <3>2, <3>8 DEF LabelRows
    <3>9. CASE KeepSnapshot(r)
      BY <3>1, <3>2, <3>9 DEF KeepSnapshot
    <3> QED BY <3>3, <3>4, <3>5, <3>6, <3>7, <3>8, <3>9 DEF Search
  <2> QED BY <1>4, <2>1, <2>2, <2>3, <2>4 DEF StoreTypeOK
<1>7. SnapshotSound'
  <2>1. CASE KeepSnapshot(r)
    <3>1. Current(search[r].found) /\ snapshot' = search[r].found
      BY <2>1 DEF KeepSnapshot, SearchSound, AtSearch
    <3> QED BY <3>1, <1>2 DEF SnapshotSound, Current, Serves, VectorRows, tables
  <2>2. CASE UNCHANGED snapshot
    BY <2>2, <1>2 DEF SnapshotSound, Current, Serves, VectorRows, tables
  <2> QED
    BY <2>1, <2>2 DEF Search, BeginSearch, AskStats, CountVectors, AskSnapshot, ServeCached,
       LoadRows, LabelRows, ReturnHits
<1>8. ASSUME NEW x \in Readers \ {r} PROVE SearchSound(x)'
  <2>1. search'[x] = search[x] /\ x \in Threads \ {r}
    BY <1>5 DEF StoreTypeOK, Threads
  <2> QED BY <2>1, <1>2, <1>4 DEF SearchSound, Current, Serves, VectorRows, tables, AtSearch,
             OthersHold, Holding
<1>9. ASSUME NEW shot \in Snapshots, Current(shot) PROVE Current(shot)'
  BY <1>2, <1>9 DEF Current, Serves, VectorRows, tables
<1>10. SearchSound(r)'
  <2> USE <1>1, <1>2 DEF AtSearch, tables, StoreTypeOK, Searches, Snapshots
  <2>1. CASE BeginSearch(r)
    BY <2>1 DEF BeginSearch, NoSearch, SearchSound
  <2>2. CASE AskStats(r) \/ CountVectors(r) \/ AskSnapshot(r)
    BY <2>2 DEF AskStats, CountVectors, AskSnapshot, SearchSound
  <2>3. CASE ServeCached(r)
    <3>1. /\ snapshot \in Snapshots /\ Current(snapshot)
          /\ search[r].began <= epoch.vector
          /\ snapshot.epoch = epoch.vector
      BY <2>3 DEF ServeCached, CachedNow, SnapshotSound, SearchSound
    <3>2. /\ search'[r].began = search[r].began
          /\ search'[r].pc = "served"
          /\ search'[r].found = snapshot
      BY <2>3 DEF ServeCached
    <3> QED BY <3>1, <3>2, <1>9 DEF SearchSound, Current, Serves, VectorRows
  <2>4. CASE LoadRows(r)
    BY <2>4 DEF LoadRows, Holding, SearchSound, VectorRows
  <2>5. CASE LabelRows(r)
    <3>1. /\ search[r].began <= epoch.vector
          /\ search[r].found.rows = VectorRows
      BY <2>5 DEF LabelRows, SearchSound
    <3>2. /\ search'[r].began = search[r].began
          /\ search'[r].pc = "keep"
          /\ search'[r].found.epoch = epoch.vector
          /\ search'[r].found.rows = search[r].found.rows
      BY <2>5 DEF LabelRows
    <3>3. VectorRows' = VectorRows /\ epoch' = epoch /\ epoch.vector \in Nat
      BY DEF VectorRows
    <3>4. Current(search[r].found)'
      BY <3>1, <3>2, <3>3 DEF Current, Serves
    <3> QED BY <3>1, <3>2, <3>3, <3>4 DEF SearchSound
  <2>6. CASE KeepSnapshot(r)
    <3>1. /\ search[r].began <= epoch.vector
          /\ search[r].began <= search[r].found.epoch
          /\ Current(search[r].found)
      BY <2>6 DEF KeepSnapshot, SearchSound
    <3>2. /\ search'[r].began = search[r].began
          /\ search'[r].pc = "served"
          /\ search'[r].found = search[r].found
      BY <2>6 DEF KeepSnapshot
    <3>3. VectorRows' = VectorRows /\ epoch' = epoch
      BY DEF VectorRows
    <3>4. Current(search[r].found)'
      BY <3>1, <3>2, <3>3 DEF Current, Serves
    <3> QED BY <3>1, <3>2, <3>3, <3>4 DEF SearchSound
  <2>7. CASE ReturnHits(r)
    BY <2>7 DEF ReturnHits, NoSearch, SearchSound
  <2> QED BY <2>1, <2>2, <2>3, <2>4, <2>5, <2>6, <2>7 DEF Search
<1> QED BY <1>4, <1>6, <1>7, <1>8, <1>10

LEMMA StepSound == IInv /\ [StoreNext]_storeVars => IInv'
<1> SUFFICES ASSUME IInv, [StoreNext]_storeVars PROVE IInv'
  OBVIOUS
<1>1. CASE \E w \in Writers : Request(w)
  BY <1>1, WaitingSound DEF Request, Ask, Holding, Threads
<1>2. CASE \E w \in Writers : Mutate(w)
  BY <1>2, MutateSound
<1>3. CASE \E r \in Readers : BeginSearch(r) \/ Search(r)
  BY <1>3, SearchStepSound
<1>4. CASE \E th \in Threads : WakeUp(th)
  BY <1>4, WaitingSound DEF WakeUp, Holding
<1>5. CASE UNCHANGED storeVars
  BY <1>5 DEF IInv, StoreTypeOK, Exclusive, SnapshotSound, SearchSound, Current, Serves,
              VectorRows, AtSearch, Holding, storeVars, tables, mutexes
<1> QED BY <1>1, <1>2, <1>3, <1>4, <1>5 DEF StoreNext

-----------------------------------------------------------------------------
(* The theorems                                                            *)

\* The inductive invariant: a labelled snapshot is worth its epoch, a reader
\* that loads one keeps the lock, and writers are alone.
THEOREM SoundAlways == StoreSpec => []IInv
  BY InitSound, StepSound, PTL DEF StoreSpec

\* The state of the store, its lock and its mutexes is typed.
THEOREM StoreTypeCorrect == StoreSpec => []StoreTypeOK
<1>1. IInv => StoreTypeOK
  BY DEF IInv
<1> QED BY <1>1, SoundAlways, PTL

\* _SQLiteReadWriteLock never lets a writer share the database, for any number
\* of threads, with parallel reads or without.
THEOREM LockExclusive == StoreSpec => []Exclusive
<1>1. IInv => Exclusive
  BY DEF IInv
<1> QED BY <1>1, SoundAlways, PTL

\* search_vector never answers from rows older than its call, nor from a
\* cached snapshot that lacks a vector committed before its epoch.
THEOREM SearchAlwaysFresh == StoreSpec => []SearchIsFresh
<1>1. IInv => SearchIsFresh
  BY DEF IInv, SearchSound, SearchIsFresh, Current, AtSearch
<1> QED BY <1>1, SoundAlways, PTL

\* No commit changes a record without a new keyword epoch.
LEMMA RecordChangesCounted ==
  ASSUME StoreTypeOK, [StoreNext]_storeVars, rec' # rec
  PROVE  epoch'.keyword # epoch.keyword
<1>1. PICK w \in Writers : Mutate(w)
  BY DEF StoreNext, Request, WakeUp, storeVars, tables, Search, BeginSearch, AskStats,
     CountVectors, AskSnapshot, ServeCached, LoadRows, LabelRows, KeepSnapshot, ReturnHits
<1>2. ASSUME NEW keyword \in BOOLEAN, NEW vector \in BOOLEAN, Bump(keyword, vector), keyword
      PROVE  epoch'.keyword # epoch.keyword
  BY <1>2 DEF Bump, StoreTypeOK
<1>3. CASE \E batch \in Batches : Index(batch) \/ Upsert(batch)
  <2>1. PICK batch \in Batches : Index(batch) \/ Upsert(batch)
    BY <1>3
  <2>2. Changes(batch)
    BY <2>1 DEF Index, Upsert, Changes
  <2>3. PICK vector \in BOOLEAN : Bump(Changes(batch), vector)
    BY <2>1 DEF Index, Upsert
  <2> QED BY <1>2, <2>2, <2>3 DEF Changes
<1>4. CASE \E K \in SUBSET Keys : Delete(K)
  <2>1. PICK K \in SUBSET Keys : Delete(K)
    BY <1>4
  <2>2. \E k \in K : rec[k] # 0
    BY <2>1 DEF Delete, StoreTypeOK
  <2> QED BY <1>2, <2>1, <2>2 DEF Delete
<1> QED BY <1>1, <1>3, <1>4 DEF Mutate, tables

\* Results cached under a keyword epoch never outlive the records they hold.
THEOREM KeywordEpochAlwaysCovers == StoreSpec => KeywordEpochCovers
<1>1. IInv /\ [StoreNext]_storeVars
        => [rec' # rec => epoch'.keyword # epoch.keyword]_storeVars
  BY RecordChangesCounted DEF IInv
<1> QED BY <1>1, SoundAlways, PTL DEF StoreSpec, KeywordEpochCovers

-----------------------------------------------------------------------------
(* Joining sequences                                                       *)

\* A set that holds 1, and i whenever it holds i-1, holds 1..n.
LEMMA UpTo ==
  ASSUME NEW n \in Nat, NEW T,
         \A i \in 1..n : (i = 1 \/ i - 1 \in T) => i \in T
  PROVE  1..n \subseteq T
<1> SUFFICES ASSUME 1..n \ T # {} PROVE FALSE
  OBVIOUS
<1>1. IsWellFoundedOn(OpToRel(<, Nat), Nat)
  BY NatLessThanWellFounded
<1>2. 1..n \ T \subseteq Nat
  OBVIOUS
<1>3. \E i \in 1..n \ T : \A j \in 1..n \ T : <<j, i>> \notin OpToRel(<, Nat)
  BY <1>1, <1>2, WFMin
<1>4. ASSUME NEW j \in Nat, NEW i \in Nat, <<j, i>> \notin OpToRel(<, Nat)
      PROVE  ~(j < i)
  BY <1>4, Zenon DEF OpToRel
<1> PICK i \in 1..n \ T : \A j \in 1..n \ T : ~(j < i)
  BY <1>2, <1>3, <1>4
<1>5. i # 1 => i - 1 \in 1..n /\ i - 1 < i
  OBVIOUS
<1> QED
  BY <1>5

Joins(F) == \A q, r \in F : q \o r \in F

\* What FlattenSeq computes, from the left.
IsFlattening(f, s, n) ==
  f = [i \in 1..n |-> IF i = 1 THEN s[i] ELSE f[i - 1] \o s[i]]

\* The function FlattenSeq chooses exists, and its values stay in F.
LEMMA FlatteningExists ==
  ASSUME NEW F, Joins(F), NEW s, NEW n \in Nat \ {0}, \A i \in 1..n : s[i] \in F
  PROVE  \E f : IsFlattening(f, s, n)
<1> DEFINE T == {k \in 1..n : \E f \in [1..k -> F] : IsFlattening(f, s, k)}
<1>1. ASSUME NEW k \in 1..n, k = 1 \/ k - 1 \in T PROVE k \in T
  <2>1. CASE k = 1
    <3> DEFINE f == [i \in 1..1 |-> s[i]]
    <3>1. f \in [1..1 -> F]
      OBVIOUS
    <3>2. IsFlattening(f, s, 1)
      BY DEF IsFlattening
    <3> QED
      BY <2>1, <3>1, <3>2
  <2>2. CASE k # 1
    <3>1. k - 1 \in 1..n /\ k - 1 # 0
      BY <2>2
    <3> PICK g \in [1..(k-1) -> F] : IsFlattening(g, s, k - 1)
      BY <1>1, <2>2
    <3> DEFINE f == [i \in 1..k |-> IF i = k THEN g[k-1] \o s[k] ELSE g[i]]
    <3>2. g[k-1] \o s[k] \in F
      BY <3>1 DEF Joins
    <3>3. f \in [1..k -> F]
      BY <3>2
    <3>4. \A i \in 1..k : f[i] = IF i = 1 THEN s[i] ELSE f[i-1] \o s[i]
      <4> TAKE i \in 1..k
      <4>1. CASE i = k
        <5>1. k \in 1..k
          OBVIOUS
        <5>2. f[k] = g[k-1] \o s[k]
          BY <5>1, Zenon
        <5>3. f[k-1] = g[k-1]
          BY <3>1
        <5> HIDE DEF f
        <5> QED
          BY <2>2, <4>1, <5>2, <5>3
      <4>2. CASE i # k
        <5>1. i \in 1..(k-1) /\ f[i] = g[i] /\ (i # 1 => i-1 \in 1..(k-1) /\ f[i-1] = g[i-1])
          BY <4>2
        <5>2. g[i] = IF i = 1 THEN s[i] ELSE g[i-1] \o s[i]
          BY <5>1 DEF IsFlattening
        <5> HIDE DEF f
        <5> QED
          BY <5>1, <5>2
      <4> QED
        BY <4>1, <4>2
    <3>5. IsFlattening(f, s, k)
      BY <3>3, <3>4 DEF IsFlattening
    <3> QED
      BY <3>3, <3>5
  <2> QED
    BY <2>1, <2>2
<1>2. n \in T
  <2> HIDE DEF T
  <2> QED
    BY <1>1, UpTo
<1> QED
  BY <1>2

\* FlattenSeq computes what it says, when the sequences can be joined.
LEMMA FlattenSteps ==
  ASSUME NEW F, Joins(F), NEW s \in Seq(F), Len(s) > 0
  PROVE  \E f : IsFlattening(f, s, Len(s)) /\ FlattenSeq(s) = f[Len(s)]
<1> DEFINE n == Len(s)
<1> DEFINE flatten == CHOOSE f : IsFlattening(f, s, n)
<1>1. n \in Nat \ {0} /\ \A i \in 1..n : s[i] \in F
  OBVIOUS
<1>2. IsFlattening(flatten, s, n)
  BY <1>1, FlatteningExists
<1>3. FlattenSeq(s) = flatten[n]
  BY <1>1 DEF FlattenSeq, IsFlattening
<1> HIDE DEF flatten
<1> QED
  BY <1>2, <1>3

\* FlattenSeq stays in a set of sequences that is closed under joining.
LEMMA FlattenJoins ==
  ASSUME NEW F, Joins(F), NEW s \in Seq(F), Len(s) > 0
  PROVE  FlattenSeq(s) \in F
<1> PICK n \in Nat \ {0} : n = Len(s)
  OBVIOUS
<1> PICK f : IsFlattening(f, s, n) /\ FlattenSeq(s) = f[n]
  BY FlattenSteps
<1> DEFINE T == {i \in 1..n : f[i] \in F}
<1>1. ASSUME NEW i \in 1..n, i = 1 \/ i - 1 \in T PROVE i \in T
  <2>1. f[i] = IF i = 1 THEN s[i] ELSE f[i-1] \o s[i]
    BY DEF IsFlattening
  <2> QED
    BY <1>1, <2>1 DEF Joins
<1>2. n \in T
  <2> HIDE DEF T
  <2>1. 1..n \subseteq T
    BY <1>1, UpTo
  <2>2. n \in 1..n
    OBVIOUS
  <2> QED
    BY <2>1, <2>2
<1> QED
  BY <1>2

\* What n sequences are flattened to: home says which of them an element is
\* from, and they come one after the other.
Laid(q, s, n, home) ==
  /\ home \in [1..Len(q) -> 1..n]
  /\ \A p \in 1..Len(q) : q[p] \in ToSet(s[home[p]])
  /\ \A i \in 1..n : \A x \in ToSet(s[i]) : \E p \in 1..Len(q) : q[p] = x
  /\ \A p, r \in 1..Len(q) : p < r => home[p] <= home[r]

\* One more sequence is laid behind the others.
LEMMA LaidBehind ==
  ASSUME NEW X, NEW q \in Seq(X), NEW s, NEW k \in Nat, s[k + 1] \in Seq(X),
         NEW home, Laid(q, s, k, home)
  PROVE  \E next : Laid(q \o s[k + 1], s, k + 1, next)
<1> PICK r \in Seq(X) : r = s[k + 1]
  OBVIOUS
<1> PICK m \in Nat : m = Len(q)
  OBVIOUS
<1> PICK l \in Nat : l = Len(r)
  OBVIOUS
<1>1. /\ Len(q \o r) = m + l
      /\ \A i \in 1..(m + l) : (q \o r)[i] = IF i <= m THEN q[i] ELSE r[i - m]
  BY ConcatProperties
<1> PICK both : both = q \o r
  OBVIOUS
<1> DEFINE next == [p \in 1..(m + l) |-> IF p <= m THEN home[p] ELSE k + 1]
<1>2. /\ home \in [1..m -> 1..k]
      /\ \A p \in 1..m : q[p] \in ToSet(s[home[p]])
      /\ \A i \in 1..k : \A x \in ToSet(s[i]) : \E p \in 1..m : q[p] = x
      /\ \A p, i \in 1..m : p < i => home[p] <= home[i]
  BY DEF Laid
<1>3. /\ \A p \in 1..m : p \in 1..(m + l) /\ next[p] = home[p] /\ both[p] = q[p]
      /\ \A p \in 1..l : m + p \in 1..(m + l) /\ next[m + p] = k + 1 /\ both[m + p] = r[p]
      /\ \A p \in 1..(m + l) : p \in 1..m \/ \E i \in 1..l : p = m + i
  <2>1. \A p \in 1..(m + l) : p \in 1..m \/ (p - m \in 1..l /\ p = m + (p - m))
    OBVIOUS
  <2> QED
    BY <1>1, <2>1
<1>4. next \in [1..(m + l) -> 1..(k + 1)]
  BY <1>2
<1> HIDE DEF next
<1>5. ASSUME NEW p \in 1..(m + l) PROVE both[p] \in ToSet(s[next[p]])
  <2>1. CASE p \in 1..m
    BY <1>2, <1>3, <2>1
  <2>2. ASSUME NEW i \in 1..l, p = m + i PROVE both[p] \in ToSet(s[next[p]])
    <3>1. next[p] = k + 1 /\ both[p] = r[i]
      BY <1>3, <2>2
    <3>2. r[i] \in ToSet(r)
      BY DEF ToSet
    <3> QED
      BY <3>1, <3>2
  <2> QED
    BY <1>3, <2>1, <2>2
<1>6. ASSUME NEW i \in 1..(k + 1), NEW x \in ToSet(s[i])
      PROVE  \E p \in 1..(m + l) : both[p] = x
  <2>1. CASE i = k + 1
    <3> PICK j \in 1..l : x = r[j]
      BY <2>1 DEF ToSet
    <3> QED
      BY <1>3
  <2>2. CASE i # k + 1
    <3>1. i \in 1..k
      BY <2>2
    <3> PICK p \in 1..m : q[p] = x
      BY <1>2, <3>1
    <3> QED
      BY <1>3
  <2> QED
    BY <2>1, <2>2
<1>7. ASSUME NEW p \in 1..(m + l), NEW i \in 1..(m + l), p < i
      PROVE  next[p] <= next[i]
  <2>1. CASE i \in 1..m
    <3>1. p \in 1..m
      BY <1>7, <2>1
    <3> QED
      BY <1>2, <1>3, <1>7, <2>1, <3>1
  <2>2. CASE i \notin 1..m
    <3>1. next[i] = k + 1
      <4> PICK j \in 1..l : i = m + j
        BY <1>3, <2>2
      <4> QED
        BY <1>3
    <3>2. next[p] \in 1..(k + 1)
      BY <1>4
    <3> QED
      BY <3>1, <3>2
  <2> QED
    BY <2>1, <2>2
<1>8. Len(both) = m + l
  BY <1>1
<1>9. Laid(both, s, k + 1, next)
  BY <1>4, <1>5, <1>6, <1>7, <1>8 DEF Laid
<1> QED
  BY <1>9

\* FlattenSeq lays sequences one behind the other.
LEMMA FlattenLays ==
  ASSUME NEW X, NEW s \in Seq(Seq(X)), NEW n \in Nat \ {0}, Len(s) = n
  PROVE  FlattenSeq(s) \in Seq(X) /\ \E home : Laid(FlattenSeq(s), s, n, home)
<1>1. Joins(Seq(X))
  BY ConcatProperties DEF Joins
<1>2. \A i \in 1..n : s[i] \in Seq(X)
  OBVIOUS
<1> PICK f : IsFlattening(f, s, n) /\ FlattenSeq(s) = f[n]
  BY <1>1, FlattenSteps
<1> DEFINE T == {i \in 1..n : f[i] \in Seq(X) /\ \E home : Laid(f[i], s, i, home)}
<1>3. ASSUME NEW i \in 1..n, i = 1 \/ i - 1 \in T PROVE i \in T
  <2>1. f[i] = IF i = 1 THEN s[i] ELSE f[i-1] \o s[i]
    BY DEF IsFlattening
  <2>2. CASE i = 1
    <3> DEFINE home == [p \in 1..Len(s[1]) |-> 1]
    <3>1. s[1] \in Seq(X) /\ f[1] = s[1]
      BY <1>2, <2>1, <2>2
    <3>2. Laid(s[1], s, 1, home)
      BY <3>1 DEF Laid, ToSet
    <3> HIDE DEF home
    <3> QED
      BY <2>2, <3>1, <3>2
  <2>3. CASE i # 1
    <3> PICK k \in Nat : i = k + 1
      OBVIOUS
    <3>1. i - 1 = k
      OBVIOUS
    <3>2. k \in T
      BY <1>3, <2>3, <3>1
    <3> PICK home : Laid(f[k], s, k, home)
      BY <3>2
    <3>3. f[k] \in Seq(X) /\ s[k + 1] \in Seq(X) /\ f[k + 1] = f[k] \o s[k + 1]
      BY <1>2, <2>1, <2>3, <3>1, <3>2
    <3>4. \E next : Laid(f[k] \o s[k + 1], s, k + 1, next)
      BY <3>3, LaidBehind, Zenon
    <3>5. f[i] \in Seq(X)
      BY <3>3, ConcatProperties
    <3>6. \E next : Laid(f[i], s, i, next)
      BY <3>3, <3>4
    <3> QED
      BY <3>5, <3>6
  <2> QED
    BY <2>2, <2>3
<1>4. n \in T
  <2> HIDE DEF T
  <2>1. 1..n \subseteq T
    BY <1>3, UpTo
  <2>2. n \in 1..n
    OBVIOUS
  <2> QED
    BY <2>1, <2>2
<1> QED
  BY <1>4

\* The elements of a sequence with one before it.
LEMMA BehindOne ==
  ASSUME NEW X, NEW x \in X, NEW r \in Seq(X)
  PROVE  /\ <<x>> \o r \in Seq(X)
         /\ ToSet(<<x>> \o r) = {x} \cup ToSet(r)
<1>0. <<x>> \in Seq(X)
  OBVIOUS
<1> PICK own \in Seq(X) : own = <<x>>
  BY <1>0
<1> PICK l \in Nat : l = Len(r)
  OBVIOUS
<1>1. Len(own) = 1 /\ own[1] = x
  OBVIOUS
<1> PICK q : q = own \o r
  OBVIOUS
<1>2. /\ q \in Seq(X)
      /\ Len(q) = 1 + l
      /\ \A i \in 1..(1 + l) : q[i] = IF i <= 1 THEN own[i] ELSE r[i - 1]
  BY <1>1, ConcatProperties
<1>3. q[1] = x
  BY <1>1, <1>2
<1>4. \A i \in 1..l : 1 + i \in 1..(1 + l) /\ q[1 + i] = r[i]
  BY <1>2
<1>5. \A i \in 1..(1 + l) : i = 1 \/ (i - 1 \in 1..l /\ i = 1 + (i - 1))
  OBVIOUS
<1>6. ToSet(q) = {q[i] : i \in 1..(1 + l)} /\ ToSet(r) = {r[i] : i \in 1..l}
  <2>1. DOMAIN q = 1..(1 + l) /\ DOMAIN r = 1..l
    BY <1>2
  <2> QED
    BY <2>1, Zenon DEF ToSet
<1>7. 1 \in 1..(1 + l)
  OBVIOUS
<1>8. ToSet(q) \subseteq {x} \cup ToSet(r)
  BY <1>3, <1>4, <1>5, <1>6
<1>9. {x} \cup ToSet(r) \subseteq ToSet(q)
  BY <1>3, <1>4, <1>6, <1>7
<1> QED
  BY <1>2, <1>8, <1>9

-----------------------------------------------------------------------------
(* The records handed to the stages                                        *)

USE StoreAssumption, IngestAssumption

Items == [key : Keys, version : Versions]

\* A bundle is not empty and holds a chunk only with the record it is of.
Bundles ==
  {q \in Seq(Items) :
     /\ Len(q) > 0
     /\ \A i \in 1..Len(q) : \E j \in 1..Len(q) : q[j].key = SourceOf(q[i].key)}

\* The definition of a bundle, with its length given.
LEMMA IsBundle ==
  ASSUME NEW q \in Seq(Items), NEW n \in Nat \ {0}, Len(q) = n,
         \A i \in 1..n : \E j \in 1..n : q[j].key = SourceOf(q[i].key)
  PROVE  q \in Bundles
<1>1. Len(q) > 0
  OBVIOUS
<1>2. \A i \in 1..Len(q) : \E j \in 1..Len(q) : q[j].key = SourceOf(q[i].key)
  BY Zenon
<1> QED
  BY <1>1, <1>2, Zenon DEF Bundles

\* The length and the elements of two sequences of items put together.
LEMMA JoinedItems ==
  ASSUME NEW q \in Seq(Items), NEW r \in Seq(Items), NEW n, Len(q) = n
  PROVE  /\ q \o r \in Seq(Items)
         /\ Len(q \o r) = n + Len(r)
         /\ \A i \in 1..(n + Len(r)) :
              (q \o r)[i] = IF i <= n THEN q[i] ELSE r[i - n]
<1>1. /\ q \o r \in Seq(Items)
      /\ Len(q \o r) = Len(q) + Len(r)
      /\ \A i \in 1..(Len(q) + Len(r)) :
           (q \o r)[i] = IF i <= Len(q) THEN q[i] ELSE r[i - Len(q)]
  BY ONLY ConcatProperties
<1> QED
  BY <1>1, Zenon

\* The bundles of several records together are a bundle.
LEMMA BundlesJoin == Joins(Bundles)
<1> SUFFICES ASSUME NEW q \in Bundles, NEW r \in Bundles PROVE q \o r \in Bundles
  BY DEF Joins
<1>1. q \in Seq(Items) /\ r \in Seq(Items) /\ Len(q) \in Nat \ {0} /\ Len(r) \in Nat \ {0}
  BY DEF Bundles
<1>2. /\ q \o r \in Seq(Items)
      /\ Len(q \o r) = Len(q) + Len(r)
      /\ \A i \in 1..(Len(q) + Len(r)) :
           (q \o r)[i] = IF i <= Len(q) THEN q[i] ELSE r[i - Len(q)]
  BY <1>1, JoinedItems
<1>3. ASSUME NEW i \in 1..(Len(q) + Len(r))
      PROVE  \E j \in 1..(Len(q) + Len(r)) : (q \o r)[j].key = SourceOf((q \o r)[i].key)
  <2>1. CASE i <= Len(q)
    <3>1. i \in 1..Len(q) /\ (q \o r)[i] = q[i]
      BY <1>1, <1>2, <2>1
    <3>2. PICK j \in 1..Len(q) : q[j].key = SourceOf(q[i].key)
      BY <3>1 DEF Bundles
    <3>3. j \in 1..(Len(q) + Len(r)) /\ (q \o r)[j] = q[j]
      BY <1>1, <1>2
    <3> QED
      BY <3>1, <3>2, <3>3
  <2>2. CASE ~(i <= Len(q))
    <3>1. i - Len(q) \in 1..Len(r) /\ (q \o r)[i] = r[i - Len(q)]
      BY <1>1, <1>2, <2>2
    <3>2. PICK j \in 1..Len(r) : r[j].key = SourceOf(r[i - Len(q)].key)
      BY <3>1 DEF Bundles
    <3>3. /\ j + Len(q) \in 1..(Len(q) + Len(r))
          /\ (q \o r)[j + Len(q)] = r[j]
      BY <1>1, <1>2
    <3> QED
      BY <3>1, <3>2, <3>3
  <2> QED
    BY <2>1, <2>2
<1>4. Len(q) + Len(r) \in Nat \ {0}
  BY <1>1
<1> QED
  BY <1>2, <1>3, <1>4, IsBundle

\* A record with items of its own makes a bundle.
LEMMA RecordWithParts ==
  ASSUME NEW d, SourceOf(d) = d,
         NEW own \in Seq(Items), Len(own) = 1, own[1].key = d,
         NEW rest \in Seq(Items),
         \A i \in 1..Len(rest) : SourceOf(rest[i].key) = d
  PROVE  own \o rest \in Bundles
<1>1. /\ own \o rest \in Seq(Items)
      /\ Len(own \o rest) = 1 + Len(rest)
      /\ \A i \in 1..(1 + Len(rest)) :
           (own \o rest)[i] = IF i <= 1 THEN own[i] ELSE rest[i - 1]
  <2> PICK n : n = 1
    OBVIOUS
  <2>1. Len(own) = n
    OBVIOUS
  <2>2. /\ own \o rest \in Seq(Items)
        /\ Len(own \o rest) = n + Len(rest)
        /\ \A i \in 1..(n + Len(rest)) :
             (own \o rest)[i] = IF i <= n THEN own[i] ELSE rest[i - n]
    BY ONLY own \in Seq(Items), rest \in Seq(Items), <2>1, JoinedItems
  <2> QED
    BY <2>2
<1>2. Len(rest) \in Nat
  OBVIOUS
<1>3. (own \o rest)[1].key = d
  BY <1>1, <1>2
<1>4. ASSUME NEW i \in 1..(1 + Len(rest))
      PROVE  SourceOf((own \o rest)[i].key) = d
  <2>1. CASE i = 1
    BY <1>3, <2>1
  <2>2. CASE i # 1
    <3>1. i - 1 \in 1..Len(rest) /\ (own \o rest)[i] = rest[i - 1]
      BY <1>1, <1>2, <2>2
    <3> QED
      BY <3>1
  <2> QED
    BY <2>1, <2>2
<1>5. 1 + Len(rest) \in Nat \ {0} /\ 1 \in 1..(1 + Len(rest))
  BY <1>2
<1> QED
  BY <1>1, <1>3, <1>4, <1>5, IsBundle

\* A function on 1..n is a sequence of length n.
LEMMA FunctionIsSeq ==
  ASSUME NEW X, NEW n \in Nat, NEW f \in [1..n -> X]
  PROVE  f \in Seq(X) /\ Len(f) = n
  OBVIOUS

\* A record with its chunks, all at the version read, is a bundle.
LEMMA ExpandBundles ==
  ASSUME NEW d \in Docs, NEW v \in Versions, v = current[d]
  PROVE  Expand(d) \in Bundles
<1>1. PICK parts \in Seq(Chunks) : parts = ChunksAt[d][v]
  OBVIOUS
<1>2. \A i \in 1..Len(parts) : parts[i] \in Chunks /\ ParentOf[parts[i]] = d
  <2>1. ToSet(parts) \subseteq {c \in Chunks : ParentOf[c] = d}
    BY <1>1
  <2>2. \A i \in 1..Len(parts) : parts[i] \in ToSet(parts)
    BY DEF ToSet
  <2> QED
    BY <2>1, <2>2
<1> DEFINE own == <<[key |-> d, version |-> v]>>
           rest == [i \in DOMAIN parts |-> [key |-> parts[i], version |-> v]]
<1>3. own \in Seq(Items) /\ Len(own) = 1 /\ own[1].key = d
  BY DEF Items, Keys
<1>4. rest \in [1..Len(parts) -> Items]
  <2>1. \A i \in 1..Len(parts) : [key |-> parts[i], version |-> v] \in Items
    BY <1>2 DEF Items, Keys
  <2> QED
    BY <2>1
<1>5. \A i \in 1..Len(parts) : rest[i].key = parts[i]
  OBVIOUS
<1> HIDE DEF own, rest
<1>6. rest \in Seq(Items) /\ Len(rest) = Len(parts)
  <2>1. Len(parts) \in Nat
    OBVIOUS
  <2> QED
    BY <1>4, <2>1, FunctionIsSeq
<1>7. \A i \in 1..Len(rest) : SourceOf(rest[i].key) = d
  BY <1>2, <1>5, <1>6 DEF SourceOf
<1>8. SourceOf(d) = d
  BY DEF SourceOf
<1>9. own \o rest \in Bundles
  BY <1>3, <1>6, <1>7, <1>8, RecordWithParts
<1> QED
  BY <1>1, <1>9 DEF Expand, own, rest

\* What the stages write is a batch of the store.
LEMMA BatchOfItems ==
  ASSUME NEW q \in Seq(Items)
  PROVE  Batch(q) \in Batches
<1> DEFINE K == {e.key : e \in ToSet(q)}
<1>1. ToSet(q) \subseteq Items
  BY DEF ToSet
<1>2. K \in SUBSET Keys
  BY <1>1 DEF Items
<1>3. ASSUME NEW k \in K PROVE (CHOOSE e \in ToSet(q) : e.key = k).version \in Versions
  <2>1. PICK e \in ToSet(q) : e.key = k
    OBVIOUS
  <2>2. (CHOOSE x \in ToSet(q) : x.key = k) \in ToSet(q)
    BY <2>1
  <2> QED
    BY <1>1, <2>2 DEF Items
<1>4. Batch(q) \in [K -> Versions]
  BY <1>3 DEF Batch
<1> QED
  BY <1>2, <1>4 DEF Batches

-----------------------------------------------------------------------------
(* The inductive invariant                                                 *)

StagePCs == {"encode", "batch", "each", "encode each", "done"}

\* A stage that is not done has a record left to list an outcome for, so that
\* NextRecord is one of the call's.
Busy == call # NoCall \/ \E s \in Stages : ~InStage(s, "done")

RInv ==
  /\ current \in [Docs -> Stored]
  /\ doomed \subseteq Keys
  /\ receipt \in [Docs -> Stored]
  /\ faults \in 0..MaxFaults
  /\ searches \in 0..MaxSearches
  /\ stage \in [Stages -> [pc : StagePCs, outcomes : Seq(BOOLEAN)]]
  /\ Busy => call.records \in Bundles
  /\ Busy => \A s \in Stages : Len(stage[s].outcomes) <= Len(call.records)
  /\ \A s \in Stages :
       ~InStage(s, "done") => Len(stage[s].outcomes) < Len(call.records)

\* No call is under way at first.
LEMMA InitHolds == Init => RInv
<1> SUFFICES ASSUME Init PROVE RInv
  OBVIOUS
<1>1. /\ current \in [Docs -> Stored]
      /\ doomed \subseteq Keys
      /\ receipt \in [Docs -> Stored]
      /\ faults \in 0..MaxFaults
      /\ searches \in 0..MaxSearches
  BY DEF Init, Stored, Versions
<1>2. \A s \in Stages : InStage(s, "done")
  BY DEF Init, InStage, Waiting
<1>3. ~Busy
  BY <1>2 DEF Busy, Init
<1>4. stage \in [Stages -> [pc : StagePCs, outcomes : Seq(BOOLEAN)]]
  <2>1. Waiting \in [pc : StagePCs, outcomes : Seq(BOOLEAN)]
    BY DEF Waiting, StagePCs
  <2> QED
    BY <2>1 DEF Init
<1> QED
  BY <1>1, <1>2, <1>3, <1>4 DEF RInv

\* The order of the sources makes a call's records a bundle.
LEMMA CallBundles ==
  ASSUME NEW D \in SUBSET Pending, D # {}, RInv, NEW order \in SetToSeqs(D)
  PROVE  FlattenSeq([i \in DOMAIN order |-> Expand(order[i])]) \in Bundles
<1>1. D \subseteq Docs /\ \A d \in D : current[d] \in Versions
  BY DEF Pending, RInv, Stored
<1>2. \A d \in D : Expand(d) \in Bundles
  BY <1>1, ExpandBundles
<1>3. PICK n \in Nat : n = Cardinality(D) /\ n # 0
  BY <1>1, FS_Subset, FS_CardinalityType, FS_EmptySet
<1>4. order \in [1..n -> D]
  BY <1>3 DEF SetToSeqs
<1>5. PICK parts : parts = [i \in DOMAIN order |-> Expand(order[i])]
  OBVIOUS
<1>6. parts \in [1..n -> Bundles]
  BY <1>2, <1>4, <1>5
<1>7. parts \in Seq(Bundles) /\ Len(parts) = n
  BY <1>3, <1>6, FunctionIsSeq
<1>8. FlattenSeq(parts) \in Bundles
  BY <1>3, <1>7, BundlesJoin, FlattenJoins
<1> QED
  BY <1>5, <1>8

-----------------------------------------------------------------------------
(* The steps of the stages                                                 *)

\* What is kept while a stage moves and the call stands.
Kept ==
  /\ UNCHANGED <<current, call, doomed, receipt, searches>>
  /\ faults' \in 0..MaxFaults

\* A stage may list outcomes up to the records, and is done when it has all.
LEMMA MoveHolds ==
  ASSUME RInv, Kept, NEW s \in Stages, ~InStage(s, "done"),
         NEW pc \in StagePCs, NEW outcomes \in Seq(BOOLEAN),
         stage' = [stage EXCEPT ![s] = [pc |-> pc, outcomes |-> outcomes]],
         Len(outcomes) <= Len(call.records),
         pc # "done" => Len(outcomes) < Len(call.records)
  PROVE  RInv'
<1>1. /\ stage' \in [Stages -> [pc : StagePCs, outcomes : Seq(BOOLEAN)]]
      /\ stage'[s] = [pc |-> pc, outcomes |-> outcomes]
      /\ \A x \in Stages \ {s} : stage'[x] = stage[x]
  BY DEF RInv
<1>2. Busy
  BY DEF Busy
<1>3. \A x \in Stages : Len(stage'[x].outcomes) <= Len(call.records)
  BY <1>1, <1>2 DEF RInv
<1>4. \A x \in Stages :
        stage'[x].pc # "done" => Len(stage'[x].outcomes) < Len(call.records)
  BY <1>1 DEF RInv, InStage
<1> QED
  BY <1>1, <1>2, <1>3, <1>4 DEF RInv, Kept, InStage

\* A stage that has listed nothing is typed.
LEMMA StartsTyped ==
  ASSUME NEW pc \in StagePCs
  PROVE  [pc |-> pc, outcomes |-> <<>>] \in [pc : StagePCs, outcomes : Seq(BOOLEAN)]
  OBVIOUS

\* What a stage that goes on has listed stays.
LEMMA WithPC ==
  ASSUME NEW now \in [pc : StagePCs, outcomes : Seq(BOOLEAN)], NEW pc
  PROVE  [now EXCEPT !.pc = pc] = [pc |-> pc, outcomes |-> now.outcomes]
  OBVIOUS

\* Going on to another way of writing lists no outcome.
LEMMA GoHolds ==
  ASSUME RInv, Kept, NEW s \in Stages, ~InStage(s, "done"),
         NEW pc \in StagePCs \ {"done"}, Go(s, pc)
  PROVE  RInv'
<1>1. PICK outcomes \in Seq(BOOLEAN) : outcomes = stage[s].outcomes
  BY DEF RInv
<1>2. stage' = [stage EXCEPT ![s] = [pc |-> pc, outcomes |-> outcomes]]
  <2>1. PICK now \in [pc : StagePCs, outcomes : Seq(BOOLEAN)] : now = stage[s]
    BY DEF RInv
  <2>2. [now EXCEPT !.pc = pc] = [pc |-> pc, outcomes |-> outcomes]
    BY <1>1, <2>1, WithPC
  <2> QED
    BY <2>1, <2>2 DEF Go
<1>3. PICK n \in Nat : n = Len(call.records) /\ Len(outcomes) < n
  BY <1>1 DEF RInv, Busy, Bundles
<1>4. Len(outcomes) <= n
  BY <1>3
<1> QED
  BY <1>2, <1>3, <1>4, MoveHolds

\* A batch that is written lists an outcome for every record.
LEMMA CommittedHolds ==
  ASSUME RInv, Kept, NEW s \in Stages, ~InStage(s, "done"), Committed(s)
  PROVE  RInv'
<1>1. PICK outcomes : outcomes = [i \in DOMAIN call.records |-> TRUE]
  OBVIOUS
<1>2. PICK n \in Nat : n = Len(call.records) /\ DOMAIN call.records = 1..n
  BY DEF RInv, Busy, Bundles
<1>3. outcomes \in Seq(BOOLEAN) /\ Len(outcomes) = n
  BY <1>1, <1>2, FunctionIsSeq
<1>4. PICK pc \in StagePCs : pc = "done"
  BY DEF StagePCs
<1>5. stage' = [stage EXCEPT ![s] = [pc |-> pc, outcomes |-> outcomes]]
  BY <1>1, <1>4 DEF Committed
<1>6. Len(outcomes) <= Len(call.records)
  BY <1>2, <1>3
<1> QED
  BY <1>3, <1>4, <1>5, <1>6, MoveHolds

\* One outcome is listed, and a stage goes on only if a record is left.
LEMMA ReportHolds ==
  ASSUME RInv, Kept, NEW s \in Stages, ~InStage(s, "done"),
         NEW ok \in BOOLEAN, Report(s, ok)
  PROVE  RInv'
<1>1. PICK before \in Seq(BOOLEAN) : before = stage[s].outcomes
  BY DEF RInv
<1>2. PICK outcomes \in Seq(BOOLEAN) :
        outcomes = Append(before, ok) /\ Len(outcomes) = Len(before) + 1
  BY AppendProperties
<1>3. PICK n \in Nat : n = Len(call.records) /\ Len(before) < n
  BY <1>1 DEF RInv, Busy, Bundles
<1>4. PICK pc \in StagePCs :
        /\ pc # "done" => Len(outcomes) # n
        /\ stage' = [stage EXCEPT ![s] = [pc |-> pc, outcomes |-> outcomes]]
  <2> DEFINE over == \/ Len(outcomes) = n
                     \/ ~ok /\ call.mode = "strict"
  <2>1. stage' = [stage EXCEPT ![s] = [pc |-> IF over THEN "done" ELSE stage[s].pc,
                                       outcomes |-> outcomes]]
    BY <1>1, <1>2, <1>3 DEF Report, RInv
  <2>2. (IF over THEN "done" ELSE stage[s].pc) \in StagePCs
    BY DEF RInv, StagePCs
  <2>3. (IF over THEN "done" ELSE stage[s].pc) # "done" => Len(outcomes) # n
    OBVIOUS
  <2> HIDE DEF over
  <2> QED
    BY <2>1, <2>2, <2>3
<1>5. Len(outcomes) <= n /\ (pc # "done" => Len(outcomes) < n)
  <2>1. Len(outcomes) \in Nat /\ Len(before) \in Nat
    OBVIOUS
  <2> QED
    BY <1>2, <1>3, <1>4, <2>1
<1> QED
  BY <1>3, <1>4, <1>5, MoveHolds

-----------------------------------------------------------------------------
(* Every step keeps the invariant                                          *)

\* Steps that move neither the call nor a stage need only be typed.
LEMMA StandsHolds ==
  ASSUME RInv, UNCHANGED <<call, stage>>,
         current' \in [Docs -> Stored], doomed' \subseteq Keys,
         receipt' \in [Docs -> Stored], faults' \in 0..MaxFaults,
         searches' \in 0..MaxSearches
  PROVE  RInv'
  BY DEF RInv, Busy, InStage

\* Steps of the store alone leave the ingestor where it is.
LEMMA UnchangedHolds ==
  ASSUME RInv, UNCHANGED ingestVars
  PROVE  RInv'
<1>1. UNCHANGED <<current, call, stage, doomed, receipt, faults, searches>>
  BY DEF ingestVars
<1> QED
  BY <1>1, StandsHolds DEF RInv

\* A new call hands the bundles of its sources to both stages.
LEMMA IndexRecordsHolds == ASSUME RInv, IndexRecords PROVE RInv'
<1>0. PICK D \in (SUBSET Pending) \ {{}}, mode \in Modes : \E order \in SetToSeqs(D) :
        /\ call' = [sources |-> order, mode |-> mode,
                    records |-> FlattenSeq([i \in DOMAIN order |-> Expand(order[i])])]
        /\ receipt' = [d \in Docs |-> IF d \in D THEN 0 ELSE receipt[d]]
  BY Zenon DEF IndexRecords
<1>1. PICK order \in SetToSeqs(D) :
        /\ call' = [sources |-> order, mode |-> mode,
                    records |-> FlattenSeq([i \in DOMAIN order |-> Expand(order[i])])]
        /\ receipt' = [d \in Docs |-> IF d \in D THEN 0 ELSE receipt[d]]
  BY <1>0
<1>2. call'.records \in Bundles
  <2>1. PICK q : q = FlattenSeq([i \in DOMAIN order |-> Expand(order[i])])
    OBVIOUS
  <2>2. D # {} /\ D \in SUBSET Pending
    OBVIOUS
  <2>3. FlattenSeq([i \in DOMAIN order |-> Expand(order[i])]) \in Bundles
    BY <2>2, CallBundles
  <2> QED
    BY <1>1, <2>1, <2>3
<1>3. /\ UNCHANGED <<current, doomed, faults, searches>>
      /\ stage' = [keyword |-> [pc |-> "batch", outcomes |-> <<>>],
                   semantic |-> [pc |-> "encode", outcomes |-> <<>>]]
  BY DEF IndexRecords
<1>4. receipt' \in [Docs -> Stored]
  BY <1>1 DEF RInv, Stored
<1>5. /\ stage' \in [Stages -> [pc : StagePCs, outcomes : Seq(BOOLEAN)]]
      /\ \A s \in Stages : stage'[s].outcomes = <<>>
  <2>1. PICK w \in [pc : StagePCs, outcomes : Seq(BOOLEAN)] :
          w = [pc |-> "batch", outcomes |-> <<>>]
    <3>1. "batch" \in StagePCs
      BY DEF StagePCs
    <3> QED
      BY <3>1, StartsTyped, Zenon
  <2>2. PICK e \in [pc : StagePCs, outcomes : Seq(BOOLEAN)] :
          e = [pc |-> "encode", outcomes |-> <<>>]
    <3>1. "encode" \in StagePCs
      BY DEF StagePCs
    <3> QED
      BY <3>1, StartsTyped, Zenon
  <2>3. stage' = [keyword |-> w, semantic |-> e]
    BY <1>3, <2>1, <2>2
  <2>4. w.outcomes = <<>> /\ e.outcomes = <<>>
    BY <2>1, <2>2
  <2> QED
    BY <2>3, <2>4 DEF Stages
<1>6. PICK n \in Nat \ {0} : n = Len(call'.records)
  BY <1>2 DEF Bundles
<1>7. \A s \in Stages : Len(stage'[s].outcomes) = 0
  BY <1>5
<1> QED
  BY <1>2, <1>3, <1>4, <1>5, <1>6, <1>7 DEF RInv

\* A record reported committed was read at one of the versions.
LEMMA ReturnHolds == ASSUME RInv, Return PROVE RInv'
<1>1. /\ call # NoCall
      /\ receipt' = [d \in Docs |-> IF d \in Merged THEN VersionRead(d) ELSE receipt[d]]
      /\ call' = NoCall
      /\ stage' = [s \in Stages |-> Waiting]
      /\ UNCHANGED <<current, doomed, faults, searches>>
  BY DEF Return
<1>2. PICK q \in Bundles : q = call.records
  BY <1>1 DEF RInv, Busy
<1>3. \A s \in Stages : Len(stage[s].outcomes) <= Len(q)
  BY <1>1, <1>2 DEF RInv, Busy
<1>4. ASSUME NEW d \in Docs, d \in Merged PROVE VersionRead(d) \in Versions
  <2>1. PICK j \in DOMAIN call.sources :
          call.sources[j] = d /\ \A s \in Stages : Collapsed(s, call.sources[j])
    BY <1>4 DEF Merged
  <2>2. Collapsed("keyword", d)
    BY <2>1 DEF Stages
  <2>3. PICK i \in DOMAIN stage["keyword"].outcomes : SourceOf(q[i].key) = d
    BY <1>2, <2>2 DEF Collapsed
  <2>4. i \in 1..Len(q)
    <3>1. PICK outcomes \in Seq(BOOLEAN) : outcomes = stage["keyword"].outcomes
      BY DEF RInv, Stages
    <3>2. Len(outcomes) <= Len(q)
      BY <1>3, <3>1 DEF Stages
    <3>3. i \in 1..Len(outcomes) /\ Len(q) \in Nat
      BY <2>3, <3>1 DEF Bundles
    <3> QED
      BY <3>2, <3>3
  <2>5. PICK k \in 1..Len(q) : q[k].key = d
    BY <2>3, <2>4 DEF Bundles
  <2>6. q[k] \in ToSet(q) /\ ToSet(q) \subseteq Items
    BY DEF ToSet, Bundles
  <2>7. (CHOOSE e \in ToSet(q) : e.key = d) \in ToSet(q)
    BY <2>5, <2>6
  <2> QED
    BY <1>2, <2>6, <2>7 DEF VersionRead, Items
<1>5. receipt' \in [Docs -> Stored]
  BY <1>1, <1>4 DEF RInv, Stored
<1>6. stage' \in [Stages -> [pc : StagePCs, outcomes : Seq(BOOLEAN)]]
  <2>1. Waiting \in [pc : StagePCs, outcomes : Seq(BOOLEAN)]
    BY DEF Waiting, StagePCs
  <2> QED
    BY <1>1, <2>1
<1>7. \A s \in Stages : stage'[s].pc = "done"
  BY <1>1 DEF Waiting
<1> QED
  BY <1>1, <1>5, <1>6, <1>7 DEF RInv, Busy, InStage

\* Calls that raise are counted up to their bound.
LEMMA FaultCounted == ASSUME RInv, Fault \/ UNCHANGED faults PROVE faults' \in 0..MaxFaults
  BY DEF RInv, Fault

\* The keyword and the semantic thread.
LEMMA StageStepHolds ==
  ASSUME RInv, NEW s \in Stages, StageStep(s)
  PROVE  RInv'
<1>1. CASE AskToWrite(s) \/ Store(WakeUp(s))
  BY <1>1, UnchangedHolds DEF AskToWrite, Store
<1>2. CASE WriteBatch(s)
  <2>1. Kept /\ ~InStage(s, "done") /\ (Committed(s) \/ Go(s, "each"))
    BY <1>2, FaultCounted DEF WriteBatch, Kept, InStage
  <2>2. "each" \in StagePCs \ {"done"}
    BY DEF StagePCs
  <2> QED
    BY <2>1, <2>2, CommittedHolds, GoHolds
<1>3. CASE WriteOne(s)
  <2>1. Kept /\ ~InStage(s, "done") /\ (Report(s, TRUE) \/ Report(s, FALSE))
    BY <1>3, FaultCounted DEF WriteOne, Kept, InStage
  <2> QED
    BY <2>1, ReportHolds
<1>4. CASE s = "semantic" /\ EncodeBatch
  <2>1. Kept /\ ~InStage(s, "done") /\ (Go(s, "batch") \/ Go(s, "encode each"))
    BY <1>4, FaultCounted DEF EncodeBatch, Kept, InStage
  <2>2. {"batch", "encode each"} \subseteq StagePCs \ {"done"}
    BY DEF StagePCs
  <2> QED
    BY <2>1, <2>2, GoHolds
<1>5. CASE s = "semantic" /\ EncodeFails
  <2>1. Kept /\ ~InStage(s, "done") /\ Report(s, FALSE)
    BY <1>5, FaultCounted DEF EncodeFails, Kept, InStage
  <2> QED
    BY <2>1, ReportHolds
<1> QED
  BY <1>1, <1>2, <1>3, <1>4, <1>5 DEF StageStep

\* Deletes, changes at the source and searches.
LEMMA CallerHolds ==
  ASSUME RInv,
         \/ DeletionStep
         \/ \E r \in Readers : SearchVector(r) \/ ReaderStep(r)
         \/ \E d \in Docs : Change(d) \/ DeleteRecord(d)
  PROVE  RInv'
<1>1. CASE Store(WakeUp("deletion")) \/ \E r \in Readers : ReaderStep(r)
  BY <1>1, UnchangedHolds DEF Store, ReaderStep
<1>2. CASE CommitDelete
  BY <1>2, StandsHolds DEF CommitDelete, RInv
<1>3. CASE \E r \in Readers : SearchVector(r)
  <2>1. searches' \in 0..MaxSearches
    BY <1>3 DEF SearchVector, RInv
  <2> QED
    BY <1>3, <2>1, StandsHolds DEF SearchVector, RInv
<1>4. ASSUME NEW d \in Docs, Change(d) PROVE RInv'
  <2>1. current[d] + 1 \in Stored
    BY <1>4 DEF Change, Stored, Versions
  <2>2. current' \in [Docs -> Stored]
    BY <1>4, <2>1 DEF Change, RInv
  <2> QED
    BY <1>4, <2>2, StandsHolds DEF Change, RInv
<1>5. ASSUME NEW d \in Docs, DeleteRecord(d) PROVE RInv'
  <2>1. doomed' \subseteq Keys
    BY <1>5 DEF DeleteRecord, Keys
  <2>2. current' \in [Docs -> Stored] /\ receipt' \in [Docs -> Stored]
    BY <1>5 DEF DeleteRecord, RInv, Stored
  <2> QED
    BY <1>5, <2>1, <2>2, StandsHolds DEF DeleteRecord, RInv
<1> QED
  BY <1>1, <1>2, <1>3, <1>4, <1>5 DEF DeletionStep

\* Every step keeps the invariant.
LEMMA StepHolds == RInv /\ [Next]_vars => RInv'
<1> SUFFICES ASSUME RInv, [Next]_vars PROVE RInv'
  OBVIOUS
<1>1. CASE UNCHANGED vars
  BY <1>1, UnchangedHolds DEF vars
<1> QED
  BY <1>1, IndexRecordsHolds, ReturnHolds, StageStepHolds, CallerHolds DEF Next

-----------------------------------------------------------------------------
(* Every step is one of the store, or leaves it alone                      *)

\* What a stage does under the write lock is a transaction of the store.
LEMMA WriteMutates ==
  ASSUME NEW s \in Stages, Commit(s), NEW batch \in Batches,
         Write(s, batch) \/ UNCHANGED tables
  PROVE  StoreNext
<1>1. s \in Writers
  BY DEF Stages
<1>2. Mutate(s)
  BY DEF Mutate, Write
<1> QED
  BY <1>1, <1>2 DEF StoreNext

\* The steps of a stage: a request, a transaction, or nothing of the store.
LEMMA StageStepOfStore ==
  ASSUME RInv, NEW s \in Stages, StageStep(s)
  PROVE  [StoreNext]_storeVars
<1>1. s \in Writers /\ s \in Threads
  BY DEF Threads
<1>2. CASE AskToWrite(s)
  BY <1>1, <1>2 DEF AskToWrite, Request, StoreNext
<1>3. CASE Store(WakeUp(s))
  BY <1>1, <1>3 DEF Store, StoreNext
<1>4. CASE WriteBatch(s)
  <2>1. call.records \in Seq(Items)
    BY <1>4 DEF WriteBatch, RInv, Busy, InStage, Bundles
  <2>2. Batch(call.records) \in Batches
    BY <2>1, BatchOfItems
  <2>3. Commit(s) /\ (Write(s, Batch(call.records)) \/ UNCHANGED tables)
    BY <1>4 DEF WriteBatch
  <2> QED
    BY <2>2, <2>3, WriteMutates
<1>5. CASE WriteOne(s)
  <2>1. PICK q \in Bundles : q = call.records
    BY <1>5 DEF WriteOne, RInv, Busy, InStage
  <2>2. PICK outcomes \in Seq(BOOLEAN) : outcomes = stage[s].outcomes
    BY DEF RInv
  <2>3. Len(outcomes) < Len(q)
    BY <1>5, <2>1, <2>2 DEF WriteOne, RInv, InStage
  <2>4. Len(outcomes) + 1 \in 1..Len(q)
    <3>1. Len(outcomes) \in Nat /\ Len(q) \in Nat
      BY DEF Bundles
    <3> QED
      BY <2>3, <3>1
  <2>5. PICK item \in Items : item = NextRecord(s)
    <3>1. q[Len(outcomes) + 1] \in Items
      BY <2>4 DEF Bundles
    <3> QED
      BY <2>1, <2>2, <3>1 DEF NextRecord
  <2>6. Batch(<<item>>) \in Batches
    <3>1. <<item>> \in Seq(Items)
      OBVIOUS
    <3> QED
      BY <3>1, BatchOfItems
  <2>7. Commit(s) /\ (Write(s, Batch(<<item>>)) \/ UNCHANGED tables)
    BY <1>5, <2>5 DEF WriteOne
  <2> QED
    BY <2>6, <2>7, WriteMutates
<1>6. CASE EncodeBatch \/ EncodeFails
  BY <1>6 DEF EncodeBatch, EncodeFails
<1> QED
  BY <1>2, <1>3, <1>4, <1>5, <1>6 DEF StageStep

\* Every step of the composition.
LEMMA StepOfStore == RInv /\ [Next]_vars => [StoreNext]_storeVars
<1> SUFFICES ASSUME RInv, [Next]_vars PROVE [StoreNext]_storeVars
  OBVIOUS
<1>1. "deletion" \in Writers /\ "deletion" \in Threads /\ Readers \subseteq Threads
  BY DEF Threads
<1>2. CASE UNCHANGED vars \/ IndexRecords \/ Return \/ \E d \in Docs : Change(d)
  BY <1>2 DEF vars, IndexRecords, Return, Change
<1>3. CASE CommitDelete
  <2>1. doomed \in SUBSET Keys /\ Delete(doomed) /\ Commit("deletion")
    BY <1>3 DEF CommitDelete, RInv
  <2> QED
    BY <1>1, <2>1 DEF Mutate, StoreNext
<1>4. CASE \E d \in Docs : DeleteRecord(d)
  BY <1>1, <1>4 DEF DeleteRecord, Request, StoreNext
<1>5. CASE Store(WakeUp("deletion"))
  BY <1>1, <1>5 DEF Store, StoreNext
<1>6. CASE \E r \in Readers : SearchVector(r) \/ ReaderStep(r)
  BY <1>1, <1>6 DEF SearchVector, ReaderStep, Store, StoreNext
<1>7. CASE \E s \in Stages : StageStep(s)
  BY <1>7, StageStepOfStore
<1> QED
  BY <1>2, <1>3, <1>4, <1>5, <1>6, <1>7 DEF Next, DeletionStep

-----------------------------------------------------------------------------
(* What a receipt promises                                                 *)

\* The keys a record is stored under at a version.
Parts(d, v) == {d} \cup ToSet(ChunksAt[d][v])

KeysOf(q) == {q[i].key : i \in DOMAIN q}

\* The version the records q of a call hold a key at.
VersionIn(q, k) == (CHOOSE e \in ToSet(q) : e.key = k).version

\* The records q of a call on sources: every source with all its parts at the
\* version read, one source after the other.
Handed(q, sources) ==
  /\ \A i \in DOMAIN q :
       LET d == SourceOf(q[i].key)
       IN /\ q[i].version = VersionIn(q, d)
          /\ q[i].key \in Parts(d, q[i].version)
          /\ \E h \in DOMAIN sources : sources[h] = d
  /\ \A h \in DOMAIN sources :
       /\ sources[h] \in Docs
       /\ Parts(sources[h], VersionIn(q, sources[h])) \subseteq KeysOf(q)
  /\ \A i, j \in DOMAIN q : \A g, h \in DOMAIN sources :
       /\ SourceOf(q[i].key) = sources[g]
       /\ SourceOf(q[j].key) = sources[h]
       /\ g < h
       => i < j

\* What the stage s leaves when it lists the record e as committed: no chunk
\* of the same record but those of the call is left.
Landed(s, e) ==
  /\ rec[e.key] = e.version
  /\ s = "semantic" => vec[e.key] = e.version
  /\ e.key \in Chunks =>
       \A c \in Chunks \ KeysOf(call.records) :
         ParentOf[c] = ParentOf[e.key] => rec[c] = 0

Listed ==
  \A s \in Stages : \A i \in DOMAIN stage[s].outcomes :
    stage[s].outcomes[i] => Landed(s, call.records[i])

\* A stage is done with all the records, or stopped at one that failed.
Ended(s) ==
  LET outcomes == stage[s].outcomes
  IN InStage(s, "done") =>
       \/ Len(outcomes) = Len(call.records)
       \/ /\ call.mode = "strict"
          /\ Len(outcomes) > 0
          /\ ~outcomes[Len(outcomes)]

\* While a call is under way nobody counts on what it is writing.
Underway ==
  /\ doomed = {}
  /\ call.sources \in Seq(Docs)
  /\ \A h \in DOMAIN call.sources : receipt[call.sources[h]] = 0
  /\ Handed(call.records, call.sources)
  /\ \A s \in Stages : Ended(s)

Splits(d) == \A v \in Versions : ToSet(ChunksAt[d][v]) # {}

\* What the tables are worth: receipts are kept, and no vector is left alone.
TablesKept ==
  /\ CommittedIsIndexed
  /\ \A k \in Keys : vec[k] # 0 => rec[k] # 0
  /\ \A c \in Chunks : rec[c] # 0 => Splits(ParentOf[c])

CInv ==
  /\ TablesKept
  /\ \A k \in doomed : receipt[SourceOf(k)] = 0
  /\ call = NoCall => \A s \in Stages : stage[s] = Waiting
  /\ call # NoCall => Underway
  /\ Listed
  /\ MaxFaults = 0 => \A s \in Stages : stage[s].pc \notin {"each", "encode each"}

\* Either every version of a record is split or none is; and no call of an
\* encoder or a store raises, or no record has two chunks.
CleanlySplit ==
  /\ \A d \in Docs : Splits(d) \/ \A v \in Versions : ToSet(ChunksAt[d][v]) = {}
  /\ \/ MaxFaults = 0
     \/ \A d \in Docs, v \in Versions : \A b, c \in ToSet(ChunksAt[d][v]) : b = c

\* The parts of a record are the record and its chunks.
LEMMA PartsAreKeys ==
  ASSUME NEW d \in Docs, NEW v \in Versions
  PROVE  /\ d \in Parts(d, v)
         /\ SourceOf(d) = d
         /\ \A k \in Parts(d, v) : k \in Keys /\ SourceOf(k) = d
<1>1. ToSet(ChunksAt[d][v]) \subseteq {c \in Chunks : ParentOf[c] = d}
  OBVIOUS
<1> QED
  BY <1>1 DEF Parts, SourceOf, Keys

\* A record is expanded to its parts at the version read.
LEMMA ExpandHolds ==
  ASSUME NEW d \in Docs, NEW v \in Versions, v = current[d]
  PROVE  /\ Expand(d) \in Seq(Items)
         /\ \A e \in ToSet(Expand(d)) : e.version = v /\ e.key \in Parts(d, v)
         /\ \A k \in Parts(d, v) : \E e \in ToSet(Expand(d)) : e.key = k
<1> PICK chunks \in Seq(Chunks) : chunks = ChunksAt[d][v]
  OBVIOUS
<1> PICK l \in Nat : l = Len(chunks)
  OBVIOUS
<1>1. ToSet(chunks) = {chunks[i] : i \in 1..l}
  BY DEF ToSet
<1> PICK own \in Items : own = [key |-> d, version |-> v]
  BY DEF Items, Keys
<1> DEFINE rest == [i \in 1..l |-> [key |-> chunks[i], version |-> v]]
<1>2. rest \in Seq(Items) /\ ToSet(rest) = {[key |-> chunks[i], version |-> v] : i \in 1..l}
  <2>1. \A i \in 1..l : [key |-> chunks[i], version |-> v] \in Items
    BY DEF Items, Keys
  <2>2. rest \in [1..l -> Items]
    BY <2>1
  <2>3. \A i \in 1..l : rest[i] = [key |-> chunks[i], version |-> v]
    OBVIOUS
  <2> HIDE DEF rest
  <2>4. ToSet(rest) = {rest[i] : i \in 1..l}
    BY <2>2 DEF ToSet
  <2>5. ToSet(rest) = {[key |-> chunks[i], version |-> v] : i \in 1..l}
    BY ONLY <2>3, <2>4
  <2> QED
    BY <2>2, <2>5, FunctionIsSeq
<1>3. Expand(d) = <<own>> \o rest
  BY DEF Expand
<1> HIDE DEF rest
<1>4. Expand(d) \in Seq(Items) /\ ToSet(Expand(d)) = {own} \cup ToSet(rest)
  BY <1>2, <1>3, BehindOne
<1>5. \A e \in ToSet(rest) : e.version = v /\ e.key \in ToSet(chunks)
  <2> TAKE e \in ToSet(rest)
  <2>1. PICK i \in 1..l : e = [key |-> chunks[i], version |-> v]
    BY ONLY <1>2, e \in ToSet(rest)
  <2>2. chunks[i] \in ToSet(chunks)
    BY ONLY <1>1, i \in 1..l
  <2> QED
    BY ONLY <2>1, <2>2
<1>6. \A k \in ToSet(chunks) : \E e \in ToSet(rest) : e.key = k
  <2> TAKE k \in ToSet(chunks)
  <2>1. [key |-> k, version |-> v] \in ToSet(rest)
    BY <1>1, <1>2, SMTT(40)
  <2> QED
    BY <2>1
<1> QED
  BY <1>4, <1>5, <1>6 DEF Parts

\* The version of a key, when all the records with this key have the same.
LEMMA VersionGiven ==
  ASSUME NEW q, NEW k, NEW v, \E e \in ToSet(q) : e.key = k,
         \A e \in ToSet(q) : e.key = k => e.version = v
  PROVE  VersionIn(q, k) = v
  BY DEF VersionIn

\* The m records q are n sources one behind the other: home says whose part a
\* record is, and each source has all its parts at the version read.
Sourced(q, m, order, n, read, home) ==
  /\ m \in Nat /\ n \in Nat /\ DOMAIN q = 1..m /\ DOMAIN order = 1..n
  /\ \A g, h \in 1..n : order[g] = order[h] => g = h
  /\ \A h \in 1..n : order[h] \in Docs /\ read[h] \in Versions
  /\ \A p \in 1..m :
       /\ home[p] \in 1..n
       /\ q[p].version = read[home[p]]
       /\ q[p].key \in Parts(order[home[p]], read[home[p]])
  /\ \A h \in 1..n : \A k \in Parts(order[h], read[h]) : \E p \in 1..m : q[p].key = k
  /\ \A p, r \in 1..m : p < r => home[p] <= home[r]

\* Such records are what a call on these sources is handed.
LEMMA HandedWhenSourced ==
  ASSUME NEW q, NEW m, NEW order, NEW n, NEW read, NEW home,
         Sourced(q, m, order, n, read, home)
  PROVE  Handed(q, order)
<1> USE DEF Sourced
<1>1. ASSUME NEW p \in 1..m PROVE SourceOf(q[p].key) = order[home[p]]
  <2> PICK h \in 1..n : h = home[p]
    OBVIOUS
  <2>1. q[p].key \in Parts(order[h], read[h])
    OBVIOUS
  <2> QED
    BY <2>1, PartsAreKeys
<1>2. ToSet(q) = {q[p] : p \in 1..m}
  BY DEF ToSet
<1>3. ASSUME NEW h \in 1..n PROVE VersionIn(q, order[h]) = read[h]
  <2>1. order[h] \in Parts(order[h], read[h]) /\ SourceOf(order[h]) = order[h]
    BY PartsAreKeys
  <2> PICK p \in 1..m : q[p].key = order[h]
    BY <2>1
  <2>2. \E e \in ToSet(q) : e.key = order[h]
    <3>1. q[p] \in ToSet(q)
      BY <1>2
    <3> QED
      BY <3>1
  <2>3. \A e \in ToSet(q) : e.key = order[h] => e.version = read[h]
    <3> TAKE e \in ToSet(q)
    <3> HAVE e.key = order[h]
    <3> PICK i \in 1..m : e = q[i]
      BY <1>2
    <3>1. order[home[i]] = order[h]
      BY <1>1, <2>1
    <3>2. home[i] = h
      BY <3>1
    <3> QED
      BY <3>2
  <2> QED
    BY ONLY <2>2, <2>3 DEF VersionIn
<1>4. ASSUME NEW i \in 1..m
      PROVE  /\ q[i].version = VersionIn(q, SourceOf(q[i].key))
             /\ q[i].key \in Parts(SourceOf(q[i].key), q[i].version)
             /\ \E h \in 1..n : order[h] = SourceOf(q[i].key)
  <2> PICK h \in 1..n : h = home[i]
    OBVIOUS
  <2>1. SourceOf(q[i].key) = order[h] /\ VersionIn(q, order[h]) = read[h]
    BY <1>1, <1>3
  <2> QED
    BY <2>1
<1>5. ASSUME NEW h \in 1..n
      PROVE  Parts(order[h], VersionIn(q, order[h])) \subseteq KeysOf(q)
  <2>1. VersionIn(q, order[h]) = read[h]
    BY <1>3
  <2>2. KeysOf(q) = {q[p].key : p \in 1..m}
    BY DEF KeysOf
  <2>3. \A k \in Parts(order[h], read[h]) : \E p \in 1..m : q[p].key = k
    OBVIOUS
  <2>4. Parts(order[h], read[h]) \subseteq KeysOf(q)
    BY ONLY <2>2, <2>3
  <2> QED
    BY ONLY <2>1, <2>4
<1>6. ASSUME NEW i \in 1..m, NEW j \in 1..m, NEW g \in 1..n, NEW h \in 1..n,
             SourceOf(q[i].key) = order[g], SourceOf(q[j].key) = order[h], g < h
      PROVE  i < j
  <2>1. home[i] = g /\ home[j] = h
    BY <1>1, <1>6
  <2>2. i # j /\ ~(j < i)
    BY <1>6, <2>1
  <2> QED
    BY <2>2
<1>7. \A i \in DOMAIN q :
        LET d == SourceOf(q[i].key)
        IN /\ q[i].version = VersionIn(q, d)
           /\ q[i].key \in Parts(d, q[i].version)
           /\ \E h \in DOMAIN order : order[h] = d
  BY <1>4, Zenon
<1>8. \A h \in DOMAIN order :
        /\ order[h] \in Docs
        /\ Parts(order[h], VersionIn(q, order[h])) \subseteq KeysOf(q)
  BY <1>5, Zenon
<1>9. \A i, j \in DOMAIN q : \A g, h \in DOMAIN order :
        /\ SourceOf(q[i].key) = order[g]
        /\ SourceOf(q[j].key) = order[h]
        /\ g < h
        => i < j
  <2>1. DOMAIN q = 1..m /\ DOMAIN order = 1..n
    OBVIOUS
  <2> QED
    BY ONLY <1>6, <2>1
<1> QED
  BY ONLY <1>7, <1>8, <1>9 DEF Handed

\* A call is handed its sources, each with its parts, in their order.
LEMMA CallHanded ==
  ASSUME NEW D \in SUBSET Pending, D # {}, RInv, NEW order \in SetToSeqs(D)
  PROVE  /\ Handed(FlattenSeq([i \in DOMAIN order |-> Expand(order[i])]), order)
         /\ order \in Seq(Docs) /\ order # <<>>
         /\ \A h \in DOMAIN order : order[h] \in D
<1>1. D \subseteq Docs /\ \A d \in D : current[d] \in Versions
  BY DEF Pending, RInv, Stored
<1> PICK n \in Nat \ {0} : n = Cardinality(D)
  BY <1>1, FS_Subset, FS_CardinalityType, FS_EmptySet
<1>2. order \in [1..n -> D] /\ \A g, h \in 1..n : order[g] = order[h] => g = h
  BY DEF SetToSeqs
<1> PICK parts : parts = [i \in DOMAIN order |-> Expand(order[i])]
  OBVIOUS
<1>3. parts \in [1..n -> Seq(Items)]
  <2>1. \A h \in 1..n : order[h] \in D /\ order[h] \in Docs /\ current[order[h]] \in Versions
    BY <1>1, <1>2
  <2>2. \A h \in 1..n : Expand(order[h]) \in Seq(Items)
    BY ONLY <2>1, ExpandHolds
  <2> QED
    BY <1>2, <2>2
<1>4. parts \in Seq(Seq(Items)) /\ Len(parts) = n
  BY <1>3, FunctionIsSeq, ZenonT(60)
<1> PICK q : q = FlattenSeq(parts)
  OBVIOUS
<1>5. q \in Seq(Items) /\ \E home : Laid(q, parts, n, home)
  BY <1>4, FlattenLays
<1> PICK home : Laid(q, parts, n, home)
  BY <1>5
<1> PICK m \in Nat : m = Len(q) /\ DOMAIN q = 1..m
  BY <1>5
<1>6. /\ home \in [1..m -> 1..n]
      /\ \A p \in 1..m : q[p] \in ToSet(parts[home[p]])
      /\ \A h \in 1..n : \A e \in ToSet(parts[h]) : \E p \in 1..m : q[p] = e
      /\ \A p, r \in 1..m : p < r => home[p] <= home[r]
  BY ZenonT(60) DEF Laid
<1> PICK read : read = [h \in 1..n |-> current[order[h]]]
  OBVIOUS
<1>7. ASSUME NEW h \in 1..n
      PROVE  /\ order[h] \in Docs
             /\ read[h] \in Versions
             /\ \A e \in ToSet(parts[h]) :
                  e.version = read[h] /\ e.key \in Parts(order[h], read[h])
             /\ \A k \in Parts(order[h], read[h]) : \E e \in ToSet(parts[h]) : e.key = k
  <2>1. parts[h] = Expand(order[h]) /\ read[h] = current[order[h]] /\ order[h] \in D
    BY <1>2
  <2> PICK d \in Docs : d = order[h]
    BY <1>1, <2>1
  <2> PICK v \in Versions : v = current[d]
    BY <1>1, <2>1
  <2>2. /\ \A e \in ToSet(Expand(d)) : e.version = v /\ e.key \in Parts(d, v)
        /\ \A k \in Parts(d, v) : \E e \in ToSet(Expand(d)) : e.key = k
    BY ONLY d \in Docs, v \in Versions, v = current[d], ExpandHolds
  <2> QED
    BY ONLY <2>1, <2>2, d \in Docs, v \in Versions, d = order[h], v = current[d]
<1>8. \A p \in 1..m :
        /\ home[p] \in 1..n
        /\ q[p].version = read[home[p]]
        /\ q[p].key \in Parts(order[home[p]], read[home[p]])
  BY ONLY <1>6, <1>7
<1>9. \A h \in 1..n : \A k \in Parts(order[h], read[h]) :
        \E p \in 1..m : q[p].key = k
  <2> TAKE h \in 1..n
  <2> TAKE k \in Parts(order[h], read[h])
  <2> PICK e \in ToSet(parts[h]) : e.key = k
    BY ONLY <1>7, h \in 1..n, k \in Parts(order[h], read[h])
  <2>1. \E p \in 1..m : q[p] = e
    BY <1>6
  <2> QED
    BY <2>1
<1>10. DOMAIN order = 1..n
  BY <1>2
<1>11. Handed(q, order)
  <2>1. \A g, h \in 1..n : order[g] = order[h] => g = h
    BY <1>2
  <2>2. \A p, r \in 1..m : p < r => home[p] <= home[r]
    BY <1>6
  <2>3. \A h \in 1..n : order[h] \in Docs /\ read[h] \in Versions
    BY <1>7
  <2>4. m \in Nat /\ n \in Nat /\ DOMAIN q = 1..m
    OBVIOUS
  <2>5. Sourced(q, m, order, n, read, home)
    BY ONLY <1>8, <1>9, <1>10, <2>1, <2>2, <2>3, <2>4 DEF Sourced
  <2> QED
    BY <2>5, HandedWhenSourced
<1>12. order # <<>>
  BY <1>10
<1>13. order \in Seq(Docs)
  <2>1. order \in [1..n -> Docs]
    BY <1>1, <1>2
  <2> QED
    BY <2>1, FunctionIsSeq
<1> QED
  BY <1>2, <1>10, <1>11, <1>12, <1>13

-----------------------------------------------------------------------------
(* The writes of a call                                                    *)

\* A batch that writes some records of q, each at its version.
Within(batch, q) ==
  /\ DOMAIN batch \subseteq KeysOf(q)
  /\ \A i \in DOMAIN q : q[i].key \in DOMAIN batch => batch[q[i].key] = q[i].version

\* The records of a call are keys at versions.
LEMMA RecordsOfBundle ==
  ASSUME NEW q \in Bundles
  PROVE  /\ Len(q) \in Nat \ {0}
         /\ DOMAIN q = 1..Len(q)
         /\ \A i \in DOMAIN q : q[i].key \in Keys /\ q[i].version \in Versions
         /\ KeysOf(q) \subseteq Keys
         /\ ToSet(q) = {q[i] : i \in DOMAIN q}
<1>1. q \in Seq(Items)
  BY DEF Bundles
<1>2. \A i \in DOMAIN q : q[i] \in Items
  BY <1>1
<1>3. \A i \in DOMAIN q : q[i].key \in Keys /\ q[i].version \in Versions
  BY <1>2 DEF Items
<1>4. Len(q) \in Nat \ {0} /\ DOMAIN q = 1..Len(q)
  BY <1>1 DEF Bundles
<1> QED
  BY <1>3, <1>4 DEF KeysOf, ToSet

\* The batch of a whole call.
LEMMA WholeBatch ==
  ASSUME NEW q \in Bundles, NEW sources, Handed(q, sources)
  PROVE  DOMAIN Batch(q) = KeysOf(q) /\ Within(Batch(q), q)
<1>1. ToSet(q) = {q[i] : i \in DOMAIN q}
  BY RecordsOfBundle
<1>2. \A i \in DOMAIN q : q[i].version = VersionIn(q, SourceOf(q[i].key))
  BY DEF Handed
<1>3. DOMAIN Batch(q) = KeysOf(q)
  BY <1>1 DEF Batch, KeysOf
<1>4. ASSUME NEW i \in DOMAIN q PROVE Batch(q)[q[i].key] = q[i].version
  <2>1. q[i].key \in {e.key : e \in ToSet(q)}
    BY <1>1
  <2>2. Batch(q)[q[i].key] = VersionIn(q, q[i].key)
    BY <2>1 DEF Batch, VersionIn
  <2>3. \A e \in ToSet(q) : e.key = q[i].key => e.version = q[i].version
    BY <1>1, <1>2
  <2>4. \E e \in ToSet(q) : e.key = q[i].key
    BY <1>1
  <2>5. VersionIn(q, q[i].key) = q[i].version
    BY ONLY <2>3, <2>4 DEF VersionIn
  <2> QED
    BY <2>2, <2>5
<1> QED
  BY <1>3, <1>4 DEF Within

\* The batch of one record.
LEMMA OneBatch ==
  ASSUME NEW q \in Bundles, NEW sources, Handed(q, sources), NEW i \in DOMAIN q
  PROVE  DOMAIN Batch(<<q[i]>>) = {q[i].key} /\ Within(Batch(<<q[i]>>), q)
<1> PICK e : e = q[i]
  OBVIOUS
<1>1. ToSet(<<e>>) = {e}
  BY DEF ToSet
<1>2. DOMAIN Batch(<<e>>) = {e.key} /\ Batch(<<e>>)[e.key] = e.version
  BY <1>1 DEF Batch
<1>3. \A j \in DOMAIN q : q[j].key = e.key => q[j].version = e.version
  BY DEF Handed
<1>4. {e.key} \subseteq KeysOf(q)
  BY DEF KeysOf
<1> QED
  BY <1>2, <1>3, <1>4 DEF Within

\* What a write leaves: the batch is written, the chunks it makes stale are
\* removed, and nothing else changes.
LEMMA WriteLeaves ==
  ASSUME NEW s \in Stages, NEW batch \in Batches, Write(s, batch)
  PROVE  /\ \A k \in DOMAIN batch :
              /\ k \in Keys /\ batch[k] \in Versions
              /\ rec'[k] = batch[k]
              /\ s = "semantic" => vec'[k] = batch[k]
              /\ s # "semantic" => vec'[k] = vec[k]
         /\ \A c \in Stale(batch) : rec'[c] = 0 /\ vec'[c] = 0
         /\ \A k \in Keys \ (DOMAIN batch \cup Stale(batch)) :
              rec'[k] = rec[k] /\ vec'[k] = vec[k]
<1>1. DOMAIN batch \subseteq Keys /\ \A k \in DOMAIN batch : batch[k] \in Versions
  BY BatchTyped
<1>2. Stale(batch) \subseteq Keys \ DOMAIN batch
  BY DEF Stale, Keys
<1>3. CASE s = "keyword"
  <2>1. Index(batch)
    BY <1>3 DEF Write
  <2> QED
    BY <1>1, <1>2, <1>3, <2>1 DEF Index, Written
<1>4. CASE s = "semantic"
  <2>1. Upsert(batch)
    BY <1>4 DEF Write
  <2> QED
    BY <1>1, <1>2, <1>4, <2>1 DEF Upsert, Written, Embedded
<1> QED
  BY <1>3, <1>4 DEF Stages

\* No chunk of a call is made stale by a write that is part of it.
Gentle(batch) == Stale(batch) \cap KeysOf(call.records) = {}

\* What a stage listed stays true.
StillLanded ==
  \A x \in Stages : \A i \in DOMAIN call.records :
    Landed(x, call.records[i]) => Landed(x, call.records[i])'

\* Every key a write touches is of a source of the call.
LEMMA WriteTouchesSources ==
  ASSUME NEW q \in Bundles, NEW sources, Handed(q, sources),
         NEW batch \in Batches, Within(batch, q),
         NEW k \in DOMAIN batch \cup Stale(batch)
  PROVE  \E h \in DOMAIN sources : sources[h] = SourceOf(k)
<1>1. ASSUME NEW b \in DOMAIN batch
      PROVE  \E h \in DOMAIN sources : sources[h] = SourceOf(b)
  <2> PICK i \in DOMAIN q : b = q[i].key
    BY DEF Within, KeysOf
  <2> QED
    BY DEF Handed
<1>2. CASE k \in Stale(batch)
  <2> PICK b \in Chunks \cap DOMAIN batch : ParentOf[b] = ParentOf[k] /\ k \in Chunks
    BY <1>2 DEF Stale
  <2>1. SourceOf(k) = SourceOf(b)
    BY DEF SourceOf
  <2> QED
    BY <1>1, <2>1
<1> QED
  BY <1>1, <1>2

\* A write of a call keeps what the tables are worth, and what it wrote landed.
LEMMA WriteKeeps ==
  ASSUME RInv, CInv, CleanlySplit, call # NoCall, NEW s \in Stages,
         NEW batch \in Batches, Within(batch, call.records), Gentle(batch),
         Write(s, batch), UNCHANGED <<call, receipt>>
  PROVE  /\ TablesKept'
         /\ StillLanded
         /\ \A i \in DOMAIN call.records :
              call.records[i].key \in DOMAIN batch => Landed(s, call.records[i])'
<1> PICK q \in Bundles : q = call.records
  BY DEF RInv, Busy
<1>1. Handed(q, call.sources) /\ \A h \in DOMAIN call.sources : receipt[call.sources[h]] = 0
  BY DEF CInv, Underway
<1>2. /\ \A k \in DOMAIN batch :
           /\ k \in Keys /\ batch[k] \in Versions
           /\ rec'[k] = batch[k]
           /\ s = "semantic" => vec'[k] = batch[k]
           /\ s # "semantic" => vec'[k] = vec[k]
      /\ \A c \in Stale(batch) : rec'[c] = 0 /\ vec'[c] = 0
      /\ \A k \in Keys \ (DOMAIN batch \cup Stale(batch)) :
           rec'[k] = rec[k] /\ vec'[k] = vec[k]
  BY WriteLeaves
<1>3. \A n \in Versions : n # 0
  BY DEF Versions
<1>4. Within(batch, q) /\ Stale(batch) \cap KeysOf(q) = {}
  BY DEF Gentle
<1>5. \A i \in DOMAIN q : q[i].key \in Keys /\ q[i].version \in Versions /\ q[i].key \in KeysOf(q)
  BY RecordsOfBundle DEF KeysOf
<1>6. CommittedIsIndexed'
  <2>1. ASSUME NEW k \in Keys, receipt[SourceOf(k)] # 0
        PROVE  rec'[k] = rec[k] /\ vec'[k] = vec[k]
    <3>1. k \notin DOMAIN batch \cup Stale(batch)
      BY <1>1, <1>4, <2>1, WriteTouchesSources
    <3> QED
      BY <1>2, <3>1
  <2>2. CommittedIsIndexed
    BY DEF CInv, TablesKept
  <2> SUFFICES ASSUME NEW d \in Docs, receipt[d] # 0, NEW k \in Keys, SourceOf(k) = d
               PROVE  IF k \in {d} \cup ToSet(ChunksAt[d][receipt[d]])
                      THEN rec'[k] = receipt[d] /\ vec'[k] = receipt[d]
                      ELSE rec'[k] = 0 /\ vec'[k] = 0
    BY DEF CommittedIsIndexed, SourceOf
  <2>3. IF k \in {d} \cup ToSet(ChunksAt[d][receipt[d]])
        THEN rec[k] = receipt[d] /\ vec[k] = receipt[d]
        ELSE rec[k] = 0 /\ vec[k] = 0
    BY <2>2 DEF CommittedIsIndexed
  <2> QED
    BY <2>1, <2>3
<1>7. ASSUME NEW k \in Keys, vec'[k] # 0 PROVE rec'[k] # 0
  BY <1>2, <1>3, <1>7 DEF CInv, TablesKept
<1>8. ASSUME NEW c \in Chunks, rec'[c] # 0 PROVE Splits(ParentOf[c])
  <2>1. CASE c \in DOMAIN batch
    <3> PICK i \in DOMAIN q : q[i].key = c
      BY <1>4, <2>1 DEF Within, KeysOf
    <3> PICK v \in Versions : v = q[i].version
      BY <1>5
    <3>1. c \in Parts(ParentOf[c], v)
      BY <1>1 DEF Handed, SourceOf
    <3>2. c \in ToSet(ChunksAt[ParentOf[c]][v]) /\ ParentOf[c] \in Docs
      BY <3>1 DEF Parts
    <3> QED
      BY <3>2, ZenonT(60) DEF CleanlySplit
  <2>2. CASE c \notin DOMAIN batch
    <3>0. c \in Keys
      BY DEF Keys
    <3>1. c \in Keys \ (DOMAIN batch \cup Stale(batch))
      BY ONLY <1>2, <1>8, <2>2, <3>0
    <3> QED
      BY <1>2, <1>8, <3>1 DEF CInv, TablesKept
  <2> QED
    BY <2>1, <2>2
<1>9. ASSUME NEW x \in Stages, NEW i \in DOMAIN q, Landed(x, q[i])
      PROVE  Landed(x, q[i])'
  <2> PICK e : e = q[i]
    OBVIOUS
  <2>1. e.key \in Keys /\ e.key \notin Stale(batch)
    BY <1>4, <1>5
  <2>2. e.key \in DOMAIN batch => batch[e.key] = e.version
    BY <1>4 DEF Within
  <2>3. rec'[e.key] = e.version
    BY <1>2, <1>9, <2>1, <2>2 DEF Landed
  <2>4. x = "semantic" => vec'[e.key] = e.version
    BY <1>2, <1>9, <2>1, <2>2 DEF Landed
  <2>5. ASSUME e.key \in Chunks, NEW c \in Chunks \ KeysOf(q), ParentOf[c] = ParentOf[e.key]
        PROVE  rec'[c] = 0
    <3>1. rec[c] = 0 /\ c \in Keys
      BY <1>9, <2>5 DEF Landed, Keys
    <3>2. c \notin DOMAIN batch
      BY <1>4, <2>5 DEF Within
    <3> QED
      BY <1>2, <3>1, <3>2
  <2> QED
    BY <2>3, <2>4, <2>5 DEF Landed
<1>10. ASSUME NEW i \in DOMAIN q, q[i].key \in DOMAIN batch PROVE Landed(s, q[i])'
  <2> PICK e : e = q[i]
    OBVIOUS
  <2>1. batch[e.key] = e.version
    BY <1>4, <1>10 DEF Within
  <2>2. rec'[e.key] = e.version /\ (s = "semantic" => vec'[e.key] = e.version)
    BY <1>2, <1>10, <2>1
  <2>3. ASSUME e.key \in Chunks, NEW c \in Chunks \ KeysOf(q), ParentOf[c] = ParentOf[e.key]
        PROVE  rec'[c] = 0
    <3>1. c \notin DOMAIN batch /\ c \in Keys
      BY <1>4, <2>3 DEF Within, Keys
    <3>2. rec[c] # 0 => c \in Stale(batch)
      BY <1>10, <2>3, <3>1 DEF Stale
    <3> QED
      BY <1>2, <3>1, <3>2
  <2> QED
    BY <2>2, <2>3 DEF Landed
<1> QED
  BY <1>6, <1>7, <1>8, <1>9, <1>10 DEF TablesKept, StillLanded, Splits

\* The tables as they are.
LEMMA TablesStand ==
  ASSUME TablesKept, UNCHANGED <<tables, receipt>>
  PROVE  TablesKept'
<1>1. UNCHANGED <<rec, vec, receipt>>
  BY DEF tables
<1> QED
  BY <1>1 DEF TablesKept, CommittedIsIndexed

\* And what was listed.
LEMMA ListStands ==
  ASSUME UNCHANGED <<tables, call>>
  PROVE  StillLanded
<1>1. UNCHANGED <<rec, vec>>
  BY DEF tables
<1> QED
  BY <1>1 DEF StillLanded, Landed

-----------------------------------------------------------------------------
(* The steps of the stages keep the promise                                *)

\* The outcomes listed are of records of the call.
LEMMA OutcomesOfRecords ==
  ASSUME RInv, call # NoCall, NEW s \in Stages, NEW i \in DOMAIN stage[s].outcomes
  PROVE  i \in DOMAIN call.records
<1> PICK outcomes \in Seq(BOOLEAN) : outcomes = stage[s].outcomes
  BY DEF RInv
<1> PICK n \in Nat : n = Len(outcomes)
  OBVIOUS
<1> PICK q \in Bundles : q = call.records
  BY DEF RInv, Busy
<1> PICK m \in Nat : m = Len(q) /\ DOMAIN q = 1..m
  BY RecordsOfBundle
<1>1. i \in 1..n
  OBVIOUS
<1>2. n <= m
  BY DEF RInv, Busy
<1> QED
  BY <1>1, <1>2

\* The stage s goes to pc and has listed outcomes, of committed records
\* truthfully; it ends with all of them or where a strict one fails.
Lists(s, pc, outcomes) ==
  /\ outcomes \in Seq(BOOLEAN)
  /\ stage' = [stage EXCEPT ![s] = [pc |-> pc, outcomes |-> outcomes]]
  /\ \A i \in DOMAIN outcomes : outcomes[i] => Landed(s, call.records[i])'
  /\ pc = "done" =>
       \/ Len(outcomes) = Len(call.records)
       \/ call.mode = "strict" /\ Len(outcomes) > 0 /\ ~outcomes[Len(outcomes)]
  /\ MaxFaults = 0 => pc \notin {"each", "encode each"}

\* Such a step of a stage keeps the promise.
LEMMA MoveKeeps ==
  ASSUME RInv, CInv, call # NoCall, NEW s \in Stages, ~InStage(s, "done"),
         UNCHANGED <<call, doomed, receipt>>, TablesKept', StillLanded,
         NEW pc, NEW outcomes, Lists(s, pc, outcomes)
  PROVE  CInv'
<1> USE DEF Lists
<1>1. /\ stage'[s] = [pc |-> pc, outcomes |-> outcomes]
      /\ \A x \in Stages \ {s} : stage'[x] = stage[x]
  BY ZenonT(60) DEF RInv
<1>10. /\ stage'[s].pc = pc /\ stage'[s].outcomes = outcomes
       /\ call' = call
  <2>1. stage'[s].pc = pc
    BY ONLY <1>1
  <2>2. stage'[s].outcomes = outcomes
    BY ONLY <1>1
  <2>3. call' = call
    OBVIOUS
  <2> QED
    BY ONLY <2>1, <2>2, <2>3
<1>2. ASSUME NEW x \in Stages PROVE Ended(x)'
  <2>1. CASE x = s
    <3> SUFFICES ASSUME stage'[s].pc = "done"
                 PROVE  \/ Len(stage'[s].outcomes) = Len(call'.records)
                        \/ /\ call'.mode = "strict"
                           /\ Len(stage'[s].outcomes) > 0
                           /\ ~stage'[s].outcomes[Len(stage'[s].outcomes)]
      BY <2>1 DEF Ended, InStage
    <3> QED
      BY <1>10
  <2>2. CASE x # s
    BY <1>1, <2>2 DEF CInv, Underway, Ended, InStage
  <2> QED
    BY <2>1, <2>2
<1>3. Underway'
  BY <1>2 DEF CInv, Underway
<1>4. ASSUME NEW x \in Stages, NEW i \in DOMAIN stage'[x].outcomes, stage'[x].outcomes[i]
      PROVE  Landed(x, call.records[i])'
  <2>1. CASE x = s
    <3>1. i \in DOMAIN outcomes /\ outcomes[i]
      BY ONLY <1>4, <1>10, <2>1, i \in DOMAIN stage'[x].outcomes
    <3> QED
      BY <2>1, <3>1
  <2>2. CASE x # s
    <3>1. stage'[x] = stage[x]
      BY <1>1, <2>2
    <3>2. i \in DOMAIN stage[x].outcomes
      BY ONLY <3>1, i \in DOMAIN stage'[x].outcomes
    <3>3. i \in DOMAIN call.records
      BY <3>2, OutcomesOfRecords
    <3>4. Landed(x, call.records[i])
      BY <1>4, <3>1, <3>2 DEF CInv, Listed
    <3> QED
      BY <3>3, <3>4 DEF StillLanded
  <2> QED
    BY <2>1, <2>2
<1>5. Listed'
  BY <1>4 DEF Listed
<1>6. MaxFaults = 0 => \A x \in Stages : stage'[x].pc \notin {"each", "encode each"}
  <2> SUFFICES ASSUME MaxFaults = 0, NEW x \in Stages
               PROVE  stage'[x].pc \notin {"each", "encode each"}
    OBVIOUS
  <2>1. CASE x = s
    BY <1>10, <2>1
  <2>2. CASE x # s
    BY <1>1, <2>2 DEF CInv
  <2> QED
    BY <2>1, <2>2
<1> QED
  BY <1>3, <1>5, <1>6, <1>10 DEF CInv

\* Going on to another way of writing lists nothing.
LEMMA GoKeeps ==
  ASSUME RInv, CInv, call # NoCall, NEW s \in Stages, ~InStage(s, "done"),
         UNCHANGED <<tables, call, doomed, receipt>>,
         NEW pc, pc # "done", Go(s, pc),
         MaxFaults = 0 => pc \notin {"each", "encode each"}
  PROVE  CInv'
<1>1. PICK outcomes \in Seq(BOOLEAN) : outcomes = stage[s].outcomes
  BY DEF RInv
<1>2. stage' = [stage EXCEPT ![s] = [pc |-> pc, outcomes |-> outcomes]]
  <2>1. PICK now \in [pc : StagePCs, outcomes : Seq(BOOLEAN)] : now = stage[s]
    BY DEF RInv
  <2>2. [now EXCEPT !.pc = pc] = [pc |-> pc, outcomes |-> outcomes]
    BY <1>1, <2>1, WithPC
  <2> QED
    BY <2>1, <2>2 DEF Go
<1>3. TablesKept' /\ StillLanded
  BY TablesStand, ListStands DEF CInv
<1>4. \A i \in DOMAIN outcomes : outcomes[i] => Landed(s, call.records[i])'
  <2>1. \A i \in DOMAIN outcomes : outcomes[i] => Landed(s, call.records[i])
    BY <1>1 DEF CInv, Listed
  <2>2. \A i \in DOMAIN outcomes : i \in DOMAIN call.records
    BY <1>1, OutcomesOfRecords
  <2> QED
    BY <1>3, <2>1, <2>2 DEF StillLanded
<1> QED
  <2>1. Lists(s, pc, outcomes)
    BY <1>2, <1>4 DEF Lists
  <2> QED
    BY <1>3, <2>1, MoveKeeps

\* A batch that is written: every record is listed.
LEMMA CommittedKeeps ==
  ASSUME RInv, CInv, call # NoCall, NEW s \in Stages, ~InStage(s, "done"),
         UNCHANGED <<call, doomed, receipt>>, TablesKept', StillLanded,
         \A i \in DOMAIN call.records : Landed(s, call.records[i])', Committed(s)
  PROVE  CInv'
<1> PICK q \in Bundles : q = call.records
  BY DEF RInv, Busy
<1> PICK n \in Nat : n = Len(q) /\ DOMAIN q = 1..n
  BY RecordsOfBundle
<1>1. PICK outcomes : outcomes = [i \in 1..n |-> TRUE]
  OBVIOUS
<1>2. outcomes \in Seq(BOOLEAN) /\ Len(outcomes) = n /\ DOMAIN outcomes = 1..n
  BY <1>1, FunctionIsSeq
<1>3. stage' = [stage EXCEPT ![s] = [pc |-> "done", outcomes |-> outcomes]]
  BY <1>1 DEF Committed
<1>4. \A i \in DOMAIN outcomes : outcomes[i] => Landed(s, call.records[i])'
  BY <1>2, Zenon
<1>5. Len(outcomes) = Len(call.records)
  BY <1>2
<1> QED
  <2> PICK pc : pc = "done"
    OBVIOUS
  <2>1. stage' = [stage EXCEPT ![s] = [pc |-> pc, outcomes |-> outcomes]]
    BY <1>3
  <2>2. MaxFaults = 0 => pc \notin {"each", "encode each"}
    OBVIOUS
  <2> QED
    <3>1. Lists(s, pc, outcomes)
      BY <1>2, <1>4, <1>5, <2>1, <2>2 DEF Lists
    <3> QED
      BY <3>1, MoveKeeps

\* One outcome more, of the next record.
LEMMA ReportKeeps ==
  ASSUME RInv, CInv, call # NoCall, NEW s \in Stages, ~InStage(s, "done"),
         UNCHANGED <<call, doomed, receipt>>, TablesKept', StillLanded,
         NEW ok \in BOOLEAN, Report(s, ok),
         NEW next, next = Len(stage[s].outcomes) + 1,
         ok => Landed(s, call.records[next])'
  PROVE  CInv'
<1> PICK q \in Bundles : q = call.records
  BY DEF RInv, Busy
<1>1. PICK before \in Seq(BOOLEAN) : before = stage[s].outcomes
  BY DEF RInv
<1> PICK n \in Nat : n = Len(before) /\ DOMAIN before = 1..n
  OBVIOUS
<1>2. n < Len(q) /\ Len(q) \in Nat /\ DOMAIN q = 1..Len(q)
  BY <1>1, RecordsOfBundle DEF RInv
<1> PICK outcomes \in Seq(BOOLEAN) : outcomes = Append(before, ok)
  BY AppendProperties
<1>3. /\ Len(outcomes) = n + 1 /\ DOMAIN outcomes = 1..(n + 1)
      /\ \A i \in 1..n : outcomes[i] = before[i]
      /\ outcomes[n + 1] = ok
  BY AppendProperties
<1>4. PICK pc :
        /\ pc = IF Len(outcomes) = Len(q) \/ (~ok /\ call.mode = "strict")
                THEN "done" ELSE stage[s].pc
        /\ stage' = [stage EXCEPT ![s] = [pc |-> pc, outcomes |-> outcomes]]
  BY <1>1, <1>3 DEF Report, RInv
<1>5. pc = "done" =>
        \/ Len(outcomes) = Len(call.records)
        \/ call.mode = "strict" /\ Len(outcomes) > 0 /\ ~outcomes[Len(outcomes)]
  BY <1>3, <1>4 DEF InStage
<1>6. MaxFaults = 0 => pc \notin {"each", "encode each"}
  BY <1>4 DEF CInv
<1>7. ASSUME NEW i \in DOMAIN outcomes, outcomes[i] PROVE Landed(s, call.records[i])'
  <2>1. CASE i = n + 1
    <3>1. next = i
      BY <1>1, <2>1
    <3>2. ok
      BY <1>3, <1>7, <2>1
    <3> QED
      BY <3>1, <3>2
  <2>2. CASE i # n + 1
    <3>1. i \in 1..n /\ i \in DOMAIN q
      BY <1>2, <1>3, <2>2
    <3>2. Landed(s, call.records[i])
      BY <1>1, <1>3, <1>7, <3>1 DEF CInv, Listed
    <3> QED
      BY <3>1, <3>2 DEF StillLanded
  <2> QED
    BY <2>1, <2>2
<1> QED
  <2>1. Lists(s, pc, outcomes)
    BY <1>4, <1>5, <1>6, <1>7 DEF Lists
  <2> QED
    BY <2>1, MoveKeeps

\* A stage that works works for a call.
LEMMA WorksForCall ==
  ASSUME CInv, NEW s \in Stages, ~InStage(s, "done")
  PROVE  call # NoCall
<1>1. Waiting.pc = "done"
  BY DEF Waiting
<1> QED
  BY <1>1, Zenon DEF CInv, InStage

\* Without a fault nobody falls back.
LEMMA FallsBack ==
  ASSUME RInv, Fault
  PROVE  MaxFaults # 0
  BY DEF RInv, Fault

\* Writing one record of a call makes no other chunk of it stale.
LEMMA OneIsGentle ==
  ASSUME CleanlySplit, MaxFaults # 0, NEW q \in Bundles, q = call.records,
         NEW sources, Handed(q, sources), NEW batch,
         NEW i \in DOMAIN q, DOMAIN batch = {q[i].key}
  PROVE  Gentle(batch)
<1>0. \A d \in Docs, v \in Versions : \A b, c \in ToSet(ChunksAt[d][v]) : b = c
  BY DEF CleanlySplit
<1> SUFFICES ASSUME NEW c \in Stale(batch), c \in KeysOf(q) PROVE FALSE
  BY DEF Gentle
<1>1. q[i].key \in Chunks /\ c \in Chunks /\ c # q[i].key /\ ParentOf[c] = ParentOf[q[i].key]
  BY DEF Stale
<1> PICK j \in DOMAIN q : q[j].key = c
  BY DEF KeysOf
<1> PICK d \in Docs : d = ParentOf[c]
  BY <1>1
<1>2. SourceOf(q[i].key) = d /\ SourceOf(q[j].key) = d
  BY <1>1 DEF SourceOf
<1> PICK v \in Versions : v = q[i].version
  BY RecordsOfBundle
<1>3. q[i].key \in Parts(d, v) /\ c \in Parts(d, v)
  BY <1>2 DEF Handed
<1>4. q[i].key \in ToSet(ChunksAt[d][v]) /\ c \in ToSet(ChunksAt[d][v])
  BY <1>1, <1>3 DEF Parts
<1> QED
  BY ONLY <1>0, <1>1, <1>4, d \in Docs, v \in Versions

\* The keyword and the semantic thread.
LEMMA StageStepKeeps ==
  ASSUME RInv, CInv, CleanlySplit, NEW s \in Stages, StageStep(s)
  PROVE  CInv'
<1>1. CASE UNCHANGED <<tables, call, stage, doomed, receipt>>
  <2>1. TablesKept'
    BY <1>1, TablesStand DEF CInv
  <2>2. /\ rec' = rec /\ vec' = vec /\ call' = call
        /\ stage' = stage /\ doomed' = doomed /\ receipt' = receipt
    BY <1>1 DEF tables
  <2>3. Underway => Underway'
    BY <2>2 DEF Underway, Ended, InStage
  <2>4. Listed'
    <3> SUFFICES ASSUME NEW x \in Stages, NEW i \in DOMAIN stage[x].outcomes,
                        stage[x].outcomes[i]
                 PROVE  Landed(x, call.records[i])'
      BY <2>2 DEF Listed
    <3>1. Landed(x, call.records[i])
      BY DEF CInv, Listed
    <3> QED
      BY <2>2, <3>1 DEF Landed
  <2> QED
    BY <2>1, <2>2, <2>3, <2>4 DEF CInv
<1>2. CASE AskToWrite(s) \/ Store(WakeUp(s))
  BY <1>1, <1>2 DEF AskToWrite, Store, WakeUp, ingestVars
<1> PICK q : q = call.records
  OBVIOUS
<1>3. ASSUME ~InStage(s, "done")
      PROVE  /\ call # NoCall
             /\ q \in Bundles /\ Batch(q) \in Batches
             /\ Handed(q, call.sources)
  <2>1. call # NoCall
    BY <1>3, WorksForCall
  <2>2. q \in Bundles
    BY <2>1 DEF RInv, Busy
  <2>3. q \in Seq(Items)
    BY <2>2 DEF Bundles
  <2> QED
    BY <2>1, <2>2, <2>3, BatchOfItems DEF CInv, Underway
<1>4. CASE WriteBatch(s)
  <2>1. ~InStage(s, "done") /\ UNCHANGED <<call, doomed, receipt>>
    BY <1>4 DEF WriteBatch, InStage
  <2>2. CASE Write(s, Batch(q)) /\ Committed(s)
    <3>1. DOMAIN Batch(q) = KeysOf(q) /\ Within(Batch(q), q)
      BY <1>3, <2>1, WholeBatch
    <3>2. Gentle(Batch(q))
      BY <3>1 DEF Gentle, Stale
    <3>3. /\ TablesKept'
          /\ StillLanded
          /\ \A i \in DOMAIN q : q[i].key \in DOMAIN Batch(q) => Landed(s, q[i])'
      BY <1>3, <2>1, <2>2, <3>1, <3>2, WriteKeeps
    <3>4. \A i \in DOMAIN call.records : Landed(s, call.records[i])'
      <4>1. \A i \in DOMAIN q : q[i].key \in KeysOf(q)
        BY DEF KeysOf
      <4> QED
        BY <2>1, <3>1, <3>3, <4>1
    <3> QED
      BY <1>3, <2>1, <2>2, <3>3, <3>4, CommittedKeeps
  <2>3. CASE UNCHANGED tables /\ Go(s, "each") /\ Fault
    <3>1. MaxFaults # 0
      BY <2>3, FallsBack
    <3> QED
      BY <1>3, <2>1, <2>3, <3>1, GoKeeps
  <2> QED
    BY <1>4, <2>2, <2>3 DEF WriteBatch
<1>5. CASE WriteOne(s)
  <2>1. ~InStage(s, "done") /\ UNCHANGED <<call, doomed, receipt>>
    BY <1>5 DEF WriteOne, InStage
  <2>2. MaxFaults # 0
    BY <1>5 DEF WriteOne, InStage, CInv
  <2> PICK n \in Nat : n = Len(stage[s].outcomes)
    BY DEF RInv
  <2>3. n + 1 \in DOMAIN q
    <3>1. n < Len(q)
      BY <2>1 DEF RInv
    <3> QED
      BY <1>3, <2>1, <3>1, RecordsOfBundle
  <2>4. NextRecord(s) = q[n + 1]
    BY DEF NextRecord
  <2>5. CASE Write(s, Batch(<<NextRecord(s)>>)) /\ Report(s, TRUE)
    <3> PICK batch : batch = Batch(<<q[n + 1]>>)
      OBVIOUS
    <3>1. DOMAIN batch = {q[n + 1].key} /\ Within(batch, q)
      BY <1>3, <2>1, <2>3, OneBatch
    <3>2. Gentle(batch)
      BY <1>3, <2>1, <2>2, <2>3, <3>1, OneIsGentle
    <3>3. batch \in Batches
      <4> PICK item \in Items : item = q[n + 1]
        BY <1>3, <2>1, <2>3 DEF Bundles
      <4>1. <<item>> \in Seq(Items)
        OBVIOUS
      <4> QED
        BY <4>1, BatchOfItems
    <3>4. Write(s, batch)
      BY <2>4, <2>5
    <3>5. /\ TablesKept'
          /\ StillLanded
          /\ \A i \in DOMAIN q : q[i].key \in DOMAIN batch => Landed(s, q[i])'
      BY <1>3, <2>1, <3>1, <3>2, <3>3, <3>4, WriteKeeps
    <3>6. Landed(s, q[n + 1])'
      BY <2>3, <3>1, <3>5
    <3>7. \E ok \in BOOLEAN : ok /\ Report(s, ok)
      BY <2>5
    <3> PICK ok \in BOOLEAN : ok /\ Report(s, ok)
      BY <3>7
    <3>8. n + 1 = Len(stage[s].outcomes) + 1
      OBVIOUS
    <3> QED
      BY <1>3, <2>1, <3>5, <3>6, <3>8, ReportKeeps
  <2>6. CASE UNCHANGED tables /\ Report(s, FALSE)
    <3>1. TablesKept' /\ StillLanded
      BY <2>1, <2>6, TablesStand, ListStands DEF CInv
    <3> QED
      BY <1>3, <2>1, <2>6, <3>1, ReportKeeps
  <2> QED
    BY <1>5, <2>5, <2>6 DEF WriteOne
<1>6. CASE s = "semantic" /\ EncodeBatch
  <2>1. ~InStage(s, "done") /\ UNCHANGED <<tables, call, doomed, receipt>>
    BY <1>6 DEF EncodeBatch, InStage, storeVars
  <2>2. CASE Go(s, "batch")
    BY <1>3, <2>1, <2>2, GoKeeps
  <2>3. CASE Go(s, "encode each") /\ Fault
    <3>1. MaxFaults # 0
      BY <2>3, FallsBack
    <3> QED
      BY <1>3, <2>1, <2>3, <3>1, GoKeeps
  <2> QED
    BY <1>6, <2>2, <2>3 DEF EncodeBatch
<1>7. CASE s = "semantic" /\ EncodeFails
  <2>1. ~InStage(s, "done") /\ UNCHANGED <<tables, call, doomed, receipt>> /\ Report(s, FALSE)
    BY <1>7 DEF EncodeFails, InStage, storeVars
  <2>2. TablesKept' /\ StillLanded
    BY <2>1, TablesStand, ListStands DEF CInv
  <2> QED
    BY <1>3, <2>1, <2>2, ReportKeeps
<1> QED
  BY <1>2, <1>4, <1>5, <1>6, <1>7 DEF StageStep

-----------------------------------------------------------------------------
(* The steps of the callers keep the promise                               *)

\* A new call: nobody counts on the records it is going to write.
LEMMA IndexRecordsKeeps == ASSUME RInv, CInv, IndexRecords PROVE CInv'
<1> PICK D \in (SUBSET Pending) \ {{}}, mode \in Modes : \E order \in SetToSeqs(D) :
       /\ call' = [sources |-> order, mode |-> mode,
                   records |-> FlattenSeq([i \in DOMAIN order |-> Expand(order[i])])]
       /\ receipt' = [d \in Docs |-> IF d \in D THEN 0 ELSE receipt[d]]
  BY Zenon DEF IndexRecords
<1> PICK order \in SetToSeqs(D) :
       /\ call' = [sources |-> order, mode |-> mode,
                   records |-> FlattenSeq([i \in DOMAIN order |-> Expand(order[i])])]
       /\ receipt' = [d \in Docs |-> IF d \in D THEN 0 ELSE receipt[d]]
  OBVIOUS
<1>1. D \in SUBSET Pending /\ D # {} /\ D \subseteq Docs
  BY DEF Pending
<1> PICK q : q = FlattenSeq([i \in DOMAIN order |-> Expand(order[i])])
  OBVIOUS
<1>2. Handed(q, order) /\ order \in Seq(Docs) /\ order # <<>> /\ \A h \in DOMAIN order : order[h] \in D
  BY <1>1, CallHanded
<1>3. call'.sources = order /\ call'.records = q /\ call' # NoCall
  BY <1>2 DEF NoCall
<1>4. /\ UNCHANGED <<rec, vec, doomed>> /\ doomed = {}
      /\ stage' = [keyword |-> [pc |-> "batch", outcomes |-> <<>>],
                   semantic |-> [pc |-> "encode", outcomes |-> <<>>]]
  BY DEF IndexRecords, storeVars, tables
<1>5. \A s \in Stages :
        /\ stage'[s].pc \in {"batch", "encode"}
        /\ DOMAIN stage'[s].outcomes = {}
  BY <1>4 DEF Stages
<1>6. TablesKept'
  <2>1. \A d \in Docs : receipt'[d] \in {0, receipt[d]}
    OBVIOUS
  <2>2. \A d \in Docs : receipt'[d] # 0 => receipt'[d] = receipt[d]
    BY <2>1
  <2>3. CommittedIsIndexed'
    BY <1>4, <2>2 DEF CInv, TablesKept, CommittedIsIndexed
  <2> QED
    BY <1>4, <2>3 DEF CInv, TablesKept
<1>7. Underway'
  <2>1. \A h \in DOMAIN order : receipt'[order[h]] = 0
    BY <1>1, <1>2
  <2>2. \A s \in Stages : Ended(s)'
    BY <1>5 DEF Ended, InStage
  <2> QED
    BY <1>2, <1>3, <1>4, <2>1, <2>2 DEF Underway
<1>8. Listed'
  BY <1>5 DEF Listed
<1>9. \A s \in Stages : stage'[s].pc \notin {"each", "encode each"}
  BY <1>5
<1> QED
  BY <1>3, <1>4, <1>6, <1>7, <1>8, <1>9 DEF CInv

\* A record merged from both stages has all its parts listed by each.
LEMMA MergedIsListed ==
  ASSUME RInv, CInv, call # NoCall, \A s \in Stages : InStage(s, "done"),
         NEW d \in Merged, NEW s \in Stages,
         NEW i \in DOMAIN call.records, SourceOf(call.records[i].key) = d
  PROVE  Landed(s, call.records[i])
<1> PICK q \in Bundles : q = call.records
  BY DEF RInv, Busy
<1> PICK sources \in Seq(Docs) : sources = call.sources
  BY DEF CInv, Underway
<1> PICK j \in DOMAIN sources :
       /\ sources[j] = d
       /\ Collapsed(s, d)
       /\ call.mode = "strict" => \A h \in 1..j : Collapsed(s, sources[h])
  BY DEF Merged
<1> PICK outcomes \in Seq(BOOLEAN) : outcomes = stage[s].outcomes
  BY DEF RInv
<1> PICK n \in Nat : n = Len(outcomes) /\ DOMAIN outcomes = 1..n
  OBVIOUS
<1> PICK m \in Nat : m = Len(q) /\ DOMAIN q = 1..m
  BY RecordsOfBundle
<1>1. Handed(q, sources) /\ Ended(s)
  BY DEF CInv, Underway
<1>2. n <= m
  BY DEF RInv, Busy
<1>3. i \in 1..n
  <2>1. CASE n = m
    BY <2>1
  <2>2. CASE n # m
    <3>1. call.mode = "strict" /\ n > 0 /\ ~outcomes[n]
      BY <1>1, <2>2 DEF Ended
    <3>2. n \in DOMAIN outcomes /\ n \in DOMAIN q
      BY <1>2, <3>1
    <3> PICK h \in DOMAIN sources : sources[h] = SourceOf(q[n].key)
      BY <1>1, <3>2 DEF Handed
    <3>3. ~Collapsed(s, sources[h])
      BY <3>1, <3>2 DEF Collapsed
    <3>4. h \in Nat /\ j \in Nat /\ h > 0
      OBVIOUS
    <3>5. j < h
      <4> SUFFICES ASSUME ~(j < h) PROVE FALSE
        OBVIOUS
      <4>1. h \in 1..j
        BY <3>4
      <4> QED
        BY <3>1, <3>3, <4>1
    <3>6. i < n
      <4>1. \A a, b \in DOMAIN q : \A g, f \in DOMAIN sources :
              /\ SourceOf(q[a].key) = sources[g]
              /\ SourceOf(q[b].key) = sources[f]
              /\ g < f
              => a < b
        BY <1>1 DEF Handed
      <4>2. SourceOf(q[i].key) = sources[j] /\ i \in DOMAIN q
        OBVIOUS
      <4> QED
        BY ONLY <3>2, <3>5, <4>1, <4>2, j \in DOMAIN sources, h \in DOMAIN sources,
                sources[h] = SourceOf(q[n].key)
    <3> QED
      BY <3>6
  <2> QED
    BY <2>1, <2>2
<1>4. stage[s].outcomes[i] /\ i \in DOMAIN stage[s].outcomes
  BY <1>3 DEF Collapsed
<1> QED
  BY <1>4 DEF CInv, Listed

\* A record that a receipt is about to call committed is indexed.
LEMMA MergedIsIndexed ==
  ASSUME RInv, CInv, CleanlySplit, call # NoCall, \A s \in Stages : InStage(s, "done"),
         NEW d \in Merged, NEW k \in Keys, SourceOf(k) = d
  PROVE  IF k \in Parts(d, VersionRead(d))
         THEN rec[k] = VersionRead(d) /\ vec[k] = VersionRead(d)
         ELSE rec[k] = 0 /\ vec[k] = 0
<1> PICK q \in Bundles : q = call.records
  BY DEF RInv, Busy
<1> PICK sources \in Seq(Docs) : sources = call.sources
  BY DEF CInv, Underway
<1> PICK j \in DOMAIN sources : sources[j] = d
  BY DEF Merged
<1>1. Handed(q, sources)
  BY DEF CInv, Underway
<1> PICK v : v = VersionIn(q, d)
  OBVIOUS
<1>2. VersionRead(d) = v
  BY DEF VersionRead, VersionIn
<1>3. d \in Docs /\ SourceOf(d) = d
  BY DEF SourceOf
<1>4. \A x \in Parts(d, v) : \E i \in DOMAIN q : q[i].key = x
  <2>1. Parts(d, v) \subseteq KeysOf(q)
    BY <1>1 DEF Handed
  <2> QED
    BY ONLY <2>1 DEF KeysOf
<1>5. \A i \in DOMAIN q :
        SourceOf(q[i].key) = d => q[i].version = v /\ q[i].key \in Parts(d, v)
  BY <1>1 DEF Handed
<1>6. v \in Versions
  <2> PICK i \in DOMAIN q : q[i].key = d
    BY <1>4 DEF Parts
  <2>1. SourceOf(q[i].key) = d
    BY <1>3
  <2>2. q[i].version = v
    BY <1>5, <2>1
  <2> QED
    BY <2>2, RecordsOfBundle
<1>7. \A i \in DOMAIN q : SourceOf(q[i].key) = d =>
        \A s \in Stages : Landed(s, q[i])
  BY MergedIsListed
<1>8. "keyword" \in Stages /\ "semantic" \in Stages
  BY DEF Stages
<1>9. CASE k \in Parts(d, v)
  <2> PICK i \in DOMAIN q : q[i].key = k
    BY <1>4, <1>9
  <2>1. Landed("keyword", q[i]) /\ Landed("semantic", q[i]) /\ q[i].version = v
    BY <1>5, <1>7, <1>8
  <2>2. rec[k] = v /\ vec[k] = v
    BY <2>1 DEF Landed
  <2> QED
    BY <1>2, <1>9, <2>2
<1>10. CASE k \notin Parts(d, v)
  <2>1. k \in Chunks /\ ParentOf[k] = d
    BY <1>3, <1>10 DEF Parts, SourceOf, Keys
  <2>2. rec[k] = 0
    <3>1. CASE ToSet(ChunksAt[d][v]) = {}
      <4>1. ~Splits(ParentOf[k])
        BY <1>6, <2>1, <3>1 DEF Splits
      <4> QED
        BY <2>1, <4>1 DEF CInv, TablesKept
    <3>2. CASE ToSet(ChunksAt[d][v]) # {}
      <4> PICK c \in ToSet(ChunksAt[d][v]) : c \in Parts(d, v)
        BY <3>2 DEF Parts
      <4>1. c \in Chunks /\ ParentOf[c] = d
        BY <1>3, <1>6
      <4> PICK i \in DOMAIN q : q[i].key = c
        BY <1>4
      <4>2. Landed("keyword", q[i])
        BY <1>7, <1>8, <4>1 DEF SourceOf
      <4>3. k \notin KeysOf(q)
        <5> SUFFICES ASSUME NEW b \in DOMAIN q, q[b].key = k PROVE FALSE
          BY DEF KeysOf
        <5>1. SourceOf(q[b].key) = d
          OBVIOUS
        <5>2. q[b].key \in Parts(d, v)
          BY <1>5, <5>1
        <5> QED
          BY <1>10, <5>2
      <4> QED
        BY <2>1, <4>1, <4>2, <4>3 DEF Landed
    <3> QED
      BY <3>1, <3>2
  <2>3. vec[k] = 0
    BY <2>2 DEF CInv, TablesKept
  <2> QED
    BY <1>2, <1>10, <2>2, <2>3
<1> QED
  BY <1>9, <1>10

\* The receipt of a call.
LEMMA ReturnKeeps == ASSUME RInv, CInv, CleanlySplit, Return PROVE CInv'
<1>1. /\ call # NoCall /\ \A s \in Stages : InStage(s, "done")
      /\ receipt' = [d \in Docs |-> IF d \in Merged THEN VersionRead(d) ELSE receipt[d]]
      /\ call' = NoCall
      /\ stage' = [s \in Stages |-> Waiting]
      /\ UNCHANGED <<rec, vec, doomed>>
  BY DEF Return, storeVars, tables
<1>2. CommittedIsIndexed'
  <2> SUFFICES ASSUME NEW d \in Docs, receipt'[d] # 0, NEW k \in Keys, SourceOf(k) = d
               PROVE  IF k \in Parts(d, receipt'[d])
                      THEN rec[k] = receipt'[d] /\ vec[k] = receipt'[d]
                      ELSE rec[k] = 0 /\ vec[k] = 0
    BY <1>1 DEF CommittedIsIndexed, Parts, SourceOf
  <2>1. CASE d \in Merged
    <3>1. receipt'[d] = VersionRead(d)
      BY <1>1, <2>1
    <3> QED
      BY <1>1, <2>1, <3>1, MergedIsIndexed
  <2>2. CASE d \notin Merged
    <3>1. receipt'[d] = receipt[d]
      BY <1>1, <2>2
    <3> QED
      BY <3>1 DEF CInv, TablesKept, CommittedIsIndexed, Parts
  <2> QED
    BY <2>1, <2>2
<1>3. TablesKept'
  BY <1>1, <1>2 DEF CInv, TablesKept
<1>4. doomed' = {}
  BY <1>1 DEF CInv, Underway
<1>5. \A s \in Stages : stage'[s] = Waiting
  BY <1>1
<1>6. Waiting.pc = "done" /\ DOMAIN Waiting.outcomes = {}
  BY DEF Waiting
<1>7. Listed'
  BY <1>5, <1>6 DEF Listed
<1>8. \A s \in Stages : stage'[s].pc \notin {"each", "encode each"}
  BY <1>5, <1>6
<1> QED
  BY <1>1, <1>3, <1>4, <1>5, <1>7, <1>8 DEF CInv

\* A delete under the lock: the records it removes are promised to nobody.
LEMMA CommitDeleteKeeps == ASSUME RInv, CInv, CommitDelete PROVE CInv'
<1>1. /\ rec' = [k \in Keys |-> IF k \in doomed THEN 0 ELSE rec[k]]
      /\ vec' = [k \in Keys |-> IF k \in doomed THEN 0 ELSE vec[k]]
      /\ doomed' = {}
      /\ call' = call /\ stage' = stage /\ receipt' = receipt
  BY DEF CommitDelete, Delete
<1>2. CommittedIsIndexed'
  <2>1. ASSUME NEW k \in Keys, receipt[SourceOf(k)] # 0
        PROVE  rec'[k] = rec[k] /\ vec'[k] = vec[k]
    BY <1>1, <2>1 DEF CInv
  <2> SUFFICES ASSUME NEW d \in Docs, receipt[d] # 0, NEW k \in Keys, SourceOf(k) = d
               PROVE  IF k \in Parts(d, receipt[d])
                      THEN rec'[k] = receipt[d] /\ vec'[k] = receipt[d]
                      ELSE rec'[k] = 0 /\ vec'[k] = 0
    BY <1>1 DEF CommittedIsIndexed, Parts, SourceOf
  <2>2. IF k \in Parts(d, receipt[d])
        THEN rec[k] = receipt[d] /\ vec[k] = receipt[d]
        ELSE rec[k] = 0 /\ vec[k] = 0
    BY DEF CInv, TablesKept, CommittedIsIndexed, Parts
  <2> QED
    BY <2>1, <2>2
<1>3. TablesKept'
  <2>1. \A k \in Keys : vec'[k] # 0 => rec'[k] # 0
    BY <1>1 DEF CInv, TablesKept
  <2>2. \A c \in Chunks : rec'[c] # 0 => Splits(ParentOf[c])
    BY <1>1 DEF CInv, TablesKept, Keys
  <2> QED
    BY <1>2, <2>1, <2>2 DEF TablesKept, Splits
<1>4. Underway => Underway'
  BY <1>1 DEF Underway, Ended, InStage
<1>5. ASSUME NEW x \in Stages, NEW i \in DOMAIN stage[x].outcomes, stage[x].outcomes[i]
      PROVE  Landed(x, call.records[i])'
  <2>1. call # NoCall
    <3>1. DOMAIN Waiting.outcomes = {}
      BY DEF Waiting
    <3> QED
      BY <3>1, Zenon DEF CInv
  <2>2. doomed = {}
    BY <2>1 DEF CInv, Underway
  <2>3. i \in DOMAIN call.records /\ call.records \in Bundles
    BY <2>1, OutcomesOfRecords DEF RInv, Busy
  <2>4. call.records[i].key \in Keys
    BY <2>3, RecordsOfBundle
  <2>5. Landed(x, call.records[i])
    BY <1>5 DEF CInv, Listed
  <2>6. \A k \in Keys : rec'[k] = rec[k] /\ vec'[k] = vec[k]
    BY <1>1, <2>2
  <2> QED
    BY <1>1, <2>4, <2>5, <2>6 DEF Landed, Keys
<1>6. Listed'
  BY <1>1, <1>5 DEF Listed
<1> QED
  BY <1>1, <1>3, <1>4, <1>6 DEF CInv

\* Steps that leave the tables, the calls and the receipts alone.
LEMMA StandsKeeps ==
  ASSUME RInv, CInv, UNCHANGED <<tables, call, stage, doomed, receipt>>
  PROVE  CInv'
<1>1. TablesKept'
  BY TablesStand DEF CInv
<1>2. /\ rec' = rec /\ vec' = vec /\ call' = call
      /\ stage' = stage /\ doomed' = doomed /\ receipt' = receipt
  BY DEF tables
<1>3. Underway => Underway'
  BY <1>2 DEF Underway, Ended, InStage
<1>4. Listed'
  <2> SUFFICES ASSUME NEW x \in Stages, NEW i \in DOMAIN stage[x].outcomes,
                      stage[x].outcomes[i]
               PROVE  Landed(x, call.records[i])'
    BY <1>2 DEF Listed
  <2>1. Landed(x, call.records[i])
    BY DEF CInv, Listed
  <2> QED
    BY <1>2, <2>1 DEF Landed
<1> QED
  BY <1>1, <1>2, <1>3, <1>4 DEF CInv

\* A delete is asked for: the receipt of the record is taken back first.
LEMMA DeleteRecordKeeps ==
  ASSUME RInv, CInv, NEW d \in Docs, DeleteRecord(d)
  PROVE  CInv'
<1>1. /\ call = NoCall /\ doomed' = {d} \cup {c \in Chunks : ParentOf[c] = d}
      /\ receipt' = [receipt EXCEPT ![d] = 0]
      /\ rec' = rec /\ vec' = vec /\ call' = call /\ stage' = stage
  BY DEF DeleteRecord, tables
<1>2. receipt \in [Docs -> Stored]
  BY DEF RInv
<1>3. \A x \in Docs : receipt'[x] # 0 => receipt'[x] = receipt[x]
  BY <1>1, <1>2
<1>4. CommittedIsIndexed'
  BY <1>1, <1>3 DEF CInv, TablesKept, CommittedIsIndexed
<1>5. TablesKept'
  BY <1>1, <1>4 DEF CInv, TablesKept
<1>6. \A k \in doomed' : SourceOf(k) = d
  BY <1>1 DEF SourceOf
<1>7. \A k \in doomed' : receipt'[SourceOf(k)] = 0
  BY <1>1, <1>2, <1>6
<1>8. DOMAIN Waiting.outcomes = {}
  BY DEF Waiting
<1>9. Listed'
  BY <1>1, <1>8 DEF CInv, Listed
<1> QED
  BY <1>1, <1>5, <1>7, <1>9 DEF CInv

\* No record is indexed or promised at first.
LEMMA InitKeeps == Init => CInv
<1> SUFFICES ASSUME Init PROVE CInv
  OBVIOUS
<1>1. TablesKept
  BY DEF Init, StoreInit, TablesKept, CommittedIsIndexed, Keys
<1>2. Waiting.pc = "done" /\ DOMAIN Waiting.outcomes = {}
  BY DEF Waiting
<1>3. \A s \in Stages : stage[s] = Waiting
  BY DEF Init
<1>4. Listed
  BY <1>2, <1>3 DEF Listed
<1> QED
  BY <1>1, <1>2, <1>3, <1>4 DEF Init, CInv

\* Every step keeps the promise.
LEMMA StepKeeps == CleanlySplit /\ RInv /\ CInv /\ [Next]_vars => CInv'
<1> SUFFICES ASSUME CleanlySplit, RInv, CInv, [Next]_vars PROVE CInv'
  OBVIOUS
<1>1. CASE UNCHANGED vars
  BY <1>1, StandsKeeps DEF vars, storeVars, ingestVars
<1>2. CASE IndexRecords \/ Return \/ CommitDelete
  BY <1>2, IndexRecordsKeeps, ReturnKeeps, CommitDeleteKeeps
<1>3. CASE Store(WakeUp("deletion"))
  BY <1>3, StandsKeeps DEF Store, WakeUp, ingestVars
<1>4. CASE \E s \in Stages : StageStep(s)
  BY <1>4, StageStepKeeps
<1>5. ASSUME NEW r \in Readers, SearchVector(r) \/ ReaderStep(r) PROVE CInv'
  <2>1. UNCHANGED <<tables, call, stage, doomed, receipt>>
    BY <1>5 DEF SearchVector, ReaderStep, Store, WakeUp, ingestVars, Search, BeginSearch,
       AskStats, CountVectors, AskSnapshot, ServeCached, LoadRows, LabelRows, KeepSnapshot,
       ReturnHits
  <2> QED
    BY <2>1, StandsKeeps
<1>6. ASSUME NEW d \in Docs, Change(d) PROVE CInv'
  BY <1>6, StandsKeeps DEF Change, storeVars
<1>7. ASSUME NEW d \in Docs, DeleteRecord(d) PROVE CInv'
  BY <1>7, DeleteRecordKeeps
<1> QED
  BY <1>1, <1>2, <1>3, <1>4, <1>5, <1>6, <1>7 DEF Next, DeletionStep

-----------------------------------------------------------------------------
(* The theorems                                                            *)

\* The inductive invariant: a stage of index_records that is not done has a
\* record of the call left, and a call's records are keys with versions.
THEOREM RecordsHandedAlways == Spec => []RInv
  BY InitHolds, StepHolds, PTL DEF Spec

\* Every step of ingestion, fallback, deletion and search mutates the store
\* only in one of its transactions, under its lock.
THEOREM ImplementsStoreAlways == Spec => ImplementsStore
<1>1. Init => StoreInit
  BY DEF Init
<1> QED
  BY <1>1, RecordsHandedAlways, StepOfStore, PTL DEF Spec, ImplementsStore, StoreSpec

\* The state of index_records and of the store it writes is typed.
THEOREM IngestTypeCorrect == Spec => []TypeOK
<1>1. RInv /\ StoreTypeOK => TypeOK
  BY DEF RInv, TypeOK, StagePCs
<1> QED
  BY <1>1, RecordsHandedAlways, ImplementsStoreAlways, StoreTypeCorrect, PTL
     DEF ImplementsStore

\* The two stages, a delete and the searches never share the database with a
\* writer.
THEOREM IngestExclusive == Spec => []Exclusive
  BY ImplementsStoreAlways, LockExclusive, PTL DEF ImplementsStore

\* No search is answered from rows older than its call, nor lacks a vector a
\* stage committed before the epoch its rows are labelled with.
THEOREM IngestSearchFresh == Spec => []SearchIsFresh
  BY ImplementsStoreAlways, SearchAlwaysFresh, PTL DEF ImplementsStore

\* No write of a stage, fallback or delete changes a record without a new
\* keyword epoch.
THEOREM IngestEpochCovers == Spec => KeywordEpochCovers
  BY ImplementsStoreAlways, KeywordEpochAlwaysCovers, PTL DEF ImplementsStore

\* What a receipt calls committed stays in both indexes, at that version, with
\* all its chunks and no other, whichever calls fail and fall back: when every
\* version of a record is split or none is, and no call raises or no record
\* has two chunks.
THEOREM CommittedAlwaysIndexed ==
  ASSUME CleanlySplit
  PROVE  Spec => []CommittedIsIndexed
<1>1. RInv /\ CInv /\ [Next]_vars => CInv'
  BY StepKeeps
<1>2. CInv => CommittedIsIndexed
  BY DEF CInv, TablesKept
<1> QED
  BY <1>1, <1>2, InitKeeps, RecordsHandedAlways, PTL DEF Spec
=============================================================================
