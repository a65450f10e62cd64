----------------------------- MODULE FaissStore -----------------------------
(***************************************************************************)
(* FAISSLocalVectorStore (indices/faiss_local.py): searches over an        *)
(* in-memory FAISS index that is refreshed in place when the vector epoch  *)
(* of the local store has moved, falls back to the exact search when       *)
(* anything fails, and is published to disk by a background writer for the *)
(* next start.  One encoder namespace; searchers are threads.              *)
(*                                                                         *)
(* A row of the store is <<revision, metadata>>, NoRow where there is no   *)
(* vector; a batch of a streamed read is one key.  A state names an index  *)
(* object, which a refresh mutates: searches that hold an older state read *)
(* the same object.  A refresh holds the index lock and the state lock from *)
(* its first step to its last, so all steps that need one of them wait.    *)
(* Scores, over-fetching and scan rounds are left out; so are the legacy   *)
(* format and other processes that publish to the same directory.          *)
(***************************************************************************)
EXTENDS Integers, FiniteSets

CONSTANTS
  VectorKeys,   \* storage keys, numbered in their order
  RowValues,    \* <<revision, metadata>> pairs a commit may store
  Searchers,    \* threads that search: the first idle one takes a call
  Drains,       \* writer threads there may be: the first free one is started
  TombstoneNum, TombstoneDen,  \* the compaction ratio
  StoredRows,   \* the rows a process may find when it starts
  Objects,      \* bound on index objects referred to at once
  FaissBudgets  \* bounds on commits, on searches, and on failures, crashes
                \* and flushes together, each with a search strategy

ASSUME FaissAssumption ==
  /\ VectorKeys \subseteq Nat /\ RowValues \subseteq (Nat \ {0}) \X (Nat \ {0})
  /\ Searchers \subseteq Nat /\ Drains \subseteq Nat
  /\ TombstoneDen \in Nat \ {0}
  /\ StoredRows \subseteq [VectorKeys -> RowValues \cup {<<0, 0>>}]
  /\ 0 \notin Objects

VARIABLES
  rows,       \* the vectors of the local store, with their record's columns
  vectorEpoch,
  states,     \* _states: the cached state, or NoState
  contents,   \* index object -> key -> the revision of the vector in it, or 0
  refresh,    \* the refresh that holds both locks, or NoRefresh
  searcher,   \* thread -> its search
  pending, inflightWrite,  \* _pending_writes, _inflight_write
  persisted,  \* _persisted_states
  mutations,  \* _index_mutations
  writerActive, writerIdle,
  drain,      \* writer thread -> its state
  disk,       \* [generations, manifest]
  flush,      \* the caller of flush_persistence
  torn,       \* history: index objects a failed refresh has left half updated
  silent,     \* history: key -> the rows that went since the vector epoch last moved
  budget      \* calls and faults left

faissVars == <<rows, vectorEpoch, states, contents, refresh, searcher, pending, inflightWrite,
               persisted, mutations, writerActive, writerIdle, drain, disk, flush, torn,
               silent, budget>>
writerVars == <<pending, inflightWrite, persisted, writerActive, writerIdle, drain>>

NoRow == <<0, 0>>
NoState == [idx |-> 0]
NoRefresh == [owner |-> "none"]
NoSearch == [phase |-> "idle"]

\* live: key -> the row it was read as; tombs: key -> the revision of a vector
\* that is still in the index; sidecar: the generation its metadata is read
\* from, or 0.
State(epoch, idx, live, tombs, sidecar) ==
  [epoch |-> epoch, idx |-> idx, live |-> live, tombs |-> tombs, sidecar |-> sidecar]

NoDrain == [phase |-> "free"]
NoneSilent == [k \in VectorKeys |-> {}]

FaissInit ==
  /\ rows \in StoredRows /\ vectorEpoch = 0
  /\ states = NoState /\ contents = [i \in Objects |-> [k \in VectorKeys |-> 0]]
  /\ refresh = NoRefresh /\ searcher = [s \in Searchers |-> NoSearch]
  /\ pending = NoState /\ inflightWrite = NoState /\ persisted = NoState /\ mutations = 0
  /\ writerActive = FALSE /\ writerIdle = TRUE
  /\ drain = [d \in Drains |-> NoDrain]
  /\ disk = [generations |-> {}, manifest |-> 0]
  /\ flush = "idle" /\ torn = {} /\ silent = NoneSilent
  /\ budget \in FaissBudgets

Spend(what) == budget[what] > 0 /\ budget' = [budget EXCEPT ![what] = @ - 1]

Unlocked == refresh = NoRefresh

\* An index object nobody refers to any more; Allocatable is a bound.
Referred == {states.idx, pending.idx, inflightWrite.idx, persisted.idx}
              \cup {searcher[s].state.idx : s \in {x \in Searchers : searcher[x].phase = "search"}}
              \cup {drain[d].state.idx : d \in {x \in Drains : drain[x].phase \in {"serialize", "publish"}}}
Allocatable == Objects \ Referred # {}
FreshObject == CHOOSE i \in Objects : i \notin Referred

-----------------------------------------------------------------------------
(* Commits of the local store.                                             *)

\* What was committed while a search ran, per key; it begins with what the
\* store holds or has held at the same vector epoch.
Witnessed(new) ==
  [s \in Searchers |->
     IF searcher[s].phase \in {"idle", "done"} THEN searcher[s]
     ELSE [searcher[s] EXCEPT !.during = [k \in VectorKeys |-> @[k] \cup {new[k]}]]]

Commit(k, row) ==
  /\ row # rows[k] /\ Spend("commits")
  /\ rows' = [rows EXCEPT ![k] = row]
  /\ vectorEpoch' = vectorEpoch + 1
  /\ silent' = NoneSilent
  /\ searcher' = Witnessed(rows')
  /\ UNCHANGED <<states, contents, refresh, writerVars, mutations, disk, flush, torn>>

\* A keyword write replaces a parent's chunks; the vectors of old chunks go
\* by cascade, and the vector epoch stays.
CascadeSilently(k) ==
  /\ rows[k] # NoRow /\ Spend("commits")
  /\ rows' = [rows EXCEPT ![k] = NoRow]
  /\ silent' = [silent EXCEPT ![k] = @ \cup {rows[k]}]
  /\ searcher' = Witnessed(rows')
  /\ UNCHANGED <<vectorEpoch, states, contents, refresh, writerVars, mutations, disk, flush, torn>>

-----------------------------------------------------------------------------
(* The writer: _request_write, _drain_writes, _persist_state.              *)

\* Queues a state, and starts a writer thread when none is active.
Request(state, then_persisted) ==
  IF state.sidecar # 0
  THEN /\ persisted' = state
       /\ UNCHANGED <<pending, inflightWrite, writerActive, writerIdle, drain>>
  ELSE IF state \in {then_persisted, inflightWrite, pending}
  THEN /\ persisted' = then_persisted
       /\ UNCHANGED <<pending, inflightWrite, writerActive, writerIdle, drain>>
  ELSE /\ pending' = state
       /\ writerIdle' = FALSE
       /\ persisted' = then_persisted
       /\ IF writerActive
          THEN UNCHANGED <<inflightWrite, writerActive, drain>>
          ELSE \E d \in Drains :
                 /\ drain[d] = NoDrain /\ \A x \in Drains : x < d => drain[x] # NoDrain
                 /\ writerActive' = TRUE
                 /\ drain' = [drain EXCEPT ![d] = [phase |-> "next"]]
                 /\ UNCHANGED inflightWrite

\* Under the state lock: the next snapshot, or nothing left to do.
TakeSnapshot(d) ==
  /\ drain[d].phase = "next" /\ Unlocked /\ pending # NoState
  /\ drain' = [drain EXCEPT ![d] = [phase |-> "serialize", state |-> pending,
                                    mutations |-> mutations]]
  /\ pending' = NoState /\ inflightWrite' = pending
  /\ UNCHANGED <<rows, vectorEpoch, states, contents, refresh, searcher, persisted, mutations,
                 writerActive, writerIdle, disk, flush, torn, silent, budget>>

NothingPending(d) ==
  /\ drain[d].phase = "next" /\ Unlocked /\ pending = NoState
  /\ drain' = [drain EXCEPT ![d] = [phase |-> "finally"]]
  /\ writerActive' = FALSE /\ writerIdle' = TRUE
  /\ UNCHANGED <<rows, vectorEpoch, states, contents, refresh, searcher, pending, inflightWrite,
                 persisted, mutations, disk, flush, torn, silent, budget>>

\* The finally block takes the lock once more: a writer started in between is
\* taken for this one.
LeaveDrain(d) ==
  /\ drain[d].phase = "finally" /\ Unlocked
  /\ drain' = [drain EXCEPT ![d] = NoDrain]
  /\ writerActive' = FALSE
  /\ inflightWrite' = IF writerActive THEN NoState ELSE inflightWrite
  /\ writerIdle' = (writerIdle \/ writerActive)
  /\ UNCHANGED <<rows, vectorEpoch, states, contents, refresh, searcher, pending, persisted,
                 mutations, disk, flush, torn, silent, budget>>

\* Mutant of StillDescribed: whatever is in the index is written.
StillDescribedAlways(d) == TRUE

\* No refresh has rewritten the index since the snapshot was taken.
StillDescribed(d) == drain[d].mutations = mutations

\* Generations are numbered by the clock.
Latest(gens) == IF gens = {} THEN 0
                ELSE CHOOSE n \in {g.number : g \in gens} : \A g \in gens : g.number <= n

\* The bytes are taken under the index lock, then both files are written.
WriteGeneration(d) ==
  /\ drain[d].phase = "serialize" /\ Unlocked /\ StillDescribed(d)
  /\ LET st == drain[d].state
         number == Latest(disk.generations) + 1
     IN /\ disk' = [disk EXCEPT !.generations = @ \cup
             {[number |-> number, epoch |-> st.epoch, live |-> st.live, tombs |-> st.tombs,
               bytes |-> contents[st.idx]]}]
        /\ drain' = [drain EXCEPT ![d] = [phase |-> "publish", state |-> st, number |-> number]]
  /\ UNCHANGED <<rows, vectorEpoch, states, contents, refresh, searcher, pending, inflightWrite,
                 persisted, mutations, writerActive, writerIdle, flush, torn, silent, budget>>

\* _drain_writes after a write: what is published is no longer in flight.
AfterWrite(d, ok) ==
  /\ inflightWrite' = IF inflightWrite = drain[d].state THEN NoState ELSE inflightWrite
  /\ persisted' = IF ok THEN drain[d].state ELSE persisted
  /\ drain' = [drain EXCEPT ![d] = [phase |-> "next"]]
  /\ UNCHANGED <<rows, vectorEpoch, states, contents, refresh, searcher, pending, mutations,
                 writerActive, writerIdle, flush, torn, silent>>

SkipGeneration(d) ==
  /\ drain[d].phase = "serialize" /\ Unlocked /\ ~StillDescribed(d)
  /\ AfterWrite(d, FALSE)
  /\ UNCHANGED <<disk, budget>>

Retained == 3

\* _prune_generations, with the state lock for the sidecars in use.
Pruned(gens, current) ==
  {g \in gens : \/ Cardinality({h \in gens : h.number > g.number}) < Retained
                \/ g.number \in {current, IF states = NoState THEN 0 ELSE states.sidecar}}

PublishManifest(d) ==
  /\ drain[d].phase = "publish" /\ Unlocked
  /\ disk' = [generations |-> Pruned(disk.generations, drain[d].number),
              manifest |-> drain[d].number]
  /\ AfterWrite(d, TRUE)
  /\ UNCHANGED budget

WriteFails(d) ==
  /\ drain[d].phase \in {"serialize", "publish"} /\ Unlocked /\ Spend("incidents")
  /\ AfterWrite(d, FALSE)
  /\ UNCHANGED disk

\* flush_persistence.
BeginFlush ==
  /\ flush = "idle" /\ Unlocked /\ Spend("incidents")
  /\ flush' = "waiting"
  /\ IF states # NoState THEN Request(states, persisted) ELSE UNCHANGED writerVars
  /\ UNCHANGED <<rows, vectorEpoch, states, contents, refresh, searcher, mutations, disk,
                 torn, silent>>

EndFlush ==
  /\ flush = "waiting" /\ writerIdle /\ Unlocked
  /\ flush' = "idle"
  /\ UNCHANGED <<rows, vectorEpoch, states, contents, refresh, searcher, writerVars, mutations,
                 disk, torn, silent, budget>>

-----------------------------------------------------------------------------
(* A search: _get_state, then the index or the exact fallback.             *)

BeginSearch(s) ==
  /\ searcher[s].phase = "idle" /\ \A x \in Searchers : x < s => searcher[x] # NoSearch
  /\ Spend("searches")
  /\ searcher' = [searcher EXCEPT
       ![s] = [phase |-> "state", epoch |-> vectorEpoch,
               during |-> [k \in VectorKeys |-> {rows[k]} \cup silent[k]]]]
  /\ UNCHANGED <<rows, vectorEpoch, states, contents, refresh, writerVars, mutations, disk,
                 flush, torn, silent>>

SearchWith(s, state) ==
  [phase |-> "search", state |-> state, during |-> searcher[s].during]

\* Mutant of Current: any cached state will do.
CurrentIfAny(s) == states # NoState

Current(s) == states # NoState /\ states.epoch = searcher[s].epoch

UseCached(s) ==
  /\ searcher[s].phase = "state" /\ Unlocked /\ Current(s)
  /\ searcher' = [searcher EXCEPT ![s] = SearchWith(s, states)]
  /\ UNCHANGED <<rows, vectorEpoch, states, contents, refresh, writerVars, mutations, disk,
                 flush, torn, silent, budget>>

\* _load_split_state: the generation the manifest names, when it is whole.
Published == {g \in disk.generations : g.number = disk.manifest}
Loaded(g) == State(g.epoch, FreshObject, g.live, g.tombs, g.number)

LoadPublished(s) ==
  /\ searcher[s].phase = "state" /\ Unlocked /\ ~Current(s) /\ Allocatable
  /\ \E g \in Published :
       /\ g.epoch = searcher[s].epoch
       /\ states' = Loaded(g)
       /\ contents' = [contents EXCEPT ![FreshObject] = g.bytes]
       /\ searcher' = [searcher EXCEPT ![s] = SearchWith(s, Loaded(g))]
  /\ UNCHANGED <<rows, vectorEpoch, refresh, writerVars, mutations, disk, flush, torn, silent,
                 budget>>

NothingLoads(s) == \A g \in Published : g.epoch # searcher[s].epoch

Reading(s, mode, base) ==
  [owner |-> s, mode |-> mode, epoch |-> searcher[s].epoch, base |-> base,
   unread |-> VectorKeys, seen |-> [k \in VectorKeys |-> NoRow], wanted |-> {}, added |-> {}]

\* A base to advance: the cached state, or the published one at its epoch.
StartUpdate(s) ==
  /\ searcher[s].phase = "state" /\ Unlocked /\ ~Current(s) /\ NothingLoads(s)
  /\ \/ /\ states # NoState
        /\ refresh' = Reading(s, "diff", states)
        /\ UNCHANGED contents
     \/ /\ states = NoState /\ Allocatable
        /\ \E g \in Published :
             /\ refresh' = Reading(s, "diff", Loaded(g))
             /\ contents' = [contents EXCEPT ![FreshObject] = g.bytes]
  /\ mutations' = mutations + 1
  /\ UNCHANGED <<rows, vectorEpoch, states, searcher, writerVars, disk, flush, torn, silent, budget>>

StartBuild(s) ==
  /\ searcher[s].phase = "state" /\ Unlocked /\ ~Current(s) /\ NothingLoads(s)
  /\ states = NoState /\ Published = {}
  /\ refresh' = Reading(s, "build", NoState)
  /\ UNCHANGED <<rows, vectorEpoch, states, contents, searcher, writerVars, mutations, disk,
                 flush, torn, silent, budget>>

\* One batch of iter_vector_identity_batches, or of iter_vector_batches.
ReadBatch ==
  /\ refresh # NoRefresh /\ refresh.mode \in {"diff", "build"} /\ refresh.unread # {}
  /\ LET k == CHOOSE x \in refresh.unread : \A y \in refresh.unread : x <= y
     IN refresh' = [refresh EXCEPT !.unread = @ \ {k}, !.seen[k] = rows[k]]
  /\ UNCHANGED <<rows, vectorEpoch, states, contents, searcher, writerVars, mutations, disk,
                 flush, torn, silent, budget>>

\* The revision that the base's index holds of a key, 0 for none.
Resident(k) == IF refresh.base.live[k] # NoRow THEN refresh.base.live[k][1]
               ELSE refresh.base.tombs[k]

Tombstones == {k \in VectorKeys : Resident(k) # 0 /\ refresh.seen[k] = NoRow}
Residency == {k \in VectorKeys : Resident(k) # 0 \/ refresh.seen[k] # NoRow}
Replaced == {k \in VectorKeys : /\ refresh.seen[k] # NoRow
                                /\ Resident(k) \notin {0, refresh.seen[k][1]}}
New == {k \in VectorKeys : refresh.seen[k] # NoRow /\ Resident(k) = 0}

NeedsRebuild ==
  \/ Cardinality(Tombstones) * TombstoneDen > TombstoneNum * Cardinality(Residency)
  \/ Replaced # {} /\ budget.strategy = "approximate"

\* _update_state returns None before it has touched the index.
GiveUpDiff ==
  /\ refresh # NoRefresh /\ refresh.mode = "diff" /\ refresh.unread = {} /\ NeedsRebuild
  /\ refresh' = Reading(refresh.owner, "build", NoState)
  /\ UNCHANGED <<rows, vectorEpoch, states, contents, searcher, writerVars, mutations, disk,
                 flush, torn, silent, budget>>

RemoveReplaced ==
  /\ refresh # NoRefresh /\ refresh.mode = "diff" /\ refresh.unread = {} /\ ~NeedsRebuild
  /\ contents' = [contents EXCEPT ![refresh.base.idx] =
                    [k \in VectorKeys |-> IF k \in Replaced THEN 0 ELSE @[k]]]
  /\ refresh' = [refresh EXCEPT !.mode = "embed", !.wanted = Replaced \cup New,
                                !.unread = Replaced \cup New]
  /\ UNCHANGED <<rows, vectorEpoch, states, searcher, writerVars, mutations, disk, flush, torn,
                 silent, budget>>

\* One batch of iter_vector_embedding_batches: the embedding stored now.
AddBatch ==
  /\ refresh # NoRefresh /\ refresh.mode = "embed" /\ refresh.unread # {}
  /\ LET k == CHOOSE x \in refresh.unread : \A y \in refresh.unread : x <= y
     IN /\ contents' = [contents EXCEPT ![refresh.base.idx][k] =
                          IF rows[k] = NoRow THEN @ ELSE rows[k][1]]
        /\ refresh' = [refresh EXCEPT !.unread = @ \ {k},
                         !.added = IF rows[k] = NoRow THEN @ ELSE @ \cup {k}]
  /\ UNCHANGED <<rows, vectorEpoch, states, searcher, writerVars, mutations, disk, flush, torn,
                 silent, budget>>

\* Nothing is missing and nothing was committed since the search began.
Consistent ==
  /\ refresh.mode = "embed" => refresh.added = refresh.wanted
  /\ vectorEpoch = refresh.epoch

\* Mutant of Candidate: an equal revision vouches for the metadata.
CandidateByRevision(k) ==
  IF refresh.mode = "embed" /\ refresh.base.live[k][1] = refresh.seen[k][1]
  THEN refresh.base.live[k] ELSE refresh.seen[k]

\* A candidate is carried over only under an equal fingerprint of its columns.
Candidate(k) == refresh.seen[k]

Updated ==
  State(refresh.epoch, refresh.base.idx, [k \in VectorKeys |-> Candidate(k)],
        [k \in VectorKeys |-> IF k \in Tombstones THEN Resident(k) ELSE 0], 0)

ReadAll(mode) == refresh # NoRefresh /\ refresh.mode = mode /\ refresh.unread = {}

\* A snapshot on its way is replaced; otherwise one is queued only when the
\* window or the budget of changes is spent.
PersistDebounced(state) ==
  \/ Request(state, persisted)
  \/ pending = NoState /\ inflightWrite = NoState /\ UNCHANGED writerVars

FinishUpdate ==
  /\ ReadAll("embed") /\ Consistent
  /\ states' = Updated
  /\ searcher' = [searcher EXCEPT ![refresh.owner] = SearchWith(refresh.owner, Updated)]
  /\ refresh' = NoRefresh
  /\ PersistDebounced(Updated)
  /\ UNCHANGED <<rows, vectorEpoch, contents, mutations, disk, flush, torn, silent, budget>>

FinishBuild ==
  /\ ReadAll("build") /\ Consistent /\ Allocatable
  /\ LET built == State(refresh.epoch, FreshObject, [k \in VectorKeys |-> Candidate(k)],
                        [k \in VectorKeys |-> 0], 0)
     IN /\ states' = built
        /\ contents' = [contents EXCEPT ![FreshObject] =
                          [k \in VectorKeys |-> refresh.seen[k][1]]]
        /\ searcher' = [searcher EXCEPT ![refresh.owner] = SearchWith(refresh.owner, built)]
        /\ Request(built, persisted)
  /\ refresh' = NoRefresh
  /\ UNCHANGED <<rows, vectorEpoch, mutations, disk, flush, torn, silent, budget>>

\* An exception in _update_state drops the state and the queued snapshot, one
\* in _build_state nothing; the search falls back.
Raise ==
  /\ searcher' = [searcher EXCEPT ![refresh.owner] =
                    [phase |-> "fallback", during |-> @.during]]
  /\ refresh' = NoRefresh
  /\ IF refresh.mode = "build"
     THEN UNCHANGED <<states, pending, torn>>
     ELSE /\ states' = NoState /\ pending' = NoState
          /\ torn' = IF refresh.mode = "embed" THEN torn \cup {refresh.base.idx} ELSE torn
  /\ UNCHANGED <<rows, vectorEpoch, contents, inflightWrite, persisted, writerActive, writerIdle,
                 drain, mutations, disk, flush, silent>>

Inconsistent ==
  /\ ReadAll("embed") \/ ReadAll("build")
  /\ ~Consistent /\ Raise
  /\ UNCHANGED budget

RefreshFails == refresh # NoRefresh /\ Spend("incidents") /\ Raise

\* The hits: keys the state knows whose vector is in the index.  A state that
\* was loaded opens its sidecar, which may be gone.
SearchState(s) ==
  /\ searcher[s].phase = "search" /\ Unlocked
  /\ LET st == searcher[s].state
         found == [k \in VectorKeys |->
                     IF st.live[k] = NoRow \/ contents[st.idx][k] = 0 THEN NoRow
                     ELSE <<contents[st.idx][k], st.live[k][2]>>]
     IN searcher' = [searcher EXCEPT ![s] =
          IF st.sidecar \notin {g.number : g \in disk.generations} \cup {0}
          THEN [phase |-> "fallback", during |-> @.during]
          ELSE [phase |-> "done", hits |-> found, idx |-> st.idx, during |-> @.during]]
  /\ UNCHANGED <<rows, vectorEpoch, states, contents, refresh, writerVars, mutations, disk,
                 flush, torn, silent, budget>>

SearchExactly(s) ==
  /\ searcher[s].phase = "fallback"
  /\ searcher' = [searcher EXCEPT ![s] =
                    [phase |-> "done", hits |-> rows, idx |-> 0, during |-> @.during]]
  /\ UNCHANGED <<rows, vectorEpoch, states, contents, refresh, writerVars, mutations, disk,
                 flush, torn, silent, budget>>

EndSearch(s) ==
  /\ searcher[s].phase = "done"
  /\ searcher' = [searcher EXCEPT ![s] = NoSearch]
  /\ UNCHANGED <<rows, vectorEpoch, states, contents, refresh, writerVars, mutations, disk,
                 flush, torn, silent, budget>>

\* The process dies and starts again; the disk and the local store stay.
CrashFaiss ==
  /\ Spend("incidents")
  /\ states' = NoState /\ contents' = [i \in Objects |-> [k \in VectorKeys |-> 0]]
  /\ refresh' = NoRefresh /\ searcher' = [s \in Searchers |-> NoSearch]
  /\ pending' = NoState /\ inflightWrite' = NoState /\ persisted' = NoState /\ mutations' = 0
  /\ writerActive' = FALSE /\ writerIdle' = TRUE
  /\ drain' = [d \in Drains |-> NoDrain]
  /\ flush' = "idle" /\ torn' = {}
  /\ UNCHANGED <<rows, vectorEpoch, disk, silent>>

Draining(d) ==
  \/ TakeSnapshot(d) \/ NothingPending(d) \/ LeaveDrain(d)
  \/ WriteGeneration(d) \/ SkipGeneration(d) \/ PublishManifest(d)

Refreshing ==
  ReadBatch \/ GiveUpDiff \/ RemoveReplaced \/ AddBatch \/ FinishUpdate \/ FinishBuild \/ Inconsistent

Searching(s) ==
  \/ UseCached(s) \/ LoadPublished(s) \/ StartUpdate(s) \/ StartBuild(s)
  \/ SearchState(s) \/ SearchExactly(s) \/ EndSearch(s)

FaissNext ==
  \/ \E k \in VectorKeys : (\E r \in RowValues \cup {NoRow} : Commit(k, r)) \/ CascadeSilently(k)
  \/ \E s \in Searchers : BeginSearch(s) \/ Searching(s)
  \/ Refreshing \/ RefreshFails
  \/ \E d \in Drains : Draining(d) \/ WriteFails(d)
  \/ BeginFlush \/ EndFlush \/ CrashFaiss

FaissSpec == FaissInit /\ [][FaissNext]_faissVars

FaissFairness ==
  /\ WF_faissVars(Refreshing)
  /\ \A d \in Drains : WF_faissVars(Draining(d))
  /\ WF_faissVars(EndFlush)
  /\ \A s \in Searchers : WF_faissVars(Searching(s))

-----------------------------------------------------------------------------
Holds(bytes, live, tombs) ==
  \A k \in VectorKeys : bytes[k] = IF live[k] # NoRow THEN live[k][1] ELSE tombs[k]

(* Every search answers, key by key, as the store stood at some moment of   *)
(* the call, or earlier at the vector epoch it began with, whoever         *)
(* refreshed the index in place meanwhile and whatever failed: revision    *)
(* and metadata of a hit were committed then, and a key that is missing    *)
(* was absent then.  So a vector that went by cascade, without a new epoch, *)
(* is found until the next vector write and by no search that begins after *)
(* it.  Excepted are misses in an index that a failed refresh, which       *)
(* dropped it from the cache, has left half updated under an earlier       *)
(* search.  (FAISSLocalVectorStore.search)                                 *)
FaissAnswersFresh ==
  \A s \in Searchers : searcher[s].phase = "done" =>
    \A k \in VectorKeys :
      LET hit == searcher[s].hits[k]
          seen == searcher[s].during[k]
      IN IF hit = NoRow THEN NoRow \in seen \/ searcher[s].idx \in torn
         ELSE (\E r \in seen : r[1] = hit[1]) /\ (\E r \in seen : r[2] = hit[2])

(* What the cached state says of its index is what is in it, and at the    *)
(* store's epoch also what is in the store, vectors apart that went since  *)
(* without a new epoch.  No torn index is cached.  (_update_state)         *)
CachedStateIsExact ==
  (states # NoState /\ (Unlocked \/ refresh.mode # "embed")) =>
    /\ Holds(contents[states.idx], states.live, states.tombs)
    /\ states.epoch = vectorEpoch =>
         \A k \in VectorKeys : states.live[k] \in {rows[k]} \cup silent[k]

(* A generation on disk is a whole snapshot: its index bytes hold the      *)
(* revisions its metadata lists, whatever refreshed the index while it     *)
(* waited, and a generation at the store's epoch describes the store.      *)
(* (_persist_state)                                                        *)
GenerationsAreWhole ==
  \A g \in disk.generations :
    /\ Holds(g.bytes, g.live, g.tombs)
    /\ g.epoch = vectorEpoch => \A k \in VectorKeys : g.live[k] \in {rows[k]} \cup silent[k]

(* Neither in memory nor on disk does an index say of itself what is not so. *)
FaissStatesAreWhole == CachedStateIsExact /\ GenerationsAreWhole

(* One writer thread drains the queue at a time.  (_drain_writes,          *)
(* docstring: one drain runs at a time whatever the scheduler does)        *)
OneDrainAtATime ==
  \A d, e \in Drains :
    (d # e /\ drain[d].phase \notin {"free", "finally"}) => drain[e].phase \in {"free", "finally"}

(* A search, a refresh and a flush that have begun end.                    *)
FaissQuiet == refresh = NoRefresh /\ flush = "idle" /\ \A s \in Searchers : searcher[s] = NoSearch

=============================================================================
