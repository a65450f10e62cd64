----------------------------- MODULE QueryCache -----------------------------
(***************************************************************************)
(* QueryEmbeddingCache (runtime/query_embedding_cache.py), for one query:  *)
(* a bounded memory cache before an optional CacheStore, one computation   *)
(* for all that ask meanwhile, and invalidation by epoch.  An embedding is *)
(* the generation of the model that computed it.                           *)
(***************************************************************************)
EXTENDS Integers, FiniteSets

CONSTANTS
  Callers,         \* calls of get_or_compute and async_get_or_compute
  AsyncCallers,    \* the callers that are coroutines
  MaxEpoch,        \* bound on the generations of the model
  MaxCacheFaults   \* bound on failing store and compute calls

Absent == 0        \* no embedding

ASSUME QueryCacheAssumption ==
  /\ AsyncCallers \subseteq Callers
  /\ MaxEpoch \in Nat \ {0}
  /\ MaxCacheFaults \in Nat

VARIABLES
  model,       \* generation of the embedding model
  memory,      \* embedding in _cache
  backing,     \* embedding in the CacheStore
  inflight,    \* callers whose flight the table holds: at most one
  computed,    \* [Callers -> state and embedding of the flight it leads]
  asking,      \* [Callers -> program counter and locals]
  invalidate,  \* progress of invalidate_epoch: "no", "memory", "store"
  mixed,       \* ghost: an invalidation overlapped a call, or its store failed
  mishaps      \* failing calls so far

queryVars == <<model, memory, backing, inflight, computed, asking, invalidate, mixed, mishaps>>

Asker == [at |-> "idle", joined |-> {}, embedding |-> Absent, how |-> "none", gone |-> FALSE]

QueryInit ==
  /\ model = 1 /\ memory = Absent /\ backing = Absent
  /\ inflight = {}
  /\ computed = [c \in Callers |-> [state |-> "none", embedding |-> Absent]]
  /\ asking = [c \in Callers |-> Asker]
  /\ invalidate = "no" /\ mixed = FALSE /\ mishaps = 0

Is(c, at) == asking[c].at = at
Moves(c, at) == asking' = [asking EXCEPT ![c].at = at]
Gets(c, embedding, how) ==
  asking' = [asking EXCEPT ![c] = [@ EXCEPT !.at = "done", !.embedding = embedding, !.how = how]]
Mishap == mishaps < MaxCacheFaults /\ mishaps' = mishaps + 1

Open == {c \in Callers : asking[c].at \notin {"idle", "done"}}

\* A synchronous caller looks into the caches before it joins a flight, a
\* coroutine joins first and its leader looks.
BeginQuery(c) ==
  /\ Is(c, "idle")
  /\ Moves(c, IF c \in AsyncCallers THEN "join" ELSE "memory")
  /\ mixed' = (mixed \/ invalidate = "memory")
  /\ UNCHANGED <<model, memory, backing, inflight, computed, invalidate, mishaps>>

\* An embedding found: a synchronous caller has its answer, a coroutine has a
\* flight to complete once it runs again.
Found(c, embedding) ==
  IF asking[c].gone THEN Moves(c, "done")
  ELSE asking' = [asking EXCEPT ![c] =
         [@ EXCEPT !.at = IF c \in AsyncCallers THEN "found" ELSE "done",
                   !.embedding = embedding, !.how = "cached"]]
NotFound(c) ==
  Moves(c, IF asking[c].gone THEN "done" ELSE IF c \in AsyncCallers THEN "compute" ELSE "join")

LoadFromMemory(c) ==
  /\ Is(c, "memory")
  /\ IF memory # Absent THEN Found(c, memory) ELSE Moves(c, "backing")
  /\ UNCHANGED <<model, memory, backing, inflight, computed, invalidate, mixed, mishaps>>

\* The store is read without the lock, its value then put into memory; a
\* failing store is a miss.
ReadBacking(c) ==
  /\ Is(c, "backing")
  /\ \/ /\ backing # Absent
        /\ asking' = [asking EXCEPT ![c] = [@ EXCEPT !.at = "insert", !.embedding = backing]]
        /\ UNCHANGED mishaps
     \/ backing = Absent /\ NotFound(c) /\ UNCHANGED mishaps
     \/ backing # Absent /\ NotFound(c) /\ Mishap
  /\ UNCHANGED <<model, memory, backing, inflight, computed, invalidate, mixed>>

InsertFromBacking(c) ==
  /\ Is(c, "insert")
  /\ memory' = asking[c].embedding
  /\ Found(c, asking[c].embedding)
  /\ UNCHANGED <<model, backing, inflight, computed, invalidate, mixed, mishaps>>

StartOrJoinQuery(c) ==
  /\ Is(c, "join")
  /\ IF inflight = {}
     THEN /\ inflight' = {c}
          /\ computed' = [computed EXCEPT ![c].state = "open"]
          /\ Moves(c, IF c \in AsyncCallers THEN "memory" ELSE "compute")
     ELSE /\ asking' = [asking EXCEPT ![c] = [@ EXCEPT !.at = "wait", !.joined = inflight]]
          /\ UNCHANGED <<inflight, computed>>
  /\ UNCHANGED <<model, memory, backing, invalidate, mixed, mishaps>>

Compute(c) ==
  /\ Is(c, "compute")
  /\ asking' = [asking EXCEPT ![c] = [@ EXCEPT !.at = "complete", !.embedding = model]]
  /\ UNCHANGED <<model, memory, backing, inflight, computed, invalidate, mixed, mishaps>>

FlightFails(c) ==
  /\ inflight' = inflight \ {c}
  /\ computed' = [computed EXCEPT ![c].state = "error"]
  /\ UNCHANGED <<model, memory, backing, invalidate, mixed>>

\* A failing computation, or a coroutine cancelled while it computes: everyone
\* who joined gets the error.
ComputeFails(c) ==
  /\ Is(c, "compute")
  /\ IF c \in AsyncCallers THEN UNCHANGED mishaps ELSE Mishap
  /\ Gets(c, Absent, "error")
  /\ FlightFails(c)

\* A coroutine cancelled while a thread looks into the caches for it: the
\* flight fails at once, the thread, if it has not ended, goes on and may still
\* fill the memory.
Abandoning(a) ==
  [a EXCEPT !.at = IF a.at = "found" THEN "done" ELSE a.at, !.how = "cancelled", !.gone = TRUE]

CancelLookup(c) ==
  /\ c \in AsyncCallers /\ c \in inflight
  /\ asking[c].at \in {"memory", "backing", "insert", "found"}
  /\ asking' = [asking EXCEPT ![c] = Abandoning(asking[c])]
  /\ UNCHANGED mishaps
  /\ FlightFails(c)

\* _complete_success: the embedding enters memory, one that was found there
\* too, and the flight ends.  If a waiter's cancellation has cancelled the
\* shared future, set_result raises: the leader fails although its embedding
\* is cached.
CompleteEmbedding(c, onwards) ==
  /\ memory' = asking[c].embedding
  /\ inflight' = inflight \ {c}
  /\ IF computed[c].state = "cancelled"
     THEN Gets(c, Absent, "error") /\ UNCHANGED computed
     ELSE /\ Moves(c, onwards)
          /\ computed' = [computed EXCEPT ![c] = [state |-> "value",
                                                  embedding |-> asking[c].embedding]]
  /\ UNCHANGED <<model, backing, invalidate, mixed, mishaps>>

\* A found embedding is not written to the store.
CompleteFound(c) == Is(c, "found") /\ CompleteEmbedding(c, "done")
CompleteQuery(c) == Is(c, "complete") /\ CompleteEmbedding(c, "save")

\* The store is written in a thread; cancelling the coroutine does not stop it.
SaveToStore(c) ==
  /\ Is(c, "save")
  /\ \E how \in {"computed"} \cup (IF c \in AsyncCallers THEN {"cancelled"} ELSE {}) :
       Gets(c, asking[c].embedding, how)
  /\ \/ backing' = asking[c].embedding /\ UNCHANGED mishaps
     \/ Mishap /\ UNCHANGED backing
  /\ UNCHANGED <<model, memory, inflight, computed, invalidate, mixed>>

Waiting(c) == Is(c, "wait") /\ asking[c].joined # {}
FlightOf(c) == CHOOSE o \in asking[c].joined : TRUE

FinishWait(c) ==
  /\ Waiting(c)
  /\ LET f == computed[FlightOf(c)] IN
       \/ f.state = "value" /\ Gets(c, f.embedding, "joined")
       \/ f.state \in {"error", "cancelled"} /\ Gets(c, Absent, "error")
  /\ UNCHANGED <<model, memory, backing, inflight, computed, invalidate, mixed, mishaps>>

\* The wait of a coroutine is not shielded: its cancellation cancels the
\* future that the leader and the other waiters share.
CancelWait(c) ==
  /\ c \in AsyncCallers /\ Waiting(c)
  /\ Gets(c, Absent, "cancelled")
  /\ computed' = IF computed[FlightOf(c)].state = "open"
                 THEN [computed EXCEPT ![FlightOf(c)].state = "cancelled"] ELSE computed
  /\ UNCHANGED <<model, memory, backing, inflight, invalidate, mixed, mishaps>>

\* Memory pressure or the TTL removes the entry.
EvictEmbedding ==
  /\ memory # Absent /\ memory' = Absent
  /\ UNCHANGED <<model, backing, inflight, computed, asking, invalidate, mixed, mishaps>>

\* The model changes and its user calls invalidate_epoch, which clears the
\* memory first and the store afterwards.
\* (Mutant of InvalidatedMemory: the memory is left alone.)
KeepMemory == memory

InvalidatedMemory == Absent

InvalidateMemory ==
  /\ invalidate = "no" /\ model < MaxEpoch
  /\ model' = model + 1
  /\ memory' = InvalidatedMemory
  /\ invalidate' = "memory"
  /\ mixed' = (mixed \/ Open # {})
  /\ UNCHANGED <<backing, inflight, computed, asking, mishaps>>

InvalidateStore ==
  /\ invalidate = "memory"
  /\ invalidate' = "no"
  /\ \/ backing' = Absent /\ UNCHANGED <<mixed, mishaps>>
     \/ Mishap /\ mixed' = TRUE /\ UNCHANGED backing
  /\ UNCHANGED <<model, memory, inflight, computed, asking>>

CallerStep(c) ==
  \/ LoadFromMemory(c) \/ ReadBacking(c) \/ InsertFromBacking(c) \/ StartOrJoinQuery(c)
  \/ CompleteFound(c) \/ Compute(c) \/ CompleteQuery(c) \/ SaveToStore(c) \/ FinishWait(c)

QueryNext ==
  \/ EvictEmbedding \/ InvalidateMemory \/ InvalidateStore
  \/ \E c \in Callers :
       \/ BeginQuery(c) \/ CallerStep(c) \/ ComputeFails(c)
       \/ CancelLookup(c) \/ CancelWait(c)

QueryFairness == WF_queryVars(InvalidateStore) /\ \A c \in Callers : WF_queryVars(CallerStep(c))

QuerySpec == QueryInit /\ [][QueryNext]_queryVars /\ QueryFairness

-----------------------------------------------------------------------------

(* After invalidate_epoch no embedding of an earlier model is left in either  *)
(* cache, unless a call was open while it ran, or the store failed: those are *)
(* the only ways an old embedding gets back in.                              *)
OldEmbeddingsGone ==
  ~mixed => /\ memory \in {Absent, model}
            /\ invalidate = "no" => backing \in {Absent, model}

QueryQuiet == \A c \in Callers : asking[c].at \in {"idle", "done"}
=============================================================================
