---------------------------- MODULE SemanticWork ----------------------------
(***************************************************************************)
(* Embedding work: SemanticWorkPlanner.execute (indexing/semantic.py) over *)
(* the SQLite cache of indexing/embedding_cache.py, and embed_and_upsert   *)
(* (ingestion/embedding.py).  Executors, in threads or processes, have     *)
(* each a cache instance on the same path; recovery from a malformed file  *)
(* unlinks what is at the path, and an instance that had it open goes on   *)
(* with a file nobody else will see.  A lookup reads its rows in one       *)
(* statement and deletes the invalid ones among them in another.  A text   *)
(* stands for its content hash, and for the vector the encoder gives it.   *)
(***************************************************************************)
EXTENDS Naturals, FiniteSets

CONSTANTS
  Texts,        \* texts, numbered in the order of the planned misses
  TextOf,       \* source id -> its text
  Executors,
  WorkInputs,   \* sets of source ids one execution may be given
  BatchSize,
  CacheFiles,   \* the files that may come to be at the cache's path
  WorkBudgets   \* bounds: [executions, faults]

ASSUME SemanticWorkAssumption ==
  /\ Texts \subseteq Nat \ {0}
  /\ BatchSize \in Nat \ {0}
  /\ TextOf \in [DOMAIN TextOf -> Texts]
  /\ \A sources \in WorkInputs : sources \subseteq DOMAIN TextOf /\ IsFiniteSet(sources)
  /\ 1 \in CacheFiles

VARIABLES
  cached,       \* file -> text -> "absent", "good" or "bad"
  broken,       \* the files SQLite finds malformed
  cachePath,    \* the file at the path
  handle,       \* executor -> the file its connection has open
  work,         \* executor -> its execution
  materialized, \* source id -> the text whose vector it has, or 0
  upsert,       \* a call of embed_and_upsert
  settled,      \* history: executor -> texts it has cached that are not lost since
  workLeft

workVars == <<cached, broken, cachePath, handle, work, materialized, upsert,
              settled, workLeft>>
cacheVars == <<cached, broken, cachePath, handle>>

Sources == DOMAIN TextOf
Rest0 == [step |-> "idle"]
NoUpsert == [step |-> "idle"]

SemanticInit ==
  /\ cached = [f \in CacheFiles |-> [t \in Texts |-> "absent"]]
  /\ broken = {} /\ cachePath = 1
  /\ handle = [w \in Executors |-> 1]
  /\ work = [w \in Executors |-> Rest0]
  /\ materialized = [s \in Sources |-> 0]
  /\ upsert = NoUpsert
  /\ settled = [w \in Executors |-> {}]
  /\ workLeft \in WorkBudgets

-----------------------------------------------------------------------------
(* The cache.                                                              *)

Lose(texts) == settled' = [w \in Executors |-> settled[w] \ texts]
Settled == UNION {settled[w] : w \in Executors}

\* _recover: close, unlink whatever is at the path, open anew.  What is at the
\* path may be a whole file, when another instance has recovered before.
Recover(w) ==
  /\ cachePath + 1 \in CacheFiles
  /\ cachePath' = cachePath + 1
  /\ handle' = [handle EXCEPT ![w] = cachePath + 1]
  /\ Lose(Texts)
  /\ UNCHANGED <<cached, broken>>

Fault == workLeft.faults > 0 /\ workLeft' = [workLeft EXCEPT !.faults = @ - 1]

DamageRow(t) ==
  /\ Fault /\ cached[cachePath][t] = "good"
  /\ cached' = [cached EXCEPT ![cachePath][t] = "bad"]
  /\ Lose({t})
  /\ UNCHANGED <<broken, cachePath, handle, work, materialized, upsert>>

DamageFile ==
  /\ Fault /\ broken' = broken \union {cachePath}
  /\ Lose(Texts)
  /\ UNCHANGED <<cached, cachePath, handle, work, materialized, upsert>>

\* prune_to deletes what was outside keep when it looked.
PruneTo(w, keep) ==
  /\ Fault /\ handle[w] \notin broken
  /\ cached' = [cached EXCEPT ![handle[w]] =
                  [t \in Texts |-> IF t \in keep THEN @[t] ELSE "absent"]]
  /\ Lose(IF handle[w] = cachePath THEN Texts \ keep ELSE {})
  /\ UNCHANGED <<broken, cachePath, handle, work, materialized, upsert>>

\* A process ends and another opens the path; _open_or_recover discards a file
\* it cannot open.
Restart(w) ==
  /\ Fault /\ work' = [work EXCEPT ![w] = Rest0]
  /\ \/ handle' = [handle EXCEPT ![w] = cachePath]
        /\ UNCHANGED <<cached, broken, cachePath, settled>>
     \/ cachePath \in broken /\ Recover(w)
  /\ UNCHANGED <<materialized, upsert>>

-----------------------------------------------------------------------------
(* One execution.                                                          *)

BeginWork(w, sources) ==
  /\ work[w].step = "idle" /\ workLeft.executions > 0
  /\ workLeft' = [workLeft EXCEPT !.executions = @ - 1]
  /\ work' = [work EXCEPT ![w] = [step |-> "plan", sources |-> sources]]
  /\ UNCHANGED <<cached, broken, cachePath, handle, materialized, upsert, settled>>

\* Mutant of Group: of the sources with one text only the first is kept.
GroupFirst(w, t) ==
  {s \in work[w].sources : /\ TextOf[s] = t
                           /\ \A r \in work[w].sources : TextOf[r] = t => s <= r}

\* The planned items are grouped by content hash.
Group(w, t) == {s \in work[w].sources : TextOf[s] = t}
TextsOf(sources) == {TextOf[s] : s \in sources}
\* The BatchSize first of what is left.
NextBatch(rest) == {x \in rest : Cardinality({y \in rest : y < x}) < BatchSize}

Planned(w, hits, invalid) ==
  [step |-> IF invalid = {} THEN "hits" ELSE "delete", sources |-> work[w].sources,
   hits |-> hits, misses |-> TextsOf(work[w].sources) \ hits, invalid |-> invalid,
   batch |-> {}, todo |-> {}, bad |-> {},
   known |-> IF handle[w] = cachePath THEN Settled ELSE {}]

\* plan: get_many reads the rows, or recovers.
Plan(w) ==
  /\ work[w].step = "plan"
  /\ IF handle[w] \in broken
     THEN Recover(w) /\ work' = [work EXCEPT ![w] = Planned(w, {}, {})]
     ELSE /\ LET Rows(how) == {t \in TextsOf(work[w].sources) : cached[handle[w]][t] = how}
             IN  work' = [work EXCEPT ![w] = Planned(w, Rows("good"), Rows("bad"))]
          /\ UNCHANGED <<cacheVars, settled>>
  /\ UNCHANGED <<materialized, upsert, workLeft>>

WithoutInvalid(w) ==
  [t \in Texts |-> IF t \in work[w].invalid THEN "absent" ELSE cached[handle[w]][t]]

\* The second statement of get_many deletes the rows found invalid, by their
\* keys, whatever they hold by now; an error here is not caught.
DeleteInvalid(w) ==
  /\ work[w].step = "delete"
  /\ \/ /\ handle[w] \notin broken
        /\ cached' = [cached EXCEPT ![handle[w]] = WithoutInvalid(w)]
        /\ Lose(IF handle[w] = cachePath THEN work[w].invalid ELSE {})
        /\ work' = [work EXCEPT ![w] = [@ EXCEPT !.step = "hits", !.invalid = {}]]
        /\ UNCHANGED workLeft
     \/ /\ work' = [work EXCEPT ![w] = Rest0]
        /\ IF handle[w] \in broken THEN UNCHANGED workLeft ELSE Fault
        /\ UNCHANGED <<cached, settled>>
  /\ UNCHANGED <<broken, cachePath, handle, materialized, upsert>>

\* Materialises the vector of t for its sources, one by one; a materializer
\* that raises ends the execution.
Materialize(w, t, rest) ==
  \/ /\ materialized' = [s \in Sources |-> IF s \in Group(w, t) THEN t ELSE materialized[s]]
     /\ work' = [work EXCEPT ![w] = rest]
     /\ UNCHANGED workLeft
  \/ /\ Fault
     /\ \E done \in (SUBSET Group(w, t)) \ {Group(w, t)} :
          materialized' = [s \in Sources |-> IF s \in done THEN t ELSE materialized[s]]
     /\ work' = [work EXCEPT ![w] = Rest0]

MaterializeHit(w, t) ==
  /\ work[w].step = "hits" /\ t \in work[w].hits
  /\ Materialize(w, t, [work[w] EXCEPT !.hits = @ \ {t}])
  /\ UNCHANGED <<cacheVars, upsert, settled>>

HitsDone(w) ==
  /\ work[w].step = "hits" /\ work[w].hits = {}
  /\ work' = [work EXCEPT ![w].step = IF work[w].misses = {} THEN "done" ELSE "encode"]
  /\ UNCHANGED <<cacheVars, materialized, upsert, settled, workLeft>>

\* The encoder may fail, answer the wrong number, or give invalid vectors.
Encode(w) ==
  /\ work[w].step = "encode"
  /\ LET batch == NextBatch(work[w].misses)
         answered == [work[w] EXCEPT !.step = "batch", !.batch = batch, !.todo = batch] IN
     \/ work' = [work EXCEPT ![w] = answered] /\ UNCHANGED workLeft
     \/ /\ Fault
        /\ \/ work' = [work EXCEPT ![w] = Rest0]
           \/ \E t \in batch : work' = [work EXCEPT ![w] = [answered EXCEPT !.bad = {t}]]
  /\ UNCHANGED <<cacheVars, materialized, upsert, settled>>

MaterializeMiss(w) ==
  /\ work[w].step = "batch"
  /\ LET t == CHOOSE x \in work[w].todo : \A y \in work[w].todo : x <= y
         left == work[w].todo \ {t}
     IN IF t \in work[w].bad
        THEN /\ work' = [work EXCEPT ![w] = Rest0]
             /\ UNCHANGED <<materialized, workLeft>>
        ELSE Materialize(w, t, [work[w] EXCEPT
               !.todo = left, !.step = IF left = {} THEN "put" ELSE "batch"])
  /\ UNCHANGED <<cacheVars, upsert, settled>>

\* Mutant of Stored: only a full batch is stored.
StoredWhenWhole(w) ==
  [t \in Texts |-> IF t \in work[w].batch /\ Cardinality(work[w].batch) = BatchSize
                   THEN "good" ELSE cached[handle[w]][t]]

Stored(w) == [t \in Texts |-> IF t \in work[w].batch THEN "good" ELSE cached[handle[w]][t]]

AfterBatch(w) ==
  LET left == work[w].misses \ work[w].batch
  IN [work[w] EXCEPT !.misses = left, !.batch = {},
                     !.step = IF left = {} THEN "done" ELSE "encode"]

\* put_many, one transaction, after which the next batch is due; when the file
\* is malformed it recovers and returns, when it is locked it raises.
PutMany(w) ==
  /\ work[w].step = "put"
  /\ IF handle[w] \in broken
     THEN /\ Recover(w) /\ work' = [work EXCEPT ![w] = AfterBatch(w)]
          /\ UNCHANGED workLeft
     ELSE /\ \/ /\ cached' = [cached EXCEPT ![handle[w]] = Stored(w)]
                /\ settled' = [settled EXCEPT ![w] =
                     @ \union (IF handle[w] = cachePath THEN work[w].batch ELSE {})]
                /\ work' = [work EXCEPT ![w] = AfterBatch(w)]
                /\ UNCHANGED workLeft
             \/ /\ Fault /\ work' = [work EXCEPT ![w] = Rest0]
                /\ UNCHANGED <<cached, settled>>
          /\ UNCHANGED <<broken, cachePath, handle>>
  /\ UNCHANGED <<materialized, upsert>>

EndWork(w) ==
  /\ work[w].step = "done"
  /\ work' = [work EXCEPT ![w] = Rest0]
  /\ UNCHANGED <<cacheVars, materialized, upsert, settled, workLeft>>

-----------------------------------------------------------------------------
(* embed_and_upsert.  Batches are embedded as they are consumed, so a batch *)
(* is stored before the next one's response is validated.                  *)

BeginUpsertCall(sources) ==
  /\ upsert.step # "going" /\ workLeft.executions > 0
  /\ workLeft' = [workLeft EXCEPT !.executions = @ - 1]
  /\ upsert' = [step |-> IF sources = {} THEN "done" ELSE "going", sources |-> sources,
                todo |-> sources, taken |-> {}, refused |-> {},
                stored |-> 0, rejected |-> 0]
  /\ UNCHANGED <<cacheVars, work, materialized, settled>>

\* The provider's answer has as many vectors as texts, or the call fails; then
\* the sink takes the batch, and answers for each write, or the call fails.
UpsertBatch ==
  /\ upsert.step = "going"
  /\ LET offered == NextBatch(upsert.todo)
         left == upsert.todo \ offered IN
     \/ \E taken \in SUBSET offered :
          /\ upsert' = [upsert EXCEPT !.todo = left,
               !.step = IF left = {} THEN "done" ELSE "going",
               !.taken = @ \union taken, !.refused = @ \union (offered \ taken),
               !.stored = @ + Cardinality(taken),
               !.rejected = @ + Cardinality(offered \ taken)]
          /\ UNCHANGED workLeft
     \/ Fault /\ upsert' = [upsert EXCEPT !.step = "failed"]
     \/ Fault /\ \E taken \in SUBSET offered :
          upsert' = [upsert EXCEPT !.step = "failed", !.taken = @ \union taken]
  /\ UNCHANGED <<cacheVars, work, materialized, settled>>

WorkStep(w) ==
  \/ Plan(w) \/ DeleteInvalid(w) \/ (\E t \in Texts : MaterializeHit(w, t)) \/ HitsDone(w) \/ Encode(w)
  \/ MaterializeMiss(w) \/ PutMany(w) \/ EndWork(w)

SemanticNext ==
  \/ \E w \in Executors, sources \in WorkInputs : BeginWork(w, sources)
  \/ \E w \in Executors : WorkStep(w) \/ Restart(w)
  \/ \E w \in Executors, keep \in SUBSET Texts : PruneTo(w, keep)
  \/ \E t \in Texts : DamageRow(t)
  \/ DamageFile
  \/ \E sources \in WorkInputs : BeginUpsertCall(sources)
  \/ UpsertBatch

-----------------------------------------------------------------------------
(* An execution that ends well has materialised every input, and a source    *)
(* never has a vector of another text than its own; an embed_and_upsert that *)
(* ends well has offered every input once, and its counts are the sink's.    *)
WorkIsWhole ==
  /\ \A s \in Sources : materialized[s] \in {0, TextOf[s]}
  /\ \A w \in Executors : work[w].step = "done" =>
       \A s \in work[w].sources : materialized[s] = TextOf[s]
  /\ upsert.step = "done" =>
       /\ upsert.taken \union upsert.refused = upsert.sources
       /\ upsert.stored = Cardinality(upsert.taken)
       /\ upsert.rejected = Cardinality(upsert.refused)

(* A text that an execution has cached is not encoded again by one that      *)
(* plans afterwards, whatever failed in between, unless its row was lost:    *)
(* damaged, pruned, deleted by a lookup that had found an invalid row in its *)
(* place (embedding_cache.py:105), or unlinked with the file (:247).         *)
CachedIsNotEncoded ==
  \A w \in Executors : work[w].step \in {"encode", "batch", "put"} =>
    work[w].misses \intersect work[w].known = {}

(* The last two are always another executor's doing.  No executor is about   *)
(* to delete as invalid a row it has cached itself, and none that would      *)
(* unlink a file it has not open has cached anything in it: a single one     *)
(* never pays twice.                                                         *)
OwnWorkStays ==
  \A w \in Executors :
    /\ handle[w] # cachePath => settled[w] = {}
    /\ work[w].step = "delete" => work[w].invalid \intersect settled[w] = {}

(* Embedding work that ends well is whole, and is not done twice.            *)
EmbeddingWorkKept == WorkIsWhole /\ CachedIsNotEncoded /\ OwnWorkStays
=============================================================================
