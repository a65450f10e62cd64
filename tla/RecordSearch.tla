---------------------------- MODULE RecordSearch ----------------------------
(***************************************************************************)
(* Concurrent searches of one RecordSearchPipeline (search/): candidate    *)
(* acquisition behind a CandidateResultCache, then hydration behind a      *)
(* HydrationCache (runtime/canonical_cache.py).  Both caches coalesce      *)
(* misses: the first search to miss owns the key's flight, later ones wait *)
(* for it.                                                                 *)
(*                                                                         *)
(* Searches are tasks of one event loop, so a step runs from one await to  *)
(* the next.  The index and the records change at any time.  A candidate   *)
(* list is the constant ranking of its query, marked with the epoch it was *)
(* read at and the stages lost while acquiring it; a record is the version *)
(* loaded.  The hydration version provider is the scalar one.  Scores,     *)
(* chunk candidates, query plans that skip a lane, the batch limit of the  *)
(* hydrator and callers on several event loops are left out.               *)
(***************************************************************************)
EXTENDS Naturals, Sequences, FiniteSets

CONSTANTS
  Searches,   \* async_search calls, each in a task of its own
  Records,    \* record identities
  Queries,    \* query texts, with their filters and limits
  QueryOf,    \* search -> query
  RankOf,     \* query -> fused ranking of records
  Limit,      \* result_limit
  Modes,      \* pipeline configurations to start from
  Catching,   \* searches whose task goes on after a failed search
  None,       \* no value, no owner
  Error,      \* the outcome of a flight or a load that failed
  Cancelled,  \* the outcome of a flight whose owner was cancelled
  MaxChanges, \* bound on changes of the index and the records, and evictions
  MaxFaults   \* bound on failing backend calls and cancellations

Lanes == {"keyword", "vector"}
Stages == Lanes \cup {"graph", "parent_expansion", "hydration", "rerank"}

ASSUME RankAssumption ==
  /\ QueryOf \in [Searches -> Queries]
  /\ RankOf \in [Queries -> Seq(Records)]
  /\ {None, Error, Cancelled} \cap Searches = {}
  /\ Error # None /\ Cancelled # None /\ Error # Cancelled

ASSUME ConfigAssumption ==
  /\ Limit \in Nat \ {0}
  /\ Modes \subseteq [lenient : BOOLEAN, batch : BOOLEAN]
  /\ Catching \subseteq Searches
  /\ MaxChanges \in Nat
  /\ MaxFaults \in Nat

VARIABLES
  mode,       \* failure_mode = "lenient"; hydrator offers hydrate_records
  epoch,      \* mutation epoch of the search lanes
  version,    \* record -> its version
  gone,       \* records the source no longer has
  candidates, \* candidate cache: key -> list, or None
  acquiring,  \* candidate flights: key -> owner, or None
  hydrated,   \* hydration cache: key -> record or missing entry, or None
  loading,    \* hydration flights: key -> owner, or None
  pc,         \* search -> where it is
  job,        \* search -> its _SearchExecution
  got,        \* search -> what the flight it waits for delivered, or None
  changes, faults

source == <<epoch, version, gone>>
candidateCache == <<candidates, acquiring>>
hydrationCache == <<hydrated, loading>>
vars == <<mode, source, candidateCache, hydrationCache, pc, job, got, changes,
          faults>>

-----------------------------------------------------------------------------
Epochs == 0..MaxChanges
CandidateKeys == [query : Queries, epoch : Epochs]
HydrationKeys == [record : Records, version : Epochs]
Lists == [read : Epochs, lost : SUBSET Stages]
Hydrations == [version : Epochs, missing : BOOLEAN]
Errors == {Error, Cancelled}

\* The sentinels are no data.
ASSUME ValueAssumption ==
  \A v \in Errors \cup {None} : v \notin Epochs /\ v \notin Lists /\ v \notin Hydrations

PCs == {"idle", "wait", "lanes", "expand", "batch", "version", "lookup",
        "join", "load", "refine", "done", "raised", "cancelled"}
Ended == {"done", "raised", "cancelled"}
\* Where a search is suspended at an await, and so can be cancelled.
Awaiting == {"wait", "lanes", "expand", "version", "join", "load", "refine"}

Nothing == [r \in Records |-> None]
NoLanes == [l \in Lanes |-> "due"]

\* todo: candidates still to look up; seen: version just read; misses: records
\* to load; keys: version in the cache key of each miss, or None; loads:
\* outcome of each single load.
NoBatch == [todo |-> <<>>, seen |-> 0, misses |-> <<>>, keys |-> Nothing,
            loads |-> Nothing]

\* epoch and known: epoch and record versions when the search began; lanes:
\* outcome of each lane; read: epoch of the oldest lane; list: the candidates;
\* offset: candidates taken so far; found: what records were hydrated to;
\* failures: stages recorded as failed.
NoJob == [epoch |-> 0, known |-> [r \in Records |-> 0], lanes |-> NoLanes,
          read |-> None, list |-> None, offset |-> 0, batch |-> NoBatch,
          found |-> Nothing, failures |-> {}]

At(s, step) == pc[s] = step
Goto(s, step) == pc' = [pc EXCEPT ![s] = step]
Become(s, j) == job' = [job EXCEPT ![s] = j]
Elements(q) == {q[i] : i \in 1..Len(q)}

Query(s) == QueryOf[s]
\* Mutant of Key: the epochs are read when the list is stored.
KeyOfNow(s) == [query |-> Query(s), epoch |-> epoch]

Key(s) == [query |-> Query(s), epoch |-> job[s].epoch]
\* With no lane left there is nothing to fuse.
Candidates(s) ==
  IF Lanes \subseteq job[s].list.lost THEN <<>> ELSE RankOf[Query(s)]
Target(s) == Head(job[s].batch.todo)
TargetKey(s) == [record |-> Target(s), version |-> job[s].batch.seen]
Misses(s) == Elements(job[s].batch.misses)
\* The cache keys of those records of R that have one.
KeysOf(s, R) == {[record |-> r, version |-> job[s].batch.keys[r]] :
                   r \in {x \in R : job[s].batch.keys[x] # None}}
Current == [r \in Records |-> [version |-> version[r], missing |-> r \in gone]]

CandidateWaiters(k) ==
  {t \in Searches : At(t, "wait") /\ Key(t) = k /\ got[t] = None}
HydrationWaiters(K) ==
  {t \in Searches : At(t, "join") /\ TargetKey(t) \in K /\ got[t] = None}

\* set_result or set_exception on the futures the searches of T wait for.
Deliver(T, what) ==
  got' = [t \in Searches |-> IF t \in T THEN what[t] ELSE got[t]]

\* Failing calls and cancellations draw on one budget.
Fault(n) == faults + n <= MaxFaults /\ faults' = faults + n

End(s, how) == Goto(s, how) /\ Become(s, NoJob)

\* _handle_error, then on with job j: lenient mode records the failed stages,
\* strict mode raises.
Proceed(s, lost, next, j) ==
  IF lost = {} \/ mode.lenient
  THEN Goto(s, next) /\ Become(s, [j EXCEPT !.failures = @ \cup lost])
  ELSE End(s, "raised")

-----------------------------------------------------------------------------
Init ==
  /\ mode \in Modes
  /\ epoch = 0
  /\ version = [r \in Records |-> 0]
  /\ gone = {}
  /\ candidates = [k \in CandidateKeys |-> None]
  /\ acquiring = [k \in CandidateKeys |-> None]
  /\ hydrated = [k \in HydrationKeys |-> None]
  /\ loading = [k \in HydrationKeys |-> None]
  /\ pc = [s \in Searches |-> "idle"]
  /\ job = [s \in Searches |-> NoJob]
  /\ got = [s \in Searches |-> None]
  /\ changes = 0 /\ faults = 0

\* A change of a search lane moves its epoch.
ChangeIndex ==
  /\ changes < MaxChanges
  /\ epoch' = epoch + 1
  /\ changes' = changes + 1
  /\ UNCHANGED <<mode, version, gone, candidateCache, hydrationCache, pc, job,
                 got, faults>>

\* A record is saved or deleted.
ChangeRecord(r) ==
  /\ changes < MaxChanges
  /\ version' = [version EXCEPT ![r] = @ + 1]
  /\ gone' \in {gone \cup {r}, gone \ {r}}
  /\ changes' = changes + 1
  /\ UNCHANGED <<mode, epoch, candidateCache, hydrationCache, pc, job, got,
                 faults>>

\* LRU and TTL: an entry may go at any time.
Evict ==
  /\ changes < MaxChanges
  /\ changes' = changes + 1
  /\ \/ /\ \E k \in CandidateKeys :
             candidates[k] # None /\ candidates' = [candidates EXCEPT ![k] = None]
        /\ UNCHANGED hydrated
     \/ /\ \E k \in HydrationKeys :
             hydrated[k] # None /\ hydrated' = [hydrated EXCEPT ![k] = None]
        /\ UNCHANGED candidates
  /\ UNCHANGED <<mode, source, acquiring, loading, pc, job, got, faults>>

-----------------------------------------------------------------------------
(* Candidate acquisition.                                                  *)

\* _load_cached_candidates: the key takes the epochs of now; hit, claim or join.
Begin(s) ==
  LET k == [query |-> Query(s), epoch |-> epoch] IN
  /\ At(s, "idle")
  /\ Become(s, [NoJob EXCEPT !.epoch = epoch, !.known = version,
                             !.list = candidates[k]])
  /\ \/ candidates[k] # None /\ Goto(s, "batch") /\ UNCHANGED acquiring
     \/ /\ candidates[k] = None /\ acquiring[k] = None
        /\ acquiring' = [acquiring EXCEPT ![k] = s]
        /\ Goto(s, "lanes")
     \/ /\ candidates[k] = None /\ acquiring[k] # None
        /\ Goto(s, "wait")
        /\ UNCHANGED acquiring
  /\ UNCHANGED <<mode, source, candidates, hydrationCache, got, changes, faults>>

\* A waiter takes the owner's list; on the owner's failure it acquires
\* without a claim; the owner's CancelledError goes through it.
Coalesced(s) ==
  /\ At(s, "wait")
  /\ got[s] # None
  /\ got' = [got EXCEPT ![s] = None]
  /\ \/ /\ got[s] \notin Errors
        /\ Become(s, [job[s] EXCEPT !.list = got[s]])
        /\ Goto(s, "batch")
     \/ got[s] = Error /\ Goto(s, "lanes") /\ UNCHANGED job
     \/ got[s] = Cancelled /\ End(s, "cancelled")
  /\ UNCHANGED <<mode, source, candidateCache, hydrationCache, changes, faults>>

\* One of the two concurrent lane searches answers or fails.
SearchLane(s, l) ==
  LET j == job[s] IN
  /\ At(s, "lanes")
  /\ j.lanes[l] = "due"
  /\ \/ /\ Become(s, [j EXCEPT !.lanes[l] = "read",
                               !.read = IF @ = None THEN epoch ELSE @])
        /\ UNCHANGED faults
     \/ Become(s, [j EXCEPT !.lanes[l] = "failed"]) /\ Fault(1)
  /\ UNCHANGED <<mode, source, candidateCache, hydrationCache, pc, got, changes>>

\* Mutant of FuseLanes: a failed lane is dropped and nothing is raised.
FuseLanesQuietly(s) ==
  LET j == job[s] IN
  /\ At(s, "lanes")
  /\ \A l \in Lanes : j.lanes[l] # "due"
  /\ Become(s, [j EXCEPT !.lanes = NoLanes,
                         !.read = IF @ = None THEN epoch ELSE @,
                         !.failures = {l \in Lanes : j.lanes[l] = "failed"}])
  /\ Goto(s, "expand")
  /\ UNCHANGED <<mode, source, candidateCache, hydrationCache, got, changes,
                 faults>>

\* Both lanes are in: fuse what they found.
FuseLanes(s) ==
  LET j == job[s] IN
  /\ At(s, "lanes")
  /\ \A l \in Lanes : j.lanes[l] # "due"
  /\ Proceed(s, {l \in Lanes : j.lanes[l] = "failed"}, "expand",
             [j EXCEPT !.lanes = NoLanes,
                       !.read = IF @ = None THEN epoch ELSE @])
  /\ UNCHANGED <<mode, source, candidateCache, hydrationCache, got, changes,
                 faults>>

\* CandidateResultCache.set
StoreCandidates(k, value) ==
  /\ candidates' = [candidates EXCEPT ![k] = value]
  /\ acquiring' = [acquiring EXCEPT ![k] = None]
  /\ Deliver(CandidateWaiters(k), [t \in Searches |-> value])

\* Graph, query and parent expansion, each of which may fail; then the list is
\* cached under the key the search began with, and the waiters get it.
Expand(s) ==
  \E lost \in SUBSET {"graph", "keyword", "parent_expansion"} :
    LET j == job[s]
        value == [read |-> j.read, lost |-> j.failures \cup lost] IN
    /\ At(s, "expand")
    /\ Fault(Cardinality(lost))
    /\ Proceed(s, lost, "batch", [j EXCEPT !.list = value, !.read = None])
    /\ IF lost = {} \/ mode.lenient
       THEN StoreCandidates(Key(s), value)
       ELSE UNCHANGED <<candidateCache, got>>
    /\ UNCHANGED <<mode, source, hydrationCache, changes>>

-----------------------------------------------------------------------------
(* Hydration: _hydrate_results and hydrate_candidates.                     *)

\* Candidates are hydrated a batch at a time until Limit records are found.
NextBatch(s) ==
  LET j == job[s]
      live == {r \in Records : j.found[r] # None /\ ~j.found[r].missing}
      rest == SubSeq(Candidates(s), j.offset + 1, Len(Candidates(s)))
      take == SubSeq(rest, 1, IF Len(rest) < Limit THEN Len(rest) ELSE Limit)
      more == rest # <<>> /\ Cardinality(live) < Limit IN
  /\ At(s, "batch")
  /\ \/ /\ more
        /\ Become(s, [j EXCEPT !.offset = @ + Len(take),
                               !.batch = [NoBatch EXCEPT !.todo = take]])
        /\ Goto(s, "version")
     \/ ~more /\ Goto(s, "refine") /\ UNCHANGED job
  /\ UNCHANGED <<mode, source, candidateCache, hydrationCache, got, changes,
                 faults>>

\* On with the next candidate, then with the loads, then with the next batch.
Advance(s, j) ==
  LET b == [j.batch EXCEPT !.todo = Tail(@), !.seen = 0] IN
  /\ Become(s, [j EXCEPT !.batch = b])
  /\ Goto(s, IF b.todo # <<>> THEN "version"
             ELSE IF b.misses # <<>> THEN "load" ELSE "batch")

Hit(s, value) == Advance(s, [job[s] EXCEPT !.found[Target(s)] = value])

Miss(s, key) ==
  Advance(s, [job[s] EXCEPT !.batch.misses = Append(@, Target(s)),
                            !.batch.keys[Target(s)] = key])

\* The version provider answers; without a version the record is loaded.
ReadVersion(s) ==
  /\ At(s, "version")
  /\ \/ /\ Become(s, [job[s] EXCEPT !.batch.seen = version[Target(s)]])
        /\ Goto(s, "lookup")
        /\ UNCHANGED faults
     \/ Fault(1) /\ Miss(s, None)
  /\ UNCHANGED <<mode, source, candidateCache, hydrationCache, got, changes>>

\* lookup and async_wait_for_miss: hit, claim or join.  Claims made for
\* earlier candidates of the batch stay held.
Lookup(s) ==
  LET k == TargetKey(s) IN
  /\ At(s, "lookup")
  /\ \/ hydrated[k] # None /\ Hit(s, hydrated[k]) /\ UNCHANGED loading
     \/ /\ hydrated[k] = None /\ loading[k] = None
        /\ loading' = [loading EXCEPT ![k] = s]
        /\ Miss(s, k.version)
     \/ /\ hydrated[k] = None /\ loading[k] # None
        /\ Goto(s, "join")
        /\ UNCHANGED <<job, loading>>
  /\ UNCHANGED <<mode, source, candidateCache, hydrated, got, changes, faults>>

\* Mutant of Joined: a candidate whose flight failed is dropped.
JoinedDrops(s) ==
  /\ At(s, "join")
  /\ got[s] # None
  /\ got' = [got EXCEPT ![s] = None]
  /\ \/ got[s] \notin Errors /\ Hit(s, got[s])
     \/ got[s] = Error /\ Advance(s, job[s])
     \/ got[s] = Cancelled /\ End(s, "cancelled")
  /\ UNCHANGED <<mode, source, candidateCache, hydrationCache, changes, faults>>

\* The awaited flight is over; after its failure the record counts as a miss.
Joined(s) ==
  /\ At(s, "join")
  /\ got[s] # None
  /\ got' = [got EXCEPT ![s] = None]
  /\ \/ got[s] \notin Errors /\ Hit(s, got[s])
     \/ got[s] = Error /\ Miss(s, job[s].batch.seen)
     \/ got[s] = Cancelled /\ End(s, "cancelled")
  /\ UNCHANGED <<mode, source, candidateCache, hydrationCache, changes, faults>>

\* HydrationCache.fail for the records Bad, HydrationCache.set for Good.
SettleFlights(s, Good, Bad, value) ==
  LET set == KeysOf(s, Good)
      failed == KeysOf(s, Bad) IN
  /\ hydrated' = [k \in HydrationKeys |->
                    IF k \in set THEN value[k.record] ELSE hydrated[k]]
  /\ loading' = [k \in HydrationKeys |->
                   IF k \in set \cup failed THEN None ELSE loading[k]]
  /\ Deliver(HydrationWaiters(set \cup failed),
             [t \in HydrationWaiters(set \cup failed) |->
                IF TargetKey(t) \in set THEN value[Target(t)] ELSE Error])

\* The job after a batch in which the records Good were loaded.
After(s, Good, value) ==
  [job[s] EXCEPT !.batch = NoBatch,
                 !.found = [r \in Records |-> IF r \in Good THEN value[r] ELSE @[r]]]

\* hydrate_records: one call for the misses of the batch.
LoadBatch(s) ==
  /\ At(s, "load")
  /\ mode.batch
  /\ \/ /\ SettleFlights(s, Misses(s), {}, Current)
        /\ Proceed(s, {}, "batch", After(s, Misses(s), Current))
        /\ UNCHANGED faults
     \/ /\ Fault(1)
        /\ SettleFlights(s, {}, Misses(s), Current)
        /\ Proceed(s, {"hydration"}, "batch", After(s, {}, Current))
  /\ UNCHANGED <<mode, source, candidateCache, changes>>

\* hydrate_record: one of the concurrent calls answers or fails.
LoadOne(s, r) ==
  /\ At(s, "load")
  /\ ~mode.batch
  /\ r \in Misses(s)
  /\ job[s].batch.loads[r] = None
  /\ \/ /\ Become(s, [job[s] EXCEPT !.batch.loads[r] = Current[r]])
        /\ UNCHANGED faults
     \/ Become(s, [job[s] EXCEPT !.batch.loads[r] = Error]) /\ Fault(1)
  /\ UNCHANGED <<mode, source, candidateCache, hydrationCache, pc, got, changes>>

\* All calls are in.  Strict mode raises at the first that failed, before
\* anything loaded is cached.
FinishLoads(s) ==
  LET b == job[s].batch
      failed == {r \in Misses(s) : b.loads[r] = Error}
      first == {b.misses[i] : i \in {n \in 1..Len(b.misses) :
                  \A m \in 1..(n - 1) : b.misses[m] \notin failed}} \cap failed
      Good == Misses(s) \ failed IN
  /\ At(s, "load")
  /\ ~mode.batch
  /\ \A r \in Misses(s) : b.loads[r] # None
  /\ IF failed = {} \/ mode.lenient
     THEN SettleFlights(s, Good, failed, b.loads)
     ELSE SettleFlights(s, {}, first, b.loads)
  /\ Proceed(s, IF failed = {} THEN {} ELSE {"hydration"}, "batch",
             After(s, Good, b.loads))
  /\ UNCHANGED <<mode, source, candidateCache, changes, faults>>

\* _refine_results and _build_outcome: the reranker and the hydration of chunk
\* parents may fail.
Refine(s) ==
  \E lost \in SUBSET {"rerank", "hydration"} :
    /\ At(s, "refine")
    /\ Fault(Cardinality(lost))
    /\ Proceed(s, lost, "done", job[s])
    /\ UNCHANGED <<mode, source, candidateCache, hydrationCache, got, changes>>

-----------------------------------------------------------------------------
\* The task of a search is cancelled; shield keeps the flight it waits for.
Cancel(s) ==
  /\ pc[s] \in Awaiting
  /\ Fault(1)
  /\ End(s, "cancelled")
  /\ got' = [got EXCEPT ![s] = None]
  /\ UNCHANGED <<mode, source, candidateCache, hydrationCache, changes>>

\* Mutant of OwnerDone: cancellation counts as no error.
OwnerDoneUnlessCancelled(s) ==
  LET ks == {k \in CandidateKeys : acquiring[k] = s}
      hs == {k \in HydrationKeys : loading[k] = s} IN
  /\ At(s, "raised")
  /\ ks # {} \/ hs # {}
  /\ acquiring' = [k \in CandidateKeys |-> IF k \in ks THEN None ELSE acquiring[k]]
  /\ loading' = [k \in HydrationKeys |-> IF k \in hs THEN None ELSE loading[k]]
  /\ Deliver((UNION {CandidateWaiters(k) : k \in ks}) \cup HydrationWaiters(hs),
             [t \in Searches |-> Error])
  /\ UNCHANGED <<mode, source, candidates, hydrated, pc, job, changes, faults>>

\* The callback on the owner's task: a task that ends with an error fails the
\* flights it still owns.  A task that caught the error ends without one.
OwnerDone(s) ==
  LET outcome == IF At(s, "cancelled") THEN Cancelled ELSE Error
      ks == {k \in CandidateKeys : acquiring[k] = s}
      hs == {k \in HydrationKeys : loading[k] = s} IN
  /\ At(s, "cancelled") \/ (At(s, "raised") /\ s \notin Catching)
  /\ ks # {} \/ hs # {}
  /\ acquiring' = [k \in CandidateKeys |-> IF k \in ks THEN None ELSE acquiring[k]]
  /\ loading' = [k \in HydrationKeys |-> IF k \in hs THEN None ELSE loading[k]]
  /\ Deliver((UNION {CandidateWaiters(k) : k \in ks}) \cup HydrationWaiters(hs),
             [t \in Searches |-> outcome])
  /\ UNCHANGED <<mode, source, candidates, hydrated, pc, job, changes, faults>>

Acquire(s) ==
  \/ Begin(s)
  \/ Coalesced(s)
  \/ \E l \in Lanes : SearchLane(s, l)
  \/ FuseLanes(s)
  \/ Expand(s)

Hydrate(s) ==
  \/ NextBatch(s)
  \/ ReadVersion(s)
  \/ Lookup(s)
  \/ Joined(s)
  \/ LoadBatch(s)
  \/ \E r \in Records : LoadOne(s, r)
  \/ FinishLoads(s)

Step(s) == Acquire(s) \/ Hydrate(s) \/ Refine(s) \/ OwnerDone(s)

Next ==
  \/ ChangeIndex
  \/ \E r \in Records : ChangeRecord(r)
  \/ Evict
  \/ \E s \in Searches : Step(s) \/ Cancel(s)

Spec == Init /\ [][Next]_vars

\* Every backend call answers or fails and the event loop runs every ready task.
FairSpec == Spec /\ \A s \in Searches : WF_vars(Step(s))

-----------------------------------------------------------------------------
Batches == [todo : Seq(Records), seen : Epochs, misses : Seq(Records),
            keys : [Records -> Epochs \cup {None}],
            loads : [Records -> Hydrations \cup {None, Error}]]
Jobs == [epoch : Epochs, known : [Records -> Epochs],
         lanes : [Lanes -> {"due", "read", "failed"}],
         read : Epochs \cup {None}, list : Lists \cup {None}, offset : Nat,
         batch : Batches, found : [Records -> Hydrations \cup {None}],
         failures : SUBSET Stages]

TypeOK ==
  /\ mode \in [lenient : BOOLEAN, batch : BOOLEAN]
  /\ epoch \in Epochs
  /\ version \in [Records -> Epochs]
  /\ gone \subseteq Records
  /\ candidates \in [CandidateKeys -> Lists \cup {None}]
  /\ acquiring \in [CandidateKeys -> Searches \cup {None}]
  /\ hydrated \in [HydrationKeys -> Hydrations \cup {None}]
  /\ loading \in [HydrationKeys -> Searches \cup {None}]
  /\ pc \in [Searches -> PCs]
  /\ job \in [Searches -> Jobs]
  /\ got \in [Searches -> Lists \cup Hydrations \cup Errors \cup {None}]
  /\ changes \in 0..MaxChanges
  /\ faults \in 0..MaxFaults

\* What a search uses is never older than the search: its candidates, cached or
\* coalesced, were read at its epoch or later, and every record it hydrated is
\* at least at the version the record had when the search began.
FreshResults ==
  \A s \in Searches :
    /\ job[s].list # None => job[s].list.read >= job[s].epoch
    /\ \A r \in Records :
         job[s].found[r] # None => job[s].found[r].version >= job[s].known[r]

\* In strict mode no search, however it came by its candidates and records,
\* ends well after a failure.
StrictSearchIsComplete ==
  \A s \in Searches :
    At(s, "done") /\ ~mode.lenient => job[s].list.lost = {} /\ job[s].failures = {}

\* Every candidate a search took up is hydrated or known to be missing, unless
\* the search reports a failed hydration.
CandidatesAccounted ==
  \A s \in Searches :
    At(s, "done") /\ "hydration" \notin job[s].failures =>
      \A i \in 1..job[s].offset : job[s].found[Candidates(s)[i]] # None

\* A search waits for a flight that its owner has left behind: strict mode
\* raised, the owner's task caught the error and goes on.
LeftBehind(o) == o \in Catching /\ At(o, "raised")
Stranded(s) ==
  /\ got[s] = None
  /\ \/ At(s, "wait") /\ \E o \in Searches : acquiring[Key(s)] = o /\ LeftBehind(o)
     \/ At(s, "join") /\ \E o \in Searches : loading[TargetKey(s)] = o /\ LeftBehind(o)

\* Every search ends, or hangs on a flight whose owner has caught its error:
\* owner_done releases the waiters of every other owner that fails or is
\* cancelled, and the waiters of a caught error are released if another search
\* delivers the flight.
SearchesEnd == \A s \in Searches : <>[](pc[s] \in Ended \/ Stranded(s))

\* Every search ends, whatever the others do.
Termination == \A s \in Searches : <>(pc[s] \in Ended)
=============================================================================
