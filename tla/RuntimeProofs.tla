--------------------------- MODULE RuntimeProofs ---------------------------
(***************************************************************************)
(* The services of the runtime, for any sources, workers, tasks, callers   *)
(* and faults: a federated search has an outcome of every source it asked  *)
(* and answers from all of them, no task it or a strict fan-out started    *)
(* outlives it, and the two caches answer with old values only where the   *)
(* code allows it.                                                         *)
(***************************************************************************)
EXTENDS Runtime, HttpSource, SequenceTheorems, FiniteSetTheorems, WellFoundedInduction, TLAPS

-----------------------------------------------------------------------------
(* The fan-out helper                                                      *)

Gathers == [phase : {"idle", "gather", "stopping", "done"}, strict : BOOLEAN,
            outcome : {"none", "raised", "returned"}]

FanTypeOK ==
  /\ gather \in Gathers
  /\ task \in [Tasks -> TaskEnd \cup {"new", "running", "stopping"}]
  /\ diagnosed \subseteq Tasks

\* In lenient mode a failure is noted in the step in which its task ends; only
\* a strict call waits for tasks it has stopped.
FanInv ==
  /\ FanTypeOK
  /\ gather.phase = "idle" => \A i \in Tasks : task[i] = "new"
  /\ gather.phase = "stopping" => gather.outcome = "raised" /\ gather.strict
  /\ ~gather.strict => \A i \in Tasks : task[i] \in {"timeout", "error"} => i \in diagnosed
  /\ GatherCleansUp

LEMMA FanInitInv == FanInit => FanInv
  BY DEF FanInit, FanInv, FanTypeOK, Gathers, GatherCleansUp

LEMMA FanNextInv == FanInv /\ [FanNext]_fanVars => FanInv'
<1> SUFFICES ASSUME FanInv, [FanNext]_fanVars PROVE FanInv'
  OBVIOUS
<1> USE DEF FanInv, FanTypeOK, Gathers, GatherCleansUp, TaskEnd, Ended
<1>1. CASE Fan
  <2>1. PICK strict \in BOOLEAN :
          gather' = [phase |-> "gather", strict |-> strict, outcome |-> "none"]
    BY <1>1 DEF Fan
  <2> QED BY <1>1, <2>1 DEF Fan
<1>2. CASE GatherRaises
  <2>1. CASE gather.strict
    <3>1. task' \in [Tasks -> TaskEnd \cup {"new", "running", "stopping"}]
      BY <1>2, <2>1 DEF GatherRaises, CancelTasks
    <3>2. gather' \in Gathers /\ gather'.phase = "stopping" /\ gather'.outcome = "raised"
          /\ gather'.strict
      BY <1>2, <2>1 DEF GatherRaises
    <3> QED BY <1>2, <3>1, <3>2 DEF GatherRaises
  <2>2. CASE ~gather.strict
    <3>1. gather' \in Gathers /\ gather'.phase = "done" /\ gather'.outcome = "raised"
          /\ ~gather'.strict /\ UNCHANGED <<task, diagnosed>>
      BY <1>2, <2>2 DEF GatherRaises
    <3> QED BY <2>2, <3>1
  <2> QED BY <2>1, <2>2
<1>3. CASE CallerCancelled
  BY <1>3 DEF CallerCancelled, CancelTasks
<1>4. CASE AwaitStopped
  BY <1>4 DEF AwaitStopped
<1>5. CASE GatherReturns
  BY <1>5 DEF GatherReturns, Raises
<1>6. ASSUME NEW i \in Tasks, NEW end \in {"ok", "timeout", "error", "cancelled"},
             FinishTask(i, end)
      PROVE  FanInv'
  BY <1>6 DEF FinishTask
<1>7. ASSUME NEW i \in Tasks, TaskStops(i) PROVE FanInv'
  BY <1>7 DEF TaskStops
<1>8. CASE UNCHANGED fanVars
  BY <1>8 DEF fanVars
<1> QED BY <1>1, <1>2, <1>3, <1>4, <1>5, <1>6, <1>7, <1>8 DEF FanNext, TaskCancelsItself

-----------------------------------------------------------------------------
(* The query embedding cache                                               *)

Embeddings == 0..MaxEpoch
Askers == [at : {"idle", "memory", "backing", "insert", "found", "join", "compute", "complete",
                 "save", "wait", "done"},
           joined : SUBSET Callers, embedding : Embeddings,
           how : {"none", "cached", "computed", "joined", "error", "cancelled"},
           gone : BOOLEAN]
Computed == [state : {"none", "open", "value", "error", "cancelled"}, embedding : Embeddings]

QueryTypeOK ==
  /\ model \in 1..MaxEpoch
  /\ memory \in Embeddings /\ backing \in Embeddings
  /\ inflight \subseteq Callers
  /\ computed \in [Callers -> Computed]
  /\ asking \in [Callers -> Askers]
  /\ invalidate \in {"no", "memory"}
  /\ mixed \in BOOLEAN
  /\ mishaps \in 0..MaxCacheFaults

Now == {Absent, model}

\* While nothing has overlapped an invalidation, no call is open between its
\* two halves, and a call that carries an embedding carries the model's.
QueryInv ==
  /\ QueryTypeOK
  /\ ~mixed =>
       /\ memory \in Now
       /\ invalidate = "no" => backing \in Now
       /\ invalidate = "memory" => \A c \in Callers : asking[c].at \in {"idle", "done"}
       /\ \A c \in Callers :
            asking[c].at \in {"insert", "found", "complete", "save"} => asking[c].embedding \in Now

LEMMA QueryInitInv == QueryInit => QueryInv
<1>1. MaxEpoch \in Nat \ {0} /\ MaxCacheFaults \in Nat
  BY QueryCacheAssumption
<1>2. 1 \in 1..MaxEpoch /\ Absent \in Embeddings /\ 0 \in 0..MaxCacheFaults
  BY <1>1 DEF Absent, Embeddings
<1>3. Asker \in Askers /\ Asker.at = "idle"
  BY <1>2 DEF Asker, Askers
<1>4. [state |-> "none", embedding |-> Absent] \in Computed
  BY <1>2 DEF Computed
<1> QED BY <1>2, <1>3, <1>4 DEF QueryInit, QueryInv, QueryTypeOK, Now

\* A step of one caller that takes part in no invalidation.
LEMMA CallerKeeps ==
  ASSUME QueryInv, NEW c \in Callers, NEW next \in Askers,
         asking[c].at \notin {"idle", "done"},
         asking' = [asking EXCEPT ![c] = next],
         UNCHANGED <<model, invalidate, mixed>>,
         mishaps' \in 0..MaxCacheFaults, inflight' \subseteq Callers,
         computed' \in [Callers -> Computed],
         memory' \in Embeddings, backing' \in Embeddings,
         ~mixed /\ memory \in Now => memory' \in Now,
         ~mixed /\ invalidate = "no" => backing' \in Now,
         ~mixed /\ invalidate = "no" /\ next.at \in {"insert", "found", "complete", "save"} =>
           next.embedding \in Now
  PROVE  QueryInv'
<1>1. QueryTypeOK'
  BY DEF QueryInv, QueryTypeOK
<1>2. \A d \in Callers : asking'[d] = IF d = c THEN next ELSE asking[d]
  BY DEF QueryInv, QueryTypeOK
<1>3. ~mixed => invalidate = "no"
  BY DEF QueryInv, QueryTypeOK
<1> QED BY <1>1, <1>2, <1>3 DEF QueryInv, Now


LEMMA QueryTypes ==
  ASSUME QueryInv
  PROVE  /\ Absent \in Embeddings /\ model \in Embeddings
         /\ \A c \in Callers : asking[c] \in Askers /\ computed[c] \in Computed
         /\ Mishap => mishaps' \in 0..MaxCacheFaults
<1>1. MaxEpoch \in Nat \ {0} /\ MaxCacheFaults \in Nat
  BY QueryCacheAssumption
<1>2. model \in 1..MaxEpoch /\ mishaps \in 0..MaxCacheFaults
  BY DEF QueryInv, QueryTypeOK
<1>3. Absent \in Embeddings /\ model \in Embeddings
  BY <1>1, <1>2 DEF Absent, Embeddings
<1>4. Mishap => mishaps' \in 0..MaxCacheFaults
  BY <1>1, <1>2 DEF Mishap
<1> QED BY <1>3, <1>4 DEF QueryInv, QueryTypeOK

LEMMA GetsIs ==
  ASSUME QueryInv, NEW c \in Callers, NEW e \in Embeddings,
         NEW how \in {"cached", "computed", "joined", "error", "cancelled"}, Gets(c, e, how)
  PROVE  \E next \in Askers : next.at = "done" /\ asking' = [asking EXCEPT ![c] = next]
<1> DEFINE next == [asking[c] EXCEPT !.at = "done", !.embedding = e, !.how = how]
<1>1. asking[c] \in Askers
  BY QueryTypes
<1>2. next \in Askers /\ next.at = "done"
  BY <1>1 DEF Askers
<1>3. asking' = [asking EXCEPT ![c] = next]
  BY DEF Gets
<1> HIDE DEF next
<1> QED BY <1>2, <1>3

LEMMA MovesIs ==
  ASSUME QueryInv, NEW c \in Callers,
         NEW at \in {"memory", "backing", "join", "compute", "save", "done"}, Moves(c, at)
  PROVE  \E next \in Askers :
           /\ next.at = at /\ next.embedding = asking[c].embedding
           /\ asking' = [asking EXCEPT ![c] = next]
<1>1. asking[c] \in Askers
  BY QueryTypes
<1>2. [asking[c] EXCEPT !.at = at] \in Askers
  BY <1>1 DEF Askers
<1>3. asking' = [asking EXCEPT ![c] = [asking[c] EXCEPT !.at = at]]
  BY DEF Moves
<1> QED BY <1>1, <1>2, <1>3 DEF Askers

\* A caller that finds an embedding has ended, or carries what it found.
LEMMA FoundIs ==
  ASSUME QueryInv, NEW c \in Callers, NEW e \in Embeddings, Found(c, e)
  PROVE  \E next \in Askers :
           /\ next.at = "done" \/ (next.at = "found" /\ next.embedding = e)
           /\ asking' = [asking EXCEPT ![c] = next]
<1>1. CASE asking[c].gone
  BY <1>1, MovesIs DEF Found
<1>2. CASE ~asking[c].gone
  <2> DEFINE next == [asking[c] EXCEPT !.at = IF c \in AsyncCallers THEN "found" ELSE "done",
                                       !.embedding = e, !.how = "cached"]
  <2>1. asking[c] \in Askers
    BY QueryTypes
  <2>2. next \in Askers /\ next.embedding = e /\ next.at \in {"found", "done"}
    BY <2>1 DEF Askers
  <2>3. asking' = [asking EXCEPT ![c] = next]
    BY <1>2 DEF Found
  <2> HIDE DEF next
  <2> QED BY <2>2, <2>3
<1> QED BY <1>1, <1>2

LEMMA FailsIs ==
  ASSUME QueryInv, NEW c \in Callers, FlightFails(c)
  PROVE  inflight' \subseteq Callers /\ computed' \in [Callers -> Computed]
<1>1. [computed[c] EXCEPT !.state = "error"] \in Computed
  BY QueryTypes DEF Computed
<1> QED BY <1>1 DEF FlightFails, QueryInv, QueryTypeOK

\* Looking into the two caches.
LEMMA LookupKeeps ==
  ASSUME QueryInv, NEW c \in Callers,
         LoadFromMemory(c) \/ ReadBacking(c) \/ InsertFromBacking(c)
  PROVE  QueryInv'
<1>0. /\ UNCHANGED <<model, backing, invalidate, mixed>> /\ mishaps' \in 0..MaxCacheFaults
      /\ asking[c].at \in {"memory", "backing", "insert"} /\ asking[c] \in Askers
      /\ memory \in Embeddings /\ backing \in Embeddings
      /\ inflight \subseteq Callers /\ computed \in [Callers -> Computed]
      /\ ~mixed => backing \in Now \/ invalidate # "no"
  BY QueryTypes DEF LoadFromMemory, ReadBacking, InsertFromBacking, Is, QueryInv, QueryTypeOK
<1>1. CASE LoadFromMemory(c)
  <2>0. UNCHANGED <<memory, inflight, computed>>
    BY <1>1 DEF LoadFromMemory
  <2>1. CASE Found(c, memory)
    <3>1. ~mixed => memory \in Now
      BY DEF QueryInv
    <3> QED BY <1>0, <2>0, <2>1, <3>1, FoundIs, CallerKeeps
  <2>2. CASE Moves(c, "backing")
    BY <1>0, <2>0, <2>2, MovesIs, CallerKeeps
  <2> QED BY <1>1, <2>1, <2>2 DEF LoadFromMemory
<1>2. CASE ReadBacking(c)
  <2>0. memory' = memory /\ UNCHANGED <<inflight, computed>>
    BY <1>2 DEF ReadBacking
  <2>1. CASE asking' = [asking EXCEPT ![c] = [@ EXCEPT !.at = "insert", !.embedding = backing]]
    <3> DEFINE next == [asking[c] EXCEPT !.at = "insert", !.embedding = backing]
    <3>1. next \in Askers /\ next.embedding = backing /\ next.at = "insert"
      BY <1>0 DEF Askers
    <3>2. asking' = [asking EXCEPT ![c] = next]
      BY <2>1
    <3> HIDE DEF next
    <3> QED BY <1>0, <2>0, <3>1, <3>2, CallerKeeps
  <2>2. CASE NotFound(c)
    <3>1. \E at \in {"done", "compute", "join"} : Moves(c, at)
      BY <2>2 DEF NotFound
    <3> QED BY <1>0, <2>0, <3>1, MovesIs, CallerKeeps
  <2> QED BY <1>2, <2>1, <2>2 DEF ReadBacking
<1>3. CASE InsertFromBacking(c)
  <2>1. /\ Found(c, asking[c].embedding) /\ memory' = asking[c].embedding
        /\ asking[c].at = "insert" /\ UNCHANGED <<inflight, computed>>
    BY <1>3 DEF InsertFromBacking, Is
  <2>2. asking[c].embedding \in Embeddings
    BY <1>0 DEF Askers
  <2>3. ~mixed => asking[c].embedding \in Now
    BY <2>1 DEF QueryInv
  <2> QED BY <1>0, <2>1, <2>2, <2>3, FoundIs, CallerKeeps
<1> QED BY <1>1, <1>2, <1>3

\* Leading a flight.
LEMMA FlightKeeps ==
  ASSUME QueryInv, NEW c \in Callers,
         \/ StartOrJoinQuery(c) \/ Compute(c) \/ ComputeFails(c)
         \/ CompleteFound(c) \/ CompleteQuery(c) \/ SaveToStore(c)
  PROVE  QueryInv'
<1>0. /\ UNCHANGED <<model, invalidate, mixed>>
      /\ asking[c].at \in {"join", "found", "compute", "complete", "save"}
      /\ asking[c] \in Askers
      /\ memory \in Embeddings /\ backing \in Embeddings /\ mishaps \in 0..MaxCacheFaults
      /\ inflight \subseteq Callers /\ computed \in [Callers -> Computed]
      /\ ~mixed => backing \in Now \/ invalidate # "no"
      /\ asking[c].embedding \in Embeddings
  BY QueryTypes DEF StartOrJoinQuery, Compute, ComputeFails, FlightFails, CompleteFound,
                    CompleteQuery, CompleteEmbedding, SaveToStore, Is, QueryInv, QueryTypeOK, Askers
<1>1. CASE StartOrJoinQuery(c)
  <2>0. UNCHANGED <<memory, backing, mishaps>>
    BY <1>1 DEF StartOrJoinQuery
  <2>1. CASE inflight = {}
    <3>1. [computed[c] EXCEPT !.state = "open"] \in Computed
      BY QueryTypes DEF Computed
    <3>2. inflight' \subseteq Callers /\ computed' \in [Callers -> Computed]
      BY <1>0, <1>1, <2>1, <3>1 DEF StartOrJoinQuery
    <3>3. \E at \in {"memory", "compute"} : Moves(c, at)
      BY <1>1, <2>1 DEF StartOrJoinQuery
    <3> QED BY <1>0, <2>0, <3>2, <3>3, MovesIs, CallerKeeps
  <2>2. CASE inflight # {}
    <3> DEFINE next == [asking[c] EXCEPT !.at = "wait", !.joined = inflight]
    <3>1. next \in Askers /\ next.at = "wait"
      BY <1>0 DEF Askers
    <3>2. asking' = [asking EXCEPT ![c] = next] /\ UNCHANGED <<inflight, computed>>
      BY <1>1, <2>2 DEF StartOrJoinQuery
    <3> HIDE DEF next
    <3> QED BY <1>0, <2>0, <3>1, <3>2, CallerKeeps
  <2> QED BY <2>1, <2>2
<1>2. CASE Compute(c)
  <2> DEFINE next == [asking[c] EXCEPT !.at = "complete", !.embedding = model]
  <2>1. next \in Askers /\ next.embedding \in Now
    BY <1>0, QueryTypes DEF Askers, Now
  <2>2. /\ asking' = [asking EXCEPT ![c] = next]
        /\ UNCHANGED <<memory, backing, inflight, computed, mishaps>>
    BY <1>2 DEF Compute
  <2> HIDE DEF next
  <2> QED BY <1>0, <2>1, <2>2, CallerKeeps
<1>3. CASE ComputeFails(c)
  <2>1. /\ UNCHANGED <<memory, backing>> /\ mishaps' \in 0..MaxCacheFaults
        /\ Gets(c, Absent, "error") /\ FlightFails(c)
    BY <1>0, <1>3, QueryTypes DEF ComputeFails, FlightFails
  <2> QED BY <1>0, <2>1, QueryTypes, GetsIs, FailsIs, CallerKeeps
<1>4. CASE CompleteFound(c) \/ CompleteQuery(c)
  <2> PICK onwards \in {"done", "save"} : CompleteEmbedding(c, onwards)
    BY <1>4 DEF CompleteFound, CompleteQuery
  <2>0. /\ UNCHANGED <<backing, mishaps>> /\ memory' = asking[c].embedding
        /\ inflight' \subseteq Callers /\ asking[c].at \in {"found", "complete"}
    BY <1>0, <1>4 DEF CompleteFound, CompleteQuery, CompleteEmbedding, Is
  <2>1. ~mixed => asking[c].embedding \in Now
    BY <2>0 DEF QueryInv
  <2>2. CASE Gets(c, Absent, "error") /\ UNCHANGED computed
    BY <1>0, <2>0, <2>1, <2>2, QueryTypes, GetsIs, CallerKeeps
  <2>3. CASE Moves(c, onwards) /\ computed' = [computed EXCEPT ![c] =
                 [state |-> "value", embedding |-> asking[c].embedding]]
    <3>1. [state |-> "value", embedding |-> asking[c].embedding] \in Computed
      BY <1>0 DEF Computed
    <3>2. computed' \in [Callers -> Computed]
      BY <1>0, <2>3, <3>1
    <3> QED BY <1>0, <2>0, <2>1, <2>3, <3>2, MovesIs, CallerKeeps
  <2> QED BY <1>4, <2>2, <2>3 DEF CompleteEmbedding
<1>5. CASE SaveToStore(c)
  <2>1. /\ UNCHANGED <<memory, inflight, computed>> /\ mishaps' \in 0..MaxCacheFaults
        /\ asking[c].at = "save" /\ backing' \in {backing, asking[c].embedding}
        /\ \E how \in {"computed", "cancelled"} : Gets(c, asking[c].embedding, how)
    BY <1>0, <1>5, QueryTypes DEF SaveToStore, Is
  <2>2. ~mixed => asking[c].embedding \in Now
    BY <2>1 DEF QueryInv
  <2> QED BY <1>0, <2>1, <2>2, GetsIs, CallerKeeps
<1> QED BY <1>1, <1>2, <1>3, <1>4, <1>5

\* Waiting for another's flight, and being cancelled.
LEMMA WaitKeeps ==
  ASSUME QueryInv, NEW c \in Callers, FinishWait(c) \/ CancelWait(c) \/ CancelLookup(c)
  PROVE  QueryInv'
<1>0. /\ UNCHANGED <<model, memory, backing, invalidate, mixed, mishaps>>
      /\ asking[c].at \in {"memory", "backing", "insert", "found", "wait"} /\ asking[c] \in Askers
      /\ memory \in Embeddings /\ backing \in Embeddings /\ mishaps \in 0..MaxCacheFaults
      /\ inflight \subseteq Callers /\ computed \in [Callers -> Computed]
      /\ ~mixed => backing \in Now \/ invalidate # "no"
  BY QueryTypes DEF FinishWait, CancelWait, CancelLookup, FlightFails, Waiting, Is,
                    QueryInv, QueryTypeOK
<1>1. Waiting(c) => FlightOf(c) \in Callers
  BY <1>0 DEF Waiting, FlightOf, Askers
<1>2. CASE FinishWait(c)
  <2>1. computed[FlightOf(c)].embedding \in Embeddings
    BY <1>1, <1>2, QueryTypes DEF FinishWait, Computed
  <2>2. /\ \E e \in Embeddings, how \in {"joined", "error"} : Gets(c, e, how)
        /\ UNCHANGED <<inflight, computed>>
    BY <1>2, <2>1, QueryTypes DEF FinishWait
  <2> QED BY <1>0, <2>2, GetsIs, CallerKeeps
<1>3. CASE CancelWait(c)
  <2>1. [computed[FlightOf(c)] EXCEPT !.state = "cancelled"] \in Computed
    BY <1>1, <1>3, QueryTypes DEF CancelWait, Computed
  <2>2. Gets(c, Absent, "cancelled") /\ inflight' = inflight
        /\ computed' \in [Callers -> Computed]
    BY <1>0, <1>3, <2>1 DEF CancelWait
  <2> QED BY <1>0, <2>2, QueryTypes, GetsIs, CallerKeeps
<1>4. CASE CancelLookup(c)
  <2> DEFINE next == Abandoning(asking[c])
  <2>1. /\ next \in Askers /\ next.at \in {asking[c].at, "done"}
        /\ next.embedding = asking[c].embedding
    BY <1>0 DEF Askers, Abandoning
  <2>2. asking' = [asking EXCEPT ![c] = next] /\ FlightFails(c)
    BY <1>4 DEF CancelLookup
  <2>3. ~mixed /\ next.at \in {"insert", "found", "complete", "save"} => next.embedding \in Now
    BY <2>1 DEF QueryInv
  <2> HIDE DEF next
  <2> QED BY <1>0, <2>1, <2>2, <2>3, FailsIs, CallerKeeps
<1> QED BY <1>2, <1>3, <1>4

LEMMA QueryNextInv == QueryInv /\ [QueryNext]_queryVars => QueryInv'
<1> SUFFICES ASSUME QueryInv, [QueryNext]_queryVars PROVE QueryInv'
  OBVIOUS
<1>1. CASE EvictEmbedding
  BY <1>1, QueryTypes DEF EvictEmbedding, QueryInv, QueryTypeOK, Now
<1>2. CASE InvalidateMemory
  <2>1. model \in 1..MaxEpoch /\ model < MaxEpoch /\ model' = model + 1
        /\ MaxEpoch \in Nat
    BY <1>2, QueryCacheAssumption DEF InvalidateMemory, QueryInv, QueryTypeOK
  <2>2. model' \in 1..MaxEpoch
    BY <2>1
  <2>3. QueryTypeOK'
    BY <1>2, <2>2, QueryTypes
    DEF InvalidateMemory, InvalidatedMemory, QueryInv, QueryTypeOK
  <2>4. ~mixed' => \A c \in Callers : asking[c].at \in {"idle", "done"}
    BY <1>2 DEF InvalidateMemory, Open
  <2> QED BY <1>2, <2>3, <2>4 DEF InvalidateMemory, InvalidatedMemory, QueryInv, Now
<1>3. CASE InvalidateStore
  <2>1. QueryTypeOK'
    BY <1>3, QueryTypes DEF InvalidateStore, QueryInv, QueryTypeOK
  <2> QED BY <1>3, <2>1 DEF InvalidateStore, QueryInv, Now
<1>4. ASSUME NEW c \in Callers, BeginQuery(c) PROVE QueryInv'
  <2>1. PICK at \in {"join", "memory"} : Moves(c, at)
    BY <1>4 DEF BeginQuery
  <2>2. PICK next \in Askers : next.at = at /\ asking' = [asking EXCEPT ![c] = next]
    BY <2>1, MovesIs
  <2>3. QueryTypeOK'
    BY <1>4, <2>2 DEF BeginQuery, QueryInv, QueryTypeOK
  <2>4. \A d \in Callers : asking'[d] = IF d = c THEN next ELSE asking[d]
    BY <2>2 DEF QueryInv, QueryTypeOK
  <2> QED BY <1>4, <2>2, <2>3, <2>4 DEF BeginQuery, QueryInv, Now
<1>5. CASE UNCHANGED queryVars
  BY <1>5 DEF queryVars, QueryInv, QueryTypeOK, Now
<1> QED BY <1>1, <1>2, <1>3, <1>4, <1>5, LookupKeeps, FlightKeeps, WaitKeeps
        DEF QueryNext, CallerStep

-----------------------------------------------------------------------------
(* The federated search                                                    *)

AllOutcomes == UNION {OutcomesOf(i) : i \in Nat}
WorkerStates == [at : {"done", "ready", "search", "put", "cancelled"},
                 ix : Nat, outcome : AllOutcomes]

\* The record of the call, with the fields the control depends on.
IsFedCall(f) ==
  f = [phase |-> f.phase, mode |-> f.mode, selected |-> f.selected, skipped |-> f.skipped,
       next |-> f.next, late |-> f.late, lost |-> f.lost, hits |-> f.hits,
       degraded |-> f.degraded]

FedTypeOK ==
  /\ IsFedCall(fed)
  /\ fed.phase \in {"idle", "running", "left", "closing", "done", "closed"}
  /\ fed.next \in Nat \ {0}
  /\ worker \in [Workers -> WorkerStates]
  /\ queue \in Seq(Nat \X AllOutcomes)
  /\ arrived \in Seq(Nat)

Holds(w) == worker[w].at \in {"search", "put"}

\* the places in the selection that workers have taken
Given == 1..(fed.next - 1)

\* Sources that have been handed to a worker and are still with it, in the
\* queue or with the consumer: each is in one of these places, once.
InOnePlace ==
  /\ \A w \in Workers : Holds(w) => worker[w].ix \in Given
  /\ \A k \in 1..Len(queue) : queue[k][1] \in Given
  /\ \A j \in 1..Len(arrived) : arrived[j] \in Given
  /\ \A v, w \in Workers : Holds(v) /\ Holds(w) /\ worker[v].ix = worker[w].ix => v = w
  /\ \A k, l \in 1..Len(queue) : queue[k][1] = queue[l][1] => k = l
  /\ \A j, m \in 1..Len(arrived) : arrived[j] = arrived[m] => j = m
  /\ \A w \in Workers, k \in 1..Len(queue) : Holds(w) => worker[w].ix # queue[k][1]
  /\ \A w \in Workers, j \in 1..Len(arrived) : Holds(w) => worker[w].ix # arrived[j]
  /\ \A k \in 1..Len(queue), j \in 1..Len(arrived) : queue[k][1] # arrived[j]

\* An outcome stays with the source it is of.
WithItsSource ==
  /\ \A w \in Workers : worker[w].at = "put" => worker[w].outcome \in OutcomesOf(worker[w].ix)
  /\ \A k \in 1..Len(queue) : queue[k][2] \in OutcomesOf(queue[k][1])
  /\ DOMAIN outcomes = {arrived[j] : j \in 1..Len(arrived)}
  /\ \A i \in DOMAIN outcomes : outcomes[i] \in OutcomesOf(i)

FedInv ==
  /\ FedTypeOK
  /\ fed.next # 1 => fed.next - 1 <= NumSelected
  /\ fed.phase = "idle" => fed.next = 1 /\ queue = <<>> /\ arrived = <<>> /\ AllDone
  /\ InOnePlace
  /\ WithItsSource
  /\ NoSearchOutlivesCall

LEMMA OutcomesTyped ==
  /\ \A i \in Nat : OutcomesOf(i) \subseteq AllOutcomes
  /\ \A i : {TimedOut, Unavailable} \subseteq OutcomesOf(i)
  /\ TimedOut \in AllOutcomes
<1>1. \A i : {TimedOut, Unavailable} \subseteq OutcomesOf(i)
  BY DEF OutcomesOf
<1>2. \A i \in Nat : OutcomesOf(i) \subseteq AllOutcomes
  BY DEF AllOutcomes
<1>3. TimedOut \in OutcomesOf(0) /\ 0 \in Nat
  BY <1>1
<1> QED BY <1>1, <1>2, <1>3

LEMMA OutcomesStay ==
  ASSUME fed'.selected = fed.selected
  PROVE  /\ \A i : OutcomesOf(i)' = OutcomesOf(i)
         /\ AllOutcomes' = AllOutcomes /\ WorkerStates' = WorkerStates
         /\ NumSelected' = NumSelected
<1>1. \A i : OutcomesOf(i)' = OutcomesOf(i)
  BY DEF OutcomesOf
<1>2. AllOutcomes' = AllOutcomes
  BY <1>1 DEF AllOutcomes
<1> QED BY <1>1, <1>2 DEF WorkerStates, NumSelected

LEMMA FedInitInv == FedInit => FedInv
<1> SUFFICES ASSUME FedInit PROVE FedInv
  OBVIOUS
<1>1. ToDone \in WorkerStates /\ ToDone.at = "done"
  BY OutcomesTyped DEF ToDone, WorkerStates
<1>2. /\ queue \in Seq(Nat \X AllOutcomes) /\ arrived \in Seq(Nat)
      /\ Len(queue) = 0 /\ Len(arrived) = 0
  BY EmptySeq DEF FedInit
<1>3. FedTypeOK
  BY <1>1, <1>2 DEF FedInit, FedTypeOK, IsFedCall
<1>4. InOnePlace
  BY <1>1, <1>2 DEF FedInit, InOnePlace, Holds
<1>5. DOMAIN outcomes = {}
  BY DEF FedInit
<1>6. WithItsSource
  BY <1>1, <1>2, <1>5 DEF FedInit, WithItsSource
<1> QED BY <1>1, <1>3, <1>4, <1>6 DEF FedInit, FedInv, AllDone, NoSearchOutlivesCall

\* The call's record after an update of its control.
LEMMA FedUpdated ==
  ASSUME FedTypeOK
  PROVE  /\ \A p : LET f == [fed EXCEPT !.phase = p] IN
              f.phase = p /\ f.selected = fed.selected /\ f.next = fed.next /\ IsFedCall(f)
         /\ LET f == [fed EXCEPT !.next = @ + 1] IN
              /\ f.phase = fed.phase /\ f.selected = fed.selected /\ f.next = fed.next + 1
              /\ IsFedCall(f)
         /\ \A l : LET f == [fed EXCEPT !.lost = l] IN
              /\ f.phase = fed.phase /\ f.selected = fed.selected /\ f.next = fed.next
              /\ IsFedCall(f)
<1>0. IsFedCall(fed)
  BY DEF FedTypeOK
<1>1. ASSUME NEW p
      PROVE  LET f == [fed EXCEPT !.phase = p] IN
               f.phase = p /\ f.selected = fed.selected /\ f.next = fed.next /\ IsFedCall(f)
  BY <1>0 DEF IsFedCall
<1>2. LET f == [fed EXCEPT !.next = @ + 1] IN
        /\ f.phase = fed.phase /\ f.selected = fed.selected /\ f.next = fed.next + 1
        /\ IsFedCall(f)
  BY <1>0 DEF IsFedCall
<1>3. ASSUME NEW l
      PROVE  LET f == [fed EXCEPT !.lost = l] IN
               /\ f.phase = fed.phase /\ f.selected = fed.selected /\ f.next = fed.next
               /\ IsFedCall(f)
  BY <1>0 DEF IsFedCall
<1> QED BY <1>1, <1>2, <1>3

\* What a queue must be when worker w has let go of its source.
QueueFits(w, q) ==
  /\ q \in Seq(Nat \X AllOutcomes)
  /\ \A k \in 1..Len(q) :
       /\ q[k][1] \in Given /\ q[k][2] \in OutcomesOf(q[k][1])
       /\ \A v \in Workers \ {w} : Holds(v) => worker[v].ix # q[k][1]
       /\ \A j \in 1..Len(arrived) : q[k][1] # arrived[j]
  /\ \A k, l \in 1..Len(q) : q[k][1] = q[l][1] => k = l

LEMMA QueueItselfFits ==
  ASSUME FedInv, NEW w \in Workers PROVE QueueFits(w, queue)
  BY DEF FedInv, FedTypeOK, InOnePlace, WithItsSource, QueueFits

LEMMA AppendFits ==
  ASSUME FedInv, NEW w \in Workers, worker[w].at = "put"
  PROVE  QueueFits(w, Append(queue, <<worker[w].ix, worker[w].outcome>>))
<1> DEFINE e == <<worker[w].ix, worker[w].outcome>>
           q == Append(queue, e)
           n == Len(queue)
<1>1. worker[w] \in WorkerStates /\ queue \in Seq(Nat \X AllOutcomes)
  BY DEF FedInv, FedTypeOK
<1>2. e \in Nat \X AllOutcomes /\ e[1] = worker[w].ix /\ e[2] = worker[w].outcome
  BY <1>1 DEF WorkerStates
<1>3. /\ q \in Seq(Nat \X AllOutcomes) /\ n \in Nat /\ Len(q) = n + 1
      /\ \A k \in 1..n : q[k] = queue[k]
      /\ q[n + 1] = e
  BY <1>1, <1>2, AppendProperties, LenProperties
<1>4. /\ worker[w].ix \in Given /\ worker[w].outcome \in OutcomesOf(worker[w].ix)
      /\ \A v \in Workers \ {w} : Holds(v) => worker[v].ix # worker[w].ix
      /\ \A k \in 1..n : queue[k][1] # worker[w].ix
      /\ \A j \in 1..Len(arrived) : arrived[j] # worker[w].ix
  BY DEF FedInv, InOnePlace, WithItsSource, Holds
<1>5. QueueFits(w, queue)
  BY QueueItselfFits
<1> HIDE DEF e, q, n
<1>6. ASSUME NEW k \in 1..Len(q)
      PROVE  \/ k = n + 1 /\ q[k][1] = worker[w].ix /\ q[k][2] = worker[w].outcome
             \/ k \in 1..n /\ q[k] = queue[k]
  BY <1>2, <1>3
<1>7. ASSUME NEW k \in 1..Len(q)
      PROVE  /\ q[k][1] \in Given /\ q[k][2] \in OutcomesOf(q[k][1])
             /\ \A v \in Workers \ {w} : Holds(v) => worker[v].ix # q[k][1]
             /\ \A j \in 1..Len(arrived) : q[k][1] # arrived[j]
  BY <1>4, <1>5, <1>6, SMTT(40) DEF QueueFits, n
<1>8. ASSUME NEW k \in 1..Len(q), NEW l \in 1..Len(q), q[k][1] = q[l][1]
      PROVE  k = l
  BY <1>4, <1>5, <1>6, <1>8, SMTT(40) DEF QueueFits, n
<1> QED BY <1>3, <1>7, <1>8 DEF QueueFits, q, e

\* A step of worker w, who may take a source nobody has taken.
LEMMA PlacesKept ==
  ASSUME InOnePlace, arrived' = arrived, Given \subseteq Given', NEW w \in Workers,
         QueueFits(w, queue'),
         \A v \in Workers : Holds(v)' =>
           \/ Holds(v) /\ worker'[v].ix = worker[v].ix /\ (v # w \/ queue' = queue)
           \/ v = w /\ worker'[v].ix \in Given' /\ worker'[v].ix \notin Given
  PROVE  InOnePlace'
<1>1. ASSUME NEW v \in Workers, Holds(v)'
      PROVE  /\ worker'[v].ix \in Given'
             /\ \A k \in 1..Len(queue') : worker'[v].ix # queue'[k][1]
             /\ \A j \in 1..Len(arrived) : worker'[v].ix # arrived[j]
  <2>1. CASE Holds(v) /\ worker'[v].ix = worker[v].ix /\ v # w
    BY <2>1 DEF InOnePlace, QueueFits
  <2>2. CASE Holds(v) /\ worker'[v].ix = worker[v].ix /\ queue' = queue
    BY <2>2 DEF InOnePlace
  <2>3. CASE worker'[v].ix \in Given' /\ worker'[v].ix \notin Given
    BY <2>3 DEF InOnePlace, QueueFits
  <2> QED BY <1>1, <2>1, <2>2, <2>3
<1>2. ASSUME NEW u \in Workers, NEW v \in Workers, Holds(u)', Holds(v)',
             worker'[u].ix = worker'[v].ix
      PROVE  u = v
  BY <1>2 DEF InOnePlace
<1>3. \A k \in 1..Len(queue') :
        queue'[k][1] \in Given' /\ \A j \in 1..Len(arrived) : queue'[k][1] # arrived[j]
  BY DEF QueueFits
<1>4. \A k, l \in 1..Len(queue') : queue'[k][1] = queue'[l][1] => k = l
  BY DEF QueueFits
<1>5. \A j \in 1..Len(arrived) : arrived[j] \in Given'
  BY DEF InOnePlace
<1>6. \A j, m \in 1..Len(arrived) : arrived[j] = arrived[m] => j = m
  BY DEF InOnePlace
<1> QED BY <1>1, <1>2, <1>3, <1>4, <1>5, <1>6 DEF InOnePlace

\* The loop head of a worker, whose source (if it had one) is in the queue now.
LEMMA TakeKeeps ==
  ASSUME FedInv, NEW w \in Workers, NEW q, QueueFits(w, q), TakeNext(w, q),
         worker[w].at # "done", UNCHANGED <<outcomes, arrived>>
  PROVE  FedInv'
<1>0. /\ queue' = q /\ fed.phase \notin {"idle", "done", "closed"} /\ fed.next \in Nat \ {0}
      /\ worker \in [Workers -> WorkerStates] /\ ToDone \in WorkerStates
      /\ Len(q) \in Nat /\ Len(arrived) \in Nat
  <2>1. fed.phase \notin {"idle", "done", "closed"}
    BY DEF FedInv, NoSearchOutlivesCall, AllDone
  <2>2. ToDone \in WorkerStates
    BY OutcomesTyped DEF ToDone, WorkerStates
  <2>3. Len(q) \in Nat /\ Len(arrived) \in Nat
    BY LenProperties DEF QueueFits, FedInv, FedTypeOK
  <2> QED BY <2>1, <2>2, <2>3 DEF TakeNext, FedInv, FedTypeOK
<1>1. CASE fed.next <= NumSelected
  <2> DEFINE taken == [ToDone EXCEPT !.at = "search", !.ix = fed.next]
  <2>1. taken \in WorkerStates /\ taken.at = "search" /\ taken.ix = fed.next
    BY <1>0 DEF WorkerStates, ToDone
  <2>2. worker' = [worker EXCEPT ![w] = taken] /\ fed' = [fed EXCEPT !.next = @ + 1]
    BY <1>1 DEF TakeNext
  <2>3. fed'.next = fed.next + 1 /\ fed'.selected = fed.selected /\ fed'.phase = fed.phase
    BY <2>2, FedUpdated DEF FedInv
  <2> HIDE DEF taken
  <2>4. \A v \in Workers : worker'[v] = IF v = w THEN taken ELSE worker[v]
    BY <1>0, <2>2
  <2>5. FedTypeOK'
    <3>1. worker' \in [Workers -> WorkerStates]
      BY <1>0, <2>1, <2>2
    <3> QED BY <1>0, <2>2, <2>3, <3>1, OutcomesStay, FedUpdated DEF FedInv, FedTypeOK, QueueFits
  <2>6. InOnePlace'
    <3>1. Given \subseteq Given' /\ fed.next \in Given' /\ fed.next \notin Given
      BY <1>0, <2>3 DEF Given
    <3>2. \A v \in Workers : Holds(v)' =>
            \/ Holds(v) /\ worker'[v].ix = worker[v].ix /\ v # w
            \/ v = w /\ worker'[v].ix \in Given' /\ worker'[v].ix \notin Given
      BY <2>1, <2>4, <3>1 DEF Holds
    <3> QED BY <1>0, <3>1, <3>2, PlacesKept DEF FedInv
  <2>7. WithItsSource'
    BY <1>0, <2>1, <2>3, <2>4, OutcomesStay DEF FedInv, WithItsSource, QueueFits
  <2>8. (fed'.next # 1 => fed'.next - 1 <= NumSelected')
    <3>1. fed'.next - 1 = fed.next
      BY <1>0, <2>3
    <3> QED BY <1>1, <2>3, <3>1, OutcomesStay
  <2> QED BY <1>0, <2>3, <2>5, <2>6, <2>7, <2>8 DEF FedInv, NoSearchOutlivesCall
<1>2. CASE ~(fed.next <= NumSelected)
  <2>1. worker' = [worker EXCEPT ![w] = ToDone] /\ fed' = fed /\ ToDone.at = "done"
    BY <1>2 DEF TakeNext, ToDone
  <2>2. \A v \in Workers : worker'[v] = IF v = w THEN ToDone ELSE worker[v]
    BY <1>0, <2>1
  <2>3. FedTypeOK'
    <3>1. worker' \in [Workers -> WorkerStates]
      BY <1>0, <2>1
    <3> QED BY <1>0, <2>1, <3>1, OutcomesStay DEF FedInv, FedTypeOK, QueueFits
  <2>4. InOnePlace'
    <3>1. Given' = Given
      BY <2>1 DEF Given
    <3>2. \A v \in Workers : Holds(v)' => Holds(v) /\ worker'[v].ix = worker[v].ix /\ v # w
      BY <2>1, <2>2 DEF Holds
    <3> QED BY <1>0, <3>1, <3>2, PlacesKept DEF FedInv
  <2>5. WithItsSource'
    <3>1. \A i : OutcomesOf(i)' = OutcomesOf(i)
      BY <2>1, OutcomesStay
    <3>2. \A v \in Workers :
            worker'[v].at = "put" => worker'[v].outcome \in OutcomesOf(worker'[v].ix)
      BY <2>1, <2>2 DEF FedInv, WithItsSource
    <3>3. \A k \in 1..Len(queue') : queue'[k][2] \in OutcomesOf(queue'[k][1])
      BY <1>0 DEF QueueFits
    <3>4. /\ DOMAIN outcomes' = {arrived'[j] : j \in 1..Len(arrived')}
          /\ \A i \in DOMAIN outcomes' : outcomes'[i] \in OutcomesOf(i)
      BY DEF FedInv, WithItsSource
    <3> QED BY <3>1, <3>2, <3>3, <3>4 DEF WithItsSource
  <2> QED BY <1>0, <2>1, <2>3, <2>4, <2>5, OutcomesStay DEF FedInv, NoSearchOutlivesCall
<1> QED BY <1>1, <1>2

\* Steps that leave the queue, the consumer and the sources in progress alone:
\* workers may stop, and the phase may move on.
LEMMA QuietKeeps ==
  ASSUME FedInv, UNCHANGED <<queue, outcomes, arrived>>,
         fed'.selected = fed.selected, fed'.next = fed.next,
         IsFedCall(fed'),
         fed'.phase \in {"running", "left", "closing", "done", "closed"},
         worker' \in [Workers -> WorkerStates],
         \A w \in Workers :
           \/ worker'[w].at \notin {"search", "put"}
           \/ /\ Holds(w) /\ worker'[w].ix = worker[w].ix
              /\ \/ worker'[w] = worker[w]
                 \/ worker'[w].outcome \in OutcomesOf(worker[w].ix),
         NoSearchOutlivesCall'
  PROVE  FedInv'
<1>1. FedTypeOK'
  BY OutcomesStay DEF FedInv, FedTypeOK
<1>2. InOnePlace'
  <2>1. 1 \in Workers
    BY FederationAssumption DEF Workers
  <2>2. Given' = Given
    BY DEF Given
  <2>3. \A v \in Workers : Holds(v)' => Holds(v) /\ worker'[v].ix = worker[v].ix
    BY DEF Holds
  <2>4. QueueFits(1, queue')
    BY <2>1, QueueItselfFits
  <2> QED BY <2>1, <2>2, <2>3, <2>4, PlacesKept DEF FedInv
<1>3. WithItsSource'
  BY OutcomesStay DEF FedInv, WithItsSource, Holds
<1> QED BY <1>1, <1>2, <1>3, OutcomesStay DEF FedInv

LEMMA WorkerKeeps ==
  ASSUME FedInv, NEW w \in Workers, WorkerStep(w)
  PROVE  FedInv'
<1>0. /\ worker \in [Workers -> WorkerStates] /\ ToDone \in WorkerStates /\ ToDone.at = "done"
      /\ worker[w].at # "done" /\ fed.phase \notin {"idle", "done", "closed"}
  <2>1. worker[w].at # "done"
    BY DEF WorkerStep, StartWorker, Answer, Fail, Timeout, SourceCancels, Put, WorkerStops
  <2>2. ToDone \in WorkerStates /\ ToDone.at = "done"
    BY OutcomesTyped DEF ToDone, WorkerStates
  <2> QED BY <2>1, <2>2 DEF FedInv, FedTypeOK, NoSearchOutlivesCall, AllDone
<1>1. CASE StartWorker(w)
  BY <1>0, <1>1, QueueItselfFits, TakeKeeps DEF StartWorker
<1>2. CASE Put(w)
  BY <1>0, <1>2, AppendFits, TakeKeeps DEF Put
<1>3. ASSUME NEW o \in OutcomesOf(worker[w].ix), Ends(w, o), worker[w].at = "search"
      PROVE  FedInv'
  <2> DEFINE next == [worker[w] EXCEPT !.at = "put", !.outcome = o]
  <2>1. worker[w] \in WorkerStates /\ o \in AllOutcomes
    BY <1>0, <1>3, OutcomesTyped DEF WorkerStates
  <2>2. next \in WorkerStates /\ next.ix = worker[w].ix /\ next.outcome = o
    BY <2>1 DEF WorkerStates
  <2>3. worker' = [worker EXCEPT ![w] = next] /\ UNCHANGED <<fed, queue, outcomes, arrived>>
    BY <1>3 DEF Ends
  <2> HIDE DEF next
  <2>4. \A v \in Workers : worker'[v] = IF v = w THEN next ELSE worker[v]
    BY <1>0, <2>3
  <2>5. worker' \in [Workers -> WorkerStates]
    BY <1>0, <2>2, <2>3
  <2>6. NoSearchOutlivesCall'
    BY <1>0, <2>3 DEF NoSearchOutlivesCall
  <2>7. FedTypeOK
    BY DEF FedInv
  <2> QED BY <1>0, <1>3, <2>2, <2>3, <2>4, <2>5, <2>6, <2>7, QuietKeeps
          DEF FedTypeOK, Holds
<1>4. CASE Answer(w) \/ Fail(w) \/ Timeout(w)
  <2>1. \E o \in OutcomesOf(worker[w].ix) : Ends(w, o) /\ worker[w].at = "search"
    BY <1>4 DEF Answer, Fail, Timeout, OutcomesOf
  <2> QED BY <1>3, <2>1
<1>5. CASE SourceCancels(w) \/ WorkerStops(w)
  <2>1. /\ worker' = [worker EXCEPT ![w] = ToDone] /\ UNCHANGED <<queue, outcomes, arrived>>
        /\ fed' = fed \/ fed' = [fed EXCEPT !.lost = {worker[w].ix}]
    BY <1>5 DEF SourceCancels, WorkerStops
  <2>2. worker' \in [Workers -> WorkerStates]
        /\ \A v \in Workers : worker'[v] = IF v = w THEN ToDone ELSE worker[v]
    BY <1>0, <2>1
  <2>3. /\ fed'.selected = fed.selected /\ fed'.next = fed.next /\ fed'.phase = fed.phase
        /\ IsFedCall(fed')
    <3>1. FedTypeOK /\ IsFedCall(fed)
      BY DEF FedInv, FedTypeOK
    <3>2. CASE fed' = fed
      BY <3>1, <3>2
    <3>3. CASE fed' = [fed EXCEPT !.lost = {worker[w].ix}]
      BY <3>1, <3>3, FedUpdated
    <3> QED BY <2>1, <3>2, <3>3
  <2>4. NoSearchOutlivesCall'
    BY <1>0, <2>3 DEF NoSearchOutlivesCall
  <2>5. fed'.phase \in {"running", "left", "closing", "done", "closed"}
    BY <1>0, <2>3 DEF FedInv, FedTypeOK
  <2> QED BY <1>0, <2>1, <2>2, <2>3, <2>4, <2>5, QuietKeeps DEF Holds
<1> QED BY <1>1, <1>2, <1>4, <1>5 DEF WorkerStep

LEMMA SearchKeeps == ASSUME FedInv, Search PROVE FedInv'
<1>0. PICK wanted \in SUBSET Sources, filtered \in BOOLEAN, mode \in {"search", "stream"} :
        LET s == SelectSources(wanted, filtered) IN
        /\ fed' = [fed EXCEPT !.phase = "running", !.mode = mode,
                              !.selected = s.selected, !.skipped = s.skipped]
        /\ worker' = [w \in Workers |->
                        IF w <= Len(s.selected) THEN [ToDone EXCEPT !.at = "ready"] ELSE ToDone]
  BY DEF Search
<1> DEFINE s == SelectSources(wanted, filtered)
<1>1. /\ fed' = [fed EXCEPT !.phase = "running", !.mode = mode,
                            !.selected = s.selected, !.skipped = s.skipped]
      /\ worker' = [w \in Workers |->
                      IF w <= Len(s.selected) THEN [ToDone EXCEPT !.at = "ready"] ELSE ToDone]
  BY <1>0
<1> HIDE DEF s
<1>2. /\ IsFedCall(fed) /\ fed.phase = "idle" /\ fed.next = 1 /\ queue = <<>> /\ arrived = <<>>
      /\ UNCHANGED <<queue, outcomes, arrived>>
  BY DEF Search, FedInv, FedTypeOK
<1>3. IsFedCall(fed') /\ fed'.phase = "running" /\ fed'.next = 1
  BY <1>1, <1>2 DEF IsFedCall
<1>4. TimedOut \in AllOutcomes'
  <2>1. TimedOut \in OutcomesOf(0)' /\ 0 \in Nat
    BY DEF OutcomesOf
  <2> QED BY <2>1 DEF AllOutcomes
<1>5. ToDone \in WorkerStates' /\ [ToDone EXCEPT !.at = "ready"] \in WorkerStates'
  BY <1>4 DEF ToDone, WorkerStates
<1>6. /\ worker' \in [Workers -> WorkerStates']
      /\ \A w \in Workers : worker'[w].at \in {"done", "ready"}
  BY <1>1, <1>5 DEF ToDone
<1>7. /\ queue' \in Seq(Nat \X AllOutcomes') /\ arrived' \in Seq(Nat)
      /\ Len(queue') = 0 /\ Len(arrived') = 0
  BY <1>2, EmptySeq
<1>8. DOMAIN outcomes' = {}
  <2>1. DOMAIN outcomes = {arrived[j] : j \in 1..Len(arrived)}
    BY DEF FedInv, WithItsSource
  <2> QED BY <1>2, <1>7, <2>1
<1>9. FedTypeOK'
  BY <1>3, <1>6, <1>7 DEF FedTypeOK
<1>10. InOnePlace'
  BY <1>6, <1>7 DEF InOnePlace, Holds
<1>11. WithItsSource'
  BY <1>6, <1>7, <1>8 DEF WithItsSource
<1> QED BY <1>3, <1>9, <1>10, <1>11 DEF FedInv, NoSearchOutlivesCall

\* The head of the queue moves on to the consumer.
LEMMA ReceiveKeeps == ASSUME FedInv, Receive PROVE FedInv'
<1> DEFINE i == Head(queue)[1]
           o == Head(queue)[2]
           n == Len(queue)
           m == Len(arrived)
<1>1. /\ queue \in Seq(Nat \X AllOutcomes) /\ queue # <<>> /\ arrived \in Seq(Nat)
      /\ queue' = Tail(queue) /\ arrived' = Append(arrived, i)
      /\ outcomes' = [d \in DOMAIN outcomes \cup {i} |-> IF d = i THEN o ELSE outcomes[d]]
      /\ UNCHANGED <<fed, worker>>
  BY DEF Receive, FedInv, FedTypeOK
<1>2. /\ n \in Nat \ {0} /\ Head(queue) = queue[1] /\ Len(queue') = n - 1
      /\ queue' \in Seq(Nat \X AllOutcomes) /\ \A k \in 1..(n - 1) : queue'[k] = queue[k + 1]
      /\ i \in Nat
  BY <1>1, HeadTailProperties, EmptySeq, LenProperties
<1>3. /\ m \in Nat /\ arrived' \in Seq(Nat) /\ Len(arrived') = m + 1
      /\ \A j \in 1..m : arrived'[j] = arrived[j]
      /\ arrived'[m + 1] = i
  BY <1>1, <1>2, AppendProperties, LenProperties
<1>4. /\ InOnePlace /\ WithItsSource /\ Given' = Given
      /\ \A w \in Workers : worker'[w] = worker[w] /\ (Holds(w)' <=> Holds(w))
  BY <1>1 DEF FedInv, Given, Holds
<1>5. i = queue[1][1] /\ o = queue[1][2] /\ 1 \in 1..n
  BY <1>2
<1> HIDE DEF i, o
<1>6. ASSUME NEW k \in 1..Len(queue')
      PROVE  k + 1 \in 1..n /\ k + 1 # 1 /\ queue'[k] = queue[k + 1]
  BY <1>2
<1>7. ASSUME NEW j \in 1..Len(arrived')
      PROVE  \/ j \in 1..m /\ arrived'[j] = arrived[j]
             \/ j = m + 1 /\ arrived'[j] = i
  BY <1>3
<1>8. /\ i \in Given /\ \A w \in Workers : Holds(w) => worker[w].ix # i
      /\ \A k \in 2..n : queue[k][1] # i
      /\ \A j \in 1..m : arrived[j] # i
  BY <1>2, <1>4, <1>5 DEF InOnePlace
<1>9. InOnePlace'
  <2>1. \A w \in Workers : Holds(w)' => worker'[w].ix \in Given'
    BY <1>4 DEF InOnePlace
  <2>2. ASSUME NEW k \in 1..Len(queue')
        PROVE  /\ queue'[k][1] \in Given'
               /\ \A w \in Workers : Holds(w)' => worker'[w].ix # queue'[k][1]
    BY <1>4, <1>6 DEF InOnePlace
  <2>3. ASSUME NEW j \in 1..Len(arrived')
        PROVE  /\ arrived'[j] \in Given'
               /\ \A w \in Workers : Holds(w)' => worker'[w].ix # arrived'[j]
    BY <1>4, <1>7, <1>8 DEF InOnePlace
  <2>4. \A v, w \in Workers :
          Holds(v)' /\ Holds(w)' /\ worker'[v].ix = worker'[w].ix => v = w
    BY <1>4 DEF InOnePlace
  <2>5. ASSUME NEW k \in 1..Len(queue'), NEW l \in 1..Len(queue'), queue'[k][1] = queue'[l][1]
        PROVE  k = l
    <3>1. k + 1 \in 1..n /\ l + 1 \in 1..n /\ queue[k + 1][1] = queue[l + 1][1]
      BY <1>6, <2>5
    <3>2. \A a, b \in 1..n : queue[a][1] = queue[b][1] => a = b
      BY <1>4 DEF InOnePlace
    <3>3. k + 1 = l + 1
      BY <3>1, <3>2
    <3> QED BY <3>3
  <2>6. ASSUME NEW j \in 1..Len(arrived'), NEW l \in 1..Len(arrived'), arrived'[j] = arrived'[l]
        PROVE  j = l
    BY <1>4, <1>7, <1>8, <2>6 DEF InOnePlace
  <2>7. ASSUME NEW k \in 1..Len(queue'), NEW j \in 1..Len(arrived')
        PROVE  queue'[k][1] # arrived'[j]
    <3>1. k + 1 \in 2..n
      BY <1>2, <1>6
    <3> QED BY <1>4, <1>6, <1>7, <1>8, <3>1 DEF InOnePlace
  <2> QED BY <2>1, <2>2, <2>3, <2>4, <2>5, <2>6, <2>7 DEF InOnePlace
<1>10. WithItsSource'
  <2>0. \A d : OutcomesOf(d)' = OutcomesOf(d)
    BY <1>1, OutcomesStay
  <2>1. \A w \in Workers : worker[w].at = "put" =>
          worker[w].outcome \in OutcomesOf(worker[w].ix)
    BY <1>4 DEF WithItsSource
  <2>2. ASSUME NEW k \in 1..Len(queue')
        PROVE  queue'[k][2] \in OutcomesOf(queue'[k][1])
    BY <1>4, <1>6 DEF WithItsSource
  <2>3. /\ DOMAIN outcomes' = DOMAIN outcomes \cup {i}
        /\ \A d \in DOMAIN outcomes : d # i => outcomes'[d] = outcomes[d]
        /\ outcomes'[i] = o
    BY <1>1
  <2>4. DOMAIN outcomes' = {arrived'[j] : j \in 1..Len(arrived')}
    <3>1. DOMAIN outcomes = {arrived[j] : j \in 1..m}
      BY <1>4 DEF WithItsSource
    <3>2. m + 1 \in 1..Len(arrived') /\ \A j \in 1..m : j \in 1..Len(arrived')
      BY <1>3
    <3> QED BY <1>3, <1>7, <2>3, <3>1, <3>2
  <2>5. o \in OutcomesOf(i)
    BY <1>4, <1>5 DEF WithItsSource
  <2>6. \A d \in DOMAIN outcomes' : outcomes'[d] \in OutcomesOf(d)
    BY <1>4, <2>3, <2>5 DEF WithItsSource
  <2> QED BY <1>1, <2>0, <2>1, <2>2, <2>4, <2>6 DEF WithItsSource
<1>11. FedTypeOK'
  BY <1>1, <1>2, <1>3, OutcomesStay DEF FedInv, FedTypeOK
<1>12. fed.phase = "running"
  BY DEF Receive
<1> QED BY <1>1, <1>9, <1>10, <1>11, <1>12, OutcomesStay DEF FedInv, NoSearchOutlivesCall

\* The steps of the caller, and the end of the call.
LEMMA PhaseKeeps ==
  ASSUME FedInv, BuildResponse \/ DeadlinePasses \/ Abandon \/ LeaveStream
                 \/ FinalizeGenerator \/ Close
  PROVE  FedInv'
<1>1. /\ UNCHANGED <<queue, outcomes, arrived>> /\ IsFedCall(fed)
      /\ worker \in [Workers -> WorkerStates]
  BY DEF BuildResponse, DeadlinePasses, Abandon, LeaveStream, FinalizeGenerator, Close,
         FedInv, FedTypeOK
<1>2. /\ IsFedCall(fed') /\ fed'.selected = fed.selected /\ fed'.next = fed.next
      /\ fed'.phase \in {"running", "left", "closing", "done", "closed"}
      /\ fed'.phase \in {"done", "closed"} => AllDone /\ worker' = worker
  <2>1. CASE BuildResponse
    <3>1. PICK h, d : fed' = [fed EXCEPT !.phase = "done", !.hits = h, !.degraded = d]
      BY <2>1 DEF BuildResponse
    <3>2. AllDone /\ worker' = worker
      BY <2>1 DEF BuildResponse, AllReceived
    <3> QED BY <1>1, <3>1, <3>2 DEF IsFedCall
  <2>2. CASE DeadlinePasses
    <3>1. fed' = [fed EXCEPT !.late = TRUE] /\ fed.phase = "running"
      BY <2>2 DEF DeadlinePasses
    <3> QED BY <1>1, <3>1 DEF IsFedCall
  <2>3. CASE Abandon \/ LeaveStream \/ FinalizeGenerator \/ Close
    <3>1. PICK p \in {"left", "closing", "closed"} :
            fed' = [fed EXCEPT !.phase = p] /\ (p = "closed" => AllDone /\ worker' = worker)
      BY <2>3 DEF Abandon, LeaveStream, FinalizeGenerator, Close
    <3> QED BY <1>1, <3>1 DEF IsFedCall
  <2> QED BY <2>1, <2>2, <2>3
<1>3. /\ worker' \in [Workers -> WorkerStates]
      /\ \A w \in Workers : worker'[w] = worker[w] \/ worker'[w].at = "cancelled"
  <2>1. worker' = worker \/ worker' = CancelWorkers
    BY DEF BuildResponse, DeadlinePasses, Abandon, LeaveStream, FinalizeGenerator, Close
  <2>2. \A w \in Workers : [worker[w] EXCEPT !.at = "cancelled"] \in WorkerStates
    BY <1>1 DEF WorkerStates
  <2>3. \A w \in Workers : [worker[w] EXCEPT !.at = "cancelled"].at = "cancelled"
    BY <1>1 DEF WorkerStates
  <2> QED BY <1>1, <2>1, <2>2, <2>3 DEF CancelWorkers
<1>4. NoSearchOutlivesCall'
  BY <1>2 DEF NoSearchOutlivesCall, AllDone
<1>5. \A w \in Workers :
        \/ worker'[w].at \notin {"search", "put"}
        \/ Holds(w) /\ worker'[w].ix = worker[w].ix /\ worker'[w] = worker[w]
  BY <1>3 DEF Holds
<1> QED BY <1>1, <1>2, <1>3, <1>4, <1>5, QuietKeeps

LEMMA FedNextInv == FedInv /\ [FedNext]_fedVars => FedInv'
<1> SUFFICES ASSUME FedInv, [FedNext]_fedVars PROVE FedInv'
  OBVIOUS
<1>1. CASE UNCHANGED fedVars
  BY <1>1, OutcomesStay
  DEF fedVars, FedInv, FedTypeOK, InOnePlace, WithItsSource, NoSearchOutlivesCall, AllDone,
      Holds, Given
<1> QED BY <1>1, SearchKeeps, ReceiveKeeps, PhaseKeeps, WorkerKeeps DEF FedNext

\* As many outcomes as sources, none twice: an outcome of every source.
LEMMA AllArrived ==
  ASSUME FedInv, Len(arrived) = NumSelected
  PROVE  DOMAIN outcomes = 1..NumSelected
<1> DEFINE N == Len(arrived)
<1>1. N \in Nat /\ arrived \in [1..N -> Nat]
  BY LenProperties DEF FedInv, FedTypeOK
<1>2. ASSUME NEW j \in 1..N PROVE arrived[j] \in 1..N
  <2>1. fed.next \in Nat \ {0} /\ arrived[j] \in 1..(fed.next - 1)
    BY DEF FedInv, FedTypeOK, InOnePlace, Given
  <2>2. fed.next - 1 <= N
    BY <2>1 DEF FedInv
  <2> QED BY <1>1, <2>1, <2>2
<1>3. \A j, m \in 1..N : arrived[j] = arrived[m] => j = m
  BY DEF FedInv, InOnePlace
<1> HIDE DEF N
<1>4. arrived \in Injection(1..N, 1..N)
  BY <1>1, <1>2, <1>3 DEF Injection, IsInjective
<1>5. arrived \in Surjection(1..N, 1..N)
  BY <1>1, <1>4, FS_Interval, FS_Injection
<1>6. 1..N = {arrived[j] : j \in 1..N}
  BY <1>1, <1>2, <1>5 DEF Surjection
<1> QED BY <1>6 DEF FedInv, WithItsSource, N

\* What the caller gets when it gets it.
LEMMA BuildsFromAll == FedInv /\ BuildResponse => AuthoritativeIsOrderFree'
<1> SUFFICES ASSUME FedInv, BuildResponse PROVE AuthoritativeIsOrderFree'
  OBVIOUS
<1> DEFINE fused == FuseHits(HitLists(FinalOutcomes))
           skipped == {[source |-> s, status |-> "unavailable"] : s \in fed.skipped}
           told == skipped \cup Degradations(1..NumSelected)
<1>1. PICK h, d :
        /\ fed' = [fed EXCEPT !.phase = "done", !.hits = h, !.degraded = d]
        /\ h = Top(fused) \/ h = Top(Rerank(fused))
        /\ Degradations(1..NumSelected) \subseteq d
  <2>1. told \subseteq told \cup {[source |-> 0, status |-> "rerank"]}
        /\ Degradations(1..NumSelected) \subseteq told
    OBVIOUS
  <2>2. \/ fed' = [fed EXCEPT !.phase = "done", !.hits = Top(Rerank(fused)), !.degraded = told]
        \/ fed' = [fed EXCEPT !.phase = "done", !.hits = Top(fused),
                              !.degraded = told \cup {[source |-> 0, status |-> "rerank"]}]
    BY DEF BuildResponse
  <2> HIDE DEF fused, told
  <2> QED BY <2>1, <2>2
<1> HIDE DEF fused, told
<1>2. /\ fed'.hits = h /\ fed'.degraded = d /\ fed'.selected = fed.selected
      /\ UNCHANGED outcomes /\ Len(arrived) = NumSelected
  BY <1>1 DEF FedInv, FedTypeOK, IsFedCall, BuildResponse, AllReceived
<1>3. NumSelected' = NumSelected /\ InSelectionOrder' = InSelectionOrder
  BY <1>2 DEF NumSelected, InSelectionOrder
<1>4. FuseHits(FinalLists)' = fused /\ Top(fused)' = Top(fused)
      /\ Top(Rerank(fused))' = Top(Rerank(fused))
  BY <1>3 DEF FinalLists, fused, FinalOutcomes
<1>5. DOMAIN outcomes' = 1..NumSelected'
      /\ \A i \in 1..NumSelected' : outcomes'[i] \in OutcomesOf(i)'
  BY <1>2, <1>3, AllArrived, OutcomesStay DEF FedInv, WithItsSource
<1>6. fed'.degraded = {} =>
        \A i \in 1..NumSelected : outcomes[i].status = "ok" /\ ~outcomes[i].answer.partial
  <2>1. SUFFICES ASSUME fed'.degraded = {}, NEW i \in 1..NumSelected,
                        outcomes[i].status # "ok" \/ outcomes[i].answer.partial
                 PROVE  FALSE
    OBVIOUS
  <2> DEFINE Told(k) == [source |-> fed.selected[k],
                         status |-> IF outcomes[k].status = "ok" THEN "partial"
                                    ELSE outcomes[k].status]
             Bad == {k \in 1..NumSelected : outcomes[k].status # "ok" \/ outcomes[k].answer.partial}
  <2>2. Degradations(1..NumSelected) = {Told(k) : k \in Bad}
    BY DEF Degradations
  <2>3. i \in Bad
    BY <2>1
  <2> HIDE DEF Told, Bad
  <2> QED BY <1>1, <1>2, <2>1, <2>2, <2>3
<1> QED BY <1>1, <1>2, <1>3, <1>4, <1>5, <1>6 DEF AuthoritativeIsOrderFree

\* The answer that was given stays as it is.
LEMMA OrderFreeKept ==
  FedInv /\ AuthoritativeIsOrderFree /\ [FedNext]_fedVars => AuthoritativeIsOrderFree'
<1> SUFFICES ASSUME FedInv, AuthoritativeIsOrderFree, [FedNext]_fedVars
             PROVE  AuthoritativeIsOrderFree'
  OBVIOUS
<1>1. CASE UNCHANGED <<fed, outcomes>>
  <2>1. FuseHits(FinalLists)' = FuseHits(FinalLists)
    BY <1>1 DEF FinalLists, InSelectionOrder, NumSelected
  <2> QED BY <1>1, <2>1, OutcomesStay DEF AuthoritativeIsOrderFree, NumSelected
<1>2. CASE fed'.phase # "done"
  BY <1>2 DEF AuthoritativeIsOrderFree
<1>3. CASE BuildResponse
  BY <1>3, BuildsFromAll
<1>4. CASE Search \/ DeadlinePasses \/ Abandon \/ LeaveStream \/ FinalizeGenerator \/ Close
           \/ Receive \/ \E w \in Workers : WorkerStep(w)
  <2>1. fed.phase # "done" \/ UNCHANGED <<fed, outcomes>>
    <3>1. ASSUME NEW w \in Workers, WorkerStep(w) PROVE fed.phase # "done"
      BY <3>1 DEF WorkerStep, StartWorker, Answer, Fail, Timeout, SourceCancels, Put,
                  WorkerStops, FedInv, NoSearchOutlivesCall, AllDone
    <3> QED BY <1>4, <3>1 DEF Search, DeadlinePasses, Abandon, LeaveStream,
                              FinalizeGenerator, Close, Receive
  <2>2. fed'.phase = fed.phase \/ fed'.phase # "done"
    <3>1. IsFedCall(fed)
      BY SMTT(40) DEF FedInv, FedTypeOK
    <3>2. ASSUME NEW w \in Workers, WorkerStep(w) PROVE fed'.phase = fed.phase
      BY <3>1, <3>2 DEF WorkerStep, StartWorker, TakeNext, Answer, Fail, Timeout, Ends,
                        SourceCancels, Put, WorkerStops, IsFedCall
    <3>3. CASE Search
      <4>1. PICK m \in {"search", "stream"}, wanted \in SUBSET Sources, filtered \in BOOLEAN :
              LET s == SelectSources(wanted, filtered)
              IN  fed' = [fed EXCEPT !.phase = "running", !.mode = m,
                                     !.selected = s.selected, !.skipped = s.skipped]
        BY <3>3 DEF Search
      <4> QED BY <3>1, <4>1 DEF IsFedCall
    <3>4. CASE DeadlinePasses \/ Receive
      BY <3>1, <3>4 DEF DeadlinePasses, Receive, IsFedCall
    <3>5. CASE Abandon \/ LeaveStream \/ FinalizeGenerator \/ Close
      <4>1. PICK p \in {"left", "closing", "closed"} : fed' = [fed EXCEPT !.phase = p]
        BY <3>5 DEF Abandon, LeaveStream, FinalizeGenerator, Close
      <4> QED BY <3>1, <4>1 DEF IsFedCall
    <3> QED BY <1>4, <3>2, <3>3, <3>4, <3>5
  <2> QED BY <1>1, <1>2, <2>1, <2>2, SMTT(40)
<1>5. CASE UNCHANGED fedVars
  BY <1>1, <1>5 DEF fedVars
<1> QED BY <1>3, <1>4, <1>5 DEF FedNext

-----------------------------------------------------------------------------
(* Orders: what precedes a member of a finite ordered set says its place.   *)

StrictOrder(S, R) ==
  /\ \A x \in S : <<x, x>> \notin R
  /\ \A x, y \in S : x # y => <<x, y>> \in R \/ <<y, x>> \in R
  /\ \A x, y, z \in S : <<x, y>> \in R /\ <<y, z>> \in R => <<x, z>> \in R

Before(S, R, x) == {y \in S : <<y, x>> \in R}

\* What precedes a member counts more than what precedes an earlier one.
LEMMA BeforeCounts ==
  ASSUME NEW S, NEW R, IsFiniteSet(S), StrictOrder(S, R)
  PROVE  \A x \in S : /\ IsFiniteSet(Before(S, R, x))
                      /\ Cardinality(Before(S, R, x)) \in Nat
                      /\ Cardinality(Before(S, R, x)) < Cardinality(S)
                      /\ \A y \in S : <<x, y>> \in R =>
                           Cardinality(Before(S, R, x)) < Cardinality(Before(S, R, y))
<1> SUFFICES ASSUME NEW x \in S
             PROVE  /\ IsFiniteSet(Before(S, R, x))
                    /\ Cardinality(Before(S, R, x)) \in Nat
                    /\ Cardinality(Before(S, R, x)) < Cardinality(S)
                    /\ \A y \in S : <<x, y>> \in R =>
                         Cardinality(Before(S, R, x)) < Cardinality(Before(S, R, y))
  OBVIOUS
<1>1. ASSUME NEW y \in S
      PROVE  /\ Before(S, R, y) \in SUBSET S /\ IsFiniteSet(Before(S, R, y))
             /\ Cardinality(Before(S, R, y)) \in Nat
             /\ Cardinality(Before(S, R, y)) <= Cardinality(S)
             /\ Cardinality(S) = Cardinality(Before(S, R, y)) => S = Before(S, R, y)
  <2>1. Before(S, R, y) \in SUBSET S
    BY DEF Before
  <2> QED BY <2>1, FS_Subset, FS_CardinalityType
<1>2. x \notin Before(S, R, x)
  BY DEF Before, StrictOrder
<1>3. Cardinality(S) \in Nat
  BY FS_CardinalityType
<1>4. ASSUME NEW y \in S, <<x, y>> \in R
      PROVE  Cardinality(Before(S, R, x)) < Cardinality(Before(S, R, y))
  <2>1. Before(S, R, x) \in SUBSET Before(S, R, y) /\ x \in Before(S, R, y)
    BY <1>4 DEF Before, StrictOrder
  <2>2. IsFiniteSet(Before(S, R, y))
    BY <1>1
  <2>3. /\ Cardinality(Before(S, R, x)) <= Cardinality(Before(S, R, y))
        /\ Cardinality(Before(S, R, y)) = Cardinality(Before(S, R, x))
             => Before(S, R, y) = Before(S, R, x)
    BY <2>1, <2>2, FS_Subset
  <2> QED BY <2>1, <2>3, <1>1, <1>2
<1> QED BY <1>1, <1>2, <1>3, <1>4

LEMMA InOrderPlaces ==
  ASSUME NEW S, NEW R, IsFiniteSet(S), StrictOrder(S, R)
  PROVE  /\ Cardinality(S) \in Nat
         /\ InOrder(S, R) \in [1..Cardinality(S) -> S]
         /\ \A i, j \in 1..Cardinality(S) : InOrder(S, R)[i] = InOrder(S, R)[j] => i = j
<1> DEFINE n == Cardinality(S)
           rank == [x \in S |-> Cardinality(Before(S, R, x))]
           o == InOrder(S, R)
<1>1. n \in Nat
  BY FS_CardinalityType
<1>2. rank \in [S -> 0..(n - 1)]
  BY <1>1, BeforeCounts
<1>3. \A x, y \in S : <<x, y>> \in R => rank[x] < rank[y]
  BY BeforeCounts
<1>0. \A x \in S : rank[x] = Cardinality(Before(S, R, x))
  OBVIOUS
<1>4. o = [k \in 1..n |-> CHOOSE x \in S : Cardinality(Before(S, R, x)) = k - 1]
  BY DEF InOrder, Before
<1> HIDE DEF rank, n, o
<1>5. \A x, y \in S : rank[x] = rank[y] => x = y
  <2> SUFFICES ASSUME NEW x \in S, NEW y \in S, rank[x] = rank[y], x # y PROVE FALSE
    OBVIOUS
  <2>1. rank[x] < rank[y] \/ rank[y] < rank[x]
    BY <1>3 DEF StrictOrder
  <2>2. rank[x] \in Int
    BY <1>1, <1>2
  <2> QED BY <2>1, <2>2
<1>6. rank \in Surjection(S, 0..(n - 1))
  <2>1. rank \in Injection(S, 0..(n - 1))
    BY <1>2, <1>5 DEF Injection, IsInjective
  <2>2. IsFiniteSet(0..(n - 1)) /\ Cardinality(0..(n - 1)) = n
    BY <1>1, FS_Interval
  <2> QED BY <2>1, <2>2, FS_Injection DEF n
<1>7. ASSUME NEW k \in 1..n PROVE o[k] \in S /\ rank[o[k]] = k - 1
  <2>1. k - 1 \in 0..(n - 1)
    BY <1>1
  <2>2. \E x \in S : Cardinality(Before(S, R, x)) = k - 1
    BY <1>0, <1>6, <2>1 DEF Surjection
  <2>3. o[k] = CHOOSE x \in S : Cardinality(Before(S, R, x)) = k - 1
    BY <1>4
  <2> QED BY <1>0, <2>2, <2>3
<1>8. o \in [1..n -> S]
  BY <1>4, <1>7
<1>9. \A i, j \in 1..n : o[i] = o[j] => i = j
  BY <1>1, <1>7
<1> QED BY <1>1, <1>8, <1>9 DEF n, o

\* Greater scores first, equal ones by position.
LEMMA ScoresOrder ==
  ASSUME NEW S \in SUBSET Int, NEW score \in [S -> Int]
  PROVE  StrictOrder(S, {x \in S \X S : \/ score[x[1]] > score[x[2]]
                                        \/ score[x[1]] = score[x[2]] /\ x[1] < x[2]})
<1> DEFINE R == {x \in S \X S : \/ score[x[1]] > score[x[2]]
                                \/ score[x[1]] = score[x[2]] /\ x[1] < x[2]}
<1>1. \A x, y \in S : <<x, y>> \in R <=> (score[x] > score[y] \/ (score[x] = score[y] /\ x < y))
  OBVIOUS
<1>2. \A x \in S : x \in Int /\ score[x] \in Int
  OBVIOUS
<1> HIDE DEF R
<1>3. \A x \in S : <<x, x>> \notin R
  BY <1>1, <1>2
<1>4. \A x, y \in S : x # y => <<x, y>> \in R \/ <<y, x>> \in R
  BY <1>1, <1>2
<1>5. \A x, y, z \in S : <<x, y>> \in R /\ <<y, z>> \in R => <<x, z>> \in R
  BY <1>1, <1>2
<1> QED BY <1>3, <1>4, <1>5 DEF StrictOrder, R

-----------------------------------------------------------------------------
(* Recursion over an interval.                                              *)

LEMMA LeastExists ==
  ASSUME NEW Q \in SUBSET Nat, Q # {}
  PROVE  \E m \in Q : \A k \in Q : m <= k
<1>1. IsWellFoundedOn(OpToRel(<, Nat), Nat)
  BY NatLessThanWellFounded
<1>2. PICK m \in Q : \A k \in Q : ~(<<k, m>> \in OpToRel(<, Nat))
  BY <1>1, WFMin
<1>3. \A k \in Q : ~(k < m)
  BY <1>2 DEF OpToRel
<1> QED BY <1>3

\* The integers of an interval, one after another.
LEMMA IntervalInduction ==
  ASSUME NEW L \in Nat, NEW T, 0 \in T, \A n \in 1..L : n - 1 \in T => n \in T
  PROVE  \A n \in 0..L : n \in T
<1> DEFINE Q == {n \in 0..L : n \notin T}
<1> SUFFICES ASSUME Q # {} PROVE FALSE
  OBVIOUS
<1>1. Q \in SUBSET Nat
  OBVIOUS
<1>2. PICK m \in Q : \A k \in Q : m <= k
  BY <1>1, LeastExists
<1>3. m # 0 /\ m \in 1..L
  OBVIOUS
<1>4. m - 1 \in T
  BY <1>1, <1>2, <1>3
<1> QED BY <1>3, <1>4

\* f starts with v and takes each of its values, of the sets V, from the one
\* before by the steps of G.
Runs(f, L, V, G, v) ==
  /\ f \in [0..L -> UNION {V[n] : n \in 0..L}]
  /\ f[0] = v
  /\ \A n \in 0..L : f[n] \in V[n]
  /\ \A n \in 1..L : f[n] = G[<<n, f[n - 1]>>]

\* A function defined by recursion over an interval exists.
LEMMA RecursionExists ==
  ASSUME NEW L \in Nat, NEW V, NEW G, NEW v \in V[0],
         \A n \in 1..L : \A x \in V[n - 1] : G[<<n, x>>] \in V[n]
  PROVE  \E f : Runs(f, L, V, G, v)
<1> DEFINE All == UNION {V[n] : n \in 0..L}
           Upto(k, f) == /\ f[0] = v
                         /\ \A n \in 0..k : f[n] \in V[n]
                         /\ \A n \in 1..k : f[n] = G[<<n, f[n - 1]>>]
           T == {k \in 0..L : \E f \in [0..k -> All] : Upto(k, f)}
<1>1. 0 \in T
  <2> DEFINE f == [n \in 0..0 |-> v]
  <2>1. f \in [0..0 -> All] /\ Upto(0, f)
    OBVIOUS
  <2>2. 0 \in 0..L
    OBVIOUS
  <2> HIDE DEF f, All, Upto
  <2> QED BY <2>1, <2>2
<1>2. ASSUME NEW k \in 1..L, k - 1 \in T PROVE k \in T
  <2>1. PICK f \in [0..(k - 1) -> All] : Upto(k - 1, f)
    BY <1>2
  <2> DEFINE g == [n \in 0..k |-> IF n = k THEN G[<<k, f[k - 1]>>] ELSE f[n]]
  <2>2. G[<<k, f[k - 1]>>] \in V[k]
    BY <2>1
  <2>3. \A n \in 0..k : g[n] \in V[n]
    BY <2>1, <2>2
  <2>4. g \in [0..k -> All]
    BY <2>3
  <2>5. \A n \in 1..k : g[n] = G[<<n, g[n - 1]>>]
    BY <2>1
  <2>6. g[0] = v
    BY <2>1
  <2> HIDE DEF g
  <2>7. Upto(k, g)
    BY <2>3, <2>5, <2>6
  <2> HIDE DEF All, Upto
  <2> QED BY <2>4, <2>7
<1> HIDE DEF T
<1>3. \A n \in 0..L : n \in T
  BY <1>1, <1>2, IntervalInduction
<1>4. L \in T
  BY <1>3
<1> QED BY <1>4 DEF T, Runs

-----------------------------------------------------------------------------
(* The union-find of _fuse_hits.                                            *)

Group(root, r) == {n \in DOMAIN root : root[n] = r}

\* The nodes up to n, as united so far: linked ones share their root, and no
\* part of a group is without a link to the rest of it.
Grouped(flat, n, root) ==
  /\ root \in [1..n -> 1..n]
  /\ \A a, b \in 1..n : Linked(flat[a], flat[b]) => root[a] = root[b]
  /\ \A r \in 1..n : \A part \in (SUBSET Group(root, r)) \ {{}, Group(root, r)} :
       \E a \in part, b \in Group(root, r) \ part : Linked(flat[a], flat[b])

LEMMA LinkedBothWays ==
  \A a, b : Linked(a, b) => Linked(b, a)
BY DEF Linked, SameIdentity, SameUri

LEMMA IdentityHolder ==
  ASSUME NEW flat, NEW n \in Nat \ {0}
  PROVE  /\ Holder(flat, n, SameIdentity) \in SUBSET (1..(n - 1))
         /\ \A m \in Holder(flat, n, SameIdentity) : flat[m].id = flat[n].id
         /\ Holder(flat, n, SameIdentity) = {} => \A m \in 1..(n - 1) : flat[m].id # flat[n].id
<1> DEFINE H == Holder(flat, n, SameIdentity)
           Q == {m \in 1..(n - 1) : flat[m].id = flat[n].id}
<1>1. H = {m \in 1..(n - 1) : flat[m].id = flat[n].id
                                /\ \A k \in 1..(m - 1) : flat[k].id # flat[n].id}
  BY DEF Holder, SameIdentity
<1> HIDE DEF H
<1>2. ASSUME Q # {} PROVE H # {}
  <2>1. Q \in SUBSET Nat
    OBVIOUS
  <2>2. PICK m \in Q : \A k \in Q : m <= k
    BY <1>2, <2>1, LeastExists
  <2>3. m \in H
    BY <1>1, <2>2
  <2> QED BY <2>3
<1> QED BY <1>1, <1>2 DEF H

LEMMA UriHolder ==
  ASSUME NEW flat, NEW n \in Nat \ {0}
  PROVE  /\ Holder(flat, n, SameUri) \in SUBSET (1..(n - 1))
         /\ \A m \in Holder(flat, n, SameUri) : SameUri(flat[m], flat[n])
         /\ Holder(flat, n, SameUri) = {} => \A m \in 1..(n - 1) : ~SameUri(flat[m], flat[n])
<1> DEFINE H == Holder(flat, n, SameUri)
           Q == {m \in 1..(n - 1) : SameUri(flat[m], flat[n])}
<1>1. H = {m \in 1..(n - 1) : SameUri(flat[m], flat[n])
                                /\ \A k \in 1..(m - 1) : ~SameUri(flat[k], flat[n])}
  BY DEF Holder
<1> HIDE DEF H
<1>2. ASSUME Q # {} PROVE H # {}
  <2>1. Q \in SUBSET Nat
    OBVIOUS
  <2>2. PICK m \in Q : \A k \in Q : m <= k
    BY <1>2, <2>1, LeastExists
  <2>3. m \in H
    BY <1>1, <2>2
  <2> QED BY <2>3
<1> QED BY <1>1, <1>2 DEF H

\* the nodes whose group holds a hit linked with that of node n
Joining(flat, root, n) ==
  {i \in 1..(n - 1) : \E m \in 1..(n - 1) : Linked(flat[m], flat[n]) /\ root[m] = root[i]}

\* A node takes over the groups that hold a hit linked with its own.
LEMMA AddNodeIs ==
  ASSUME NEW flat, NEW n \in Nat \ {0}, NEW root, Grouped(flat, n - 1, root)
  PROVE  /\ AddNode(flat, root, n) \in [1..n -> 1..n]
         /\ AddNode(flat, root, n)[n] = n
         /\ \A i \in 1..(n - 1) : AddNode(flat, root, n)[i] =
              IF i \in Joining(flat, root, n) THEN n ELSE root[i]
<1> DEFINE Ids == Holder(flat, n, SameIdentity)
           Uris == Holder(flat, n, SameUri)
           byIdOf == CHOOSE m \in Ids : TRUE
           byUriOf == CHOOSE m \in Uris : TRUE
           fresh == Append(root, n)
           byId == IF Ids = {} THEN fresh ELSE Unite(fresh, n, byIdOf)
           new == IF Uris = {} THEN byId ELSE Unite(byId, n, byUriOf)
<1>0. /\ root \in [1..(n - 1) -> 1..(n - 1)]
      /\ \A a, b \in 1..(n - 1) : Linked(flat[a], flat[b]) => root[a] = root[b]
  BY DEF Grouped
<1>1. new = AddNode(flat, root, n)
  BY DEF AddNode
<1>2. fresh \in [1..n -> 1..n] /\ fresh[n] = n /\ \A i \in 1..(n - 1) : fresh[i] = root[i]
  <2>1. root \in Seq(1..n) /\ Len(root) = n - 1
    BY <1>0
  <2>2. /\ fresh \in Seq(1..n) /\ Len(fresh) = n /\ fresh[n] = n
        /\ \A i \in 1..(n - 1) : fresh[i] = root[i]
    <3>1. n \in 1..n
      OBVIOUS
    <3> QED BY <2>1, <3>1, AppendProperties
  <2> HIDE DEF fresh
  <2> QED BY <2>2, LenProperties
<1>3. /\ Ids \in SUBSET (1..(n - 1))
      /\ \A m \in Ids : flat[m].id = flat[n].id
      /\ Ids = {} => \A m \in 1..(n - 1) : flat[m].id # flat[n].id
  BY IdentityHolder
<1>4. /\ Uris \in SUBSET (1..(n - 1))
      /\ \A m \in Uris : SameUri(flat[m], flat[n])
      /\ Uris = {} => \A m \in 1..(n - 1) : ~SameUri(flat[m], flat[n])
  BY UriHolder
<1> HIDE DEF Ids, Uris, fresh
<1>5. /\ Ids # {} => byIdOf \in Ids
      /\ Uris # {} => byUriOf \in Uris
  OBVIOUS
<1> HIDE DEF byIdOf, byUriOf
<1>6. ASSUME NEW i \in 1..(n - 1)
      PROVE  i \in Joining(flat, root, n) <=>
                          \/ Ids # {} /\ root[byIdOf] = root[i]
                          \/ Uris # {} /\ root[byUriOf] = root[i]
  <2>1. ASSUME NEW m \in 1..(n - 1), flat[m].id = flat[n].id, root[m] = root[i]
        PROVE  Ids # {} /\ root[byIdOf] = root[i]
    <3>1. Ids # {} /\ byIdOf \in 1..(n - 1) /\ flat[byIdOf].id = flat[n].id
      BY <1>3, <1>5, <2>1
    <3>2. Linked(flat[byIdOf], flat[m])
      BY <2>1, <3>1 DEF Linked, SameIdentity
    <3> QED BY <1>0, <2>1, <3>1, <3>2
  <2>2. ASSUME NEW m \in 1..(n - 1), SameUri(flat[m], flat[n]), root[m] = root[i]
        PROVE  Uris # {} /\ root[byUriOf] = root[i]
    <3>1. Uris # {} /\ byUriOf \in 1..(n - 1) /\ SameUri(flat[byUriOf], flat[n])
      BY <1>4, <1>5, <2>2
    <3>2. Linked(flat[byUriOf], flat[m])
      BY <2>2, <3>1 DEF Linked, SameUri
    <3> QED BY <1>0, <2>2, <3>1, <3>2
  <2>3. ASSUME Ids # {}, root[byIdOf] = root[i] PROVE i \in Joining(flat, root, n)
    <3>1. byIdOf \in 1..(n - 1) /\ Linked(flat[byIdOf], flat[n])
      BY <1>3, <1>5, <2>3 DEF Linked, SameIdentity
    <3> QED BY <2>3, <3>1 DEF Joining
  <2>4. ASSUME Uris # {}, root[byUriOf] = root[i] PROVE i \in Joining(flat, root, n)
    <3>1. byUriOf \in 1..(n - 1) /\ Linked(flat[byUriOf], flat[n])
      BY <1>4, <1>5, <2>4 DEF Linked
    <3> QED BY <2>4, <3>1 DEF Joining
  <2>5. ASSUME i \in Joining(flat, root, n)
        PROVE  \/ Ids # {} /\ root[byIdOf] = root[i]
               \/ Uris # {} /\ root[byUriOf] = root[i]
    <3>1. PICK m \in 1..(n - 1) : Linked(flat[m], flat[n]) /\ root[m] = root[i]
      BY <2>5 DEF Joining
    <3> QED BY <2>1, <2>2, <3>1 DEF Linked, SameIdentity
  <2> QED BY <2>3, <2>4, <2>5
<1>7. /\ byId \in [1..n -> 1..n] /\ byId[n] = n
      /\ \A i \in 1..(n - 1) : byId[i] = IF Ids # {} /\ root[byIdOf] = root[i] THEN n ELSE root[i]
  <2>1. CASE Ids = {}
    BY <1>2, <2>1
  <2>2. CASE Ids # {}
    <3>1. byIdOf \in 1..(n - 1) /\ fresh[byIdOf] = root[byIdOf]
      BY <1>2, <1>3, <1>5, <2>2
    <3>2. byId = [i \in 1..n |-> IF fresh[i] = root[byIdOf] THEN n ELSE fresh[i]]
      BY <1>2, <2>2, <3>1 DEF Unite
    <3>3. root[byIdOf] # n
      BY <1>0, <3>1
    <3> HIDE DEF byId
    <3>4. byId \in [1..n -> 1..n] /\ byId[n] = n
      BY <1>2, <3>1, <3>2, <3>3
    <3>5. ASSUME NEW i \in 1..(n - 1)
          PROVE  byId[i] = IF root[byIdOf] = root[i] THEN n ELSE root[i]
      BY <1>0, <1>2, <3>2
    <3> QED BY <2>2, <3>4, <3>5
  <2> QED BY <2>1, <2>2
<1> HIDE DEF byId
<1>8. /\ new \in [1..n -> 1..n] /\ new[n] = n
      /\ \A i \in 1..(n - 1) : new[i] =
           IF \/ Ids # {} /\ root[byIdOf] = root[i]
              \/ Uris # {} /\ root[byUriOf] = root[i] THEN n ELSE root[i]
  <2>1. CASE Uris = {}
    BY <1>7, <2>1
  <2>2. CASE Uris # {}
    <3>1. byUriOf \in 1..(n - 1)
      BY <1>4, <1>5, <2>2
    <3>2. new = [i \in 1..n |-> IF byId[i] = byId[byUriOf] THEN n ELSE byId[i]]
      BY <1>7, <2>2 DEF Unite
    <3>3. \A i \in 1..(n - 1) : root[i] \in 1..(n - 1) /\ root[i] # n
      BY <1>0
    <3>4. byId[byUriOf] = n \/ byId[byUriOf] = root[byUriOf]
      BY <1>7, <3>1
    <3> HIDE DEF new
    <3>5. new \in [1..n -> 1..n] /\ new[n] = n
      BY <1>7, <3>1, <3>2, <3>3, <3>4
    <3>6. ASSUME NEW i \in 1..(n - 1)
          PROVE  new[i] = IF \/ Ids # {} /\ root[byIdOf] = root[i]
                             \/ root[byUriOf] = root[i] THEN n ELSE root[i]
      <4>1. new[i] = IF byId[i] = byId[byUriOf] THEN n ELSE byId[i]
        BY <3>2
      <4>2. byId[i] = IF Ids # {} /\ root[byIdOf] = root[i] THEN n ELSE root[i]
        BY <1>7
      <4>3. byId[byUriOf] = IF Ids # {} /\ root[byIdOf] = root[byUriOf] THEN n ELSE root[byUriOf]
        BY <1>7, <3>1
      <4> QED BY <3>1, <3>3, <4>1, <4>2, <4>3
    <3> QED BY <2>2, <3>5, <3>6
  <2> QED BY <2>1, <2>2
<1>9. \A i \in 1..(n - 1) : new[i] = IF i \in Joining(flat, root, n) THEN n ELSE root[i]
  BY <1>6, <1>8
<1> HIDE DEF new
<1> QED BY <1>1, <1>8, <1>9

LEMMA AddNodeKeeps ==
  ASSUME NEW flat, NEW n \in Nat \ {0}, NEW root, Grouped(flat, n - 1, root)
  PROVE  Grouped(flat, n, AddNode(flat, root, n))
<1> DEFINE new == AddNode(flat, root, n)
<1>1. /\ root \in [1..(n - 1) -> 1..(n - 1)]
      /\ \A a, b \in 1..(n - 1) : Linked(flat[a], flat[b]) => root[a] = root[b]
      /\ \A r \in 1..(n - 1) : \A part \in (SUBSET Group(root, r)) \ {{}, Group(root, r)} :
           \E a \in part, b \in Group(root, r) \ part : Linked(flat[a], flat[b])
  BY DEF Grouped
<1>2. /\ new \in [1..n -> 1..n] /\ new[n] = n
      /\ \A i \in 1..(n - 1) : new[i] = IF i \in Joining(flat, root, n) THEN n ELSE root[i]
  BY AddNodeIs
<1> HIDE DEF new
<1>3. \A i \in 1..(n - 1) : root[i] \in 1..(n - 1) /\ root[i] # n
  BY <1>1
<1>4. ASSUME NEW a \in 1..n, NEW b \in 1..n, Linked(flat[a], flat[b]) PROVE new[a] = new[b]
  <2>1. CASE a # n /\ b # n
    <3>1. a \in 1..(n - 1) /\ b \in 1..(n - 1)
      BY <2>1
    <3>2. root[a] = root[b]
      BY <1>1, <1>4, <3>1
    <3>3. a \in Joining(flat, root, n) <=> b \in Joining(flat, root, n)
      <4>1. ASSUME NEW m \in 1..(n - 1), Linked(flat[m], flat[n])
            PROVE  root[m] = root[a] <=> root[m] = root[b]
        BY <3>2
      <4> QED BY <3>1, <4>1 DEF Joining
    <3> QED BY <1>2, <3>1, <3>2, <3>3
  <2>2. CASE a # n /\ b = n
    <3>1. a \in 1..(n - 1)
      BY <2>2
    <3>2. a \in Joining(flat, root, n)
      BY <1>4, <2>2, <3>1 DEF Joining
    <3> QED BY <1>2, <2>2, <3>1, <3>2
  <2>3. CASE a = n /\ b # n
    <3>1. b \in 1..(n - 1)
      BY <2>3
    <3>2. b \in Joining(flat, root, n)
      BY <1>4, <2>3, <3>1, LinkedBothWays DEF Joining
    <3> QED BY <1>2, <2>3, <3>1, <3>2
  <2> QED BY <2>1, <2>2, <2>3
<1>5. ASSUME NEW r \in 1..n, NEW part \in (SUBSET Group(new, r)) \ {{}, Group(new, r)}
      PROVE  \E a \in part, b \in Group(new, r) \ part : Linked(flat[a], flat[b])
  <2>0. Group(new, r) = {i \in 1..n : new[i] = r}
    BY <1>2 DEF Group
  <2>a. \A s : Group(root, s) = {i \in 1..(n - 1) : root[i] = s}
    BY <1>1 DEF Group
  <2>1. CASE r # n
    <3>1. PICK i \in 1..n : new[i] = r
      BY <2>0, <1>5
    <3>2. i \in 1..(n - 1) /\ i \notin Joining(flat, root, n) /\ root[i] = r
      BY <1>2, <2>1, <3>1
    <3>3. Group(new, r) = Group(root, r)
      <4>1. ASSUME NEW k \in 1..n, new[k] = r PROVE k \in 1..(n - 1) /\ root[k] = r
        BY <1>2, <2>1, <4>1
      <4>2. ASSUME NEW k \in 1..(n - 1), root[k] = r PROVE k \in 1..n /\ new[k] = r
        <5>1. k \notin Joining(flat, root, n)
          BY <3>2, <4>2 DEF Joining
        <5>2. k \in 1..n
          OBVIOUS
        <5>3. new[k] = root[k]
          BY <1>2, <5>1
        <5> QED BY <4>2, <5>2, <5>3
      <4> QED BY <2>0, <2>a, <4>1, <4>2
    <3>4. r \in 1..(n - 1)
      BY <1>3, <3>2
    <3> QED BY <1>1, <1>5, <3>3, <3>4
  <2>2. CASE r = n
    <3>1. \A i \in 1..(n - 1) : i \in Group(new, n) <=> i \in Joining(flat, root, n)
      BY <1>2, <1>3, <2>0, <2>2
    <3>2. n \in Group(new, n)
      BY <1>2, <2>0, <2>2
    <3>3. ASSUME NEW s \in 1..(n - 1), NEW i \in Group(root, s), NEW j \in Group(root, s),
                 i \in part, j \notin part, i \in Joining(flat, root, n)
          PROVE  \E a \in part, b \in Group(new, r) \ part : Linked(flat[a], flat[b])
      <4> DEFINE some == part \cap Group(root, s)
      <4>1. some \in (SUBSET Group(root, s)) \ {{}, Group(root, s)}
        BY <3>3
      <4>2. PICK a \in some, b \in Group(root, s) \ some : Linked(flat[a], flat[b])
        BY <1>1, <4>1
      <4>3. b \in 1..(n - 1) /\ root[b] = root[i] /\ b \in Joining(flat, root, n)
        BY <2>a, <3>3, <4>2 DEF Joining
      <4>4. b \in Group(new, r)
        BY <2>2, <3>1, <3>3, <4>3
      <4> QED BY <4>2, <4>4
    <3>4. CASE n \in part
      <4>1. PICK j \in Group(new, n) \ part : TRUE
        BY <1>5, <2>2
      <4>2. j \in 1..(n - 1) /\ j \in Joining(flat, root, n)
        BY <2>0, <2>2, <3>1, <3>4, <4>1
      <4>3. PICK m \in 1..(n - 1) : Linked(flat[m], flat[n]) /\ root[m] = root[j]
        BY <4>2 DEF Joining
      <4>4. m \in Joining(flat, root, n)
        BY <4>3 DEF Joining
      <4>5. m \in Group(new, n)
        BY <3>1, <4>4
      <4>6. CASE m \in part
        <5>1. m \in Group(root, root[j]) /\ j \in Group(root, root[j]) /\ root[j] \in 1..(n - 1)
          BY <1>3, <2>a, <4>2, <4>3
        <5> QED BY <3>3, <4>1, <4>4, <4>6, <5>1
      <4>7. CASE m \notin part
        BY <2>2, <3>4, <4>3, <4>5, <4>7, LinkedBothWays
      <4> QED BY <4>6, <4>7
    <3>5. CASE n \notin part
      <4>1. PICK j \in part : TRUE
        BY <1>5
      <4>2. j \in 1..(n - 1) /\ j \in Joining(flat, root, n)
        BY <1>5, <2>0, <2>2, <3>1, <3>5
      <4>3. PICK m \in 1..(n - 1) : Linked(flat[m], flat[n]) /\ root[m] = root[j]
        BY <4>2 DEF Joining
      <4>4. CASE m \in part
        BY <2>2, <3>2, <3>5, <4>3, <4>4
      <4>5. CASE m \notin part
        <5>1. m \in Group(root, root[j]) /\ j \in Group(root, root[j]) /\ root[j] \in 1..(n - 1)
          BY <1>3, <2>a, <4>2, <4>3
        <5> QED BY <3>3, <4>1, <4>2, <4>5, <5>1
      <4> QED BY <4>4, <4>5
    <3> QED BY <3>4, <3>5
  <2> QED BY <2>1, <2>2
<1> QED BY <1>2, <1>4, <1>5 DEF Grouped, new

\* Roots unites all the hits, one after the other.
LEMMA RootsGroup ==
  ASSUME NEW flat, Len(flat) \in Nat
  PROVE  Grouped(flat, Len(flat), Roots(flat))
<1> DEFINE L == Len(flat)
           V == [n \in 0..L |-> {root \in [1..n -> 1..n] : Grouped(flat, n, root)}]
           All == UNION {V[n] : n \in 0..L}
           G == [p \in (1..L) \X All |-> AddNode(flat, p[2], p[1])]
           none == <<>>
           upTo == CHOOSE f : f = [n \in 0..L |-> IF n = 0 THEN none ELSE AddNode(flat, f[n - 1], n)]
<1>0. L \in Nat
  OBVIOUS
<1>1. Roots(flat) = upTo[L]
  BY DEF Roots
<1> HIDE DEF L
<1>2. none \in V[0]
  <2>1. none \in [1..0 -> 1..0]
    OBVIOUS
  <2>2. Grouped(flat, 0, none)
    BY <2>1 DEF Grouped
  <2> QED BY <1>0, <2>1, <2>2
<1> HIDE DEF none
<1>3. ASSUME NEW n \in 1..L, NEW x \in V[n - 1] PROVE G[<<n, x>>] = AddNode(flat, x, n) /\ G[<<n, x>>] \in V[n]
  <2>0. n - 1 \in 0..L /\ n \in 0..L /\ n \in Nat \ {0}
    BY <1>0
  <2>1. x \in All
    BY <2>0
  <2>2. G[<<n, x>>] = AddNode(flat, x, n)
    BY <2>1
  <2>3. Grouped(flat, n - 1, x)
    BY <2>0
  <2>4. Grouped(flat, n, AddNode(flat, x, n))
    BY <2>0, <2>3, AddNodeKeeps
  <2>5. AddNode(flat, x, n) \in [1..n -> 1..n]
    BY <2>4 DEF Grouped
  <2>6. AddNode(flat, x, n) \in V[n]
    BY <2>0, <2>4, <2>5
  <2> HIDE DEF V, G
  <2> QED BY <2>2, <2>6
<1>a. \A x \in V[L] : Grouped(flat, L, x)
  BY <1>0
<1> HIDE DEF V, G, All
<1>b. \A n \in 1..L : \A x \in V[n - 1] : G[<<n, x>>] \in V[n]
  BY <1>3
<1>c. PICK f : Runs(f, L, V, G, none)
  BY <1>0, <1>2, <1>b, RecursionExists
<1>4. /\ f \in [0..L -> All]
      /\ f[0] = none
      /\ \A n \in 0..L : f[n] \in V[n]
      /\ \A n \in 1..L : f[n] = G[<<n, f[n - 1]>>]
  BY <1>c DEF Runs, All
<1>5. f = [n \in 0..L |-> IF n = 0 THEN none ELSE AddNode(flat, f[n - 1], n)]
  <2>1. ASSUME NEW n \in 0..L PROVE f[n] = IF n = 0 THEN none ELSE AddNode(flat, f[n - 1], n)
    <3>1. CASE n = 0
      BY <1>4, <3>1
    <3>2. CASE n # 0
      <4>1. n \in 1..L /\ n - 1 \in 0..L
        BY <1>0, <3>2
      <4>2. f[n] = G[<<n, f[n - 1]>>] /\ f[n - 1] \in V[n - 1]
        BY <1>4, <4>1
      <4> QED BY <1>3, <3>2, <4>1, <4>2
    <3> QED BY <3>1, <3>2
  <2> QED BY <1>4, <2>1
<1>6. upTo = [n \in 0..L |-> IF n = 0 THEN none ELSE AddNode(flat, upTo[n - 1], n)]
  BY <1>5
<1> HIDE DEF upTo
<1>7. \A n \in 0..L : n \in {k \in 0..L : upTo[k] \in V[k]}
  <2> DEFINE T == {k \in 0..L : upTo[k] \in V[k]}
  <2>1. 0 \in T
    BY <1>0, <1>2, <1>6
  <2>2. ASSUME NEW n \in 1..L, n - 1 \in T PROVE n \in T
    <3>1. upTo[n - 1] \in V[n - 1] /\ n \in 0..L /\ n # 0
      BY <1>0, <2>2
    <3>2. upTo[n] = AddNode(flat, upTo[n - 1], n)
      BY <1>6, <3>1
    <3>3. upTo[n] \in V[n]
      BY <1>3, <3>1, <3>2
    <3> QED BY <3>1, <3>3
  <2> HIDE DEF T
  <2>3. \A n \in 1..L : n - 1 \in T => n \in T
    BY <2>2
  <2>4. \A n \in 0..L : n \in T
    BY <1>0, <2>1, <2>3, IntervalInduction
  <2> QED BY <2>4 DEF T
<1>8. upTo[L] \in V[L]
  BY <1>0, <1>7
<1> QED BY <1>1, <1>8, <1>a DEF L

-----------------------------------------------------------------------------
(* All hits in one sequence.                                                *)

LEMMA FlattenIs ==
  ASSUME NEW E, NEW N \in Nat, NEW seqs \in [1..N -> Seq(E)]
  PROVE  FlattenSeq(seqs) \in Seq(E)
<1>1. seqs \in Seq(Seq(E)) /\ Len(seqs) = N
  OBVIOUS
<1>2. CASE N = 0
  <2>1. FlattenSeq(seqs) = seqs
    BY <1>1, <1>2 DEF FlattenSeq
  <2>2. seqs \in [1..0 -> E]
    BY <1>2
  <2> QED BY <2>1, <2>2
<1>3. CASE N # 0
  <2> DEFINE L == N - 1
             V == [n \in 0..L |-> Seq(E)]
             G == [p \in (1..L) \X Seq(E) |-> p[2] \o seqs[p[1] + 1]]
             flatten == CHOOSE f : f = [i \in 1..N |-> IF i = 1 THEN seqs[i] ELSE f[i - 1] \o seqs[i]]
  <2>0. L \in Nat /\ 1 \in 1..N /\ \A n \in 1..L : n + 1 \in 1..N
    BY <1>3
  <2>1. FlattenSeq(seqs) = flatten[N]
    BY <1>1, <1>3 DEF FlattenSeq
  <2>2. seqs[1] \in V[0]
    BY <2>0
  <2>3. ASSUME NEW n \in 1..L, NEW x \in V[n - 1]
        PROVE  G[<<n, x>>] = x \o seqs[n + 1] /\ G[<<n, x>>] \in V[n]
    <3>1. x \in Seq(E) /\ seqs[n + 1] \in Seq(E) /\ n \in 0..L
      BY <2>0
    <3>2. G[<<n, x>>] = x \o seqs[n + 1]
      BY <3>1
    <3>3. x \o seqs[n + 1] \in Seq(E)
      BY <3>1, ConcatProperties
    <3> HIDE DEF G
    <3> QED BY <3>1, <3>2, <3>3
  <2>a. \A n \in 0..L : V[n] = Seq(E)
    OBVIOUS
  <2> HIDE DEF V, G, L
  <2>b. \A n \in 1..L : \A x \in V[n - 1] : G[<<n, x>>] \in V[n]
    BY <2>3
  <2>4. PICK f : Runs(f, L, V, G, seqs[1])
    BY <2>0, <2>2, <2>b, RecursionExists
  <2>5. /\ f[0] = seqs[1]
        /\ \A n \in 0..L : f[n] \in V[n]
        /\ \A n \in 1..L : f[n] = G[<<n, f[n - 1]>>]
    BY <2>4 DEF Runs
  <2> DEFINE g == [i \in 1..N |-> f[i - 1]]
  <2>6. g = [i \in 1..N |-> IF i = 1 THEN seqs[i] ELSE g[i - 1] \o seqs[i]]
    <3>1. ASSUME NEW i \in 1..N PROVE g[i] = IF i = 1 THEN seqs[i] ELSE g[i - 1] \o seqs[i]
      <4>1. CASE i = 1
        BY <2>5, <4>1
      <4>2. CASE i # 1
        <5>1. i - 1 \in 1..L /\ (i - 1) - 1 \in 0..L /\ i - 1 \in 1..N /\ (i - 1) + 1 = i
          BY <4>2 DEF L
        <5>2. f[i - 1] = G[<<i - 1, f[(i - 1) - 1]>>] /\ f[(i - 1) - 1] \in V[(i - 1) - 1]
          BY <2>5, <5>1
        <5>3. f[i - 1] = f[(i - 1) - 1] \o seqs[i]
          BY <2>3, <5>1, <5>2
        <5> QED BY <4>2, <5>1, <5>3
      <4> QED BY <4>1, <4>2
    <3> HIDE DEF g
    <3>2. DOMAIN g = 1..N /\ g = [i \in 1..N |-> g[i]]
      BY DEF g
    <3> QED BY <3>1, <3>2
  <2> HIDE DEF g
  <2>7. flatten = [i \in 1..N |-> IF i = 1 THEN seqs[i] ELSE flatten[i - 1] \o seqs[i]]
    BY <2>6
  <2> HIDE DEF flatten
  <2> DEFINE T == {n \in 0..L : flatten[n + 1] \in Seq(E)}
  <2>8. 0 \in T
    BY <2>0, <2>7
  <2>9. ASSUME NEW n \in 1..L, n - 1 \in T PROVE n \in T
    <3>1. n + 1 \in 1..N /\ n + 1 # 1 /\ (n + 1) - 1 = (n - 1) + 1 /\ n \in 0..L
      BY <2>0 DEF L
    <3>2. flatten[n + 1] = flatten[(n - 1) + 1] \o seqs[n + 1]
      BY <2>7, <3>1
    <3>3. seqs[n + 1] \in Seq(E) /\ flatten[(n - 1) + 1] \in Seq(E)
      BY <2>9, <3>1
    <3>4. flatten[(n - 1) + 1] \o seqs[n + 1] \in Seq(E)
      BY <3>3, ConcatProperties
    <3> QED BY <3>1, <3>2, <3>4
  <2> HIDE DEF T
  <2>10. \A n \in 1..L : n - 1 \in T => n \in T
    BY <2>9
  <2>11. \A n \in 0..L : n \in T
    BY <2>0, <2>8, <2>10, IntervalInduction
  <2>12. flatten[L + 1] \in Seq(E)
    BY <2>0, <2>11 DEF T
  <2> QED BY <2>1, <2>12 DEF L
<1> QED BY <1>2, <1>3

\* a sequence, whatever its elements
IsList(s) == Len(s) \in Nat /\ DOMAIN s = 1..Len(s) /\ s \in [1..Len(s) -> {s[k] : k \in 1..Len(s)}]

LEMMA FunctionIsList ==
  ASSUME NEW n \in Nat, NEW s, DOMAIN s = 1..n, s = [k \in 1..n |-> s[k]]
  PROVE  IsList(s) /\ Len(s) = n
<1> DEFINE E == {s[k] : k \in 1..n}
<1>1. s \in [1..n -> E]
  OBVIOUS
<1>2. s \in Seq(E)
  BY <1>1
<1>3. Len(s) \in Nat /\ DOMAIN s = 1..Len(s)
  BY <1>2, LenProperties
<1>4. Len(s) = n
  BY <1>3
<1> QED BY <1>1, <1>3, <1>4 DEF IsList

LEMMA SequenceIsList ==
  ASSUME NEW E, NEW s \in Seq(E) PROVE IsList(s)
<1>1. Len(s) \in Nat /\ s \in [1..Len(s) -> E]
  BY LenProperties
<1> QED BY <1>1, FunctionIsList

LEMMA FlatIsList ==
  ASSUME NEW lists, NEW N \in Nat, DOMAIN lists = 1..N, \A i \in 1..N : IsList(lists[i])
  PROVE  IsList(Flat(lists))
<1> DEFINE tagged == [i \in DOMAIN lists |-> [k \in DOMAIN lists[i] |-> lists[i][k] @@ [list |-> i]]]
           E == UNION {{tagged[i][k] : k \in 1..Len(lists[i])} : i \in 1..N}
<1>1. ASSUME NEW i \in 1..N PROVE tagged[i] \in Seq(E)
  <2>1. Len(lists[i]) \in Nat /\ DOMAIN lists[i] = 1..Len(lists[i])
    BY DEF IsList
  <2>2. tagged[i] = [k \in 1..Len(lists[i]) |-> lists[i][k] @@ [list |-> i]]
    BY <2>1
  <2> HIDE DEF tagged
  <2>3. \A k \in 1..Len(lists[i]) : tagged[i][k] \in E
    OBVIOUS
  <2> HIDE DEF E
  <2>4. tagged[i] \in [1..Len(lists[i]) -> E]
    BY <2>2, <2>3
  <2> QED BY <2>1, <2>4
<1>2. Flat(lists) = FlattenSeq(tagged)
  BY DEF Flat
<1>3. tagged \in [1..N -> Seq(E)]
  <2>1. tagged = [i \in 1..N |-> tagged[i]]
    OBVIOUS
  <2> HIDE DEF tagged, E
  <2> QED BY <1>1, <2>1
<1> HIDE DEF tagged, E
<1>4. FlattenSeq(tagged) \in Seq(E)
  BY <1>3, FlattenIs
<1> QED BY <1>2, <1>4, SequenceIsList

-----------------------------------------------------------------------------
(* What the answer shows: hits of distinct groups.                          *)

\* hits are some of flat, each of another group
Picks(hits, flat, root) ==
  /\ IsList(hits)
  /\ \E from \in [DOMAIN hits -> DOMAIN flat] :
       \A j, k \in DOMAIN hits :
         hits[j] = flat[from[j]] /\ (j # k => root[from[j]] # root[from[k]])

LEMMA ScoreIsInt ==
  ASSUME NEW flat, IsList(flat), NEW root, NEW lists, Len(lists) \in Nat, NEW r
  PROVE  GroupScore(flat, root, lists, r) \in Int
<1> DEFINE L == Len(lists)
           Here(i) == {n \in DOMAIN flat : flat[n].list = i}
           Mine(i) == {n \in Here(i) : root[n] = r}
           Shown(i) == {m \in Here(i) : \A n \in Mine(i) : m <= n}
           Rank(i) == Cardinality({root[m] : m \in Shown(i)})
           Share(i) == IF Mine(i) = {} THEN 0 ELSE Scale \div (RrfK + Rank(i))
           sum == CHOOSE f : f = [i \in 0..L |-> IF i = 0 THEN 0 ELSE f[i - 1] + Share(i)]
           V == [n \in 0..L |-> Int]
           G == [p \in (1..L) \X Int |-> p[2] + Share(p[1])]
<1>1. GroupScore(flat, root, lists, r) = sum[L]
  BY DEF GroupScore
<1>2. ASSUME NEW i PROVE Share(i) \in Int
  <2>1. IsFiniteSet(Shown(i))
    <3>1. Shown(i) \in SUBSET (1..Len(flat)) /\ Len(flat) \in Nat
      BY DEF IsList
    <3> QED BY <3>1, FS_Interval, FS_Subset
  <2> HIDE DEF Shown
  <2>2. Rank(i) \in Nat
    <3> DEFINE S == Shown(i)
               T == {root[m] : m \in S}
               f == [m \in S |-> root[m]]
    <3>1. f \in Surjection(S, T)
      BY DEF Surjection
    <3> HIDE DEF f
    <3>2. IsFiniteSet(T)
      BY <2>1, <3>1, FS_Surjection
    <3> QED BY <3>2, FS_CardinalityType
  <2> HIDE DEF Rank, Mine
  <2>3. Scale \in Nat /\ RrfK + Rank(i) \in Nat \ {0}
    BY <2>2, FederationAssumption
  <2> QED BY <2>3
<1> HIDE DEF Share
<1>0. L \in Nat
  OBVIOUS
<1> HIDE DEF L
<1>3. ASSUME NEW n \in 1..L, NEW x \in V[n - 1] PROVE G[<<n, x>>] = x + Share(n) /\ G[<<n, x>>] \in V[n]
  BY <1>0, <1>2
<1>a. \A n \in 0..L : V[n] = Int
  OBVIOUS
<1>b. 0 \in V[0]
  BY <1>0
<1> HIDE DEF V, G
<1>c. \A n \in 1..L : \A x \in V[n - 1] : G[<<n, x>>] \in V[n]
  BY <1>3
<1>4. PICK f : Runs(f, L, V, G, 0)
  BY <1>0, <1>b, <1>c, RecursionExists
<1>5. f = [i \in 0..L |-> IF i = 0 THEN 0 ELSE f[i - 1] + Share(i)]
  <2>1. ASSUME NEW i \in 0..L PROVE f[i] = IF i = 0 THEN 0 ELSE f[i - 1] + Share(i)
    <3>1. CASE i = 0
      BY <1>4, <3>1 DEF Runs
    <3>2. CASE i # 0
      <4>1. i \in 1..L /\ i - 1 \in 0..L
        BY <1>0, <3>2
      <4>2. f[i] = G[<<i, f[i - 1]>>] /\ f[i - 1] \in V[i - 1]
        BY <1>4, <4>1 DEF Runs
      <4> QED BY <1>3, <3>2, <4>1, <4>2
    <3> QED BY <3>1, <3>2
  <2>2. f = [i \in 0..L |-> f[i]]
    BY <1>4 DEF Runs
  <2> QED BY <2>1, <2>2
<1>6. sum = [i \in 0..L |-> IF i = 0 THEN 0 ELSE sum[i - 1] + Share(i)]
  BY <1>5
<1> HIDE DEF sum
<1> DEFINE T == {n \in 0..L : sum[n] \in Int}
<1>7. 0 \in T
  BY <1>0, <1>6
<1>8. ASSUME NEW n \in 1..L, n - 1 \in T PROVE n \in T
  <2>1. sum[n] = sum[n - 1] + Share(n) /\ n \in 0..L
    BY <1>0, <1>6
  <2> QED BY <1>2, <1>8, <2>1
<1> HIDE DEF T
<1>9. \A n \in 1..L : n - 1 \in T => n \in T
  BY <1>8
<1>10. \A n \in 0..L : n \in T
  BY <1>0, <1>7, <1>9, IntervalInduction
<1>11. sum[L] \in Int
  BY <1>0, <1>10 DEF T
<1> QED BY <1>1, <1>11

LEMMA FusePicks ==
  ASSUME NEW lists, Len(lists) \in Nat, IsList(Flat(lists))
  PROVE  Picks(FuseHits(lists), Flat(lists), Roots(Flat(lists)))
<1> DEFINE flat == Flat(lists)
           root == Roots(flat)
           firsts == {n \in DOMAIN flat : \A m \in 1..(n - 1) : root[m] # root[n]}
           score == [n \in firsts |-> GroupScore(flat, root, lists, root[n])]
           before(m, n) == score[m] > score[n] \/ (score[m] = score[n] /\ m < n)
           R == {x \in firsts \X firsts : before(x[1], x[2])}
           ranked == InOrder(firsts, R)
           fused == FuseHits(lists)
           c == Cardinality(firsts)
<1>1. fused = [k \in DOMAIN ranked |-> flat[ranked[k]]]
  BY DEF FuseHits
<1>2. DOMAIN flat = 1..Len(flat) /\ Len(flat) \in Nat
  BY DEF IsList
<1> HIDE DEF flat, root
<1>3. firsts \in SUBSET Int /\ firsts \in SUBSET (1..Len(flat)) /\ IsFiniteSet(firsts)
  <2>1. firsts \in SUBSET (1..Len(flat)) /\ firsts \in SUBSET Int
    BY <1>2
  <2> HIDE DEF firsts
  <2>2. IsFiniteSet(1..Len(flat))
    BY <1>2, FS_Interval
  <2> QED BY <2>1, <2>2, FS_Subset
<1>4. \A m, n \in firsts : m # n => root[m] # root[n]
  <2> SUFFICES ASSUME NEW m \in firsts, NEW n \in firsts, m # n PROVE root[m] # root[n]
    OBVIOUS
  <2>1. m \in 1..(n - 1) \/ n \in 1..(m - 1)
    BY <1>2
  <2> QED BY <2>1
<1>5. score \in [firsts -> Int]
  BY ScoreIsInt DEF flat
<1> HIDE DEF firsts, score
<1>6. StrictOrder(firsts, R)
  BY <1>3, <1>5, ScoresOrder
<1> HIDE DEF R
<1>7. /\ c \in Nat /\ ranked \in [1..c -> firsts]
      /\ \A i, j \in 1..c : ranked[i] = ranked[j] => i = j
  BY <1>3, <1>6, InOrderPlaces
<1> HIDE DEF c, ranked, fused
<1>8. DOMAIN fused = 1..c /\ fused = [k \in 1..c |-> fused[k]] /\ \A k \in 1..c : fused[k] = flat[ranked[k]]
  BY <1>1, <1>7
<1>9. IsList(fused)
  BY <1>7, <1>8, FunctionIsList
<1>10. ranked \in [DOMAIN fused -> DOMAIN flat]
  BY <1>2, <1>3, <1>7, <1>8
<1>11. \A j, k \in DOMAIN fused :
         fused[j] = flat[ranked[j]] /\ (j # k => root[ranked[j]] # root[ranked[k]])
  BY <1>4, <1>7, <1>8
<1> QED BY <1>9, <1>10, <1>11 DEF Picks, flat, root, fused

LEMMA RerankPicks ==
  ASSUME NEW hits, NEW flat, NEW root, Picks(hits, flat, root)
  PROVE  Picks(Rerank(hits), flat, root)
<1> DEFINE N == Len(hits)
           eligible == {p \in DOMAIN hits : p <= RerankLimit /\ hits[p].id \in DOMAIN RerankScore}
           score == [p \in eligible |-> RerankScore[hits[p].id]]
           better(p, q) == score[p] > score[q] \/ (score[p] = score[q] /\ p < q)
           R == {x \in eligible \X eligible : better(x[1], x[2])}
           order == InOrder(eligible, R)
           P == {x \in eligible \X eligible : x[1] < x[2]}
           Place(p) == Cardinality({q \in eligible : q < p}) + 1
           at == [p \in 1..N |-> IF p \in eligible THEN order[Place(p)] ELSE p]
           c == Cardinality(eligible)
           new == Rerank(hits)
<1>1. new = [p \in DOMAIN hits |-> IF p \in eligible THEN hits[order[Place(p)]] ELSE hits[p]]
  BY DEF Rerank
<1>2. DOMAIN hits = 1..N /\ N \in Nat
  BY DEF Picks, IsList
<1>3. eligible \in SUBSET Int /\ eligible \in SUBSET (1..N) /\ IsFiniteSet(eligible)
  <2>1. eligible \in SUBSET (1..N) /\ eligible \in SUBSET Int
    BY <1>2
  <2> HIDE DEF eligible, N
  <2>2. IsFiniteSet(1..N)
    BY <1>2, FS_Interval
  <2> QED BY <2>1, <2>2, FS_Subset
<1>4. score \in [eligible -> Int]
  BY FederationAssumption
<1> HIDE DEF eligible, score, N
<1>5. StrictOrder(eligible, R)
  BY <1>3, <1>4, ScoresOrder
<1>6. StrictOrder(eligible, P)
  BY <1>3 DEF StrictOrder
<1> HIDE DEF R
<1>7. /\ c \in Nat /\ order \in [1..c -> eligible]
      /\ \A i, j \in 1..c : order[i] = order[j] => i = j
  BY <1>3, <1>5, InOrderPlaces
<1>8. \A p \in eligible : Before(eligible, P, p) = {q \in eligible : q < p}
  BY <1>3 DEF Before
<1>9. /\ \A p \in eligible : Place(p) \in 1..c
      /\ \A p, q \in eligible : Place(p) = Place(q) => p = q
  <2>0. \A p \in eligible : Place(p) = Cardinality(Before(eligible, P, p)) + 1
    BY <1>8
  <2> HIDE DEF Place, P
  <2>1. \A p \in eligible : /\ Cardinality(Before(eligible, P, p)) \in Nat
                            /\ Cardinality(Before(eligible, P, p)) < Cardinality(eligible)
                            /\ \A q \in eligible : <<p, q>> \in P =>
                                 Cardinality(Before(eligible, P, p)) < Cardinality(Before(eligible, P, q))
    BY <1>3, <1>6, BeforeCounts
  <2>2. \A p \in eligible : Place(p) \in 1..c
    BY <1>7, <2>0, <2>1
  <2>3. ASSUME NEW p \in eligible, NEW q \in eligible, p # q PROVE Place(p) # Place(q)
    <3>1. <<p, q>> \in P \/ <<q, p>> \in P
      BY <1>6, <2>3 DEF StrictOrder
    <3> QED BY <2>0, <2>1, <3>1
  <2> QED BY <2>2, <2>3
<1> HIDE DEF Place, order, c, new
<1>10. at \in [1..N -> 1..N] /\ \A p, q \in 1..N : at[p] = at[q] => p = q
  <2>1. \A p \in eligible : order[Place(p)] \in eligible
    BY <1>7, <1>9
  <2>2. \A p, q \in eligible : order[Place(p)] = order[Place(q)] => p = q
    BY <1>7, <1>9
  <2> QED BY <1>3, <2>1, <2>2
<1>11. DOMAIN new = 1..N /\ new = [p \in 1..N |-> new[p]] /\ \A p \in 1..N : new[p] = hits[at[p]]
  BY <1>1, <1>2
<1> HIDE DEF at
<1>12. IsList(new)
  BY <1>2, <1>11, FunctionIsList
<1>13. PICK from \in [DOMAIN hits -> DOMAIN flat] :
         \A j, k \in DOMAIN hits :
           hits[j] = flat[from[j]] /\ (j # k => root[from[j]] # root[from[k]])
  BY DEF Picks
<1> DEFINE thus == [p \in 1..N |-> from[at[p]]]
<1>14. thus \in [DOMAIN new -> DOMAIN flat]
  BY <1>2, <1>10, <1>11
<1>15. \A j, k \in DOMAIN new : new[j] = flat[thus[j]] /\ (j # k => root[thus[j]] # root[thus[k]])
  <2> SUFFICES ASSUME NEW j \in 1..N, NEW k \in 1..N
               PROVE  new[j] = flat[thus[j]] /\ (j # k => root[thus[j]] # root[thus[k]])
    BY <1>11
  <2>1. at[j] \in DOMAIN hits /\ at[k] \in DOMAIN hits /\ (j # k => at[j] # at[k])
    BY <1>2, <1>10
  <2>2. thus[j] = from[at[j]] /\ thus[k] = from[at[k]]
    OBVIOUS
  <2> HIDE DEF thus
  <2> QED BY <1>11, <1>13, <2>1, <2>2
<1> HIDE DEF thus
<1> QED BY <1>12, <1>14, <1>15 DEF Picks, new

LEMMA TopPicks ==
  ASSUME NEW hits, NEW flat, NEW root, Picks(hits, flat, root)
  PROVE  Picks(Top(hits), flat, root)
<1> DEFINE N == Len(hits)
           n == IF N < TopK THEN N ELSE TopK
           E == {hits[k] : k \in 1..N}
           top == Top(hits)
<1>1. DOMAIN hits = 1..N /\ N \in Nat /\ hits \in [1..N -> E]
  BY DEF Picks, IsList
<1>2. top = SubSeq(hits, 1, n)
  BY DEF Top
<1>3. n \in Nat /\ n \in 0..N /\ 1..n \in SUBSET (1..N)
  BY <1>1, FederationAssumption
<1> HIDE DEF N, n, E, top
<1>4. hits \in Seq(E) /\ Len(hits) = N
  BY <1>1 DEF N
<1>5. DOMAIN top = 1..n /\ top = [k \in 1..n |-> top[k]] /\ \A k \in 1..n : top[k] = hits[k]
  BY <1>2, <1>3, <1>4, SubSeqProperties
<1>6. IsList(top)
  BY <1>3, <1>5, FunctionIsList
<1>7. PICK from \in [DOMAIN hits -> DOMAIN flat] :
        \A j, k \in DOMAIN hits :
          hits[j] = flat[from[j]] /\ (j # k => root[from[j]] # root[from[k]])
  BY DEF Picks
<1> DEFINE thus == [k \in 1..n |-> from[k]]
<1>8. thus \in [DOMAIN top -> DOMAIN flat]
  BY <1>1, <1>3, <1>5
<1>9. \A j, k \in DOMAIN top : top[j] = flat[thus[j]] /\ (j # k => root[thus[j]] # root[thus[k]])
  BY <1>1, <1>3, <1>5, <1>7
<1> HIDE DEF thus
<1> QED BY <1>6, <1>8, <1>9 DEF Picks, top

LEMMA RankedIsList ==
  ASSUME NEW hits, IsList(hits) PROVE IsList(RankedHits(hits))
<1> DEFINE ranked == RankedHits(hits)
<1>1. DOMAIN ranked = 1..Len(hits) /\ ranked = [k \in 1..Len(hits) |-> ranked[k]]
  BY DEF RankedHits
<1> HIDE DEF ranked
<1>2. Len(hits) \in Nat
  BY DEF IsList
<1>3. IsList(ranked)
  BY <1>1, <1>2, FunctionIsList
<1> QED BY <1>3 DEF ranked

LEMMA FinalListsAreLists ==
  ASSUME NumSelected \in Nat, \A i \in 1..NumSelected : fed.selected[i] \in Sources,
         \A i \in 1..NumSelected : outcomes[i] \in OutcomesOf(i)
  PROVE  /\ DOMAIN FinalLists = 1..NumSelected /\ Len(FinalLists) = NumSelected
         /\ \A i \in 1..NumSelected : IsList(FinalLists[i])
<1> DEFINE lists == FinalLists
           N == NumSelected
           List(i) == IF outcomes[i].status = "ok" THEN RankedHits(outcomes[i].answer.hits) ELSE <<>>
<1>1. DOMAIN lists = 1..N /\ lists = [i \in 1..N |-> lists[i]] /\ \A i \in 1..N : lists[i] = List(i)
  BY DEF FinalLists, HitLists, InSelectionOrder
<1>2. ASSUME NEW i \in 1..N PROVE IsList(List(i))
  <2>1. CASE outcomes[i].status = "ok"
    <3>1. PICK a \in Answers[fed.selected[i]] : outcomes[i] = Responded(a)
      BY <1>2, <2>1 DEF OutcomesOf, TimedOut, Unavailable
    <3>2. a.hits \in Seq(ToSet(a.hits))
      BY <3>1, FederationAssumption
    <3>3. outcomes[i].answer.hits = a.hits
      BY <3>1 DEF Responded
    <3>4. IsList(a.hits)
      BY <3>2, SequenceIsList
    <3> QED BY <2>1, <3>3, <3>4, RankedIsList
  <2>2. CASE outcomes[i].status # "ok"
    <3>1. IsList(<<>>)
      BY DEF IsList
    <3> QED BY <2>2, <3>1
  <2> QED BY <2>1, <2>2
<1> HIDE DEF lists, N, List
<1>3. N \in Nat
  BY DEF N
<1>4. Len(lists) = N
  BY <1>1, <1>3, FunctionIsList
<1> QED BY <1>1, <1>2, <1>4 DEF lists, N

LEMMA PicksMergeOnce ==
  ASSUME IsList(Flat(FinalLists)), Picks(fed.hits, Flat(FinalLists), Roots(Flat(FinalLists)))
  PROVE  MergedOnce
<1> DEFINE flat == Flat(FinalLists)
           root == Roots(flat)
           group(r) == {n \in DOMAIN root : root[n] = r}
           L == Len(flat)
           GroupOf(hit) == {root[n] : n \in {m \in DOMAIN flat : flat[m] = hit}}
<1>1. DOMAIN flat = 1..L /\ L \in Nat
  BY DEF IsList
<1>2. Grouped(flat, L, root)
  BY <1>1, RootsGroup
<1>a. Picks(fed.hits, flat, root)
  OBVIOUS
<1>b. MergedOnce <=>
        (fed.phase = "done" =>
          /\ \A m, n \in DOMAIN flat : Linked(flat[m], flat[n]) => root[m] = root[n]
          /\ \A r \in ToSet(root) : \A part \in (SUBSET group(r)) \ {{}, group(r)} :
               \E m \in part, n \in group(r) \ part : Linked(flat[m], flat[n])
          /\ \A j, k \in DOMAIN fed.hits :
               j # k => GroupOf(fed.hits[j]) \cap GroupOf(fed.hits[k]) = {})
  BY DEF MergedOnce
<1> HIDE DEF flat, root, L
<1>3. /\ root \in [1..L -> 1..L]
      /\ \A a, b \in 1..L : Linked(flat[a], flat[b]) => root[a] = root[b]
      /\ \A r \in 1..L : \A part \in (SUBSET Group(root, r)) \ {{}, Group(root, r)} :
           \E a \in part, b \in Group(root, r) \ part : Linked(flat[a], flat[b])
  BY <1>2 DEF Grouped
<1>4. \A r \in ToSet(root) : r \in 1..L
  BY <1>3 DEF ToSet
<1>5. ASSUME NEW n \in 1..L PROVE GroupOf(flat[n]) = {root[n]}
  <2>1. ASSUME NEW m \in 1..L, flat[m] = flat[n] PROVE root[m] = root[n]
    BY <1>3, <2>1 DEF Linked, SameIdentity
  <2> QED BY <1>1, <2>1
<1>6. ASSUME NEW j \in DOMAIN fed.hits, NEW k \in DOMAIN fed.hits, j # k
      PROVE  GroupOf(fed.hits[j]) \cap GroupOf(fed.hits[k]) = {}
  <2>1. PICK from \in [DOMAIN fed.hits -> DOMAIN flat] :
          \A x, y \in DOMAIN fed.hits :
            fed.hits[x] = flat[from[x]] /\ (x # y => root[from[x]] # root[from[y]])
    BY <1>a DEF Picks
  <2>2. /\ from[j] \in 1..L /\ from[k] \in 1..L /\ root[from[j]] # root[from[k]]
        /\ fed.hits[j] = flat[from[j]] /\ fed.hits[k] = flat[from[k]]
    BY <1>1, <1>6, <2>1
  <2>3. GroupOf(fed.hits[j]) = {root[from[j]]} /\ GroupOf(fed.hits[k]) = {root[from[k]]}
    BY <1>5, <2>2
  <2> HIDE DEF GroupOf
  <2> QED BY <2>2, <2>3
<1>7. \A m, n \in DOMAIN flat : Linked(flat[m], flat[n]) => root[m] = root[n]
  BY <1>1, <1>3
<1>8. \A r \in ToSet(root) : \A part \in (SUBSET group(r)) \ {{}, group(r)} :
        \E m \in part, n \in group(r) \ part : Linked(flat[m], flat[n])
  <2>1. \A r : group(r) = Group(root, r)
    BY DEF Group
  <2> HIDE DEF group
  <2> QED BY <1>3, <1>4, <2>1
<1> HIDE DEF group, GroupOf
<1> QED BY <1>6, <1>7, <1>8, <1>b

LEMMA AnswersMergeOnce ==
  ASSUME NumSelected \in Nat, \A i \in 1..NumSelected : fed.selected[i] \in Sources,
         AuthoritativeIsOrderFree
  PROVE  MergedOnce
<1> SUFFICES ASSUME fed.phase = "done" PROVE MergedOnce
  BY DEF MergedOnce
<1> DEFINE flat == Flat(FinalLists)
           fused == FuseHits(FinalLists)
           root == Roots(flat)
<1>1. /\ fed.hits = Top(fused) \/ fed.hits = Top(Rerank(fused))
      /\ \A i \in 1..NumSelected : outcomes[i] \in OutcomesOf(i)
  BY DEF AuthoritativeIsOrderFree
<1>2. /\ DOMAIN FinalLists = 1..NumSelected /\ Len(FinalLists) = NumSelected
      /\ \A i \in 1..NumSelected : IsList(FinalLists[i])
  BY <1>1, FinalListsAreLists
<1>3. IsList(flat)
  BY <1>2, FlatIsList
<1>4. Picks(fused, flat, root)
  BY <1>2, <1>3, FusePicks
<1> HIDE DEF fused
<1>5. Picks(fed.hits, flat, root)
  BY <1>1, <1>4, RerankPicks, TopPicks
<1> QED BY <1>3, <1>5, PicksMergeOnce

-----------------------------------------------------------------------------
(* The selection and the answer.                                            *)

SelectedSources == fed.selected \in Seq(Sources)

LEMMA SelectionKept ==
  FedInv /\ SelectedSources /\ [FedNext]_fedVars => SelectedSources'
<1> SUFFICES ASSUME FedInv, SelectedSources, [FedNext]_fedVars PROVE SelectedSources'
  OBVIOUS
<1>1. IsFedCall(fed) /\ fed.selected \in Seq(Sources)
  BY DEF FedInv, FedTypeOK, SelectedSources
<1>2. CASE fed'.selected = fed.selected
  BY <1>1, <1>2 DEF SelectedSources
<1>3. CASE Search
  <2>1. PICK wanted \in SUBSET Sources, filtered \in BOOLEAN, mode \in {"search", "stream"} :
          LET s == SelectSources(wanted, filtered)
          IN  fed' = [fed EXCEPT !.phase = "running", !.mode = mode,
                                 !.selected = s.selected, !.skipped = s.skipped]
    BY <1>3 DEF Search
  <2> DEFINE able == {s \in wanted : filtered => s \in Filterable}
             R == {x \in able \X able : x[1] < x[2]}
             c == Cardinality(able)
             sorted == InOrder(able, R)
  <2>2. SelectSources(wanted, filtered).selected = sorted
    BY DEF SelectSources
  <2>3. able \in SUBSET Sources /\ able \in SUBSET Int /\ IsFiniteSet(able)
    <3>1. able \in SUBSET Sources
      OBVIOUS
    <3>2. Sources \in SUBSET Int
      BY FederationAssumption DEF Sources
    <3> HIDE DEF able
    <3>3. IsFiniteSet(Sources)
      BY FS_Interval, FederationAssumption DEF Sources
    <3> QED BY <3>1, <3>2, <3>3, FS_Subset
  <2> HIDE DEF able
  <2>4. StrictOrder(able, R)
    BY <2>3 DEF StrictOrder
  <2> HIDE DEF R
  <2>5. c \in Nat /\ sorted \in [1..c -> able]
    BY <2>3, <2>4, InOrderPlaces
  <2> HIDE DEF sorted, c
  <2>6. sorted \in [1..c -> Sources]
    BY <2>3, <2>5
  <2>7. sorted \in Seq(Sources)
    BY <2>5, <2>6
  <2>8. fed'.selected = sorted
    BY <1>1, <2>1, <2>2 DEF IsFedCall
  <2> QED BY <2>7, <2>8 DEF SelectedSources
<1>4. CASE UNCHANGED fed
  BY <1>2, <1>4
<1>5. CASE BuildResponse
  <2>1. PICK h, d : fed' = [fed EXCEPT !.phase = "done", !.hits = h, !.degraded = d]
    BY <1>5 DEF BuildResponse
  <2> QED BY <1>1, <1>2, <2>1 DEF IsFedCall
<1>6. CASE DeadlinePasses
  BY <1>1, <1>2, <1>6 DEF DeadlinePasses, IsFedCall
<1>7. CASE Abandon \/ LeaveStream \/ FinalizeGenerator \/ Close
  <2>1. PICK p \in {"left", "closing", "closed"} : fed' = [fed EXCEPT !.phase = p]
    BY <1>7 DEF Abandon, LeaveStream, FinalizeGenerator, Close
  <2> QED BY <1>1, <1>2, <2>1 DEF IsFedCall
<1>8. ASSUME NEW w \in Workers, WorkerStep(w) PROVE SelectedSources'
  <2>1. \/ UNCHANGED fed
        \/ fed' = [fed EXCEPT !.next = @ + 1]
        \/ fed' = [fed EXCEPT !.lost = {worker[w].ix}]
    BY <1>8 DEF WorkerStep, StartWorker, TakeNext, Answer, Fail, Timeout, Ends,
                SourceCancels, Put, WorkerStops
  <2> QED BY <1>1, <1>2, <2>1 DEF IsFedCall
<1> QED BY <1>3, <1>4, <1>5, <1>6, <1>7, <1>8 DEF FedNext, Receive, fedVars

-----------------------------------------------------------------------------
(* The validated read cache                                                *)

USE ReadCacheAssumption DEF Versions, Nothing

\* A reader owns the flight in the table from the moment it takes it until
\* its write is over; the write of an orphan is the one exception.
Owning == {"load", "write", "complete", "cancelling", "cancelled"}
OneLeader ==
  /\ \A r, q \in leader : r = q
  /\ \A r \in Readers : reader[r].at \in Owning => r \in leader
  /\ \A r \in Readers : reader[r].at = "orphan" => r \in overtaken

\* What a call carries: a value loaded after it began, no newer than the
\* source, and an answer that is explained.
Sound(c) ==
  /\ c.at # "idle" => c.since <= source
  /\ c.at \in {"write", "complete", "cancelling", "cancelled", "orphan"} =>
       c.loaded >= c.since /\ c.loaded <= source
  /\ c.how \in {"fresh", "loaded"} => c.value >= c.since

\* A value that is about to be written is no older than the store's.
Forward(c) ==
  c.at \in {"write", "cancelling"} => overtaken # {} \/ stored.version <= c.loaded

ReadInv ==
  /\ ReadTypeOK
  /\ OneLeader
  /\ stored.version <= source
  /\ \A r \in Readers : Sound(reader[r]) /\ Forward(reader[r])

-----------------------------------------------------------------------------
LEMMA ReadInitInv == ReadInit => ReadInv
<1>1. Call \in Calls /\ NoFlight \in Flights
  BY DEF Call, Calls, NoFlight, Flights, Values
<1> QED
  BY <1>1 DEF ReadInit, ReadInv, ReadTypeOK, OneLeader, Sound, Forward, Call, Values, Owning

\* What a step of reader r may change of the flights: it may take a free
\* table, end its own flight, or leave them alone.
FlightsMove(r) ==
  /\ flight' \in [Readers -> Flights]
  /\ \/ leader' = leader
     \/ leader' = leader \ {r}
     \/ leader = {} /\ leader' = {r}

\* A step of one reader that keeps what its own call carries keeps everything.
LEMMA StepKeeps ==
  ASSUME ReadInv, NEW r \in Readers, NEW next \in Calls,
         reader' = [reader EXCEPT ![r] = next],
         source' = source, FlightsMove(r), faults' \in 0..MaxReadFaults,
         overtaken \subseteq overtaken', overtaken' \subseteq Readers,
         Sound(next),
         next.at \in Owning => r \in leader',
         next.at = "orphan" => r \in overtaken',
         \/ /\ stored' = stored
            /\ next.at \in {"write", "cancelling"} =>
                 overtaken' # {} \/ stored.version <= next.loaded
         \/ /\ stored' \in [version : Values, expired : BOOLEAN]
            /\ stored'.version <= source
            /\ overtaken # {} \/ r \in leader
            /\ next.at \notin {"write", "cancelling"}
  PROVE  ReadInv'
<1>1. ReadTypeOK'
  BY DEF ReadInv, ReadTypeOK, FlightsMove
<1>2. \A q \in Readers : reader'[q] = IF q = r THEN next ELSE reader[q]
  BY DEF ReadInv, ReadTypeOK
<1>3. OneLeader'
  BY <1>2 DEF ReadInv, OneLeader, FlightsMove, Owning
<1>4. stored'.version <= source'
  BY DEF ReadInv
<1>5. ASSUME NEW q \in Readers PROVE Sound(reader[q])' /\ Forward(reader[q])'
  <2>1. Sound(reader[q])'
    BY <1>2 DEF ReadInv, Sound
  <2>2. CASE q = r
    BY <1>2, <2>1, <2>2 DEF Forward
  <2>3. CASE q # r /\ stored' = stored
    BY <1>2, <2>1, <2>3 DEF ReadInv, Forward
  <2>4. CASE q # r /\ overtaken = {} /\ r \in leader
    BY <1>2, <2>1, <2>4 DEF ReadInv, Forward, OneLeader, Owning
  <2>5. CASE overtaken # {}
    BY <2>1, <2>5 DEF Forward
  <2> QED BY <2>2, <2>3, <2>4, <2>5
<1> QED BY <1>1, <1>3, <1>4, <1>5 DEF ReadInv

\* The end of a call: it owns nothing and carries nothing.
LEMMA AnsweredIs ==
  ASSUME NEW r \in Readers, reader[r] \in Calls, NEW value \in Values,
         NEW how \in {"fresh", "loaded", "joined", "fallback", "error", "cancelled"}
  PROVE  /\ Answered(r, value, how) \in Calls
         /\ Answered(r, value, how).at = "done"
         /\ Answered(r, value, how).since = reader[r].since
         /\ Answered(r, value, how).value = value
         /\ Answered(r, value, how).how = how
  BY DEF Answered, Calls

\* Flights end in one of two ways.
LEMMA FlightsTyped ==
  ASSUME ReadTypeOK, NEW r \in Readers,
         \/ \E value \in Values, fallback \in BOOLEAN : CompleteSuccess(r, value, fallback)
         \/ CompleteFailure(r)
         \/ UNCHANGED <<leader, flight>>
  PROVE  FlightsMove(r)
<1>1. [flight[r] EXCEPT !.state = "error"] \in Flights
  BY DEF ReadTypeOK, Flights
<1>2. ASSUME NEW value \in Values, NEW fallback \in BOOLEAN
      PROVE  [state |-> "value", value |-> value, fallback |-> fallback] \in Flights
  BY DEF Flights
<1> QED
  BY <1>1, <1>2 DEF ReadTypeOK, FlightsMove, CompleteSuccess, CompleteFailure

-----------------------------------------------------------------------------
\* The steps of a reader that only look.
LEMMA LookKeeps ==
  ASSUME ReadInv, NEW r \in Readers,
         BeginRead(r) \/ ReadEntry(r) \/ Validate(r) \/ FinishWaiter(r) \/ CancelWaiter(r)
  PROVE  ReadInv'
<1> DEFINE c == reader[r]
<1>1. c \in Calls /\ Sound(c) /\ FlightsMove(r) /\ source \in Values
  BY FlightsTyped DEF ReadInv, ReadTypeOK, BeginRead, ReadEntry, Validate, FinishWaiter,
                      CancelWaiter, Values
<1>2. /\ UNCHANGED <<source, stored, leader, overtaken>> /\ faults' \in 0..MaxReadFaults
      /\ overtaken \subseteq Readers
  BY DEF ReadInv, ReadTypeOK, BeginRead, ReadEntry, Validate, FinishWaiter, CancelWaiter, Fault
<1>3. PICK next \in Calls :
        /\ reader' = [reader EXCEPT ![r] = next]
        /\ next.at \in {"read", "validate", "join", "done"}
        /\ next.at # "idle" => next.since <= source
        /\ next.how \in {"fresh", "loaded"} => next.value >= next.since
  <2>1. CASE BeginRead(r)
    <3> DEFINE next == [Call EXCEPT !.at = "read", !.since = source]
    <3>1. next \in Calls /\ next.at = "read" /\ next.since = source /\ next.how = "none"
      BY <1>1 DEF Call, Calls, Values
    <3>2. source <= source
      BY DEF ReadInv, ReadTypeOK
    <3> QED BY <2>1, <3>1, <3>2 DEF BeginRead, Goes
  <2>2. CASE ReadEntry(r)
    <3>1. c.at = "read" /\ stored.version \in Values
      BY <2>2 DEF ReadEntry, At, ReadInv, ReadTypeOK
    <3>2. ASSUME NEW next, \/ next = [c EXCEPT !.at = "join"]
                           \/ next = [c EXCEPT !.at = "join", !.stale = stored.version]
                           \/ next = [c EXCEPT !.at = "validate", !.entry = stored.version]
          PROVE  /\ next \in Calls /\ next.at \in {"join", "validate"} /\ next.since = c.since
                 /\ next.how = c.how /\ next.value = c.value
      BY <1>1, <3>1, <3>2 DEF Calls
    <3>3. PICK next : /\ reader' = [reader EXCEPT ![r] = next]
                      /\ \/ next = [c EXCEPT !.at = "join"]
                         \/ next = [c EXCEPT !.at = "join", !.stale = stored.version]
                         \/ next = [c EXCEPT !.at = "validate", !.entry = stored.version]
      BY <2>2 DEF ReadEntry, Goes
    <3>4. /\ next \in Calls /\ next.at \in {"join", "validate"} /\ next.since = c.since
          /\ next.how = c.how /\ next.value = c.value
      BY <3>2, <3>3
    <3> QED BY <1>1, <3>1, <3>3, <3>4 DEF Sound
  <2>3. CASE Validate(r)
    <3>1. c.at = "validate" /\ c.entry \in Values /\ c.since <= source
      BY <1>1, <2>3 DEF Validate, At, Sound, Calls
    <3>2. ASSUME NEW next, next = [c EXCEPT !.at = "join", !.stale = c.entry]
          PROVE  /\ next \in Calls /\ next.at = "join" /\ next.since = c.since
                 /\ next.how = c.how /\ next.value = c.value
      BY <1>1, <3>1, <3>2 DEF Calls
    <3>3. CASE reader' = [reader EXCEPT ![r] = [c EXCEPT !.at = "join", !.stale = c.entry]]
      BY <1>1, <3>1, <3>2, <3>3 DEF Sound
    <3>4. CASE /\ c.entry = source
               /\ reader' = [reader EXCEPT ![r] = Answered(r, c.entry, "fresh")]
      <4> DEFINE next == Answered(r, c.entry, "fresh")
      <4>1. next \in Calls /\ next.at = "done" /\ next.since = c.since /\ next.value = c.entry
        BY <1>1, <3>1, AnsweredIs
      <4>2. c.since \in Values
        BY <1>1 DEF Calls
      <4>3. next.value >= next.since
        BY <3>1, <3>4, <4>1, <4>2 DEF Values
      <4>4. reader' = [reader EXCEPT ![r] = next] /\ next.since <= source
        BY <3>1, <3>4, <4>1
      <4> HIDE DEF next
      <4> QED BY <4>1, <4>3, <4>4
    <3> QED BY <2>3, <3>3, <3>4 DEF Validate, Goes, TokenValid
  <2>4. CASE FinishWaiter(r)
    <3>1. PICK owner \in c.joined, how \in {"error", "fallback", "joined"} :
            reader' = [reader EXCEPT ![r] = Answered(r, flight[owner].value, how)]
      BY <2>4 DEF FinishWaiter, Goes
    <3>2. flight[owner].value \in Values /\ c.at # "idle"
      BY <1>1, <2>4, <3>1 DEF ReadInv, ReadTypeOK, Calls, Flights, FinishWaiter, At
    <3> DEFINE next == Answered(r, flight[owner].value, how)
    <3>3. next \in Calls /\ next.at = "done" /\ next.since = c.since /\ next.how = how
      BY <1>1, <3>2, AnsweredIs
    <3>4. next.since <= source
      BY <1>1, <3>2, <3>3 DEF Sound
    <3> HIDE DEF next
    <3> QED BY <3>1, <3>3, <3>4 DEF next
  <2>5. CASE CancelWaiter(r)
    <3> DEFINE next == Answered(r, Nothing, "cancelled")
    <3>1. reader' = [reader EXCEPT ![r] = next] /\ c.at # "idle"
      BY <2>5 DEF CancelWaiter, Goes, At
    <3>2. Nothing \in Values
      BY DEF Values
    <3>3. next \in Calls /\ next.at = "done" /\ next.since = c.since /\ next.how = "cancelled"
      BY <1>1, <3>2, AnsweredIs
    <3>4. next.since <= source
      BY <1>1, <3>1, <3>3 DEF Sound
    <3> HIDE DEF next
    <3> QED BY <3>1, <3>3, <3>4
  <2> QED BY <2>1, <2>2, <2>3, <2>4, <2>5
<1>4. Sound(next)
  BY <1>3 DEF Sound
<1> QED BY <1>1, <1>2, <1>3, <1>4, StepKeeps DEF Owning

\* Taking the flight, loading and completing it.
LEMMA LeadKeeps ==
  ASSUME ReadInv, NEW r \in Readers,
         StartOrJoin(r) \/ Load(r) \/ HandleLoadFailure(r) \/ Complete(r)
  PROVE  ReadInv'
<1> DEFINE c == reader[r]
<1>1. c \in Calls /\ Sound(c) /\ Forward(c) /\ source \in Values /\ c.stale \in Values
      /\ c.loaded \in Values /\ c.since \in Values /\ stored.version <= source
      /\ leader \subseteq Readers /\ source \in Nat
  BY DEF ReadInv, ReadTypeOK, Calls, Values
<1>2. /\ UNCHANGED <<source, stored, overtaken>> /\ faults' \in 0..MaxReadFaults
      /\ overtaken \subseteq Readers
  <2>1. UNCHANGED <<source, stored, overtaken>> /\ (UNCHANGED faults \/ Fault)
    BY DEF StartOrJoin, Load, HandleLoadFailure, Complete
  <2>2. faults \in 0..MaxReadFaults /\ overtaken \subseteq Readers
    BY DEF ReadInv, ReadTypeOK
  <2> QED BY <2>1, <2>2 DEF Fault
<1>3. CASE StartOrJoin(r)
  <2>1. CASE leader = {}
    <3> DEFINE next == [c EXCEPT !.at = "load"]
    <3>1. next \in Calls /\ next.at = "load" /\ next.since = c.since
          /\ next.how = c.how /\ next.value = c.value
      BY <1>1 DEF Calls
    <3>2. c.at = "join" /\ leader' = {r} /\ reader' = [reader EXCEPT ![r] = next]
          /\ flight' = [flight EXCEPT ![r].state = "open"]
      BY <1>3, <2>1 DEF StartOrJoin, At, Goes
    <3>3. [flight[r] EXCEPT !.state = "open"] \in Flights
      BY DEF ReadInv, ReadTypeOK, Flights
    <3>4. FlightsMove(r)
      BY <2>1, <3>2, <3>3 DEF FlightsMove, ReadInv, ReadTypeOK
    <3>5. Sound(next)
      BY <1>1, <3>1, <3>2 DEF Sound
    <3> QED BY <1>2, <3>1, <3>2, <3>4, <3>5, StepKeeps DEF Owning
  <2>2. CASE leader # {}
    <3> DEFINE next == [c EXCEPT !.at = "wait", !.joined = leader]
    <3>1. next \in Calls /\ next.at = "wait" /\ next.since = c.since
          /\ next.how = c.how /\ next.value = c.value
      BY <1>1 DEF Calls
    <3>2. c.at = "join" /\ reader' = [reader EXCEPT ![r] = next]
          /\ UNCHANGED <<leader, flight>>
      BY <1>3, <2>2 DEF StartOrJoin, At, Goes
    <3>3. FlightsMove(r)
      BY <3>2, FlightsTyped DEF ReadInv
    <3>4. Sound(next)
      BY <1>1, <3>1, <3>2 DEF Sound
    <3> QED BY <1>2, <3>1, <3>2, <3>3, <3>4, StepKeeps DEF Owning
  <2> QED BY <2>1, <2>2
<1>4. CASE Load(r)
  <2> DEFINE next == [c EXCEPT !.at = "write", !.loaded = source]
  <2>1. next \in Calls /\ next.at = "write" /\ next.since = c.since /\ next.loaded = source
        /\ next.how = c.how /\ next.value = c.value
    BY <1>1 DEF Calls
  <2>2. c.at = "load" /\ reader' = [reader EXCEPT ![r] = next] /\ UNCHANGED <<leader, flight>>
    BY <1>4 DEF Load, At, Goes
  <2>3. FlightsMove(r)
    BY <2>2, FlightsTyped DEF ReadInv
  <2>4. r \in leader
    BY <2>2 DEF ReadInv, OneLeader, Owning
  <2>5. Sound(next)
    BY <1>1, <2>1, <2>2 DEF Sound, Values
  <2>6. stored.version <= next.loaded
    BY <1>1, <2>1
  <2> QED BY <1>2, <2>1, <2>2, <2>3, <2>4, <2>5, <2>6, StepKeeps DEF Owning
<1>5. CASE HandleLoadFailure(r)
  <2>1. PICK value \in Values, how \in {"fallback", "error"} :
          reader' = [reader EXCEPT ![r] = Answered(r, value, how)]
    <3>1. Nothing \in Values
      BY DEF Values
    <3> QED BY <1>1, <1>5, <3>1 DEF HandleLoadFailure, Goes
  <2>2. FlightsMove(r) /\ c.at # "idle"
    <3>1. (\E v \in Values, fallback \in BOOLEAN : CompleteSuccess(r, v, fallback))
          \/ CompleteFailure(r)
      BY <1>1, <1>5 DEF HandleLoadFailure
    <3> QED BY <1>5, <3>1, FlightsTyped DEF ReadInv, HandleLoadFailure, At
  <2> DEFINE next == Answered(r, value, how)
  <2>3. next \in Calls /\ next.at = "done" /\ next.since = c.since /\ next.how = how
    BY <1>1, AnsweredIs
  <2>4. Sound(next)
    BY <1>1, <2>2, <2>3 DEF Sound
  <2> HIDE DEF next
  <2> QED BY <1>2, <2>1, <2>2, <2>3, <2>4, StepKeeps DEF Owning, next
<1>6. CASE Complete(r)
  <2> DEFINE next == Answered(r, c.loaded, "loaded")
  <2>1. c.at = "complete" /\ reader' = [reader EXCEPT ![r] = next]
        /\ CompleteSuccess(r, c.loaded, FALSE)
    BY <1>6 DEF Complete, At, Goes
  <2>2. FlightsMove(r)
    BY <1>1, <2>1, FlightsTyped DEF ReadInv
  <2>3. next \in Calls /\ next.at = "done" /\ next.since = c.since /\ next.value = c.loaded
    BY <1>1, AnsweredIs
  <2>4. Sound(next)
    BY <1>1, <2>1, <2>3 DEF Sound
  <2> HIDE DEF next
  <2> QED BY <1>2, <2>1, <2>2, <2>3, <2>4, StepKeeps DEF Owning
<1> QED BY <1>3, <1>4, <1>5, <1>6

\* Writing back, and what cancellation makes of it.
LEMMA WriteKeeps ==
  ASSUME ReadInv, NEW r \in Readers,
         WriteEntry(r) \/ OrphanWrite(r) \/ CancelLeader(r) \/ FinishCancelled(r)
         \/ CancelAgain(r)
  PROVE  ReadInv'
<1> DEFINE c == reader[r]
<1>1. c \in Calls /\ Sound(c) /\ Forward(c) /\ c.loaded \in Values /\ overtaken \subseteq Readers
      /\ Nothing \in Values /\ faults \in 0..MaxReadFaults
  BY DEF ReadInv, ReadTypeOK, Calls, Values
<1>2. [version |-> c.loaded, expired |-> FALSE] \in [version : Values, expired : BOOLEAN]
  BY <1>1
<1>3. CASE WriteEntry(r)
  <2> DEFINE next == [c EXCEPT !.at = IF c.at = "write" THEN "complete" ELSE "cancelled"]
  <2>1. /\ next \in Calls /\ next.at \in {"complete", "cancelled"}
        /\ next.since = c.since /\ next.loaded = c.loaded
        /\ next.how = c.how /\ next.value = c.value
    BY <1>1 DEF Calls
  <2>2. /\ c.at \in {"write", "cancelling"} /\ reader' = [reader EXCEPT ![r] = next]
        /\ UNCHANGED <<source, leader, flight, overtaken>> /\ faults' \in 0..MaxReadFaults
        /\ stored' = stored \/ stored' = [version |-> c.loaded, expired |-> FALSE]
    BY <1>1, <1>3 DEF WriteEntry, At, Goes, Fault
  <2>3. FlightsMove(r) /\ r \in leader
    BY <2>2, FlightsTyped DEF ReadInv, OneLeader, Owning
  <2>4. Sound(next) /\ c.loaded <= source
    BY <1>1, <2>1, <2>2 DEF Sound
  <2>5. CASE stored' = stored
    <3> HIDE DEF next
    <3> QED BY <1>1, <2>1, <2>2, <2>3, <2>4, <2>5, StepKeeps DEF Owning
  <2>6. CASE stored' = [version |-> c.loaded, expired |-> FALSE]
    <3>1. stored' \in [version : Values, expired : BOOLEAN] /\ stored'.version = c.loaded
      BY <1>2, <2>6
    <3> HIDE DEF next
    <3> QED BY <1>1, <2>1, <2>2, <2>3, <2>4, <3>1, StepKeeps DEF Owning
  <2> QED BY <2>2, <2>5, <2>6
<1> DEFINE end == Answered(r, Nothing, "cancelled")
<1>4. end \in Calls /\ end.at = "done" /\ end.since = c.since /\ end.how = "cancelled"
  BY <1>1, AnsweredIs
<1>5. c.at # "idle" => Sound(end)
  BY <1>1, <1>4 DEF Sound
<1> HIDE DEF end
<1>6. CASE OrphanWrite(r)
  <2>1. /\ c.at = "orphan" /\ reader' = [reader EXCEPT ![r] = end]
        /\ UNCHANGED <<source, leader, flight, overtaken, faults>>
        /\ stored' = [version |-> c.loaded, expired |-> FALSE]
    BY <1>6 DEF OrphanWrite, At, Goes, end
  <2>2. FlightsMove(r) /\ overtaken # {}
    BY <2>1, FlightsTyped DEF ReadInv, OneLeader
  <2>3. c.loaded <= source
    BY <1>1, <2>1 DEF Sound
  <2> QED BY <1>1, <1>2, <1>4, <1>5, <2>1, <2>2, <2>3, StepKeeps DEF Owning
<1>7. ASSUME CancelLeader(r) \/ FinishCancelled(r), CompleteFailure(r),
             reader' = [reader EXCEPT ![r] = end]
      PROVE  ReadInv'
  <2>1. c.at # "idle" /\ UNCHANGED <<source, stored, overtaken, faults>>
    BY <1>7 DEF CancelLeader, FinishCancelled, At
  <2>2. FlightsMove(r)
    BY <1>7, FlightsTyped DEF ReadInv
  <2> QED BY <1>1, <1>4, <1>5, <1>7, <2>1, <2>2, StepKeeps DEF Owning
<1>8. ASSUME CancelLeader(r), c.at = "write",
             reader' = [reader EXCEPT ![r] = [c EXCEPT !.at = "cancelling"]],
             UNCHANGED <<leader, flight>>
      PROVE  ReadInv'
  <2> DEFINE next == [c EXCEPT !.at = "cancelling"]
  <2>1. /\ next \in Calls /\ next.at = "cancelling" /\ next.since = c.since
        /\ next.loaded = c.loaded /\ next.how = c.how /\ next.value = c.value
    BY <1>1 DEF Calls
  <2>2. FlightsMove(r) /\ UNCHANGED <<source, stored, overtaken, faults>> /\ r \in leader
    BY <1>8, FlightsTyped DEF ReadInv, CancelLeader, OneLeader, Owning
  <2>3. Sound(next) /\ (overtaken # {} \/ stored.version <= next.loaded)
    BY <1>1, <1>8, <2>1 DEF Sound, Forward
  <2> HIDE DEF next
  <2> QED BY <1>1, <1>8, <2>1, <2>2, <2>3, StepKeeps DEF Owning, next
<1>9. CASE CancelAgain(r)
  <2> DEFINE next == [c EXCEPT !.at = "orphan"]
  <2>1. /\ next \in Calls /\ next.at = "orphan" /\ next.since = c.since
        /\ next.loaded = c.loaded /\ next.how = c.how /\ next.value = c.value
    BY <1>1 DEF Calls
  <2>2. /\ c.at = "cancelling" /\ reader' = [reader EXCEPT ![r] = next]
        /\ CompleteFailure(r) /\ overtaken' = overtaken \cup {r}
        /\ UNCHANGED <<source, stored, faults>>
    BY <1>9 DEF CancelAgain, At, Goes
  <2>3. FlightsMove(r)
    BY <2>2, FlightsTyped DEF ReadInv
  <2>4. Sound(next)
    BY <1>1, <2>1, <2>2 DEF Sound
  <2> HIDE DEF next
  <2> QED BY <1>1, <2>1, <2>2, <2>3, <2>4, StepKeeps DEF Owning
<1> QED BY <1>3, <1>6, <1>7, <1>8, <1>9 DEF CancelLeader, FinishCancelled, At, Goes, end

LEMMA ReadNextInv == ReadInv /\ [ReadNext]_readVars => ReadInv'
<1> SUFFICES ASSUME ReadInv, [ReadNext]_readVars PROVE ReadInv'
  OBVIOUS
<1>1. CASE Expire
  <2>1. /\ stored' \in [version : Values, expired : BOOLEAN]
        /\ stored'.version = stored.version
    BY <1>1 DEF Expire, ReadInv, ReadTypeOK
  <2> QED BY <1>1, <2>1 DEF Expire, ReadInv, ReadTypeOK, OneLeader, Sound, Forward
<1>2. CASE SourceChanges
  <2>1. source' = source + 1 /\ source \in Nat /\ source' \in Versions
    BY <1>2 DEF SourceChanges, ReadInv, ReadTypeOK
  <2>2. \A r \in Readers : reader[r].since \in Nat /\ reader[r].loaded \in Nat
    BY DEF ReadInv, ReadTypeOK, Calls, Values
  <2>3. stored.version \in Nat
    BY DEF ReadInv, ReadTypeOK, Values
  <2> QED BY <1>2, <2>1, <2>2, <2>3
      DEF SourceChanges, ReadInv, ReadTypeOK, OneLeader, Sound, Forward
<1>3. CASE UNCHANGED readVars
  BY <1>3 DEF readVars, ReadInv, ReadTypeOK, OneLeader, Sound, Forward
<1> QED BY <1>1, <1>2, <1>3, LookKeeps, LeadKeeps, WriteKeeps DEF ReadNext, ReaderStep

\* Only three actions touch the store, and each writes what is not older.
LEMMA StepMovesForward ==
  ReadInv /\ [ReadNext]_readVars => stored'.version >= stored.version \/ overtaken # {}
<1> SUFFICES ASSUME ReadInv, [ReadNext]_readVars, overtaken = {}
             PROVE  stored'.version >= stored.version
  OBVIOUS
<1>0. stored.version \in Nat
  BY DEF ReadInv, ReadTypeOK, Values
<1>1. CASE UNCHANGED stored
  BY <1>0, <1>1
<1>2. CASE Expire
  BY <1>0, <1>2 DEF Expire, ReadInv, ReadTypeOK
<1>3. ASSUME NEW r \in Readers, WriteEntry(r)
      PROVE  stored'.version >= stored.version
  <2>1. reader[r].loaded \in Nat /\ reader[r].loaded >= stored.version
    BY <1>3, <1>0 DEF WriteEntry, At, Forward, ReadInv, ReadTypeOK, Calls, Values
  <2> QED BY <1>3, <1>0, <2>1 DEF WriteEntry
<1>4. ASSUME NEW r \in Readers, OrphanWrite(r)
      PROVE  FALSE
  BY <1>4 DEF OrphanWrite, At, OneLeader, ReadInv
<1>5. UNCHANGED stored \/ Expire \/ \E r \in Readers : WriteEntry(r) \/ OrphanWrite(r)
  BY DEF ReadNext, readVars, ReaderStep, SourceChanges, BeginRead, ReadEntry, Validate,
         StartOrJoin, Load, Complete, FinishCancelled, FinishWaiter, HandleLoadFailure,
         CancelLeader, CancelAgain, CancelWaiter
<1> QED BY <1>1, <1>2, <1>3, <1>4, <1>5

-----------------------------------------------------------------------------
(* What holds of the services                                              *)

(* The record, the workers, the queue and the outcomes of a federated search *)
(* keep their types, and a source it asked is always in one place: with one  *)
(* worker, in the queue or with the consumer, its outcome with it            *)
(* (_run_sources).                                                           *)
THEOREM FederationSound == FedSpec => []FedInv
<1> QED BY FedInitInv, FedNextInv, PTL DEF FedSpec

(* For any number of sources, workers and orders of their answers: the one   *)
(* list a search or stream ends with is fused from the outcomes of all       *)
(* selected sources, in selection order, and says so when one is missing.    *)
THEOREM AnswersStayOrderFree == FedSpec => []AuthoritativeIsOrderFree
<1>1. FedInit => AuthoritativeIsOrderFree
  BY DEF FedInit, AuthoritativeIsOrderFree
<1> QED BY <1>1, FederationSound, OrderFreeKept, PTL DEF FedSpec

(* For any sources, answers, scores and orders of arrival: what a federated  *)
(* call shows is one hit of each of some groups of hits, and two hits are in *)
(* one group exactly when a chain of shared identities or uris joins them    *)
(* (_fuse_hits and its union-find, then the reranker and the limit).         *)
THEOREM FusionShowsEachOnce == FedSpec => []MergedOnce
<1>1. FedInit => SelectedSources
  BY EmptySeq DEF FedInit, SelectedSources
<1>2. FedSpec => []SelectedSources
  BY <1>1, FederationSound, SelectionKept, PTL DEF FedSpec
<1>3. ASSUME SelectedSources, AuthoritativeIsOrderFree PROVE MergedOnce
  <2>1. NumSelected \in Nat /\ \A i \in 1..NumSelected : fed.selected[i] \in Sources
    BY <1>3, LenProperties DEF SelectedSources, NumSelected
  <2> QED BY <1>3, <2>1, AnswersMergeOnce
<1>4. SelectedSources /\ AuthoritativeIsOrderFree => MergedOnce
  BY <1>3
<1> QED BY <1>2, <1>4, AnswersStayOrderFree, PTL

(* No search of a source outlives its federated call, no task of a strict    *)
(* fan-out the fan-out, however they end.                                    *)
THEOREM NoTaskEverOutlivesCall == FedSpec /\ FanSpec => []NoTaskOutlivesCall
<1>1. FanSpec => []FanInv
  BY FanInitInv, FanNextInv, PTL DEF FanSpec
<1>2. FedInv /\ FanInv => NoTaskOutlivesCall
  BY DEF FedInv, FanInv, NoTaskOutlivesCall
<1> QED BY <1>1, <1>2, FederationSound, PTL

(* The types and the invariant of the validated read cache.                *)
THEOREM ReadSoundAlways == ReadSpec => []ReadInv
<1> QED BY ReadInitInv, ReadNextInv, PTL DEF ReadSpec

(* Write-backs never replace a newer value by an older one, unless a caller *)
(* was cancelled twice (ValidatedReadThroughCache.async_get_or_load).      *)
THEOREM StoreAlwaysMovesForward == ReadSpec => StoreMovesForward
<1> QED BY ReadSoundAlways, StepMovesForward, PTL DEF ReadSpec, StoreMovesForward

(* The types of the query embedding cache, and what calls carry: while no    *)
(* call has overlapped an invalidation, an embedding is of today's model.    *)
THEOREM QuerySoundAlways == QuerySpec => []QueryInv
<1> QED BY QueryInitInv, QueryNextInv, PTL DEF QuerySpec

(* For any readers, callers, versions, epochs and faults: what a reader had  *)
(* validated or loaded itself the source had during its call (get_or_load),  *)
(* and invalidate_epoch leaves no older embedding in a cache.                *)
THEOREM CachedAnswersStayExplained == ReadSpec /\ QuerySpec => []CachedAnswersExplained
<1>1. ReadInv => StalenessExplained
  BY DEF ReadInv, Sound, StalenessExplained
<1>2. QueryInv => OldEmbeddingsGone
  BY DEF QueryInv, OldEmbeddingsGone, Now
<1>3. ReadInv /\ QueryInv => CachedAnswersExplained
  BY <1>1, <1>2 DEF CachedAnswersExplained
<1> QED BY <1>3, ReadSoundAlways, QuerySoundAlways, PTL

-----------------------------------------------------------------------------
(* Searches over HTTP                                                      *)

Phases == {"idle", "send", "remote", "response", "parse", "done"}
Outcomes == {"none", "invalid request", "too large", "timeout", "transport error", "closed",
             "unauthorized", "http error", "schema error", "response"}

\* What a request or a response holds on its way, phase by phase.
Exchanged ==
  /\ http \in [phase : Phases, outcome : Outcomes, open : BOOLEAN]
  /\ http.phase \in {"idle", "send", "remote", "response", "parse"} => http.outcome = "none"
  /\ http.phase \in {"send", "remote"} => sent \in Fields(RequestModels) /\ Constructs(sent)
  /\ http.phase \in {"response", "parse"} =>
       \/ mangled = "server error"
       \/ mangled = "missing field" /\ answered.field \in Absences
       \/ /\ mangled # "missing field"
          /\ answered.field \in Fields(ResponseModels) /\ Constructs(answered.field)
  /\ http.phase = "parse" => mangled # "server error"

WireInv == Exchanged /\ WireFaithful

\* What a request's constructors accept, its parsers accept.
LEMMA RequestsParse ==
  ASSUME NEW f \in Fields(RequestModels), Constructs(f)
  PROVE  Parses(f)
<1>1. PICK m \in RequestModels : \E k \in Keys[m], v \in Kinds : f = [model |-> m, field |-> k, value |-> v]
  BY DEF Fields
<1>2. f.model = m /\ f.field \in Keys[m]
  BY <1>1
<1>3. CASE m = "request"
  <2>1. f.field \in RequestKeys
    BY <1>2, <1>3 DEF Keys
  <2>2. f.value \in RequestBuilt[f.field]
    BY <1>2, <1>3 DEF Constructs, Built
  <2>3. /\ f.field \in DOMAIN RequestParsed
        /\ f.value \in RequestParsed[f.field]
    <3>1. DOMAIN RequestParsed = RequestKeys
      BY DEF RequestKeys, RequestParsed, RequestBuilt
    <3>2. \A k \in RequestKeys \ {"query", "contract_version"} :
            RequestParsed[k] = RequestBuilt[k]
      BY DEF RequestKeys, RequestParsed, RequestBuilt
    <3>3. /\ RequestParsed["query"] = String
          /\ RequestParsed["contract_version"] = String \cup {"v1", "v2"}
      BY DEF RequestParsed, RequestBuilt
    <3>4. /\ RequestBuilt["query"] = String \ {"long"}
          /\ RequestBuilt["contract_version"] = {"v1"}
      BY DEF RequestBuilt, Version
    <3> QED BY <2>1, <2>2, <3>1, <3>2, <3>3, <3>4
  <2> QED BY <1>2, <1>3, <2>3 DEF Parses, Parsed
<1>4. CASE m = "caller"
  <2>1. f.field \in CallerKeys
    BY <1>2, <1>4 DEF Keys
  <2>2. f.value \in CallerBuilt[f.field]
    BY <1>2, <1>4 DEF Constructs, Built
  <2>3. /\ f.field \in DOMAIN CallerParsed
        /\ f.value \in CallerParsed[f.field]
    BY <2>1, <2>2 DEF CallerKeys, CallerParsed, CallerBuilt
  <2> QED BY <1>2, <1>4, <2>3 DEF Parses, Parsed
<1> QED BY <1>3, <1>4 DEF RequestModels

\* What a response's constructors accept, its parsers accept, but for parts of
\* an identity and a rerank_text without text.
LEMMA ResponsesParse ==
  ASSUME NEW f \in Fields(ResponseModels), Constructs(f)
  PROVE  Parses(f) \/ LaxerThanTheWire(f)
<1>1. PICK m \in ResponseModels : \E k \in Keys[m], v \in Kinds : f = [model |-> m, field |-> k, value |-> v]
  BY DEF Fields
<1>2. f.model = m /\ f.field \in Keys[m]
  BY <1>1
<1>3. CASE m = "response"
  <2>1. f.field \in ResponseKeys
    BY <1>2, <1>3 DEF Keys
  <2>2. f.value \in ResponseBuilt[f.field]
    BY <1>2, <1>3 DEF Constructs, Built
  <2>3. /\ f.field \in DOMAIN ResponseParsed
        /\ f.value \in ResponseParsed[f.field]
    BY <2>1, <2>2 DEF ResponseKeys, ResponseParsed, ResponseBuilt, Version
  <2> QED BY <1>2, <1>3, <2>3 DEF Parses, Parsed
<1>4. CASE m = "source"
  <2>1. f.field \in SourceKeys /\ f.value \in SourceBuilt[f.field]
    BY <1>2, <1>4 DEF Keys, Constructs, Built
  <2>2. f.field \in DOMAIN SourceParsed
    BY <2>1 DEF SourceKeys, SourceParsed, SourceBuilt
  <2> QED BY <1>2, <1>4, <2>1, <2>2 DEF Parses, Parsed, SourceParsed
<1>5. CASE m = "provenance"
  <2>1. f.field \in ProvenanceKeys /\ f.value \in ProvenanceBuilt[f.field]
    BY <1>2, <1>5 DEF Keys, Constructs, Built
  <2>2. f.field \in DOMAIN ProvenanceParsed
    BY <2>1 DEF ProvenanceKeys, ProvenanceParsed, ProvenanceBuilt
  <2> QED BY <1>2, <1>5, <2>1, <2>2 DEF Parses, Parsed, ProvenanceParsed
<1>6. CASE m = "diagnostics"
  <2>1. f.field \in DiagnosticsKeys /\ f.value \in DiagnosticsBuilt[f.field]
    BY <1>2, <1>6 DEF Keys, Constructs, Built
  <2>2. f.field \in DOMAIN DiagnosticsParsed
    BY <2>1 DEF DiagnosticsKeys, DiagnosticsParsed, DiagnosticsBuilt
  <2> QED BY <1>2, <1>6, <2>1, <2>2 DEF Parses, Parsed, DiagnosticsParsed
<1>7. CASE m = "capabilities"
  <2>1. f.field \in CapabilitiesKeys /\ f.value \in CapabilitiesBuilt[f.field]
    BY <1>2, <1>7 DEF Keys, Constructs, Built
  <2>2. f.field \in DOMAIN CapabilitiesParsed
    BY <2>1 DEF CapabilitiesKeys, CapabilitiesParsed, CapabilitiesBuilt
  <2> QED BY <1>2, <1>7, <2>1, <2>2 DEF Parses, Parsed, CapabilitiesParsed
<1>8. CASE m = "hit"
  <2>1. f.field \in HitKeys /\ f.value \in HitBuilt[f.field]
    BY <1>2, <1>8 DEF Keys, Constructs, Built
  <2>2. f.field \in DOMAIN HitBuilt /\ DOMAIN HitParsed = DOMAIN HitBuilt
    BY <2>1 DEF HitKeys, SourceKeys, HitParsed, HitBuilt
  <2>3. CASE f.field \in {"source_kind", "source_id", "workspace_id"}
    <3>1. f.value \in Optional(IdentityPart) /\ (f.field # "workspace_id" => f.value \in IdentityPart)
      BY <2>1, <2>3 DEF HitBuilt, Optional
    <3>2. f.value = "blank" \/ f.value \in HitParsed[f.field]
      BY <2>3, <3>1 DEF HitParsed, HitBuilt, IdentityPart, Optional
    <3> QED BY <1>2, <1>8, <2>2, <2>3, <3>2 DEF Parses, Parsed, LaxerThanTheWire, SourceKeys
  <2>4. CASE f.field = "rerank_text"
    <3>1. f.value \in Optional(StringOrEmpty)
      BY <2>1, <2>4 DEF HitBuilt, Optional
    <3>2. f.value \in {"blank", "empty"} \/ f.value \in HitParsed[f.field]
      BY <2>4, <3>1 DEF HitParsed, HitBuilt, StringOrEmpty, Optional
    <3> QED BY <1>2, <1>8, <2>2, <2>4, <3>2 DEF Parses, Parsed, LaxerThanTheWire
  <2>5. CASE f.field \notin {"source_kind", "source_id", "workspace_id", "rerank_text"}
    <3>1. f.value \in HitParsed[f.field]
      <4>1. \A k \in HitKeys \ {"source_kind", "source_id", "workspace_id", "rerank_text", "snippet"} :
              HitParsed[k] = HitBuilt[k]
        BY DEF HitKeys, SourceKeys, HitParsed, HitBuilt
      <4>2. /\ HitParsed["snippet"] = StringOrEmpty
            /\ HitBuilt["snippet"] = StringOrEmpty \ {"long"}
        BY DEF HitParsed, HitBuilt
      <4> QED BY <2>1, <2>5, <4>1, <4>2
    <3> QED BY <1>2, <1>8, <2>2, <3>1 DEF Parses, Parsed
  <2> QED BY <2>3, <2>4, <2>5
<1> QED BY <1>3, <1>4, <1>5, <1>6, <1>7, <1>8 DEF ResponseModels

\* What the parsers do not insist on is read by default.
LEMMA DefaultsRead ==
  ASSUME NEW f \in Absences, f.field \notin Required[f.model]
  PROVE  ReadByDefault(f)
<1>1. PICK m \in ResponseModels : \E k \in Keys[m] : f = [model |-> m, field |-> k, value |-> "absent"]
  BY DEF Absences
<1>2. f.model = m /\ f.field \in Keys[m]
  BY <1>1
<1>3. CASE m \in {"response", "source", "hit"}
  BY <1>2, <1>3 DEF Required, Identification, ReadByDefault, Keys, ResponseKeys, SourceKeys, HitKeys
<1>4. CASE m \in {"provenance", "diagnostics", "capabilities"}
  BY <1>2, <1>4 DEF Required, ReadByDefault, Keys, ProvenanceKeys, DiagnosticsKeys, CapabilitiesKeys
<1> QED BY <1>3, <1>4 DEF ResponseModels

LEMMA NextWireInv == WireInv /\ [HttpNext]_httpVars => WireInv'
<1> SUFFICES ASSUME WireInv, [HttpNext]_httpVars PROVE WireInv'
  OBVIOUS
<1>1. ASSUME UNCHANGED httpVars PROVE WireInv'
  BY <1>1 DEF WireInv, Exchanged, WireFaithful, httpVars
<1> USE DEF Outcomes
<1>2. http \in [phase : Phases, outcome : Outcomes, open : BOOLEAN]
  BY DEF WireInv, Exchanged
<1>3. ASSUME NEW outcome \in Outcomes, Finishes(outcome)
      PROVE  /\ http'.phase = "done" /\ http'.outcome = outcome
             /\ http' \in [phase : Phases, outcome : Outcomes, open : BOOLEAN]
  BY <1>2, <1>3 DEF Finishes, Phases
<1>4. ASSUME NEW phase \in {"send", "remote", "response", "parse"}, Proceeds(phase)
      PROVE  /\ http'.phase = phase /\ http'.outcome = http.outcome
             /\ http' \in [phase : Phases, outcome : Outcomes, open : BOOLEAN]
  BY <1>2, <1>4 DEF Proceeds, Phases
<1>5. ASSUME CloseSource PROVE WireInv'
  <2>1. /\ http'.phase = http.phase /\ http'.outcome = http.outcome
        /\ http' \in [phase : Phases, outcome : Outcomes, open : BOOLEAN]
        /\ UNCHANGED <<sent, answered, mangled>>
    BY <1>2, <1>5 DEF CloseSource
  <2> QED BY <2>1 DEF WireInv, Exchanged, WireFaithful
<1>6. ASSUME BuildRequest PROVE WireInv'
  <2>1. PICK f \in Fields(RequestModels) :
          sent' = f /\ IF Constructs(f) THEN Proceeds("send") ELSE Finishes("invalid request")
    BY <1>6 DEF BuildRequest
  <2>2. http.outcome = "none"
    BY <1>6 DEF BuildRequest, WireInv, Exchanged
  <2>3. CASE Constructs(f)
    BY <1>4, <2>1, <2>2, <2>3 DEF WireInv, Exchanged, WireFaithful
  <2>4. CASE ~Constructs(f)
    <3>1. http'.phase = "done" /\ http'.outcome = "invalid request"
      BY <1>3, <2>1, <2>4
    <3> QED BY <1>3, <2>1, <2>4, <3>1 DEF WireInv, Exchanged, WireFaithful
  <2> QED BY <2>3, <2>4
<1>7. ASSUME SendRequest PROVE WireInv'
  <2>1. /\ http.phase = "send" /\ http.outcome = "none"
        /\ sent \in Fields(RequestModels) /\ Constructs(sent) /\ Parses(sent)
        /\ UNCHANGED <<sent, answered, mangled>>
    BY <1>7, RequestsParse DEF SendRequest, WireInv, Exchanged
  <2>2. CASE Proceeds("remote")
    <3>1. http'.phase = "remote" /\ http'.outcome = "none"
      BY <1>4, <2>1, <2>2
    <3>2. Constructs(sent)' /\ Parses(sent)'
      BY <2>1 DEF Parses, Constructs
    <3> QED BY <1>4, <2>1, <2>2, <3>1, <3>2 DEF Exchanged, WireInv, WireFaithful
  <2>3. ASSUME NEW o \in {"too large", "timeout", "transport error", "closed"}, Finishes(o)
        PROVE  WireInv'
    <3>1. http'.phase = "done" /\ http'.outcome = o
      BY <1>3, <2>3
    <3> QED BY <1>3, <2>3, <3>1 DEF Exchanged, WireInv, WireFaithful
  <2> QED BY <1>7, <2>2, <2>3 DEF SendRequest
<1>8. ASSUME Remote PROVE WireInv'
  <2>1. http.phase = "remote" /\ http.outcome = "none" /\ Parses(sent)
    BY <1>8 DEF Remote, WireInv, Exchanged, WireFaithful
  <2>2. PICK f \in {g \in Fields(ResponseModels) : Constructs(g)} \cup Absences, mine \in BOOLEAN :
          /\ answered' = [field |-> f, configured |-> mine]
          /\ mangled' \in (IF f \in Absences THEN {"missing field"}
                          ELSE IF f = Ordinary THEN Damage ELSE {"none"})
    BY <1>8, <2>1 DEF Remote
  <2>3. http'.phase = "response" /\ http'.outcome = "none"
    BY <1>4, <1>8, <2>1 DEF Remote
  <2>4. CASE f \in Absences
    <3>1. answered'.field \in Absences /\ mangled' = "missing field"
      BY <2>2, <2>4
    <3> QED BY <1>4, <1>8, <2>3, <3>1 DEF Remote, WireInv, Exchanged, WireFaithful
  <2>5. CASE f \notin Absences
    <3>1. answered'.field \in Fields(ResponseModels) /\ Constructs(answered'.field)
      BY <2>2, <2>5
    <3>2. mangled' # "missing field"
      BY <2>2, <2>5 DEF Damage
    <3> QED BY <1>4, <1>8, <2>3, <3>1, <3>2 DEF Remote, WireInv, Exchanged, WireFaithful
  <2> QED BY <2>4, <2>5
<1>9. ASSUME ReceiveResponse PROVE WireInv'
  <2>1. /\ http.phase = "response" /\ http.outcome = "none"
        /\ UNCHANGED <<sent, answered, mangled>>
    BY <1>9 DEF ReceiveResponse, WireInv, Exchanged
  <2>2. CASE mangled \in {"declared too long", "too long", "unauthorized", "server error",
                          "not json", "not an object"}
    <3>1. \E o \in {"too large", "unauthorized", "http error", "schema error"} : Finishes(o)
      BY <1>9, <2>2 DEF ReceiveResponse
    <3>2. http'.phase = "done" /\ mangled' # "none"
      BY <1>3, <2>1, <2>2, <3>1
    <3>3. http'.outcome \in {"too large", "unauthorized", "http error", "schema error"}
      BY <1>3, <3>1
    <3> QED BY <1>3, <2>1, <3>1, <3>2, <3>3 DEF WireInv, Exchanged, WireFaithful
  <2>3. CASE mangled \notin {"declared too long", "too long", "unauthorized", "server error",
                             "not json", "not an object"}
    <3>1. Proceeds("parse")
      BY <1>9, <2>3 DEF ReceiveResponse
    <3>2. http'.phase = "parse" /\ http'.outcome = "none"
      BY <1>4, <2>1, <3>1
    <3> QED BY <1>4, <2>1, <2>3, <3>1, <3>2 DEF WireInv, Exchanged, WireFaithful
  <2> QED BY <2>2, <2>3
<1>10. ASSUME RequestTimesOut PROVE WireInv'
  <2>1. http'.phase = "done" /\ http'.outcome = "timeout" /\ UNCHANGED <<sent, answered, mangled>>
    BY <1>3, <1>10 DEF RequestTimesOut
  <2> QED BY <1>3, <1>10, <2>1 DEF RequestTimesOut, WireInv, Exchanged, WireFaithful
<1>11. ASSUME ParseResponse PROVE WireInv'
  <2>1. /\ http.phase = "parse" /\ mangled # "server error"
        /\ \/ mangled = "missing field" /\ answered.field \in Absences
           \/ /\ mangled # "missing field"
              /\ answered.field \in Fields(ResponseModels) /\ Constructs(answered.field)
        /\ UNCHANGED <<sent, answered, mangled>>
    BY <1>11 DEF ParseResponse, WireInv, Exchanged
  <2>2. CASE Accepted /\ answered.configured
    <3>1. http'.phase = "done" /\ http'.outcome = "response"
      BY <1>3, <1>11, <2>2 DEF ParseResponse
    <3>2. Finishes("response")
      BY <1>11, <2>2 DEF ParseResponse
    <3>3. \/ mangled = "none" /\ Constructs(answered.field)
          \/ mangled = "missing field" /\ ReadByDefault(answered.field)
      BY <2>1, <2>2, DefaultsRead DEF Accepted
    <3>4. \/ mangled' = "none" /\ Constructs(answered'.field)
          \/ mangled' = "missing field" /\ ReadByDefault(answered'.field)
      BY <2>1, <3>3
    <3> QED BY <1>3, <2>1, <2>2, <3>1, <3>2, <3>4 DEF WireInv, Exchanged, WireFaithful
  <2>3. CASE ~(Accepted /\ answered.configured)
    <3>1. Finishes("schema error")
      BY <1>11, <2>3 DEF ParseResponse
    <3>2. http'.phase = "done" /\ http'.outcome = "schema error"
      BY <1>3, <3>1
    <3>3. mangled # "none" \/ ~answered.configured \/ LaxerThanTheWire(answered.field)
      BY <2>1, <2>3, ResponsesParse DEF Accepted
    <3> QED BY <1>3, <2>1, <3>1, <3>2, <3>3 DEF WireInv, Exchanged, WireFaithful
  <2> QED BY <2>2, <2>3
<1> QED BY <1>1, <1>5, <1>6, <1>7, <1>8, <1>9, <1>10, <1>11 DEF HttpNext

\* A response that a caller gets over HTTP is what the configured source built,
\* or lacks a field that is read by default;
\* and what can be built gets through undamaged, but for the hits whose
\* constructors accept more than the parsers.
THEOREM WireIsFaithful == HttpSpec => []WireFaithful
<1>1. HttpInit => WireInv
  BY DEF HttpInit, WireInv, Exchanged, WireFaithful, Phases, Outcomes
<1>2. WireInv => WireFaithful
  BY DEF WireInv
<1> QED BY <1>1, <1>2, NextWireInv, PTL DEF HttpSpec
=============================================================================
