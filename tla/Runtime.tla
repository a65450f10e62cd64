------------------------------ MODULE Runtime ------------------------------
(***************************************************************************)
(* The services of the runtime that start tasks or share answers: the      *)
(* federated search, the fan-out helper, the validated read cache and the  *)
(* query embedding cache.  They share no state in the code; what is said   *)
(* here is said of two of them together.                                   *)
(***************************************************************************)
EXTENDS Federation, Fanout, ReadCache, QueryCache

(* No task that a federated search, or a strict fan-out, has started runs on *)
(* after the call ended, by result, failure or cancellation.                *)
NoTaskOutlivesCall == NoSearchOutlivesCall /\ GatherCleansUp

(* A read cache answers with a value older than its call only as a fallback  *)
(* after a failed load, or from the flight it joined; and an embedding of an *)
(* invalidated model is in no cache, unless a call overlapped the            *)
(* invalidation or the backing store failed.                                 *)
CachedAnswersExplained == StalenessExplained /\ OldEmbeddingsGone
=============================================================================
