----------------------------- MODULE Federation -----------------------------
(***************************************************************************)
(* FederationExecutor (runtime/federation.py): one federated search or     *)
(* progressive stream.  A few workers share the list of selected sources,  *)
(* each source answers, fails or runs into its deadline, outcomes travel   *)
(* through a bounded queue to the consumer, and the consumer fuses the     *)
(* ranked hits of all sources into one list.                               *)
(***************************************************************************)
EXTENDS Integers, Sequences, FiniteSets, SequencesExt

CONSTANTS
  NumSources,      \* registered sources, in registration order
  MaxConcurrency,  \* FederationConfig.max_concurrency
  Filterable,      \* sources whose capabilities support filters
  Answers,         \* [source -> set of [hits, partial]] a source may give
  TopK,            \* SearchRequest.top_k
  RrfK, Scale,     \* a hit of rank r scores Scale/(RrfK + r)
  RerankLimit,     \* FederationConfig.rerank_candidate_limit
  RerankScore      \* [id -> score the reranker gives; ids without text absent]

Sources == 1..NumSources
Workers == 1..MaxConcurrency

ASSUME FederationAssumption ==
  /\ NumSources \in Nat \ {0}
  /\ MaxConcurrency \in Nat \ {0}
  /\ Filterable \subseteq Sources
  /\ \A s \in Sources : \A a \in Answers[s] : a.hits \in Seq(ToSet(a.hits))
  /\ TopK \in Nat /\ RerankLimit \in Nat
  /\ RrfK \in Nat \ {0} /\ Scale \in Nat
  /\ \A i \in DOMAIN RerankScore : RerankScore[i] \in Int

\* A source's outcome: a response, or a diagnostic in place of it.
TimedOut == [status |-> "timeout"]
Unavailable == [status |-> "unavailable"]
Responded(answer) == [status |-> "ok", answer |-> answer]

NoUri == "none"

-----------------------------------------------------------------------------
(* Fusion: merge hits that share an identity or a uri, transitively.       *)

\* The sequence of S in the order of R, a set of pairs.
InOrder(S, R) ==
  [k \in 1..Cardinality(S) |-> CHOOSE x \in S : Cardinality({y \in S : <<y, x>> \in R}) = k - 1]

RankedHits(hits) ==
  LET places == 1..Len(hits)
      before(p, q) == \/ hits[p].rank < hits[q].rank
                      \/ hits[p].rank = hits[q].rank /\ hits[p].id < hits[q].id
                      \/ hits[p].rank = hits[q].rank /\ hits[p].id = hits[q].id /\ p < q
      order == InOrder(places, {x \in places \X places : before(x[1], x[2])})
  IN [k \in places |-> hits[order[k]]]

Unite(root, left, right) ==
  [n \in DOMAIN root |-> IF root[n] = root[right] THEN root[left] ELSE root[n]]

\* the node that first carried this identity (or uri) before node n
Holder(flat, n, Same(_, _)) ==
  {m \in 1..(n - 1) :
     Same(flat[m], flat[n]) /\ \A k \in 1..(m - 1) : ~Same(flat[k], flat[n])}

SameIdentity(a, b) == a.id = b.id
SameUri(a, b) == a.uri # NoUri /\ a.uri = b.uri

\* Mutant of AddNode: the uri is looked at only when the identity is new.
AddNodeUriOnlyIfNew(flat, root, n) ==
  LET fresh == Append(root, n)
  IN IF Holder(flat, n, SameIdentity) # {}
     THEN Unite(fresh, n, CHOOSE m \in Holder(flat, n, SameIdentity) : TRUE)
     ELSE IF Holder(flat, n, SameUri) # {}
     THEN Unite(fresh, n, CHOOSE m \in Holder(flat, n, SameUri) : TRUE)
     ELSE fresh

AddNode(flat, root, n) ==
  LET fresh == Append(root, n)
      byId == IF Holder(flat, n, SameIdentity) = {} THEN fresh
              ELSE Unite(fresh, n, CHOOSE m \in Holder(flat, n, SameIdentity) : TRUE)
  IN IF Holder(flat, n, SameUri) = {} THEN byId
     ELSE Unite(byId, n, CHOOSE m \in Holder(flat, n, SameUri) : TRUE)

\* the node that stands for each node's group once all hits are in
Roots(flat) ==
  LET upTo[n \in 0..Len(flat)] ==
        IF n = 0 THEN <<>> ELSE AddNode(flat, upTo[n - 1], n)
  IN upTo[Len(flat)]

\* all hits, source after source, each with the list it came from
Flat(lists) ==
  FlattenSeq([i \in DOMAIN lists |-> [k \in DOMAIN lists[i] |-> lists[i][k] @@ [list |-> i]]])

\* Documents are counted once per source: a group's rank in list i is the
\* number of groups that list has shown when it first shows this one.
GroupScore(flat, root, lists, r) ==
  LET Here(i) == {n \in DOMAIN flat : flat[n].list = i}
      Mine(i) == {n \in Here(i) : root[n] = r}
      Shown(i) == {m \in Here(i) : \A n \in Mine(i) : m <= n}
      Rank(i) == Cardinality({root[m] : m \in Shown(i)})
      sum[i \in 0..Len(lists)] ==
        IF i = 0 THEN 0
        ELSE sum[i - 1] + IF Mine(i) = {} THEN 0 ELSE Scale \div (RrfK + Rank(i))
  IN sum[Len(lists)]

\* the fused hits, best first; equal scores in order of first appearance
FuseHits(lists) ==
  LET flat == Flat(lists)
      root == Roots(flat)
      firsts == {n \in DOMAIN flat : \A m \in 1..(n - 1) : root[m] # root[n]}
      score == [n \in firsts |-> GroupScore(flat, root, lists, root[n])]
      before(m, n) == score[m] > score[n] \/ (score[m] = score[n] /\ m < n)
      ranked == InOrder(firsts, {x \in firsts \X firsts : before(x[1], x[2])})
  IN [k \in DOMAIN ranked |-> flat[ranked[k]]]

\* The reranker permutes, among themselves, the hits of the first
\* RerankLimit that have a text.
Rerank(hits) ==
  LET eligible == {p \in DOMAIN hits : p <= RerankLimit /\ hits[p].id \in DOMAIN RerankScore}
      score == [p \in eligible |-> RerankScore[hits[p].id]]
      better(p, q) == score[p] > score[q] \/ (score[p] = score[q] /\ p < q)
      order == InOrder(eligible, {x \in eligible \X eligible : better(x[1], x[2])})
      Place(p) == Cardinality({q \in eligible : q < p}) + 1
  IN [p \in DOMAIN hits |-> IF p \in eligible THEN hits[order[Place(p)]] ELSE hits[p]]

-----------------------------------------------------------------------------
VARIABLES
  fed,       \* the call: phase, mode, selected and skipped sources, ...
  worker,    \* [Workers -> [at, ix, outcome]]
  queue,     \* outcomes on their way to the consumer
  outcomes,  \* [selection index -> outcome received]
  arrived    \* selection indices in the order their outcomes were received

fedVars == <<fed, worker, queue, outcomes, arrived>>

NumSelected == Len(fed.selected)
ToDone == [at |-> "done", ix |-> 0, outcome |-> TimedOut]

FedInit ==
  /\ fed = [phase |-> "idle", mode |-> "search", selected |-> <<>>, skipped |-> {},
            next |-> 1, late |-> FALSE, lost |-> {}, hits |-> <<>>, degraded |-> {}]
  /\ worker = [w \in Workers |-> ToDone]
  /\ queue = <<>>
  /\ outcomes = <<>>
  /\ arrived = <<>>

\* The ranked hits of a list of outcomes, none where there is no response, and
\* the diagnostics they carry.
HitLists(list) ==
  [k \in DOMAIN list |-> IF list[k].status = "ok" THEN RankedHits(list[k].answer.hits) ELSE <<>>]

Degradations(indices) ==
  {[source |-> fed.selected[i],
    status |-> IF outcomes[i].status = "ok" THEN "partial" ELSE outcomes[i].status] :
     i \in {j \in indices : outcomes[j].status # "ok" \/ outcomes[j].answer.partial}}

Top(hits) == SubSeq(hits, 1, IF Len(hits) < TopK THEN Len(hits) ELSE TopK)

\* Sources that match the selection; one that cannot filter is skipped with
\* a diagnostic when the request has filters.
SelectSources(wanted, filtered) ==
  LET able == {s \in wanted : filtered => s \in Filterable}
  IN [selected |-> InOrder(able, {x \in able \X able : x[1] < x[2]}), skipped |-> wanted \ able]

Search ==
  /\ fed.phase = "idle"
  /\ \E wanted \in SUBSET Sources, filtered \in BOOLEAN, mode \in {"search", "stream"} :
       LET s == SelectSources(wanted, filtered) IN
       /\ fed' = [fed EXCEPT !.phase = "running", !.mode = mode,
                             !.selected = s.selected, !.skipped = s.skipped]
       /\ worker' = [w \in Workers |->
                       IF w <= Len(s.selected) THEN [ToDone EXCEPT !.at = "ready"] ELSE ToDone]
  /\ UNCHANGED <<queue, outcomes, arrived>>

\* Loop head of a worker: next_index is read and advanced in one go.
TakeNext(w, q) ==
  IF fed.next <= NumSelected
  THEN /\ worker' = [worker EXCEPT ![w] = [ToDone EXCEPT !.at = "search", !.ix = fed.next]]
       /\ fed' = [fed EXCEPT !.next = @ + 1]
       /\ queue' = q
  ELSE /\ worker' = [worker EXCEPT ![w] = ToDone]
       /\ queue' = q
       /\ UNCHANGED fed

StartWorker(w) ==
  /\ worker[w].at = "ready"
  /\ TakeNext(w, queue)
  /\ UNCHANGED <<outcomes, arrived>>

Ends(w, outcome) ==
  /\ worker' = [worker EXCEPT ![w] = [@ EXCEPT !.at = "put", !.outcome = outcome]]
  /\ UNCHANGED <<fed, queue, outcomes, arrived>>

Answer(w) ==
  /\ worker[w].at = "search" /\ ~fed.late
  /\ \E a \in Answers[fed.selected[worker[w].ix]] : Ends(w, Responded(a))

Fail(w) == worker[w].at = "search" /\ ~fed.late /\ Ends(w, Unavailable)

\* The per-source timeout, or the request's deadline: a source that has not
\* been called yet when the deadline is past is not called at all.
Timeout(w) == worker[w].at = "search" /\ Ends(w, TimedOut)

DeadlinePasses ==
  /\ fed.phase = "running" /\ ~fed.late
  /\ fed' = [fed EXCEPT !.late = TRUE]
  /\ UNCHANGED <<worker, queue, outcomes, arrived>>

\* A source that raises CancelledError itself ends its worker: CancelledError
\* is re-raised as if the worker had been cancelled, and no outcome is queued.
SourceCancels(w) ==
  /\ worker[w].at = "search" /\ ~fed.late
  /\ fed.lost = {}
  /\ worker' = [worker EXCEPT ![w] = ToDone]
  /\ fed' = [fed EXCEPT !.lost = {worker[w].ix}]
  /\ UNCHANGED <<queue, outcomes, arrived>>

\* queue.put waits while the queue is full, then the worker loops.
Put(w) ==
  /\ worker[w].at = "put"
  /\ Len(queue) < MaxConcurrency
  /\ TakeNext(w, Append(queue, <<worker[w].ix, worker[w].outcome>>))
  /\ UNCHANGED <<outcomes, arrived>>

\* The consumer takes one outcome.
Receive ==
  /\ fed.phase = "running"
  /\ queue # <<>>
  /\ outcomes' = [i \in DOMAIN outcomes \cup {Head(queue)[1]} |->
                    IF i = Head(queue)[1] THEN Head(queue)[2] ELSE outcomes[i]]
  /\ arrived' = Append(arrived, Head(queue)[1])
  /\ queue' = Tail(queue)
  /\ UNCHANGED <<fed, worker>>

AllDone == \A w \in Workers : worker[w].at = "done"

\* The outcomes in the order of selection, whatever order they arrived in.
InSelectionOrder == [i \in 1..NumSelected |-> outcomes[i]]

\* What has arrived so far, in that order; also a mutant of FinalOutcomes.
InArrivalOrder == [i \in DOMAIN arrived |-> outcomes[arrived[i]]]

\* what a stream shows after each response, before the authoritative result
ProvisionalHits == Top(FuseHits(HitLists(InArrivalOrder)))

FinalOutcomes == InSelectionOrder

AllReceived == fed.phase = "running" /\ Len(arrived) = NumSelected /\ AllDone

\* All outcomes are in and the workers have returned: fuse, rerank, answer.
\* A failing reranker leaves the order and adds a diagnostic.
BuildResponse ==
  /\ AllReceived
  /\ LET fused == FuseHits(HitLists(FinalOutcomes))
         skipped == {[source |-> s, status |-> "unavailable"] : s \in fed.skipped}
         told == skipped \cup Degradations(1..NumSelected)
     IN \/ fed' = [fed EXCEPT !.phase = "done", !.hits = Top(Rerank(fused)), !.degraded = told]
        \/ /\ \E h \in ToSet(fused) : h.id \in DOMAIN RerankScore
           /\ fed' = [fed EXCEPT !.phase = "done", !.hits = Top(fused),
                                 !.degraded = told \cup {[source |-> 0, status |-> "rerank"]}]
  /\ UNCHANGED <<worker, queue, outcomes, arrived>>

\* The caller is cancelled while it waits for an outcome or for the workers:
\* the finally clause of _run_sources cancels the workers that still run...
CancelWorkers ==
  [w \in Workers |-> IF worker[w].at = "done" THEN worker[w]
                     ELSE [worker[w] EXCEPT !.at = "cancelled"]]

Abandon ==
  /\ fed.phase = "running"
  /\ fed' = [fed EXCEPT !.phase = "closing"]
  /\ worker' = CancelWorkers
  /\ UNCHANGED <<queue, outcomes, arrived>>

\* A stream left at one of its events closes without closing the generator it
\* reads from: the event loop finalizes that one later.
LeaveStream ==
  /\ fed.phase = "running" /\ fed.mode = "stream" /\ arrived # <<>>
  /\ fed' = [fed EXCEPT !.phase = "left"]
  /\ UNCHANGED <<worker, queue, outcomes, arrived>>

FinalizeGenerator ==
  /\ fed.phase = "left"
  /\ fed' = [fed EXCEPT !.phase = "closing"]
  /\ worker' = CancelWorkers
  /\ UNCHANGED <<queue, outcomes, arrived>>

WorkerStops(w) ==
  /\ worker[w].at = "cancelled"
  /\ worker' = [worker EXCEPT ![w] = ToDone]
  /\ UNCHANGED <<fed, queue, outcomes, arrived>>

\* Mutant of Close: the clause cancels and does not wait.
CloseUnawaited ==
  /\ fed.phase = "closing"
  /\ fed' = [fed EXCEPT !.phase = "closed"]
  /\ UNCHANGED <<worker, queue, outcomes, arrived>>

\* ... and waits for them.
Close ==
  /\ fed.phase = "closing"
  /\ AllDone
  /\ fed' = [fed EXCEPT !.phase = "closed"]
  /\ UNCHANGED <<worker, queue, outcomes, arrived>>

WorkerStep(w) ==
  StartWorker(w) \/ Answer(w) \/ Fail(w) \/ Timeout(w) \/ SourceCancels(w) \/ Put(w)
    \/ WorkerStops(w)

FedNext ==
  \/ Search \/ Receive \/ BuildResponse \/ DeadlinePasses
  \/ Abandon \/ LeaveStream \/ FinalizeGenerator \/ Close
  \/ \E w \in Workers : WorkerStep(w)

\* The event loop runs every task that can run, and wait_for's clock runs;
\* nothing makes a source answer, or the caller give up.
\* (AllReceived enables BuildResponse, which ends it: the second conjunct is the
\* weak fairness of BuildResponse.)
FedFairness ==
  /\ WF_fedVars(Receive \/ FinalizeGenerator \/ Close)
  /\ []<>~AllReceived
  /\ \A w \in Workers :
       WF_fedVars(StartWorker(w) \/ Timeout(w) \/ Put(w) \/ WorkerStops(w))

FedSpec == FedInit /\ [][FedNext]_fedVars /\ FedFairness

-----------------------------------------------------------------------------
\* what source i of the selection may have come to
OutcomesOf(i) ==
  {TimedOut, Unavailable} \cup {Responded(a) : a \in Answers[fed.selected[i]]}

Diagnostics == [source : Sources \cup {0}, status : {"timeout", "unavailable", "partial", "rerank"}]

FinalLists == HitLists(InSelectionOrder)

\* hits that are the same document: one identity or one uri
Linked(a, b) == SameIdentity(a, b) \/ SameUri(a, b)

(* The one authoritative list depends on what the sources answered and not   *)
(* on the order in which they did, has of every selected source the outcome  *)
(* it came to, none lost or swapped between worker and consumer, and is      *)
(* complete unless it says otherwise (_run_sources; search and stream build  *)
(* it from the outcomes in selection order).                                 *)
AuthoritativeIsOrderFree ==
  fed.phase = "done" =>
    /\ LET fused == FuseHits(FinalLists)
       IN fed.hits = Top(fused) \/ fed.hits = Top(Rerank(fused))
    /\ DOMAIN outcomes = 1..NumSelected
    /\ \A i \in 1..NumSelected : outcomes[i] \in OutcomesOf(i)
    /\ fed.degraded = {} =>
         \A i \in 1..NumSelected : outcomes[i].status = "ok" /\ ~outcomes[i].answer.partial

(* Fusion shows each document once: hits merged by identity or uri, and      *)
(* through chains of those, form exactly the connected groups, and no group  *)
(* appears twice in the answer (_fuse_hits, with its union-find).            *)
MergedOnce ==
  fed.phase = "done" =>
    LET flat == Flat(FinalLists)
        root == Roots(flat)
        group(r) == {n \in DOMAIN root : root[n] = r}
        GroupOf(hit) == {root[n] : n \in {m \in DOMAIN flat : flat[m] = hit}}
    IN /\ \A m, n \in DOMAIN flat : Linked(flat[m], flat[n]) => root[m] = root[n]
       /\ \A r \in ToSet(root) : \A part \in (SUBSET group(r)) \ {{}, group(r)} :
            \E m \in part, n \in group(r) \ part : Linked(flat[m], flat[n])
       /\ \A j, k \in DOMAIN fed.hits :
            j # k => GroupOf(fed.hits[j]) \cap GroupOf(fed.hits[k]) = {}

(* Once the call has returned or its cancellation is through, none of its     *)
(* source searches still runs.                                               *)
NoSearchOutlivesCall == fed.phase \in {"done", "closed"} => AllDone

\* no call in progress; a source that raises CancelledError itself leaves its
\* caller waiting, as its outcome never reaches the queue
FedQuiet == fed.phase \in {"idle", "done", "closed"} \/ fed.lost # {}
=============================================================================
