------------------------- MODULE RecordSearchProofs -------------------------
(***************************************************************************)
(* Searches that share the flights and the entries of two caches use       *)
(* nothing older than themselves, lose no candidate silently and, in       *)
(* strict mode, end well only when nothing failed: proved for any          *)
(* searches, queries, rankings and limits, and any number of changes,      *)
(* evictions, failing calls and cancellations.                             *)
(***************************************************************************)
EXTENDS RecordSearch, FiniteSetTheorems, SequenceTheorems, TLAPS

USE RankAssumption, ConfigAssumption, ValueAssumption

-----------------------------------------------------------------------------
(* The inductive invariant                                                 *)

Values == Lists \cup Hydrations \cup Errors \cup {None}

\* A search that has its candidate list.
Hydrating == {"batch", "version", "lookup", "join", "load", "refine", "done"}

\* A list that a search which began at epoch e may use.
GoodList(l, e) ==
  /\ l \in Lists /\ l.read >= e
  /\ ~mode.lenient => l.lost = {}

\* What a flight has delivered to a search is good for that search: a list for
\* the epoch of its key, a record at least at the version it read.
DeliveredWell(at, j, g) ==
  /\ at = "wait" => g \in Errors \cup {None} \/ GoodList(g, j.epoch)
  /\ at = "join" => \/ g \in Errors \cup {None}
                    \/ g \in Hydrations /\ g.version >= j.batch.seen
  /\ at \notin {"wait", "join"} => g = None

\* What a search holds is no older than its beginning, which is over.
NotOlder(j) ==
  /\ j.epoch <= epoch
  /\ \A r \in Records : j.known[r] <= version[r]
  /\ j.read # None => j.read >= j.epoch
  /\ j.list # None => GoodList(j.list, j.epoch)
  /\ \A r \in Records : j.found[r] # None => j.found[r].version >= j.known[r]

\* The versions of a batch were read, and its records loaded after that.
BatchSound(at, j) ==
  /\ \A r \in Records : j.batch.keys[r] # None => j.batch.keys[r] <= version[r]
  /\ \A r \in Records : j.batch.loads[r] \in Hydrations =>
       /\ j.batch.loads[r].version >= j.known[r]
       /\ j.batch.keys[r] # None => j.batch.loads[r].version >= j.batch.keys[r]
  /\ at # "load" => j.batch.loads = Nothing
  /\ at \in {"version", "lookup", "join"} <=> j.batch.todo # <<>>
  /\ at \notin {"version", "lookup", "join", "load"} => j.batch.misses = <<>>
  /\ at \in {"lookup", "join"} => /\ j.known[Head(j.batch.todo)] <= j.batch.seen
                                  /\ j.batch.seen <= version[Head(j.batch.todo)]

\* How far a search is agrees with what it has.
Followed(at, j) ==
  /\ at = "expand" => j.read # None
  /\ at \in Hydrating => j.list # None
  /\ at \notin Hydrating => j.offset = 0
  /\ ~mode.lenient => j.failures = {}

CandidatesOf(s, j) ==
  IF Lanes \subseteq j.list.lost THEN <<>> ELSE RankOf[Query(s)]

\* Every candidate taken up is found, or still in the batch.
Accounted(s, at, j) ==
  /\ at \in Hydrating => j.offset <= Len(CandidatesOf(s, j))
  /\ "hydration" \notin j.failures =>
       \A i \in 1..j.offset :
         \/ j.found[CandidatesOf(s, j)[i]] # None
         \/ CandidatesOf(s, j)[i] \in Elements(j.batch.todo) \cup Elements(j.batch.misses)

\* A search may be at `at` with this job and delivery.
Fits(s, at, j, g) ==
  /\ DeliveredWell(at, j, g) /\ NotOlder(j) /\ BatchSound(at, j)
  /\ Followed(at, j) /\ Accounted(s, at, j)

SearchesSound ==
  /\ pc \in [Searches -> PCs]
  /\ job \in [Searches -> Jobs]
  /\ got \in [Searches -> Values]
  /\ \A s \in Searches : Fits(s, pc[s], job[s], got[s])

\* No cache answers a key with something older than the key.
CachesSound ==
  /\ \A k \in CandidateKeys : candidates[k] # None => GoodList(candidates[k], k.epoch)
  /\ \A k \in HydrationKeys : hydrated[k] # None => hydrated[k].version >= k.version

CachesTyped ==
  /\ candidates \in [CandidateKeys -> Lists \cup {None}]
  /\ acquiring \in [CandidateKeys -> Searches \cup {None}]
  /\ hydrated \in [HydrationKeys -> Hydrations \cup {None}]
  /\ loading \in [HydrationKeys -> Searches \cup {None}]

SourceTyped ==
  /\ mode \in [lenient : BOOLEAN, batch : BOOLEAN]
  /\ epoch \in Epochs /\ epoch <= changes
  /\ version \in [Records -> Epochs] /\ \A r \in Records : version[r] <= changes
  /\ gone \subseteq Records
  /\ changes \in 0..MaxChanges

IInv ==
  /\ SourceTyped /\ faults \in 0..MaxFaults
  /\ CachesTyped /\ CachesSound
  /\ SearchesSound

-----------------------------------------------------------------------------
(* Lemmas about sequences                                                  *)

LEMMA ElementsOfTail ==
  ASSUME NEW q \in Seq(Records), q # <<>>
  PROVE  /\ Head(q) \in Records /\ Tail(q) \in Seq(Records)
         /\ Elements(q) = {Head(q)} \cup Elements(Tail(q))
<1>1. /\ Len(q) \in Nat \ {0} /\ Head(q) = q[1] /\ Tail(q) \in Seq(Records)
      /\ Len(Tail(q)) = Len(q) - 1
      /\ \A i \in 1..Len(q) - 1 : Tail(q)[i] = q[i + 1]
  BY HeadTailProperties, EmptySeq, LenProperties
<1>2. ASSUME NEW i \in 1..Len(q) PROVE q[i] \in {Head(q)} \cup Elements(Tail(q))
  <2>1. CASE i = 1
    BY <1>1, <2>1
  <2>2. CASE i # 1
    <3>1. i - 1 \in 1..Len(q) - 1 /\ q[i] = Tail(q)[i - 1]
      BY <1>1, <2>2
    <3> QED
      BY <1>1, <3>1 DEF Elements
  <2> QED
    BY <2>1, <2>2
<1>3. ASSUME NEW i \in 1..Len(Tail(q)) PROVE Tail(q)[i] \in Elements(q)
  <2>1. i + 1 \in 1..Len(q) /\ Tail(q)[i] = q[i + 1]
    BY <1>1
  <2> QED
    BY <2>1 DEF Elements
<1>4. Head(q) \in Elements(q) /\ Head(q) \in Records
  BY <1>1 DEF Elements
<1> QED
  BY <1>1, <1>2, <1>3, <1>4 DEF Elements

LEMMA ElementsOfAppend ==
  ASSUME NEW q \in Seq(Records), NEW r \in Records
  PROVE  /\ Append(q, r) \in Seq(Records)
         /\ Elements(Append(q, r)) = Elements(q) \cup {r}
<1>1. /\ Append(q, r) \in Seq(Records) /\ Len(Append(q, r)) = Len(q) + 1
      /\ Len(q) \in Nat
      /\ \A i \in 1..Len(q) : Append(q, r)[i] = q[i]
      /\ Append(q, r)[Len(q) + 1] = r
  BY AppendProperties, LenProperties
<1>2. \A i \in 1..Len(q) + 1 : i \in 1..Len(q) \/ i = Len(q) + 1
  BY <1>1
<1>3. \A i \in 1..Len(q) : i \in 1..Len(q) + 1
  BY <1>1
<1>4. Len(q) + 1 \in 1..Len(q) + 1
  BY <1>1
<1> QED
  BY <1>1, <1>2, <1>3, <1>4 DEF Elements

LEMMA ElementsTyped ==
  ASSUME NEW q \in Seq(Records)
  PROVE  Elements(q) \subseteq Records /\ (q = <<>> <=> Elements(q) = {})
<1>1. Len(q) \in Nat /\ (q = <<>> <=> Len(q) = 0) /\ \A i \in 1..Len(q) : q[i] \in Records
  BY EmptySeq, LenProperties, ElementOfSeq
<1>2. Elements(q) \subseteq Records
  BY <1>1 DEF Elements
<1>3. CASE q = <<>>
  <2>1. \A i \in 1..Len(q) : FALSE
    BY <1>1, <1>3
  <2> QED
    BY <1>2, <1>3, <2>1 DEF Elements
<1>4. CASE q # <<>>
  <2>1. 1 \in 1..Len(q)
    BY <1>1, <1>4
  <2>2. q[1] \in Elements(q)
    BY <2>1 DEF Elements
  <2> QED
    BY <1>2, <1>4, <2>2
<1> QED
  BY <1>3, <1>4

-----------------------------------------------------------------------------
(* Lemmas about searches                                                   *)

LEMMA NothingTyped ==
  /\ NoJob \in Jobs /\ NoBatch \in Batches
  /\ Nothing = [r \in Records |-> None] /\ Nothing \in [Records -> Hydrations \cup {None, Error}]
  /\ <<>> \in Seq(Records) /\ Elements(<<>>) = {}
<1>1. 0 \in Epochs /\ <<>> \in Seq(Records)
  BY DEF Epochs
<1>2. Elements(<<>>) = {}
  BY DEF Elements
<1>3. Nothing \in [Records -> Epochs \cup {None}] /\ Nothing \in [Records -> Hydrations \cup {None}]
      /\ Nothing \in [Records -> Hydrations \cup {None, Error}]
  BY DEF Nothing
<1>4. NoBatch \in Batches
  BY <1>1, <1>3 DEF NoBatch, Batches
<1>5. NoLanes \in [Lanes -> {"due", "read", "failed"}]
  BY DEF NoLanes
<1>6. NoJob \in Jobs
  BY <1>1, <1>3, <1>4, <1>5 DEF NoJob, Jobs
<1> QED
  BY <1>1, <1>2, <1>3, <1>4, <1>6 DEF Nothing

\* A search that is over, or has not begun, holds nothing.
LEMMA NoJobFits ==
  ASSUME SourceTyped, NEW s \in Searches, NEW at \in {"idle", "raised", "cancelled"}
  PROVE  Fits(s, at, NoJob, None)
<1>1. /\ NoJob.epoch = 0 /\ NoJob.known = [r \in Records |-> 0] /\ NoJob.read = None
      /\ NoJob.list = None /\ NoJob.offset = 0 /\ NoJob.batch = NoBatch
      /\ NoJob.found = Nothing /\ NoJob.failures = {}
      /\ NoBatch.todo = <<>> /\ NoBatch.misses = <<>> /\ NoBatch.keys = Nothing
      /\ NoBatch.loads = Nothing
  BY DEF NoJob, NoBatch
<1>2. \A r \in Records : Nothing[r] = None
  BY DEF Nothing
<1>3. epoch \in Nat /\ \A r \in Records : version[r] \in Nat
  BY DEF SourceTyped, Epochs
<1>4. None \notin Hydrations
  OBVIOUS
<1>5. DeliveredWell(at, NoJob, None) /\ NotOlder(NoJob)
  BY <1>1, <1>2, <1>3 DEF DeliveredWell, NotOlder
<1>6. BatchSound(at, NoJob)
  BY <1>1, <1>2, <1>4 DEF BatchSound
<1>7. Followed(at, NoJob) /\ Accounted(s, at, NoJob)
  BY <1>1 DEF Followed, Accounted, Hydrating
<1> QED
  BY <1>5, <1>6, <1>7 DEF Fits

\* The source only moves on.
LEMMA FitsStays ==
  ASSUME SourceTyped, SourceTyped', UNCHANGED mode, epoch <= epoch',
         \A r \in Records : version[r] <= version'[r],
         NEW s, NEW at, NEW j \in Jobs, NEW g, Fits(s, at, j, g)
  PROVE  Fits(s, at, j, g)'
<1>1. /\ epoch \in Nat /\ epoch' \in Nat
      /\ \A r \in Records : version[r] \in Nat /\ version'[r] \in Nat
  BY DEF SourceTyped, Epochs
<1>2. /\ j.epoch \in Nat /\ \A r \in Records : j.known[r] \in Nat
      /\ j.batch \in Batches
  BY DEF Jobs, Epochs
<1>3. /\ j.batch.seen \in Nat /\ j.batch.todo \in Seq(Records)
      /\ \A r \in Records : j.batch.keys[r] # None => j.batch.keys[r] \in Nat
  BY <1>2 DEF Batches, Epochs
<1>4. j.batch.todo # <<>> => Head(j.batch.todo) \in Records
  BY <1>3, ElementsOfTail
<1>a. \A l, e : GoodList(l, e) => GoodList(l, e)'
  BY DEF GoodList
<1>b. DeliveredWell(at, j, g)'
  BY <1>a DEF Fits, DeliveredWell
<1>c. j.epoch <= epoch' /\ \A r \in Records : j.known[r] <= version'[r]
  BY <1>1, <1>2 DEF Fits, NotOlder
<1>5. NotOlder(j)'
  BY <1>a, <1>c DEF Fits, NotOlder
<1>d. \A r \in Records : j.batch.keys[r] # None => j.batch.keys[r] <= version'[r]
  BY <1>1, <1>3 DEF Fits, BatchSound
<1>e. at \in {"lookup", "join"} => j.batch.seen <= version'[Head(j.batch.todo)]
  BY <1>1, <1>3, <1>4 DEF Fits, BatchSound
<1>6. BatchSound(at, j)'
  BY <1>d, <1>e DEF Fits, BatchSound
<1>7. Followed(at, j)' /\ Accounted(s, at, j)'
  BY DEF Fits, Followed, Accounted, CandidatesOf, Query
<1> QED
  BY <1>b, <1>5, <1>6, <1>7 DEF Fits

\* Only what was delivered changes.
LEMMA FitsDelivered ==
  ASSUME NEW s, NEW at, NEW j, NEW g, NEW h, Fits(s, at, j, g), DeliveredWell(at, j, h)
  PROVE  Fits(s, at, j, h)
BY DEF Fits

\* Each search stays where it is; the source moves on, or flights deliver.
LEMMA SearchesFollow ==
  ASSUME IInv, SourceTyped', UNCHANGED <<mode, pc, job>>, epoch <= epoch',
         \A r \in Records : version[r] <= version'[r],
         got' \in [Searches -> Values],
         \A t \in Searches : got'[t] = got[t] \/ Fits(t, pc[t], job[t], got'[t])
  PROVE  SearchesSound'
<1>1. pc' \in [Searches -> PCs] /\ job' \in [Searches -> Jobs]
  BY DEF IInv, SearchesSound
<1>2. ASSUME NEW t \in Searches PROVE Fits(t, pc[t], job[t], got[t])'
  <2> PICK a \in PCs, i \in Jobs, v \in Values : a = pc[t] /\ i = job[t] /\ v = got'[t]
    BY DEF IInv, SearchesSound
  <2>1. Fits(t, a, i, v)
    BY DEF IInv, SearchesSound
  <2>2. Fits(t, a, i, v)'
    BY <2>1, FitsStays DEF IInv
  <2>3. a = pc'[t] /\ i = job'[t]
    OBVIOUS
  <2> QED
    BY <2>2, <2>3 DEF Fits
<1> QED
  BY <1>1, <1>2 DEF SearchesSound

\* One search moves; what flights deliver to the others fits them.
LEMMA OneMoves ==
  ASSUME IInv, UNCHANGED <<mode, source, changes>>,
         NEW s \in Searches, NEW at \in PCs, NEW j \in Jobs,
         Goto(s, at), Become(s, j),
         got' \in [Searches -> Values], Fits(s, at, j, got'[s]),
         \A t \in Searches \ {s} : got'[t] = got[t] \/ Fits(t, pc[t], job[t], got'[t])
  PROVE  SearchesSound' /\ SourceTyped'
<1>1. pc' = [pc EXCEPT ![s] = at] /\ job' = [job EXCEPT ![s] = j]
  BY DEF Goto, Become
<1>2. pc' \in [Searches -> PCs] /\ job' \in [Searches -> Jobs]
  BY <1>1 DEF IInv, SearchesSound
<1>3. SourceTyped /\ SourceTyped'
  BY DEF IInv, SourceTyped, source
<1>4. ASSUME NEW t \in Searches PROVE Fits(t, pc[t], job[t], got[t])'
  <2> PICK a \in PCs, i \in Jobs, v \in Values : a = pc'[t] /\ i = job'[t] /\ v = got'[t]
    BY <1>2
  <2>1. Fits(t, a, i, v)
    BY <1>1 DEF IInv, SearchesSound
  <2>2. epoch <= epoch' /\ \A r \in Records : version[r] <= version'[r]
    BY <1>3 DEF SourceTyped, Epochs, source
  <2>3. Fits(t, a, i, v)'
    BY <1>3, <2>1, <2>2, FitsStays
  <2> QED
    BY <2>3 DEF Fits
<1> QED
  BY <1>2, <1>3, <1>4 DEF SearchesSound

\* A search goes on, with the failures it records, or raises.
LEMMA ProceedMoves ==
  ASSUME IInv, UNCHANGED <<mode, source, changes>>,
         NEW s \in Searches, NEW lost \in SUBSET Stages, NEW next \in PCs, NEW j \in Jobs,
         Proceed(s, lost, next, j),
         lost = {} \/ mode.lenient => Fits(s, next, [j EXCEPT !.failures = @ \cup lost], None),
         got' \in [Searches -> Values], got'[s] = None,
         \A t \in Searches \ {s} : got'[t] = got[t] \/ Fits(t, pc[t], job[t], got'[t])
  PROVE  SearchesSound' /\ SourceTyped'
<1>1. CASE lost = {} \/ mode.lenient
  <2> DEFINE i == [j EXCEPT !.failures = @ \cup lost]
  <2>1. i \in Jobs
    BY DEF Jobs
  <2>2. Goto(s, next) /\ Become(s, i)
    BY <1>1 DEF Proceed
  <2>3. Fits(s, next, i, got'[s])
    BY <1>1
  <2> HIDE DEF i
  <2> QED
    BY <2>1, <2>2, <2>3, OneMoves
<1>2. CASE ~(lost = {} \/ mode.lenient)
  <2>1. Goto(s, "raised") /\ Become(s, NoJob)
    BY <1>2 DEF Proceed, End
  <2>2. Fits(s, "raised", NoJob, got'[s])
    BY NoJobFits DEF IInv
  <2> QED
    BY <2>1, <2>2, OneMoves, NothingTyped DEF PCs
<1> QED
  BY <1>1, <1>2

\* What an unmoved search holds.
LEMMA Held ==
  ASSUME IInv, NEW s \in Searches
  PROVE  /\ pc[s] \in PCs /\ job[s] \in Jobs /\ got[s] \in Values
         /\ Fits(s, pc[s], job[s], got[s])
BY DEF IInv, SearchesSound

LEMMA FaultTyped ==
  ASSUME IInv, NEW n \in Nat, Fault(n)
  PROVE  faults' \in 0..MaxFaults
BY DEF Fault, IInv

LEMMA CachesStay ==
  ASSUME IInv, UNCHANGED <<mode, candidateCache, hydrationCache>>
  PROVE  CachesTyped' /\ CachesSound'
BY DEF IInv, CachesTyped, CachesSound, candidateCache, hydrationCache, GoodList

LEMMA CandidatesTyped ==
  ASSUME NEW s \in Searches, NEW j
  PROVE  /\ CandidatesOf(s, j) \in Seq(Records) /\ Len(CandidatesOf(s, j)) \in Nat
         /\ \A i \in 1..Len(CandidatesOf(s, j)) : CandidatesOf(s, j)[i] \in Records
<1>1. CandidatesOf(s, j) \in Seq(Records)
  BY DEF CandidatesOf, Query
<1> QED
  BY <1>1, LenProperties, ElementOfSeq

-----------------------------------------------------------------------------
(* The world moves                                                         *)

LEMMA ChangeIndexSound ==
  ASSUME IInv, ChangeIndex
  PROVE  IInv'
<1>1. SourceTyped' /\ epoch <= epoch' /\ \A r \in Records : version[r] <= version'[r]
  BY DEF IInv, SourceTyped, Epochs, ChangeIndex
<1>2. UNCHANGED <<mode, pc, job, got, faults>> /\ UNCHANGED <<mode, candidateCache, hydrationCache>>
  BY DEF ChangeIndex
<1>3. SearchesSound'
  BY <1>1, <1>2, SearchesFollow DEF IInv, SearchesSound
<1> QED
  BY <1>1, <1>2, <1>3, CachesStay DEF IInv

LEMMA ChangeRecordSound ==
  ASSUME IInv, NEW r \in Records, ChangeRecord(r)
  PROVE  IInv'
<1>1. SourceTyped' /\ epoch <= epoch' /\ \A x \in Records : version[x] <= version'[x]
  BY DEF IInv, SourceTyped, Epochs, ChangeRecord
<1>2. UNCHANGED <<mode, pc, job, got, faults>> /\ UNCHANGED <<mode, candidateCache, hydrationCache>>
  BY DEF ChangeRecord
<1>3. SearchesSound'
  BY <1>1, <1>2, SearchesFollow DEF IInv, SearchesSound
<1> QED
  BY <1>1, <1>2, <1>3, CachesStay DEF IInv

LEMMA EvictSound ==
  ASSUME IInv, Evict
  PROVE  IInv'
<1>1. SourceTyped' /\ epoch <= epoch' /\ \A x \in Records : version[x] <= version'[x]
  BY DEF IInv, SourceTyped, Epochs, Evict, source
<1>2. UNCHANGED <<mode, pc, job, got, faults, acquiring, loading>>
  BY DEF Evict
<1>3. SearchesSound'
  BY <1>1, <1>2, SearchesFollow DEF IInv, SearchesSound
<1>4. CachesTyped'
  BY <1>2 DEF IInv, CachesTyped, Evict
<1>5. CachesSound'
  BY <1>2 DEF IInv, CachesTyped, CachesSound, Evict, GoodList
<1> QED
  BY <1>1, <1>2, <1>3, <1>4, <1>5 DEF IInv

-----------------------------------------------------------------------------
(* Candidate acquisition                                                   *)

LEMMA BeginSound ==
  ASSUME IInv, NEW s \in Searches, Begin(s)
  PROVE  IInv'
<1> DEFINE k == [query |-> Query(s), epoch |-> epoch]
           j == [NoJob EXCEPT !.epoch = epoch, !.known = version, !.list = candidates[k]]
<1>1. /\ k \in CandidateKeys /\ k.epoch = epoch /\ epoch \in Epochs
      /\ version \in [Records -> Epochs]
  BY DEF CandidateKeys, Query, IInv, SourceTyped
<1>2. candidates[k] \in Lists \cup {None} /\ (candidates[k] # None => GoodList(candidates[k], epoch))
  BY <1>1 DEF IInv, CachesTyped, CachesSound
<1> HIDE DEF k
<1>3. /\ j.epoch = epoch /\ j.known = version /\ j.list = candidates[k] /\ j.read = None
      /\ j.offset = 0 /\ j.batch = NoBatch /\ j.found = Nothing /\ j.failures = {}
      /\ NoBatch.todo = <<>> /\ NoBatch.misses = <<>> /\ NoBatch.keys = Nothing
      /\ NoBatch.loads = Nothing
  BY DEF NoJob, NoBatch
<1>4. j \in Jobs
  BY <1>1, <1>2, NothingTyped DEF Jobs
<1>5. /\ Become(s, j)
      /\ UNCHANGED <<mode, source, candidates, hydrationCache, got, changes, faults>>
      /\ \/ candidates[k] # None /\ Goto(s, "batch") /\ UNCHANGED acquiring
         \/ acquiring' = [acquiring EXCEPT ![k] = s] /\ Goto(s, "lanes")
         \/ Goto(s, "wait") /\ UNCHANGED acquiring
  BY DEF Begin, k
<1> HIDE DEF j
<1>6. got[s] = None
  BY Held DEF Fits, DeliveredWell, Begin, At
<1>7. ASSUME NEW at \in {"batch", "lanes", "wait"}, at = "batch" => candidates[k] # None
      PROVE  Fits(s, at, j, got[s])
  <2>1. \A r \in Records : Nothing[r] = None
    BY DEF Nothing
  <2>2. epoch \in Nat /\ \A r \in Records : version[r] \in Nat
    BY <1>1 DEF Epochs
  <2>3. DeliveredWell(at, j, got[s])
    BY <1>6 DEF DeliveredWell
  <2>4. NotOlder(j)
    BY <1>2, <1>3, <2>1, <2>2 DEF NotOlder
  <2>5. BatchSound(at, j)
    BY <1>3, <2>1 DEF BatchSound
  <2>6. Followed(at, j)
    BY <1>3, <1>7 DEF Followed, Hydrating
  <2>7. Accounted(s, at, j)
    BY <1>3, CandidatesTyped DEF Accounted
  <2> QED
    BY <2>3, <2>4, <2>5, <2>6, <2>7 DEF Fits
<1>8. SearchesSound' /\ SourceTyped'
  <2>1. UNCHANGED <<mode, source, changes>> /\ got' = got /\ got' \in [Searches -> Values]
    BY <1>5 DEF IInv, SearchesSound
  <2>2. PICK at \in {"batch", "lanes", "wait"} :
          Goto(s, at) /\ (at = "batch" => candidates[k] # None)
    BY <1>5
  <2>3. Fits(s, at, j, got'[s]) /\ at \in PCs
    BY <1>7, <2>1, <2>2 DEF PCs
  <2> QED
    BY <1>4, <1>5, <2>1, <2>2, <2>3, OneMoves
<1>9. CachesTyped' /\ CachesSound'
  <2>1. UNCHANGED <<mode, candidates, hydrated, loading>>
    BY <1>5 DEF hydrationCache
  <2>2. CachesSound'
    BY <2>1 DEF IInv, CachesSound, GoodList
  <2>3. acquiring' \in [CandidateKeys -> Searches \cup {None}]
    BY <1>5 DEF IInv, CachesTyped
  <2> QED
    BY <2>1, <2>2, <2>3 DEF IInv, CachesTyped
<1> QED
  BY <1>5, <1>8, <1>9 DEF IInv

LEMMA CoalescedSound ==
  ASSUME IInv, NEW s \in Searches, Coalesced(s)
  PROVE  IInv'
<1>1. /\ pc[s] = "wait" /\ got[s] # None
      /\ UNCHANGED <<mode, source, candidateCache, hydrationCache, changes, faults>>
      /\ got' = [got EXCEPT ![s] = None]
  BY DEF Coalesced, At
<1>2. /\ got' \in [Searches -> Values] /\ got'[s] = None
      /\ \A t \in Searches \ {s} : got'[t] = got[t]
  BY <1>1 DEF IInv, SearchesSound, Values
<1>3. job[s] \in Jobs /\ Fits(s, "wait", job[s], got[s])
  BY <1>1, Held
<1>4. CASE got[s] \notin Errors /\ Become(s, [job[s] EXCEPT !.list = got[s]]) /\ Goto(s, "batch")
  <2> DEFINE j == [job[s] EXCEPT !.list = got[s]]
  <2>1. GoodList(got[s], job[s].epoch)
    BY <1>1, <1>3, <1>4 DEF Fits, DeliveredWell
  <2>2. j \in Jobs
    BY <1>3, <2>1 DEF Jobs, GoodList
  <2>3. /\ j.epoch = job[s].epoch /\ j.known = job[s].known /\ j.read = job[s].read
        /\ j.list = got[s] /\ j.offset = job[s].offset /\ j.batch = job[s].batch
        /\ j.found = job[s].found /\ j.failures = job[s].failures
    BY <1>3 DEF Jobs
  <2>4. Become(s, j)
    BY <1>4
  <2> HIDE DEF j
  <2>5. NotOlder(j)
    BY <1>3, <2>1, <2>3 DEF Fits, NotOlder
  <2>6. BatchSound("batch", j)
    BY <1>3, <2>3 DEF Fits, BatchSound
  <2>7. Followed("batch", j)
    BY <1>1, <1>3, <2>3 DEF Fits, Followed, Hydrating
  <2>8. j.offset = 0 /\ Accounted(s, "batch", j)
    <3>1. j.offset = 0
      BY <1>3, <2>3 DEF Fits, Followed, Hydrating
    <3> QED
      BY <3>1, CandidatesTyped DEF Accounted
  <2>9. Fits(s, "batch", j, None)
    BY <2>5, <2>6, <2>7, <2>8 DEF Fits, DeliveredWell
  <2>10. SearchesSound' /\ SourceTyped'
    BY <1>1, <1>2, <1>4, <2>2, <2>4, <2>9, OneMoves DEF PCs
  <2> QED
    BY <1>1, <2>10, CachesStay DEF IInv
<1>5. CASE Goto(s, "lanes") /\ UNCHANGED job
  <2>1. Become(s, job[s])
    BY <1>5 DEF Become, IInv, SearchesSound
  <2>2. Fits(s, "lanes", job[s], None)
    BY <1>3 DEF Fits, DeliveredWell, BatchSound, Followed, Accounted, Hydrating
  <2>3. SearchesSound' /\ SourceTyped'
    BY <1>1, <1>2, <1>3, <1>5, <2>1, <2>2, OneMoves DEF PCs
  <2> QED
    BY <1>1, <2>3, CachesStay DEF IInv
<1>6. CASE End(s, "cancelled")
  <2>1. Fits(s, "cancelled", NoJob, None)
    BY NoJobFits DEF IInv
  <2>2. SearchesSound' /\ SourceTyped'
    BY <1>1, <1>2, <1>6, <2>1, OneMoves, NothingTyped DEF PCs, End
  <2> QED
    BY <1>1, <2>2, CachesStay DEF IInv
<1> QED
  BY <1>4, <1>5, <1>6 DEF Coalesced

LEMMA SearchLaneSound ==
  ASSUME IInv, NEW s \in Searches, NEW l \in Lanes, SearchLane(s, l)
  PROVE  IInv'
<1>1. /\ pc[s] = "lanes"
      /\ UNCHANGED <<mode, source, candidateCache, hydrationCache, pc, got, changes>>
  BY DEF SearchLane, At
<1>2. job[s] \in Jobs /\ Fits(s, "lanes", job[s], got[s]) /\ got' \in [Searches -> Values]
  BY <1>1, Held DEF IInv, SearchesSound
<1>3. epoch \in Epochs /\ job[s].epoch <= epoch
  BY <1>2 DEF Fits, NotOlder, IInv, SourceTyped
<1>4. PICK o \in {"read", "failed"}, e \in {job[s].read, epoch} :
        /\ Become(s, [job[s] EXCEPT !.lanes[l] = o, !.read = e])
        /\ UNCHANGED faults \/ Fault(1)
  <2>1. [job[s] EXCEPT !.lanes[l] = "failed"]
          = [job[s] EXCEPT !.lanes[l] = "failed", !.read = job[s].read]
    BY <1>2 DEF Jobs
  <2> QED
    BY <2>1 DEF SearchLane
<1> DEFINE j == [job[s] EXCEPT !.lanes[l] = o, !.read = e]
<1>5. j \in Jobs
  BY <1>2, <1>3 DEF Jobs
<1>6. /\ j.epoch = job[s].epoch /\ j.known = job[s].known /\ j.read = e
      /\ j.list = job[s].list /\ j.offset = job[s].offset /\ j.batch = job[s].batch
      /\ j.found = job[s].found /\ j.failures = job[s].failures
  BY <1>2 DEF Jobs
<1>7. Become(s, j) /\ Goto(s, "lanes")
  BY <1>1, <1>4 DEF Goto, IInv, SearchesSound
<1> HIDE DEF j
<1>8. Fits(s, "lanes", j, got[s])
  <2>1. NotOlder(j)
    BY <1>2, <1>3, <1>6 DEF Fits, NotOlder, Jobs, Epochs
  <2>2. BatchSound("lanes", j) /\ Followed("lanes", j)
    BY <1>2, <1>6 DEF Fits, BatchSound, Followed, Hydrating
  <2>3. Accounted(s, "lanes", j)
    BY <1>2, <1>6 DEF Fits, Followed, Accounted, Hydrating
  <2> QED
    BY <1>2, <2>1, <2>2, <2>3 DEF Fits, DeliveredWell
<1>9. SearchesSound' /\ SourceTyped'
  BY <1>1, <1>2, <1>5, <1>7, <1>8, OneMoves DEF PCs
<1>10. faults' \in 0..MaxFaults
  BY <1>4, FaultTyped DEF IInv
<1> QED
  BY <1>1, <1>9, <1>10, CachesStay DEF IInv

LEMMA FuseLanesSound ==
  ASSUME IInv, NEW s \in Searches, FuseLanes(s)
  PROVE  IInv'
<1> DEFINE lost == {l \in Lanes : job[s].lanes[l] = "failed"}
           j == [job[s] EXCEPT !.lanes = NoLanes, !.read = IF @ = None THEN epoch ELSE @]
           i == [j EXCEPT !.failures = @ \cup lost]
<1>1. /\ pc[s] = "lanes" /\ Proceed(s, lost, "expand", j)
      /\ UNCHANGED <<mode, source, candidateCache, hydrationCache, got, changes, faults>>
  BY DEF FuseLanes, At
<1>2. job[s] \in Jobs /\ Fits(s, "lanes", job[s], got[s]) /\ got' \in [Searches -> Values]
  BY <1>1, Held DEF IInv, SearchesSound
<1>3. epoch \in Epochs /\ job[s].epoch <= epoch /\ got[s] = None /\ lost \in SUBSET Stages
  BY <1>2 DEF Fits, NotOlder, DeliveredWell, IInv, SourceTyped, Stages
<1>4. j \in Jobs
  BY <1>2, <1>3, NothingTyped DEF Jobs, NoLanes
<1>5. /\ i.epoch = job[s].epoch /\ i.known = job[s].known
      /\ i.read = IF job[s].read = None THEN epoch ELSE job[s].read
      /\ i.list = job[s].list /\ i.offset = job[s].offset /\ i.batch = job[s].batch
      /\ i.found = job[s].found /\ i.failures = job[s].failures \cup lost
  BY <1>2 DEF Jobs
<1> HIDE DEF i, lost
<1>6. ASSUME lost = {} \/ mode.lenient PROVE Fits(s, "expand", i, None)
  <2>1. NotOlder(i)
    BY <1>2, <1>3, <1>5 DEF Fits, NotOlder, Jobs, Epochs
  <2>2. BatchSound("expand", i)
    BY <1>2, <1>5 DEF Fits, BatchSound
  <2>3. i.read # None
    BY <1>3, <1>5
  <2>4. i.offset = 0 /\ Followed("expand", i)
    BY <1>2, <1>5, <1>6, <2>3 DEF Fits, Followed, Hydrating
  <2>5. Accounted(s, "expand", i)
    BY <2>4 DEF Accounted, Hydrating
  <2> QED
    BY <2>1, <2>2, <2>4, <2>5 DEF Fits, DeliveredWell
<1>7. SearchesSound' /\ SourceTyped'
  <2> HIDE DEF j
  <2> QED
    BY <1>1, <1>2, <1>3, <1>4, <1>6, ProceedMoves DEF PCs, i
<1> QED
  BY <1>1, <1>7, CachesStay DEF IInv

LEMMA ExpandSound ==
  ASSUME IInv, NEW s \in Searches, Expand(s)
  PROVE  IInv'
<1> PICK lost \in SUBSET {"graph", "keyword", "parent_expansion"} :
      LET j == job[s]
          value == [read |-> j.read, lost |-> j.failures \cup lost] IN
      /\ At(s, "expand")
      /\ Fault(Cardinality(lost))
      /\ Proceed(s, lost, "batch", [j EXCEPT !.list = value, !.read = None])
      /\ IF lost = {} \/ mode.lenient
         THEN StoreCandidates(Key(s), value)
         ELSE UNCHANGED <<candidateCache, got>>
      /\ UNCHANGED <<mode, source, hydrationCache, changes>>
  BY DEF Expand
<1> DEFINE value == [read |-> job[s].read, lost |-> job[s].failures \cup lost]
           j == [job[s] EXCEPT !.list = value, !.read = None]
           i == [j EXCEPT !.failures = @ \cup lost]
           T == CandidateWaiters(Key(s))
<1>1. /\ pc[s] = "expand" /\ Proceed(s, lost, "batch", j) /\ Fault(Cardinality(lost))
      /\ UNCHANGED <<mode, source, hydrationCache, changes>>
      /\ \/ (lost = {} \/ mode.lenient) /\ StoreCandidates(Key(s), value)
         \/ ~(lost = {} \/ mode.lenient) /\ UNCHANGED <<candidateCache, got>>
  BY DEF At
<1>2. job[s] \in Jobs /\ Fits(s, "expand", job[s], got[s]) /\ lost \in SUBSET Stages
  BY <1>1, Held DEF Stages, Lanes
<1>3. got[s] = None /\ job[s].read # None /\ job[s].read >= job[s].epoch
  BY <1>2 DEF Fits, DeliveredWell, Followed, NotOlder
<1>4. value \in Lists
  BY <1>2, <1>3 DEF Jobs, Lists
<1>5. ASSUME lost = {} \/ mode.lenient PROVE GoodList(value, job[s].epoch)
  <2>1. ~mode.lenient => job[s].failures = {} /\ lost = {}
    BY <1>2, <1>5 DEF Fits, Followed
  <2> QED
    BY <1>3, <1>4, <2>1 DEF GoodList
<1>6. j \in Jobs
  BY <1>2, <1>4 DEF Jobs
<1>7. /\ i.epoch = job[s].epoch /\ i.known = job[s].known /\ i.read = None
      /\ i.list = value /\ i.offset = job[s].offset /\ i.batch = job[s].batch
      /\ i.found = job[s].found /\ i.failures = job[s].failures \cup lost
  BY <1>2 DEF Jobs
<1>8. value # None
  BY <1>4
<1> HIDE DEF i, value
<1>9. ASSUME lost = {} \/ mode.lenient PROVE Fits(s, "batch", i, None)
  <2>1. NotOlder(i)
    BY <1>2, <1>5, <1>7, <1>9 DEF Fits, NotOlder
  <2>2. BatchSound("batch", i)
    BY <1>2, <1>7 DEF Fits, BatchSound
  <2>3. Followed("batch", i)
    BY <1>2, <1>7, <1>8, <1>9 DEF Fits, Followed, Hydrating
  <2>4. i.offset = 0
    BY <1>2, <1>7 DEF Fits, Followed, Hydrating
  <2>5. Accounted(s, "batch", i)
    BY <2>4, CandidatesTyped DEF Accounted
  <2> QED
    BY <2>1, <2>2, <2>3, <2>5 DEF Fits, DeliveredWell
<1>10. Key(s) \in CandidateKeys /\ Key(s).epoch = job[s].epoch
  BY <1>2 DEF Key, CandidateKeys, Query, Jobs
<1>11. /\ got' \in [Searches -> Values] /\ got'[s] = None
       /\ \A t \in Searches \ {s} : got'[t] = got[t] \/ Fits(t, pc[t], job[t], got'[t])
  <2>1. CASE (lost = {} \/ mode.lenient) /\ StoreCandidates(Key(s), value)
    <3>1. got' = [t \in Searches |-> IF t \in T THEN value ELSE got[t]]
      BY <2>1 DEF StoreCandidates, Deliver, CandidateWaiters
    <3>2. s \notin T /\ \A t \in T : t \in Searches /\ pc[t] = "wait" /\ Key(t) = Key(s)
      BY <1>1 DEF CandidateWaiters, At
    <3>3. got' \in [Searches -> Values]
      BY <3>1, <1>4 DEF IInv, SearchesSound, Values
    <3>4. ASSUME NEW t \in T PROVE Fits(t, pc[t], job[t], value)
      <4>1. job[t].epoch = job[s].epoch
        BY <3>2 DEF Key
      <4>2. DeliveredWell(pc[t], job[t], value)
        BY <1>5, <2>1, <3>2, <4>1 DEF DeliveredWell
      <4> QED
        BY <3>2, <4>2, Held, FitsDelivered
    <3> HIDE DEF T
    <3> QED
      BY <1>3, <3>1, <3>2, <3>3, <3>4
  <2>2. CASE UNCHANGED <<candidateCache, got>>
    BY <2>2, <1>3 DEF IInv, SearchesSound
  <2> QED
    BY <1>1, <2>1, <2>2
<1>12. SearchesSound' /\ SourceTyped'
  <2> HIDE DEF j, T
  <2> QED
    BY <1>1, <1>2, <1>6, <1>9, <1>11, ProceedMoves DEF PCs, i
<1>13. CachesTyped' /\ CachesSound'
  <2>1. CASE (lost = {} \/ mode.lenient) /\ StoreCandidates(Key(s), value)
    <3>1. /\ candidates' = [candidates EXCEPT ![Key(s)] = value]
          /\ acquiring' = [acquiring EXCEPT ![Key(s)] = None]
          /\ UNCHANGED <<mode, hydrated, loading>>
      BY <1>1, <2>1 DEF StoreCandidates, hydrationCache
    <3>2. CachesTyped'
      BY <1>4, <3>1 DEF IInv, CachesTyped
    <3>3. GoodList(value, Key(s).epoch)
      BY <1>5, <1>10, <2>1
    <3> HIDE DEF T, j
    <3>4. \A k \in CandidateKeys : candidates'[k] # None => GoodList(candidates'[k], k.epoch)
      BY <3>1, <3>3 DEF IInv, CachesTyped, CachesSound
    <3>5. CachesSound'
      BY <3>1, <3>4 DEF IInv, CachesSound, GoodList
    <3> QED
      BY <3>2, <3>5
  <2>2. CASE UNCHANGED <<candidateCache, got>>
    BY <1>1, <2>2, CachesStay
  <2> QED
    BY <1>1, <2>1, <2>2
<1>14. faults' \in 0..MaxFaults
  <2>1. IsFiniteSet({"graph", "keyword", "parent_expansion"})
    <3>1. IsFiniteSet({} \cup {"graph"})
      BY FS_EmptySet, FS_AddElement
    <3>2. IsFiniteSet(({} \cup {"graph"}) \cup {"keyword"})
      BY <3>1, FS_AddElement
    <3>3. IsFiniteSet((({} \cup {"graph"}) \cup {"keyword"}) \cup {"parent_expansion"})
      BY <3>2, FS_AddElement, ZenonT(60)
    <3>4. {"graph", "keyword", "parent_expansion"}
            = (({} \cup {"graph"}) \cup {"keyword"}) \cup {"parent_expansion"}
      OBVIOUS
    <3> QED
      BY <3>3, <3>4
  <2>2. Cardinality(lost) \in Nat
    BY <2>1, FS_Subset, FS_CardinalityType
  <2> QED
    BY <1>1, <2>2, FaultTyped
<1> QED
  BY <1>12, <1>13, <1>14 DEF IInv

-----------------------------------------------------------------------------
(* Hydration                                                               *)

LEMMA NextBatchSound ==
  ASSUME IInv, NEW s \in Searches, NextBatch(s)
  PROVE  IInv'
<1> DEFINE C == CandidatesOf(s, job[s])
           o == job[s].offset
           rest == SubSeq(C, o + 1, Len(C))
           n == IF Len(rest) < Limit THEN Len(rest) ELSE Limit
           take == SubSeq(rest, 1, n)
           j == [job[s] EXCEPT !.offset = @ + Len(take), !.batch = [NoBatch EXCEPT !.todo = take]]
<1>1. /\ pc[s] = "batch"
      /\ UNCHANGED <<mode, source, candidateCache, hydrationCache, got, changes, faults>>
      /\ \/ rest # <<>> /\ Become(s, j) /\ Goto(s, "version")
         \/ Goto(s, "refine") /\ UNCHANGED job
  <2>1. Candidates(s) = C
    BY DEF Candidates, CandidatesOf
  <2> QED
    BY <2>1 DEF NextBatch, At
<1>2. /\ job[s] \in Jobs /\ Fits(s, "batch", job[s], got[s])
      /\ got' \in [Searches -> Values] /\ got[s] = None
  BY <1>1, Held DEF IInv, SearchesSound, Fits, DeliveredWell
<1>3. /\ C \in Seq(Records) /\ Len(C) \in Nat /\ o \in Nat /\ o <= Len(C)
      /\ \A i \in 1..Len(C) : C[i] \in Records
  BY <1>2, CandidatesTyped DEF Fits, Accounted, Hydrating, Jobs
<1>4. CASE rest # <<>> /\ Become(s, j) /\ Goto(s, "version")
  <2>1. /\ rest \in Seq(Records) /\ Len(rest) = Len(C) - o
        /\ \A i \in 1..Len(C) - o : rest[i] = C[o + i]
    <3> HIDE DEF C, o
    <3>1. o + 1 \in Int /\ Len(C) \in Int /\ \A i \in o + 1..Len(C) : C[i] \in Records
      BY <1>3
    <3>2. /\ rest \in Seq(Records)
          /\ Len(rest) = IF o + 1 <= Len(C) THEN Len(C) - (o + 1) + 1 ELSE 0
          /\ \A i \in 1..Len(C) - (o + 1) + 1 : rest[i] = C[o + 1 + i - 1]
      BY <3>1, SubSeqProperties
    <3> HIDE DEF rest
    <3>3. \A i \in 1..Len(C) - o : i \in 1..Len(C) - (o + 1) + 1 /\ o + 1 + i - 1 = o + i
      BY <1>3
    <3>4. Len(rest) = Len(C) - o
      BY <1>3, <3>2
    <3> QED
      BY <3>2, <3>3, <3>4
  <2>2. Len(rest) # 0
    BY <1>4, <2>1, EmptySeq
  <2>3. n \in Nat \ {0} /\ n <= Len(rest)
    <3> HIDE DEF C, o
    <3> QED
      BY <1>3, <2>1, <2>2
  <2>4. take \in Seq(Records) /\ Len(take) = n /\ \A i \in 1..n : take[i] = rest[i]
    <3> HIDE DEF C, o, rest, n
    <3>0. \A i \in 1..n : i \in 1..Len(rest)
      BY <2>1, <2>3, LenProperties
    <3>1. 1 \in Int /\ n \in Int /\ \A i \in 1..n : rest[i] \in Records
      BY <2>1, <2>3, <3>0, ElementOfSeq
    <3>2. /\ take \in Seq(Records) /\ Len(take) = IF 1 <= n THEN n - 1 + 1 ELSE 0
          /\ \A i \in 1..n - 1 + 1 : take[i] = rest[1 + i - 1]
      BY <3>1, SubSeqProperties
    <3> QED
      BY <2>3, <3>2
  <2> HIDE DEF rest, n, take
  <2>5. take # <<>>
    BY <2>3, <2>4, EmptySeq
  <2>6. j \in Jobs
    <3>1. [NoBatch EXCEPT !.todo = take] \in Batches
      BY <2>4, NothingTyped DEF Batches
    <3>2. job[s].offset + Len(take) \in Nat
      BY <1>3, <2>3, <2>4
    <3> QED
      BY <1>2, <3>1, <3>2 DEF Jobs
  <2>7. /\ j.epoch = job[s].epoch /\ j.known = job[s].known /\ j.read = job[s].read
        /\ j.list = job[s].list /\ j.offset = o + n
        /\ j.batch.todo = take /\ j.batch.misses = <<>> /\ j.batch.keys = Nothing
        /\ j.batch.loads = Nothing
        /\ j.found = job[s].found /\ j.failures = job[s].failures
    BY <1>2, <2>4 DEF Jobs, NoBatch
  <2>8. CandidatesOf(s, j) = C
    BY <2>7 DEF CandidatesOf
  <2> HIDE DEF j, C, o
  <2>9. NotOlder(j)
    BY <1>2, <2>7 DEF Fits, NotOlder
  <2>10. BatchSound("version", j)
    BY <2>5, <2>7 DEF BatchSound, Nothing
  <2>11. Followed("version", j)
    BY <1>2, <2>7 DEF Fits, Followed, Hydrating
  <2>12. Accounted(s, "version", j)
    <3>1. j.offset <= Len(C)
      BY <1>3, <2>1, <2>3, <2>7
    <3>2. ASSUME "hydration" \notin j.failures, NEW i \in 1..j.offset
          PROVE  j.found[C[i]] # None \/ C[i] \in Elements(j.batch.todo) \cup Elements(j.batch.misses)
      <4>1. CASE i \in 1..o
        <5>1. job[s].batch.todo = <<>> /\ job[s].batch.misses = <<>>
          BY <1>2 DEF Fits, BatchSound
        <5>2. Elements(<<>>) = {}
          BY NothingTyped
        <5> QED
          BY <1>2, <2>7, <3>2, <4>1, <5>1, <5>2 DEF Fits, Accounted, C, o
      <4>2. CASE i \notin 1..o
        <5>1. i - o \in 1..n /\ i - o \in 1..Len(C) - o /\ o + (i - o) = i
          BY <1>3, <2>1, <2>3, <2>7, <4>2
        <5>2. take[i - o] = C[i]
          BY <2>1, <2>4, <5>1
        <5> QED
          BY <2>4, <2>7, <5>1, <5>2 DEF Elements
      <4> QED
        BY <4>1, <4>2
    <3> QED
      BY <2>8, <3>1, <3>2 DEF Accounted
  <2>13. Fits(s, "version", j, got'[s])
    BY <1>1, <1>2, <2>9, <2>10, <2>11, <2>12 DEF Fits, DeliveredWell
  <2>14. SearchesSound' /\ SourceTyped'
    BY <1>1, <1>2, <1>4, <2>6, <2>13, OneMoves DEF PCs
  <2> QED
    BY <1>1, <2>14, CachesStay DEF IInv
<1>5. CASE Goto(s, "refine") /\ UNCHANGED job
  <2>1. Become(s, job[s])
    BY <1>5, SMTT(40) DEF Become, IInv, SearchesSound
  <2>2. Fits(s, "refine", job[s], got'[s])
    BY <1>1, <1>2 DEF Fits, DeliveredWell, BatchSound, Followed, Accounted, Hydrating
  <2>3. SearchesSound' /\ SourceTyped'
    BY <1>1, <1>2, <1>5, <2>1, <2>2, OneMoves DEF PCs
  <2> QED
    BY <1>1, <2>3, CachesStay DEF IInv
<1> QED
  BY <1>1, <1>4, <1>5

\* A candidate is done with: found, or put among the misses.
LEMMA AdvanceMoves ==
  ASSUME IInv, UNCHANGED <<mode, source, changes>>,
         NEW s \in Searches, NEW j \in Jobs, Advance(s, j),
         j.batch.todo # <<>>, NotOlder(j),
         \A r \in Records : j.batch.keys[r] # None => j.batch.keys[r] <= version[r],
         j.batch.loads = Nothing, j.list # None, ~mode.lenient => j.failures = {},
         j.offset <= Len(CandidatesOf(s, j)),
         "hydration" \notin j.failures =>
           \A i \in 1..j.offset :
             \/ j.found[CandidatesOf(s, j)[i]] # None
             \/ CandidatesOf(s, j)[i] \in Elements(Tail(j.batch.todo)) \cup Elements(j.batch.misses),
         got' \in [Searches -> Values], got'[s] = None,
         \A t \in Searches \ {s} : got'[t] = got[t]
  PROVE  SearchesSound' /\ SourceTyped'
<1> DEFINE b == [j.batch EXCEPT !.todo = Tail(@), !.seen = 0]
           i == [j EXCEPT !.batch = b]
           at == IF b.todo # <<>> THEN "version" ELSE IF b.misses # <<>> THEN "load" ELSE "batch"
<1>1. Goto(s, at) /\ Become(s, i)
  BY DEF Advance
<1>2. j.batch \in Batches /\ Tail(j.batch.todo) \in Seq(Records)
  <2>1. j.batch \in Batches /\ j.batch.todo \in Seq(Records)
    BY DEF Jobs, Batches
  <2> QED
    BY <2>1, ElementsOfTail
<1>3. i \in Jobs
  <2>1. b \in Batches
    <3>1. 0 \in Epochs
      BY DEF Epochs
    <3> QED
      BY <1>2, <3>1 DEF Batches
  <2> HIDE DEF b
  <2> QED
    BY <2>1 DEF Jobs
<1>4. /\ i.epoch = j.epoch /\ i.known = j.known /\ i.read = j.read /\ i.list = j.list
      /\ i.offset = j.offset /\ i.found = j.found /\ i.failures = j.failures
      /\ i.batch.todo = Tail(j.batch.todo) /\ i.batch.misses = j.batch.misses
      /\ i.batch.keys = j.batch.keys /\ i.batch.loads = Nothing
  BY <1>2 DEF Jobs, Batches
<1>5. /\ at \in {"version", "load", "batch"}
      /\ at = "version" <=> i.batch.todo # <<>>
      /\ at = "batch" => i.batch.misses = <<>>
  <2>1. b.todo = i.batch.todo /\ b.misses = i.batch.misses
    BY <1>2, <1>4 DEF Batches
  <2> HIDE DEF i, b
  <2> QED
    BY <2>1
<1> HIDE DEF i, at
<1>6. NotOlder(i)
  BY <1>4 DEF NotOlder
<1>7. BatchSound(at, i)
  BY <1>4, <1>5 DEF BatchSound, Nothing
<1>8. Followed(at, i) /\ Accounted(s, at, i)
  BY <1>4, <1>5 DEF Followed, Accounted, CandidatesOf, Hydrating
<1>9. Fits(s, at, i, got'[s])
  BY <1>5, <1>6, <1>7, <1>8 DEF Fits, DeliveredWell
<1> QED
  BY <1>1, <1>3, <1>5, <1>9, OneMoves DEF PCs

\* Where a search works on the first candidate of a batch.
LEMMA AtCandidate ==
  ASSUME IInv, NEW s \in Searches, pc[s] \in {"version", "lookup", "join"}
  PROVE  LET j == job[s] IN
         /\ j \in Jobs /\ j.batch \in Batches /\ j.batch.todo # <<>>
         /\ j.batch.todo \in Seq(Records) /\ j.batch.misses \in Seq(Records)
         /\ Target(s) \in Records /\ Target(s) = Head(j.batch.todo)
         /\ Elements(j.batch.todo) = {Target(s)} \cup Elements(Tail(j.batch.todo))
         /\ NotOlder(j) /\ j.batch.loads = Nothing /\ j.list # None
         /\ \A r \in Records : j.batch.keys[r] # None => j.batch.keys[r] <= version[r]
         /\ ~mode.lenient => j.failures = {}
         /\ j.offset \in Nat /\ j.offset <= Len(CandidatesOf(s, j))
         /\ "hydration" \notin j.failures =>
              \A i \in 1..j.offset :
                \/ j.found[CandidatesOf(s, j)[i]] # None
                \/ CandidatesOf(s, j)[i] \in Elements(j.batch.todo) \cup Elements(j.batch.misses)
         /\ pc[s] # "version" => /\ j.known[Target(s)] <= j.batch.seen
                                 /\ j.batch.seen <= version[Target(s)]
         /\ pc[s] # "join" => got[s] = None
         /\ \A i \in 1..j.offset : CandidatesOf(s, j)[i] \in Records
<1>1. job[s] \in Jobs /\ Fits(s, pc[s], job[s], got[s])
  BY Held
<1>2. job[s].batch \in Batches /\ job[s].offset \in Nat
  BY <1>1 DEF Jobs
<1>3. job[s].batch.todo \in Seq(Records) /\ job[s].batch.misses \in Seq(Records)
  BY <1>2 DEF Batches
<1>4. job[s].batch.todo # <<>>
  BY <1>1 DEF Fits, BatchSound
<1>5. /\ Target(s) \in Records /\ Target(s) = Head(job[s].batch.todo)
      /\ Elements(job[s].batch.todo) = {Target(s)} \cup Elements(Tail(job[s].batch.todo))
  BY <1>3, <1>4, ElementsOfTail DEF Target
<1>6. job[s].offset <= Len(CandidatesOf(s, job[s]))
  BY <1>1 DEF Fits, Accounted, Hydrating
<1>7. \A i \in 1..job[s].offset : CandidatesOf(s, job[s])[i] \in Records
  <2>1. /\ Len(CandidatesOf(s, job[s])) \in Nat
        /\ \A i \in 1..Len(CandidatesOf(s, job[s])) : CandidatesOf(s, job[s])[i] \in Records
    BY CandidatesTyped
  <2> QED
    BY <1>2, <1>6, <2>1
<1>8. NotOlder(job[s]) /\ job[s].list # None /\ (~mode.lenient => job[s].failures = {})
  BY <1>1 DEF Fits, Followed, Hydrating
<1>9. /\ job[s].batch.loads = Nothing
      /\ \A r \in Records : job[s].batch.keys[r] # None => job[s].batch.keys[r] <= version[r]
      /\ pc[s] # "version" => /\ job[s].known[Target(s)] <= job[s].batch.seen
                              /\ job[s].batch.seen <= version[Target(s)]
  BY <1>1, <1>5 DEF Fits, BatchSound
<1>10. "hydration" \notin job[s].failures =>
         \A i \in 1..job[s].offset :
           \/ job[s].found[CandidatesOf(s, job[s])[i]] # None
           \/ CandidatesOf(s, job[s])[i] \in
                Elements(job[s].batch.todo) \cup Elements(job[s].batch.misses)
  BY <1>1 DEF Fits, Accounted
<1>11. pc[s] # "join" => got[s] = None
  BY <1>1 DEF Fits, DeliveredWell
<1> QED
  BY <1>1, <1>2, <1>3, <1>4, <1>5, <1>6, <1>7, <1>8, <1>9, <1>10, <1>11

LEMMA HitMoves ==
  ASSUME IInv, UNCHANGED <<mode, source, changes>>,
         NEW s \in Searches, pc[s] \in {"lookup", "join"},
         NEW value \in Hydrations, value.version >= job[s].batch.seen, Hit(s, value),
         got' \in [Searches -> Values], got'[s] = None,
         \A t \in Searches \ {s} : got'[t] = got[t]
  PROVE  SearchesSound' /\ SourceTyped'
<1> DEFINE x == Target(s)
           j == [job[s] EXCEPT !.found[x] = value]
<1>1. pc[s] \in {"version", "lookup", "join"} /\ pc[s] # "version"
  OBVIOUS
<1>2. /\ job[s] \in Jobs /\ x \in Records /\ job[s].batch.todo # <<>>
      /\ Elements(job[s].batch.todo) = {x} \cup Elements(Tail(job[s].batch.todo))
      /\ job[s].known[x] <= job[s].batch.seen /\ NotOlder(job[s])
  BY <1>1, AtCandidate
<1>3. j \in Jobs
  BY <1>2 DEF Jobs
<1>4. /\ j.epoch = job[s].epoch /\ j.known = job[s].known /\ j.read = job[s].read
      /\ j.list = job[s].list /\ j.offset = job[s].offset /\ j.batch = job[s].batch
      /\ j.failures = job[s].failures /\ j.found = [job[s].found EXCEPT ![x] = value]
      /\ job[s].found \in [Records -> Hydrations \cup {None}]
  BY <1>2 DEF Jobs
<1>5. value.version >= job[s].known[x]
  BY <1>2 DEF Jobs, Batches, Epochs, Hydrations
<1>6. Advance(s, j)
  BY DEF Hit
<1>7. CandidatesOf(s, j) = CandidatesOf(s, job[s])
  BY <1>4 DEF CandidatesOf
<1> HIDE DEF j, x
<1>8. NotOlder(j)
  BY <1>2, <1>4, <1>5 DEF NotOlder
<1>9. ASSUME "hydration" \notin j.failures, NEW i \in 1..j.offset
      PROVE  \/ j.found[CandidatesOf(s, j)[i]] # None
             \/ CandidatesOf(s, j)[i] \in Elements(Tail(j.batch.todo)) \cup Elements(j.batch.misses)
  <2> DEFINE r == CandidatesOf(s, job[s])[i]
  <2>1. r \in Records /\ (job[s].found[r] # None
          \/ r \in Elements(job[s].batch.todo) \cup Elements(job[s].batch.misses))
    BY <1>1, <1>4, <1>9, AtCandidate
  <2>2. r = CandidatesOf(s, j)[i]
    BY <1>7
  <2> HIDE DEF r
  <2>3. CASE r = x
    BY <1>4, <2>1, <2>2, <2>3
  <2>4. CASE r # x
    BY <1>2, <1>4, <2>1, <2>2, <2>4
  <2> QED
    BY <2>3, <2>4
<1>10. /\ j.batch.todo # <<>> /\ j.batch.loads = Nothing /\ j.list # None
       /\ \A r \in Records : j.batch.keys[r] # None => j.batch.keys[r] <= version[r]
       /\ ~mode.lenient => j.failures = {}
       /\ j.offset <= Len(CandidatesOf(s, j))
  BY <1>1, <1>4, <1>7, AtCandidate
<1> QED
  BY <1>3, <1>6, <1>8, <1>9, <1>10, AdvanceMoves

LEMMA MissMoves ==
  ASSUME IInv, UNCHANGED <<mode, source, changes>>,
         NEW s \in Searches, pc[s] \in {"version", "lookup", "join"},
         NEW key \in Epochs \cup {None}, key # None => key <= version[Target(s)], Miss(s, key),
         got' \in [Searches -> Values], got'[s] = None,
         \A t \in Searches \ {s} : got'[t] = got[t]
  PROVE  SearchesSound' /\ SourceTyped'
<1> DEFINE x == Target(s)
           m == Append(job[s].batch.misses, x)
           b == [job[s].batch EXCEPT !.misses = m, !.keys[x] = key]
           j == [job[s] EXCEPT !.batch = b]
<1>2. /\ job[s] \in Jobs /\ job[s].batch \in Batches /\ x \in Records
      /\ job[s].batch.todo # <<>> /\ job[s].batch.misses \in Seq(Records)
      /\ Elements(job[s].batch.todo) = {x} \cup Elements(Tail(job[s].batch.todo))
  BY AtCandidate
<1>3. m \in Seq(Records) /\ Elements(m) = Elements(job[s].batch.misses) \cup {x}
  BY <1>2, ElementsOfAppend
<1>4. b \in Batches
  <2> HIDE DEF m, x
  <2> QED
    BY <1>2, <1>3 DEF Batches
<1>5. /\ b.todo = job[s].batch.todo /\ b.misses = m /\ b.loads = job[s].batch.loads
      /\ b.keys = [job[s].batch.keys EXCEPT ![x] = key]
      /\ job[s].batch.keys \in [Records -> Epochs \cup {None}]
  BY <1>2 DEF Batches
<1>6. j \in Jobs
  <2> HIDE DEF b
  <2> QED
    BY <1>2, <1>4 DEF Jobs
<1>7. /\ j.epoch = job[s].epoch /\ j.known = job[s].known /\ j.read = job[s].read
      /\ j.list = job[s].list /\ j.offset = job[s].offset /\ j.batch = b
      /\ j.failures = job[s].failures /\ j.found = job[s].found
  BY <1>2 DEF Jobs
<1>8. Advance(s, j)
  <2>1. [job[s] EXCEPT !.batch.misses = Append(@, Target(s)), !.batch.keys[Target(s)] = key] = j
    BY <1>2 DEF Jobs, Batches
  <2> HIDE DEF j
  <2> QED
    BY <2>1 DEF Miss
<1>9. CandidatesOf(s, j) = CandidatesOf(s, job[s])
  BY <1>7 DEF CandidatesOf
<1> HIDE DEF j, b, m
<1>10. NotOlder(j)
  BY <1>7, AtCandidate DEF NotOlder
<1>11. ASSUME "hydration" \notin j.failures, NEW i \in 1..j.offset
       PROVE  \/ j.found[CandidatesOf(s, j)[i]] # None
              \/ CandidatesOf(s, j)[i] \in Elements(Tail(j.batch.todo)) \cup Elements(j.batch.misses)
  <2> DEFINE r == CandidatesOf(s, job[s])[i]
  <2>1. \/ job[s].found[r] # None
        \/ r \in Elements(job[s].batch.todo) \cup Elements(job[s].batch.misses)
    BY <1>7, <1>11, AtCandidate
  <2>2. r = CandidatesOf(s, j)[i]
    BY <1>9
  <2> HIDE DEF r
  <2> QED
    BY <1>2, <1>3, <1>5, <1>7, <2>1, <2>2
<1>12. \A r \in Records : j.batch.keys[r] # None => j.batch.keys[r] <= version[r]
  <2>1. \A r \in Records : job[s].batch.keys[r] # None => job[s].batch.keys[r] <= version[r]
    BY AtCandidate
  <2> QED
    BY <1>2, <1>5, <1>7, <2>1
<1>13. /\ j.batch.todo # <<>> /\ j.batch.loads = Nothing /\ j.list # None
       /\ ~mode.lenient => j.failures = {}
       /\ j.offset <= Len(CandidatesOf(s, j))
  BY <1>5, <1>7, <1>9, AtCandidate
<1> QED
  BY <1>6, <1>8, <1>10, <1>11, <1>12, <1>13, AdvanceMoves

LEMMA ReadVersionSound ==
  ASSUME IInv, NEW s \in Searches, ReadVersion(s)
  PROVE  IInv'
<1>1. /\ pc[s] = "version"
      /\ UNCHANGED <<mode, source, candidateCache, hydrationCache, got, changes>>
  BY DEF ReadVersion, At
<1>2. /\ job[s] \in Jobs /\ job[s].batch \in Batches /\ Target(s) \in Records
      /\ got[s] = None /\ Fits(s, "version", job[s], got[s])
  BY <1>1, AtCandidate, Held
<1>3. got' \in [Searches -> Values] /\ got' = got
  BY <1>1 DEF IInv, SearchesSound
<1>4. CASE Fault(1) /\ Miss(s, None)
  <2>1. SearchesSound' /\ SourceTyped'
    BY <1>1, <1>2, <1>3, <1>4, MissMoves
  <2> QED
    BY <1>1, <1>4, <2>1, CachesStay, FaultTyped DEF IInv
<1>5. CASE /\ Become(s, [job[s] EXCEPT !.batch.seen = version[Target(s)]])
           /\ Goto(s, "lookup")
           /\ UNCHANGED faults
  <2> DEFINE b == [job[s].batch EXCEPT !.seen = version[Target(s)]]
             j == [job[s] EXCEPT !.batch = b]
  <2>1. version[Target(s)] \in Epochs
    BY <1>2 DEF IInv, SourceTyped
  <2>2. b \in Batches
    BY <1>2, <2>1 DEF Batches
  <2>3. /\ b.todo = job[s].batch.todo /\ b.misses = job[s].batch.misses
        /\ b.keys = job[s].batch.keys /\ b.loads = job[s].batch.loads
        /\ b.seen = version[Target(s)]
    BY <1>2 DEF Batches
  <2> HIDE DEF b
  <2>4. j \in Jobs
    BY <1>2, <2>2 DEF Jobs
  <2>5. /\ j.epoch = job[s].epoch /\ j.known = job[s].known /\ j.read = job[s].read
        /\ j.list = job[s].list /\ j.offset = job[s].offset /\ j.batch = b
        /\ j.found = job[s].found /\ j.failures = job[s].failures
    BY <1>2 DEF Jobs
  <2>6. Become(s, j)
    BY <1>5 DEF b
  <2> HIDE DEF j
  <2>7. NotOlder(j)
    BY <1>2, <2>5 DEF Fits, NotOlder
  <2>8. BatchSound("lookup", j)
    <3>1. /\ Head(j.batch.todo) = Target(s) /\ j.known[Target(s)] <= version[Target(s)]
          /\ version[Target(s)] \in Nat
      BY <1>2, <2>1, <2>3, <2>5 DEF Fits, NotOlder, Target, Epochs
    <3> QED
      BY <1>2, <2>3, <2>5, <3>1 DEF Fits, BatchSound
  <2>9. Followed("lookup", j)
    BY <1>2, <2>5 DEF Fits, Followed, Hydrating
  <2>10. Accounted(s, "lookup", j)
    BY <1>2, <2>3, <2>5 DEF Fits, Accounted, CandidatesOf, Hydrating
  <2>11. Fits(s, "lookup", j, got'[s])
    BY <1>2, <1>3, <2>7, <2>8, <2>9, <2>10 DEF Fits, DeliveredWell
  <2>12. SearchesSound' /\ SourceTyped'
    BY <1>1, <1>3, <1>5, <2>4, <2>6, <2>11, OneMoves DEF PCs
  <2> QED
    BY <1>1, <1>5, <2>12, CachesStay DEF IInv
<1> QED
  BY <1>4, <1>5 DEF ReadVersion

LEMMA LookupSound ==
  ASSUME IInv, NEW s \in Searches, Lookup(s)
  PROVE  IInv'
<1> DEFINE k == TargetKey(s)
<1>1. /\ pc[s] = "lookup"
      /\ UNCHANGED <<mode, source, candidateCache, hydrated, got, changes, faults>>
  BY DEF Lookup, At
<1>2. /\ job[s] \in Jobs /\ job[s].batch \in Batches /\ Target(s) \in Records
      /\ got[s] = None /\ Fits(s, "lookup", job[s], got[s])
      /\ job[s].batch.seen <= version[Target(s)]
  BY <1>1, AtCandidate, Held
<1>3. got' \in [Searches -> Values] /\ got' = got
  BY <1>1 DEF IInv, SearchesSound
<1>4. k \in HydrationKeys /\ k.version = job[s].batch.seen /\ k.version \in Epochs
  BY <1>2 DEF TargetKey, HydrationKeys, Batches
<1> HIDE DEF k
<1>5. CASE hydrated[k] # None /\ Hit(s, hydrated[k]) /\ UNCHANGED loading
  <2>1. hydrated[k] \in Hydrations /\ hydrated[k].version >= job[s].batch.seen
    BY <1>4, <1>5 DEF IInv, CachesTyped, CachesSound
  <2>2. SearchesSound' /\ SourceTyped'
    BY <1>1, <1>2, <1>3, <1>5, <2>1, HitMoves
  <2> QED
    BY <1>1, <1>5, <2>2, CachesStay DEF IInv, hydrationCache
<1>6. CASE loading' = [loading EXCEPT ![k] = s] /\ Miss(s, k.version)
  <2>1. SearchesSound' /\ SourceTyped'
    BY <1>1, <1>2, <1>3, <1>4, <1>6, MissMoves
  <2>2. CachesTyped' /\ CachesSound'
    BY <1>1, <1>6 DEF IInv, CachesTyped, CachesSound, candidateCache, GoodList
  <2> QED
    BY <1>1, <2>1, <2>2 DEF IInv
<1>7. CASE Goto(s, "join") /\ UNCHANGED <<job, loading>>
  <2>1. Become(s, job[s])
    BY <1>7 DEF Become, IInv, SearchesSound
  <2>2. Fits(s, "join", job[s], got'[s])
    BY <1>2, <1>3 DEF Fits, DeliveredWell, BatchSound, Followed, Accounted, Hydrating
  <2>3. SearchesSound' /\ SourceTyped'
    BY <1>1, <1>2, <1>3, <1>7, <2>1, <2>2, OneMoves DEF PCs
  <2> QED
    BY <1>1, <1>7, <2>3, CachesStay DEF IInv, hydrationCache
<1> QED
  BY <1>5, <1>6, <1>7 DEF Lookup, k

LEMMA JoinedSound ==
  ASSUME IInv, NEW s \in Searches, Joined(s)
  PROVE  IInv'
<1>1. /\ pc[s] = "join" /\ got[s] # None
      /\ UNCHANGED <<mode, source, candidateCache, hydrationCache, changes, faults>>
      /\ got' = [got EXCEPT ![s] = None]
  BY DEF Joined, At
<1>2. /\ got' \in [Searches -> Values] /\ got'[s] = None
      /\ \A t \in Searches \ {s} : got'[t] = got[t]
  BY <1>1 DEF IInv, SearchesSound, Values
<1>3. /\ job[s] \in Jobs /\ job[s].batch \in Batches /\ Fits(s, "join", job[s], got[s])
      /\ job[s].batch.seen <= version[Target(s)]
  BY <1>1, AtCandidate, Held
<1>4. SearchesSound' /\ SourceTyped'
  <2>1. CASE got[s] \notin Errors /\ Hit(s, got[s])
    <3>1. got[s] \in Hydrations /\ got[s].version >= job[s].batch.seen
      BY <1>1, <1>3, <2>1 DEF Fits, DeliveredWell
    <3> QED
      BY <1>1, <1>2, <2>1, <3>1, HitMoves
  <2>2. CASE Miss(s, job[s].batch.seen)
    <3>1. job[s].batch.seen \in Epochs
      BY <1>3 DEF Batches
    <3> QED
      BY <1>1, <1>2, <1>3, <2>2, <3>1, MissMoves
  <2>3. CASE End(s, "cancelled")
    <3>1. Fits(s, "cancelled", NoJob, None)
      BY NoJobFits DEF IInv
    <3> QED
      BY <1>1, <1>2, <2>3, <3>1, OneMoves, NothingTyped DEF PCs, End
  <2> QED
    BY <2>1, <2>2, <2>3 DEF Joined
<1> QED
  BY <1>1, <1>4, CachesStay DEF IInv

\* Settled flights leave the caches sound, and deliver what fits the waiters.
LEMMA Settled ==
  ASSUME IInv, UNCHANGED <<mode, candidateCache>>,
         NEW s \in Searches, pc[s] = "load",
         NEW Good \in SUBSET Records, NEW Bad \in SUBSET Records, NEW value,
         \A r \in Good : /\ value[r] \in Hydrations
                         /\ job[s].batch.keys[r] # None => value[r].version >= job[s].batch.keys[r],
         SettleFlights(s, Good, Bad, value)
  PROVE  /\ CachesTyped' /\ CachesSound'
         /\ got' \in [Searches -> Values] /\ got'[s] = None
         /\ \A t \in Searches : got'[t] = got[t] \/ Fits(t, pc[t], job[t], got'[t])
<1> DEFINE set == KeysOf(s, Good)
           failed == KeysOf(s, Bad)
           T == HydrationWaiters(set \cup failed)
<1>1. /\ hydrated' = [k \in HydrationKeys |-> IF k \in set THEN value[k.record] ELSE hydrated[k]]
      /\ loading' = [k \in HydrationKeys |-> IF k \in set \cup failed THEN None ELSE loading[k]]
      /\ got' = [t \in Searches |->
                   IF t \in T THEN IF TargetKey(t) \in set THEN value[Target(t)] ELSE Error
                   ELSE got[t]]
  <2> HIDE DEF set, failed
  <2> QED
    BY DEF SettleFlights, Deliver, set, failed
<1>2. ASSUME NEW k \in set
      PROVE  /\ k.record \in Good /\ value[k.record] \in Hydrations
             /\ value[k.record].version >= k.version
  BY DEF KeysOf
<1>3. ASSUME NEW t \in T
      PROVE  /\ t \in Searches /\ t # s /\ pc[t] = "join" /\ TargetKey(t).record = Target(t)
             /\ TargetKey(t).version = job[t].batch.seen
  BY DEF HydrationWaiters, At, TargetKey
<1> HIDE DEF set, failed, T
<1>4. got[s] = None
  BY Held DEF Fits, DeliveredWell
<1>5. ASSUME NEW t \in T
      PROVE  Fits(t, pc[t], job[t], got'[t]) /\ got'[t] \in Values
  <2>1. CASE TargetKey(t) \in set
    <3>1. got'[t] = value[Target(t)]
      BY <1>1, <1>3, <2>1
    <3>2. got'[t] \in Hydrations /\ got'[t].version >= job[t].batch.seen
      BY <1>2, <1>3, <2>1, <3>1
    <3>3. DeliveredWell(pc[t], job[t], got'[t])
      BY <1>3, <3>2 DEF DeliveredWell
    <3> QED
      BY <1>3, <3>2, <3>3, Held, FitsDelivered DEF Values
  <2>2. CASE TargetKey(t) \notin set
    <3>1. got'[t] = Error
      BY <1>1, <1>3, <2>2
    <3>2. DeliveredWell(pc[t], job[t], got'[t])
      BY <1>3, <3>1 DEF DeliveredWell, Errors
    <3> QED
      BY <1>3, <3>1, <3>2, Held, FitsDelivered DEF Values, Errors
  <2> QED
    BY <2>1, <2>2
<1>6. got' \in [Searches -> Values]
  BY <1>1, <1>5 DEF IInv, SearchesSound
<1>7. got'[s] = None /\ \A t \in Searches : got'[t] = got[t] \/ Fits(t, pc[t], job[t], got'[t])
  BY <1>1, <1>3, <1>4, <1>5
<1>8. CachesTyped'
  BY <1>1, <1>2 DEF IInv, CachesTyped, candidateCache
<1>9. CachesSound'
  BY <1>1, <1>2 DEF IInv, CachesTyped, CachesSound, candidateCache, GoodList
<1> QED
  BY <1>6, <1>7, <1>8, <1>9

\* A batch is over: its records are found, or a failure is recorded or raised.
LEMMA BatchOver ==
  ASSUME IInv, UNCHANGED <<mode, source, candidateCache, changes>>,
         NEW s \in Searches, pc[s] = "load",
         NEW Good \in SUBSET Misses(s), NEW Bad \in SUBSET Misses(s), NEW Kept \in SUBSET Good,
         NEW value, NEW lost \in SUBSET {"hydration"}, Good = Misses(s) \/ lost = {"hydration"},
         \A r \in Good : /\ value[r] \in Hydrations /\ value[r].version >= job[s].known[r]
                         /\ job[s].batch.keys[r] # None => value[r].version >= job[s].batch.keys[r],
         SettleFlights(s, Kept, Bad, value),
         Proceed(s, lost, "batch", After(s, Good, value))
  PROVE  SearchesSound' /\ SourceTyped' /\ CachesTyped' /\ CachesSound'
<1> DEFINE f == [r \in Records |-> IF r \in Good THEN value[r] ELSE job[s].found[r]]
           j == [job[s] EXCEPT !.batch = NoBatch, !.found = f]
           i == [j EXCEPT !.failures = @ \cup lost]
<1>1. /\ job[s] \in Jobs /\ Fits(s, "load", job[s], got[s]) /\ lost \in SUBSET Stages
  BY Held DEF Stages
<1>2. Misses(s) \subseteq Records /\ Good \subseteq Records
  <2>1. job[s].batch.misses \in Seq(Records)
    BY <1>1 DEF Jobs, Batches
  <2> QED
    BY <2>1, ElementsTyped DEF Misses
<1>3. f \in [Records -> Hydrations \cup {None}]
  BY <1>1, <1>2 DEF Jobs
<1>4. After(s, Good, value) = j
  BY <1>1 DEF After, Jobs
<1> HIDE DEF f
<1>5. j \in Jobs
  BY <1>1, <1>3, NothingTyped DEF Jobs
<1>6. /\ i.epoch = job[s].epoch /\ i.known = job[s].known /\ i.read = job[s].read
      /\ i.list = job[s].list /\ i.offset = job[s].offset /\ i.found = f
      /\ i.failures = job[s].failures \cup lost
      /\ i.batch.todo = <<>> /\ i.batch.misses = <<>> /\ i.batch.keys = Nothing
      /\ i.batch.loads = Nothing
  BY <1>1 DEF Jobs, NoBatch
<1>7. CandidatesOf(s, i) = CandidatesOf(s, job[s])
  BY <1>6 DEF CandidatesOf
<1> HIDE DEF i
<1>8. ASSUME lost = {} \/ mode.lenient PROVE Fits(s, "batch", i, None)
  <2>1. \A r \in Records : f[r] # None => f[r].version >= job[s].known[r]
    BY <1>1 DEF f, Fits, NotOlder
  <2>2. NotOlder(i)
    BY <1>1, <1>6, <2>1 DEF Fits, NotOlder
  <2>3. BatchSound("batch", i)
    BY <1>6 DEF BatchSound, Nothing
  <2>4. Followed("batch", i)
    BY <1>1, <1>6, <1>8 DEF Fits, Followed, Hydrating
  <2>5. Accounted(s, "batch", i)
    <3>1. i.offset \in Nat /\ i.offset <= Len(CandidatesOf(s, i))
      BY <1>1, <1>6, <1>7 DEF Fits, Accounted, Hydrating, Jobs
    <3>2. ASSUME "hydration" \notin i.failures, NEW n \in 1..i.offset
          PROVE  i.found[CandidatesOf(s, i)[n]] # None
      <4> DEFINE r == CandidatesOf(s, i)[n]
      <4>1. r \in Records
        <5>1. /\ Len(CandidatesOf(s, i)) \in Nat
              /\ \A m \in 1..Len(CandidatesOf(s, i)) : CandidatesOf(s, i)[m] \in Records
          BY CandidatesTyped
        <5> QED
          BY <3>1, <5>1
      <4>2. Good = Misses(s) /\ "hydration" \notin job[s].failures
        BY <1>6, <3>2
      <4>3. job[s].batch.todo = <<>>
        BY <1>1 DEF Fits, BatchSound
      <4>4. job[s].found[r] # None \/ r \in Misses(s)
        BY <1>1, <1>6, <1>7, <4>2, <4>3, NothingTyped DEF Fits, Accounted, Misses
      <4> HIDE DEF r
      <4>5. f[r] # None
        BY <4>1, <4>2, <4>4 DEF f
      <4> QED
        BY <1>6, <4>5 DEF r
    <3> QED
      BY <3>1, <3>2 DEF Accounted
  <2> QED
    BY <2>2, <2>3, <2>4, <2>5 DEF Fits, DeliveredWell
<1>9. /\ CachesTyped' /\ CachesSound'
      /\ got' \in [Searches -> Values] /\ got'[s] = None
      /\ \A t \in Searches \ {s} : got'[t] = got[t] \/ Fits(t, pc[t], job[t], got'[t])
  <2>1. Kept \in SUBSET Records /\ Bad \in SUBSET Records
    BY <1>2
  <2>2. \A r \in Kept : /\ value[r] \in Hydrations
                      /\ job[s].batch.keys[r] # None => value[r].version >= job[s].batch.keys[r]
    OBVIOUS
  <2>3. UNCHANGED <<mode, candidateCache>>
    OBVIOUS
  <2>4. /\ CachesTyped' /\ CachesSound'
        /\ got' \in [Searches -> Values] /\ got'[s] = None
    BY <2>1, <2>2, <2>3, Settled
  <2>5. ASSUME NEW t \in Searches
        PROVE  got'[t] = got[t] \/ Fits(t, pc[t], job[t], got'[t])
    BY <2>1, <2>2, <2>3, Settled
  <2> QED
    BY <2>4, <2>5
<1>10. SearchesSound' /\ SourceTyped'
  <2>1. Proceed(s, lost, "batch", j)
    BY <1>4
  <2> HIDE DEF j
  <2> QED
    BY <1>1, <1>5, <1>8, <1>9, <2>1, ProceedMoves DEF PCs, i
<1> QED
  BY <1>9, <1>10

\* What a load returns is the record as it is, at or above all versions read.
LEMMA CurrentFits ==
  ASSUME IInv, NEW s \in Searches, NEW r \in Records
  PROVE  /\ Current[r] \in Hydrations /\ Current[r].version >= job[s].known[r]
         /\ job[s].batch.keys[r] # None => Current[r].version >= job[s].batch.keys[r]
<1>1. Current[r] = [version |-> version[r], missing |-> r \in gone] /\ version[r] \in Epochs
  BY DEF Current, IInv, SourceTyped
<1>2. /\ job[s].known[r] <= version[r]
      /\ job[s].batch.keys[r] # None => job[s].batch.keys[r] <= version[r]
  BY Held DEF Fits, NotOlder, BatchSound
<1>3. job[s].known[r] \in Nat /\ (job[s].batch.keys[r] # None => job[s].batch.keys[r] \in Nat)
  BY Held DEF Jobs, Batches, Epochs
<1> QED
  BY <1>1, <1>2, <1>3 DEF Hydrations, Epochs

LEMMA MissesTyped ==
  ASSUME IInv, NEW s \in Searches
  PROVE  Misses(s) \subseteq Records
<1>1. job[s].batch.misses \in Seq(Records)
  BY Held DEF Jobs, Batches
<1> QED
  BY <1>1, ElementsTyped DEF Misses

LEMMA LoadBatchSound ==
  ASSUME IInv, NEW s \in Searches, LoadBatch(s)
  PROVE  IInv'
<1>1. pc[s] = "load" /\ UNCHANGED <<mode, source, candidateCache, changes>>
  BY DEF LoadBatch, At
<1>2. \A r \in Misses(s) :
        /\ Current[r] \in Hydrations /\ Current[r].version >= job[s].known[r]
        /\ job[s].batch.keys[r] # None => Current[r].version >= job[s].batch.keys[r]
  BY MissesTyped, CurrentFits
<1>3. CASE /\ SettleFlights(s, Misses(s), {}, Current)
           /\ Proceed(s, {}, "batch", After(s, Misses(s), Current))
           /\ UNCHANGED faults
  <2>1. SearchesSound' /\ SourceTyped' /\ CachesTyped' /\ CachesSound'
    BY <1>1, <1>2, <1>3, BatchOver
  <2> QED
    BY <1>3, <2>1 DEF IInv
<1>4. CASE /\ Fault(1)
           /\ SettleFlights(s, {}, Misses(s), Current)
           /\ Proceed(s, {"hydration"}, "batch", After(s, {}, Current))
  <2>1. SearchesSound' /\ SourceTyped' /\ CachesTyped' /\ CachesSound'
    BY <1>1, <1>4, BatchOver
  <2> QED
    BY <1>4, <2>1, FaultTyped DEF IInv
<1> QED
  BY <1>3, <1>4 DEF LoadBatch

LEMMA LoadOneSound ==
  ASSUME IInv, NEW s \in Searches, NEW r \in Records, LoadOne(s, r)
  PROVE  IInv'
<1>1. /\ pc[s] = "load"
      /\ UNCHANGED <<mode, source, candidateCache, hydrationCache, pc, got, changes>>
  BY DEF LoadOne, At
<1>2. /\ job[s] \in Jobs /\ job[s].batch \in Batches /\ Fits(s, "load", job[s], got[s])
      /\ got' \in [Searches -> Values] /\ got' = got
  BY <1>1, Held DEF IInv, SearchesSound, Jobs
<1>3. PICK o \in {Current[r], Error} :
        Become(s, [job[s] EXCEPT !.batch.loads[r] = o]) /\ (UNCHANGED faults \/ Fault(1))
  BY DEF LoadOne
<1> DEFINE b == [job[s].batch EXCEPT !.loads[r] = o]
           j == [job[s] EXCEPT !.batch = b]
<1>4. Current[r] \in Hydrations
  BY CurrentFits
<1>5. /\ b \in Batches /\ b.todo = job[s].batch.todo /\ b.misses = job[s].batch.misses
      /\ b.keys = job[s].batch.keys /\ b.loads = [job[s].batch.loads EXCEPT ![r] = o]
      /\ job[s].batch.loads \in [Records -> Hydrations \cup {None, Error}]
  BY <1>2, <1>4 DEF Batches
<1> HIDE DEF b
<1>6. j \in Jobs
  BY <1>2, <1>5 DEF Jobs
<1>7. /\ j.epoch = job[s].epoch /\ j.known = job[s].known /\ j.read = job[s].read
      /\ j.list = job[s].list /\ j.offset = job[s].offset /\ j.batch = b
      /\ j.found = job[s].found /\ j.failures = job[s].failures
  BY <1>2 DEF Jobs
<1>8. Become(s, j) /\ Goto(s, "load")
  BY <1>1, <1>3 DEF b, Goto, IInv, SearchesSound
<1> HIDE DEF j
<1>9. NotOlder(j)
  BY <1>2, <1>7 DEF Fits, NotOlder
<1>10. BatchSound("load", j)
  <2>1. \A x \in Records : b.loads[x] \in Hydrations =>
          /\ b.loads[x].version >= job[s].known[x]
          /\ b.keys[x] # None => b.loads[x].version >= b.keys[x]
    <3>1. Error \notin Hydrations
      BY DEF Errors
    <3> QED
      BY <1>2, <1>5, <3>1, CurrentFits DEF Fits, BatchSound
  <2> QED
    BY <1>2, <1>5, <1>7, <2>1 DEF Fits, BatchSound
<1>11. Followed("load", j) /\ Accounted(s, "load", j)
  BY <1>2, <1>5, <1>7 DEF Fits, Followed, Accounted, CandidatesOf, Hydrating
<1>12. Fits(s, "load", j, got'[s])
  BY <1>2, <1>9, <1>10, <1>11 DEF Fits, DeliveredWell
<1>13. SearchesSound' /\ SourceTyped'
  BY <1>1, <1>2, <1>6, <1>8, <1>12, OneMoves DEF PCs
<1> QED
  BY <1>1, <1>3, <1>13, CachesStay, FaultTyped DEF IInv

LEMMA FinishLoadsSound ==
  ASSUME IInv, NEW s \in Searches, FinishLoads(s)
  PROVE  IInv'
<1> DEFINE b == job[s].batch
           failed == {r \in Misses(s) : b.loads[r] = Error}
           first == {b.misses[i] : i \in {n \in 1..Len(b.misses) :
                       \A m \in 1..(n - 1) : b.misses[m] \notin failed}} \cap failed
           Good == Misses(s) \ failed
           lost == IF failed = {} THEN {} ELSE {"hydration"}
<1>1. /\ pc[s] = "load" /\ UNCHANGED <<mode, source, candidateCache, changes, faults>>
      /\ \A r \in Misses(s) : b.loads[r] # None
      /\ \/ SettleFlights(s, Good, failed, b.loads)
         \/ SettleFlights(s, {}, first, b.loads)
      /\ Proceed(s, lost, "batch", After(s, Good, b.loads))
  BY DEF FinishLoads, At
<1>2. first \subseteq failed /\ failed \subseteq Misses(s) /\ Good \subseteq Misses(s)
      /\ lost \in SUBSET {"hydration"} /\ (Good = Misses(s) \/ lost = {"hydration"})
  OBVIOUS
<1>3. \A r \in Good : /\ b.loads[r] \in Hydrations /\ b.loads[r].version >= job[s].known[r]
                      /\ b.keys[r] # None => b.loads[r].version >= b.keys[r]
  <2>1. b.loads \in [Records -> Hydrations \cup {None, Error}]
    BY Held, SMTT(40) DEF Jobs, Batches
  <2>2. ASSUME NEW r \in Good PROVE r \in Records /\ b.loads[r] \in Hydrations
    BY <1>1, <2>1, MissesTyped
  <2> QED
    BY <2>2, Held DEF Fits, BatchSound
<1> HIDE DEF first, failed, Good, lost
<1>4. SearchesSound' /\ SourceTyped' /\ CachesTyped' /\ CachesSound'
  <2>1. CASE SettleFlights(s, Good, failed, b.loads)
    BY <1>1, <1>2, <1>3, <2>1, BatchOver
  <2>2. CASE SettleFlights(s, {}, first, b.loads)
    BY <1>1, <1>2, <1>3, <2>2, BatchOver
  <2> QED
    BY <1>1, <2>1, <2>2
<1> QED
  BY <1>1, <1>4 DEF IInv

-----------------------------------------------------------------------------
(* The end of a search                                                     *)

LEMMA RefineSound ==
  ASSUME IInv, NEW s \in Searches, Refine(s)
  PROVE  IInv'
<1> PICK lost \in SUBSET {"rerank", "hydration"} :
      /\ At(s, "refine")
      /\ Fault(Cardinality(lost))
      /\ Proceed(s, lost, "done", job[s])
      /\ UNCHANGED <<mode, source, candidateCache, hydrationCache, got, changes>>
  BY DEF Refine
<1> DEFINE i == [job[s] EXCEPT !.failures = @ \cup lost]
<1>1. /\ pc[s] = "refine" /\ job[s] \in Jobs /\ Fits(s, "refine", job[s], got[s])
      /\ got' \in [Searches -> Values] /\ got'[s] = got[s] /\ lost \in SUBSET Stages
  BY Held DEF At, IInv, SearchesSound, Stages
<1>2. /\ i.epoch = job[s].epoch /\ i.known = job[s].known /\ i.read = job[s].read
      /\ i.list = job[s].list /\ i.offset = job[s].offset /\ i.batch = job[s].batch
      /\ i.found = job[s].found /\ i.failures = job[s].failures \cup lost
  BY <1>1 DEF Jobs
<1> HIDE DEF i
<1>3. ASSUME lost = {} \/ mode.lenient PROVE Fits(s, "done", i, None)
  <2>1. NotOlder(i) /\ BatchSound("done", i)
    BY <1>1, <1>2 DEF Fits, NotOlder, BatchSound
  <2>2. Followed("done", i)
    BY <1>1, <1>2, <1>3 DEF Fits, Followed, Hydrating
  <2>3. Accounted(s, "done", i)
    BY <1>1, <1>2 DEF Fits, Accounted, CandidatesOf, Hydrating
  <2> QED
    BY <2>1, <2>2, <2>3 DEF Fits, DeliveredWell
<1>4. got'[s] = None
  BY <1>1 DEF Fits, DeliveredWell
<1>5. SearchesSound' /\ SourceTyped'
  BY <1>1, <1>3, <1>4, ProceedMoves DEF PCs, i
<1>6. faults' \in 0..MaxFaults
  <2>1. IsFiniteSet({"rerank", "hydration"})
    <3>1. IsFiniteSet({} \cup {"rerank"})
      BY FS_EmptySet, FS_AddElement
    <3>2. IsFiniteSet(({} \cup {"rerank"}) \cup {"hydration"})
      BY <3>1, FS_AddElement
    <3>3. {"rerank", "hydration"} = ({} \cup {"rerank"}) \cup {"hydration"}
      OBVIOUS
    <3> QED
      BY <3>2, <3>3
  <2>2. Cardinality(lost) \in Nat
    BY <2>1, FS_Subset, FS_CardinalityType
  <2> QED
    BY <2>2, FaultTyped
<1> QED
  BY <1>5, <1>6, CachesStay DEF IInv

LEMMA CancelSound ==
  ASSUME IInv, NEW s \in Searches, Cancel(s)
  PROVE  IInv'
<1>1. /\ Fault(1) /\ Goto(s, "cancelled") /\ Become(s, NoJob)
      /\ got' = [got EXCEPT ![s] = None]
      /\ UNCHANGED <<mode, source, candidateCache, hydrationCache, changes>>
  BY DEF Cancel, End
<1>2. /\ got' \in [Searches -> Values] /\ got'[s] = None
      /\ \A t \in Searches \ {s} : got'[t] = got[t]
  BY <1>1 DEF IInv, SearchesSound, Values
<1>3. Fits(s, "cancelled", NoJob, got'[s])
  BY <1>2, NoJobFits DEF IInv
<1>4. SearchesSound' /\ SourceTyped'
  BY <1>1, <1>2, <1>3, OneMoves, NothingTyped DEF PCs
<1> QED
  BY <1>1, <1>4, CachesStay, FaultTyped DEF IInv

LEMMA OwnerDoneSound ==
  ASSUME IInv, NEW s \in Searches, OwnerDone(s)
  PROVE  IInv'
<1> DEFINE outcome == IF At(s, "cancelled") THEN Cancelled ELSE Error
           ks == {k \in CandidateKeys : acquiring[k] = s}
           hs == {k \in HydrationKeys : loading[k] = s}
           T == (UNION {CandidateWaiters(k) : k \in ks}) \cup HydrationWaiters(hs)
<1>1. /\ acquiring' = [k \in CandidateKeys |-> IF k \in ks THEN None ELSE acquiring[k]]
      /\ loading' = [k \in HydrationKeys |-> IF k \in hs THEN None ELSE loading[k]]
      /\ got' = [t \in Searches |-> IF t \in T THEN [x \in Searches |-> outcome][t] ELSE got[t]]
      /\ UNCHANGED <<mode, source, candidates, hydrated, pc, job, changes, faults>>
  <2> HIDE DEF outcome, ks, hs
  <2> QED
    BY DEF OwnerDone, Deliver, outcome, ks, hs
<1>2. outcome \in Errors
  BY DEF Errors
<1>3. \A t \in T : t \in Searches /\ pc[t] \in {"wait", "join"}
  <2>1. ASSUME NEW k \in ks, NEW t \in CandidateWaiters(k)
        PROVE  t \in Searches /\ pc[t] = "wait"
    BY DEF CandidateWaiters, At
  <2>2. \A t \in HydrationWaiters(hs) : t \in Searches /\ pc[t] = "join"
    BY DEF HydrationWaiters, At
  <2> HIDE DEF ks, hs, outcome
  <2>3. ASSUME NEW t \in T PROVE t \in Searches /\ pc[t] \in {"wait", "join"}
    <3>1. CASE t \in HydrationWaiters(hs)
      BY <2>2, <3>1
    <3>2. CASE t \in UNION {CandidateWaiters(k) : k \in ks}
      <4>1. PICK k \in ks : t \in CandidateWaiters(k)
        BY <3>2
      <4> QED
        BY <2>1, <4>1
    <3> QED
      BY <3>1, <3>2
  <2> QED
    BY <2>3
<1> HIDE DEF outcome, T
<1>4. got' = [t \in Searches |-> IF t \in T THEN outcome ELSE got[t]]
  BY <1>1
<1>5. got' \in [Searches -> Values]
  BY <1>2, <1>4 DEF IInv, SearchesSound, Values
<1>6. ASSUME NEW t \in Searches PROVE got'[t] = got[t] \/ Fits(t, pc[t], job[t], got'[t])
  <2>1. CASE t \in T
    <3>1. DeliveredWell(pc[t], job[t], got'[t])
      BY <1>2, <1>3, <1>4, <2>1 DEF DeliveredWell
    <3> QED
      BY <3>1, Held, FitsDelivered
  <2>2. CASE t \notin T
    BY <1>4, <2>2
  <2> QED
    BY <2>1, <2>2
<1>7. SourceTyped' /\ epoch <= epoch' /\ \A r \in Records : version[r] <= version'[r]
  BY <1>1 DEF IInv, SourceTyped, Epochs, source
<1>8. SearchesSound'
  BY <1>1, <1>5, <1>6, <1>7, SearchesFollow
<1>9. CachesTyped' /\ CachesSound'
  BY <1>1 DEF IInv, CachesTyped, CachesSound, GoodList
<1> QED
  BY <1>1, <1>7, <1>8, <1>9 DEF IInv

-----------------------------------------------------------------------------
(* The theorems                                                            *)

LEMMA InitSound ==
  ASSUME Init
  PROVE  IInv
<1>1. SourceTyped
  BY DEF Init, SourceTyped, Epochs
<1>2. CachesTyped /\ CachesSound /\ faults \in 0..MaxFaults
  BY DEF Init, CachesTyped, CachesSound
<1>3. SearchesSound
  <2>1. \A s \in Searches : Fits(s, "idle", NoJob, None)
    BY <1>1, NoJobFits
  <2> QED
    BY <2>1, NothingTyped DEF Init, SearchesSound, PCs, Values
<1> QED
  BY <1>1, <1>2, <1>3 DEF IInv

LEMMA StepSound ==
  ASSUME IInv, [Next]_vars
  PROVE  IInv'
<1>1. CASE ChangeIndex
  BY <1>1, ChangeIndexSound
<1>2. CASE \E r \in Records : ChangeRecord(r)
  BY <1>2, ChangeRecordSound
<1>3. CASE Evict
  BY <1>3, EvictSound
<1>4. ASSUME NEW s \in Searches, Acquire(s) PROVE IInv'
  BY <1>4, BeginSound, CoalescedSound, SearchLaneSound, FuseLanesSound, ExpandSound DEF Acquire
<1>5. ASSUME NEW s \in Searches, Hydrate(s) PROVE IInv'
  BY <1>5, NextBatchSound, ReadVersionSound, LookupSound, JoinedSound, LoadBatchSound,
     LoadOneSound, FinishLoadsSound DEF Hydrate
<1>6. ASSUME NEW s \in Searches, Refine(s) \/ OwnerDone(s) \/ Cancel(s) PROVE IInv'
  BY <1>6, RefineSound, OwnerDoneSound, CancelSound
<1>7. CASE UNCHANGED vars
  <2>1. /\ UNCHANGED <<mode, source, candidateCache, hydrationCache, changes, faults>>
        /\ UNCHANGED <<pc, job, got>>
    BY <1>7 DEF vars
  <2>2. SourceTyped' /\ epoch <= epoch' /\ \A r \in Records : version[r] <= version'[r]
    BY <2>1 DEF IInv, SourceTyped, Epochs, source
  <2>3. SearchesSound'
    BY <2>1, <2>2, SearchesFollow DEF IInv, SearchesSound
  <2> QED
    BY <2>1, <2>2, <2>3, CachesStay DEF IInv
<1> QED
  BY <1>1, <1>2, <1>3, <1>4, <1>5, <1>6, <1>7 DEF Next, Step

\* The strengthened invariant: what a search holds, what the flights deliver
\* and what the caches keep is at least as new as the epochs and the versions
\* it is for.
THEOREM SearchSound == Spec => []IInv
<1>1. Init => IInv
  BY InitSound
<1>2. IInv /\ [Next]_vars => IInv'
  BY StepSound
<1> QED
  BY <1>1, <1>2, PTL DEF Spec

\* Every variable keeps its type.
THEOREM SearchTypeCorrect == Spec => []TypeOK
<1>1. IInv => TypeOK
  BY DEF IInv, SourceTyped, CachesTyped, SearchesSound, Values, TypeOK
<1> QED
  BY <1>1, SearchSound, PTL

\* No search uses a candidate list read before its epoch, or a record older
\* than the record was when the search began: whatever the caches kept, and
\* whoever's flight it waited for.
THEOREM ResultsStayFresh == Spec => []FreshResults
<1>1. IInv => FreshResults
  BY DEF IInv, SearchesSound, Fits, NotOlder, GoodList, FreshResults
<1> QED
  BY <1>1, SearchSound, PTL

\* In strict mode a search that ends well lost nothing: no stage of its own,
\* and none of the search whose candidates it took.
THEOREM StrictStaysComplete == Spec => []StrictSearchIsComplete
<1>1. IInv => StrictSearchIsComplete
  <2> SUFFICES ASSUME IInv, NEW s \in Searches, pc[s] = "done", ~mode.lenient
               PROVE  job[s].list.lost = {} /\ job[s].failures = {}
    BY DEF StrictSearchIsComplete, At
  <2>1. NotOlder(job[s]) /\ Followed("done", job[s])
    BY Held DEF Fits
  <2> QED
    BY <2>1 DEF NotOlder, Followed, GoodList, Hydrating
<1> QED
  BY <1>1, SearchSound, PTL

\* A search that reports no failed hydration has found every candidate it took
\* up, or knows it is missing: none is lost in a batch, a flight or a load.
THEOREM CandidatesStayAccounted == Spec => []CandidatesAccounted
<1>1. IInv => CandidatesAccounted
  <2> SUFFICES ASSUME IInv, NEW s \in Searches, pc[s] = "done",
                      "hydration" \notin job[s].failures, NEW i \in 1..job[s].offset
               PROVE  job[s].found[Candidates(s)[i]] # None
    BY DEF CandidatesAccounted, At
  <2>1. BatchSound("done", job[s]) /\ Accounted(s, "done", job[s])
    BY Held DEF Fits
  <2>2. job[s].batch.todo = <<>> /\ job[s].batch.misses = <<>>
    BY <2>1 DEF BatchSound
  <2>3. Candidates(s) = CandidatesOf(s, job[s])
    BY DEF Candidates, CandidatesOf
  <2> QED
    BY <2>1, <2>2, <2>3, NothingTyped DEF Accounted
<1> QED
  BY <1>1, SearchSound, PTL
=============================================================================
