---------------------------- MODULE LocalSearch ----------------------------
(***************************************************************************)
(* Searches of the local store (indices/local.py).  A vector search reads  *)
(* the keys that pass a typed filter, the size of the namespace, and then  *)
(* either one snapshot or the vectors page by page, each under a read lock *)
(* of its own; a keyword search tries up to three FTS queries in turn or,  *)
(* without FTS5, scans the records page by page in row order.  Commits     *)
(* fall between these reads.  What a commit writes is RecordIngest's       *)
(* subject: here it is one change of one record.                           *)
(***************************************************************************)
EXTENDS Naturals, Sequences, FiniteSets

CONSTANTS
  LocalKeys,       \* storage keys, numbered in their order
  RecordKinds,     \* [wanted, active, words, score]: what a search tells apart
  FirstRecords,    \* the stores a search may find
  SearchCalls,     \* [kind, k, filter, queries, rungs]
  SnapshotRows,    \* vector_snapshot_max_rows
  PageRows,        \* rows of a page
  Overfetch,       \* _FILTERED_KEYWORD_OVERFETCH
  FuzzyRows,       \* _FUZZY_SCAN_MAX_ROWS
  MaxLocalWrites   \* bound on the commits during a search

LocalRecords == [wanted : BOOLEAN, active : BOOLEAN, words : STRING, score : Nat]
Gone == [words |-> "gone"]

ASSUME LocalSearchAssumption ==
  /\ LocalKeys \subseteq Nat \ {0} /\ IsFiniteSet(LocalKeys)
  /\ RecordKinds \subseteq LocalRecords
  /\ FirstRecords \subseteq [LocalKeys -> LocalRecords \union {Gone}]
  /\ SnapshotRows \in Nat /\ PageRows \in Nat \ {0} /\ Overfetch \in Nat /\ FuzzyRows \in Nat
  /\ \A c \in SearchCalls :
       /\ c \in [kind : {"vector", "fts", "scan"}, k : Nat, filter : {"none", "loose", "typed"},
                 queries : Seq(Nat), rungs : Seq(STRING)]
       /\ c.kind = "vector" => c.queries # << >>
       /\ c.kind = "fts" => c.rungs # << >>

VARIABLES
  base,         \* local_records with its vectors: key -> kind, or Gone
  rowids,       \* key -> SQLite row
  lookup,       \* the search in progress
  seen,         \* history: what each key held during the search
  readded,      \* history: keys deleted and added again during it
  localWrites

localVars == <<base, rowids, lookup, seen, readded, localWrites>>

Here(s) == {key \in LocalKeys : s[key] # Gone}
Idle == [step |-> "idle"]

\* A namespace counts vectors; every record of this model has one.
VectorScore(r, query) == IF query = 1 THEN r.score ELSE 3 - r.score

\* What filter f asks of record r: "typed" filters are pushed into SQL,
\* "loose" ones are checked on the rows read.
SqlAccepts(r, f) == r.active /\ (f = "typed" => r.wanted)
RowAccepts(r, f) == r.active /\ (f # "none" => r.wanted)

LocalSearchInit ==
  /\ base \in FirstRecords
  /\ rowids = [key \in LocalKeys |-> Cardinality({x \in LocalKeys : x >= key})]
  /\ lookup = Idle
  /\ seen = [key \in LocalKeys |-> {}] /\ readded = {}
  /\ localWrites = 0

-----------------------------------------------------------------------------
(* Commits.  An upsert keeps the row, an insert takes the row after the last. *)

NextRow == 1 + LET rows == {0} \union {rowids[key] : key \in Here(base)}
               IN CHOOSE r \in rows : \A x \in rows : x <= r

StoreRecord(key, r) ==
  /\ lookup.step \notin {"idle", "done"}
  /\ localWrites < MaxLocalWrites /\ base[key] # r
  /\ base' = [base EXCEPT ![key] = r]
  /\ rowids' = IF base[key] = Gone THEN [rowids EXCEPT ![key] = NextRow] ELSE rowids
  /\ seen' = [seen EXCEPT ![key] = @ \union {r}]
  /\ readded' = IF base[key] = Gone /\ seen[key] # {Gone}
                THEN readded \union {key} ELSE readded
  /\ localWrites' = localWrites + 1
  /\ UNCHANGED lookup

RemoveRecord(key) ==
  /\ lookup.step \notin {"idle", "done"}
  /\ localWrites < MaxLocalWrites /\ base[key] # Gone
  /\ base' = [base EXCEPT ![key] = Gone]
  /\ seen' = [seen EXCEPT ![key] = @ \union {Gone}]
  /\ localWrites' = localWrites + 1
  /\ UNCHANGED <<rowids, lookup, readded>>

-----------------------------------------------------------------------------
(* Ranking: best score first, then the smaller key, then the earlier row.   *)

Hit(key, score, row) == [key |-> key, score |-> score, row |-> row]
Better(h, g) ==
  \/ h.score > g.score
  \/ h.score = g.score /\ h.key < g.key
  \/ h.score = g.score /\ h.key = g.key /\ h.row < g.row

\* The k best of some hits.
Top(hits, k) == {h \in hits : Cardinality({g \in hits : Better(g, h)}) < k}

\* The first keys of S in the order of f, and the last place among them.
Page(S, f) == {x \in S : Cardinality({y \in S : f[y] < f[x]}) < PageRows}
LastOf(rows, f) == CHOOSE n \in {f[x] : x \in rows} : \A x \in rows : f[x] <= n
ByKey == [key \in LocalKeys |-> key]

-----------------------------------------------------------------------------
(* The steps of a search, each one read of the database.                   *)

BeginLookup(c) ==
  /\ lookup = Idle
  /\ lookup' = [step |-> IF c.k < 1 THEN "done"
                         ELSE IF c.kind # "vector" THEN c.kind
                         ELSE IF c.filter = "typed" THEN "eligible" ELSE "stats",
                call |-> c, each |-> Len(c.queries) = 1 \/ c.filter = "typed",
                keys |-> LocalKeys, after |-> 0, best |-> {},
                answers |-> << >>, rung |-> 1, cut |-> FALSE]
  /\ seen' = [key \in LocalKeys |-> {base[key]}]
  /\ UNCHANGED <<base, rowids, readded, localWrites>>

Asked == lookup.call.queries[Len(lookup.answers) + 1]

\* search_vector for one query of the batch; the next one starts over.
Answer(state, hits) ==
  LET answers == Append(state.answers, hits) IN
  [state EXCEPT !.answers = answers, !.best = {}, !.after = 0,
     !.step = IF Len(answers) = Len(state.call.queries) THEN "done"
              ELSE IF state.call.filter = "typed" THEN "eligible" ELSE "stats"]

Kept == UNCHANGED <<base, rowids, seen, readded, localWrites>>

\* _eligible_storage_keys, whose answer replaces the typed filter.
ReadEligible ==
  /\ lookup.step = "eligible"
  /\ LET keys == {key \in Here(base) : SqlAccepts(base[key], "typed")} IN
     lookup' = IF keys = {} THEN Answer(lookup, {})
               ELSE [lookup EXCEPT !.step = "stats", !.keys = keys]
  /\ Kept

\* search_vector_batch looks at the size once, and leaves a large namespace, as
\* it does a typed filter, to search_vector for each query, which looks again.
ReadStats ==
  /\ lookup.step = "stats"
  /\ LET large == Cardinality(Here(base)) > SnapshotRows IN
     lookup' = IF large /\ ~lookup.each THEN [lookup EXCEPT !.each = TRUE]
               ELSE [lookup EXCEPT !.step = IF large THEN "blocks" ELSE "snapshot"]
  /\ Kept

\* The filter that is left once the eligible keys stand for the typed one.
Rest == IF lookup.call.filter = "typed" THEN "none" ELSE lookup.call.filter
Candidates == {key \in Here(base) \intersect lookup.keys : RowAccepts(base[key], Rest)}
VectorHits(keys, query) == {Hit(key, VectorScore(base[key], query), 0) : key \in keys}
SnapshotAnswer(query) == Top(VectorHits(Candidates, query), lookup.call.k)

\* One snapshot answers one query, or all that a batch asks.
ReadSnapshot ==
  /\ lookup.step = "snapshot"
  /\ lookup' = IF lookup.each THEN Answer(lookup, SnapshotAnswer(Asked))
               ELSE [lookup EXCEPT !.step = "done",
                       !.answers = [i \in DOMAIN lookup.call.queries |->
                                      SnapshotAnswer(lookup.call.queries[i])]]
  /\ Kept

\* Mutant of Later: a page begins with the last row of the page before.
LaterOrSame(after) == {key \in Here(base) \intersect lookup.keys : key >= after}
Later(after) == {key \in Here(base) \intersect lookup.keys : key > after}

ReadBlock ==
  /\ lookup.step = "blocks"
  /\ LET rows == Page(Later(lookup.after), ByKey)
         hits == VectorHits({key \in rows : RowAccepts(base[key], Rest)}, Asked)
     IN lookup' = IF rows = {} THEN Answer(lookup, lookup.best)
                  ELSE [lookup EXCEPT !.best = Top(@ \union hits, lookup.call.k),
                                      !.after = LastOf(rows, ByKey)]
  /\ Kept

-----------------------------------------------------------------------------
(* Keyword search.                                                         *)

\* The words a record must hold for each FTS query: all terms, any of them,
\* or terms that start alike and are near enough.
MatchedBy(rung) == CASE rung = "all" -> {"all"}
                     [] rung = "some" -> {"all", "some"}
                     [] OTHER -> {"all", "near"}
FetchedBy(rung) == IF rung = "near" THEN {"all", "some", "near"} ELSE MatchedBy(rung)
RowLimit(rung) == IF rung = "near" THEN FuzzyRows
                  ELSE IF lookup.call.filter = "loose"
                  THEN Overfetch * lookup.call.k ELSE lookup.call.k

ReadFts ==
  /\ lookup.step = "fts"
  /\ LET c == lookup.call
         rung == c.rungs[lookup.rung]
         found == {key \in Here(base) : /\ base[key].words \in FetchedBy(rung)
                                        /\ SqlAccepts(base[key], c.filter)}
         rows == Top({Hit(key, base[key].score, 0) : key \in found}, RowLimit(rung))
         hits == Top({h \in rows : /\ RowAccepts(base[h.key], c.filter)
                                   /\ base[h.key].words \in MatchedBy(rung)}, c.k)
         last == hits # {} \/ lookup.rung = Len(c.rungs)
     IN lookup' = [lookup EXCEPT !.cut = @ \/ Cardinality(found) > RowLimit(rung),
                     !.step = IF last THEN "done" ELSE "fts",
                     !.rung = IF last THEN @ ELSE @ + 1,
                     !.answers = IF last THEN <<hits>> ELSE @]
  /\ Kept

\* _search_keyword_fallback: the heap keeps the k best of the rows so far.
ReadScan ==
  /\ lookup.step = "scan"
  /\ LET c == lookup.call
         left == {key \in Here(base) : rowids[key] > lookup.after
                                       /\ SqlAccepts(base[key], c.filter)}
         rows == Page(left, rowids)
         hits == {Hit(key, base[key].score, rowids[key]) :
                    key \in {x \in rows : /\ RowAccepts(base[x], c.filter)
                                          /\ base[x].words \in MatchedBy("some")}}
         best == Top(lookup.best \union hits, c.k)
     IN lookup' = IF Cardinality(rows) < PageRows
                  THEN [lookup EXCEPT !.step = "done", !.answers = <<best>>]
                  ELSE [lookup EXCEPT !.best = best, !.after = LastOf(rows, rowids)]
  /\ Kept

LocalSearchNext ==
  \/ \E c \in SearchCalls : BeginLookup(c)
  \/ \E key \in LocalKeys, r \in RecordKinds : StoreRecord(key, r)
  \/ \E key \in LocalKeys : RemoveRecord(key)
  \/ ReadEligible \/ ReadStats \/ ReadSnapshot \/ ReadBlock
  \/ ReadFts \/ ReadScan

-----------------------------------------------------------------------------
(* What an answer may contain, in terms of what the store held during the  *)
(* search: seen[key].                                                      *)

Constant(key) == Cardinality(seen[key]) = 1
HitScore(r, i) == IF lookup.call.kind = "vector"
                  THEN VectorScore(r, lookup.call.queries[i]) ELSE r.score
Rung == IF lookup.call.kind = "scan" THEN "some" ELSE lookup.call.rungs[lookup.rung]
Wanted(r) == /\ r # Gone /\ RowAccepts(r, lookup.call.filter)
             /\ lookup.call.kind # "vector" => r.words \in MatchedBy(Rung)

\* The record had this score, and passed the filter, if at another moment.
Explained(h, i) ==
  /\ \E r \in seen[h.key] \ {Gone} : r.active /\ HitScore(r, i) = h.score
  /\ \E r \in seen[h.key] : Wanted(r)

\* A record the search should have found is there, or beaten by k better hits.
Beaten(key, i) ==
  LET hits == lookup.answers[i] IN
  \/ \E h \in hits : h.key = key
  \/ /\ Cardinality(hits) = lookup.call.k
     /\ \A h \in hits, r \in seen[key] : Better(h, Hit(key, HitScore(r, i), 0))

(* Every hit of a local search had its score, and passed the filter, at some *)
(* moment of the call; a record that did not change during the call and      *)
(* matches is in the answer or has k better hits before it, unless an FTS    *)
(* query stopped at its row limit; and no key is answered twice, unless it   *)
(* was deleted and added again while the fallback scan passed.               *)
(* (search_vector, search_vector_batch, search_keyword.)                     *)
SearchExplained ==
  lookup.step = "done" => \A i \in 1..Len(lookup.answers) :
    LET hits == lookup.answers[i] IN
    /\ \A h \in hits : Explained(h, i)
    /\ ~lookup.cut => \A key \in LocalKeys :
         (Constant(key) /\ \A r \in seen[key] : Wanted(r)) => Beaten(key, i)
    /\ \A g, h \in hits :
         (g # h /\ g.key = h.key) => (lookup.call.kind = "scan" /\ h.key \in readded)
=============================================================================
