------------------------------ MODULE PgStore ------------------------------
(***************************************************************************)
(* The PostgreSQL stores (adapters/stores/pgvector.py, postgres_epochs.py): *)
(* records with their keyword projection, one vector table per model, the  *)
(* registry of those tables, graph edges and the epochs of the three       *)
(* lanes.  A transaction takes its statements one at a time, under READ    *)
(* COMMITTED: a statement sees what was committed when it began, waits for *)
(* the rows another transaction has locked, and what it writes is seen     *)
(* when its transaction commits.  PostgreSQL breaks a deadlock by aborting *)
(* a transaction.                                                          *)
(*                                                                         *)
(* A record is a key with a version, 0 where there is no row; a projection *)
(* and a vector carry the version they were made from.  Each process has a *)
(* PGVectorStore with its own cache of table names and a connection of its *)
(* own.  The HNSW settings, the ranking functions and SQL composition are  *)
(* left out; the filters are in module Filters and graph walks in          *)
(* GraphStores.                                                            *)
(***************************************************************************)
EXTENDS Naturals, FiniteSets

CONSTANTS
  PgKeys,      \* storage keys
  Batches,     \* sets of keys one call names
  Models,      \* encoder namespaces
  Dims,        \* dimensions a caller may give a model
  Processes,   \* processes with a store of their own
  PgVersions,  \* versions of a record
  MaxCalls     \* bound on the calls of one behaviour

ASSUME PgAssumption ==
  /\ Batches \subseteq SUBSET PgKeys
  /\ PgVersions \subseteq Nat \ {0}
  /\ Dims \subseteq Nat \ {0}
  /\ MaxCalls \in Nat

VARIABLES
  records,     \* records: key -> version
  projection,  \* records.tsvector_body: key -> version
  vectors,     \* <<model, dim>> -> key -> version: one table each
  registry,    \* vector_tables: the <<model, dim>> registered
  edges,       \* graph_edges, as pairs of keys
  epochs,      \* index_epoch
  tables,      \* process -> model -> the dim in _vector_tables, or 0
  tx,          \* process -> its transaction
  calls        \* number of calls begun

pgData == <<records, projection, vectors, registry, edges, epochs>>
pgVars == <<pgData, tables, tx, calls>>

Lanes == {"total", "keyword", "vector", "graph"}

\* locks: the rows held; cut: the edges a deletion deletes; gone: the records
\* delete_for_model found without a vector; changed: those an upsert changes; overtaken: the
\* vectors others committed since a deletion began (a history variable).
NoTx == [call |-> "none", step |-> "begin", keys |-> {}, model |-> "", dim |-> 0,
         version |-> 0, locks |-> {}, gone |-> {}, cut |-> {}, changed |-> {},
         overtaken |-> {}]

PgInit ==
  /\ records = [k \in PgKeys |-> 0]
  /\ projection = [k \in PgKeys |-> 0]
  /\ vectors = [t \in Models \X Dims |-> [k \in PgKeys |-> 0]]
  /\ registry = {}
  /\ edges = {}
  /\ epochs = [l \in Lanes |-> 0]
  /\ tables = [p \in Processes |-> [m \in Models |-> 0]]
  /\ tx = [p \in Processes |-> NoTx]
  /\ calls = 0

Table(p) == <<tx[p].model, tx[p].dim>>

RecordRows(keys) == {<<"record", k>> : k \in keys}
VectorRow(t, k) == <<"vector", t, k>>
VectorRows(ts, keys) == {VectorRow(t, k) : t \in ts, k \in keys}
EdgeRows(pairs) == {<<"edge", e>> : e \in pairs}

\* No other transaction holds one of the rows.
Free(p, rows) == \A q \in Processes \ {p} : tx[q].locks \cap rows = {}

\* A call, its arguments and the rows its next statement locks.
Begin(p, call, keys, m, d, v) ==
  /\ tx[p].call = "none" /\ calls < MaxCalls
  /\ calls' = calls + 1
  /\ tx' = [tx EXCEPT ![p] = [NoTx EXCEPT !.call = call, !.keys = keys, !.model = m,
                                          !.dim = d, !.version = v]]
  /\ UNCHANGED <<pgData, tables>>

BeginUpsert(p) == \E b \in Batches, m \in Models, d \in Dims, v \in PgVersions :
  Begin(p, "upsert", b, m, d, v)
BeginIndex(p) == \E b \in Batches, v \in PgVersions : Begin(p, "index", b, "", 0, v)
BeginDelete(p) == \E b \in Batches : Begin(p, "delete", b, "", 0, 0)
BeginDeleteForModel(p) == \E b \in Batches, m \in Models, d \in Dims :
  Begin(p, "delete_for_model", b, m, d, 0)

End(p) == tx' = [tx EXCEPT ![p] = NoTx]

Step(p, call, step) == tx[p].call = call /\ tx[p].step = step

\* _PostgresEpochLane.bump: nothing moves unless a lane does.
Bump(keyword, vector, graph) ==
  epochs' = [l \in Lanes |->
    epochs[l] + IF (l = "total" /\ (keyword \/ vector \/ graph))
                   \/ (l = "keyword" /\ keyword) \/ (l = "vector" /\ vector)
                   \/ (l = "graph" /\ graph)
                THEN 1 ELSE 0]

Changed(t, keys, v) == {k \in keys : t[k] # v}
Present(t, keys) == {k \in keys : t[k] # 0}
Clear(t, keys) == [k \in PgKeys |-> IF k \in keys THEN 0 ELSE t[k]]
Put(t, keys, v) == [k \in PgKeys |-> IF k \in keys THEN v ELSE t[k]]
Incident(keys) == {e \in edges : e[1] \in keys \/ e[2] \in keys}

\* Of the edges a deletion chose, those nobody has deleted while it waited.
StillThere(p) == tx[p].cut \cap edges

-----------------------------------------------------------------------------
(* PGVectorStore.upsert.                                                   *)

\* The process's cache, or the committed registry, tells the dimension.
DimensionMismatch(p) ==
  IF tables[p][tx[p].model] # 0 THEN tables[p][tx[p].model] # tx[p].dim
  ELSE \E t \in registry : t[1] = tx[p].model /\ t[2] # tx[p].dim

RefuseUpsert(p) ==
  /\ Step(p, "upsert", "begin") /\ DimensionMismatch(p)
  /\ End(p)
  /\ UNCHANGED <<pgData, tables, calls>>

EnsureTable(p) ==
  /\ Step(p, "upsert", "begin") /\ ~DimensionMismatch(p)
  /\ tx' = [tx EXCEPT ![p].step = "records"]
  /\ UNCHANGED <<pgData, tables, calls>>

\* ON CONFLICT locks every row of the batch, also those it does not change.
UpsertRecords(p) ==
  LET keys == tx[p].keys IN
  /\ Step(p, "upsert", "records") /\ Free(p, RecordRows(keys))
  /\ tx' = [tx EXCEPT ![p].step = "vectors", ![p].locks = @ \cup RecordRows(keys),
                      ![p].changed = Changed(records, keys, tx[p].version)]
  /\ UNCHANGED <<pgData, tables, calls>>

\* Mutant of BumpUpsert: a record that changes under the same vector counts
\* for nothing.
BumpUpsertVectorsOnly(changedRecords, changedVectors) ==
  Bump(FALSE, changedVectors # {}, FALSE)

\* Every record written has a vector, so a changed record is a changed lane.
BumpUpsert(changedRecords, changedVectors) ==
  Bump(FALSE, changedVectors # {} \/ changedRecords # {}, FALSE)

\* An inserted row is born with its projection; an updated one keeps it.
UpsertVectors(p) ==
  LET keys == tx[p].keys
      v == tx[p].version
      born == {k \in keys : records[k] = 0}
  IN /\ Step(p, "upsert", "vectors") /\ Free(p, VectorRows({Table(p)}, keys))
     /\ records' = Put(records, keys, v)
     /\ projection' = Put(projection, born, v)
     /\ vectors' = [vectors EXCEPT ![Table(p)] = Put(@, keys, v)]
     /\ registry' = registry \cup {Table(p)}
     /\ BumpUpsert(tx[p].changed, Changed(vectors[Table(p)], keys, v))
     /\ tables' = [tables EXCEPT ![p][tx[p].model] = tx[p].dim]
     /\ tx' = [q \in Processes |->
                 IF q = p THEN NoTx
                 ELSE IF tx[q].call \in {"delete", "delete_for_model"}
                 THEN [tx[q] EXCEPT !.overtaken = @ \cup VectorRows({Table(p)}, keys)]
                 ELSE tx[q]]
     /\ UNCHANGED <<edges, calls>>

\* Mutant of Fail: the name of the table is remembered before the commit.
FailRemembering(p) ==
  /\ tx[p].call # "none"
  /\ tables' = IF tx[p].call = "upsert" /\ tx[p].step # "begin"
               THEN [tables EXCEPT ![p][tx[p].model] = tx[p].dim] ELSE tables
  /\ End(p)
  /\ UNCHANGED <<pgData, calls>>

\* A statement raises, or PostgreSQL breaks a deadlock: rollback, by the
\* handler or when the connection goes back to its pool.
Fail(p) ==
  /\ tx[p].call # "none"
  /\ End(p)
  /\ UNCHANGED <<pgData, tables, calls>>

-----------------------------------------------------------------------------
(* PGKeywordStore.index: the projections of the rows that exist.           *)

IndexKeywords(p) ==
  LET moved == Changed(projection, Present(records, tx[p].keys), tx[p].version) IN
  /\ Step(p, "index", "begin") /\ Free(p, RecordRows(Present(records, tx[p].keys)))
  /\ projection' = Put(projection, moved, tx[p].version)
  /\ Bump(moved # {}, FALSE, FALSE)
  /\ End(p)
  /\ UNCHANGED <<records, vectors, registry, edges, tables, calls>>

-----------------------------------------------------------------------------
(* PGVectorStore.delete: edges and vectors of every model, then records.   *)

\* A statement chooses its rows when it begins, before it waits for them; an
\* edge that is committed after that stays.
CutEdges(p) ==
  /\ Step(p, "delete", "begin")
  /\ tx' = [tx EXCEPT ![p].step = "vectors", ![p].cut = Incident(tx[p].keys)]
  /\ UNCHANGED <<pgData, tables, calls>>

DeleteVectors(p) ==
  LET rows == EdgeRows(StillThere(p))
              \cup UNION {VectorRows({t}, Present(vectors[t], tx[p].keys)) : t \in registry}
  IN
  /\ Step(p, "delete", "vectors") /\ Free(p, rows)
  /\ tx' = [tx EXCEPT ![p].step = "records", ![p].cut = StillThere(p), ![p].locks = @ \cup rows]
  /\ UNCHANGED <<pgData, tables, calls>>

BumpDelete(goneRecords, goneVectors, goneEdges) ==
  Bump(goneRecords # {}, goneVectors # {}, goneEdges # {})

DeleteRecords(p) ==
  LET keys == tx[p].keys
      gone == {row \in tx[p].locks : row[1] = "vector"}
  IN /\ Step(p, "delete", "records") /\ Free(p, RecordRows(Present(records, keys)))
     /\ records' = Clear(records, keys)
     /\ projection' = Clear(projection, keys)
     /\ vectors' = [t \in Models \X Dims |->
                      Clear(vectors[t], {k \in keys : VectorRow(t, k) \in gone})]
     /\ edges' = edges \ tx[p].cut
     /\ BumpDelete(Present(records, keys), gone, tx[p].cut)
     /\ End(p)
     /\ UNCHANGED <<registry, tables, calls>>

-----------------------------------------------------------------------------
(* PGVectorStore.delete_for_model: vectors of one model, then the records  *)
(* that no table of the registry holds a vector of any more.               *)

DeleteModelVectors(p) ==
  LET mine == Present(vectors[Table(p)], tx[p].keys) IN
  /\ Step(p, "delete_for_model", "begin")
  /\ Free(p, VectorRows({Table(p)}, mine))
  /\ IF Table(p) \notin registry \/ mine = {} THEN End(p)
     ELSE tx' = [tx EXCEPT ![p].step = "edges", ![p].keys = mine,
                           ![p].locks = @ \cup VectorRows({Table(p)}, mine)]
  /\ UNCHANGED <<pgData, tables, calls>>

\* Mutant of Unembedded: the other models are not looked at.
UnembeddedHere(p) == Present(records, tx[p].keys)

\* Its own vectors are deleted; of the others it sees what is committed.
Unembedded(p) ==
  {k \in Present(records, tx[p].keys) : \A t \in registry \ {Table(p)} : vectors[t][k] = 0}

DeleteTheirEdges(p) ==
  /\ Step(p, "delete_for_model", "edges")
  /\ tx' = [tx EXCEPT ![p].step = "records", ![p].cut = Incident(Unembedded(p))]
  /\ UNCHANGED <<pgData, tables, calls>>

\* The edges are deleted, and the next statement chooses the records.
ChooseRecords(p) ==
  LET rows == EdgeRows(StillThere(p)) IN
  /\ Step(p, "delete_for_model", "records") /\ Free(p, rows)
  /\ tx' = [tx EXCEPT ![p].step = "wait", ![p].cut = StillThere(p), ![p].locks = @ \cup rows,
                      ![p].gone = Unembedded(p)]
  /\ UNCHANGED <<pgData, tables, calls>>

DeleteUnembedded(p) ==
  LET gone == Present(records, tx[p].gone) IN
  /\ Step(p, "delete_for_model", "wait") /\ Free(p, RecordRows(gone))
  /\ records' = Clear(records, gone)
  /\ projection' = Clear(projection, gone)
  /\ vectors' = [vectors EXCEPT ![Table(p)] = Clear(@, tx[p].keys)]
  /\ edges' = edges \ tx[p].cut
  /\ Bump(gone # {}, TRUE, tx[p].cut # {})
  /\ End(p)
  /\ UNCHANGED <<registry, tables, calls>>

-----------------------------------------------------------------------------
(* PGGraphStore and the reads that leave something behind.                 *)

UpsertEdges(p, pair) ==
  /\ tx[p].call = "none" /\ calls < MaxCalls /\ Free(p, EdgeRows({pair}))
  /\ calls' = calls + 1
  /\ edges' = edges \cup {pair}
  /\ Bump(FALSE, FALSE, TRUE)
  /\ UNCHANGED <<records, projection, vectors, registry, tables, tx>>

DeleteEdges(p, pair) ==
  /\ tx[p].call = "none" /\ calls < MaxCalls /\ Free(p, EdgeRows({pair}))
  /\ calls' = calls + 1
  /\ edges' = edges \ {pair}
  /\ Bump(FALSE, FALSE, pair \in edges)
  /\ UNCHANGED <<records, projection, vectors, registry, tables, tx>>

\* The table a search reads: the one the process remembers for the model, if
\* it has the dimension asked, or else the one registered under it.
Searchable(p, m, d) ==
  IF tables[p][m] # 0 THEN tables[p][m] = d ELSE <<m, d>> \in registry

\* search remembers the table it read; it answers nothing without one.
SearchVectors(p, m, d) ==
  /\ tx[p].call = "none" /\ Searchable(p, m, d)
  /\ tables' = [tables EXCEPT ![p][m] = d]
  /\ UNCHANGED <<pgData, tx, calls>>

\* get_many remembers whichever dimension is registered.
RememberTable(p, m, d) ==
  /\ tx[p].call = "none" /\ tables[p][m] = 0 /\ <<m, d>> \in registry
  /\ tables' = [tables EXCEPT ![p][m] = d]
  /\ UNCHANGED <<pgData, tx, calls>>

Pairs == {pair \in PgKeys \X PgKeys : pair[1] # pair[2]}

PgNext ==
  \E p \in Processes :
    \/ BeginUpsert(p) \/ RefuseUpsert(p) \/ EnsureTable(p)
    \/ UpsertRecords(p) \/ UpsertVectors(p)
    \/ BeginIndex(p) \/ IndexKeywords(p)
    \/ BeginDelete(p) \/ CutEdges(p) \/ DeleteVectors(p) \/ DeleteRecords(p)
    \/ BeginDeleteForModel(p) \/ DeleteModelVectors(p) \/ DeleteTheirEdges(p)
    \/ ChooseRecords(p) \/ DeleteUnembedded(p)
    \/ Fail(p)
    \/ \E pair \in Pairs : UpsertEdges(p, pair) \/ DeleteEdges(p, pair)
    \/ \E m \in Models, d \in Dims : SearchVectors(p, m, d) \/ RememberTable(p, m, d)

-----------------------------------------------------------------------------
\* What a reader of a lane is answered from.
KeywordView == {<<k, records[k], projection[k]>> : k \in Present(records, PgKeys)}
VectorView == {<<t, k, records[k], vectors[t][k]>> :
                 t \in registry, k \in Present(records, PgKeys)}
               \ {<<t, k, records[k], 0>> : t \in registry, k \in PgKeys}

\* A record goes and a vector of it, committed meanwhile, stays.
LeavesOrphan ==
  \E k \in PgKeys, t \in registry :
    records[k] # 0 /\ records'[k] = 0 /\ vectors[t][k] # 0 /\ vectors'[t][k] # 0

(* A commit that changes what a vector search or a graph walk is answered  *)
(* from moves the epoch of that lane, so no cached answer outlives it; for *)
(* keyword searches this holds of every commit but those of upsert, for    *)
(* vector searches of every commit but a delete that an upsert overtook    *)
(* between its statements.  (PGVectorStore.delete, delete_for_model)       *)
PgEpochsCover ==
  [][/\ VectorView' # VectorView =>
          epochs'["vector"] > epochs["vector"] \/ LeavesOrphan
     /\ edges' # edges => epochs'["graph"] > epochs["graph"]
     /\ KeywordView' # KeywordView =>
          \/ epochs'["keyword"] > epochs["keyword"]
          \/ \E p \in Processes : tx[p].call = "upsert" /\ tx'[p] = NoTx
     /\ epochs' # epochs => epochs'["total"] > epochs["total"]]_pgVars

(* A process only remembers tables that some committed transaction has     *)
(* registered, so that a search never names a table that was rolled back,  *)
(* and a vector is only stored in such a table.                            *)
RememberedTablesExist ==
  /\ \A p \in Processes, m \in Models : tables[p][m] # 0 => <<m, tables[p][m]>> \in registry
  /\ \A t \in Models \X Dims : t \notin registry => Present(vectors[t], PgKeys) = {}

(* A record that a deletion removes leaves no vector behind, in any model's *)
(* table, unless an upsert committed that vector while the deletion was    *)
(* under way; so deleting from one model preserves the records of the      *)
(* others.  (PGVectorStore.delete, delete_for_model)                       *)
VectorsKeepRecords ==
  [][\A k \in PgKeys, t \in registry :
       (records[k] # 0 /\ records'[k] = 0 /\ vectors'[t][k] # 0) =>
         \E p \in Processes : VectorRow(t, k) \in tx[p].overtaken]_pgVars

\* The rows a transaction may hold, and what it may be at.
Rows == RecordRows(PgKeys) \cup VectorRows(Models \X Dims, PgKeys) \cup EdgeRows(PgKeys \X PgKeys)
Transactions ==
  [call : {"none", "upsert", "index", "delete", "delete_for_model"},
   step : {"begin", "records", "vectors", "edges", "wait"},
   keys : SUBSET PgKeys, model : Models \cup {""}, dim : Dims \cup {0},
   version : PgVersions \cup {0}, locks : SUBSET Rows, gone : SUBSET PgKeys,
   cut : SUBSET (PgKeys \X PgKeys), changed : SUBSET PgKeys, overtaken : SUBSET Rows]

PgTypeOK ==
  /\ records \in [PgKeys -> PgVersions \cup {0}]
  /\ projection \in [PgKeys -> PgVersions \cup {0}]
  /\ vectors \in [Models \X Dims -> [PgKeys -> PgVersions \cup {0}]]
  /\ registry \subseteq Models \X Dims
  /\ edges \subseteq PgKeys \X PgKeys
  /\ epochs \in [Lanes -> Nat]
  /\ tables \in [Processes -> [Models -> Dims \cup {0}]]
  /\ tx \in [Processes -> Transactions]
  /\ calls \in 0..MaxCalls
=============================================================================
