------------------------------ MODULE Filters ------------------------------
(***************************************************************************)
(* The eligibility filters of a search, and the ways the stores apply     *)
(* them: CompiledVectorFilter.matches (domain/vector_filters.py), the      *)
(* PostgreSQL predicates (adapters/stores/pgvector.py), the SQLite         *)
(* predicates of the local keyword and vector lanes (indices/local.py),    *)
(* the masks of a vector snapshot (indices/local_vectors.py) and of the    *)
(* FAISS index (indices/faiss_local.py).  Each of the six is translated on *)
(* its own; the properties compare them.                                   *)
(*                                                                         *)
(* A filter is a function from the names it gives to their values; a name  *)
(* with the value None counts as not given.  Paths, document ids and       *)
(* source ids are triples [dir, stem, ext], the parts that the comparisons *)
(* tell apart.  A metadata value is absent, null, a text, a number with    *)
(* its text, or a list of texts.                                           *)
(***************************************************************************)
EXTENDS Naturals, Sequences, FiniteSets

CONSTANTS
  Corpus,       \* the records searched
  Terms,        \* filters of one name, which a search combines
  MaxTerms      \* bound on the names of one filter

VARIABLE filter

filterVars == <<filter>>

Path(dir, stem, ext) == [dir |-> dir, stem |-> stem, ext |-> ext]
NoPath == Path("", "", "")
Leaf(p) == [p EXCEPT !.dir = ""]
Stem(p) == [p EXCEPT !.ext = ""]

\* The path, its leaf, and both without their suffix.
PathVariants(p) == {p, Leaf(p), Stem(p), Stem(Leaf(p))}
AllVariants(paths) == UNION {PathVariants(p) : p \in paths}

Absent == [type |-> "absent"]
Null == [type |-> "null"]
Text(t) == [type |-> "text", is |-> t]
Number(t) == [type |-> "number", is |-> t]
List(items) == [type |-> "list", is |-> items]

Missing(v) == v.type \in {"absent", "null"}

Statuses == {"active", "archived", "deleted"}

\* A storage key names one record; metadata are JSON values.
ASSUME FilterAssumption ==
  /\ \A r, x \in Corpus : r.key = x.key => r = x
  /\ \A r \in Corpus :
       /\ r.project.type \in {"absent", "null", "text", "number"}
       /\ r.doc.type \in {"absent", "null", "text"}

-----------------------------------------------------------------------------
(* Reading a filter.  The first of its aliases that is given counts.       *)

SourceNames == <<"source_kinds", "source_kind", "source_filter">>
ProjectNames == <<"project_ids", "project_id", "project_filter">>
CandidateNames == <<"candidate_ids", "candidate_storage_keys">>
StatusNames == <<"status", "lifecycle_status", "statuses", "lifecycle_statuses">>
PathNames == <<"paths", "file_paths", "source_files", "path", "file_path", "source_file">>
ExcludedPathNames == <<"excluded_files", "excluded_paths", "excluded_file_paths",
                       "excluded_source_files">>
DocumentNames == <<"document_ids", "document_id", "doc_ids", "doc_id">>
ExcludedDocumentNames == <<"excluded_documents", "excluded_document_ids",
                           "excluded_doc_ids">>
ExcludedProjectNames == <<"excluded_projects", "excluded_project_ids">>

NamesOf(names) == {names[i] : i \in 1..Len(names)}
Given(f, names) == NamesOf(names) \cap DOMAIN f # {}
First(f, names) == CHOOSE i \in {j \in 1..Len(names) : names[j] \in DOMAIN f} :
                     \A j \in 1..(i - 1) : names[j] \notin DOMAIN f
Values(f, names) == f[names[First(f, names)]]

\* status_values: only active records unless the caller says otherwise.
StatusValues(f) ==
  IF "include_inactive" \in DOMAIN f THEN Statuses
  ELSE IF Given(f, StatusNames) THEN Values(f, StatusNames) ELSE {"active"}

\* Bare source ids are no storage keys.
CandidateStorageKeys(v) == v \cap {r.key : r \in Corpus}

\* An empty project_filter restricts nothing; an empty project_ids does,
\* unless a project_filter is there too.
ProjectsGiven(f) ==
  /\ Given(f, ProjectNames)
  /\ ~(Values(f, ProjectNames) = {} /\ "project_filter" \in DOMAIN f)

Scoped(f) ==
  IF "source_scoped_filters" \in DOMAIN f THEN f["source_scoped_filters"] ELSE <<>>

Without(f, names) == [n \in DOMAIN f \ names |-> f[n]]

-----------------------------------------------------------------------------
(* CompiledVectorFilter.matches.                                           *)

\* str(metadata.get(...)): what is missing reads "None".
AsString(v, none) == IF Missing(v) THEN none ELSE v.is

ScopeMatches(scope, r) ==
  /\ "workspace_ids" \in DOMAIN scope => r.workspace \in scope.workspace_ids
  /\ "metadata_non_empty" \in DOMAIN scope => r.tags.type = "list" /\ r.tags.is # {}
  /\ "metadata_contains_any" \in DOMAIN scope =>
       r.tags.type = "list" /\ r.tags.is \cap scope.metadata_contains_any # {}

RecordPath(r) == IF r.file # NoPath THEN r.file ELSE r.uri

\* Mutant of RecordPaths: the record's path is compared as it stands.
RecordPathsExact(r) == IF RecordPath(r) = NoPath THEN {} ELSE {RecordPath(r)}

\* Both sides of a path comparison are expanded.
RecordPaths(r) == IF RecordPath(r) = NoPath THEN {} ELSE PathVariants(RecordPath(r))

ScalarsMatch(f, r) ==
  /\ r.status \in StatusValues(f)
  /\ "workspace_id" \in DOMAIN f => r.workspace = f["workspace_id"]
  /\ Given(f, SourceNames) => r.kind \in Values(f, SourceNames)
  /\ Given(f, CandidateNames) => r.key \in CandidateStorageKeys(Values(f, CandidateNames))

MetadataMatches(f, r) ==
  /\ "metadata_equals" \in DOMAIN f => AsString(r.project, "None") = f["metadata_equals"]
  /\ "metadata_in" \in DOMAIN f => AsString(r.project, "None") \in f["metadata_in"]

Matches(f, r) ==
  LET document == IF r.doc.type = "absent" THEN r.sid
                  ELSE AsString(r.doc, Path("", "None", ""))
  IN /\ ScalarsMatch(f, r)
     /\ "exclude_storage_keys" \in DOMAIN f =>
          r.key \notin CandidateStorageKeys(f["exclude_storage_keys"])
     /\ r.kind \in DOMAIN Scoped(f) => ScopeMatches(Scoped(f)[r.kind], r)
     /\ ProjectsGiven(f) => AsString(r.project, "None") \in Values(f, ProjectNames)
     /\ (Given(f, ExcludedProjectNames) /\ ~Missing(r.project)) =>
          r.project.is \notin Values(f, ExcludedProjectNames)
     /\ Given(f, PathNames) => RecordPaths(r) \cap AllVariants(Values(f, PathNames)) # {}
     /\ Given(f, ExcludedPathNames) =>
          RecordPaths(r) \cap AllVariants(Values(f, ExcludedPathNames)) = {}
     /\ Given(f, DocumentNames) => document \in Values(f, DocumentNames)
     /\ Given(f, ExcludedDocumentNames) =>
          {document, r.sid} \cap Values(f, ExcludedDocumentNames) = {}
     /\ MetadataMatches(f, r)

-----------------------------------------------------------------------------
(* build_pgvector_filter_sql.  A comparison with NULL accepts nothing.     *)

\* COALESCE(NULLIF(metadata->>'doc_id', ''), source_id)
DocumentExpression(r) ==
  IF Missing(r.doc) \/ r.doc.is = NoPath THEN r.sid ELSE r.doc.is

\* Mutant of PgScope: a record of the source without the field is let through.
PgScopeOpen(kind, scope, r) ==
  \/ r.kind # kind
  \/ /\ "workspace_ids" \in DOMAIN scope => r.workspace \in scope.workspace_ids
     /\ "metadata_non_empty" \in DOMAIN scope =>
          (r.tags.type = "list" => r.tags.is # {})
     /\ "metadata_contains_any" \in DOMAIN scope =>
          (r.tags.type = "list" => r.tags.is \cap scope.metadata_contains_any # {})

\* Each constraint is a disjunction with "another source kind".
PgScope(kind, scope, r) ==
  /\ "workspace_ids" \in DOMAIN scope =>
       r.kind # kind \/ r.workspace \in scope.workspace_ids
  /\ "metadata_non_empty" \in DOMAIN scope =>
       r.kind # kind \/ (r.tags.type = "list" /\ r.tags.is # {})
  /\ "metadata_contains_any" \in DOMAIN scope =>
       r.kind # kind \/ (r.tags.type = "list" /\ r.tags.is \cap scope.metadata_contains_any # {})

PgPathsAccept(f, r) ==
  LET path == RecordPath(r)
      document == DocumentExpression(r)
      excluded(names) == AllVariants(Values(f, names))
  IN /\ Given(f, PathNames) => {path, document} \cap AllVariants(Values(f, PathNames)) # {}
     /\ Given(f, ExcludedPathNames) =>
          {path, document, Leaf(path)} \cap excluded(ExcludedPathNames) = {}
     /\ Given(f, DocumentNames) => document \in Values(f, DocumentNames)
     /\ Given(f, ExcludedDocumentNames) =>
          {document, r.sid} \cap excluded(ExcludedDocumentNames) = {}

PgAccepts(f, r) ==
  /\ ScalarsMatch(f, r)
  /\ \A kind \in DOMAIN Scoped(f) : PgScope(kind, Scoped(f)[kind], r)
  /\ "exclude_storage_keys" \in DOMAIN f =>
       r.key \notin CandidateStorageKeys(f["exclude_storage_keys"])
  /\ ProjectsGiven(f) => ~Missing(r.project) /\ r.project.is \in Values(f, ProjectNames)
  /\ Given(f, ExcludedProjectNames) =>
       Missing(r.project) \/ r.project.is \notin Values(f, ExcludedProjectNames)
  /\ "metadata_equals" \in DOMAIN f => ~Missing(r.project) /\ r.project.is = f["metadata_equals"]
  /\ "metadata_in" \in DOMAIN f => ~Missing(r.project) /\ r.project.is \in f["metadata_in"]
  /\ PgPathsAccept(f, r)

-----------------------------------------------------------------------------
(* _keyword_filter_sql.  metadata_in and exclude_storage_keys are left to  *)
(* the callers.                                                            *)

KeywordSqlNames ==
  {"candidate_ids", "candidate_storage_keys", "excluded_project_ids", "excluded_projects",
   "project_filter", "project_id", "project_ids", "source_filter", "source_kind",
   "source_kinds", "statuses", "workspace_id"}

\* json_type(json_extract(...)) raises on a text: the statement fails for a
\* corpus that holds such a record of the source.
SqlRaises(f) ==
  \E r \in Corpus : /\ r.kind \in DOMAIN Scoped(f) /\ r.tags.type = "text"
                    /\ DOMAIN Scoped(f)[r.kind] # {"workspace_ids"}

\* expression = v, or, for a v that is no path, expression LIKE '%/v'.
LikePath(path, v) == path = v \/ (v.dir = "" /\ path.dir # "" /\ Leaf(path) = v)

SqlitePath(r, paths) == \E v \in AllVariants(paths) : LikePath(RecordPath(r), v)

SqliteProjectsAccept(f, r) ==
  /\ Given(f, ProjectNames) =>
       IF Values(f, ProjectNames) = {}
       THEN ~\E n \in {"project_ids", "project_id"} : n \in DOMAIN f
       ELSE ~Missing(r.project) /\ r.project.is \in Values(f, ProjectNames)
  /\ Given(f, ExcludedProjectNames) =>
       Missing(r.project) \/ r.project.is \notin Values(f, ExcludedProjectNames)

\* NOT (NULL = v) is not true: a record without a path is dropped.
SqlitePathsAccept(f, r) ==
  /\ Given(f, PathNames) => RecordPath(r) # NoPath /\ SqlitePath(r, Values(f, PathNames))
  /\ (Given(f, ExcludedPathNames) /\ Values(f, ExcludedPathNames) # {}) =>
       RecordPath(r) # NoPath /\ ~SqlitePath(r, Values(f, ExcludedPathNames))

\* json_extract gives a number, which equals no text.
SqliteDocumentsAccept(f, r) ==
  LET document == DocumentExpression(r) IN
  /\ Given(f, DocumentNames) => document \in Values(f, DocumentNames)
  /\ Given(f, ExcludedDocumentNames) =>
       {document, r.sid} \cap Values(f, ExcludedDocumentNames) = {}
  /\ "metadata_equals" \in DOMAIN f =>
       r.project.type = "text" /\ r.project.is = f["metadata_equals"]

SqliteAccepts(f, r) ==
  /\ ScalarsMatch(f, r)
  /\ \A kind \in DOMAIN Scoped(f) : PgScope(kind, Scoped(f)[kind], r)
  /\ SqliteProjectsAccept(f, r)
  /\ SqlitePathsAccept(f, r)
  /\ SqliteDocumentsAccept(f, r)

\* Mutant of KeywordAccepts: the rows are not matched again.
KeywordAcceptsSqlOnly(f, r) == SqliteAccepts(f, r)

\* search_keyword matches the rows again unless SQL covers every name.
KeywordAccepts(f, r) ==
  SqliteAccepts(f, r) /\ (DOMAIN f \subseteq KeywordSqlNames \/ Matches(f, r))

-----------------------------------------------------------------------------
(* VectorSnapshot.filter_positions and search_vector of the local lane.    *)

ScalarNames ==
  {"candidate_ids", "candidate_storage_keys", "include_inactive", "lifecycle_status",
   "lifecycle_statuses", "source_filter", "source_kind", "source_kinds", "status",
   "statuses", "workspace_id"}

TypedNames ==
  (UNION {NamesOf(names) : names \in {ExcludedPathNames, ExcludedProjectNames, ExcludedDocumentNames,
                                      DocumentNames, PathNames, ProjectNames}})
    \cup {"source_scoped_filters"}

Typed(f) ==
  \/ DOMAIN Scoped(f) # {} \/ ProjectsGiven(f)
  \/ \E names \in {ExcludedProjectNames, PathNames, ExcludedPathNames, DocumentNames,
                   ExcludedDocumentNames} : Given(f, names)

MetadataOnly(f) ==
  ({"metadata_equals", "metadata_in"} \cap DOMAIN f # {}) /\ ~Typed(f)

\* Columns of scalars first, then of metadata, and the whole predicate only
\* when neither was enough.  exclude_storage_keys is in neither.
SnapshotAccepts(f, r) ==
  IF DOMAIN f \subseteq ScalarNames THEN ScalarsMatch(f, r)
  ELSE ScalarsMatch(f, r) /\ MetadataMatches(f, r) /\ (MetadataOnly(f) \/ Matches(f, r))

\* A typed filter is answered by SQL and pushed down as candidate keys.
Eligible(f) ==
  {r.key : r \in {x \in Corpus : SqliteAccepts(Without(f, {"metadata_equals", "metadata_in"}), x)}}

Pushed(f) ==
  LET rest == Without(f, TypedNames \cup NamesOf(CandidateNames))
  IN [n \in DOMAIN rest \cup {"candidate_storage_keys"} |->
        IF n = "candidate_storage_keys" THEN Eligible(f) ELSE f[n]]

\* Mutant of VectorAccepts: the filter itself goes on, without the keys.
VectorAcceptsUnpushed(f, r) == SnapshotAccepts(Without(f, TypedNames), r)

VectorAccepts(f, r) == SnapshotAccepts(IF Typed(f) THEN Pushed(f) ELSE f, r)

\* A namespace over the snapshot limits is matched row by row.
BlockAccepts(f, r) == Matches(IF Typed(f) THEN Pushed(f) ELSE f, r)

-----------------------------------------------------------------------------
(* FAISSIndex: membership in a set of ids, a cached mask, or the predicate. *)

IdOnly(f) ==
  /\ ~Given(f, SourceNames) /\ ~Given(f, CandidateNames) /\ ~Typed(f)
  /\ DOMAIN f \cap {"workspace_id", "exclude_storage_keys", "metadata_equals", "metadata_in"} = {}
  /\ StatusValues(f) \in {{"active"}, Statuses}

ScalarMask(f) ==
  /\ "workspace_id" \in DOMAIN f /\ Given(f, SourceNames)
  /\ Cardinality(Values(f, SourceNames)) = 1 /\ StatusValues(f) = {"active"}
  /\ ~Given(f, CandidateNames) /\ ~Typed(f)
  /\ DOMAIN f \cap {"exclude_storage_keys", "metadata_equals", "metadata_in"} = {}

FaissAccepts(f, r) ==
  IF DOMAIN Scoped(f) # {} THEN VectorAccepts(f, r)
  ELSE IF IdOnly(f) THEN r.status \in StatusValues(f)
  ELSE IF ScalarMask(f)
       THEN r.workspace = f["workspace_id"] /\ r.kind \in Values(f, SourceNames) /\ r.status = "active"
  ELSE Matches(f, r)

-----------------------------------------------------------------------------
(* A search is given its filter name by name.                              *)

NotGiven == [given |-> FALSE]

FilterInit == filter = NotGiven

GiveFilter == filter = NotGiven /\ filter' = <<>>

AddTerm(t) ==
  /\ filter # NotGiven
  /\ Cardinality(DOMAIN filter) < MaxTerms
  /\ DOMAIN t \cap DOMAIN filter = {}
  /\ filter' = [n \in DOMAIN filter \cup DOMAIN t |->
                  IF n \in DOMAIN t THEN t[n] ELSE filter[n]]

FilterNext == GiveFilter \/ \E t \in Terms : AddTerm(t)

-----------------------------------------------------------------------------
(* Where the code of the stores is known to disagree with matches: paths   *)
(* and excluded documents are expanded differently, SQL replaces an empty  *)
(* or null doc_id by the source id, numbers and absent paths are lost in   *)
(* SQLite, an empty project_ids beside a project_filter, excluded keys     *)
(* beside metadata alone, and the text "None" asked of what is missing.    *)

PathTerms == NamesOf(PathNames) \cup NamesOf(ExcludedPathNames)
OddDocument(r) == r.doc.type = "null" \/ (r.doc.type = "text" /\ r.doc.is = NoPath)

\* matches compares str(None) with what is asked of a missing value.
NoneAsked(f, r) ==
  /\ Missing(r.project)
  /\ \/ Given(f, ProjectNames) /\ "None" \in Values(f, ProjectNames)
     \/ "metadata_equals" \in DOMAIN f /\ f["metadata_equals"] = "None"
     \/ "metadata_in" \in DOMAIN f /\ "None" \in f["metadata_in"]

DocumentsDiffer(f, r) ==
  OddDocument(r) /\ (Given(f, DocumentNames) \/ Given(f, ExcludedDocumentNames))

PgDiffers(f, r) ==
  \/ DOMAIN f \cap PathTerms # {}
  \/ DocumentsDiffer(f, r) \/ NoneAsked(f, r)
  \/ Given(f, ExcludedDocumentNames)

SqliteDiffers(f, r) ==
  \/ DocumentsDiffer(f, r) \/ NoneAsked(f, r)
  \/ Given(f, ExcludedPathNames)
  \/ "metadata_equals" \in DOMAIN f /\ r.project.type = "number"
  \/ Given(f, ProjectNames) /\ Values(f, ProjectNames) = {} /\ "project_filter" \in DOMAIN f

ExclusionLost(f) ==
  {"metadata_equals", "metadata_in"} \cap DOMAIN f # {} /\ "exclude_storage_keys" \in DOMAIN f

(* Outside the listed differences every store accepts the same records for *)
(* the same filter; for included paths SQLite accepts fewer, never more.   *)
(* (test_vector_filters.py, test_pgvector_filters.py)                      *)
StoresAgree ==
  \A r \in Corpus :
    LET f == filter
        canonical == Matches(f, r)
    IN /\ ~PgDiffers(f, r) => PgAccepts(f, r) = canonical
       /\ (Typed(f) /\ ~SqliteDiffers(f, r) /\ ~SqlRaises(f)) =>
             (BlockAccepts(f, r) => canonical)
       /\ (~SqliteDiffers(f, r) /\ ~Given(f, PathNames) /\ ~SqlRaises(f)) => KeywordAccepts(f, r) = canonical
       /\ (Typed(f) => ~SqliteDiffers(f, r) /\ ~Given(f, PathNames) /\ ~SqlRaises(f)) =>
             /\ BlockAccepts(f, r) = canonical
             /\ ~ExclusionLost(f) => VectorAccepts(f, r) = canonical
       /\ DOMAIN Scoped(f) = {} => FaissAccepts(f, r) = canonical

(* Whatever else a filter holds, no store returns a record that the        *)
(* authorization scope of its source, its status, its workspace or an      *)
(* exclusion by key refuses; the exclusion that the snapshot loses is the  *)
(* one exception.                                                          *)
ScopeIsKept ==
  \A r \in Corpus :
    LET f == filter
        refused == \/ ~ScalarsMatch(f, r)
                   \/ r.kind \in DOMAIN Scoped(f) /\ ~ScopeMatches(Scoped(f)[r.kind], r)
        excluded == /\ "exclude_storage_keys" \in DOMAIN f
                    /\ r.key \in CandidateStorageKeys(f["exclude_storage_keys"])
    IN /\ (refused \/ excluded) =>
            ~PgAccepts(f, r) /\ ~KeywordAccepts(f, r) /\ ~BlockAccepts(f, r)
       /\ (refused \/ (excluded /\ ~ExclusionLost(f))) => ~VectorAccepts(f, r) /\ ~FaissAccepts(f, r)

(* Every backend accepts the records its filter names, and the same ones as  *)
(* the others; and none answers from outside the workspace, the kinds, the   *)
(* statuses and the candidates a search is scoped to.                        *)
FiltersHold == filter # NotGiven => (StoresAgree /\ ScopeIsKept)
=============================================================================
