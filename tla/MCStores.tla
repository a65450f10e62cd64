----------------------------- MODULE MCStores -----------------------------
(***************************************************************************)
(* Instances for TLC of the stores and of the indexing work around them:   *)
(* the filters, the PostgreSQL store, the graph stores, the expansion of a *)
(* search over the graph, the searches of the local store, the bootstrap   *)
(* checkpoint and the embedding work.  As in MCRuntime a behaviour         *)
(* exercises one of them, its subject.                                     *)
(***************************************************************************)
EXTENDS Filters, StoreEpochs, GraphExpansion, LocalSearch, Bootstrap,
        SemanticWork, TLC

VARIABLE subject

vars == <<filterVars, pgVars, graphVars, pprVars, localVars, bootVars, workVars, subject>>

-----------------------------------------------------------------------------
(* Filters: six records, and terms that each store compiles in its own way. *)

Rec(key, workspace, kind, status, sid, uri, file, project, doc, tags) ==
  [key |-> key, workspace |-> workspace, kind |-> kind, status |-> status, sid |-> sid,
   uri |-> uri, file |-> file, project |-> project, doc |-> doc, tags |-> tags]
FileA == Path("d", "a", "md")
FileB == Path("e", "a", "")
Bare(x) == Path("", x, "")
SomeCorpus == {
  Rec("r1", "w1", "git", "active", Bare("s1"), NoPath, FileA, Text("p1"), Absent, List({"t1"})),
  Rec("r2", "w2", "git", "active", Bare("s2"), FileB, NoPath, Number("5"), Text(Bare("a")),
      List({})),
  Rec("r3", "w1", "doc", "archived", Bare("s1"), Path("", "a", "md"), NoPath, Absent,
      Text(Bare("s2")), Absent),
  Rec("r4", "w2", "doc", "active", Bare("s3"), NoPath, NoPath, Null, Text(NoPath),
      List({"t1", "t2"})),
  Rec("r5", "w1", "git", "active", Bare("s2"), FileB, FileA, Text("p1"), Null, List({"t2"})),
  Rec("r6", "w1", "web", "active", Bare("s4"), NoPath, NoPath, Text("p2"), Absent, Text("t1")) }

Term(name, value) == [x \in {name} |-> value]
SomeTerms ==
  {Term("statuses", {"active", "archived"}), Term("status", {"archived"}),
   Term("include_inactive", TRUE), Term("workspace_id", "w1"),
   Term("source_kinds", {}), Term("source_kinds", {"git"}), Term("source_filter", {"doc", "git"}),
   Term("project_ids", {}), Term("project_ids", {"p1", "5", "None"}), Term("project_filter", {}),
   Term("project_filter", {"p1"}), Term("excluded_projects", {"p1", "5"}),
   Term("candidate_ids", {"r1", "r2", "r3", "bare"}), Term("candidate_ids", {"bare"}),
   Term("exclude_storage_keys", {"r1", "r4"}), Term("exclude_storage_keys", {"bare"}),
   Term("paths", {FileA}), Term("paths", {Bare("a")}), Term("path", {Path("x", "a", "md")}),
   Term("excluded_files", {}), Term("excluded_files", {Bare("a")}), Term("excluded_files", {FileA}),
   Term("document_ids", {}), Term("document_ids", {Bare("s1"), Bare("a")}),
   Term("excluded_documents", {Bare("s2")}),
   Term("metadata_equals", "5"), Term("metadata_equals", "p1"), Term("metadata_equals", "None"),
   Term("metadata_in", {"p1", "5"}), Term("metadata_in", {}),
   Term("source_scoped_filters", [git |-> [workspace_ids |-> {"w1"}]]),
   Term("source_scoped_filters",
        [git |-> [metadata_non_empty |-> {"tags"}, workspace_ids |-> {"w1", "w2"}]]),
   Term("source_scoped_filters",
        [git |-> [metadata_contains_any |-> {"t1"}], doc |-> [workspace_ids |-> {}]]),
   Term("source_scoped_filters", [doc |-> [metadata_contains_any |-> {"t1"}]]),
   Term("source_scoped_filters", [web |-> [metadata_non_empty |-> {"tags"}]])}

-----------------------------------------------------------------------------
(* The other instances.                                                    *)

OneOrBothKeys == {{"k1"}, {"k1", "k2"}}

\* A chain with a shortcut, a second type, a loop back and a loop at a node.
SomeEdges == {<<1, 2, "cites">>, <<1, 3, "cites">>, <<2, 3, "cites">>, <<3, 4, "cites">>,
              <<3, 1, "parent">>, <<1, 2, "parent">>, <<3, 3, "cites">>}
Question(seeds, depth, incoming, types) ==
  [seeds |-> seeds, depth |-> depth, incoming |-> incoming, types |-> types]
BothTypes == {"cites", "parent"}
SomeQuestions ==
  {Question({1}, 1, FALSE, BothTypes), Question({1, 3}, 2, FALSE, BothTypes),
   Question({1}, 3, FALSE, {"cites"}), Question({3}, 1, TRUE, BothTypes),
   Question({4}, 2, TRUE, BothTypes)}

\* Expansions of three graphs; edge type 3 has no discount.
ThreeGraphs ==
  {[n \in 1..4 |-> CASE n = 1 -> {<<2, 1>>, <<3, 2>>, <<3, 1>>, <<4, 3>>}
                     [] n = 2 -> {<<1, 1>>, <<4, 2>>}
                     [] n = 3 -> {<<3, 1>>, <<4, 1>>}
                     [] OTHER -> {}],
   [n \in 1..4 |-> CASE n = 1 -> {<<2, 1>>}
                     [] n = 2 -> {<<3, 1>>}
                     [] n = 3 -> {<<1, 2>>, <<4, 1>>}
                     [] OTHER -> {<<2, 2>>}],
   [n \in 1..4 |-> IF n = 4 THEN {<<1, 3>>} ELSE {<<4, 1>>, <<4, 2>>}]}
SomeInputs ==
  [scores: {[n \in {1} |-> 1], [n \in {1, 2} |-> 1], [n \in {1, 2, 3} |-> IF n = 3 THEN 2 ELSE 1]},
   edges: ThreeGraphs,
   discounts: {[t \in {1, 2} |-> 3 - t], [t \in {1} |-> 2], [t \in {1, 2} |-> 2]},
   seeds: {1, 3}, fanout: {1, 2, 3}, depth: {1, 3}, visited: {1, 2, 9}, floor: {0, 8}]

\* A page holds one row and a snapshot two of the three records.
Kind(wanted, active, words, score) ==
  [wanted |-> wanted, active |-> active, words |-> words, score |-> score]
K1 == Kind(TRUE, TRUE, "all", 1)
K2 == Kind(TRUE, TRUE, "some", 2)
K3 == Kind(FALSE, TRUE, "near", 2)
K4 == Kind(TRUE, FALSE, "all", 2)
K5 == Kind(FALSE, TRUE, "all", 2)
SomeKinds == {K1, K2, K3, K4}
SomeRecords == {<<K1, K2, K1>>, <<K5, K5, K1>>, <<K3, K1, Gone>>, <<K2, K3, K2>>,
                <<K4, K2, K3>>, <<K3, Gone, K4>>}
Call(kind, k, restriction, queries, rungs) ==
  [kind |-> kind, k |-> k, filter |-> restriction, queries |-> queries, rungs |-> rungs]
SomeCalls ==
  {Call("vector", k, f, q, << >>) :
     k \in {1, 2}, f \in {"none", "loose", "typed"}, q \in {<<1>>, <<1, 2>>}}
  \union {Call("fts", 1, f, << >>, <<"all", "some", "near">>) : f \in {"none", "loose", "typed"}}
  \union {Call("scan", k, f, << >>, << >>) : k \in {1, 2}, f \in {"none", "loose"}}
  \union {Call("vector", 0, "none", <<1>>, << >>)}

\* Two of the three files share a doc id.
DocIds == [path \in {"a.md", "a.txt", "b.md"} |-> IF path = "b.md" THEN "b" ELSE "a"]
SomeJobs == {{"a.md", "b.md"}, {"a.txt"}}
SomeExclusions == {{}, {"a.md"}}
BootBudget(edits, jobs, boots, crashes) ==
  [edits |-> edits, jobs |-> jobs, boots |-> boots, crashes |-> crashes]
SomeBootBudgets == {BootBudget(1, 2, 1, 0), BootBudget(2, 1, 2, 0), BootBudget(0, 2, 1, 1)}

\* Sources 1 and 2 have one text; two batches of work.
TextIds == <<1, 1, 2, 3>>
SomeWork == {{1, 2, 3, 4}, {2, 3}}
WorkBudget(executions, faults) == [executions |-> executions, faults |-> faults]
SomeWorkBudgets == {WorkBudget(3, 1), WorkBudget(1, 2)}

-----------------------------------------------------------------------------
AnExpansion == CHOOSE i \in SomeInputs : TRUE

Init ==
  /\ subject \in {"filters", "postgres", "graph", "expansion", "local", "bootstrap", "work"}
  /\ FilterInit /\ PgInit /\ GraphInit /\ PprInit /\ LocalSearchInit /\ BootstrapInit
  /\ SemanticInit
  \* only the subject has more than one initial state
  /\ subject # "expansion" => ppr.in = AnExpansion
  /\ subject # "local" => base = <<K3, Gone, K4>>
  /\ subject # "bootstrap" => left = BootBudget(0, 2, 1, 1)
  /\ subject # "work" => workLeft = WorkBudget(1, 2)

Next ==
  /\ UNCHANGED subject
  /\ \/ /\ subject = "filters" /\ FilterNext
        /\ UNCHANGED <<pgVars, graphVars, pprVars, localVars, bootVars, workVars>>
     \/ /\ subject = "postgres" /\ PgNext
        /\ UNCHANGED <<filterVars, graphVars, pprVars, localVars, bootVars, workVars>>
     \/ /\ subject = "graph" /\ GraphNext
        /\ UNCHANGED <<filterVars, pgVars, pprVars, localVars, bootVars, workVars>>
     \/ /\ subject = "expansion" /\ PprNext
        /\ UNCHANGED <<filterVars, pgVars, graphVars, localVars, bootVars, workVars>>
     \/ /\ subject = "local" /\ LocalSearchNext
        /\ UNCHANGED <<filterVars, pgVars, graphVars, pprVars, bootVars, workVars>>
     \/ /\ subject = "bootstrap" /\ BootstrapNext
        /\ UNCHANGED <<filterVars, pgVars, graphVars, pprVars, localVars, workVars>>
     \/ /\ subject = "work" /\ SemanticNext
        /\ UNCHANGED <<filterVars, pgVars, graphVars, pprVars, localVars, bootVars>>

Spec == Init /\ [][Next]_vars

\* Processes, workers and executors are two of a kind: no definition tells one
\* from the other, and each subject uses its own.
Interchangeable == Permutations(Processes)
=============================================================================
