---------------------------- MODULE GraphStores ----------------------------
(***************************************************************************)
(* The graph edges of the two record stores and the walks over them:       *)
(* _GraphEngine (indices/local.py) walks hop by hop and row by row, in     *)
(* the order SQLite happens to return the rows; PGGraphStore               *)
(* (adapters/stores/pgvector.py) asks one recursive query.  The same graph *)
(* is given to both and their answers are compared.                        *)
(*                                                                         *)
(* A weight is a power of one half and is kept as its exponent, the cost   *)
(* of the edge: the product of weights along a walk is the sum of its      *)
(* costs, and the heaviest walk is the cheapest one.  Weights above 1 are  *)
(* left out, as is max_neighbors, which cuts the sorted answer.            *)
(***************************************************************************)
EXTENDS Naturals, FiniteSets

CONSTANTS
  GraphNodes,  \* storage keys
  GraphEdges,  \* edges <<source, target, type>> a caller may upsert
  EdgeTypes,   \* the types of those edges
  Costs,       \* exponents of their weights
  Questions,   \* calls: [seeds, depth, incoming, types]
  MaxEdges,    \* bound on the edges stored at once
  MaxGraphCalls  \* bound on the calls that write

\* A call for a depth below 1 raises.
ASSUME GraphAssumption ==
  /\ IsFiniteSet(GraphNodes)
  /\ GraphEdges \subseteq GraphNodes \X GraphNodes \X EdgeTypes
  /\ Costs \subseteq Nat
  /\ \A q \in Questions : q.seeds \subseteq GraphNodes /\ q.depth \in Nat \ {0}

VARIABLES
  indexed,     \* keys of local_records
  stored,      \* local_graph_edges: edge -> cost
  graphEpoch,  \* the graph lane's epoch
  graphCalls,  \* calls that wrote so far
  walk         \* the walk in progress, which holds the read lock

graphVars == <<indexed, stored, graphEpoch, graphCalls, walk>>

Source(e) == e[1]
Target(e) == e[2]
Type(e) == e[3]

NoWalk == [phase |-> "idle"]

GraphInit ==
  /\ indexed = {}
  /\ stored = [e \in {} |-> 0]
  /\ graphEpoch = 0
  /\ graphCalls = 0
  /\ walk = NoWalk

\* A writer holds the lock alone, so no walk is under way.
Writes ==
  /\ walk.phase = "idle" /\ graphCalls < MaxGraphCalls
  /\ graphCalls' = graphCalls + 1
  /\ UNCHANGED walk

\* The graph lane moves when the statement changed a row.
StoreEdges(new) ==
  /\ stored' = new
  /\ graphEpoch' = graphEpoch + (IF new # stored THEN 1 ELSE 0)

IndexNode(n) ==
  /\ n \notin indexed
  /\ Writes
  /\ indexed' = indexed \cup {n}
  /\ UNCHANGED <<stored, graphEpoch>>

Cascade(n) == {e \in DOMAIN stored : n \in {Source(e), Target(e)}}

DeleteNode(n) ==
  /\ n \in indexed
  /\ Writes
  /\ indexed' = indexed \ {n}
  /\ StoreEdges([e \in DOMAIN stored \ Cascade(n) |-> stored[e]])

\* Endpoints that are not indexed raise; an equal edge changes nothing.
UpsertEdge(e, c) ==
  /\ {Source(e), Target(e)} \subseteq indexed
  /\ e \in DOMAIN stored \/ Cardinality(DOMAIN stored) < MaxEdges
  /\ Writes
  /\ StoreEdges([x \in DOMAIN stored \cup {e} |-> IF x = e THEN c ELSE stored[x]])
  /\ UNCHANGED indexed

DeleteEdge(e) ==
  /\ Writes
  /\ StoreEdges([x \in DOMAIN stored \ {e} |-> stored[x]])
  /\ UNCHANGED indexed

\* graph_integrity_errors.
Dangling == {e \in DOMAIN stored : ~({Source(e), Target(e)} \subseteq indexed)}

-----------------------------------------------------------------------------
(* _neighbors_direction and _neighbors_many_direction of the local store:  *)
(* the single call is a walk from one seed that also filters edge types.   *)

From(q, e) == IF q.incoming THEN Target(e) ELSE Source(e)
To(q, e) == IF q.incoming THEN Source(e) ELSE Target(e)

\* The rows of one hop, for the frontiers of all seeds together.
HopRows(q, frontier) ==
  {e \in DOMAIN stored : /\ To(q, e) \in indexed
                         /\ \E s \in q.seeds : From(q, e) \in frontier[s]}

BeginWalk(q) ==
  LET frontier == [s \in q.seeds |-> {s}] IN
  /\ walk.phase = "idle"
  /\ walk' = [phase |-> "walking", question |-> q, hop |-> 0, frontier |-> frontier,
              next |-> [s \in q.seeds |-> {}], rows |-> HopRows(q, frontier),
              best |-> [s \in q.seeds |-> [n \in {} |-> <<>>]]]
  /\ UNCHANGED <<indexed, stored, graphEpoch, graphCalls>>

\* Mutant of RowCost: the cost of the way to the parent is forgotten.
RowCostOwn(s, e) == stored[e]

\* From the second hop on the parent's best cost so far counts, and that may
\* have become cheaper by an earlier row of the same hop.
RowCost(s, e) ==
  LET parent == From(walk.question, e)
      best == walk.best[s]
  IN stored[e] + IF walk.hop > 0 /\ parent \in DOMAIN best THEN best[parent][2] ELSE 0

\* What one row does to the answers of the seeds whose frontier it leaves.
ReadRow(e) ==
  LET q == walk.question
      target == To(q, e)
      owners == {s \in q.seeds : From(q, e) \in walk.frontier[s] /\ target # s}
      improved(s) == \/ target \notin DOMAIN walk.best[s]
                     \/ RowCost(s, e) < walk.best[s][target][2]
  IN /\ walk.phase = "walking" /\ e \in walk.rows
     /\ walk' = [walk EXCEPT
          !.rows = @ \ {e},
          !.next = [s \in q.seeds |->
                      IF s \in owners /\ Type(e) \in q.types THEN @[s] \cup {target} ELSE @[s]],
          !.best = [s \in q.seeds |->
                      IF s \in owners /\ Type(e) \in q.types /\ improved(s)
                      THEN [n \in DOMAIN @[s] \cup {target} |->
                              IF n = target THEN <<Type(e), RowCost(s, e)>> ELSE @[s][n]]
                      ELSE @[s]]]
     /\ UNCHANGED <<indexed, stored, graphEpoch, graphCalls>>

NextHop ==
  /\ walk.phase = "walking" /\ walk.rows = {} /\ walk.hop + 1 < walk.question.depth
  /\ walk' = [walk EXCEPT !.hop = @ + 1, !.frontier = walk.next,
                          !.next = [s \in walk.question.seeds |-> {}],
                          !.rows = HopRows(walk.question, walk.next)]
  /\ UNCHANGED <<indexed, stored, graphEpoch, graphCalls>>

FinishWalk ==
  /\ walk.phase = "walking" /\ walk.rows = {} /\ walk.hop + 1 = walk.question.depth
  /\ walk' = [walk EXCEPT !.phase = "done"]
  /\ UNCHANGED <<indexed, stored, graphEpoch, graphCalls>>

ReleaseLock ==
  /\ walk.phase = "done"
  /\ walk' = NoWalk
  /\ UNCHANGED <<indexed, stored, graphEpoch, graphCalls>>

GraphNext ==
  \/ \E n \in GraphNodes : IndexNode(n) \/ DeleteNode(n)
  \/ \E e \in GraphEdges : DeleteEdge(e) \/ \E c \in Costs : UpsertEdge(e, c)
  \/ \E q \in Questions : BeginWalk(q)
  \/ \E e \in GraphEdges : walk.phase = "walking" /\ ReadRow(e)
  \/ NextHop \/ FinishWalk \/ ReleaseLock

-----------------------------------------------------------------------------
(* The recursive queries of PGGraphStore: the walks from a seed, each with *)
(* the neighbour it reports, its cost, the type of its last edge and the   *)
(* records on its path.  Records are not looked at.                        *)

FirstHop(q, s) ==
  {[at |-> To(q, e), cost |-> stored[e], type |-> Type(e), path |-> {Source(e), Target(e)}] :
     e \in {x \in DOMAIN stored : From(q, x) = s /\ Type(x) \in q.types}}

Extensions(q, rows) ==
  {x \in rows \X DOMAIN stored :
     From(q, x[2]) = x[1].at /\ To(q, x[2]) \notin x[1].path /\ Type(x[2]) \in q.types}

\* Mutant of ManyStep: the cycle check is left out.
ManyStepCyclic(q, rows) ==
  {[at |-> To(q, x[2]), cost |-> x[1].cost + stored[x[2]], type |-> Type(x[2]),
    path |-> x[1].path] :
     x \in {y \in rows \X DOMAIN stored : From(q, y[2]) = y[1].at /\ Type(y[2]) \in q.types}}

\* _neighbors_many_direction.
ManyStep(q, rows) ==
  {[at |-> To(q, x[2]), cost |-> x[1].cost + stored[x[2]], type |-> Type(x[2]),
    path |-> x[1].path \cup {Source(x[2]), Target(x[2])}] : x \in Extensions(q, rows)}

\* _neighbors_direction keeps the first source of a walk in its source
\* columns; incoming, those are the neighbour it reports and walks on from.
SingleStep(q, rows) ==
  {[at |-> IF q.incoming THEN x[1].at ELSE Target(x[2]),
    cost |-> x[1].cost + stored[x[2]], type |-> Type(x[2]),
    path |-> x[1].path \cup {To(q, x[2])}] : x \in Extensions(q, rows)}

ManyWalks(q, s, depth) ==
  LET level[h \in 1..depth] == IF h = 1 THEN FirstHop(q, s) ELSE ManyStep(q, level[h - 1])
  IN UNION {level[h] : h \in 1..depth}

SingleWalks(q, s) ==
  LET level[h \in 1..q.depth] ==
        IF h = 1 THEN FirstHop(q, s) ELSE SingleStep(q, level[h - 1])
  IN UNION {level[h] : h \in 1..q.depth}

\* Per neighbour its cheapest cost.
Cheapest(rows) ==
  [n \in {r.at : r \in rows} |->
     CHOOSE c \in {r.cost : r \in rows} :
       /\ \E r \in rows : r.at = n /\ r.cost = c
       /\ \A r \in rows : r.at = n => c <= r.cost]

-----------------------------------------------------------------------------
(* A walk of the local store finds the neighbours that PostgreSQL finds for *)
(* the same question, the seed itself apart, which PostgreSQL reports when *)
(* it has an edge to itself.  Over one hop the weights are equal; over     *)
(* more, whatever the order of the rows, the local weight is at least      *)
(* PostgreSQL's and is the weight of some walk of the graph.  Outgoing,    *)
(* PostgreSQL answers one seed as it answers many.  No edge dangles.       *)
(* (_GraphEngine._neighbors_many_direction, PGGraphStore)                  *)
WalksAgree ==
  /\ Dangling = {}
  /\ walk.phase = "done" =>
       \A s \in walk.question.seeds :
         LET q == walk.question
             local == walk.best[s]
             many == Cheapest(ManyWalks(q, s, q.depth))
             any == Cheapest(ManyWalks(q, s, Cardinality(GraphNodes)))
         IN /\ DOMAIN local = DOMAIN many \ {s}
            /\ \A n \in DOMAIN local :
                 local[n][2] <= many[n] /\ any[n] <= local[n][2]
            /\ q.depth = 1 => \A n \in DOMAIN local : local[n][2] = many[n]
            /\ ~q.incoming => Cheapest(SingleWalks(q, s)) = many

(* The graph lane's epoch moves exactly with the edges.                    *)
GraphEpochCovers == [][stored' # stored <=> graphEpoch' # graphEpoch]_graphVars

=============================================================================
