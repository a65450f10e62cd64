--------------------------- MODULE GraphExpansion ---------------------------
(***************************************************************************)
(* The expansions of ranked candidates through typed edges:                *)
(* expand_bounded_typed_graph, one hop (search/bounded_graph.py), and      *)
(* expand_personalized_pagerank, a bounded walk from each seed             *)
(* (search/personalized_pagerank.py), which asks for the edges of a node   *)
(* at most once and of at most MaxVisited nodes.  The second is a process  *)
(* that takes one node of a layer per step.                                *)
(* What the code sorts and cuts is here the set of the first ones.         *)
(*                                                                         *)
(* Numbers are exact: a discount is a numerator over Unit, masses and      *)
(* scores are integers that the divisions of the instances leave whole.    *)
(***************************************************************************)
EXTENDS Naturals, FiniteSets

CONSTANTS
  Inputs,      \* calls: [scores, edges, discounts, seeds, fanout, depth,
               \*         visited, floor]
  Unit,        \* the denominator of discounts and damping
  Damping      \* numerator of the damping

\* Mass that has not left the seed yet has no first hop.
NoHop == 0

\* An edge is <<target, type>>; nodes and types are numbered in their order.
\* A call whose limits are not positive raises.
ASSUME ExpansionAssumption ==
  /\ Unit \in Nat \ {0} /\ Damping \in 0..Unit
  /\ \A in \in Inputs :
       /\ DOMAIN in.edges \subseteq Nat /\ IsFiniteSet(DOMAIN in.edges)
       /\ \A n \in DOMAIN in.edges :
            in.edges[n] \subseteq (DOMAIN in.edges) \X Nat /\ IsFiniteSet(in.edges[n])
       /\ DOMAIN in.discounts \subseteq Nat \ {NoHop}
       /\ in.discounts \in [DOMAIN in.discounts -> Nat]
       /\ DOMAIN in.scores \subseteq DOMAIN in.edges
       /\ in.scores \in [DOMAIN in.scores -> Nat]
       /\ in.seeds \in Nat \ {0} /\ in.fanout \in Nat \ {0}
       /\ in.depth \in Nat \ {0} /\ in.visited \in Nat \ {0} /\ in.floor \in Nat

VARIABLES
  ppr,   \* the call: [in, phase, left, cache, calls, given]
  hike   \* the walk from a seed: [seed, hop, frontier, layer, next]

pprVars == <<ppr, hike>>

SumOf(f) ==
  LET sum[S \in SUBSET DOMAIN f] ==
        IF S = {} THEN 0 ELSE LET x == CHOOSE y \in S : TRUE IN f[x] + sum[S \ {x}]
  IN sum[DOMAIN f]

\* By score, descending; equal scores stay in the order of the mapping.
SeedBefore(in, a, b) ==
  in.scores[a] > in.scores[b] \/ (in.scores[a] = in.scores[b] /\ a < b)

SeedItems(in) ==
  {s \in DOMAIN in.scores :
     Cardinality({x \in DOMAIN in.scores : SeedBefore(in, x, s)}) < in.seeds}

Supported(in, node) == {e \in in.edges[node] : e[2] \in DOMAIN in.discounts}

\* The best supported edges: discount, then target, then type.
EdgeBefore(in, a, b) ==
  LET d(e) == in.discounts[e[2]]
  IN \/ d(a) > d(b)
     \/ d(a) = d(b) /\ (a[1] < b[1] \/ (a[1] = b[1] /\ a[2] < b[2]))

TopEdges(in, node) ==
  {e \in Supported(in, node) :
     Cardinality({x \in Supported(in, node) : EdgeBefore(in, x, e)}) < in.fanout}

-----------------------------------------------------------------------------
(* expand_bounded_typed_graph.                                             *)

\* What the seeds offer a target: <<seed, edge>>.
Offers(in, target) ==
  {o \in SeedItems(in) \X ((DOMAIN in.edges) \X (DOMAIN in.discounts)) :
     o[2] \in TopEdges(in, o[1]) /\ o[2][1] = target}

Contribution(in, o) == in.scores[o[1]] * in.discounts[o[2][2]]

Reached(in) == {n \in DOMAIN in.edges : Offers(in, n) # {}}

\* An offer is kept against one that comes later and is no better.
OfferBefore(in, w, o) ==
  \/ Contribution(in, w) > Contribution(in, o)
  \/ /\ Contribution(in, w) = Contribution(in, o)
     /\ SeedBefore(in, w[1], o[1]) \/ (w[1] = o[1] /\ EdgeBefore(in, w[2], o[2]))

Winner(in, target) ==
  CHOOSE w \in Offers(in, target) :
    \A o \in Offers(in, target) \ {w} : OfferBefore(in, w, o)

BoundedProvenance(in, target) == LET w == Winner(in, target) IN <<w[1], w[2][2]>>

-----------------------------------------------------------------------------
(* expand_personalized_pagerank.                                           *)

\* restart_mass: the seeds' scores add up to one whole, here Whole units.
Whole == Unit * Unit * Unit * Unit * Unit * Unit
TotalScore(in) == SumOf([s \in SeedItems(in) |-> in.scores[s]])
RestartMass(in, seed) == (Whole * in.scores[seed]) \div TotalScore(in)

NoMass == [n \in {} |-> <<>>]

Start(in, seed) ==
  [seed |-> seed, hop |-> 1,
   frontier |-> [n \in {seed} |-> [h \in {NoHop} |-> RestartMass(in, seed)]],
   layer |-> {seed}, next |-> NoMass]

\* Without seeds, or with scores that add up to nothing, the call is over.
PprInit ==
  \E in \in Inputs : \E seed \in SeedItems(in) :
    /\ TotalScore(in) > 0
    /\ \A s \in SeedItems(in) \ {seed} : SeedBefore(in, seed, s)
    /\ hike = Start(in, seed)
    /\ ppr = [in |-> in, phase |-> "walking", left |-> SeedItems(in) \ {seed}, cache |-> {},
              calls |-> [n \in DOMAIN in.edges |-> 0], given |-> NoMass]

\* Mutant of KnownNodes: a node without supported edges is asked again.
KnownNodesNonEmpty == {n \in ppr.cache : TopEdges(ppr.in, n) # {}}

KnownNodes == ppr.cache

\* Mutant of Carried: the type of the last hop is carried along.
CarriedLast(hop, e) == e[2]

\* Mass keeps the type of its first hop.
Carried(hop, e) == IF hop = NoHop THEN e[2] ELSE hop

Propagated(in, mass, e) == (mass * Damping * in.discounts[e[2]]) \div (Unit * Unit)

\* What a node's mass, by first hop, sends over some edges: flows
\* <<target, first hop, mass, <<edge, first hop so far>>>>.
Flows(in, byHop, edges) ==
  {f \in {<<e[1], Carried(h, e), Propagated(in, byHop[h], e), <<e, h>> >> :
            e \in edges, h \in DOMAIN byHop} : f[3] > 0}

\* A table of masses with flows <<target, key, mass, how it came>> added.
Added(table, flows) ==
  [n \in DOMAIN table \cup {x[1] : x \in flows} |->
     LET old == IF n \in DOMAIN table THEN table[n] ELSE [k \in {} |-> 0]
         here == {x \in flows : x[1] = n}
     IN [k \in DOMAIN old \cup {x[2] : x \in here} |->
           (IF k \in DOMAIN old THEN old[k] ELSE 0)
             + SumOf([x \in {y \in here : y[2] = k} |-> x[3]])]]

\* The flows as the results count them, by seed and first hop.
Credited(seed, flows) == {<<x[1], <<seed, x[2]>>, x[3], x[4]>> : x \in flows}

\* The layer goes by mass, descending.
Heavier(frontier, a, b) ==
  \/ SumOf(frontier[a]) > SumOf(frontier[b])
  \/ SumOf(frontier[a]) = SumOf(frontier[b]) /\ a < b

Refused(node) == node \notin KnownNodes /\ Cardinality(ppr.cache) >= ppr.in.visited

\* A node is silent below the floor, and beyond the budget of calls.
Silent(node) == SumOf(hike.frontier[node]) < ppr.in.floor \/ Refused(node)

Sent(node) ==
  Flows(ppr.in, hike.frontier[node], IF Silent(node) THEN {} ELSE TopEdges(ppr.in, node))

ExpandNode ==
  \E node \in hike.layer :
    /\ ppr.phase = "walking"
    /\ \A n \in hike.layer \ {node} : Heavier(hike.frontier, node, n)
    /\ ppr' = [ppr EXCEPT
         !.cache = IF Silent(node) THEN @ ELSE @ \cup {node},
         !.calls[node] = IF Silent(node) \/ node \in KnownNodes THEN @ ELSE @ + 1,
         !.given = Added(@, Credited(hike.seed, Sent(node)))]
    /\ hike' = [hike EXCEPT
         !.layer = @ \ {node},
         !.next = Added(@, {x \in Sent(node) : x[3] >= ppr.in.floor})]

NextLayer ==
  /\ ppr.phase = "walking" /\ hike.layer = {}
  /\ hike.hop < ppr.in.depth /\ hike.next # NoMass
  /\ hike' = [seed |-> hike.seed, hop |-> hike.hop + 1, frontier |-> hike.next,
              layer |-> DOMAIN hike.next, next |-> NoMass]
  /\ UNCHANGED ppr

SeedDone ==
  /\ ppr.phase = "walking" /\ hike.layer = {}
  /\ hike.hop = ppr.in.depth \/ hike.next = NoMass

NextSeed ==
  /\ SeedDone
  /\ \E seed \in ppr.left :
       /\ \A s \in ppr.left \ {seed} : SeedBefore(ppr.in, seed, s)
       /\ hike' = Start(ppr.in, seed)
       /\ ppr' = [ppr EXCEPT !.left = @ \ {seed}]

FinishExpansion ==
  /\ SeedDone /\ ppr.left = {}
  /\ ppr' = [ppr EXCEPT !.phase = "done"]
  /\ UNCHANGED hike

PprNext == ExpandNode \/ NextLayer \/ NextSeed \/ FinishExpansion

\* The seeds and first edges that gave a node the most mass.
Provenances(node) ==
  {k \in DOMAIN ppr.given[node] : \A x \in DOMAIN ppr.given[node] :
                                    ppr.given[node][x] <= ppr.given[node][k]}

-----------------------------------------------------------------------------
\* Nodes a node reaches over its selected edges in at most n hops, itself
\* included.
Reach(in, node) ==
  LET reach[h \in 0..in.depth] ==
        IF h = 0 THEN {node}
        ELSE reach[h - 1] \cup {e[1] : e \in UNION {TopEdges(in, x) : x \in reach[h - 1]}}
  IN reach

Within(in, node, n) == Reach(in, node)[n]

(* The edges of a node are asked for at most once, and of no more than     *)
(* max_visited_nodes nodes, also across seeds, cycles and loops.           *)
(* (expand_personalized_pagerank, docstring: outgoing_edges is I/O)        *)
AsksOnce ==
  /\ \A n \in DOMAIN ppr.calls : ppr.calls[n] <= 1
  /\ Cardinality({n \in DOMAIN ppr.calls : ppr.calls[n] # 0}) <= ppr.in.visited

(* What is reported for a node can be traced: from the seed named there is *)
(* a selected edge of the type named, and the node lies behind it within   *)
(* max_depth.  (expand_personalized_pagerank, Provenance choice)           *)
ProvenanceIsCausal ==
  \A n \in DOMAIN ppr.given : \A k \in Provenances(n) :
    /\ k[1] \in SeedItems(ppr.in)
    /\ \E e \in TopEdges(ppr.in, k[1]) :
         e[2] = k[2] /\ n \in Within(ppr.in, e[1], ppr.in.depth - 1)

\* No bound of the walk cuts off what one hop from the seeds reaches.
Uncut(in) ==
  /\ Damping # 0
  /\ in.visited >= Cardinality(SeedItems(in))
  /\ in.depth = 1 \/ in.visited >= Cardinality(DOMAIN in.edges)
  /\ \A s \in SeedItems(in) :
       LET m == RestartMass(in, s) IN
       m >= in.floor /\ \A e \in TopEdges(in, s) : Propagated(in, m, e) # 0

(* The walk replaces the one-hop expansion without losing a record: what   *)
(* that reaches this reaches, as long as no bound cuts it off; with one    *)
(* seed and one hop the provenance is the same one, too.                   *)
WalkCoversOneHop ==
  LET in == ppr.in IN
  (ppr.phase = "done" /\ Uncut(in)) =>
    /\ Reached(in) \subseteq DOMAIN ppr.given
    /\ in.depth = 1 => DOMAIN ppr.given \subseteq Reached(in)
    /\ (in.depth = 1 /\ Cardinality(SeedItems(in)) = 1) =>
         \A n \in Reached(in) : BoundedProvenance(in, n) \in Provenances(n)

(* The three together: each node asked once, within the budget; nothing      *)
(* reported that no edge explains; nothing missed that one hop would find.   *)
ExpansionHolds == AsksOnce /\ ProvenanceIsCausal /\ WalkCoversOneHop
=============================================================================
