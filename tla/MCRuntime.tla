----------------------------- MODULE MCRuntime -----------------------------
(***************************************************************************)
(* Instances of the runtime services for TLC: the federated search, the    *)
(* HTTP source, the fan-out helper, the two single-flight caches and the   *)
(* FAISS store.  They share no state in the code, so a behaviour exercises *)
(* one of them, the subject chosen at the start; the others stay in their  *)
(* initial state.                                                          *)
(***************************************************************************)
EXTENDS Runtime, HttpSource, FaissStore

CONSTANTS w1, w2, w3

VARIABLE subject

Hit(i, u, r) == [id |-> i, uri |-> u, rank |-> r]
Response(h, p) == [hits |-> h, partial |-> p]

\* Hits 1 and 2 are linked only through the third source's hit.
LinkedAnswers ==
  << {Response(<<Hit(1, "x", 1), Hit(3, NoUri, 2)>>, FALSE)},
     {Response(<<Hit(2, "y", 2), Hit(3, NoUri, 1)>>, TRUE)},
     {Response(<<Hit(1, "y", 1)>>, FALSE),
      Response(<<Hit(4, NoUri, 1), Hit(2, NoUri, 2)>>, FALSE)} >>
TextScores == [i \in {1, 3} |-> i]
TwoReaders == {w1, w2}
ThreeCallers == {w1, w2, w3}

\* Two keys; key 1 is stored when the process starts.
RowPairs == {<<1, 1>>, <<2, 1>>, <<1, 2>>}
OneRow == {[k \in {1, 2} |-> IF k = 1 THEN <<1, 1>> ELSE <<0, 0>>]}
Budget(c, s, n, strategy) ==
  [commits |-> c, searches |-> s, incidents |-> n, strategy |-> strategy]
FaissProfiles == {Budget(2, 2, 0, "exact"), Budget(1, 2, 1, "exact"),
                  Budget(1, 2, 1, "approximate")}

vars == <<fedVars, fanVars, readVars, queryVars, httpVars, faissVars, subject>>

Init ==
  /\ subject \in {"federation", "fanout", "readcache", "querycache", "http", "faiss"}
  /\ FedInit /\ FanInit /\ ReadInit /\ QueryInit /\ HttpInit /\ FaissInit
  \* one initial state for each subject but the last, which has its bounds
  /\ subject # "faiss" => budget = Budget(2, 2, 0, "exact")

Next ==
  /\ UNCHANGED subject
  /\ \/ /\ subject = "federation" /\ FedNext
        /\ UNCHANGED <<fanVars, readVars, queryVars, httpVars, faissVars>>
     \/ /\ subject = "fanout" /\ FanNext
        /\ UNCHANGED <<fedVars, readVars, queryVars, httpVars, faissVars>>
     \/ /\ subject = "readcache" /\ ReadNext
        /\ UNCHANGED <<fedVars, fanVars, queryVars, httpVars, faissVars>>
     \/ /\ subject = "querycache" /\ QueryNext
        /\ UNCHANGED <<fedVars, fanVars, readVars, httpVars, faissVars>>
     \/ /\ subject = "http" /\ HttpNext
        /\ UNCHANGED <<fedVars, fanVars, readVars, queryVars, faissVars>>
     \/ /\ subject = "faiss" /\ FaissNext
        /\ UNCHANGED <<fedVars, fanVars, readVars, queryVars, httpVars>>

Spec == /\ Init /\ [][Next]_vars
        /\ FedFairness /\ FanFairness /\ ReadFairness /\ QueryFairness /\ FaissFairness

(* Every call that has begun ends: federated searches by their deadline,     *)
(* fan-outs by their timeouts, cache readers and query embeddings with the   *)
(* flight they lead or joined, searches of the FAISS store with the refresh  *)
(* they run, and flushes.  (Calls are bounded, so "ends" is "there comes a   *)
(* time after which no call is in progress".)                                *)
EveryCallEnds == <>[](FedQuiet /\ FanQuiet /\ ReadQuiet /\ QueryQuiet /\ FaissQuiet)
=============================================================================
