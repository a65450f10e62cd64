------------------------------ MODULE MCFaiss ------------------------------
(***************************************************************************)
(* An instance of the FAISS store for TLC whose callers write the cached   *)
(* state again and again, so that its writer stops and starts.             *)
(***************************************************************************)
EXTENDS FaissStore

RowPairs == {<<1, 1>>, <<2, 1>>}
OneRow == {[k \in {1} |-> <<1, 1>>]}
BusyWriter ==
  {[commits |-> 2, searches |-> 3, incidents |-> 0, strategy |-> "exact"]}
=============================================================================
