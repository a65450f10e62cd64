---------------------------- MODULE StoreEpochs ----------------------------
(***************************************************************************)
(* What the epochs of the stores promise to the caches above them, for the *)
(* PostgreSQL stores and for the graph lane of the local one.              *)
(***************************************************************************)
EXTENDS PgStore, GraphStores

(* Whoever caches answers under a lane's epoch hears of every write that     *)
(* changes them: the lanes of the PostgreSQL stores, with the commits that   *)
(* PgEpochsCover excepts, and the graph lane of the local store.             *)
(* (_PostgresEpochLane.bump, _GraphEngine)                                   *)
StoreEpochsCover == PgEpochsCover /\ GraphEpochCovers
=============================================================================
