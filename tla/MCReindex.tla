----------------------------- MODULE MCReindex -----------------------------
(* Instances of Reindex for TLC.                                           *)
EXTENDS Reindex

CONSTANTS p1, p2, m1, m2, old, new, next, other

\* One migration old -> new, worked on by every process.
OneTarget == [m \in Migrations |-> new]
OneSource == [m \in Migrations |-> old]
SharedOperates == [p \in Procs |-> Migrations]

\* Every process uses every operation.
EveryOp == [p \in Procs |-> AllOps]

\* p1 drives the migration and may roll it back; p2 flips and contracts it too.
SecondFlips ==
  [p \in Procs |-> IF p = p1 THEN AllOps ELSE {"flip", "contract"}]

\* Two migrations that compete for the active model; each has one operator.
TwoTargets == [m \in Migrations |-> IF m = m1 THEN new ELSE next]
OwnOperates == [p \in Procs |-> IF p = p1 THEN {m1} ELSE {m2}]

\* A chain: m1 is old -> new, m2 starts from whatever is active.
ChainSource == [m \in Migrations |-> IF m = m1 THEN old ELSE NoModel]
=============================================================================
