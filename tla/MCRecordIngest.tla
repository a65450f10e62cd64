--------------------------- MODULE MCRecordIngest ---------------------------
(***************************************************************************)
(* Instances of RecordIngest for TLC.                                      *)
(***************************************************************************)
EXTENDS RecordIngest

CONSTANTS d1, c1, c2

AllOfFirst == c1 :> d1 @@ c2 :> d1
WriterThreads == Stages \cup {"deletion"}
BothModes == {"strict", "lenient"}

\* a new version has a new chunk in place of the old one
Replaced ==
  [d \in Docs |-> [v \in Versions |-> IF v = 1 THEN <<c1>> ELSE <<c2>>]]
\* two chunks
Pair == [d \in Docs |-> [v \in Versions |-> <<c1, c2>>]]
=============================================================================
