--------------------------- MODULE MCRecordSearch ---------------------------
(***************************************************************************)
(* Instances of RecordSearch for TLC.                                      *)
(***************************************************************************)
EXTENDS RecordSearch, TLC

CONSTANTS s1, s2, r1, r2, q1, q2

\* two searches of one query
SameQuery == s1 :> q1 @@ s2 :> q1
OneQuery == q1 :> <<r1, r2>>
\* two queries that rank the same records in opposite orders
OneEach == s1 :> q1 @@ s2 :> q2
Opposed == q1 :> <<r1, r2>> @@ q2 :> <<r2, r1>>

EitherMode == {[lenient |-> FALSE, batch |-> FALSE], [lenient |-> TRUE, batch |-> TRUE]}
NoSearches == {}
\* the task of one search catches its error, that of the other does not
FirstCatches == {s1}
=============================================================================
