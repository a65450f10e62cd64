---------------------------- MODULE MCIngestion ----------------------------
(***************************************************************************)
(* Instances of Ingestion for TLC.                                         *)
(***************************************************************************)
EXTENDS Ingestion, TLC

CONSTANTS p1, p2, s1, s2, k1, k2, none

\* two versions of one record
SameTwice == s1 :> (1 :> k1 @@ 2 :> k1)
\* a batch source that ends in a filtered position, and a record source with
\* two versions of one record
Mixed == s1 :> (1 :> k1 @@ 2 :> none) @@ s2 :> (1 :> k1 @@ 2 :> k1)

BothEntries == p1 :> Entries @@ p2 :> Entries
OneEach == p1 :> {"coordinator"} @@ p2 :> {"kernel"}
OwnsOne == p1 :> {s1} @@ p2 :> {s2}
OwnsTogether == p1 :> {s1} @@ p2 :> {s1}
OneBatched == {s1}
BothModes == {"strict", "lenient"}
=============================================================================
