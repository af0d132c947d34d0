------------------------------ MODULE ResumeMC ------------------------------
(* Small instances of Resume for TLC. *)
EXTENDS Resume, TLC

CONSTANTS l1, l2, l3, id1, id2, id3, p1, p2, p3

\* Three queries that share places, the third with a single one; their ids
\* differ, or two of them were given the same id.
ThreeLines == {l1, l2, l3}
ThreeIds   == {id1, id2, id3}
OwnIds     == (l1 :> id1) @@ (l2 :> id2) @@ (l3 :> id3)
SharedIds  == (l1 :> id1) @@ (l2 :> id1) @@ (l3 :> id3)
ThreePlaces == {p1, p2, p3}
Overlap    == (l1 :> {p1, p2}) @@ (l2 :> {p2, p3}) @@ (l3 :> {p2})
=============================================================================
