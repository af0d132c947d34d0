---------------------------- MODULE ResultFileMC ----------------------------
(* Small instances of ResultFile for TLC. *)
EXTENDS ResultFile, TLC

CONSTANTS p1, p2, p3

ThreePlaces == {p1, p2, p3}
=============================================================================
