---------------------------- MODULE SaasWorkerMC ----------------------------
(* Small instances of SaasWorker for TLC. *)
EXTENDS SaasWorker, TLC

CONSTANTS j1, j2, p1, p2

OneJob    == {j1}
TwoJobs   == {j1, j2}
OnePlace  == {p1}
TwoPlaces == {p1, p2}
Fast      == {j2}

Symmetry == Permutations(TwoPlaces)
=============================================================================
