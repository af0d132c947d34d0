---------------------------- MODULE ScrapemateMC ----------------------------
(* Small instances of Scrapemate for TLC. *)
EXTENDS Scrapemate, TLC

CONSTANTS w1, w2, s1, s2, p1, p2

TwoWorkers == {w1, w2}
TwoSeeds   == {s1, s2}
TwoPlaces  == {p1, p2}
OneWorker  == {w1}
OneSeed    == {s1}
OnePlace   == {p1}

Symmetry == Permutations(TwoWorkers) \cup Permutations(TwoSeeds) \cup Permutations(TwoPlaces)
=============================================================================
