SPECIFICATION Spec
CONSTANTS
  w1 = w1 w2 = w2 s1 = s1 s2 = s2 p1 = p1 p2 = p2
  Nil = Nil
  Workers <- TwoWorkers
  Seeds <- TwoSeeds
  Places <- TwoPlaces
  MaxResults = 1
  ExtractEmail = FALSE
  ExitOnInactivity = TRUE
  Cancels = {"signal"}
  MayBreak = TRUE
  WriterMayFail = FALSE
SYMMETRY Symmetry
INVARIANTS ExitOnlyWhenAccounted CompleteRunWroteAll NoPlaceTwice
