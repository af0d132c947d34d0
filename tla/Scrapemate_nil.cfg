SPECIFICATION Spec
CONSTANTS
  w1 = w1 w2 = w2 s1 = s1 s2 = s2 p1 = p1 p2 = p2
  Nil = Nil
  Workers <- OneWorker
  Seeds <- OneSeed
  Places <- OnePlace
  MaxResults = 0
  ExtractEmail = FALSE
  ExitOnInactivity = FALSE
  Cancels = {"signal"}
  MayBreak = FALSE
  WriterMayFail = FALSE
INVARIANTS NeverCrashes
