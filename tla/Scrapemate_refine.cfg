SPECIFICATION FairSpec
CONSTANTS
  w1 = w1 w2 = w2 s1 = s1 s2 = s2 p1 = p1 p2 = p2
  Nil = Nil
  Workers <- TwoWorkers
  Seeds <- TwoSeeds
  Places <- OnePlace
  MaxResults = 0
  ExtractEmail = TRUE
  ExitOnInactivity = FALSE
  Cancels = {"deadline"}
  MayBreak = TRUE
  WriterMayFail = TRUE
PROPERTIES ImplementsScrape Termination
CHECK_DEADLOCK FALSE
