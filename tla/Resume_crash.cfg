SPECIFICATION FairSpec
CONSTANTS
  l1 = l1 l2 = l2 l3 = l3 id1 = id1 id2 = id2 id3 = id3 p1 = p1 p2 = p2 p3 = p3
  None = None
  Lines <- ThreeLines
  Places <- ThreePlaces
  Ids <- ThreeIds
  Id <- OwnIds
  Finds <- Overlap
  LinkKnown = {p1, p2}
  MaxResults = 0
  FreshRuns = TRUE
  PowerLoss = TRUE
  IOMayFail = TRUE
INVARIANTS CompletedIsWritten
PROPERTIES ResumeCompletes ResumeNeverDuplicates
