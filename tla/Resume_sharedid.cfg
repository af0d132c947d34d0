SPECIFICATION Spec
CONSTANTS
  l1 = l1 l2 = l2 l3 = l3 id1 = id1 id2 = id2 id3 = id3 p1 = p1 p2 = p2 p3 = p3
  None = None
  Lines <- ThreeLines
  Places <- ThreePlaces
  Ids <- ThreeIds
  Id <- SharedIds
  Finds <- Overlap
  LinkKnown = {p1, p2, p3}
  MaxResults = 0
  FreshRuns = FALSE
  PowerLoss = FALSE
  IOMayFail = FALSE
INVARIANTS CompletedIsWritten
