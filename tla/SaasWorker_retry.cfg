SPECIFICATION FairSpec
CONSTANTS
  j1 = j1 j2 = j2 p1 = p1 p2 = p2
  None = None
  ScrapeJobs <- OneJob
  Places <- OnePlace
  FastJobs = {}
  EmailJobs <- OneJob
  MaxAttempts = 2
  MaxJobs = 1
  Capacity = 2
INVARIANTS CompletedHasRow
PROPERTIES EveryJobEnds
