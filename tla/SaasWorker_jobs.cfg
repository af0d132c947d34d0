SPECIFICATION Spec
CONSTANTS
  j1 = j1 j2 = j2 p1 = p1 p2 = p2
  None = None
  ScrapeJobs <- TwoJobs
  Places <- TwoPlaces
  FastJobs <- Fast
  EmailJobs = {}
  MaxAttempts = 1
  MaxJobs = 1
  Capacity = 2
SYMMETRY Symmetry
INVARIANTS NoForeignResults DoneMeansCollected NothingOverwritten
