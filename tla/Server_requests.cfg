SPECIFICATION ServerSpec
CONSTANTS
  w1 = w1 d1 = d1 d2 = d2 c1 = c1 t1 = t1 t2 = t2 p1 = p1 p2 = p2
  Workers = {w1}
  Clicks = {d1, d2}
  Checkers = {c1}
  MaintenanceSlots = 2
  DeleteAttempts = 2
  MaxJobId = 2
  PageSize = 1
  MaxPages = 3
  JobAttempts = 1
  RemoveAttempts = 2
  BatchSize = 1
  FilterChoices = {"completed"}
  Tabs = {t1, t2}
  MaxSetups = 1
  CodesEach = 2
  MaxGuesses = 2
  MaxUses = 3
  MaxKeys = 2
  FreeLock = FreeLock
  MaxRuns = 3
  MarketCount = 2
  Phones = {p1, p2}
  MaxRows = 3
  MaxFaults = 1
  MaxPushes = 1
INVARIANTS ServerTypeOK NoOrphan DeleteAllReachesAll OrphansExplained
  CompletedAnswerHasResults BackupCodeOnce GuessesBounded InstallWorks
  PassedIsDelivered LeadsAreRight
PROPERTIES DeletedMachineGoes WizardCompletes EveryMarketPassed
CHECK_DEADLOCK FALSE
