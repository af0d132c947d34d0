SPECIFICATION RunnersSpec
CONSTANTS
  j1 = j1 j2 = j2 e1 = e1 e2 = e2 m1 = m1 m2 = m2 q1 = q1 h1 = h1 h2 = h2
  f1 = f1 f2 = f2 s1 = s1 p1 = p1 p2 = p2
  WebJobs = {j1, j2}
  Deletes = {e1, e2}
  NoJob = NoJob
  Procs = {m1, m2}
  Queries = {q1}
  Shops = {h1, h2}
  EmailShops = {h1}
  ClaimSize = 2
  BufferSize = 2
  Workers = 1
  Nobody = Nobody
  Fetchers = {f1, f2}
  Slots = {s1}
  PageLimits = {1, 2}
  Places = {p1, p2}
  Header = Header
  Formats = {"csv", "jsonl"}
  MaxRecords = 5
INVARIANTS RunnersTypeOK ScrapedOnce OkIsWhole StrayFilesExplained ClaimedOnce
  QuietExitKeepsResults SlotsKept AllBrowsersClosed JSONLAlwaysOpens
  OneRowEach
PROPERTIES WebJobEnds EveryRowClaimed FetchEnds RepairKeepsRecords
CHECK_DEADLOCK FALSE
