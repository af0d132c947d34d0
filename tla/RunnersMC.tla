----------------------------- MODULE RunnersMC ------------------------------
(***************************************************************************)
(* Small instances for TLC of the command line's parts: the web runner,    *)
(* the database runner, the file runner's results file, and the browser    *)
(* pool below each runner.  A process is one of them (main.go chooses the  *)
(* runner by its mode), so each behaviour here is one of one of them.      *)
(***************************************************************************)
EXTENDS WebRunner, DatabaseRunner, BrowserPool, ResultFile, TLC

CONSTANTS j1, j2, e1, e2, m1, m2, q1, h1, h2, f1, f2, s1, p1, p2

VARIABLE part   \* what this behaviour is about

runnersVars == <<part, webVars, dbVars, poolVars, vars>>

Parts == {"web", "web, one job", "database",
          "database, one process", "browsers", "file"}

RunnersTypeOK ==
    /\ part \in Parts
    /\ WebTypeOK /\ DbTypeOK /\ PoolTypeOK /\ TypeOK

RunnersInit ==
    /\ part \in Parts
    /\ WebInit /\ DbInit /\ PoolInit /\ Init
    /\ part # "browsers" => limit = 1
    /\ part # "file" => format = "csv"

\* Two slices: two jobs that nobody deletes, and one job with delete requests.
WebPart ==
    /\ part \in {"web", "web, one job"} /\ WebNext
    /\ IF part = "web" THEN UNCHANGED erase ELSE \A j \in WebJobs \ {j1} : row'[j] = "none"
    /\ UNCHANGED <<dbVars, poolVars, vars>>

\* Two slices: one process and two places, and two processes and one place.
DatabasePart ==
    /\ part \in {"database", "database, one process"} /\ DbNext
    /\ IF part = "database" THEN \A j \in Tasks : <<q1, h2, "place">> \notin todo'[j]
       ELSE proc'[m2] = proc[m2]
    /\ UNCHANGED <<webVars, poolVars, vars>>

BrowsersPart == part = "browsers" /\ PoolNext /\ UNCHANGED <<webVars, dbVars, vars>>

FilePart == part = "file" /\ Next /\ UNCHANGED <<webVars, dbVars, poolVars>>

RunnersNext ==
    /\ WebPart \/ DatabasePart \/ BrowsersPart \/ FilePart
    /\ UNCHANGED part

\* The fairness of each part, WebFairness, DbFairness and PoolFairness; where
\* another part runs it asks for nothing.
WebRuns == part \in {"web", "web, one job"}

DatabaseRuns(p) == part = "database" \/ (part = "database, one process" /\ p = m1)

RunnersFairness ==
    /\ SF_webVars(WebRuns /\ Picks) /\ SF_webVars(WebRuns /\ MarkSucceeds)
    /\ WF_webVars(WebRuns /\ ScrapeStep)
    /\ WF_webVars(WebRuns /\ ctx = "stopping" /\ Exits)
    /\ WF_webVars(WebRuns /\ Restarts)
    /\ \A p \in Procs :
         /\ WF_dbVars(DatabaseRuns(p) /\ DbStep(p))
         /\ SF_dbVars(DatabaseRuns(p) /\ Claims(p))
         /\ WF_dbVars(DatabaseRuns(p) /\ proc[p].fetch = "dead" /\ InactivityExits(p))
         /\ WF_dbVars(DatabaseRuns(p) /\ proc[p].ctx \in {"idle", "stopping"} /\ Dies(p))
    /\ \A w \in Fetchers :
         /\ WF_poolVars(part = "browsers" /\ FetchStep(w))
         /\ WF_poolVars(part = "browsers" /\ JobTimesOut(w))
         /\ SF_poolVars(part = "browsers" /\ Takes(w))

RunnersSpec == RunnersInit /\ [][RunnersNext]_runnersVars /\ RunnersFairness
=============================================================================
