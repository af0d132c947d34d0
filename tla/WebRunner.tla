------------------------------ MODULE WebRunner ------------------------------
(***************************************************************************)
(* The local web edition: the HTTP handlers of web/web.go over the job      *)
(* service (web/service.go), its SQLite table (web/sqlite/sqlite.go), and   *)
(* the loop of runner/webrunner/webrunner.go that scrapes one pending job   *)
(* at a time into a CSV file named after its id.                            *)
(*                                                                         *)
(* The process may die or be told to stop at any step; a file operation,    *)
(* a statement or the scrape itself may fail.                               *)
(***************************************************************************)
EXTENDS Integers, FiniteSets

CONSTANTS
    WebJobs,        \* jobs that users submit
    Deletes,        \* delete requests, of the site or the API
    NoJob           \* no job is in hand

ASSUME WebAssumption == NoJob \notin WebJobs

VARIABLES
    row,        \* per job its status in the table, "none" before, "gone" after
    stamp,      \* per job the second it was created in
    csv,        \* per job its file: none, part of a scrape, or all it found
    loop,       \* the work loop: where it is, and the job it holds
    erase,      \* per delete request: where it is, and its job
    ctx,        \* the process: up, told to stop, or down
    scrapes,    \* per job how often a scrape of it began
    raced,      \* jobs whose file was created after a delete request had looked for it
    hit         \* jobs that a fault stopped while the loop held them

webVars == <<row, stamp, csv, loop, erase, ctx, scrapes, raced, hit>>

Final == {"ok", "failed"}

LoopStates == {"tick", "picked", "marked", "created", "set", "running", "ended",
               "failing", "leaving"}

WebTypeOK ==
    /\ row \in [WebJobs -> Final \cup {"none", "pending", "working", "gone"}]
    /\ stamp \in [WebJobs -> Nat]
    /\ csv \in [WebJobs -> {"none", "part", "whole"}]
    /\ loop \in [at : LoopStates, job : WebJobs \cup {NoJob}]
    /\ erase \in [Deletes -> [at : {"idle", "found", "absent", "removed", "done"},
                              job : WebJobs \cup {NoJob}]]
    /\ ctx \in {"up", "stopping", "down"}
    /\ scrapes \in [WebJobs -> Nat]
    /\ raced \in SUBSET WebJobs /\ hit \in SUBSET WebJobs

AtTick == [at |-> "tick", job |-> NoJob]

WebInit ==
    /\ row = [j \in WebJobs |-> "none"]
    /\ stamp = [j \in WebJobs |-> 0]
    /\ csv = [j \in WebJobs |-> "none"]
    /\ loop = AtTick
    /\ erase = [d \in Deletes |-> [at |-> "idle", job |-> NoJob]]
    /\ ctx = "up"
    /\ scrapes = [j \in WebJobs |-> 0]
    /\ raced = {} /\ hit = {}

InTable(j) == row[j] \notin {"none", "gone"}

\* repo.Update: a row that is gone is not there to update, which is no error.
Updated(j, status) == IF InTable(j) THEN [row EXCEPT ![j] = status] ELSE row

LoopGoes(at) == loop' = [loop EXCEPT !.at = at]

Hits(j) == hit' = hit \cup {j}

-----------------------------------------------------------------------------
(* scrape and apiScrape: a valid job is inserted as pending.  Two may be     *)
(* created in one second.                                                   *)

Submit(j) ==
    /\ ctx # "down" /\ row[j] = "none"
    /\ row' = [row EXCEPT ![j] = "pending"]
    /\ LET last == CHOOSE n \in {stamp[k] : k \in WebJobs} :
                       \A k \in WebJobs : stamp[k] <= n
       IN  \E n \in {last, last + 1} : stamp' = [stamp EXCEPT ![j] = n]
    /\ UNCHANGED <<csv, loop, erase, ctx, scrapes, raced, hit>>

-----------------------------------------------------------------------------
(* work, and scrapeJob                                                      *)

\* SelectPending: the pending job created last.
Pending_OrWorking == {j \in WebJobs : row[j] \in {"pending", "working"}}
Pending == {j \in WebJobs : row[j] = "pending"}

Newest(J) == {j \in J : \A k \in J : stamp[k] <= stamp[j]}

Picks ==
    /\ ctx = "up" /\ loop.at = "tick"
    /\ \E j \in Newest(Pending) : loop' = [at |-> "picked", job |-> j]
    /\ UNCHANGED <<row, stamp, csv, erase, ctx, scrapes, raced, hit>>

\* The query fails: work returns its error, and with it the whole process stops.
PickFails ==
    /\ ctx = "up" /\ loop.at = "tick"
    /\ ctx' = "stopping"
    /\ UNCHANGED <<row, stamp, csv, loop, erase, scrapes, raced, hit>>

MarksWorking ==
    /\ loop.at = "picked"
    /\ \/ ctx = "up" /\ row' = Updated(loop.job, "working") /\ LoopGoes("marked")
       \/ UNCHANGED row /\ loop' = AtTick
    /\ UNCHANGED <<stamp, csv, erase, ctx, scrapes, raced, hit>>

\* os.Create truncates what an earlier scrape left.  If it fails the job stays
\* "working".
CreatesFile ==
    LET j == loop.job IN
    /\ loop.at = "marked"
    /\ \/ /\ csv' = [csv EXCEPT ![j] = "part"]
          /\ scrapes' = [scrapes EXCEPT ![j] = @ + 1]
          /\ raced' = IF \E d \in Deletes : erase[d].job = j THEN raced \cup {j} ELSE raced
          /\ LoopGoes("created") /\ UNCHANGED hit
       \/ loop' = AtTick /\ Hits(j) /\ UNCHANGED <<csv, scrapes, raced>>
    /\ UNCHANGED <<row, stamp, erase, ctx>>

\* setupMate may fail, which fails the job.
SetsUp_JustReturns ==
    /\ loop.at = "created"
    /\ LoopGoes("set") \/ loop' = AtTick
    /\ UNCHANGED <<row, stamp, csv, erase, ctx, scrapes, raced, hit>>
SetsUp ==
    /\ loop.at = "created"
    /\ LoopGoes("set") \/ LoopGoes("failing")
    /\ UNCHANGED <<row, stamp, csv, erase, ctx, scrapes, raced, hit>>

FailsJob ==
    /\ loop.at = "failing"
    /\ \/ ctx = "up" /\ row' = Updated(loop.job, "failed") /\ UNCHANGED hit
       \/ UNCHANGED row /\ Hits(loop.job)
    /\ loop' = AtTick
    /\ UNCHANGED <<stamp, csv, erase, ctx, scrapes, raced>>

\* CreateSeedJobs fails, or there is something to scrape.
Seeds ==
    /\ loop.at = "set"
    /\ LoopGoes("running") \/ LoopGoes("leaving")
    /\ UNCHANGED <<row, stamp, csv, erase, ctx, scrapes, raced, hit>>

\* Start returns: done, at its deadline or idle, which are all the same to the
\* job, or with an error.  A file removed meanwhile stays removed.
ScrapeEnds ==
    LET j == loop.job IN
    /\ loop.at = "running"
    /\ \/ ctx = "up" /\ csv' = [csv EXCEPT ![j] = IF @ = "part" THEN "whole" ELSE @]
          /\ LoopGoes("ended")
       \/ ctx # "up" /\ LoopGoes("ended") /\ UNCHANGED csv
       \/ LoopGoes("leaving") /\ UNCHANGED csv
    /\ UNCHANGED <<row, stamp, erase, ctx, scrapes, raced, hit>>

\* After those two errors the row is updated with the status it has: "working".
Leaves ==
    /\ loop.at = "leaving"
    /\ \/ ctx = "up" /\ row' = Updated(loop.job, "working")
       \/ UNCHANGED row
    /\ Hits(loop.job)
    /\ loop' = AtTick
    /\ UNCHANGED <<stamp, csv, erase, ctx, scrapes, raced>>

\* The update runs in the loop's context: once that is done, it fails.
MarksOk_Detached ==
    /\ loop.at = "ended"
    /\ row' = Updated(loop.job, "ok") /\ UNCHANGED hit
    /\ loop' = AtTick
    /\ UNCHANGED <<stamp, csv, erase, ctx, scrapes, raced>>
MarksOk ==
    /\ loop.at = "ended"
    /\ \/ ctx = "up" /\ row' = Updated(loop.job, "ok") /\ UNCHANGED hit
       \/ UNCHANGED row /\ Hits(loop.job)
    /\ loop' = AtTick
    /\ UNCHANGED <<stamp, csv, erase, ctx, scrapes, raced>>

-----------------------------------------------------------------------------
(* Service.Delete: the file, then the row                                   *)

EraseGoes(d, at) == erase' = [erase EXCEPT ![d].at = at]

Stats(d, j) ==
    /\ ctx # "down" /\ erase[d].at = "idle" /\ row[j] # "none"
    /\ erase' = [erase EXCEPT ![d] =
                   [at |-> IF csv[j] = "none" THEN "absent" ELSE "found", job |-> j]]
    /\ UNCHANGED <<row, stamp, csv, loop, ctx, scrapes, raced, hit>>

\* Another request may have removed the file meanwhile: an error then.
RemovesFile_Later(d) ==
    /\ erase[d].at = "found"
    /\ EraseGoes(d, "absent")
    /\ UNCHANGED <<row, stamp, csv, loop, ctx, scrapes, raced, hit>>
RemovesFile(d) ==
    /\ erase[d].at = "found"
    /\ \/ /\ csv[erase[d].job] # "none"
          /\ csv' = [csv EXCEPT ![erase[d].job] = "none"]
          /\ EraseGoes(d, "removed")
       \/ EraseGoes(d, "done") /\ UNCHANGED csv
    /\ UNCHANGED <<row, stamp, loop, ctx, scrapes, raced, hit>>

DeletesRow(d) ==
    LET j == erase[d].job IN
    /\ erase[d].at \in {"absent", "removed"}
    /\ row' = [row EXCEPT ![j] = "gone"] \/ UNCHANGED row
    /\ EraseGoes(d, "done")
    /\ UNCHANGED <<stamp, csv, loop, ctx, scrapes, raced, hit>>

-----------------------------------------------------------------------------
(* The process                                                              *)

Signal ==
    /\ ctx = "up" /\ ctx' = "stopping"
    /\ UNCHANGED <<row, stamp, csv, loop, erase, scrapes, raced, hit>>

\* The process exits, once the loop has returned, or is killed.
Exits ==
    /\ ctx # "down" /\ ctx' = "down"
    /\ hit' = IF loop.job = NoJob THEN hit ELSE hit \cup {loop.job}
    /\ loop' = AtTick
    /\ erase' = [d \in Deletes |->
                   IF erase[d].at = "idle" THEN erase[d] ELSE [erase[d] EXCEPT !.at = "done"]]
    /\ UNCHANGED <<row, stamp, csv, scrapes, raced>>

Restarts ==
    /\ ctx = "down" /\ ctx' = "up"
    /\ UNCHANGED <<row, stamp, csv, loop, erase, scrapes, raced, hit>>

-----------------------------------------------------------------------------
ScrapeStep ==
    \/ MarksWorking \/ CreatesFile \/ SetsUp \/ FailsJob \/ Seeds \/ ScrapeEnds
    \/ Leaves \/ MarksOk

WebNext ==
    \/ Picks \/ PickFails \/ ScrapeStep \/ Signal \/ Exits \/ Restarts
    \/ \E j \in WebJobs : Submit(j)
    \/ \E d \in Deletes :
          RemovesFile(d) \/ DeletesRow(d) \/ \E j \in WebJobs : Stats(d, j)

WebSpec == WebInit /\ [][WebNext]_webVars

\* The ticker ticks and the loop runs on; a process told to stop exits, and one
\* that is down is started again; a statement that is tried again and again
\* succeeds at last.
MarkSucceeds == loop.at = "picked" /\ MarksWorking /\ LoopGoes("marked")

WebFairness ==
    /\ SF_webVars(Picks) /\ SF_webVars(MarkSucceeds)
    /\ WF_webVars(ScrapeStep)
    /\ WF_webVars(ctx = "stopping" /\ Exits) /\ WF_webVars(Restarts)

-----------------------------------------------------------------------------
\* A job is scraped once, however the process dies and comes back: a second
\* scrape would truncate the file of the first.
ScrapedOnce == \A j \in WebJobs : scrapes[j] <= 1

\* A job that is "ok" was scraped to its end (its deadline included) and not cut
\* short by a shutdown: its file is whole, unless a delete request took it.
OkIsWhole ==
    \A j \in WebJobs :
        row[j] = "ok" =>
            \/ csv[j] = "whole"
            \/ \E d \in Deletes : erase[d].job = j

\* A file without a row, which no page lists, is left only when the loop created
\* it after the delete request had looked for it: never by a request that failed
\* or died between its two steps.
StrayFilesExplained ==
    \A j \in WebJobs : csv[j] # "none" /\ row[j] = "gone" => j \in raced

\* A submitted job reaches a final status or is deleted, however often the
\* process stops and starts, unless a fault stopped it while the loop held it:
\* then it may stay "working", which nothing selects again.
WebJobEnds ==
    \A j \in WebJobs : row[j] = "pending" ~> (row[j] \in Final \cup {"gone"} \/ j \in hit)
=============================================================================
