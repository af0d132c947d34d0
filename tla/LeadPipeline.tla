---------------------------- MODULE LeadPipeline ----------------------------
(***************************************************************************)
(* The scheduled lead scrape: the workflow scrape-leads.yml and the script *)
(* lead_pipeline.py it runs.                                               *)
(*                                                                         *)
(* A run checks out the commit it was triggered at, reads which market is  *)
(* next from scrape_progress.json, scrapes it, keeps one lead per phone    *)
(* number, writes them to a CSV file and the next index to the progress    *)
(* file.  The CSV file is uploaded whatever happened; the progress file is *)
(* pushed to the branch only after a run without an error.                 *)
(*                                                                         *)
(* One run works at a time and one waits, for the commit that was the head *)
(* when it was triggered; a newer one takes its place.  A run whose commit *)
(* is not the head any more cannot push.                                   *)
(***************************************************************************)
EXTENDS Integers, Sequences

CONSTANTS
    MarketCount,    \* len(CITIES), 50
    Phones,         \* what normalize_phone returns for a row that has a number
    MaxRows,        \* a bound: rows of a scrape
    MaxFaults,      \* a bound: steps that fail
    MaxPushes       \* a bound: commits others push to the branch

ASSUME LeadAssumption ==
    /\ MarketCount \in Nat /\ MarketCount > 1    \* the file changes with every market
    /\ MaxRows \in Nat /\ MaxFaults \in Nat /\ MaxPushes \in Nat

VARIABLES
    branch,     \* scrape_progress.json of the branch's head
    queued,     \* the run that waits, and the commit it is for
    scrape,     \* the run at work: its step, its checkout and its files
    qualified,  \* the phones of the rows that qualified in it
    delivered,  \* the markets that have a whole CSV uploaded
    passed,     \* the markets that the branch's index has gone past
    faults, pushes

leadVars == <<branch, queued, scrape, qualified, delivered, passed, faults, pushes>>

Markets == 0..(MarketCount - 1)

\* The file holds an index; or something that is read as the first one, for it is
\* missing, is not JSON, or its number is out of range; or something whose reading
\* raises what read_progress does not catch, for it is not UTF-8 or its number is
\* infinite (UnicodeDecodeError, OverflowError).
Unreadable == MarketCount
Raising == MarketCount + 1
ProgressFiles == Markets \cup {Unreadable, Raising}

\* As if the last index were out of range.
ReadProgress_OffByOne(f) == IF f \in Markets /\ f + 1 \in Markets THEN f ELSE 0
ReadProgress(f) == IF f \in Markets THEN f ELSE 0

ScriptSteps == {"scraping", "processing", "writing", "advancing", "reporting"}

NotWaiting == [waits |-> FALSE, fresh |-> FALSE, file |-> 0]
NoRun ==
    [at |-> "none", fresh |-> FALSE, market |-> 0, file |-> 0, failed |-> FALSE, left |-> 0,
     leads |-> <<>>, seen |-> {}, csv |-> "none"]

LeadTypeOK ==
    /\ branch \in ProgressFiles
    /\ queued \in [waits : BOOLEAN, fresh : BOOLEAN, file : ProgressFiles]
    /\ scrape \in [at : ScriptSteps \cup {"none", "uploading", "committing"}, fresh : BOOLEAN,
                   market : Markets, file : ProgressFiles, failed : BOOLEAN,
                   left : 0..MaxRows, leads : Seq(Phones), seen : SUBSET Phones,
                   csv : {"none", "cut", "whole"}]
    /\ qualified \in SUBSET Phones
    /\ delivered \in SUBSET Markets
    /\ passed \in SUBSET Markets
    /\ faults \in 0..MaxFaults /\ pushes \in 0..MaxPushes

LeadInit ==
    /\ branch \in ProgressFiles
    /\ queued = NotWaiting /\ scrape = NoRun
    /\ qualified = {} /\ delivered = {} /\ passed = {}
    /\ faults = 0 /\ pushes = 0

Fault == faults < MaxFaults /\ faults' = faults + 1
-----------------------------------------------------------------------------
(* The workflow: its triggers and its concurrency group.                    *)

\* The schedule, or somebody who dispatches it.
Triggers ==
    /\ queued' = [waits |-> TRUE, fresh |-> TRUE, file |-> branch]
    /\ UNCHANGED <<branch, scrape, qualified, delivered, passed, faults, pushes>>

\* The run checks its commit out and reads which market is next, or fails on the file.
Starts ==
    /\ queued.waits /\ scrape.at = "none"
    /\ LET raises == queued.file = Raising
       IN  scrape' = [NoRun EXCEPT !.at = IF raises THEN "uploading" ELSE "scraping",
                                   !.failed = raises, !.fresh = queued.fresh,
                                   !.file = queued.file, !.market = ReadProgress(queued.file)]
    /\ queued' = NotWaiting
    /\ qualified' = {}
    /\ UNCHANGED <<branch, delivered, passed, faults, pushes>>

\* Neither the run at work nor the one that waits is at the head of the branch now.
OthersBehind(r) == queued' = [queued EXCEPT !.fresh = FALSE] /\ scrape' = [r EXCEPT !.fresh = FALSE]

\* Somebody pushes a commit that leaves the progress file alone.
OthersPush ==
    /\ pushes < MaxPushes /\ pushes' = pushes + 1
    /\ OthersBehind(scrape)
    /\ UNCHANGED <<branch, qualified, delivered, passed, faults>>
-----------------------------------------------------------------------------
(* The script.                                                              *)

InRun(at) == scrape.at = at /\ UNCHANGED <<branch, queued, delivered, passed, faults, pushes>>

\* The scraper's rows; in test mode the first few of each niche.
Scrapes ==
    /\ InRun("scraping")
    /\ \E n \in 0..MaxRows : scrape' = [scrape EXCEPT !.at = "processing", !.left = n]
    /\ UNCHANGED qualified

\* As if a number were remembered before the row is looked at.
DropsRow_Seen ==
    /\ InRun("processing") /\ scrape.left > 0
    /\ \E p \in Phones : scrape' = [scrape EXCEPT !.left = @ - 1, !.seen = @ \cup {p}]
    /\ UNCHANGED qualified

\* A row without a name or a number, of a chain, or of a business whose homepage has
\* nothing to improve is no lead.
DropsRow ==
    /\ InRun("processing") /\ scrape.left > 0
    /\ scrape' = [scrape EXCEPT !.left = @ - 1]
    /\ UNCHANGED qualified

\* The first row that qualifies is the lead of its number.
KeepsRow(p) ==
    /\ InRun("processing") /\ scrape.left > 0
    /\ scrape' = IF p \in scrape.seen THEN [scrape EXCEPT !.left = @ - 1]
              ELSE [scrape EXCEPT !.left = @ - 1, !.seen = @ \cup {p}, !.leads = Append(@, p)]
    /\ qualified' = qualified \cup {p}

ProcessedRows ==
    /\ InRun("processing") /\ scrape.left = 0
    /\ scrape' = [scrape EXCEPT !.at = "writing"]
    /\ UNCHANGED qualified

WritesCSV ==
    /\ InRun("writing")
    /\ scrape' = [scrape EXCEPT !.at = "advancing", !.csv = "whole"]
    /\ UNCHANGED qualified

WritesProgress ==
    /\ InRun("advancing")
    /\ scrape' = [scrape EXCEPT !.at = "reporting", !.file = (scrape.market + 1) % MarketCount]
    /\ UNCHANGED qualified

WritesOutputs ==
    /\ InRun("reporting")
    /\ scrape' = [scrape EXCEPT !.at = "uploading"]
    /\ UNCHANGED qualified

\* An exception, the scraper's timeout or the job's: what is being written is cut.
ScriptFails ==
    /\ scrape.at \in ScriptSteps /\ Fault
    /\ scrape' = [scrape EXCEPT !.at = "uploading", !.failed = TRUE,
                          !.csv = IF scrape.at = "writing" THEN "cut" ELSE @,
                          !.file = IF scrape.at = "advancing" THEN Unreadable ELSE @]
    /\ UNCHANGED <<branch, queued, qualified, delivered, passed, pushes>>
-----------------------------------------------------------------------------
(* The last two steps of the workflow.                                      *)

\* The CSV file there is, of a failed run too.
Uploads ==
    /\ scrape.at = "uploading"
    /\ delivered' = IF scrape.csv = "whole" THEN delivered \cup {scrape.market} ELSE delivered
    /\ scrape' = IF scrape.failed THEN NoRun ELSE [scrape EXCEPT !.at = "committing"]
    /\ UNCHANGED <<branch, queued, qualified, passed, faults, pushes>>

\* As if the run went on.
UploadFails_Ignored ==
    /\ scrape.at = "uploading" /\ Fault
    /\ scrape' = IF scrape.failed THEN NoRun ELSE [scrape EXCEPT !.at = "committing"]
    /\ UNCHANGED <<branch, queued, qualified, delivered, passed, pushes>>

UploadFails ==
    /\ scrape.at = "uploading" /\ Fault
    /\ scrape' = NoRun
    /\ UNCHANGED <<branch, queued, qualified, delivered, passed, pushes>>

\* The push moves the head past the commit of the run that waits.
Pushes ==
    /\ scrape.at = "committing" /\ scrape.fresh
    /\ branch' = scrape.file
    /\ passed' = passed \cup {scrape.market}
    /\ queued' = [queued EXCEPT !.fresh = FALSE] /\ scrape' = NoRun
    /\ UNCHANGED <<qualified, delivered, faults, pushes>>

\* It is no fast-forward.
PushRejected ==
    /\ InRun("committing") /\ ~scrape.fresh
    /\ scrape' = NoRun
    /\ UNCHANGED qualified

PushFails ==
    /\ scrape.at = "committing" /\ Fault
    /\ scrape' = NoRun
    /\ UNCHANGED <<branch, queued, qualified, delivered, passed, pushes>>

-----------------------------------------------------------------------------
RunStep ==
    \/ Scrapes \/ DropsRow \/ (\E p \in Phones : KeepsRow(p)) \/ ProcessedRows
    \/ WritesCSV \/ WritesProgress \/ WritesOutputs
    \/ Uploads \/ Pushes \/ PushRejected

LeadNext ==
    \/ Triggers \/ OthersPush
    \/ Starts \/ RunStep
    \/ ScriptFails \/ UploadFails \/ PushFails

\* The schedule goes on, GitHub starts what waits, and a run goes on until it ends.
LeadFairness ==
    /\ WF_leadVars(Triggers) /\ WF_leadVars(Starts) /\ WF_leadVars(RunStep)

LeadSpec == LeadInit /\ [][LeadNext]_leadVars /\ LeadFairness
-----------------------------------------------------------------------------
\* The branch's index goes past a market only once a CSV file of it, whole, was
\* uploaded: what fails before is scraped again.
PassedIsDelivered == passed \subseteq delivered

\* The CSV file has each phone number that qualified, in whichever of its rows, and
\* has it once.
LeadsAreRight ==
    scrape.csv = "whole" =>
        /\ qualified = {scrape.leads[i] : i \in DOMAIN scrape.leads}
        /\ \A i, j \in DOMAIN scrape.leads : scrape.leads[i] = scrape.leads[j] => i = j

\* No market is left out: once the schedule has asked for a run, the index comes past
\* each, be the file missing, cut or out of range at first, and although runs that waited
\* find themselves behind.  The exception is a file whose reading raises: every run fails
\* on it.
EveryMarketPassed == queued.waits /\ branch # Raising ~> passed = Markets
=============================================================================
