------------------------------ MODULE JobStore ------------------------------
(***************************************************************************)
(* What the API server and the admin site do with scrape jobs              *)
(* (rqueue/rqueue.go, rqueue/jobs.go, api/api.go, admin/handlers_jobs.go): *)
(* insert a job, answer its status and its results, list the jobs page by  *)
(* page, delete one, delete every job of a filter, and the maintenance     *)
(* jobs that remove a job's rows and old results.                          *)
(*                                                                         *)
(* A job is a row of River's table river_job and, once its results are     *)
(* saved, a row of scrape_results; no foreign key ties the two.  The worker *)
(* process is here only by what it does to the two tables; SaasWorker is   *)
(* its model.                                                              *)
(***************************************************************************)
EXTENDS Integers, FiniteSets

CONSTANTS
    MaxJobId,       \* scrape jobs inserted at most; ids are 1..MaxJobId
    FilterChoices,  \* the state filters of delete-all requests
    BatchSize,      \* jobs ticked for a batch delete at most
    PageSize,       \* jobs on a page of the delete-all loop
    MaxPages,       \* pages after which the delete-all loop gives up
    JobAttempts,    \* MaxAttempts of a scrape job
    RemoveAttempts  \* MaxAttempts of a job_delete job

ASSUME JobStoreAssumption ==
    /\ FilterChoices \subseteq {"any", "available", "running", "completed", "cancelled",
                               "discarded", "retryable"}
    /\ FilterChoices # {}
    /\ BatchSize \in Nat
    /\ MaxJobId \in Nat /\ PageSize \in Nat \ {0} /\ MaxPages \in Nat \ {0}
    /\ JobAttempts \in Nat \ {0} /\ RemoveAttempts \in Nat \ {0}

VARIABLES
    job,        \* per id the state of its row in river_job
    runs,       \* per id how many attempts were made
    cancelled,  \* ids of running jobs whose cancellation was asked for
    attempt,    \* per id what the worker's attempt is doing
    saved,      \* ids with a row in scrape_results
    old,        \* ids of jobs that completed more than 30 days ago
    request,    \* the administrator's two delete requests
    listed,     \* ids that matched the delete-all filter when it began and ever since
    removal,    \* per request and id its job_delete job
    reader,     \* a request for the status of a job
    late        \* ids whose results were saved after their removal began, or whose row
                \* River's own cleaner removed

storeVars == <<job, runs, cancelled, attempt, saved, old, request, listed, removal,
               reader, late>>

JobIds == 1..MaxJobId

Live == {"available", "running", "retryable"}

JobStates == Live \cup {"none", "completed", "cancelled", "discarded", "removed"}

\* "some" deletes the jobs ticked on a page (or one of them), "all" those of a filter.
Requests == {"some", "all"}

RequestStates == {"idle", "listing", "next", "got", "cancel", "insert", "ok", "failed"}

RemovalStates == {"none", "queued", "results", "row", "done"}

StoreTypeOK ==
    /\ job \in [JobIds -> JobStates]
    /\ runs \in [JobIds -> Nat]
    /\ cancelled \in SUBSET JobIds
    /\ attempt \in [JobIds -> {"none", "working", "flushed"}]
    /\ saved \in SUBSET JobIds
    /\ old \in SUBSET JobIds
    /\ request \in [Requests -> [at : RequestStates, todo : SUBSET JobIds,
                                 filter : FilterChoices, cursor : Nat, more : BOOLEAN,
                                 pages : Nat]]
    /\ listed \in SUBSET JobIds
    /\ removal \in [Requests \X JobIds -> [at : RemovalStates, tries : Nat]]
    /\ reader \in [at : {"idle", "got", "answered"}, id : JobIds \cup {0},
                   status : {"", "pending", "running", "completed", "failed"},
                   results : {"", "sent", "none", "unread"}]
    /\ late \in SUBSET JobIds

StoreInit ==
    /\ job = [j \in JobIds |-> "none"]
    /\ runs = [j \in JobIds |-> 0]
    /\ cancelled = {} /\ saved = {} /\ listed = {} /\ late = {} /\ old = {}
    /\ attempt = [j \in JobIds |-> "none"]
    /\ request = [q \in Requests |->
                    [at |-> "idle", todo |-> {}, filter |-> CHOOSE f \in FilterChoices : TRUE, cursor |-> 0,
                     more |-> FALSE, pages |-> 0]]
    /\ removal = [x \in Requests \X JobIds |-> [at |-> "none", tries |-> 0]]
    /\ reader = [at |-> "idle", id |-> 0, status |-> "", results |-> ""]

Exists(j) == job[j] \notin {"none", "removed"}

Matches(j, filter) == Exists(j) /\ (filter = "any" \/ job[j] = filter)

StatusOf_Raw(state) == state
StatusOf(state) ==
    CASE state \in {"available", "retryable"} -> "pending"
      [] state = "running" -> "running"
      [] state = "completed" -> "completed"
      [] OTHER -> "failed"

LeastOf(S) == CHOOSE j \in S : \A k \in S : j <= k

JobGoes(j, state) == job' = [job EXCEPT ![j] = state]

-----------------------------------------------------------------------------
(* Submitting a job, and the worker process.                               *)

InsertJob(j) ==
    /\ job[j] = "none" /\ \A k \in JobIds : k < j => job[k] # "none"
    /\ JobGoes(j, "available")
    /\ UNCHANGED <<runs, cancelled, attempt, saved, old, request, removal, reader, late>>

Works(j) ==
    /\ job[j] \in {"available", "retryable"} /\ attempt[j] = "none"
    /\ JobGoes(j, "running")
    /\ runs' = [runs EXCEPT ![j] = @ + 1]
    /\ attempt' = [attempt EXCEPT ![j] = "working"]
    /\ UNCHANGED <<cancelled, saved, old, request, removal, reader, late>>

\* The results are upserted, whether or not the job still has a row.
SavesResults(j) ==
    /\ attempt[j] = "working"
    /\ attempt' = [attempt EXCEPT ![j] = "flushed"]
    /\ saved' = saved \cup {j}
    /\ late' = IF \E q \in Requests : removal[q, j].at \notin {"none", "queued"}
               THEN late \cup {j} ELSE late
    /\ UNCHANGED <<job, runs, cancelled, old, request, removal, reader>>

\* The attempt ends well, or with an error; River changes a row that is still
\* running: a cancelled job is not tried again.
AttemptEnds(j) ==
    /\ attempt[j] # "none"
    /\ attempt' = [attempt EXCEPT ![j] = "none"]
    /\ IF job[j] # "running" THEN UNCHANGED job
       ELSE \/ attempt[j] = "flushed" /\ JobGoes(j, "completed")
            \/ JobGoes(j, IF j \in cancelled THEN "cancelled"
                          ELSE IF runs[j] < JobAttempts THEN "retryable" ELSE "discarded")
    /\ cancelled' = cancelled \ {j}
    /\ UNCHANGED <<runs, saved, old, request, removal, reader, late>>

-----------------------------------------------------------------------------
(* Client.DeleteJob, called for each id in turn by the handlers.           *)

\* DeleteJobHandler and BatchDeleteJobsHandler: the ids come from a page shown
\* before, so some may be gone.
SubmitsDelete ==
    /\ request["some"].at = "idle"
    /\ \E S \in SUBSET {j \in JobIds : job[j] # "none"} :
         /\ S # {} /\ Cardinality(S) <= BatchSize
         /\ request' = [request EXCEPT !["some"].at = "next", !["some"].todo = S]
    /\ UNCHANGED <<job, runs, cancelled, attempt, saved, old, removal, reader, late>>

\* queueDeleteAllFiltered: a page of the jobs after the cursor, in the order of
\* their ids, then DeleteJob for each, then the next page while there is one.
SubmitsDeleteAll ==
    /\ request["all"].at = "idle"
    /\ \E f \in FilterChoices :
         request' = [request EXCEPT !["all"].at = "listing", !["all"].filter = f]
    /\ UNCHANGED <<job, runs, cancelled, attempt, saved, old, removal, reader, late>>

PageAfter(cursor, filter) ==
    LET rest == {j \in JobIds : j > cursor /\ Matches(j, filter)}
    IN  {j \in rest : Cardinality({k \in rest : k <= j}) <= PageSize}

\* ListJobs' HasMore: the page is full.
HasMore_Never(page) == FALSE
HasMore(page) == Cardinality(page) = PageSize

ListsPage ==
    LET q == request["all"]
        page == PageAfter(q.cursor, q.filter)
    IN  /\ q.at = "listing"
        /\ \/ /\ q.pages < MaxPages
              /\ request' = [request EXCEPT !["all"] =
                   IF page = {} THEN [q EXCEPT !.at = "ok"]
                   ELSE [q EXCEPT !.at = "next", !.todo = page, !.more = HasMore(page),
                                  !.pages = @ + 1,
                                  !.cursor = CHOOSE j \in page : \A k \in page : k <= j]]
           \* the safety limit, or the query fails
           \/ request' = [request EXCEPT !["all"].at = "failed"]
        /\ UNCHANGED <<job, runs, cancelled, attempt, saved, old, removal, reader, late>>

RequestGoes(q, at) == request' = [request EXCEPT ![q].at = at]

\* After the last id of a page: another page, or the answer.
PageDone(q) ==
    /\ request[q].at = "next" /\ request[q].todo = {}
    /\ RequestGoes(q, IF request[q].more THEN "listing" ELSE "ok")
    /\ UNCHANGED <<job, runs, cancelled, attempt, saved, old, removal, reader, late>>

\* JobGet: a job that is gone ends the whole request with an error.
GetsJob(q) ==
    /\ request[q].at = "next" /\ request[q].todo # {}
    /\ LET j == LeastOf(request[q].todo) IN
         RequestGoes(q, IF ~Exists(j) THEN "failed"
                        ELSE IF job[j] = "running" THEN "cancel" ELSE "insert")
    /\ UNCHANGED <<job, runs, cancelled, attempt, saved, old, removal, reader, late>>

\* JobCancel, of a job that ran when it was read: while it runs its worker is told,
\* once it waits to be tried again it is cancelled at once.  The error is dropped.
CancelsJob(q) ==
    /\ request[q].at = "cancel"
    /\ LET j == LeastOf(request[q].todo) IN
         \/ /\ cancelled' = IF job[j] = "running" THEN cancelled \cup {j} ELSE cancelled
            /\ IF job[j] \in {"available", "retryable"} THEN JobGoes(j, "cancelled")
               ELSE UNCHANGED job
         \/ UNCHANGED <<job, cancelled>>
    /\ RequestGoes(q, "insert")
    /\ UNCHANGED <<runs, attempt, saved, old, removal, reader, late>>

InsertsRemoval(q) ==
    /\ request[q].at = "insert"
    /\ LET j == LeastOf(request[q].todo) IN
         \/ /\ removal' = [removal EXCEPT ![<<q, j>>].at = "queued"]
            /\ request' = [request EXCEPT ![q].at = "next", ![q].todo = @ \ {j}]
         \/ RequestGoes(q, "failed") /\ UNCHANGED removal
    /\ UNCHANGED <<job, runs, cancelled, attempt, saved, old, reader, late>>

-----------------------------------------------------------------------------
(* JobDeleteWorker.Work: the results first, then the row.                  *)

RemovalGoes(x, at) == removal' = [removal EXCEPT ![x].at = at]

RemovalStarts(x) ==
    /\ removal[x].at = "queued"
    /\ removal' = [removal EXCEPT ![x] = [at |-> "results", tries |-> @.tries + 1]]
    /\ UNCHANGED <<job, runs, cancelled, attempt, saved, old, request, reader, late>>

RemoveResults(x) ==
    /\ removal[x].at = "results"
    /\ saved' = saved \ {x[2]}
    /\ RemovalGoes(x, "row")
    /\ UNCHANGED <<job, runs, cancelled, attempt, old, request, reader, late>>

RemoveRow_First(x) ==
    /\ removal[x].at \in {"results", "row"}
    /\ JobGoes(x[2], "removed")
    /\ RemovalGoes(x, IF removal[x].at = "row" THEN "done" ELSE "row")
    /\ UNCHANGED <<runs, cancelled, attempt, saved, old, request, reader, late>>
RemoveRow(x) ==
    /\ removal[x].at = "row"
    /\ JobGoes(x[2], "removed")
    /\ RemovalGoes(x, "done")
    /\ UNCHANGED <<runs, cancelled, attempt, saved, old, request, reader, late>>

\* One of the two statements fails, or the server dies with the job running and
\* River rescues it.
RemovalFails(x) ==
    /\ removal[x].at \in {"results", "row"}
    /\ RemovalGoes(x, IF removal[x].tries < RemoveAttempts THEN "queued" ELSE "done")
    /\ UNCHANGED <<job, runs, cancelled, attempt, saved, old, request, reader, late>>

-----------------------------------------------------------------------------
(* Old rows.                                                               *)

\* River removes the rows of completed and cancelled jobs after a day and of discarded
\* ones after a week (its defaults; NewClient sets no retention of its own), so a job
\* grows a month old only while no server runs.
RiverCleans(j) ==
    /\ job[j] \in {"completed", "cancelled", "discarded"}
    /\ JobGoes(j, "removed")
    /\ late' = late \cup {j}
    /\ UNCHANGED <<runs, cancelled, attempt, saved, old, request, removal, reader>>

MonthPasses(j) ==
    /\ job[j] = "completed" /\ j \notin old
    /\ old' = old \cup {j}
    /\ UNCHANGED <<job, runs, cancelled, attempt, saved, request, removal, reader, late>>

\* CleanupWorker: the results of jobs completed more than 30 days ago.
Cleanup_AnyAge ==
    /\ saved' = saved \ {j \in JobIds : job[j] = "completed"}
    /\ UNCHANGED <<job, runs, cancelled, attempt, old, request, removal, reader, late>>
Cleanup ==
    /\ saved' = saved \ {j \in JobIds : job[j] = "completed" /\ j \in old}
    /\ UNCHANGED <<job, runs, cancelled, attempt, old, request, removal, reader, late>>

-----------------------------------------------------------------------------
(* GetJobStatus (and ListJobs with its counts): the job's row, then, of a  *)
(* completed job, the row of its results.  When that second query fails    *)
(* its error is dropped, and the answer still says "completed".            *)

ReadsJob(j) ==
    /\ reader.at = "idle" /\ Exists(j)
    /\ reader' = [at |-> "got", id |-> j, status |-> StatusOf(job[j]), results |-> ""]
    /\ UNCHANGED <<job, runs, cancelled, attempt, saved, old, request, removal, late>>

ReadsResults ==
    /\ reader.at = "got"
    /\ \E found \in IF reader.status # "completed" THEN {""}
                    ELSE {"unread", IF reader.id \in saved THEN "sent" ELSE "none"} :
         reader' = [reader EXCEPT !.at = "answered", !.results = found]
    /\ UNCHANGED <<job, runs, cancelled, attempt, saved, old, request, removal, late>>

-----------------------------------------------------------------------------
StoreActions ==
    \/ \E j \in JobIds : InsertJob(j) \/ Works(j) \/ SavesResults(j) \/ AttemptEnds(j)
                         \/ RiverCleans(j) \/ MonthPasses(j) \/ ReadsJob(j)
    \/ SubmitsDelete \/ SubmitsDeleteAll \/ ListsPage \/ Cleanup \/ ReadsResults
    \/ \E q \in Requests : PageDone(q) \/ GetsJob(q) \/ CancelsJob(q) \/ InsertsRemoval(q)
    \/ \E x \in Requests \X JobIds :
          RemovalStarts(x) \/ RemoveResults(x) \/ RemoveRow(x) \/ RemovalFails(x)

\* The jobs that matched the filter when the delete-all began, and ever since.
Remembers ==
    listed' = {j \in JobIds :
                 /\ request["all"].at = "idle" \/ j \in listed
                 /\ Matches(j, request["all"].filter)'}

StoreNext == StoreActions /\ Remembers

StoreSpec == StoreInit /\ [][StoreNext]_storeVars

-----------------------------------------------------------------------------
\* A delete-all that answers without an error queued the removal of every job
\* that matched its filter all along, whatever the other jobs, workers and
\* requests did between two pages.
DeleteAllReachesAll ==
    request["all"].at = "ok" =>
        \A j \in listed : removal["all", j].at # "none"

\* Results whose job is gone are left only by an attempt that saved them after
\* the job's removal had begun, or by River's own cleaner.
OrphansExplained ==
    \A j \in saved : job[j] = "removed" => j \in late

\* An answer that says "completed" carries results, unless the job's removal was
\* asked for, or it completed a month ago, or the query for the results failed: no
\* order of the two queries and of what the others do loses them.
CompletedAnswerHasResults ==
    reader.at = "answered" /\ reader.status = "completed" =>
        \/ reader.results \in {"sent", "unread"}
        \/ \E q \in Requests : removal[q, reader.id].at # "none"
        \/ reader.id \in old
=============================================================================
