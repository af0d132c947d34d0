--------------------------- MODULE DatabaseRunner ---------------------------
(***************************************************************************)
(* Scraping over PostgreSQL by several processes                            *)
(* (runner/databaserunner/databaserunner.go): a producer inserts the search *)
(* jobs as rows, and each process claims rows in batches, works on them,    *)
(* inserts the jobs they lead to (postgres/provider.go) and saves results   *)
(* in batches (postgres/resultwriter.go).                                   *)
(*                                                                         *)
(* There is neither deduper nor exit monitor in this mode: a process ends   *)
(* when it was idle for -exit-on-inactivity, on a signal, or when its writer *)
(* fails.  Any statement may fail and a process may die at any step.        *)
(***************************************************************************)
EXTENDS Integers, FiniteSets

CONSTANTS
    Procs,          \* processes that scrape
    Queries,        \* search jobs
    Shops,          \* places a search may find
    EmailShops,     \* places with a web site, when e-mails are asked for
    ClaimSize,      \* the provider's batchSize; its channel holds twice as many
    BufferSize,     \* the writer's maxBatchSize
    Workers,        \* the engine's concurrency
    Nobody          \* no process

ASSUME DatabaseAssumption ==
    /\ EmailShops \subseteq Shops
    /\ ClaimSize \in Nat \ {0} /\ BufferSize \in Nat \ {0} /\ Workers \in Nat \ {0}
    /\ Nobody \notin Procs

VARIABLES
    status,     \* per job the status of its row in gmaps_jobs
    mem,        \* per job where the process that claimed it has it
    owner,      \* per job the process that claimed it last
    todo,       \* per job the jobs it has yet to push
    proc,       \* per process: its contexts, its fetchJobs goroutine and its writer
    claims,     \* per job how often its row was claimed
    spoiled     \* jobs whose process stopped by a signal, an error or a crash

dbVars == <<status, mem, owner, todo, proc, claims, spoiled>>

PlaceTasks == {<<q, s, "place">> : q \in Queries, s \in Shops}

EmailTasks == {<<q, s, "email">> : q \in Queries, s \in EmailShops}

Tasks == Queries \cup PlaceTasks \cup EmailTasks

Resting == {"none", "done", "saved", "lost"}

InHand == {"working", "pushing", "sending"}

Fetchings == {"query", "sending", "dead"}

WriterStates == {"run", "saving", "closing", "ended", "failed"}

DbTypeOK ==
    /\ status \in [Tasks -> {"absent", "new", "queued"}]
    /\ mem \in [Tasks -> Resting \cup InHand \cup {"claimed", "chan", "buffered"}]
    /\ owner \in [Tasks -> Procs \cup {Nobody}]
    /\ todo \in [Tasks -> SUBSET Tasks]
    /\ proc \in [Procs -> [ctx : {"up", "idle", "stopping", "down"}, fetch : Fetchings,
                           writer : WriterStates]]
    /\ claims \in [Tasks -> Nat]
    /\ spoiled \in SUBSET Tasks

Fresh == [ctx |-> "up", fetch |-> "query", writer |-> "run"]

DbInit ==
    /\ status = [j \in Tasks |-> "absent"]
    /\ mem = [j \in Tasks |-> "none"]
    /\ owner = [j \in Tasks |-> Nobody]
    /\ todo = [j \in Tasks |-> {}]
    /\ proc = [p \in Procs |-> Fresh]
    /\ claims = [j \in Tasks |-> 0]
    /\ spoiled = {}

Held(p, states) == {j \in Tasks : owner[j] = p /\ mem[j] \in states}

Goes(j, where) == mem' = [mem EXCEPT ![j] = where]

\* An earlier created row, or one of a higher priority: e-mail jobs before places
\* before searches.
Priority(j) == IF j \in Queries THEN 2 ELSE IF j \in PlaceTasks THEN 1 ELSE 0

-----------------------------------------------------------------------------
(* produceSeedJobs, and the provider                                        *)

Produces(q) ==
    /\ status[q] = "absent"
    /\ status' = [status EXCEPT ![q] = "new"]
    /\ UNCHANGED <<mem, owner, todo, proc, claims, spoiled>>

\* One statement picks the rows and marks them; rows that another process is
\* marking are skipped.
Batches_FullOnly ==
    {S \in SUBSET {j \in Tasks : status[j] = "new"} : Cardinality(S) = ClaimSize}
Batches ==
    LET new == {j \in Tasks : status[j] = "new"} IN
    {S \in SUBSET new :
       /\ \/ Cardinality(S) = ClaimSize
          \/ Cardinality(S) < ClaimSize /\ S = new
       /\ \A j \in S, k \in new \ S : Priority(j) <= Priority(k)}

Claimed_Unmarked(S) == status
Claimed(S) == [j \in Tasks |-> IF j \in S THEN "queued" ELSE status[j]]

Claims(p) ==
    /\ proc[p].ctx = "up" /\ proc[p].fetch = "query"
    /\ \E S \in Batches :
         /\ S # {}
         /\ status' = Claimed(S)
         /\ mem' = [j \in Tasks |-> IF j \in S THEN "claimed" ELSE mem[j]]
         /\ owner' = [j \in Tasks |-> IF j \in S THEN p ELSE owner[j]]
         /\ claims' = [j \in Tasks |-> IF j \in S THEN claims[j] + 1 ELSE claims[j]]
    /\ proc' = [proc EXCEPT ![p].fetch = "sending"]
    /\ UNCHANGED <<todo, spoiled>>

\* The query fails, or a row cannot be read after the statement marked them: the
\* goroutine ends for good, and every forwarder the workers start ends with it.
FetchFails(p) ==
    /\ proc[p].ctx = "up" /\ proc[p].fetch = "query"
    /\ proc' = [proc EXCEPT ![p].fetch = "dead"]
    /\ \/ UNCHANGED <<status, mem, owner, claims, spoiled>>
       \/ \E S \in Batches :
            /\ status' = Claimed(S)
            /\ mem' = [j \in Tasks |-> IF j \in S THEN "lost" ELSE mem[j]]
            /\ owner' = [j \in Tasks |-> IF j \in S THEN p ELSE owner[j]]
            /\ claims' = [j \in Tasks |-> IF j \in S THEN claims[j] + 1 ELSE claims[j]]
            /\ spoiled' = spoiled \cup S
    /\ UNCHANGED todo

SendsToChannel(p, j) ==
    /\ proc[p].ctx = "up" /\ proc[p].fetch = "sending"
    /\ j \in Held(p, {"claimed"})
    /\ Cardinality(Held(p, {"chan"})) < 2 * ClaimSize
    /\ Goes(j, "chan")
    /\ proc' = IF Held(p, {"claimed"}) = {j} THEN [proc EXCEPT ![p].fetch = "query"]
               ELSE proc
    /\ UNCHANGED <<status, owner, todo, claims, spoiled>>

\* A forwarder hands the job to its worker.
Receives(p, j) ==
    /\ proc[p].ctx = "up" /\ j \in Held(p, {"chan"})
    /\ Cardinality(Held(p, InHand)) < Workers
    /\ Goes(j, "working")
    /\ UNCHANGED <<status, owner, todo, proc, claims, spoiled>>

-----------------------------------------------------------------------------
(* The engine's worker                                                      *)

\* Whatever DoJob returned an error for is dropped; its row stays "queued".
Fails(p, j) ==
    /\ j \in Held(p, {"working"})
    /\ Goes(j, "done")
    /\ UNCHANGED <<status, owner, todo, proc, claims, spoiled>>

Leads(j) ==
    IF j \in Queries THEN {{<<j, s, "place">> : s \in S} : S \in SUBSET Shops}
    ELSE IF j \in PlaceTasks /\ j[2] \in EmailShops THEN {{<<j[1], j[2], "email">>}, {}}
    ELSE {{}}

\* A search has no result of its own, nor has a place that became an e-mail job.
Processed(p, j) ==
    /\ j \in Held(p, {"working"})
    /\ \E N \in Leads(j) :
         /\ todo' = [todo EXCEPT ![j] = N]
         /\ Goes(j, IF N # {} THEN "pushing" ELSE IF j \in Queries THEN "done" ELSE "sending")
    /\ UNCHANGED <<status, owner, proc, claims, spoiled>>

\* Push inserts a new row.  When one insert fails the rest is not tried.
Pushes(p, j) ==
    /\ j \in Held(p, {"pushing"})
    /\ \E k \in todo[j] :
         \/ /\ proc[p].ctx = "up"
            /\ status' = [status EXCEPT ![k] = IF @ = "absent" THEN "new" ELSE @]
            /\ todo' = [todo EXCEPT ![j] = @ \ {k}]
            /\ Goes(j, IF todo[j] = {k} THEN "done" ELSE "pushing")
         \/ /\ todo' = [todo EXCEPT ![j] = {}]
            /\ Goes(j, "done") /\ UNCHANGED status
    /\ UNCHANGED <<owner, proc, claims, spoiled>>

-----------------------------------------------------------------------------
(* The result writer                                                        *)

\* The batch is due when it is full, or when a minute passed since the last one.
WriterReceives(p, j) ==
    /\ proc[p].writer = "run" /\ j \in Held(p, {"sending"})
    /\ Goes(j, "buffered")
    /\ \E due \in BOOLEAN :
         /\ Cardinality(Held(p, {"buffered"})) + 1 >= BufferSize => due
         /\ proc' = IF due THEN [proc EXCEPT ![p].writer = "saving"] ELSE proc
    /\ UNCHANGED <<status, owner, todo, claims, spoiled>>

\* batchSave, in one transaction; it fails when the writer's context is done.
Saves(p) ==
    /\ proc[p].writer \in {"saving", "closing"} /\ proc[p].ctx \in {"up", "idle"}
    /\ mem' = [j \in Tasks |-> IF j \in Held(p, {"buffered"}) THEN "saved" ELSE mem[j]]
    /\ proc' = [proc EXCEPT ![p].writer = IF @ = "saving" THEN "run" ELSE "ended"]
    /\ UNCHANGED <<status, owner, todo, claims, spoiled>>

\* The writer returns its error, and the application's context is done with it.
SaveFails(p) ==
    /\ proc[p].writer \in {"saving", "closing"}
    /\ mem' = [j \in Tasks |-> IF j \in Held(p, {"buffered"}) THEN "lost" ELSE mem[j]]
    /\ proc' = [proc EXCEPT ![p].writer = "failed", ![p].ctx = "stopping"]
    /\ spoiled' = spoiled \cup {j \in Tasks : owner[j] = p /\ mem[j] \notin Resting}
    /\ UNCHANGED <<status, owner, todo, claims>>

-----------------------------------------------------------------------------
(* How a process ends                                                       *)

\* No worker finished a job for a while: the engine's context is done, the
\* writer's is not.
InactivityExits(p) ==
    /\ proc[p].ctx = "up"
    /\ proc' = [proc EXCEPT ![p].ctx = "idle"]
    /\ UNCHANGED <<status, mem, owner, todo, claims, spoiled>>

SignalStops(p) ==
    /\ proc[p].ctx \in {"up", "idle"}
    /\ proc' = [proc EXCEPT ![p].ctx = "stopping"]
    /\ spoiled' = spoiled \cup {j \in Tasks : owner[j] = p /\ mem[j] \notin Resting}
    /\ UNCHANGED <<status, mem, owner, todo, claims>>

\* Start closes the results once its workers have left; the writer then saves
\* the rest of its buffer.
ResultsClosed_Discards(p) ==
    /\ proc[p].ctx \in {"idle", "stopping"} /\ proc[p].writer = "run"
    /\ Held(p, InHand) = {}
    /\ proc' = [proc EXCEPT ![p].writer = "ended"]
    /\ UNCHANGED <<status, mem, owner, todo, claims, spoiled>>
ResultsClosed(p) ==
    /\ proc[p].ctx \in {"idle", "stopping"} /\ proc[p].writer = "run"
    /\ Held(p, InHand) = {}
    /\ proc' = [proc EXCEPT ![p].writer =
                  IF Held(p, {"buffered"}) = {} THEN "ended" ELSE "closing"]
    /\ UNCHANGED <<status, mem, owner, todo, claims, spoiled>>

\* What a process takes with it when it goes: results in its buffer are lost, and
\* so are the rows it claimed, which nothing makes "new" again.
Gone(p) == [j \in Tasks |-> IF j \in Held(p, {"buffered", "sending"}) THEN "lost"
                            ELSE IF owner[j] = p /\ mem[j] \notin Resting THEN "done"
                            ELSE mem[j]]

Returns(p) ==
    /\ proc[p].ctx \in {"idle", "stopping"} /\ proc[p].writer \in {"ended", "failed"}
    /\ Held(p, InHand) = {}
    /\ mem' = Gone(p)
    /\ proc' = [proc EXCEPT ![p].ctx = "down"]
    /\ UNCHANGED <<status, owner, todo, claims, spoiled>>

Dies(p) ==
    /\ proc[p].ctx # "down"
    /\ mem' = Gone(p)
    /\ spoiled' = spoiled \cup {j \in Tasks : owner[j] = p /\ mem[j] \notin Resting}
    /\ proc' = [proc EXCEPT ![p].ctx = "down"]
    /\ UNCHANGED <<status, owner, todo, claims>>

StartsAgain(p) ==
    /\ proc[p].ctx = "down"
    /\ proc' = [proc EXCEPT ![p] = Fresh]
    /\ UNCHANGED <<status, mem, owner, todo, claims, spoiled>>

-----------------------------------------------------------------------------
DbStep(p) ==
    \/ Saves(p) \/ SaveFails(p) \/ ResultsClosed(p) \/ Returns(p) \/ StartsAgain(p)
    \/ \E j \in Tasks : SendsToChannel(p, j) \/ Receives(p, j) \/ Fails(p, j)
                        \/ Processed(p, j) \/ Pushes(p, j) \/ WriterReceives(p, j)

DbNext ==
    \/ \E q \in Queries : Produces(q)
    \/ \E p \in Procs : \/ Claims(p) \/ FetchFails(p) \/ InactivityExits(p)
                        \/ SignalStops(p) \/ Dies(p) \/ DbStep(p)

DbSpec == DbInit /\ [][DbNext]_dbVars

\* Each goroutine of a process runs, a process whose fetching ended goes idle at
\* last and exits, one that hangs is killed, and one that exited is started again;
\* a query that is tried again and again succeeds at last.
DbFairness ==
    \A p \in Procs :
        /\ WF_dbVars(DbStep(p)) /\ SF_dbVars(Claims(p))
        /\ WF_dbVars(proc[p].fetch = "dead" /\ InactivityExits(p))
        /\ WF_dbVars(proc[p].ctx \in {"idle", "stopping"} /\ Dies(p))

-----------------------------------------------------------------------------
\* No two processes work on one row, and none works on it twice: a result is not
\* scraped again, whoever fails or starts again.
ClaimedOnce == \A j \in Tasks : claims[j] <= 1

\* A process that ends because it was idle has saved every result it collected:
\* a result is lost only to a signal, a failed statement or a crash.
QuietExitKeepsResults == \A j \in Tasks : mem[j] = "lost" => j \in spoiled

\* A row that waits is claimed in the end, by one process or another.
EveryRowClaimed == \A j \in Tasks : status[j] = "new" ~> status[j] = "queued"
=============================================================================
