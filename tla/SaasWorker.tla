----------------------------- MODULE SaasWorker -----------------------------
(***************************************************************************)
(* A worker process of the SaaS edition: the River client that runs one    *)
(* scrape job at a time (rqueue.ScrapeWorker), the central writer that     *)
(* gathers and saves its results, the provider, and the scraper manager    *)
(* that restarts the engine after a number of jobs (package scraper).      *)
(* The queue (River) and the results table are in the database and outlive *)
(* the process.                                                            *)
(*                                                                         *)
(* An attempt <<j, n>> is the n-th run of job j; a unit <<a, p>> is the    *)
(* place p found by the search of attempt a.  The engine keeps working on  *)
(* the units of an attempt that was given up: nobody tells it to stop.     *)
(* With WithConcurrency(1) it has one worker.                              *)
(***************************************************************************)
EXTENDS Exiter, FiniteSets, Sequences

CONSTANTS
  ScrapeJobs, Places,
  FastJobs,     \* the jobs in fast mode: one request finds and scrapes all
  EmailJobs,    \* the jobs with e-mail extraction
  MaxAttempts,  \* InsertOpts: a job is tried this often
  MaxJobs,      \* -max-jobs-per-cycle
  Capacity,     \* the jobs the provider's channels hold
  None

ASSUME JobAssumption ==
  /\ FastJobs \subseteq ScrapeJobs /\ EmailJobs \subseteq ScrapeJobs
  /\ IsFiniteSet(ScrapeJobs) /\ IsFiniteSet(Places)
ASSUME NoneAssumption == None \notin ScrapeJobs
ASSUME BoundAssumption == {MaxAttempts, MaxJobs, Capacity} \subseteq Nat \ {0}

Attempts == ScrapeJobs \X (1..MaxAttempts)
Units    == Attempts \X Places

\* What the engine runs: the search of an attempt, a place of it, or the
\* e-mail job of a place.
EngineJobs ==
  [kind : {"search"}, for : Attempts] \cup [kind : {"place", "email"}, for : Units]

AttemptOf(ej) == IF ej.kind = "search" THEN ej.for ELSE ej.for[1]

VARIABLES
  \* in the database
  state,    \* River's state of each job
  tries,    \* how often it was fetched
  saved,    \* its row in scrape_results, a set of units, or None
  \* in the process
  work,     \* ScrapeWorker.Work: what it does, for which job, and why it gave up
  current,  \* CentralWriter.current: the tracked attempt and its entries, or None
  saving,   \* the entries taken by a flush of each attempt, or None
  reply,    \* the completion channel of each attempt
  ex,       \* the exit monitor of each attempt
  mon,      \* the goroutine that runs it
  prov,     \* the jobs in the current provider's channels
  eng,      \* the engine's worker
  wr,       \* CentralWriter.Run
  mgr,      \* ScraperManager: state, jobCount, restartChan
  down      \* the process was told to stop

queue == <<state, tries>>
flush == <<current, saving, reply>>
monitors == <<ex, mon>>
engine == <<prov, eng, wr>>
vars == <<queue, saved, work, flush, monitors, engine, mgr, down>>

IdleWork == [pc |-> "idle", job |-> None, why |-> "none"]
IdleEngine == [pc |-> "idle", job |-> None, todo |-> {}]
IdleWriter == [pc |-> "receiving", for |-> None, todo |-> {}, count |-> 0]
NewManager == [pc |-> "starting", count |-> 0, restart |-> FALSE]

Init ==
  /\ state = [j \in ScrapeJobs |-> "available"]
  /\ tries = [j \in ScrapeJobs |-> 0]
  /\ saved = [j \in ScrapeJobs |-> None]
  /\ work = IdleWork /\ current = None
  /\ saving = [a \in Attempts |-> None]
  /\ reply = [a \in Attempts |-> "none"]
  /\ ex = [a \in Attempts |-> NewExiter(1)]
  /\ mon = [a \in Attempts |-> "off"]
  /\ prov = <<>> /\ eng = IdleEngine /\ wr = IdleWriter
  /\ mgr = NewManager /\ down = FALSE

\* The attempt Work is at.
Attempt == <<work.job, tries[work.job]>>
WorkIs(pc) == work.pc = pc
WorkGoesTo(pc) == work' = [work EXCEPT !.pc = pc]

-----------------------------------------------------------------------------
(* The queue (River), as rqueue configures it                               *)

\* Work's error makes River retry the job until MaxAttempts.
Retried(j) == IF tries[j] < MaxAttempts THEN "retryable" ELSE "discarded"

RiverFinishes ==
  /\ WorkIs("succeeded") \/ WorkIs("failed")
  /\ state' = [state EXCEPT ![work.job] =
                 IF WorkIs("succeeded") THEN "completed" ELSE Retried(work.job)]
  /\ work' = IdleWork
  /\ UNCHANGED <<tries, saved, flush, monitors, engine, mgr, down>>

\* The retry promoter, or NextRetryAt when it is slower.
PromoteRetryable(j) ==
  /\ state[j] = "retryable"
  /\ state' = [state EXCEPT ![j] = "available"]
  /\ UNCHANGED <<tries, saved, work, flush, monitors, engine, mgr, down>>

RescueStuck_Never(j) == FALSE /\ UNCHANGED vars

\* RescueStuckJobsAfter outlasts every timeout of Work: a job that is still
\* running then lost its process.
RescueStuck(j) ==
  /\ state[j] = "running" /\ work.job # j
  /\ state' = [state EXCEPT ![j] = Retried(j)]
  /\ UNCHANGED <<tries, saved, work, flush, monitors, engine, mgr, down>>

-----------------------------------------------------------------------------
(* ScrapeWorker.Work                                                        *)

\* River fetches a job (MaxWorkers is 1), and Work registers it.
WorkStarts(j) ==
  /\ WorkIs("idle") /\ ~down /\ state[j] = "available"
  /\ state' = [state EXCEPT ![j] = "running"]
  /\ tries' = [tries EXCEPT ![j] = @ + 1]
  /\ work' = [pc |-> "registered", job |-> j, why |-> "none"]
  /\ current' = [for |-> <<j, tries[j] + 1>>, entries |-> {}]
  /\ UNCHANGED <<saved, saving, reply, monitors, engine, mgr, down>>

\* SubmitJob reads the provider, once there is one ...
GetsProvider ==
  /\ WorkIs("registered") /\ mgr.pc # "starting"
  /\ WorkGoesTo("submitting")
  /\ UNCHANGED <<queue, saved, flush, monitors, engine, mgr, down>>

\* ... and sends to it, though a restart may have replaced it in between.
Submits ==
  /\ WorkIs("submitting") \/ WorkIs("submitting stale")
  /\ IF WorkIs("submitting")
     THEN /\ Len(prov) < Capacity
          /\ prov' = Append(prov, [kind |-> "search", for |-> Attempt])
     ELSE UNCHANGED prov
  /\ mon' = [mon EXCEPT ![Attempt] = "watching"]
  /\ WorkGoesTo("waiting")
  /\ UNCHANGED <<queue, saved, flush, ex, eng, wr, mgr, down>>

\* Flush takes the tracked attempt of the job, whichever attempt that is.
Tracks(j) == current # None /\ current.for[1] = j

Takes(j) ==
  /\ saving' = [saving EXCEPT ![current.for] = current.entries]
  /\ current' = None

\* Work gives up on the attempt and calls ForceFlush, which saves when the
\* exit monitor did not come first.
GivesUp(why) ==
  /\ IF Tracks(work.job) THEN Takes(work.job) /\ work' = [work EXCEPT !.pc = "saving", !.why = why]
     ELSE UNCHANGED <<current, saving>> /\ work' = [work EXCEPT !.pc = "grace", !.why = why]
  /\ UNCHANGED <<queue, saved, reply, monitors, engine, mgr, down>>

\* SubmitJob's context ends while it waits for a provider or for room in it.
SubmitFails ==
  /\ \/ WorkIs("registered") /\ (down \/ mgr.pc = "starting")
     \/ WorkIs("submitting") /\ (down \/ Len(prov) >= Capacity)
     \/ WorkIs("submitting stale") /\ down
  /\ GivesUp("submit")

WorkTimesOut == WorkIs("waiting") /\ GivesUp("timer")

\* River ends the context at the job's deadline, or because the client stops.
ContextDone_Leaves ==
  /\ WorkIs("waiting") /\ work' = [work EXCEPT !.pc = "failed"]
  /\ UNCHANGED <<queue, saved, flush, monitors, engine, mgr, down>>

ContextDone ==
  /\ WorkIs("waiting")
  /\ GivesUp("deadline") \/ (down /\ GivesUp("cancelled"))

\* Whether Work returns an error, for the reply it received.
Errs_Never(r, why) == why \in {"submit", "cancelled"} \/ (r = "empty" /\ why # "none")
Errs(r, why) ==
  \/ r = "error" \/ why \in {"submit", "cancelled"}
  \/ r = "empty" /\ why # "none"

\* The deferred JobDone counts the job and may ask for a restart.
JobDone ==
  LET count == IF mgr.count < MaxJobs THEN mgr.count + 1 ELSE MaxJobs
  IN mgr' = [mgr EXCEPT !.count = count, !.restart = @ \/ count >= MaxJobs]

\* A flush always replies: its save has 30 seconds, the grace 90.
WorkReturns ==
  /\ WorkIs("waiting") \/ WorkIs("grace")
  /\ reply[Attempt] # "none"
  /\ reply' = [reply EXCEPT ![Attempt] = "none"]
  /\ work' = [work EXCEPT !.why = "none",
                          !.pc = IF Errs(reply[Attempt], work.why) THEN "failed" ELSE "succeeded"]
  /\ JobDone
  /\ UNCHANGED <<queue, saved, current, saving, monitors, engine, down>>

\* The exit monitor's context lives as long as Work waits for it.
Watched(a) == WorkIs("waiting") /\ Attempt = a

\* Nothing reads a monitor whose goroutine has left: its counters start over.
MonitorLeaves(a, to) ==
  /\ mon' = [mon EXCEPT ![a] = to]
  /\ ex' = [ex EXCEPT ![a] = NewExiter(1)]

Counts(a, e) == ex' = IF mon[a] = "watching" THEN [ex EXCEPT ![a] = e] ELSE ex

MonitorStops(a) ==
  /\ mon[a] = "watching" /\ ~Watched(a)
  /\ MonitorLeaves(a, "off")
  /\ UNCHANGED <<queue, saved, work, flush, engine, mgr, down>>

MonitorFires(a) ==
  /\ mon[a] = "watching" /\ ex[a].doneCh
  /\ MonitorLeaves(a, "fired")
  /\ UNCHANGED <<queue, saved, work, flush, engine, mgr, down>>

-----------------------------------------------------------------------------
(* CentralWriter                                                            *)

\* MarkDone, called by the exit monitor: flushes are by job, not by attempt.
MarkDone(a) ==
  /\ mon[a] = "fired"
  /\ mon' = [mon EXCEPT ![a] = "off"]
  /\ IF Tracks(a[1]) THEN Takes(a[1]) ELSE UNCHANGED <<current, saving>>
  /\ UNCHANGED <<queue, saved, work, reply, ex, engine, mgr, down>>

\* The rest of Flush: the upsert, which may fail with or without effect, and
\* the reply.
Save(a) ==
  /\ saving[a] # None
  /\ saving' = [saving EXCEPT ![a] = None]
  /\ \/ /\ saved' = [saved EXCEPT ![a[1]] = saving[a]]
        /\ reply' = [reply EXCEPT ![a] =
                       IF saving[a] = {} THEN "empty" ELSE "some"]
     \/ /\ saved' \in {saved, [saved EXCEPT ![a[1]] = saving[a]]}
        /\ reply' = [reply EXCEPT ![a] = "error"]
  /\ IF WorkIs("saving") /\ Attempt = a THEN WorkGoesTo("grace") ELSE UNCHANGED work
  /\ UNCHANGED <<queue, current, monitors, engine, mgr, down>>

\* Run: a result is received from the engine's worker, its entries are added
\* one by one, and only then are they counted.
AddResult_AnyJob(u) ==
  current' = IF current # None THEN [current EXCEPT !.entries = @ \cup {u}] ELSE current

AddResult(u) ==
  current' = IF Tracks(u[1][1]) THEN [current EXCEPT !.entries = @ \cup {u}] ELSE current

WriterAdds ==
  /\ wr.pc = "processing"
  /\ \E u \in wr.todo :
       /\ AddResult(u)
       /\ wr' = [wr EXCEPT !.todo = @ \ {u}]
  /\ UNCHANGED <<queue, saved, work, saving, reply, monitors, prov, eng, mgr, down>>

WriterCounts ==
  /\ wr.pc = "processing" /\ wr.todo = {}
  /\ IF wr.count > 0 THEN Counts(wr.for, IncrPlacesCompleted(ex[wr.for], wr.count))
     ELSE UNCHANGED ex
  /\ wr' = IdleWriter
  /\ UNCHANGED <<queue, saved, work, flush, mon, prov, eng, mgr, down>>

-----------------------------------------------------------------------------
(* The engine's only worker, and the jobs it processes                      *)

Cancelled == down \/ mgr.pc = "stopping"
Up == mgr.pc # "starting"
Processes(kind) == Up /\ eng.pc = "run" /\ eng.job.kind = kind
Found(ps) == {<<eng.job.for, p>> : p \in ps}

EngineTakes ==
  /\ Up /\ eng.pc = "idle" /\ prov # <<>>
  /\ eng' = [pc |-> "run", job |-> Head(prov), todo |-> {}]
  /\ prov' = Tail(prov)
  /\ UNCHANGED <<queue, saved, work, flush, monitors, wr, mgr, down>>

\* A job that panics is recovered and counted nowhere, nor is one whose page does
\* not parse.
EnginePanics ==
  /\ Up /\ eng.pc = "run"
  /\ eng' = IdleEngine
  /\ UNCHANGED <<queue, saved, work, flush, monitors, prov, wr, mgr, down>>

SearchFails ==
  /\ Processes("search")
  /\ Counts(eng.job.for, IncrSeedCompleted(ex[eng.job.for], 1))
  /\ eng' = IdleEngine
  /\ UNCHANGED <<queue, saved, work, flush, mon, prov, wr, mgr, down>>

\* A search counts its places and itself; then it pushes the place jobs or,
\* in fast mode, sends all of them as one result.
SearchFinds ==
  /\ Processes("search")
  /\ \E ps \in SUBSET Places :
       /\ Counts(eng.job.for,
            IncrSeedCompleted(IncrPlacesFound(ex[eng.job.for], Cardinality(ps)), 1))
       /\ eng' = [eng EXCEPT !.pc = IF eng.job.for[1] \in FastJobs THEN "send" ELSE "push",
                             !.todo = Found(ps)]
  /\ UNCHANGED <<queue, saved, work, flush, mon, prov, wr, mgr, down>>

EnginePushes ==
  /\ eng.pc = "push" /\ Len(prov) < Capacity
  /\ \E u \in eng.todo :
       /\ prov' = Append(prov, [kind |-> IF eng.job.kind = "search" THEN "place" ELSE "email",
                                for |-> u])
       /\ eng' = [eng EXCEPT !.todo = @ \ {u}]
  /\ UNCHANGED <<queue, saved, work, flush, monitors, wr, mgr, down>>

\* All are pushed, or the context is cancelled and the rest is dropped.
EngineFinishes ==
  /\ eng.pc = "push" /\ (eng.todo = {} \/ Cancelled)
  /\ eng' = IdleEngine
  /\ UNCHANGED <<queue, saved, work, flush, monitors, prov, wr, mgr, down>>

PlaceFails ==
  /\ Processes("place")
  /\ Counts(AttemptOf(eng.job), IncrPlacesCompleted(ex[AttemptOf(eng.job)], 1))
  /\ eng' = IdleEngine
  /\ UNCHANGED <<queue, saved, work, flush, mon, prov, wr, mgr, down>>

PlaceBecomesEmail ==
  /\ Processes("place") /\ AttemptOf(eng.job)[1] \in EmailJobs
  /\ eng' = [eng EXCEPT !.pc = "push", !.todo = {eng.job.for}]
  /\ UNCHANGED <<queue, saved, work, flush, monitors, prov, wr, mgr, down>>

UnitScraped_Counted ==
  /\ Processes("place") \/ Processes("email")
  /\ Counts(AttemptOf(eng.job), IncrPlacesCompleted(ex[AttemptOf(eng.job)], 1))
  /\ eng' = [eng EXCEPT !.pc = "send", !.todo = {eng.job.for}]
  /\ UNCHANGED <<queue, saved, work, flush, mon, prov, wr, mgr, down>>

\* With WriterManagedCompletion the writer counts the place, not the job.
UnitScraped ==
  /\ Processes("place") \/ Processes("email")
  /\ eng' = [eng EXCEPT !.pc = "send", !.todo = {eng.job.for}]
  /\ UNCHANGED <<queue, saved, work, flush, monitors, prov, wr, mgr, down>>

\* The unbuffered results channel.
EngineSends ==
  /\ eng.pc = "send" /\ wr.pc = "receiving"
  /\ wr' = [pc |-> "processing", for |-> AttemptOf(eng.job),
            todo |-> eng.todo, count |-> Cardinality(eng.todo)]
  /\ eng' = IdleEngine
  /\ UNCHANGED <<queue, saved, work, flush, monitors, prov, mgr, down>>

EngineExits ==
  /\ eng.pc = "idle" /\ Cancelled
  /\ eng' = [eng EXCEPT !.pc = "exited"]
  /\ UNCHANGED <<queue, saved, work, flush, monitors, prov, wr, mgr, down>>

\* Run returns when its context is cancelled.
WriterReturns ==
  /\ wr.pc = "receiving" /\ Cancelled
  /\ wr' = [wr EXCEPT !.pc = "returned"]
  /\ UNCHANGED <<queue, saved, work, flush, monitors, prov, eng, mgr, down>>

-----------------------------------------------------------------------------
(* ScraperManager.runCycle, and the process                                 *)

\* A new provider replaces the old one, which nobody reads any more.
CycleStarts ==
  /\ \/ mgr.pc = "starting"
     \/ mgr.pc = "stopping" /\ eng.pc = "exited" /\ wr.pc = "returned"
  /\ ~down
  /\ mgr' = [mgr EXCEPT !.pc = "up", !.count = 0]
  /\ prov' = <<>> /\ eng' = IdleEngine /\ wr' = IdleWriter
  /\ work' = IF WorkIs("submitting") THEN [work EXCEPT !.pc = "submitting stale"] ELSE work
  /\ UNCHANGED <<queue, saved, flush, monitors, down>>

RestartTriggered ==
  /\ mgr.pc = "up" /\ mgr.restart /\ ~down
  /\ mgr' = [mgr EXCEPT !.pc = "stopping", !.restart = FALSE]
  /\ UNCHANGED <<queue, saved, work, flush, monitors, engine, down>>

\* A signal cancels every context.  (Without a job at work it is a Crash.)
Shutdown ==
  /\ ~down /\ ~WorkIs("idle")
  /\ down' = TRUE
  /\ UNCHANGED <<queue, saved, work, flush, monitors, engine, mgr>>

\* The process exits or is killed, and another one starts.
Crash ==
  /\ work' = IdleWork /\ current' = None
  /\ saving' = [a \in Attempts |-> None]
  /\ reply' = [a \in Attempts |-> "none"]
  /\ ex' = [a \in Attempts |-> NewExiter(1)]
  /\ mon' = [a \in Attempts |-> "off"]
  /\ prov' = <<>> /\ eng' = IdleEngine /\ wr' = IdleWriter
  /\ mgr' = NewManager /\ down' = FALSE
  /\ UNCHANGED <<queue, saved>>

RiverStep ==
  \/ RiverFinishes
  \/ \E j \in ScrapeJobs : PromoteRetryable(j) \/ RescueStuck(j) \/ WorkStarts(j)

WorkStep ==
  \/ GetsProvider \/ Submits \/ SubmitFails
  \/ WorkTimesOut \/ ContextDone \/ WorkReturns

MonitorStep(a) == MonitorStops(a) \/ MonitorFires(a) \/ MarkDone(a) \/ Save(a)

WriterStep == WriterAdds \/ WriterCounts \/ WriterReturns

EngineStep ==
  \/ EngineTakes \/ SearchFails \/ SearchFinds \/ EnginePushes \/ EngineFinishes
  \/ PlaceFails \/ PlaceBecomesEmail \/ UnitScraped \/ EngineSends \/ EngineExits

Next ==
  \/ RiverStep \/ WorkStep \/ EngineStep \/ EnginePanics \/ WriterStep
  \/ \E a \in Attempts : MonitorStep(a)
  \/ CycleStarts \/ RestartTriggered \/ Shutdown \/ Crash

Spec == Init /\ [][Next]_vars

(* Fairness: River's maintenance, its fetch loop and every goroutine run;   *)
(* a timer fires and a save ends, having a timeout; a process told to stop  *)
(* exits.  Nothing obliges a job to fail or to panic, or a process to stop. *)
Fairness ==
  /\ WF_vars(RiverFinishes)
  /\ \A j \in ScrapeJobs :
       WF_vars(PromoteRetryable(j)) /\ WF_vars(RescueStuck(j)) /\ WF_vars(WorkStarts(j))
  /\ WF_vars(WorkStep) /\ WF_vars(EngineStep) /\ WF_vars(WriterStep)
  /\ \A a \in Attempts : WF_vars(MonitorStep(a))
  /\ WF_vars(CycleStarts) /\ WF_vars(RestartTriggered)
  /\ WF_vars(down /\ Crash)

FairSpec == Spec /\ Fairness

-----------------------------------------------------------------------------
(* Properties                                                               *)

TypeOK ==
  /\ state \in [ScrapeJobs -> {"available", "running", "retryable", "completed", "discarded"}]
  /\ tries \in [ScrapeJobs -> 0..MaxAttempts]
  /\ saved \in [ScrapeJobs -> (SUBSET Units) \cup {None}]
  /\ work \in [pc : {"idle", "registered", "submitting", "submitting stale", "waiting",
                     "saving", "grace", "succeeded", "failed"},
               job : ScrapeJobs \cup {None},
               why : {"none", "submit", "timer", "deadline", "cancelled"}]
  /\ WorkIs("idle") <=> work.job = None
  /\ current \in [for : Attempts, entries : SUBSET Units] \cup {None}
  /\ saving \in [Attempts -> (SUBSET Units) \cup {None}]
  /\ reply \in [Attempts -> {"none", "empty", "some", "error"}]
  /\ ex \in [Attempts -> ExiterState]
  /\ mon \in [Attempts -> {"off", "watching", "fired"}]
  /\ prov \in Seq(EngineJobs) /\ Len(prov) <= Capacity
  /\ eng \in [pc : {"idle", "run", "push", "send", "exited"},
              job : EngineJobs \cup {None}, todo : SUBSET Units]
  /\ wr \in [pc : {"receiving", "processing", "returned"},
             for : Attempts \cup {None}, todo : SUBSET Units, count : Nat]
  /\ mgr \in [pc : {"starting", "up", "stopping"}, count : 0..MaxJobs, restart : BOOLEAN]
  /\ down \in BOOLEAN

\* The row of a job has results of that job only, whatever jobs the engine
\* still works on when their attempts were given up.
NoForeignResults ==
  \A j \in ScrapeJobs : saved[j] # None => \A u \in saved[j] : u[1][1] = j

\* Something of attempt a that has results, or may have some, is not among its
\* entries yet.
OnItsWay(a) ==
  \/ \E k \in DOMAIN prov : AttemptOf(prov[k]) = a
  \/ eng.pc = "run" /\ AttemptOf(eng.job) = a
  \/ eng.pc \in {"push", "send"} /\ AttemptOf(eng.job) = a /\ eng.todo # {}
  \/ wr.pc = "processing" /\ wr.for = a /\ wr.todo # {}

\* When the exit monitor of an attempt says that it is done, every result the
\* attempt will ever have is among its entries, and so flushed with them: none is
\* with the provider, the engine's worker or the writer.
DoneMeansCollected ==
  \A a \in Attempts : ex[a].doneCh \/ mon[a] = "fired" => ~OnItsWay(a)

\* A job is registered only when no other is tracked: RegisterJob never drops
\* the entries of an attempt, nor its completion channel, on which someone
\* may wait.
NothingOverwritten == WorkIs("idle") => current = None

\* What the queue calls completed has a row, which an attempt saved: no path
\* of timeouts, failed saves and shutdowns completes a job without one.
CompletedHasRow ==
  \A j \in ScrapeJobs : state[j] = "completed" => saved[j] # None

Final == {"completed", "discarded"}

\* Every job ends, completed or discarded, whatever process runs it, wherever
\* that is killed, and though a restart may hang.
EveryJobEnds == <>(\A j \in ScrapeJobs : state[j] \in Final)

\* scraper.go, on Run: "creates a new scraper, runs it until the job threshold
\* is reached, then restarts".  A restart, once begun, ends.
RestartEnds == mgr.pc = "stopping" ~> mgr.pc # "stopping"
=============================================================================
