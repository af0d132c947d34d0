----------------------------- MODULE Scrapemate -----------------------------
(***************************************************************************)
(* One scrape of the command line or web runner: the application           *)
(* (scrapemateapp.Start), the engine's worker goroutines, the in-memory    *)
(* job provider, one result writer, the deduper and the exit monitor.      *)
(*                                                                         *)
(* A search job (seed) shows a set of place links.  A link the deduper     *)
(* admits becomes a place job, which becomes, when e-mails are wanted and  *)
(* the place has a website, an e-mail job; the last of these jobs hands    *)
(* one result to the writer.  A unit <<s, p>> is the place p as found by   *)
(* the seed s, from its place job to its result.                           *)
(*                                                                         *)
(* A fetch with its retries is one step whose outcome is arbitrary: the    *)
(* Web decides it.                                                         *)
(***************************************************************************)
EXTENDS Exiter, FiniteSets

CONSTANTS
  Workers,          \* the engine's goroutines, WithConcurrency
  Seeds,            \* the search jobs of the input
  Places,           \* the place links a search may show
  MaxResults,       \* -max-results, 0 for no limit
  ExtractEmail,     \* -email
  ExitOnInactivity, \* -exit-on-inactivity is set
  Cancels,          \* outside reasons for cancellation: "signal", "deadline"
  MayBreak,         \* a job may end uncounted: it panics, its page does not parse
  WriterMayFail,    \* the writer may return an error
  Nil               \* the nil job

Units == Seeds \X Places
Jobs  == Seeds \cup Units

ASSUME SeedsAssumption == Seeds \cap Units = {} /\ IsFiniteSet(Jobs)
ASSUME LimitAssumption == MaxResults \in Nat
ASSUME FlagsAssumption ==
  {ExtractEmail, ExitOnInactivity, MayBreak, WriterMayFail} \subseteq BOOLEAN
ASSUME NilAssumption == Nil \notin Jobs
ASSUME CancelsAssumption == "exiter" \notin Cancels

VARIABLES
  at,      \* where each job is
  email,   \* the units that are e-mail jobs by now
  direct,  \* the units found by a redirect to the place itself
  wpc,     \* what each worker is doing
  wjob,    \* the job it is doing, or Nil
  wtodo,   \* the links of a search page it has not looked at
  whref,   \* the link it is putting in the deduper, or Nil
  wnext,   \* the links it will push as place jobs
  fpc,     \* each worker's forwarder, the goroutine of memoryProvider.Jobs
  fjob,    \* the job the forwarder offers, or Nil
  seen,    \* the deduper's map
  ex,      \* the exit monitor
  cause,   \* why the engine's context is cancelled, "none" while it is not
  writer,  \* the writer goroutine
  app      \* "running", "closed" (mate.Start has returned), "returned", "crashed"

provider == <<fpc, fjob>>
workerState == <<wpc, wjob, wtodo, whref, wnext>>
jobState == <<at, email, direct>>
vars == <<jobState, workerState, provider, seen, ex, cause, writer, app>>

Cancelled == cause # "none"
Running == app = "running"

JobPlaces ==
  {"none", "next", "pushing", "fwd", "run", "send", "written", "lost",
   "done", "failed", "broken", "dropped"}

Init ==
  /\ at = [j \in Jobs |-> "none"]
  /\ email = {} /\ direct = {}
  /\ wpc = [w \in Workers |-> "idle"]
  /\ wjob = [w \in Workers |-> Nil]
  /\ wtodo = [w \in Workers |-> {}]
  /\ whref = [w \in Workers |-> Nil]
  /\ wnext = [w \in Workers |-> {}]
  /\ fpc = [w \in Workers |-> "top"]
  /\ fjob = [w \in Workers |-> Nil]
  /\ seen = {}
  /\ ex = NewExiter(Cardinality(Seeds))
  /\ cause = "none" /\ writer = "receiving" /\ app = "running"

-----------------------------------------------------------------------------
(* The in-memory provider.  A pushed job waits in a goroutine of its own    *)
(* for a forwarder to receive it, or for cancellation.                      *)

Priority(j) ==
  IF j \in Seeds THEN "low" ELSE IF j \in email THEN "high" ELSE "medium"

\* scrapemateapp.Start's goroutine pushes the seeds one by one.
PushSeed(s) ==
  /\ app # "crashed" /\ at[s] = "none"
  /\ at' = [at EXCEPT ![s] = "pushing"]
  /\ UNCHANGED <<email, direct, workerState, provider, seen, ex, cause, writer, app>>

PushDropped(j) ==
  /\ app # "crashed" /\ Cancelled /\ at[j] = "pushing"
  /\ at' = [at EXCEPT ![j] = "dropped"]
  /\ UNCHANGED <<email, direct, workerState, provider, seen, ex, cause, writer, app>>

\* A receive from one of the channels p0 (high), p1 (medium) and p2 (low).
FwdTakes(w, prios) ==
  \E j \in Jobs :
    /\ at[j] = "pushing" /\ Priority(j) \in prios
    /\ at' = [at EXCEPT ![j] = "fwd"]
    /\ fpc' = [fpc EXCEPT ![w] = "offer"]
    /\ fjob' = [fjob EXCEPT ![w] = j]

FwdMoves(w, pc) ==
  /\ fpc' = [fpc EXCEPT ![w] = pc]
  /\ UNCHANGED <<at, fjob>>

\* The three nested selects.  A pushing goroutine may not have reached its
\* send yet, so a default is possible whatever waits to be pushed.
FwdTop(w) ==
  /\ fpc[w] = "top"
  /\ \/ Cancelled /\ FwdMoves(w, "closed")
     \/ FwdTakes(w, {"high"})
     \/ ~Cancelled /\ FwdMoves(w, "middle")

FwdMiddle(w) ==
  /\ fpc[w] = "middle"
  /\ \/ Cancelled /\ FwdMoves(w, "offer")
     \/ FwdTakes(w, {"high", "medium"})
     \/ ~Cancelled /\ FwdMoves(w, "bottom")

FwdBottom(w) ==
  /\ fpc[w] = "bottom"
  /\ \/ Cancelled /\ FwdMoves(w, "closed")
     \/ FwdTakes(w, {"high", "medium", "low"})

Forward(w) ==
  /\ app # "crashed"
  /\ FwdTop(w) \/ FwdMiddle(w) \/ FwdBottom(w)
  /\ UNCHANGED <<email, direct, workerState, seen, ex, cause, writer, app>>

-----------------------------------------------------------------------------
(* The worker's select: cancellation, the provider's error, a job.          *)

WorkerExits_DropsResult(w) ==
  /\ Running /\ wpc[w] \in {"idle", "send"} /\ Cancelled
  /\ wpc' = [wpc EXCEPT ![w] = "exited"]
  /\ UNCHANGED <<jobState, wjob, wtodo, whref, wnext, provider, seen, ex, cause, writer, app>>

WorkerExits(w) ==
  /\ Running /\ wpc[w] = "idle" /\ Cancelled
  /\ wpc' = [wpc EXCEPT ![w] = "exited"]
  /\ UNCHANGED <<jobState, wjob, wtodo, whref, wnext, provider, seen, ex, cause, writer, app>>

\* The provider's error is ctx.Err(), on which the worker returns unless the
\* context ended by its deadline: then it calls Jobs again.
WorkerRestartsProvider(w) ==
  /\ Running /\ wpc[w] = "idle" /\ fpc[w] = "closed" /\ cause = "deadline"
  /\ fpc' = [fpc EXCEPT ![w] = "top"]
  /\ UNCHANGED <<jobState, workerState, fjob, seen, ex, cause, writer, app>>

WorkerReceives(w) ==
  /\ Running /\ wpc[w] = "idle" /\ fpc[w] = "offer" /\ fjob[w] # Nil
  /\ wpc' = [wpc EXCEPT ![w] = "fetch"]
  /\ wjob' = [wjob EXCEPT ![w] = fjob[w]]
  /\ at' = [at EXCEPT ![fjob[w]] = "run"]
  /\ fpc' = [fpc EXCEPT ![w] = "top"]
  /\ fjob' = [fjob EXCEPT ![w] = Nil]
  /\ UNCHANGED <<email, direct, wtodo, whref, wnext, seen, ex, cause, writer, app>>

\* DoJob calls a method of the job before it defers its recover: the nil job
\* the middle select sends on cancellation ends the process.
WorkerReceivesNil(w) ==
  /\ Running /\ wpc[w] = "idle" /\ fpc[w] = "offer" /\ fjob[w] = Nil
  /\ app' = "crashed"
  /\ UNCHANGED <<jobState, workerState, provider, seen, ex, cause, writer>>

\* The worker is done with its job, which it leaves at the place "where".
BackToIdle(w, where) ==
  /\ wpc' = [wpc EXCEPT ![w] = "idle"]
  /\ wjob' = [wjob EXCEPT ![w] = Nil]
  /\ at' = [at EXCEPT ![wjob[w]] = where]

\* DoJob leaves without a count: it recovers the job's panic, or the html parser
\* fails on a page that was fetched, and Process is not called.
JobBreaks(w) ==
  /\ Running /\ MayBreak /\ wpc[w] = "fetch"
  /\ BackToIdle(w, "broken")
  /\ UNCHANGED <<email, direct, wtodo, whref, wnext, provider, seen, ex, cause, writer, app>>

-----------------------------------------------------------------------------
(* GmapJob.Process                                                          *)

SeedFails(w) ==
  /\ Running /\ wpc[w] = "fetch" /\ wjob[w] \in Seeds
  /\ ex' = IncrSeedCompleted(ex, 1)
  /\ BackToIdle(w, "failed")
  /\ UNCHANGED <<email, direct, wtodo, whref, wnext, provider, seen, cause, writer, app>>

\* A search that Google redirects to its only place bypasses the deduper.
SeedRedirected(w) ==
  /\ Running /\ wpc[w] = "fetch" /\ wjob[w] \in Seeds
  /\ \E p \in Places :
       /\ wnext' = [wnext EXCEPT ![w] = {p}]
       /\ direct' = direct \cup {<<wjob[w], p>>}
  /\ wpc' = [wpc EXCEPT ![w] = "found"]
  /\ UNCHANGED <<at, email, wjob, wtodo, whref, provider, seen, ex, cause, writer, app>>

SeedFetched(w) ==
  /\ Running /\ wpc[w] = "fetch" /\ wjob[w] \in Seeds
  /\ \E links \in SUBSET Places : wtodo' = [wtodo EXCEPT ![w] = links]
  /\ wpc' = [wpc EXCEPT ![w] = "look"]
  /\ UNCHANGED <<jobState, wjob, whref, wnext, provider, seen, ex, cause, writer, app>>

AtLimit(w) == MaxResults > 0 /\ Cardinality(wnext[w]) >= MaxResults

\* hashmap.AddIfNotExists: a look under the read lock ...
DedupLooks(w) ==
  /\ Running /\ wpc[w] = "look" /\ ~AtLimit(w)
  /\ \E p \in wtodo[w] :
       /\ wtodo' = [wtodo EXCEPT ![w] = @ \ {p}]
       /\ IF p \in seen
          THEN UNCHANGED <<wpc, whref>>
          ELSE /\ wpc' = [wpc EXCEPT ![w] = "insert"]
               /\ whref' = [whref EXCEPT ![w] = p]
  /\ UNCHANGED <<jobState, wjob, wnext, provider, seen, ex, cause, writer, app>>

\* ... and a second look under the write lock, which alone admits the link.
Admits_Unchecked(p) == TRUE

Admits(p) == p \notin seen

DedupInserts(w) ==
  /\ Running /\ wpc[w] = "insert"
  /\ IF Admits(whref[w])
     THEN /\ seen' = seen \cup {whref[w]}
          /\ wnext' = [wnext EXCEPT ![w] = @ \cup {whref[w]}]
     ELSE UNCHANGED <<seen, wnext>>
  /\ wpc' = [wpc EXCEPT ![w] = "look"]
  /\ whref' = [whref EXCEPT ![w] = Nil]
  /\ UNCHANGED <<jobState, wjob, wtodo, provider, ex, cause, writer, app>>

SeedParsed(w) ==
  /\ Running /\ wpc[w] = "look" /\ (wtodo[w] = {} \/ AtLimit(w))
  /\ wtodo' = [wtodo EXCEPT ![w] = {}]
  /\ wpc' = [wpc EXCEPT ![w] = "found"]
  /\ UNCHANGED <<jobState, wjob, whref, wnext, provider, seen, ex, cause, writer, app>>

\* The two counters are updated one after the other, found places first.
SeedCountsPlaces(w) ==
  /\ Running /\ wpc[w] = "found"
  /\ ex' = IncrPlacesFound(ex, Cardinality(wnext[w]))
  /\ at' = [j \in Jobs |-> IF j \in {wjob[w]} \X wnext[w] THEN "next" ELSE at[j]]
  /\ wpc' = [wpc EXCEPT ![w] = "counted"]
  /\ UNCHANGED <<email, direct, wjob, wtodo, whref, wnext, provider, seen, cause, writer, app>>

SeedCompletes(w) ==
  /\ Running /\ wpc[w] = "counted"
  /\ ex' = IncrSeedCompleted(ex, 1)
  /\ wpc' = [wpc EXCEPT ![w] = "push"]
  /\ UNCHANGED <<jobState, wjob, wtodo, whref, wnext, provider, seen, cause, writer, app>>

\* finishJob: every next job is pushed; a search has no result of its own.
PushNext(w) ==
  /\ Running /\ wpc[w] = "push"
  /\ \E p \in wnext[w] :
       /\ wnext' = [wnext EXCEPT ![w] = @ \ {p}]
       /\ at' = [at EXCEPT ![<<wjob[w], p>>] = "pushing"]
  /\ UNCHANGED <<email, direct, wpc, wjob, wtodo, whref, provider, seen, ex, cause, writer, app>>

SeedFinishes(w) ==
  /\ Running /\ wpc[w] = "push" /\ wnext[w] = {}
  /\ BackToIdle(w, "done")
  /\ UNCHANGED <<email, direct, wtodo, whref, wnext, provider, seen, ex, cause, writer, app>>

-----------------------------------------------------------------------------
(* PlaceJob.Process and EmailExtractJob.Process                             *)

PlaceFails_Uncounted(w) ==
  /\ Running /\ wpc[w] = "fetch" /\ wjob[w] \in Units \ email
  /\ BackToIdle(w, "failed")
  /\ UNCHANGED <<email, direct, wtodo, whref, wnext, provider, seen, ex, cause, writer, app>>

PlaceFails(w) ==
  /\ Running /\ wpc[w] = "fetch" /\ wjob[w] \in Units \ email
  /\ ex' = IncrPlacesCompleted(ex, 1)
  /\ BackToIdle(w, "failed")
  /\ UNCHANGED <<email, direct, wtodo, whref, wnext, provider, seen, cause, writer, app>>

PlaceBecomesEmail_Counted(w) ==
  /\ Running /\ ExtractEmail /\ wpc[w] = "fetch" /\ wjob[w] \in Units \ email
  /\ ex' = IncrPlacesCompleted(ex, 1)
  /\ email' = email \cup {wjob[w]}
  /\ BackToIdle(w, "pushing")
  /\ UNCHANGED <<direct, wtodo, whref, wnext, provider, seen, cause, writer, app>>

\* The place hands its entry to an e-mail job, which completes it instead.
PlaceBecomesEmail(w) ==
  /\ Running /\ ExtractEmail /\ wpc[w] = "fetch" /\ wjob[w] \in Units \ email
  /\ email' = email \cup {wjob[w]}
  /\ BackToIdle(w, "pushing")
  /\ UNCHANGED <<direct, wtodo, whref, wnext, provider, seen, ex, cause, writer, app>>

\* A place without a website, or an e-mail job whatever its fetch returned.
UnitCompletes(w) ==
  /\ Running /\ wpc[w] = "fetch" /\ wjob[w] \in Units
  /\ ex' = IncrPlacesCompleted(ex, 1)
  /\ at' = [at EXCEPT ![wjob[w]] = "send"]
  /\ wpc' = [wpc EXCEPT ![w] = "send"]
  /\ UNCHANGED <<email, direct, wjob, wtodo, whref, wnext, provider, seen, cause, writer, app>>

\* The send on the unbuffered results channel has no alternative: it waits
\* for the writer even when the context is cancelled.
WriterReceives(w) ==
  /\ Running /\ wpc[w] = "send" /\ writer = "receiving"
  /\ BackToIdle(w, "written")
  /\ UNCHANGED <<email, direct, wtodo, whref, wnext, provider, seen, ex, cause, writer, app>>

\* The writer returns an error, and the application cancels the context.
WriterFails(w) ==
  /\ Running /\ WriterMayFail /\ wpc[w] = "send" /\ writer = "receiving"
  /\ writer' = "failed"
  /\ cause' = IF Cancelled THEN cause ELSE "writer"
  /\ BackToIdle(w, "lost")
  /\ UNCHANGED <<email, direct, wtodo, whref, wnext, provider, seen, ex, app>>

-----------------------------------------------------------------------------
(* The application and what ends it                                         *)

Cancel(why) ==
  /\ app # "crashed" /\ ~Cancelled
  /\ cause' = why
  /\ UNCHANGED <<jobState, workerState, provider, seen, ex, writer, app>>

ExiterRuns == ex.doneCh /\ Cancel("exiter")

OutsideCancels == \E why \in Cancels : Cancel(why)

InactivityExits_WhenCounted ==
  ExitOnInactivity /\ ex.seedCompleted = ex.seedCount /\ Cancel("inactivity")

\* The ticker finds that no job ended lately, which may be while one runs.
InactivityExits == ExitOnInactivity /\ Cancel("inactivity")

\* mate.Start returns and closes the results, the writer's loop ends, and the
\* application returns.
MateReturns ==
  /\ Running /\ Cancelled /\ \A w \in Workers : wpc[w] = "exited"
  /\ app' = "closed"
  /\ UNCHANGED <<jobState, workerState, provider, seen, ex, cause, writer>>

WriterReturns ==
  /\ app = "closed" /\ writer = "receiving"
  /\ writer' = "returned"
  /\ UNCHANGED <<jobState, workerState, provider, seen, ex, cause, app>>

AppReturns ==
  /\ app = "closed" /\ writer # "receiving" /\ \A s \in Seeds : at[s] # "none"
  /\ app' = "returned"
  /\ UNCHANGED <<jobState, workerState, provider, seen, ex, cause, writer>>

Finished == app \in {"returned", "crashed"}
Terminated == Finished /\ UNCHANGED vars

WorkerStep(w) ==
  \/ WorkerExits(w) \/ WorkerReceives(w) \/ WorkerReceivesNil(w)
  \/ SeedFails(w) \/ SeedRedirected(w) \/ SeedFetched(w)
  \/ DedupLooks(w) \/ DedupInserts(w) \/ SeedParsed(w)
  \/ SeedCountsPlaces(w) \/ SeedCompletes(w) \/ PushNext(w) \/ SeedFinishes(w)
  \/ PlaceFails(w) \/ PlaceBecomesEmail(w) \/ UnitCompletes(w)
  \/ WriterReceives(w)

Next ==
  \/ \E s \in Seeds : PushSeed(s)
  \/ \E j \in Jobs : PushDropped(j)
  \/ \E w \in Workers :
       \/ Forward(w) \/ WorkerStep(w) \/ WorkerRestartsProvider(w)
       \/ JobBreaks(w) \/ WriterFails(w)
  \/ ExiterRuns \/ OutsideCancels \/ InactivityExits
  \/ MateReturns \/ WriterReturns \/ AppReturns
  \/ Terminated

Spec == Init /\ [][Next]_vars

(* Fairness: the Go scheduler runs every goroutine that can run.  Nothing   *)
(* obliges a writer to fail, a job to break or the user to interrupt; the   *)
(* inactivity ticker must fire only once nothing is left to do.             *)
Quiet ==
  /\ \A w \in Workers : wpc[w] \in {"idle", "exited"} /\ fjob[w] = Nil
  /\ \A j \in Jobs : at[j] \notin {"none", "pushing"} \/ j \in Units

Fairness ==
  /\ \A s \in Seeds : WF_vars(PushSeed(s))
  /\ \A w \in Workers : WF_vars(Forward(w)) /\ WF_vars(WorkerStep(w))
  /\ WF_vars(ExiterRuns)
  /\ WF_vars(Quiet /\ InactivityExits)
  /\ WF_vars(MateReturns) /\ WF_vars(WriterReturns) /\ WF_vars(AppReturns)

FairSpec == Spec /\ Fairness

-----------------------------------------------------------------------------
(* Properties                                                               *)

TypeOK ==
  /\ at \in [Jobs -> JobPlaces]
  /\ email \subseteq Units /\ direct \subseteq Units
  /\ wpc \in [Workers -> {"idle", "fetch", "look", "insert", "found",
                          "counted", "push", "send", "exited"}]
  /\ wjob \in [Workers -> Jobs \cup {Nil}]
  /\ wtodo \in [Workers -> SUBSET Places]
  /\ whref \in [Workers -> Places \cup {Nil}]
  /\ wnext \in [Workers -> SUBSET Places]
  /\ fpc \in [Workers -> {"top", "middle", "bottom", "offer", "closed"}]
  /\ fjob \in [Workers -> Jobs \cup {Nil}]
  /\ seen \subseteq Places
  /\ ex \in ExiterState
  /\ cause \in {"none", "exiter", "inactivity", "writer"} \cup Cancels
  /\ writer \in {"receiving", "failed", "returned"}
  /\ app \in {"running", "closed", "returned", "crashed"}

\* The exit monitor ends a scrape only when every search was processed and
\* every place found was processed too: no job is still on its way to a
\* worker, whatever order the workers update the four counters in, and none
\* ended uncounted.
Ended(u) == at[u] \in {"none", "send", "written", "lost", "failed"}

ExitOnlyWhenAccounted ==
  cause = "exiter" =>
    /\ \A s \in Seeds : at[s] \notin {"none", "pushing", "fwd", "broken"}
    /\ \A u \in Units : Ended(u)

\* A scrape that its exit monitor ended and that returned has written the
\* result of every place found whose job did not fail: a result computed
\* before the cancellation is not given up by the shutdown.
CompleteRunWroteAll ==
  app = "returned" /\ cause = "exiter" =>
    \A u \in Units : at[u] \in {"none", "written", "failed"}

\* Two searches, processed by two workers at once, never both scrape a link of
\* their result lists: the deduper admits it to one of them.
Found(u) == at[u] # "none"

NoPlaceTwice ==
  \A p \in Places : \A s, t \in Seeds :
    /\ s # t
    /\ Found(<<s, p>>) /\ Found(<<t, p>>)
    => {<<s, p>>, <<t, p>>} \cap direct # {}

\* The application returns: every job that ends in a Process method is counted
\* there, so the exit monitor ends the scrape.  Two things leave a scrape waiting
\* for a signal: a job that ended uncounted, unless the engine ends on inactivity,
\* and a writer that returned an error, which leaves the workers' sends without a
\* receiver.
Uncounted == \E j \in Jobs : at[j] = "broken"

Termination ==
  <>(Finished \/ writer = "failed" \/ (Uncounted /\ ~ExitOnInactivity))

\* The test "exits when context is cancelled" (scrapemate_test.go) has Start
\* return the cause: no cancellation makes a worker panic outside the recovery
\* of DoJob, which would end the process.
NeverCrashes == app # "crashed"

-----------------------------------------------------------------------------
(* The abstract view of a scrape.                                           *)

explored ==
  {s \in Seeds : \/ at[s] \in {"done", "failed"}
                 \/ \E w \in Workers : wjob[w] = s /\ wpc[w] \in {"counted", "push"}}

status ==
  CASE app = "returned" /\ cause = "exiter" -> "complete"
    [] Finished /\ ~(app = "returned" /\ cause = "exiter") -> "aborted"
    [] OTHER -> "running"

AbstractScrape ==
  INSTANCE Scrape WITH
    found <- {u \in Units : Found(u)},
    delivered <- {u \in Units : at[u] = "written"},
    given_up <- {u \in Units : at[u] \in {"failed", "lost"}}

ImplementsScrape == AbstractScrape!Spec
=============================================================================
