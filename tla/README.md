# A TLA+ model of the Google Maps scraper

This directory holds TLA+ specifications of the scraper under
`gosom-google-maps-scraper/`, the TLC configurations that check them on small
instances, and proofs checked by TLAPS.  Paths below are relative to
`gosom-google-maps-scraper/`, but for the lead pipeline, which is beside it.

## 1. Inventory

| part | state | operations | what is hard |
|---|---|---|---|
| exit monitor (`exiter/`) | four counters, a channel of one token | three increments, `Run` | several goroutines update the counters in no agreed order |
| engine (`third_party/scrapemate/scrapemate.go`, `scrapemateapp/`) | worker goroutines, results channel, context, last activity | `Start`, worker loop, `DoJob`, `doFetch`, `finishJob`, inactivity ticker | cancellation racing jobs, panics, a writer that fails |
| in-memory provider (`adapters/providers/memory`) | three channels, one goroutine per push, one forwarder per worker | `Jobs`, `Push` | nested selects against cancellation |
| deduper (`deduper/`) | a map under an RW mutex | `AddIfNotExists` | lock released between the two looks |
| jobs (`gmaps/job.go`, `place.go`, `emailjob.go`) | a search makes places, a place may make an e-mail job | `Process` of each | every path must report to the exit monitor |
| file runner and resume (`runner/filerunner`, `runner/resume`, `runner/jobs.go`) | results file, sidecar, identity sets, progress tracker | sessions, append writers, marking | crashes at any step, power loss, shared ids, torn records |
| browser fetcher (`adapters/fetchers/jshttp`) | a channel of slots, a browser per slot, page leases | take, launch, replace, give back, close | a slot must come back from every way a fetch can end |
| web runner (`runner/webrunner`, `web/`) | SQLite job table, one CSV file per job | HTTP handlers, work loop | a job deleted, or the process killed, while the loop holds the job |
| database runner (`runner/databaserunner`, `postgres/provider.go`, `postgres/resultwriter.go`) | job table with statuses, prefetch channel, result buffer, per process | produce, claim in batches, push, save in batches | several processes; a crash between claim and work; buffered results |
| SaaS worker (`scraper/`, `rqueue/`, `cmd/gmapssaas/cmdworker`) | queue of jobs, shared engine, central writer | submit, flush, restart, work, retry | timeouts, restarts and retries racing each other |
| SaaS machines (`rqueue/worker_jobs.go`, `admin/handlers_workers.go`, `infra/`) | table `provisioned_resources`, machines at a provider, River jobs | ask for, provision, check, delete | row and machine change in separate steps, each of which may fail |
| SaaS job requests (`rqueue/rqueue.go`, `rqueue/jobs.go`, `api/`, `admin/handlers_jobs.go`) | River's job rows, result rows | insert, list, answer, delete one, some or all, clean up | two tables and no foreign key; a paged deletion while jobs move |
| admin account (`admin/`, `ratelimit/`) | user row, sessions, rate-limit window, API keys | sign in with a second factor, set it up, change the password | several statements per request and several tabs |
| provisioning wizard and update (`cmd/gmapssaas/cmdprovision`, `cmdupdate`, `infra/vps`, `infra/digitalocean/appplatform.go`) | a state file; servers, databases, settings | a dozen steps, each with an effect on the world and a save | a run may stop between the two, and another resumes |
| lead pipeline (`lead_pipeline.py`, `.github/workflows/scrape-leads.yml`) | progress file on a branch, CSV file of a run | trigger, check out, scrape, filter, upload, push | runs that wait keep the checkout of their trigger; a step may fail between upload and push |
| results file (`runner/resume/results.go`, `writer.go`) | CSV or JSON-lines records | load, repair, append | a record cut short, and what is appended behind it |
| parsing, crypto, grid, telemetry, sinks | none that a behaviour depends on | | see section 8 |

The parts meet as follows.  A runner reads the input, makes one search job per
line and starts the engine with a writer, a deduper and an exit monitor.  The
engine's workers take jobs from a provider, fetch them, call `Process`, push
the jobs that returns to the provider and send results to the writer.  The exit
monitor cancels the run when its counters agree.  In a resumed file run the
tracker watches searches and written results and moves completed inputs to a
sidecar file, which later sessions read.  In the SaaS edition a server queues
jobs in the database (River); worker processes, on machines that the
provisioning jobs create, fetch them one at a time, submit their search to a
shared engine, and the central writer saves each job's results as one row.

What makes each part correct:

| part | properties |
|---|---|
| engine, provider, deduper, exit monitor | a scrape ends exactly when all its work is accounted for; no result computed before the end is lost; no link is scraped twice; it ends, unless a job broke uncounted or the writer failed; no cancellation crashes it |
| resume | a query in the sidecar has lost nothing; nothing is appended twice; an undisturbed session completes |
| results file | every file a crash leaves can be resumed; a repair removes no whole record |
| SaaS worker | results stay with their job; "done" means collected; a completed job has a row; every job ends; restarts end |
| SaaS machines | no machine is lost: one that no live row knows has a provision job at work, or one that met a fault, or its row was marked for deletion by a request that its activation overtook; but for these the machine of a deleted row is destroyed in the end |
| job requests | a delete-all that reports success forgot no job; results outlive their job only in explained ways; "completed" comes with results, unless the query for them failed |
| admin account | a backup code signs in once; guesses per window are bounded |
| wizard | what a completed wizard printed works; a wizard that is run again and again completes, unless a run stopped with something done that no file says |
| browser pool | slots are conserved; fetches end, but for sessions behind a wedged driver; after close no browser of a slot runs, unless a wedged driver could not be stopped |
| web runner | a job is scraped once; "ok" means a whole file; every job ends but for faults |
| database runner | a row is worked on once; a quiet exit loses no result; every row is claimed |
| lead pipeline | no market is passed over before its leads are uploaded; each qualified number is a lead once; every market has its turn |

## 2. Modules

| module | models | state |
|---|---|---|
| `Exiter` | `exiter/exiter.go` | operators on the monitor's record |
| `Scrapemate` | one scrape: engine, provider, deduper, exit monitor, application | where each job is, what each worker and forwarder does, cancellation cause |
| `ScrapemateProofs` | theorems about `Scrapemate` | |
| `Scrape` | what a scrape promises, without workers or channels | explored searches; found, delivered and given up units; status |
| `Resume` | sessions of the file runner over the results file and its sidecar | rows and completed ids on disk; tracker, identity sets and writer in memory |
| `ResumeProofs` | theorems about `Resume` | |
| `ResultFile` | the records of the results file, torn, loaded, repaired and appended to | the file as a sequence of records; the session's identities |
| `SaasWorker` | a SaaS worker process: River work, central writer, provider, engine, manager | queue and rows in the database; tracked job, flushes, monitors, engine and manager in the process |
| `SaasWorkerProofs` | theorems about `SaasWorker` | |
| `Provisioning` | the machines of the SaaS deployment: requests, provision, delete and health-check jobs | table rows, machines, the three kinds of jobs |
| `ProvisioningProofs` | theorems about `Provisioning` | |
| `JobStore` | the server's side of scrape jobs: status, lists, deletions, clean-up | job rows, result rows, requests under way, removal jobs |
| `JobStoreProofs` | theorems about `JobStore` | |
| `AdminAuth` | the account of the admin site, used from several tabs | user row, sessions, the limiter's window, codes spent |
| `Wizard` | the `provision` and `update` commands | state file, the run's copy of it, servers, databases, settings, deployments |
| `LeadPipeline` | the scheduled workflow and the script it runs | the branch's progress file, the run that waits, the run at work and its files |
| `LeadPipelineProofs` | theorems about `LeadPipeline` | |
| `WebRunner` | the local web edition | job table, files, the work loop, delete requests |
| `DatabaseRunner` | several processes that scrape over one PostgreSQL table | job rows, where each claimed job is, per-process contexts, fetch goroutine and writer |
| `BrowserPool` | the slots and browsers of the JavaScript fetcher | the channel, the slots, the fetches |
| `ServerMC`, `RunnersMC` | compositions of independent parts, see below | one variable that says which part runs |
| `ServerProofs` | theorems about `AdminAuth`, `Wizard` and `ServerMC` | |
| `RunnersProofs` | theorems about `WebRunner`, `DatabaseRunner`, `BrowserPool`, `ResultFile` and `RunnersMC` | |
| the other `*MC` | the instances TLC checks | |

`Scrapemate` and `SaasWorker` extend `Exiter`: both run its operations on a
monitor of their own, one per scrape or one per attempt.  `Scrapemate`
instantiates `Scrape` under a refinement mapping.  `Resume` and `ResultFile`
split the file runner: `Resume` counts whole rows and crashes between steps,
`ResultFile` looks inside one write.  The fast-mode search
(`gmaps/searchjob.go`) is in `SaasWorker`, the browser search (`gmaps/job.go`)
in `Scrapemate`.

### Scrapemate

`at[j]` says where job `j` is: waiting in a push goroutine (`"pushing"`), held
by a forwarder (`"fwd"`), at a worker (`"run"`, `"send"`), or ended
(`"written"`, `"lost"`, `"done"`, `"failed"`, `"broken"`, `"dropped"`).  A unit `<<s, p>>`
keeps its place in `at` from its place job to its e-mail job: it is one entry
on its way to the writer.  `wpc`, `wjob`, `wtodo`, `whref` and `wnext` are a
worker goroutine's program counter and locals; `fpc` and `fjob` those of the
forwarder that `memoryProvider.Jobs` starts for it.

| actions | code |
|---|---|
| `PushSeed`, `PushDropped`, `Forward` (`FwdTop`, `FwdMiddle`, `FwdBottom`) | `memory.go`: `Push`'s goroutine and the three nested selects of `Jobs` |
| `WorkerExits`, `WorkerRestartsProvider`, `WorkerReceives`, `WorkerReceivesNil`, `JobBreaks` | `scrapemate.go`: `startWorker`'s select, `DoJob` |
| `SeedFails`, `SeedRedirected`, `SeedFetched`, `DedupLooks`, `DedupInserts`, `SeedParsed`, `SeedCountsPlaces`, `SeedCompletes` | `gmaps/job.go`: `Process`, with the deduper's two lock phases and the two counter updates as steps of their own |
| `PushNext`, `SeedFinishes`, `WriterReceives`, `WriterFails` | `finishJob`, `pushJobs`, the writer goroutine |
| `PlaceFails`, `PlaceBecomesEmail`, `UnitCompletes` | `gmaps/place.go`, `gmaps/emailjob.go`: `Process` |
| `ExiterRuns`, `OutsideCancels`, `InactivityExits`, `MateReturns`, `WriterReturns`, `AppReturns` | `exiter.Run`, signals and deadlines, the ticker, `Start` of engine and application |

### Resume

`rows`, `synced` and `completed` are on disk and survive `Stop` and
`LosePower`; the rest is the session's memory, which `Memory` resets.  A line's
search goes through `SearchProcessed` (the deduper's choice and
`SeedDiscovered` in one step, the tracker's mutex being held), its units
through `UnitScraped` and the writer.  The writer's
result is cut where the code can be killed: the row (`WriterWrites`), the
tracker's count (`WriterAcknowledges`), the sync (`WriterSyncs`) and the
sidecar's replacement (`WriterMarks`).  A session without `-resume` removes the
sidecar and then truncates the results (`RemoveState`, `TruncateResults`).
`relied` is a history variable: the rows that were not on disk for certain when
`SeedDiscovered`, which does not sync, marked a query that relies on them.
`CompletedIsWritten` excuses a power failure for these rows alone.

### ResultFile

A record is a place or the header together with how it was cut short.  `Resume`
is what `initResume` does to the file: load it; when that fails and the last
byte is no newline, truncate it at the last newline and load it again; refuse
to start otherwise.  `Tear` ends a session in the middle of a write.

### SaasWorker

`state`, `tries` and `saved` are the database and survive `Crash`.  `work.pc`
follows `ScrapeWorker.Work`; `why` remembers which of its timers or contexts
made it give up.  An attempt `<<j, n>>` is the n-th run of job `j`: the exit
monitor, the flush and the completion channel are per attempt, but the central
writer and its flush know only the job's id, and that difference is
modelled.  `saving[a]` is a flush between the moment it took the entries under
the lock and its upsert and reply (`Save`).  The provider's channels are one
bounded queue with one reader, the forwarder, which is folded into the engine's
worker (`EngineTakes`).  `mgr` is `runCycle`: `CycleStarts` replaces provider,
writer and engine; `RestartTriggered` cancels the cycle's context, upon which
the writer and the idle engine worker return, and the next cycle starts once
both have.

### Provisioning

`rows[r]` is a row of `provisioned_resources`: its status, whether
`resource_id` is the cloud's id yet (`known`), whether the address is set and
whether it was deleted softly (`gone`).  `vm[r]` is what the provider has.
`prov[r]` is the worker_provision job of the row, `del[d]` an administrator's
delete request with the row as its handler read it, which later becomes a
worker_delete job, and `check[c]` a run of the periodic health check.  `hurt` is
history: workers whose provision job met a crash, a timeout or a failed call.
So is `stale`: the delete request read the row before the cloud's id was saved and
marked it after the provision job had made it active and ended (`Overtaken`).

| actions | code |
|---|---|
| `CreatesRow`, `QueuesProvision` | `ProvisionWorkerHandler`: row, then job |
| `ProvisionStarts` ... `FailsRow` | `WorkerProvisionWorker.Work`, one action per cloud call or statement |
| `DeleteReads`, `DeleteMarks`, `DeleteQueues` | `DeleteWorkerHandler` |
| `DeleteStarts`, `GracefulStop`, `Destroys`, `SoftDeletes`, `DeleteFails` | `WorkerDeleteWorker.Work` |
| `CheckStarts`, `Probes`, `Heals`, `CheckEnds` | `WorkerHealthCheckWorker.Work` |
| `Boots`, `ServerCrash`, `ProvisionRescue`, `DeleteRescue` | cloud-init; the process; River's rescuer |

### JobStore

A job has a row in `river_job` (`job`, `runs`, `cancelled`) and, after a flush,
one in `scrape_results` (`saved`).  The worker process appears by what it does
to the two tables only (`Works`, `SavesResults`, `AttemptEnds`); `SaasWorker` is
its model.  `request["some"]` is a deletion of one or of ticked jobs,
`request["all"]` the loop of `queueDeleteAllFiltered`, page by page with a
cursor; both call `Client.DeleteJob` for each id (`GetsJob`, `CancelsJob`,
`InsertsRemoval`).  `removal` are the `job_delete` jobs (`RemoveResults`, then
`RemoveRow`).  `ReadsJob` and `ReadsResults` are the two reads behind an answer.
`listed` and `late` are history: what matched the filter all along, and whose
results were saved after the removal began.

### AdminAuth

One account, several tabs, each in one request at a time; a request is a
sequence of statements (`SubmitsCode`, `LocksCodes`, `RemovesCode`,
`SecondFactorDone`; `VerifyPassword`, `VerifyTotp`, `ConfirmReads`,
`SetBackupCodes`, `EnableTOTP`), and only `ValidateBackupCode` is a transaction,
which holds the user's row (`rowLock`).  `spent` and `guesses` are history.

### Wizard

`file` is `provision-state.json`, `mem` the run's copy of it, `step` and `dirty`
where the run is and whether it is about to save.  Whatever acts on the world
changes `cloud`, `local`, `users`, `config` or `app`, which no stopping run
takes back.  A secret is named by the number of the run that generated it, so
that two secrets can be told apart.  `cloud` is what was bought, each under a
fixed name, so there is one of it: the SSH key, which `RegistersKey` registers
or, where the name is taken, reuses whatever key it is (`EnsureSSHKey`,
`infra/hetzner/hetzner.go:43`), the Hetzner server (`provision.go:891`) and the
managed database (`appplatform.go:61`).  `lost` is history: what a run had done
when it stopped, or when its file was thrown away, that no state file says.  `StopsRun` may happen at any point,
`SaveStateKilled` in the middle of a save (`os.WriteFile` writes in place);
`StartsRun` resumes, or starts over.  `Update` deploys again from the file.

### LeadPipeline

`branch` is `scrape_progress.json` at the branch's head, `queued` the one run
that waits in the workflow's concurrency group, `scrape` the one at work: its
step, the index in its checkout, the market it took from it, the rows still to
read, its leads and its CSV file.  `fresh` says whether a checkout is still the
head: `OthersPush`, or the push of the run before, makes it stale, and a stale
run cannot push.  The script's `--test` mode takes the same steps with fewer
rows, the next index included.  A progress file is an index, `Unreadable`,
which is read as the first index, or `Raising`, on which `Starts` fails.
`qualified`, `delivered` and `passed` are history.

| actions | code |
|---|---|
| `Triggers`, `Starts`, `OthersPush` | the schedule or a dispatch with the concurrency group, the checkout, a commit of somebody else |
| `Scrapes`, `DropsRow`, `KeepsRow`, `ProcessedRows`, `WritesCSV`, `WritesProgress`, `WritesOutputs`, `ScriptFails` | `run_once`: the scraper, `process_results` row by row, the CSV file, the progress file, the outputs and exit status |
| `Uploads`, `UploadFails` | the workflow's upload, which runs always |
| `Pushes`, `PushRejected`, `PushFails` | its commit, which runs on success |

### WebRunner, DatabaseRunner, BrowserPool

`WebRunner`: `loop` follows `work` and `scrapeJob`, `erase[d]` a delete request
through `Service.Delete` (stat, remove the file, delete the row); `Signal`,
`Exits` and `Restarts` may come at any step.

`DatabaseRunner`: `status` is the row's, `mem[j]` where the process that claimed
job `j` has it: read by the query, in the provider's channel, at a worker, at
the writer, in its buffer.  `proc[p]` has the process's contexts, its
`fetchJobs` goroutine and its writer.  There is no deduper and no exit monitor
in this mode: a process ends idle, by a signal, or by its writer's error.

`BrowserPool`: with one page per browser a fetch holds the slot
(`session_slot.go`), with more it holds a lease (`page_slot_pool.go`); `limit`
chooses.  `free[s]` counts the slot in the channel, `fetch[w].has` what a fetch
holds.  `Breaks` takes a context or browser at any moment.  `pw` is Playwright
itself: a browser that crashes may wedge its driver, whose closes then fail
(`Closes`) or block (`CloseHangs`, a fetch that is `"hung"`), and `stray` says that
a browser may run which no slot knows: one that `newBrowser` launched and then
left, because it got no context in it, or one that a wedged driver did not close
before it was replaced.  `pw.Stop` takes all browsers along, or fails.

### The compositions

The three runners and the pool below them, the server's areas, the wizard and
the lead pipeline share no state within one process, or are never in one
process.  `RunnersMC` and
`ServerMC` therefore check them side by side: an added variable chooses one part
in the initial state, and each action belongs to that part.  This saves runs,
not states.  Two parts are cut into slices whose product would be too large
(several jobs under a delete-all, one job under everything; two web jobs without
deletes, one with; two database processes over one place, one over two); each
slice leaves out only what its comment says.

## 3. Runs

| run | question | answer |
|---|---|---|
| `Scrapemate_safety` | do the counters, the deduper, a limit, jobs that break, inactivity and a signal, interleaved by two workers, ever end a scrape early, lose a result or scrape a link twice? | no |
| `Scrapemate_refine` | is every step of the engine a step of `Scrape` or none, and does the exit monitor alone end every scrape in which the writer works and no job breaks uncounted? | yes |
| `Scrapemate_nil` | does every cancellation make `Start` return its cause? | no, see section 7 |
| `Resume_crash` | can a crash, a power failure, an I/O error or a run without `-resume` leave the sidecar claiming a query with a lost place? can a resumed session append what the file has, and does one that is left alone complete? | no, no and yes |
| `Resume_sharedid` | does the first hold when two lines have one custom id? | no, see section 7 |
| `ResultFile_refused` | can a CSV file always be resumed? | no, see section 7 |
| `SaasWorker_jobs` | do results stay with their job, is "done" never early, is no tracked job dropped, while the engine works on units of jobs that were given up? | yes |
| `SaasWorker_retry` | over two attempts, timeouts, failed saves, restarts and crashes: has a completed job a row, and does every job end? | yes |
| `SaasWorker_restart` | does a restart of the engine end? | no, see section 7 |
| `Server_requests` | a machine under two delete requests and a health check; two jobs under a delete-all, one job under every request; an account in two tabs; an installation of three runs; the lead pipeline: is anything lost, left over, forgotten, passed over, spent twice or broken, but for the faults that explain it? is the deleted machine destroyed, the installation completed, every market passed? | no; yes |
| `Server_heal` | does the health check take up a machine whose SSH answered too late, as the comment says? | no, see section 7 |
| `Runners_parts` | the web runner, the database runner, the browser pool and the results file, each with crashes, signals and failures at every step: is a job or row done twice, a result lost by a quiet exit, a slot or browser leaked, a JSON file refused; does every job, row and fetch end? | no, where Playwright's driver works or can be stopped; yes, but for what a fault stopped |

Together the passing runs take every disjunct of the next-state relations.  The
type invariants of `Scrapemate`, `Resume` and `SaasWorker` are proved and need no
run of their own.

### Bounds, and why they are enough

* Two workers, two searches, two places: the races are between two searches
  that share a place and between a search and a place job, and each has both
  orders here.  `MaxResults = 1` is below the number of places, so that the
  limit cuts a page.  The liveness and refinement run has one place, which two
  searches may both show, and two searches, so that work on one outlives the
  other.
* Three queries with overlapping results in `Resume`: one shares a place with
  each of its neighbours and one finds a single place (which may be reached by
  redirect).  The number of sessions is unbounded: the disk's state is finite
  because a resumed session never adds a second row, and a fresh one starts
  from an empty file.
* Two jobs, one in fast mode, and two places in `SaasWorker_jobs`: the engine
  may hold a place of a job that was given up while another is tracked.  A
  `Capacity` of 2 makes the provider's channels full.  `MaxJobs = 1` restarts
  after every job, the most often it can.  `SaasWorker_retry` has two attempts
  of one job with e-mail extraction, for the late flush and the late monitor of
  the first attempt.  The code's values (three attempts, channels for 64
  jobs per engine worker and twice that behind them) only repeat the same
  situations, between an attempt and its successor, or make them rarer.
* One machine suffices in `Server_requests`, since machines meet only in the
  queue's slots; two of those are fewer than the jobs that want one (a
  provision, two deletions, a check).  Two delete requests can overlap, and
  `DeleteAttempts = 2` has a retry and its end.
* `PageSize = 1` with two jobs makes the delete-all loop turn pages, and
  `MaxPages = 3` is one page more than it needs; `RemoveAttempts = 2` has a retry.
* Two tabs, backup codes of two, `MaxGuesses = 2`: two sign-ins with one code,
  and a window that is exhausted.  `MaxSetups`, `MaxUses` and `MaxKeys` only
  cap counters.
* `MaxRuns = 3` in `Wizard`: a run that leaves something behind, one that
  resumes it and leaves more, and the last, which meets no fault.
* Two markets in `LeadPipeline` wrap the index around; two phone numbers in up
  to three rows let one number come twice, qualified or not; one failing step
  and one commit by somebody else may hit each step of a run and of the one
  that waits behind it.
* In `Runners_parts` two web jobs may be created in one second; two database
  processes claim from one table, with batches and a buffer of two; two fetchers
  want one browser, with one page and with two.  `MaxRecords = 5` in
  `ResultFile` is the header, two places and two torn records, so two crashes
  and what is glued to them.
* Symmetry is used in `Scrapemate_safety` (workers, searches, places) and
  `SaasWorker_jobs` (places): the modules use these constants only through
  equality, membership and cardinality, and neither run has a temporal
  property.

`CHECK_DEADLOCK FALSE` is set where the system may stop.  In `Scrapemate_refine`
the workers' sends have no receiver after a writer's error.  In
`Server_requests`, `Server_heal` and `Runners_parts` a behaviour ends when its
requests are answered and its jobs done, the wizard's runs are used up, or the
browser pool is closed.

## 4. Fairness

* `Scrapemate`: the Go scheduler runs each goroutine that can run, so each
  worker, forwarder and the application's own steps are weakly fair.  Pushing
  goroutines are served by forwarders.  The inactivity ticker need fire only
  when nothing is left to do.  Failing, breaking and signals are never
  required.  A fetch ends, since it has a timeout.
* `Resume`: a session that is up runs its searches, its units and its writer;
  after it ended the user starts another.  `ResumeCompletes` is about
  executions that end in one uninterrupted session without failed jobs.
* `SaasWorker`: River's completer, retry promoter, rescuer and fetch loop are
  periodic; each goroutine runs; timers fire and the save of a flush has a
  timeout of its own; a process that was told to stop exits, or is killed by
  its supervisor, and is started again.  Work's steps are fair as one
  group: `Work` is a single goroutine and must leave whatever state it is in,
  by an answer or by its timer.  No crash, panic or failure is required.
  `EveryJobEnds` holds although a restart may hang: a job that finds no engine
  times out.
* `Provisioning`: steps of running jobs are fair, machines boot, the rescuer
  runs.  `SF` on `ProvisionStarts` and `DeleteStarts` is the queue's order: a
  slot is free again and again, because no job holds one for good.  Nothing
  fails of necessity, but failures may repeat as the attempts allow.
* `Wizard`: the user runs it again after each run that stopped; the last run
  meets no fault of its own making (`FaultAllowed`), so `WizardCompletes` says
  that nothing the earlier ones left stands in its way, but `Stuck`.
* `LeadPipeline`: the schedule goes on, GitHub starts the run that waits, and a
  run goes on until it ends; nobody mends a progress file whose reading raises.  Commits of others and failures are never required,
  and only `MaxFaults` steps fail: a market whose runs fail for ever is not
  passed.
* `WebRunner`: the ticker ticks, a process that was told to stop exits and one
  that is down is started again.  `SF` on `Picks` and on a successful
  `MarksWorking`: a statement on a local SQLite file does not fail for ever.
* `DatabaseRunner`: as above, and a process whose `fetchJobs` goroutine has
  ended goes idle.  That needs `-exit-on-inactivity`, which is off by default:
  without it such a process waits for ever, and if it is the only one no row is
  claimed any more.  `EveryRowClaimed` is about deployments that set it.
* `BrowserPool`: goroutines run, the timeout of a job fires, and Go hands a
  channel's items to the waiting in the order they came (`SF` on `Takes`).  Calls of
  Playwright other than a close return, with an error if need be.  A close may
  block for ever once the driver is wedged, as the comment at `jshttp.go:16` says:
  only the page of a lease is closed in a bounded time, so a session's fetch may
  hang, and `FetchEnds` says of leases without exception that they end.

In the compositions each fairness condition is asked of its own part only, by a
guard on the added variable.

## 5. Proofs

`tlapm` checks every leaf; nothing is assumed but the constants' assumptions
named below.

**`ScrapemateProofs`** assumes `Scrapemate`'s assumptions: searches and units are
different things and finitely many, `Nil` is no job, and nobody outside cancels
with the monitor's cause.  The set of workers may be infinite.  `WorkInv` says
who has which job: the job a worker or forwarder holds is where its state says
(`AtWork`), no two hold the same (`OneEach`), and a search's units appear when
it counts its places and wait until it pushes them (`Listed`).  On it stand

* `Claims`, for `OnePlaceOneSearch`: a place that a search has from its result
  list, as a link to push or as a unit, is in the deduper's map, and no other
  search has it.  Only `DedupInserts` makes a claim, and it looks again;
* `Counts`, for `ExitIsDue`: the counter of found places is the number of units
  there are, while the two completed counters are at most the numbers of
  searches and units that ended, as a job that breaks is not counted.  So when both
  comparisons of `AllDone` hold, the finite sets are equal; and since a search
  that still can count places is not done, they stay so until the monitor's
  goroutine runs;
* `Sent`: a computed result is at a worker that waits to send it, such a worker
  does not exit, and `Start` returns after the last worker, on a cancelled
  context.  With it follow `NoResultGivenUp`, which assumes a writer without
  errors, and the refinement.

`EngineImplementsScrape` takes each step to `Explore`, `Deliver`, `GiveUp`,
`Complete`, `Abort` or a stutter.  Most steps leave what the abstract scrape sees
alone (`Stays`); a search is explored in the step that counts its places or
fails it, so the later count of the search itself stutters; and `AppReturns` is
`Complete` because `Counts` and `Sent` together leave nothing outstanding.

**`ResumeProofs`.**
`Typing` needs the constants' types only.

`SidecarIsRight` assumes that lines have distinct ids and that there is no limit
per query; both are needed (section 6, section 7).  Processes may be killed,
machines may lose power and every write may fail.
`CompletedIsWritten` speaks of the rows of the file, and is not inductive:
whether a power failure keeps it depends on what was synced, and whether the
next `WriterMarks` does on what the session remembers.  `IInv` has
`CompletedIsDurable` in its place, which asks for a synced row (or a relied
one), with `synced = InFile` while the writer is about to mark.  It adds, for a
resumed session,

* `Accounted`: the tracker's two counters are the sizes of the sets of units
  that were found and acknowledged, so that the comparison of numbers in
  `maybeMarkLocked` says something about sets;
* `Claimed`: a place left out of a processed line's units is known to the
  deduper, and each place the deduper knows is in the file or is a unit of some line:
  this is what makes skipping a shared place safe;
* `Persisted`: acknowledged units and known identities are in the file;
* `CompletedSettled`: a line marked in this session has all of its units
  acknowledged, so a place it left to another line has that line not
  completed, or is written;
* `WriterConsistent`: from the acknowledgement that completes an input to its
  mark, the input stays settled, though other steps come in between.

That the counters are the sizes of the sets is what each step must
re-establish, with facts on the cardinality of finite sets.

`NoDuplicateRows` needs one fact, `KnowsFile`: in a resumed session the
identity set is exactly the set of places with a row.  It holds for all
constants, shared ids and power loss included.

**`SaasWorkerProofs`** assumes finite sets of jobs and places, a `None` that is
no job, and positive bounds.  One inductive invariant serves five theorems:

* `QueueInv` ... `FlushType` type each part of the state.  `TypeOK` is
  not inductive alone: `tries` stays within `MaxAttempts` only because a job
  that may run again has an attempt left, and the engine's actions use the job of
  whoever says it has one.
* `OwnResults` extends `NoForeignResults` to the tracked entries and to flushes
  under way; `AddResult` compares the job's id, which is what keeps it.
* `Tracked` says that a tracked attempt is the one `Work` is at and that
  nothing of it was flushed: so every way in which `Work` leaves has flushed
  first, which is `NothingOverwritten`.  It takes all of the waiting
  states together, because the exit monitor, the timer and the deadline may
  each flush.
* `RowKept` follows a completed job's row back to the reply that `Work`
  received and the save that came before it.
* `Collected`, for `DoneMeansCollected`: what an attempt's exit monitor has counted
  as found but not as completed covers what is on its way, in the provider's
  queue, at the engine's worker and at the writer (`Covered`).  So at the moment
  the counters meet there is nothing left.  Three things carry it.  The units of
  a search are counted before they are pushed; each unit is counted as completed
  by the one who gives it up; and a monitor hears of nothing before its attempt's
  search is submitted (`Unsubmitted`) nor after it fired.  The queue is shared by
  all attempts, so the proof counts the positions of one attempt's units in a
  sequence (`Held`) and says how each push and pop changes that count.

**`ProvisioningProofs`** assumes `ProvisionAssumption` and nothing about the
sets of workers, requests and checks, finite or not.  `NoOrphan` says what may
not be; its inductive invariant `IInv` says why, in three parts besides the
types:

* `OneMachine`: before the creating step there is no machine, and a job that is
  at work or was left by a crash has used its only attempt, so no rescue makes a
  second one;
* `Watched`: a job that met no fault and dials has saved the id or seen its row
  deleted, and a live machine that its row cannot name has such a job at work;
* `Answered`: the row of a delete request is no longer `provisioning` once it is
  marked, so the provision job's conditional update fails and it removes the
  machine itself; and a request that read no id leaves the machine to that job.

`Watched` and `Answered` need each other: a delete request that soft-deletes the
row without destroying anything is right only while the provision job is still
there, and the provision job leaves only after it made the row active, which the
mark of the request excludes, unless it comes after the activation: then the row is
`Overtaken`, and stays so (`OvertakenStays`).  The lemmas `PersistsEffect` and
`DeleteMarksEffect` say what the two steps with a choice change, worker by
worker.

**`JobStoreProofs`** assumes `JobStoreAssumption`: positive sizes of pages, and
known filters.  `StoreInv` serves four theorems and has, besides types,

* `PagesReach`, for `DeleteAllReachesAll`: all jobs up to the delete-all's cursor
  that matched its filter throughout have their removal queued, but for those of
  the page it is at, and without a further page none lies behind the cursor.  The
  lemmas `LeastIn`, `GreatestIn` and `PageIsNext` say that a page, which the
  query orders by id, is an initial piece of what lies behind the cursor: so the
  cursor, its last id, skips none;
* `QueuedOnce`: a request queues the removal of a job once, as the pages do not
  overlap;
* `RemovedExplained`, for `OrphansExplained`: a row that is gone has a removal that
  ended, or River took it, and between the two statements of a removal the
  results come back only by an attempt that saves late;
* `ResultsExplained`, for `CompletedAnswerHasResults`: it follows a job from the
  save through its completion to what a reader read of the row, since the reader
  gets its results by a second query.  That query may fail, and the answer is given
  all the same (`"unread"`); the property is about the answers whose two queries
  succeeded.

**`ServerProofs`** is about what one server process and the people around it do.

*The account* assumes `AdminAssumption`; the tabs may be any set.
`CodeAcceptedOnce` rests on `CodesInv`: besides types,

* `Locked`: a tab in the transaction holds the user's row, and the codes it read
  are the codes that are stored, since every other statement on the row waits;
* `Unspent`: a stored code was not accepted since it was saved.

The removal would otherwise write back a set that is out of date.
`GuessesStayBounded` rests on `Counted`: the limiter's counter covers the guesses
of its window, and a window that has expired has none, so that the clean-up
may take its row.

*The wizard* assumes that there is a last run.  `CompletedInstallWorks` is about the end of an
installation, which may be put together by several runs that stopped anywhere;
`WizardInv` says what holds on the way:

* `HoldsOf` of the state in memory and of a state file that is whole: what it calls
  deployed runs with its own database, key and salt, and the administrator it names
  is the one in its database.  A file that was cut holds nothing;
* `WizardSaved`: where a step needs the state saved, the file has what the memory
  has, and a state that is not saved is only at steps that will save it;
* `WizardProgress`: a step that is reached finds done what the steps before it were
  to do, whether this run did it or an earlier one, as a resumed run skips by
  what the file says.

*The composition*: `ServerTyping`, `ServerIsParts` and `ServerSafe` say that the
server of `Server_requests` behaves, part by part, as the modules do alone, so
that what was proved of each holds of it.

**`LeadPipelineProofs`** assumes at least two markets and any number of rows,
failing steps and commits of others.  `LeadInv` adds `RunOrder`, what the steps a
run has behind it left (a run that commits has its market's CSV file uploaded,
though the script may have failed or another run's push come first), and
`LeadsAgree`: the numbers remembered, the leads and the rows that qualified agree at
every row, which is what makes `OneLeadEach` true of the file.

**`RunnersProofs`** is about what the command line starts.

*Web runner*: only that `NoJob` is no job; the sets of jobs and of
delete requests may be infinite.  `WebInv` has the three properties and

* `Unscraped`: a job that waits has not been scraped, which makes `ScrapedOnce`
  a matter of who writes `pending`: the submission alone;
* `WebInHand`: what the loop knows of the job it holds at each of its steps, with
  the row gone at any of them, and the file too once a request took the job;
* `Removing`: a request about to delete the row has seen no file or removed it,
  or the loop made one since, which is what `raced` records.

`StatusGoesForward` is an action property: whatever is done to the row by the loop,
by requests, signals and restarts, a status never goes back.  `WorkingIsWorkedOn`
is the safety half of `WebJobEnds`: a job that is `working` is in the
loop's hands, or was when the process died or a fault struck (section 6).

*Database runner*: `DatabaseAssumption`, that is positive sizes, and
e-mail shops that are shops.  `DatabaseTyping` is by cases over the steps;
`NoSecondClaim` adds `Untouched`: a row that is not `queued` was never claimed,
and no process has it in memory; `NoQuietLoss` adds `Emptied`: a writer that has
ended or failed has no result of its process in its buffer.

*Browser pool*: finitely many fetchers and positive page limits.
`PoolInv` is `SlotsKept` with two things it needs: the types (`PoolShapes`), and
`HasOne`, that a fetch has exactly one slot from taking to giving back.  The
counters of `SlotsKept` are compared with the cardinality of the set of holders,
so each step says how this set changes: by one fetcher, or not at all.
`PoolClosesBrowsers` adds `Shut`, that a closed pool has no fetch any more and so
stays as it is, and `DroppedClosed`: a slot that is neither held nor in the channel,
which closing therefore does not see, was closed by whoever dropped it.  Both
except a wedged driver, and `PwTyped` with `DriverStep` says that one stays wedged
until the pool is closed.

*Results file*: `Header` is no place, and the format is one of two.  `FileInv` has
`RowsDistinct`, that no two readable rows are of one place and a session knows
those of its file, and `ValuesWhole`, that a JSON value is cut only at the end of
the file.  The lemmas `LastWholeIs` and `RepairsKeep` describe where a repair cuts;
`RepairsKeepRecords` is an action property.  What a CSV file may come to is
not covered, rightly: `ResultFile_refused` violates it.

*The composition*: `RunnersTyping`, `RunnersAreParts` and `RunnersSafe`, as for the
server.

Only checked by TLC, on the instances of section 3: the properties under
fairness (`Termination`, `ResumeCompletes`, `EveryJobEnds`, `DeletedMachineGoes`,
`WizardCompletes`, `EveryMarketPassed`, `WebJobEnds`, `EveryRowClaimed`,
`FetchEnds`), which with `ENABLED` are out of the prover's reach.  The compositions
are proved to implement the parts' safety, not their fairness.  All other properties of the
passing runs are stated by a theorem.

## 6. Known limits of the code, in the model

These are steps of the models that no property calls wrong, because no document
promises more:

* After a power failure the sidecar may claim a query whose rows were written by
  another query or session and not yet synced: `SeedDiscovered` marks without
  syncing (`runner/resume/progress.go:45`).  These rows are what `relied` holds;
  no other row is ever lost.
* `-max-results-per-query` is per session: repeated sessions go on to further
  places of the same query.
* The late `MarkDone` of an earlier attempt flushes the later attempt of the
  same job (`scraper/centralwriter.go:132`); the job then completes with what
  was collected so far.
* A retry's upsert replaces the row that an earlier attempt saved
  (`scraper/centralwriter.go:246`).
* A restart's token that is sent while the engine is already restarting restarts
  the next cycle at once (`scraper/scraper.go:90`; the channel keeps one).
* A job that panics, or whose page was fetched but does not parse, is counted
  nowhere (`scrapemate.go:331`, `:378`): the exit monitor then never fires, and a
  scrape without `-exit-on-inactivity` goes on waiting until it is interrupted.
  `Termination` excuses exactly this (`Uncounted`) and a writer's error.
* The time of last activity is zero until a first job ends, so a scrape whose
  first job takes longer than one tick of the statistics, a minute, ends as
  inactive whatever the limit (`scrapemate.go:269`).
* The health check makes a machine active that is still being provisioned
  (`Heals` between `Persists` and `Activates`); the provision job's update then
  finds no row to change, and destroys the machine of an active row
  (`rqueue/worker_jobs.go:257`).  No machine is lost by it, so `NoOrphan` holds.
* A delete request that reads a row before the cloud's id is saved, and marks it
  only after the provision job made it active, queues a deletion without an id,
  which deletes the row softly and leaves the machine
  (`admin/handlers_workers.go:449` to `:466`, `rqueue/worker_jobs.go:362`).  The
  conditional update at `worker_jobs.go:254` "guard[s] against
  delete-during-provisioning race" only when the mark comes first; the ten
  seconds of the SSH ticker make the other order unlikely, and nothing excludes
  it.  `NoOrphan` and `DeletedMachineGoes` excuse exactly this (`Overtaken`).
* A provision job that times out before it saved the machine's id leaves a
  machine that no row names (`worker_jobs.go:185`): one of the faults of `hurt`.
* The `CleanupWorker` looks for jobs completed a month ago
  (`worker_jobs.go:664`), but River's default retention removes completed rows
  after a day: it finds some only where no server ran meanwhile (`MonthPasses`),
  and results whose job River removed stay (`late`).
* An answer whose second query fails says "completed" and has no results: the error
  is dropped (`rqueue/rqueue.go:793`, and for the counts of a list `:639`).
  `CompletedAnswerHasResults` excuses exactly this (`"unread"`).
* `Stuck` in `Wizard`: a run that was killed inside `SaveState` leaves a state
  file no run can load; one that stopped between `CreateUser` and its save leaves
  a user no run can create again (`provision.go:395`); one that stopped between
  the database script and its save may leave a URL with a password the kept data
  directory does not have (`infra/vps/provisioner.go:119`); one that stopped
  between a purchase and its save leaves a server or a managed database whose
  name the next run cannot take (`provision.go:891`, `appplatform.go:61`); one
  that stopped after it registered its key leaves the name to that key, and a
  server bought with a later pair admits nobody (`hetzner.go:43`).  Starting over
  from a saved file has the same effects.  `docs/saas.md:42` says that one can
  resume if interrupted: not in these windows, each of which `WizardCompletes`
  excuses only where a run stopped in it and the last run fails on it.  The user
  has to mend something by hand there, which the model leaves out.
* A progress file that is not UTF-8, or whose index is infinite, fails every run of
  the lead pipeline: `read_progress` catches neither `UnicodeDecodeError` nor
  `OverflowError` (`lead_pipeline.py:592`).  `EveryMarketPassed` excuses exactly
  this (`Raising`).
* `WebRunner`: a job that is `working` when the process dies, or when `os.Create`
  fails, stays so, since only `pending` jobs are picked
  (`runner/webrunner/webrunner.go:141`).
* `DatabaseRunner`: one error of the claiming query ends `fetchJobs` for good;
  rows claimed by a process that ended are never `new` again; a failed insert
  drops the remaining jobs of a `Push`; a signal loses the buffered results.
  The one row a `saveRowsOneByOne` may skip because PostgreSQL rejects its text
  (`postgres/resultwriter.go:147`) is left out: `marshalEntry` strips what would
  be rejected.
* `BrowserPool`: a lease whose job timed out may not come back to the channel
  (`LeaseKept`); page slots are never launched again; a context made anew has
  neither proxy nor user agent; a browser launched anew serves no page to the
  fetch that needed it; a browser in which no context could be made is left
  running (`jshttp.go:366`) until `pw.Stop`, whose error is dropped, ends it.
* `BrowserPool`: the closes of a session are not bounded as a lease's is
  (`session_slot.go:138`, `:166`, `:181`, `:195`, and `jshttp.go:167`).  With a
  driver that a crash wedged they may hang the fetch, which keeps its slot and
  its worker, so that others wait behind it and `Start` does not return.

## 7. Findings

* `Scrapemate_nil`: a context cancelled between the provider's first and second
  select makes the forwarder offer a nil job; `DoJob` calls a method of it
  before it defers its recover (`memory.go:46`).
* `Resume_sharedid`: two input lines with one custom id share one entry of
  tracker and sidecar; the first to finish marks both
  (`runner/resume/progress.go:76`).
* `ResultFile_refused`: a CSV row torn inside a quoted field is repaired by a cut
  behind the last newline byte of the file, which may lie inside that very field
  (`runner/resume/results.go:200`).  What stays has an open quote, so the second
  load fails, and ends in a newline, so no later session repairs it.  (A second
  way, which the run has too but TLC does not show first: a row that lacks only
  its newline parses and is not repaired, and the next row is glued to it.)
* `SaasWorker_restart`: a restart stops the central writer while an engine
  worker has a result to send; neither the worker, nor `Start`, nor the manager
  ever go on (`scraper/scraper.go:224`, with the send of `scrapemate.go:586`).
* `Server_heal`: a comment says that address and id are saved early "so the
  health check can heal this worker if the SSH wait below times out"
  (`rqueue/worker_jobs.go:210`); the time-out marks the row `failed`, and the
  health check's query leaves failed rows out (`worker_jobs.go:531`).

## 8. What is not modelled, and why

Not modelled yet: the clock of the inactivity exit.

Left out for good: HTTP fetchers, parsers and caches (one request, no state
that outlives it; `Scrapemate` has every outcome); the parsing of pages;
encryption, ids, configuration, logging, telemetry (no state a behaviour
depends on); the grid (a pure computation whose cells only make more
searches); S3, Lambda and LeadsDB (sinks); generated API docs and examples.

Left out of modelled parts: the drivers' requests to the cloud providers (their
outcomes are in `Provisioning` and `Wizard`); `infra/planetscale`, which nothing
calls; the update command's restart of the worker machines; revoking API keys,
the web terminal, the dashboard and the rate limits per address; the browser's
local proxy; the engine's initial job, cache and unused
failed-jobs channel; a fetch's retries (one step, any outcome); hash collisions in the
deduper; CSV headers cut inside their very first name; plugins as writers;
River itself, of which only the states and the configured options appear.

## 9. Plan

1. The safety halves of the other liveness properties, as `WorkingIsWorkedOn` is of
   `WebJobEnds`: who is responsible for whatever has not ended yet.
2. An abstract job table (a row is taken once and ends once) that `WebRunner`
   and `DatabaseRunner` implement, with the proof of each step.
3. The clock of the inactivity exit.

The runs are kept few, one per question; a new component joins one of the
compositions.
