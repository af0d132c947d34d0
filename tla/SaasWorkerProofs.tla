-------------------------- MODULE SaasWorkerProofs --------------------------
(***************************************************************************)
(* What the SaaS worker keeps of its jobs, for every set of jobs and       *)
(* places and every bound.                                                 *)
(***************************************************************************)
EXTENDS SaasWorker, FiniteSetTheorems, FunctionTheorems, TLAPS

-----------------------------------------------------------------------------
(* The inductive invariant, in named parts.                                 *)

\* The queue: a job that may run again has an attempt left, and the job at
\* work is at one of its attempts.
QueueInv ==
  /\ state \in [ScrapeJobs -> {"available", "running", "retryable", "completed", "discarded"}]
  /\ tries \in [ScrapeJobs -> 0..MaxAttempts]
  /\ work \in [pc : {"idle", "registered", "submitting", "submitting stale", "waiting",
                     "saving", "grace", "succeeded", "failed"},
               job : ScrapeJobs \cup {None},
               why : {"none", "submit", "timer", "deadline", "cancelled"}]
  /\ WorkIs("idle") <=> work.job = None
  /\ ~WorkIs("idle") => tries[work.job] > 0
  /\ \A j \in ScrapeJobs : state[j] \in {"available", "retryable"} => tries[j] < MaxAttempts

\* The engine: whoever has a job knows whose it is.
EngineInv ==
  /\ prov \in Seq(EngineJobs) /\ Len(prov) <= Capacity
  /\ eng \in [pc : {"idle", "run", "push", "send", "exited"},
              job : EngineJobs \cup {None}, todo : SUBSET Units]
  /\ eng.pc \in {"run", "push", "send"} => eng.job \in EngineJobs
  /\ wr \in [pc : {"receiving", "processing", "returned"},
             for : Attempts \cup {None}, todo : SUBSET Units, count : Nat]
  /\ wr.pc = "processing" => wr.for \in Attempts

MonitorInv ==
  /\ ex \in [Attempts -> ExiterState]
  /\ mon \in [Attempts -> {"off", "watching", "fired"}]

ManagerInv ==
  /\ mgr \in [pc : {"starting", "up", "stopping"}, count : 0..MaxJobs, restart : BOOLEAN]
  /\ down \in BOOLEAN

FlushType ==
  /\ saved \in [ScrapeJobs -> (SUBSET Units) \cup {None}]
  /\ current \in [for : Attempts, entries : SUBSET Units] \cup {None}
  /\ saving \in [Attempts -> (SUBSET Units) \cup {None}]
  /\ reply \in [Attempts -> {"none", "empty", "some", "error"}]

\* Wherever results are kept for a job, they are of that job.
OwnResults ==
  /\ current # None => \A u \in current.entries : u[1][1] = current.for[1]
  /\ \A a \in Attempts : saving[a] # None => \A u \in saving[a] : u[1][1] = a[1]
  /\ NoForeignResults

\* Work has registered its attempt and waits for the provider or a result.
Registered == work.pc \in {"registered", "submitting", "submitting stale", "waiting"}

\* The tracked attempt is the one Work is at, and nothing of it was flushed;
\* of an attempt still to come nothing is known.
Tracked ==
  /\ current # None =>
       /\ Registered
       /\ current.for = Attempt
       /\ saving[Attempt] = None /\ reply[Attempt] = "none"
  /\ \A a \in Attempts : a[2] > tries[a[1]] => saving[a] = None /\ reply[a] = "none"

\* Who is told that a job was saved can rely on its row.
RowKept ==
  /\ \A a \in Attempts : reply[a] \in {"empty", "some"} => saved[a[1]] # None
  /\ WorkIs("succeeded") => saved[work.job] # None
  /\ CompletedHasRow

\* Of an attempt: its search, and the place and e-mail jobs the search leads to.
SearchJobs(a) == [kind : {"search"}, for : {a}]
UnitJobs(a) == [kind : {"place", "email"}, for : {u \in Units : u[1] = a}]

\* How many jobs of J a provider holds.
Where(q, J) == {k \in DOMAIN q : q[k] \in J}
Held(q, J) == Cardinality(Where(q, J))

\* The units of an attempt that the engine's worker, or the writer, has at hand.
Emits(a) == eng.pc \in {"push", "send"} /\ AttemptOf(eng.job) = a
AtEngine(a) ==
  IF eng.pc = "run" /\ eng.job \in UnitJobs(a) THEN 1
  ELSE IF Emits(a) THEN Cardinality(eng.todo) ELSE 0
AtWriter(a) == IF wr.pc = "processing" /\ wr.for = a THEN wr.count ELSE 0

\* The units of an attempt that are found and not yet counted completed, and its
\* searches that are not.
Out(a) == Held(prov, UnitJobs(a)) + AtEngine(a) + AtWriter(a)
Searches(a) ==
  Held(prov, SearchJobs(a)) + IF eng.pc = "run" /\ eng.job \in SearchJobs(a) THEN 1 ELSE 0

Nothing(a) == Out(a) = 0 /\ Searches(a) = 0

\* Attempts whose search was not submitted yet.
Submitting == work.pc \in {"registered", "submitting", "submitting stale"}
Unsubmitted(a) == a[2] > tries[a[1]] \/ (Submitting /\ a = Attempt)

\* What the exit monitor of an attempt has counted covers all that is on its way.
Covered(a) ==
  /\ ex[a].seedCount = 1
  /\ ex[a].seedCompleted + Searches(a) <= 1
  /\ ex[a].placesCompleted + Out(a) <= ex[a].placesFound
  /\ ex[a].doneCh => AllDone(ex[a])

\* The monitor of an attempt is told of everything; one that fired, or was not
\* started yet, has nothing to be told.
Collected(a) ==
  /\ mon[a] = "watching" => Covered(a)
  /\ mon[a] # "watching" => ex[a] = NewExiter(1)
  /\ mon[a] = "fired" => Nothing(a)
  /\ Unsubmitted(a) => mon[a] = "off" /\ Nothing(a)

\* What the engine's worker emits is of its own attempt, and a writer that counts
\* no unit has none to add.
HandInv ==
  /\ eng.pc \in {"push", "send"} => \A u \in eng.todo : u[1] = AttemptOf(eng.job)
  /\ wr.pc = "processing" => (wr.count = 0 => wr.todo = {})

CInv == HandInv /\ \A a \in Attempts : Collected(a)

TInv == QueueInv /\ EngineInv /\ MonitorInv /\ ManagerInv /\ FlushType

IInv == TInv /\ OwnResults /\ Tracked /\ RowKept /\ CInv

-----------------------------------------------------------------------------
(* Facts about attempts, units and the engine's jobs.                       *)

LEMMA Bounds == MaxAttempts \in Nat \ {0} /\ MaxJobs \in Nat \ {0} /\ Capacity \in Nat \ {0}
  BY BoundAssumption

LEMMA AttemptFacts ==
  \A a \in Attempts : a[1] \in ScrapeJobs /\ a[2] \in 1..MaxAttempts /\ a = <<a[1], a[2]>>
  BY DEF Attempts

LEMMA UnitFacts == \A u \in Units : u[1] \in Attempts /\ u[1][1] \in ScrapeJobs
  BY AttemptFacts DEF Units

LEMMA EngineJobFacts ==
  ASSUME NEW ej \in EngineJobs
  PROVE  /\ AttemptOf(ej) \in Attempts
         /\ ej.kind = "search" => ej.for \in Attempts
         /\ ej.kind \in {"place", "email"} => ej.for \in Units
  BY UnitFacts DEF EngineJobs, AttemptOf

LEMMA AttemptAtWork ==
  ASSUME QueueInv, ~WorkIs("idle")
  PROVE  work.job \in ScrapeJobs /\ Attempt \in Attempts
<1>1. work.job \in ScrapeJobs
  BY DEF QueueInv
<1>2. tries[work.job] \in 0..MaxAttempts /\ tries[work.job] > 0
  BY <1>1 DEF QueueInv
<1>3. tries[work.job] \in 1..MaxAttempts
  BY <1>2, Bounds
<1>. QED BY <1>1, <1>3 DEF Attempt, Attempts

-----------------------------------------------------------------------------
(* The queue and the job at work.                                           *)

LEMMA QueueStep ==
  ASSUME QueueInv, [Next]_vars
  PROVE  QueueInv'
<1>. USE NoneAssumption, Bounds
<1>1. CASE UNCHANGED <<state, tries, work>>
  BY <1>1 DEF QueueInv, WorkIs
<1>2. ASSUME NEW pc \in {"submitting", "submitting stale", "waiting", "saving", "grace",
                         "succeeded", "failed"},
             NEW why \in {"none", "submit", "timer", "deadline", "cancelled"},
             ~WorkIs("idle"), UNCHANGED <<state, tries>>,
             work' = [work EXCEPT !.pc = pc, !.why = why]
      PROVE  QueueInv'
  BY <1>2 DEF QueueInv, WorkIs
<1>3. ASSUME NEW pc \in {"submitting", "submitting stale", "waiting", "grace"},
             ~WorkIs("idle"), UNCHANGED <<state, tries>>,
             work' = [work EXCEPT !.pc = pc]
      PROVE  QueueInv'
  BY <1>3 DEF QueueInv, WorkIs
<1>4. CASE RiverFinishes
  <2>1. work' = IdleWork /\ UNCHANGED tries
    BY <1>4 DEF RiverFinishes
  <2>2. /\ \A j \in ScrapeJobs : state'[j] \in {state[j], "completed", Retried(j)}
        /\ state' \in [ScrapeJobs -> {"available", "running", "retryable", "completed", "discarded"}]
    BY <1>4 DEF RiverFinishes, QueueInv, Retried
  <2>3. \A j \in ScrapeJobs : state'[j] \in {"available", "retryable"} => tries[j] < MaxAttempts
    BY <2>2 DEF QueueInv, Retried
  <2>. QED BY <2>1, <2>2, <2>3 DEF QueueInv, WorkIs, IdleWork
<1>5. ASSUME NEW j \in ScrapeJobs, PromoteRetryable(j) PROVE QueueInv'
  BY <1>5 DEF PromoteRetryable, QueueInv, WorkIs
<1>6. ASSUME NEW j \in ScrapeJobs, RescueStuck(j) PROVE QueueInv'
  BY <1>6 DEF RescueStuck, QueueInv, WorkIs, Retried
<1>7. ASSUME NEW j \in ScrapeJobs, WorkStarts(j) PROVE QueueInv'
  <2>0. tries[j] \in 0..MaxAttempts
    BY DEF QueueInv
  <2>1. /\ state[j] = "available" /\ tries[j] < MaxAttempts
        /\ state' = [state EXCEPT ![j] = "running"]
        /\ tries' = [tries EXCEPT ![j] = @ + 1]
        /\ work' = [pc |-> "registered", job |-> j, why |-> "none"]
    BY <1>7 DEF WorkStarts, QueueInv
  <2>2. tries[j] + 1 \in 0..MaxAttempts /\ tries[j] + 1 > 0
    BY <2>0, <2>1
  <2>3. tries' \in [ScrapeJobs -> 0..MaxAttempts] /\ tries'[j] > 0
    BY <2>1, <2>2 DEF QueueInv
  <2>. QED BY <2>1, <2>3 DEF QueueInv, WorkIs
<1>8. CASE GetsProvider
  BY <1>8, <1>3 DEF GetsProvider, WorkGoesTo, WorkIs, queue
<1>9. CASE Submits
  BY <1>9, <1>3 DEF Submits, WorkGoesTo, WorkIs, queue
<1>10. ASSUME NEW why \in {"submit", "timer", "deadline", "cancelled"}, ~WorkIs("idle"), GivesUp(why)
       PROVE  QueueInv'
  BY <1>10, <1>2 DEF GivesUp, queue
<1>11. CASE SubmitFails
  BY <1>11, <1>10 DEF SubmitFails, WorkIs
<1>12. CASE WorkTimesOut
  BY <1>12, <1>10 DEF WorkTimesOut, WorkIs
<1>13. CASE ContextDone
  BY <1>13, <1>10 DEF ContextDone, WorkIs
<1>14. CASE WorkReturns
  <2>1. PICK pc \in {"failed", "succeeded"} : work' = [work EXCEPT !.pc = pc, !.why = "none"]
    BY <1>14 DEF WorkReturns, QueueInv
  <2>. QED BY <1>14, <2>1, <1>2 DEF WorkReturns, WorkIs, queue
<1>15. ASSUME NEW a \in Attempts, Save(a) PROVE QueueInv'
  BY <1>15, <1>3, <1>1 DEF Save, WorkGoesTo, WorkIs, queue
<1>16. CASE CycleStarts
  BY <1>16, <1>3, <1>1 DEF CycleStarts, WorkIs, queue
<1>17. CASE Crash
  BY <1>17 DEF Crash, QueueInv, WorkIs, IdleWork, queue
<1>18. ASSUME NEW a \in Attempts, MonitorStops(a) \/ MonitorFires(a) \/ MarkDone(a)
       PROVE  QueueInv'
  BY <1>18, <1>1 DEF MonitorStops, MonitorFires, MarkDone, queue
<1>19. CASE WriterStep
  BY <1>19, <1>1 DEF WriterStep, WriterAdds, WriterCounts, WriterReturns, queue
<1>20. CASE EngineStep \/ EnginePanics
  BY <1>20, <1>1 DEF EngineStep, EnginePanics, EngineTakes, SearchFails, SearchFinds,
     EnginePushes, EngineFinishes, PlaceFails, PlaceBecomesEmail, UnitScraped, EngineSends,
     EngineExits, queue
<1>21. CASE RestartTriggered \/ Shutdown
  BY <1>21, <1>1 DEF RestartTriggered, Shutdown, queue
<1>22. CASE UNCHANGED vars
  BY <1>22, <1>1 DEF vars, queue
<1>. QED
  BY <1>4, <1>5, <1>6, <1>7, <1>8, <1>9, <1>11, <1>12, <1>13, <1>14, <1>15, <1>16, <1>17,
     <1>18, <1>19, <1>20, <1>21, <1>22 DEF Next, RiverStep, WorkStep, MonitorStep

-----------------------------------------------------------------------------
(* The monitors, the engine and the manager.                                *)

\* Every operation of the exit monitor leaves a monitor.
LEMMA ExiterSteps ==
  ASSUME NEW e \in ExiterState, NEW n \in Nat
  PROVE  /\ IncrPlacesFound(e, n) \in ExiterState
         /\ IncrSeedCompleted(e, n) \in ExiterState
         /\ IncrPlacesCompleted(e, n) \in ExiterState
<1>1. IncrPlacesFound(e, n) \in ExiterState
  BY DEF IncrPlacesFound, ExiterState
<1>2. ASSUME NEW f \in ExiterState PROVE Notify(f) \in ExiterState
  <2>1. (f.doneCh \/ AllDone(f)) \in BOOLEAN
    BY DEF ExiterState, AllDone
  <2>2. ASSUME NEW b \in BOOLEAN PROVE [f EXCEPT !.doneCh = b] \in ExiterState
    BY DEF ExiterState
  <2>. QED BY <2>1, <2>2 DEF Notify
<1>3. [e EXCEPT !.seedCompleted = @ + n] \in ExiterState
  BY DEF ExiterState
<1>4. [e EXCEPT !.placesCompleted = @ + n] \in ExiterState
  BY DEF ExiterState
<1>. QED BY <1>1, <1>2, <1>3, <1>4 DEF IncrSeedCompleted, IncrPlacesCompleted

LEMMA NewExiterType == NewExiter(1) \in ExiterState
  BY DEF NewExiter, ExiterState

LEMMA PlacesFinite == \A ps \in SUBSET Places : Cardinality(ps) \in Nat
  BY JobAssumption, FS_Subset, FS_CardinalityType

LEMMA UnitsFinite == \A us \in SUBSET Units : IsFiniteSet(us) /\ Cardinality(us) \in Nat
<1>1. IsFiniteSet(1..MaxAttempts)
  BY Bounds, FS_Interval
<1>2. IsFiniteSet(Attempts)
  BY <1>1, JobAssumption, FS_Product DEF Attempts
<1>3. IsFiniteSet(Units)
  BY <1>2, JobAssumption, FS_Product DEF Units
<1>. QED BY <1>3, FS_Subset, FS_CardinalityType

\* A processing job reports to the monitor of its own attempt.
LEMMA MonitorsStep ==
  ASSUME QueueInv, EngineInv, MonitorInv, [Next]_vars
  PROVE  MonitorInv'
<1>1. CASE UNCHANGED <<ex, mon>>
  BY <1>1 DEF MonitorInv
<1>2. ASSUME NEW a \in Attempts, NEW e \in ExiterState, Counts(a, e), UNCHANGED mon
      PROVE  MonitorInv'
  BY <1>2 DEF MonitorInv, Counts
<1>3. ASSUME NEW a \in Attempts, NEW to \in {"off", "fired"}, MonitorLeaves(a, to)
      PROVE  MonitorInv'
  BY <1>3, NewExiterType DEF MonitorInv, MonitorLeaves
<1>4. CASE Submits
  BY <1>4 DEF Submits, MonitorInv
<1>5. ASSUME NEW a \in Attempts, MonitorStops(a) \/ MonitorFires(a) PROVE MonitorInv'
  BY <1>5, <1>3 DEF MonitorStops, MonitorFires
<1>6. ASSUME NEW a \in Attempts, MarkDone(a) PROVE MonitorInv'
  BY <1>6 DEF MarkDone, MonitorInv
<1>7. CASE WriterCounts
  <2>1. wr.for \in Attempts /\ wr.count \in Nat
    BY <1>7 DEF WriterCounts, EngineInv
  <2>2. IncrPlacesCompleted(ex[wr.for], wr.count) \in ExiterState
    BY <2>1, ExiterSteps DEF MonitorInv
  <2>. QED BY <1>7, <2>1, <2>2, <1>1, <1>2 DEF WriterCounts
<1>8. ASSUME eng.pc = "run"
      PROVE  /\ AttemptOf(eng.job) \in Attempts
             /\ eng.job.kind = "search" => eng.job.for \in Attempts
  BY <1>8, EngineJobFacts DEF EngineInv
<1>9. CASE SearchFails
  <2>1. eng.job.for \in Attempts
    BY <1>9, <1>8 DEF SearchFails, Processes
  <2>2. IncrSeedCompleted(ex[eng.job.for], 1) \in ExiterState
    BY <2>1, ExiterSteps DEF MonitorInv
  <2>. QED BY <1>9, <2>1, <2>2, <1>2 DEF SearchFails
<1>10. CASE SearchFinds
  <2>1. eng.job.for \in Attempts
    BY <1>10, <1>8 DEF SearchFinds, Processes
  <2>2. PICK ps \in SUBSET Places :
          Counts(eng.job.for,
            IncrSeedCompleted(IncrPlacesFound(ex[eng.job.for], Cardinality(ps)), 1))
    BY <1>10 DEF SearchFinds
  <2>3. IncrPlacesFound(ex[eng.job.for], Cardinality(ps)) \in ExiterState
    BY <2>1, ExiterSteps, PlacesFinite DEF MonitorInv
  <2>4. IncrSeedCompleted(IncrPlacesFound(ex[eng.job.for], Cardinality(ps)), 1) \in ExiterState
    BY <2>3, ExiterSteps
  <2>. QED BY <1>10, <2>1, <2>2, <2>4, <1>2 DEF SearchFinds
<1>11. CASE PlaceFails
  <2>1. AttemptOf(eng.job) \in Attempts
    BY <1>11, <1>8 DEF PlaceFails, Processes
  <2>2. IncrPlacesCompleted(ex[AttemptOf(eng.job)], 1) \in ExiterState
    BY <2>1, ExiterSteps DEF MonitorInv
  <2>. QED BY <1>11, <2>1, <2>2, <1>2 DEF PlaceFails
<1>12. CASE Crash
  BY <1>12, NewExiterType DEF Crash, MonitorInv
<1>13. CASE \/ RiverStep \/ GetsProvider \/ SubmitFails \/ WorkTimesOut \/ ContextDone
            \/ WorkReturns
  BY <1>13, <1>1 DEF RiverStep, RiverFinishes, PromoteRetryable, RescueStuck, WorkStarts,
     GetsProvider, SubmitFails, WorkTimesOut, ContextDone, GivesUp, WorkReturns, monitors
<1>14. CASE \/ EngineTakes \/ EnginePushes \/ EngineFinishes \/ PlaceBecomesEmail
            \/ UnitScraped \/ EngineSends \/ EngineExits \/ EnginePanics
  BY <1>14, <1>1 DEF EngineTakes, EnginePushes, EngineFinishes, PlaceBecomesEmail,
     UnitScraped, EngineSends, EngineExits, EnginePanics, monitors
<1>15. CASE WriterAdds \/ WriterReturns \/ CycleStarts \/ RestartTriggered \/ Shutdown
  BY <1>15, <1>1 DEF WriterAdds, WriterReturns, CycleStarts, RestartTriggered, Shutdown,
     monitors
<1>16. ASSUME NEW a \in Attempts, Save(a) PROVE MonitorInv'
  BY <1>16, <1>1 DEF Save, monitors
<1>17. CASE UNCHANGED vars
  BY <1>17, <1>1 DEF vars, monitors
<1>. QED
  BY <1>4, <1>5, <1>6, <1>7, <1>9, <1>10, <1>11, <1>12, <1>13, <1>14, <1>15, <1>16, <1>17
  DEF Next, WorkStep, MonitorStep, WriterStep, EngineStep

\* Jobs are taken from and put into the provider, within its capacity.
LEMMA EngineInvStep ==
  ASSUME QueueInv, EngineInv, [Next]_vars
  PROVE  EngineInv'
<1>. USE Bounds
<1>1. CASE UNCHANGED <<prov, eng, wr>>
  BY <1>1 DEF EngineInv
<1>2. ASSUME NEW ej \in EngineJobs, prov' = Append(prov, ej), Len(prov) < Capacity
      PROVE  prov' \in Seq(EngineJobs) /\ Len(prov') <= Capacity
  BY <1>2 DEF EngineInv
<1>3. ASSUME eng' = IdleEngine \/ (eng.pc = "idle" /\ eng' = [eng EXCEPT !.pc = "exited"]),
             UNCHANGED <<prov, wr>>
      PROVE  EngineInv'
  BY <1>3 DEF EngineInv, IdleEngine
<1>4. ASSUME NEW pc \in {"push", "send"}, NEW us \in SUBSET Units, eng.pc = "run",
             eng' = [eng EXCEPT !.pc = pc, !.todo = us], UNCHANGED <<prov, wr>>
      PROVE  EngineInv'
  BY <1>4 DEF EngineInv
<1>5. ASSUME eng.pc \in {"run", "push", "send"}
      PROVE  /\ AttemptOf(eng.job) \in Attempts
             /\ eng.job.kind = "search" => eng.job.for \in Attempts
             /\ eng.job.kind \in {"place", "email"} => eng.job.for \in Units
  BY <1>5, EngineJobFacts DEF EngineInv
<1>6. CASE Submits
  <2>1. CASE WorkIs("submitting")
    <3>1. Attempt \in Attempts
      BY <2>1, AttemptAtWork DEF WorkIs
    <3>2. [kind |-> "search", for |-> Attempt] \in EngineJobs
      BY <3>1 DEF EngineJobs
    <3>. QED BY <1>6, <2>1, <3>2, <1>2 DEF Submits, EngineInv
  <2>. QED BY <1>6, <2>1, <1>1 DEF Submits
<1>7. CASE EngineTakes
  <2>1. Head(prov) \in EngineJobs /\ Tail(prov) \in Seq(EngineJobs) /\ Len(Tail(prov)) <= Capacity
    BY <1>7 DEF EngineTakes, EngineInv
  <2>. QED BY <1>7, <2>1 DEF EngineTakes, EngineInv
<1>8. CASE EnginePanics \/ SearchFails \/ PlaceFails \/ EngineFinishes \/ EngineExits
  BY <1>8, <1>3 DEF EnginePanics, SearchFails, PlaceFails, EngineFinishes, EngineExits
<1>9. CASE SearchFinds
  <2>1. eng.pc = "run" /\ eng.job.for \in Attempts
    BY <1>9, <1>5 DEF SearchFinds, Processes
  <2>2. PICK ps \in SUBSET Places :
          eng' = [eng EXCEPT !.pc = IF eng.job.for[1] \in FastJobs THEN "send" ELSE "push",
                             !.todo = Found(ps)]
    BY <1>9 DEF SearchFinds
  <2>3. Found(ps) \subseteq Units
    BY <2>1 DEF Found, Units
  <2>. QED BY <1>9, <2>1, <2>2, <2>3, <1>4 DEF SearchFinds
<1>10. CASE EnginePushes
  <2>1. PICK u \in eng.todo :
          /\ prov' = Append(prov, [kind |-> IF eng.job.kind = "search" THEN "place" ELSE "email",
                                   for |-> u])
          /\ eng' = [eng EXCEPT !.todo = @ \ {u}]
    BY <1>10 DEF EnginePushes
  <2>2. u \in Units
    BY <2>1 DEF EngineInv
  <2>3. [kind |-> IF eng.job.kind = "search" THEN "place" ELSE "email", for |-> u] \in EngineJobs
    BY <2>2 DEF EngineJobs
  <2>4. prov' \in Seq(EngineJobs) /\ Len(prov') <= Capacity
    BY <1>10, <2>1, <2>3, <1>2 DEF EnginePushes
  <2>. QED BY <1>10, <2>1, <2>4 DEF EnginePushes, EngineInv
<1>11. CASE PlaceBecomesEmail \/ UnitScraped
  <2>1. eng.pc = "run" /\ {eng.job.for} \subseteq Units
    BY <1>11, <1>5 DEF PlaceBecomesEmail, UnitScraped, Processes
  <2>. QED BY <1>11, <2>1, <1>4 DEF PlaceBecomesEmail, UnitScraped
<1>12. CASE EngineSends
  <2>1. AttemptOf(eng.job) \in Attempts /\ eng.todo \subseteq Units
    BY <1>12, <1>5 DEF EngineSends, EngineInv
  <2>2. Cardinality(eng.todo) \in Nat
    BY <2>1, UnitsFinite
  <2>. QED BY <1>12, <2>1, <2>2 DEF EngineSends, EngineInv, IdleEngine
<1>13. CASE WriterAdds
  <2>1. PICK u \in wr.todo : wr' = [wr EXCEPT !.todo = @ \ {u}]
    BY <1>13 DEF WriterAdds
  <2>. QED BY <1>13, <2>1 DEF WriterAdds, EngineInv
<1>14. CASE WriterCounts \/ WriterReturns
  BY <1>14 DEF WriterCounts, WriterReturns, EngineInv, IdleWriter
<1>15. CASE CycleStarts \/ Crash
  <2>1. prov' = <<>> /\ eng' = IdleEngine /\ wr' = IdleWriter
    BY <1>15 DEF CycleStarts, Crash
  <2>. QED BY <2>1 DEF EngineInv, IdleEngine, IdleWriter
<1>16. CASE \/ RiverStep \/ GetsProvider \/ SubmitFails \/ WorkTimesOut \/ ContextDone
            \/ WorkReturns
  BY <1>16, <1>1 DEF RiverStep, RiverFinishes, PromoteRetryable, RescueStuck, WorkStarts,
     GetsProvider, SubmitFails, WorkTimesOut, ContextDone, GivesUp, WorkReturns, engine
<1>17. ASSUME NEW a \in Attempts, MonitorStep(a) PROVE EngineInv'
  BY <1>17, <1>1 DEF MonitorStep, MonitorStops, MonitorFires, MarkDone, Save, engine
<1>18. CASE RestartTriggered \/ Shutdown \/ UNCHANGED vars
  BY <1>18, <1>1 DEF RestartTriggered, Shutdown, vars, engine
<1>. QED
  BY <1>6, <1>7, <1>8, <1>9, <1>10, <1>11, <1>12, <1>13, <1>14, <1>15, <1>16, <1>17, <1>18
  DEF Next, WorkStep, WriterStep, EngineStep

LEMMA ManagerStep ==
  ASSUME ManagerInv, [Next]_vars
  PROVE  ManagerInv'
<1>1. CASE UNCHANGED <<mgr, down>>
  BY <1>1 DEF ManagerInv
<1>2. CASE WorkReturns
  <2>. DEFINE count == IF mgr.count < MaxJobs THEN mgr.count + 1 ELSE MaxJobs
              restart == mgr.restart \/ count >= MaxJobs
  <2>1. mgr' = [mgr EXCEPT !.count = count, !.restart = restart] /\ UNCHANGED down
    BY <1>2 DEF WorkReturns, JobDone
  <2>2. count \in 0..MaxJobs
    BY Bounds DEF ManagerInv
  <2>3. restart \in BOOLEAN
    BY DEF ManagerInv
  <2>4. ASSUME NEW c \in 0..MaxJobs, NEW b \in BOOLEAN
        PROVE  [mgr EXCEPT !.count = c, !.restart = b] \in
                 [pc : {"starting", "up", "stopping"}, count : 0..MaxJobs, restart : BOOLEAN]
    BY DEF ManagerInv
  <2>5. [mgr EXCEPT !.count = count, !.restart = restart] \in
          [pc : {"starting", "up", "stopping"}, count : 0..MaxJobs, restart : BOOLEAN]
    BY <2>2, <2>3, <2>4
  <2>6. mgr' \in [pc : {"starting", "up", "stopping"}, count : 0..MaxJobs, restart : BOOLEAN]
    BY <2>1, <2>5
  <2>7. down' \in BOOLEAN
    BY <2>1 DEF ManagerInv
  <2>. HIDE DEF count, restart
  <2>. QED BY <2>6, <2>7 DEF ManagerInv
<1>0. 0 \in 0..MaxJobs
  BY Bounds
<1>3. CASE CycleStarts \/ RestartTriggered
  BY <1>3, <1>0 DEF CycleStarts, RestartTriggered, ManagerInv
<1>7. CASE Shutdown
  BY <1>7 DEF Shutdown, ManagerInv
<1>8. CASE Crash
  BY <1>8, <1>0 DEF Crash, NewManager, ManagerInv
<1>4. CASE RiverStep \/ GetsProvider \/ Submits \/ SubmitFails \/ WorkTimesOut \/ ContextDone
  BY <1>4, <1>1 DEF RiverStep, RiverFinishes, PromoteRetryable, RescueStuck, WorkStarts,
     GetsProvider, Submits, SubmitFails, WorkTimesOut, ContextDone, GivesUp
<1>5. ASSUME NEW a \in Attempts, MonitorStep(a) PROVE ManagerInv'
  BY <1>5, <1>1 DEF MonitorStep, MonitorStops, MonitorFires, MarkDone, Save
<1>6. CASE WriterStep \/ EngineStep \/ EnginePanics \/ UNCHANGED vars
  BY <1>6, <1>1 DEF WriterStep, WriterAdds, WriterCounts, WriterReturns, EngineStep,
     EnginePanics, EngineTakes, SearchFails, SearchFinds, EnginePushes, EngineFinishes,
     PlaceFails, PlaceBecomesEmail, UnitScraped, EngineSends, EngineExits, vars
<1>. QED BY <1>2, <1>3, <1>4, <1>5, <1>6, <1>7, <1>8 DEF Next, WorkStep

-----------------------------------------------------------------------------
(* The results of a job: entries, flushes, replies and rows.                *)

\* The steps that matter to them; the last two only move Work or the queue.
LEMMA FlushCases ==
  ASSUME [Next]_vars
  PROVE  \/ \E j \in ScrapeJobs : WorkStarts(j)
         \/ Registered /\ \E why \in {"submit", "timer", "deadline", "cancelled"} : GivesUp(why)
         \/ WorkReturns
         \/ \E a \in Attempts : MarkDone(a) \/ Save(a)
         \/ WriterAdds
         \/ Crash
         \/ RiverFinishes
         \/ /\ Registered /\ UNCHANGED <<state, tries, saved, flush>>
            /\ \E pc \in {"submitting", "submitting stale", "waiting"} :
                 work' = [work EXCEPT !.pc = pc]
         \/ /\ UNCHANGED <<tries, saved, flush, work>>
            /\ \A j \in ScrapeJobs : state[j] # "completed" => state'[j] # "completed"
<1>. DEFINE Moves ==
       /\ Registered /\ UNCHANGED <<state, tries, saved, flush>>
       /\ \E pc \in {"submitting", "submitting stale", "waiting"} :
            work' = [work EXCEPT !.pc = pc]
     Rests ==
       /\ UNCHANGED <<tries, saved, flush, work>>
       /\ \A j \in ScrapeJobs : state[j] # "completed" => state'[j] # "completed"
<1>1. SubmitFails \/ WorkTimesOut \/ ContextDone =>
        Registered /\ \E why \in {"submit", "timer", "deadline", "cancelled"} : GivesUp(why)
  BY DEF SubmitFails, WorkTimesOut, ContextDone, WorkIs, Registered
<1>2. GetsProvider \/ Submits => Moves
  BY DEF GetsProvider, Submits, WorkGoesTo, WorkIs, Registered, queue
<1>3. CycleStarts => Moves \/ Rests
  BY DEF CycleStarts, WorkIs, Registered, queue
<1>4. ASSUME NEW j \in ScrapeJobs, PromoteRetryable(j) PROVE Rests
  <2>1. state' = [state EXCEPT ![j] = "available"] /\ UNCHANGED <<tries, saved, flush, work>>
    BY <1>4 DEF PromoteRetryable
  <2>. QED BY <2>1
<1>5. ASSUME NEW j \in ScrapeJobs, RescueStuck(j) PROVE Rests
  <2>1. state' = [state EXCEPT ![j] = Retried(j)] /\ UNCHANGED <<tries, saved, flush, work>>
    BY <1>5 DEF RescueStuck
  <2>2. Retried(j) # "completed"
    BY DEF Retried
  <2>. QED BY <2>1, <2>2
<1>6. ASSUME NEW a \in Attempts, MonitorStops(a) \/ MonitorFires(a) PROVE Rests
  BY <1>6 DEF MonitorStops, MonitorFires, queue
<1>7. WriterCounts \/ WriterReturns \/ RestartTriggered \/ Shutdown \/ UNCHANGED vars => Rests
  BY DEF WriterCounts, WriterReturns, RestartTriggered, Shutdown, vars, queue
<1>8. EngineStep \/ EnginePanics => Rests
  BY DEF EngineStep, EnginePanics, EngineTakes, SearchFails, SearchFinds, EnginePushes,
     EngineFinishes, PlaceFails, PlaceBecomesEmail, UnitScraped, EngineSends, EngineExits, queue
<1>. HIDE DEF Moves, Rests
<1>9. \/ \E j \in ScrapeJobs : WorkStarts(j)
      \/ Registered /\ \E why \in {"submit", "timer", "deadline", "cancelled"} : GivesUp(why)
      \/ WorkReturns
      \/ \E a \in Attempts : MarkDone(a) \/ Save(a)
      \/ WriterAdds \/ Crash \/ RiverFinishes \/ Moves \/ Rests
  BY <1>1, <1>2, <1>3, <1>4, <1>5, <1>6, <1>7, <1>8
     DEF Next, RiverStep, WorkStep, MonitorStep, WriterStep
<1>. QED BY <1>9 DEF Moves, Rests

LEMMA FlushTypeStep ==
  ASSUME QueueInv, QueueInv', EngineInv, FlushType, [Next]_vars
  PROVE  FlushType'
<1>1. CASE UNCHANGED <<saved, flush>>
  BY <1>1 DEF FlushType, flush
<1>2. ASSUME NEW j \in ScrapeJobs, WorkStarts(j) PROVE FlushType'
  <2>1. <<j, tries[j] + 1>> = Attempt' /\ ~WorkIs("idle")'
    BY <1>2 DEF WorkStarts, Attempt, WorkIs, QueueInv
  <2>2. Attempt' \in Attempts
    <3>1. work'.job = j /\ tries'[j] \in 0..MaxAttempts /\ tries'[j] > 0
      BY <1>2, <2>1 DEF WorkStarts, QueueInv
    <3>2. tries'[j] \in 1..MaxAttempts
      BY <3>1, Bounds
    <3>. QED BY <3>1, <3>2 DEF Attempt, Attempts
  <2>. QED BY <1>2, <2>1, <2>2 DEF WorkStarts, FlushType
<1>3. ASSUME NEW j \in ScrapeJobs, Tracks(j), Takes(j), UNCHANGED <<saved, reply>>
      PROVE  FlushType'
  BY <1>3 DEF Tracks, Takes, FlushType
<1>4. ASSUME NEW why, ~WorkIs("idle"), GivesUp(why) PROVE FlushType'
  <2>1. work.job \in ScrapeJobs
    BY <1>4, AttemptAtWork
  <2>. QED BY <1>4, <2>1, <1>1, <1>3 DEF GivesUp, flush
<1>5. CASE WorkReturns
  BY <1>5 DEF WorkReturns, FlushType
<1>6. ASSUME NEW a \in Attempts, MarkDone(a) PROVE FlushType'
  BY <1>6, <1>1, <1>3, AttemptFacts DEF MarkDone, flush
<1>7. ASSUME NEW a \in Attempts, Save(a) PROVE FlushType'
  <2>0. /\ saving[a] # None /\ a[1] \in ScrapeJobs
        /\ saving' = [saving EXCEPT ![a] = None] /\ UNCHANGED current
    BY <1>7, AttemptFacts DEF Save
  <2>1. saving[a] \in SUBSET Units
    BY <2>0 DEF FlushType
  <2>2. PICK r \in {"empty", "some", "error"} : reply' = [reply EXCEPT ![a] = r]
    BY <1>7 DEF Save
  <2>3. saved' \in {saved, [saved EXCEPT ![a[1]] = saving[a]]}
    BY <1>7 DEF Save
  <2>4. saved' \in [ScrapeJobs -> (SUBSET Units) \cup {None}]
    BY <2>0, <2>1, <2>3 DEF FlushType
  <2>. QED BY <2>0, <2>2, <2>4 DEF FlushType
<1>8. CASE WriterAdds
  <2>1. PICK u \in wr.todo : AddResult(u)
    BY <1>8 DEF WriterAdds
  <2>2. u \in Units
    BY <2>1 DEF EngineInv
  <2>3. current' \in {current, [current EXCEPT !.entries = @ \cup {u}]}
        /\ (current = None => current' = None)
    BY <2>1 DEF AddResult, Tracks
  <2>4. UNCHANGED <<saved, saving, reply>>
    BY <1>8 DEF WriterAdds
  <2>5. current # None => [current EXCEPT !.entries = @ \cup {u}] \in [for : Attempts, entries : SUBSET Units]
    BY <2>2 DEF FlushType
  <2>. QED BY <2>3, <2>4, <2>5 DEF FlushType
<1>9. CASE Crash
  BY <1>9 DEF Crash, FlushType
<1>10. CASE RiverFinishes
  BY <1>10, <1>1 DEF RiverFinishes
<1>. QED BY <1>1, <1>2, <1>4, <1>5, <1>6, <1>7, <1>8, <1>9, <1>10, FlushCases DEF Registered, WorkIs

\* An entry enters under its own job, and a flush takes all of one attempt.
LEMMA OwnStep ==
  ASSUME EngineInv, FlushType, OwnResults, [Next]_vars
  PROVE  OwnResults'
<1>. USE DEF OwnResults, NoForeignResults
<1>1. CASE UNCHANGED <<saved, flush>>
  BY <1>1 DEF flush
<1>2. ASSUME NEW j \in ScrapeJobs, WorkStarts(j) PROVE OwnResults'
  <2>1. current' = [for |-> <<j, tries[j] + 1>>, entries |-> {}] /\ UNCHANGED <<saving, saved>>
    BY <1>2 DEF WorkStarts
  <2>. QED BY <2>1
<1>3. ASSUME NEW j, Tracks(j), Takes(j), UNCHANGED saved PROVE OwnResults'
  <2>1. /\ current # None /\ current' = None
        /\ saving' = [saving EXCEPT ![current.for] = current.entries]
    BY <1>3 DEF Tracks, Takes
  <2>2. ASSUME NEW a \in Attempts, NEW u \in saving'[a], saving'[a] # None
        PROVE  u[1][1] = a[1]
    <3>1. CASE a = current.for
      BY <2>1, <2>2, <3>1 DEF FlushType
    <3>2. CASE a # current.for
      BY <2>1, <2>2, <3>2 DEF FlushType
    <3>. QED BY <3>1, <3>2
  <2>. QED BY <1>3, <2>1, <2>2
<1>4. ASSUME NEW why, GivesUp(why) PROVE OwnResults'
  BY <1>4, <1>1, <1>3 DEF GivesUp, flush
<1>5. CASE WorkReturns
  BY <1>5 DEF WorkReturns
<1>6. ASSUME NEW a \in Attempts, MarkDone(a) PROVE OwnResults'
  BY <1>6, <1>1, <1>3 DEF MarkDone, flush
<1>7. ASSUME NEW a \in Attempts, Save(a) PROVE OwnResults'
  <2>1. /\ saving[a] # None /\ a[1] \in ScrapeJobs
        /\ saving' = [saving EXCEPT ![a] = None] /\ UNCHANGED current
        /\ saved' \in {saved, [saved EXCEPT ![a[1]] = saving[a]]}
    BY <1>7, AttemptFacts DEF Save
  <2>2. \A u \in saving[a] : u[1][1] = a[1]
    BY <2>1
  <2>3. NoForeignResults'
    BY <2>1, <2>2 DEF FlushType
  <2>4. ASSUME NEW b \in Attempts, saving'[b] # None PROVE saving'[b] = saving[b]
    BY <2>1, <2>4 DEF FlushType
  <2>. QED BY <2>1, <2>3, <2>4
<1>8. CASE WriterAdds
  <2>1. PICK u \in wr.todo : AddResult(u)
    BY <1>8 DEF WriterAdds
  <2>2. UNCHANGED <<saved, saving>>
    BY <1>8 DEF WriterAdds
  <2>3. CASE Tracks(u[1][1])
    <3>1. current # None /\ current.for[1] = u[1][1]
          /\ current' = [current EXCEPT !.entries = @ \cup {u}]
      BY <2>1, <2>3 DEF AddResult, Tracks
    <3>2. current'.for = current.for /\ current'.entries = current.entries \cup {u}
      BY <3>1 DEF FlushType
    <3>. QED BY <2>2, <3>1, <3>2
  <2>. QED BY <2>1, <2>2, <2>3 DEF AddResult
<1>9. CASE Crash
  BY <1>9 DEF Crash
<1>10. CASE RiverFinishes
  BY <1>10, <1>1 DEF RiverFinishes
<1>. QED BY <1>1, <1>2, <1>4, <1>5, <1>6, <1>7, <1>8, <1>9, <1>10, FlushCases

\* Whoever moves Work on has flushed its attempt or finds it flushed.
LEMMA TrackedStep ==
  ASSUME QueueInv, QueueInv', EngineInv, FlushType, FlushType', Tracked, [Next]_vars
  PROVE  Tracked'
<1>. USE DEF Tracked
<1>1. ASSUME NEW j \in ScrapeJobs, WorkStarts(j) PROVE Tracked'
  <2>1. /\ work' = [pc |-> "registered", job |-> j, why |-> "none"]
        /\ tries' = [tries EXCEPT ![j] = @ + 1]
        /\ current' = [for |-> <<j, tries[j] + 1>>, entries |-> {}]
        /\ UNCHANGED <<saving, reply>>
    BY <1>1 DEF WorkStarts
  <2>2. tries[j] \in Nat /\ tries'[j] = tries[j] + 1 /\ tries'[j] \in 0..MaxAttempts
    <3>1. /\ tries[j] \in 0..MaxAttempts /\ tries'[j] \in 0..MaxAttempts
          /\ tries'[j] = tries[j] + 1
      BY <2>1 DEF QueueInv
    <3>. QED BY <3>1, Bounds
  <2>3. Attempt' = <<j, tries[j] + 1>> /\ Attempt' \in Attempts
    <3>1. Attempt' = <<j, tries[j] + 1>>
      BY <2>1, <2>2 DEF Attempt
    <3>2. tries[j] + 1 \in 1..MaxAttempts
      BY <2>2, Bounds
    <3>. QED BY <3>1, <3>2 DEF Attempts
  <2>4. saving[Attempt'] = None /\ reply[Attempt'] = "none"
    BY <2>2, <2>3
  <2>5. ASSUME NEW a \in Attempts, a[2] > tries'[a[1]] PROVE a[2] > tries[a[1]]
    <3>1. a[1] \in ScrapeJobs /\ a[2] \in Nat
      BY AttemptFacts, Bounds
    <3>2. a[1] # j => tries'[a[1]] = tries[a[1]]
      BY <2>1, <3>1 DEF QueueInv
    <3>. QED BY <2>2, <2>5, <3>1, <3>2
  <2>6. \A a \in Attempts : a[2] > tries'[a[1]] => saving'[a] = None /\ reply'[a] = "none"
    BY <2>1, <2>5
  <2>. QED BY <2>1, <2>3, <2>4, <2>6 DEF Registered
<1>2. ASSUME NEW j, Tracks(j), Takes(j), UNCHANGED <<tries, reply>> PROVE Tracked'
  <2>1. /\ current # None /\ current' = None /\ current.for = Attempt
        /\ saving' = [saving EXCEPT ![current.for] = current.entries]
    BY <1>2 DEF Tracks, Takes
  <2>2. ~(Attempt[2] > tries[Attempt[1]])
    <3>1. work.job \in ScrapeJobs /\ tries[work.job] \in 0..MaxAttempts
      BY <2>1, AttemptAtWork DEF Registered, WorkIs, QueueInv
    <3>. QED BY <3>1, Bounds DEF Attempt
  <2>3. ASSUME NEW a \in Attempts, a[2] > tries[a[1]] PROVE saving'[a] = None
    BY <2>1, <2>2, <2>3 DEF FlushType
  <2>. QED BY <1>2, <2>1, <2>3
<1>3. ASSUME NEW why, Registered, GivesUp(why) PROVE Tracked'
  <2>1. CASE Tracks(work.job)
    BY <1>3, <2>1, <1>2 DEF GivesUp, queue
  <2>2. CASE ~Tracks(work.job)
    <3>1. current = None
      BY <2>2 DEF Tracks, Attempt
    <3>. QED BY <1>3, <2>2, <3>1 DEF GivesUp, queue
  <2>. QED BY <2>1, <2>2
<1>4. CASE WorkReturns
  <2>1. /\ work.pc \in {"waiting", "grace"} /\ reply[Attempt] # "none"
        /\ reply' = [reply EXCEPT ![Attempt] = "none"]
        /\ UNCHANGED <<tries, current, saving>>
    BY <1>4 DEF WorkReturns, WorkIs, queue
  <2>2. current = None
    BY <2>1
  <2>3. \A a \in Attempts : reply'[a] \in {reply[a], "none"}
    BY <2>1 DEF FlushType
  <2>. QED BY <2>1, <2>2, <2>3
<1>5. ASSUME NEW a \in Attempts, MarkDone(a) PROVE Tracked'
  <2>1. CASE Tracks(a[1])
    BY <1>5, <2>1, <1>2 DEF MarkDone, queue
  <2>2. CASE ~Tracks(a[1])
    BY <1>5, <2>2 DEF MarkDone, queue, Registered, Attempt
  <2>. QED BY <2>1, <2>2
<1>6. ASSUME NEW a \in Attempts, Save(a) PROVE Tracked'
  <2>1. /\ saving[a] # None /\ UNCHANGED <<tries, current>>
        /\ saving' = [saving EXCEPT ![a] = None]
        /\ \E r \in {"empty", "some", "error"} : reply' = [reply EXCEPT ![a] = r]
        /\ work' \in {work, [work EXCEPT !.pc = "grace"]}
        /\ Registered => work' = work
    BY <1>6 DEF Save, WorkGoesTo, WorkIs, Registered, queue
  <2>2. work'.job = work.job
    BY <2>1 DEF QueueInv
  <2>3. Attempt' = Attempt
    BY <2>1, <2>2 DEF Attempt
  <2>4. ASSUME NEW b \in Attempts, saving[b] = None
        PROVE  saving'[b] = None /\ reply'[b] = reply[b]
    BY <2>1, <2>4 DEF FlushType
  <2>5. current # None => Attempt \in Attempts
    BY AttemptAtWork DEF Registered, WorkIs
  <2>. QED BY <2>1, <2>3, <2>4, <2>5 DEF Registered
<1>7. CASE WriterAdds
  <2>1. UNCHANGED <<tries, work, saving, reply>>
    BY <1>7 DEF WriterAdds, queue
  <2>2. PICK u \in wr.todo : AddResult(u)
    BY <1>7 DEF WriterAdds
  <2>3. current' # None => current # None /\ current'.for = current.for
    BY <2>2 DEF AddResult, Tracks, FlushType
  <2>. QED BY <2>1, <2>3 DEF Registered, Attempt
<1>8. CASE Crash
  BY <1>8 DEF Crash
<1>9. CASE RiverFinishes
  <2>1. current = None
    BY <1>9 DEF RiverFinishes, Registered, WorkIs
  <2>. QED BY <1>9, <2>1 DEF RiverFinishes, flush
<1>10. ASSUME NEW pc \in {"submitting", "submitting stale", "waiting"},
              work' = [work EXCEPT !.pc = pc], UNCHANGED <<tries, flush>>
       PROVE  Tracked'
  <2>1. work'.pc = pc /\ work'.job = work.job
    BY <1>10 DEF QueueInv
  <2>. QED BY <1>10, <2>1 DEF Registered, Attempt, flush
<1>11. CASE UNCHANGED <<tries, flush, work>>
  BY <1>11 DEF Registered, Attempt, flush
<1>. QED BY <1>1, <1>3, <1>4, <1>5, <1>6, <1>7, <1>8, <1>9, <1>10, <1>11, FlushCases

\* A row, once saved, stays; a reply other than an error follows a row.
LEMMA RowStep ==
  ASSUME QueueInv, FlushType, RowKept, [Next]_vars
  PROVE  RowKept'
<1>. USE DEF RowKept, CompletedHasRow
<1>1. ASSUME UNCHANGED <<saved, reply>>, WorkIs("succeeded")' => WorkIs("succeeded"),
             WorkIs("succeeded") => work'.job = work.job,
             \A j \in ScrapeJobs : state[j] # "completed" => state'[j] # "completed"
      PROVE  RowKept'
  BY <1>1
<1>2. ASSUME NEW j \in ScrapeJobs, WorkStarts(j) PROVE RowKept'
  BY <1>2 DEF WorkStarts, QueueInv, WorkIs
<1>3. ASSUME NEW why, Registered, GivesUp(why) PROVE RowKept'
  <2>1. \E pc \in {"saving", "grace"} : work' = [work EXCEPT !.pc = pc, !.why = why]
    BY <1>3 DEF GivesUp
  <2>2. ~WorkIs("succeeded")' /\ ~WorkIs("succeeded")
    BY <1>3, <2>1 DEF QueueInv, WorkIs, Registered
  <2>. QED BY <1>3, <2>2, <1>1 DEF GivesUp, queue
<1>4. CASE WorkReturns
  <2>1. /\ reply[Attempt] # "none" /\ ~WorkIs("idle")
        /\ reply' = [reply EXCEPT ![Attempt] = "none"]
        /\ work' = [work EXCEPT !.why = "none",
                      !.pc = IF Errs(reply[Attempt], work.why) THEN "failed" ELSE "succeeded"]
        /\ UNCHANGED <<state, tries, saved>>
    BY <1>4 DEF WorkReturns, WorkIs, queue
  <2>2. Attempt \in Attempts /\ Attempt[1] = work.job
    BY <2>1, AttemptAtWork DEF Attempt
  <2>3. work'.job = work.job
        /\ (work'.pc = "succeeded" => reply[Attempt] # "error")
    BY <2>1 DEF QueueInv, Errs
  <2>4. work'.pc = "succeeded" => saved[work.job] # None
    BY <2>1, <2>2, <2>3 DEF FlushType
  <2>5. \A a \in Attempts : reply'[a] \in {reply[a], "none"}
    BY <2>1 DEF FlushType
  <2>. QED BY <2>1, <2>3, <2>4, <2>5 DEF WorkIs
<1>5. ASSUME NEW a \in Attempts, MarkDone(a) PROVE RowKept'
  BY <1>5, <1>1 DEF MarkDone, Takes, WorkIs, queue
<1>6. ASSUME NEW a \in Attempts, Save(a) PROVE RowKept'
  <2>1. /\ saving[a] # None /\ a[1] \in ScrapeJobs /\ UNCHANGED <<state, tries>>
        /\ work' \in {work, [work EXCEPT !.pc = "grace"]}
        /\ \/ /\ saved' = [saved EXCEPT ![a[1]] = saving[a]]
              /\ \E r \in {"empty", "some"} : reply' = [reply EXCEPT ![a] = r]
           \/ /\ saved' \in {saved, [saved EXCEPT ![a[1]] = saving[a]]}
              /\ reply' = [reply EXCEPT ![a] = "error"]
    BY <1>6, AttemptFacts DEF Save, WorkGoesTo, WorkIs, queue
  <2>2. ASSUME NEW j \in ScrapeJobs, saved[j] # None PROVE saved'[j] # None
    BY <2>1, <2>2 DEF FlushType
  <2>3. ASSUME NEW b \in Attempts, reply'[b] \in {"empty", "some"} PROVE saved'[b[1]] # None
    <3>1. b[1] \in ScrapeJobs
      BY AttemptFacts
    <3>2. CASE b # a
      BY <2>1, <2>2, <2>3, <3>1, <3>2 DEF FlushType
    <3>3. CASE b = a
      BY <2>1, <2>3, <3>3 DEF FlushType
    <3>. QED BY <3>2, <3>3
  <2>4. WorkIs("succeeded")' => WorkIs("succeeded") /\ work' = work
    BY <2>1 DEF QueueInv, WorkIs
  <2>5. WorkIs("succeeded") => work.job \in ScrapeJobs
    BY AttemptAtWork DEF WorkIs
  <2>. QED BY <2>1, <2>2, <2>3, <2>4, <2>5
<1>7. CASE WriterAdds
  BY <1>7, <1>1 DEF WriterAdds, WorkIs, queue
<1>8. CASE Crash
  BY <1>8 DEF Crash, IdleWork, WorkIs, queue
<1>9. CASE RiverFinishes
  <2>1. work' = IdleWork /\ UNCHANGED <<saved, reply>> /\ ~WorkIs("idle")
    BY <1>9 DEF RiverFinishes, WorkIs, flush
  <2>2. work.job \in ScrapeJobs
    BY <2>1, AttemptAtWork
  <2>3. ASSUME NEW j \in ScrapeJobs, state'[j] = "completed"
        PROVE  state[j] = "completed" \/ (j = work.job /\ WorkIs("succeeded"))
    BY <1>9, <2>2, <2>3 DEF RiverFinishes, QueueInv, Retried
  <2>. QED BY <2>1, <2>3 DEF IdleWork, WorkIs
<1>10. ASSUME NEW pc \in {"submitting", "submitting stale", "waiting"}, Registered,
              work' = [work EXCEPT !.pc = pc], UNCHANGED <<state, saved, flush>>
       PROVE  RowKept'
  <2>1. ~WorkIs("succeeded")' /\ ~WorkIs("succeeded")
    BY <1>10 DEF QueueInv, WorkIs, Registered
  <2>. QED BY <1>10, <2>1 DEF flush
<1>11. ASSUME UNCHANGED <<saved, flush, work>>,
              \A j \in ScrapeJobs : state[j] # "completed" => state'[j] # "completed"
       PROVE  RowKept'
  BY <1>11, <1>1 DEF flush, WorkIs
<1>. QED BY <1>2, <1>3, <1>4, <1>5, <1>6, <1>7, <1>8, <1>9, <1>10, <1>11, FlushCases

-----------------------------------------------------------------------------
(* Counting the jobs of a provider.                                         *)

LEMMA WhereFinite ==
  ASSUME NEW S, NEW q \in Seq(S), NEW J
  PROVE  IsFiniteSet(Where(q, J)) /\ Held(q, J) \in Nat
<1>1. IsFiniteSet(1..Len(q))
  BY FS_Interval
<1>2. Where(q, J) \in SUBSET (1..Len(q))
  BY DEF Where
<1>. QED BY <1>1, <1>2, FS_Subset, FS_CardinalityType DEF Held

LEMMA HeldAppend ==
  ASSUME NEW S, NEW q \in Seq(S), NEW x \in S, NEW J
  PROVE  Held(Append(q, x), J) = Held(q, J) + IF x \in J THEN 1 ELSE 0
<1>. DEFINE last == Len(q) + 1
<1>1. IsFiniteSet(Where(q, J)) /\ Held(q, J) \in Nat
  BY WhereFinite
<1>2. last \notin Where(q, J)
  BY DEF Where
<1>3. CASE x \in J
  <2>1. Where(Append(q, x), J) = Where(q, J) \cup {last}
    BY <1>3 DEF Where
  <2>. QED BY <1>1, <1>2, <1>3, <2>1, FS_AddElement DEF Held
<1>4. CASE x \notin J
  <2>1. Where(Append(q, x), J) = Where(q, J)
    BY <1>4 DEF Where
  <2>. QED BY <1>1, <1>4, <2>1 DEF Held
<1>. QED BY <1>3, <1>4

LEMMA HeldTail ==
  ASSUME NEW S, NEW q \in Seq(S), q # <<>>, NEW J
  PROVE  Held(q, J) = Held(Tail(q), J) + IF Head(q) \in J THEN 1 ELSE 0
<1>. DEFINE rest == Where(Tail(q), J)
            shift == [k \in rest |-> k + 1]
<1>1. IsFiniteSet(Where(q, J)) /\ Held(q, J) \in Nat
  BY WhereFinite
<1>2. Tail(q) \in Seq(S) /\ Len(q) \in Nat \ {0}
      /\ \A k \in 1..(Len(q) - 1) : Tail(q)[k] = q[k + 1]
      /\ DOMAIN Tail(q) = 1..(Len(q) - 1) /\ DOMAIN q = 1..Len(q) /\ Head(q) = q[1]
  OBVIOUS
<1>3. IsFiniteSet(rest) /\ Held(Tail(q), J) \in Nat
  BY <1>2, WhereFinite
<1>4. shift \in Bijection(rest, Where(q, J) \ {1})
  <2>1. \A k \in rest : k \in 1..(Len(q) - 1) /\ q[k + 1] \in J
    BY <1>2 DEF Where
  <2>2. \A k \in rest : shift[k] \in Where(q, J) \ {1}
    BY <1>2, <2>1 DEF Where
  <2>3. ASSUME NEW i \in Where(q, J) \ {1} PROVE i - 1 \in rest /\ shift[i - 1] = i
    <3>1. i \in 2..Len(q) /\ q[i] \in J
      BY <1>2 DEF Where
    <3>2. i - 1 \in 1..(Len(q) - 1) /\ Tail(q)[i - 1] = q[i]
      BY <1>2, <3>1
    <3>. QED BY <1>2, <3>1, <3>2 DEF Where
  <2>4. \A k, l \in rest : shift[k] = shift[l] => k = l
    BY <2>1
  <2>. QED BY <2>2, <2>3, <2>4, Fun_IsBij
<1>5. Cardinality(Where(q, J) \ {1}) = Held(Tail(q), J)
  BY <1>3, <1>4, FS_Bijection DEF Held, ExistsBijection
<1>6. 1 \in Where(q, J) <=> Head(q) \in J
  BY <1>2 DEF Where
<1>7. Cardinality(Where(q, J) \ {1}) =
        IF 1 \in Where(q, J) THEN Cardinality(Where(q, J)) - 1 ELSE Cardinality(Where(q, J))
  BY <1>1, FS_RemoveElement
<1>. QED BY <1>1, <1>3, <1>5, <1>6, <1>7 DEF Held

LEMMA HeldNone ==
  ASSUME NEW J
  PROVE  Held(<<>>, J) = 0
<1>1. Where(<<>>, J) = {}
  BY DEF Where
<1>. QED BY <1>1, FS_EmptySet DEF Held

LEMMA HeldSome ==
  ASSUME NEW S, NEW q \in Seq(S), NEW J, Held(q, J) = 0
  PROVE  \A k \in DOMAIN q : q[k] \notin J
<1>1. IsFiniteSet(Where(q, J))
  BY WhereFinite
<1>2. Where(q, J) = {}
  BY <1>1, FS_EmptySet DEF Held
<1>. QED BY <1>2 DEF Where

-----------------------------------------------------------------------------
(* What an attempt has on its way.                                          *)

\* Whose job it is, and what kind.
LEMMA JobKinds ==
  ASSUME NEW ej \in EngineJobs, NEW a \in Attempts
  PROVE  /\ ej \in UnitJobs(a) <=> ej.kind \in {"place", "email"} /\ AttemptOf(ej) = a
         /\ ej \in SearchJobs(a) <=> ej.kind = "search" /\ AttemptOf(ej) = a
         /\ ej.kind \in {"search", "place", "email"}
<1>1. CASE ej \in [kind : {"search"}, for : Attempts]
  BY <1>1 DEF UnitJobs, SearchJobs, AttemptOf
<1>2. CASE ej \in [kind : {"place", "email"}, for : Units]
  BY <1>2 DEF UnitJobs, SearchJobs, AttemptOf
<1>. QED BY <1>1, <1>2 DEF EngineJobs

LEMMA Sizes ==
  ASSUME EngineInv, NEW a \in Attempts
  PROVE  /\ Held(prov, UnitJobs(a)) \in Nat /\ Held(prov, SearchJobs(a)) \in Nat
         /\ AtEngine(a) \in Nat /\ AtWriter(a) \in Nat
         /\ Out(a) \in Nat /\ Searches(a) \in Nat
<1>1. Held(prov, UnitJobs(a)) \in Nat /\ Held(prov, SearchJobs(a)) \in Nat
  BY WhereFinite DEF EngineInv
<1>2. Cardinality(eng.todo) \in Nat
  BY UnitsFinite DEF EngineInv
<1>3. AtEngine(a) \in Nat /\ AtWriter(a) \in Nat
  BY <1>2 DEF AtEngine, AtWriter, EngineInv
<1>. QED BY <1>1, <1>3 DEF Out, Searches

\* An attempt once submitted stays so.
LEMMA SubmittedStays ==
  ASSUME QueueInv, [Next]_vars, NEW a \in Attempts
  PROVE  Unsubmitted(a)' => Unsubmitted(a)
<1>. DEFINE Early == {"registered", "submitting", "submitting stale"}
            Leaves == \E pc, why : pc \notin Early /\ work' = [work EXCEPT !.pc = pc, !.why = why]
            Moves == \E pc : /\ work' = [work EXCEPT !.pc = pc]
                             /\ Submitting \/ pc \notin Early
<1>1. ASSUME NEW j \in ScrapeJobs, WorkStarts(j) PROVE Unsubmitted(a)' => Unsubmitted(a)
  <2>1. /\ tries' = [tries EXCEPT ![j] = @ + 1] /\ work'.job = j
        /\ tries \in [ScrapeJobs -> Nat]
    <3>1. tries \in [ScrapeJobs -> 0..MaxAttempts]
      BY DEF QueueInv
    <3>2. 0..MaxAttempts \subseteq Nat
      BY Bounds
    <3>. QED BY <1>1, <3>1, <3>2 DEF WorkStarts
  <2>2. a = Attempt' => a[1] = j /\ a[2] = tries[j] + 1
    BY <2>1 DEF Attempt
  <2>3. a[1] \in ScrapeJobs /\ a[2] \in Nat
    BY AttemptFacts, Bounds
  <2>4. tries'[a[1]] >= tries[a[1]] /\ tries[a[1]] \in Nat /\ tries'[a[1]] \in Nat
    BY <2>1, <2>3
  <2>5. a[2] > tries'[a[1]] => a[2] > tries[a[1]]
    BY <2>3, <2>4
  <2>6. a = Attempt' => a[2] > tries[a[1]]
    BY <2>1, <2>2
  <2>. QED BY <2>5, <2>6 DEF Unsubmitted
<1>2. ASSUME UNCHANGED tries, work' = work \/ Leaves \/ Moves \/ work' = IdleWork
      PROVE  Unsubmitted(a)' => Unsubmitted(a)
  <2>1. CASE work' = work
    BY <1>2, <2>1 DEF Unsubmitted, Submitting, Attempt
  <2>2. CASE Submitting' => Submitting /\ work'.job = work.job
    BY <1>2, <2>2 DEF Unsubmitted, Attempt
  <2>3. CASE Leaves \/ Moves
    BY <2>2, <2>3 DEF Submitting, QueueInv
  <2>4. CASE work' = IdleWork
    BY <2>2, <2>4 DEF Submitting, IdleWork
  <2>. QED BY <1>2, <2>1, <2>3, <2>4
<1>3. ASSUME \/ RiverFinishes \/ Crash
             \/ \E j \in ScrapeJobs : PromoteRetryable(j) \/ RescueStuck(j)
      PROVE  UNCHANGED tries /\ (work' = work \/ work' = IdleWork)
  BY <1>3 DEF RiverFinishes, Crash, PromoteRetryable, RescueStuck, queue
<1>4. GetsProvider \/ Submits => UNCHANGED tries /\ Moves
  BY DEF GetsProvider, Submits, WorkGoesTo, WorkIs, Submitting, queue
<1>5. ASSUME SubmitFails \/ WorkTimesOut \/ ContextDone PROVE UNCHANGED tries /\ Leaves
  <2>1. PICK why : GivesUp(why)
    BY <1>5 DEF SubmitFails, WorkTimesOut, ContextDone
  <2>. QED BY <2>1 DEF GivesUp, queue
<1>6. ASSUME WorkReturns PROVE UNCHANGED tries /\ Leaves
  <2>1. \E pc \in {"failed", "succeeded"} : work' = [work EXCEPT !.pc = pc, !.why = "none"]
    BY <1>6 DEF WorkReturns, QueueInv
  <2>. QED BY <1>6, <2>1 DEF WorkReturns, queue
<1>7. ASSUME NEW b \in Attempts, MonitorStep(b)
      PROVE  UNCHANGED tries /\ (work' = work \/ work' = [work EXCEPT !.pc = "grace"])
  BY <1>7 DEF MonitorStep, MonitorStops, MonitorFires, MarkDone, Save, WorkGoesTo, queue
<1>8. ASSUME CycleStarts PROVE UNCHANGED tries /\ (work' = work \/ Moves)
  BY <1>8 DEF CycleStarts, WorkIs, Submitting, queue
<1>9. RestartTriggered \/ Shutdown \/ WriterStep \/ EnginePanics \/ UNCHANGED vars
      => UNCHANGED <<tries, work>>
  BY DEF RestartTriggered, Shutdown, WriterStep, WriterAdds, WriterCounts, WriterReturns,
     EnginePanics, vars, queue
<1>10. EngineStep => UNCHANGED <<tries, work>>
  BY DEF EngineStep, EngineTakes, SearchFails, SearchFinds, EnginePushes,
     EngineFinishes, PlaceFails, PlaceBecomesEmail, UnitScraped, EngineSends, EngineExits, queue
<1>. QED BY <1>1, <1>2, <1>3, <1>4, <1>5, <1>6, <1>7, <1>8, <1>9, <1>10 DEF Next, RiverStep, WorkStep

LEMMA HandStep ==
  ASSUME EngineInv, HandInv, [Next]_vars
  PROVE  HandInv'
<1>. USE DEF HandInv
<1>1. CASE UNCHANGED <<eng, wr>>
  BY <1>1
<1>2. ASSUME eng' = IdleEngine \/ (eng.pc = "idle" /\ eng' = [eng EXCEPT !.pc = "exited"]),
             UNCHANGED wr
      PROVE  HandInv'
  BY <1>2 DEF IdleEngine, EngineInv
<1>3. CASE SearchFinds
  <2>1. PICK ps \in SUBSET Places :
          eng' = [eng EXCEPT !.pc = IF eng.job.for[1] \in FastJobs THEN "send" ELSE "push",
                             !.todo = Found(ps)]
    BY <1>3 DEF SearchFinds
  <2>2. eng.pc = "run" /\ eng.job.kind = "search" /\ UNCHANGED wr
    BY <1>3 DEF SearchFinds, Processes
  <2>3. eng'.job = eng.job /\ eng'.todo = Found(ps)
    BY <2>1 DEF EngineInv
  <2>4. AttemptOf(eng.job) = eng.job.for
    BY <2>2 DEF AttemptOf
  <2>. QED BY <2>2, <2>3, <2>4 DEF Found
<1>4. CASE EnginePushes
  <2>1. PICK u \in eng.todo : eng' = [eng EXCEPT !.todo = @ \ {u}]
    BY <1>4 DEF EnginePushes
  <2>2. eng'.job = eng.job /\ eng'.pc = eng.pc /\ eng'.todo = eng.todo \ {u} /\ UNCHANGED wr
    BY <1>4, <2>1 DEF EnginePushes, EngineInv
  <2>. QED BY <2>2
<1>5. CASE PlaceBecomesEmail \/ UnitScraped
  <2>1. eng'.job = eng.job /\ eng'.todo = {eng.job.for} /\ UNCHANGED wr
    BY <1>5 DEF PlaceBecomesEmail, UnitScraped, EngineInv
  <2>2. AttemptOf(eng.job) = eng.job.for[1]
    BY <1>5 DEF PlaceBecomesEmail, UnitScraped, Processes, AttemptOf
  <2>. QED BY <2>1, <2>2
<1>6. CASE EngineSends
  <2>1. IsFiniteSet(eng.todo)
    BY UnitsFinite DEF EngineInv
  <2>2. Cardinality(eng.todo) = 0 => eng.todo = {}
    BY <2>1, FS_EmptySet
  <2>. QED BY <1>6, <2>2 DEF EngineSends, IdleEngine
<1>7. CASE WriterAdds
  <2>1. PICK u \in wr.todo : wr' = [wr EXCEPT !.todo = @ \ {u}]
    BY <1>7 DEF WriterAdds
  <2>. QED BY <1>7, <2>1 DEF WriterAdds, EngineInv
<1>8. CASE WriterCounts \/ WriterReturns
  BY <1>8 DEF WriterCounts, WriterReturns, IdleWriter, EngineInv
<1>9. CASE CycleStarts \/ Crash
  <2>1. eng' = IdleEngine /\ wr' = IdleWriter
    BY <1>9 DEF CycleStarts, Crash
  <2>. QED BY <2>1 DEF IdleEngine, IdleWriter
<1>10. CASE SearchFails \/ PlaceFails \/ EnginePanics \/ EngineFinishes \/ EngineExits
  BY <1>10, <1>2 DEF SearchFails, PlaceFails, EnginePanics, EngineFinishes, EngineExits
<1>11. CASE EngineTakes
  BY <1>11 DEF EngineTakes
<1>12. CASE RiverStep \/ WorkStep
  BY <1>12, <1>1 DEF RiverStep, WorkStep, RiverFinishes, PromoteRetryable, RescueStuck, WorkStarts,
     GetsProvider, Submits, SubmitFails, WorkTimesOut, ContextDone, GivesUp, WorkReturns, engine
<1>13. ASSUME NEW a \in Attempts, MonitorStep(a) PROVE HandInv'
  BY <1>13, <1>1 DEF MonitorStep, MonitorStops, MonitorFires, MarkDone, Save, engine
<1>14. CASE RestartTriggered \/ Shutdown \/ UNCHANGED vars
  BY <1>14, <1>1 DEF RestartTriggered, Shutdown, vars, engine
<1>. QED
  BY <1>3, <1>4, <1>5, <1>6, <1>7, <1>8, <1>9, <1>10, <1>11, <1>12, <1>13, <1>14
  DEF Next, WriterStep, EngineStep

\* What the operations of an exit monitor count; a token stays true.
LEMMA Increments ==
  ASSUME NEW e \in ExiterState, e.doneCh => AllDone(e), NEW n \in Nat
  PROVE  /\ LET f == IncrSeedCompleted(e, n)
            IN  /\ f.seedCount = e.seedCount /\ f.seedCompleted = e.seedCompleted + n
                /\ f.placesCompleted = e.placesCompleted /\ f.placesFound = e.placesFound
                /\ f.doneCh => AllDone(f)
         /\ LET f == IncrPlacesCompleted(e, n)
            IN  /\ f.seedCount = e.seedCount /\ f.seedCompleted = e.seedCompleted
                /\ f.placesCompleted = e.placesCompleted + n /\ f.placesFound = e.placesFound
                /\ f.doneCh => AllDone(f)
         /\ LET f == IncrPlacesFound(e, n)
            IN  /\ f.seedCount = e.seedCount /\ f.seedCompleted = e.seedCompleted
                /\ f.placesCompleted = e.placesCompleted /\ f.placesFound = e.placesFound + n
                /\ f.doneCh = e.doneCh
<1>. USE DEF ExiterState, AllDone, Notify
<1>1. LET f == IncrSeedCompleted(e, n)
      IN  /\ f.seedCount = e.seedCount /\ f.seedCompleted = e.seedCompleted + n
          /\ f.placesCompleted = e.placesCompleted /\ f.placesFound = e.placesFound
          /\ f.doneCh => AllDone(f)
  BY DEF IncrSeedCompleted
<1>2. LET f == IncrPlacesCompleted(e, n)
      IN  /\ f.seedCount = e.seedCount /\ f.seedCompleted = e.seedCompleted
          /\ f.placesCompleted = e.placesCompleted + n /\ f.placesFound = e.placesFound
          /\ f.doneCh => AllDone(f)
  BY DEF IncrPlacesCompleted
<1>3. LET f == IncrPlacesFound(e, n)
      IN  /\ f.seedCount = e.seedCount /\ f.seedCompleted = e.seedCompleted
          /\ f.placesCompleted = e.placesCompleted /\ f.placesFound = e.placesFound + n
          /\ f.doneCh = e.doneCh
  BY DEF IncrPlacesFound
<1>. HIDE DEF ExiterState, AllDone, Notify
<1>. QED BY <1>1, <1>2, <1>3

\* The counters of a monitor and what is on its way move together.
LEMMA CollectedStep ==
  ASSUME QueueInv, EngineInv, EngineInv', MonitorInv, HandInv, [Next]_vars,
         NEW a \in Attempts, Collected(a)
  PROVE  Collected(a)'
<1>1. /\ Held(prov, UnitJobs(a)) \in Nat /\ Held(prov, SearchJobs(a)) \in Nat
      /\ AtEngine(a) \in Nat /\ AtWriter(a) \in Nat
      /\ Out(a) \in Nat /\ Searches(a) \in Nat
  BY Sizes
<1>2. Out(a)' \in Nat /\ Searches(a)' \in Nat
  <2>1. /\ Held(prov', UnitJobs(a)) \in Nat /\ Held(prov', SearchJobs(a)) \in Nat
    BY WhereFinite DEF EngineInv
  <2>2. Cardinality(eng'.todo) \in Nat
    BY UnitsFinite DEF EngineInv
  <2>3. AtEngine(a)' \in Nat /\ AtWriter(a)' \in Nat
    BY <2>2 DEF AtEngine, AtWriter, EngineInv
  <2>. QED BY <2>1, <2>3 DEF Out, Searches
<1>3. Unsubmitted(a)' => Unsubmitted(a)
  BY SubmittedStays
<1>4. /\ ex[a] \in ExiterState
      /\ ex[a].seedCompleted \in Nat /\ ex[a].placesCompleted \in Nat /\ ex[a].placesFound \in Nat
  BY DEF MonitorInv, ExiterState
\* Nothing is counted, and no more is on its way.
<1>5. ASSUME ex'[a] = ex[a], mon'[a] = mon[a], Out(a)' <= Out(a), Searches(a)' <= Searches(a)
      PROVE  Collected(a)'
  <2>. HIDE DEF Out, Searches, Unsubmitted, NewExiter
  <2>1. Nothing(a) => Nothing(a)'
    BY <1>1, <1>2, <1>5 DEF Nothing
  <2>2. Covered(a) => Covered(a)'
    BY <1>1, <1>2, <1>4, <1>5 DEF Covered
  <2>. HIDE DEF Nothing, Covered
  <2>. QED BY <1>3, <1>5, <2>1, <2>2 DEF Collected
<1>6. ASSUME UNCHANGED engine PROVE Out(a)' = Out(a) /\ Searches(a)' = Searches(a)
  BY <1>6 DEF engine, Out, Searches, Held, Where, AtEngine, AtWriter, Emits
<1>7. ASSUME UNCHANGED <<monitors, engine>> PROVE Collected(a)'
  BY <1>1, <1>5, <1>6, <1>7 DEF monitors
\* A monitor counts what is on its way no more.
<1>8. ASSUME NEW b \in Attempts, NEW e, Counts(b, e), UNCHANGED mon,
             Out(a)' <= Out(a), Searches(a)' <= Searches(a),
             a = b /\ Covered(a) /\ ex'[a] = e => Covered(a)'
      PROVE  Collected(a)'
  <2>1. CASE a # b \/ mon[b] # "watching"
    <3>1. ex'[a] = ex[a] /\ mon'[a] = mon[a]
      BY <1>8, <2>1 DEF Counts, MonitorInv
    <3>. QED BY <3>1, <1>5, <1>8
  <2>2. CASE a = b /\ mon[b] = "watching"
    <3>1. ex'[a] = e /\ mon'[a] = "watching"
      BY <1>8, <2>2 DEF Counts, MonitorInv
    <3>2. Covered(a) /\ ~Unsubmitted(a)
      BY <2>2 DEF Collected
    <3>3. Covered(a)'
      BY <1>8, <2>2, <3>1, <3>2
    <3>. QED BY <1>3, <3>1, <3>2, <3>3 DEF Collected
  <2>. QED BY <2>1, <2>2
\* The engine's worker has a job, or has done with it.
<1>9. ASSUME eng.pc = "run"
      PROVE  /\ AttemptOf(eng.job) \in Attempts /\ ~Emits(a)
             /\ AtEngine(a) = IF eng.job.kind # "search" /\ AttemptOf(eng.job) = a THEN 1 ELSE 0
             /\ Searches(a) = Held(prov, SearchJobs(a)) +
                  IF eng.job.kind = "search" /\ AttemptOf(eng.job) = a THEN 1 ELSE 0
  <2>1. eng.job \in EngineJobs
    BY <1>9 DEF EngineInv
  <2>2. /\ eng.job \in UnitJobs(a) <=> eng.job.kind # "search" /\ AttemptOf(eng.job) = a
        /\ eng.job \in SearchJobs(a) <=> eng.job.kind = "search" /\ AttemptOf(eng.job) = a
    BY <2>1, JobKinds
  <2>3. AttemptOf(eng.job) \in Attempts
    BY <2>1, EngineJobFacts
  <2>. QED BY <1>9, <2>2, <2>3 DEF AtEngine, Emits, Searches
<1>10. ASSUME eng'.pc \in {"idle", "exited"}, UNCHANGED <<prov, wr>>
       PROVE  /\ Out(a)' = Out(a) - AtEngine(a)
              /\ Searches(a)' = Held(prov, SearchJobs(a))
  <2>1. AtEngine(a)' = 0 /\ AtWriter(a)' = AtWriter(a)
    BY <1>10 DEF AtEngine, AtWriter, Emits
  <2>2. Held(prov', UnitJobs(a)) = Held(prov, UnitJobs(a))
        /\ Held(prov', SearchJobs(a)) = Held(prov, SearchJobs(a))
    BY <1>10
  <2>3. Out(a)' = Held(prov, UnitJobs(a)) + AtEngine(a)' + AtWriter(a)'
    BY <2>2 DEF Out
  <2>4. Searches(a)' = Held(prov, SearchJobs(a))
    <3>1. Searches(a)' = Held(prov', SearchJobs(a)) + 0
      BY <1>10 DEF Searches
    <3>. QED BY <2>2, <3>1, <1>1
  <2>. QED BY <1>1, <2>1, <2>3, <2>4 DEF Out
<1>11. Searches(a) >= Held(prov, SearchJobs(a))
  BY <1>1 DEF Searches
<1>12. CASE EnginePanics \/ EngineFinishes \/ EngineExits
  <2>1. eng'.pc \in {"idle", "exited"} /\ UNCHANGED <<monitors, prov, wr>>
    BY <1>12 DEF EnginePanics, EngineFinishes, EngineExits, IdleEngine, EngineInv
  <2>2. Out(a)' <= Out(a) /\ Searches(a)' <= Searches(a)
    BY <1>1, <1>10, <1>11, <2>1
  <2>. QED BY <2>1, <2>2, <1>5 DEF monitors
<1>13. CASE SearchFails
  <2>1. /\ eng.pc = "run" /\ eng.job.kind = "search" /\ AttemptOf(eng.job) = eng.job.for
        /\ Counts(eng.job.for, IncrSeedCompleted(ex[eng.job.for], 1))
        /\ eng'.pc = "idle" /\ UNCHANGED <<mon, prov, wr>>
    BY <1>13 DEF SearchFails, Processes, AttemptOf, IdleEngine
  <2>. DEFINE b == eng.job.for
              e == IncrSeedCompleted(ex[b], 1)
  <2>2. b \in Attempts /\ Out(a)' = Out(a)
        /\ Searches(a)' = Searches(a) - IF a = b THEN 1 ELSE 0
    BY <1>1, <1>9, <1>10, <2>1
  <2>3. ASSUME a = b, Covered(a), ex'[a] = e PROVE Covered(a)'
    <3>1. /\ ex'[a].seedCount = ex[a].seedCount
          /\ ex'[a].seedCompleted = ex[a].seedCompleted + 1
          /\ ex'[a].placesCompleted = ex[a].placesCompleted
          /\ ex'[a].placesFound = ex[a].placesFound
          /\ ex'[a].doneCh => AllDone(ex'[a])
      <4>1. ex'[a] = IncrSeedCompleted(ex[a], 1) /\ (ex[a].doneCh => AllDone(ex[a]))
        BY <2>3 DEF Covered
      <4>. QED BY <1>4, <4>1, Increments
    <3>. HIDE DEF e
    <3>. QED BY <1>1, <1>2, <1>4, <2>2, <2>3, <3>1 DEF Covered
  <2>4. Searches(a)' <= Searches(a)
    BY <1>1, <2>2
  <2>. HIDE DEF e
  <2>. QED BY <1>1, <2>1, <2>2, <2>3, <2>4, <1>8 DEF e
<1>14. CASE PlaceFails
  <2>. DEFINE b == AttemptOf(eng.job)
              e == IncrPlacesCompleted(ex[b], 1)
  <2>1. /\ eng.pc = "run" /\ eng.job.kind = "place"
        /\ Counts(b, e) /\ eng'.pc = "idle" /\ UNCHANGED <<mon, prov, wr>>
    BY <1>14 DEF PlaceFails, Processes, IdleEngine
  <2>2. b \in Attempts /\ Searches(a)' = Searches(a)
        /\ Out(a)' = Out(a) - IF a = b THEN 1 ELSE 0
    BY <1>1, <1>9, <1>10, <2>1
  <2>3. ASSUME a = b, Covered(a), ex'[a] = e PROVE Covered(a)'
    <3>1. /\ ex'[a].seedCount = ex[a].seedCount
          /\ ex'[a].seedCompleted = ex[a].seedCompleted
          /\ ex'[a].placesCompleted = ex[a].placesCompleted + 1
          /\ ex'[a].placesFound = ex[a].placesFound
          /\ ex'[a].doneCh => AllDone(ex'[a])
      <4>1. ex'[a] = IncrPlacesCompleted(ex[a], 1) /\ (ex[a].doneCh => AllDone(ex[a]))
        BY <2>3 DEF Covered
      <4>. QED BY <1>4, <4>1, Increments
    <3>. HIDE DEF e
    <3>. QED BY <1>1, <1>2, <1>4, <2>2, <2>3, <3>1 DEF Covered
  <2>4. Out(a)' <= Out(a)
    BY <1>1, <2>2
  <2>. HIDE DEF e
  <2>. QED BY <1>1, <2>1, <2>2, <2>3, <2>4, <1>8 DEF e
<1>15. CASE SearchFinds
  <2>. DEFINE b == eng.job.for
  <2>1. PICK ps \in SUBSET Places :
          /\ Counts(b, IncrSeedCompleted(IncrPlacesFound(ex[b], Cardinality(ps)), 1))
          /\ eng' = [eng EXCEPT !.pc = IF eng.job.for[1] \in FastJobs THEN "send" ELSE "push",
                                !.todo = Found(ps)]
    BY <1>15 DEF SearchFinds
  <2>. DEFINE e == IncrSeedCompleted(IncrPlacesFound(ex[b], Cardinality(ps)), 1)
  <2>2. /\ eng.pc = "run" /\ eng.job.kind = "search" /\ AttemptOf(eng.job) = b
        /\ eng'.pc \in {"push", "send"} /\ eng'.job = eng.job /\ eng'.todo = Found(ps)
        /\ UNCHANGED <<mon, prov, wr>>
    BY <1>15, <2>1 DEF SearchFinds, Processes, AttemptOf, EngineInv
  <2>3. Cardinality(ps) \in Nat /\ Cardinality(Found(ps)) = Cardinality(ps)
    <3>1. IsFiniteSet(ps) /\ Cardinality(ps) \in Nat
      BY PlacesFinite, JobAssumption, FS_Subset
    <3>. DEFINE pair == [p \in ps |-> <<b, p>>]
    <3>2. pair \in Bijection(ps, Found(ps))
      <4>1. pair \in [ps -> Found(ps)]
        BY DEF Found
      <4>2. \A p, q \in ps : pair[p] = pair[q] => p = q
        OBVIOUS
      <4>3. \A u \in Found(ps) : \E p \in ps : pair[p] = u
        BY DEF Found
      <4>. HIDE DEF pair
      <4>. QED BY <4>1, <4>2, <4>3, Fun_IsBij
    <3>. QED BY <3>1, <3>2, FS_Bijection DEF ExistsBijection
  <2>4. b \in Attempts
    BY <1>9, <2>2
  <2>5. AtEngine(a)' = IF a = b THEN Cardinality(ps) ELSE 0
    BY <2>2, <2>3 DEF AtEngine, Emits, AttemptOf
  <2>6. AtEngine(a) = 0 /\ Searches(a) = Held(prov, SearchJobs(a)) + IF a = b THEN 1 ELSE 0
    BY <1>9, <2>2
  <2>7. Searches(a)' = Held(prov, SearchJobs(a))
    <3>1. Held(prov, SearchJobs(a))' = Held(prov, SearchJobs(a))
      BY <2>2
    <3>2. Searches(a)' = Held(prov, SearchJobs(a))' + 0
      BY <2>2 DEF Searches
    <3>. QED BY <3>1, <3>2, <1>1
  <2>8. Out(a)' = Out(a) + IF a = b THEN Cardinality(ps) ELSE 0
    <3>1. Held(prov, UnitJobs(a))' = Held(prov, UnitJobs(a)) /\ AtWriter(a)' = AtWriter(a)
      BY <2>2 DEF AtWriter
    <3>. QED BY <3>1, <2>3, <2>5, <2>6, <1>1 DEF Out
  <2>. HIDE DEF b, e
  <2>9. ASSUME a = b, Covered(a), ex'[a] = e PROVE Covered(a)'
    <3>1. Searches(a) >= 1
      BY <1>1, <2>6, <2>9
    <3>2. ex[a].seedCompleted = 0 /\ ~AllDone(ex[a]) /\ ex[a].doneCh = FALSE
      <4>1. ex[a].seedCompleted = 0 /\ ex[a].seedCount = 1
        BY <3>1, <1>1, <1>4, <2>9 DEF Covered
      <4>2. ~AllDone(ex[a])
        BY <4>1 DEF AllDone
      <4>. QED BY <4>1, <4>2, <1>4, <2>9 DEF Covered, ExiterState
    <3>. DEFINE f == IncrPlacesFound(ex[a], Cardinality(ps))
    <3>3. /\ f \in ExiterState /\ f.doneCh = FALSE /\ f.seedCount = ex[a].seedCount
          /\ f.seedCompleted = ex[a].seedCompleted /\ f.placesCompleted = ex[a].placesCompleted
          /\ f.placesFound = ex[a].placesFound + Cardinality(ps)
      BY <1>4, <2>3, <3>2, Increments, ExiterSteps
    <3>4. ex'[a] = IncrSeedCompleted(f, 1)
      BY <2>9 DEF e
    <3>. HIDE DEF f
    <3>5. /\ ex'[a].seedCount = ex[a].seedCount
          /\ ex'[a].seedCompleted = ex[a].seedCompleted + 1
          /\ ex'[a].placesCompleted = ex[a].placesCompleted
          /\ ex'[a].placesFound = ex[a].placesFound + Cardinality(ps)
          /\ ex'[a].doneCh => AllDone(ex'[a])
      BY <3>3, <3>4, Increments
    <3>. QED BY <1>1, <1>2, <1>4, <2>3, <2>6, <2>7, <2>8, <2>9, <3>5 DEF Covered
  <2>10. CASE a = b /\ mon[b] = "watching"
    <3>1. ex'[a] = e /\ mon'[a] = "watching"
      BY <2>1, <2>2, <2>10 DEF Counts, MonitorInv, b, e
    <3>2. Covered(a) /\ ~Unsubmitted(a)
      BY <2>10 DEF Collected
    <3>3. Covered(a)'
      BY <2>9, <2>10, <3>1, <3>2
    <3>. QED BY <1>3, <3>1, <3>2, <3>3 DEF Collected
  <2>11. CASE a # b
    <3>1. Out(a)' <= Out(a) /\ Searches(a)' <= Searches(a)
      BY <1>1, <2>6, <2>7, <2>8, <2>11
    <3>2. ex'[a] = ex[a] /\ mon'[a] = mon[a]
      BY <2>1, <2>2, <2>4, <2>11 DEF Counts, MonitorInv, b
    <3>. QED BY <3>1, <3>2, <1>5
  <2>12. CASE a = b /\ mon[b] # "watching"
    <3>1. ex'[a] = ex[a] /\ mon'[a] = mon[a]
      BY <2>1, <2>2, <2>12 DEF Counts, b
    <3>2. mon[a] # "fired" /\ ~Unsubmitted(a)
      BY <1>1, <2>6, <2>12 DEF Collected, Nothing
    <3>. QED BY <1>3, <2>12, <3>1, <3>2 DEF Collected
  <2>. QED BY <2>10, <2>11, <2>12
\* Jobs enter the provider and leave it.
<1>16. ASSUME NEW ej \in EngineJobs, prov' = Append(prov, ej)
       PROVE  /\ Held(prov, UnitJobs(a))' = Held(prov, UnitJobs(a)) +
                   IF ej.kind # "search" /\ AttemptOf(ej) = a THEN 1 ELSE 0
              /\ Held(prov, SearchJobs(a))' = Held(prov, SearchJobs(a)) +
                   IF ej.kind = "search" /\ AttemptOf(ej) = a THEN 1 ELSE 0
  <2>1. prov \in Seq(EngineJobs)
    BY DEF EngineInv
  <2>2. /\ Held(Append(prov, ej), UnitJobs(a)) = Held(prov, UnitJobs(a)) + IF ej \in UnitJobs(a) THEN 1 ELSE 0
        /\ Held(Append(prov, ej), SearchJobs(a)) = Held(prov, SearchJobs(a)) + IF ej \in SearchJobs(a) THEN 1 ELSE 0
    BY <2>1, HeldAppend
  <2>. QED BY <1>16, <2>2, JobKinds
<1>17. CASE Submits
  <2>1. /\ Attempt \in Attempts /\ Submitting /\ work'.pc = "waiting" /\ work'.job = work.job
        /\ mon' = [mon EXCEPT ![Attempt] = "watching"] /\ UNCHANGED <<tries, ex, eng, wr>>
        /\ \/ UNCHANGED prov
           \/ prov' = Append(prov, [kind |-> "search", for |-> Attempt])
    BY <1>17, AttemptAtWork DEF Submits, WorkGoesTo, WorkIs, Submitting, QueueInv, queue
  <2>2. /\ Out(a)' = Out(a)
        /\ Searches(a) <= Searches(a)'
        /\ Searches(a)' <= Searches(a) + IF a = Attempt THEN 1 ELSE 0
    <3>1. AtEngine(a)' = AtEngine(a) /\ AtWriter(a)' = AtWriter(a)
      BY <2>1 DEF AtEngine, AtWriter, Emits
    <3>2. CASE UNCHANGED prov
      <4>1. Out(a)' = Out(a) /\ Searches(a)' = Searches(a)
        BY <2>1, <3>1, <3>2 DEF Out, Searches
      <4>. QED BY <4>1, <1>1
    <3>3. CASE prov' = Append(prov, [kind |-> "search", for |-> Attempt])
      <4>. DEFINE ej == [kind |-> "search", for |-> Attempt]
      <4>1. ej \in EngineJobs /\ ej.kind = "search" /\ AttemptOf(ej) = Attempt
        BY <2>1 DEF EngineJobs, AttemptOf
      <4>. HIDE DEF ej
      <4>2. /\ Held(prov, UnitJobs(a))' = Held(prov, UnitJobs(a))
            /\ Held(prov, SearchJobs(a))' = Held(prov, SearchJobs(a)) + IF a = Attempt THEN 1 ELSE 0
        BY <1>1, <1>16, <3>3, <4>1 DEF ej
      <4>3. Out(a)' = Out(a)
        BY <3>1, <4>2 DEF Out
      <4>4. Searches(a)' = Searches(a) + IF a = Attempt THEN 1 ELSE 0
        <5>. DEFINE here == IF eng.pc = "run" /\ eng.job \in SearchJobs(a) THEN 1 ELSE 0
        <5>1. Searches(a) = Held(prov, SearchJobs(a)) + here /\ here \in Nat
              /\ Searches(a)' = Held(prov, SearchJobs(a))' + here
          BY <2>1 DEF Searches
        <5>. HIDE DEF here
        <5>. QED BY <1>1, <4>2, <5>1
      <4>. QED BY <1>1, <4>3, <4>4
    <3>. QED BY <2>1, <3>2, <3>3
  <2>3. CASE a = Attempt
    <3>1. Unsubmitted(a)
      BY <2>1, <2>3 DEF Unsubmitted
    <3>2. Nothing(a) /\ ex[a] = NewExiter(1)
      BY <3>1 DEF Collected
    <3>3. Covered(a)'
      <4>1. ex'[a] = NewExiter(1)
        BY <2>1, <3>2
      <4>2. Out(a)' = 0 /\ Searches(a)' \in 0..1
        BY <1>2, <2>2, <2>3, <3>2 DEF Nothing
      <4>. QED BY <4>1, <4>2 DEF Covered, NewExiter
    <3>4. ~Unsubmitted(a)'
      <4>1. a[1] = work.job /\ a[2] = tries[work.job]
        BY <2>3 DEF Attempt
      <4>2. work.job \in ScrapeJobs /\ tries[work.job] \in Nat
        <5>1. tries \in [ScrapeJobs -> 0..MaxAttempts] /\ ~WorkIs("idle")
          BY <2>1 DEF QueueInv, Submitting, WorkIs
        <5>2. work.job \in ScrapeJobs
          BY <5>1, AttemptAtWork
        <5>. QED BY <5>1, <5>2, Bounds
      <4>3. ~(a[2] > tries'[a[1]])
        BY <2>1, <4>1, <4>2
      <4>. QED BY <2>1, <4>3 DEF Unsubmitted, Submitting
    <3>5. mon'[a] = "watching"
      BY <2>1, <2>3 DEF MonitorInv
    <3>. QED BY <3>3, <3>4, <3>5 DEF Collected
  <2>4. CASE a # Attempt
    <3>1. mon'[a] = mon[a] /\ ex'[a] = ex[a]
      BY <2>1, <2>4 DEF MonitorInv
    <3>. QED BY <1>1, <2>2, <2>4, <3>1, <1>5
  <2>. QED BY <2>3, <2>4
<1>18. CASE EngineTakes
  <2>1. /\ eng.pc = "idle" /\ prov # <<>> /\ eng'.pc = "run" /\ eng'.job = Head(prov)
        /\ prov' = Tail(prov) /\ UNCHANGED <<monitors, wr>> /\ prov \in Seq(EngineJobs)
    BY <1>18 DEF EngineTakes, EngineInv
  <2>2. Head(prov) \in EngineJobs
    BY <2>1
  <2>3. /\ Held(prov, UnitJobs(a)) = Held(Tail(prov), UnitJobs(a)) + IF Head(prov) \in UnitJobs(a) THEN 1 ELSE 0
        /\ Held(prov, SearchJobs(a)) = Held(Tail(prov), SearchJobs(a)) + IF Head(prov) \in SearchJobs(a) THEN 1 ELSE 0
    BY <2>1, HeldTail
  <2>4. /\ AtEngine(a) = 0 /\ AtWriter(a)' = AtWriter(a)
        /\ AtEngine(a)' = IF Head(prov) \in UnitJobs(a) THEN 1 ELSE 0
    BY <2>1 DEF AtEngine, AtWriter, Emits
  <2>5. /\ Searches(a) = Held(prov, SearchJobs(a)) + 0
        /\ Searches(a)' = Held(Tail(prov), SearchJobs(a)) + IF Head(prov) \in SearchJobs(a) THEN 1 ELSE 0
    BY <2>1 DEF Searches
  <2>6. /\ Out(a) = Held(prov, UnitJobs(a)) + AtEngine(a) + AtWriter(a)
        /\ Out(a)' = Held(Tail(prov), UnitJobs(a)) + AtEngine(a)' + AtWriter(a)'
    BY <2>1 DEF Out
  <2>7. Held(Tail(prov), UnitJobs(a)) \in Nat /\ Held(Tail(prov), SearchJobs(a)) \in Nat
    <3>1. Tail(prov) \in Seq(EngineJobs)
      BY <2>1
    <3>. QED BY <3>1, WhereFinite
  <2>8. Out(a)' = Out(a) /\ Searches(a)' = Searches(a)
    BY <1>1, <2>3, <2>4, <2>5, <2>6, <2>7
  <2>. QED BY <1>1, <1>5, <2>1, <2>8 DEF monitors
<1>19. CASE EnginePushes
  <2>1. PICK u \in eng.todo :
          /\ prov' = Append(prov, [kind |-> IF eng.job.kind = "search" THEN "place" ELSE "email",
                                   for |-> u])
          /\ eng' = [eng EXCEPT !.todo = @ \ {u}]
    BY <1>19 DEF EnginePushes
  <2>. DEFINE ej == [kind |-> IF eng.job.kind = "search" THEN "place" ELSE "email", for |-> u]
              mine == AttemptOf(eng.job) = a
  <2>2. /\ eng.pc = "push" /\ UNCHANGED <<monitors, wr>> /\ u \in Units
        /\ eng'.pc = "push" /\ eng'.job = eng.job /\ eng'.todo = eng.todo \ {u}
        /\ IsFiniteSet(eng.todo)
    BY <1>19, <2>1, UnitsFinite DEF EnginePushes, EngineInv
  <2>3. ej \in EngineJobs /\ ej.kind # "search" /\ AttemptOf(ej) = AttemptOf(eng.job)
    BY <2>1, <2>2 DEF EngineJobs, AttemptOf, HandInv
  <2>. HIDE DEF ej
  <2>4. /\ Held(prov, UnitJobs(a))' = Held(prov, UnitJobs(a)) + IF mine THEN 1 ELSE 0
        /\ Held(prov, SearchJobs(a))' = Held(prov, SearchJobs(a))
    BY <1>1, <1>16, <2>1, <2>3 DEF ej
  <2>5. Cardinality(eng'.todo) = Cardinality(eng.todo) - 1 /\ Cardinality(eng.todo) \in Nat
    BY <2>1, <2>2, FS_RemoveElement, FS_CardinalityType
  <2>6. AtEngine(a)' = AtEngine(a) - IF mine THEN 1 ELSE 0
    <3>1. /\ AtEngine(a) = IF mine THEN Cardinality(eng.todo) ELSE 0
          /\ AtEngine(a)' = IF mine THEN Cardinality(eng'.todo) ELSE 0
      BY <2>2 DEF AtEngine, Emits
    <3>. HIDE DEF mine
    <3>. QED BY <2>5, <3>1
  <2>7. AtWriter(a)' = AtWriter(a)
    BY <2>2 DEF AtWriter
  <2>. HIDE DEF mine
  <2>8. Out(a)' = Out(a)
    <3>1. Out(a)' = Held(prov, UnitJobs(a))' + AtEngine(a)' + AtWriter(a)'
      BY DEF Out
    <3>. QED BY <1>1, <2>4, <2>6, <2>7, <3>1 DEF Out
  <2>9. Searches(a)' = Searches(a)
    <3>1. /\ Searches(a) = Held(prov, SearchJobs(a)) + 0
          /\ Searches(a)' = Held(prov, SearchJobs(a))' + 0
      BY <2>2 DEF Searches
    <3>. QED BY <2>4, <3>1
  <2>. QED BY <1>1, <1>5, <2>2, <2>8, <2>9 DEF monitors
<1>20. CASE PlaceBecomesEmail \/ UnitScraped
  <2>1. /\ eng.pc = "run" /\ eng.job.kind # "search" /\ UNCHANGED <<monitors, prov, wr>>
        /\ eng'.pc \in {"push", "send"} /\ eng'.job = eng.job /\ eng'.todo = {eng.job.for}
    BY <1>20 DEF PlaceBecomesEmail, UnitScraped, Processes, EngineInv
  <2>2. Cardinality(eng'.todo) = 1
    BY <2>1, FS_Singleton
  <2>3. AtEngine(a)' = AtEngine(a)
    <3>1. AtEngine(a) = IF AttemptOf(eng.job) = a THEN 1 ELSE 0
      BY <1>9, <2>1
    <3>2. AtEngine(a)' = IF AttemptOf(eng.job) = a THEN 1 ELSE 0
      BY <2>1, <2>2 DEF AtEngine, Emits
    <3>. QED BY <3>1, <3>2
  <2>4. /\ Held(prov, UnitJobs(a))' = Held(prov, UnitJobs(a))
        /\ Held(prov, SearchJobs(a))' = Held(prov, SearchJobs(a)) /\ AtWriter(a)' = AtWriter(a)
    BY <2>1 DEF AtWriter
  <2>5. Out(a)' = Out(a)
    BY <2>3, <2>4 DEF Out
  <2>6. Searches(a)' <= Searches(a)
    <3>1. Searches(a)' = Held(prov, SearchJobs(a))' + 0
      BY <2>1 DEF Searches
    <3>. QED BY <1>1, <1>11, <2>4, <3>1
  <2>. QED BY <1>1, <1>5, <2>1, <2>5, <2>6 DEF monitors
<1>21. CASE EngineSends
  <2>1. /\ eng.pc = "send" /\ wr.pc = "receiving" /\ UNCHANGED <<monitors, prov>>
        /\ wr'.pc = "processing" /\ wr'.for = AttemptOf(eng.job)
        /\ wr'.count = Cardinality(eng.todo) /\ eng'.pc = "idle"
    BY <1>21 DEF EngineSends, IdleEngine
  <2>2. Cardinality(eng.todo) \in Nat
    BY UnitsFinite DEF EngineInv
  <2>3. AtEngine(a)' = 0 /\ AtWriter(a) = 0 /\ AtWriter(a)' = AtEngine(a)
    BY <2>1 DEF AtEngine, AtWriter, Emits
  <2>4. /\ Held(prov, UnitJobs(a))' = Held(prov, UnitJobs(a))
        /\ Held(prov, SearchJobs(a))' = Held(prov, SearchJobs(a))
    BY <2>1
  <2>5. Out(a)' = Out(a)
    <3>1. Out(a)' = Held(prov, UnitJobs(a))' + AtEngine(a)' + AtWriter(a)'
      BY DEF Out
    <3>. QED BY <1>1, <2>3, <2>4, <3>1 DEF Out
  <2>6. Searches(a)' = Searches(a)
    <3>1. Searches(a)' = Held(prov, SearchJobs(a))' + 0 /\ Searches(a) = Held(prov, SearchJobs(a)) + 0
      BY <2>1 DEF Searches
    <3>. QED BY <2>4, <3>1
  <2>. QED BY <1>1, <1>5, <2>1, <2>5, <2>6 DEF monitors
<1>22. ASSUME UNCHANGED <<prov, eng>>, AtWriter(a)' <= AtWriter(a), AtWriter(a)' \in Nat
       PROVE  /\ Out(a)' = Out(a) - (AtWriter(a) - AtWriter(a)')
              /\ Searches(a)' = Searches(a)
  <2>1. AtEngine(a)' = AtEngine(a)
    BY <1>22 DEF AtEngine, Emits
  <2>2. /\ Out(a)' = Held(prov, UnitJobs(a)) + AtEngine(a) + AtWriter(a)'
        /\ Searches(a)' = Searches(a)
    BY <1>22, <2>1 DEF Out, Searches
  <2>. QED BY <1>1, <1>22, <2>2 DEF Out
<1>23. CASE WriterAdds \/ WriterReturns
  <2>1. AtWriter(a)' = AtWriter(a) /\ UNCHANGED <<prov, eng, mon>>
    BY <1>23 DEF WriterAdds, WriterReturns, AtWriter, EngineInv, monitors
  <2>2. UNCHANGED ex
    BY <1>23 DEF WriterAdds, WriterReturns, monitors
  <2>3. Out(a)' = Out(a) /\ Searches(a)' = Searches(a)
    BY <1>1, <1>22, <2>1
  <2>. QED BY <1>1, <1>5, <2>1, <2>2, <2>3
<1>24. CASE WriterCounts
  <2>. DEFINE b == wr.for
              e == IncrPlacesCompleted(ex[b], wr.count)
  <2>1. /\ wr.pc = "processing" /\ b \in Attempts /\ wr.count \in Nat
        /\ UNCHANGED <<mon, prov, eng>> /\ wr'.pc = "receiving"
    BY <1>24 DEF WriterCounts, IdleWriter, EngineInv
  <2>2. AtWriter(a)' = 0 /\ AtWriter(a) = IF a = b THEN wr.count ELSE 0
    BY <2>1 DEF AtWriter
  <2>3. /\ Out(a)' = Out(a) - IF a = b THEN wr.count ELSE 0
        /\ Searches(a)' = Searches(a)
    BY <1>1, <1>22, <2>1, <2>2
  <2>4. Out(a)' <= Out(a)
    BY <1>1, <2>1, <2>3
  <2>5. CASE wr.count > 0
    <3>1. Counts(b, e)
      BY <1>24, <2>5 DEF WriterCounts
    <3>2. ASSUME a = b, Covered(a), ex'[a] = e PROVE Covered(a)'
      <4>1. /\ ex'[a].seedCount = ex[a].seedCount
            /\ ex'[a].seedCompleted = ex[a].seedCompleted
            /\ ex'[a].placesCompleted = ex[a].placesCompleted + wr.count
            /\ ex'[a].placesFound = ex[a].placesFound
            /\ ex'[a].doneCh => AllDone(ex'[a])
        <5>1. ex'[a] = IncrPlacesCompleted(ex[a], wr.count)
          BY <3>2
        <5>2. ex[a].doneCh => AllDone(ex[a])
          BY <3>2 DEF Covered
        <5>. QED BY <1>4, <2>1, <5>1, <5>2, Increments
      <4>. HIDE DEF b, e
      <4>2. Out(a)' + wr.count = Out(a) /\ Searches(a)' = Searches(a)
        <5>1. Out(a)' = Out(a) - wr.count
          BY <2>3, <3>2
        <5>. QED BY <1>1, <2>1, <2>3, <5>1
      <4>3. ex[a].placesCompleted + Out(a) <= ex[a].placesFound
            /\ ex[a].seedCompleted + Searches(a) <= 1 /\ ex[a].seedCount = 1
        BY <3>2 DEF Covered
      <4>4. ex'[a].placesCompleted + Out(a)' <= ex'[a].placesFound
        BY <1>1, <1>2, <1>4, <2>1, <4>1, <4>2, <4>3
      <4>. QED BY <4>1, <4>2, <4>3, <4>4 DEF Covered
    <3>. HIDE DEF e
    <3>. QED BY <1>1, <2>1, <2>3, <2>4, <3>1, <3>2, <1>8 DEF e
  <2>6. CASE ~(wr.count > 0)
    <3>1. UNCHANGED ex
      BY <1>24, <2>6 DEF WriterCounts
    <3>. QED BY <1>1, <1>5, <2>1, <2>3, <2>4, <3>1
  <2>. QED BY <2>5, <2>6
\* A new cycle has nothing on its way, a new process nothing counted either.
<1>25. ASSUME prov' = <<>>, eng' = IdleEngine, wr' = IdleWriter PROVE Nothing(a)'
  <2>1. AtEngine(a)' = 0 /\ AtWriter(a)' = 0
    BY <1>25 DEF AtEngine, AtWriter, Emits, IdleEngine, IdleWriter
  <2>2. Held(prov, UnitJobs(a))' = 0 /\ Held(prov, SearchJobs(a))' = 0
    BY <1>25, HeldNone
  <2>3. Out(a)' = 0 + 0 + 0 /\ Searches(a)' = 0 + 0
    BY <1>25, <2>1, <2>2 DEF Out, Searches, IdleEngine
  <2>. QED BY <2>3 DEF Nothing
<1>26. CASE CycleStarts
  <2>1. UNCHANGED <<ex, mon>> /\ Nothing(a)'
    BY <1>25, <1>26 DEF CycleStarts, monitors
  <2>. QED BY <1>1, <1>5, <2>1 DEF Nothing
<1>27. CASE Crash
  <2>1. ex'[a] = NewExiter(1) /\ mon'[a] = "off" /\ Nothing(a)'
    BY <1>25, <1>27 DEF Crash
  <2>. QED BY <2>1 DEF Collected
\* The monitors themselves.
<1>28. ASSUME NEW b \in Attempts, MonitorStep(b) PROVE Collected(a)'
  <2>1. UNCHANGED engine
    BY <1>28 DEF MonitorStep, MonitorStops, MonitorFires, MarkDone, Save
  <2>2. Out(a)' = Out(a) /\ Searches(a)' = Searches(a) /\ (Nothing(a) => Nothing(a)')
    BY <1>6, <2>1 DEF Nothing
  <2>3. CASE mon'[a] = mon[a] /\ ex'[a] = ex[a]
    BY <1>1, <1>5, <2>2, <2>3
  <2>4. CASE MonitorStops(b) /\ a = b
    <3>1. mon'[a] = "off" /\ ex'[a] = NewExiter(1)
      BY <2>4 DEF MonitorStops, MonitorLeaves, MonitorInv
    <3>. QED BY <1>3, <2>2, <3>1 DEF Collected
  <2>5. CASE MonitorFires(b) /\ a = b
    <3>1. mon[a] = "watching" /\ ex[a].doneCh /\ mon'[a] = "fired" /\ ex'[a] = NewExiter(1)
      BY <2>5 DEF MonitorFires, MonitorLeaves, MonitorInv
    <3>2. Covered(a) /\ ~Unsubmitted(a)
      BY <3>1 DEF Collected
    <3>3. Nothing(a)
      BY <1>1, <1>4, <3>1, <3>2 DEF Nothing, Covered, AllDone
    <3>. QED BY <1>3, <2>2, <3>1, <3>2, <3>3 DEF Collected
  <2>6. CASE MarkDone(b) /\ a = b
    <3>1. mon[a] = "fired" /\ mon'[a] = "off" /\ ex'[a] = ex[a]
      BY <2>6 DEF MarkDone, MonitorInv
    <3>. QED BY <1>3, <2>2, <3>1 DEF Collected
  <2>7. \/ mon'[a] = mon[a] /\ ex'[a] = ex[a]
        \/ a = b /\ (MonitorStops(b) \/ MonitorFires(b) \/ MarkDone(b))
    <3>1. CASE Save(b)
      <4>1. UNCHANGED monitors
        BY <3>1 DEF Save
      <4>. QED BY <4>1 DEF monitors
    <3>2. CASE a # b /\ (MonitorStops(b) \/ MonitorFires(b) \/ MarkDone(b))
      <4>1. \E to : mon' = [mon EXCEPT ![b] = to]
        BY <3>2 DEF MonitorStops, MonitorFires, MarkDone, MonitorLeaves
      <4>2. ex' = ex \/ ex' = [ex EXCEPT ![b] = NewExiter(1)]
        BY <3>2 DEF MonitorStops, MonitorFires, MarkDone, MonitorLeaves
      <4>3. mon'[a] = mon[a]
        BY <3>2, <4>1 DEF MonitorInv
      <4>4. ex'[a] = ex[a]
        BY <3>2, <4>2 DEF MonitorInv
      <4>. QED BY <4>3, <4>4
    <3>. QED BY <1>28, <3>1, <3>2 DEF MonitorStep
  <2>. QED BY <2>3, <2>4, <2>5, <2>6, <2>7
<1>29. CASE \/ RiverStep \/ GetsProvider \/ SubmitFails \/ WorkTimesOut \/ ContextDone
            \/ WorkReturns
  BY <1>29, <1>7 DEF RiverStep, RiverFinishes, PromoteRetryable, RescueStuck, WorkStarts,
     GetsProvider, SubmitFails, WorkTimesOut, ContextDone, GivesUp, WorkReturns
<1>30. CASE RestartTriggered \/ Shutdown \/ UNCHANGED vars
  BY <1>30, <1>7 DEF RestartTriggered, Shutdown, vars
<1>. HIDE DEF Collected
<1>. QED
  BY <1>12, <1>13, <1>14, <1>15, <1>17, <1>18, <1>19, <1>20, <1>21, <1>23, <1>24, <1>26, <1>27,
     <1>28, <1>29, <1>30 DEF Next, WorkStep, WriterStep, EngineStep

LEMMA NothingFirst ==
  ASSUME Init, NEW a \in Attempts
  PROVE  Collected(a)
<1>2. AtEngine(a) = 0 /\ AtWriter(a) = 0
  BY DEF Init, AtEngine, AtWriter, Emits, IdleEngine, IdleWriter
<1>3. Held(prov, UnitJobs(a)) = 0 /\ Held(prov, SearchJobs(a)) = 0
  BY HeldNone DEF Init
<1>4. Out(a) = 0 + 0 + 0 /\ Searches(a) = 0 + 0
  BY <1>2, <1>3 DEF Init, Out, Searches, IdleEngine
<1>5. mon[a] = "off" /\ ex[a] = NewExiter(1)
  BY DEF Init
<1>. QED BY <1>4, <1>5 DEF Collected, Nothing

\* When the exit monitor is done with an attempt, nothing of it is on its way.
LEMMA NothingOnItsWay ==
  ASSUME EngineInv, HandInv, NEW a \in Attempts, Nothing(a)
  PROVE  ~OnItsWay(a)
<1>1. /\ Held(prov, UnitJobs(a)) = 0 /\ Held(prov, SearchJobs(a)) = 0
      /\ AtEngine(a) = 0 /\ AtWriter(a) = 0
      /\ ~(eng.pc = "run" /\ eng.job \in SearchJobs(a))
  BY Sizes DEF Nothing, Out, Searches
<1>2. prov \in Seq(EngineJobs)
  BY DEF EngineInv
<1>3. \A k \in DOMAIN prov : prov[k] \notin UnitJobs(a) /\ prov[k] \notin SearchJobs(a)
  BY <1>1, <1>2, HeldSome
<1>4. ASSUME NEW k \in DOMAIN prov PROVE AttemptOf(prov[k]) # a
  <2>1. prov[k] \in EngineJobs
    BY <1>2, <1>4
  <2>. QED BY <1>3, <1>4, <2>1, JobKinds
<1>5. ~(eng.pc = "run" /\ AttemptOf(eng.job) = a)
  <2>1. eng.pc = "run" => eng.job \in EngineJobs /\ eng.job \notin UnitJobs(a)
    BY <1>1 DEF EngineInv, AtEngine
  <2>. QED BY <1>1, <2>1, JobKinds
<1>6. ~(eng.pc \in {"push", "send"} /\ AttemptOf(eng.job) = a /\ eng.todo # {})
  <2>1. IsFiniteSet(eng.todo)
    BY UnitsFinite DEF EngineInv
  <2>2. Cardinality(eng.todo) = 0 => eng.todo = {}
    BY <2>1, FS_EmptySet
  <2>. QED BY <1>1, <2>2 DEF AtEngine, Emits
<1>7. ~(wr.pc = "processing" /\ wr.for = a /\ wr.todo # {})
  BY <1>1 DEF AtWriter, HandInv
<1>. QED BY <1>4, <1>5, <1>6, <1>7 DEF OnItsWay

-----------------------------------------------------------------------------
(* Together.                                                                *)

LEMMA TypeFollows == TInv => TypeOK
  BY DEF TInv, QueueInv, EngineInv, MonitorInv, ManagerInv, FlushType, TypeOK

LEMMA Initially == Init => IInv
<1> SUFFICES ASSUME Init PROVE IInv
  OBVIOUS
<1>0. 0 \in 0..MaxAttempts /\ 0 < MaxAttempts /\ 0 \in 0..MaxJobs /\ 0 <= Capacity
  BY Bounds
<1>1. QueueInv
  BY <1>0, NoneAssumption DEF Init, IdleWork, QueueInv, WorkIs
<1>2. EngineInv
  BY <1>0 DEF Init, IdleEngine, IdleWriter, EngineInv
<1>3. MonitorInv
  BY NewExiterType DEF Init, MonitorInv
<1>4. ManagerInv
  BY <1>0 DEF Init, NewManager, ManagerInv
<1>5. FlushType
  BY DEF Init, FlushType
<1>6. OwnResults /\ Tracked /\ RowKept
  BY DEF Init, IdleWork, WorkIs, OwnResults, NoForeignResults, Tracked, RowKept, CompletedHasRow
<1>7. CInv
  BY NothingFirst DEF Init, IdleEngine, IdleWriter, HandInv, CInv
<1>. QED BY <1>1, <1>2, <1>3, <1>4, <1>5, <1>6, <1>7 DEF IInv, TInv

LEMMA Always == Spec => []IInv
<1>1. IInv /\ [Next]_vars => IInv'
  <2> SUFFICES ASSUME IInv, [Next]_vars PROVE IInv'
    OBVIOUS
  <2>. USE DEF IInv, TInv
  <2>1. QueueInv'
    BY QueueStep
  <2>2. EngineInv' /\ MonitorInv' /\ ManagerInv'
    BY EngineInvStep, MonitorsStep, ManagerStep
  <2>3. FlushType'
    BY <2>1, FlushTypeStep
  <2>4. OwnResults' /\ RowKept'
    BY OwnStep, RowStep
  <2>5. Tracked'
    BY <2>1, <2>3, TrackedStep
  <2>6. CInv'
    BY <2>2, HandStep, CollectedStep DEF CInv
  <2>. QED BY <2>1, <2>2, <2>3, <2>4, <2>5, <2>6
<1>. QED BY Initially, <1>1, PTL DEF Spec

\* Every reachable state of a SaaS worker is of its declared type: no more
\* attempts than a job may have, no more jobs in the provider than it holds.
THEOREM Typing == Spec => []TypeOK
<1>1. IInv => TypeOK
  BY TypeFollows DEF IInv
<1>. QED BY Always, <1>1, PTL

\* The row of a job has results of that job only, however many jobs were given
\* up while the engine works on their places.
THEOREM ResultsAreOwn == Spec => []NoForeignResults
<1>1. IInv => NoForeignResults
  BY DEF IInv, OwnResults
<1>. QED BY Always, <1>1, PTL

\* RegisterJob never replaces a tracked job: each way out of Work flushes its
\* own first.
THEOREM NoneOverwritten == Spec => []NothingOverwritten
<1>1. IInv => NothingOverwritten
  BY DEF IInv, Tracked, Registered, NothingOverwritten, WorkIs
<1>. QED BY Always, <1>1, PTL

\* A job the queue calls completed has its row, whatever timed out, failed or
\* crashed on the way.
THEOREM CompletedIsSaved == Spec => []CompletedHasRow
<1>1. IInv => CompletedHasRow
  BY DEF IInv, RowKept
<1>. QED BY Always, <1>1, PTL

\* When the exit monitor of an attempt calls it done, all of its results are among
\* the entries that are flushed: what its counters lack is exactly what the
\* provider, the engine's worker and the writer still have, for every number of
\* jobs, places and attempts.
THEOREM DoneIsCollected == Spec => []DoneMeansCollected
<1>1. IInv => DoneMeansCollected
  <2> SUFFICES ASSUME IInv, NEW a \in Attempts, ex[a].doneCh \/ mon[a] = "fired"
               PROVE  ~OnItsWay(a)
    BY DEF DoneMeansCollected
  <2>. EngineInv /\ MonitorInv /\ HandInv /\ Collected(a)
    BY DEF IInv, TInv, CInv
  <2>1. CASE mon[a] = "fired"
    BY <2>1, NothingOnItsWay DEF Collected
  <2>2. CASE mon[a] # "fired"
    <3>1. ex[a].doneCh
      BY <2>2
    <3>2. Covered(a)
      BY <3>1 DEF Collected, NewExiter
    <3>3. /\ ex[a].seedCompleted \in Nat /\ ex[a].placesCompleted \in Nat
          /\ ex[a].placesFound \in Nat
      BY DEF MonitorInv, ExiterState
    <3>4. Out(a) \in Nat /\ Searches(a) \in Nat
      BY Sizes
    <3>5. Nothing(a)
      BY <3>1, <3>2, <3>3, <3>4 DEF Nothing, Covered, AllDone
    <3>. QED BY <3>5, NothingOnItsWay
  <2>. QED BY <2>1, <2>2
<1>. QED BY Always, <1>1, PTL
=============================================================================
