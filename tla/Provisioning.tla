---------------------------- MODULE Provisioning ----------------------------
(***************************************************************************)
(* The cloud machines of the SaaS deployment: the admin site's handlers    *)
(* that ask for a machine and for its removal (admin/handlers_workers.go), *)
(* the table provisioned_resources (admin/postgres/postgres.go), and the   *)
(* maintenance jobs of the server's River client that do the work          *)
(* (rqueue/worker_jobs.go): provision, delete and the periodic health      *)
(* check, over the cloud drivers of infra/.                                *)
(*                                                                         *)
(* Each row of the table is one request for a machine.  A cloud call or a  *)
(* statement may fail, a job may time out or die with the server at any    *)
(* step, and the delete handler works from a row it read earlier.          *)
(***************************************************************************)
EXTENDS Integers, FiniteSets

CONSTANTS
    Workers,            \* rows of provisioned_resources (machines asked for)
    Clicks,             \* delete requests of administrators
    Checkers,           \* health checks that may run at a time
    MaintenanceSlots,   \* QueueMaintenance's MaxWorkers
    DeleteAttempts      \* MaxAttempts of a worker_delete job

ASSUME ProvisionAssumption ==
    /\ MaintenanceSlots \in Nat \ {0}
    /\ DeleteAttempts \in Nat \ {0}

VARIABLES
    rows,   \* per worker its row: status, whether resource_id is the cloud's id, whether ip_address is set, deleted_at
    vm,     \* per worker the machine at the cloud provider
    made,   \* per worker how many machines CreateWorker created
    prov,   \* per worker its worker_provision job: where it is, and its attempts
    del,    \* per delete request: where it is, its worker, the row as it was read, whether it marked too late
    check,  \* per health check: the rows to heal, and the one found reachable
    hurt    \* workers whose provision job met a fault (crash, timeout, failed call)

provisionVars == <<rows, vm, made, prov, del, check, hurt>>

Statuses == {"none", "provisioning", "active", "failed", "deleting", "deleted"}

MachineStates == {"none", "booting", "addressed", "open", "serving", "stopped",
                  "destroyed"}

ProvisionWorking ==
    {"configuring", "creating", "polling", "persisting", "dialling", "activating",
     "cleaning", "failing"}

ProvisionStates ==
    ProvisionWorking \cup {"none", "inserting", "queued", "stuck", "done"}

DeleteWorking == {"stopping", "destroying", "softdeleting"}

DeleteStates == DeleteWorking \cup {"idle", "read", "marked", "queued", "stuck", "done"}

WorkerRow == [status : Statuses, known : BOOLEAN, ip : BOOLEAN, gone : BOOLEAN]

ProvisionJob == [at : ProvisionStates, tries : Nat]

DeleteRequest == [at : DeleteStates, for : SUBSET Workers, known : BOOLEAN, ip : BOOLEAN,
                  tries : Nat, stale : BOOLEAN]

ProvisionTypeOK ==
    /\ rows \in [Workers -> WorkerRow]
    /\ vm \in [Workers -> MachineStates]
    /\ made \in [Workers -> Nat]
    /\ prov \in [Workers -> ProvisionJob]
    /\ del \in [Clicks -> DeleteRequest]
    /\ check \in [Checkers -> [todo : SUBSET Workers, hit : SUBSET Workers]]
    /\ hurt \in SUBSET Workers

ProvisionInit ==
    /\ rows = [r \in Workers |->
                 [status |-> "none", known |-> FALSE, ip |-> FALSE, gone |-> FALSE]]
    /\ vm = [r \in Workers |-> "none"]
    /\ made = [r \in Workers |-> 0]
    /\ prov = [r \in Workers |-> [at |-> "none", tries |-> 0]]
    /\ del = [d \in Clicks |->
                [at |-> "idle", for |-> {}, known |-> FALSE, ip |-> FALSE, tries |-> 0,
                 stale |-> FALSE]]
    /\ check = [c \in Checkers |-> [todo |-> {}, hit |-> {}]]
    /\ hurt = {}

Alive(r) == vm[r] \in MachineStates \ {"none", "destroyed"}

Checking(c) == check[c].todo \cup check[c].hit # {}

\* The jobs the server's River client runs now; it runs MaxWorkers at most.
SlotFree ==
    Cardinality({r \in Workers : prov[r].at \in ProvisionWorking})
      + Cardinality({d \in Clicks : del[d].at \in DeleteWorking})
      + Cardinality({c \in Checkers : Checking(c)}) < MaintenanceSlots

ProvisionGoes(r, at) == prov' = [prov EXCEPT ![r].at = at]

Faulted(r) == hurt' = hurt \cup {r}

-----------------------------------------------------------------------------
(* ProvisionWorkerHandler: the row first, then the job.                    *)

CreatesRow(r) ==
    /\ rows[r].status = "none"
    /\ rows' = [rows EXCEPT ![r].status = "provisioning"]
    /\ ProvisionGoes(r, "inserting")
    /\ UNCHANGED <<vm, made, del, check, hurt>>

\* The insert of the job may fail, or the server die before it: the row stays
\* "provisioning" with no job.
QueuesProvision(r) ==
    /\ prov[r].at = "inserting"
    /\ \E at \in {"queued", "done"} : ProvisionGoes(r, at)
    /\ UNCHANGED <<rows, vm, made, del, check, hurt>>

-----------------------------------------------------------------------------
(* WorkerProvisionWorker.Work                                              *)

ProvisionAttempts == 1

ProvisionStarts(r) ==
    /\ prov[r].at = "queued"
    /\ SlotFree
    /\ prov' = [prov EXCEPT ![r] = [at |-> "configuring", tries |-> prov[r].tries + 1]]
    /\ UNCHANGED <<rows, vm, made, del, check, hurt>>

\* The provider's token, the SSH key and the cloud-init secrets are read from
\* app_config; one that is missing or unreadable fails the row.
Configures(r) ==
    /\ prov[r].at = "configuring"
    /\ \E at \in {"creating", "failing"} : ProvisionGoes(r, at)
    /\ UNCHANGED <<rows, vm, made, del, check, hurt>>

\* CreateWorker; the drivers may return the address at once.
Creates(r) ==
    /\ prov[r].at = "creating"
    /\ made' = [made EXCEPT ![r] = @ + 1]
    /\ \/ /\ vm' = [vm EXCEPT ![r] = "booting"]
          /\ ProvisionGoes(r, "polling")
       \/ /\ vm' = [vm EXCEPT ![r] = "addressed"]
          /\ ProvisionGoes(r, "persisting")
    /\ UNCHANGED <<rows, del, check, hurt>>

\* CreateWorker fails, before or after the provider created the machine.
CreateFails(r) ==
    /\ prov[r].at = "creating"
    /\ \/ UNCHANGED <<vm, made>>
       \/ /\ vm' = [vm EXCEPT ![r] = "booting"]
          /\ made' = [made EXCEPT ![r] = @ + 1]
    /\ ProvisionGoes(r, "failing")
    /\ Faulted(r)
    /\ UNCHANGED <<rows, del, check>>

Polls(r) ==
    /\ prov[r].at = "polling"
    /\ vm[r] \in {"addressed", "open", "serving", "stopped"}
    /\ ProvisionGoes(r, "persisting")
    /\ UNCHANGED <<rows, vm, made, del, check, hurt>>

\* The job's ten minutes end before there is an address, or before SSH answers.
ProvisionTimesOut(r) ==
    /\ prov[r].at \in {"polling", "dialling"}
    /\ ProvisionGoes(r, "failing")
    /\ Faulted(r)
    /\ UNCHANGED <<rows, vm, made, del, check>>

\* The cloud's id and the address are saved before SSH answers; the statement's
\* error is dropped.
Persists(r) ==
    /\ prov[r].at = "persisting"
    /\ \/ /\ rows' = [rows EXCEPT ![r] =
                        IF @.gone THEN @ ELSE [@ EXCEPT !.known = TRUE, !.ip = TRUE]]
          /\ UNCHANGED hurt
       \/ Faulted(r) /\ UNCHANGED rows
    /\ ProvisionGoes(r, "dialling")
    /\ UNCHANGED <<vm, made, del, check>>

Dials(r) ==
    /\ prov[r].at = "dialling"
    /\ vm[r] \in {"open", "serving", "stopped"}
    /\ ProvisionGoes(r, "activating")
    /\ UNCHANGED <<rows, vm, made, del, check, hurt>>

\* The row becomes active if it is still "provisioning" and not deleted; if it
\* is not, the machine is to be removed.
Activates_AnyStatus(r) ==
    /\ prov[r].at = "activating"
    /\ IF ~rows[r].gone
       THEN /\ rows' = [rows EXCEPT ![r].status = "active", ![r].known = TRUE,
                                    ![r].ip = TRUE]
            /\ ProvisionGoes(r, "done")
       ELSE ProvisionGoes(r, "cleaning") /\ UNCHANGED rows
    /\ UNCHANGED <<vm, made, del, check, hurt>>
Activates(r) ==
    /\ prov[r].at = "activating"
    /\ IF rows[r].status = "provisioning" /\ ~rows[r].gone
       THEN /\ rows' = [rows EXCEPT ![r].status = "active", ![r].known = TRUE,
                                    ![r].ip = TRUE]
            /\ ProvisionGoes(r, "done")
       ELSE ProvisionGoes(r, "cleaning") /\ UNCHANGED rows
    /\ UNCHANGED <<vm, made, del, check, hurt>>

\* The update itself fails: the job ends with an error and the row is left.
ActivateFails(r) ==
    /\ prov[r].at = "activating"
    /\ ProvisionGoes(r, "done")
    /\ Faulted(r)
    /\ UNCHANGED <<rows, vm, made, del, check>>

\* DeleteWorker for a row that is not to be activated; its error is dropped.
CleansUp(r) ==
    /\ prov[r].at = "cleaning"
    /\ \/ vm' = [vm EXCEPT ![r] = "destroyed"] /\ UNCHANGED hurt
       \/ Faulted(r) /\ UNCHANGED vm
    /\ ProvisionGoes(r, "done")
    /\ UNCHANGED <<rows, made, del, check>>

\* updateResourceFailed: by id alone, in a context of its own, error dropped.
FailsRow(r) ==
    /\ prov[r].at = "failing"
    /\ \/ rows' = [rows EXCEPT ![r].status = "failed"]
       \/ UNCHANGED rows
    /\ ProvisionGoes(r, "done")
    /\ UNCHANGED <<vm, made, del, check, hurt>>

-----------------------------------------------------------------------------
(* DeleteWorkerHandler: reads the row, marks it, queues the job with the   *)
(* id it read.                                                             *)

DeleteReads(d, r) ==
    /\ del[d].at = "idle"
    /\ rows[r].status # "none"
    /\ del' = [del EXCEPT ![d] = [at |-> "read", for |-> {r}, known |-> rows[r].known,
                                  ip |-> rows[r].ip, tries |-> 0, stale |-> FALSE]]
    /\ UNCHANGED <<rows, vm, made, prov, check, hurt>>

\* The request read no cloud's id, the row has it by now, and the provision job,
\* which would have seen the mark, is gone: the request will destroy nothing.
TooLate(d, r) ==
    ~del[d].known /\ rows[r].known /\ prov[r].at \notin ProvisionWorking

\* UpdateProvisionedResourceStatus writes back the address as it was read, and
\* finds no row when it was soft-deleted meanwhile.
DeleteMarks_Nothing(d, r) ==
    /\ del[d].at = "read" /\ r \in del[d].for
    /\ del' = [del EXCEPT ![d].at = "marked"]
    /\ UNCHANGED <<rows, vm, made, prov, check, hurt>>
DeleteMarks(d, r) ==
    /\ del[d].at = "read" /\ r \in del[d].for
    /\ \/ /\ ~rows[r].gone
          /\ rows' = [rows EXCEPT ![r].status = "deleting", ![r].ip = del[d].ip]
          /\ del' = [del EXCEPT ![d].at = "marked", ![d].stale = TooLate(d, r)]
       \/ del' = [del EXCEPT ![d].at = "done"] /\ UNCHANGED rows
    /\ UNCHANGED <<vm, made, prov, check, hurt>>

DeleteQueues(d) ==
    /\ del[d].at = "marked"
    /\ \E at \in {"queued", "done"} : del' = [del EXCEPT ![d].at = at]
    /\ UNCHANGED <<rows, vm, made, prov, check, hurt>>

-----------------------------------------------------------------------------
(* WorkerDeleteWorker.Work                                                 *)

\* A row whose resource_id is still "pending-..." has no machine to destroy.
DeleteStarts(d) ==
    /\ del[d].at = "queued"
    /\ SlotFree
    /\ del' = [del EXCEPT ![d].at = IF del[d].known THEN "stopping" ELSE "softdeleting",
                          ![d].tries = @ + 1]
    /\ UNCHANGED <<rows, vm, made, prov, check, hurt>>

\* gracefulStop over SSH, by the row's address; whatever fails is only logged.
GracefulStop(d, r) ==
    /\ del[d].at = "stopping" /\ r \in del[d].for
    /\ \/ /\ rows[r].ip /\ vm[r] = "serving"
          /\ vm' = [vm EXCEPT ![r] = "stopped"]
       \/ UNCHANGED vm
    /\ del' = [del EXCEPT ![d].at = "destroying"]
    /\ UNCHANGED <<rows, made, prov, check, hurt>>

Destroys(d, r) ==
    /\ del[d].at = "destroying" /\ r \in del[d].for
    /\ vm' = [vm EXCEPT ![r] = "destroyed"]
    /\ del' = [del EXCEPT ![d].at = "softdeleting"]
    /\ UNCHANGED <<rows, made, prov, check, hurt>>

SoftDeletes(d, r) ==
    /\ del[d].at = "softdeleting" /\ r \in del[d].for
    /\ rows' = [rows EXCEPT ![r] =
                  IF @.gone THEN @ ELSE [@ EXCEPT !.gone = TRUE, !.status = "deleted"]]
    /\ del' = [del EXCEPT ![d].at = "done"]
    /\ UNCHANGED <<vm, made, prov, check, hurt>>

\* An attempt that failed is tried again until the attempts are used up.
DeleteRetryState(d) == IF del[d].tries < DeleteAttempts THEN "queued" ELSE "done"

\* The token, the driver, DeleteWorker or the final update fails.
DeleteFails(d) ==
    /\ del[d].at \in {"destroying", "softdeleting"}
    /\ del' = [del EXCEPT ![d].at = DeleteRetryState(d)]
    /\ UNCHANGED <<rows, vm, made, prov, check, hurt>>

-----------------------------------------------------------------------------
(* WorkerHealthCheckWorker.Work.  A row that is already active gets only    *)
(* new health data, so only the others are kept in todo.                    *)

Eligible(r) ==
    /\ rows[r].status \notin {"none", "failed", "deleted", "deleting"}
    /\ rows[r].ip /\ ~rows[r].gone

CheckStarts(c) ==
    /\ ~Checking(c)
    /\ SlotFree
    /\ check' = [check EXCEPT ![c].todo =
                   {r \in Workers : Eligible(r) /\ rows[r].status # "active"}]
    /\ check'[c].todo # {}
    /\ UNCHANGED <<rows, vm, made, prov, del, hurt>>

\* checkWorkerHealth: reachable when SSH and a container's health page answer.
Probes(c, r) ==
    /\ r \in check[c].todo /\ check[c].hit = {}
    /\ check' = [check EXCEPT ![c] =
                   [todo |-> @.todo \ {r}, hit |-> IF vm[r] = "serving" THEN {r} ELSE {}]]
    /\ UNCHANGED <<rows, vm, made, prov, del, hurt>>

\* The row that was not active when it was read is made so, by id alone.
Heals(c, r) ==
    /\ r \in check[c].hit
    /\ rows' = [rows EXCEPT ![r].status = "active"]
    /\ check' = [check EXCEPT ![c].hit = {}]
    /\ UNCHANGED <<vm, made, prov, del, hurt>>

\* The job's time is up, or its statement fails.
CheckEnds(c) ==
    /\ Checking(c)
    /\ check' = [check EXCEPT ![c] = [todo |-> {}, hit |-> {}]]
    /\ UNCHANGED <<rows, vm, made, prov, del, hurt>>

-----------------------------------------------------------------------------
(* The machine boots, and the server may die and come back.                *)

Boots(r) ==
    /\ vm[r] \in {"booting", "addressed", "open"}
    /\ vm' = [vm EXCEPT ![r] = CASE @ = "booting" -> "addressed"
                                 [] @ = "addressed" -> "open"
                                 [] @ = "open" -> "serving"]
    /\ UNCHANGED <<rows, made, prov, del, check, hurt>>

\* The server dies: its running jobs are left "running" in river_job, the
\* requests it was serving end.
ServerCrash ==
    /\ \/ \E r \in Workers : prov[r].at \in ProvisionWorking
       \/ \E d \in Clicks : del[d].at \in DeleteWorking
    /\ prov' = [r \in Workers |->
                  IF prov[r].at \in ProvisionWorking
                  THEN [prov[r] EXCEPT !.at = "stuck"]
                  ELSE IF prov[r].at = "inserting"
                  THEN [prov[r] EXCEPT !.at = "done"] ELSE prov[r]]
    /\ del' = [d \in Clicks |->
                 IF del[d].at \in DeleteWorking
                 THEN [del[d] EXCEPT !.at = "stuck"]
                 ELSE IF del[d].at \in {"read", "marked"}
                 THEN [del[d] EXCEPT !.at = "done"] ELSE del[d]]
    /\ check' = [c \in Checkers |-> [todo |-> {}, hit |-> {}]]
    /\ hurt' = hurt \cup {r \in Workers : prov[r].at \in ProvisionWorking}
    /\ UNCHANGED <<rows, vm, made>>

\* River's rescuer, RescueStuckJobsAfter later: a job with attempts left is
\* queued again, the others are discarded.
ProvisionRescue(r) ==
    /\ prov[r].at = "stuck"
    /\ ProvisionGoes(r, IF prov[r].tries < ProvisionAttempts THEN "queued" ELSE "done")
    /\ UNCHANGED <<rows, vm, made, del, check, hurt>>

DeleteRescue(d) ==
    /\ del[d].at = "stuck"
    /\ del' = [del EXCEPT ![d].at = DeleteRetryState(d)]
    /\ UNCHANGED <<rows, vm, made, prov, check, hurt>>

-----------------------------------------------------------------------------
ProvisionStep(r) ==
    \/ QueuesProvision(r) \/ Configures(r) \/ Creates(r) \/ CreateFails(r)
    \/ Polls(r) \/ ProvisionTimesOut(r) \/ Persists(r) \/ Dials(r) \/ Activates(r)
    \/ ActivateFails(r) \/ CleansUp(r) \/ FailsRow(r) \/ ProvisionRescue(r)

DeleteStep(d) ==
    \/ \E r \in Workers : DeleteMarks(d, r) \/ GracefulStop(d, r) \/ Destroys(d, r)
                          \/ SoftDeletes(d, r)
    \/ DeleteQueues(d) \/ DeleteFails(d) \/ DeleteRescue(d)

CheckStep(c) ==
    \/ \E r \in Workers : Probes(c, r) \/ Heals(c, r)
    \/ CheckEnds(c)

ProvisionNext ==
    \/ \E r \in Workers : CreatesRow(r) \/ ProvisionStarts(r) \/ ProvisionStep(r)
                          \/ Boots(r)
    \/ \E d \in Clicks : DeleteStarts(d) \/ DeleteStep(d)
                         \/ \E r \in Workers : DeleteReads(d, r)
    \/ \E c \in Checkers : CheckStarts(c) \/ CheckStep(c)
    \/ ServerCrash

ProvisionSpec == ProvisionInit /\ [][ProvisionNext]_provisionVars

\* A job that runs makes progress, the machines boot, the rescuer runs.  The
\* queue hands a job a slot in the order of the queue, and no job holds one for
\* good, so a job that finds a slot free again and again gets one.
ProvisionFairness ==
    /\ \A r \in Workers : /\ WF_provisionVars(ProvisionStep(r))
                          /\ WF_provisionVars(Boots(r))
                          /\ SF_provisionVars(ProvisionStarts(r))
    /\ \A d \in Clicks : /\ WF_provisionVars(DeleteStep(d))
                         /\ SF_provisionVars(DeleteStarts(d))
    /\ \A c \in Checkers : WF_provisionVars(CheckStep(c))

-----------------------------------------------------------------------------
\* A delete request that read the row before the cloud's id was saved marked it
\* only after the provision job had made it active and ended.  Nothing in the code
\* excludes it: the guard of Activates sees the mark of a request that comes in
\* between, not of one that comes later.
Overtaken(r) == \E d \in Clicks : r \in del[d].for /\ del[d].stale

\* A machine that runs can be removed from the admin site, or its provision job
\* is still there to save its id or to remove it: when the job met no fault and
\* overtook no delete request, no machine runs whose row is deleted or does not
\* know the cloud's id.  Nor is there ever a second machine for the row, which
\* could know only one of them: WorkerProvisionArgs' MaxAttempts is 1, however
\* often the server dies.
NoOrphan ==
    \A r \in Workers :
        /\ made[r] <= 1
        /\ Alive(r) /\ r \notin hurt /\ ~Overtaken(r) /\ (rows[r].gone \/ ~rows[r].known)
             => prov[r].at \in ProvisionWorking

\* What the comment on saving the id early promises: a machine that came up only
\* after the wait for SSH had timed out is one the health check looks at.
HealableAfterTimeout ==
    \A r \in Workers :
        rows[r].status = "failed" /\ rows[r].known /\ vm[r] = "serving" => Eligible(r)

\* The machine of a deleted row is destroyed in the end, unless its provision
\* job met a fault or overtook the delete request.
DeletedMachineGoes ==
    \A r \in Workers : rows[r].gone ~> (~Alive(r) \/ r \in hurt \/ Overtaken(r))
=============================================================================
