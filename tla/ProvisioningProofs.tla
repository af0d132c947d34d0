------------------------- MODULE ProvisioningProofs -------------------------
(***************************************************************************)
(* No machine is lost, for every number of workers, delete requests and    *)
(* health checks.                                                          *)
(***************************************************************************)
EXTENDS Provisioning, TLAPS

-----------------------------------------------------------------------------
(* The inductive invariant, in named parts.                                 *)

Working(r) == prov[r].at \in ProvisionWorking

\* The machine is not yet asked for.
Early == {"none", "inserting", "queued", "configuring", "creating"}

\* A provision job creates a machine once, at its one attempt.
OneMachine(r) ==
  /\ rows[r].status = "none" => prov[r].at = "none"
  /\ prov[r].at \in Early => ~Alive(r) /\ made[r] = 0
  /\ made[r] <= 1
  /\ Working(r) \/ prov[r].at = "stuck" => prov[r].tries > 0

\* A job that met no fault has saved the machine's id, or seen the row deleted,
\* when it dials; and a machine it does not watch over is known to its row.
Watched(r) ==
  r \notin hurt =>
    /\ prov[r].at = "failing" => ~Alive(r)
    /\ prov[r].at \in {"dialling", "activating"} => rows[r].known \/ rows[r].gone
    /\ Alive(r) /\ ~Overtaken(r) /\ (rows[r].gone \/ ~rows[r].known) => Working(r)

\* The row a delete request is at was marked, so the provision job will not make
\* it active; and a request that will not destroy the machine leaves that to the
\* provision job, unless the job has overtaken it.
Answered(d) ==
  \A r \in del[d].for :
    /\ del[d].for = {r} /\ del[d].at # "idle"
    /\ del[d].stale => del[d].at # "read"
    /\ rows[r].status # "none"
    /\ del[d].at \notin {"idle", "read", "done"} => rows[r].status # "provisioning"
    /\ \/ del[d].at = "softdeleting"
       \/ ~del[d].known /\ del[d].at \notin {"read", "done"}
       => (Alive(r) /\ r \notin hurt /\ ~Overtaken(r) => Working(r))

IInv ==
  /\ ProvisionTypeOK
  /\ \A r \in Workers : OneMachine(r) /\ Watched(r)
  /\ \A d \in Clicks : Answered(d)
-----------------------------------------------------------------------------
(* Updating a row, or a request, keeps its type.                            *)

\* A row made active, with its machine's id and address, is a row.
LEMMA RowActive ==
  ASSUME rows \in [Workers -> WorkerRow], NEW r \in Workers
  PROVE  [rows EXCEPT ![r].status = "active", ![r].known = TRUE, ![r].ip = TRUE]
           \in [Workers -> WorkerRow]
<1>1. \A s \in Statuses, b \in BOOLEAN :
        [rows EXCEPT ![r].status = s, ![r].known = TRUE, ![r].ip = b]
          \in [Workers -> WorkerRow]
  BY DEF WorkerRow
<1>. QED BY <1>1 DEF Statuses

\* A delete request that goes to another state is a delete request.
LEMMA DeleteGoes ==
  ASSUME del \in [Clicks -> DeleteRequest], NEW d \in Clicks, NEW at \in DeleteStates
  PROVE  [del EXCEPT ![d].at = at] \in [Clicks -> DeleteRequest]
BY DEF DeleteRequest

LEMMA DeleteGoesStale ==
  ASSUME del \in [Clicks -> DeleteRequest], NEW d \in Clicks, NEW at \in DeleteStates,
         NEW b \in BOOLEAN
  PROVE  [del EXCEPT ![d].at = at, ![d].stale = b] \in [Clicks -> DeleteRequest]
BY DEF DeleteRequest

\* Every step of the provisioning model keeps the variables' types.
LEMMA ProvisionTypeStep ==
  ASSUME ProvisionTypeOK, [ProvisionNext]_provisionVars
  PROVE  ProvisionTypeOK'
<1>. USE DEF ProvisionTypeOK
<1>1. ASSUME NEW r \in Workers, CreatesRow(r) PROVE ProvisionTypeOK'
  <2>1. rows' \in [Workers -> WorkerRow]
    BY <1>1 DEF CreatesRow, Statuses, WorkerRow
  <2>2. prov' \in [Workers -> ProvisionJob]
    BY <1>1
       DEF CreatesRow, ProvisionStates, ProvisionWorking, ProvisionJob, ProvisionGoes
  <2>. QED BY <1>1, <2>1, <2>2 DEF CreatesRow
<1>2. ASSUME NEW r \in Workers, QueuesProvision(r) PROVE ProvisionTypeOK'
  <2>1. prov' \in [Workers -> ProvisionJob]
    BY <1>2
       DEF QueuesProvision, ProvisionStates, ProvisionWorking, ProvisionJob,
           ProvisionGoes
  <2>. QED BY <1>2, <2>1 DEF QueuesProvision
<1>3. ASSUME NEW r \in Workers, ProvisionStarts(r) PROVE ProvisionTypeOK'
  <2>1. prov' \in [Workers -> ProvisionJob]
    BY <1>3
       DEF ProvisionStarts, ProvisionStates, ProvisionWorking, ProvisionJob,
           ProvisionGoes
  <2>. QED BY <1>3, <2>1 DEF ProvisionStarts
<1>4. ASSUME NEW r \in Workers, Configures(r) PROVE ProvisionTypeOK'
  <2>1. prov' \in [Workers -> ProvisionJob]
    BY <1>4
       DEF Configures, ProvisionStates, ProvisionWorking, ProvisionJob, ProvisionGoes
  <2>. QED BY <1>4, <2>1 DEF Configures
<1>5. ASSUME NEW r \in Workers, Creates(r) PROVE ProvisionTypeOK'
  <2>1. vm' \in [Workers -> MachineStates]
    BY <1>5 DEF Creates, MachineStates
  <2>2. made' \in [Workers -> Nat]
    BY <1>5 DEF Creates
  <2>3. prov' \in [Workers -> ProvisionJob]
    BY <1>5 DEF Creates, ProvisionStates, ProvisionWorking, ProvisionJob, ProvisionGoes
  <2>. QED BY <1>5, <2>1, <2>2, <2>3 DEF Creates
<1>6. ASSUME NEW r \in Workers, CreateFails(r) PROVE ProvisionTypeOK'
  <2>1. vm' \in [Workers -> MachineStates]
    BY <1>6 DEF CreateFails, MachineStates
  <2>2. made' \in [Workers -> Nat]
    BY <1>6 DEF CreateFails
  <2>3. prov' \in [Workers -> ProvisionJob]
    BY <1>6
       DEF CreateFails, ProvisionStates, ProvisionWorking, ProvisionJob, ProvisionGoes
  <2>4. hurt' \in SUBSET Workers
    BY <1>6 DEF CreateFails, Faulted
  <2>. QED BY <1>6, <2>1, <2>2, <2>3, <2>4 DEF CreateFails
<1>7. ASSUME NEW r \in Workers, Polls(r) PROVE ProvisionTypeOK'
  <2>1. prov' \in [Workers -> ProvisionJob]
    BY <1>7 DEF Polls, ProvisionStates, ProvisionWorking, ProvisionJob, ProvisionGoes
  <2>. QED BY <1>7, <2>1 DEF Polls
<1>8. ASSUME NEW r \in Workers, ProvisionTimesOut(r) PROVE ProvisionTypeOK'
  <2>1. prov' \in [Workers -> ProvisionJob]
    BY <1>8
       DEF ProvisionTimesOut, ProvisionStates, ProvisionWorking, ProvisionJob,
           ProvisionGoes
  <2>2. hurt' \in SUBSET Workers
    BY <1>8 DEF ProvisionTimesOut, Faulted
  <2>. QED BY <1>8, <2>1, <2>2 DEF ProvisionTimesOut
<1>9. ASSUME NEW r \in Workers, Persists(r) PROVE ProvisionTypeOK'
  <2>1. rows' \in [Workers -> WorkerRow]
    <3>1. CASE rows' = [rows EXCEPT ![r] =
                          IF @.gone THEN @ ELSE [@ EXCEPT !.known = TRUE, !.ip = TRUE]]
      BY <3>1 DEF WorkerRow
    <3>. QED BY <1>9, <3>1 DEF Persists
  <2>2. prov' \in [Workers -> ProvisionJob]
    BY <1>9 DEF Persists, ProvisionStates, ProvisionWorking, ProvisionJob, ProvisionGoes
  <2>3. hurt' \in SUBSET Workers
    BY <1>9 DEF Persists, Faulted
  <2>. QED BY <1>9, <2>1, <2>2, <2>3 DEF Persists
<1>10. ASSUME NEW r \in Workers, Dials(r) PROVE ProvisionTypeOK'
  <2>1. prov' \in [Workers -> ProvisionJob]
    BY <1>10 DEF Dials, ProvisionStates, ProvisionWorking, ProvisionJob, ProvisionGoes
  <2>. QED BY <1>10, <2>1 DEF Dials
<1>11. ASSUME NEW r \in Workers, Activates(r) PROVE ProvisionTypeOK'
  <2>1. rows' \in [Workers -> WorkerRow]
    BY <1>11, RowActive DEF Activates
  <2>2. prov' \in [Workers -> ProvisionJob]
    BY <1>11
       DEF Activates, ProvisionStates, ProvisionWorking, ProvisionJob, ProvisionGoes
  <2>. QED BY <1>11, <2>1, <2>2 DEF Activates
<1>12. ASSUME NEW r \in Workers, ActivateFails(r) PROVE ProvisionTypeOK'
  <2>1. prov' \in [Workers -> ProvisionJob]
    BY <1>12
       DEF ActivateFails, ProvisionStates, ProvisionWorking, ProvisionJob, ProvisionGoes
  <2>2. hurt' \in SUBSET Workers
    BY <1>12 DEF ActivateFails, Faulted
  <2>. QED BY <1>12, <2>1, <2>2 DEF ActivateFails
<1>13. ASSUME NEW r \in Workers, CleansUp(r) PROVE ProvisionTypeOK'
  <2>1. vm' \in [Workers -> MachineStates]
    BY <1>13 DEF CleansUp, MachineStates
  <2>2. prov' \in [Workers -> ProvisionJob]
    BY <1>13
       DEF CleansUp, ProvisionStates, ProvisionWorking, ProvisionJob, ProvisionGoes
  <2>3. hurt' \in SUBSET Workers
    BY <1>13 DEF CleansUp, Faulted
  <2>. QED BY <1>13, <2>1, <2>2, <2>3 DEF CleansUp
<1>14. ASSUME NEW r \in Workers, FailsRow(r) PROVE ProvisionTypeOK'
  <2>1. rows' \in [Workers -> WorkerRow]
    BY <1>14 DEF FailsRow, Statuses, WorkerRow
  <2>2. prov' \in [Workers -> ProvisionJob]
    BY <1>14
       DEF FailsRow, ProvisionStates, ProvisionWorking, ProvisionJob, ProvisionGoes
  <2>. QED BY <1>14, <2>1, <2>2 DEF FailsRow
<1>15. ASSUME NEW r \in Workers, ProvisionRescue(r) PROVE ProvisionTypeOK'
  <2>1. prov' \in [Workers -> ProvisionJob]
    BY <1>15
       DEF ProvisionRescue, ProvisionStates, ProvisionWorking, ProvisionJob,
           ProvisionGoes, ProvisionAttempts
  <2>. QED BY <1>15, <2>1 DEF ProvisionRescue
<1>16. ASSUME NEW r \in Workers, Boots(r) PROVE ProvisionTypeOK'
  <2>1. vm' \in [Workers -> MachineStates]
    BY <1>16 DEF Boots, MachineStates
  <2>. QED BY <1>16, <2>1 DEF Boots
<1>17. ASSUME NEW d \in Clicks, DeleteQueues(d) PROVE ProvisionTypeOK'
  <2>1. PICK at \in {"queued", "done"} : del' = [del EXCEPT ![d].at = at]
    BY <1>17 DEF DeleteQueues
  <2>2. at \in DeleteStates
    BY DEF DeleteStates
  <2>3. del' \in [Clicks -> DeleteRequest]
    BY <2>1, <2>2, DeleteGoes
  <2>. QED BY <1>17, <2>3 DEF DeleteQueues
<1>18. ASSUME NEW d \in Clicks, DeleteStarts(d) PROVE ProvisionTypeOK'
  <2>1. del' \in [Clicks -> DeleteRequest]
    BY <1>18 DEF DeleteStarts, DeleteStates, DeleteWorking, DeleteRequest
  <2>. QED BY <1>18, <2>1 DEF DeleteStarts
<1>19. ASSUME NEW d \in Clicks, DeleteFails(d) PROVE ProvisionTypeOK'
  <2>1. del' \in [Clicks -> DeleteRequest]
    <3>1. DeleteRetryState(d) \in DeleteStates
      BY DEF DeleteRetryState, DeleteStates
    <3>. QED BY <1>19, <3>1, DeleteGoes DEF DeleteFails
  <2>. QED BY <1>19, <2>1 DEF DeleteFails
<1>20. ASSUME NEW d \in Clicks, DeleteRescue(d) PROVE ProvisionTypeOK'
  <2>1. del' \in [Clicks -> DeleteRequest]
    <3>1. DeleteRetryState(d) \in DeleteStates
      BY DEF DeleteRetryState, DeleteStates
    <3>. QED BY <1>20, <3>1, DeleteGoes DEF DeleteRescue
  <2>. QED BY <1>20, <2>1 DEF DeleteRescue
<1>21. ASSUME NEW d \in Clicks, NEW r \in Workers, DeleteReads(d, r) PROVE ProvisionTypeOK'
  <2>1. del' \in [Clicks -> DeleteRequest]
    BY <1>21 DEF DeleteReads, DeleteStates, DeleteWorking, DeleteRequest, WorkerRow
  <2>. QED BY <1>21, <2>1 DEF DeleteReads
<1>22. ASSUME NEW d \in Clicks, NEW r \in Workers, DeleteMarks(d, r) PROVE ProvisionTypeOK'
  <2>1. rows' \in [Workers -> WorkerRow]
    BY <1>22 DEF DeleteMarks, Statuses, WorkerRow
  <2>2. del' \in [Clicks -> DeleteRequest]
    <3>1. "marked" \in DeleteStates /\ "done" \in DeleteStates
      BY DEF DeleteStates, DeleteWorking
    <3>2. TooLate(d, r) \in BOOLEAN
      BY DEF TooLate
    <3>3. /\ [del EXCEPT ![d].at = "marked", ![d].stale = TooLate(d, r)]
               \in [Clicks -> DeleteRequest]
          /\ [del EXCEPT ![d].at = "done"] \in [Clicks -> DeleteRequest]
      BY <3>1, <3>2, DeleteGoes, DeleteGoesStale
    <3>. QED BY <1>22, <3>3 DEF DeleteMarks
  <2>. QED BY <1>22, <2>1, <2>2 DEF DeleteMarks
<1>23. ASSUME NEW d \in Clicks, NEW r \in Workers, GracefulStop(d, r) PROVE ProvisionTypeOK'
  <2>1. vm' \in [Workers -> MachineStates]
    BY <1>23 DEF GracefulStop, MachineStates
  <2>2. del' \in [Clicks -> DeleteRequest]
    <3>1. \A at \in {"marked", "destroying", "softdeleting", "done"} : at \in DeleteStates
      BY DEF DeleteStates, DeleteWorking
    <3>. QED BY <1>23, <3>1, DeleteGoes DEF GracefulStop
  <2>. QED BY <1>23, <2>1, <2>2 DEF GracefulStop
<1>24. ASSUME NEW d \in Clicks, NEW r \in Workers, Destroys(d, r) PROVE ProvisionTypeOK'
  <2>1. vm' \in [Workers -> MachineStates]
    BY <1>24 DEF Destroys, MachineStates
  <2>2. del' \in [Clicks -> DeleteRequest]
    <3>1. \A at \in {"marked", "destroying", "softdeleting", "done"} : at \in DeleteStates
      BY DEF DeleteStates, DeleteWorking
    <3>. QED BY <1>24, <3>1, DeleteGoes DEF Destroys
  <2>. QED BY <1>24, <2>1, <2>2 DEF Destroys
<1>25. ASSUME NEW d \in Clicks, NEW r \in Workers, SoftDeletes(d, r) PROVE ProvisionTypeOK'
  <2>1. rows' \in [Workers -> WorkerRow]
    <3>1. rows[r] \in WorkerRow
      OBVIOUS
    <3>2. [rows[r] EXCEPT !.gone = TRUE, !.status = "deleted"] \in WorkerRow
      BY <3>1 DEF WorkerRow, Statuses
    <3>. QED BY <1>25, <3>1, <3>2 DEF SoftDeletes
  <2>2. del' \in [Clicks -> DeleteRequest]
    <3>1. \A at \in {"marked", "destroying", "softdeleting", "done"} : at \in DeleteStates
      BY DEF DeleteStates, DeleteWorking
    <3>. QED BY <1>25, <3>1, DeleteGoes DEF SoftDeletes
  <2>. QED BY <1>25, <2>1, <2>2 DEF SoftDeletes
<1>26. ASSUME NEW c \in Checkers, CheckStarts(c) PROVE ProvisionTypeOK'
  <2>1. check' \in [Checkers -> [todo : SUBSET Workers, hit : SUBSET Workers]]
    BY <1>26 DEF CheckStarts
  <2>. QED BY <1>26, <2>1 DEF CheckStarts
<1>27. ASSUME NEW c \in Checkers, CheckEnds(c) PROVE ProvisionTypeOK'
  <2>1. check' \in [Checkers -> [todo : SUBSET Workers, hit : SUBSET Workers]]
    BY <1>27 DEF CheckEnds
  <2>. QED BY <1>27, <2>1 DEF CheckEnds
<1>28. ASSUME NEW c \in Checkers, NEW r \in Workers, Probes(c, r) PROVE ProvisionTypeOK'
  <2>1. check' \in [Checkers -> [todo : SUBSET Workers, hit : SUBSET Workers]]
    BY <1>28 DEF Probes
  <2>. QED BY <1>28, <2>1 DEF Probes
<1>29. ASSUME NEW c \in Checkers, NEW r \in Workers, Heals(c, r) PROVE ProvisionTypeOK'
  <2>1. rows' \in [Workers -> WorkerRow]
    BY <1>29 DEF Heals, Statuses, WorkerRow
  <2>2. check' \in [Checkers -> [todo : SUBSET Workers, hit : SUBSET Workers]]
    BY <1>29 DEF Heals
  <2>. QED BY <1>29, <2>1, <2>2 DEF Heals
<1>30. CASE ServerCrash
  <2>1. prov' \in [Workers -> ProvisionJob]
    BY <1>30 DEF ServerCrash, ProvisionStates, ProvisionJob
  <2>2. \A d \in Clicks : \A at \in {"stuck", "done"} :
          [del[d] EXCEPT !.at = at] \in DeleteRequest
    BY DEF DeleteRequest, DeleteStates
  <2>3. del' \in [Clicks -> DeleteRequest]
    BY <1>30, <2>2 DEF ServerCrash
  <2>. QED BY <1>30, <2>1, <2>3 DEF ServerCrash
<1>31. CASE UNCHANGED provisionVars
  BY <1>31 DEF provisionVars
<1>. QED
  BY <1>1, <1>2, <1>3, <1>4, <1>5, <1>6, <1>7, <1>8, <1>9, <1>10, <1>11, <1>12, <1>13,
     <1>14, <1>15, <1>16, <1>17, <1>18, <1>19, <1>20, <1>21, <1>22, <1>23, <1>24,
     <1>25, <1>26, <1>27, <1>28, <1>29, <1>30, <1>31
     DEF ProvisionNext, ProvisionStep, DeleteStep, CheckStep
-----------------------------------------------------------------------------
(* What the steps that choose between outcomes change, worker by worker.    *)

\* Saving the machine's id leaves it known, or the row deleted, or a fault met.
LEMMA PersistsEffect ==
  ASSUME ProvisionTypeOK, NEW q \in Workers, Persists(q)
  PROVE  /\ prov[q].at = "persisting" /\ prov'[q].at = "dialling"
         /\ prov'[q].tries = prov[q].tries
         /\ hurt \subseteq hurt' /\ vm' = vm /\ made' = made /\ del' = del
         /\ \A r \in Workers : rows'[r].status = rows[r].status
         /\ \A r \in Workers : rows'[r].gone = rows[r].gone
         /\ \A r \in Workers : rows[r].known => rows'[r].known
         /\ \A r \in Workers : r # q => prov'[r] = prov[r]
         /\ q \in hurt' \/ rows'[q].known \/ rows'[q].gone
<1>1. CASE rows' = [rows EXCEPT ![q] =
                     IF @.gone THEN @ ELSE [@ EXCEPT !.known = TRUE, !.ip = TRUE]]
  <2>1. \A r \in Workers : rows'[r] = IF r # q \/ rows[r].gone THEN rows[r]
                            ELSE [rows[r] EXCEPT !.known = TRUE, !.ip = TRUE]
    BY <1>1 DEF ProvisionTypeOK
  <2>2. \A r \in Workers : rows[r] \in WorkerRow
    BY DEF ProvisionTypeOK
  <2>3. \A r \in Workers : rows'[r].status = rows[r].status
    BY <2>1, <2>2 DEF WorkerRow
  <2>4. \A r \in Workers : rows'[r].gone = rows[r].gone
    BY <2>1, <2>2 DEF WorkerRow
  <2>5. \A r \in Workers : rows[r].known => rows'[r].known
    BY <2>1, <2>2 DEF WorkerRow
  <2>6. rows'[q].known \/ rows'[q].gone
    BY <2>1, <2>2 DEF WorkerRow
  <2>7. /\ hurt \subseteq hurt' /\ vm' = vm /\ made' = made /\ del' = del
        /\ prov[q].at = "persisting" /\ ProvisionGoes(q, "dialling")
    BY DEF Persists, Faulted
  <2>8. /\ prov'[q].at = "dialling" /\ prov'[q].tries = prov[q].tries
        /\ \A r \in Workers : r # q => prov'[r] = prov[r]
    BY <2>7 DEF ProvisionGoes, ProvisionTypeOK, ProvisionJob
  <2>. QED BY <2>3, <2>4, <2>5, <2>6, <2>7, <2>8
<1>2. CASE Faulted(q) /\ UNCHANGED rows
  BY <1>2 DEF Persists, Faulted, ProvisionGoes, ProvisionTypeOK, ProvisionJob
<1>. QED BY <1>1, <1>2 DEF Persists

\* Marking a row touches no other row, and only its request, which remembers
\* whether it came too late.
LEMMA DeleteMarksEffect ==
  ASSUME ProvisionTypeOK, NEW e \in Clicks, NEW q \in Workers, DeleteMarks(e, q)
  PROVE  /\ del[e].at = "read" /\ q \in del[e].for
         /\ prov' = prov /\ vm' = vm /\ made' = made /\ hurt' = hurt
         /\ \A r \in Workers : /\ rows'[r].gone = rows[r].gone
                               /\ rows'[r].known = rows[r].known
                               /\ rows'[r].status \in {rows[r].status, "deleting"}
         /\ \A d \in Clicks : /\ d # e => del'[d] = del[d]
                              /\ del'[d].for = del[d].for
                              /\ del'[d].known = del[d].known
         /\ \/ del'[e].at = "done" /\ del'[e].stale = del[e].stale
            \/ /\ del'[e].at = "marked" /\ rows'[q].status = "deleting"
               /\ del'[e].stale = TooLate(e, q)
<1>1. CASE /\ rows' = [rows EXCEPT ![q].status = "deleting", ![q].ip = del[e].ip]
           /\ del' = [del EXCEPT ![e].at = "marked", ![e].stale = TooLate(e, q)]
  <2>1. \A r \in Workers : /\ rows'[r].gone = rows[r].gone
                         /\ rows'[r].known = rows[r].known
                         /\ rows'[r].status \in {rows[r].status, "deleting"}
    BY <1>1 DEF ProvisionTypeOK, WorkerRow
  <2>2. rows'[q].status = "deleting"
    BY <1>1 DEF ProvisionTypeOK, WorkerRow
  <2>3. \A d \in Clicks : /\ d # e => del'[d] = del[d]
                        /\ del'[d].for = del[d].for
                        /\ del'[d].known = del[d].known
    BY <1>1 DEF ProvisionTypeOK, DeleteRequest
  <2>4. del'[e].at = "marked" /\ del'[e].stale = TooLate(e, q)
    BY <1>1 DEF ProvisionTypeOK, DeleteRequest
  <2>. QED BY <2>1, <2>2, <2>3, <2>4 DEF DeleteMarks
<1>2. CASE del' = [del EXCEPT ![e].at = "done"] /\ UNCHANGED rows
  BY <1>2 DEF DeleteMarks, ProvisionTypeOK, DeleteRequest
<1>. QED BY <1>1, <1>2 DEF DeleteMarks

-----------------------------------------------------------------------------
(* Every step keeps each part of the invariant.                             *)

\* No step makes a second machine for a row.
LEMMA OneMachineStep ==
  ASSUME IInv, [ProvisionNext]_provisionVars, NEW r \in Workers
  PROVE  OneMachine(r)'
<1>. USE DEF IInv
<1>1. ASSUME NEW q \in Workers, CreatesRow(q) PROVE OneMachine(r)'
  BY <1>1
     DEF CreatesRow, ProvisionGoes, OneMachine, Working, ProvisionWorking, Early, Alive,
         MachineStates, ProvisionTypeOK, WorkerRow, ProvisionJob
<1>2. ASSUME NEW q \in Workers, QueuesProvision(q) PROVE OneMachine(r)'
  BY <1>2
     DEF QueuesProvision, ProvisionGoes, OneMachine, Working, ProvisionWorking, Early,
         Alive, MachineStates, ProvisionTypeOK, WorkerRow, ProvisionJob
<1>3. ASSUME NEW q \in Workers, ProvisionStarts(q) PROVE OneMachine(r)'
  BY <1>3
     DEF ProvisionStarts, OneMachine, Working, ProvisionWorking, Early, Alive,
         MachineStates, ProvisionTypeOK, WorkerRow, ProvisionJob
<1>4. ASSUME NEW q \in Workers, Configures(q) PROVE OneMachine(r)'
  BY <1>4
     DEF Configures, ProvisionGoes, OneMachine, Working, ProvisionWorking, Early, Alive,
         MachineStates, ProvisionTypeOK, WorkerRow, ProvisionJob
<1>5. ASSUME NEW q \in Workers, Creates(q) PROVE OneMachine(r)'
  BY <1>5
     DEF Creates, ProvisionGoes, OneMachine, Working, ProvisionWorking, Early, Alive,
         MachineStates, ProvisionTypeOK, WorkerRow, ProvisionJob
<1>6. ASSUME NEW q \in Workers, CreateFails(q) PROVE OneMachine(r)'
  BY <1>6
     DEF CreateFails, ProvisionGoes, Faulted, OneMachine, Working, ProvisionWorking,
         Early, Alive, MachineStates, ProvisionTypeOK, WorkerRow, ProvisionJob
<1>7. ASSUME NEW q \in Workers, Polls(q) PROVE OneMachine(r)'
  BY <1>7
     DEF Polls, ProvisionGoes, OneMachine, Working, ProvisionWorking, Early, Alive,
         MachineStates, ProvisionTypeOK, WorkerRow, ProvisionJob
<1>8. ASSUME NEW q \in Workers, ProvisionTimesOut(q) PROVE OneMachine(r)'
  BY <1>8
     DEF ProvisionTimesOut, ProvisionGoes, Faulted, OneMachine, Working,
         ProvisionWorking, Early, Alive, MachineStates, ProvisionTypeOK, WorkerRow,
         ProvisionJob
<1>9. ASSUME NEW q \in Workers, Persists(q) PROVE OneMachine(r)'
  BY <1>9, PersistsEffect
     DEF OneMachine, Working, ProvisionWorking, Early, Alive, ProvisionTypeOK,
         DeleteRequest
<1>10. ASSUME NEW q \in Workers, Dials(q) PROVE OneMachine(r)'
  BY <1>10
     DEF Dials, ProvisionGoes, OneMachine, Working, ProvisionWorking, Early, Alive,
         MachineStates, ProvisionTypeOK, WorkerRow, ProvisionJob
<1>11. ASSUME NEW q \in Workers, Activates(q) PROVE OneMachine(r)'
  BY <1>11
     DEF Activates, ProvisionGoes, OneMachine, Working, ProvisionWorking, Early, Alive,
         MachineStates, ProvisionTypeOK, WorkerRow, ProvisionJob
<1>12. ASSUME NEW q \in Workers, ActivateFails(q) PROVE OneMachine(r)'
  BY <1>12
     DEF ActivateFails, ProvisionGoes, Faulted, OneMachine, Working, ProvisionWorking,
         Early, Alive, MachineStates, ProvisionTypeOK, WorkerRow, ProvisionJob
<1>13. ASSUME NEW q \in Workers, CleansUp(q) PROVE OneMachine(r)'
  BY <1>13
     DEF CleansUp, ProvisionGoes, Faulted, OneMachine, Working, ProvisionWorking, Early,
         Alive, MachineStates, ProvisionTypeOK, WorkerRow, ProvisionJob
<1>14. ASSUME NEW q \in Workers, FailsRow(q) PROVE OneMachine(r)'
  BY <1>14
     DEF FailsRow, ProvisionGoes, OneMachine, Working, ProvisionWorking, Early, Alive,
         MachineStates, ProvisionTypeOK, WorkerRow, ProvisionJob
<1>15. ASSUME NEW q \in Workers, ProvisionRescue(q) PROVE OneMachine(r)'
  BY <1>15
     DEF ProvisionRescue, ProvisionGoes, ProvisionAttempts, OneMachine, Working,
         ProvisionWorking, Early, Alive, MachineStates, ProvisionTypeOK, WorkerRow,
         ProvisionJob
<1>16. ASSUME NEW q \in Workers, Boots(q) PROVE OneMachine(r)'
  BY <1>16
     DEF Boots, OneMachine, Working, ProvisionWorking, Early, Alive, MachineStates,
         ProvisionTypeOK, WorkerRow, ProvisionJob
<1>17. ASSUME NEW e \in Clicks, DeleteQueues(e) PROVE OneMachine(r)'
  BY <1>17
     DEF DeleteQueues, OneMachine, Working, ProvisionWorking, Early, Alive,
         MachineStates, ProvisionTypeOK, WorkerRow, ProvisionJob
<1>18. ASSUME NEW e \in Clicks, DeleteStarts(e) PROVE OneMachine(r)'
  BY <1>18
     DEF DeleteStarts, OneMachine, Working, ProvisionWorking, Early, Alive,
         MachineStates, ProvisionTypeOK, WorkerRow, ProvisionJob
<1>19. ASSUME NEW e \in Clicks, DeleteFails(e) PROVE OneMachine(r)'
  BY <1>19
     DEF DeleteFails, DeleteRetryState, OneMachine, Working, ProvisionWorking, Early,
         Alive, MachineStates, ProvisionTypeOK, WorkerRow, ProvisionJob
<1>20. ASSUME NEW e \in Clicks, DeleteRescue(e) PROVE OneMachine(r)'
  BY <1>20
     DEF DeleteRescue, DeleteRetryState, OneMachine, Working, ProvisionWorking, Early,
         Alive, MachineStates, ProvisionTypeOK, WorkerRow, ProvisionJob
<1>21. ASSUME NEW e \in Clicks, NEW q \in Workers, DeleteReads(e, q) PROVE OneMachine(r)'
  BY <1>21
     DEF DeleteReads, OneMachine, Working, ProvisionWorking, Early, Alive,
         MachineStates, ProvisionTypeOK, WorkerRow, ProvisionJob
<1>22. ASSUME NEW e \in Clicks, NEW q \in Workers, DeleteMarks(e, q) PROVE OneMachine(r)'
  BY <1>22, DeleteMarksEffect
     DEF OneMachine, Working, ProvisionWorking, Early, Alive, ProvisionTypeOK,
         DeleteRequest
<1>23. ASSUME NEW e \in Clicks, NEW q \in Workers, GracefulStop(e, q) PROVE OneMachine(r)'
  BY <1>23
     DEF GracefulStop, OneMachine, Working, ProvisionWorking, Early, Alive,
         MachineStates, ProvisionTypeOK, WorkerRow, ProvisionJob
<1>24. ASSUME NEW e \in Clicks, NEW q \in Workers, Destroys(e, q) PROVE OneMachine(r)'
  BY <1>24
     DEF Destroys, OneMachine, Working, ProvisionWorking, Early, Alive, MachineStates,
         ProvisionTypeOK, WorkerRow, ProvisionJob
<1>25. ASSUME NEW e \in Clicks, NEW q \in Workers, SoftDeletes(e, q) PROVE OneMachine(r)'
  BY <1>25
     DEF SoftDeletes, OneMachine, Working, ProvisionWorking, Early, Alive,
         MachineStates, ProvisionTypeOK, WorkerRow, ProvisionJob
<1>26. ASSUME NEW c \in Checkers, CheckStarts(c) PROVE OneMachine(r)'
  BY <1>26
     DEF CheckStarts, OneMachine, Working, ProvisionWorking, Early, Alive,
         MachineStates, ProvisionTypeOK, WorkerRow, ProvisionJob
<1>27. ASSUME NEW c \in Checkers, CheckEnds(c) PROVE OneMachine(r)'
  BY <1>27
     DEF CheckEnds, OneMachine, Working, ProvisionWorking, Early, Alive, MachineStates,
         ProvisionTypeOK, WorkerRow, ProvisionJob
<1>28. ASSUME NEW c \in Checkers, NEW q \in Workers, Probes(c, q) PROVE OneMachine(r)'
  BY <1>28
     DEF Probes, OneMachine, Working, ProvisionWorking, Early, Alive, MachineStates,
         ProvisionTypeOK, WorkerRow, ProvisionJob
<1>29. ASSUME NEW c \in Checkers, NEW q \in Workers, Heals(c, q) PROVE OneMachine(r)'
  BY <1>29
     DEF Heals, OneMachine, Working, ProvisionWorking, Early, Alive, MachineStates,
         ProvisionTypeOK, WorkerRow, ProvisionJob
<1>30. CASE ServerCrash
  BY <1>30
     DEF ServerCrash, OneMachine, Working, ProvisionWorking, Early, Alive,
         MachineStates, ProvisionTypeOK, WorkerRow, ProvisionJob
<1>31. CASE UNCHANGED provisionVars
  BY <1>31
     DEF provisionVars, OneMachine, Working, ProvisionWorking, Early, Alive,
         ProvisionTypeOK, WorkerRow, ProvisionJob
<1>. QED
  BY <1>1, <1>2, <1>3, <1>4, <1>5, <1>6, <1>7, <1>8, <1>9, <1>10, <1>11, <1>12, <1>13,
     <1>14, <1>15, <1>16, <1>17, <1>18, <1>19, <1>20, <1>21, <1>22, <1>23, <1>24,
     <1>25, <1>26, <1>27, <1>28, <1>29, <1>30, <1>31
     DEF ProvisionNext, ProvisionStep, DeleteStep, CheckStep

\* That a request came too late for its row is not forgotten.
LEMMA OvertakenStays ==
  ASSUME IInv, [ProvisionNext]_provisionVars, NEW r \in Workers, Overtaken(r)
  PROVE  Overtaken(r)'
<1>1. PICK d \in Clicks : r \in del[d].for /\ del[d].stale
  BY DEF Overtaken
<1>2. del \in [Clicks -> DeleteRequest] /\ del[d].at \notin {"idle", "read"}
  BY <1>1 DEF IInv, ProvisionTypeOK, Answered
<1>3. SUFFICES del'[d].for = del[d].for /\ del'[d].stale = del[d].stale
  BY <1>1 DEF Overtaken
<1>4. CASE UNCHANGED del
  BY <1>4
<1>5. ASSUME NEW e \in Clicks, DeleteQueues(e) \/ DeleteStarts(e) \/ DeleteFails(e)
                                \/ DeleteRescue(e)
      PROVE  del'[d].for = del[d].for /\ del'[d].stale = del[d].stale
  BY <1>2, <1>5 DEF DeleteQueues, DeleteStarts, DeleteFails, DeleteRescue, DeleteRequest
<1>6. ASSUME NEW e \in Clicks, NEW q \in Workers,
             \/ DeleteReads(e, q) \/ DeleteMarks(e, q)
             \/ GracefulStop(e, q) \/ Destroys(e, q) \/ SoftDeletes(e, q)
      PROVE  del'[d].for = del[d].for /\ del'[d].stale = del[d].stale
  BY <1>2, <1>6 DEF DeleteReads, DeleteMarks, GracefulStop, Destroys, SoftDeletes, DeleteRequest
<1>7. CASE ServerCrash
  BY <1>2, <1>7 DEF ServerCrash, DeleteRequest
<1>8. ASSUME NEW q \in Workers, \/ CreatesRow(q) \/ ProvisionStarts(q) \/ ProvisionStep(q)
                                \/ Boots(q)
      PROVE  UNCHANGED del
  BY <1>8
  DEF CreatesRow, ProvisionStarts, ProvisionStep, Boots, QueuesProvision, Configures, Creates,
      CreateFails, Polls, ProvisionTimesOut, Persists, Dials, Activates, ActivateFails,
      CleansUp, FailsRow, ProvisionRescue
<1>9. ASSUME NEW c \in Checkers, CheckStarts(c) \/ CheckStep(c)
      PROVE  UNCHANGED del
  BY <1>9 DEF CheckStarts, CheckStep, Probes, Heals, CheckEnds
<1>. QED
  BY <1>4, <1>5, <1>6, <1>7, <1>8, <1>9 DEF ProvisionNext, DeleteStep, provisionVars

\* No step leaves a machine that no row knows without its provision job.
LEMMA WatchedStep ==
  ASSUME IInv, [ProvisionNext]_provisionVars, NEW r \in Workers
  PROVE  Watched(r)'
<1>0. Overtaken(r) => Overtaken(r)'
  BY OvertakenStays
<1>. USE <1>0 DEF IInv
<1>1. ASSUME NEW q \in Workers, CreatesRow(q) PROVE Watched(r)'
  BY <1>1
     DEF CreatesRow, ProvisionGoes, Watched, OneMachine, Working, ProvisionWorking,
         Early, Alive, MachineStates, ProvisionTypeOK, WorkerRow, ProvisionJob
<1>2. ASSUME NEW q \in Workers, QueuesProvision(q) PROVE Watched(r)'
  BY <1>2
     DEF QueuesProvision, ProvisionGoes, Watched, OneMachine, Working, ProvisionWorking,
         Early, Alive, MachineStates, ProvisionTypeOK, WorkerRow, ProvisionJob
<1>3. ASSUME NEW q \in Workers, ProvisionStarts(q) PROVE Watched(r)'
  BY <1>3
     DEF ProvisionStarts, Watched, OneMachine, Working, ProvisionWorking, Early, Alive,
         MachineStates, ProvisionTypeOK, WorkerRow, ProvisionJob
<1>4. ASSUME NEW q \in Workers, Configures(q) PROVE Watched(r)'
  BY <1>4
     DEF Configures, ProvisionGoes, Watched, OneMachine, Working, ProvisionWorking,
         Early, Alive, MachineStates, ProvisionTypeOK, WorkerRow, ProvisionJob
<1>5. ASSUME NEW q \in Workers, Creates(q) PROVE Watched(r)'
  BY <1>5
     DEF Creates, ProvisionGoes, Watched, OneMachine, Working, ProvisionWorking, Early,
         Alive, MachineStates, ProvisionTypeOK, WorkerRow, ProvisionJob
<1>6. ASSUME NEW q \in Workers, CreateFails(q) PROVE Watched(r)'
  BY <1>6
     DEF CreateFails, ProvisionGoes, Faulted, Watched, OneMachine, Working,
         ProvisionWorking, Early, Alive, MachineStates, ProvisionTypeOK, WorkerRow,
         ProvisionJob
<1>7. ASSUME NEW q \in Workers, Polls(q) PROVE Watched(r)'
  BY <1>7
     DEF Polls, ProvisionGoes, Watched, OneMachine, Working, ProvisionWorking, Early,
         Alive, MachineStates, ProvisionTypeOK, WorkerRow, ProvisionJob
<1>8. ASSUME NEW q \in Workers, ProvisionTimesOut(q) PROVE Watched(r)'
  BY <1>8
     DEF ProvisionTimesOut, ProvisionGoes, Faulted, Watched, OneMachine, Working,
         ProvisionWorking, Early, Alive, MachineStates, ProvisionTypeOK, WorkerRow,
         ProvisionJob
<1>9. ASSUME NEW q \in Workers, Persists(q) PROVE Watched(r)'
  BY <1>9, PersistsEffect
     DEF Watched, Working, ProvisionWorking, Early, Alive, ProvisionTypeOK,
         DeleteRequest
<1>10. ASSUME NEW q \in Workers, Dials(q) PROVE Watched(r)'
  BY <1>10
     DEF Dials, ProvisionGoes, Watched, OneMachine, Working, ProvisionWorking, Early,
         Alive, MachineStates, ProvisionTypeOK, WorkerRow, ProvisionJob
<1>11. ASSUME NEW q \in Workers, Activates(q) PROVE Watched(r)'
  <2>1. CASE rows[q].status = "provisioning" /\ ~rows[q].gone
    <3>1. rows'[q].known /\ ~rows'[q].gone /\ prov'[q].at = "done"
      BY <1>11, <2>1 DEF Activates, ProvisionGoes, ProvisionTypeOK, WorkerRow, ProvisionJob
    <3>2. \A x \in Workers : x # q => prov'[x] = prov[x] /\ rows'[x] = rows[x]
      BY <1>11, <2>1 DEF Activates, ProvisionGoes, ProvisionTypeOK
    <3>. QED
      BY <1>11, <3>1, <3>2 DEF Activates, Watched, Working, Alive
  <2>2. CASE ~(rows[q].status = "provisioning" /\ ~rows[q].gone)
    <3>1. prov'[q].at = "cleaning" /\ rows' = rows
      BY <1>11, <2>2 DEF Activates, ProvisionGoes, ProvisionTypeOK, ProvisionJob
    <3>2. \A x \in Workers : x # q => prov'[x] = prov[x]
      BY <1>11, <2>2 DEF Activates, ProvisionGoes, ProvisionTypeOK
    <3>. QED
      BY <1>11, <3>1, <3>2 DEF Activates, Watched, Working, ProvisionWorking, Alive
  <2>. QED BY <2>1, <2>2
<1>12. ASSUME NEW q \in Workers, ActivateFails(q) PROVE Watched(r)'
  BY <1>12
     DEF ActivateFails, ProvisionGoes, Faulted, Watched, OneMachine, Working,
         ProvisionWorking, Early, Alive, MachineStates, ProvisionTypeOK, WorkerRow,
         ProvisionJob
<1>13. ASSUME NEW q \in Workers, CleansUp(q) PROVE Watched(r)'
  BY <1>13
     DEF CleansUp, ProvisionGoes, Faulted, Watched, OneMachine, Working,
         ProvisionWorking, Early, Alive, MachineStates, ProvisionTypeOK, WorkerRow,
         ProvisionJob
<1>14. ASSUME NEW q \in Workers, FailsRow(q) PROVE Watched(r)'
  BY <1>14
     DEF FailsRow, ProvisionGoes, Watched, OneMachine, Working, ProvisionWorking, Early,
         Alive, MachineStates, ProvisionTypeOK, WorkerRow, ProvisionJob
<1>15. ASSUME NEW q \in Workers, ProvisionRescue(q) PROVE Watched(r)'
  BY <1>15
     DEF ProvisionRescue, ProvisionGoes, ProvisionAttempts, Watched, OneMachine,
         Working, ProvisionWorking, Early, Alive, MachineStates, ProvisionTypeOK,
         WorkerRow, ProvisionJob
<1>16. ASSUME NEW q \in Workers, Boots(q) PROVE Watched(r)'
  BY <1>16
     DEF Boots, Watched, OneMachine, Working, ProvisionWorking, Early, Alive,
         MachineStates, ProvisionTypeOK, WorkerRow, ProvisionJob
<1>17. ASSUME NEW e \in Clicks, DeleteQueues(e) PROVE Watched(r)'
  BY <1>17
     DEF DeleteQueues, Watched, OneMachine, Working, ProvisionWorking, Early, Alive,
         MachineStates, ProvisionTypeOK, WorkerRow, ProvisionJob
<1>18. ASSUME NEW e \in Clicks, DeleteStarts(e) PROVE Watched(r)'
  BY <1>18
     DEF DeleteStarts, Watched, OneMachine, Working, ProvisionWorking, Early, Alive,
         MachineStates, ProvisionTypeOK, WorkerRow, ProvisionJob
<1>19. ASSUME NEW e \in Clicks, DeleteFails(e) PROVE Watched(r)'
  BY <1>19
     DEF DeleteFails, DeleteRetryState, Watched, OneMachine, Working, ProvisionWorking,
         Early, Alive, MachineStates, ProvisionTypeOK, WorkerRow, ProvisionJob
<1>20. ASSUME NEW e \in Clicks, DeleteRescue(e) PROVE Watched(r)'
  BY <1>20
     DEF DeleteRescue, DeleteRetryState, Watched, OneMachine, Working, ProvisionWorking,
         Early, Alive, MachineStates, ProvisionTypeOK, WorkerRow, ProvisionJob
<1>21. ASSUME NEW e \in Clicks, NEW q \in Workers, DeleteReads(e, q) PROVE Watched(r)'
  BY <1>21
     DEF DeleteReads, Watched, OneMachine, Working, ProvisionWorking, Early, Alive,
         MachineStates, ProvisionTypeOK, WorkerRow, ProvisionJob
<1>22. ASSUME NEW e \in Clicks, NEW q \in Workers, DeleteMarks(e, q) PROVE Watched(r)'
  BY <1>22, DeleteMarksEffect
     DEF Watched, Working, ProvisionWorking, Early, Alive, ProvisionTypeOK,
         DeleteRequest
<1>23. ASSUME NEW e \in Clicks, NEW q \in Workers, GracefulStop(e, q) PROVE Watched(r)'
  BY <1>23
     DEF GracefulStop, Watched, OneMachine, Working, ProvisionWorking, Early, Alive,
         MachineStates, ProvisionTypeOK, WorkerRow, ProvisionJob
<1>24. ASSUME NEW e \in Clicks, NEW q \in Workers, Destroys(e, q) PROVE Watched(r)'
  BY <1>24
     DEF Destroys, Watched, OneMachine, Working, ProvisionWorking, Early, Alive,
         MachineStates, ProvisionTypeOK, WorkerRow, ProvisionJob
<1>25. ASSUME NEW e \in Clicks, NEW q \in Workers, SoftDeletes(e, q) PROVE Watched(r)'
  <2>1. Alive(q) /\ q \notin hurt /\ ~Overtaken(q) => Working(q)
    BY <1>25 DEF SoftDeletes, Answered
  <2>2. \A x \in Workers : /\ x # q => rows'[x] = rows[x]
                         /\ rows'[x].known = rows[x].known
                         /\ rows[x].gone => rows'[x].gone
    BY <1>25 DEF SoftDeletes, ProvisionTypeOK, WorkerRow
  <2>. QED
    BY <1>25, <2>1, <2>2 DEF SoftDeletes, Watched, Working, Alive, ProvisionTypeOK
<1>26. ASSUME NEW c \in Checkers, CheckStarts(c) PROVE Watched(r)'
  BY <1>26
     DEF CheckStarts, Watched, OneMachine, Working, ProvisionWorking, Early, Alive,
         MachineStates, ProvisionTypeOK, WorkerRow, ProvisionJob
<1>27. ASSUME NEW c \in Checkers, CheckEnds(c) PROVE Watched(r)'
  BY <1>27
     DEF CheckEnds, Watched, OneMachine, Working, ProvisionWorking, Early, Alive,
         MachineStates, ProvisionTypeOK, WorkerRow, ProvisionJob
<1>28. ASSUME NEW c \in Checkers, NEW q \in Workers, Probes(c, q) PROVE Watched(r)'
  BY <1>28
     DEF Probes, Watched, OneMachine, Working, ProvisionWorking, Early, Alive,
         MachineStates, ProvisionTypeOK, WorkerRow, ProvisionJob
<1>29. ASSUME NEW c \in Checkers, NEW q \in Workers, Heals(c, q) PROVE Watched(r)'
  BY <1>29
     DEF Heals, Watched, OneMachine, Working, ProvisionWorking, Early, Alive,
         MachineStates, ProvisionTypeOK, WorkerRow, ProvisionJob
<1>30. CASE ServerCrash
  BY <1>30
     DEF ServerCrash, Watched, OneMachine, Working, ProvisionWorking, Early, Alive,
         MachineStates, ProvisionTypeOK, WorkerRow, ProvisionJob
<1>31. CASE UNCHANGED provisionVars
  BY <1>31
     DEF provisionVars, Watched, OneMachine, Working, ProvisionWorking, Early, Alive,
         ProvisionTypeOK, WorkerRow, ProvisionJob
<1>. QED
  BY <1>1, <1>2, <1>3, <1>4, <1>5, <1>6, <1>7, <1>8, <1>9, <1>10, <1>11, <1>12, <1>13,
     <1>14, <1>15, <1>16, <1>17, <1>18, <1>19, <1>20, <1>21, <1>22, <1>23, <1>24,
     <1>25, <1>26, <1>27, <1>28, <1>29, <1>30, <1>31
     DEF ProvisionNext, ProvisionStep, DeleteStep, CheckStep

\* No step lets the provision job and a delete request both rely on the other.
LEMMA AnsweredStep ==
  ASSUME IInv, [ProvisionNext]_provisionVars, NEW d \in Clicks
  PROVE  Answered(d)'
<1>0. \A r \in Workers : Overtaken(r) => Overtaken(r)'
  BY OvertakenStays
<1>. USE <1>0 DEF IInv
<1>1. ASSUME NEW q \in Workers, CreatesRow(q) PROVE Answered(d)'
  BY <1>1
     DEF CreatesRow, ProvisionGoes, Answered, Watched, OneMachine, Working,
         ProvisionWorking, Early, Alive, MachineStates, ProvisionTypeOK, WorkerRow,
         ProvisionJob, DeleteRequest
<1>2. ASSUME NEW q \in Workers, QueuesProvision(q) PROVE Answered(d)'
  BY <1>2
     DEF QueuesProvision, ProvisionGoes, Answered, Watched, OneMachine, Working,
         ProvisionWorking, Early, Alive, MachineStates, ProvisionTypeOK, WorkerRow,
         ProvisionJob, DeleteRequest
<1>3. ASSUME NEW q \in Workers, ProvisionStarts(q) PROVE Answered(d)'
  BY <1>3
     DEF ProvisionStarts, Answered, Watched, OneMachine, Working, ProvisionWorking,
         Early, Alive, MachineStates, ProvisionTypeOK, WorkerRow, ProvisionJob,
         DeleteRequest
<1>4. ASSUME NEW q \in Workers, Configures(q) PROVE Answered(d)'
  BY <1>4
     DEF Configures, ProvisionGoes, Answered, Watched, OneMachine, Working,
         ProvisionWorking, Early, Alive, MachineStates, ProvisionTypeOK, WorkerRow,
         ProvisionJob, DeleteRequest
<1>5. ASSUME NEW q \in Workers, Creates(q) PROVE Answered(d)'
  <2>1. prov'[q].at \in {"polling", "persisting"}
    BY <1>5 DEF Creates, ProvisionGoes, ProvisionTypeOK, ProvisionJob
  <2>2. \A x \in Workers : x # q => prov'[x] = prov[x] /\ vm'[x] = vm[x]
    BY <1>5 DEF Creates, ProvisionGoes, ProvisionTypeOK
  <2>. QED
    BY <1>5, <2>1, <2>2
       DEF Creates, Answered, Working, ProvisionWorking, Alive, ProvisionTypeOK, DeleteRequest
<1>6. ASSUME NEW q \in Workers, CreateFails(q) PROVE Answered(d)'
  BY <1>6
     DEF CreateFails, ProvisionGoes, Faulted, Answered, Watched, OneMachine, Working,
         ProvisionWorking, Early, Alive, MachineStates, ProvisionTypeOK, WorkerRow,
         ProvisionJob, DeleteRequest
<1>7. ASSUME NEW q \in Workers, Polls(q) PROVE Answered(d)'
  BY <1>7
     DEF Polls, ProvisionGoes, Answered, Watched, OneMachine, Working, ProvisionWorking,
         Early, Alive, MachineStates, ProvisionTypeOK, WorkerRow, ProvisionJob,
         DeleteRequest
<1>8. ASSUME NEW q \in Workers, ProvisionTimesOut(q) PROVE Answered(d)'
  BY <1>8
     DEF ProvisionTimesOut, ProvisionGoes, Faulted, Answered, Watched, OneMachine,
         Working, ProvisionWorking, Early, Alive, MachineStates, ProvisionTypeOK,
         WorkerRow, ProvisionJob, DeleteRequest
<1>9. ASSUME NEW q \in Workers, Persists(q) PROVE Answered(d)'
  BY <1>9, PersistsEffect
     DEF Answered, Working, ProvisionWorking, Early, Alive, ProvisionTypeOK,
         DeleteRequest
<1>10. ASSUME NEW q \in Workers, Dials(q) PROVE Answered(d)'
  BY <1>10
     DEF Dials, ProvisionGoes, Answered, Watched, OneMachine, Working, ProvisionWorking,
         Early, Alive, MachineStates, ProvisionTypeOK, WorkerRow, ProvisionJob,
         DeleteRequest
<1>11. ASSUME NEW q \in Workers, Activates(q) PROVE Answered(d)'
  <2>1. CASE rows[q].status = "provisioning" /\ ~rows[q].gone
    <3>1. rows'[q].status = "active"
      BY <1>11, <2>1 DEF Activates, ProvisionTypeOK, WorkerRow
    <3>2. \A x \in Workers : x # q => prov'[x] = prov[x] /\ rows'[x] = rows[x]
      BY <1>11, <2>1 DEF Activates, ProvisionGoes, ProvisionTypeOK
    <3>3. q \in del[d].for => del[d].at \in {"idle", "read", "done"}
      BY <1>11, <2>1 DEF Activates, Answered, Watched
    <3>. QED
      BY <1>11, <3>1, <3>2, <3>3
         DEF Activates, Answered, Working, Alive, ProvisionTypeOK, DeleteRequest
  <2>2. CASE ~(rows[q].status = "provisioning" /\ ~rows[q].gone)
    <3>1. prov'[q].at = "cleaning" /\ rows' = rows
      BY <1>11, <2>2 DEF Activates, ProvisionGoes, ProvisionTypeOK, ProvisionJob
    <3>2. \A x \in Workers : x # q => prov'[x] = prov[x]
      BY <1>11, <2>2 DEF Activates, ProvisionGoes, ProvisionTypeOK
    <3>. QED
      BY <1>11, <3>1, <3>2
         DEF Activates, Answered, Working, ProvisionWorking, Alive, ProvisionTypeOK,
             DeleteRequest
  <2>. QED BY <2>1, <2>2
<1>12. ASSUME NEW q \in Workers, ActivateFails(q) PROVE Answered(d)'
  BY <1>12
     DEF ActivateFails, ProvisionGoes, Faulted, Answered, Watched, OneMachine, Working,
         ProvisionWorking, Early, Alive, MachineStates, ProvisionTypeOK, WorkerRow,
         ProvisionJob, DeleteRequest
<1>13. ASSUME NEW q \in Workers, CleansUp(q) PROVE Answered(d)'
  BY <1>13
     DEF CleansUp, ProvisionGoes, Faulted, Answered, Watched, OneMachine, Working,
         ProvisionWorking, Early, Alive, MachineStates, ProvisionTypeOK, WorkerRow,
         ProvisionJob, DeleteRequest
<1>14. ASSUME NEW q \in Workers, FailsRow(q) PROVE Answered(d)'
  BY <1>14
     DEF FailsRow, ProvisionGoes, Answered, Watched, OneMachine, Working,
         ProvisionWorking, Early, Alive, MachineStates, ProvisionTypeOK, WorkerRow,
         ProvisionJob, DeleteRequest
<1>15. ASSUME NEW q \in Workers, ProvisionRescue(q) PROVE Answered(d)'
  BY <1>15
     DEF ProvisionRescue, ProvisionGoes, ProvisionAttempts, Answered, Watched,
         OneMachine, Working, ProvisionWorking, Early, Alive, MachineStates,
         ProvisionTypeOK, WorkerRow, ProvisionJob, DeleteRequest
<1>16. ASSUME NEW q \in Workers, Boots(q) PROVE Answered(d)'
  BY <1>16
     DEF Boots, Answered, Watched, OneMachine, Working, ProvisionWorking, Early, Alive,
         MachineStates, ProvisionTypeOK, WorkerRow, ProvisionJob, DeleteRequest
<1>17. ASSUME NEW e \in Clicks, DeleteQueues(e) PROVE Answered(d)'
  BY <1>17
     DEF DeleteQueues, Answered, Watched, OneMachine, Working, ProvisionWorking, Early,
         Alive, MachineStates, ProvisionTypeOK, WorkerRow, ProvisionJob, DeleteRequest
<1>18. ASSUME NEW e \in Clicks, DeleteStarts(e) PROVE Answered(d)'
  BY <1>18
     DEF DeleteStarts, Answered, Watched, OneMachine, Working, ProvisionWorking, Early,
         Alive, MachineStates, ProvisionTypeOK, WorkerRow, ProvisionJob, DeleteRequest
<1>19. ASSUME NEW e \in Clicks, DeleteFails(e) PROVE Answered(d)'
  BY <1>19
     DEF DeleteFails, DeleteRetryState, Answered, Watched, OneMachine, Working,
         ProvisionWorking, Early, Alive, MachineStates, ProvisionTypeOK, WorkerRow,
         ProvisionJob, DeleteRequest
<1>20. ASSUME NEW e \in Clicks, DeleteRescue(e) PROVE Answered(d)'
  BY <1>20
     DEF DeleteRescue, DeleteRetryState, Answered, Watched, OneMachine, Working,
         ProvisionWorking, Early, Alive, MachineStates, ProvisionTypeOK, WorkerRow,
         ProvisionJob, DeleteRequest
<1>21. ASSUME NEW e \in Clicks, NEW q \in Workers, DeleteReads(e, q) PROVE Answered(d)'
  BY <1>21
     DEF DeleteReads, Answered, Watched, OneMachine, Working, ProvisionWorking, Early,
         Alive, MachineStates, ProvisionTypeOK, WorkerRow, ProvisionJob, DeleteRequest
<1>22. ASSUME NEW e \in Clicks, NEW q \in Workers, DeleteMarks(e, q) PROVE Answered(d)'
  <2>1. CASE d # e
    <3>1. \A x \in del[d].for : x \in Workers
      BY DEF ProvisionTypeOK, DeleteRequest
    <3>. QED BY <1>22, <2>1, <3>1, DeleteMarksEffect DEF Answered, Working, Alive
  <2>2. CASE d = e /\ del'[e].at = "done"
    BY <1>22, <2>2, DeleteMarksEffect DEF Answered
  <2>3. CASE d = e /\ del'[e].at = "marked"
    <3>1. /\ del'[e].for = {q} /\ rows'[q].status = "deleting"
          /\ del'[e].known = del[e].known /\ del'[e].stale = TooLate(e, q)
      BY <1>22, <2>3, DeleteMarksEffect DEF Answered
    <3>2. TooLate(e, q) => Overtaken(q)'
      BY <3>1 DEF Overtaken
    <3>3. ~TooLate(e, q) /\ ~del[e].known => ~rows[q].known \/ Working(q)
      BY DEF TooLate, Working
    <3>4. ~del[e].known /\ ~Overtaken(q)' /\ Alive(q) /\ q \notin hurt => Working(q)
      BY <3>2, <3>3 DEF Watched
    <3>5. (Alive(q)' <=> Alive(q)) /\ (Working(q)' <=> Working(q)) /\ hurt' = hurt
      BY <1>22, DeleteMarksEffect DEF Alive, Working
    <3>. QED BY <2>3, <3>1, <3>4, <3>5 DEF Answered
  <2>. QED BY <1>22, <2>1, <2>2, <2>3, DeleteMarksEffect
<1>23. ASSUME NEW e \in Clicks, NEW q \in Workers, GracefulStop(e, q) PROVE Answered(d)'
  BY <1>23
     DEF GracefulStop, Answered, Watched, OneMachine, Working, ProvisionWorking, Early,
         Alive, MachineStates, ProvisionTypeOK, WorkerRow, ProvisionJob, DeleteRequest
<1>24. ASSUME NEW e \in Clicks, NEW q \in Workers, Destroys(e, q) PROVE Answered(d)'
  <2>1. vm'[q] = "destroyed" /\ \A x \in Workers : x # q => vm'[x] = vm[x]
    BY <1>24 DEF Destroys, ProvisionTypeOK
  <2>2. /\ del[e].at = "destroying" /\ del'[e].for = del[e].for /\ del[e].for = {q}
        /\ \A x \in Clicks : x # e => del'[x] = del[x]
    BY <1>24 DEF Destroys, Answered, ProvisionTypeOK, DeleteRequest
  <2>. QED
    BY <1>24, <2>1, <2>2
       DEF Destroys, Answered, Working, Alive, MachineStates, ProvisionTypeOK, DeleteRequest
<1>25. ASSUME NEW e \in Clicks, NEW q \in Workers, SoftDeletes(e, q) PROVE Answered(d)'
  BY <1>25
     DEF SoftDeletes, Answered, Watched, OneMachine, Working, ProvisionWorking, Early,
         Alive, MachineStates, ProvisionTypeOK, WorkerRow, ProvisionJob, DeleteRequest
<1>26. ASSUME NEW c \in Checkers, CheckStarts(c) PROVE Answered(d)'
  BY <1>26
     DEF CheckStarts, Answered, Watched, OneMachine, Working, ProvisionWorking, Early,
         Alive, MachineStates, ProvisionTypeOK, WorkerRow, ProvisionJob, DeleteRequest
<1>27. ASSUME NEW c \in Checkers, CheckEnds(c) PROVE Answered(d)'
  BY <1>27
     DEF CheckEnds, Answered, Watched, OneMachine, Working, ProvisionWorking, Early,
         Alive, MachineStates, ProvisionTypeOK, WorkerRow, ProvisionJob, DeleteRequest
<1>28. ASSUME NEW c \in Checkers, NEW q \in Workers, Probes(c, q) PROVE Answered(d)'
  BY <1>28
     DEF Probes, Answered, Watched, OneMachine, Working, ProvisionWorking, Early, Alive,
         MachineStates, ProvisionTypeOK, WorkerRow, ProvisionJob, DeleteRequest
<1>29. ASSUME NEW c \in Checkers, NEW q \in Workers, Heals(c, q) PROVE Answered(d)'
  BY <1>29
     DEF Heals, Answered, Watched, OneMachine, Working, ProvisionWorking, Early, Alive,
         MachineStates, ProvisionTypeOK, WorkerRow, ProvisionJob, DeleteRequest
<1>30. CASE ServerCrash
  <2>1. \A x \in Workers : Working(x) => x \in hurt'
    BY <1>30 DEF ServerCrash, Working
  <2>2. /\ del'[d].for = del[d].for /\ del'[d].known = del[d].known
        /\ del'[d].at \in {del[d].at, "stuck", "done"} /\ del'[d].at # "softdeleting"
        /\ del'[d].at = "stuck" /\ del[d].at # "stuck" => del[d].at \in DeleteWorking
    BY <1>30 DEF ServerCrash, DeleteWorking, ProvisionTypeOK, DeleteRequest
  <2>3. hurt \subseteq hurt'
    BY <1>30 DEF ServerCrash
  <2>. QED
    BY <1>30, <2>1, <2>2, <2>3
       DEF ServerCrash, Answered, Alive, DeleteWorking, ProvisionTypeOK, DeleteRequest
<1>31. CASE UNCHANGED provisionVars
  BY <1>31
     DEF provisionVars, Answered, Watched, OneMachine, Working, ProvisionWorking, Early,
         Alive, ProvisionTypeOK, WorkerRow, ProvisionJob, DeleteRequest
<1>. QED
  BY <1>1, <1>2, <1>3, <1>4, <1>5, <1>6, <1>7, <1>8, <1>9, <1>10, <1>11, <1>12, <1>13,
     <1>14, <1>15, <1>16, <1>17, <1>18, <1>19, <1>20, <1>21, <1>22, <1>23, <1>24,
     <1>25, <1>26, <1>27, <1>28, <1>29, <1>30, <1>31
     DEF ProvisionNext, ProvisionStep, DeleteStep, CheckStep

-----------------------------------------------------------------------------
(* The theorems.                                                            *)

\* No worker has a row, a job or a machine at first.
LEMMA InitIInv == ProvisionInit => IInv
<1>. SUFFICES ASSUME ProvisionInit PROVE IInv
  OBVIOUS
<1>1. ProvisionTypeOK
  BY
     DEF ProvisionInit, ProvisionTypeOK, WorkerRow, ProvisionJob, DeleteRequest,
         Statuses,
         MachineStates, ProvisionStates, DeleteStates
<1>2. ASSUME NEW r \in Workers PROVE OneMachine(r) /\ Watched(r)
  BY DEF ProvisionInit, OneMachine, Watched, Working, ProvisionWorking, Early, Alive,
         MachineStates
<1>3. ASSUME NEW d \in Clicks PROVE Answered(d)
  BY DEF ProvisionInit, Answered
<1>. QED BY <1>1, <1>2, <1>3 DEF IInv

\* A worker whose machine is watched, and is its only one, is not lost.
LEMMA IInvNoOrphan == IInv => NoOrphan
BY DEF IInv, NoOrphan, OneMachine, Watched, Working

\* Every step keeps the invariant, since it keeps each of its parts.
LEMMA IInvStep == IInv /\ [ProvisionNext]_provisionVars => IInv'
<1>. SUFFICES ASSUME IInv, [ProvisionNext]_provisionVars PROVE IInv'
  OBVIOUS
<1>1. ProvisionTypeOK'
  BY ProvisionTypeStep DEF IInv
<1>2. \A r \in Workers : OneMachine(r)'
  BY OneMachineStep
<1>3. \A r \in Workers : Watched(r)'
  BY WatchedStep
<1>4. \A d \in Clicks : Answered(d)'
  BY AnsweredStep
<1>. QED BY <1>1, <1>2, <1>3, <1>4 DEF IInv

\* The table, the machines, the jobs and the requests keep their types.
THEOREM ProvisionTypeCorrect == ProvisionSpec => []ProvisionTypeOK
<1>1. IInv => ProvisionTypeOK
  BY DEF IInv
<1>. QED BY <1>1, InitIInv, IInvStep, PTL DEF ProvisionSpec

\* However many machines, delete requests and health checks there are, however
\* they interleave and wherever the server dies, no row has two machines, and a
\* machine runs unknown to a live row only while its provision job is at work, or
\* when that job met a fault or made the row active between a delete request's
\* reading and marking it (WorkerProvisionWorker, DeleteWorkerHandler).
THEOREM NoMachineLost == ProvisionSpec => []NoOrphan
<1>. QED BY IInvNoOrphan, InitIInv, IInvStep, PTL DEF ProvisionSpec

=============================================================================
