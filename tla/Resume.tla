------------------------------- MODULE Resume -------------------------------
(***************************************************************************)
(* Crash and resume of a command-line scrape to a file (filerunner.go and  *)
(* runner/resume): sessions of the program, each of which may be killed at *)
(* any step, share the results file and its sidecar of completed inputs.   *)
(*                                                                         *)
(* A line of the input has an id (Id), which the sidecar records, and a    *)
(* search that finds places (Finds), the same in every session: "Resume    *)
(* runs should use the same input and scrape options" (README.md).  Within *)
(* a session the engine runs the unit <<l, p>> for a place p that line l   *)
(* found; how it schedules them is Scrapemate's subject, and here a unit   *)
(* only moves from stage to stage.  A record torn by a crash is            *)
(* ResultFile's subject: here it is not written.                           *)
(***************************************************************************)
EXTENDS Naturals, FiniteSets

CONSTANTS
  Lines, Places, Ids,
  Id,          \* the id of each line, deterministic or given after #!#
  Finds,       \* the places the search of each line finds
  LinkKnown,   \* places whose result records the link they were found under
  MaxResults,  \* -max-results-per-query, 0 for no limit
  FreshRuns,   \* some sessions run without -resume
  PowerLoss,   \* a crash may be one of the machine, not only of the process
  IOMayFail,   \* a write, a sync or the sidecar's replacement may fail
  None         \* no unit

ASSUME InputAssumption ==
  /\ IsFiniteSet(Lines) /\ IsFiniteSet(Places)
  /\ Id \in [Lines -> Ids] /\ Finds \in [Lines -> SUBSET Places]
ASSUME OptionAssumption ==
  /\ MaxResults \in Nat /\ LinkKnown \subseteq Places
  /\ {FreshRuns, PowerLoss, IOMayFail} \subseteq BOOLEAN

Units == {u \in Lines \X Places : u[2] \in Finds[u[1]]}
ASSUME NoneAssumption == None \notin Units
VARIABLES
  \* on disk
  rows,      \* how many rows of the results file each place has
  synced,    \* the places whose rows reached the disk for certain
  relied,    \* history: unsynced places of queries marked without a sync
  completed, \* the ids in the sidecar
  \* in the memory of the running session
  mode,      \* "off", "truncating", "resume", "fresh"
  ids,       \* resumeIDs: the identities of the file's rows
  dedup,     \* the links the deduper knows
  line,      \* each line's search: "skipped", "waiting", "done", "failed"
  stage,     \* each unit: "none", "pending", "sent", "written", "acked", "failed"
  progress,  \* the ProgressTracker's entry of each id
  wunit,     \* the unit the writer holds, or None
  wstep      \* what it does: "idle", "ack", "sync", "mark", "dead"

disk == <<rows, synced, relied, completed>>
memory == <<mode, ids, dedup, line, stage, progress, wunit, wstep>>
vars == <<disk, memory>>

InFile == {p \in Places : rows[p] > 0}

Progress ==
  [seedDone : BOOLEAN, placesFound : Nat, placesCompleted : Nat, marked : BOOLEAN]

NewProgress ==
  [i \in Ids |-> [seedDone |-> FALSE, placesFound |-> 0,
                  placesCompleted |-> 0, marked |-> FALSE]]

\* What a session starts from; "off" forgets it all.
Memory(m, known, skips) ==
  /\ mode' = m
  /\ ids' = known
  /\ dedup' = known \cap LinkKnown
  /\ line' = [l \in Lines |-> IF Id[l] \in skips THEN "skipped" ELSE "waiting"]
  /\ stage' = [u \in Units |-> "none"]
  /\ progress' = NewProgress
  /\ wunit' = None /\ wstep' = "idle"

Init ==
  /\ rows = [p \in Places |-> 0] /\ synced = {} /\ relied = {} /\ completed = {}
  /\ mode = "off" /\ ids = {} /\ dedup = {}
  /\ line = [l \in Lines |-> "waiting"]
  /\ stage = [u \in Units |-> "none"]
  /\ progress = NewProgress
  /\ wunit = None /\ wstep = "idle"

-----------------------------------------------------------------------------
(* Sessions                                                                 *)

\* initResume reads both files; seed creation skips the completed ids.
StartResume ==
  /\ mode = "off"
  /\ Memory("resume", InFile, completed)
  /\ UNCHANGED disk

\* Without -resume the sidecar goes first ...
RemoveState ==
  /\ FreshRuns /\ mode = "off"
  /\ completed' = {}
  /\ Memory("truncating", {}, {})
  /\ UNCHANGED <<rows, synced, relied>>

\* ... and the results file is truncated after it.
TruncateResults ==
  /\ mode = "truncating"
  /\ rows' = [p \in Places |-> 0] /\ synced' = {} /\ relied' = {}
  /\ Memory("fresh", {}, {})
  /\ UNCHANGED completed

\* The process is killed, or exits; only what it wrote is left.
Stop ==
  /\ mode # "off"
  /\ Memory("off", {}, {})
  /\ UNCHANGED disk

\* The machine fails: rows never synced may be lost.
LosePower ==
  /\ PowerLoss /\ mode # "off"
  /\ \E lost \in SUBSET (InFile \ synced) :
       rows' = [p \in Places |-> IF p \in lost THEN 0 ELSE rows[p]]
  /\ synced' = {p \in Places : rows'[p] > 0}
  /\ Memory("off", {}, {})
  /\ UNCHANGED <<relied, completed>>

Working == mode \in {"resume", "fresh"}

-----------------------------------------------------------------------------
(* The search jobs                                                          *)

SearchFails(l) ==
  /\ Working /\ line[l] = "waiting"
  /\ line' = [line EXCEPT ![l] = "failed"]
  /\ UNCHANGED <<disk, mode, ids, dedup, stage, progress, wunit, wstep>>

\* The links GmapJob.Process pushes: those the deduper admits, to the limit.
Admitted(l) == Finds[l] \ dedup

Chosen(l) ==
  IF MaxResults = 0 \/ Cardinality(Admitted(l)) <= MaxResults
  THEN {Admitted(l)}
  ELSE {ps \in SUBSET Admitted(l) : Cardinality(ps) = MaxResults}

\* maybeMarkLocked's condition on an entry of the tracker.
InputDone(pr) ==
  ~pr.marked /\ pr.seedDone /\ pr.placesCompleted >= pr.placesFound

\* The mutex of the tracker is held while the writer syncs and marks.
TrackerFree == wstep \notin {"sync", "mark"}

Discovered_AtLeastOne(i, n) ==
  /\ progress' = [progress EXCEPT ![i] =
                    [@ EXCEPT !.seedDone = TRUE, !.placesFound = @ + IF n = 0 THEN 1 ELSE n]]
  /\ UNCHANGED <<completed, relied>>

\* The unsynced rows that the queries with this id rely on.
Unsynced(i) ==
  {p \in InFile \ synced : \E l \in Lines : Id[l] = i /\ p \in Finds[l]}

\* SeedDiscovered counts the new places and may mark the input, without
\* syncing the results; its error is ignored.
Discovered(i, n) ==
  LET pr == [progress[i] EXCEPT !.seedDone = TRUE, !.placesFound = @ + n]
  IN \/ /\ InputDone(pr)
        /\ completed' = completed \cup {i}
        /\ relied' = relied \cup Unsynced(i)
        /\ progress' = [progress EXCEPT ![i] = [pr EXCEPT !.marked = TRUE]]
     \/ /\ ~InputDone(pr) \/ IOMayFail
        /\ progress' = [progress EXCEPT ![i] = pr]
        /\ UNCHANGED <<completed, relied>>

\* A search that Google redirects to its only place bypasses the deduper.
SearchProcessed(l) ==
  /\ Working /\ line[l] = "waiting" /\ TrackerFree
  /\ \/ \E new \in Chosen(l) :
          /\ dedup' = dedup \cup new
          /\ stage' = [u \in Units |-> IF u \in {l} \X new THEN "pending" ELSE stage[u]]
          /\ IF mode = "resume" THEN Discovered(Id[l], Cardinality(new))
             ELSE UNCHANGED <<progress, completed, relied>>
     \/ /\ Cardinality(Finds[l]) = 1
        /\ stage' = [u \in Units |-> IF u[1] = l THEN "pending" ELSE stage[u]]
        /\ IF mode = "resume" THEN Discovered(Id[l], 1)
           ELSE UNCHANGED <<progress, completed, relied>>
        /\ UNCHANGED dedup
  /\ line' = [line EXCEPT ![l] = "done"]
  /\ UNCHANGED <<rows, synced, mode, ids, wunit, wstep>>

-----------------------------------------------------------------------------
(* The place and e-mail jobs                                                *)

UnitMoves(u, from, to) ==
  /\ Working /\ stage[u] = from
  /\ stage' = [stage EXCEPT ![u] = to]

UnitFails(u) ==
  /\ UnitMoves(u, "pending", "failed")
  /\ UNCHANGED <<disk, mode, ids, dedup, line, progress, wunit, wstep>>

UnitScraped(u) ==
  /\ UnitMoves(u, "pending", "sent")
  /\ UNCHANGED <<disk, mode, ids, dedup, line, progress, wunit, wstep>>

-----------------------------------------------------------------------------
(* The append writer                                                        *)

WriterDies == wstep' = "dead" /\ UNCHANGED <<wunit>>

Written_Always(p) ==
  /\ rows' = [rows EXCEPT ![p] = @ + 1]
  /\ ids' = IF mode = "resume" THEN ids \cup {p} ELSE ids
  /\ UNCHANGED synced

\* A result is written unless an identity of it is in the file already; a
\* session without -resume has a plain writer, which writes every result.
Written(p) ==
  IF p \in ids THEN UNCHANGED <<rows, synced, ids>>
  ELSE /\ rows' = [rows EXCEPT ![p] = @ + 1]
       /\ ids' = IF mode = "resume" THEN ids \cup {p} ELSE ids
       /\ UNCHANGED synced

WriterWrites(u) ==
  /\ wstep = "idle"
  /\ \/ /\ UnitMoves(u, "sent", "written")
        /\ Written(u[2])
        /\ IF mode = "resume" THEN wunit' = u /\ wstep' = "ack"
           ELSE UNCHANGED <<wunit, wstep>>
     \/ /\ IOMayFail /\ UnitMoves(u, "sent", "failed")
        /\ WriterDies /\ UNCHANGED <<rows, synced, ids>>
  /\ UNCHANGED <<relied, completed, mode, dedup, line, progress>>

\* ResultPersisted takes the lock, counts the result, and goes on to mark
\* the input when it was its last.
WriterAcknowledges ==
  /\ wstep = "ack"
  /\ LET i == Id[wunit[1]]
         pr == [progress[i] EXCEPT !.placesCompleted = @ + 1]
     IN /\ progress' = [progress EXCEPT ![i] = pr]
        /\ wstep' = IF InputDone(pr) THEN "sync" ELSE "idle"
  /\ stage' = [stage EXCEPT ![wunit] = "acked"]
  /\ UNCHANGED <<disk, mode, ids, dedup, line, wunit>>

WriterSyncs_Skipped ==
  /\ wstep = "sync" /\ wstep' = "mark"
  /\ UNCHANGED <<disk, mode, ids, dedup, line, stage, progress, wunit>>

\* The results file is synced before the input is marked.
WriterSyncs ==
  /\ wstep = "sync"
  /\ \/ wstep' = "mark" /\ synced' = InFile /\ relied' = relied \ InFile /\ UNCHANGED wunit
     \/ IOMayFail /\ WriterDies /\ UNCHANGED <<synced, relied>>
  /\ UNCHANGED <<rows, completed, mode, ids, dedup, line, stage, progress>>

\* MarkInputCompleted replaces the sidecar (written, synced, renamed).
WriterMarks ==
  /\ wstep = "mark"
  /\ LET i == Id[wunit[1]] IN
       \/ /\ completed' = completed \cup {i}
          /\ progress' = [progress EXCEPT ![i].marked = TRUE]
          /\ wstep' = "idle" /\ UNCHANGED wunit
       \/ IOMayFail /\ WriterDies /\ UNCHANGED <<completed, progress>>
  /\ UNCHANGED <<rows, synced, relied, mode, ids, dedup, line, stage>>

Next ==
  \/ StartResume \/ RemoveState \/ TruncateResults \/ Stop \/ LosePower
  \/ \E l \in Lines : SearchFails(l) \/ SearchProcessed(l)
  \/ \E u \in Units : UnitFails(u) \/ UnitScraped(u) \/ WriterWrites(u)
  \/ WriterAcknowledges \/ WriterSyncs \/ WriterMarks

Spec == Init /\ [][Next]_vars

(* A session that is up runs its jobs and its writer; nothing obliges it to *)
(* stop, a job to fail, or the user to start another session.               *)
Fairness ==
  /\ WF_vars(StartResume)
  /\ \A l \in Lines : WF_vars(SearchProcessed(l))
  /\ \A u \in Units : WF_vars(UnitScraped(u)) /\ WF_vars(WriterWrites(u))
  /\ WF_vars(WriterAcknowledges) /\ WF_vars(WriterSyncs) /\ WF_vars(WriterMarks)

FairSpec == Spec /\ Fairness

-----------------------------------------------------------------------------
(* Properties                                                               *)

TypeOK ==
  /\ rows \in [Places -> Nat]
  /\ synced \subseteq Places /\ relied \subseteq Places
  /\ completed \subseteq Ids
  /\ mode \in {"off", "truncating", "resume", "fresh"}
  /\ ids \subseteq Places /\ dedup \subseteq Places
  /\ line \in [Lines -> {"skipped", "waiting", "done", "failed"}]
  /\ stage \in [Units -> {"none", "pending", "sent", "written", "acked", "failed"}]
  /\ progress \in [Ids -> Progress]
  /\ wunit \in Units \cup {None}
  /\ wstep \in {"idle", "ack", "sync", "mark", "dead"}
  /\ wstep \in {"ack", "sync", "mark"} => wunit # None

\* A query the sidecar calls completed has lost nothing, whether the process
\* was killed or the machine failed: each place it finds is in the results file,
\* or is left to a query that later sessions run again.  Only a row that was not
\* synced when SeedDiscovered marked the query may be gone (progress.go:45).
CompletedIsWritten ==
  \A l \in Lines : Id[l] \in completed =>
    \A p \in Finds[l] :
      \/ p \in InFile \cup relied
      \/ \E m \in Lines : p \in Finds[m] /\ Id[m] \notin completed

\* A session with -resume never appends a place that the file has: neither
\* one an earlier session wrote nor one that two queries of this session found.
ResumeNeverDuplicates ==
  [][mode = "resume" /\ mode' = "resume" =>
       \A p \in Places : rows'[p] > rows[p] => rows[p] = 0]_vars

\* A session with -resume that is not interrupted, and in which no job and no
\* write fails, leaves every query in the sidecar and every place of the queries
\* it did not skip in the results file; of those it skipped, CompletedIsWritten
\* speaks.  A mark that failed is an input that is done and stays unmarked.
Failing ==
  \/ \E l \in Lines : line[l] = "failed"
  \/ \E u \in Units : stage[u] = "failed"
  \/ wstep = "dead" \/ \E i \in Ids : InputDone(progress[i])

ResumeCompletes ==
  <>[](mode = "resume" /\ ~Failing) =>
    <>[](\A l \in Lines : /\ Id[l] \in completed
                          /\ line[l] = "skipped" \/ Finds[l] \subseteq InFile)

-----------------------------------------------------------------------------
(* The inductive invariant behind CompletedIsWritten: what a session knows  *)
(* in memory agrees with what is on disk.  It speaks of inputs whose lines  *)
(* have distinct ids.                                                       *)

FoundBy(l) == {p \in Finds[l] : stage[<<l, p>>] # "none"}
AckedBy(l) == {p \in Finds[l] : stage[<<l, p>>] = "acked"}

\* The tracker's counters are the sizes of these sets.
Accounted ==
  \A l \in Lines :
    /\ progress[Id[l]].placesFound = Cardinality(FoundBy(l))
    /\ progress[Id[l]].placesCompleted = Cardinality(AckedBy(l))
    /\ line[l] # "done" => FoundBy(l) = {} /\ ~progress[Id[l]].seedDone

\* A place left out of a line's units was in the file, or is another line's.
Claimed ==
  /\ \A l \in Lines : line[l] = "done" => Finds[l] \subseteq FoundBy(l) \cup dedup
  /\ \A p \in dedup : p \in InFile \/ \E m \in Lines : p \in FoundBy(m)

Persisted ==
  /\ ids \subseteq InFile
  /\ \A l \in Lines : \A p \in Finds[l] :
       stage[<<l, p>>] \in {"written", "acked"} => p \in InFile

Settled(l) == line[l] = "done" /\ FoundBy(l) \subseteq AckedBy(l)

CompletedSettled ==
  \A l \in Lines : Id[l] \in completed => line[l] = "skipped" \/ Settled(l)

WriterConsistent ==
  /\ wstep = "ack" => stage[wunit] = "written"
  /\ wstep \in {"sync", "mark"} => Settled(wunit[1])

SessionInv ==
  Accounted /\ Claimed /\ Persisted /\ CompletedSettled /\ WriterConsistent

\* What a completed query relies on is on disk for certain, or was unsynced
\* when SeedDiscovered marked it, or is left to another query.
Durable == synced \cup relied

CompletedIsDurable ==
  \A l \in Lines : Id[l] \in completed =>
    \A p \in Finds[l] :
      p \in Durable \/ \E m \in Lines : p \in Finds[m] /\ Id[m] \notin completed

IInv ==
  /\ TypeOK
  /\ CompletedIsDurable
  /\ synced \subseteq InFile
  /\ wstep = "mark" => synced = InFile
  /\ mode \in {"truncating", "fresh"} => completed = {}
  /\ wstep \in {"ack", "sync", "mark"} => mode = "resume"
  /\ mode = "resume" => SessionInv
=============================================================================
