---------------------------- MODULE RunnersProofs ----------------------------
(***************************************************************************)
(* The command line's parts, for any number of jobs, delete requests,      *)
(* processes, fetchers, browsers, places and records: the web runner, the  *)
(* database runner, the browser pool, the results file, and the choice of  *)
(* one of them.                                                            *)
(***************************************************************************)
EXTENDS RunnersMC, FiniteSetTheorems, SequenceTheorems, WellFoundedInduction, TLAPS

-----------------------------------------------------------------------------
(* Web runner: jobs and files                                               *)

Erased(j) == \E d \in Deletes : erase[d].job = j

Statuses == Final \cup {"none", "pending", "working", "gone"}

EraseState == [at : {"idle", "found", "absent", "removed", "done"}, job : WebJobs \cup {NoJob}]

WebShapes ==
  /\ row \in [WebJobs -> Statuses]
  /\ csv \in [WebJobs -> {"none", "part", "whole"}]
  /\ loop \in [at : LoopStates, job : WebJobs \cup {NoJob}]
  /\ erase \in [Deletes -> EraseState]
  /\ scrapes \in [WebJobs -> Nat]

\* A job that waits was never scraped, and no job twice.
Unscraped ==
  /\ \A j \in WebJobs : row[j] \in {"none", "pending"} => scrapes[j] = 0
  /\ ScrapedOnce

\* What the loop knows of the job it holds.
WebInHand ==
  /\ ctx = "down" => loop.at = "tick"
  /\ loop.at # "tick" => loop.job \in WebJobs
  /\ loop.at = "picked" => row[loop.job] \in {"pending", "gone"}
  /\ loop.at \in {"picked", "marked"} => scrapes[loop.job] = 0
  /\ loop.at \notin {"tick", "picked"} => row[loop.job] \in {"working", "gone"}
  /\ loop.at \in {"created", "set", "running"} => csv[loop.job] = "part" \/ Erased(loop.job)
  /\ loop.at = "ended" /\ ctx = "up" => csv[loop.job] = "whole" \/ Erased(loop.job)

\* A request that is about to delete the row found no file, or removed it, or the
\* loop made one since.
Removing ==
  /\ \A d \in Deletes :
       /\ erase[d].at = "idle" => erase[d].job = NoJob
       /\ erase[d].at \in {"absent", "removed"} => \A j \in WebJobs :
            erase[d].job = j => csv[j] = "none" \/ j \in raced
  /\ \A j \in WebJobs : row[j] = "gone" => Erased(j)

WebInv == WebShapes /\ Unscraped /\ WebInHand /\ Removing /\ OkIsWhole /\ StrayFilesExplained

LEMMA StepsOf ==
  LoopStates = {"tick", "picked", "marked", "created", "set", "running", "ended",
                "failing", "leaving"}
  BY DEF LoopStates

LEMMA StatusesOf == Statuses = {"ok", "failed", "none", "pending", "working", "gone"}
  BY DEF Statuses, Final

LEMMA TickType == AtTick \in [at : LoopStates, job : WebJobs \cup {NoJob}] /\ AtTick.at = "tick"
  BY DEF AtTick, LoopStates

LEMMA WebInitInv == WebInit => WebInv
<1> SUFFICES ASSUME WebInit PROVE WebInv
  OBVIOUS
<1>1. WebShapes
  BY TickType, StatusesOf DEF WebInit, WebShapes, EraseState
<1>2. Unscraped /\ WebInHand
  BY TickType DEF WebInit, Unscraped, ScrapedOnce, WebInHand
<1>3. Removing /\ OkIsWhole /\ StrayFilesExplained
  BY WebAssumption DEF WebInit, Removing, OkIsWhole, StrayFilesExplained
<1>. QED BY <1>1, <1>2, <1>3 DEF WebInv

-----------------------------------------------------------------------------
(* The loop moves on with its job                                           *)

LEMMA LoopMoves ==
  ASSUME WebShapes, NEW at \in LoopStates, LoopGoes(at)
  PROVE  /\ loop'.at = at /\ loop'.job = loop.job
         /\ loop' \in [at : LoopStates, job : WebJobs \cup {NoJob}]
  BY DEF WebShapes, LoopGoes

LEMMA RowUpdated ==
  ASSUME WebShapes, NEW j \in WebJobs, NEW given \in Statuses, row' = Updated(j, given)
  PROVE  /\ row' \in [WebJobs -> Statuses]
         /\ \A k \in WebJobs : k # j => row'[k] = row[k]
         /\ row[j] \in {"none", "gone"} => row'[j] = row[j]
         /\ row[j] \notin {"none", "gone"} => row'[j] = given
  BY DEF WebShapes, Updated, InTable

\* Steps of the loop that only move it, or drop its job.
LEMMA LoopOnly ==
  ASSUME WebInv, UNCHANGED <<row, csv, erase, ctx, scrapes, raced>>,
         loop' \in [at : LoopStates, job : WebJobs \cup {NoJob}],
         \/ loop'.at = "tick"
         \/ loop'.job = loop.job /\ loop.at = "created" /\ loop'.at \in {"set", "failing"}
         \/ loop'.job = loop.job /\ loop.at = "set" /\ loop'.at \in {"running", "leaving"}
         \/ loop'.job = loop.job /\ loop.at = "running" /\ loop'.at = "leaving"
         \/ loop'.job = loop.job /\ loop.at = "running" /\ loop'.at = "ended" /\ ctx # "up"
  PROVE  WebInv'
<1>. USE DEF WebInv
<1>1. WebShapes'
  BY DEF WebShapes
<1>2. Unscraped'
  BY DEF Unscraped, ScrapedOnce
<1>3. \A j : Erased(j)' = Erased(j)
  BY DEF Erased
<1>4. WebInHand'
  BY <1>3 DEF WebInHand
<1>5. Removing' /\ OkIsWhole' /\ StrayFilesExplained'
  BY <1>3 DEF Removing, OkIsWhole, StrayFilesExplained
<1>. QED BY <1>1, <1>2, <1>4, <1>5

\* Steps after which the loop's job has another status, or the one it had, and
\* the loop holds no job.
LEMMA LoopDone ==
  ASSUME WebInv, loop.at \notin {"tick", "picked"}, NEW given \in {"working", "failed", "ok"},
         row' = Updated(loop.job, given) \/ row' = row,
         row' # row => (given = "ok" => loop.at = "ended" /\ ctx = "up"),
         loop' = AtTick, UNCHANGED <<csv, erase, ctx, scrapes, raced>>
  PROVE  WebInv'
<1>. USE DEF WebInv
<1>0. loop.job \in WebJobs /\ row[loop.job] \in {"working", "gone"}
  BY DEF WebInHand
<1>1. /\ row' \in [WebJobs -> Statuses]
      /\ \A k \in WebJobs : k # loop.job => row'[k] = row[k]
      /\ row[loop.job] = "gone" => row'[loop.job] = "gone"
      /\ row[loop.job] = "working" => row'[loop.job] \in {"working", given}
  <2>1. given \in Statuses
    BY StatusesOf
  <2>2. CASE row' = row
    BY <2>2, <1>0 DEF WebShapes
  <2>3. CASE row' = Updated(loop.job, given)
    BY <2>1, <2>3, <1>0, RowUpdated
  <2>. QED BY <2>2, <2>3
<1>2. row'[loop.job] = "ok" => csv[loop.job] = "whole" \/ Erased(loop.job)
  BY <1>0, <1>1 DEF WebInHand
<1>3. WebShapes'
  BY <1>1, TickType DEF WebShapes
<1>4. \A j : Erased(j)' = Erased(j)
  BY DEF Erased
<1>5. Unscraped'
  BY <1>0, <1>1 DEF Unscraped, ScrapedOnce
<1>6. WebInHand'
  BY TickType DEF WebInHand
<1>7. Removing'
  BY <1>0, <1>1, <1>4 DEF Removing
<1>8. OkIsWhole'
  BY <1>0, <1>1, <1>2 DEF OkIsWhole, Erased
<1>9. StrayFilesExplained'
  BY <1>0, <1>1 DEF StrayFilesExplained
<1>. QED BY <1>3, <1>5, <1>6, <1>7, <1>8, <1>9

-----------------------------------------------------------------------------
(* The steps                                                                *)

LEMMA SubmitStep ==
  ASSUME WebInv, NEW j \in WebJobs, Submit(j)
  PROVE  WebInv'
<1>. USE DEF WebInv
<1>1. /\ row[j] = "none" /\ row' = [row EXCEPT ![j] = "pending"]
      /\ UNCHANGED <<csv, loop, erase, ctx, scrapes, raced>>
  BY DEF Submit
<1>2. row' \in [WebJobs -> Statuses] /\ row'[j] = "pending"
      /\ \A k \in WebJobs : k # j => row'[k] = row[k]
  BY <1>1, StatusesOf DEF WebShapes
<1>3. \A k : Erased(k)' = Erased(k)
  BY <1>1 DEF Erased
<1>4. WebShapes' /\ Unscraped'
  BY <1>1, <1>2 DEF WebShapes, Unscraped, ScrapedOnce
<1>5. WebInHand'
  BY <1>1, <1>2, <1>3 DEF WebInHand
<1>6. Removing' /\ OkIsWhole' /\ StrayFilesExplained'
  BY <1>1, <1>2, <1>3 DEF Removing, OkIsWhole, StrayFilesExplained
<1>. QED BY <1>4, <1>5, <1>6

LEMMA PicksStep ==
  ASSUME WebInv, Picks \/ PickFails
  PROVE  WebInv'
<1>. USE DEF WebInv
<1>1. UNCHANGED <<row, csv, erase, scrapes, raced>> /\ ctx = "up" /\ loop.at = "tick"
  BY DEF Picks, PickFails
<1>2. \A k : Erased(k)' = Erased(k)
  BY <1>1 DEF Erased
<1>3. CASE Picks
  <2>1. PICK j \in WebJobs : row[j] = "pending" /\ loop' = [at |-> "picked", job |-> j]
    BY <1>3 DEF Picks, Newest, Pending
  <2>2. ctx' = ctx
    BY <1>3 DEF Picks
  <2>3. WebShapes' /\ Unscraped'
    BY <1>1, <2>1, StepsOf DEF WebShapes, Unscraped, ScrapedOnce
  <2>4. WebInHand'
    BY <1>1, <2>1, <2>2 DEF WebInHand, Unscraped
  <2>5. Removing' /\ OkIsWhole' /\ StrayFilesExplained'
    BY <1>1, <1>2 DEF Removing, OkIsWhole, StrayFilesExplained
  <2>. QED BY <2>3, <2>4, <2>5
<1>4. CASE PickFails
  <2>1. loop' = loop /\ ctx' = "stopping"
    BY <1>4 DEF PickFails
  <2>2. WebShapes' /\ Unscraped' /\ WebInHand'
    BY <1>1, <2>1 DEF WebShapes, Unscraped, ScrapedOnce, WebInHand
  <2>3. Removing' /\ OkIsWhole' /\ StrayFilesExplained'
    BY <1>1, <1>2 DEF Removing, OkIsWhole, StrayFilesExplained
  <2>. QED BY <2>2, <2>3
<1>. QED BY <1>3, <1>4

LEMMA MarksWorkingStep ==
  ASSUME WebInv, MarksWorking
  PROVE  WebInv'
<1>. USE DEF WebInv
<1>1. loop.at = "picked" /\ UNCHANGED <<csv, erase, ctx, scrapes, raced>>
  BY DEF MarksWorking
<1>2. CASE UNCHANGED row /\ loop' = AtTick
  BY <1>1, <1>2, TickType, LoopOnly
<1>3. CASE ctx = "up" /\ row' = Updated(loop.job, "working") /\ LoopGoes("marked")
  <2>1. loop.job \in WebJobs /\ row[loop.job] \in {"pending", "gone"} /\ scrapes[loop.job] = 0
    BY <1>1 DEF WebInHand
  <2>2. /\ row' \in [WebJobs -> Statuses]
        /\ \A k \in WebJobs : k # loop.job => row'[k] = row[k]
        /\ row[loop.job] = "gone" => row'[loop.job] = "gone"
        /\ row'[loop.job] \in {"working", "gone"}
    <3>1. "working" \in Statuses
      BY StatusesOf
    <3>. QED BY <3>1, <2>1, <1>3, RowUpdated
  <2>3. /\ loop'.at = "marked" /\ loop'.job = loop.job
        /\ loop' \in [at : LoopStates, job : WebJobs \cup {NoJob}]
    BY <1>3, LoopMoves, StepsOf
  <2>4. \A k : Erased(k)' = Erased(k)
    BY <1>1 DEF Erased
  <2>5. row'[loop.job] = "gone" => row[loop.job] = "gone"
    <3>1. "working" \in Statuses
      BY StatusesOf
    <3>. QED BY <3>1, <2>1, <1>3, RowUpdated
  <2>6. WebShapes' /\ Unscraped'
    BY <1>1, <2>1, <2>2, <2>3 DEF WebShapes, Unscraped, ScrapedOnce
  <2>7. WebInHand'
    BY <1>1, <1>3, <2>1, <2>2, <2>3 DEF WebInHand
  <2>8. Removing' /\ OkIsWhole' /\ StrayFilesExplained'
    BY <1>1, <2>1, <2>2, <2>4, <2>5 DEF Removing, OkIsWhole, StrayFilesExplained
  <2>. QED BY <2>6, <2>7, <2>8
<1>. QED BY <1>2, <1>3 DEF MarksWorking

LEMMA CreatesFileStep ==
  ASSUME WebInv, CreatesFile
  PROVE  WebInv'
<1>. USE DEF WebInv
<1>1. loop.at = "marked" /\ UNCHANGED <<row, erase, ctx>>
  BY DEF CreatesFile
<1>2. loop.job \in WebJobs /\ row[loop.job] \in {"working", "gone"} /\ scrapes[loop.job] = 0
  BY <1>1 DEF WebInHand
<1>3. CASE loop' = AtTick /\ UNCHANGED <<csv, scrapes, raced>>
  BY <1>1, <1>3, TickType, LoopOnly
<1>4. CASE /\ csv' = [csv EXCEPT ![loop.job] = "part"]
           /\ scrapes' = [scrapes EXCEPT ![loop.job] = @ + 1]
           /\ raced' = IF \E d \in Deletes : erase[d].job = loop.job
                       THEN raced \cup {loop.job} ELSE raced
           /\ LoopGoes("created")
  <2>1. /\ loop'.at = "created" /\ loop'.job = loop.job
        /\ loop' \in [at : LoopStates, job : WebJobs \cup {NoJob}]
    BY <1>4, LoopMoves, StepsOf
  <2>2. /\ csv' \in [WebJobs -> {"none", "part", "whole"}] /\ csv'[loop.job] = "part"
        /\ \A k \in WebJobs : k # loop.job => csv'[k] = csv[k]
    BY <1>2, <1>4 DEF WebShapes
  <2>3. /\ scrapes' \in [WebJobs -> Nat] /\ scrapes'[loop.job] = 1
        /\ \A k \in WebJobs : k # loop.job => scrapes'[k] = scrapes[k]
    BY <1>2, <1>4 DEF WebShapes
  <2>4. raced \subseteq raced' /\ (Erased(loop.job) => loop.job \in raced')
    BY <1>4 DEF Erased
  <2>5. \A k : Erased(k)' = Erased(k)
    BY <1>1 DEF Erased
  <2>6. WebShapes' /\ Unscraped'
    BY <1>1, <1>2, <2>1, <2>2, <2>3 DEF WebShapes, Unscraped, ScrapedOnce
  <2>7. WebInHand'
    BY <1>1, <1>2, <2>1, <2>2 DEF WebInHand
  <2>8. Removing'
    <3>1. ASSUME NEW d \in Deletes, erase'[d].at \in {"absent", "removed"}, NEW j \in WebJobs,
                 erase'[d].job = j
          PROVE  csv'[j] = "none" \/ j \in raced'
      BY <3>1, <1>1, <2>2, <2>4 DEF Removing, Erased
    <3>2. \A j \in WebJobs : row'[j] = "gone" => Erased(j)'
      BY <1>1, <2>5 DEF Removing
    <3>3. \A d \in Deletes : erase'[d].at = "idle" => erase'[d].job = NoJob
      BY <1>1 DEF Removing
    <3>. QED BY <3>1, <3>2, <3>3 DEF Removing
  <2>9. OkIsWhole' /\ StrayFilesExplained'
    <3>1. row[loop.job] = "gone" => loop.job \in raced'
      BY <1>2, <2>4 DEF Removing
    <3>. QED BY <3>1, <1>1, <1>2, <2>2, <2>4 DEF OkIsWhole, StrayFilesExplained
  <2>. QED BY <2>6, <2>7, <2>8, <2>9
<1>. QED BY <1>3, <1>4 DEF CreatesFile

LEMMA ScrapeEndsStep ==
  ASSUME WebInv, ScrapeEnds
  PROVE  WebInv'
<1>. USE DEF WebInv
<1>1. loop.at = "running" /\ UNCHANGED <<row, erase, ctx, scrapes, raced>>
  BY DEF ScrapeEnds
<1>2. loop.job \in WebJobs /\ row[loop.job] \in {"working", "gone"}
      /\ (csv[loop.job] = "part" \/ Erased(loop.job))
  BY <1>1 DEF WebInHand
<1>3. CASE LoopGoes("leaving") /\ UNCHANGED csv
  BY <1>1, <1>3, LoopMoves, StepsOf, LoopOnly
<1>4. CASE ctx # "up" /\ LoopGoes("ended") /\ UNCHANGED csv
  BY <1>1, <1>4, LoopMoves, StepsOf, LoopOnly
<1>5. CASE /\ csv' = [csv EXCEPT ![loop.job] = IF @ = "part" THEN "whole" ELSE @]
           /\ LoopGoes("ended")
  <2>1. /\ loop'.at = "ended" /\ loop'.job = loop.job
        /\ loop' \in [at : LoopStates, job : WebJobs \cup {NoJob}]
    BY <1>5, LoopMoves, StepsOf
  <2>2. /\ csv' \in [WebJobs -> {"none", "part", "whole"}]
        /\ csv[loop.job] = "part" => csv'[loop.job] = "whole"
        /\ csv[loop.job] # "part" => csv'[loop.job] = csv[loop.job]
        /\ \A k \in WebJobs : k # loop.job => csv'[k] = csv[k]
    BY <1>2, <1>5 DEF WebShapes
  <2>3. \A k : Erased(k)' = Erased(k)
    BY <1>1 DEF Erased
  <2>4. WebShapes' /\ Unscraped'
    BY <1>1, <2>1, <2>2 DEF WebShapes, Unscraped, ScrapedOnce
  <2>5. WebInHand'
    BY <1>1, <1>2, <2>1, <2>2, <2>3 DEF WebInHand
  <2>6. \A k \in WebJobs : csv'[k] = "none" <=> csv[k] = "none"
    BY <2>2
  <2>7. Removing' /\ StrayFilesExplained'
    BY <1>1, <2>3, <2>6 DEF Removing, StrayFilesExplained
  <2>8. OkIsWhole'
    BY <1>1, <1>2, <2>2 DEF OkIsWhole
  <2>. QED BY <2>4, <2>5, <2>7, <2>8
<1>. QED BY <1>3, <1>4, <1>5 DEF ScrapeEnds

LEMMA LoopStep ==
  ASSUME WebInv, SetsUp \/ FailsJob \/ Seeds \/ Leaves \/ MarksOk
  PROVE  WebInv'
<1>0. WebShapes
  BY DEF WebInv
<1>1. CASE SetsUp
  <2>1. loop.at = "created" /\ \E at \in {"set", "failing"} : LoopGoes(at)
    BY <1>1 DEF SetsUp
  <2>2. UNCHANGED <<row, csv, erase, ctx, scrapes, raced>>
    BY <1>1 DEF SetsUp
  <2>. QED BY <2>1, <2>2, <1>0, LoopMoves, StepsOf, LoopOnly
<1>2. CASE Seeds
  <2>1. loop.at = "set" /\ \E at \in {"running", "leaving"} : LoopGoes(at)
    BY <1>2 DEF Seeds
  <2>2. UNCHANGED <<row, csv, erase, ctx, scrapes, raced>>
    BY <1>2 DEF Seeds
  <2>. QED BY <2>1, <2>2, <1>0, LoopMoves, StepsOf, LoopOnly
<1>3. CASE FailsJob
  BY <1>3, LoopDone DEF FailsJob
<1>4. CASE Leaves
  BY <1>4, LoopDone DEF Leaves
<1>5. CASE MarksOk
  BY <1>5, LoopDone DEF MarksOk
<1>. QED BY <1>1, <1>2, <1>3, <1>4, <1>5

LEMMA StatsStep ==
  ASSUME WebInv, NEW d \in Deletes, NEW j \in WebJobs, Stats(d, j)
  PROVE  WebInv'
<1>. USE DEF WebInv
<1>. DEFINE at == IF csv[j] = "none" THEN "absent" ELSE "found"
<1>1. /\ erase[d].at = "idle" /\ erase' = [erase EXCEPT ![d] = [at |-> at, job |-> j]]
      /\ UNCHANGED <<row, csv, loop, ctx, scrapes, raced>>
  BY DEF Stats
<1>2. at \in {"absent", "found"} /\ (at = "absent" => csv[j] = "none")
  OBVIOUS
<1>. HIDE DEF at
<1>3. /\ erase' \in [Deletes -> EraseState] /\ erase'[d].at = at /\ erase'[d].job = j
      /\ \A e \in Deletes : e # d => erase'[e] = erase[e]
  BY <1>1, <1>2 DEF WebShapes, EraseState
<1>4. \A k \in WebJobs : Erased(k) => Erased(k)'
  BY <1>1, <1>3, WebAssumption DEF Erased, Removing
<1>5. WebShapes' /\ Unscraped'
  BY <1>1, <1>3 DEF WebShapes, Unscraped, ScrapedOnce
<1>6. WebInHand'
  BY <1>1, <1>4 DEF WebInHand
<1>7. Removing'
  BY <1>1, <1>2, <1>3, <1>4 DEF Removing
<1>8. OkIsWhole' /\ StrayFilesExplained'
  BY <1>1, <1>4 DEF OkIsWhole, StrayFilesExplained, Erased
<1>. QED BY <1>5, <1>6, <1>7, <1>8

\* The rest of a delete request.
LEMMA EraseMoves ==
  ASSUME WebShapes, NEW d \in Deletes, NEW at \in {"removed", "done"}, EraseGoes(d, at)
  PROVE  /\ erase' \in [Deletes -> EraseState] /\ erase'[d].at = at
         /\ \A e \in Deletes : e # d => erase'[e] = erase[e]
         /\ \A e \in Deletes : erase'[e].job = erase[e].job
         /\ \A k : Erased(k)' = Erased(k)
<1>1. /\ erase' \in [Deletes -> EraseState] /\ erase'[d].at = at
      /\ \A e \in Deletes : e # d => erase'[e] = erase[e]
      /\ \A e \in Deletes : erase'[e].job = erase[e].job
  BY DEF WebShapes, EraseState, EraseGoes
<1>. QED BY <1>1 DEF Erased

LEMMA RemovesFileStep ==
  ASSUME WebInv, NEW d \in Deletes, RemovesFile(d)
  PROVE  WebInv'
<1>. USE DEF WebInv
<1>1. erase[d].at = "found" /\ UNCHANGED <<row, loop, ctx, scrapes, raced>>
  BY DEF RemovesFile
<1>. DEFINE j == erase[d].job
<1>2. PICK at \in {"removed", "done"} :
        /\ EraseGoes(d, at)
        /\ csv' = csv \/ csv' = [csv EXCEPT ![j] = "none"]
        /\ at = "removed" => csv' = [csv EXCEPT ![j] = "none"]
  BY DEF RemovesFile
<1>3. /\ erase' \in [Deletes -> EraseState] /\ erase'[d].at = at
      /\ \A e \in Deletes : e # d => erase'[e] = erase[e]
      /\ \A e \in Deletes : erase'[e].job = erase[e].job
      /\ \A k : Erased(k)' = Erased(k)
  BY <1>2, EraseMoves
<1>4. /\ csv' \in [WebJobs -> {"none", "part", "whole"}]
      /\ \A k \in WebJobs : csv'[k] = csv[k] \/ (csv'[k] = "none" /\ k = j)
      /\ at = "removed" => \A k \in WebJobs : k = j => csv'[k] = "none"
  BY <1>2 DEF WebShapes
<1>5. Erased(j)
  BY DEF Erased
<1>. HIDE DEF j
<1>6. WebShapes' /\ Unscraped'
  BY <1>1, <1>3, <1>4 DEF WebShapes, Unscraped, ScrapedOnce
<1>7. WebInHand'
  BY <1>1, <1>3, <1>4, <1>5 DEF WebInHand
<1>8. Removing'
  <2>1. \A e \in Deletes : erase'[e].at = "idle" => erase'[e].job = NoJob
    BY <1>3 DEF Removing
  <2>2. \A k \in WebJobs : row'[k] = "gone" => Erased(k)'
    BY <1>1, <1>3 DEF Removing
  <2>3. ASSUME NEW e \in Deletes, erase'[e].at \in {"absent", "removed"}, NEW k \in WebJobs,
               erase'[e].job = k
        PROVE  csv'[k] = "none" \/ k \in raced'
    <3>1. CASE e = d
      BY <2>3, <3>1, <1>3, <1>4 DEF j
    <3>2. CASE e # d
      BY <2>3, <3>2, <1>1, <1>3, <1>4 DEF Removing
    <3>. QED BY <3>1, <3>2
  <2>. QED BY <2>1, <2>2, <2>3 DEF Removing
<1>9. OkIsWhole'
  <2>1. \A k \in WebJobs : row[k] = "ok" => csv[k] = "whole" \/ Erased(k)
    BY DEF OkIsWhole, Erased
  <2>2. \A k \in WebJobs : row'[k] = "ok" => csv'[k] = "whole" \/ Erased(k)'
    BY <2>1, <1>1, <1>3, <1>4, <1>5
  <2>. QED BY <2>2 DEF OkIsWhole, Erased
<1>10. StrayFilesExplained'
  BY <1>1, <1>4 DEF StrayFilesExplained
<1>. QED BY <1>6, <1>7, <1>8, <1>9, <1>10

LEMMA DeletesRowStep ==
  ASSUME WebInv, NEW d \in Deletes, DeletesRow(d)
  PROVE  WebInv'
<1>. USE DEF WebInv
<1>. DEFINE j == erase[d].job
<1>1. /\ erase[d].at \in {"absent", "removed"} /\ EraseGoes(d, "done")
      /\ UNCHANGED <<csv, loop, ctx, scrapes, raced>>
      /\ row' = row \/ row' = [row EXCEPT ![j] = "gone"]
  BY DEF DeletesRow
<1>2. /\ erase' \in [Deletes -> EraseState] /\ erase'[d].at = "done"
      /\ \A e \in Deletes : e # d => erase'[e] = erase[e]
      /\ \A e \in Deletes : erase'[e].job = erase[e].job
      /\ \A k : Erased(k)' = Erased(k)
  BY <1>1, EraseMoves
<1>3. /\ row' \in [WebJobs -> Statuses]
      /\ \A k \in WebJobs : row'[k] = row[k] \/ (row'[k] = "gone" /\ k = j)
  BY <1>1, StatusesOf DEF WebShapes
<1>4. Erased(j) /\ \A k \in WebJobs : k = j => csv[k] = "none" \/ k \in raced
  BY <1>1 DEF Erased, Removing
<1>. HIDE DEF j
<1>5. WebShapes' /\ Unscraped'
  BY <1>1, <1>2, <1>3 DEF WebShapes, Unscraped, ScrapedOnce
<1>6. WebInHand'
  BY <1>1, <1>2, <1>3 DEF WebInHand
<1>7. Removing'
  BY <1>1, <1>2, <1>3, <1>4 DEF Removing
<1>8. OkIsWhole' /\ StrayFilesExplained'
  BY <1>1, <1>2, <1>3, <1>4 DEF OkIsWhole, StrayFilesExplained
<1>. QED BY <1>5, <1>6, <1>7, <1>8

LEMMA ProcessStep ==
  ASSUME WebInv, Signal \/ Exits \/ Restarts
  PROVE  WebInv'
<1>. USE DEF WebInv
<1>1. UNCHANGED <<row, csv, scrapes, raced>>
  BY DEF Signal, Exits, Restarts
<1>2. /\ erase' \in [Deletes -> EraseState]
      /\ \A e \in Deletes : /\ erase'[e].job = erase[e].job
                            /\ erase'[e].at = erase[e].at
                               \/ (erase'[e].at = "done" /\ erase[e].at # "idle")
  <2>1. CASE erase' = erase
    BY <2>1 DEF WebShapes
  <2>2. CASE erase' = [e \in Deletes |->
                IF erase[e].at = "idle" THEN erase[e] ELSE [erase[e] EXCEPT !.at = "done"]]
    <3>1. \A r \in EraseState : /\ [r EXCEPT !.at = "done"] \in EraseState
                                /\ [r EXCEPT !.at = "done"].job = r.job
                                /\ [r EXCEPT !.at = "done"].at = "done"
      BY DEF EraseState
    <3>. QED BY <2>2, <3>1 DEF WebShapes
  <2>. QED BY <2>1, <2>2 DEF Signal, Exits, Restarts
<1>3. \A k : Erased(k)' = Erased(k)
  BY <1>2 DEF Erased
<1>4. loop' = AtTick \/ (loop' = loop /\ (ctx' = "up" => ctx = "up" \/ loop.at = "tick")
                                      /\ (ctx' = "down" => loop.at = "tick"))
  BY DEF Signal, Exits, Restarts, WebInHand
<1>5. WebShapes' /\ Unscraped'
  BY <1>1, <1>2, <1>4, TickType DEF WebShapes, Unscraped, ScrapedOnce
<1>6. WebInHand'
  BY <1>1, <1>3, <1>4, TickType DEF WebInHand
<1>7. Removing'
  BY <1>1, <1>2, <1>3 DEF Removing
<1>8. OkIsWhole' /\ StrayFilesExplained'
  BY <1>1, <1>2 DEF OkIsWhole, StrayFilesExplained
<1>. QED BY <1>5, <1>6, <1>7, <1>8

LEMMA WebStep == WebInv /\ [WebNext]_webVars => WebInv'
<1> SUFFICES ASSUME WebInv, [WebNext]_webVars PROVE WebInv'
  OBVIOUS
<1>1. CASE UNCHANGED webVars
  BY <1>1 DEF webVars, WebInv, WebShapes, Unscraped, WebInHand, Removing, OkIsWhole, ScrapedOnce,
     StrayFilesExplained, Erased
<1>2. CASE WebNext
  BY <1>2, SubmitStep, PicksStep, MarksWorkingStep, CreatesFileStep, ScrapeEndsStep, LoopStep,
     StatsStep, RemovesFileStep, DeletesRowStep, ProcessStep DEF WebNext, ScrapeStep
<1>. QED BY <1>1, <1>2

-----------------------------------------------------------------------------
(* What follows                                                             *)

\* No job is scraped twice, however often the process dies and comes back, so no
\* scrape truncates the file of another.
THEOREM NoSecondScrape == WebSpec => []ScrapedOnce
<1>1. WebInv => ScrapedOnce
  BY DEF WebInv, Unscraped
<1>. QED BY <1>1, WebInitInv, WebStep, PTL DEF WebSpec

\* A job that is "ok" has its whole file, unless a delete request took it.
THEOREM OkJobsAreWhole == WebSpec => []OkIsWhole
<1>1. WebInv => OkIsWhole
  BY DEF WebInv
<1>. QED BY <1>1, WebInitInv, WebStep, PTL DEF WebSpec

\* A file without a row was created after the delete request had looked for it.
THEOREM NoOtherStrayFile == WebSpec => []StrayFilesExplained
<1>1. WebInv => StrayFilesExplained
  BY DEF WebInv
<1>. QED BY <1>1, WebInitInv, WebStep, PTL DEF WebSpec

-----------------------------------------------------------------------------
(* Web runner: the way of a job                                             *)

\* A job that is "working" is in the loop's hands, or a fault stopped it there.
WorkingIsHeld == \A j \in WebJobs : row[j] = "working" => loop.job = j \/ j \in hit

\* A loop that waits holds no job.
TickHoldsNone == loop.at = "tick" => loop.job = NoJob

\* A delete request has its job from the table.
ErasesKnown == \A d \in Deletes : erase[d].at # "idle" =>
                  erase[d].job \in WebJobs /\ row[erase[d].job] # "none"

\* The ways a job's status may change.
OnWay(old, new) ==
  \/ old = new \/ new = "gone"
  \/ old = "none" /\ new = "pending"
  \/ old = "pending" /\ new = "working"
  \/ old = "working" /\ new \in Final

LEMMA UpdatedWay ==
  ASSUME WebInv, NEW given \in {"working", "ok", "failed"}, NEW j \in WebJobs,
         row[j] \in {"working", "gone"} \/ (given = "working" /\ row[j] \in {"pending", "gone"}),
         row' = Updated(j, given)
  PROVE  /\ \A k \in WebJobs : k # j => row'[k] = row[k]
         /\ row'[j] = IF row[j] = "gone" THEN "gone" ELSE given
         /\ \A k \in WebJobs : OnWay(row[k], row'[k])
<1>1. given \in Statuses /\ WebShapes
  BY StatusesOf DEF WebInv
<1>2. /\ \A k \in WebJobs : k # j => row'[k] = row[k]
      /\ row'[j] = IF row[j] = "gone" THEN "gone" ELSE given
  BY <1>1, RowUpdated
<1>. QED BY <1>2 DEF OnWay, Final

\* No step sets a job back, however the loop's updates and the delete requests
\* interleave.
LEMMA RowsOnWay ==
  ASSUME WebInv, ErasesKnown, [WebNext]_webVars
  PROVE  \A j \in WebJobs : OnWay(row[j], row'[j])
<1>0. row \in [WebJobs -> Statuses]
  BY DEF WebInv, WebShapes
<1>1. CASE UNCHANGED row
  BY <1>1 DEF OnWay
<1>2. ASSUME NEW j \in WebJobs, Submit(j)
      PROVE  \A k \in WebJobs : OnWay(row[k], row'[k])
  <2>1. row[j] = "none" /\ row' = [row EXCEPT ![j] = "pending"]
    BY <1>2 DEF Submit
  <2>. QED BY <1>0, <2>1 DEF OnWay
<1>3. ASSUME NEW d \in Deletes, DeletesRow(d)
      PROVE  \A k \in WebJobs : OnWay(row[k], row'[k])
  <2>1. row' = [row EXCEPT ![erase[d].job] = "gone"] \/ row' = row
    BY <1>3 DEF DeletesRow
  <2>. QED BY <1>0, <2>1 DEF OnWay
<1>4. CASE loop.at = "picked" /\ row' = Updated(loop.job, "working")
  <2>1. loop.job \in WebJobs /\ row[loop.job] \in {"pending", "gone"}
    BY <1>4 DEF WebInv, WebInHand
  <2>. QED BY <1>4, <2>1, UpdatedWay
<1>5. ASSUME NEW given \in {"working", "failed", "ok"},
             loop.at \in {"leaving", "failing", "ended"}, row' = Updated(loop.job, given)
      PROVE  \A k \in WebJobs : OnWay(row[k], row'[k])
  <2>1. loop.job \in WebJobs /\ row[loop.job] \in {"working", "gone"}
    BY <1>5 DEF WebInv, WebInHand
  <2>. QED BY <1>5, <2>1, UpdatedWay
<1>6. MarksWorking => UNCHANGED row \/ (loop.at = "picked" /\ row' = Updated(loop.job, "working"))
  BY DEF MarksWorking
<1>7. FailsJob \/ Leaves \/ MarksOk
        => \/ UNCHANGED row
           \/ /\ loop.at \in {"leaving", "failing", "ended"}
              /\ \E given \in {"working", "failed", "ok"} : row' = Updated(loop.job, given)
  BY DEF FailsJob, Leaves, MarksOk
<1>8. Picks \/ PickFails \/ CreatesFile \/ SetsUp \/ Seeds \/ ScrapeEnds \/ Signal \/ Exits \/ Restarts
        \/ UNCHANGED webVars => UNCHANGED row
  BY DEF Picks, PickFails, CreatesFile, SetsUp, Seeds, ScrapeEnds, Signal, Exits, Restarts, webVars
<1>9. ASSUME NEW d \in Deletes, RemovesFile(d) \/ \E j \in WebJobs : Stats(d, j)
      PROVE  UNCHANGED row
  BY <1>9 DEF RemovesFile, Stats
<1>. QED BY <1>1, <1>2, <1>3, <1>4, <1>5, <1>6, <1>7, <1>8, <1>9 DEF WebNext, ScrapeStep

LEMMA ErasesKnownStep ==
  ASSUME WebInv, ErasesKnown, [WebNext]_webVars
  PROVE  ErasesKnown'
<1>0. \A j \in WebJobs : row[j] # "none" => row'[j] # "none"
  BY RowsOnWay DEF OnWay, Final
<1>1. \A d \in Deletes : /\ erase[d] \in EraseState /\ erase \in [Deletes -> EraseState]
  BY DEF WebInv, WebShapes
<1>2. CASE UNCHANGED erase
  BY <1>0, <1>2 DEF ErasesKnown
<1>3. ASSUME NEW d \in Deletes, NEW j \in WebJobs, Stats(d, j)
      PROVE  ErasesKnown'
  <2>1. row[j] # "none" /\ \E at : erase' = [erase EXCEPT ![d] = [at |-> at, job |-> j]]
    BY <1>3 DEF Stats
  <2>2. erase'[d].job = j /\ \A e \in Deletes : e # d => erase'[e] = erase[e]
    BY <1>1, <2>1
  <2>. QED BY <1>0, <2>1, <2>2 DEF ErasesKnown
<1>4. ASSUME NEW d \in Deletes, RemovesFile(d) \/ DeletesRow(d)
      PROVE  ErasesKnown'
  <2>1. erase[d].at # "idle" /\ \E at \in {"removed", "done"} : EraseGoes(d, at)
    BY <1>4 DEF RemovesFile, DeletesRow
  <2>2. /\ \A e \in Deletes : e # d => erase'[e] = erase[e]
        /\ \A e \in Deletes : erase'[e].job = erase[e].job
    BY <2>1, EraseMoves DEF WebInv
  <2>. QED BY <1>0, <2>1, <2>2 DEF ErasesKnown
<1>5. CASE Exits
  <2>1. \A r \in EraseState : [r EXCEPT !.at = "done"].job = r.job
    BY DEF EraseState
  <2>2. \A d \in Deletes : /\ erase'[d].job = erase[d].job
                           /\ erase[d].at = "idle" => erase'[d].at = "idle"
    BY <1>1, <1>5, <2>1 DEF Exits
  <2>. QED BY <1>0, <2>2 DEF ErasesKnown
<1>6. Picks \/ PickFails \/ ScrapeStep \/ Signal \/ Restarts \/ UNCHANGED webVars => UNCHANGED erase
  BY DEF Picks, PickFails, ScrapeStep, MarksWorking, CreatesFile, SetsUp, FailsJob, Seeds, ScrapeEnds,
     Leaves, MarksOk, Signal, Restarts, webVars
<1>7. \A j \in WebJobs : Submit(j) => UNCHANGED erase
  BY DEF Submit
<1>. QED BY <1>2, <1>3, <1>4, <1>5, <1>6, <1>7 DEF WebNext

LEMMA TickHoldsNoneStep ==
  ASSUME WebInv, TickHoldsNone, [WebNext]_webVars
  PROVE  TickHoldsNone'
<1>1. CASE loop' = loop
  BY <1>1 DEF TickHoldsNone
<1>2. CASE loop' = AtTick
  BY <1>2 DEF AtTick, TickHoldsNone
<1>3. CASE \E at \in LoopStates \ {"tick"} : LoopGoes(at)
  BY <1>3, LoopMoves DEF WebInv, TickHoldsNone
<1>4. CASE Picks
  BY <1>4 DEF Picks, TickHoldsNone
<1>5. PickFails \/ Signal \/ Restarts \/ UNCHANGED webVars => loop' = loop
  BY DEF PickFails, Signal, Restarts, webVars
<1>6. \A j \in WebJobs : Submit(j) => loop' = loop
  BY DEF Submit
<1>7. \A d \in Deletes :
        RemovesFile(d) \/ DeletesRow(d) \/ (\E j \in WebJobs : Stats(d, j)) => loop' = loop
  BY DEF RemovesFile, DeletesRow, Stats
<1>8. FailsJob \/ Leaves \/ MarksOk \/ Exits => loop' = AtTick
  BY DEF FailsJob, Leaves, MarksOk, Exits
<1>9. MarksWorking \/ CreatesFile \/ SetsUp \/ Seeds \/ ScrapeEnds
        => loop' = AtTick \/ \E at \in LoopStates \ {"tick"} : LoopGoes(at)
  BY StepsOf DEF MarksWorking, CreatesFile, SetsUp, Seeds, ScrapeEnds
<1>. QED BY <1>1, <1>2, <1>3, <1>4, <1>5, <1>6, <1>7, <1>8, <1>9 DEF WebNext, ScrapeStep

LEMMA WorkingIsHeldStep ==
  ASSUME WebInv, TickHoldsNone, ErasesKnown, WorkingIsHeld, [WebNext]_webVars
  PROVE  WorkingIsHeld'
<1>0. WebShapes /\ row \in [WebJobs -> Statuses]
  BY DEF WebInv, WebShapes
<1>1. \A j \in WebJobs : row'[j] = "working" => row[j] \in {"working", "pending"}
  BY RowsOnWay DEF OnWay, Final
<1>2. ASSUME \A j \in WebJobs : row'[j] = "working" => row[j] = "working",
             loop'.job = loop.job \/ loop.job \notin WebJobs
               \/ loop.job \in hit' \/ row'[loop.job] # "working",
             hit \subseteq hit'
      PROVE  WorkingIsHeld'
  BY <1>2 DEF WorkingIsHeld
<1>3. CASE MarksWorking
  <2>1. loop.at = "picked" /\ loop.job \in WebJobs /\ row[loop.job] \in {"pending", "gone"} /\ hit' = hit
    BY <1>3 DEF MarksWorking, WebInv, WebInHand
  <2>2. CASE UNCHANGED row
    BY <1>2, <2>1, <2>2
  <2>3. CASE row' = Updated(loop.job, "working") /\ LoopGoes("marked")
    <3>1. loop'.job = loop.job
      BY <1>0, <2>3, LoopMoves, StepsOf
    <3>2. \A k \in WebJobs : k # loop.job => row'[k] = row[k]
      BY <2>1, <2>3, UpdatedWay
    <3>. QED BY <2>1, <3>1, <3>2 DEF WorkingIsHeld
  <2>. QED BY <1>3, <2>2, <2>3 DEF MarksWorking
<1>4. ASSUME ~MarksWorking, NEW j \in WebJobs, row[j] # "working"
      PROVE  row'[j] # "working"
  <2>1. CASE FailsJob \/ Leaves \/ MarksOk
    <3>1. /\ loop.job \in WebJobs /\ row[loop.job] \in {"working", "gone"}
          /\ \/ UNCHANGED row
             \/ \E given \in {"working", "failed", "ok"} : row' = Updated(loop.job, given)
      BY <2>1 DEF FailsJob, Leaves, MarksOk, WebInv, WebInHand
    <3>. QED BY <1>4, <3>1, UpdatedWay
  <2>2. ASSUME NEW k \in WebJobs, Submit(k) PROVE row'[j] # "working"
    BY <1>0, <1>4, <2>2 DEF Submit
  <2>3. ASSUME NEW d \in Deletes, DeletesRow(d) PROVE row'[j] # "working"
    BY <1>0, <1>4, <2>3 DEF DeletesRow
  <2>4. Picks \/ PickFails \/ CreatesFile \/ SetsUp \/ Seeds \/ ScrapeEnds \/ Signal \/ Exits
          \/ Restarts \/ UNCHANGED webVars => UNCHANGED row
    BY DEF Picks, PickFails, CreatesFile, SetsUp, Seeds, ScrapeEnds, Signal, Exits, Restarts, webVars
  <2>5. \A d \in Deletes : RemovesFile(d) \/ (\E k \in WebJobs : Stats(d, k)) => UNCHANGED row
    BY DEF RemovesFile, Stats
  <2>. QED BY <1>4, <2>1, <2>2, <2>3, <2>4, <2>5 DEF WebNext, ScrapeStep
<1>5. CASE CreatesFile \/ SetsUp \/ Seeds \/ ScrapeEnds
  <2>1. hit \subseteq hit' /\ ~MarksWorking
    BY <1>5 DEF CreatesFile, SetsUp, Seeds, ScrapeEnds, Hits, MarksWorking
  <2>2. (\E at \in LoopStates : LoopGoes(at)) \/ (CreatesFile /\ Hits(loop.job))
    BY <1>5, StepsOf DEF CreatesFile, SetsUp, Seeds, ScrapeEnds
  <2>3. loop'.job = loop.job \/ loop.job \in hit'
    BY <1>0, <2>2, LoopMoves DEF Hits
  <2>. QED BY <1>2, <1>4, <2>1, <2>3
<1>6. CASE FailsJob \/ Leaves \/ MarksOk
  <2>1. hit \subseteq hit' /\ ~MarksWorking
        /\ loop.job \in WebJobs /\ row[loop.job] \in {"working", "gone"}
    BY <1>6 DEF FailsJob, Leaves, MarksOk, Hits, MarksWorking, WebInv, WebInHand
  <2>2. loop.job \in hit' \/ \E given \in {"failed", "ok"} : row' = Updated(loop.job, given)
    BY <1>6 DEF FailsJob, Leaves, MarksOk, Hits
  <2>3. loop.job \in hit' \/ row'[loop.job] # "working"
    BY <2>1, <2>2, UpdatedWay
  <2>. QED BY <1>2, <1>4, <2>1, <2>3
<1>7. CASE Picks
  <2>1. UNCHANGED <<row, hit>> /\ loop.job = NoJob
    BY <1>7 DEF Picks, TickHoldsNone
  <2>. QED BY <2>1, WebAssumption DEF WorkingIsHeld
<1>8. CASE Exits
  <2>1. UNCHANGED row /\ hit \subseteq hit' /\ (loop.job = NoJob \/ loop.job \in hit')
    BY <1>8 DEF Exits
  <2>. QED BY <1>2, <2>1, WebAssumption
<1>9. ASSUME UNCHANGED <<loop, hit>>, ~MarksWorking PROVE WorkingIsHeld'
  BY <1>2, <1>4, <1>9
<1>10. PickFails \/ Signal \/ Restarts \/ UNCHANGED webVars => UNCHANGED <<loop, hit>>
  BY DEF PickFails, Signal, Restarts, webVars
<1>11. \A j \in WebJobs : Submit(j) => UNCHANGED <<loop, hit>>
  BY DEF Submit
<1>12. \A d \in Deletes :
         RemovesFile(d) \/ DeletesRow(d) \/ (\E j \in WebJobs : Stats(d, j)) => UNCHANGED <<loop, hit>>
  BY DEF RemovesFile, DeletesRow, Stats
<1>. QED BY <1>3, <1>5, <1>6, <1>7, <1>8, <1>9, <1>10, <1>11, <1>12 DEF WebNext, ScrapeStep

LEMMA WayInit == WebInit => WorkingIsHeld /\ ErasesKnown /\ TickHoldsNone
  BY DEF WebInit, WorkingIsHeld, ErasesKnown, AtTick, TickHoldsNone

\* A job's status only goes forward, from "pending" over "working" to a final one, and a
\* job that was deleted stays deleted: the loop's late updates bring nothing back
\* (repo.Update of web/sqlite/sqlite.go updates, and inserts nothing).
THEOREM StatusGoesForward ==
  WebSpec => [][\A j \in WebJobs : OnWay(row[j], row'[j])]_webVars
<1>1. ASSUME WebInv, ErasesKnown, [WebNext]_webVars
      PROVE  [\A j \in WebJobs : OnWay(row[j], row'[j])]_webVars
  BY <1>1, RowsOnWay
<1>. QED
  BY <1>1, WayInit, ErasesKnownStep, WebInitInv, WebStep, PTL DEF WebSpec

\* A job that shows "working" is being worked on, unless a fault stopped it while the
\* loop held it: on every other way out scrapeJob sets a status that is not left.
THEOREM WorkingIsWorkedOn == WebSpec => []WorkingIsHeld
  BY WayInit, TickHoldsNoneStep, ErasesKnownStep, WorkingIsHeldStep, WebInitInv, WebStep, PTL DEF WebSpec

-----------------------------------------------------------------------------
(* Database runner: rows claimed and results saved                          *)

ProcState == [ctx : {"up", "idle", "stopping", "down"}, fetch : Fetchings,
              writer : WriterStates]

JobState == Resting \cup InHand \cup {"claimed", "chan", "buffered"}

LEMMA StateNames ==
  /\ Resting = {"none", "done", "saved", "lost"}
  /\ InHand = {"working", "pushing", "sending"}
  /\ Fetchings = {"query", "sending", "dead"}
  /\ WriterStates = {"run", "saving", "closing", "ended", "failed"}
  BY DEF Resting, InHand, Fetchings, WriterStates

\* Updates of a process leave a process.
LEMMA ProcStep ==
  ASSUME NEW r \in ProcState
  PROVE  /\ \A c \in {"up", "idle", "stopping", "down"} : [r EXCEPT !.ctx = c] \in ProcState
         /\ \A f \in Fetchings : [r EXCEPT !.fetch = f] \in ProcState
         /\ \A w \in WriterStates : [r EXCEPT !.writer = w] \in ProcState
         /\ \A w \in WriterStates : \A c \in {"up", "idle", "stopping", "down"} :
              [r EXCEPT !.writer = w, !.ctx = c] \in ProcState
  BY DEF ProcState

LEMMA FreshProc == Fresh \in ProcState
  BY DEF Fresh, ProcState, Fetchings, WriterStates

LEMMA StateMembers ==
  /\ {"query", "sending", "dead"} \subseteq Fetchings
  /\ {"run", "saving", "closing", "ended", "failed"} \subseteq WriterStates
  BY DEF Fetchings, WriterStates

LEMMA BatchNew == \A S \in Batches : \A j \in S : j \in Tasks /\ status[j] = "new"
  BY DEF Batches

-----------------------------------------------------------------------------
(* Types                                                                    *)

LEMMA TypeInit == DbInit => DbTypeOK
  BY FreshProc DEF DbInit, DbTypeOK, ProcState, Resting, InHand

\* The steps whose jobs' states are set for a whole set of jobs at once.
LEMMA ClaimTypes ==
  ASSUME DbTypeOK, NEW p \in Procs, NEW S \in Batches, NEW where \in {"claimed", "lost"},
         status' = Claimed(S),
         mem' = [j \in Tasks |-> IF j \in S THEN where ELSE mem[j]],
         owner' = [j \in Tasks |-> IF j \in S THEN p ELSE owner[j]],
         claims' = [j \in Tasks |-> IF j \in S THEN claims[j] + 1 ELSE claims[j]]
  PROVE  /\ status' \in [Tasks -> {"absent", "new", "queued"}]
         /\ mem' \in [Tasks -> JobState]
         /\ owner' \in [Tasks -> Procs \cup {Nobody}]
         /\ claims' \in [Tasks -> Nat]
  BY DEF DbTypeOK, Claimed, JobState, Resting

LEMMA GoesType ==
  ASSUME DbTypeOK, NEW j \in Tasks, NEW where \in JobState, Goes(j, where)
  PROVE  mem' \in [Tasks -> JobState]
  BY DEF DbTypeOK, Goes, JobState

LEMMA GoneType ==
  ASSUME DbTypeOK, NEW p \in Procs
  PROVE  Gone(p) \in [Tasks -> JobState]
  BY DEF DbTypeOK, Gone, JobState, Resting

LEMMA LeadsType == \A j \in Tasks : \A N \in Leads(j) : N \subseteq Tasks
  BY DatabaseAssumption DEF Leads, Tasks, PlaceTasks, EmailTasks

LEMMA ProcTypes ==
  ASSUME DbTypeOK, NEW p \in Procs, NEW r \in ProcState
  PROVE  [proc EXCEPT ![p] = r] \in [Procs -> ProcState]
  BY DEF DbTypeOK, ProcState

\* The ways a step changes one process.
ProcUpdates(p) ==
  /\ \A f \in Fetchings : [proc EXCEPT ![p].fetch = f] \in [Procs -> ProcState]
  /\ \A c \in {"up", "idle", "stopping", "down"} :
       [proc EXCEPT ![p].ctx = c] \in [Procs -> ProcState]
  /\ \A w \in WriterStates : [proc EXCEPT ![p].writer = w] \in [Procs -> ProcState]
  /\ \A w \in WriterStates : \A c \in {"up", "idle", "stopping", "down"} :
       [proc EXCEPT ![p].writer = w, ![p].ctx = c] \in [Procs -> ProcState]

LEMMA ProcKept ==
  ASSUME DbTypeOK, NEW p \in Procs
  PROVE  ProcUpdates(p)
<1>1. proc \in [Procs -> ProcState] /\ proc[p] \in ProcState
  BY DEF DbTypeOK, ProcState
<1>2. \A w \in WriterStates : \A c \in {"up", "idle", "stopping", "down"} :
        [proc EXCEPT ![p].writer = w, ![p].ctx = c]
          = [proc EXCEPT ![p] = [proc[p] EXCEPT !.writer = w, !.ctx = c]]
  BY <1>1
<1>. QED BY <1>1, <1>2, ProcStep, ProcTypes DEF ProcUpdates

LEMMA SetFetch ==
  ASSUME DbTypeOK, NEW p \in Procs, NEW f \in Fetchings, proc' = [proc EXCEPT ![p].fetch = f]
  PROVE  proc' \in [Procs -> ProcState]
<1>1. [proc EXCEPT ![p].fetch = f] \in [Procs -> ProcState]
  BY ProcKept DEF ProcUpdates
<1>. QED BY <1>1

LEMMA SetWriter ==
  ASSUME DbTypeOK, NEW p \in Procs, NEW w \in WriterStates, proc' = [proc EXCEPT ![p].writer = w]
  PROVE  proc' \in [Procs -> ProcState]
<1>1. [proc EXCEPT ![p].writer = w] \in [Procs -> ProcState]
  BY ProcKept DEF ProcUpdates
<1>. QED BY <1>1

LEMMA TypeStep == DbTypeOK /\ [DbNext]_dbVars => DbTypeOK'
<1> SUFFICES ASSUME DbTypeOK, [DbNext]_dbVars PROVE DbTypeOK'
  OBVIOUS
<1>0. /\ status \in [Tasks -> {"absent", "new", "queued"}] /\ mem \in [Tasks -> JobState]
      /\ owner \in [Tasks -> Procs \cup {Nobody}] /\ todo \in [Tasks -> SUBSET Tasks]
      /\ proc \in [Procs -> ProcState] /\ claims \in [Tasks -> Nat] /\ spoiled \in SUBSET Tasks
  BY DEF DbTypeOK, JobState, ProcState
<1> SUFFICES
      /\ status' \in [Tasks -> {"absent", "new", "queued"}] /\ mem' \in [Tasks -> JobState]
      /\ owner' \in [Tasks -> Procs \cup {Nobody}] /\ todo' \in [Tasks -> SUBSET Tasks]
      /\ proc' \in [Procs -> ProcState] /\ claims' \in [Tasks -> Nat] /\ spoiled' \in SUBSET Tasks
  BY DEF DbTypeOK, JobState, ProcState
<1>1. ASSUME NEW q \in Queries, Produces(q) PROVE status' \in [Tasks -> {"absent", "new", "queued"}]
  BY <1>0, <1>1 DEF Produces
<1>2. ASSUME NEW q \in Queries, Produces(q)
      PROVE  UNCHANGED <<mem, owner, todo, proc, claims, spoiled>>
  BY <1>2 DEF Produces
<1>3. ASSUME NEW p \in Procs PROVE ProcUpdates(p)
  BY ProcKept
<1>. USE DEF ProcUpdates
<1>4. ASSUME NEW p \in Procs, Claims(p)
      PROVE  /\ status' \in [Tasks -> {"absent", "new", "queued"}] /\ mem' \in [Tasks -> JobState]
             /\ owner' \in [Tasks -> Procs \cup {Nobody}] /\ claims' \in [Tasks -> Nat]
             /\ proc' \in [Procs -> ProcState] /\ UNCHANGED <<todo, spoiled>>
  BY <1>3, <1>4, ClaimTypes, StateNames DEF Claims
<1>5. ASSUME NEW p \in Procs, FetchFails(p)
      PROVE  /\ status' \in [Tasks -> {"absent", "new", "queued"}] /\ mem' \in [Tasks -> JobState]
             /\ owner' \in [Tasks -> Procs \cup {Nobody}] /\ claims' \in [Tasks -> Nat]
             /\ proc' \in [Procs -> ProcState] /\ spoiled' \in SUBSET Tasks /\ UNCHANGED todo
  <2>1. proc' \in [Procs -> ProcState] /\ UNCHANGED todo
    BY <1>3, <1>5, StateNames DEF FetchFails
  <2>2. CASE UNCHANGED <<status, mem, owner, claims, spoiled>>
    BY <2>1, <2>2, <1>0
  <2>3. CASE \E S \in Batches :
               /\ status' = Claimed(S)
               /\ mem' = [j \in Tasks |-> IF j \in S THEN "lost" ELSE mem[j]]
               /\ owner' = [j \in Tasks |-> IF j \in S THEN p ELSE owner[j]]
               /\ claims' = [j \in Tasks |-> IF j \in S THEN claims[j] + 1 ELSE claims[j]]
               /\ spoiled' = spoiled \cup S
    BY <2>1, <2>3, <1>0, ClaimTypes, BatchNew
  <2>. QED BY <1>5, <2>2, <2>3 DEF FetchFails
<1>6. ASSUME NEW p \in Procs, NEW j \in Tasks,
             SendsToChannel(p, j) \/ Receives(p, j) \/ Fails(p, j) \/ WriterReceives(p, j)
      PROVE  /\ mem' \in [Tasks -> JobState] /\ proc' \in [Procs -> ProcState]
             /\ UNCHANGED <<status, owner, todo, claims, spoiled>>
  <2>1. \E where \in {"chan", "working", "done", "buffered"} : Goes(j, where)
    BY <1>6 DEF SendsToChannel, Receives, Fails, WriterReceives
  <2>2. mem' \in [Tasks -> JobState]
    BY <2>1, GoesType DEF JobState, Resting, InHand
  <2>3. \/ UNCHANGED proc \/ proc' = [proc EXCEPT ![p].fetch = "query"]
        \/ proc' = [proc EXCEPT ![p].writer = "saving"]
    BY <1>6 DEF SendsToChannel, Receives, Fails, WriterReceives
  <2>4. "query" \in Fetchings /\ "saving" \in WriterStates
    BY StateMembers
  <2>5. proc' \in [Procs -> ProcState]
    <3>1. CASE proc' = [proc EXCEPT ![p].fetch = "query"]
      BY <3>1, <2>4, SetFetch
    <3>2. CASE proc' = [proc EXCEPT ![p].writer = "saving"]
      BY <3>2, <2>4, SetWriter
    <3>. QED BY <2>3, <3>1, <3>2, <1>0
  <2>. QED BY <2>2, <2>5, <1>6 DEF SendsToChannel, Receives, Fails, WriterReceives
<1>7. ASSUME NEW p \in Procs, NEW j \in Tasks, Processed(p, j)
      PROVE  /\ mem' \in [Tasks -> JobState] /\ todo' \in [Tasks -> SUBSET Tasks]
             /\ UNCHANGED <<status, owner, proc, claims, spoiled>>
  <2>1. \E where \in {"pushing", "done", "sending"} : Goes(j, where)
    BY <1>7 DEF Processed
  <2>2. mem' \in [Tasks -> JobState]
    BY <2>1, GoesType DEF JobState, Resting, InHand
  <2>. QED BY <1>0, <1>7, <2>2, LeadsType DEF Processed
<1>8. ASSUME NEW p \in Procs, NEW j \in Tasks, Pushes(p, j)
      PROVE  /\ mem' \in [Tasks -> JobState] /\ todo' \in [Tasks -> SUBSET Tasks]
             /\ status' \in [Tasks -> {"absent", "new", "queued"}]
             /\ UNCHANGED <<owner, proc, claims, spoiled>>
  <2>1. \E where \in {"pushing", "done"} : Goes(j, where)
    BY <1>8 DEF Pushes
  <2>2. mem' \in [Tasks -> JobState]
    BY <2>1, GoesType DEF JobState, Resting, InHand
  <2>. QED BY <1>0, <1>8, <2>2 DEF Pushes
<1>9. ASSUME NEW p \in Procs, Saves(p) \/ SaveFails(p)
      PROVE  /\ mem' \in [Tasks -> JobState] /\ proc' \in [Procs -> ProcState]
             /\ spoiled' \in SUBSET Tasks /\ UNCHANGED <<status, owner, todo, claims>>
  <2>1. \/ \E w \in WriterStates : proc' = [proc EXCEPT ![p].writer = w]
        \/ proc' = [proc EXCEPT ![p].writer = "failed", ![p].ctx = "stopping"]
    <3>1. CASE Saves(p)
      <4>. DEFINE w == IF proc[p].writer = "saving" THEN "run" ELSE "ended"
      <4>1. w \in WriterStates /\ proc' = [proc EXCEPT ![p].writer = w]
        BY <3>1, <1>0, StateNames DEF Saves, ProcState
      <4>. QED BY <4>1
    <3>. QED BY <3>1, <1>9 DEF SaveFails
  <2>2. proc' \in [Procs -> ProcState]
    <3>1. CASE \E w \in WriterStates : proc' = [proc EXCEPT ![p].writer = w]
      BY <3>1, SetWriter
    <3>2. CASE proc' = [proc EXCEPT ![p].writer = "failed", ![p].ctx = "stopping"]
      <4>1. "failed" \in WriterStates /\ "stopping" \in {"up", "idle", "stopping", "down"}
        BY StateMembers
      <4>. QED BY <3>2, <4>1, <1>3, Zenon
    <3>. QED BY <2>1, <3>1, <3>2
  <2>. QED BY <2>2, <1>0, <1>9 DEF Saves, SaveFails, JobState, Resting
<1>10. ASSUME NEW p \in Procs,
              InactivityExits(p) \/ SignalStops(p) \/ ResultsClosed(p) \/ StartsAgain(p)
       PROVE  /\ proc' \in [Procs -> ProcState] /\ spoiled' \in SUBSET Tasks
              /\ UNCHANGED <<status, mem, owner, todo, claims>>
  <2>1. \/ \E c \in {"idle", "stopping"} : proc' = [proc EXCEPT ![p].ctx = c]
        \/ \E w \in {"ended", "closing"} : proc' = [proc EXCEPT ![p].writer = w]
        \/ proc' = [proc EXCEPT ![p] = Fresh]
    BY <1>10 DEF InactivityExits, SignalStops, ResultsClosed, StartsAgain
  <2>2. proc' \in [Procs -> ProcState]
    <3>1. ASSUME NEW c \in {"idle", "stopping"}, proc' = [proc EXCEPT ![p].ctx = c]
          PROVE  proc' \in [Procs -> ProcState]
      <4>1. c \in {"up", "idle", "stopping", "down"}
        OBVIOUS
      <4>. QED BY <3>1, <4>1, <1>3, Zenon
    <3>2. ASSUME NEW w \in {"ended", "closing"}, proc' = [proc EXCEPT ![p].writer = w]
          PROVE  proc' \in [Procs -> ProcState]
      <4>1. w \in WriterStates
        BY StateMembers
      <4>. QED BY <3>2, <4>1, SetWriter
    <3>3. CASE proc' = [proc EXCEPT ![p] = Fresh]
      BY <3>3, FreshProc, ProcTypes
    <3>. QED BY <2>1, <3>1, <3>2, <3>3
  <2>. QED BY <2>2, <1>0, <1>10 DEF InactivityExits, SignalStops, ResultsClosed, StartsAgain
<1>11. ASSUME NEW p \in Procs, Returns(p) \/ Dies(p)
       PROVE  /\ mem' \in [Tasks -> JobState] /\ proc' \in [Procs -> ProcState]
              /\ spoiled' \in SUBSET Tasks /\ UNCHANGED <<status, owner, todo, claims>>
  <2>1. mem' = Gone(p) /\ proc' = [proc EXCEPT ![p].ctx = "down"]
        /\ spoiled' \in SUBSET Tasks /\ UNCHANGED <<status, owner, todo, claims>>
    BY <1>0, <1>11 DEF Returns, Dies
  <2>2. mem' \in [Tasks -> JobState]
    BY <2>1, GoneType
  <2>. QED BY <2>1, <2>2, <1>3
<1>12. CASE UNCHANGED dbVars
  BY <1>0, <1>12 DEF dbVars
<1>. QED
  BY <1>0, <1>1, <1>2, <1>4, <1>5, <1>6, <1>7, <1>8, <1>9, <1>10, <1>11, <1>12 DEF DbNext, DbStep

\* Every state is of the declared type.
THEOREM DatabaseTyping == DbSpec => []DbTypeOK
  BY TypeInit, TypeStep, PTL DEF DbSpec

-----------------------------------------------------------------------------
(* One claim for each row                                                   *)

\* A row that was not claimed is not in a process's hands, and no statement makes
\* a claimed row "new" again.
Untouched ==
  \A j \in Tasks :
    /\ status[j] # "queued" => claims[j] = 0 /\ mem[j] = "none"
    /\ claims[j] <= 1

LEMMA UntouchedInit == DbInit => Untouched
  BY DEF DbInit, Untouched

\* A job in one of a process's hands has been claimed.
LEMMA HeldQueued ==
  ASSUME DbTypeOK, Untouched, NEW p \in Procs, NEW states, "none" \notin states
  PROVE  \A j \in Held(p, states) : j \in Tasks /\ status[j] = "queued"
  BY DEF DbTypeOK, Untouched, Held

\* Steps that only move claimed jobs.
LEMMA MovesKeep ==
  ASSUME Untouched, UNCHANGED <<status, claims>>,
         \A j \in Tasks : mem'[j] = mem[j] \/ status[j] = "queued"
  PROVE  Untouched'
  BY DEF Untouched

LEMMA ClaimKeeps ==
  ASSUME DbTypeOK, Untouched, NEW S \in Batches, NEW where, status' = Claimed(S),
         mem' = [j \in Tasks |-> IF j \in S THEN where ELSE mem[j]],
         claims' = [j \in Tasks |-> IF j \in S THEN claims[j] + 1 ELSE claims[j]]
  PROVE  Untouched'
<1>1. \A j \in S : status[j] # "queued" /\ j \in Tasks
  BY BatchNew
<1>. QED BY <1>1 DEF Untouched, Claimed, DbTypeOK

LEMMA UntouchedStep == DbTypeOK /\ Untouched /\ [DbNext]_dbVars => Untouched'
<1> SUFFICES ASSUME DbTypeOK, Untouched, [DbNext]_dbVars PROVE Untouched'
  OBVIOUS
<1>. USE DEF DbTypeOK
<1>1. ASSUME NEW q \in Queries, Produces(q) PROVE Untouched'
  BY <1>1 DEF Produces, Untouched
<1>2. ASSUME NEW p \in Procs, Claims(p) PROVE Untouched'
  BY <1>2, ClaimKeeps DEF Claims
<1>3. ASSUME NEW p \in Procs, FetchFails(p) PROVE Untouched'
  <2>1. CASE UNCHANGED <<status, mem, owner, claims, spoiled>>
    BY <2>1, MovesKeep
  <2>. QED BY <1>3, <2>1, ClaimKeeps DEF FetchFails
<1>4. ASSUME NEW p \in Procs, NEW j \in Tasks, NEW where, j \in Held(p, JobState \ {"none"}),
             Goes(j, where), UNCHANGED <<status, claims>>
      PROVE  Untouched'
  <2>1. status[j] = "queued"
    BY <1>4, HeldQueued
  <2>2. \A k \in Tasks : k # j => mem'[k] = mem[k]
    BY <1>4 DEF Goes
  <2>. QED BY <1>4, <2>1, <2>2, MovesKeep
<1>5. ASSUME NEW p \in Procs, NEW j \in Tasks,
             SendsToChannel(p, j) \/ Receives(p, j) \/ Fails(p, j) \/ Processed(p, j)
               \/ WriterReceives(p, j)
      PROVE  Untouched'
  <2>1. j \in Held(p, JobState \ {"none"})
    BY <1>5 DEF SendsToChannel, Receives, Fails, Processed, WriterReceives, Held, JobState,
       Resting, InHand
  <2>2. \E where : Goes(j, where)
    BY <1>5 DEF SendsToChannel, Receives, Fails, Processed, WriterReceives
  <2>3. UNCHANGED <<status, claims>>
    BY <1>5 DEF SendsToChannel, Receives, Fails, Processed, WriterReceives
  <2>. QED BY <2>1, <2>2, <2>3, <1>4
<1>6. ASSUME NEW p \in Procs, NEW j \in Tasks, Pushes(p, j) PROVE Untouched'
  <2>1. j \in Held(p, {"pushing"}) /\ status[j] = "queued"
    BY <1>6, HeldQueued DEF Pushes
  <2>2. \A k \in Tasks : k # j => mem'[k] = mem[k]
    BY <1>6 DEF Pushes, Goes
  <2>3. \A k \in Tasks : status'[k] # "queued" => status[k] # "queued"
    BY <1>6 DEF Pushes
  <2>4. \A k \in Tasks : status[k] = "queued" => status'[k] = "queued"
    BY <1>6 DEF Pushes
  <2>5. claims' = claims
    BY <1>6 DEF Pushes
  <2>. QED BY <2>1, <2>2, <2>3, <2>4, <2>5 DEF Untouched
<1>7. ASSUME NEW p \in Procs, Saves(p) \/ SaveFails(p) PROVE Untouched'
  <2>1. \A j \in Tasks : mem'[j] = mem[j] \/ j \in Held(p, {"buffered"})
    BY <1>7 DEF Saves, SaveFails
  <2>2. \A j \in Held(p, {"buffered"}) : status[j] = "queued"
    BY HeldQueued
  <2>. QED BY <1>7, <2>1, <2>2, MovesKeep DEF Saves, SaveFails
<1>8. ASSUME NEW p \in Procs,
             InactivityExits(p) \/ SignalStops(p) \/ ResultsClosed(p) \/ StartsAgain(p)
      PROVE  Untouched'
  BY <1>8, MovesKeep DEF InactivityExits, SignalStops, ResultsClosed, StartsAgain
<1>9. ASSUME NEW p \in Procs, Returns(p) \/ Dies(p) PROVE Untouched'
  <2>1. \A j \in Tasks : mem'[j] = mem[j] \/ mem[j] # "none"
    BY <1>9 DEF Returns, Dies, Gone, Held, Resting
  <2>2. \A j \in Tasks : mem[j] # "none" => status[j] = "queued"
    BY DEF Untouched
  <2>. QED BY <1>9, <2>1, <2>2, MovesKeep DEF Returns, Dies
<1>10. CASE UNCHANGED dbVars
  BY <1>10, MovesKeep DEF dbVars
<1>. QED BY <1>1, <1>2, <1>3, <1>5, <1>6, <1>7, <1>8, <1>9, <1>10 DEF DbNext, DbStep

\* Whatever fails, dies or starts again, no row is claimed twice (provider.go's
\* single statement that picks and marks).
THEOREM NoSecondClaim == DbSpec => []ClaimedOnce
<1>1. Untouched => ClaimedOnce
  BY DEF Untouched, ClaimedOnce
<1>. QED BY <1>1, UntouchedInit, UntouchedStep, DatabaseTyping, PTL DEF DbSpec

-----------------------------------------------------------------------------
(* A quiet exit keeps its results                                           *)

\* A writer that ended or failed has an empty buffer.
Emptied ==
  /\ \A p \in Procs : proc[p].writer \in {"ended", "failed"} =>
       \A j \in Tasks : owner[j] = p => mem[j] # "buffered"
  /\ QuietExitKeepsResults

LEMMA EmptiedInit == DbInit => Emptied
  BY DEF DbInit, Emptied, QuietExitKeepsResults, Fresh

\* A step in which nothing is lost, and no writer that has ended gets a result.
LEMMA EmptiedKept ==
  ASSUME Emptied, spoiled \subseteq spoiled',
         \A j \in Tasks : mem'[j] = "lost" => mem[j] = "lost" \/ j \in spoiled',
         \A p \in Procs : proc'[p].writer \in {"ended", "failed"} =>
            \A j \in Tasks : owner'[j] = p => mem'[j] # "buffered"
  PROVE  Emptied'
  BY DEF Emptied, QuietExitKeepsResults

\* The jobs of a process that may lose something.
LEMMA SpoiledHeld ==
  ASSUME NEW p \in Procs
  PROVE  \A j \in Held(p, {"buffered", "sending"}) : j \in Tasks /\ owner[j] = p /\ mem[j] \notin Resting
  BY DEF Held, Resting

LEMMA EmptiedStep == DbTypeOK /\ Untouched /\ Emptied /\ [DbNext]_dbVars => Emptied'
<1> SUFFICES ASSUME DbTypeOK, Untouched, Emptied, [DbNext]_dbVars PROVE Emptied'
  OBVIOUS
<1>0. /\ mem \in [Tasks -> JobState] /\ owner \in [Tasks -> Procs \cup {Nobody}]
      /\ proc \in [Procs -> ProcState]
      /\ \A q \in Procs : proc[q].writer \in {"ended", "failed"} =>
           \A j \in Tasks : owner[j] = q => mem[j] # "buffered"
  BY DEF DbTypeOK, JobState, ProcState, Emptied
<1>1. ASSUME NEW q \in Queries, Produces(q) PROVE Emptied'
  BY <1>1, EmptiedKept, <1>0 DEF Produces
<1>2. ASSUME NEW p \in Procs, NEW S \in Batches, NEW where \in {"claimed", "lost"},
             mem' = [j \in Tasks |-> IF j \in S THEN where ELSE mem[j]],
             owner' = [j \in Tasks |-> IF j \in S THEN p ELSE owner[j]],
             spoiled' = IF where = "lost" THEN spoiled \cup S ELSE spoiled,
             \A q \in Procs : proc'[q].writer = proc[q].writer
      PROVE  Emptied'
  <2>1. \A q \in Procs : proc'[q].writer \in {"ended", "failed"} =>
          \A j \in Tasks : owner'[j] = q => mem'[j] # "buffered"
    BY <1>0, <1>2
  <2>2. \A j \in Tasks : mem'[j] = "lost" => mem[j] = "lost" \/ j \in spoiled'
    BY <1>2
  <2>. QED BY <1>2, <2>1, <2>2, EmptiedKept
<1>3. ASSUME NEW p \in Procs, NEW f \in Fetchings, proc' = [proc EXCEPT ![p].fetch = f]
      PROVE  \A q \in Procs : proc'[q].writer = proc[q].writer
  BY <1>0, <1>3 DEF ProcState
<1>4. ASSUME NEW p \in Procs, Claims(p) PROVE Emptied'
  <2>1. \A q \in Procs : proc'[q].writer = proc[q].writer
    BY <1>3, <1>4, StateMembers DEF Claims
  <2>2. spoiled' = spoiled
    BY <1>4 DEF Claims
  <2>. QED BY <2>1, <2>2, <1>2, <1>4 DEF Claims
<1>5. ASSUME NEW p \in Procs, FetchFails(p) PROVE Emptied'
  <2>1. \A q \in Procs : proc'[q].writer = proc[q].writer
    BY <1>3, <1>5, StateMembers DEF FetchFails
  <2>2. CASE UNCHANGED <<status, mem, owner, claims, spoiled>>
    BY <2>1, <2>2, <1>0, EmptiedKept
  <2>. QED BY <2>1, <2>2, <1>2, <1>5 DEF FetchFails
<1>6. ASSUME NEW j \in Tasks, NEW where \in JobState \ {"lost", "buffered"}, Goes(j, where),
             UNCHANGED <<owner, spoiled>>, \A q \in Procs : proc'[q].writer = proc[q].writer
      PROVE  Emptied'
  <2>1. \A k \in Tasks : mem'[k] \in {"lost", "buffered"} => mem[k] = mem'[k]
    BY <1>0, <1>6 DEF Goes
  <2>. QED BY <2>1, <1>0, <1>6, EmptiedKept
<1>7. ASSUME NEW p \in Procs, NEW j \in Tasks,
             SendsToChannel(p, j) \/ Receives(p, j) \/ Fails(p, j) \/ Processed(p, j) \/ Pushes(p, j)
      PROVE  Emptied'
  <2>1. \E where \in {"chan", "working", "done", "pushing", "sending"} : Goes(j, where)
    BY <1>7 DEF SendsToChannel, Receives, Fails, Processed, Pushes
  <2>2. UNCHANGED <<owner, spoiled>>
    BY <1>7 DEF SendsToChannel, Receives, Fails, Processed, Pushes
  <2>3. UNCHANGED proc \/ proc' = [proc EXCEPT ![p].fetch = "query"]
    BY <1>7 DEF SendsToChannel, Receives, Fails, Processed, Pushes
  <2>4. \A q \in Procs : proc'[q].writer = proc[q].writer
    BY <1>3, <2>3, StateMembers
  <2>5. {"chan", "working", "done", "pushing", "sending"} \subseteq JobState \ {"lost", "buffered"}
    BY DEF JobState, Resting, InHand
  <2>. QED BY <2>1, <2>2, <2>4, <2>5, <1>6
<1>8. ASSUME NEW p \in Procs, NEW j \in Tasks, WriterReceives(p, j) PROVE Emptied'
  <2>1. proc[p].writer = "run" /\ owner[j] = p /\ Goes(j, "buffered") /\ UNCHANGED <<owner, spoiled>>
    BY <1>8 DEF WriterReceives, Held
  <2>2. UNCHANGED proc \/ proc' = [proc EXCEPT ![p].writer = "saving"]
    BY <1>8 DEF WriterReceives
  <2>3. \A q \in Procs : proc'[q].writer \in {"ended", "failed"} =>
          q # p /\ proc[q].writer \in {"ended", "failed"}
    BY <1>0, <2>1, <2>2 DEF ProcState
  <2>4. \A k \in Tasks : k # j => mem'[k] = mem[k]
    BY <2>1 DEF Goes
  <2>5. mem'[j] = "buffered"
    BY <1>0, <2>1 DEF Goes
  <2>. QED BY <1>0, <2>1, <2>3, <2>4, <2>5, EmptiedKept
<1>9. ASSUME NEW p \in Procs, Saves(p) \/ SaveFails(p) PROVE Emptied'
  <2>1. \A j \in Tasks : /\ mem'[j] = "buffered" => mem[j] = "buffered" /\ owner[j] # p
                         /\ mem'[j] = "lost" => mem[j] = "lost" \/ j \in Held(p, {"buffered", "sending"})
    BY <1>9 DEF Saves, SaveFails, Held
  <2>2. \A q \in Procs : q # p => proc'[q] = proc[q]
    BY <1>0, <1>9 DEF Saves, SaveFails
  <2>3. owner' = owner /\ spoiled \subseteq spoiled'
    BY <1>9 DEF Saves, SaveFails
  <2>4. \A j \in Tasks : mem'[j] = "lost" => mem[j] = "lost" \/ j \in spoiled'
    <3>1. CASE SaveFails(p)
      BY <3>1, <2>1, SpoiledHeld DEF SaveFails
    <3>2. CASE Saves(p)
      BY <3>2 DEF Saves
    <3>. QED BY <3>1, <3>2, <1>9
  <2>. QED BY <1>0, <2>1, <2>2, <2>3, <2>4, EmptiedKept
<1>10. ASSUME NEW p \in Procs,
              InactivityExits(p) \/ SignalStops(p) \/ ResultsClosed(p) \/ StartsAgain(p)
       PROVE  Emptied'
  <2>1. UNCHANGED <<mem, owner>> /\ spoiled \subseteq spoiled'
    BY <1>10 DEF InactivityExits, SignalStops, ResultsClosed, StartsAgain
  <2>2. \A q \in Procs : q # p => proc'[q] = proc[q]
    BY <1>0, <1>10 DEF InactivityExits, SignalStops, ResultsClosed, StartsAgain
  <2>3. proc'[p].writer \in {"ended", "failed"} =>
          proc[p].writer \in {"ended", "failed"} \/ Held(p, {"buffered"}) = {}
    BY <1>0, <1>10
       DEF InactivityExits, SignalStops, ResultsClosed, StartsAgain, Fresh, ProcState
  <2>4. Held(p, {"buffered"}) = {} => \A j \in Tasks : owner[j] = p => mem[j] # "buffered"
    BY DEF Held
  <2>. QED BY <1>0, <2>1, <2>2, <2>3, <2>4, EmptiedKept
<1>11. ASSUME NEW p \in Procs, Returns(p) \/ Dies(p) PROVE Emptied'
  <2>1. mem' = Gone(p) /\ owner' = owner /\ spoiled \subseteq spoiled'
    BY <1>11 DEF Returns, Dies
  <2>2. \A q \in Procs : proc'[q].writer = proc[q].writer
    BY <1>0, <1>11 DEF Returns, Dies, ProcState
  <2>3. \A j \in Tasks : mem'[j] = "buffered" => mem[j] = "buffered"
    BY <2>1 DEF Gone
  <2>4. \A j \in Tasks : mem'[j] = "lost" => mem[j] = "lost" \/ j \in Held(p, {"buffered", "sending"})
    BY <2>1 DEF Gone
  <2>5. \A j \in Tasks : mem'[j] = "lost" => mem[j] = "lost" \/ j \in spoiled'
    <3>1. CASE Returns(p)
      <4>1. Held(p, {"buffered", "sending"}) = {}
        BY <3>1, <1>0 DEF Returns, Held, InHand
      <4>. QED BY <4>1, <2>4
    <3>2. CASE Dies(p)
      BY <3>2, <2>4, SpoiledHeld DEF Dies
    <3>. QED BY <3>1, <3>2, <1>11
  <2>. QED BY <1>0, <2>1, <2>2, <2>3, <2>5, EmptiedKept
<1>12. CASE UNCHANGED dbVars
  BY <1>0, <1>12, EmptiedKept DEF dbVars
<1>. QED
  BY <1>1, <1>4, <1>5, <1>7, <1>8, <1>9, <1>10, <1>11, <1>12 DEF DbNext, DbStep

\* A process that went idle has saved what its writer held: a result is lost only
\* when a signal, a failed statement or a crash ended its process.
THEOREM NoQuietLoss == DbSpec => []QuietExitKeepsResults
<1>1. Emptied => QuietExitKeepsResults
  BY DEF Emptied
<1>. QED
  BY <1>1, EmptiedInit, EmptiedStep, UntouchedInit, UntouchedStep, DatabaseTyping, PTL DEF DbSpec

-----------------------------------------------------------------------------
(* Browser pool: the slots                                                  *)

FetchState == [at : FetchStates, has : SUBSET Slots, page : {"none", "open", "gone"},
               late : BOOLEAN]

SlotState == [browser : {"none", "up", "down"}, context : {"up", "down"},
              page : {"none", "open"}, active : Nat]

\* The types, without the bounds that SlotsKept gives.
PoolShapes ==
  /\ limit \in PageLimits
  /\ free \in [Slots -> Nat]
  /\ slot \in [Slots -> SlotState]
  /\ fetch \in [Fetchers -> FetchState]
  /\ stopping \in BOOLEAN /\ pool \in {"open", "closed"}

\* A fetch has one slot from the time it took one until it gives it back.
HasOne ==
  \A w \in Fetchers :
    IF fetch[w].at \in {"idle", "waiting"} THEN fetch[w].has = {}
    ELSE \E s \in Slots : fetch[w].has = {s}

PoolInv == PoolShapes /\ HasOne /\ SlotsKept

LEMMA StatesOf == FetchStates = {"idle", "waiting", "took", "scraping", "releasing", "hung"}
  BY DEF FetchStates

LEMMA IdleType == Idle \in FetchState /\ Idle.has = {} /\ Idle.at = "idle"
  BY DEF Idle, FetchState, FetchStates

LEMMA LimitType == PoolShapes => limit \in Nat \ {0}
  BY PoolAssumption DEF PoolShapes

LEMMA HoldersFinite ==
  \A s : IsFiniteSet(Holders(s)) /\ Cardinality(Holders(s)) \in Nat
<1> SUFFICES ASSUME NEW s PROVE IsFiniteSet(Holders(s)) /\ Cardinality(Holders(s)) \in Nat
  OBVIOUS
<1>1. Holders(s) \subseteq Fetchers
  BY DEF Holders
<1>. QED BY <1>1, PoolAssumption, FS_Subset, FS_CardinalityType

LEMMA PoolInitInv == PoolInit => PoolInv
<1> SUFFICES ASSUME PoolInit PROVE PoolInv
  OBVIOUS
<1>1. limit \in Nat \ {0} /\ limit \in PageLimits
  BY PoolAssumption DEF PoolInit
<1>2. PoolShapes
  BY <1>1, IdleType DEF PoolInit, PoolShapes, SlotState
<1>3. HasOne
  BY IdleType DEF PoolInit, HasOne
<1>4. \A s \in Slots : Holders(s) = {}
  BY IdleType DEF PoolInit, Holders
<1>5. SlotsKept
  BY <1>1, <1>4, FS_EmptySet DEF PoolInit, SlotsKept, Sessions
<1>. QED BY <1>2, <1>3, <1>5 DEF PoolInv

-----------------------------------------------------------------------------
(* How a step changes the holders                                           *)

\* One fetch goes on with the slot it has, or with none.
LEMMA SameHolders ==
  ASSUME PoolShapes, HasOne, NEW w \in Fetchers, NEW r \in FetchState,
         fetch' = [fetch EXCEPT ![w] = r], r.has = fetch[w].has,
         r.at \in {"idle", "waiting"} <=> fetch[w].at \in {"idle", "waiting"}
  PROVE  /\ fetch' \in [Fetchers -> FetchState]
         /\ HasOne' /\ \A s \in Slots : Holders(s)' = Holders(s)
  BY DEF PoolShapes, HasOne, Holders

\* A fetch takes a slot.
LEMMA TakenHolders ==
  ASSUME PoolShapes, HasOne, NEW w \in Fetchers, NEW r \in FetchState, NEW s \in Slots,
         fetch' = [fetch EXCEPT ![w] = r], fetch[w].has = {}, r.has = {s},
         r.at \notin {"idle", "waiting"}
  PROVE  /\ fetch' \in [Fetchers -> FetchState]
         /\ HasOne'
         /\ Cardinality(Holders(s)') = Cardinality(Holders(s)) + 1
         /\ \A t \in Slots : t # s => Holders(t)' = Holders(t)
<1>1. fetch' \in [Fetchers -> FetchState] /\ HasOne'
  BY DEF PoolShapes, HasOne
<1>2. Holders(s)' = Holders(s) \cup {w} /\ w \notin Holders(s)
  BY DEF PoolShapes, Holders
<1>3. \A t \in Slots : t # s => Holders(t)' = Holders(t)
  BY DEF PoolShapes, Holders
<1>4. Cardinality(Holders(s)') = Cardinality(Holders(s)) + 1
  BY <1>2, HoldersFinite, FS_AddElement
<1>. QED BY <1>1, <1>3, <1>4

\* A fetch is over, and its slot given back or not.
LEMMA DroppedHolders ==
  ASSUME PoolShapes, HasOne, NEW w \in Fetchers, NEW s \in Slots,
         fetch' = [fetch EXCEPT ![w] = Idle], fetch[w].has = {s}
  PROVE  /\ fetch' \in [Fetchers -> FetchState]
         /\ HasOne'
         /\ Cardinality(Holders(s)) = Cardinality(Holders(s)') + 1
         /\ Cardinality(Holders(s)') \in Nat
         /\ \A t \in Slots : t # s => Holders(t)' = Holders(t)
<1>1. fetch' \in [Fetchers -> FetchState] /\ HasOne'
  BY IdleType DEF PoolShapes, HasOne
<1>2. Holders(s)' = Holders(s) \ {w} /\ w \in Holders(s)
  BY IdleType DEF PoolShapes, Holders
<1>3. \A t \in Slots : t # s => Holders(t)' = Holders(t)
  BY IdleType DEF PoolShapes, Holders
<1>4. /\ Cardinality(Holders(s)') = Cardinality(Holders(s)) - 1
      /\ IsFiniteSet(Holders(s)')
  BY <1>2, HoldersFinite, FS_RemoveElement
<1>5. Cardinality(Holders(s)') \in Nat
  BY <1>4, FS_CardinalityType
<1>. QED BY <1>1, <1>3, <1>4, <1>5, HoldersFinite

\* The counts stay when holders, channel and active counters do.
LEMMA CountsKept ==
  ASSUME SlotsKept, \A s \in Slots : Holders(s)' = Holders(s), UNCHANGED <<limit, free>>,
         stopping => stopping',
         \A s \in Slots : Sessions \/ slot'[s].active = slot[s].active
  PROVE  SlotsKept'
  BY DEF SlotsKept, Sessions

-----------------------------------------------------------------------------
(* The steps                                                                *)

\* What acquirePage returns besides the slot.
LEMMA PagesAre ==
  ASSUME NEW r, NEW got \in Pages(r)
  PROVE  got.page \in {"none", "open"} /\ got.stray \in BOOLEAN
<1>1. \A q : NewPage(q).page = "open" /\ NewPage(q).stray = FALSE
  BY DEF NewPage
<1>2. \A q : \A b \in BOOLEAN : NoPage(q, b).page = "none" /\ NoPage(q, b).stray = b
  BY DEF NoPage
<1>3. \A x \in Relaunches(r) : \E q : \E b \in BOOLEAN : x = NoPage(q, b)
  <2>. SUFFICES ASSUME NEW x \in Relaunches(r)
                PROVE  \E q : \E b \in BOOLEAN : x = NoPage(q, b)
    OBVIOUS
  <2>1. PICK old : x \in {NoPage(Launched, old.browser = "up"), NoPage(old, TRUE), NoPage(old, FALSE)}
    BY DEF Relaunches
  <2>2. (old.browser = "up") \in BOOLEAN
    OBVIOUS
  <2>. QED BY <2>1, <2>2, Zenon
<1>4. \/ got \in Relaunches(r)
      \/ got = NewPage(r)
      \/ got = NewPage([r EXCEPT !.context = "up"])
  BY DEF Pages
<1>. QED BY <1>1, <1>2, <1>3, <1>4

\* Each step of a fetch that neither takes nor gives back a slot leaves it some
\* record that has the same slot.
LEMMA QuietFetch ==
  ASSUME PoolInv, NEW w \in Fetchers, NEW s,
         \/ StartsFetch(w) \/ GivesUpWaiting(w) \/ JobTimesOut(w) \/ LaunchFails(w, s)
         \/ AcquiresPage(w, s) \/ OpensPage(w, s) \/ EndsScraping(w) \/ CloseHangs(w)
  PROVE  \E r \in FetchState :
           /\ fetch' = [fetch EXCEPT ![w] = r] /\ r.has = fetch[w].has
           /\ (r.at = "idle" \/ r.at = "waiting") <=> (fetch[w].at = "idle" \/ fetch[w].at = "waiting")
<1>1. fetch[w] \in FetchState /\ fetch \in [Fetchers -> FetchState]
  BY DEF PoolInv, PoolShapes
<1>2. CASE StartsFetch(w)
  <2>. DEFINE r == [fetch[w] EXCEPT !.at = "waiting"]
  <2>1. r \in FetchState /\ r.has = fetch[w].has /\ r.at = "waiting"
    BY <1>1, StatesOf DEF FetchState
  <2>2. fetch' = [fetch EXCEPT ![w] = r] /\ fetch[w].at = "idle"
    BY <1>2 DEF StartsFetch, FetchGoes
  <2>. HIDE DEF r
  <2>. QED BY <2>1, <2>2
<1>3. CASE GivesUpWaiting(w)
  <2>1. fetch[w].at = "waiting" /\ fetch' = [fetch EXCEPT ![w] = Idle]
    BY <1>3 DEF GivesUpWaiting
  <2>2. fetch[w].has = {}
    BY <2>1 DEF PoolInv, HasOne
  <2>. QED BY <2>1, <2>2, IdleType
<1>4. CASE JobTimesOut(w)
  <2>. DEFINE r == [fetch[w] EXCEPT !.late = TRUE]
  <2>1. r \in FetchState /\ r.has = fetch[w].has /\ r.at = fetch[w].at
    BY <1>1 DEF FetchState
  <2>2. fetch' = [fetch EXCEPT ![w] = r]
    BY <1>4 DEF JobTimesOut
  <2>. HIDE DEF r
  <2>. QED BY <2>1, <2>2
<1>5. ASSUME NEW at \in {"scraping", "releasing", "hung"}, NEW page \in {"none", "open", "gone"},
             fetch[w].at \in {"took", "scraping", "releasing"},
             fetch' = [fetch EXCEPT ![w] = [fetch[w] EXCEPT !.page = page, !.at = at]]
      PROVE  \E r \in FetchState :
               /\ fetch' = [fetch EXCEPT ![w] = r] /\ r.has = fetch[w].has
               /\ (r.at = "idle" \/ r.at = "waiting")
                    <=> (fetch[w].at = "idle" \/ fetch[w].at = "waiting")
  <2>. DEFINE r == [fetch[w] EXCEPT !.page = page, !.at = at]
  <2>1. r \in FetchState /\ r.has = fetch[w].has /\ r.at = at
    BY <1>1, StatesOf DEF FetchState
  <2>2. fetch' = [fetch EXCEPT ![w] = r]
    BY <1>5
  <2>. HIDE DEF r
  <2>. QED BY <2>1, <2>2, <1>5
<1>6. ASSUME NEW at, fetch' = [fetch EXCEPT ![w].at = at]
      PROVE  fetch' = [fetch EXCEPT ![w] = [fetch[w] EXCEPT !.page = fetch[w].page, !.at = at]]
  BY <1>1, <1>6 DEF FetchState
<1>7. fetch[w].page \in {"none", "open", "gone"}
  BY <1>1 DEF FetchState
<1>8. CASE LaunchFails(w, s)
  <2>1. fetch[w].at = "took" /\ fetch' = [fetch EXCEPT ![w].at = "releasing"]
    BY <1>8 DEF LaunchFails, FetchGoes
  <2>. QED BY <2>1, <1>5, <1>6, <1>7
<1>9. CASE AcquiresPage(w, s)
  <2>1. PICK got \in Pages(IF slot[s].browser = "none" THEN Launched ELSE slot[s]) :
          fetch' = [fetch EXCEPT ![w].page = got.page,
                      ![w].at = IF got.page = "open" THEN "scraping" ELSE "releasing"]
    BY <1>9 DEF AcquiresPage
  <2>2. got.page \in {"none", "open"}
    BY PagesAre
  <2>3. fetch[w].at = "took"
    BY <1>9 DEF AcquiresPage
  <2>. DEFINE page == got.page
              at == IF page = "open" THEN "scraping" ELSE "releasing"
  <2>4. fetch' = [fetch EXCEPT ![w] = [fetch[w] EXCEPT !.page = page, !.at = at]]
    BY <2>1, <1>1
  <2>5. at \in {"scraping", "releasing"} /\ page \in {"none", "open", "gone"}
    BY <2>2
  <2>. HIDE DEF page, at
  <2>. QED BY <2>3, <2>4, <2>5, <1>5
<1>10. CASE OpensPage(w, s)
  <2>1. fetch[w].at = "took"
        /\ \/ fetch' = [fetch EXCEPT ![w].at = "scraping", ![w].page = "open"]
           \/ fetch' = [fetch EXCEPT ![w].at = "releasing"]
    BY <1>10 DEF OpensPage
  <2>2. CASE fetch' = [fetch EXCEPT ![w].at = "scraping", ![w].page = "open"]
    <3>1. fetch' = [fetch EXCEPT ![w] = [fetch[w] EXCEPT !.page = "open", !.at = "scraping"]]
      BY <1>1, <2>2 DEF FetchState
    <3>. QED BY <3>1, <2>1, <1>5
  <2>. QED BY <2>1, <2>2, <1>5, <1>6, <1>7
<1>11. CASE EndsScraping(w)
  <2>1. fetch' = [fetch EXCEPT ![w] = [fetch[w] EXCEPT !.page = "none", !.at = "releasing"]]
    BY <1>1, <1>11 DEF EndsScraping, FetchState
  <2>. QED BY <2>1, <1>5, <1>11 DEF EndsScraping
<1>12. CASE CloseHangs(w)
  <2>1. fetch[w].at \in {"took", "scraping", "releasing"} /\ fetch' = [fetch EXCEPT ![w].at = "hung"]
    BY <1>12 DEF CloseHangs, FetchGoes
  <2>. QED BY <2>1, <1>5, <1>6, <1>7
<1>. QED BY <1>2, <1>3, <1>4, <1>8, <1>9, <1>10, <1>11, <1>12

\* A slot that was closed, or that a wedged driver left, is a slot, and has its leases.
LEMMA ClosedType ==
  ASSUME NEW r \in SlotState
  PROVE  /\ SlotClosed(r) \in SlotState /\ SlotClosed(r).active = r.active
         /\ \A c \in Closes(r) : c \in SlotState /\ c.active = r.active
<1>1. SlotClosed(r) \in SlotState /\ SlotClosed(r).active = r.active
  BY DEF SlotClosed, SlotState
<1>. QED BY <1>1 DEF Closes

\* What a page is taken from is a slot again.
LEMMA PagesType ==
  ASSUME NEW r \in SlotState
  PROVE  \A got \in Pages(r) : got.slot \in SlotState
<1>1. Launched \in SlotState
  BY DEF Launched, SlotState
<1>2. r.context = "down" => [r EXCEPT !.context = "up"] \in SlotState
  BY DEF SlotState
<1>3. \A q \in SlotState : [q EXCEPT !.page = "open"] \in SlotState
  BY DEF SlotState
<1>4. \A q \in SlotState : NewPage(q).slot \in SlotState
  BY <1>3 DEF NewPage
<1>5. \A x \in Relaunches(r) : x.slot \in SlotState
  <2>1. \A old \in Closes(r) : old \in SlotState
    BY ClosedType
  <2>2. \A x \in Relaunches(r) : x.slot = Launched \/ x.slot \in Closes(r)
    BY DEF Relaunches, NoPage
  <2>. QED BY <1>1, <2>1, <2>2
<1>6. ASSUME NEW got \in Pages(r) PROVE got.slot \in SlotState
  <2>1. \/ got \in Relaunches(r)
        \/ got = NewPage(r)
        \/ got = NewPage([r EXCEPT !.context = "up"]) /\ r.context = "down"
    BY <1>6 DEF Pages
  <2>. QED BY <2>1, <1>2, <1>4, <1>5
<1>. QED BY <1>6

\* The quiet steps of a fetch, seen from the slots.
LEMMA QuietStep ==
  ASSUME PoolInv, NEW w \in Fetchers, NEW s,
         \/ StartsFetch(w) \/ GivesUpWaiting(w) \/ JobTimesOut(w) \/ LaunchFails(w, s)
         \/ AcquiresPage(w, s) \/ OpensPage(w, s) \/ EndsScraping(w) \/ CloseHangs(w)
  PROVE  PoolInv'
<1>0. PoolShapes /\ HasOne /\ SlotsKept
  BY DEF PoolInv
<1>1. UNCHANGED <<limit, free, stopping, pool>>
  BY DEF StartsFetch, GivesUpWaiting, JobTimesOut, LaunchFails, AcquiresPage, OpensPage, EndsScraping,
     CloseHangs
<1>2. slot' \in [Slots -> SlotState] /\ \A t \in Slots : Sessions \/ slot'[t].active = slot[t].active
  <2>1. CASE AcquiresPage(w, s)
    <3>. DEFINE base == IF slot[s].browser = "none" THEN Launched ELSE slot[s]
    <3>0. s \in Slots
      BY <1>0, <2>1 DEF AcquiresPage, PoolShapes, FetchState
    <3>1. base \in SlotState
      BY <3>0, <1>0 DEF PoolShapes, Launched, SlotState
    <3>2. Sessions /\ \E got \in Pages(base) : slot' = [slot EXCEPT ![s] = got.slot]
      BY <2>1 DEF AcquiresPage
    <3>. HIDE DEF base
    <3>3. PICK got \in Pages(base) : slot' = [slot EXCEPT ![s] = got.slot]
      BY <3>2
    <3>4. got.slot \in SlotState
      BY <3>1, PagesType
    <3>. QED BY <3>0, <3>2, <3>3, <3>4, <1>0 DEF PoolShapes
  <2>2. CASE ~AcquiresPage(w, s)
    <3>1. slot' = slot
      BY <2>2 DEF StartsFetch, GivesUpWaiting, JobTimesOut, LaunchFails, OpensPage, EndsScraping, CloseHangs
    <3>. QED BY <3>1, <1>0 DEF PoolShapes
  <2>. QED BY <2>1, <2>2
<1>3. PICK r \in FetchState :
        /\ fetch' = [fetch EXCEPT ![w] = r] /\ r.has = fetch[w].has
        /\ (r.at = "idle" \/ r.at = "waiting") <=> (fetch[w].at = "idle" \/ fetch[w].at = "waiting")
  BY QuietFetch
<1>4. r.at \in {"idle", "waiting"} <=> fetch[w].at \in {"idle", "waiting"}
  BY <1>3
<1>5. /\ fetch' \in [Fetchers -> FetchState]
      /\ HasOne' /\ \A t \in Slots : Holders(t)' = Holders(t)
  BY <1>0, <1>3, <1>4, SameHolders
<1>6. SlotsKept'
  BY <1>0, <1>1, <1>2, <1>5, CountsKept
<1>7. PoolShapes'
  BY <1>0, <1>1, <1>2, <1>5 DEF PoolShapes
<1>. QED BY <1>5, <1>6, <1>7 DEF PoolInv

LEMMA TakesStep ==
  ASSUME PoolInv, NEW w \in Fetchers, NEW s \in Slots, TakesSlot(w, s)
  PROVE  PoolInv'
<1>0. PoolShapes /\ HasOne /\ SlotsKept
  BY DEF PoolInv
<1>1. fetch[w].at = "waiting" /\ free[s] > 0 /\ UNCHANGED <<limit, stopping, pool>>
  BY DEF TakesSlot
<1>. DEFINE r == [fetch[w] EXCEPT !.at = "took", !.has = {s}]
<1>2. fetch[w].has = {} /\ fetch[w] \in FetchState
  BY <1>0, <1>1 DEF HasOne, PoolShapes
<1>3. r \in FetchState /\ r.has = {s} /\ r.at = "took"
  BY <1>2, StatesOf DEF FetchState
<1>4. fetch' = [fetch EXCEPT ![w] = r]
  BY <1>0 DEF TakesSlot, PoolShapes
<1>. HIDE DEF r
<1>5. /\ fetch' \in [Fetchers -> FetchState] /\ HasOne'
      /\ Cardinality(Holders(s)') = Cardinality(Holders(s)) + 1
      /\ \A t \in Slots : t # s => Holders(t)' = Holders(t)
  BY <1>0, <1>2, <1>3, <1>4, TakenHolders
<1>6. /\ free' \in [Slots -> Nat] /\ free'[s] = free[s] - 1
      /\ \A t \in Slots : t # s => free'[t] = free[t]
  BY <1>0, <1>1 DEF TakesSlot, PoolShapes
<1>7. /\ slot' \in [Slots -> SlotState] /\ (~Sessions => slot'[s].active = slot[s].active + 1)
      /\ \A t \in Slots : t # s => slot'[t] = slot[t]
  <2>1. slot[s] \in SlotState /\ slot \in [Slots -> SlotState]
    BY <1>0 DEF PoolShapes
  <2>2. [slot[s] EXCEPT !.active = @ + 1] \in SlotState
    BY <2>1 DEF SlotState
  <2>3. \/ slot' = slot /\ Sessions
        \/ slot' = [slot EXCEPT ![s] = [slot[s] EXCEPT !.active = @ + 1]]
    BY <2>1 DEF TakesSlot
  <2>4. [slot[s] EXCEPT !.active = @ + 1].active = slot[s].active + 1
    BY <2>1 DEF SlotState
  <2>. QED BY <2>1, <2>2, <2>3, <2>4
<1>8. limit \in Nat \ {0} /\ \A t \in Slots : free[t] \in Nat /\ Cardinality(Holders(t)) \in Nat
  BY <1>0, LimitType, HoldersFinite DEF PoolShapes
<1>9. SlotsKept'
  <2> SUFFICES ASSUME NEW t \in Slots
               PROVE  /\ free'[t] + Cardinality(Holders(t)') <= limit
                      /\ limit = 1 /\ ~stopping => free'[t] + Cardinality(Holders(t)') = 1
                      /\ limit # 1 => slot'[t].active = Cardinality(Holders(t)')
    BY <1>1 DEF SlotsKept, Sessions
  <2>1. /\ free[t] + Cardinality(Holders(t)) <= limit
        /\ limit = 1 /\ ~stopping => free[t] + Cardinality(Holders(t)) = 1
        /\ limit # 1 => slot[t].active = Cardinality(Holders(t))
    BY <1>0 DEF SlotsKept, Sessions
  <2>2. CASE t = s
    BY <2>1, <2>2, <1>5, <1>6, <1>7, <1>8 DEF Sessions
  <2>3. CASE t # s
    BY <2>1, <2>3, <1>5, <1>6, <1>7
  <2>. QED BY <2>2, <2>3
<1>10. PoolShapes'
  BY <1>0, <1>1, <1>5, <1>6, <1>7 DEF PoolShapes
<1>. QED BY <1>5, <1>9, <1>10 DEF PoolInv

\* A slot or a lease that is given back, lost to a late context, or closed.
LEMMA ReturnsStep ==
  ASSUME PoolInv, NEW w \in Fetchers, NEW s \in Slots, PutsSlot(w, s) \/ ReleasesLease(w, s)
  PROVE  PoolInv'
<1>0. PoolShapes /\ HasOne /\ SlotsKept
  BY DEF PoolInv
<1>1. /\ fetch[w].at = "releasing" /\ s \in fetch[w].has
      /\ fetch' = [fetch EXCEPT ![w] = Idle] /\ UNCHANGED <<limit, stopping, pool>>
  BY DEF PutsSlot, ReleasesLease
<1>2. fetch[w].has = {s}
  BY <1>0, <1>1 DEF HasOne
<1>3. /\ fetch' \in [Fetchers -> FetchState] /\ HasOne'
      /\ Cardinality(Holders(s)) = Cardinality(Holders(s)') + 1
      /\ Cardinality(Holders(s)') \in Nat
      /\ \A t \in Slots : t # s => Holders(t)' = Holders(t)
  BY <1>0, <1>1, <1>2, DroppedHolders
<1>4. PICK n \in {0, 1} : /\ free' = [free EXCEPT ![s] = @ + n]
                          /\ Sessions /\ ~stopping => n = 1
  <2>1. CASE ReleasesLease(w, s)
    BY <2>1 DEF ReleasesLease, LeaseKept
  <2>2. CASE PutsSlot(w, s)
    <3>1. free' = [free EXCEPT ![s] = @ + 1] \/ (stopping /\ free' = free)
      BY <2>2 DEF PutsSlot, PutSlotContextDone
    <3>2. free = [free EXCEPT ![s] = @ + 0]
      BY <1>0 DEF PoolShapes
    <3>. QED BY <3>1, <3>2
  <2>. QED BY <2>1, <2>2
<1>5. /\ free' \in [Slots -> Nat] /\ free'[s] = free[s] + n
      /\ \A t \in Slots : t # s => free'[t] = free[t]
  BY <1>0, <1>4 DEF PoolShapes
<1>6. /\ slot' \in [Slots -> SlotState] /\ (~Sessions => slot'[s].active = slot[s].active - 1)
      /\ \A t \in Slots : t # s => slot'[t] = slot[t]
  <2>1. slot[s] \in SlotState /\ slot \in [Slots -> SlotState]
    BY <1>0 DEF PoolShapes
  <2>2. CASE PutsSlot(w, s)
    <3>1. Sessions /\ (slot' = slot \/ \E c \in Closes(slot[s]) : slot' = [slot EXCEPT ![s] = c])
      BY <2>2, <2>1 DEF PutsSlot
    <3>. QED BY <3>1, <2>1, ClosedType
  <2>3. CASE ReleasesLease(w, s)
    <3>1. slot[s].active = Cardinality(Holders(s))
      BY <2>3, <1>0 DEF ReleasesLease, SlotsKept
    <3>2. slot[s].active - 1 \in Nat
      BY <3>1, <1>3
    <3>3. /\ [slot[s] EXCEPT !.active = @ - 1] \in SlotState
          /\ [slot[s] EXCEPT !.active = @ - 1].active = slot[s].active - 1
      BY <2>1, <3>2 DEF SlotState
    <3>4. slot' = [slot EXCEPT ![s] = [slot[s] EXCEPT !.active = @ - 1]]
      BY <2>1, <2>3 DEF ReleasesLease
    <3>. QED BY <2>1, <3>3, <3>4
  <2>. QED BY <2>2, <2>3
<1>7. limit \in Nat \ {0} /\ \A t \in Slots : free[t] \in Nat /\ Cardinality(Holders(t)) \in Nat
  BY <1>0, LimitType, HoldersFinite DEF PoolShapes
<1>8. SlotsKept'
  <2> SUFFICES ASSUME NEW t \in Slots
               PROVE  /\ free'[t] + Cardinality(Holders(t)') <= limit
                      /\ limit = 1 /\ ~stopping => free'[t] + Cardinality(Holders(t)') = 1
                      /\ limit # 1 => slot'[t].active = Cardinality(Holders(t)')
    BY <1>1 DEF SlotsKept, Sessions
  <2>1. /\ free[t] + Cardinality(Holders(t)) <= limit
        /\ limit = 1 /\ ~stopping => free[t] + Cardinality(Holders(t)) = 1
        /\ limit # 1 => slot[t].active = Cardinality(Holders(t))
    BY <1>0 DEF SlotsKept, Sessions
  <2>2. CASE t = s
    BY <2>1, <2>2, <1>3, <1>4, <1>5, <1>6, <1>7 DEF Sessions
  <2>3. CASE t # s
    BY <2>1, <2>3, <1>3, <1>5, <1>6
  <2>. QED BY <2>2, <2>3
<1>9. PoolShapes'
  BY <1>0, <1>1, <1>3, <1>5, <1>6 DEF PoolShapes
<1>. QED BY <1>3, <1>8, <1>9 DEF PoolInv

LEMMA BreaksStep ==
  ASSUME PoolInv, NEW s \in Slots, Breaks(s)
  PROVE  PoolInv'
<1>0. PoolShapes /\ HasOne /\ SlotsKept
  BY DEF PoolInv
<1>1. PICK b \in {"up", "down"} :
        slot' = [slot EXCEPT ![s] = [slot[s] EXCEPT !.browser = b, !.context = "down", !.page = "none"]]
  <2>1. slot \in [Slots -> SlotState]
    BY <1>0 DEF PoolShapes
  <2>2. \A b \in {"up", "down"} :
          [slot EXCEPT ![s].browser = b, ![s].context = "down", ![s].page = "none"]
            = [slot EXCEPT ![s] = [slot[s] EXCEPT !.browser = b, !.context = "down", !.page = "none"]]
    BY <2>1
  <2>. QED BY <2>2 DEF Breaks
<1>2. slot' \in [Slots -> SlotState] /\ \A t \in Slots : slot'[t].active = slot[t].active
  <2>1. slot[s] \in SlotState /\ slot \in [Slots -> SlotState]
    BY <1>0 DEF PoolShapes
  <2>. DEFINE r == [slot[s] EXCEPT !.browser = b, !.context = "down", !.page = "none"]
  <2>2. r \in SlotState /\ r.active = slot[s].active
    BY <2>1 DEF SlotState
  <2>3. slot' = [slot EXCEPT ![s] = r]
    BY <1>1
  <2>. HIDE DEF r
  <2>. QED BY <2>1, <2>2, <2>3
<1>3. \A w \in Fetchers : /\ fetch'[w] \in FetchState
                          /\ fetch'[w].has = fetch[w].has /\ fetch'[w].at = fetch[w].at
  <2> SUFFICES ASSUME NEW w \in Fetchers
               PROVE  /\ fetch'[w] \in FetchState
                      /\ fetch'[w].has = fetch[w].has /\ fetch'[w].at = fetch[w].at
    OBVIOUS
  <2>1. fetch[w] \in FetchState
    BY <1>0 DEF PoolShapes
  <2>2. LET r == [fetch[w] EXCEPT !.page = "gone"]
        IN r \in FetchState /\ r.has = fetch[w].has /\ r.at = fetch[w].at
    BY <2>1 DEF FetchState
  <2>3. fetch'[w] = fetch[w] \/ fetch'[w] = [fetch[w] EXCEPT !.page = "gone"]
    BY DEF Breaks
  <2>. QED BY <2>1, <2>2, <2>3
<1>4. fetch' \in [Fetchers -> FetchState]
  <2>1. fetch' = [w \in Fetchers |-> fetch'[w]]
    BY DEF Breaks
  <2>. QED BY <2>1, <1>3
<1>5. HasOne' /\ \A t \in Slots : Holders(t)' = Holders(t)
  BY <1>0, <1>3 DEF HasOne, Holders
<1>6. UNCHANGED <<limit, free, stopping, pool>>
  BY DEF Breaks
<1>7. SlotsKept'
  BY <1>0, <1>2, <1>5, <1>6, CountsKept
<1>. QED BY <1>0, <1>2, <1>4, <1>5, <1>6, <1>7 DEF PoolInv, PoolShapes

LEMMA EndStep ==
  ASSUME PoolInv, EngineStops \/ ClosesPool
  PROVE  PoolInv'
<1>0. PoolShapes /\ HasOne /\ SlotsKept
  BY DEF PoolInv
<1>1. fetch' = fetch /\ limit' = limit /\ stopping' = TRUE /\ pool' \in {"open", "closed"}
  BY <1>0 DEF EngineStops, ClosesPool, PoolShapes
<1>2. HasOne' /\ \A t \in Slots : Holders(t)' = Holders(t)
  BY <1>0, <1>1 DEF HasOne, Holders
<1>3. free' \in [Slots -> Nat] /\ \A t \in Slots : free'[t] <= free[t]
  BY <1>0 DEF EngineStops, ClosesPool, PoolShapes
<1>4. slot' \in [Slots -> SlotState] /\ \A t \in Slots : slot'[t].active = slot[t].active
  <2>1. CASE EngineStops
    BY <1>0, <2>1 DEF EngineStops, PoolShapes
  <2>2. CASE ClosesPool
    <3>1. ASSUME NEW t \in Slots
          PROVE  slot'[t] \in SlotState /\ slot'[t].active = slot[t].active
      <4>1. slot[t] \in SlotState
        BY <1>0 DEF PoolShapes
      <4>2. LET r == [slot[t] EXCEPT !.browser = IF @ = "up" THEN "down" ELSE @]
            IN  r \in SlotState /\ r.active = slot[t].active
        BY <4>1 DEF SlotState
      <4>3. \/ slot'[t] = [slot[t] EXCEPT !.browser = IF @ = "up" THEN "down" ELSE @]
            \/ slot'[t] = slot[t] \/ slot'[t] = SlotClosed(slot[t])
        BY <2>2 DEF ClosesPool
      <4>. QED BY <4>1, <4>2, <4>3, ClosedType
    <3>2. slot' = [t \in Slots |-> slot'[t]]
      BY <2>2 DEF ClosesPool
    <3>. QED BY <3>1, <3>2
  <2>. QED BY <2>1, <2>2
<1>5. SlotsKept'
  <2> SUFFICES ASSUME NEW t \in Slots
               PROVE  /\ free'[t] + Cardinality(Holders(t)') <= limit
                      /\ limit # 1 => slot'[t].active = Cardinality(Holders(t)')
    BY <1>1 DEF SlotsKept, Sessions
  <2>1. /\ free[t] + Cardinality(Holders(t)) <= limit
        /\ limit # 1 => slot[t].active = Cardinality(Holders(t))
    BY <1>0 DEF SlotsKept, Sessions
  <2>2. limit \in Nat /\ free[t] \in Nat /\ free'[t] \in Nat /\ Cardinality(Holders(t)) \in Nat
    BY <1>0, <1>3, LimitType, HoldersFinite DEF PoolShapes
  <2>. QED BY <2>1, <2>2, <1>2, <1>3, <1>4
<1>. QED BY <1>0, <1>1, <1>2, <1>3, <1>4, <1>5 DEF PoolInv, PoolShapes

LEMMA PoolStep == PoolInv /\ [PoolNext]_poolVars => PoolInv'
<1> SUFFICES ASSUME PoolInv, [PoolNext]_poolVars PROVE PoolInv'
  OBVIOUS
<1>1. ASSUME NEW w \in Fetchers, \/ StartsFetch(w) \/ JobTimesOut(w) \/ GivesUpWaiting(w) \/ EndsScraping(w)
                                   \/ CloseHangs(w)
      PROVE  PoolInv'
  BY <1>1, QuietStep
<1>2. ASSUME NEW w \in Fetchers, NEW s \in Slots,
             LaunchFails(w, s) \/ AcquiresPage(w, s) \/ OpensPage(w, s)
      PROVE  PoolInv'
  BY <1>2, QuietStep
<1>3. ASSUME NEW w \in Fetchers, NEW s \in Slots, PutsSlot(w, s) \/ ReleasesLease(w, s) PROVE PoolInv'
  BY <1>3, ReturnsStep
<1>4. ASSUME NEW w \in Fetchers, Takes(w) PROVE PoolInv'
  BY <1>4, TakesStep DEF Takes
<1>5. ASSUME NEW s \in Slots, Breaks(s) PROVE PoolInv'
  BY <1>5, BreaksStep
<1>6. CASE EngineStops \/ ClosesPool
  BY <1>6, EndStep
<1>7. CASE UNCHANGED poolVars
  <2>. USE <1>7 DEF poolVars
  <2>1. \A t \in Slots : Holders(t)' = Holders(t)
    BY DEF Holders
  <2>2. SlotsKept'
    BY <2>1, CountsKept DEF PoolInv
  <2>. QED BY <2>2 DEF PoolInv, PoolShapes, HasOne
<1>. QED BY <1>1, <1>2, <1>3, <1>4, <1>5, <1>6, <1>7 DEF PoolNext, FetchStep

-----------------------------------------------------------------------------
(* What follows                                                             *)

\* No slot is held, or there to be taken, more often than -pages-per-browser, and
\* a session's slot comes back from every fetch while the engine runs.
THEOREM SlotsNeverLost == PoolSpec => []SlotsKept
<1>1. PoolInv => SlotsKept
  BY DEF PoolInv
<1>. QED BY <1>1, PoolInitInv, PoolStep, PTL DEF PoolSpec

-----------------------------------------------------------------------------
(* Browser pool: what is closed                                             *)

PwTyped == pw \in [driver : {"works", "wedged", "stopped"}, stray : BOOLEAN]

\* A closed pool has no fetch and no browser, and a session's slot that is neither
\* held nor in the channel was closed before it was dropped, unless the driver was
\* wedged, which it stays until it is stopped.
Shut ==
  /\ pw.driver = "stopped" => pool = "closed"
  /\ pool = "closed" => stopping /\ \A w \in Fetchers : fetch[w].at = "idle"
  /\ AllBrowsersClosed

DroppedClosed ==
  Sessions /\ pw.driver # "wedged" =>
    \A s \in Slots : free[s] = 0 /\ Holders(s) = {} => slot[s].browser # "up"

LEMMA DriverStep ==
  ASSUME PwTyped, [PoolNext]_poolVars
  PROVE  /\ PwTyped'
         /\ pw'.driver # "wedged" => pw.driver # "wedged" \/ ClosesPool
         /\ pw'.driver = "stopped" => pw.driver = "stopped" \/ ClosesPool
<1>1. ASSUME NEW some \in BOOLEAN, Strays(some)
      PROVE  PwTyped' /\ pw'.driver = pw.driver
  BY <1>1 DEF Strays, PwTyped
<1>2. ASSUME NEW w \in Fetchers, NEW s \in Slots, LaunchFails(w, s)
      PROVE  PwTyped' /\ pw'.driver = pw.driver
  BY <1>1, <1>2 DEF LaunchFails
<1>3. ASSUME NEW w \in Fetchers, NEW s \in Slots, AcquiresPage(w, s)
      PROVE  PwTyped' /\ pw'.driver = pw.driver
  <2>1. PICK got \in Pages(IF slot[s].browser = "none" THEN Launched ELSE slot[s]) : Strays(got.stray)
    BY <1>3 DEF AcquiresPage
  <2>2. got.stray \in BOOLEAN
    BY PagesAre
  <2>. QED BY <1>1, <2>1, <2>2
<1>4. ASSUME NEW s \in Slots, Breaks(s)
      PROVE  PwTyped' /\ (pw'.driver = "wedged" \/ pw'.driver = pw.driver)
  BY <1>4 DEF Breaks, PwTyped
<1>5. CASE ClosesPool
  <2>1. pw' = [driver |-> "stopped", stray |-> FALSE] \/ pw' = pw
    BY <1>5 DEF ClosesPool
  <2>2. CASE pw' = [driver |-> "stopped", stray |-> FALSE]
    BY <1>5, <2>2 DEF PwTyped
  <2>3. CASE pw' = pw
    BY <1>5, <2>3 DEF PwTyped
  <2>. QED BY <1>5, <2>1, <2>2, <2>3
<1>6. ASSUME pw' = pw PROVE PwTyped' /\ pw'.driver = pw.driver
  BY <1>6 DEF PwTyped
<1>7. ASSUME \/ \E w \in Fetchers : StartsFetch(w) \/ Takes(w) \/ JobTimesOut(w) \/ GivesUpWaiting(w)
                                   \/ EndsScraping(w) \/ CloseHangs(w)
             \/ \E w \in Fetchers, s \in Slots : OpensPage(w, s) \/ PutsSlot(w, s) \/ ReleasesLease(w, s)
             \/ EngineStops \/ UNCHANGED poolVars
      PROVE  pw' = pw
  BY <1>7 DEF StartsFetch, Takes, TakesSlot, JobTimesOut, GivesUpWaiting, EndsScraping, CloseHangs,
     OpensPage, PutsSlot, ReleasesLease, EngineStops, poolVars
<1>. QED BY <1>2, <1>3, <1>4, <1>5, <1>6, <1>7 DEF PoolNext, FetchStep

LEMMA ShutStays ==
  ASSUME PoolInv, Shut, pool = "closed", [PoolNext]_poolVars
  PROVE  UNCHANGED poolVars
<1>1. stopping /\ \A w \in Fetchers : fetch[w].at = "idle"
  BY DEF Shut
<1>2. ASSUME NEW w \in Fetchers, \/ StartsFetch(w) \/ Takes(w) \/ JobTimesOut(w) \/ FetchStep(w)
                                   \/ CloseHangs(w)
      PROVE  FALSE
  BY <1>1, <1>2 DEF StartsFetch, Takes, TakesSlot, JobTimesOut, FetchStep, GivesUpWaiting,
       EndsScraping, LaunchFails, AcquiresPage, OpensPage, PutsSlot, ReleasesLease, CloseHangs
<1>3. ~EngineStops /\ ~ClosesPool /\ \A s \in Slots : ~Breaks(s)
  BY <1>1 DEF EngineStops, ClosesPool, Breaks
<1>. QED BY <1>2, <1>3 DEF PoolNext

\* Where slot, channel and holders are as before, nothing was dropped.
LEMMA DroppedSame ==
  ASSUME DroppedClosed, limit' = limit, pw'.driver # "wedged" => pw.driver # "wedged",
         \A s \in Slots : \/ slot'[s] = slot[s] /\ free'[s] = free[s] /\ Holders(s)' = Holders(s)
                          \/ free'[s] # 0 \/ Holders(s)' # {} \/ slot'[s].browser # "up"
  PROVE  DroppedClosed'
  BY DEF DroppedClosed, Sessions

\* Closing takes the slots of the channel and closes them; the others of a session
\* pool nobody holds any more.
LEMMA ShutClosed ==
  ASSUME PoolShapes, HasOne, DroppedClosed, ClosesPool
  PROVE  pw'.driver # "wedged" => \A s \in Slots : slot'[s].browser # "up"
<1>. SUFFICES ASSUME NEW s \in Slots, pw'.driver # "wedged" PROVE slot'[s].browser # "up"
  OBVIOUS
<1>0. \/ slot'[s] = [slot[s] EXCEPT !.browser = IF @ = "up" THEN "down" ELSE @]
      \/ /\ pw' = pw
         /\ slot'[s] = IF Sessions /\ free[s] = 0 THEN slot[s] ELSE SlotClosed(slot[s])
  BY DEF ClosesPool
<1>. SUFFICES ASSUME slot'[s] # [slot[s] EXCEPT !.browser = IF @ = "up" THEN "down" ELSE @]
              PROVE  slot'[s].browser # "up"
  BY DEF PoolShapes, SlotState
<1>1. CASE Sessions /\ free[s] = 0
  <2>1. slot'[s] = slot[s] /\ pw' = pw
    BY <1>0, <1>1
  <2>2. \A w \in Fetchers : fetch[w].has = {}
    BY DEF ClosesPool, HasOne
  <2>3. Holders(s) = {}
    BY <2>2 DEF Holders
  <2>. QED BY <1>1, <2>1, <2>3 DEF DroppedClosed
<1>2. CASE ~(Sessions /\ free[s] = 0)
  <2>1. slot'[s] = SlotClosed(slot[s])
    BY <1>0, <1>2
  <2>2. SlotClosed(slot[s]).browser # "up"
    BY DEF PoolShapes, SlotState, SlotClosed
  <2>. QED BY <2>1, <2>2
<1>. QED BY <1>1, <1>2

LEMMA DroppedStep ==
  ASSUME PoolInv, PwTyped, DroppedClosed, [PoolNext]_poolVars
  PROVE  DroppedClosed'
<1>0. PoolShapes /\ HasOne /\ SlotsKept
  BY DEF PoolInv
<1>7. CASE ClosesPool
  BY <1>0, <1>7, ShutClosed DEF DroppedClosed
<1>. SUFFICES ASSUME ~ClosesPool PROVE DroppedClosed'
  BY <1>7
<1>9. pw'.driver # "wedged" => pw.driver # "wedged"
  BY DriverStep
<1>1. ASSUME NEW w \in Fetchers, NEW s,
             \/ StartsFetch(w) \/ GivesUpWaiting(w) \/ JobTimesOut(w) \/ LaunchFails(w, s)
             \/ AcquiresPage(w, s) \/ OpensPage(w, s) \/ EndsScraping(w) \/ CloseHangs(w)
      PROVE  DroppedClosed'
  <2>1. PICK r \in FetchState :
        /\ fetch' = [fetch EXCEPT ![w] = r] /\ r.has = fetch[w].has
        /\ (r.at = "idle" \/ r.at = "waiting") <=> (fetch[w].at = "idle" \/ fetch[w].at = "waiting")
    BY <1>1, QuietFetch
  <2>2. r.at \in {"idle", "waiting"} <=> fetch[w].at \in {"idle", "waiting"}
    BY <2>1
  <2>3. \A t \in Slots : Holders(t)' = Holders(t)
    BY <1>0, <2>1, <2>2, SameHolders
  <2>4. UNCHANGED <<limit, free>>
    BY <1>1 DEF StartsFetch, GivesUpWaiting, JobTimesOut, LaunchFails, AcquiresPage, OpensPage,
                EndsScraping, CloseHangs
  <2>5. CASE AcquiresPage(w, s)
    <3>1. s \in fetch[w].has
      BY <2>5 DEF AcquiresPage
    <3>2. Holders(s) # {}
      BY <3>1 DEF Holders
    <3>3. \A t \in Slots : t # s => slot'[t] = slot[t]
      BY <1>0, <2>5 DEF AcquiresPage, PoolShapes
    <3>. QED BY <1>9, <2>3, <2>4, <3>2, <3>3, DroppedSame
  <2>6. CASE ~AcquiresPage(w, s)
    <3>1. slot' = slot
      BY <1>1, <2>6 DEF StartsFetch, GivesUpWaiting, JobTimesOut, LaunchFails, OpensPage, EndsScraping,
         CloseHangs
    <3>. QED BY <1>9, <2>3, <2>4, <3>1, DroppedSame
  <2>. QED BY <2>5, <2>6
<1>2. ASSUME NEW w \in Fetchers, NEW s \in Slots, TakesSlot(w, s)
      PROVE  DroppedClosed'
  <2>1. w \in Holders(s)'
    BY <1>0, <1>2 DEF TakesSlot, Holders, PoolShapes, FetchState
  <2>2. \A t \in Slots : t # s => Holders(t)' = Holders(t) /\ free'[t] = free[t] /\ slot'[t] = slot[t]
    <3>1. fetch[w].has = {}
      BY <1>0, <1>2 DEF HasOne, TakesSlot
    <3>2. \A t \in Slots : t # s => free'[t] = free[t] /\ slot'[t] = slot[t]
      BY <1>0, <1>2 DEF TakesSlot, PoolShapes
    <3>3. \A v \in Fetchers : v # w => fetch'[v] = fetch[v]
      BY <1>0, <1>2 DEF TakesSlot, PoolShapes
    <3>4. fetch'[w].has = {s}
      BY <1>0, <1>2 DEF TakesSlot, PoolShapes, FetchState
    <3>5. \A t \in Slots : t # s => Holders(t)' = Holders(t)
      BY <3>1, <3>3, <3>4 DEF Holders
    <3>. QED BY <3>2, <3>5
  <2>3. limit' = limit
    BY <1>2 DEF TakesSlot
  <2>. QED BY <1>9, <2>1, <2>2, <2>3, DroppedSame
<1>3. ASSUME NEW w \in Fetchers, NEW s \in Slots, PutsSlot(w, s)
      PROVE  DroppedClosed'
  <2>1. fetch[w].has = {s} /\ fetch' = [fetch EXCEPT ![w] = Idle] /\ limit' = limit
    BY <1>0, <1>3 DEF PutsSlot, HasOne
  <2>2. \A t \in Slots : t # s => Holders(t)' = Holders(t)
    BY <1>0, <2>1, DroppedHolders
  <2>3. CASE free' = [free EXCEPT ![s] = @ + 1] /\ slot' = slot
    BY <1>0, <1>9, <2>1, <2>2, <2>3, DroppedSame DEF PoolShapes
  <2>4. CASE slot' = [slot EXCEPT ![s] = SlotClosed(slot[s])] /\ free' = free
    <3>1. SlotClosed(slot[s]).browser # "up"
      BY <1>0 DEF PoolShapes, SlotState, SlotClosed
    <3>2. slot'[s] = SlotClosed(slot[s]) /\ \A t \in Slots : t # s => slot'[t] = slot[t]
      BY <1>0, <2>4 DEF PoolShapes
    <3>. QED BY <1>9, <2>1, <2>2, <2>4, <3>1, <3>2, DroppedSame
  <2>5. CASE pw.driver = "wedged"
    <3>1. pw' = pw
      BY <1>3 DEF PutsSlot
    <3>. QED BY <2>5, <3>1 DEF DroppedClosed
  <2>. QED BY <1>3, <2>3, <2>4, <2>5 DEF PutsSlot, Closes
<1>4. ASSUME NEW w \in Fetchers, NEW s \in Slots, ReleasesLease(w, s)
      PROVE  DroppedClosed'
  BY <1>4 DEF ReleasesLease, DroppedClosed, Sessions
<1>5. ASSUME NEW s \in Slots, Breaks(s)
      PROVE  DroppedClosed'
  <2>1. UNCHANGED <<limit, free>> /\ slot[s].browser = "up"
        /\ \A t \in Slots : t # s => slot'[t] = slot[t]
    BY <1>0, <1>5 DEF Breaks, PoolShapes
  <2>2. \A w \in Fetchers : fetch'[w].has = fetch[w].has
    <3>1. \A w \in Fetchers : fetch'[w] = fetch[w] \/ fetch'[w] = [fetch[w] EXCEPT !.page = "gone"]
      BY <1>5 DEF Breaks
    <3>2. \A w \in Fetchers : [fetch[w] EXCEPT !.page = "gone"].has = fetch[w].has
      BY <1>0 DEF PoolShapes, FetchState
    <3>. QED BY <3>1, <3>2
  <2>3. \A t \in Slots : Holders(t)' = Holders(t)
    BY <2>2 DEF Holders
  <2>4. Sessions /\ pw.driver # "wedged" => free[s] # 0 \/ Holders(s) # {}
    BY <2>1 DEF DroppedClosed
  <2>5. Sessions' = Sessions
    BY <2>1 DEF Sessions
  <2>. QED BY <1>9, <2>1, <2>3, <2>4, <2>5 DEF DroppedClosed
<1>6. CASE EngineStops
  <2>1. \A t \in Slots : Holders(t)' = Holders(t)
    BY <1>6 DEF EngineStops, Holders
  <2>. QED BY <1>6, <1>9, <2>1, DroppedSame DEF EngineStops
<1>8. CASE UNCHANGED poolVars
  <2>1. \A t \in Slots : Holders(t)' = Holders(t)
    BY <1>8 DEF poolVars, Holders
  <2>. QED BY <1>8, <1>9, <2>1, DroppedSame DEF poolVars
<1>. QED BY <1>1, <1>2, <1>3, <1>4, <1>5, <1>6, <1>8 DEF PoolNext, FetchStep, Takes

LEMMA ShutStep ==
  ASSUME PoolInv, PwTyped, Shut, DroppedClosed, [PoolNext]_poolVars
  PROVE  Shut'
<1>1. CASE pool = "closed"
  BY <1>1, ShutStays DEF poolVars, Shut, AllBrowsersClosed
<1>2. CASE ClosesPool
  <2>1. pw'.driver # "wedged" => \A s \in Slots : slot'[s].browser # "up"
    BY <1>2, ShutClosed DEF PoolInv
  <2>2. pw'.driver = "stopped" => ~pw'.stray
    <3>1. pw' = [driver |-> "stopped", stray |-> FALSE] \/ pw' = pw
      BY <1>2 DEF ClosesPool
    <3>. QED BY <1>2, <3>1 DEF ClosesPool, Shut
  <2>. QED BY <1>2, <2>1, <2>2 DEF ClosesPool, Shut, AllBrowsersClosed
<1>3. CASE pool # "closed" /\ ~ClosesPool
  <2>1. pool' = pool
    BY <1>3 DEF PoolNext, poolVars, Takes, FetchStep, StartsFetch, TakesSlot, JobTimesOut, GivesUpWaiting,
         EndsScraping, LaunchFails, AcquiresPage, OpensPage, PutsSlot, ReleasesLease, CloseHangs, Breaks,
         EngineStops
  <2>2. pw'.driver = "stopped" => pw.driver = "stopped"
    BY <1>3, DriverStep
  <2>. QED BY <1>3, <2>1, <2>2 DEF Shut, AllBrowsersClosed
<1>. QED BY <1>1, <1>2, <1>3

\* Closing the pool leaves no browser of a slot, though the driver could not be stopped:
\* the channel has every slot but those that were closed when they were dropped, whatever
\* broke and whichever fetch was late.  A browser that newBrowser left (session_slot.go
\* knows none of it) ends with the driver; a wedged driver may leave any.
THEOREM PoolClosesBrowsers == PoolSpec => []AllBrowsersClosed
<1>1. PoolInit => PwTyped /\ Shut /\ DroppedClosed
  <2>. SUFFICES ASSUME PoolInit PROVE PwTyped /\ Shut /\ DroppedClosed
    OBVIOUS
  <2>1. limit \in Nat \ {0} /\ pool = "open" /\ \A s \in Slots : free[s] = limit
    BY PoolAssumption DEF PoolInit
  <2>2. pw = [driver |-> "works", stray |-> FALSE]
    BY DEF PoolInit
  <2>. QED BY <2>1, <2>2 DEF PwTyped, Shut, DroppedClosed, AllBrowsersClosed
<1>2. PoolInv /\ PwTyped /\ Shut /\ DroppedClosed /\ [PoolNext]_poolVars
      => (PwTyped /\ Shut /\ DroppedClosed)'
  BY DriverStep, ShutStep, DroppedStep
<1>3. Shut => AllBrowsersClosed
  BY DEF Shut
<1>. QED BY <1>1, <1>2, <1>3, PoolInitInv, PoolStep, PTL DEF PoolSpec

-----------------------------------------------------------------------------
(* Results file: what is left of it                                         *)

FileTypes ==
  /\ format \in Formats /\ file \in Seq(Records)
  /\ session \in {"off", "open", "refused"}
  /\ ids \subseteq Places /\ headerDue \in BOOLEAN

\* No two readable rows of a place, and the session knows those of its file.
RowsDistinct ==
  /\ \A j, k \in Rows(file) : j # k => file[j].what # file[k].what
  /\ session = "open" => Identities(file) \subseteq ids

\* A JSON value is cut only at the end, and not in the file of a session.
ValuesWhole ==
  JSONL =>
    /\ session # "refused"
    /\ \A k \in 1..(Len(file) - 1) : file[k].cut # "quoted"
    /\ session = "open" => ParsesJSONL(file)

FileInv == FileTypes /\ RowsDistinct /\ ValuesWhole

\* Like the sets of what is not below one element, which strict inclusion orders.
LEMMA GreatestUpTo ==
  ASSUME NEW n \in Nat, NEW S \in SUBSET (0..n), S # {}
  PROVE  \E m \in S : \A k \in S : k <= m
<1>. DEFINE upFrom(j) == {k \in S : k >= j}
            T == {upFrom(j) : j \in S}
<1>0. IsFiniteSet(0..n) /\ S \subseteq Nat
  BY FS_Interval
<1>6. \A j : upFrom(j) \subseteq 0..n
  OBVIOUS
<1>7. FiniteSubsetsOf(0..n) = SUBSET (0..n)
  BY <1>0, FS_FiniteSubsetsOfFinite
<1>1. T \subseteq FiniteSubsetsOf(0..n) /\ T # {}
  <2>. HIDE DEF upFrom
  <2>1. \A j \in S : upFrom(j) \in FiniteSubsetsOf(0..n)
    BY <1>6, <1>7
  <2>. QED BY <2>1
<1>2. \E x \in T : \A y \in T : ~ (<<y, x>> \in StrictSubsetOrdering(0..n))
  <2>. HIDE DEF T
  <2>. QED BY <1>1, FS_StrictSubsetOrderingWellFounded, WFMin
<1>3. PICK j \in S : \A k \in S : ~ (<<upFrom(k), upFrom(j)>> \in StrictSubsetOrdering(0..n))
  BY <1>2
<1>4. \A k \in S : ~ (upFrom(k) \subseteq upFrom(j) /\ upFrom(k) # upFrom(j))
  BY <1>3, <1>6 DEF StrictSubsetOrdering
<1>5. ASSUME NEW k \in S, k > j PROVE FALSE
  <2>0. \A i \in Nat : i >= k => i >= j
    BY <1>0, <1>5
  <2>1. upFrom(k) \subseteq upFrom(j)
    BY <1>0, <2>0
  <2>2. j \in upFrom(j) /\ j \notin upFrom(k)
    BY <1>0, <1>5
  <2>. QED BY <1>4, <2>1, <2>2
<1>. QED BY <1>0, <1>5

\* The end of the last record, or line of a record, that has its newline.
LEMMA LastWholeIs ==
  ASSUME NEW f \in Seq(Records)
  PROVE  /\ LastWhole(f) \in 0..Len(f)
         /\ LastWhole(f) # 0 => f[LastWhole(f)].cut \in {"none", "inner"}
         /\ \A k \in 1..Len(f) : f[k].cut \in {"none", "inner"} => k <= LastWhole(f)
<1>. DEFINE ends == {k \in 0..Len(f) : k = 0 \/ f[k].cut \in {"none", "inner"}}
<1>1. Len(f) \in Nat /\ ends \subseteq 0..Len(f) /\ 0 \in ends
  BY LenProperties
<1>2. \E m \in ends : \A n \in ends : n <= m
  BY <1>1, GreatestUpTo
<1>3. LastWhole(f) \in ends /\ \A n \in ends : n <= LastWhole(f)
  BY <1>2 DEF LastWhole
<1>. QED BY <1>1, <1>3

\* What a session may find when it opens the file, or a repair of it.
LEMMA RepairsKeep ==
  ASSUME NEW f \in Seq(Records), f # <<>>, NEW g \in Repairs(f)
  PROVE  \/ /\ g = Truncated(f) /\ g \in Seq(Records) /\ Len(g) = LastWhole(f)
            /\ Len(g) <= Len(f) /\ \A k \in 1..Len(g) : g[k] = f[k]
         \/ /\ "inner" \in Cuts /\ f[Len(f)].cut = "quoted"
            /\ g \in Seq(Records) /\ Len(g) = Len(f)
            /\ \A k \in 1..(Len(f) - 1) : g[k] = f[k]
            /\ g[Len(f)].what = f[Len(f)].what /\ g[Len(f)].cut = "inner"
<1>1. LastWhole(f) \in 0..Len(f) /\ Len(f) \in Nat \ {0}
  BY LastWholeIs, EmptySeq, LenProperties
<1>2. CASE g = Truncated(f)
  <2>1. g \in Seq(Records) /\ Len(g) = LastWhole(f) /\ \A k \in 1..Len(g) : g[k] = f[k]
    BY <1>1, <1>2, SubSeqProperties DEF Truncated
  <2>. QED BY <1>1, <1>2, <2>1
<1>3. CASE Last(f).cut = "quoted" /\ "inner" \in Cuts /\ g = [f EXCEPT ![Len(f)].cut = "inner"]
  <2>1. f[Len(f)] \in Records /\ Last(f) = f[Len(f)]
    BY <1>1, ElementOfSeq DEF Last
  <2>. DEFINE r == [f[Len(f)] EXCEPT !.cut = "inner"]
  <2>2. r \in Records /\ r.cut = "inner" /\ r.what = f[Len(f)].what
    BY <1>3, <2>1 DEF Records
  <2>3. g = [f EXCEPT ![Len(f)] = r]
    BY <1>3
  <2>. HIDE DEF r
  <2>4. g \in Seq(Records) /\ Len(g) = Len(f) /\ g[Len(f)] = r
        /\ \A k \in 1..(Len(f) - 1) : g[k] = f[k]
    BY <1>1, <2>2, <2>3, ExceptSeq
  <2>. QED BY <1>3, <2>1, <2>2, <2>4
<1>. QED BY <1>2, <1>3 DEF Repairs

\* The readable rows of a file with one record more, and of a repair.
LEMMA RowsOfMore ==
  ASSUME NEW f \in Seq(Records), NEW r \in Records, NEW g, g = Append(f, r)
  PROVE  /\ g \in Seq(Records) /\ Len(g) = Len(f) + 1 /\ g[Len(f) + 1] = r
         /\ \A k \in 1..Len(f) : g[k] = f[k]
         /\ Rows(g) \subseteq Rows(f) \cup {Len(f) + 1}
         /\ Len(f) + 1 \in Rows(g) => r.what \in Places
<1>1. /\ g \in Seq(Records) /\ Len(g) = Len(f) + 1 /\ g[Len(f) + 1] = r /\ Len(f) \in Nat
      /\ \A k \in 1..Len(f) : g[k] = f[k]
  BY AppendProperties, LenProperties
<1>2. ASSUME NEW k \in Rows(g), k # Len(f) + 1
      PROVE  k \in Rows(f)
  <2>1. k \in 1..Len(f) /\ g[k] = f[k] /\ (k # 1 => k - 1 \in 1..Len(f) /\ g[k - 1] = f[k - 1])
    BY <1>1, <1>2 DEF Rows
  <2>. QED BY <1>2, <2>1 DEF Rows
<1>. QED BY <1>1, <1>2 DEF Rows

LEMMA RowsOfRepair ==
  ASSUME NEW f \in Seq(Records), f # <<>>, NEW g \in Repairs(f)
  PROVE  g \in Seq(Records) /\ \A k \in Rows(g) : k \in Rows(f) /\ g[k].what = f[k].what
<1>0. Len(f) \in Nat
  BY LenProperties
<1>1. CASE /\ g \in Seq(Records) /\ Len(g) <= Len(f) /\ \A k \in 1..Len(g) : g[k] = f[k]
  <2>1. ASSUME NEW k \in Rows(g) PROVE k \in Rows(f) /\ g[k].what = f[k].what
    <3>1. Len(g) \in Nat
      BY <1>1, LenProperties
    <3>2. k \in 1..Len(g) /\ k \in 1..Len(f) /\ g[k] = f[k]
          /\ (k # 1 => k - 1 \in 1..Len(g) /\ g[k - 1] = f[k - 1])
      BY <1>0, <1>1, <3>1 DEF Rows
    <3>. QED BY <3>2 DEF Rows
  <2>. QED BY <1>1, <2>1
<1>2. CASE /\ g \in Seq(Records) /\ Len(g) = Len(f)
           /\ \A k \in 1..(Len(f) - 1) : g[k] = f[k]
           /\ g[Len(f)].cut = "inner"
  <2>1. ASSUME NEW k \in Rows(g) PROVE k \in Rows(f) /\ g[k].what = f[k].what
    <3>1. k \in 1..(Len(f) - 1) /\ k \in 1..Len(f) /\ (k # 1 => k - 1 \in 1..(Len(f) - 1))
      BY <1>0, <1>2 DEF Rows
    <3>2. g[k] = f[k] /\ (k # 1 => g[k - 1] = f[k - 1])
      BY <1>2, <3>1
    <3>. QED BY <3>1, <3>2 DEF Rows
  <2>. QED BY <1>2, <2>1
<1>. QED BY <1>1, <1>2, RepairsKeep

LEMMA FileInitInv == Init => FileInv
<1> SUFFICES ASSUME Init PROVE FileInv
  OBVIOUS
<1>1. Len(<<>>) = 0 /\ <<>> \in Seq(Records)
  BY EmptySeq
<1>2. Rows(<<>>) = {}
  BY <1>1 DEF Rows
<1>3. file = <<>> /\ session = "off"
  BY DEF Init
<1>4. FileTypes
  BY <1>1, <1>3 DEF Init, FileTypes
<1>5. RowsDistinct
  BY <1>2, <1>3 DEF RowsDistinct
<1>6. ValuesWhole
  BY <1>1, <1>3 DEF ValuesWhole
<1>. QED BY <1>4, <1>5, <1>6 DEF FileInv

\* The format stays, and with it what a record, a row and a value is.
LEMMA SameFormat ==
  ASSUME format' = format
  PROVE  /\ JSONL' = JSONL /\ Records' = Records
         /\ Rows(file)' = Rows(file') /\ Identities(file)' = Identities(file')
         /\ ParsesJSONL(file)' = ParsesJSONL(file')
  BY DEF JSONL, Records, Cuts, Rows, Identities, ParsesJSONL

LEMMA OpensFile ==
  ASSUME FileInv, NEW f \in Seq(Records), Opens(f), format' = format,
         \A j, k \in Rows(f) : j # k => f[j].what # f[k].what,
         JSONL => ParsesJSONL(f)
  PROVE  FileInv'
<1>1. file' = f /\ Identities(f) \subseteq Places
  BY DEF Opens, Identities, Rows
<1>2. CASE Parses(f)
  <2>1. session' = "open" /\ ids' = Identities(f) /\ headerDue' \in BOOLEAN
    BY <1>2 DEF Opens
  <2>2. FileTypes'
    BY <1>1, <2>1, SameFormat DEF FileInv, FileTypes
  <2>3. RowsDistinct'
    BY <1>1, <2>1, SameFormat DEF RowsDistinct
  <2>4. ValuesWhole'
    <3>1. Len(f) \in Nat
      BY LenProperties
    <3>2. JSONL => \A k \in 1..(Len(f) - 1) : f[k].cut # "quoted"
      BY <3>1 DEF ParsesJSONL
    <3>3. JSONL' = JSONL /\ ParsesJSONL(file)' = ParsesJSONL(f)
      BY <1>1, SameFormat
    <3>. QED BY <1>1, <2>1, <3>2, <3>3 DEF ValuesWhole
  <2>. QED BY <2>2, <2>3, <2>4 DEF FileInv
<1>3. CASE ~Parses(f)
  <2>1. session' = "refused" /\ UNCHANGED <<ids, headerDue>> /\ ~JSONL
    BY <1>3 DEF Opens, Parses
  <2>. QED BY <1>1, <2>1, SameFormat DEF FileInv, FileTypes, RowsDistinct, ValuesWhole
<1>. QED BY <1>2, <1>3

LEMMA ResumeStep ==
  ASSUME FileInv, Resume
  PROVE  FileInv'
<1>0. /\ file \in Seq(Records) /\ Len(file) \in Nat /\ format' = format
      /\ \A j, k \in Rows(file) : j # k => file[j].what # file[k].what
  BY LenProperties DEF FileInv, FileTypes, RowsDistinct, Resume
<1>1. JSONL => \A k \in 1..(Len(file) - 1) : file[k].cut # "quoted"
  BY DEF FileInv, ValuesWhole
<1>2. CASE (Parses(file) \/ ~Incomplete(file)) /\ Opens(file)
  <2>1. ASSUME JSONL, ~Incomplete(file), NEW k \in 1..Len(file)
        PROVE  file[k].cut # "quoted"
    <3>1. file # <<>>
      BY <2>1, EmptySeq
    <3>2. file[Len(file)].cut # "quoted"
      BY <2>1, <3>1 DEF Incomplete, Last
    <3>. QED BY <1>0, <1>1, <2>1, <3>2
  <2>2. JSONL => ParsesJSONL(file)
    BY <1>2, <2>1 DEF ParsesJSONL, Parses
  <2>. QED BY <1>0, <1>2, <2>2, OpensFile
<1>3. ASSUME ~Parses(file), Incomplete(file), NEW f \in Repairs(file), Opens(f)
      PROVE  FileInv'
  <2>0. file # <<>>
    BY <1>3 DEF Incomplete
  <2>1. f \in Seq(Records) /\ \A k \in Rows(f) : k \in Rows(file) /\ f[k].what = file[k].what
    BY <1>0, <2>0, RowsOfRepair
  <2>2. \A j, k \in Rows(f) : j # k => f[j].what # f[k].what
    BY <1>0, <2>1
  <2>3. ASSUME JSONL, NEW k \in 1..Len(f)
        PROVE  f[k].cut # "quoted"
    <3>1. "inner" \notin Cuts
      BY <2>3 DEF Cuts
    <3>2. /\ Len(f) = LastWhole(file) /\ Len(f) <= Len(file)
          /\ \A n \in 1..Len(f) : f[n] = file[n]
      BY <1>0, <2>0, <3>1, RepairsKeep
    <3>3. CASE k = Len(file)
      <4>1. k = LastWhole(file) /\ k # 0
        BY <1>0, <2>1, <2>3, <3>2, <3>3, LenProperties
      <4>2. file[k].cut \in {"none", "inner"}
        BY <1>0, <4>1, LastWholeIs
      <4>. QED BY <2>3, <3>2, <4>2
    <3>4. CASE k # Len(file)
      <4>1. k \in 1..(Len(file) - 1)
        BY <1>0, <2>1, <2>3, <3>2, <3>4, LenProperties
      <4>. QED BY <1>1, <2>3, <3>2, <4>1
    <3>. QED BY <3>3, <3>4
  <2>4. JSONL => ParsesJSONL(f)
    BY <2>3 DEF ParsesJSONL
  <2>. QED BY <1>0, <1>3, <2>1, <2>2, <2>4, OpensFile
<1>. QED BY <1>2, <1>3 DEF Resume

\* Writing: the rows stay distinct, whether the record is whole or cut.
LEMMA WritesRecord ==
  ASSUME FileInv, session = "open", format' = format, NEW r \in Records, Appends(r),
         r.what \in Places => r.what \notin ids,
         ids' \subseteq Places, headerDue' \in BOOLEAN,
         \/ session' = "off"
         \/ /\ session' = "open" /\ r.cut # "quoted" /\ ids \subseteq ids'
            /\ r.what \in Places => r.what \in ids'
  PROVE  FileInv'
<1>0. file \in Seq(Records) /\ Len(file) \in Nat /\ file' = Append(file, r)
  BY LenProperties DEF FileInv, FileTypes, Appends
<1>1. /\ file' \in Seq(Records) /\ Len(file') = Len(file) + 1 /\ file'[Len(file) + 1] = r
      /\ \A k \in 1..Len(file) : file'[k] = file[k]
      /\ Rows(file') \subseteq Rows(file) \cup {Len(file) + 1}
      /\ Len(file) + 1 \in Rows(file') => r.what \in Places
  <2>. DEFINE g == Append(file, r)
  <2>1. /\ g \in Seq(Records) /\ Len(g) = Len(file) + 1 /\ g[Len(file) + 1] = r
        /\ \A k \in 1..Len(file) : g[k] = file[k]
        /\ Rows(g) \subseteq Rows(file) \cup {Len(file) + 1}
        /\ Len(file) + 1 \in Rows(g) => r.what \in Places
    BY <1>0, RowsOfMore
  <2>2. file' = g
    BY <1>0
  <2>. HIDE DEF g
  <2>. QED BY <2>1, <2>2
<1>2. FileTypes'
  BY <1>1, SameFormat DEF FileInv, FileTypes
<1>3. \A k \in Rows(file) : k \in 1..Len(file) /\ file'[k] = file[k] /\ file[k].what \in ids
  BY <1>1 DEF FileInv, RowsDistinct, Identities, Rows
<1>4. RowsDistinct'
  <2>1. ASSUME NEW j \in Rows(file'), NEW k \in Rows(file'), j # k
        PROVE  file'[j].what # file'[k].what
    <3>1. CASE j \in Rows(file) /\ k \in Rows(file)
      BY <1>3, <2>1, <3>1 DEF FileInv, RowsDistinct
    <3>2. CASE j = Len(file) + 1 /\ k \in Rows(file)
      BY <1>1, <1>3, <2>1, <3>2
    <3>3. CASE k = Len(file) + 1 /\ j \in Rows(file)
      BY <1>1, <1>3, <2>1, <3>3
    <3>. QED BY <1>1, <2>1, <3>1, <3>2, <3>3
  <2>2. ASSUME session' = "open", NEW k \in Rows(file')
        PROVE  file'[k].what \in ids'
    <3>1. CASE k \in Rows(file)
      BY <1>3, <2>2, <3>1
    <3>2. CASE k = Len(file) + 1
      BY <1>1, <2>2, <3>2
    <3>. QED BY <1>1, <2>2, <3>1, <3>2
  <2>3. session' = "open" => Identities(file') \subseteq ids'
    BY <2>2 DEF Identities
  <2>. QED BY <2>1, <2>3, SameFormat DEF RowsDistinct
<1>5. ValuesWhole'
  <2>1. JSONL => \A k \in 1..Len(file) : file[k].cut # "quoted"
    BY DEF FileInv, ValuesWhole, ParsesJSONL
  <2>2. JSONL => \A k \in 1..(Len(file') - 1) : file'[k].cut # "quoted"
    BY <1>0, <1>1, <2>1
  <2>3. ASSUME JSONL, session' = "open", NEW k \in 1..Len(file')
        PROVE  file'[k].cut # "quoted"
    <3>1. k \in 1..Len(file) \/ k = Len(file) + 1
      BY <1>0, <1>1
    <3>. QED BY <1>1, <2>1, <2>3, <3>1
  <2>. QED BY <2>2, <2>3, SameFormat DEF ValuesWhole, ParsesJSONL
<1>. QED BY <1>2, <1>4, <1>5 DEF FileInv

LEMMA FileStep == FileInv /\ [Next]_vars => FileInv'
<1> SUFFICES ASSUME FileInv, [Next]_vars PROVE FileInv'
  OBVIOUS
<1>0. \A w \in Places \cup {Header}, c \in Cuts \cup {"none"} :
        LET r == [what |-> w, cut |-> c] IN r \in Records /\ r.what = w /\ r.cut = c
  BY DEF Records
<1>00. ids \subseteq Places /\ headerDue \in BOOLEAN /\ Header \notin Places
  BY RecordAssumption DEF FileInv, FileTypes
<1>1. CASE Resume
  BY <1>1, ResumeStep
<1>2. CASE WriteHeader
  <2>. DEFINE r == [what |-> Header, cut |-> "none"]
  <2>1. r \in Records /\ r.what = Header /\ r.cut = "none"
    BY <1>0
  <2>2. Appends(r) /\ session = "open" /\ headerDue' = FALSE /\ UNCHANGED <<format, session, ids>>
    BY <1>2 DEF WriteHeader
  <2>. HIDE DEF r
  <2>. QED BY <1>00, <2>1, <2>2, WritesRecord
<1>3. ASSUME NEW p \in Places, WriteEntry(p)
      PROVE  FileInv'
  <2>. DEFINE r == [what |-> p, cut |-> "none"]
  <2>1. r \in Records /\ r.what = p /\ r.cut = "none"
    BY <1>0
  <2>2. /\ Appends(r) /\ session = "open" /\ p \notin ids /\ ids' = ids \cup {p}
        /\ UNCHANGED <<format, session, headerDue>>
    BY <1>3 DEF WriteEntry
  <2>. HIDE DEF r
  <2>. QED BY <1>00, <2>1, <2>2, WritesRecord
<1>4. CASE Tear
  <2>1. PICK cut \in Cuts, what \in (IF headerDue THEN {Header} ELSE Places \ ids) :
          Appends([what |-> what, cut |-> cut])
    BY <1>4 DEF Tear
  <2>. DEFINE r == [what |-> what, cut |-> cut]
  <2>2. r \in Records /\ r.what = what /\ r.cut = cut
    BY <1>0, <2>1
  <2>3. what \in Places => what \notin ids
    BY <1>00, <2>1
  <2>4. /\ Appends(r) /\ session = "open" /\ session' = "off" /\ ids' = {} /\ headerDue' = FALSE
        /\ format' = format
    BY <1>4, <2>1 DEF Tear
  <2>. HIDE DEF r
  <2>. QED BY <2>2, <2>3, <2>4, WritesRecord
<1>5. CASE Stop
  <2>1. /\ session = "open" /\ session' = "off" /\ ids' = {} /\ headerDue' = FALSE
        /\ format' = format /\ file' = file
    BY <1>5 DEF Stop
  <2>2. FileTypes'
    BY <2>1, SameFormat DEF FileInv, FileTypes
  <2>3. RowsDistinct'
    BY <2>1, SameFormat DEF FileInv, RowsDistinct
  <2>4. ValuesWhole'
    BY <2>1, SameFormat DEF FileInv, ValuesWhole
  <2>. QED BY <2>2, <2>3, <2>4 DEF FileInv
<1>6. CASE Refused \/ UNCHANGED vars
  <2>1. UNCHANGED vars
    BY <1>6 DEF Refused
  <2>. QED BY <2>1, SameFormat DEF vars, FileInv, FileTypes, RowsDistinct, ValuesWhole
<1>. QED BY <1>1, <1>2, <1>3, <1>4, <1>5, <1>6 DEF Next

\* A file in JSON lines is never refused: a crash cuts only its last value, and the
\* repair takes that away (hasIncompleteTrailingRecord, repairTrailingRecord).
THEOREM JSONLFilesOpen == Spec => []JSONLAlwaysOpens
<1>1. FileInv => JSONLAlwaysOpens
  BY DEF FileInv, ValuesWhole, JSONLAlwaysOpens, AlwaysOpens
<1>. QED BY <1>1, FileInitInv, FileStep, PTL DEF Spec

\* No place has two readable rows, in any number of crashed and resumed sessions.
THEOREM NoSecondRow == Spec => []OneRowEach
<1>1. FileInv => OneRowEach
  BY DEF FileInv, RowsDistinct, OneRowEach
<1>. QED BY <1>1, FileInitInv, FileStep, PTL DEF Spec

\* No step, a repair least of all, takes a record out of the file that was written
\* whole.
THEOREM RepairsKeepRecords == Spec => RepairKeepsRecords
<1>1. ASSUME FileInv, [Next]_vars
      PROVE  [\A k \in DOMAIN file :
                file[k].cut = "none" => k \in DOMAIN file' /\ file'[k] = file[k]]_vars
  <2>. SUFFICES ASSUME Next, NEW k \in 1..Len(file), file[k].cut = "none"
                PROVE  k \in DOMAIN file' /\ file'[k] = file[k]
    BY <1>1, LenProperties DEF FileInv, FileTypes
  <2>0. file \in Seq(Records) /\ Len(file) \in Nat
    BY <1>1, LenProperties DEF FileInv, FileTypes
  <2>1. CASE file' = file
    BY <2>0, <2>1, LenProperties
  <2>2. ASSUME NEW r \in Records, Appends(r)
        PROVE  k \in DOMAIN file' /\ file'[k] = file[k]
    <3>1. /\ file' \in Seq(Records) /\ Len(file') = Len(file) + 1
          /\ \A n \in 1..Len(file) : file'[n] = file[n]
      BY <2>0, <2>2, RowsOfMore DEF Appends
    <3>. QED BY <2>0, <3>1, LenProperties
  <2>3. CASE Resume
    <3>1. ASSUME NEW f \in Repairs(file), file' = f, file # <<>>
          PROVE  k \in DOMAIN file' /\ file'[k] = file[k]
      <4>1. k <= LastWhole(file)
        BY <2>0, LastWholeIs
      <4>2. CASE /\ f \in Seq(Records) /\ Len(f) = LastWhole(file)
                 /\ \A n \in 1..Len(f) : f[n] = file[n]
        BY <2>0, <3>1, <4>1, <4>2, LenProperties
      <4>3. CASE /\ file[Len(file)].cut = "quoted"
                 /\ f \in Seq(Records) /\ Len(f) = Len(file)
                 /\ \A n \in 1..(Len(file) - 1) : f[n] = file[n]
        <5>1. k # Len(file)
          BY <4>3
        <5>. QED BY <2>0, <3>1, <4>3, <5>1, LenProperties
      <4>. QED BY <2>0, <3>1, <4>2, <4>3, RepairsKeep
    <3>2. file' = file \/ \E f \in Repairs(file) : file' = f /\ file # <<>>
      BY <2>3 DEF Resume, Opens, Incomplete
    <3>. QED BY <2>1, <3>1, <3>2
  <2>4. CASE WriteHeader
    BY <2>2, <2>4 DEF WriteHeader, Records
  <2>5. CASE \E p \in Places : WriteEntry(p)
    BY <2>2, <2>5 DEF WriteEntry, Records
  <2>6. CASE Tear
    <3>1. PICK cut \in Cuts, what \in Places \cup {Header} : Appends([what |-> what, cut |-> cut])
      BY <2>6 DEF Tear
    <3>2. [what |-> what, cut |-> cut] \in Records
      BY <3>1 DEF Records
    <3>. QED BY <2>2, <3>1, <3>2
  <2>. QED BY <2>1, <2>3, <2>4, <2>5, <2>6 DEF Next, Stop, Refused, vars
<1>. QED BY <1>1, FileInitInv, FileStep, PTL DEF Spec, RepairKeepsRecords
-----------------------------------------------------------------------------
(* The types of what the runners keep.                                      *)

\* What WebInv leaves out; every creation time is below some second.
WebRest ==
  /\ stamp \in [WebJobs -> Nat] /\ \E n \in Nat : \A k \in WebJobs : stamp[k] <= n
  /\ ctx \in {"up", "stopping", "down"}
  /\ raced \in SUBSET WebJobs /\ hit \in SUBSET WebJobs

LatestStamp == CHOOSE n \in {stamp[k] : k \in WebJobs} : \A k \in WebJobs : stamp[k] <= n

LEMMA LatestIs ==
  ASSUME WebRest, NEW j \in WebJobs
  PROVE  LatestStamp \in Nat /\ \A k \in WebJobs : stamp[k] <= LatestStamp
<1>. DEFINE S == {stamp[k] : k \in WebJobs}
<1>1. PICK n \in Nat : \A k \in WebJobs : stamp[k] <= n
  BY DEF WebRest
<1>2. S \in SUBSET (0..n) /\ S # {}
  BY <1>1 DEF WebRest
<1>3. \E m \in S : \A k \in S : k <= m
  <2>. HIDE DEF S
  <2>. QED BY <1>2, GreatestUpTo
<1>4. \E m \in S : \A k \in WebJobs : stamp[k] <= m
  BY <1>3
<1>5. LatestStamp \in S /\ \A k \in WebJobs : stamp[k] <= LatestStamp
  BY <1>4 DEF LatestStamp
<1>. QED BY <1>2, <1>5

LEMMA WebRestStep ==
  ASSUME WebInv, WebRest, [WebNext]_webVars
  PROVE  WebRest'
<1>0. loop.job \in WebJobs \cup {NoJob} /\ (loop.at # "tick" => loop.job \in WebJobs)
  BY DEF WebInv, WebShapes, WebInHand
<1>1. ASSUME NEW j \in WebJobs, Submit(j)
      PROVE  WebRest'
  <2>1. PICK n \in {LatestStamp, LatestStamp + 1} : stamp' = [stamp EXCEPT ![j] = n]
    BY <1>1 DEF Submit, LatestStamp
  <2>2. LatestStamp \in Nat /\ \A k \in WebJobs : stamp[k] <= LatestStamp
    BY LatestIs
  <2>3. stamp \in [WebJobs -> Nat]
    BY DEF WebRest
  <2>4. n \in Nat /\ \A k \in WebJobs : stamp'[k] <= n
    BY <2>1, <2>2, <2>3
  <2>5. stamp' \in [WebJobs -> Nat]
    BY <2>1, <2>3, <2>4
  <2>. QED BY <1>1, <2>4, <2>5 DEF Submit, WebRest
<1>2. CASE Picks \/ PickFails \/ Signal \/ Exits \/ Restarts
  BY <1>0, <1>2 DEF Picks, PickFails, Signal, Exits, Restarts, WebRest
<1>3. CASE ScrapeStep
  BY <1>0, <1>3 DEF ScrapeStep, MarksWorking, CreatesFile, SetsUp, FailsJob, Seeds, ScrapeEnds, Leaves,
     MarksOk, Hits, WebRest
<1>4. ASSUME NEW d \in Deletes,
             RemovesFile(d) \/ DeletesRow(d) \/ \E j \in WebJobs : Stats(d, j)
      PROVE  WebRest'
  BY <1>4 DEF RemovesFile, DeletesRow, Stats, WebRest
<1>5. CASE UNCHANGED webVars
  BY <1>5 DEF webVars, WebRest
<1>. QED BY <1>1, <1>2, <1>3, <1>4, <1>5 DEF WebNext

LEMMA WebTypes == WebInv /\ WebRest => WebTypeOK
  BY DEF WebInv, WebShapes, WebRest, WebTypeOK, Statuses, EraseState

\* A session slot counts no leases.
NoLeases == Sessions => \A s \in Slots : slot[s].active = 0

LEMMA NoLeasesStep ==
  ASSUME PoolInv, NoLeases, [PoolNext]_poolVars
  PROVE  NoLeases'
<1>0. slot \in [Slots -> SlotState]
  BY DEF PoolInv, PoolShapes
<1>1. limit' = limit
  BY DEF PoolNext, poolVars, Takes, FetchStep, StartsFetch, TakesSlot, JobTimesOut, GivesUpWaiting,
     EndsScraping, LaunchFails, AcquiresPage, OpensPage, PutsSlot, ReleasesLease, CloseHangs, Breaks,
     EngineStops, ClosesPool
<1>. SUFFICES ASSUME Sessions, NEW t \in Slots PROVE slot'[t].active = 0
  BY <1>1 DEF NoLeases, Sessions
<1>2. \A s \in Slots : slot[s].active = 0 /\ slot[s] \in SlotState
  BY <1>0 DEF NoLeases
<1>3. ASSUME NEW s \in Slots, NEW r, r.active = 0, slot' = [slot EXCEPT ![s] = r]
      PROVE  slot'[t].active = 0
  BY <1>0, <1>2, <1>3
<1>4. ASSUME NEW w \in Fetchers, NEW s \in Slots, AcquiresPage(w, s)
      PROVE  slot'[t].active = 0
  <2>. DEFINE base == IF slot[s].browser = "none" THEN Launched ELSE slot[s]
  <2>1. PICK got \in Pages(base) : slot' = [slot EXCEPT ![s] = got.slot]
    BY <1>4 DEF AcquiresPage
  <2>2. base \in SlotState /\ base.active = 0
    BY <1>2 DEF Launched, SlotState
  <2>. HIDE DEF base
  <2>3. got.slot.active = 0
    <3>1. \A r \in SlotState : /\ [r EXCEPT !.page = "open"].active = r.active
                                /\ [r EXCEPT !.context = "up"].active = r.active
                                /\ [r EXCEPT !.context = "up"] \in SlotState
      BY DEF SlotState
    <3>2. \A q : NewPage(q).slot = [q EXCEPT !.page = "open"]
      BY DEF NewPage
    <3>3. \A x \in Relaunches(base) : x.slot.active = 0
      <4>1. \A x \in Relaunches(base) : x.slot = Launched \/ x.slot \in Closes(base)
        BY DEF Relaunches, NoPage
      <4>2. Launched.active = 0
        BY DEF Launched
      <4>. QED BY <4>1, <4>2, <2>2, ClosedType
    <3>4. \/ got = NewPage(base) \/ got = NewPage([base EXCEPT !.context = "up"])
          \/ got \in Relaunches(base)
      BY DEF Pages
    <3>5. NewPage(base).slot.active = 0
      BY <2>2, <3>1, <3>2
    <3>6. NewPage([base EXCEPT !.context = "up"]).slot.active = 0
      BY <2>2, <3>1, <3>2
    <3>. QED BY <3>3, <3>4, <3>5, <3>6
  <2>. QED BY <2>1, <2>3, <1>3
<1>5. ASSUME NEW w \in Fetchers, NEW s \in Slots, PutsSlot(w, s)
      PROVE  slot'[t].active = 0
  <2>1. slot' = slot \/ \E c \in Closes(slot[s]) : slot' = [slot EXCEPT ![s] = c]
    BY <1>5 DEF PutsSlot
  <2>. QED BY <2>1, <1>2, <1>3, ClosedType
<1>6. ASSUME NEW s \in Slots, Breaks(s)
      PROVE  slot'[t].active = 0
  <2>1. PICK b \in {"up", "down"} :
          slot' = [slot EXCEPT ![s].browser = b, ![s].context = "down", ![s].page = "none"]
    BY <1>6 DEF Breaks
  <2>2. slot'[t].active = slot[t].active
    BY <1>0, <2>1 DEF SlotState
  <2>. QED BY <2>2, <1>2
<1>7. CASE ClosesPool
  <2>1. [slot[t] EXCEPT !.browser = IF @ = "up" THEN "down" ELSE @].active = slot[t].active
    BY <1>2 DEF SlotState
  <2>2. \/ slot'[t] = [slot[t] EXCEPT !.browser = IF @ = "up" THEN "down" ELSE @]
        \/ slot'[t] = slot[t] \/ slot'[t] = SlotClosed(slot[t])
    BY <1>7 DEF ClosesPool
  <2>. QED BY <1>2, <2>1, <2>2, ClosedType
<1>8. CASE slot' = slot
  BY <1>2, <1>8
<1>9. ASSUME NEW w \in Fetchers, Takes(w) PROVE slot' = slot
  BY <1>9 DEF Takes, TakesSlot
<1>10. ASSUME NEW w \in Fetchers, \/ StartsFetch(w) \/ JobTimesOut(w) \/ GivesUpWaiting(w) \/ EndsScraping(w)
                                    \/ CloseHangs(w)
       PROVE  slot' = slot
  BY <1>10 DEF StartsFetch, JobTimesOut, GivesUpWaiting, EndsScraping, CloseHangs
<1>11. ASSUME NEW w \in Fetchers, NEW s \in Slots, LaunchFails(w, s) \/ OpensPage(w, s) PROVE slot' = slot
  BY <1>11 DEF LaunchFails, OpensPage
<1>12. ASSUME NEW w \in Fetchers, NEW s \in Slots, ReleasesLease(w, s) PROVE FALSE
  BY <1>12 DEF ReleasesLease
<1>13. EngineStops \/ UNCHANGED poolVars => slot' = slot
  BY DEF EngineStops, poolVars
<1>. QED BY <1>4, <1>5, <1>6, <1>7, <1>8, <1>9, <1>10, <1>11, <1>12, <1>13 DEF PoolNext, FetchStep

LEMMA PoolTypes == PoolInv /\ PwTyped /\ NoLeases => PoolTypeOK
<1>. SUFFICES ASSUME PoolInv, PwTyped, NoLeases PROVE PoolTypeOK
  OBVIOUS
<1>0. PoolShapes /\ limit \in Nat \ {0}
  BY LimitType DEF PoolInv
<1>1. ASSUME NEW s \in Slots PROVE free[s] \in 0..limit /\ slot[s].active \in 0..limit
  <2>1. free[s] \in Nat /\ Cardinality(Holders(s)) \in Nat
    BY <1>0, HoldersFinite DEF PoolShapes
  <2>2. /\ free[s] + Cardinality(Holders(s)) <= limit
        /\ slot[s].active = 0 \/ slot[s].active = Cardinality(Holders(s))
    BY DEF PoolInv, SlotsKept, NoLeases
  <2>. QED BY <1>0, <2>1, <2>2
<1>2. \A s \in Slots : slot[s] \in [browser : {"none", "up", "down"}, context : {"up", "down"},
                                    page : {"none", "open"}, active : 0..limit]
  BY <1>0, <1>1 DEF PoolShapes, SlotState
<1>. QED BY <1>0, <1>1, <1>2 DEF PoolShapes, FetchState, PoolTypeOK, PwTyped

\* The parts keep their invariants beside each other.
RunnersInv ==
  /\ part \in Parts
  /\ WebInv /\ WebRest /\ DbTypeOK /\ PoolInv /\ PwTyped /\ NoLeases /\ FileInv

LEMMA RunnersInitInv == RunnersInit => RunnersInv
<1>. SUFFICES ASSUME RunnersInit PROVE RunnersInv
  OBVIOUS
<1>1. WebRest
  BY DEF RunnersInit, WebInit, WebRest
<1>2. NoLeases /\ PwTyped
  BY DEF RunnersInit, PoolInit, NoLeases, PwTyped
<1>. QED BY <1>1, <1>2, WebInitInv, TypeInit, PoolInitInv, FileInitInv DEF RunnersInit, RunnersInv

\* A step of the command line is a step of one part, and the others stay.
LEMMA PartSteps ==
  ASSUME [RunnersNext]_runnersVars
  PROVE  part' = part /\ [WebNext]_webVars /\ [DbNext]_dbVars /\ [PoolNext]_poolVars /\ [Next]_vars
<1>. USE DEF RunnersNext, runnersVars
<1>1. part' = part
  OBVIOUS
<1>2. [WebNext]_webVars
  BY DEF WebPart, DatabasePart, BrowsersPart, FilePart
<1>3. [DbNext]_dbVars
  BY DEF WebPart, DatabasePart, BrowsersPart, FilePart
<1>4. [PoolNext]_poolVars
  BY DEF WebPart, DatabasePart, BrowsersPart, FilePart
<1>5. [Next]_vars
  BY DEF WebPart, DatabasePart, BrowsersPart, FilePart
<1>. QED BY <1>1, <1>2, <1>3, <1>4, <1>5

LEMMA RunnersInvStep == RunnersInv /\ [RunnersNext]_runnersVars => RunnersInv'
  BY PartSteps, WebStep, WebRestStep, TypeStep, PoolStep, DriverStep, NoLeasesStep, FileStep
     DEF RunnersInv

\* Whichever runner is chosen, every variable of it keeps its type, for any number of
\* jobs, processes, browsers and records: a slot is never in the channel, nor its pages
\* leased, more often than -pages-per-browser allows.
THEOREM RunnersTyping == RunnersSpec => []RunnersTypeOK
<1>1. RunnersInv => RunnersTypeOK
  BY WebTypes, PoolTypes DEF RunnersInv, FileInv, FileTypes, TypeOK, RunnersTypeOK
<1>. QED BY <1>1, RunnersInitInv, RunnersInvStep, PTL DEF RunnersSpec

\* Each part of the command line behaves as it does alone, so all that was proved of
\* the web runner, the database runner, the browser pool and the results file holds of
\* whichever main.go starts.
THEOREM RunnersAreParts ==
  RunnersSpec => WebSpec /\ DbSpec /\ PoolSpec /\ Spec
<1>1. RunnersInit => WebInit /\ DbInit /\ PoolInit /\ Init
  BY DEF RunnersInit
<1>2. [RunnersNext]_runnersVars
        => [WebNext]_webVars /\ [DbNext]_dbVars /\ [PoolNext]_poolVars /\ [Next]_vars
  BY PartSteps
<1>. QED BY <1>1, <1>2, PTL DEF RunnersSpec, WebSpec, DbSpec, PoolSpec, Spec

\* What the run of the command line's parts checks of their safety.
THEOREM RunnersSafe ==
  RunnersSpec =>
    /\ [](ScrapedOnce /\ OkIsWhole /\ StrayFilesExplained)
    /\ [](ClaimedOnce /\ QuietExitKeepsResults)
    /\ [](SlotsKept /\ AllBrowsersClosed)
    /\ [](JSONLAlwaysOpens /\ OneRowEach) /\ RepairKeepsRecords
  BY RunnersAreParts, NoSecondScrape, OkJobsAreWhole, NoOtherStrayFile, NoSecondClaim, NoQuietLoss,
     SlotsNeverLost, PoolClosesBrowsers, JSONLFilesOpen, NoSecondRow, RepairsKeepRecords, PTL
=============================================================================
