---------------------------- MODULE ResumeProofs ----------------------------
(***************************************************************************)
(* What the sidecar of a resumed scrape promises, for every input.         *)
(***************************************************************************)
EXTENDS Resume, FiniteSetTheorems, TLAPS

LEMMA UnitType == \A u \in Units : u[1] \in Lines /\ u[2] \in Places /\ u[2] \in Finds[u[1]]
  BY DEF Units

LEMMA UnitOf == \A l \in Lines : \A p \in Finds[l] : <<l, p>> \in Units
  BY InputAssumption DEF Units

LEMMA UnitPair == \A u \in Units : u = <<u[1], u[2]>>
  BY DEF Units

\* Sets of places are finite: their cardinality is a natural number.
LEMMA PlacesFinite == \A ps \in SUBSET Places : IsFiniteSet(ps) /\ Cardinality(ps) \in Nat
  BY InputAssumption, FS_Subset, FS_CardinalityType

LEMMA ChosenType == \A l \in Lines : \A new \in Chosen(l) : new \subseteq Finds[l] \ dedup
  BY DEF Chosen, Admitted

\* The tracker's updates of an entry leave an entry.
LEMMA ProgressStep ==
  ASSUME NEW pr \in Progress, NEW n \in Nat
  PROVE  [pr EXCEPT !.seedDone = TRUE, !.placesFound = @ + n] \in Progress
<1>1. pr.placesFound + n \in Nat
  BY DEF Progress
<1>2. \A m \in Nat : [pr EXCEPT !.seedDone = TRUE, !.placesFound = m] \in Progress
  BY DEF Progress
<1>. QED BY <1>1, <1>2

LEMMA ProgressCount ==
  ASSUME NEW pr \in Progress
  PROVE  [pr EXCEPT !.placesCompleted = @ + 1] \in Progress
  BY DEF Progress

LEMMA ProgressMark ==
  ASSUME NEW pr \in Progress
  PROVE  [pr EXCEPT !.marked = TRUE] \in Progress
  BY DEF Progress

LEMMA TypeInit == Init => TypeOK
  BY InputAssumption DEF Init, TypeOK, NewProgress, Progress

LEMMA TypeStep == TypeOK /\ [Next]_vars => TypeOK'
<1> SUFFICES ASSUME TypeOK, [Next]_vars PROVE TypeOK'
  OBVIOUS
<1>. USE UnitType, InputAssumption, NoneAssumption DEF TypeOK
<1>0. ASSUME NEW m \in {"off", "truncating", "resume", "fresh"}, NEW known \in SUBSET Places,
             NEW skips, Memory(m, known, skips),
             rows' \in [Places -> Nat], synced' \subseteq Places, relied' \subseteq Places,
             completed' \subseteq Ids
      PROVE  TypeOK'
  BY <1>0 DEF Memory, NewProgress, Progress
<1>1. CASE StartResume
  BY <1>1, <1>0 DEF StartResume, disk, InFile
<1>2. CASE RemoveState
  BY <1>2, <1>0 DEF RemoveState
<1>3. CASE TruncateResults
  BY <1>3, <1>0 DEF TruncateResults
<1>4. CASE Stop
  BY <1>4, <1>0 DEF Stop, disk
<1>5. CASE LosePower
  <2>1. rows' \in [Places -> Nat] /\ synced' \subseteq Places
    BY <1>5 DEF LosePower
  <2>. QED BY <1>5, <2>1, <1>0 DEF LosePower
<1>6. ASSUME NEW l \in Lines, SearchFails(l) PROVE TypeOK'
  BY <1>6 DEF SearchFails, disk
<1>7. ASSUME NEW l \in Lines, SearchProcessed(l) PROVE TypeOK'
  <2>0. Unsynced(Id[l]) \subseteq Places
    BY DEF Unsynced, InFile
  <2>1. ASSUME NEW i \in Ids, NEW n \in Nat, Discovered(i, n)
        PROVE  completed' \subseteq Ids /\ progress' \in [Ids -> Progress]
    <3>. DEFINE pr == [progress[i] EXCEPT !.seedDone = TRUE, !.placesFound = @ + n]
    <3>1. progress[i] \in Progress /\ progress \in [Ids -> Progress]
      OBVIOUS
    <3>2. pr \in Progress /\ [pr EXCEPT !.marked = TRUE] \in Progress
      BY <3>1, ProgressStep, ProgressMark
    <3>3. \/ progress' = [progress EXCEPT ![i] = [pr EXCEPT !.marked = TRUE]]
          \/ progress' = [progress EXCEPT ![i] = pr]
      BY <2>1 DEF Discovered
    <3>4. completed' \subseteq Ids
      BY <2>1 DEF Discovered
    <3>5. \A new \in Progress : [progress EXCEPT ![i] = new] \in [Ids -> Progress]
      BY <3>1
    <3>6. progress' \in [Ids -> Progress]
      BY <3>2, <3>3, <3>5, Zenon
    <3>. QED BY <3>4, <3>6
  <2>2. Id[l] \in Ids
    OBVIOUS
  <2>3. completed' \subseteq Ids /\ progress' \in [Ids -> Progress]
    BY <1>7, <2>1, <2>2, ChosenType, PlacesFinite DEF SearchProcessed
  <2>5. relied' \subseteq Places
    BY <1>7, <2>0 DEF SearchProcessed, Discovered
  <2>4. dedup' \subseteq Places /\ stage' \in [Units -> {"none", "pending", "sent", "written", "acked", "failed"}]
    BY <1>7, ChosenType DEF SearchProcessed
  <2>. QED BY <1>7, <2>3, <2>4, <2>5 DEF SearchProcessed
<1>8. ASSUME NEW u \in Units, UnitFails(u) \/ UnitScraped(u) PROVE TypeOK'
  BY <1>8 DEF UnitFails, UnitScraped, UnitMoves, disk
<1>9. ASSUME NEW u \in Units, WriterWrites(u) PROVE TypeOK'
  <2>1. stage' \in [Units -> {"none", "pending", "sent", "written", "acked", "failed"}]
    BY <1>9 DEF WriterWrites, UnitMoves
  <2>. DEFINE place == u[2]
  <2>2. place \in Places
    OBVIOUS
  <2>4. Written(place) \/ UNCHANGED <<rows, synced, ids>>
    BY <1>9 DEF WriterWrites
  <2>. HIDE DEF place
  <2>5. rows' \in [Places -> Nat] /\ synced' \subseteq Places /\ ids' \subseteq Places
    BY <2>2, <2>4 DEF Written
  <2>3. wunit' \in Units \cup {None}
        /\ wstep' \in {"idle", "ack", "dead"} /\ (wstep' = "ack" => wunit' # None)
    BY <1>9 DEF WriterWrites, WriterDies
  <2>. QED BY <1>9, <2>1, <2>3, <2>5 DEF WriterWrites
<1>10. CASE WriterAcknowledges
  <2>. DEFINE i == Id[wunit[1]]
  <2>1. wunit \in Units /\ i \in Ids
    BY <1>10 DEF WriterAcknowledges
  <2>2. progress' = [progress EXCEPT ![i] = [progress[i] EXCEPT !.placesCompleted = @ + 1]]
    BY <1>10 DEF WriterAcknowledges
  <2>3. progress' \in [Ids -> Progress]
    BY <2>1, <2>2, ProgressCount
  <2>. QED BY <1>10, <2>1, <2>3 DEF WriterAcknowledges, disk
<1>11. CASE WriterSyncs
  BY <1>11 DEF WriterSyncs, WriterDies, InFile
<1>12. CASE WriterMarks
  <2>. DEFINE i == Id[wunit[1]]
  <2>1. wunit \in Units /\ i \in Ids
    BY <1>12 DEF WriterMarks
  <2>2. \/ progress' = [progress EXCEPT ![i] = [progress[i] EXCEPT !.marked = TRUE]]
        \/ progress' = progress
    BY <1>12 DEF WriterMarks
  <2>3. progress' \in [Ids -> Progress]
    BY <2>1, <2>2, ProgressMark
  <2>4. completed' \subseteq Ids
    BY <1>12, <2>1 DEF WriterMarks
  <2>5. wstep' \in {"idle", "dead"} /\ wunit' = wunit
    BY <1>12 DEF WriterMarks, WriterDies
  <2>. QED BY <1>12, <2>1, <2>3, <2>4, <2>5 DEF WriterMarks
<1>13. CASE UNCHANGED vars
  BY <1>13 DEF vars, disk, memory
<1>. QED BY <1>1, <1>2, <1>3, <1>4, <1>5, <1>6, <1>7, <1>8, <1>9, <1>10, <1>11, <1>12, <1>13 DEF Next

\* Every state is of the declared type.
THEOREM Typing == Spec => []TypeOK
  BY TypeInit, TypeStep, PTL DEF Spec

-----------------------------------------------------------------------------
(* Lines with ids of their own and no limit; process and machine may fail.  *)

DistinctIds == \A l, m \in Lines : Id[l] = Id[m] => l = m

\* A line all of whose units are acknowledged may be marked: what it left to
\* other lines is in the file or is work of a line that is not completed.
LEMMA Markable ==
  ASSUME TypeOK, SessionInv, DistinctIds, NEW l \in Lines,
         FoundBy(l) \subseteq AckedBy(l), Finds[l] \subseteq FoundBy(l) \cup dedup
  PROVE  \A p \in Finds[l] :
           p \in InFile \/ \E m \in Lines : p \in Finds[m] /\ Id[m] \notin completed \cup {Id[l]}
<1> SUFFICES ASSUME NEW p \in Finds[l], p \notin InFile
             PROVE  \E m \in Lines : p \in Finds[m] /\ Id[m] \notin completed \cup {Id[l]}
  OBVIOUS
<1>1. p \notin AckedBy(l)
  BY DEF SessionInv, Persisted, AckedBy
<1>2. PICK m \in Lines : p \in FoundBy(m)
  BY <1>1 DEF SessionInv, Claimed
<1>3. p \in Finds[m]
  BY <1>2 DEF FoundBy
<1>4. p \notin AckedBy(m)
  BY DEF SessionInv, Persisted, AckedBy
<1>5. Id[m] \notin completed
  BY <1>2, <1>4 DEF SessionInv, CompletedSettled, Settled, Accounted
<1>6. m # l
  BY <1>2, <1>4
<1>. QED BY <1>3, <1>5, <1>6 DEF DistinctIds

\* Marking such a line, or only adding to what is durable, preserves the main
\* invariant.
LEMMA MarkingIsSafe ==
  ASSUME CompletedIsDurable, DistinctIds, NEW l \in Lines,
         \A p \in Finds[l] :
           p \in Durable' \/ \E m \in Lines : p \in Finds[m] /\ Id[m] \notin completed \cup {Id[l]},
         completed' = completed \cup {Id[l]}, Durable \subseteq Durable'
  PROVE  CompletedIsDurable'
<1> SUFFICES ASSUME NEW k \in Lines, Id[k] \in completed', NEW p \in Finds[k], p \notin Durable'
             PROVE  \E m \in Lines : p \in Finds[m] /\ Id[m] \notin completed'
  BY DEF CompletedIsDurable
<1>0. p \notin Durable
  OBVIOUS
<1>1. CASE k = l
  BY <1>1, <1>0
<1>2. CASE k # l
  <2>1. Id[k] \in completed
    BY <1>2 DEF DistinctIds
  <2>2. PICK m \in Lines : p \in Finds[m] /\ Id[m] \notin completed
    BY <2>1, <1>0 DEF CompletedIsDurable
  <2>3. CASE m = l
    BY <2>2, <2>3, <1>0
  <2>4. CASE m # l
    BY <2>2, <2>4 DEF DistinctIds
  <2>. QED BY <2>3, <2>4
<1>. QED BY <1>1, <1>2

LEMMA AddingIsSafe ==
  ASSUME CompletedIsDurable, completed' = completed, Durable \subseteq Durable'
  PROVE  CompletedIsDurable'
  BY DEF CompletedIsDurable

\* What is durable is in the file, unless it is not there any more.
LEMMA DurableIsWritten ==
  ASSUME CompletedIsDurable, synced \subseteq InFile
  PROVE  CompletedIsWritten
  BY DEF CompletedIsDurable, CompletedIsWritten, Durable

\* What a fresh memory satisfies.
LEMMA FreshSession ==
  ASSUME TypeOK, mode = "off", StartResume
  PROVE  SessionInv'
<1>. USE DEF StartResume, Memory, NewProgress, disk
<1>1. \A l \in Lines : FoundBy(l)' = {} /\ AckedBy(l)' = {}
  BY UnitOf DEF FoundBy, AckedBy
<1>2. InFile' = InFile
  BY DEF InFile
<1>3. Accounted'
  BY <1>1, InputAssumption, FS_EmptySet DEF Accounted
<1>4. Claimed'
  BY <1>2 DEF Claimed
<1>5. Persisted'
  BY <1>2, UnitOf DEF Persisted
<1>6. CompletedSettled'
  BY DEF CompletedSettled
<1>7. WriterConsistent'
  BY DEF WriterConsistent
<1>. QED BY <1>3, <1>4, <1>5, <1>6, <1>7 DEF SessionInv

\* The bookkeeping of a session survives a step that only changes which stage
\* short of acknowledged some units are at, or writes rows.
LEMMA StageStep ==
  ASSUME SessionInv,
         \A l \in Lines : FoundBy(l)' = FoundBy(l) /\ AckedBy(l)' = AckedBy(l),
         InFile \subseteq InFile', ids' \subseteq InFile',
         \A l \in Lines : \A p \in Finds[l] :
           stage'[<<l, p>>] = "written" => stage[<<l, p>>] = "written" \/ p \in InFile',
         UNCHANGED <<completed, dedup, line, progress>>, WriterConsistent'
  PROVE  SessionInv'
<1>1. Accounted'
  BY DEF SessionInv, Accounted
<1>2. Claimed'
  BY DEF SessionInv, Claimed
<1>3. \A l \in Lines : \A p \in Finds[l] : stage'[<<l, p>>] = "acked" => stage[<<l, p>>] = "acked"
  BY DEF AckedBy
<1>4. Persisted'
  BY <1>3 DEF SessionInv, Persisted
<1>5. CompletedSettled'
  BY DEF SessionInv, CompletedSettled, Settled
<1>. QED BY <1>1, <1>2, <1>4, <1>5 DEF SessionInv

\* A unit that moves between two stages, neither "none" nor "acked".
LEMMA MoveKeepsSets ==
  ASSUME TypeOK, NEW u \in Units, NEW from, NEW to, stage[u] = from,
         stage' = [stage EXCEPT ![u] = to],
         from \notin {"none", "acked"}, to \notin {"none", "acked"}
  PROVE  \A l \in Lines : FoundBy(l)' = FoundBy(l) /\ AckedBy(l)' = AckedBy(l)
  BY UnitOf DEF FoundBy, AckedBy, TypeOK

LEMMA UnitStep ==
  ASSUME IInv, NEW u \in Units, UnitFails(u) \/ UnitScraped(u)
  PROVE  mode = "resume" => SessionInv'
<1> SUFFICES ASSUME mode = "resume" PROVE SessionInv'
  OBVIOUS
<1>. USE DEF UnitFails, UnitScraped, UnitMoves, disk
<1>1. PICK to \in {"failed", "sent"} : stage[u] = "pending" /\ stage' = [stage EXCEPT ![u] = to]
  OBVIOUS
<1>2. TypeOK /\ SessionInv
  BY DEF IInv
<1>3. \A l \in Lines : FoundBy(l)' = FoundBy(l) /\ AckedBy(l)' = AckedBy(l)
  BY <1>1, <1>2, MoveKeepsSets
<1>4. InFile' = InFile
  BY DEF InFile
<1>5. WriterConsistent'
  BY <1>1, <1>2, <1>3, UnitType DEF SessionInv, WriterConsistent, Settled, TypeOK
<1>6. \A l \in Lines : \A p \in Finds[l] :
        stage'[<<l, p>>] = "written" => stage[<<l, p>>] = "written"
  BY <1>1, <1>2, UnitOf DEF TypeOK
<1>. QED BY <1>2, <1>3, <1>4, <1>5, <1>6, StageStep DEF SessionInv, Persisted

LEMMA WriteStep ==
  ASSUME IInv, NEW u \in Units, WriterWrites(u)
  PROVE  InFile \subseteq InFile' /\ (mode = "resume" => SessionInv')
<1>. DEFINE place == u[2]
<1>0. place \in Places /\ u[1] \in Lines /\ place \in Finds[u[1]] /\ u = <<u[1], place>>
  BY UnitType, UnitPair
<1>1. TypeOK /\ (mode = "resume" => SessionInv)
  BY DEF IInv
<1>2. Written(place) \/ UNCHANGED <<rows, ids>>
  BY DEF WriterWrites
<1>3. InFile \subseteq InFile'
  <2>. HIDE DEF place
  <2>. QED BY <1>0, <1>1, <1>2 DEF InFile, Written, TypeOK
<1>4. ASSUME mode = "resume" PROVE SessionInv'
  <2>1. PICK to \in {"written", "failed"} :
          /\ stage[u] = "sent" /\ stage' = [stage EXCEPT ![u] = to]
          /\ to = "written" => Written(place) /\ wunit' = u /\ wstep' = "ack"
          /\ to = "failed" => wstep' = "dead" /\ UNCHANGED <<rows, ids>>
    BY <1>4 DEF WriterWrites, UnitMoves, WriterDies
  <2>2. \A l \in Lines : FoundBy(l)' = FoundBy(l) /\ AckedBy(l)' = AckedBy(l)
    BY <1>1, <2>1, MoveKeepsSets
  <2>3. to = "written" => place \in InFile'
    <3>. SUFFICES ASSUME to = "written" PROVE place \in InFile'
      OBVIOUS
    <3>. HIDE DEF place
    <3>1. CASE place \in ids
      BY <1>1, <1>3, <1>4, <3>1 DEF SessionInv, Persisted
    <3>2. CASE place \notin ids
      BY <1>0, <1>1, <2>1, <3>2 DEF Written, InFile, TypeOK
    <3>. QED BY <3>1, <3>2
  <2>4. ids' \subseteq InFile'
    <3>1. ids' \subseteq ids \cup (IF to = "written" THEN {place} ELSE {})
      BY <2>1 DEF Written
    <3>. QED BY <1>1, <1>3, <1>4, <2>3, <3>1 DEF SessionInv, Persisted
  <2>5. \A l \in Lines : \A p \in Finds[l] :
          stage'[<<l, p>>] = "written" => stage[<<l, p>>] = "written" \/ p \in InFile'
    <3> SUFFICES ASSUME NEW l \in Lines, NEW p \in Finds[l], stage'[<<l, p>>] = "written",
                        stage[<<l, p>>] # "written"
                 PROVE  p \in InFile'
      OBVIOUS
    <3>1. <<l, p>> = u /\ to = "written"
      BY <1>1, <2>1, UnitOf DEF TypeOK
    <3>. QED BY <2>3, <3>1
  <2>6. WriterConsistent'
    BY <1>1, <2>1 DEF WriterConsistent, TypeOK
  <2>. QED BY <1>1, <1>3, <1>4, <2>2, <2>4, <2>5, <2>6, StageStep DEF WriterWrites
<1>. QED BY <1>3, <1>4

LEMMA AcknowledgeStep ==
  ASSUME IInv, DistinctIds, WriterAcknowledges
  PROVE  SessionInv'
<1>0. wunit \in Units /\ TypeOK /\ SessionInv /\ stage[wunit] = "written"
  BY DEF IInv, WriterAcknowledges, TypeOK, SessionInv, WriterConsistent
<1>1. PICK l \in Lines, place \in Places :
        wunit = <<l, place>> /\ place \in Finds[l] /\ Id[l] \in Ids
  BY <1>0, UnitType, UnitPair, InputAssumption
<1>. DEFINE pr == [progress[Id[l]] EXCEPT !.placesCompleted = @ + 1]
<1>2. /\ stage' = [stage EXCEPT ![<<l, place>>] = "acked"]
      /\ progress' = [progress EXCEPT ![Id[l]] = pr]
      /\ wstep' = IF InputDone(pr) THEN "sync" ELSE "idle"
      /\ UNCHANGED <<rows, completed, ids, dedup, line, wunit>>
  BY <1>1 DEF WriterAcknowledges, disk
<1>3. progress[Id[l]] \in Progress /\ progress'[Id[l]] = pr
  BY <1>0, <1>1, <1>2 DEF TypeOK
<1>4. /\ pr.placesFound = progress[Id[l]].placesFound
      /\ pr.seedDone = progress[Id[l]].seedDone
      /\ pr.placesCompleted = progress[Id[l]].placesCompleted + 1
  BY <1>3 DEF Progress
<1>. HIDE DEF pr
<1>5. \A m \in Lines : FoundBy(m)' = FoundBy(m)
  BY <1>0, <1>1, <1>2, UnitOf DEF FoundBy, TypeOK
<1>6. AckedBy(l)' = AckedBy(l) \cup {place} /\ place \notin AckedBy(l)
  BY <1>0, <1>1, <1>2, UnitOf DEF AckedBy, TypeOK
<1>7. \A m \in Lines : m # l => AckedBy(m)' = AckedBy(m)
  BY <1>0, <1>1, <1>2, UnitOf DEF AckedBy, TypeOK
<1>8. \A m \in Lines : AckedBy(m) \subseteq FoundBy(m) /\ FoundBy(m) \subseteq Places /\ AckedBy(m)' \subseteq FoundBy(m)
  <2>1. \A m \in Lines : Finds[m] \subseteq Places
    BY InputAssumption
  <2>2. \A m \in Lines : AckedBy(m) \subseteq FoundBy(m) /\ FoundBy(m) \subseteq Places
    BY <2>1 DEF AckedBy, FoundBy
  <2>3. place \in FoundBy(l)
    BY <1>0, <1>1 DEF FoundBy
  <2>. QED BY <2>2, <2>3, <1>6, <1>7
<1>9. Cardinality(AckedBy(l)') = Cardinality(AckedBy(l)) + 1
  <2>1. IsFiniteSet(AckedBy(l))
    BY <1>1, <1>8, PlacesFinite
  <2>. QED BY <1>6, <2>1, FS_AddElement
<1>10. Accounted'
  <2> SUFFICES ASSUME NEW m \in Lines
               PROVE  /\ progress'[Id[m]].placesFound = Cardinality(FoundBy(m)')
                      /\ progress'[Id[m]].placesCompleted = Cardinality(AckedBy(m)')
                      /\ line'[m] # "done" => FoundBy(m)' = {} /\ ~progress'[Id[m]].seedDone
    BY DEF Accounted
  <2>1. CASE m = l
    <3>. /\ progress[Id[l]].placesFound = Cardinality(FoundBy(l))
         /\ progress[Id[l]].placesCompleted = Cardinality(AckedBy(l))
         /\ line[l] # "done" => FoundBy(l) = {} /\ ~progress[Id[l]].seedDone
      BY <1>0 DEF SessionInv, Accounted
    <3>. QED BY <2>1, <1>2, <1>3, <1>4, <1>5, <1>9
  <2>2. CASE m # l
    <3>1. progress'[Id[m]] = progress[Id[m]]
      BY <2>2, <1>0, <1>1, <1>2, InputAssumption DEF DistinctIds, TypeOK
    <3>. QED BY <2>2, <3>1, <1>0, <1>2, <1>5, <1>7 DEF SessionInv, Accounted
  <2>. QED BY <2>1, <2>2
<1>11. InputDone(pr) => Settled(l)'
  <2> SUFFICES ASSUME InputDone(pr) PROVE Settled(l)'
    OBVIOUS
  <2>0. /\ pr.seedDone /\ pr.placesCompleted >= pr.placesFound
        /\ progress[Id[l]].placesFound = Cardinality(FoundBy(l))
        /\ progress[Id[l]].placesCompleted = Cardinality(AckedBy(l))
        /\ line[l] # "done" => ~progress[Id[l]].seedDone
    BY <1>0 DEF SessionInv, Accounted, InputDone
  <2>1. Cardinality(AckedBy(l)') >= Cardinality(FoundBy(l))
    BY <2>0, <1>4, <1>9
  <2>2. FoundBy(l) = AckedBy(l)'
    <3>1. IsFiniteSet(FoundBy(l)) /\ Cardinality(FoundBy(l)) \in Nat /\ AckedBy(l)' \subseteq FoundBy(l)
      BY <1>1, <1>8, PlacesFinite
    <3>2. Cardinality(AckedBy(l)') <= Cardinality(FoundBy(l)) /\ Cardinality(AckedBy(l)') \in Nat
      BY <3>1, FS_Subset, FS_CardinalityType
    <3>. QED BY <2>1, <3>1, <3>2, FS_Subset
  <2>3. line[l] = "done"
    BY <2>0, <1>4
  <2>4. line'[l] = "done" /\ FoundBy(l)' \subseteq AckedBy(l)'
    BY <2>2, <2>3, <1>2, <1>5
  <2>. QED BY <2>4 DEF Settled
<1>12. InFile' = InFile
  BY <1>2 DEF InFile
<1>13. Claimed'
  BY <1>0, <1>2, <1>5, <1>12 DEF SessionInv, Claimed
<1>14. Persisted'
  BY <1>0, <1>1, <1>2, <1>12, UnitOf DEF SessionInv, Persisted, TypeOK
<1>15. CompletedSettled'
  <2>1. \A m \in Lines : Settled(m) => Settled(m)'
    <3>1. \A m \in Lines : AckedBy(m) \subseteq AckedBy(m)'
      BY <1>6, <1>7
    <3>. QED BY <3>1, <1>2, <1>5 DEF Settled
  <2>. QED BY <2>1, <1>0, <1>2 DEF SessionInv, CompletedSettled
<1>16. WriterConsistent'
  <2>1. wunit' = <<l, place>> /\ wstep' \in {"sync", "idle"} /\ (wstep' = "sync" => InputDone(pr))
    BY <1>1, <1>2
  <2>2. wunit'[1] = l
    BY <2>1
  <2>. QED BY <2>1, <2>2, <1>11 DEF WriterConsistent, Settled, FoundBy, AckedBy
<1>. QED BY <1>10, <1>13, <1>14, <1>15, <1>16 DEF SessionInv

LEMMA SyncStep ==
  ASSUME IInv, WriterSyncs
  PROVE  SessionInv'
<1>. USE DEF WriterSyncs, WriterDies
<1>1. TypeOK /\ SessionInv
  BY DEF IInv
<1>2. InFile' = InFile
  BY DEF InFile
<1>3. \A l \in Lines : FoundBy(l)' = FoundBy(l) /\ AckedBy(l)' = AckedBy(l)
  BY DEF FoundBy, AckedBy
<1>4. WriterConsistent'
  <2>1. Settled(wunit[1]) /\ wstep' \in {"mark", "dead"} /\ wunit' = wunit
    BY <1>1 DEF SessionInv, WriterConsistent
  <2>2. Settled(wunit[1])'
    BY <2>1 DEF Settled, FoundBy, AckedBy
  <2>. QED BY <2>1, <2>2 DEF WriterConsistent
<1>. QED BY <1>1, <1>2, <1>3, <1>4, StageStep DEF SessionInv, Persisted

LEMMA MarkStep ==
  ASSUME IInv, DistinctIds, WriterMarks
  PROVE  SessionInv' /\ CompletedIsDurable'
<1>0. /\ wunit \in Units /\ TypeOK /\ SessionInv /\ CompletedIsDurable /\ Settled(wunit[1])
      /\ synced = InFile
  BY DEF IInv, WriterMarks, TypeOK, SessionInv, WriterConsistent
<1>1. PICK l \in Lines : wunit[1] = l /\ Id[l] \in Ids
  BY <1>0, UnitType, InputAssumption
<1>2. /\ \/ /\ completed' = completed \cup {Id[l]}
            /\ progress' = [progress EXCEPT ![Id[l]] = [progress[Id[l]] EXCEPT !.marked = TRUE]]
         \/ UNCHANGED <<completed, progress>>
      /\ wstep' \in {"idle", "dead"}
      /\ UNCHANGED <<rows, synced, relied, ids, dedup, line, stage>>
  BY <1>1 DEF WriterMarks, WriterDies
<1>3. InFile' = InFile
  BY <1>2 DEF InFile
<1>4. \A m \in Lines : FoundBy(m)' = FoundBy(m) /\ AckedBy(m)' = AckedBy(m)
  BY <1>2 DEF FoundBy, AckedBy
<1>5. Settled(l)
  BY <1>0, <1>1
<1>6. \A i \in Ids : /\ progress'[i].placesFound = progress[i].placesFound
                     /\ progress'[i].placesCompleted = progress[i].placesCompleted
                     /\ progress'[i].seedDone = progress[i].seedDone
  <2>1. progress[Id[l]] \in Progress /\ progress \in [Ids -> Progress]
    BY <1>0, <1>1 DEF TypeOK
  <2>2. ASSUME NEW pr \in Progress
        PROVE  /\ [pr EXCEPT !.marked = TRUE].placesFound = pr.placesFound
               /\ [pr EXCEPT !.marked = TRUE].placesCompleted = pr.placesCompleted
               /\ [pr EXCEPT !.marked = TRUE].seedDone = pr.seedDone
    BY DEF Progress
  <2>. QED BY <1>2, <2>1, <2>2
<1>7. Accounted'
  BY <1>0, <1>2, <1>4, <1>6, InputAssumption DEF SessionInv, Accounted
<1>8. Claimed' /\ Persisted'
  BY <1>0, <1>2, <1>3, <1>4 DEF SessionInv, Claimed, Persisted
<1>9. CompletedSettled'
  <2>1. \A m \in Lines : Settled(m) => Settled(m)'
    BY <1>2, <1>4 DEF Settled
  <2>2. ASSUME NEW m \in Lines, Id[m] \in completed' PROVE Id[m] \in completed \/ m = l
    BY <1>2, <2>2 DEF DistinctIds
  <2>. QED BY <2>1, <2>2, <1>0, <1>2, <1>5 DEF SessionInv, CompletedSettled
<1>10. WriterConsistent'
  BY <1>2 DEF WriterConsistent
<1>11. CompletedIsDurable'
  <2>0. Durable' = Durable /\ InFile \subseteq Durable
    BY <1>0, <1>2 DEF Durable
  <2>1. CASE UNCHANGED completed
    BY <2>0, <2>1, <1>0, AddingIsSafe
  <2>2. CASE completed' = completed \cup {Id[l]}
    <3>1. FoundBy(l) \subseteq AckedBy(l) /\ Finds[l] \subseteq FoundBy(l) \cup dedup
      BY <1>0, <1>5 DEF SessionInv, Claimed, Settled
    <3>2. \A p \in Finds[l] :
            p \in InFile \/ \E m \in Lines : p \in Finds[m] /\ Id[m] \notin completed \cup {Id[l]}
      BY <3>1, <1>0, Markable
    <3>. QED BY <3>2, <2>0, <2>2, <1>0, MarkingIsSafe
  <2>. QED BY <2>1, <2>2, <1>2
<1>. QED BY <1>7, <1>8, <1>9, <1>10, <1>11 DEF SessionInv

LEMMA FailStep ==
  ASSUME IInv, mode = "resume", NEW l \in Lines, SearchFails(l)
  PROVE  SessionInv'
<1>. USE DEF SearchFails, disk
<1>1. TypeOK /\ SessionInv
  BY DEF IInv
<1>2. InFile' = InFile
  BY DEF InFile
<1>3. \A m \in Lines : FoundBy(m)' = FoundBy(m) /\ AckedBy(m)' = AckedBy(m)
  BY DEF FoundBy, AckedBy
<1>4. \A m \in Lines : (line'[m] = "done" <=> line[m] = "done")
                       /\ (line'[m] = "skipped" <=> line[m] = "skipped")
  BY <1>1 DEF TypeOK
<1>5. \A m \in Lines : Settled(m) => Settled(m)'
  BY <1>3, <1>4 DEF Settled
<1>6. Accounted'
  BY <1>1, <1>3, <1>4 DEF SessionInv, Accounted
<1>7. Claimed' /\ Persisted'
  BY <1>1, <1>2, <1>3, <1>4 DEF SessionInv, Claimed, Persisted
<1>8. CompletedSettled'
  BY <1>1, <1>4, <1>5 DEF SessionInv, CompletedSettled
<1>9. WriterConsistent'
  BY <1>1, <1>5, UnitType DEF SessionInv, WriterConsistent, TypeOK
<1>. QED BY <1>6, <1>7, <1>8, <1>9 DEF SessionInv

\* A search without a limit: the places it takes up, and those it leaves.
LEMMA SearchTakes ==
  ASSUME TypeOK, MaxResults = 0, mode = "resume", NEW l \in Lines, SearchProcessed(l)
  PROVE  \E new \in SUBSET Finds[l] :
           /\ stage' = [u \in Units |-> IF u \in {l} \X new THEN "pending" ELSE stage[u]]
           /\ Finds[l] \subseteq new \cup dedup'
           /\ dedup \subseteq dedup' /\ dedup' \subseteq dedup \cup new
           /\ new = {} => Finds[l] \subseteq dedup
           /\ Discovered(Id[l], Cardinality(new))
<1>1. CASE \E new \in Chosen(l) :
             /\ dedup' = dedup \cup new
             /\ stage' = [u \in Units |-> IF u \in {l} \X new THEN "pending" ELSE stage[u]]
             /\ Discovered(Id[l], Cardinality(new))
  BY <1>1 DEF Chosen, Admitted
<1>2. CASE /\ Cardinality(Finds[l]) = 1
           /\ stage' = [u \in Units |-> IF u[1] = l THEN "pending" ELSE stage[u]]
           /\ Discovered(Id[l], 1)
           /\ dedup' = dedup
  <2>1. \A u \in Units : u[1] = l <=> u \in {l} \X Finds[l]
    BY UnitType, UnitPair
  <2>2. stage' = [u \in Units |-> IF u \in {l} \X Finds[l] THEN "pending" ELSE stage[u]]
    BY <1>2, <2>1
  <2>3. Finds[l] # {}
    BY <1>2, FS_EmptySet
  <2>. QED BY <1>2, <2>2, <2>3
<1>. QED BY <1>1, <1>2 DEF SearchProcessed

LEMMA DiscoverStep ==
  ASSUME IInv, DistinctIds, MaxResults = 0, mode = "resume", NEW l \in Lines, SearchProcessed(l)
  PROVE  SessionInv' /\ CompletedIsDurable'
<1>0. TypeOK /\ SessionInv /\ CompletedIsDurable
  BY DEF IInv
<1>1. PICK new \in SUBSET Finds[l] :
        /\ stage' = [u \in Units |-> IF u \in {l} \X new THEN "pending" ELSE stage[u]]
        /\ Finds[l] \subseteq new \cup dedup'
        /\ dedup \subseteq dedup' /\ dedup' \subseteq dedup \cup new
        /\ new = {} => Finds[l] \subseteq dedup
        /\ Discovered(Id[l], Cardinality(new))
  BY <1>0, SearchTakes
<1>2. /\ line[l] = "waiting" /\ wstep \notin {"sync", "mark"}
      /\ line' = [line EXCEPT ![l] = "done"]
      /\ UNCHANGED <<rows, synced, ids, wunit, wstep>>
  BY DEF SearchProcessed, TrackerFree
<1>3. IsFiniteSet(new) /\ Cardinality(new) \in Nat /\ new \subseteq Places
  BY PlacesFinite, InputAssumption
<1>4. /\ FoundBy(l) = {} /\ AckedBy(l) = {} /\ Id[l] \in Ids
      /\ progress[Id[l]].placesFound = 0 /\ progress[Id[l]].placesCompleted = 0
      /\ Id[l] \notin completed
  <2>1. FoundBy(l) = {}
    BY <1>0, <1>2 DEF SessionInv, Accounted
  <2>2. AckedBy(l) = {}
    BY <2>1 DEF FoundBy, AckedBy
  <2>3. Id[l] \notin completed
    BY <1>0, <1>2 DEF SessionInv, CompletedSettled, Settled
  <2>. QED BY <2>1, <2>2, <2>3, <1>0, FS_EmptySet, InputAssumption DEF SessionInv, Accounted
<1>5. FoundBy(l)' = new /\ AckedBy(l)' = {}
  <2>1. \A p \in Finds[l] : stage[<<l, p>>] = "none"
    BY <1>4 DEF FoundBy
  <2>2. \A p \in Finds[l] : stage'[<<l, p>>] = IF p \in new THEN "pending" ELSE "none"
    BY <1>1, <2>1, UnitOf
  <2>. QED BY <2>2 DEF FoundBy, AckedBy
<1>6. \A m \in Lines : m # l => /\ \A p \in Finds[m] : stage'[<<m, p>>] = stage[<<m, p>>]
                                /\ FoundBy(m)' = FoundBy(m) /\ AckedBy(m)' = AckedBy(m)
                                /\ line'[m] = line[m]
  <2>1. ASSUME NEW m \in Lines, m # l
        PROVE  \A p \in Finds[m] : stage'[<<m, p>>] = stage[<<m, p>>]
    BY <2>1, <1>1, UnitOf
  <2>. QED BY <2>1, <1>0, <1>2 DEF FoundBy, AckedBy, TypeOK
<1>7. line'[l] = "done"
  BY <1>0, <1>2 DEF TypeOK
<1>8. /\ progress'[Id[l]].placesFound = Cardinality(new) /\ progress'[Id[l]].placesCompleted = 0
      /\ \A i \in Ids : i # Id[l] => progress'[i] = progress[i]
      /\ \/ UNCHANGED <<completed, relied>>
         \/ /\ completed' = completed \cup {Id[l]} /\ new = {}
            /\ relied' = relied \cup Unsynced(Id[l])
  <2>. DEFINE pr == [progress[Id[l]] EXCEPT !.seedDone = TRUE, !.placesFound = @ + Cardinality(new)]
  <2>1. progress[Id[l]] \in Progress /\ progress \in [Ids -> Progress]
    BY <1>0, <1>4 DEF TypeOK
  <2>2. pr \in Progress
    BY <2>1, <1>3, ProgressStep
  <2>3. pr.placesFound = Cardinality(new) /\ pr.placesCompleted = 0
    BY <2>1, <1>3, <1>4 DEF Progress
  <2>4. \/ /\ InputDone(pr) /\ completed' = completed \cup {Id[l]}
           /\ relied' = relied \cup Unsynced(Id[l])
           /\ progress' = [progress EXCEPT ![Id[l]] = [pr EXCEPT !.marked = TRUE]]
        \/ UNCHANGED <<completed, relied>> /\ progress' = [progress EXCEPT ![Id[l]] = pr]
    BY <1>1 DEF Discovered
  <2>. HIDE DEF pr
  <2>5. /\ [pr EXCEPT !.marked = TRUE].placesFound = pr.placesFound
        /\ [pr EXCEPT !.marked = TRUE].placesCompleted = pr.placesCompleted
    BY <2>2 DEF Progress
  <2>6. InputDone(pr) => new = {}
    BY <2>3, <1>3, FS_EmptySet DEF InputDone
  <2>. QED BY <2>1, <2>3, <2>4, <2>5, <2>6, <1>4
<1>9. InFile' = InFile
  BY <1>2 DEF InFile
<1>10. Accounted'
  <2> SUFFICES ASSUME NEW m \in Lines
               PROVE  /\ progress'[Id[m]].placesFound = Cardinality(FoundBy(m)')
                      /\ progress'[Id[m]].placesCompleted = Cardinality(AckedBy(m)')
                      /\ line'[m] # "done" => FoundBy(m)' = {} /\ ~progress'[Id[m]].seedDone
    BY DEF Accounted
  <2>1. CASE m = l
    BY <2>1, <1>5, <1>7, <1>8, FS_EmptySet
  <2>2. CASE m # l
    <3>1. progress'[Id[m]] = progress[Id[m]]
      BY <2>2, <1>8, InputAssumption DEF DistinctIds
    <3>. QED BY <2>2, <3>1, <1>0, <1>6 DEF SessionInv, Accounted
  <2>. QED BY <2>1, <2>2
<1>11. Claimed'
  <2>1. \A m \in Lines : line'[m] = "done" => Finds[m] \subseteq FoundBy(m)' \cup dedup'
    BY <1>0, <1>1, <1>5, <1>6 DEF SessionInv, Claimed
  <2>2. \A m \in Lines : FoundBy(m) \subseteq FoundBy(m)'
    BY <1>4, <1>6
  <2>3. \A p \in dedup' : p \in InFile' \/ \E m \in Lines : p \in FoundBy(m)'
    BY <1>0, <1>1, <1>5, <1>9, <2>2 DEF SessionInv, Claimed
  <2>. QED BY <2>1, <2>3 DEF Claimed
<1>12. Persisted'
  <2>1. \A p \in Finds[l] : stage'[<<l, p>>] \notin {"written", "acked"}
    <3>1. \A p \in Finds[l] : stage[<<l, p>>] = "none"
      BY <1>4 DEF FoundBy
    <3>. QED BY <3>1, <1>1, UnitOf
  <2>2. \A m \in Lines : \A p \in Finds[m] : stage'[<<m, p>>] \in {"written", "acked"} => p \in InFile'
    BY <2>1, <1>0, <1>6, <1>9 DEF SessionInv, Persisted
  <2>. QED BY <2>2, <1>0, <1>2, <1>9 DEF SessionInv, Persisted
<1>13. CompletedSettled'
  <2> SUFFICES ASSUME NEW m \in Lines, Id[m] \in completed'
               PROVE  line'[m] = "skipped" \/ Settled(m)'
    BY DEF CompletedSettled
  <2>1. CASE m = l
    BY <2>1, <1>4, <1>5, <1>7, <1>8 DEF Settled
  <2>2. CASE m # l
    BY <2>2, <1>0, <1>6, <1>8 DEF DistinctIds, SessionInv, CompletedSettled, Settled
  <2>. QED BY <2>1, <2>2
<1>14. WriterConsistent'
  <2>1. ASSUME wstep = "ack" PROVE stage'[wunit] = "written"
    <3>1. stage[wunit] = "written" /\ wunit \in Units
      BY <2>1, <1>0 DEF SessionInv, WriterConsistent, TypeOK
    <3>2. wunit \notin {l} \X new
      BY <3>1, <1>4 DEF FoundBy
    <3>. QED BY <3>1, <3>2, <1>1
  <2>. QED BY <2>1, <1>2 DEF WriterConsistent
<1>15. CompletedIsDurable'
  <2>0. Durable \subseteq Durable'
    BY <1>2, <1>8 DEF Durable
  <2>1. CASE UNCHANGED <<completed, relied>>
    BY <2>0, <2>1, <1>0, AddingIsSafe
  <2>2. CASE /\ completed' = completed \cup {Id[l]} /\ new = {}
             /\ relied' = relied \cup Unsynced(Id[l])
    <3>1. FoundBy(l) \subseteq AckedBy(l) /\ Finds[l] \subseteq FoundBy(l) \cup dedup
      BY <2>2, <1>1, <1>4
    <3>2. \A p \in Finds[l] :
            p \in InFile \/ \E m \in Lines : p \in Finds[m] /\ Id[m] \notin completed \cup {Id[l]}
      BY <3>1, <1>0, Markable
    <3>3. \A p \in Finds[l] : p \in InFile => p \in Durable'
      BY <2>2, <1>2 DEF Durable, Unsynced
    <3>. QED BY <3>2, <3>3, <2>0, <2>2, <1>0, MarkingIsSafe
  <2>. QED BY <2>1, <2>2, <1>8
<1>. QED BY <1>10, <1>11, <1>12, <1>13, <1>14, <1>15 DEF SessionInv

LEMMA InvInit == Init => IInv
<1> SUFFICES ASSUME Init PROVE IInv
  OBVIOUS
<1>1. TypeOK
  BY TypeInit
<1>2. CompletedIsDurable
  BY DEF Init, CompletedIsDurable
<1>. QED BY <1>1, <1>2 DEF Init, IInv

\* A step that leaves the disk alone, or only adds rows, keeps what is on it.
LEMMA DiskKept ==
  ASSUME CompletedIsDurable, synced \subseteq InFile, UNCHANGED <<synced, relied, completed>>,
         InFile \subseteq InFile'
  PROVE  CompletedIsDurable' /\ synced' \subseteq InFile'
<1>1. Durable' = Durable
  BY DEF Durable
<1>. QED BY <1>1, AddingIsSafe

LEMMA InvStep ==
  ASSUME DistinctIds, MaxResults = 0, IInv, [Next]_vars
  PROVE  IInv'
<1>1. TypeOK /\ CompletedIsDurable /\ synced \subseteq InFile /\ TypeOK'
  BY TypeStep DEF IInv
<1>. DEFINE Disk == CompletedIsDurable' /\ synced' \subseteq InFile'
            Modes == /\ wstep' = "mark" => synced' = InFile'
                     /\ mode' \in {"truncating", "fresh"} => completed' = {}
                     /\ wstep' \in {"ack", "sync", "mark"} => mode' = "resume"
            Rest == Disk /\ Modes /\ (mode' = "resume" => SessionInv')
<1> SUFFICES Rest
  BY <1>1 DEF IInv
<1>0. ASSUME UNCHANGED disk PROVE Disk /\ InFile' = InFile
  <2>1. InFile' = InFile /\ UNCHANGED <<synced, relied, completed>>
    BY <1>0 DEF InFile, disk
  <2>. QED BY <2>1, <1>1, DiskKept
<1>2. CASE StartResume
  <2>1. mode' = "resume" /\ wstep' = "idle"
    BY <1>2 DEF StartResume, Memory
  <2>2. Disk /\ SessionInv'
    BY <1>0, <1>1, <1>2, FreshSession DEF StartResume
  <2>. QED BY <2>1, <2>2
<1>3. CASE RemoveState \/ TruncateResults
  <2>1. completed' = {} /\ wstep' = "idle" /\ mode' # "resume"
    BY <1>3 DEF RemoveState, TruncateResults, Memory, IInv
  <2>2. synced' \subseteq InFile'
    BY <1>1, <1>3 DEF RemoveState, TruncateResults, InFile
  <2>. QED BY <2>1, <2>2 DEF CompletedIsDurable
<1>4. CASE Stop
  <2>1. mode' = "off" /\ wstep' = "idle"
    BY <1>4 DEF Stop, Memory
  <2>2. Disk
    BY <1>0, <1>4 DEF Stop
  <2>. QED BY <2>1, <2>2
<1>5. CASE LosePower
  <2>1. mode' = "off" /\ wstep' = "idle" /\ UNCHANGED <<relied, completed>>
    BY <1>5 DEF LosePower, Memory
  <2>2. PICK lost \in SUBSET (InFile \ synced) :
          rows' = [p \in Places |-> IF p \in lost THEN 0 ELSE rows[p]]
    BY <1>5 DEF LosePower
  <2>3. synced' = InFile'
    BY <1>5 DEF LosePower, InFile
  <2>4. \A p \in synced : p \in Places /\ rows[p] > 0 /\ rows'[p] = rows[p]
    BY <1>1, <2>2 DEF InFile
  <2>5. synced \subseteq synced'
    BY <2>3, <2>4 DEF InFile
  <2>6. Durable \subseteq Durable'
    BY <2>1, <2>5 DEF Durable
  <2>. QED BY <2>1, <2>3, <2>6, <1>1, AddingIsSafe
<1>6. ASSUME NEW l \in Lines, SearchFails(l) PROVE Rest
  <2>1. UNCHANGED <<disk, mode, wstep>>
    BY <1>6 DEF SearchFails
  <2>2. Disk /\ Modes
    BY <1>0, <2>1 DEF IInv, disk
  <2>. QED BY <2>1, <2>2, <1>6, FailStep DEF IInv
<1>7. ASSUME NEW l \in Lines, SearchProcessed(l) PROVE Rest
  <2>1. UNCHANGED <<rows, synced, mode, wstep>> /\ wstep # "mark" /\ mode \in {"resume", "fresh"}
    BY <1>7 DEF SearchProcessed, Working, TrackerFree
  <2>2. CASE mode = "resume"
    <3>1. InFile' = InFile /\ synced' \subseteq InFile'
      BY <1>1, <2>1 DEF InFile
    <3>2. SessionInv' /\ CompletedIsDurable'
      BY <1>7, <2>2, DiscoverStep
    <3>. QED BY <2>1, <2>2, <3>1, <3>2
  <2>3. CASE mode = "fresh"
    <3>1. UNCHANGED disk
      BY <1>7, <2>1, <2>3 DEF SearchProcessed, disk
    <3>2. Modes
      BY <2>1, <2>3, <3>1 DEF IInv, disk
    <3>. QED BY <3>1, <3>2, <1>0, <2>1, <2>3
  <2>. QED BY <2>1, <2>2, <2>3
<1>8. ASSUME NEW u \in Units, UnitFails(u) \/ UnitScraped(u) PROVE Rest
  <2>1. UNCHANGED <<disk, mode, wstep>>
    BY <1>8 DEF UnitFails, UnitScraped
  <2>2. Disk /\ Modes
    BY <1>0, <2>1 DEF IInv, disk
  <2>. QED BY <2>1, <2>2, <1>8, UnitStep DEF IInv
<1>9. ASSUME NEW u \in Units, WriterWrites(u) PROVE Rest
  <2>1. /\ UNCHANGED <<synced, relied, completed, mode>>
        /\ wstep' # "mark" /\ (wstep' \in {"ack", "sync", "mark"} => mode = "resume")
    <3>1. UNCHANGED <<relied, completed, mode>>
      BY <1>9 DEF WriterWrites
    <3>2. UNCHANGED synced
      BY <1>9 DEF WriterWrites, Written
    <3>3. wstep' \in {"idle", "ack", "dead"} /\ (wstep' = "ack" => mode = "resume")
      BY <1>9 DEF WriterWrites, WriterDies
    <3>. QED BY <3>1, <3>2, <3>3
  <2>2. InFile \subseteq InFile' /\ (mode = "resume" => SessionInv')
    BY <1>9, WriteStep
  <2>3. Disk
    BY <2>1, <2>2, <1>1, DiskKept
  <2>. QED BY <2>1, <2>2, <2>3 DEF IInv
<1>10. CASE WriterAcknowledges
  <2>1. UNCHANGED <<disk, mode>> /\ mode = "resume" /\ wstep' # "mark"
    BY <1>10 DEF WriterAcknowledges, IInv
  <2>2. Disk
    BY <1>0, <2>1
  <2>. QED BY <2>1, <2>2, <1>10, AcknowledgeStep
<1>11. CASE WriterSyncs
  <2>1. UNCHANGED <<completed, rows, mode>> /\ mode = "resume"
    BY <1>11 DEF WriterSyncs, IInv
  <2>2. InFile' = InFile
    BY <2>1 DEF InFile
  <2>3. \/ wstep' = "mark" /\ synced' = InFile /\ relied' = relied \ InFile
        \/ wstep' = "dead" /\ UNCHANGED <<synced, relied>>
    BY <1>11 DEF WriterSyncs, WriterDies
  <2>4. Durable \subseteq Durable' /\ synced' \subseteq InFile'
    BY <1>1, <2>2, <2>3 DEF Durable
  <2>5. Disk
    BY <2>1, <2>4, <1>1, AddingIsSafe
  <2>. QED BY <2>1, <2>2, <2>3, <2>5, <1>11, SyncStep
<1>12. CASE WriterMarks
  <2>1. UNCHANGED <<rows, synced, mode>> /\ mode = "resume" /\ wstep' \in {"idle", "dead"}
    BY <1>12 DEF WriterMarks, WriterDies, IInv
  <2>2. synced' \subseteq InFile'
    BY <1>1, <2>1 DEF InFile
  <2>. QED BY <2>1, <2>2, <1>12, MarkStep
<1>13. CASE UNCHANGED vars
  <2>. USE <1>13 DEF vars, memory
  <2>1. Disk /\ InFile' = InFile
    BY <1>0
  <2>2. \A m \in Lines : FoundBy(m)' = FoundBy(m) /\ AckedBy(m)' = AckedBy(m)
    BY DEF FoundBy, AckedBy
  <2>3. WriterConsistent => WriterConsistent'
    BY DEF WriterConsistent, Settled, FoundBy, AckedBy
  <2>4. SessionInv => SessionInv'
    BY <2>1, <2>2, <2>3, StageStep DEF SessionInv, Persisted, disk
  <2>5. Modes
    BY <2>1 DEF IInv, disk
  <2>. QED BY <2>1, <2>4, <2>5 DEF IInv
<1>. QED
  BY <1>2, <1>3, <1>4, <1>5, <1>6, <1>7, <1>8, <1>9, <1>10, <1>11, <1>12, <1>13 DEF Next

\* The sidecar is right: if the ids of the input's lines are distinct and there
\* is no limit per query, then wherever the process was killed or the machine
\* failed, a query in the sidecar has lost no place it found, but for rows that
\* were not synced when SeedDiscovered marked it.
THEOREM SidecarIsRight ==
  ASSUME DistinctIds, MaxResults = 0
  PROVE  Spec => []CompletedIsWritten
<1>1. IInv /\ [Next]_vars => IInv'
  BY InvStep
<1>2. IInv => CompletedIsWritten
  BY DurableIsWritten DEF IInv
<1>. QED BY <1>1, <1>2, InvInit, PTL DEF Spec

-----------------------------------------------------------------------------
(* No duplicates, for every input, limit and kind of crash.                 *)

\* The writer of a session with -resume knows exactly the file's places.
KnowsFile == mode = "resume" => ids = InFile

LEMMA KnowsInit == Init => KnowsFile
  BY DEF Init, KnowsFile

LEMMA WrittenStep ==
  ASSUME TypeOK, KnowsFile, mode = "resume", mode' = "resume", NEW p \in Places, Written(p)
  PROVE  ids' = InFile' /\ \A q \in Places : rows'[q] > rows[q] => rows[q] = 0
<1>1. ids = InFile /\ rows \in [Places -> Nat]
  BY DEF KnowsFile, TypeOK
<1>2. CASE p \in ids
  BY <1>1, <1>2 DEF Written, InFile
<1>3. CASE p \notin ids
  <2>1. rows[p] = 0
    BY <1>1, <1>3 DEF InFile
  <2>2. rows' = [rows EXCEPT ![p] = 1] /\ ids' = ids \cup {p}
    BY <1>3, <2>1 DEF Written
  <2>. QED BY <1>1, <2>1, <2>2 DEF InFile
<1>. QED BY <1>2, <1>3

LEMMA KnowsStep ==
  ASSUME TypeOK, KnowsFile, [Next]_vars
  PROVE  /\ KnowsFile'
         /\ mode = "resume" /\ mode' = "resume" =>
              \A p \in Places : rows'[p] > rows[p] => rows[p] = 0
<1>. DEFINE Keeps == mode = "resume" => UNCHANGED <<rows, ids>>
<1>0. rows \in [Places -> Nat]
  BY DEF TypeOK
<1>1. CASE StartResume
  BY <1>0, <1>1 DEF StartResume, Memory, disk, KnowsFile, InFile
<1>2. CASE RemoveState \/ TruncateResults \/ Stop \/ LosePower
  BY <1>2 DEF RemoveState, TruncateResults, Stop, LosePower, Memory, KnowsFile
<1>3. ASSUME NEW u \in Units, WriterWrites(u)
      PROVE  UNCHANGED mode /\ (Written(u[2]) \/ UNCHANGED <<rows, ids>>)
  BY <1>3 DEF WriterWrites
<1>4. CASE \/ \E l \in Lines : SearchFails(l) \/ SearchProcessed(l)
           \/ \E u \in Units : UnitFails(u) \/ UnitScraped(u)
           \/ WriterAcknowledges \/ WriterSyncs \/ WriterMarks \/ UNCHANGED vars
  <2>1. UNCHANGED <<rows, ids, mode>>
    BY <1>4 DEF SearchFails, SearchProcessed, UnitFails, UnitScraped, WriterAcknowledges,
       WriterSyncs, WriterMarks, vars, disk, memory
  <2>. QED BY <2>1, <1>0 DEF KnowsFile, InFile
<1>5. ASSUME NEW u \in Units, WriterWrites(u), mode = "resume", Written(u[2])
      PROVE  KnowsFile' /\ \A p \in Places : rows'[p] > rows[p] => rows[p] = 0
  <2>1. u[2] \in Places /\ mode' = "resume"
    BY <1>3, <1>5, UnitType
  <2>. DEFINE place == u[2]
  <2>2. Written(place) /\ place \in Places
    BY <1>5, <2>1
  <2>. HIDE DEF place
  <2>. QED BY <2>1, <2>2, <1>5, WrittenStep DEF KnowsFile
<1>6. ASSUME NEW u \in Units, WriterWrites(u), UNCHANGED <<rows, ids>>
      PROVE  KnowsFile' /\ \A p \in Places : rows'[p] > rows[p] => rows[p] = 0
  BY <1>0, <1>3, <1>6 DEF KnowsFile, InFile
<1>7. ASSUME NEW u \in Units, WriterWrites(u), mode # "resume"
      PROVE  KnowsFile' /\ mode' # "resume"
  BY <1>3, <1>7 DEF KnowsFile
<1>. QED BY <1>1, <1>2, <1>3, <1>4, <1>5, <1>6, <1>7 DEF Next

\* Whatever the ids, the limit and the crashes, a session with -resume appends
\* no place that the results file has.
THEOREM NoDuplicateRows == Spec => ResumeNeverDuplicates
<1>1. TypeOK /\ KnowsFile /\ [Next]_vars => KnowsFile'
  BY KnowsStep
<1>2. TypeOK /\ KnowsFile /\ [Next]_vars =>
        [mode = "resume" /\ mode' = "resume" =>
           \A p \in Places : rows'[p] > rows[p] => rows[p] = 0]_vars
  BY KnowsStep
<1>. QED BY <1>1, <1>2, KnowsInit, Typing, PTL DEF Spec, ResumeNeverDuplicates
=============================================================================
