--------------------------- MODULE JobStoreProofs ---------------------------
(***************************************************************************)
(* The requests for scrape jobs, for any number of jobs, pages, attempts   *)
(* and filters.                                                            *)
(***************************************************************************)
EXTENDS JobStore, FiniteSetTheorems, WellFoundedInduction, TLAPS

RequestState ==
  [at : RequestStates, todo : SUBSET JobIds, filter : FilterChoices, cursor : Nat,
   more : BOOLEAN, pages : Nat]

RemovalState == [at : RemovalStates, tries : Nat]

ReaderState ==
  [at : {"idle", "got", "answered"}, id : JobIds \cup {0},
   status : {"", "pending", "running", "completed", "failed"},
   results : {"", "sent", "none", "unread"}]

Types ==
  /\ job \in [JobIds -> JobStates] /\ runs \in [JobIds -> Nat]
  /\ cancelled \subseteq JobIds /\ saved \subseteq JobIds /\ old \subseteq JobIds
  /\ listed \subseteq JobIds /\ late \subseteq JobIds
  /\ attempt \in [JobIds -> {"none", "working", "flushed"}]
  /\ request \in [Requests -> RequestState]
  /\ removal \in [Requests \X JobIds -> RemovalState]
  /\ reader \in ReaderState

Asked(j) == \E q \in Requests : removal[q, j].at # "none"

\* A request that is not at a job has none to do, and one that is, has.
TodoFits ==
  \A q \in Requests :
    /\ request[q].at \in {"idle", "listing", "ok"} => request[q].todo = {}
    /\ request[q].at \in {"cancel", "insert"} => request[q].todo # {}

\* A request queues the removal of a job once: the ticked jobs are a set, and
\* the pages of a delete-all lie one behind the other.
QueuedOnce ==
  /\ \A q \in Requests : \A j \in request[q].todo : removal[q, j].at = "none"
  /\ request["some"].at = "idle" => \A j \in JobIds : removal["some", j].at = "none"
  /\ request["all"].at = "idle" => request["all"].cursor = 0
  /\ \A j \in JobIds :
       j \in request["all"].todo \/ removal["all", j].at # "none" => j <= request["all"].cursor

\* A removed row has a removal that ended, or is River's work; and between the
\* two statements of a removal the results come back only late.
RemovedExplained ==
  \A j \in JobIds :
    /\ job[j] = "removed" => j \in late \/ \E q \in Requests : removal[q, j].at = "done"
    /\ job[j] = "removed" \/ (\E q \in Requests : removal[q, j].at = "row") =>
         j \notin saved \/ j \in late

SaysCompleted(j) == reader.at # "idle" /\ reader.id = j /\ reader.status = "completed"

\* A job that completed, is about to, or was read as completed, has results; or its
\* removal was asked for; or it is old.
ResultsExplained ==
  /\ \A j \in JobIds :
       attempt[j] = "flushed" \/ job[j] = "completed" \/ SaysCompleted(j) =>
         j \in saved \/ Asked(j) \/ j \in old
  /\ reader.at # "idle" => reader.id \in JobIds
  /\ CompletedAnswerHasResults

\* The delete-all has dealt with every job up to its cursor that matched all along
\* but those of the page it is at; without a further page there is none behind.
PagesReach ==
  LET q == request["all"] IN
    \A j \in listed :
      /\ Matches(j, q.filter)
      /\ q.at # "idle" /\ j <= q.cursor /\ j \notin q.todo => removal["all", j].at # "none"
      /\ q.at \in {"next", "cancel", "insert"} /\ ~q.more => j <= q.cursor
      /\ q.at = "ok" => j <= q.cursor

StoreInv ==
  Types /\ TodoFits /\ QueuedOnce /\ RemovedExplained /\ ResultsExplained /\ PagesReach

-----------------------------------------------------------------------------
(* Least and greatest ids, and the pages of the list                       *)

LEMMA IdsAreFinite ==
  /\ JobIds \subseteq Nat
  /\ \A S \in SUBSET JobIds : IsFiniteSet(S) /\ Cardinality(S) \in Nat
<1>1. MaxJobId \in Nat
  BY JobStoreAssumption
<1>2. IsFiniteSet(JobIds) /\ JobIds \subseteq Nat
  BY <1>1, FS_Interval DEF JobIds
<1>3. ASSUME NEW S \in SUBSET JobIds
      PROVE  IsFiniteSet(S) /\ Cardinality(S) \in Nat
  BY <1>2, FS_Subset, FS_CardinalityType
<1>. QED BY <1>2, <1>3

\* The sets of what is not above one element are finite, and strict inclusion of
\* finite sets is well-founded.
LEMMA LeastIn ==
  ASSUME NEW S \in SUBSET JobIds, S # {}
  PROVE  LeastOf(S) \in S /\ \A k \in S : LeastOf(S) <= k
<1>. DEFINE downTo(j) == {k \in S : k <= j}
            T == {downTo(j) : j \in S}
<1>1. S \subseteq Nat /\ \A j : downTo(j) \subseteq JobIds
  BY IdsAreFinite
<1>2. T \subseteq FiniteSubsetsOf(JobIds) /\ T # {}
  BY <1>1, IdsAreFinite DEF FiniteSubsetsOf
<1>3. \E x \in T : \A y \in T : ~ (<<y, x>> \in StrictSubsetOrdering(JobIds))
  <2>. HIDE DEF T
  <2>. QED BY <1>2, FS_StrictSubsetOrderingWellFounded, WFMin
<1>4. PICK j \in S : \A k \in S : ~ (<<downTo(k), downTo(j)>> \in StrictSubsetOrdering(JobIds))
  BY <1>3
<1>5. \A k \in S : ~ (downTo(k) \subseteq downTo(j) /\ downTo(k) # downTo(j))
  BY <1>1, <1>4 DEF StrictSubsetOrdering
<1>6. ASSUME NEW k \in S, k < j PROVE FALSE
  <2>1. \A i \in Nat : i <= k => i <= j
    BY <1>1, <1>6
  <2>0. downTo(k) \subseteq downTo(j)
    BY <1>1, <2>1
  <2>2. j \in downTo(j) /\ j \notin downTo(k)
    BY <1>1, <1>6
  <2>. QED BY <1>5, <2>0, <2>2
<1>7. \A k \in S : j <= k
  BY <1>1, <1>6
<1>. QED BY <1>7 DEF LeastOf

LEMMA GreatestIn ==
  ASSUME NEW S \in SUBSET JobIds, S # {}
  PROVE  \E m \in S : \A k \in S : k <= m
<1>. DEFINE flip(k) == MaxJobId + 1 - k
            T == {flip(k) : k \in S}
<1>1. MaxJobId \in Nat
  BY JobStoreAssumption
<1>2. T \in SUBSET JobIds /\ T # {}
  <2>1. \A k \in JobIds : flip(k) \in JobIds
    BY <1>1 DEF JobIds
  <2>. QED BY <2>1
<1>3. LeastOf(T) \in T /\ \A x \in T : LeastOf(T) <= x
  BY <1>2, LeastIn
<1>4. PICK m \in S : LeastOf(T) = flip(m)
  BY <1>3
<1>5. \A k \in S : flip(m) <= flip(k)
  BY <1>3, <1>4
<1>. QED BY <1>1, <1>5 DEF JobIds

\* A page has the next jobs of the filter behind the cursor, without a gap; when
\* it is not full it has all of them.
LEMMA PageIsNext ==
  ASSUME NEW cursor \in Nat, NEW filter \in FilterChoices,
         NEW page, page = PageAfter(cursor, filter)
  PROVE  /\ page \subseteq JobIds
         /\ \A j \in page : j > cursor
         /\ page # {} => LET m == CHOOSE j \in page : \A k \in page : k <= j IN
                           /\ m \in page /\ \A k \in page : k <= m
                           /\ \A j \in JobIds : j > cursor /\ Matches(j, filter) /\ j <= m
                                                  => j \in page
         /\ ~HasMore(page) =>
              \A j \in JobIds : j > cursor /\ Matches(j, filter) => j \in page
<1>. DEFINE rest == {j \in JobIds : j > cursor /\ Matches(j, filter)}
            upTo(j) == {k \in rest : k <= j}
<1>0. PageSize \in Nat \ {0}
  BY JobStoreAssumption
<1>1. page = {j \in rest : Cardinality(upTo(j)) <= PageSize}
  BY DEF PageAfter
<1>2. rest \subseteq JobIds /\ rest \subseteq Nat /\ \A j : upTo(j) \subseteq JobIds
  BY IdsAreFinite
<1>3. \A j \in rest, m \in page : j <= m => j \in page
  <2>. SUFFICES ASSUME NEW j \in rest, NEW m \in page, j <= m
                PROVE  j \in page
    OBVIOUS
  <2>0. \A k \in Nat : k <= j => k <= m
    BY <1>1, <1>2
  <2>1. upTo(j) \subseteq upTo(m)
    BY <1>2, <2>0
  <2>2. Cardinality(upTo(j)) <= Cardinality(upTo(m))
    BY <1>2, <2>1, IdsAreFinite, FS_Subset
  <2>3. Cardinality(upTo(m)) <= PageSize
    BY <1>1
  <2>. QED BY <1>0, <1>1, <1>2, <2>2, <2>3, IdsAreFinite
<1>4. ASSUME page # {}
      PROVE  LET m == CHOOSE j \in page : \A k \in page : k <= j IN
               m \in page /\ \A k \in page : k <= m
  BY <1>1, <1>2, <1>4, GreatestIn
<1>5. Cardinality(page) <= PageSize
  <2>1. CASE page = {}
    BY <1>0, <2>1, FS_EmptySet
  <2>2. CASE page # {}
    <3>1. PICK m \in page : \A k \in page : k <= m
      BY <1>4, <2>2
    <3>2. page \subseteq upTo(m) /\ upTo(m) \subseteq JobIds
      BY <1>1, <3>1
    <3>3. Cardinality(page) <= Cardinality(upTo(m))
      BY <3>2, IdsAreFinite, FS_Subset
    <3>4. Cardinality(upTo(m)) <= PageSize
      BY <1>1
    <3>5. Cardinality(page) \in Nat /\ Cardinality(upTo(m)) \in Nat
      BY <1>2, <3>2, IdsAreFinite
    <3>. QED BY <1>0, <3>3, <3>4, <3>5
  <2>. QED BY <2>1, <2>2
<1>6. ASSUME ~HasMore(page) PROVE rest \subseteq page
  <2>. SUFFICES ASSUME rest \ page # {} PROVE FALSE
    OBVIOUS
  <2>. DEFINE j == LeastOf(rest \ page)
  <2>1. rest \ page \in SUBSET JobIds
    OBVIOUS
  <2>2. j \in rest \ page /\ \A k \in rest \ page : j <= k
    BY <2>1, LeastIn
  <2>. HIDE DEF j
  <2>3. upTo(j) \subseteq page \cup {j}
    <3>1. \A k \in rest : k <= j /\ k # j => k \notin rest \ page
      BY <1>2, <2>2
    <3>. QED BY <3>1
  <2>4. Cardinality(page \cup {j}) = Cardinality(page) + 1 /\ IsFiniteSet(page \cup {j})
    BY <1>1, <2>2, IdsAreFinite, FS_AddElement
  <2>5. Cardinality(upTo(j)) <= Cardinality(page) + 1
    BY <2>3, <2>4, FS_Subset
  <2>6. Cardinality(page) \in Nat /\ Cardinality(upTo(j)) \in Nat
    BY <1>1, <1>2, IdsAreFinite
  <2>7. Cardinality(page) < PageSize
    BY <1>0, <1>5, <1>6, <2>6 DEF HasMore
  <2>8. j \in page
    BY <1>0, <1>1, <2>2, <2>5, <2>6, <2>7
  <2>. QED BY <2>2, <2>8
<1>. QED BY <1>1, <1>3, <1>4, <1>6

-----------------------------------------------------------------------------
(* Types                                                                   *)

LEMMA TypesAre == StoreTypeOK <=> Types
  BY DEF StoreTypeOK, Types, RequestState, RemovalState, ReaderState

LEMMA StoreInitInv == StoreInit => StoreInv
<1> SUFFICES ASSUME StoreInit PROVE StoreInv
  OBVIOUS
<1>1. Types
  <2>1. (CHOOSE f \in FilterChoices : TRUE) \in FilterChoices
    BY JobStoreAssumption
  <2>2. request \in [Requests -> RequestState]
    BY <2>1 DEF StoreInit, RequestState, RequestStates
  <2>3. removal \in [Requests \X JobIds -> RemovalState]
    BY DEF StoreInit, RemovalState, RemovalStates
  <2>4. reader \in ReaderState
    BY DEF StoreInit, ReaderState
  <2>. QED BY <2>2, <2>3, <2>4 DEF StoreInit, Types, JobStates
<1>2. TodoFits /\ QueuedOnce
  BY DEF StoreInit, TodoFits, QueuedOnce, Requests
<1>3. RemovedExplained /\ ResultsExplained /\ PagesReach
  BY DEF StoreInit, RemovedExplained, ResultsExplained, SaysCompleted,
         CompletedAnswerHasResults, PagesReach, Requests
<1>. QED BY <1>1, <1>2, <1>3 DEF StoreInv

LEMMA JobTyping ==
  ASSUME Types, NEW j \in JobIds,
         \/ InsertJob(j) \/ Works(j) \/ SavesResults(j) \/ AttemptEnds(j)
         \/ RiverCleans(j) \/ MonthPasses(j) \/ ReadsJob(j),
         listed' \in SUBSET JobIds
  PROVE  Types'
<1>. USE DEF Types, JobGoes
<1>1. CASE InsertJob(j) \/ Works(j)
  BY <1>1 DEF InsertJob, Works, JobStates, Live
<1>2. CASE SavesResults(j) \/ MonthPasses(j) \/ RiverCleans(j)
  BY <1>2 DEF SavesResults, MonthPasses, RiverCleans, JobStates
<1>3. CASE AttemptEnds(j)
  BY <1>3 DEF AttemptEnds, JobStates, Live
<1>4. CASE ReadsJob(j)
  <2>1. StatusOf(job[j]) \in {"pending", "running", "completed", "failed"}
    BY DEF StatusOf
  <2>2. reader' \in ReaderState
    BY <1>4, <2>1 DEF ReadsJob, ReaderState
  <2>. QED BY <1>4, <2>2 DEF ReadsJob
<1>. QED BY <1>1, <1>2, <1>3, <1>4

\* How a request's record may change.
LEMMA RequestChanges ==
  ASSUME Types, NEW q \in Requests, NEW at \in RequestStates
  PROVE  /\ [request EXCEPT ![q].at = at] \in [Requests -> RequestState]
         /\ \A S \in SUBSET JobIds :
              [request EXCEPT ![q].at = at, ![q].todo = S] \in [Requests -> RequestState]
         /\ \A f \in FilterChoices :
              [request EXCEPT ![q].at = at, ![q].filter = f] \in [Requests -> RequestState]
<1>1. request \in [Requests -> RequestState] /\ request[q] \in RequestState
  BY DEF Types
<1>2. [request[q] EXCEPT !.at = at] \in RequestState
  BY <1>1 DEF RequestState
<1>3. [request EXCEPT ![q].at = at] \in [Requests -> RequestState]
  BY <1>1, <1>2
<1>4. ASSUME NEW S \in SUBSET JobIds
      PROVE  [request EXCEPT ![q].at = at, ![q].todo = S] \in [Requests -> RequestState]
  <2>1. [[request[q] EXCEPT !.at = at] EXCEPT !.todo = S] \in RequestState
    BY <1>2 DEF RequestState
  <2>. QED BY <1>1, <2>1
<1>5. ASSUME NEW f \in FilterChoices
      PROVE  [request EXCEPT ![q].at = at, ![q].filter = f] \in [Requests -> RequestState]
  <2>1. [[request[q] EXCEPT !.at = at] EXCEPT !.filter = f] \in RequestState
    BY <1>2 DEF RequestState
  <2>. QED BY <1>1, <2>1
<1>. QED BY <1>3, <1>4, <1>5

LEMMA RemovalChanges ==
  ASSUME Types, NEW x \in Requests \X JobIds, NEW at \in RemovalStates
  PROVE  /\ [removal EXCEPT ![x].at = at] \in [Requests \X JobIds -> RemovalState]
         /\ [removal EXCEPT ![x] = [at |-> at, tries |-> removal[x].tries + 1]]
              \in [Requests \X JobIds -> RemovalState]
<1>1. removal \in [Requests \X JobIds -> RemovalState] /\ removal[x] \in RemovalState
  BY DEF Types
<1>2. /\ [removal[x] EXCEPT !.at = at] \in RemovalState
      /\ [at |-> at, tries |-> removal[x].tries + 1] \in RemovalState
  BY <1>1 DEF RemovalState
<1>. QED BY <1>1, <1>2

LEMMA RequestTyping ==
  ASSUME Types, TodoFits, listed' \in SUBSET JobIds,
         \/ SubmitsDelete \/ SubmitsDeleteAll \/ ListsPage
         \/ \E q \in Requests : PageDone(q) \/ GetsJob(q) \/ CancelsJob(q) \/ InsertsRemoval(q)
  PROVE  Types'
<1>. USE DEF Types, RequestGoes
<1>0. {"idle", "listing", "next", "got", "cancel", "insert", "ok", "failed"} = RequestStates
      /\ "all" \in Requests /\ "some" \in Requests
  BY DEF RequestStates, Requests
<1>1. CASE SubmitsDelete
  <2>1. PICK S \in SUBSET JobIds :
          request' = [request EXCEPT !["some"].at = "next", !["some"].todo = S]
    BY <1>1 DEF SubmitsDelete
  <2>2. request' \in [Requests -> RequestState]
    BY <1>0, <2>1, RequestChanges
  <2>. QED BY <1>1, <2>2 DEF SubmitsDelete
<1>6. CASE SubmitsDeleteAll
  <2>1. PICK f \in FilterChoices :
          request' = [request EXCEPT !["all"].at = "listing", !["all"].filter = f]
    BY <1>6 DEF SubmitsDeleteAll
  <2>2. request' \in [Requests -> RequestState]
    BY <1>0, <2>1, RequestChanges
  <2>. QED BY <1>6, <2>2 DEF SubmitsDeleteAll
<1>2. CASE ListsPage
  <2>. DEFINE q == request["all"]
              page == PageAfter(q.cursor, q.filter)
  <2>1. q \in RequestState /\ q.cursor \in Nat /\ q.filter \in FilterChoices /\ q.pages \in Nat
    BY <1>0 DEF RequestState
  <2>. DEFINE last == CHOOSE j \in page : \A k \in page : k <= j
  <2>2. page \subseteq JobIds /\ (page # {} => last \in page)
    <3>1. /\ page \subseteq JobIds
          /\ page # {} => LET m == CHOOSE j \in page : \A k \in page : k <= j IN
                           m \in page /\ \A k \in page : k <= m
      BY <2>1, PageIsNext
    <3>. QED BY <3>1
  <2>5. page # {} => last \in Nat
    BY <2>2, IdsAreFinite
  <2>3. HasMore(page) \in BOOLEAN
    BY DEF HasMore
  <2>4. request' \in [Requests -> RequestState]
    <3>1. \/ request' = [request EXCEPT !["all"].at = "failed"]
          \/ request' = [request EXCEPT !["all"] =
                   IF page = {} THEN [q EXCEPT !.at = "ok"]
                   ELSE [q EXCEPT !.at = "next", !.todo = page, !.more = HasMore(page),
                                  !.pages = @ + 1, !.cursor = last]]
      BY <1>2 DEF ListsPage
    <3>. HIDE DEF page, last
    <3>2. [q EXCEPT !.at = "ok"] \in RequestState
      BY <1>0, <2>1 DEF RequestState
    <3>3. page # {} => [q EXCEPT !.at = "next", !.todo = page, !.more = HasMore(page),
                                  !.pages = @ + 1, !.cursor = last] \in RequestState
      <4>1. [q EXCEPT !.at = "next", !.todo = page, !.more = HasMore(page)] \in RequestState
        BY <1>0, <2>1, <2>2, <2>3 DEF RequestState
      <4>2. q.pages + 1 \in Nat
        BY <2>1
      <4>. QED BY <2>5, <4>1, <4>2 DEF RequestState
    <3>4. [request EXCEPT !["all"].at = "failed"] \in [Requests -> RequestState]
      BY <1>0, RequestChanges
    <3>. QED BY <1>0, <3>1, <3>2, <3>3, <3>4
  <2>. QED BY <1>2, <2>4 DEF ListsPage
<1>3. ASSUME NEW q \in Requests, PageDone(q) \/ GetsJob(q) PROVE Types'
  <2>1. PICK at \in RequestStates : RequestGoes(q, at)
    BY <1>0, <1>3 DEF PageDone, GetsJob
  <2>2. request' \in [Requests -> RequestState]
    BY <2>1, RequestChanges
  <2>. QED BY <1>3, <2>2 DEF PageDone, GetsJob
<1>4. ASSUME NEW q \in Requests, CancelsJob(q) PROVE Types'
  <2>. DEFINE j == LeastOf(request[q].todo)
  <2>1. request[q].todo \subseteq JobIds /\ request[q].todo # {}
    BY <1>4 DEF RequestState, TodoFits, CancelsJob
  <2>2. j \in JobIds
    BY <2>1, LeastIn
  <2>3. cancelled' = cancelled \cup {j} \/ cancelled' = cancelled
    BY <1>4 DEF CancelsJob
  <2>4. cancelled' \subseteq JobIds
    BY <2>2, <2>3
  <2>6. job' \in [JobIds -> JobStates]
    BY <1>4 DEF CancelsJob, JobGoes, JobStates
  <2>5. request' \in [Requests -> RequestState]
    BY <1>0, <1>4, RequestChanges DEF CancelsJob
  <2>. QED BY <1>4, <2>4, <2>5, <2>6 DEF CancelsJob
<1>5. ASSUME NEW q \in Requests, InsertsRemoval(q) PROVE Types'
  <2>. DEFINE j == LeastOf(request[q].todo)
              rest == request[q].todo \ {j}
  <2>1. request[q].todo \subseteq JobIds /\ request[q].todo # {}
    BY <1>5 DEF RequestState, TodoFits, InsertsRemoval
  <2>2. j \in JobIds /\ rest \in SUBSET JobIds
    BY <2>1, LeastIn
  <2>3. \/ /\ removal' = [removal EXCEPT ![<<q, j>>].at = "queued"]
           /\ request' = [request EXCEPT ![q].at = "next", ![q].todo = rest]
        \/ request' = [request EXCEPT ![q].at = "failed"] /\ removal' = removal
    BY <1>5 DEF InsertsRemoval
  <2>. HIDE DEF j, rest
  <2>7. /\ [request EXCEPT ![q].at = "next", ![q].todo = rest] \in [Requests -> RequestState]
        /\ [request EXCEPT ![q].at = "failed"] \in [Requests -> RequestState]
    BY <1>0, <2>2, RequestChanges
  <2>4. request' \in [Requests -> RequestState]
    BY <2>3, <2>7
  <2>5. <<q, j>> \in Requests \X JobIds /\ "queued" \in RemovalStates
    BY <2>2 DEF RemovalStates
  <2>8. [removal EXCEPT ![<<q, j>>].at = "queued"] \in [Requests \X JobIds -> RemovalState]
    BY <2>5, RemovalChanges
  <2>6. removal' \in [Requests \X JobIds -> RemovalState]
    BY <2>3, <2>8
  <2>. QED BY <1>5, <2>4, <2>6 DEF InsertsRemoval
<1>. QED BY <1>1, <1>2, <1>3, <1>4, <1>5, <1>6

LEMMA RemovalTyping ==
  ASSUME Types, listed' \in SUBSET JobIds,
         \/ Cleanup \/ ReadsResults
         \/ \E x \in Requests \X JobIds :
               RemovalStarts(x) \/ RemoveResults(x) \/ RemoveRow(x) \/ RemovalFails(x)
  PROVE  Types'
<1>. USE DEF Types
<1>1. CASE Cleanup
  BY <1>1 DEF Cleanup
<1>2. CASE ReadsResults
  <2>1. PICK found \in {"", "sent", "none", "unread"} :
          reader' = [reader EXCEPT !.at = "answered", !.results = found]
    BY <1>2 DEF ReadsResults
  <2>2. reader' \in ReaderState
    BY <2>1 DEF ReaderState
  <2>. QED BY <1>2, <2>2 DEF ReadsResults
<1>3. ASSUME NEW x \in Requests \X JobIds,
             RemovalStarts(x) \/ RemoveResults(x) \/ RemoveRow(x) \/ RemovalFails(x)
      PROVE  Types'
  <2>0. {"none", "queued", "results", "row", "done"} = RemovalStates
    BY DEF RemovalStates
  <2>3. \/ \E at \in RemovalStates : removal' = [removal EXCEPT ![x].at = at]
        \/ removal' = [removal EXCEPT ![x] = [at |-> "results", tries |-> removal[x].tries + 1]]
    BY <1>3, <2>0 DEF RemovalStarts, RemoveResults, RemoveRow, RemovalFails, RemovalGoes
  <2>4. /\ \A at \in RemovalStates :
             [removal EXCEPT ![x].at = at] \in [Requests \X JobIds -> RemovalState]
        /\ [removal EXCEPT ![x] = [at |-> "results", tries |-> removal[x].tries + 1]]
              \in [Requests \X JobIds -> RemovalState]
    BY <2>0, RemovalChanges
  <2>1. removal' \in [Requests \X JobIds -> RemovalState]
    BY <2>3, <2>4
  <2>2. job' \in [JobIds -> JobStates]
    BY <1>3 DEF RemovalStarts, RemoveResults, RemoveRow, RemovalFails, JobGoes, JobStates
  <2>. QED BY <1>3, <2>1, <2>2 DEF RemovalStarts, RemoveResults, RemoveRow, RemovalFails
<1>. QED BY <1>1, <1>2, <1>3

LEMMA StoreTyping ==
  ASSUME Types, TodoFits, [StoreNext]_storeVars
  PROVE  Types'
<1>1. CASE StoreNext
  <2>1. listed' \in SUBSET JobIds
    BY <1>1 DEF StoreNext, Remembers
  <2>. QED BY <1>1, <2>1, JobTyping, RequestTyping, RemovalTyping DEF StoreNext, StoreActions
<1>2. CASE UNCHANGED storeVars
  BY <1>2 DEF storeVars, Types
<1>. QED BY <1>1, <1>2

-----------------------------------------------------------------------------
(* What the steps change                                                   *)

RemovalStep(x) == RemovalStarts(x) \/ RemoveResults(x) \/ RemoveRow(x) \/ RemovalFails(x)

\* A removal that runs was asked for, stays so, and leaves the others alone.
LEMMA RemovalMoves ==
  ASSUME Types, NEW x \in Requests \X JobIds, RemovalStep(x)
  PROVE  /\ removal[x].at # "none" /\ removal'[x].at # "none" /\ removal[x].at # "done"
         /\ \A y \in Requests \X JobIds : y # x => removal'[y] = removal[y]
         /\ removal'[x].at = "row" => removal[x].at = "results" /\ RemoveResults(x)
         /\ RemoveRow(x) => removal[x].at = "row" /\ removal'[x].at = "done"
         /\ UNCHANGED <<request, attempt, old, late, reader>>
<1>. USE DEF Types, RemovalStep
<1>1. CASE RemovalStarts(x)
  BY <1>1 DEF RemovalStarts, RemoveResults, RemoveRow
<1>2. CASE RemoveResults(x)
  BY <1>2 DEF RemoveResults, RemovalGoes, RemoveRow, RemovalState
<1>3. CASE RemoveRow(x)
  BY <1>3 DEF RemoveResults, RemovalGoes, RemoveRow, RemovalState
<1>4. CASE RemovalFails(x)
  BY <1>4 DEF RemoveResults, RemovalGoes, RemovalFails, RemoveRow, RemovalState
<1>. QED BY <1>1, <1>2, <1>3, <1>4

\* A request that moves on with what it has to do.
LEMMA RequestMoves ==
  ASSUME Types, NEW q \in Requests, NEW at, RequestGoes(q, at)
  PROVE  /\ request'[q].at = at
         /\ request'[q].todo = request[q].todo /\ request'[q].cursor = request[q].cursor
         /\ request'[q].filter = request[q].filter /\ request'[q].more = request[q].more
         /\ \A r \in Requests : r # q => request'[r] = request[r]
  BY DEF Types, RequestState, RequestGoes

\* A job's removal is queued, and taken off the request's list.
LEMMA QueuesRemoval ==
  ASSUME Types, TodoFits, NEW q \in Requests, InsertsRemoval(q)
  PROVE  \/ RequestGoes(q, "failed") /\ removal' = removal
         \/ \E j \in request[q].todo :
              /\ j \in JobIds
              /\ request'[q].at = "next" /\ request'[q].todo = request[q].todo \ {j}
              /\ request'[q].cursor = request[q].cursor /\ request'[q].filter = request[q].filter
              /\ request'[q].more = request[q].more
              /\ \A r \in Requests : r # q => request'[r] = request[r]
              /\ removal'[q, j].at = "queued"
              /\ \A r \in Requests, k \in JobIds :
                   r # q \/ k # j => removal'[r, k] = removal[r, k]
<1>. DEFINE j == LeastOf(request[q].todo)
<1>1. request[q].todo \subseteq JobIds /\ request[q].todo # {} /\ request[q] \in RequestState
  BY DEF Types, RequestState, TodoFits, InsertsRemoval
<1>2. j \in request[q].todo
  BY <1>1, LeastIn
<1>3. CASE RequestGoes(q, "failed") /\ removal' = removal
  BY <1>3
<1>4. CASE /\ removal' = [removal EXCEPT ![<<q, j>>].at = "queued"]
           /\ request' = [request EXCEPT ![q].at = "next", ![q].todo = @ \ {j}]
  <2>. HIDE DEF j
  <2>1. /\ request'[q].at = "next" /\ request'[q].todo = request[q].todo \ {j}
        /\ request'[q].cursor = request[q].cursor /\ request'[q].filter = request[q].filter
        /\ request'[q].more = request[q].more
        /\ \A r \in Requests : r # q => request'[r] = request[r]
    BY <1>1, <1>4 DEF Types, RequestState
  <2>2. <<q, j>> \in Requests \X JobIds
    BY <1>1, <1>2
  <2>3. /\ removal'[q, j].at = "queued"
        /\ \A r \in Requests, k \in JobIds :
                   r # q \/ k # j => removal'[r, k] = removal[r, k]
    BY <1>4, <2>2 DEF Types, RemovalState
  <2>. QED BY <1>1, <1>2, <2>1, <2>3
<1>. QED BY <1>3, <1>4 DEF InsertsRemoval

\* The next page: nothing more, the ids of the page, or a failure.
LEMMA PageListed ==
  ASSUME Types, ListsPage
  PROVE  LET q == request["all"]
             r == request'["all"]
             page == PageAfter(q.cursor, q.filter) IN
           /\ q.at = "listing"
           /\ request'["some"] = request["some"]
           /\ r.filter = q.filter
           /\ \/ page = {} /\ r.at = "ok" /\ r.todo = q.todo /\ r.cursor = q.cursor
              \/ r.at = "failed" /\ r.todo = q.todo /\ r.cursor = q.cursor
              \/ /\ page # {} /\ r.at = "next" /\ r.todo = page /\ r.more = HasMore(page)
                 /\ r.cursor = CHOOSE j \in page : \A k \in page : k <= j
<1>. DEFINE q == request["all"]
            page == PageAfter(q.cursor, q.filter)
            last == CHOOSE j \in page : \A k \in page : k <= j
<1>0. request \in [Requests -> RequestState] /\ q \in RequestState
      /\ "all" \in Requests /\ "some" \in Requests
  BY DEF Types, Requests
<1>1. \/ request' = [request EXCEPT !["all"].at = "failed"]
      \/ request' = [request EXCEPT !["all"] =
               IF page = {} THEN [q EXCEPT !.at = "ok"]
               ELSE [q EXCEPT !.at = "next", !.todo = page, !.more = HasMore(page),
                              !.pages = @ + 1, !.cursor = last]]
  BY DEF ListsPage
<1>2. q.at = "listing"
  BY DEF ListsPage
<1>. HIDE DEF page, last
<1>3. CASE request' = [request EXCEPT !["all"].at = "failed"]
  BY <1>0, <1>2, <1>3 DEF RequestState
<1>4. CASE page = {} /\ request' = [request EXCEPT !["all"] = [q EXCEPT !.at = "ok"]]
  BY <1>0, <1>2, <1>4 DEF RequestState, page
<1>5. CASE page # {} /\ request' = [request EXCEPT !["all"] =
               [q EXCEPT !.at = "next", !.todo = page, !.more = HasMore(page),
                              !.pages = @ + 1, !.cursor = last]]
  <2>1. /\ request'["all"].at = "next" /\ request'["all"].todo = page
        /\ request'["all"].more = HasMore(page) /\ request'["all"].cursor = last
        /\ request'["all"].filter = q.filter /\ request'["some"] = request["some"]
    BY <1>0, <1>5 DEF RequestState
  <2>. QED BY <1>2, <1>5, <2>1 DEF page, last
<1>. QED BY <1>1, <1>3, <1>4, <1>5

\* The kinds of step, in the order the proofs below take them.
JobStep(j) ==
  \/ InsertJob(j) \/ Works(j) \/ SavesResults(j) \/ AttemptEnds(j)
  \/ RiverCleans(j) \/ MonthPasses(j) \/ ReadsJob(j)

LEMMA StepKinds ==
  ASSUME StoreNext
  PROVE  /\ Remembers
         /\ \/ \E j \in JobIds : JobStep(j)
            \/ \E x \in Requests \X JobIds : RemovalStep(x)
            \/ Cleanup \/ ReadsResults
            \/ SubmitsDelete \/ SubmitsDeleteAll \/ ListsPage
            \/ \E q \in Requests : PageDone(q) \/ GetsJob(q) \/ CancelsJob(q)
            \/ \E q \in Requests : InsertsRemoval(q)
<1>1. CASE \E j \in JobIds : JobStep(j)
  BY <1>1 DEF StoreNext
<1>2. CASE \E x \in Requests \X JobIds : RemovalStep(x)
  BY <1>2 DEF StoreNext
<1>. QED BY <1>1, <1>2 DEF StoreNext, StoreActions, JobStep, RemovalStep

-----------------------------------------------------------------------------
(* The requests and their lists                                            *)

\* The step concerns neither the requests nor which removals were asked for.
RequestsRest ==
  /\ request' = request
  /\ \A x \in Requests \X JobIds : (removal'[x].at = "none") = (removal[x].at = "none")

LEMMA RestingRequests ==
  ASSUME TodoFits, QueuedOnce, Types, RequestsRest
  PROVE  TodoFits' /\ QueuedOnce'
<1>1. \A q \in Requests, j \in JobIds : (removal'[q, j].at = "none") = (removal[q, j].at = "none")
  BY DEF RequestsRest
<1>2. TodoFits'
  BY DEF TodoFits, RequestsRest
<1>3. \A q \in Requests : request[q].todo \subseteq JobIds
  BY DEF Types, RequestState
<1>. QED BY <1>1, <1>2, <1>3 DEF QueuedOnce, RequestsRest, Requests

\* A request moves on with the same list.
LEMMA MovingRequest ==
  ASSUME TodoFits, QueuedOnce, Types, removal' = removal,
         NEW q \in Requests, NEW at \in RequestStates \ {"idle"}, RequestGoes(q, at),
         at \in {"listing", "ok"} => request[q].todo = {},
         at \in {"cancel", "insert"} => request[q].todo # {}
  PROVE  TodoFits' /\ QueuedOnce'
<1>1. /\ request'[q].at = at
      /\ request'[q].todo = request[q].todo /\ request'[q].cursor = request[q].cursor
      /\ \A r \in Requests : r # q => request'[r] = request[r]
  BY RequestMoves
<1>2. TodoFits'
  BY <1>1 DEF TodoFits
<1>3. QueuedOnce'
  <2>1. \A r \in Requests : request'[r].todo = request[r].todo /\ request'[r].cursor = request[r].cursor
                            /\ (request'[r].at = "idle" => request[r].at = "idle")
    BY <1>1
  <2>. QED BY <2>1 DEF QueuedOnce, Requests
<1>. QED BY <1>2, <1>3

LEMMA RequestsStep ==
  ASSUME TodoFits, QueuedOnce, Types, [StoreNext]_storeVars
  PROVE  TodoFits' /\ QueuedOnce'
<1>0. "all" \in Requests /\ "some" \in Requests /\ \A q \in Requests : q = "some" \/ q = "all"
  BY DEF Requests
<1>00. RequestStates = {"idle", "listing", "next", "got", "cancel", "insert", "ok", "failed"}
  BY DEF RequestStates
<1>1. CASE UNCHANGED storeVars
  BY <1>1, RestingRequests DEF storeVars, RequestsRest
<1>2. ASSUME NEW j \in JobIds, JobStep(j)
      PROVE  TodoFits' /\ QueuedOnce'
  <2>1. UNCHANGED <<request, removal>>
    BY <1>2 DEF JobStep, InsertJob, Works, SavesResults, AttemptEnds, RiverCleans, MonthPasses, ReadsJob
  <2>. QED BY <2>1, RestingRequests DEF RequestsRest
<1>3. CASE Cleanup \/ ReadsResults
  BY <1>3, RestingRequests DEF Cleanup, ReadsResults, RequestsRest
<1>4. ASSUME NEW x \in Requests \X JobIds, RemovalStep(x)
      PROVE  TodoFits' /\ QueuedOnce'
  <2>1. /\ removal[x].at # "none" /\ removal'[x].at # "none"
        /\ \A y \in Requests \X JobIds : y # x => removal'[y] = removal[y]
        /\ request' = request
    BY <1>4, RemovalMoves
  <2>2. RequestsRest
    BY <2>1 DEF RequestsRest
  <2>. QED BY <2>2, RestingRequests
<1>5. CASE SubmitsDelete
  <2>1. PICK S \in SUBSET JobIds :
          request' = [request EXCEPT !["some"].at = "next", !["some"].todo = S]
    BY <1>5 DEF SubmitsDelete
  <2>2. /\ request["some"].at = "idle" /\ removal' = removal
        /\ request'["some"].at = "next" /\ request'["some"].todo = S
        /\ request'["all"] = request["all"]
    BY <1>0, <1>5, <2>1 DEF SubmitsDelete, Types, RequestState
  <2>3. TodoFits'
    BY <1>0, <2>2 DEF TodoFits
  <2>4. \A j \in JobIds : removal["some", j].at = "none"
    BY <2>2 DEF QueuedOnce
  <2>5. \A j \in request'["some"].todo : removal'["some", j].at = "none"
    BY <2>2, <2>4
  <2>6. \A j \in request'["all"].todo : removal'["all", j].at = "none"
    BY <1>0, <2>2 DEF QueuedOnce
  <2>7. QueuedOnce'
    BY <1>0, <2>2, <2>5, <2>6 DEF QueuedOnce
  <2>. QED BY <2>3, <2>7
<1>6. CASE SubmitsDeleteAll
  <2>1. PICK f \in FilterChoices :
          request' = [request EXCEPT !["all"].at = "listing", !["all"].filter = f]
    BY <1>6 DEF SubmitsDeleteAll
  <2>2. /\ request["all"].at = "idle" /\ removal' = removal
        /\ request'["all"].at = "listing" /\ request'["all"].todo = request["all"].todo
        /\ request'["all"].cursor = request["all"].cursor
        /\ request'["some"] = request["some"]
    BY <1>0, <1>6, <2>1 DEF SubmitsDeleteAll, Types, RequestState
  <2>3. TodoFits'
    BY <1>0, <2>2 DEF TodoFits
  <2>4. \A r \in Requests : /\ request'[r].todo = request[r].todo
                            /\ request'[r].cursor = request[r].cursor
                            /\ request'[r].at = "idle" => request[r].at = "idle"
    BY <1>0, <2>2
  <2>5. \A r \in Requests : \A j \in request'[r].todo : removal'[r, j].at = "none"
    BY <2>2, <2>4 DEF QueuedOnce
  <2>6. \A j \in JobIds :
          j \in request'["all"].todo \/ removal'["all", j].at # "none"
            => j <= request'["all"].cursor
    BY <2>2 DEF QueuedOnce
  <2>7. request'["some"].at = "idle" => \A j \in JobIds : removal'["some", j].at = "none"
    BY <2>2 DEF QueuedOnce
  <2>8. QueuedOnce'
    BY <2>2, <2>5, <2>6, <2>7 DEF QueuedOnce
  <2>. QED BY <2>3, <2>8
<1>7. CASE ListsPage
  <2>. DEFINE q == request["all"]
              r == request'["all"]
              page == PageAfter(q.cursor, q.filter)
              last == CHOOSE j \in page : \A k \in page : k <= j
  <2>0. q.cursor \in Nat /\ q.filter \in FilterChoices
    BY <1>0 DEF Types, RequestState
  <2>1. /\ q.at = "listing" /\ request'["some"] = request["some"]
        /\ \/ r.at = "ok" /\ r.todo = q.todo /\ r.cursor = q.cursor
           \/ r.at = "failed" /\ r.todo = q.todo /\ r.cursor = q.cursor
           \/ page # {} /\ r.at = "next" /\ r.todo = page /\ r.cursor = last
    BY <1>7, PageListed
  <2>2. removal' = removal
    BY <1>7 DEF ListsPage
  <2>3. /\ page \subseteq JobIds /\ \A j \in page : j > q.cursor
        /\ page # {} => last \in page /\ \A k \in page : k <= last
    BY <2>0, PageIsNext
  <2>. HIDE DEF page, last
  <2>4. TodoFits'
    BY <1>0, <2>1 DEF TodoFits
  <2>5. q.todo = {}
    BY <1>0, <2>1 DEF TodoFits
  <2>6. \A j \in JobIds : removal["all", j].at # "none" => j <= q.cursor
    BY DEF QueuedOnce
  <2>10. page \subseteq Nat
    BY <2>3, IdsAreFinite
  <2>7. ASSUME NEW j \in page PROVE removal["all", j].at = "none"
    <3>1. j \in Nat /\ j > q.cursor /\ j \in JobIds
      BY <2>3, <2>10
    <3>2. ~(j <= q.cursor)
      BY <2>0, <3>1
    <3>. QED BY <2>6, <3>1, <3>2
  <2>8. CASE page # {} /\ r.at = "next" /\ r.todo = page /\ r.cursor = last
    <3>2. last \in Nat /\ last > q.cursor
      BY <2>3, <2>8, <2>10
    <3>1. \A j \in Nat : j <= q.cursor => j <= last
      BY <2>0, <3>2
    <3>3. \A j \in JobIds : removal["all", j].at # "none" => j <= last
      BY <2>6, <3>1, IdsAreFinite
    <3>4. \A k \in request'["some"].todo : removal'["some", k].at = "none"
      BY <1>0, <2>1, <2>2 DEF QueuedOnce
    <3>5. \A k \in page : removal'["all", k].at = "none"
      BY <2>2, <2>7
    <3>6. \A k \in JobIds : k \in page \/ removal'["all", k].at # "none" => k <= last
      BY <2>2, <2>3, <2>8, <3>3
    <3>7. request'["some"].at = "idle" => \A k \in JobIds : removal'["some", k].at = "none"
      BY <2>1, <2>2 DEF QueuedOnce
    <3>8. QueuedOnce'
      BY <1>0, <2>8, <3>4, <3>5, <3>6, <3>7 DEF QueuedOnce
    <3>. QED BY <2>4, <3>8
  <2>9. CASE r.at \in {"ok", "failed"} /\ r.todo = q.todo /\ r.cursor = q.cursor
    <3>1. /\ \A k \in request'["some"].todo : removal'["some", k].at = "none"
          /\ request'["some"].at = "idle" => \A k \in JobIds : removal'["some", k].at = "none"
      BY <1>0, <2>1, <2>2 DEF QueuedOnce
    <3>2. \A k \in r.todo : removal'["all", k].at = "none"
      BY <1>0, <2>2, <2>9 DEF QueuedOnce
    <3>3. \A k \in JobIds : k \in r.todo \/ removal'["all", k].at # "none" => k <= r.cursor
      BY <2>2, <2>9 DEF QueuedOnce
    <3>4. r.at # "idle"
      BY <2>9
    <3>5. QueuedOnce'
      BY <1>0, <3>1, <3>2, <3>3, <3>4 DEF QueuedOnce
    <3>. QED BY <2>4, <3>5
  <2>. QED BY <2>1, <2>8, <2>9
<1>8. ASSUME NEW q \in Requests, PageDone(q) \/ GetsJob(q) \/ CancelsJob(q)
      PROVE  TodoFits' /\ QueuedOnce'
  <2>1. removal' = removal
    BY <1>8 DEF PageDone, GetsJob, CancelsJob
  <2>2. PICK at \in {"listing", "ok", "failed", "cancel", "insert"} :
          /\ RequestGoes(q, at)
          /\ at \in {"listing", "ok"} => request[q].todo = {}
          /\ at \in {"cancel", "insert"} => request[q].todo # {}
    BY <1>8 DEF PageDone, GetsJob, CancelsJob, TodoFits
  <2>. QED BY <1>00, <2>1, <2>2, MovingRequest
<1>9. ASSUME NEW q \in Requests, InsertsRemoval(q)
      PROVE  TodoFits' /\ QueuedOnce'
  <2>1. CASE RequestGoes(q, "failed") /\ removal' = removal
    BY <1>00, <2>1, MovingRequest
  <2>2. CASE \E j \in request[q].todo :
              /\ j \in JobIds
              /\ request'[q].at = "next" /\ request'[q].todo = request[q].todo \ {j}
              /\ request'[q].cursor = request[q].cursor
              /\ \A r \in Requests : r # q => request'[r] = request[r]
              /\ removal'[q, j].at = "queued"
              /\ \A r \in Requests, k \in JobIds :
                   r # q \/ k # j => removal'[r, k] = removal[r, k]
    <3>1. PICK j \in request[q].todo :
              /\ j \in JobIds
              /\ request'[q].at = "next" /\ request'[q].todo = request[q].todo \ {j}
              /\ request'[q].cursor = request[q].cursor
              /\ \A r \in Requests : r # q => request'[r] = request[r]
              /\ removal'[q, j].at = "queued"
              /\ \A r \in Requests, k \in JobIds :
                   r # q \/ k # j => removal'[r, k] = removal[r, k]
      BY <2>2
    <3>2. TodoFits'
      BY <3>1 DEF TodoFits
    <3>3. \A r \in Requests : request[r].todo \subseteq JobIds
      BY DEF Types, RequestState
    <3>4. ASSUME NEW r \in Requests, NEW k \in request'[r].todo
          PROVE  removal'[r, k].at = "none"
      <4>1. CASE r # q
        <5>1. k \in request[r].todo /\ k \in JobIds
          BY <3>1, <3>3, <4>1
        <5>2. removal[r, k].at = "none"
          BY <5>1 DEF QueuedOnce
        <5>. QED BY <3>1, <4>1, <5>1, <5>2
      <4>2. CASE r = q
        <5>1. k \in request[q].todo /\ k # j /\ k \in JobIds
          BY <3>1, <3>3, <4>2
        <5>2. removal[q, k].at = "none"
          BY <5>1 DEF QueuedOnce
        <5>. QED BY <3>1, <4>2, <5>1, <5>2
      <4>. QED BY <4>1, <4>2
    <3>5. /\ request'["some"].at = "idle" => \A k \in JobIds : removal'["some", k].at = "none"
          /\ request'["all"].at = "idle" => request'["all"].cursor = 0
      <4>1. CASE q = "some"
        BY <1>0, <3>1, <4>1 DEF QueuedOnce
      <4>2. CASE q = "all"
        <5>1. /\ request'["some"] = request["some"] /\ request'["all"].at = "next"
              /\ \A k \in JobIds : removal'["some", k] = removal["some", k]
          BY <1>0, <3>1, <4>2
        <5>. QED BY <5>1 DEF QueuedOnce
      <4>. QED BY <1>0, <4>1, <4>2
    <3>6. \A k \in JobIds : k \in request'["all"].todo \/ removal'["all", k].at # "none"
                               => k <= request'["all"].cursor
      BY <1>0, <3>1 DEF QueuedOnce
    <3>. QED BY <3>2, <3>4, <3>5, <3>6 DEF QueuedOnce
  <2>3. \/ RequestGoes(q, "failed") /\ removal' = removal
        \/ \E j \in request[q].todo :
              /\ j \in JobIds
              /\ request'[q].at = "next" /\ request'[q].todo = request[q].todo \ {j}
              /\ request'[q].cursor = request[q].cursor /\ request'[q].filter = request[q].filter
              /\ request'[q].more = request[q].more
              /\ \A r \in Requests : r # q => request'[r] = request[r]
              /\ removal'[q, j].at = "queued"
              /\ \A r \in Requests, k \in JobIds :
                   r # q \/ k # j => removal'[r, k] = removal[r, k]
    BY <1>9, QueuesRemoval
  <2>. QED BY <2>1, <2>2, <2>3
<1>10. CASE StoreNext
  <2>1. \/ \E j \in JobIds : JobStep(j)
        \/ \E x \in Requests \X JobIds : RemovalStep(x)
        \/ Cleanup \/ ReadsResults
        \/ SubmitsDelete \/ SubmitsDeleteAll \/ ListsPage
        \/ \E q \in Requests : PageDone(q) \/ GetsJob(q) \/ CancelsJob(q)
        \/ \E q \in Requests : InsertsRemoval(q)
    BY <1>10, StepKinds
  <2>2. CASE \E j \in JobIds : JobStep(j)
    BY <1>2, <2>2
  <2>3. CASE \E x \in Requests \X JobIds : RemovalStep(x)
    BY <1>4, <2>3
  <2>4. CASE \E q \in Requests : PageDone(q) \/ GetsJob(q) \/ CancelsJob(q)
    BY <1>8, <2>4
  <2>5. CASE \E q \in Requests : InsertsRemoval(q)
    BY <1>9, <2>5
  <2>. QED BY <2>1, <2>2, <2>3, <2>4, <2>5, <1>3, <1>5, <1>6, <1>7
<1>. QED BY <1>1, <1>10

-----------------------------------------------------------------------------
(* Removed rows, and results without a row                                 *)

\* No row is removed, no results and no removal come to a point of danger.
NothingRemoved ==
  /\ \A j \in JobIds : job'[j] = "removed" => job[j] = "removed"
  /\ saved' \subseteq saved /\ late \subseteq late'
  /\ \A x \in Requests \X JobIds : /\ removal[x].at = "done" => removal'[x].at = "done"
                                   /\ removal'[x].at = "row" => removal[x].at = "row"

LEMMA RemovedStay ==
  ASSUME RemovedExplained, NothingRemoved
  PROVE  RemovedExplained'
<1>1. \A q \in Requests, j \in JobIds : /\ removal[q, j].at = "done" => removal'[q, j].at = "done"
                                        /\ removal'[q, j].at = "row" => removal[q, j].at = "row"
  BY DEF NothingRemoved
<1>. SUFFICES ASSUME NEW j \in JobIds
              PROVE  /\ job'[j] = "removed" => j \in late' \/ \E q \in Requests : removal'[q, j].at = "done"
                     /\ job'[j] = "removed" \/ (\E q \in Requests : removal'[q, j].at = "row")
                          => j \notin saved' \/ j \in late'
  BY DEF RemovedExplained
<1>2. CASE job'[j] = "removed"
  <2>1. /\ j \in late \/ \E q \in Requests : removal[q, j].at = "done"
        /\ j \notin saved \/ j \in late
    BY <1>2 DEF RemovedExplained, NothingRemoved
  <2>. QED BY <1>1, <2>1 DEF NothingRemoved
<1>3. CASE job'[j] # "removed" /\ \E q \in Requests : removal'[q, j].at = "row"
  <2>1. j \notin saved \/ j \in late
    BY <1>1, <1>3 DEF RemovedExplained
  <2>. QED BY <1>3, <2>1 DEF NothingRemoved
<1>. QED BY <1>2, <1>3

LEMMA RemovedByJobStep ==
  ASSUME Types, RemovedExplained, NEW j \in JobIds, JobStep(j)
  PROVE  RemovedExplained'
<1>. USE DEF JobGoes
<1>1. CASE InsertJob(j) \/ Works(j) \/ MonthPasses(j) \/ ReadsJob(j)
  <2>1. NothingRemoved
    BY <1>1 DEF InsertJob, Works, MonthPasses, ReadsJob, NothingRemoved, Types
  <2>. QED BY <2>1, RemovedStay
<1>2. CASE AttemptEnds(j)
  <2>1. NothingRemoved
    BY <1>2 DEF AttemptEnds, NothingRemoved, Types
  <2>. QED BY <2>1, RemovedStay
<1>3. CASE SavesResults(j)
  <2>1. /\ job' = job /\ removal' = removal /\ saved' = saved \cup {j}
        /\ late' = IF \E q \in Requests : removal[q, j].at \notin {"none", "queued"}
                   THEN late \cup {j} ELSE late
    BY <1>3 DEF SavesResults
  <2>2. ASSUME job[j] = "removed" \/ \E q \in Requests : removal[q, j].at = "row"
        PROVE  j \in late'
    BY <2>1, <2>2 DEF RemovedExplained
  <2>. QED BY <2>1, <2>2 DEF RemovedExplained
<1>4. CASE RiverCleans(j)
  <2>1. /\ job' = [job EXCEPT ![j] = "removed"] /\ removal' = removal /\ saved' = saved
        /\ late' = late \cup {j}
    BY <1>4 DEF RiverCleans
  <2>. QED BY <2>1 DEF RemovedExplained, Types
<1>. QED BY <1>1, <1>2, <1>3, <1>4 DEF JobStep

LEMMA RemovedByRemoval ==
  ASSUME Types, RemovedExplained, NEW x \in Requests \X JobIds, RemovalStep(x)
  PROVE  RemovedExplained'
<1>. DEFINE q == x[1]
            j == x[2]
<1>0. q \in Requests /\ j \in JobIds /\ x = <<q, j>>
  OBVIOUS
<1>. HIDE DEF q, j
<1>1. /\ removal[x].at # "done" /\ late' = late
      /\ \A y \in Requests \X JobIds : y # x => removal'[y] = removal[y]
      /\ removal'[x].at = "row" => removal[x].at = "results" /\ RemoveResults(x)
      /\ RemoveRow(x) => removal[x].at = "row" /\ removal'[x].at = "done"
  BY RemovalMoves
<1>2. CASE RemoveResults(x)
  <2>1. saved' = saved \ {j} /\ job' = job
    BY <1>2 DEF RemoveResults, j
  <2>2. \A r \in Requests, k \in JobIds : k # j => removal'[r, k] = removal[r, k]
    BY <1>0, <1>1
  <2>3. \A r \in Requests, k \in JobIds : removal[r, k].at = "done" => removal'[r, k].at = "done"
    BY <1>1
  <2>4. SUFFICES ASSUME NEW k \in JobIds
                PROVE  /\ job'[k] = "removed" => k \in late' \/ \E r \in Requests : removal'[r, k].at = "done"
                       /\ job'[k] = "removed" \/ (\E r \in Requests : removal'[r, k].at = "row")
                            => k \notin saved' \/ k \in late'
    BY DEF RemovedExplained
  <2>5. CASE k = j
    <3>1. job'[k] = "removed" => k \in late \/ \E r \in Requests : removal[r, k].at = "done"
      BY <2>1 DEF RemovedExplained
    <3>. QED BY <1>1, <2>1, <2>3, <2>5, <3>1
  <2>6. CASE k # j
    BY <1>1, <2>1, <2>2, <2>6 DEF RemovedExplained
  <2>. QED BY <2>5, <2>6
<1>3. CASE RemoveRow(x)
  <2>1. saved' = saved /\ job' = [job EXCEPT ![j] = "removed"]
    BY <1>3 DEF RemoveRow, JobGoes, j
  <2>2. \A r \in Requests, k \in JobIds : k # j => removal'[r, k] = removal[r, k]
    BY <1>0, <1>1
  <2>3. removal[q, j].at = "row" /\ removal'[q, j].at = "done"
    BY <1>0, <1>1, <1>3
  <2>4. SUFFICES ASSUME NEW k \in JobIds
                PROVE  /\ job'[k] = "removed" => k \in late' \/ \E r \in Requests : removal'[r, k].at = "done"
                       /\ job'[k] = "removed" \/ (\E r \in Requests : removal'[r, k].at = "row")
                            => k \notin saved' \/ k \in late'
    BY DEF RemovedExplained
  <2>5. CASE k = j
    <3>1. j \notin saved \/ j \in late
      BY <1>0, <2>3 DEF RemovedExplained
    <3>. QED BY <1>0, <1>1, <2>1, <2>3, <2>5, <3>1
  <2>6. CASE k # j
    <3>1. job'[k] = job[k]
      BY <1>0, <2>1, <2>6 DEF Types
    <3>2. \A r \in Requests : removal'[r, k] = removal[r, k]
      BY <2>2, <2>6
    <3>. QED BY <1>1, <2>1, <3>1, <3>2 DEF RemovedExplained
  <2>. QED BY <2>5, <2>6
<1>4. CASE RemovalStarts(x) \/ RemovalFails(x)
  <2>1. job' = job /\ saved' = saved
    BY <1>4 DEF RemovalStarts, RemovalFails
  <2>2. removal'[x].at # "row"
    BY <1>4 DEF RemovalStarts, RemovalFails, RemovalGoes, Types, RemovalState
  <2>3. NothingRemoved
    BY <1>1, <2>1, <2>2 DEF NothingRemoved
  <2>. QED BY <2>3, RemovedStay
<1>. QED BY <1>2, <1>3, <1>4 DEF RemovalStep

\* How the steps of a request treat what the removals and the results say.
LEMMA RequestLeaves ==
  ASSUME \/ SubmitsDelete \/ SubmitsDeleteAll \/ ListsPage
         \/ \E q \in Requests : PageDone(q) \/ GetsJob(q) \/ CancelsJob(q)
  PROVE  /\ UNCHANGED <<runs, attempt, saved, old, removal, reader, late>>
         /\ Types => \A j \in JobIds : job'[j] = job[j] \/ job'[j] = "cancelled"
<1>1. CASE SubmitsDelete \/ SubmitsDeleteAll \/ ListsPage
  BY <1>1 DEF SubmitsDelete, SubmitsDeleteAll, ListsPage
<1>2. CASE \E q \in Requests : PageDone(q) \/ GetsJob(q)
  BY <1>2 DEF PageDone, GetsJob
<1>3. ASSUME NEW q \in Requests, CancelsJob(q)
      PROVE  /\ UNCHANGED <<runs, attempt, saved, old, removal, reader, late>>
             /\ Types => \A j \in JobIds : job'[j] = job[j] \/ job'[j] = "cancelled"
  BY <1>3 DEF CancelsJob, JobGoes, Types
<1>. QED BY <1>1, <1>2, <1>3

LEMMA InsertLeaves ==
  ASSUME Types, TodoFits, QueuedOnce, NEW q \in Requests, InsertsRemoval(q)
  PROVE  /\ UNCHANGED <<job, runs, attempt, saved, old, reader, late>>
         /\ \A x \in Requests \X JobIds :
              \/ removal'[x] = removal[x]
              \/ removal[x].at = "none" /\ removal'[x].at = "queued"
<1>1. UNCHANGED <<job, runs, attempt, saved, old, reader, late>>
  BY DEF InsertsRemoval
<1>2. CASE removal' = removal
  BY <1>1, <1>2
<1>3. CASE \E j \in request[q].todo :
              /\ j \in JobIds /\ removal'[q, j].at = "queued"
              /\ \A r \in Requests, k \in JobIds :
                   r # q \/ k # j => removal'[r, k] = removal[r, k]
  <2>1. PICK j \in request[q].todo :
              /\ j \in JobIds /\ removal'[q, j].at = "queued"
              /\ \A r \in Requests, k \in JobIds :
                   r # q \/ k # j => removal'[r, k] = removal[r, k]
    BY <1>3
  <2>2. removal[q, j].at = "none"
    BY <2>1 DEF QueuedOnce
  <2>3. ASSUME NEW x \in Requests \X JobIds
        PROVE  \/ removal'[x] = removal[x]
               \/ removal[x].at = "none" /\ removal'[x].at = "queued"
    <3>1. PICK r \in Requests, k \in JobIds : x = <<r, k>>
      OBVIOUS
    <3>2. CASE r # q \/ k # j
      BY <2>1, <3>1, <3>2
    <3>3. CASE r = q /\ k = j
      BY <2>1, <2>2, <3>1, <3>3
    <3>. QED BY <3>2, <3>3
  <2>. QED BY <1>1, <2>3
<1>. QED BY <1>2, <1>3, QueuesRemoval

LEMMA RemovedStep ==
  ASSUME Types, TodoFits, QueuedOnce, RemovedExplained, [StoreNext]_storeVars
  PROVE  RemovedExplained'
<1>1. CASE UNCHANGED storeVars
  BY <1>1 DEF storeVars, RemovedExplained
<1>2. ASSUME NEW q \in Requests, InsertsRemoval(q)
      PROVE  RemovedExplained'
  <2>1. /\ UNCHANGED <<job, saved, late>>
        /\ \A x \in Requests \X JobIds :
              \/ removal'[x] = removal[x]
              \/ removal[x].at = "none" /\ removal'[x].at = "queued"
    BY <1>2, InsertLeaves
  <2>2. NothingRemoved
    BY <2>1 DEF NothingRemoved
  <2>. QED BY <2>2, RemovedStay
<1>3. CASE \/ SubmitsDelete \/ SubmitsDeleteAll \/ ListsPage
           \/ \E q \in Requests : PageDone(q) \/ GetsJob(q) \/ CancelsJob(q)
  <2>1. /\ UNCHANGED <<saved, removal, late>>
        /\ \A j \in JobIds : job'[j] = job[j] \/ job'[j] = "cancelled"
    BY <1>3, RequestLeaves
  <2>2. NothingRemoved
    BY <2>1 DEF NothingRemoved
  <2>. QED BY <2>2, RemovedStay
<1>4. CASE Cleanup \/ ReadsResults
  <2>1. NothingRemoved
    BY <1>4 DEF Cleanup, ReadsResults, NothingRemoved
  <2>. QED BY <2>1, RemovedStay
<1>5. CASE StoreNext
  <2>1. CASE \E j \in JobIds : JobStep(j)
    BY <2>1, RemovedByJobStep
  <2>2. CASE \E x \in Requests \X JobIds : RemovalStep(x)
    BY <2>2, RemovedByRemoval
  <2>3. CASE \E q \in Requests : InsertsRemoval(q)
    BY <1>2, <2>3
  <2>. QED BY <1>3, <1>4, <1>5, <2>1, <2>2, <2>3, StepKinds
<1>. QED BY <1>1, <1>5

-----------------------------------------------------------------------------
(* What the reader of a status may see                                     *)

\* What was asked for stays asked for.
LEMMA AskedStays ==
  ASSUME Types, TodoFits, QueuedOnce, [StoreNext]_storeVars
  PROVE  \A x \in Requests \X JobIds : removal[x].at # "none" => removal'[x].at # "none"
<1>1. CASE removal' = removal
  BY <1>1
<1>2. ASSUME NEW x \in Requests \X JobIds, RemovalStep(x)
      PROVE  \A y \in Requests \X JobIds : removal[y].at # "none" => removal'[y].at # "none"
  <2>1. /\ removal'[x].at # "none"
        /\ \A y \in Requests \X JobIds : y # x => removal'[y] = removal[y]
    BY <1>2, RemovalMoves
  <2>. QED BY <2>1
<1>3. ASSUME NEW q \in Requests, InsertsRemoval(q)
      PROVE  \A y \in Requests \X JobIds : removal[y].at # "none" => removal'[y].at # "none"
  <2>1. \A x \in Requests \X JobIds :
              \/ removal'[x] = removal[x]
              \/ removal[x].at = "none" /\ removal'[x].at = "queued"
    BY <1>3, InsertLeaves
  <2>. QED BY <2>1
<1>4. CASE StoreNext
  <2>1. CASE \E j \in JobIds : JobStep(j)
    <3>1. removal' = removal
      BY <2>1 DEF JobStep, InsertJob, Works, SavesResults, AttemptEnds, RiverCleans, MonthPasses,
                  ReadsJob
    <3>. QED BY <1>1, <3>1
  <2>2. CASE \E x \in Requests \X JobIds : RemovalStep(x)
    BY <1>2, <2>2
  <2>3. CASE \E q \in Requests : InsertsRemoval(q)
    BY <1>3, <2>3
  <2>4. CASE \/ SubmitsDelete \/ SubmitsDeleteAll \/ ListsPage
             \/ \E q \in Requests : PageDone(q) \/ GetsJob(q) \/ CancelsJob(q)
    BY <1>1, <2>4, RequestLeaves
  <2>5. CASE Cleanup \/ ReadsResults
    BY <1>1, <2>5 DEF Cleanup, ReadsResults
  <2>. QED BY <1>4, <2>1, <2>2, <2>3, <2>4, <2>5, StepKinds
<1>5. CASE UNCHANGED storeVars
  BY <1>1, <1>5 DEF storeVars
<1>. QED BY <1>4, <1>5

Explained(j) == j \in saved \/ Asked(j) \/ j \in old

Completes(j) == attempt[j] = "flushed" \/ job[j] = "completed" \/ SaysCompleted(j)

\* No job comes closer to being completed, and no explanation is lost.
NothingCompletes ==
  /\ \A j \in JobIds : Completes(j)' => Completes(j) \/ Explained(j)'
  /\ \A j \in JobIds : Explained(j) => Explained(j)'
  /\ \A j \in JobIds : Asked(j) \/ j \in old => Asked(j)' \/ j \in old'
  /\ reader' = reader

LEMMA ResultsStay ==
  ASSUME ResultsExplained, NothingCompletes
  PROVE  ResultsExplained'
<1>1. \A j \in JobIds : Completes(j)' => Explained(j)'
  BY DEF ResultsExplained, NothingCompletes, Completes, Explained
<1>2. reader'.at # "idle" => reader'.id \in JobIds
  BY DEF ResultsExplained, NothingCompletes
<1>3. CompletedAnswerHasResults'
  <2>1. ASSUME reader.at = "answered", reader.status = "completed",
               reader.results \notin {"sent", "unread"}
        PROVE  Asked(reader.id)' \/ reader.id \in old'
    <3>1. reader.id \in JobIds
      BY <2>1 DEF ResultsExplained
    <3>2. Asked(reader.id) \/ reader.id \in old
      BY <2>1 DEF ResultsExplained, CompletedAnswerHasResults, Asked
    <3>. QED BY <3>1, <3>2 DEF NothingCompletes
  <2>. QED BY <2>1 DEF CompletedAnswerHasResults, NothingCompletes, Asked
<1>. QED BY <1>1, <1>2, <1>3 DEF ResultsExplained, Completes, Explained

LEMMA ResultsByJobStep ==
  ASSUME Types, ResultsExplained, NEW j \in JobIds, JobStep(j),
         \A k \in JobIds : Asked(k) => Asked(k)'
  PROVE  ResultsExplained'
<1>. USE DEF JobGoes
<1>1. CASE InsertJob(j) \/ Works(j) \/ MonthPasses(j) \/ RiverCleans(j) \/ SavesResults(j)
  <2>1. reader' = reader /\ old \subseteq old' /\ saved \subseteq saved'
    BY <1>1 DEF InsertJob, Works, MonthPasses, RiverCleans, SavesResults
  <2>2. \A k \in JobIds : /\ job'[k] = "completed" => job[k] = "completed"
                          /\ attempt'[k] = "flushed" => attempt[k] = "flushed" \/ k \in saved'
    BY <1>1 DEF InsertJob, Works, MonthPasses, RiverCleans, SavesResults, Types
  <2>3. NothingCompletes
    BY <2>1, <2>2 DEF NothingCompletes, Completes, Explained, SaysCompleted
  <2>. QED BY <2>3, ResultsStay
<1>2. CASE AttemptEnds(j)
  <2>1. reader' = reader /\ old' = old /\ saved' = saved
    BY <1>2 DEF AttemptEnds
  <2>2. \A k \in JobIds : /\ job'[k] = "completed" => job[k] = "completed" \/ attempt[k] = "flushed"
                          /\ attempt'[k] = "flushed" => attempt[k] = "flushed"
    BY <1>2 DEF AttemptEnds, Types
  <2>3. NothingCompletes
    BY <2>1, <2>2 DEF NothingCompletes, Completes, Explained, SaysCompleted
  <2>. QED BY <2>3, ResultsStay
<1>3. CASE ReadsJob(j)
  <2>1. /\ reader'.at = "got" /\ reader'.id = j /\ reader'.status = StatusOf(job[j])
        /\ UNCHANGED <<job, attempt, saved, old, removal>>
    BY <1>3 DEF ReadsJob
  <2>2. StatusOf(job[j]) = "completed" => job[j] = "completed"
    BY DEF StatusOf
  <2>3. \A k \in JobIds : Completes(k)' => Completes(k)
    BY <2>1, <2>2 DEF Completes, SaysCompleted
  <2>4. \A k \in JobIds : Completes(k)' => Explained(k)'
    BY <2>1, <2>3 DEF ResultsExplained, Completes, Explained, Asked
  <2>. QED BY <2>1, <2>4 DEF ResultsExplained, Completes, Explained, CompletedAnswerHasResults
<1>. QED BY <1>1, <1>2, <1>3 DEF JobStep

LEMMA ResultsStep ==
  ASSUME Types, TodoFits, QueuedOnce, ResultsExplained, [StoreNext]_storeVars
  PROVE  ResultsExplained'
<1>0. \A k \in JobIds : Asked(k) => Asked(k)'
  BY AskedStays DEF Asked
<1>2. CASE /\ UNCHANGED <<attempt, saved, old, reader>>
           /\ \A k \in JobIds : job'[k] = job[k] \/ job'[k] = "cancelled"
  <2>1. NothingCompletes
    BY <1>0, <1>2 DEF NothingCompletes, Completes, Explained, SaysCompleted
  <2>. QED BY <2>1, ResultsStay
<1>1. CASE UNCHANGED storeVars
  BY <1>1, <1>2 DEF storeVars
<1>3. ASSUME NEW x \in Requests \X JobIds, RemovalStep(x)
      PROVE  ResultsExplained'
  <2>1. /\ removal[x].at # "none" /\ UNCHANGED <<attempt, old, reader>>
    BY <1>3, RemovalMoves
  <2>0. x[1] \in Requests /\ x[2] \in JobIds /\ x = <<x[1], x[2]>>
    OBVIOUS
  <2>2. x[1] \in Requests /\ x[2] \in JobIds /\ removal[x[1], x[2]].at # "none"
    BY <2>0, <2>1
  <2>3. Asked(x[2])
    BY <2>2 DEF Asked
  <2>4. saved \ {x[2]} \subseteq saved'
    BY <1>3 DEF RemovalStep, RemovalStarts, RemoveResults, RemoveRow, RemovalFails
  <2>5. \A k \in JobIds : job'[k] = "completed" => job[k] = "completed"
    BY <1>3 DEF RemovalStep, RemovalStarts, RemoveResults, RemoveRow, RemovalFails, JobGoes, Types
  <2>6. \A k \in JobIds : Explained(k) => Explained(k)'
    BY <1>0, <2>1, <2>2, <2>3, <2>4 DEF Explained
  <2>7. NothingCompletes
    BY <1>0, <2>1, <2>5, <2>6 DEF NothingCompletes, Completes, SaysCompleted
  <2>. QED BY <2>7, ResultsStay
<1>4. CASE Cleanup
  <2>1. /\ UNCHANGED <<job, attempt, old, reader>>
        /\ \A k \in JobIds : k \in saved => k \in saved' \/ k \in old
    BY <1>4 DEF Cleanup
  <2>2. NothingCompletes
    BY <1>0, <2>1 DEF NothingCompletes, Completes, Explained, SaysCompleted
  <2>. QED BY <2>2, ResultsStay
<1>5. CASE ReadsResults
  <2>1. /\ UNCHANGED <<job, attempt, saved, old, removal>>
        /\ reader.at = "got" /\ reader'.id = reader.id /\ reader'.status = reader.status
        /\ reader.status = "completed" =>
             reader'.results = "unread"
             \/ reader'.results = IF reader.id \in saved THEN "sent" ELSE "none"
    BY <1>5 DEF ReadsResults, Types, ReaderState
  <2>2. reader.id \in JobIds
    BY <2>1 DEF ResultsExplained
  <2>3. reader.status = "completed" => Explained(reader.id)
    BY <2>1, <2>2 DEF ResultsExplained, Explained, SaysCompleted
  <2>4. \A k \in JobIds : Completes(k)' => Completes(k)
    BY <2>1 DEF Completes, SaysCompleted
  <2>5. \A k \in JobIds : Completes(k)' => Explained(k)'
    BY <2>1, <2>4 DEF ResultsExplained, Completes, Explained, Asked
  <2>6. CompletedAnswerHasResults'
    BY <2>1, <2>3 DEF CompletedAnswerHasResults, Explained, Asked
  <2>. QED BY <2>1, <2>2, <2>5, <2>6 DEF ResultsExplained, Completes, Explained
<1>6. CASE StoreNext
  <2>1. CASE \E j \in JobIds : JobStep(j)
    BY <1>0, <2>1, ResultsByJobStep
  <2>2. CASE \E x \in Requests \X JobIds : RemovalStep(x)
    BY <1>3, <2>2
  <2>3. CASE \E q \in Requests : InsertsRemoval(q)
    BY <1>2, <2>3, InsertLeaves
  <2>4. CASE \/ SubmitsDelete \/ SubmitsDeleteAll \/ ListsPage
             \/ \E q \in Requests : PageDone(q) \/ GetsJob(q) \/ CancelsJob(q)
    BY <1>2, <2>4, RequestLeaves
  <2>. QED BY <1>4, <1>5, <1>6, <2>1, <2>2, <2>3, <2>4, StepKinds
<1>. QED BY <1>1, <1>6

-----------------------------------------------------------------------------
(* The pages of a delete-all                                               *)

\* The delete-all moves on, or rests, with the list it has.
LEMMA PagesStay ==
  ASSUME PagesReach, Remembers, Types, request["all"].at # "idle",
         request'["all"].filter = request["all"].filter,
         request'["all"].cursor = request["all"].cursor,
         request'["all"].more = request["all"].more,
         \A j \in JobIds : removal["all", j].at # "none" => removal'["all", j].at # "none",
         \A j \in JobIds : j \notin request'["all"].todo
             => j \notin request["all"].todo \/ removal'["all", j].at # "none",
         request'["all"].at \in {"next", "cancel", "insert"}
             => request["all"].at \in {"next", "cancel", "insert"},
         request'["all"].at = "ok"
             => request["all"].at = "ok" \/ (request["all"].at = "next" /\ ~request["all"].more)
  PROVE  PagesReach'
<1>. SUFFICES ASSUME NEW j \in listed'
              PROVE  LET q == request["all"] IN
                       /\ Matches(j, q.filter)'
                       /\ (q.at # "idle" /\ j <= q.cursor /\ j \notin q.todo
                             => removal["all", j].at # "none")'
                       /\ (q.at \in {"next", "cancel", "insert"} /\ ~q.more => j <= q.cursor)'
                       /\ (q.at = "ok" => j <= q.cursor)'
  BY DEF PagesReach
<1>1. j \in listed /\ j \in JobIds /\ Matches(j, request["all"].filter)'
  BY DEF Remembers
<1>2. /\ j <= request["all"].cursor /\ j \notin request["all"].todo => removal["all", j].at # "none"
      /\ request["all"].at \in {"next", "cancel", "insert"} /\ ~request["all"].more
           => j <= request["all"].cursor
      /\ request["all"].at = "ok" => j <= request["all"].cursor
  BY <1>1 DEF PagesReach
<1>. QED BY <1>1, <1>2

\* The next page has all the jobs that matched all along up to its last one.
LEMMA PagesListed ==
  ASSUME PagesReach, Remembers, Types, TodoFits, QueuedOnce, ListsPage
  PROVE  PagesReach'
<1>. DEFINE q == request["all"]
            r == request'["all"]
            page == PageAfter(q.cursor, q.filter)
            last == CHOOSE j \in page : \A k \in page : k <= j
<1>0. q.cursor \in Nat /\ q.filter \in FilterChoices /\ removal' = removal /\ "all" \in Requests
  BY DEF Types, RequestState, ListsPage, Requests
<1>1. /\ q.at = "listing" /\ r.filter = q.filter
      /\ \/ page = {} /\ r.at = "ok" /\ r.todo = q.todo /\ r.cursor = q.cursor
         \/ r.at = "failed" /\ r.todo = q.todo /\ r.cursor = q.cursor
         \/ /\ page # {} /\ r.at = "next" /\ r.todo = page /\ r.more = HasMore(page)
            /\ r.cursor = last
  BY PageListed
<1>2. q.todo = {}
  BY <1>0, <1>1 DEF TodoFits
<1>3. /\ page \subseteq JobIds /\ \A j \in page : j > q.cursor
      /\ page # {} => /\ last \in page /\ \A k \in page : k <= last
                      /\ \A j \in JobIds : j > q.cursor /\ Matches(j, q.filter) /\ j <= last
                                             => j \in page
      /\ ~HasMore(page) => \A j \in JobIds : j > q.cursor /\ Matches(j, q.filter) => j \in page
  BY <1>0, PageIsNext
<1>4. ~HasMore({})
  BY FS_EmptySet, JobStoreAssumption DEF HasMore
<1>5. page \subseteq Nat /\ (page # {} => last \in Nat /\ last > q.cursor)
  BY <1>3, IdsAreFinite
<1>6. listed' \subseteq listed /\ listed' \subseteq JobIds
      /\ \A j \in listed' : Matches(j, q.filter) /\ Matches(j, q.filter)'
  BY <1>1 DEF Remembers, PagesReach
<1>. HIDE DEF page, last
<1>. SUFFICES ASSUME NEW j \in listed'
              PROVE  /\ j <= r.cursor /\ j \notin r.todo => removal'["all", j].at # "none"
                     /\ r.at \in {"next", "cancel", "insert"} /\ ~r.more => j <= r.cursor
                     /\ r.at = "ok" => j <= r.cursor
  BY <1>6 DEF PagesReach
<1>7. j \in Nat /\ j \in JobIds /\ Matches(j, q.filter) /\ j \in listed
  BY <1>6, IdsAreFinite
<1>12. j > q.cursor => /\ ~HasMore(page) => j \in page
                       /\ page # {} /\ j <= last => j \in page
  BY <1>3, <1>7, Zenon
<1>8. j <= q.cursor => removal'["all", j].at # "none"
  BY <1>0, <1>1, <1>2, <1>7 DEF PagesReach
<1>13. ASSUME ~(j > q.cursor) PROVE j <= q.cursor
  <2>. DEFINE c == q.cursor
  <2>1. c \in Nat /\ ~(j > c)
    BY <1>0, <1>13
  <2>. HIDE DEF c
  <2>2. j <= c
    BY <1>7, <2>1
  <2>. QED BY <2>2 DEF c
<1>9. CASE page = {} /\ r.at = "ok" /\ r.todo = q.todo /\ r.cursor = q.cursor
  <2>1. ~(j > q.cursor)
    BY <1>4, <1>9, <1>12
  <2>. QED BY <1>8, <1>9, <1>13, <2>1
<1>10. CASE r.at = "failed" /\ r.todo = q.todo /\ r.cursor = q.cursor
  BY <1>8, <1>10
<1>11. CASE /\ page # {} /\ r.at = "next" /\ r.todo = page /\ r.more = HasMore(page)
            /\ r.cursor = last
  <2>1. ASSUME j <= last, j \notin page PROVE removal'["all", j].at # "none"
    <3>1. ~(j > q.cursor)
      BY <1>11, <1>12, <2>1
    <3>. QED BY <1>8, <1>13, <3>1
  <2>2. ASSUME ~HasMore(page) PROVE j <= last
    <3>1. CASE j > q.cursor
      BY <1>3, <1>7, <1>11, <2>2, <3>1
    <3>2. CASE ~(j > q.cursor)
      BY <1>0, <1>5, <1>7, <1>11, <3>2
    <3>. QED BY <3>1, <3>2
  <2>. QED BY <1>11, <2>1, <2>2
<1>. QED BY <1>1, <1>9, <1>10, <1>11

LEMMA PagesStep ==
  ASSUME Types, TodoFits, QueuedOnce, PagesReach, [StoreNext]_storeVars
  PROVE  PagesReach'
<1>0. "all" \in Requests /\ \A q \in Requests : q = "some" \/ q = "all"
  BY DEF Requests
<1>1. \A j \in JobIds : removal["all", j].at # "none" => removal'["all", j].at # "none"
  BY <1>0, AskedStays
<1>2. CASE UNCHANGED storeVars
  BY <1>2 DEF storeVars, PagesReach, Matches, Exists
<1>3. ASSUME Remembers, request'["all"] = request["all"]
      PROVE  PagesReach'
  <2>1. CASE request["all"].at # "idle"
    BY <1>1, <1>3, <2>1, PagesStay
  <2>2. CASE request["all"].at = "idle"
    BY <1>3, <2>2 DEF Remembers, PagesReach
  <2>. QED BY <2>1, <2>2
<1>4. CASE Remembers /\ SubmitsDeleteAll
  <2>1. PICK f \in FilterChoices :
          request' = [request EXCEPT !["all"].at = "listing", !["all"].filter = f]
    BY <1>4 DEF SubmitsDeleteAll
  <2>2. /\ request["all"].at = "idle"
        /\ request'["all"].at = "listing" /\ request'["all"].cursor = request["all"].cursor
    BY <1>0, <1>4, <2>1 DEF SubmitsDeleteAll, Types, RequestState
  <2>3. request'["all"].cursor = 0
    BY <2>2 DEF QueuedOnce
  <2>4. \A j \in JobIds : ~(j <= 0)
    BY JobStoreAssumption DEF JobIds
  <2>. QED BY <1>4, <2>2, <2>3, <2>4 DEF Remembers, PagesReach
<1>5. ASSUME Remembers, NEW q \in Requests, PageDone(q) \/ GetsJob(q) \/ CancelsJob(q)
      PROVE  PagesReach'
  <2>1. PICK at \in {"listing", "ok", "failed", "cancel", "insert"} :
          /\ RequestGoes(q, at) /\ request[q].at # "idle"
          /\ at \in {"next", "cancel", "insert"} => request[q].at \in {"next", "cancel", "insert"}
          /\ at = "ok" => request[q].at = "next" /\ ~request[q].more
    BY <1>5 DEF PageDone, GetsJob, CancelsJob
  <2>2. /\ request'[q].at = at
        /\ request'[q].todo = request[q].todo /\ request'[q].cursor = request[q].cursor
        /\ request'[q].filter = request[q].filter /\ request'[q].more = request[q].more
        /\ \A r \in Requests : r # q => request'[r] = request[r]
    BY <2>1, RequestMoves
  <2>3. CASE q = "some"
    BY <1>0, <1>3, <1>5, <2>2, <2>3
  <2>4. CASE q = "all"
    BY <1>1, <1>5, <2>1, <2>2, <2>4, PagesStay
  <2>. QED BY <1>0, <2>3, <2>4
<1>6. ASSUME Remembers, NEW q \in Requests, InsertsRemoval(q)
      PROVE  PagesReach'
  <2>0. request[q].at = "insert"
    BY <1>6 DEF InsertsRemoval
  <2>1. CASE RequestGoes(q, "failed")
    <3>1. /\ request'[q].at = "failed"
          /\ request'[q].todo = request[q].todo /\ request'[q].cursor = request[q].cursor
          /\ request'[q].filter = request[q].filter /\ request'[q].more = request[q].more
          /\ \A r \in Requests : r # q => request'[r] = request[r]
      BY <2>1, RequestMoves
    <3>2. CASE q = "some"
      BY <1>0, <1>3, <1>6, <3>1, <3>2
    <3>3. CASE q = "all"
      BY <1>1, <1>6, <2>0, <3>1, <3>3, PagesStay
    <3>. QED BY <1>0, <3>2, <3>3
  <2>2. CASE \E j \in request[q].todo :
              /\ j \in JobIds
              /\ request'[q].at = "next" /\ request'[q].todo = request[q].todo \ {j}
              /\ request'[q].cursor = request[q].cursor /\ request'[q].filter = request[q].filter
              /\ request'[q].more = request[q].more
              /\ \A r \in Requests : r # q => request'[r] = request[r]
              /\ removal'[q, j].at = "queued"
    <3>1. PICK j \in request[q].todo :
              /\ j \in JobIds
              /\ request'[q].at = "next" /\ request'[q].todo = request[q].todo \ {j}
              /\ request'[q].cursor = request[q].cursor /\ request'[q].filter = request[q].filter
              /\ request'[q].more = request[q].more
              /\ \A r \in Requests : r # q => request'[r] = request[r]
              /\ removal'[q, j].at = "queued"
      BY <2>2
    <3>2. CASE q = "some"
      BY <1>0, <1>3, <1>6, <3>1, <3>2
    <3>3. CASE q = "all"
      <4>1. \A k \in JobIds : k \notin request'["all"].todo
              => k \notin request["all"].todo \/ removal'["all", k].at # "none"
        BY <3>1, <3>3
      <4>. QED BY <1>1, <1>6, <2>0, <3>1, <3>3, <4>1, PagesStay
    <3>. QED BY <1>0, <3>2, <3>3
  <2>3. \/ RequestGoes(q, "failed") /\ removal' = removal
        \/ \E j \in request[q].todo :
              /\ j \in JobIds
              /\ request'[q].at = "next" /\ request'[q].todo = request[q].todo \ {j}
              /\ request'[q].cursor = request[q].cursor /\ request'[q].filter = request[q].filter
              /\ request'[q].more = request[q].more
              /\ \A r \in Requests : r # q => request'[r] = request[r]
              /\ removal'[q, j].at = "queued"
              /\ \A r \in Requests, k \in JobIds :
                   r # q \/ k # j => removal'[r, k] = removal[r, k]
    BY <1>6, QueuesRemoval
  <2>. QED BY <2>1, <2>2, <2>3
<1>7. CASE StoreNext
  <2>0. Remembers
    BY <1>7, StepKinds
  <2>1. CASE \E j \in JobIds : JobStep(j)
    BY <1>3, <2>0, <2>1 DEF JobStep, InsertJob, Works, SavesResults, AttemptEnds, RiverCleans,
                            MonthPasses, ReadsJob
  <2>2. CASE \E x \in Requests \X JobIds : RemovalStep(x)
    BY <1>3, <2>0, <2>2, RemovalMoves
  <2>3. CASE \E q \in Requests : InsertsRemoval(q)
    BY <1>6, <2>0, <2>3
  <2>4. CASE \E q \in Requests : PageDone(q) \/ GetsJob(q) \/ CancelsJob(q)
    BY <1>5, <2>0, <2>4
  <2>5. CASE SubmitsDelete
    <3>1. request'["all"] = request["all"]
      BY <1>0, <2>5 DEF SubmitsDelete, Types
    <3>. QED BY <1>3, <2>0, <3>1
  <2>6. CASE Cleanup \/ ReadsResults
    BY <1>3, <2>0, <2>6 DEF Cleanup, ReadsResults
  <2>. QED BY <1>4, <1>7, <2>0, <2>1, <2>2, <2>3, <2>4, <2>5, <2>6, StepKinds, PagesListed
<1>. QED BY <1>2, <1>7

-----------------------------------------------------------------------------
LEMMA StoreStep ==
  StoreInv /\ [StoreNext]_storeVars => StoreInv'
<1>. SUFFICES ASSUME StoreInv, [StoreNext]_storeVars
              PROVE  StoreInv'
  OBVIOUS
<1>1. Types /\ TodoFits /\ QueuedOnce /\ RemovedExplained /\ ResultsExplained /\ PagesReach
  BY DEF StoreInv
<1>2. Types'
  BY <1>1, StoreTyping
<1>3. TodoFits' /\ QueuedOnce'
  BY <1>1, RequestsStep
<1>4. RemovedExplained'
  BY <1>1, RemovedStep
<1>5. ResultsExplained'
  BY <1>1, ResultsStep
<1>6. PagesReach'
  BY <1>1, PagesStep
<1>. QED BY <1>2, <1>3, <1>4, <1>5, <1>6 DEF StoreInv

\* The invariant of the tables and of the requests at work on them holds throughout.
THEOREM StoreInvariant == StoreSpec => []StoreInv
  BY StoreInitInv, StoreStep, PTL DEF StoreSpec

\* Every variable keeps its type; a page's ids, the cursor and the removals stay
\* within the jobs there are (rqueue's requests for jobs).
THEOREM StoreTypes == StoreSpec => []StoreTypeOK
<1>1. StoreInv => StoreTypeOK
  BY TypesAre DEF StoreInv
<1>. QED BY <1>1, StoreInvariant, PTL

\* A delete-all that answers without an error queued the removal of every job that
\* matched its filter all along (queueDeleteAllFiltered over ListJobs' pages), for any
\* number of jobs and any size of page.
THEOREM DeleteAllComplete == StoreSpec => []DeleteAllReachesAll
<1>1. StoreInv => DeleteAllReachesAll
  <2>. SUFFICES ASSUME StoreInv, request["all"].at = "ok", NEW j \in listed
                PROVE  removal["all", j].at # "none"
    BY DEF DeleteAllReachesAll
  <2>1. request["all"].todo = {}
    BY DEF StoreInv, TodoFits, Requests
  <2>. QED BY <2>1 DEF StoreInv, PagesReach
<1>. QED BY <1>1, StoreInvariant, PTL

\* Results without a job are the work of an attempt that saved them late, or of
\* River's cleaner (JobDeleteWorker deletes the results before the row).
THEOREM OrphansAreLate == StoreSpec => []OrphansExplained
<1>1. StoreInv => OrphansExplained
  BY DEF StoreInv, Types, RemovedExplained, OrphansExplained
<1>. QED BY <1>1, StoreInvariant, PTL

\* When both queries of GetJobStatus succeed it does not say "completed" without the
\* results, unless the removal of the job was asked for or the job completed a month
\* ago, however the job's row and its results change between the two.
THEOREM CompletedHasResults == StoreSpec => []CompletedAnswerHasResults
<1>1. StoreInv => CompletedAnswerHasResults
  BY DEF StoreInv, ResultsExplained
<1>. QED BY <1>1, StoreInvariant, PTL
=============================================================================
