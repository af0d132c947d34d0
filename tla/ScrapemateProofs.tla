--------------------------- MODULE ScrapemateProofs ---------------------------
(***************************************************************************)
(* One scrape, for any number of workers, searches and places.             *)
(***************************************************************************)
EXTENDS Scrapemate, FiniteSetTheorems, TLAPS

WorkerStates == {"idle", "fetch", "look", "insert", "found", "counted", "push", "send",
                 "exited"}

LEMMA SeedsFinite == IsFiniteSet(Seeds) /\ Cardinality(Seeds) \in Nat
<1>1. Seeds \subseteq Jobs /\ IsFiniteSet(Jobs)
  BY SeedsAssumption DEF Jobs
<1>. QED BY <1>1, FS_Subset, FS_CardinalityType

\* The places of a search are as many as its units.
LEMMA PlacesOfSeed ==
  ASSUME NEW s \in Seeds, NEW P \in SUBSET Places
  PROVE  /\ IsFiniteSet(P) /\ Cardinality(P) \in Nat
         /\ IsFiniteSet({s} \X P) /\ Cardinality({s} \X P) = Cardinality(P)
<1>1. {s} \X P \subseteq Jobs /\ IsFiniteSet(Jobs)
  BY SeedsAssumption DEF Jobs, Units
<1>2. IsFiniteSet({s} \X P)
  BY <1>1, FS_Subset
<1>. DEFINE f == [u \in {s} \X P |-> u[2]]
<1>3. f \in Bijection({s} \X P, P)
  <2>1. f \in Injection({s} \X P, P)
    BY DEF Injection, IsInjective
  <2>2. \A p \in P : f[<<s, p>>] = p /\ <<s, p>> \in {s} \X P
    OBVIOUS
  <2>3. f \in Surjection({s} \X P, P)
    BY <2>2 DEF Surjection
  <2>. QED BY <2>1, <2>3 DEF Bijection
<1>4. IsFiniteSet(P) /\ Cardinality({s} \X P) = Cardinality(P)
  BY <1>2, <1>3, FS_Bijection DEF ExistsBijection
<1>. QED BY <1>2, <1>4, FS_CardinalityType

-----------------------------------------------------------------------------
(* Types                                                                    *)

LEMMA NotifyType ==
  ASSUME NEW e \in ExiterState
  PROVE  /\ Notify(e) \in ExiterState
         /\ Notify(e) = [seedCount |-> e.seedCount, seedCompleted |-> e.seedCompleted,
                         placesFound |-> e.placesFound, placesCompleted |-> e.placesCompleted,
                         doneCh |-> (e.doneCh \/ AllDone(e))]
<1>1. (e.doneCh \/ AllDone(e)) \in BOOLEAN
  BY DEF AllDone
<1>2. Notify(e) = [e EXCEPT !.doneCh = (e.doneCh \/ AllDone(e))]
  BY DEF Notify
<1>. HIDE DEF AllDone
<1>. QED BY <1>1, <1>2 DEF ExiterState

LEMMA ExiterTypes ==
  ASSUME NEW e \in ExiterState, NEW n \in Nat
  PROVE  /\ IncrSeedCompleted(e, n) \in ExiterState
         /\ IncrPlacesFound(e, n) \in ExiterState
         /\ IncrPlacesCompleted(e, n) \in ExiterState
<1>1. /\ [e EXCEPT !.seedCompleted = @ + n] \in ExiterState
      /\ [e EXCEPT !.placesFound = @ + n] \in ExiterState
      /\ [e EXCEPT !.placesCompleted = @ + n] \in ExiterState
  BY DEF ExiterState
<1>. QED
  BY <1>1, NotifyType DEF IncrSeedCompleted, IncrPlacesFound, IncrPlacesCompleted

\* What a worker holds, which the types of its steps need.
Held ==
  /\ \A w \in Workers :
       /\ wpc[w] \notin {"idle", "exited"} => wjob[w] \in Jobs
       /\ wpc[w] \in {"look", "insert", "found", "counted", "push"} => wjob[w] \in Seeds
       /\ wpc[w] = "send" => wjob[w] \in Units
       /\ wpc[w] = "insert" => whref[w] \in Places

LEMMA TypeInit == Init => TypeOK /\ Held
  BY SeedsFinite DEF Init, TypeOK, Held, JobPlaces, ExiterState, NewExiter

LEMMA TypeStep == TypeOK /\ Held /\ [Next]_vars => TypeOK' /\ Held'
<1> SUFFICES ASSUME TypeOK, Held, [Next]_vars PROVE TypeOK' /\ Held'
  OBVIOUS
<1>. USE DEF TypeOK, Held, JobPlaces, jobState, workerState, provider
<1>1. ASSUME NEW s \in Seeds, PushSeed(s) PROVE TypeOK' /\ Held'
  BY <1>1 DEF PushSeed, Jobs
<1>2. ASSUME NEW j \in Jobs, PushDropped(j) PROVE TypeOK' /\ Held'
  BY <1>2 DEF PushDropped
<1>3. ASSUME NEW w \in Workers, Forward(w) PROVE TypeOK' /\ Held'
  <2>1. UNCHANGED <<email, direct, wpc, wjob, wtodo, whref, wnext, seen, ex, cause, writer, app>>
    BY <1>3 DEF Forward
  <2>2. CASE \E prios : FwdTakes(w, prios)
    <3>1. /\ at' \in [Jobs -> JobPlaces] /\ fjob' \in [Workers -> Jobs \cup {Nil}]
          /\ fpc' \in [Workers -> {"top", "middle", "bottom", "offer", "closed"}]
      BY <2>2 DEF FwdTakes
    <3>. QED BY <2>1, <3>1
  <2>3. CASE \E pc \in {"middle", "bottom", "offer", "closed"} : FwdMoves(w, pc)
    <3>1. /\ at' = at /\ fjob' = fjob
          /\ fpc' \in [Workers -> {"top", "middle", "bottom", "offer", "closed"}]
      BY <2>3 DEF FwdMoves
    <3>. QED BY <2>1, <3>1
  <2>. QED BY <1>3, <2>2, <2>3 DEF Forward, FwdTop, FwdMiddle, FwdBottom
<1>4. ASSUME NEW w \in Workers, WorkerExits(w) \/ WorkerRestartsProvider(w) \/
    WorkerReceivesNil(w)
      PROVE  TypeOK' /\ Held'
  <2>1. CASE WorkerExits(w)
    BY <2>1 DEF WorkerExits
  <2>2. CASE WorkerRestartsProvider(w)
    BY <2>2 DEF WorkerRestartsProvider
  <2>3. CASE WorkerReceivesNil(w)
    BY <2>3 DEF WorkerReceivesNil
  <2>. QED BY <1>4, <2>1, <2>2, <2>3
<1>5. ASSUME NEW w \in Workers, WorkerReceives(w) PROVE TypeOK' /\ Held'
  BY <1>5 DEF WorkerReceives
<1>6. ASSUME NEW w \in Workers, JobBreaks(w) PROVE TypeOK' /\ Held'
  BY <1>6 DEF JobBreaks, BackToIdle
<1>7. ASSUME NEW w \in Workers, SeedFails(w) PROVE TypeOK' /\ Held'
  <2>1. ex' \in ExiterState
    BY <1>7, ExiterTypes DEF SeedFails
  <2>. QED BY <1>7, <2>1 DEF SeedFails, BackToIdle
<1>8. ASSUME NEW w \in Workers, SeedRedirected(w) PROVE TypeOK' /\ Held'
  BY <1>8 DEF SeedRedirected, Units
<1>9. ASSUME NEW w \in Workers, SeedFetched(w) PROVE TypeOK' /\ Held'
  BY <1>9 DEF SeedFetched
<1>10. ASSUME NEW w \in Workers, DedupLooks(w) PROVE TypeOK' /\ Held'
  BY <1>10 DEF DedupLooks
<1>11. ASSUME NEW w \in Workers, DedupInserts(w) PROVE TypeOK' /\ Held'
  BY <1>11 DEF DedupInserts
<1>12. ASSUME NEW w \in Workers, SeedParsed(w) PROVE TypeOK' /\ Held'
  BY <1>12 DEF SeedParsed
<1>13. ASSUME NEW w \in Workers, SeedCountsPlaces(w) PROVE TypeOK' /\ Held'
  <2>1. Cardinality(wnext[w]) \in Nat
    BY <1>13, PlacesOfSeed DEF SeedCountsPlaces
  <2>2. ex' \in ExiterState
    BY <1>13, <2>1, ExiterTypes DEF SeedCountsPlaces
  <2>. QED BY <1>13, <2>2 DEF SeedCountsPlaces
<1>14. ASSUME NEW w \in Workers, SeedCompletes(w) PROVE TypeOK' /\ Held'
  <2>1. ex' \in ExiterState
    BY <1>14, ExiterTypes DEF SeedCompletes
  <2>. QED BY <1>14, <2>1 DEF SeedCompletes
<1>15. ASSUME NEW w \in Workers, PushNext(w) PROVE TypeOK' /\ Held'
  BY <1>15 DEF PushNext, Jobs, Units
<1>16. ASSUME NEW w \in Workers, SeedFinishes(w) PROVE TypeOK' /\ Held'
  BY <1>16 DEF SeedFinishes, BackToIdle
<1>17. ASSUME NEW w \in Workers, PlaceFails(w) PROVE TypeOK' /\ Held'
  <2>1. ex' \in ExiterState
    BY <1>17, ExiterTypes DEF PlaceFails
  <2>. QED BY <1>17, <2>1 DEF PlaceFails, BackToIdle
<1>18. ASSUME NEW w \in Workers, PlaceBecomesEmail(w) PROVE TypeOK' /\ Held'
  BY <1>18 DEF PlaceBecomesEmail, BackToIdle
<1>19. ASSUME NEW w \in Workers, UnitCompletes(w) PROVE TypeOK' /\ Held'
  <2>1. ex' \in ExiterState
    BY <1>19, ExiterTypes DEF UnitCompletes
  <2>. QED BY <1>19, <2>1 DEF UnitCompletes
<1>20. ASSUME NEW w \in Workers, WriterReceives(w) PROVE TypeOK' /\ Held'
  BY <1>20 DEF WriterReceives, BackToIdle
<1>21. ASSUME NEW w \in Workers, WriterFails(w) PROVE TypeOK' /\ Held'
  BY <1>21 DEF WriterFails, BackToIdle
<1>22. ASSUME NEW why \in {"exiter", "inactivity"} \cup Cancels, Cancel(why)
       PROVE  TypeOK' /\ Held'
  BY <1>22 DEF Cancel
<1>23. CASE MateReturns \/ WriterReturns \/ AppReturns \/ UNCHANGED vars
  BY <1>23 DEF MateReturns, WriterReturns, AppReturns, vars
<1>24. CASE ExiterRuns \/ OutsideCancels \/ InactivityExits
  BY <1>22, <1>24 DEF ExiterRuns, OutsideCancels, InactivityExits
<1>. QED
  BY <1>1, <1>2, <1>3, <1>4, <1>5, <1>6, <1>7, <1>8, <1>9, <1>10, <1>11, <1>12, <1>13, <1>14,
     <1>15, <1>16, <1>17, <1>18, <1>19, <1>20, <1>21, <1>23, <1>24
  DEF Next, WorkerStep, Terminated

-----------------------------------------------------------------------------
(* Who has which job                                                        *)

SeedSteps == {"look", "insert", "found", "counted", "push"}

\* A worker's job, and the one its forwarder offers, are where their state says.
AtWork ==
  \A w \in Workers :
    /\ wpc[w] \in {"idle", "exited"} => wjob[w] = Nil
    /\ wpc[w] \in SeedSteps \cup {"fetch"} => at[wjob[w]] = "run"
    /\ wpc[w] = "send" => at[wjob[w]] = "send"
    /\ wpc[w] \notin SeedSteps => wnext[w] = {}
    /\ fjob[w] # Nil => at[fjob[w]] = "fwd"

\* No job is with two of them.
OneEach ==
  \A v, w \in Workers : v # w =>
    /\ wjob[v] = wjob[w] => wjob[v] = Nil
    /\ fjob[v] = fjob[w] => fjob[v] = Nil

CountedSeed(s) ==
  at[s] = "done" \/ \E w \in Workers : wjob[w] = s /\ wpc[w] \in {"counted", "push"}

\* The units of a search appear when its places are counted, and wait for the
\* search to push them.
Listed ==
  /\ \A s \in Seeds : \A p \in Places : Found(<<s, p>>) => CountedSeed(s)
  /\ \A w \in Workers : wpc[w] \in {"counted", "push"} =>
       \A p \in wnext[w] : at[<<wjob[w], p>>] = "next"

WorkInv == TypeOK /\ Held /\ AtWork /\ OneEach /\ Listed

LEMMA JobSorts ==
  /\ Nil \notin Jobs /\ Seeds \subseteq Jobs /\ Units \subseteq Jobs
  /\ \A j \in Units : j \notin Seeds
  /\ \A s \in Seeds : \A p \in Places : <<s, p>> \in Units
  BY NilAssumption, SeedsAssumption DEF Jobs, Units

\* The types that say where the jobs are.
WorkTypes ==
  /\ at \in [Jobs -> JobPlaces]
  /\ wjob \in [Workers -> Jobs \cup {Nil}] /\ fjob \in [Workers -> Jobs \cup {Nil}]
  /\ wpc \in [Workers -> WorkerStates]
  /\ wnext \in [Workers -> SUBSET Places]

LEMMA TypesOfWork == TypeOK => WorkTypes
  BY DEF TypeOK, WorkTypes, WorkerStates

LEMMA WorkInit == Init => WorkInv
<1>1. Units \subseteq Jobs
  BY DEF Jobs
<1>2. \A s \in Seeds : \A p \in Places : <<s, p>> \in Jobs
  BY DEF Jobs, Units
<1>. QED BY <1>1, <1>2, TypeInit DEF Init, WorkInv, AtWork, OneEach, SeedSteps, Listed, Found

LEMMA WorkStep == WorkInv /\ [Next]_vars => WorkInv'
<1>. DEFINE Goal == AtWork /\ OneEach /\ Listed
<1> SUFFICES ASSUME WorkInv, [Next]_vars PROVE Goal'
  BY TypeStep DEF WorkInv
<1>. USE DEF jobState, workerState, provider, SeedSteps, WorkTypes
<1>0. TypeOK /\ Held /\ AtWork /\ OneEach /\ Listed
  BY DEF WorkInv
<1>a. WorkTypes
  BY <1>0, TypesOfWork
<1>1. ASSUME NEW s \in Seeds, PushSeed(s) PROVE Goal'
  <2>1. AtWork'
    BY <1>0, <1>a, JobSorts, <1>1 DEF PushSeed, AtWork, OneEach, Held, WorkerStates
  <2>2. OneEach'
    BY <1>0, <1>a, JobSorts, <1>1 DEF PushSeed, AtWork, OneEach, Held, WorkerStates
  <2>3. Listed'
    BY <1>0, <1>a, JobSorts, <1>1
    DEF PushSeed, AtWork, OneEach, Held, WorkerStates, Listed, CountedSeed, Found
  <2>. QED BY <2>1, <2>2, <2>3
<1>2. ASSUME NEW j \in Jobs, PushDropped(j) PROVE Goal'
  <2>1. AtWork'
    BY <1>0, <1>a, JobSorts, <1>2 DEF PushDropped, AtWork, OneEach, Held, WorkerStates
  <2>2. OneEach'
    BY <1>0, <1>a, JobSorts, <1>2 DEF PushDropped, AtWork, OneEach, Held, WorkerStates
  <2>3. Listed'
    BY <1>0, <1>a, JobSorts, <1>2
    DEF PushDropped, AtWork, OneEach, Held, WorkerStates, Listed, CountedSeed, Found
  <2>. QED BY <2>1, <2>2, <2>3
<1>3. ASSUME NEW w \in Workers, Forward(w) PROVE Goal'
  <2>1. UNCHANGED <<wpc, wjob, wnext>>
    BY <1>3 DEF Forward
  <2>2. CASE \E prios : FwdTakes(w, prios)
    <3>1. PICK j \in Jobs : /\ at[j] = "pushing" /\ at' = [at EXCEPT ![j] = "fwd"]
                            /\ fjob' = [fjob EXCEPT ![w] = j]
      BY <2>2 DEF FwdTakes
    <3>2. AtWork' /\ OneEach'
      BY <1>0, <1>a, JobSorts, <2>1, <3>1 DEF AtWork, OneEach, Held, WorkerStates
    <3>3. Listed'
      BY <1>0, <1>a, JobSorts, <2>1, <3>1 DEF Listed, CountedSeed, Found, Held, AtWork
    <3>. QED BY <3>2, <3>3
  <2>3. CASE \E pc : FwdMoves(w, pc)
    BY <1>0, <2>1, <2>3 DEF FwdMoves, AtWork, OneEach, Listed, CountedSeed, Found
  <2>. QED BY <1>3, <2>2, <2>3 DEF Forward, FwdTop, FwdMiddle, FwdBottom
<1>4. ASSUME NEW w \in Workers, WorkerExits(w) PROVE Goal'
  <2>1. AtWork'
    BY <1>0, <1>a, JobSorts, <1>4 DEF WorkerExits, AtWork, OneEach, Held, WorkerStates
  <2>2. OneEach'
    BY <1>0, <1>a, JobSorts, <1>4 DEF WorkerExits, AtWork, OneEach, Held, WorkerStates
  <2>3. Listed'
    BY <1>0, <1>a, JobSorts, <1>4
    DEF WorkerExits, AtWork, OneEach, Held, WorkerStates, Listed, CountedSeed, Found
  <2>. QED BY <2>1, <2>2, <2>3
<1>5. ASSUME NEW w \in Workers, WorkerReceives(w) PROVE Goal'
  <2>1. AtWork'
    BY <1>0, <1>a, JobSorts, <1>5 DEF WorkerReceives, AtWork, OneEach, Held, WorkerStates
  <2>2. OneEach'
    BY <1>0, <1>a, JobSorts, <1>5 DEF WorkerReceives, AtWork, OneEach, Held, WorkerStates
  <2>3. Listed'
    <3>1. PICK j \in Jobs : /\ at[j] = "fwd" /\ at' = [at EXCEPT ![j] = "run"]
                            /\ wjob' = [wjob EXCEPT ![w] = j]
      BY <1>0, <1>a, <1>5 DEF WorkerReceives, AtWork
    <3>2. wpc[w] = "idle" /\ wpc' = [wpc EXCEPT ![w] = "fetch"] /\ wnext' = wnext /\ wjob[w] = Nil
      BY <1>0, <1>5 DEF WorkerReceives, AtWork
    <3>3. \A u \in Units : at[u] = "none" => at'[u] = "none"
      BY <1>a, JobSorts, <3>1
    <3>4. \A s \in Seeds : CountedSeed(s) => CountedSeed(s)'
      BY <1>a, JobSorts, <3>1, <3>2 DEF CountedSeed
    <3>5. \A s \in Seeds : \A p \in Places : Found(<<s, p>>)' => CountedSeed(s)'
      BY <1>0, JobSorts, <3>3, <3>4 DEF Listed, Found
    <3>6. \A v \in Workers : wpc'[v] \in {"counted", "push"} =>
            \A p \in wnext'[v] : at'[<<wjob'[v], p>>] = "next"
      BY <1>0, <1>a, JobSorts, <3>1, <3>2 DEF Listed, Held
    <3>. QED BY <3>5, <3>6 DEF Listed
  <2>. QED BY <2>1, <2>2, <2>3
<1>6. ASSUME NEW w \in Workers, JobBreaks(w) PROVE Goal'
  <2>1. AtWork'
    BY <1>0, <1>a, JobSorts, <1>6 DEF JobBreaks, BackToIdle, AtWork, OneEach, Held, WorkerStates
  <2>2. OneEach'
    BY <1>0, <1>a, JobSorts, <1>6 DEF JobBreaks, BackToIdle, AtWork, OneEach, Held, WorkerStates
  <2>3. Listed'
    BY <1>0, <1>a, JobSorts, <1>6
    DEF JobBreaks, BackToIdle, AtWork, OneEach, Held, WorkerStates, Listed, CountedSeed, Found
  <2>. QED BY <2>1, <2>2, <2>3
<1>7. ASSUME NEW w \in Workers, SeedFails(w) PROVE Goal'
  <2>1. AtWork'
    BY <1>0, <1>a, JobSorts, <1>7 DEF SeedFails, BackToIdle, AtWork, OneEach, Held, WorkerStates
  <2>2. OneEach'
    BY <1>0, <1>a, JobSorts, <1>7 DEF SeedFails, BackToIdle, AtWork, OneEach, Held, WorkerStates
  <2>3. Listed'
    BY <1>0, <1>a, JobSorts, <1>7
    DEF SeedFails, BackToIdle, AtWork, OneEach, Held, WorkerStates, Listed, CountedSeed, Found
  <2>. QED BY <2>1, <2>2, <2>3
<1>8. ASSUME NEW w \in Workers, SeedRedirected(w) PROVE Goal'
  <2>1. AtWork'
    BY <1>0, <1>a, JobSorts, <1>8 DEF SeedRedirected, AtWork, OneEach, Held, WorkerStates
  <2>2. OneEach'
    BY <1>0, <1>a, JobSorts, <1>8 DEF SeedRedirected, AtWork, OneEach, Held, WorkerStates
  <2>3. Listed'
    BY <1>0, <1>a, JobSorts, <1>8
    DEF SeedRedirected, AtWork, OneEach, Held, WorkerStates, Listed, CountedSeed, Found
  <2>. QED BY <2>1, <2>2, <2>3
<1>9. ASSUME NEW w \in Workers, SeedFetched(w) PROVE Goal'
  <2>1. AtWork'
    BY <1>0, <1>a, JobSorts, <1>9 DEF SeedFetched, AtWork, OneEach, Held, WorkerStates
  <2>2. OneEach'
    BY <1>0, <1>a, JobSorts, <1>9 DEF SeedFetched, AtWork, OneEach, Held, WorkerStates
  <2>3. Listed'
    BY <1>0, <1>a, JobSorts, <1>9
    DEF SeedFetched, AtWork, OneEach, Held, WorkerStates, Listed, CountedSeed, Found
  <2>. QED BY <2>1, <2>2, <2>3
<1>10. ASSUME NEW w \in Workers, DedupLooks(w) PROVE Goal'
  <2>1. AtWork'
    BY <1>0, <1>a, JobSorts, <1>10 DEF DedupLooks, AtWork, OneEach, Held, WorkerStates
  <2>2. OneEach'
    BY <1>0, <1>a, JobSorts, <1>10 DEF DedupLooks, AtWork, OneEach, Held, WorkerStates
  <2>3. Listed'
    BY <1>0, <1>a, JobSorts, <1>10
    DEF DedupLooks, AtWork, OneEach, Held, WorkerStates, Listed, CountedSeed, Found
  <2>. QED BY <2>1, <2>2, <2>3
<1>11. ASSUME NEW w \in Workers, DedupInserts(w) PROVE Goal'
  <2>1. AtWork'
    BY <1>0, <1>a, JobSorts, <1>11 DEF DedupInserts, AtWork, OneEach, Held, WorkerStates
  <2>2. OneEach'
    BY <1>0, <1>a, JobSorts, <1>11 DEF DedupInserts, AtWork, OneEach, Held, WorkerStates
  <2>3. Listed'
    BY <1>0, <1>a, JobSorts, <1>11
    DEF DedupInserts, AtWork, OneEach, Held, WorkerStates, Listed, CountedSeed, Found
  <2>. QED BY <2>1, <2>2, <2>3
<1>12. ASSUME NEW w \in Workers, SeedParsed(w) PROVE Goal'
  <2>1. AtWork'
    BY <1>0, <1>a, JobSorts, <1>12 DEF SeedParsed, AtWork, OneEach, Held, WorkerStates
  <2>2. OneEach'
    BY <1>0, <1>a, JobSorts, <1>12 DEF SeedParsed, AtWork, OneEach, Held, WorkerStates
  <2>3. Listed'
    BY <1>0, <1>a, JobSorts, <1>12
    DEF SeedParsed, AtWork, OneEach, Held, WorkerStates, Listed, CountedSeed, Found
  <2>. QED BY <2>1, <2>2, <2>3
<1>13. ASSUME NEW w \in Workers, SeedCountsPlaces(w) PROVE Goal'
  <2>0. \A p \in wnext[w] : at[<<wjob[w], p>>] = "none"
    BY <1>0, <1>a, JobSorts, <1>13
    DEF SeedCountsPlaces, AtWork, OneEach, Held, Listed, CountedSeed, Found
  <2>a. /\ UNCHANGED <<wjob, wnext, fjob>> /\ wpc' = [wpc EXCEPT ![w] = "counted"]
        /\ wpc[w] = "found" /\ wjob[w] \in Seeds
    BY <1>0, <1>13 DEF SeedCountsPlaces, Held
  <2>b. \A j \in Jobs : at[j] # "none" => at'[j] = at[j]
    <3>1. \A j \in {wjob[w]} \X wnext[w] : at[j] = "none"
      BY <2>0
    <3>. QED BY <1>13, <3>1 DEF SeedCountsPlaces
  <2>1. AtWork'
    BY <1>0, <1>a, JobSorts, <2>a, <2>b DEF AtWork, Held, WorkerStates
  <2>2. OneEach'
    BY <1>0, <1>a, JobSorts, <1>13 DEF SeedCountsPlaces, AtWork, OneEach, Held, WorkerStates
  <2>3. Listed'
    BY <1>0, <1>a, JobSorts, <1>13
    DEF SeedCountsPlaces, AtWork, OneEach, Held, WorkerStates, Listed, CountedSeed, Found
  <2>. QED BY <2>1, <2>2, <2>3
<1>14. ASSUME NEW w \in Workers, SeedCompletes(w) PROVE Goal'
  <2>1. AtWork'
    BY <1>0, <1>a, JobSorts, <1>14 DEF SeedCompletes, AtWork, OneEach, Held, WorkerStates
  <2>2. OneEach'
    BY <1>0, <1>a, JobSorts, <1>14 DEF SeedCompletes, AtWork, OneEach, Held, WorkerStates
  <2>3. Listed'
    BY <1>0, <1>a, JobSorts, <1>14
    DEF SeedCompletes, AtWork, OneEach, Held, WorkerStates, Listed, CountedSeed, Found
  <2>. QED BY <2>1, <2>2, <2>3
<1>15. ASSUME NEW w \in Workers, PushNext(w) PROVE Goal'
  <2>1. AtWork'
    BY <1>0, <1>a, JobSorts, <1>15 DEF PushNext, AtWork, OneEach, Held, WorkerStates, Listed
  <2>2. OneEach'
    BY <1>0, <1>a, JobSorts, <1>15 DEF PushNext, AtWork, OneEach, Held, WorkerStates
  <2>3. Listed'
    BY <1>0, <1>a, JobSorts, <1>15
    DEF PushNext, AtWork, OneEach, Held, WorkerStates, Listed, CountedSeed, Found
  <2>. QED BY <2>1, <2>2, <2>3
<1>16. ASSUME NEW w \in Workers, SeedFinishes(w) PROVE Goal'
  <2>1. AtWork'
    BY <1>0, <1>a, JobSorts, <1>16
    DEF SeedFinishes, BackToIdle, AtWork, OneEach, Held, WorkerStates
  <2>2. OneEach'
    BY <1>0, <1>a, JobSorts, <1>16
    DEF SeedFinishes, BackToIdle, AtWork, OneEach, Held, WorkerStates
  <2>3. Listed'
    BY <1>0, <1>a, JobSorts, <1>16
    DEF SeedFinishes, BackToIdle, AtWork, OneEach, Held, WorkerStates, Listed, CountedSeed, Found
  <2>. QED BY <2>1, <2>2, <2>3
<1>17. ASSUME NEW w \in Workers, PlaceFails(w) PROVE Goal'
  <2>1. AtWork'
    BY <1>0, <1>a, JobSorts, <1>17
    DEF PlaceFails, BackToIdle, AtWork, OneEach, Held, WorkerStates
  <2>2. OneEach'
    BY <1>0, <1>a, JobSorts, <1>17
    DEF PlaceFails, BackToIdle, AtWork, OneEach, Held, WorkerStates
  <2>3. Listed'
    BY <1>0, <1>a, JobSorts, <1>17
    DEF PlaceFails, BackToIdle, AtWork, OneEach, Held, WorkerStates, Listed, CountedSeed, Found
  <2>. QED BY <2>1, <2>2, <2>3
<1>18. ASSUME NEW w \in Workers, PlaceBecomesEmail(w) PROVE Goal'
  <2>1. AtWork'
    BY <1>0, <1>a, JobSorts, <1>18
    DEF PlaceBecomesEmail, BackToIdle, AtWork, OneEach, Held, WorkerStates
  <2>2. OneEach'
    BY <1>0, <1>a, JobSorts, <1>18
    DEF PlaceBecomesEmail, BackToIdle, AtWork, OneEach, Held, WorkerStates
  <2>3. Listed'
    BY <1>0, <1>a, JobSorts, <1>18
    DEF PlaceBecomesEmail, BackToIdle, AtWork, OneEach, Held, WorkerStates, Listed,
        CountedSeed, Found
  <2>. QED BY <2>1, <2>2, <2>3
<1>19. ASSUME NEW w \in Workers, UnitCompletes(w) PROVE Goal'
  <2>1. AtWork'
    BY <1>0, <1>a, JobSorts, <1>19 DEF UnitCompletes, AtWork, OneEach, Held, WorkerStates
  <2>2. OneEach'
    BY <1>0, <1>a, JobSorts, <1>19 DEF UnitCompletes, AtWork, OneEach, Held, WorkerStates
  <2>3. Listed'
    BY <1>0, <1>a, JobSorts, <1>19
    DEF UnitCompletes, AtWork, OneEach, Held, WorkerStates, Listed, CountedSeed, Found
  <2>. QED BY <2>1, <2>2, <2>3
<1>20. ASSUME NEW w \in Workers, WriterReceives(w) PROVE Goal'
  <2>1. AtWork'
    BY <1>0, <1>a, JobSorts, <1>20
    DEF WriterReceives, BackToIdle, AtWork, OneEach, Held, WorkerStates
  <2>2. OneEach'
    BY <1>0, <1>a, JobSorts, <1>20
    DEF WriterReceives, BackToIdle, AtWork, OneEach, Held, WorkerStates
  <2>3. Listed'
    BY <1>0, <1>a, JobSorts, <1>20
    DEF WriterReceives, BackToIdle, AtWork, OneEach, Held, WorkerStates, Listed,
        CountedSeed, Found
  <2>. QED BY <2>1, <2>2, <2>3
<1>21. ASSUME NEW w \in Workers, WriterFails(w) PROVE Goal'
  <2>1. AtWork'
    BY <1>0, <1>a, JobSorts, <1>21
    DEF WriterFails, BackToIdle, AtWork, OneEach, Held, WorkerStates
  <2>2. OneEach'
    BY <1>0, <1>a, JobSorts, <1>21
    DEF WriterFails, BackToIdle, AtWork, OneEach, Held, WorkerStates
  <2>3. Listed'
    BY <1>0, <1>a, JobSorts, <1>21
    DEF WriterFails, BackToIdle, AtWork, OneEach, Held, WorkerStates, Listed, CountedSeed, Found
  <2>. QED BY <2>1, <2>2, <2>3
<1>22. ASSUME UNCHANGED <<at, wpc, wjob, wnext, fjob>> PROVE Goal'
  BY <1>0, <1>22 DEF AtWork, OneEach, Listed, CountedSeed, Found
<1>23. ASSUME NEW w \in Workers, WorkerRestartsProvider(w) \/ WorkerReceivesNil(w)
      PROVE  Goal'
  BY <1>22, <1>23 DEF WorkerRestartsProvider, WorkerReceivesNil
<1>24. CASE \/ ExiterRuns \/ OutsideCancels \/ InactivityExits
           \/ MateReturns \/ WriterReturns \/ AppReturns \/ UNCHANGED vars
  BY <1>22, <1>24
  DEF ExiterRuns, OutsideCancels, InactivityExits, Cancel, MateReturns, WriterReturns, AppReturns,
      vars
<1>. HIDE DEF Goal
<1>. QED
  BY <1>1, <1>2, <1>3, <1>4, <1>5, <1>6, <1>7, <1>8, <1>9, <1>10, <1>11, <1>12, <1>13,
      <1>14, <1>15, <1>16, <1>17, <1>18, <1>19, <1>20, <1>21, <1>23, <1>24
  DEF Next, WorkerStep, Terminated

-----------------------------------------------------------------------------
(* Who scrapes which place                                                  *)

\* A search that its result list gave the place, rather than a redirect.
Claim(s, p) ==
  /\ <<s, p>> \notin direct
  /\ Found(<<s, p>>) \/ \E w \in Workers : wjob[w] = s /\ p \in wnext[w]

\* The deduper knows a claimed place, and one search alone has it.
Claims ==
  \A p \in Places : \A s \in Seeds : Claim(s, p) =>
    /\ p \in seen
    /\ \A t \in Seeds : Claim(t, p) => s = t

LEMMA ClaimsInit == Init => Claims
<1>1. \A s \in Seeds : \A p \in Places : <<s, p>> \in Jobs
  BY DEF Jobs, Units
<1>. QED BY <1>1 DEF Init, Claims, Claim, Found

\* Steps that find no place that was not claimed already.
LEMMA NoNewClaim ==
  ASSUME Claims, seen \subseteq seen',
         \A s \in Seeds : \A p \in Places : Claim(s, p)' => Claim(s, p)
  PROVE  Claims'
  BY DEF Claims

LEMMA ClaimsStep == WorkInv /\ Claims /\ [Next]_vars => Claims'
<1>. DEFINE Old == \A s \in Seeds : \A p \in Places : Claim(s, p)' => Claim(s, p)
<1> SUFFICES ASSUME WorkInv, Claims, [Next]_vars PROVE Claims'
  OBVIOUS
<1>. USE DEF jobState, workerState, provider, SeedSteps, WorkTypes
<1>0. TypeOK /\ Held /\ AtWork /\ OneEach /\ Listed
  BY DEF WorkInv
<1>a. WorkTypes
  BY <1>0, TypesOfWork
<1>1. ASSUME NEW s \in Seeds, PushSeed(s) PROVE Claims'
  <2>1. Old /\ seen' = seen
    BY <1>0, <1>a, JobSorts, <1>1 DEF PushSeed, AtWork, Held, Listed, Claim, Found
  <2>. QED BY <2>1, NoNewClaim
<1>2. ASSUME NEW j \in Jobs, PushDropped(j) PROVE Claims'
  <2>1. Old /\ seen' = seen
    BY <1>0, <1>a, JobSorts, <1>2 DEF PushDropped, AtWork, Held, Listed, Claim, Found
  <2>. QED BY <2>1, NoNewClaim
<1>3. ASSUME NEW w \in Workers, Forward(w) PROVE Claims'
  <2>1. UNCHANGED <<wpc, wjob, wnext, direct, seen>>
    BY <1>3 DEF Forward
  <2>2. \A u \in Units : Found(u)' => Found(u)
    BY <1>a, JobSorts, <1>3 DEF Forward, FwdTop, FwdMiddle, FwdBottom, FwdTakes, FwdMoves, Found
  <2>. QED BY JobSorts, <2>1, <2>2, NoNewClaim DEF Claim
<1>4. ASSUME NEW w \in Workers, WorkerExits(w) PROVE Claims'
  <2>1. Old /\ seen' = seen
    BY <1>0, <1>a, JobSorts, <1>4 DEF WorkerExits, AtWork, Held, Listed, Claim, Found
  <2>. QED BY <2>1, NoNewClaim
<1>5. ASSUME NEW w \in Workers, WorkerReceives(w) PROVE Claims'
  <2>1. Old /\ seen' = seen
    BY <1>0, <1>a, JobSorts, <1>5 DEF WorkerReceives, AtWork, Held, Listed, Claim, Found
  <2>. QED BY <2>1, NoNewClaim
<1>6. ASSUME NEW w \in Workers, JobBreaks(w) PROVE Claims'
  <2>1. Old /\ seen' = seen
    BY <1>0, <1>a, JobSorts, <1>6 DEF JobBreaks, BackToIdle, AtWork, Held, Listed, Claim, Found
  <2>. QED BY <2>1, NoNewClaim
<1>7. ASSUME NEW w \in Workers, SeedFails(w) PROVE Claims'
  <2>1. Old /\ seen' = seen
    BY <1>0, <1>a, JobSorts, <1>7 DEF SeedFails, BackToIdle, AtWork, Held, Listed, Claim, Found
  <2>. QED BY <2>1, NoNewClaim
<1>8. ASSUME NEW w \in Workers, SeedRedirected(w) PROVE Claims'
  <2>1. Old /\ seen' = seen
    BY <1>0, <1>a, JobSorts, <1>8 DEF SeedRedirected, AtWork, Held, Listed, Claim, Found
  <2>. QED BY <2>1, NoNewClaim
<1>9. ASSUME NEW w \in Workers, SeedFetched(w) PROVE Claims'
  <2>1. Old /\ seen' = seen
    BY <1>0, <1>a, JobSorts, <1>9 DEF SeedFetched, AtWork, Held, Listed, Claim, Found
  <2>. QED BY <2>1, NoNewClaim
<1>10. ASSUME NEW w \in Workers, DedupLooks(w) PROVE Claims'
  <2>1. Old /\ seen' = seen
    BY <1>0, <1>a, JobSorts, <1>10 DEF DedupLooks, AtWork, Held, Listed, Claim, Found
  <2>. QED BY <2>1, NoNewClaim
<1>11. ASSUME NEW w \in Workers, DedupInserts(w) PROVE Claims'
  <2>. DEFINE q == whref[w]
              t == wjob[w]
  <2>0. q \in Places /\ t \in Seeds
    BY <1>0, <1>11 DEF DedupInserts, Held
  <2>1. UNCHANGED <<at, wjob, direct>>
    BY <1>11 DEF DedupInserts
  <2>2. CASE UNCHANGED <<seen, wnext>>
    BY <2>1, <2>2, NoNewClaim DEF Claim, Found
  <2>3. CASE /\ q \notin seen /\ seen' = seen \cup {q}
             /\ wnext' = [wnext EXCEPT ![w] = @ \cup {q}]
    <3>1. \A s \in Seeds : ~Claim(s, q)
      BY <2>0, <2>3 DEF Claims
    <3>2. \A s \in Seeds : \A p \in Places : Claim(s, p)' => Claim(s, p) \/ (s = t /\ p = q)
      BY <1>a, <2>0, <2>1, <2>3 DEF Claim, Found
    <3>. HIDE DEF q, t
    <3>. QED BY <2>3, <3>1, <3>2 DEF Claims
  <2>. QED BY <1>11, <2>2, <2>3 DEF DedupInserts, Admits
<1>12. ASSUME NEW w \in Workers, SeedParsed(w) PROVE Claims'
  <2>1. Old /\ seen' = seen
    BY <1>0, <1>a, JobSorts, <1>12 DEF SeedParsed, AtWork, Held, Listed, Claim, Found
  <2>. QED BY <2>1, NoNewClaim
<1>13. ASSUME NEW w \in Workers, SeedCountsPlaces(w) PROVE Claims'
  <2>1. Old /\ seen' = seen
    BY <1>0, <1>a, JobSorts, <1>13 DEF SeedCountsPlaces, AtWork, Held, Listed, Claim, Found
  <2>. QED BY <2>1, NoNewClaim
<1>14. ASSUME NEW w \in Workers, SeedCompletes(w) PROVE Claims'
  <2>1. Old /\ seen' = seen
    BY <1>0, <1>a, JobSorts, <1>14 DEF SeedCompletes, AtWork, Held, Listed, Claim, Found
  <2>. QED BY <2>1, NoNewClaim
<1>15. ASSUME NEW w \in Workers, PushNext(w) PROVE Claims'
  <2>1. Old /\ seen' = seen
    BY <1>0, <1>a, JobSorts, <1>15 DEF PushNext, AtWork, Held, Listed, Claim, Found
  <2>. QED BY <2>1, NoNewClaim
<1>16. ASSUME NEW w \in Workers, SeedFinishes(w) PROVE Claims'
  <2>1. Old /\ seen' = seen
    BY <1>0, <1>a, JobSorts, <1>16
    DEF SeedFinishes, BackToIdle, AtWork, Held, Listed, Claim, Found
  <2>. QED BY <2>1, NoNewClaim
<1>17. ASSUME NEW w \in Workers, PlaceFails(w) PROVE Claims'
  <2>1. Old /\ seen' = seen
    BY <1>0, <1>a, JobSorts, <1>17
    DEF PlaceFails, BackToIdle, AtWork, Held, Listed, Claim, Found
  <2>. QED BY <2>1, NoNewClaim
<1>18. ASSUME NEW w \in Workers, PlaceBecomesEmail(w) PROVE Claims'
  <2>1. Old /\ seen' = seen
    BY <1>0, <1>a, JobSorts, <1>18
    DEF PlaceBecomesEmail, BackToIdle, AtWork, Held, Listed, Claim, Found
  <2>. QED BY <2>1, NoNewClaim
<1>19. ASSUME NEW w \in Workers, UnitCompletes(w) PROVE Claims'
  <2>1. Old /\ seen' = seen
    BY <1>0, <1>a, JobSorts, <1>19 DEF UnitCompletes, AtWork, Held, Listed, Claim, Found
  <2>. QED BY <2>1, NoNewClaim
<1>20. ASSUME NEW w \in Workers, WriterReceives(w) PROVE Claims'
  <2>1. Old /\ seen' = seen
    BY <1>0, <1>a, JobSorts, <1>20
    DEF WriterReceives, BackToIdle, AtWork, Held, Listed, Claim, Found
  <2>. QED BY <2>1, NoNewClaim
<1>21. ASSUME NEW w \in Workers, WriterFails(w) PROVE Claims'
  <2>1. Old /\ seen' = seen
    BY <1>0, <1>a, JobSorts, <1>21
    DEF WriterFails, BackToIdle, AtWork, Held, Listed, Claim, Found
  <2>. QED BY <2>1, NoNewClaim
<1>22. ASSUME UNCHANGED <<at, wjob, wnext, direct, seen>> PROVE Claims'
  BY <1>22, NoNewClaim DEF Claim, Found
<1>23. ASSUME NEW w \in Workers, WorkerRestartsProvider(w) \/ WorkerReceivesNil(w)
      PROVE  Claims'
  BY <1>22, <1>23 DEF WorkerRestartsProvider, WorkerReceivesNil
<1>24. CASE \/ ExiterRuns \/ OutsideCancels \/ InactivityExits
           \/ MateReturns \/ WriterReturns \/ AppReturns \/ UNCHANGED vars
  BY <1>22, <1>24
  DEF ExiterRuns, OutsideCancels, InactivityExits, Cancel, MateReturns, WriterReturns, AppReturns,
      vars
<1>. QED
  BY <1>1, <1>2, <1>3, <1>4, <1>5, <1>6, <1>7, <1>8, <1>9, <1>10, <1>11, <1>12, <1>13,
      <1>14, <1>15, <1>16, <1>17, <1>18, <1>19, <1>20, <1>21, <1>23, <1>24
  DEF Next, WorkerStep, Terminated

-----------------------------------------------------------------------------
(* What the exit monitor has counted                                        *)

\* The searches that may have been counted as completed.
SeedsDone ==
  {s \in Seeds : \/ at[s] \in {"done", "failed"}
                 \/ \E w \in Workers : wjob[w] = s /\ wpc[w] = "push"}

FoundUnits == {u \in Units : at[u] # "none"}

EndedUnits == {u \in Units : at[u] \in {"send", "written", "lost", "failed"}}

\* A broken job is not counted, so the two completions are bounds; the places found
\* are counted exactly.  Once the channel has its token there is nothing to do.
Counts ==
  /\ ex.seedCount = Cardinality(Seeds)
  /\ ex.seedCompleted <= Cardinality(SeedsDone)
  /\ ex.placesFound = Cardinality(FoundUnits)
  /\ ex.placesCompleted <= Cardinality(EndedUnits)
  /\ ex.doneCh => Seeds \subseteq SeedsDone /\ FoundUnits \subseteq EndedUnits
  /\ cause = "exiter" => ex.doneCh

LEMMA CountsInit == Init => Counts
<1> SUFFICES ASSUME Init PROVE Counts
  OBVIOUS
<1>1. SeedsDone = {} /\ FoundUnits = {} /\ EndedUnits = {}
  BY NilAssumption DEF Init, SeedsDone, FoundUnits, EndedUnits, Jobs
<1>. QED BY <1>1, FS_EmptySet, SeedsFinite DEF Init, Counts, NewExiter

LEMMA UnitsFinite == \A U \in SUBSET Units : IsFiniteSet(U) /\ Cardinality(U) \in Nat
<1>1. \A U \in SUBSET Units : U \subseteq Jobs /\ IsFiniteSet(Jobs)
  BY SeedsAssumption DEF Jobs
<1>. QED BY <1>1, FS_Subset, FS_CardinalityType

\* The monitor's token means what it says after any step that keeps the counts.
LEMMA CountsAfter ==
  ASSUME Counts, ex' \in ExiterState,
         ex'.seedCount = ex.seedCount,
         ex'.seedCompleted <= Cardinality(SeedsDone'),
         ex'.placesFound = Cardinality(FoundUnits'),
         ex'.placesCompleted <= Cardinality(EndedUnits'),
         ex'.doneCh => ex.doneCh \/ AllDone(ex'),
         SeedsDone \subseteq SeedsDone', EndedUnits \subseteq EndedUnits',
         ex.doneCh => FoundUnits' = FoundUnits,
         cause' = "exiter" => ex'.doneCh
  PROVE  Counts'
<1>1. SeedsDone' \subseteq Seeds /\ EndedUnits' \subseteq FoundUnits' /\ FoundUnits'
    \subseteq Units
  BY DEF SeedsDone, EndedUnits, FoundUnits
<1>2. ASSUME AllDone(ex') PROVE SeedsDone' = Seeds /\ EndedUnits' = FoundUnits'
  <2>1. /\ ex'.seedCompleted \in Nat /\ ex'.seedCount \in Nat
        /\ ex'.placesCompleted \in Nat /\ ex'.placesFound \in Nat
    BY DEF ExiterState
  <2>2. /\ IsFiniteSet(FoundUnits') /\ Cardinality(FoundUnits') \in Nat
        /\ Cardinality(EndedUnits') \in Nat
    BY <1>1, UnitsFinite
  <2>3. Cardinality(EndedUnits') <= Cardinality(FoundUnits')
    BY <1>1, <2>2, FS_Subset
  <2>4. Cardinality(EndedUnits') = Cardinality(FoundUnits')
    BY <1>2, <2>1, <2>2, <2>3 DEF AllDone
  <2>5. Cardinality(SeedsDone') <= Cardinality(Seeds) /\ Cardinality(SeedsDone') \in Nat
    BY <1>1, SeedsFinite, FS_Subset, FS_CardinalityType
  <2>6. Cardinality(SeedsDone') = Cardinality(Seeds)
    BY <1>2, <2>1, <2>5, SeedsFinite DEF AllDone, Counts
  <2>. QED BY <1>1, <2>2, <2>4, <2>6, SeedsFinite, FS_Subset
<1>3. ex'.doneCh => Seeds \subseteq SeedsDone' /\ FoundUnits' \subseteq EndedUnits'
  BY <1>2 DEF Counts
<1>. QED BY <1>3 DEF Counts

\* Both sets of completions grow, as far as they change.
LEMMA Grow ==
  ASSUME SeedsDone \subseteq SeedsDone', EndedUnits \subseteq EndedUnits'
  PROVE  /\ Cardinality(SeedsDone) <= Cardinality(SeedsDone')
         /\ Cardinality(EndedUnits) <= Cardinality(EndedUnits')
         /\ Cardinality(SeedsDone) \in Nat /\ Cardinality(SeedsDone') \in Nat
         /\ Cardinality(EndedUnits) \in Nat /\ Cardinality(EndedUnits') \in Nat
<1>1. SeedsDone \subseteq Seeds /\ SeedsDone' \subseteq Seeds
  BY DEF SeedsDone
<1>2. EndedUnits \subseteq Units /\ EndedUnits' \subseteq Units
  BY DEF EndedUnits
<1>3. IsFiniteSet(SeedsDone) /\ IsFiniteSet(SeedsDone')
  BY <1>1, SeedsFinite, FS_Subset
<1>. QED BY <1>2, <1>3, UnitsFinite, FS_Subset, FS_CardinalityType

LEMMA NothingCounted ==
  ASSUME TypeOK, Counts, UNCHANGED ex,
         SeedsDone \subseteq SeedsDone', EndedUnits \subseteq EndedUnits',
         FoundUnits' = FoundUnits, cause' = "exiter" => cause = "exiter" \/ ex.doneCh
  PROVE  Counts'
<1>1. /\ ex \in ExiterState /\ ex.seedCompleted \in Nat /\ ex.placesCompleted \in Nat
  BY DEF TypeOK, ExiterState
<1>. QED BY <1>1, Grow, CountsAfter DEF Counts

LEMMA OneMore ==
  ASSUME NEW S, NEW T, NEW x, IsFiniteSet(T), S \cup {x} \subseteq T, x \notin S
  PROVE  Cardinality(S) + 1 <= Cardinality(T)
<1>1. IsFiniteSet(S) /\ IsFiniteSet(S \cup {x})
  BY FS_Subset
<1>2. Cardinality(S \cup {x}) = Cardinality(S) + 1
  BY <1>1, FS_AddElement
<1>. QED BY <1>2, FS_Subset

LEMMA SeedCounted ==
  ASSUME TypeOK, Counts, ex' = IncrSeedCompleted(ex, 1), UNCHANGED cause,
         NEW s \in Seeds \ SeedsDone, s \in SeedsDone',
         SeedsDone \subseteq SeedsDone', EndedUnits \subseteq EndedUnits',
         FoundUnits' = FoundUnits
  PROVE  Counts'
<1>. DEFINE e == [ex EXCEPT !.seedCompleted = @ + 1]
<1>1. /\ ex \in ExiterState /\ ex.seedCompleted \in Nat /\ ex.placesCompleted \in Nat
      /\ e \in ExiterState /\ e.seedCompleted = ex.seedCompleted + 1 /\ e.doneCh = ex.doneCh
      /\ e.seedCount = ex.seedCount /\ e.placesFound = ex.placesFound
      /\ e.placesCompleted = ex.placesCompleted
  BY DEF TypeOK, ExiterState
<1>2. ex' = Notify(e)
  BY DEF IncrSeedCompleted
<1>. HIDE DEF e
<1>3. /\ ex' \in ExiterState /\ ex'.seedCompleted = e.seedCompleted
      /\ ex'.seedCount = e.seedCount /\ ex'.placesFound = e.placesFound
      /\ ex'.placesCompleted = e.placesCompleted /\ ex'.doneCh = (e.doneCh \/ AllDone(e))
  BY <1>1, <1>2, NotifyType
<1>4. AllDone(e) => AllDone(ex')
  BY <1>3 DEF AllDone
<1>5. IsFiniteSet(SeedsDone')
  BY SeedsFinite, FS_Subset DEF SeedsDone
<1>6. Cardinality(SeedsDone) + 1 <= Cardinality(SeedsDone')
  BY <1>5, OneMore
<1>7. ex'.seedCompleted <= Cardinality(SeedsDone')
  BY <1>1, <1>3, <1>6, Grow DEF Counts
<1>8. ex'.placesCompleted <= Cardinality(EndedUnits')
  BY <1>1, <1>3, Grow DEF Counts
<1>. QED BY <1>1, <1>3, <1>4, <1>7, <1>8, CountsAfter DEF Counts

LEMMA UnitCounted ==
  ASSUME TypeOK, Counts, ex' = IncrPlacesCompleted(ex, 1), UNCHANGED cause,
         NEW u \in Units \ EndedUnits, u \in EndedUnits',
         SeedsDone \subseteq SeedsDone', EndedUnits \subseteq EndedUnits',
         FoundUnits' = FoundUnits
  PROVE  Counts'
<1>. DEFINE e == [ex EXCEPT !.placesCompleted = @ + 1]
<1>1. /\ ex \in ExiterState /\ ex.seedCompleted \in Nat /\ ex.placesCompleted \in Nat
      /\ e \in ExiterState /\ e.placesCompleted = ex.placesCompleted + 1
      /\ e.doneCh = ex.doneCh /\ e.seedCount = ex.seedCount /\ e.placesFound = ex.placesFound
      /\ e.seedCompleted = ex.seedCompleted
  BY DEF TypeOK, ExiterState
<1>2. ex' = Notify(e)
  BY DEF IncrPlacesCompleted
<1>. HIDE DEF e
<1>3. /\ ex' \in ExiterState /\ ex'.seedCompleted = e.seedCompleted
      /\ ex'.seedCount = e.seedCount /\ ex'.placesFound = e.placesFound
      /\ ex'.placesCompleted = e.placesCompleted /\ ex'.doneCh = (e.doneCh \/ AllDone(e))
  BY <1>1, <1>2, NotifyType
<1>4. AllDone(e) => AllDone(ex')
  BY <1>3 DEF AllDone
<1>5. EndedUnits' \subseteq Units
  BY DEF EndedUnits
<1>6. Cardinality(EndedUnits) + 1 <= Cardinality(EndedUnits')
  BY <1>5, OneMore, UnitsFinite
<1>7. ex'.placesCompleted <= Cardinality(EndedUnits')
  BY <1>1, <1>3, <1>6, Grow DEF Counts
<1>8. ex'.seedCompleted <= Cardinality(SeedsDone')
  BY <1>1, <1>3, Grow DEF Counts
<1>. QED BY <1>1, <1>3, <1>4, <1>7, <1>8, CountsAfter DEF Counts

\* The places of a search are counted before the search is.
LEMMA PlacesCounted ==
  ASSUME TypeOK, Counts, NEW s \in Seeds \ SeedsDone, NEW P \in SUBSET Places,
         ex' = IncrPlacesFound(ex, Cardinality(P)), UNCHANGED cause,
         FoundUnits' = FoundUnits \cup ({s} \X P), FoundUnits \cap ({s} \X P) = {},
         SeedsDone \subseteq SeedsDone', EndedUnits \subseteq EndedUnits'
  PROVE  Counts'
<1>1. /\ ex \in ExiterState /\ ex.seedCompleted \in Nat /\ ex.placesCompleted \in Nat
      /\ ex.placesFound \in Nat
  BY DEF TypeOK, ExiterState
<1>2. Cardinality(P) \in Nat /\ IsFiniteSet({s} \X P) /\ Cardinality({s} \X P) = Cardinality(P)
  BY PlacesOfSeed
<1>3. /\ ex' \in ExiterState /\ ex'.seedCompleted = ex.seedCompleted
      /\ ex'.seedCount = ex.seedCount /\ ex'.placesFound = ex.placesFound + Cardinality(P)
      /\ ex'.placesCompleted = ex.placesCompleted /\ ex'.doneCh = ex.doneCh
  BY <1>1, <1>2 DEF IncrPlacesFound, ExiterState
<1>4. IsFiniteSet(FoundUnits) /\ Cardinality(FoundUnits) \in Nat
  BY UnitsFinite DEF FoundUnits
<1>5. Cardinality(FoundUnits') = Cardinality(FoundUnits) + Cardinality(P)
  <2>1. Cardinality(FoundUnits \cup ({s} \X P)) =
          Cardinality(FoundUnits) + Cardinality({s} \X P) - Cardinality(FoundUnits \cap ({s}
              \X P))
    BY <1>2, <1>4, FS_Union
  <2>2. Cardinality(FoundUnits \cap ({s} \X P)) = 0
    BY FS_EmptySet
  <2>. QED BY <1>2, <1>4, <2>1, <2>2
<1>6. ~ex.doneCh
  BY DEF Counts
<1>. QED BY <1>1, <1>3, <1>5, <1>6, Grow, CountsAfter DEF Counts

LEMMA CountsStep == WorkInv /\ Counts /\ [Next]_vars => Counts'
<1>. DEFINE Quiet3 == /\ SeedsDone \subseteq SeedsDone' /\ EndedUnits \subseteq EndedUnits'
                      /\ FoundUnits' = FoundUnits
<1> SUFFICES ASSUME WorkInv, Counts, [Next]_vars PROVE Counts'
  OBVIOUS
<1>. USE DEF jobState, workerState, provider, SeedSteps, WorkTypes
<1>0. TypeOK /\ Held /\ AtWork /\ OneEach /\ Listed
  BY DEF WorkInv
<1>a. WorkTypes
  BY <1>0, TypesOfWork
<1>1. ASSUME NEW s \in Seeds, PushSeed(s) PROVE Counts'
  <2>1. Quiet3
    BY <1>0, <1>a, JobSorts, <1>1
    DEF PushSeed, AtWork, OneEach, Held, Listed, SeedsDone, EndedUnits, FoundUnits
  <2>2. ex' = ex /\ (cause' = "exiter" => cause = "exiter")
    BY <1>1 DEF PushSeed
  <2>. QED BY <1>0, <2>1, <2>2, NothingCounted
<1>2. ASSUME NEW j \in Jobs, PushDropped(j) PROVE Counts'
  <2>1. Quiet3
    BY <1>0, <1>a, JobSorts, <1>2
    DEF PushDropped, AtWork, OneEach, Held, Listed, SeedsDone, EndedUnits, FoundUnits
  <2>2. ex' = ex /\ (cause' = "exiter" => cause = "exiter")
    BY <1>2 DEF PushDropped
  <2>. QED BY <1>0, <2>1, <2>2, NothingCounted
<1>3. ASSUME NEW w \in Workers, Forward(w) PROVE Counts'
  <2>1. UNCHANGED <<wpc, wjob, ex, cause>>
    BY <1>3 DEF Forward
  <2>2. CASE \E prios : FwdTakes(w, prios)
    <3>1. PICK j \in Jobs : at[j] = "pushing" /\ at' = [at EXCEPT ![j] = "fwd"]
      BY <2>2 DEF FwdTakes
    <3>2. Quiet3
      BY <1>a, JobSorts, <2>1, <3>1 DEF SeedsDone, EndedUnits, FoundUnits
    <3>. QED BY <1>0, <2>1, <3>2, NothingCounted
  <2>3. CASE \E pc : FwdMoves(w, pc)
    <3>1. Quiet3
      BY <2>1, <2>3 DEF FwdMoves, SeedsDone, EndedUnits, FoundUnits
    <3>. QED BY <1>0, <2>1, <3>1, NothingCounted
  <2>. QED BY <1>3, <2>2, <2>3 DEF Forward, FwdTop, FwdMiddle, FwdBottom
<1>4. ASSUME NEW w \in Workers, WorkerExits(w) PROVE Counts'
  <2>1. Quiet3
    BY <1>0, <1>a, JobSorts, <1>4
    DEF WorkerExits, AtWork, OneEach, Held, Listed, SeedsDone, EndedUnits, FoundUnits
  <2>2. ex' = ex /\ (cause' = "exiter" => cause = "exiter")
    BY <1>4 DEF WorkerExits
  <2>. QED BY <1>0, <2>1, <2>2, NothingCounted
<1>5. ASSUME NEW w \in Workers, WorkerReceives(w) PROVE Counts'
  <2>1. Quiet3
    BY <1>0, <1>a, JobSorts, <1>5
    DEF WorkerReceives, AtWork, OneEach, Held, Listed, SeedsDone, EndedUnits, FoundUnits
  <2>2. ex' = ex /\ (cause' = "exiter" => cause = "exiter")
    BY <1>5 DEF WorkerReceives
  <2>. QED BY <1>0, <2>1, <2>2, NothingCounted
<1>6. ASSUME NEW w \in Workers, JobBreaks(w) PROVE Counts'
  <2>1. Quiet3
    BY <1>0, <1>a, JobSorts, <1>6
    DEF JobBreaks, BackToIdle, AtWork, OneEach, Held, Listed, SeedsDone, EndedUnits, FoundUnits
  <2>2. ex' = ex /\ (cause' = "exiter" => cause = "exiter")
    BY <1>6 DEF JobBreaks, BackToIdle
  <2>. QED BY <1>0, <2>1, <2>2, NothingCounted
<1>7. ASSUME NEW w \in Workers, SeedFails(w) PROVE Counts'
  <2>1. Quiet3 /\ wjob[w] \in Seeds \ SeedsDone /\ wjob[w] \in SeedsDone'
    BY <1>0, <1>a, JobSorts, <1>7
    DEF SeedFails, BackToIdle, AtWork, OneEach, Held, Listed, SeedsDone, EndedUnits, FoundUnits
  <2>2. ex' = IncrSeedCompleted(ex, 1) /\ cause' = cause
    BY <1>7 DEF SeedFails
  <2>. QED BY <1>0, <2>1, <2>2, SeedCounted
<1>8. ASSUME NEW w \in Workers, SeedRedirected(w) PROVE Counts'
  <2>1. Quiet3
    BY <1>0, <1>a, JobSorts, <1>8
    DEF SeedRedirected, AtWork, OneEach, Held, Listed, SeedsDone, EndedUnits, FoundUnits
  <2>2. ex' = ex /\ (cause' = "exiter" => cause = "exiter")
    BY <1>8 DEF SeedRedirected
  <2>. QED BY <1>0, <2>1, <2>2, NothingCounted
<1>9. ASSUME NEW w \in Workers, SeedFetched(w) PROVE Counts'
  <2>1. Quiet3
    BY <1>0, <1>a, JobSorts, <1>9
    DEF SeedFetched, AtWork, OneEach, Held, Listed, SeedsDone, EndedUnits, FoundUnits
  <2>2. ex' = ex /\ (cause' = "exiter" => cause = "exiter")
    BY <1>9 DEF SeedFetched
  <2>. QED BY <1>0, <2>1, <2>2, NothingCounted
<1>10. ASSUME NEW w \in Workers, DedupLooks(w) PROVE Counts'
  <2>1. Quiet3
    BY <1>0, <1>a, JobSorts, <1>10
    DEF DedupLooks, AtWork, OneEach, Held, Listed, SeedsDone, EndedUnits, FoundUnits
  <2>2. ex' = ex /\ (cause' = "exiter" => cause = "exiter")
    BY <1>10 DEF DedupLooks
  <2>. QED BY <1>0, <2>1, <2>2, NothingCounted
<1>11. ASSUME NEW w \in Workers, DedupInserts(w) PROVE Counts'
  <2>1. Quiet3
    BY <1>0, <1>a, JobSorts, <1>11
    DEF DedupInserts, AtWork, OneEach, Held, Listed, SeedsDone, EndedUnits, FoundUnits
  <2>2. ex' = ex /\ (cause' = "exiter" => cause = "exiter")
    BY <1>11 DEF DedupInserts
  <2>. QED BY <1>0, <2>1, <2>2, NothingCounted
<1>12. ASSUME NEW w \in Workers, SeedParsed(w) PROVE Counts'
  <2>1. Quiet3
    BY <1>0, <1>a, JobSorts, <1>12
    DEF SeedParsed, AtWork, OneEach, Held, Listed, SeedsDone, EndedUnits, FoundUnits
  <2>2. ex' = ex /\ (cause' = "exiter" => cause = "exiter")
    BY <1>12 DEF SeedParsed
  <2>. QED BY <1>0, <2>1, <2>2, NothingCounted
<1>13. ASSUME NEW w \in Workers, SeedCountsPlaces(w) PROVE Counts'
  <2>. DEFINE s == wjob[w]
              new == {s} \X wnext[w]
  <2>1. s \in Seeds /\ wnext[w] \in SUBSET Places /\ new \subseteq Units
    BY <1>0, <1>a, JobSorts, <1>13 DEF SeedCountsPlaces, Held, Units
  <2>2. \A u \in new : at[u] = "none"
    BY <1>0, <1>a, JobSorts, <1>13, <2>1
    DEF SeedCountsPlaces, AtWork, OneEach, Held, Listed, CountedSeed, Found, Units
  <2>3. /\ at' = [j \in Jobs |-> IF j \in new THEN "next" ELSE at[j]]
        /\ ex' = IncrPlacesFound(ex, Cardinality(wnext[w])) /\ cause' = cause /\ wjob' = wjob
        /\ wpc[w] = "found" /\ wpc' = [wpc EXCEPT ![w] = "counted"]
    BY <1>13 DEF SeedCountsPlaces
  <2>4. s \notin SeedsDone
    BY <1>0, <1>a, JobSorts, <2>1, <2>3 DEF AtWork, OneEach, SeedsDone
  <2>. HIDE DEF new
  <2>5. FoundUnits' = FoundUnits \cup new /\ FoundUnits \cap new = {}
    BY JobSorts, <2>1, <2>2, <2>3 DEF FoundUnits
  <2>6. EndedUnits \subseteq EndedUnits'
    BY JobSorts, <2>1, <2>2, <2>3 DEF EndedUnits
  <2>7. SeedsDone \subseteq SeedsDone'
    BY <1>a, JobSorts, <2>1, <2>3 DEF SeedsDone
  <2>. QED BY <1>0, <2>1, <2>3, <2>4, <2>5, <2>6, <2>7, PlacesCounted DEF new
<1>14. ASSUME NEW w \in Workers, SeedCompletes(w) PROVE Counts'
  <2>1. Quiet3 /\ wjob[w] \in Seeds \ SeedsDone /\ wjob[w] \in SeedsDone'
    BY <1>0, <1>a, JobSorts, <1>14
    DEF SeedCompletes, AtWork, OneEach, Held, Listed, SeedsDone, EndedUnits, FoundUnits
  <2>2. ex' = IncrSeedCompleted(ex, 1) /\ cause' = cause
    BY <1>14 DEF SeedCompletes
  <2>. QED BY <1>0, <2>1, <2>2, SeedCounted
<1>15. ASSUME NEW w \in Workers, PushNext(w) PROVE Counts'
  <2>1. Quiet3
    BY <1>0, <1>a, JobSorts, <1>15
    DEF PushNext, AtWork, OneEach, Held, Listed, SeedsDone, EndedUnits, FoundUnits
  <2>2. ex' = ex /\ (cause' = "exiter" => cause = "exiter")
    BY <1>15 DEF PushNext
  <2>. QED BY <1>0, <2>1, <2>2, NothingCounted
<1>16. ASSUME NEW w \in Workers, SeedFinishes(w) PROVE Counts'
  <2>1. Quiet3
    BY <1>0, <1>a, JobSorts, <1>16
    DEF SeedFinishes, BackToIdle, AtWork, OneEach, Held, Listed, SeedsDone, EndedUnits, FoundUnits
  <2>2. ex' = ex /\ (cause' = "exiter" => cause = "exiter")
    BY <1>16 DEF SeedFinishes, BackToIdle
  <2>. QED BY <1>0, <2>1, <2>2, NothingCounted
<1>17. ASSUME NEW w \in Workers, PlaceFails(w) PROVE Counts'
  <2>1. Quiet3 /\ wjob[w] \in Units \ EndedUnits /\ wjob[w] \in EndedUnits'
    BY <1>0, <1>a, JobSorts, <1>17
    DEF PlaceFails, BackToIdle, AtWork, OneEach, Held, Listed, SeedsDone, EndedUnits, FoundUnits
  <2>2. ex' = IncrPlacesCompleted(ex, 1) /\ cause' = cause
    BY <1>17 DEF PlaceFails
  <2>. QED BY <1>0, <2>1, <2>2, UnitCounted
<1>18. ASSUME NEW w \in Workers, PlaceBecomesEmail(w) PROVE Counts'
  <2>1. Quiet3
    BY <1>0, <1>a, JobSorts, <1>18
    DEF PlaceBecomesEmail, BackToIdle, AtWork, OneEach, Held, Listed, SeedsDone, EndedUnits,
        FoundUnits
  <2>2. ex' = ex /\ (cause' = "exiter" => cause = "exiter")
    BY <1>18 DEF PlaceBecomesEmail, BackToIdle
  <2>. QED BY <1>0, <2>1, <2>2, NothingCounted
<1>19. ASSUME NEW w \in Workers, UnitCompletes(w) PROVE Counts'
  <2>1. Quiet3 /\ wjob[w] \in Units \ EndedUnits /\ wjob[w] \in EndedUnits'
    BY <1>0, <1>a, JobSorts, <1>19
    DEF UnitCompletes, AtWork, OneEach, Held, Listed, SeedsDone, EndedUnits, FoundUnits
  <2>2. ex' = IncrPlacesCompleted(ex, 1) /\ cause' = cause
    BY <1>19 DEF UnitCompletes
  <2>. QED BY <1>0, <2>1, <2>2, UnitCounted
<1>20. ASSUME NEW w \in Workers, WriterReceives(w) PROVE Counts'
  <2>1. Quiet3
    BY <1>0, <1>a, JobSorts, <1>20
    DEF WriterReceives, BackToIdle, AtWork, OneEach, Held, Listed, SeedsDone, EndedUnits,
        FoundUnits
  <2>2. ex' = ex /\ (cause' = "exiter" => cause = "exiter")
    BY <1>20 DEF WriterReceives, BackToIdle
  <2>. QED BY <1>0, <2>1, <2>2, NothingCounted
<1>21. ASSUME NEW w \in Workers, WriterFails(w) PROVE Counts'
  <2>1. Quiet3
    BY <1>0, <1>a, JobSorts, <1>21
    DEF WriterFails, BackToIdle, AtWork, OneEach, Held, Listed, SeedsDone, EndedUnits, FoundUnits
  <2>2. ex' = ex /\ (cause' = "exiter" => cause = "exiter")
    BY <1>21 DEF WriterFails, BackToIdle
  <2>. QED BY <1>0, <2>1, <2>2, NothingCounted
<1>22. ASSUME UNCHANGED <<at, wpc, wjob, ex>>,
             cause' = "exiter" => cause = "exiter" \/ ex.doneCh
      PROVE  Counts'
  <2>1. Quiet3
    BY <1>22 DEF SeedsDone, EndedUnits, FoundUnits
  <2>. QED BY <1>0, <1>22, <2>1, NothingCounted
<1>23. ASSUME NEW w \in Workers, WorkerRestartsProvider(w) \/ WorkerReceivesNil(w)
      PROVE  Counts'
  BY <1>22, <1>23 DEF WorkerRestartsProvider, WorkerReceivesNil
<1>24. CASE ExiterRuns \/ OutsideCancels \/ InactivityExits
  BY <1>22, <1>24, CancelsAssumption DEF ExiterRuns, OutsideCancels, InactivityExits, Cancel
<1>25. CASE MateReturns \/ WriterReturns \/ AppReturns \/ UNCHANGED vars
  BY <1>22, <1>25 DEF MateReturns, WriterReturns, AppReturns, vars
<1>. QED
  BY <1>1, <1>2, <1>3, <1>4, <1>5, <1>6, <1>7, <1>8, <1>9, <1>10, <1>11, <1>12, <1>13,
      <1>14, <1>15, <1>16, <1>17, <1>18, <1>19, <1>20, <1>21, <1>23, <1>24, <1>25
  DEF Next, WorkerStep, Terminated

-----------------------------------------------------------------------------
(* What the writer was given                                                *)

\* A computed result is at the worker that sends it, no worker is left when the
\* engine's Start has returned, which a cancelled context makes it do, and a
\* result is lost only to an error of the writer.
Sent ==
  /\ \A u \in Units : at[u] = "send" => \E w \in Workers : wjob[w] = u /\ wpc[w] = "send"
  /\ app \in {"closed", "returned"} => Cancelled /\ \A w \in Workers : wpc[w] = "exited"
  /\ \A u \in Units : at[u] = "lost" => WriterMayFail

LEMMA SentInit == Init => Sent
<1>1. Units \subseteq Jobs
  BY DEF Jobs
<1>. QED BY <1>1 DEF Init, Sent

LEMMA SentStep == WorkInv /\ Sent /\ [Next]_vars => Sent'
<1> SUFFICES ASSUME WorkInv, Sent, [Next]_vars PROVE Sent'
  OBVIOUS
<1>. USE DEF jobState, workerState, provider, SeedSteps, WorkTypes
<1>0. TypeOK /\ Held /\ AtWork /\ OneEach /\ Listed
  BY DEF WorkInv
<1>a. WorkTypes
  BY <1>0, TypesOfWork
<1>1. ASSUME NEW s \in Seeds, PushSeed(s) PROVE Sent'
  BY <1>0, <1>a, JobSorts, <1>1
  DEF PushSeed, AtWork, OneEach, Held, Listed, Sent, Running, Cancelled
<1>2. ASSUME NEW j \in Jobs, PushDropped(j) PROVE Sent'
  BY <1>0, <1>a, JobSorts, <1>2
  DEF PushDropped, AtWork, OneEach, Held, Listed, Sent, Running, Cancelled
<1>3. ASSUME NEW w \in Workers, Forward(w) PROVE Sent'
  <2>1. UNCHANGED <<wpc, wjob, app, cause>>
    BY <1>3 DEF Forward
  <2>2. CASE \E prios : FwdTakes(w, prios)
    <3>1. PICK j \in Jobs : at[j] = "pushing" /\ at' = [at EXCEPT ![j] = "fwd"]
      BY <2>2 DEF FwdTakes
    <3>. QED BY <1>a, JobSorts, <2>1, <3>1 DEF Sent, Cancelled
  <2>3. CASE \E pc : FwdMoves(w, pc)
    BY <2>1, <2>3 DEF FwdMoves, Sent, Cancelled
  <2>. QED BY <1>3, <2>2, <2>3 DEF Forward, FwdTop, FwdMiddle, FwdBottom
<1>4. ASSUME NEW w \in Workers, WorkerExits(w) PROVE Sent'
  BY <1>0, <1>a, JobSorts, <1>4
  DEF WorkerExits, AtWork, OneEach, Held, Listed, Sent, Running, Cancelled
<1>5. ASSUME NEW w \in Workers, WorkerReceives(w) PROVE Sent'
  BY <1>0, <1>a, JobSorts, <1>5
  DEF WorkerReceives, AtWork, OneEach, Held, Listed, Sent, Running, Cancelled
<1>6. ASSUME NEW w \in Workers, JobBreaks(w) PROVE Sent'
  BY <1>0, <1>a, JobSorts, <1>6
  DEF JobBreaks, BackToIdle, AtWork, OneEach, Held, Listed, Sent, Running, Cancelled
<1>7. ASSUME NEW w \in Workers, SeedFails(w) PROVE Sent'
  BY <1>0, <1>a, JobSorts, <1>7
  DEF SeedFails, BackToIdle, AtWork, OneEach, Held, Listed, Sent, Running, Cancelled
<1>8. ASSUME NEW w \in Workers, SeedRedirected(w) PROVE Sent'
  BY <1>0, <1>a, JobSorts, <1>8
  DEF SeedRedirected, AtWork, OneEach, Held, Listed, Sent, Running, Cancelled
<1>9. ASSUME NEW w \in Workers, SeedFetched(w) PROVE Sent'
  BY <1>0, <1>a, JobSorts, <1>9
  DEF SeedFetched, AtWork, OneEach, Held, Listed, Sent, Running, Cancelled
<1>10. ASSUME NEW w \in Workers, DedupLooks(w) PROVE Sent'
  BY <1>0, <1>a, JobSorts, <1>10
  DEF DedupLooks, AtWork, OneEach, Held, Listed, Sent, Running, Cancelled
<1>11. ASSUME NEW w \in Workers, DedupInserts(w) PROVE Sent'
  BY <1>0, <1>a, JobSorts, <1>11
  DEF DedupInserts, AtWork, OneEach, Held, Listed, Sent, Running, Cancelled
<1>12. ASSUME NEW w \in Workers, SeedParsed(w) PROVE Sent'
  BY <1>0, <1>a, JobSorts, <1>12
  DEF SeedParsed, AtWork, OneEach, Held, Listed, Sent, Running, Cancelled
<1>13. ASSUME NEW w \in Workers, SeedCountsPlaces(w) PROVE Sent'
  BY <1>0, <1>a, JobSorts, <1>13
  DEF SeedCountsPlaces, AtWork, OneEach, Held, Listed, Sent, Running, Cancelled
<1>14. ASSUME NEW w \in Workers, SeedCompletes(w) PROVE Sent'
  BY <1>0, <1>a, JobSorts, <1>14
  DEF SeedCompletes, AtWork, OneEach, Held, Listed, Sent, Running, Cancelled
<1>15. ASSUME NEW w \in Workers, PushNext(w) PROVE Sent'
  BY <1>0, <1>a, JobSorts, <1>15
  DEF PushNext, AtWork, OneEach, Held, Listed, Sent, Running, Cancelled
<1>16. ASSUME NEW w \in Workers, SeedFinishes(w) PROVE Sent'
  BY <1>0, <1>a, JobSorts, <1>16
  DEF SeedFinishes, BackToIdle, AtWork, OneEach, Held, Listed, Sent, Running, Cancelled
<1>17. ASSUME NEW w \in Workers, PlaceFails(w) PROVE Sent'
  BY <1>0, <1>a, JobSorts, <1>17
  DEF PlaceFails, BackToIdle, AtWork, OneEach, Held, Listed, Sent, Running, Cancelled
<1>18. ASSUME NEW w \in Workers, PlaceBecomesEmail(w) PROVE Sent'
  BY <1>0, <1>a, JobSorts, <1>18
  DEF PlaceBecomesEmail, BackToIdle, AtWork, OneEach, Held, Listed, Sent, Running, Cancelled
<1>19. ASSUME NEW w \in Workers, UnitCompletes(w) PROVE Sent'
  BY <1>0, <1>a, JobSorts, <1>19
  DEF UnitCompletes, AtWork, OneEach, Held, Listed, Sent, Running, Cancelled
<1>20. ASSUME NEW w \in Workers, WriterReceives(w) PROVE Sent'
  BY <1>0, <1>a, JobSorts, <1>20
  DEF WriterReceives, BackToIdle, AtWork, OneEach, Held, Listed, Sent, Running, Cancelled
<1>21. ASSUME NEW w \in Workers, WriterFails(w) PROVE Sent'
  BY <1>0, <1>a, JobSorts, <1>21
  DEF WriterFails, BackToIdle, AtWork, OneEach, Held, Listed, Sent, Running,
        Cancelled
<1>22. ASSUME UNCHANGED <<at, wpc, wjob>>, app' = app \/ app' = "crashed",
             Cancelled => Cancelled'
       PROVE  Sent'
  BY <1>22 DEF Sent
<1>23. ASSUME NEW w \in Workers, WorkerRestartsProvider(w) \/ WorkerReceivesNil(w)
      PROVE  Sent'
  BY <1>22, <1>23 DEF WorkerRestartsProvider, WorkerReceivesNil, Cancelled
<1>24. CASE ExiterRuns \/ OutsideCancels \/ InactivityExits \/ WriterReturns \/ UNCHANGED vars
  BY <1>22, <1>24
  DEF ExiterRuns, OutsideCancels, InactivityExits, Cancel, Cancelled, WriterReturns, vars
<1>25. CASE MateReturns \/ AppReturns
  BY <1>25 DEF MateReturns, AppReturns, Sent, Cancelled
<1>. QED
  BY <1>1, <1>2, <1>3, <1>4, <1>5, <1>6, <1>7, <1>8, <1>9, <1>10, <1>11, <1>12, <1>13,
      <1>14, <1>15, <1>16, <1>17, <1>18, <1>19, <1>20, <1>21, <1>23, <1>24, <1>25
  DEF Next, WorkerStep, Terminated

-----------------------------------------------------------------------------
(* What follows                                                             *)

LEMMA Working == Spec => []WorkInv
BY WorkInit, WorkStep, PTL DEF Spec

\* Every reachable state is of its declared type.
THEOREM Typing == Spec => []TypeOK
<1>1. WorkInv => TypeOK
  BY DEF WorkInv
<1>. QED BY <1>1, Working, PTL

\* Of two searches that list a link, processed by two workers at once, one alone
\* scrapes it.
THEOREM OnePlaceOneSearch == Spec => []NoPlaceTwice
<1>1. Claims => NoPlaceTwice
  BY DEF Claims, Claim, NoPlaceTwice
<1>2. Spec => []Claims
  BY Working, ClaimsInit, ClaimsStep, PTL DEF Spec
<1>. QED BY <1>1, <1>2, PTL

LEMMA Counting == Spec => []Counts
BY Working, CountsInit, CountsStep, PTL DEF Spec

LEMMA CountsMean == WorkInv /\ Counts => ExitOnlyWhenAccounted
<1> SUFFICES ASSUME WorkInv, Counts, cause = "exiter"
             PROVE  /\ \A s \in Seeds : at[s] \notin {"none", "pushing", "fwd", "broken"}
                    /\ \A u \in Units : Ended(u)
  BY DEF ExitOnlyWhenAccounted
<1>1. Seeds \subseteq SeedsDone /\ FoundUnits \subseteq EndedUnits
  BY DEF Counts
<1>2. ASSUME NEW s \in Seeds
      PROVE  at[s] \notin {"none", "pushing", "fwd", "broken"}
  <2>1. at[s] \in {"done", "failed"} \/ \E w \in Workers : wjob[w] = s /\ wpc[w] = "push"
    BY <1>1 DEF SeedsDone
  <2>. QED BY <2>1 DEF WorkInv, AtWork, SeedSteps
<1>3. \A u \in Units : Ended(u)
  BY <1>1 DEF FoundUnits, EndedUnits, Ended
<1>. QED BY <1>2, <1>3

\* The exit monitor's cancellation finds every search processed and no place on
\* its way, in whatever order the workers updated its counters.
THEOREM ExitIsDue == Spec => []ExitOnlyWhenAccounted
BY Working, Counting, CountsMean, PTL

LEMMA Sending == Spec => []Sent
BY Working, SentInit, SentStep, PTL DEF Spec

\* While the writer returns no error, a scrape that its exit monitor ended has
\* written the result of each place whose job did not fail.
THEOREM NoResultGivenUp ==
  ASSUME WriterMayFail = FALSE
  PROVE  Spec => []CompleteRunWroteAll
<1>1. Sent /\ ExitOnlyWhenAccounted => CompleteRunWroteAll
  BY DEF Sent, ExitOnlyWhenAccounted, Ended, CompleteRunWroteAll
<1>. QED BY <1>1, Sending, ExitIsDue, PTL

-----------------------------------------------------------------------------
(* The engine implements the abstract scrape                                *)

DeliveredUnits == {u \in Units : at[u] = "written"}

GivenUpUnits == {u \in Units : at[u] \in {"failed", "lost"}}

LEMMA StatusIs ==
  /\ app \in {"running", "closed"} => status = "running"
  /\ app = "crashed" => status = "aborted"
  /\ app = "returned" => status = IF cause = "exiter" THEN "complete" ELSE "aborted"
  BY DEF status, Finished

LEMMA AbstractInit == Init => AbstractScrape!Init
<1> SUFFICES ASSUME Init PROVE AbstractScrape!Init
  OBVIOUS
<1>1. \A j \in Jobs : at[j] = "none"
  BY DEF Init
<1>2. explored = {}
  BY <1>1, JobSorts DEF Init, explored
<1>3. {u \in Units : Found(u)} = {} /\ DeliveredUnits = {} /\ GivenUpUnits = {}
  BY <1>1, JobSorts DEF Found, DeliveredUnits, GivenUpUnits
<1>4. status = "running"
  BY StatusIs DEF Init
<1>. QED BY <1>2, <1>3, <1>4 DEF AbstractScrape!Init, DeliveredUnits, GivenUpUnits

\* What the abstract scrape sees of the jobs does not change.
Stays ==
  /\ explored' = explored /\ FoundUnits' = FoundUnits
  /\ DeliveredUnits' = DeliveredUnits /\ GivenUpUnits' = GivenUpUnits

LEMMA AbstractStays ==
  ASSUME Stays, status' = status
  PROVE  UNCHANGED AbstractScrape!vars
  BY DEF Stays, AbstractScrape!vars, FoundUnits, Found, DeliveredUnits, GivenUpUnits

LEMMA AbstractExplores ==
  ASSUME NEW s \in Seeds, NEW P \in SUBSET Places, s \notin explored,
         explored' = explored \cup {s}, FoundUnits' = FoundUnits \cup ({s} \X P),
         DeliveredUnits' = DeliveredUnits, GivenUpUnits' = GivenUpUnits,
         status = "running", status' = status
  PROVE  AbstractScrape!Next
<1>1. AbstractScrape!Explore(s)
  BY DEF AbstractScrape!Explore, FoundUnits, Found, DeliveredUnits, GivenUpUnits
<1>. QED BY <1>1 DEF AbstractScrape!Next

LEMMA AbstractUnitEnds ==
  ASSUME NEW u \in FoundUnits, u \notin DeliveredUnits, u \notin GivenUpUnits,
         explored' = explored, FoundUnits' = FoundUnits,
         \/ DeliveredUnits' = DeliveredUnits \cup {u} /\ GivenUpUnits' = GivenUpUnits
         \/ DeliveredUnits' = DeliveredUnits /\ GivenUpUnits' = GivenUpUnits \cup {u},
         status = "running", status' = status
  PROVE  AbstractScrape!Next
<1>1. u \in Seeds \X Places
  BY DEF FoundUnits, Units
<1>2. AbstractScrape!Deliver(u) \/ AbstractScrape!GiveUp(u)
  BY DEF AbstractScrape!Deliver, AbstractScrape!GiveUp, AbstractScrape!Outstanding, FoundUnits,
         Found, DeliveredUnits, GivenUpUnits
<1>. QED BY <1>1, <1>2 DEF AbstractScrape!Next

\* A complete scrape has explored every search and has nothing outstanding: the
\* monitor counted them, and no result waits at a worker any more.
LEMMA NothingLeft ==
  ASSUME WorkInv, Counts, Sent, app = "closed", cause = "exiter"
  PROVE  explored = Seeds /\ FoundUnits \subseteq DeliveredUnits \cup GivenUpUnits
<1>1. Seeds \subseteq SeedsDone /\ FoundUnits \subseteq EndedUnits
  BY DEF Counts
<1>2. explored = Seeds
  BY <1>1 DEF SeedsDone, explored
<1>3. \A u \in Units : at[u] # "send"
  BY DEF Sent
<1>. QED BY <1>1, <1>2, <1>3 DEF EndedUnits, DeliveredUnits, GivenUpUnits, FoundUnits

LEMMA AbstractStep ==
  WorkInv /\ Counts /\ Sent /\ [Next]_vars => [AbstractScrape!Next]_(AbstractScrape!vars)
<1>. DEFINE Goal == [AbstractScrape!Next]_(AbstractScrape!vars)
<1> SUFFICES ASSUME WorkInv, Counts, Sent, [Next]_vars PROVE Goal
  OBVIOUS
<1>. USE DEF jobState, workerState, provider, SeedSteps, WorkTypes
<1>0. TypeOK /\ Held /\ AtWork /\ OneEach /\ Listed
  BY DEF WorkInv
<1>a. WorkTypes
  BY <1>0, TypesOfWork
<1>b. ASSUME Stays, UNCHANGED <<app, cause>> PROVE Goal
  BY <1>b, AbstractStays DEF status, Finished
<1>c. ASSUME Running, UNCHANGED app PROVE status = "running" /\ status' = "running"
  BY <1>c DEF Running, status, Finished
<1>1. ASSUME NEW s \in Seeds, PushSeed(s) PROVE Goal
  <2>1. Stays
    BY <1>0, <1>a, JobSorts, <1>1
    DEF PushSeed, AtWork, OneEach, Held, Listed, Stays, explored, FoundUnits,
        DeliveredUnits, GivenUpUnits
  <2>2. UNCHANGED <<app, cause>>
    BY <1>1 DEF PushSeed
  <2>. QED BY <1>b, <2>1, <2>2
<1>2. ASSUME NEW j \in Jobs, PushDropped(j) PROVE Goal
  <2>1. Stays
    BY <1>0, <1>a, JobSorts, <1>2
    DEF PushDropped, AtWork, OneEach, Held, Listed, Stays, explored, FoundUnits,
        DeliveredUnits, GivenUpUnits
  <2>2. UNCHANGED <<app, cause>>
    BY <1>2 DEF PushDropped
  <2>. QED BY <1>b, <2>1, <2>2
<1>3. ASSUME NEW w \in Workers, Forward(w) PROVE Goal
  <2>1. UNCHANGED <<wpc, wjob, app, cause>>
    BY <1>3 DEF Forward
  <2>2. CASE \E prios : FwdTakes(w, prios)
    <3>1. PICK j \in Jobs : at[j] = "pushing" /\ at' = [at EXCEPT ![j] = "fwd"]
      BY <2>2 DEF FwdTakes
    <3>2. Stays
      BY <1>a, JobSorts, <2>1, <3>1 DEF Stays, explored, FoundUnits, DeliveredUnits, GivenUpUnits
    <3>. QED BY <1>b, <2>1, <3>2
  <2>3. CASE \E pc : FwdMoves(w, pc)
    <3>1. Stays
      BY <2>1, <2>3 DEF FwdMoves, Stays, explored, FoundUnits, DeliveredUnits, GivenUpUnits
    <3>. QED BY <1>b, <2>1, <3>1
  <2>. QED BY <1>3, <2>2, <2>3 DEF Forward, FwdTop, FwdMiddle, FwdBottom
<1>4. ASSUME NEW w \in Workers, WorkerExits(w) PROVE Goal
  <2>1. Stays
    BY <1>0, <1>a, JobSorts, <1>4
    DEF WorkerExits, AtWork, OneEach, Held, Listed, Stays, explored, FoundUnits,
        DeliveredUnits, GivenUpUnits
  <2>2. UNCHANGED <<app, cause>>
    BY <1>4 DEF WorkerExits
  <2>. QED BY <1>b, <2>1, <2>2
<1>5. ASSUME NEW w \in Workers, WorkerReceives(w) PROVE Goal
  <2>1. Stays
    BY <1>0, <1>a, JobSorts, <1>5
    DEF WorkerReceives, AtWork, OneEach, Held, Listed, Stays, explored, FoundUnits,
        DeliveredUnits, GivenUpUnits
  <2>2. UNCHANGED <<app, cause>>
    BY <1>5 DEF WorkerReceives
  <2>. QED BY <1>b, <2>1, <2>2
<1>6. ASSUME NEW w \in Workers, JobBreaks(w) PROVE Goal
  <2>1. Stays
    BY <1>0, <1>a, JobSorts, <1>6
    DEF JobBreaks, BackToIdle, AtWork, OneEach, Held, Listed, Stays, explored, FoundUnits,
        DeliveredUnits, GivenUpUnits
  <2>2. UNCHANGED <<app, cause>>
    BY <1>6 DEF JobBreaks
  <2>. QED BY <1>b, <2>1, <2>2
<1>7. ASSUME NEW w \in Workers, SeedFails(w) PROVE Goal
  <2>1. explored' = explored \cup {wjob[w]} /\ wjob[w] \notin explored /\ wjob[w] \in Seeds
    BY <1>0, <1>a, JobSorts, <1>7 DEF SeedFails, BackToIdle, AtWork, OneEach, Held, explored
  <2>2. /\ FoundUnits' = FoundUnits
        /\ DeliveredUnits' = DeliveredUnits /\ GivenUpUnits' = GivenUpUnits
    BY <1>0, <1>a, JobSorts, <1>7
    DEF SeedFails, BackToIdle, AtWork, Held, FoundUnits, DeliveredUnits, GivenUpUnits
  <2>3. FoundUnits' = FoundUnits \cup ({wjob[w]} \X {}) /\ {} \in SUBSET Places
    BY <2>2
  <2>. QED BY <1>c, <1>7, <2>1, <2>2, <2>3, AbstractExplores DEF SeedFails
<1>8. ASSUME NEW w \in Workers, SeedRedirected(w) PROVE Goal
  <2>1. Stays
    BY <1>0, <1>a, JobSorts, <1>8
    DEF SeedRedirected, AtWork, OneEach, Held, Listed, Stays, explored, FoundUnits,
        DeliveredUnits, GivenUpUnits
  <2>2. UNCHANGED <<app, cause>>
    BY <1>8 DEF SeedRedirected
  <2>. QED BY <1>b, <2>1, <2>2
<1>9. ASSUME NEW w \in Workers, SeedFetched(w) PROVE Goal
  <2>1. Stays
    BY <1>0, <1>a, JobSorts, <1>9
    DEF SeedFetched, AtWork, OneEach, Held, Listed, Stays, explored, FoundUnits,
        DeliveredUnits, GivenUpUnits
  <2>2. UNCHANGED <<app, cause>>
    BY <1>9 DEF SeedFetched
  <2>. QED BY <1>b, <2>1, <2>2
<1>10. ASSUME NEW w \in Workers, DedupLooks(w) PROVE Goal
  <2>1. Stays
    BY <1>0, <1>a, JobSorts, <1>10
    DEF DedupLooks, AtWork, OneEach, Held, Listed, Stays, explored, FoundUnits,
        DeliveredUnits, GivenUpUnits
  <2>2. UNCHANGED <<app, cause>>
    BY <1>10 DEF DedupLooks
  <2>. QED BY <1>b, <2>1, <2>2
<1>11. ASSUME NEW w \in Workers, DedupInserts(w) PROVE Goal
  <2>1. Stays
    BY <1>0, <1>a, JobSorts, <1>11
    DEF DedupInserts, AtWork, OneEach, Held, Listed, Stays, explored, FoundUnits,
        DeliveredUnits, GivenUpUnits
  <2>2. UNCHANGED <<app, cause>>
    BY <1>11 DEF DedupInserts
  <2>. QED BY <1>b, <2>1, <2>2
<1>12. ASSUME NEW w \in Workers, SeedParsed(w) PROVE Goal
  <2>1. Stays
    BY <1>0, <1>a, JobSorts, <1>12
    DEF SeedParsed, AtWork, OneEach, Held, Listed, Stays, explored, FoundUnits,
        DeliveredUnits, GivenUpUnits
  <2>2. UNCHANGED <<app, cause>>
    BY <1>12 DEF SeedParsed
  <2>. QED BY <1>b, <2>1, <2>2
<1>13. ASSUME NEW w \in Workers, SeedCountsPlaces(w) PROVE Goal
  <2>. DEFINE s == wjob[w]
              new == {s} \X wnext[w]
  <2>1. s \in Seeds /\ wnext[w] \in SUBSET Places /\ new \subseteq Units
    BY <1>0, <1>a, JobSorts, <1>13 DEF SeedCountsPlaces, Held, Units
  <2>2. \A u \in new : at[u] = "none"
    BY <1>0, <1>a, JobSorts, <1>13, <2>1
    DEF SeedCountsPlaces, AtWork, OneEach, Held, Listed, CountedSeed, Found, Units
  <2>3. /\ at' = [j \in Jobs |-> IF j \in new THEN "next" ELSE at[j]] /\ wjob' = wjob
        /\ wpc[w] = "found" /\ wpc' = [wpc EXCEPT ![w] = "counted"]
    BY <1>13 DEF SeedCountsPlaces
  <2>. HIDE DEF new
  <2>4. s \notin explored /\ explored' = explored \cup {s}
    BY <1>0, <1>a, JobSorts, <2>1, <2>3 DEF AtWork, OneEach, explored
  <2>5. FoundUnits' = FoundUnits \cup new
    BY JobSorts, <2>1, <2>2, <2>3 DEF FoundUnits
  <2>6. DeliveredUnits' = DeliveredUnits /\ GivenUpUnits' = GivenUpUnits
    BY JobSorts, <2>1, <2>2, <2>3 DEF DeliveredUnits, GivenUpUnits
  <2>. QED BY <1>c, <1>13, <2>1, <2>4, <2>5, <2>6, AbstractExplores DEF SeedCountsPlaces, new
<1>14. ASSUME NEW w \in Workers, SeedCompletes(w) PROVE Goal
  <2>1. Stays
    BY <1>0, <1>a, JobSorts, <1>14
    DEF SeedCompletes, AtWork, OneEach, Held, Listed, Stays, explored, FoundUnits,
        DeliveredUnits, GivenUpUnits
  <2>2. UNCHANGED <<app, cause>>
    BY <1>14 DEF SeedCompletes
  <2>. QED BY <1>b, <2>1, <2>2
<1>15. ASSUME NEW w \in Workers, PushNext(w) PROVE Goal
  <2>1. Stays
    BY <1>0, <1>a, JobSorts, <1>15
    DEF PushNext, AtWork, OneEach, Held, Listed, Stays, explored, FoundUnits,
        DeliveredUnits, GivenUpUnits
  <2>2. UNCHANGED <<app, cause>>
    BY <1>15 DEF PushNext
  <2>. QED BY <1>b, <2>1, <2>2
<1>16. ASSUME NEW w \in Workers, SeedFinishes(w) PROVE Goal
  <2>1. Stays
    BY <1>0, <1>a, JobSorts, <1>16
    DEF SeedFinishes, BackToIdle, AtWork, OneEach, Held, Listed, Stays, explored,
        FoundUnits, DeliveredUnits, GivenUpUnits
  <2>2. UNCHANGED <<app, cause>>
    BY <1>16 DEF SeedFinishes, BackToIdle
  <2>. QED BY <1>b, <2>1, <2>2
<1>17. ASSUME NEW w \in Workers, PlaceFails(w) PROVE Goal
  <2>1. wjob[w] \in FoundUnits /\ wjob[w] \notin DeliveredUnits /\ wjob[w] \notin GivenUpUnits
    BY <1>0, <1>a, JobSorts, <1>17
    DEF PlaceFails, BackToIdle, AtWork, Held, FoundUnits, DeliveredUnits, GivenUpUnits
  <2>2. explored' = explored /\ FoundUnits' = FoundUnits
    BY <1>0, <1>a, JobSorts, <1>17
    DEF PlaceFails, BackToIdle, AtWork, OneEach, Held, explored, FoundUnits
  <2>3. \/ DeliveredUnits' = DeliveredUnits \cup {wjob[w]} /\ GivenUpUnits' = GivenUpUnits
        \/ DeliveredUnits' = DeliveredUnits /\ GivenUpUnits' = GivenUpUnits \cup {wjob[w]}
    BY <1>0, <1>a, JobSorts, <1>17
    DEF PlaceFails, BackToIdle, AtWork, Held, DeliveredUnits, GivenUpUnits
  <2>. QED BY <1>c, <1>17, <2>1, <2>2, <2>3, AbstractUnitEnds DEF PlaceFails
<1>18. ASSUME NEW w \in Workers, PlaceBecomesEmail(w) PROVE Goal
  <2>1. Stays
    BY <1>0, <1>a, JobSorts, <1>18
    DEF PlaceBecomesEmail, BackToIdle, AtWork, OneEach, Held, Listed, Stays, explored,
        FoundUnits, DeliveredUnits, GivenUpUnits
  <2>2. UNCHANGED <<app, cause>>
    BY <1>18 DEF PlaceBecomesEmail, BackToIdle
  <2>. QED BY <1>b, <2>1, <2>2
<1>19. ASSUME NEW w \in Workers, UnitCompletes(w) PROVE Goal
  <2>1. Stays
    BY <1>0, <1>a, JobSorts, <1>19
    DEF UnitCompletes, AtWork, OneEach, Held, Listed, Stays, explored, FoundUnits,
        DeliveredUnits, GivenUpUnits
  <2>2. UNCHANGED <<app, cause>>
    BY <1>19 DEF UnitCompletes
  <2>. QED BY <1>b, <2>1, <2>2
<1>20. ASSUME NEW w \in Workers, WriterReceives(w) PROVE Goal
  <2>1. wjob[w] \in FoundUnits /\ wjob[w] \notin DeliveredUnits /\ wjob[w] \notin GivenUpUnits
    BY <1>0, <1>a, JobSorts, <1>20
    DEF WriterReceives, BackToIdle, AtWork, Held, FoundUnits, DeliveredUnits, GivenUpUnits
  <2>2. explored' = explored /\ FoundUnits' = FoundUnits
    BY <1>0, <1>a, JobSorts, <1>20
    DEF WriterReceives, BackToIdle, AtWork, OneEach, Held, explored, FoundUnits
  <2>3. \/ DeliveredUnits' = DeliveredUnits \cup {wjob[w]} /\ GivenUpUnits' = GivenUpUnits
        \/ DeliveredUnits' = DeliveredUnits /\ GivenUpUnits' = GivenUpUnits \cup {wjob[w]}
    BY <1>0, <1>a, JobSorts, <1>20
    DEF WriterReceives, BackToIdle, AtWork, Held, DeliveredUnits, GivenUpUnits
  <2>. QED BY <1>c, <1>20, <2>1, <2>2, <2>3, AbstractUnitEnds DEF WriterReceives
<1>21. ASSUME NEW w \in Workers, WriterFails(w) PROVE Goal
  <2>1. wjob[w] \in FoundUnits /\ wjob[w] \notin DeliveredUnits /\ wjob[w] \notin GivenUpUnits
    BY <1>0, <1>a, JobSorts, <1>21
    DEF WriterFails, BackToIdle, AtWork, Held, FoundUnits, DeliveredUnits, GivenUpUnits
  <2>2. explored' = explored /\ FoundUnits' = FoundUnits
    BY <1>0, <1>a, JobSorts, <1>21
    DEF WriterFails, BackToIdle, AtWork, OneEach, Held, explored, FoundUnits
  <2>3. \/ DeliveredUnits' = DeliveredUnits \cup {wjob[w]} /\ GivenUpUnits' = GivenUpUnits
        \/ DeliveredUnits' = DeliveredUnits /\ GivenUpUnits' = GivenUpUnits \cup {wjob[w]}
    BY <1>0, <1>a, JobSorts, <1>21
    DEF WriterFails, BackToIdle, AtWork, Held, DeliveredUnits, GivenUpUnits
  <2>. QED BY <1>c, <1>21, <2>1, <2>2, <2>3, AbstractUnitEnds DEF WriterFails
<1>d. ASSUME UNCHANGED <<at, wpc, wjob>> PROVE Stays
  BY <1>d DEF Stays, explored, FoundUnits, DeliveredUnits, GivenUpUnits
<1>22. ASSUME NEW w \in Workers, WorkerRestartsProvider(w) PROVE Goal
  BY <1>b, <1>d, <1>22 DEF WorkerRestartsProvider
<1>23. ASSUME NEW w \in Workers, WorkerReceivesNil(w) PROVE Goal
  <2>1. Stays /\ status = "running" /\ status' = "aborted"
    BY <1>d, <1>23 DEF WorkerReceivesNil, Running, status, Finished
  <2>2. AbstractScrape!Abort
    BY <2>1 DEF AbstractScrape!Abort, Stays, FoundUnits, Found, DeliveredUnits, GivenUpUnits
  <2>. QED BY <2>2 DEF AbstractScrape!Next
<1>24. CASE ExiterRuns \/ OutsideCancels \/ InactivityExits
  <2>1. Stays /\ app' = app /\ app # "crashed" /\ ~Cancelled
    BY <1>d, <1>24 DEF ExiterRuns, OutsideCancels, InactivityExits, Cancel
  <2>2. app \in {"running"}
    BY <1>0, <2>1 DEF Sent, TypeOK
  <2>3. status' = status
    BY <2>1, <2>2 DEF status, Finished
  <2>. QED BY <2>1, <2>3, AbstractStays
<1>25. CASE MateReturns \/ WriterReturns
  <2>1. Stays /\ app \in {"running", "closed"} /\ app' \in {"running", "closed"}
    BY <1>d, <1>25 DEF MateReturns, WriterReturns, Running
  <2>2. status' = status
    BY <2>1 DEF status, Finished
  <2>. QED BY <2>1, <2>2, AbstractStays
<1>26. CASE AppReturns
  <2>1. Stays /\ app = "closed" /\ app' = "returned" /\ cause' = cause
    BY <1>d, <1>26 DEF AppReturns
  <2>2. status = "running" /\ status' = IF cause = "exiter" THEN "complete" ELSE "aborted"
    BY <2>1 DEF status, Finished
  <2>3. CASE cause = "exiter"
    <3>1. explored = Seeds /\ FoundUnits \subseteq DeliveredUnits \cup GivenUpUnits
      BY <2>1, <2>3, NothingLeft
    <3>2. AbstractScrape!Complete
      BY <2>1, <2>2, <2>3, <3>1
      DEF AbstractScrape!Complete, AbstractScrape!Outstanding, Stays, FoundUnits, Found,
          DeliveredUnits, GivenUpUnits
    <3>. QED BY <3>2 DEF AbstractScrape!Next
  <2>4. CASE cause # "exiter"
    <3>1. AbstractScrape!Abort
      BY <2>1, <2>2, <2>4
      DEF AbstractScrape!Abort, Stays, FoundUnits, Found, DeliveredUnits, GivenUpUnits
    <3>. QED BY <3>1 DEF AbstractScrape!Next
  <2>. QED BY <2>3, <2>4
<1>27. CASE UNCHANGED vars
  BY <1>b, <1>d, <1>27 DEF vars
<1>. HIDE DEF Goal
<1>. QED
  BY <1>1, <1>2, <1>3, <1>4, <1>5, <1>6, <1>7, <1>8, <1>9, <1>10, <1>11, <1>12, <1>13,
      <1>14, <1>15, <1>16, <1>17, <1>18, <1>19, <1>20, <1>21, <1>22, <1>23, <1>24, <1>25, <1>26,
      <1>27
  DEF Next, WorkerStep, Terminated

\* Every step of workers, forwarders, writer and application is a step of the
\* abstract scrape or none: a unit is delivered or given up once, and a scrape that
\* reports completion has explored every search and has nothing outstanding.
THEOREM EngineImplementsScrape == Spec => ImplementsScrape
<1>1. Init => AbstractScrape!Init
  BY AbstractInit
<1>2. WorkInv /\ Counts /\ Sent /\ [Next]_vars => [AbstractScrape!Next]_(AbstractScrape!vars)
  BY AbstractStep
<1>. QED
  BY <1>1, <1>2, Working, Counting, Sending, PTL DEF Spec, ImplementsScrape, AbstractScrape!Spec
=============================================================================
