----------------------------- MODULE BrowserPool -----------------------------
(***************************************************************************)
(* The browsers behind a scrape's fetches: the JavaScript fetcher of        *)
(* third_party/scrapemate/adapters/fetchers/jshttp.                         *)
(*                                                                         *)
(* A pool has a channel of slots, a slot is one browser.  With one page per *)
(* browser a fetch takes the whole slot (session_slot.go), which launches   *)
(* its browser on first use and replaces what broke: page, context or       *)
(* browser.  With more, each slot is in the channel once per page, a fetch  *)
(* takes a lease on a page (page_slot_pool.go), and nothing is replaced.    *)
(* Playwright's objects may break at any time, and a browser that crashes   *)
(* may wedge its driver, whose Close then may block for ever.               *)
(***************************************************************************)
EXTENDS Integers, FiniteSets

CONSTANTS
    Fetchers,       \* the engine's worker goroutines
    Slots,          \* the browsers of the pool
    PageLimits      \* values of -pages-per-browser that are checked

ASSUME PoolAssumption == IsFiniteSet(Fetchers) /\ PageLimits \subseteq Nat \ {0}

VARIABLES
    limit,      \* maxPagesPerBrowser
    free,       \* how often each slot is in the channel
    slot,       \* per slot: browser, context, primary page, and its active counter
    fetch,      \* per fetcher: where it is, the slot it holds, its page, whether the job is late
    stopping,   \* the engine's context is done
    pool,       \* whether the fetcher was closed
    pw          \* Playwright: its driver, and whether a browser may run that no slot knows

poolVars == <<limit, free, slot, fetch, stopping, pool, pw>>

Sessions == limit = 1

FetchStates == {"idle", "waiting", "took", "scraping", "releasing", "hung"}

PoolTypeOK ==
    /\ limit \in PageLimits
    /\ free \in [Slots -> 0..limit]
    /\ slot \in [Slots -> [browser : {"none", "up", "down"}, context : {"up", "down"},
                           page : {"none", "open"}, active : 0..limit]]
    /\ fetch \in [Fetchers -> [at : FetchStates, has : SUBSET Slots,
                               page : {"none", "open", "gone"}, late : BOOLEAN]]
    /\ stopping \in BOOLEAN
    /\ pool \in {"open", "closed"}
    /\ pw \in [driver : {"works", "wedged", "stopped"}, stray : BOOLEAN]

Idle == [at |-> "idle", has |-> {}, page |-> "none", late |-> FALSE]

\* Page slots launch their browsers at once, session slots when they are used.
PoolInit ==
    /\ limit \in PageLimits
    /\ free = [s \in Slots |-> limit]
    /\ slot = [s \in Slots |-> [browser |-> IF Sessions THEN "none" ELSE "up",
                                context |-> "up", page |-> "none", active |-> 0]]
    /\ fetch = [w \in Fetchers |-> Idle]
    /\ stopping = FALSE /\ pool = "open"
    /\ pw = [driver |-> "works", stray |-> FALSE]

Holders(s) == {w \in Fetchers : s \in fetch[w].has}

FetchGoes(w, at) == fetch' = [fetch EXCEPT ![w].at = at]

-----------------------------------------------------------------------------
(* Taking a slot                                                            *)

StartsFetch(w) ==
    /\ fetch[w].at = "idle" /\ ~stopping
    /\ FetchGoes(w, "waiting")
    /\ UNCHANGED <<limit, free, slot, stopping, pool, pw>>

\* getSlot, or acquire, which counts the lease.
TakesSlot(w, s) ==
    /\ fetch[w].at = "waiting" /\ free[s] > 0
    /\ free' = [free EXCEPT ![s] = @ - 1]
    /\ fetch' = [fetch EXCEPT ![w].at = "took", ![w].has = {s}]
    /\ slot' = IF Sessions THEN slot ELSE [slot EXCEPT ![s].active = @ + 1]
    /\ UNCHANGED <<limit, stopping, pool, pw>>

\* The context of the wait is done: the engine's, and for a lease the job's too.
GivesUpWaiting(w) ==
    /\ fetch[w].at = "waiting"
    /\ stopping \/ fetch[w].late
    /\ fetch' = [fetch EXCEPT ![w] = Idle]
    /\ UNCHANGED <<limit, free, slot, stopping, pool, pw>>

\* A lease is waited for in the job's timeout; a session slot is not, and its
\* job has a timeout only while it scrapes.
JobTimesOut(w) ==
    /\ ~fetch[w].late
    /\ IF Sessions THEN fetch[w].at = "scraping" ELSE fetch[w].at # "idle"
    /\ fetch' = [fetch EXCEPT ![w].late = TRUE]
    /\ UNCHANGED <<limit, free, slot, stopping, pool, pw>>

-----------------------------------------------------------------------------
(* Taking a page                                                            *)

\* newBrowser for a slot that has none yet.
Launched == [browser |-> "up", context |-> "up", page |-> "none", active |-> 0]

Strays(some) == pw' = [pw EXCEPT !.stray = @ \/ some]

\* ensureReady may fail, and the slot stays without a browser: it could not be
\* launched, or no context be made in it, and then it runs on.
LaunchFails(w, s) ==
    /\ Sessions /\ fetch[w].at = "took" /\ s \in fetch[w].has
    /\ slot[s].browser = "none"
    /\ FetchGoes(w, "releasing")
    /\ \E running \in BOOLEAN : Strays(running)
    /\ UNCHANGED <<limit, free, slot, stopping, pool>>

\* Closing context and browser.  Errors are dropped: a wedged driver may leave them.
SlotClosed_Dropped(r) == r
SlotClosed(r) == [r EXCEPT !.browser = IF @ = "none" THEN @ ELSE "down",
                           !.context = "down", !.page = "none"]

Closes(r) == {SlotClosed(r)} \cup (IF pw.driver = "wedged" THEN {r} ELSE {})

\* What acquirePage makes of a slot, r being its runtime.  isClosed is true of a
\* page that is open, so an open page is always closed and made again; a page is
\* made in the context, if that fails in a new context (without proxy and user
\* agent), if that fails the browser is closed and launched again, which may fail
\* like the first launch, and this fetch gets no page.
NewPage(r) == [slot |-> [r EXCEPT !.page = "open"], page |-> "open", stray |-> FALSE]

NoPage(r, stray) == [slot |-> r, page |-> "none", stray |-> stray]

Relaunches(r) ==
    UNION {{NoPage(Launched, old.browser = "up"), NoPage(old, TRUE), NoPage(old, FALSE)} :
              old \in Closes(r)}

Pages(r) ==
    CASE r.browser = "up" /\ r.context = "up"   -> {NewPage(r)}
      [] r.browser = "up" /\ r.context = "down" ->
             {NewPage([r EXCEPT !.context = "up"])} \cup Relaunches(r)
      [] OTHER -> Relaunches(r)

AcquiresPage(w, s) ==
    /\ Sessions /\ fetch[w].at = "took" /\ s \in fetch[w].has
    /\ \E got \in Pages(IF slot[s].browser = "none" THEN Launched ELSE slot[s]) :
         /\ slot' = [slot EXCEPT ![s] = got.slot]
         /\ Strays(got.stray)
         /\ fetch' = [fetch EXCEPT ![w].page = got.page,
                        ![w].at = IF got.page = "open" THEN "scraping" ELSE "releasing"]
    /\ UNCHANGED <<limit, free, stopping, pool>>

\* fetchWithPageSlot: a page of its own in the slot's context, if that works.
OpensPage(w, s) ==
    /\ ~Sessions /\ fetch[w].at = "took" /\ s \in fetch[w].has
    /\ fetch' = IF slot[s].browser = "up" /\ slot[s].context = "up"
                THEN [fetch EXCEPT ![w].at = "scraping", ![w].page = "open"]
                ELSE [fetch EXCEPT ![w].at = "releasing"]
    /\ UNCHANGED <<limit, free, slot, stopping, pool, pw>>

-----------------------------------------------------------------------------
(* Giving page and slot back                                                *)

\* BrowserActions returns or panics; the page of a lease is closed, that of a
\* session stays open in its slot.
EndsScraping(w) ==
    /\ fetch[w].at = "scraping"
    /\ fetch' = [fetch EXCEPT ![w].at = "releasing", ![w].page = "none"]
    /\ UNCHANGED <<limit, free, slot, stopping, pool, pw>>

\* putSlot: its context is the engine's, not the job's.  When that is done the
\* slot may be closed instead.
PutSlotContextDone_OfJob(w) == stopping \/ fetch[w].late
PutSlotContextDone(w) == stopping

PutsSlot(w, s) ==
    /\ Sessions /\ fetch[w].at = "releasing" /\ s \in fetch[w].has
    /\ \/ free' = [free EXCEPT ![s] = @ + 1] /\ UNCHANGED slot
       \/ /\ PutSlotContextDone(w)
          /\ \E closed \in Closes(slot[s]) : slot' = [slot EXCEPT ![s] = closed]
          /\ UNCHANGED free
    /\ fetch' = [fetch EXCEPT ![w] = Idle]
    /\ UNCHANGED <<limit, stopping, pool, pw>>

\* A lease goes back in the job's context: one whose job timed out may not.
LeaseKept_Twice(w) == {1, 2}
LeaseKept(w) == IF stopping \/ fetch[w].late THEN {0, 1} ELSE {1}

ReleasesLease(w, s) ==
    /\ ~Sessions /\ fetch[w].at = "releasing" /\ s \in fetch[w].has
    /\ slot' = [slot EXCEPT ![s].active = @ - 1]
    /\ \E n \in LeaseKept(w) : free' = [free EXCEPT ![s] = @ + n]
    /\ fetch' = [fetch EXCEPT ![w] = Idle]
    /\ UNCHANGED <<limit, stopping, pool, pw>>

\* Only the page of a lease is closed in a bounded time (closeWithTimeout).
CloseUnbounded_Always == TRUE
CloseUnbounded == Sessions

\* A close of the driver's does not return: of the pages, context or browser that are
\* replaced, of the pages a job opened besides its own, or of the slot that is not put
\* back.  The fetch stays where it is, and keeps its slot.
CloseHangs(w) ==
    /\ CloseUnbounded /\ pw.driver = "wedged"
    /\ \/ fetch[w].at \in {"took", "scraping"}
       \/ /\ fetch[w].at = "releasing" /\ PutSlotContextDone(w)
          /\ \E s \in fetch[w].has : slot[s].browser # "none"
    /\ FetchGoes(w, "hung")
    /\ UNCHANGED <<limit, free, slot, stopping, pool, pw>>

-----------------------------------------------------------------------------
(* The browsers break, the engine stops                                     *)

\* A context or a browser goes, and with it the pages in use.
Breaks(s) ==
    /\ pool = "open" /\ slot[s].browser = "up" /\ slot[s].context = "up"
    /\ \E b \in {"up", "down"} :
         slot' = [slot EXCEPT ![s].browser = b, ![s].context = "down", ![s].page = "none"]
    /\ \/ UNCHANGED pw
       \/ slot'[s].browser = "down" /\ pw' = [pw EXCEPT !.driver = "wedged"]
    /\ fetch' = [w \in Fetchers |->
                   IF w \in Holders(s) /\ fetch[w].page = "open"
                   THEN [fetch[w] EXCEPT !.page = "gone"] ELSE fetch[w]]
    /\ UNCHANGED <<limit, free, stopping, pool>>

EngineStops ==
    /\ ~stopping /\ stopping' = TRUE
    /\ UNCHANGED <<limit, free, slot, fetch, pool, pw>>

\* Start has returned, so no worker fetches any more: the channel's slots are
\* drained and closed, or all page slots.  Then the driver is stopped, which takes all
\* its browsers along, or fails to.  (Where a close blocks, the pool is never closed.)
ClosesPool ==
    /\ stopping /\ pool = "open" /\ \A w \in Fetchers : fetch[w].at = "idle"
    /\ pool' = "closed"
    /\ free' = IF Sessions THEN [s \in Slots |-> 0] ELSE free
    /\ \/ /\ pw' = [driver |-> "stopped", stray |-> FALSE]
          /\ slot' = [s \in Slots |-> [slot[s] EXCEPT !.browser = IF @ = "up" THEN "down" ELSE @]]
       \/ /\ pw' = pw
          /\ \E left \in SUBSET Slots :
               /\ pw.driver # "wedged" => left = {}
               /\ slot' = [s \in Slots |->
                             IF (Sessions /\ free[s] = 0) \/ s \in left THEN slot[s]
                             ELSE SlotClosed(slot[s])]
    /\ UNCHANGED <<limit, fetch, stopping>>

-----------------------------------------------------------------------------
\* What a fetch does by itself once it has a slot, or gave up.
FetchStep(w) ==
    \/ GivesUpWaiting(w) \/ EndsScraping(w)
    \/ \E s \in Slots : LaunchFails(w, s) \/ AcquiresPage(w, s) \/ OpensPage(w, s)
                        \/ PutsSlot(w, s) \/ ReleasesLease(w, s)

Takes(w) == \E s \in Slots : TakesSlot(w, s)

PoolNext ==
    \/ \E w \in Fetchers : \/ StartsFetch(w) \/ Takes(w) \/ JobTimesOut(w) \/ FetchStep(w)
                           \/ CloseHangs(w)
    \/ \E s \in Slots : Breaks(s)
    \/ EngineStops \/ ClosesPool

PoolSpec == PoolInit /\ [][PoolNext]_poolVars

\* Each goroutine runs on, timers fire, and a slot is handed to the waiting in
\* the order they came.
PoolFairness ==
    \A w \in Fetchers : /\ WF_poolVars(FetchStep(w))
                         /\ WF_poolVars(JobTimesOut(w))
                         /\ SF_poolVars(Takes(w))

-----------------------------------------------------------------------------
\* -pages-per-browser is the "maximum concurrent pages per browser context": no
\* slot is held, or is there to be taken, more often than that, and its active
\* counter tells its leases.  While the engine runs, no outcome of a session's
\* fetch loses its slot: no timeout, broken page or failed launch.
SlotsKept ==
    \A s \in Slots :
        LET there == free[s] + Cardinality(Holders(s)) IN
          /\ there <= limit
          /\ Sessions /\ ~stopping => there = 1
          /\ ~Sessions => slot[s].active = Cardinality(Holders(s))

\* Once the fetcher is closed, no browser of a slot still runs, though the driver could
\* not be stopped: what was replaced was closed before, and so was what did not go back
\* to the channel.  The exceptions are a wedged driver that could not be stopped either,
\* and, where it could not, a browser newBrowser left running without a context.
AllBrowsersClosed ==
    pool = "closed" =>
        /\ pw.driver = "stopped" => ~pw.stray
        /\ pw.driver # "wedged" => \A s \in Slots : slot[s].browser # "up"

\* A fetch that waits is served or gives up, and ends, although browsers break,
\* launches fail and jobs time out.  The exception is a session behind a driver that is
\* wedged: it hangs in a close, or all slots are held by fetches that do.
FetchEnds ==
    \A w \in Fetchers :
        fetch[w].at = "waiting" ~>
            \/ fetch[w].at = "idle"
            \/ /\ Sessions
               /\ \/ fetch[w].at = "hung"
                  \/ \A s \in Slots : \E v \in Holders(s) : fetch[v].at = "hung"
=============================================================================
