------------------------------- MODULE Scrape -------------------------------
(***************************************************************************)
(* What a scrape promises its caller, whatever runs it: each search is     *)
(* explored at most once and finds places; each place found is delivered   *)
(* once or given up once, never both; and a scrape that reports itself     *)
(* complete has explored every search and has nothing outstanding.         *)
(***************************************************************************)
EXTENDS FiniteSets

CONSTANTS Seeds, Places

VARIABLES
  explored,   \* the searches that were processed
  found,      \* the units <<search, place>> they found
  delivered,  \* the units whose result the writer has
  given_up,   \* the units whose job failed
  status      \* "running", "complete", "aborted"

vars == <<explored, found, delivered, given_up, status>>

Init ==
  /\ explored = {} /\ found = {} /\ delivered = {} /\ given_up = {}
  /\ status = "running"

Explore(s) ==
  /\ status = "running" /\ s \notin explored
  /\ explored' = explored \cup {s}
  /\ \E ps \in SUBSET Places : found' = found \cup ({s} \X ps)
  /\ UNCHANGED <<delivered, given_up, status>>

Outstanding == found \ (delivered \cup given_up)

Deliver(u) ==
  /\ status = "running" /\ u \in Outstanding
  /\ delivered' = delivered \cup {u}
  /\ UNCHANGED <<explored, found, given_up, status>>

GiveUp(u) ==
  /\ status = "running" /\ u \in Outstanding
  /\ given_up' = given_up \cup {u}
  /\ UNCHANGED <<explored, found, delivered, status>>

Complete ==
  /\ status = "running" /\ explored = Seeds /\ Outstanding = {}
  /\ status' = "complete"
  /\ UNCHANGED <<explored, found, delivered, given_up>>

Abort ==
  /\ status = "running"
  /\ status' = "aborted"
  /\ UNCHANGED <<explored, found, delivered, given_up>>

Next ==
  \/ \E s \in Seeds : Explore(s)
  \/ \E u \in Seeds \X Places : Deliver(u) \/ GiveUp(u)
  \/ Complete \/ Abort

Spec == Init /\ [][Next]_vars
=============================================================================
