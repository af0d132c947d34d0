------------------------------- MODULE Exiter -------------------------------
(***************************************************************************)
(* The exit monitor of a scrape (exiter/exiter.go): four counters under    *)
(* one mutex and a channel of capacity one.  Each operation is an operator *)
(* on the monitor's record; a module that runs one keeps it in a variable. *)
(*                                                                         *)
(* An operation of the code locks, counts, evaluates its condition and     *)
(* unlocks, and only then sends.  The send is folded into the operation:   *)
(* nothing reads doneCh but Run, whose own step is separate.               *)
(***************************************************************************)
EXTENDS Naturals

NewExiter(seeds) ==
  [seedCount |-> seeds, seedCompleted |-> 0,
   placesFound |-> 0, placesCompleted |-> 0, doneCh |-> FALSE]

ExiterState ==
  [seedCount : Nat, seedCompleted : Nat,
   placesFound : Nat, placesCompleted : Nat, doneCh : BOOLEAN]

AllDone_SeedsOnly(e) == e.seedCompleted >= e.seedCount

\* The condition the two completing operations evaluate under the lock.
AllDone(e) ==
  /\ e.seedCompleted >= e.seedCount
  /\ e.placesCompleted >= e.placesFound

\* The non-blocking send: a token already in the channel absorbs it.
Notify(e) == [e EXCEPT !.doneCh = @ \/ AllDone(e)]

IncrSeedCompleted(e, n)   == Notify([e EXCEPT !.seedCompleted = @ + n])
IncrPlacesFound(e, n)     == [e EXCEPT !.placesFound = @ + n]
IncrPlacesCompleted(e, n) == Notify([e EXCEPT !.placesCompleted = @ + n])
=============================================================================
