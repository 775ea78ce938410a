---------------------------- MODULE MTaskTokens ----------------------------
(***************************************************************************)
(* Where the counts of a semaphore of MTask are: in the semaphore, or with *)
(* the requests that were given theirs and have not returned yet.          *)
(***************************************************************************)
EXTENDS MTask, FiniteSetsExt

Given(s) == {e \in Waiting(s) : ev[e].status = "COMPLETE"}

Counts(s) == sem[s].count + MapThenSumSet(LAMBDA e : ev[e].len, Given(s))

Posts(s, n) == \E t \in Threads : SyPostSem(t, s, n)

(***************************************************************************)
(* Counts come into being only when syCreateSem or syPostSem makes them,   *)
(* and no more than it was asked for: no wake-up, retry, failed wait or    *)
(* end of a thread gives the same count to two waiters, or gives it to one *)
(* and keeps it as well.                                                   *)
(***************************************************************************)
CountsNotMade ==
  [][\A s \in Sems : Counts(s)' > Counts(s) =>
       \/ sem[s].state = "free"
       \/ \E n \in 1..MaxReq : Posts(s, n) /\ Counts(s)' <= Counts(s) + n]_vars
=============================================================================
