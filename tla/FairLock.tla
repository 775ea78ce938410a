------------------------------ MODULE FairLock ------------------------------
(***************************************************************************)
(* What the callers of a semaphore made with one count, and only ever      *)
(* taken and then posted, rely on: a lock that one client holds and that   *)
(* the others get in the order they asked for it.                          *)
(***************************************************************************)
EXTENDS Sequences

CONSTANT Clients
VARIABLE queue    \* who holds the lock and, in order, who waits for it

Holds(t) == queue # <<>> /\ Head(queue) = t

Init == queue = <<>>

\* To get a free lock and to queue up for a held one look the same.
Ask(t) ==
  /\ \A i \in DOMAIN queue : queue[i] # t
  /\ queue' = Append(queue, t)

Release(t) ==
  /\ Holds(t)
  /\ queue' = Tail(queue)

Next == \E t \in Clients : Ask(t) \/ Release(t)

Spec == Init /\ [][Next]_queue
=============================================================================
