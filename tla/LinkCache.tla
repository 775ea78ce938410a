------------------------------ MODULE LinkCache ------------------------------
(***************************************************************************)
(* What the callers of a hash queue (xhashqueue.h, "Usage") rely on: an    *)
(* item they hold a reference of stays what its key stands for, until one  *)
(* of those who hold it removes it, and an item no one holds may go at any *)
(* time.                                                                   *)
(***************************************************************************)
EXTENDS Naturals

CONSTANTS Clients, Keys, Items, None

VARIABLES
  cached,   \* the item of each key
  held      \* the item each client has a reference of

Init ==
  /\ cached = [k \in Keys |-> None]
  /\ held = [t \in Clients |-> None]

Add(t, k, x) ==
  /\ held[t] = None /\ cached[k] = None
  /\ \A j \in Keys : cached[j] # x
  /\ cached' = [cached EXCEPT ![k] = x]
  /\ held' = [held EXCEPT ![t] = x]

Find(t, k) ==
  /\ held[t] = None /\ cached[k] # None
  /\ held' = [held EXCEPT ![t] = cached[k]]
  /\ UNCHANGED cached

Drop(t) ==
  /\ held[t] # None
  /\ held' = [held EXCEPT ![t] = None]
  /\ UNCHANGED cached

Remove(t, k) ==
  /\ cached[k] # None /\ held[t] = cached[k]
  /\ cached' = [cached EXCEPT ![k] = None]
  /\ held' = [held EXCEPT ![t] = None]

Discard(k) ==
  /\ cached[k] # None
  /\ \A t \in Clients : held[t] # cached[k]
  /\ cached' = [cached EXCEPT ![k] = None]
  /\ UNCHANGED held

Next ==
  \/ \E t \in Clients : Drop(t)
  \/ \E t \in Clients, k \in Keys : Find(t, k) \/ Remove(t, k)
  \/ \E t \in Clients, k \in Keys, x \in Items : Add(t, k, x)
  \/ \E k \in Keys : Discard(k)

Spec == Init /\ [][Next]_<<cached, held>>
=============================================================================
