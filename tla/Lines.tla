-------------------------------- MODULE Lines --------------------------------
(***************************************************************************)
(* Lists in which everything is once: the line of a lock, the array of a   *)
(* user's sessions, the queue of a cache.                                  *)
(***************************************************************************)
EXTENDS Integers, Sequences

In(q) == {q[i] : i \in DOMAIN q}
Once(q) == \A i, j \in DOMAIN q : q[i] = q[j] => i = j

\* x comes before y.
Before(q, x, y) == \E i, j \in DOMAIN q : i < j /\ q[i] = x /\ q[j] = y

\* The first x is taken out.
TakenOut(q, x) ==
  LET i == CHOOSE i \in DOMAIN q : q[i] = x IN
  IF x \in In(q) THEN [j \in 1..(Len(q) - 1) |-> q[IF j < i THEN j ELSE j + 1]]
                 ELSE q
=============================================================================
