----------------------------- MODULE MTaskMutex -----------------------------
(***************************************************************************)
(* Threads of MTask that use a semaphore as a mutex, the way the HTTP      *)
(* server uses NHT.TimerDataMutex: syCreateSem(1, 0) once, and then        *)
(* syGetSem(m, 1, 0) and syPostSem(m, 1, 0) in turns, by every thread.     *)
(* A wait table with an entry to spare for each thread is assumed: the     *)
(* HTTP server does not look at what syGetSem returns.                     *)
(***************************************************************************)
EXTENDS MTask

CONSTANT Mutex    \* the semaphore

ASSUME MutexAssumption ==
  /\ Mutex \in Sems
  /\ MaxCount > 0
  /\ {"create", "yield", "exit", "post", "get"} \subseteq Ops

VARIABLE inside   \* the threads between their syGetSem and their syPostSem

mvars == <<vars, inside>>

Make(t) == SyCreateSem(t, Mutex, 1) /\ UNCHANGED inside

Take(t) ==
  /\ t \notin inside
  /\ SyGetSemAvailable(t, Mutex, 1)
  /\ inside' = inside \cup {t}

Wait(t) ==
  /\ t \notin inside
  /\ SyGetSemBlock(t, Mutex, 1)
  /\ UNCHANGED inside

Taken(t) ==
  /\ ReturnGet(t)
  /\ inside' = inside \cup {t}

Leave(t) ==
  /\ t \in inside
  /\ SyPostSem(t, Mutex, 1)
  /\ inside' = inside \ {t}

\* What else the threads do; none ends inside.
Elsewhere(t) ==
  /\ \/ \E u \in Threads : ThCreate(t, u)
     \/ ThYield(t)
     \/ t \notin inside /\ ThExit(t)
  /\ UNCHANGED inside

MStep(t) ==
  Make(t) \/ Take(t) \/ Wait(t) \/ Taken(t) \/ Leave(t) \/ Elsewhere(t)

Run(t) == Dispatch(t) /\ UNCHANGED inside

MInit == Init /\ inside = {}
MNext == \E t \in Threads : MStep(t) \/ Run(t)
MSpec == MInit /\ [][MNext]_mvars

\* The running thread calls mtSched() with a tick gone by, or gives way.
GivesWay == current # None /\ (\E t \in Threads : MStep(t)) /\ current' = None

(***************************************************************************)
(* mtSched() runs every thread that stays runnable, a thread does not keep *)
(* the processor, and what is done inside the mutex ends.                  *)
(***************************************************************************)
MFairSpec ==
  /\ MSpec
  /\ WF_mvars(GivesWay)
  /\ \A t \in Threads : SF_mvars(Run(t)) /\ WF_mvars(Taken(t)) /\ SF_mvars(Leave(t))

-----------------------------------------------------------------------------
\* The holder, if it is no longer in the wait table, and then the wait table.
Line(q) == [i \in DOMAIN q |-> q[i][1]]
Queue == (IF inside = {} THEN <<>> ELSE <<CHOOSE t \in inside : TRUE>>) \o Line(table)

Lock == INSTANCE FairLock WITH Clients <- Threads, queue <- Queue

(***************************************************************************)
(* At most one thread is inside the mutex, whoever posted, got the count   *)
(* or was woken between another thread's syGetSem and its return.          *)
(***************************************************************************)
Exclusive == \A t, u \in inside : t = u

(***************************************************************************)
(* The semaphore is the lock its users take it for: who holds it and who   *)
(* is next never change but by a syGetSem, which goes to the end of the    *)
(* line, and the holder's syPostSem.  In particular a thread that finds a  *)
(* count in syGetSem never passes one that waits.                          *)
(***************************************************************************)
IsFairLock == Lock!Spec

(***************************************************************************)
(* A thread that waits for the mutex in syGetSem gets it in the end.       *)
(***************************************************************************)
Served == \A t \in Threads : call[t] = "get" ~> t \in inside
=============================================================================
