------------------------------- MODULE MTask -------------------------------
(***************************************************************************)
(* The cooperative thread kernel of centrallix-lib (src/mtask.c): thread   *)
(* life cycle, the system event wait table, semaphores, thWait,            *)
(* thMultiWait (and thSleep, thWaitTimed, which call it) and thLock.       *)
(*                                                                         *)
(* One action is the code an API call runs up to its call of mtSched(),    *)
(* including mtSched()'s prologue (Enter).  Dispatch is the rest of        *)
(* mtSched(): timers expire, a RUNNABLE thread is picked, the waits on     *)
(* that thread complete, and it resumes.  Which RUNNABLE thread is picked  *)
(* is left open here.  The Return actions and MultiBlock are what a        *)
(* resumed thread does before its API call returns to the caller.          *)
(*                                                                         *)
(* File descriptor waits, signals and the per-thread security context      *)
(* are not part of this module.                                            *)
(***************************************************************************)
EXTENDS Integers, Sequences

CONSTANTS
  Threads,    \* thread descriptors (addresses: reused after thExit, thKill)
  Sems,       \* semaphore structures (addresses: reused after syDestroySem)
  None,       \* the NULL pointer
  Ops,        \* the API operations the threads use
  MaxEvents,  \* MT_MAX_EVENTS, size of the event wait table
  MaxCount,   \* bound on a semaphore's count plus a post
  MaxReq      \* bound on the counts asked for or posted in one call

ASSUME ObjectAssumption ==
  /\ Threads # {}
  /\ Threads \cap Sems = {}
  /\ None \notin Threads \cup Sems

ASSUME BoundAssumption ==
  /\ MaxEvents \in Nat
  /\ MaxCount \in Nat
  /\ MaxReq \in Nat \ {0}

Objects == Threads \cup Sems

(***************************************************************************)
(* A thread has at most two event requests: the timer of a thMultiWait     *)
(* and the request for an object.                                          *)
(***************************************************************************)
EventIds == Threads \X {"timer", "object"}
Timer(t) == <<t, "timer">>
Req(t)   == <<t, "object">>

EventTypes == {"MT_TIMER", "SEM_GET", "THR_START", "THR_EXIT", "THR_TIME"}

\* What may be waited for on an object.
TypesOf(o) == IF o \in Sems THEN {"SEM_GET"}
              ELSE {"THR_START", "THR_EXIT", "THR_TIME"}
\* The argument count of a wait; it means nothing for a thread.
LensOf(o) == IF o \in Sems THEN 1..MaxReq ELSE {1}

VARIABLES
  process,   \* "running", "exited", or "faulted" once thKill freed a request
             \* that lives on a stack: nothing is specified after that
  status,    \* Thread.Status, "none" when not in the thread table
  starting,  \* threads with THR_F_STARTING
  current,   \* MTASK.CurrentThread
  locked,    \* MTASK.LockedThread
  table,     \* MTASK.EventWaitTable
  ev,        \* the EventReq structures
  sem,       \* the Semaphore structures
  call       \* the API call a suspended thread will continue

vars == <<process, status, starting, current, locked, table, ev, sem, call>>

NoRequest == [obj |-> None, type |-> "MT_TIMER", len |-> 1,
              status |-> "COMPLETE", idx |-> 0]

Request(o, type, len, idx) ==
  [obj |-> o, type |-> type, len |-> len, status |-> "INPROC", idx |-> idx]

Statuses == {"none", "EXECUTING", "RUNNABLE", "BLOCKED"}

EventReq == [obj : Objects \cup {None}, type : EventTypes, len : 1..MaxReq,
             idx : 0..MaxEvents, status : {"INPROC", "COMPLETE", "ERROR"}]

TypeOK ==
  /\ process \in {"running", "exited", "faulted"}
  /\ status \in [Threads -> Statuses]
  /\ starting \in SUBSET Threads
  /\ current \in Threads \cup {None}
  /\ locked \in Threads \cup {None}
  /\ table \in Seq(EventIds)
  /\ Len(table) <= MaxEvents
  /\ ev \in [EventIds -> EventReq]
  /\ sem \in [Sems -> [state : {"free", "open", "closing"}, count : 0..MaxCount]]
  /\ call \in [Threads -> {"none", "get", "wait", "enter", "multi"}]

-----------------------------------------------------------------------------
(***************************************************************************)
(* The event wait table.                                                   *)
(***************************************************************************)
InTable(q) == {q[i] : i \in DOMAIN q}
Waiting(o) == {e \in InTable(table) : ev[e].obj = o}

\* Mutants of the table operations: the last entry fills the gap; the entry
\* that moves into the gap keeps its index; a waker forgets Thr->Status.
ShiftSwapsLast(q, i) ==
  [j \in 1..(Len(q) - 1) |-> IF j = i THEN q[Len(q)] ELSE q[j]]
RenumberSkipsGap(r, q, i) ==
  [e \in EventIds |->
     IF \E j \in (i + 1)..Len(q) : q[j] = e
     THEN [r[e] EXCEPT !.idx = CHOOSE j \in (i + 1)..Len(q) : q[j] = e]
     ELSE r[e]]
WakeForgotten(st, E) == st

\* evRemoveIdx shifts the younger entries down and renumbers them.
Shift(q, i) == [j \in 1..(Len(q) - 1) |-> IF j < i THEN q[j] ELSE q[j + 1]]

Renumber(r, q, i) ==
  [e \in EventIds |->
     IF \E j \in i..Len(q) : q[j] = e
     THEN [r[e] EXCEPT !.idx = CHOOSE j \in i..Len(q) : q[j] = e]
     ELSE r[e]]

Position(q, e) == CHOOSE i \in DOMAIN q : q[i] = e

\* What thKill's loop does to the table and the requests for one request e.
Dropped(q, e) == IF e \in InTable(q) THEN Shift(q, Position(q, e)) ELSE q
DroppedReqs(r, q, e) ==
  IF e \in InTable(q) THEN Renumber(r, Shift(q, Position(q, e)), Position(q, e))
  ELSE r

Room(n) == Len(table) + n <= MaxEvents

\* Give the requests in E the given outcome, and make their threads runnable.
Answer(E, code) ==
  [e \in EventIds |-> IF e \in E THEN [ev[e] EXCEPT !.status = code] ELSE ev[e]]
Wake(st, E) ==
  [u \in Threads |-> IF \E e \in E : e[1] = u THEN "RUNNABLE" ELSE st[u]]

\* thExit and thKill answer the waits on the thread t that ends.
Ended(r, E) ==
  [e \in EventIds |->
     IF e \in E
     THEN [r[e] EXCEPT !.status =
             IF r[e].type = "THR_EXIT" THEN "COMPLETE" ELSE "ERROR"]
     ELSE r[e]]

(***************************************************************************)
(* The prologue of mtSched() for the calling thread t, whose call has made *)
(* the thread statuses st: it returns at once when no tick has passed and  *)
(* t is still EXECUTING, and otherwise gives up the processor.             *)
(***************************************************************************)
Enter(t, st) ==
  \/ /\ st[t] = "EXECUTING"
     /\ status' = st
     /\ current' = t
  \/ /\ status' = [st EXCEPT ![t] = IF @ = "EXECUTING" THEN "RUNNABLE" ELSE @]
     /\ current' = None

Running(t) == process = "running" /\ current = t /\ call[t] = "none"

Alive(u) == status[u] # "none"

-----------------------------------------------------------------------------
(***************************************************************************)
(* Threads.                                                                *)
(***************************************************************************)
ThCreate(t, u) ==
  /\ Running(t)
  /\ ~Alive(u)
  /\ starting' = starting \cup {u}
  /\ Enter(t, [status EXCEPT ![u] = "RUNNABLE"])
  /\ UNCHANGED <<process, locked, table, ev, sem, call>>

ThYield(t) ==
  /\ Running(t)
  /\ Enter(t, [status EXCEPT ![t] = "RUNNABLE"])
  /\ UNCHANGED <<process, starting, locked, table, ev, sem, call>>

ThExit(t) ==
  /\ Running(t)
  /\ ev' = Ended(ev, Waiting(t))
  /\ status' = [Wake(status, Waiting(t)) EXCEPT ![t] = "none"]
  /\ current' = None
  /\ process' = IF locked # None \/ \A u \in Threads \ {t} : ~Alive(u)
                THEN "exited" ELSE "running"
  /\ UNCHANGED <<starting, locked, table, sem, call>>

(***************************************************************************)
(* thKill() of another thread returns that thread's requests to the heap.  *)
(* The requests of thMultiWait() are the caller's and, in every use of it, *)
(* are local variables of a function that is suspended on u's stack.       *)
(***************************************************************************)
ThKill(t, u) ==
  /\ Running(t)
  /\ u # t /\ Alive(u)
  /\ LET q  == Dropped(Dropped(table, Timer(u)), Req(u))
         r  == DroppedReqs(DroppedReqs(ev, table, Timer(u)),
                           Dropped(table, Timer(u)), Req(u))
         W  == {e \in InTable(q) : r[e].obj = u}
     IN /\ table' = q
        /\ ev' = [Ended(r, W) EXCEPT ![Timer(u)] = NoRequest,
                                     ![Req(u)] = NoRequest]
        /\ Enter(t, [Wake(status, W) EXCEPT ![u] = "none"])
  /\ process' = IF call[u] = "multi" THEN "faulted" ELSE "running"
  /\ starting' = starting \ {u}
  /\ call' = [call EXCEPT ![u] = "none"]
  /\ UNCHANGED <<locked, sem>>

ThLock(t) ==
  /\ Running(t)
  /\ locked' = t
  /\ UNCHANGED <<process, status, starting, current, table, ev, sem, call>>

ThUnlock(t) ==
  /\ Running(t)
  /\ locked' = None
  /\ UNCHANGED <<process, status, starting, current, table, ev, sem, call>>

-----------------------------------------------------------------------------
(***************************************************************************)
(* Semaphores.                                                             *)
(***************************************************************************)
SyCreateSem(t, s, n) ==
  /\ Running(t)
  /\ sem[s].state = "free"
  /\ sem' = [sem EXCEPT ![s] = [state |-> "open", count |-> n]]
  /\ UNCHANGED <<process, status, starting, current, locked, table, ev, call>>

\* Mutant: the structure is freed without a look at who waits on it.
SyDestroySemAtOnce(t, s, hard) ==
  /\ Running(t)
  /\ sem[s].state # "free"
  /\ LET E == IF hard THEN Waiting(s) ELSE {} IN
       /\ ev' = Answer(E, "ERROR")
       /\ status' = Wake(status, E)
  /\ sem' = [sem EXCEPT ![s] = [state |-> "free", count |-> 0]]
  /\ UNCHANGED <<process, starting, current, locked, table, call>>

SyDestroySem(t, s, hard) ==
  /\ Running(t)
  /\ sem[s].state # "free"
  /\ LET E == IF hard THEN Waiting(s) ELSE {} IN
       /\ ev' = Answer(E, "ERROR")
       /\ status' = Wake(status, E)
  /\ sem' = IF hard \/ Waiting(s) = {}
            THEN [sem EXCEPT ![s] = [state |-> "free", count |-> 0]]
            ELSE [sem EXCEPT ![s].state = "closing"]
  /\ UNCHANGED <<process, starting, current, locked, table, call>>

\* With l counts still to give away, the loop of syPostSem gives entry i its.
Grants(s, i, l) ==
  /\ l > 0
  /\ ev[table[i]].obj = s
  /\ ev[table[i]].len <= l

\* Mutant: the counts given away stay in the semaphore too.
SyPostSemKeepsAll(t, s, n) ==
  /\ Running(t)
  /\ sem[s].state # "free"
  /\ sem[s].count + n <= MaxCount
  /\ LET G == {e \in Waiting(s) : ev[e].len <= sem[s].count + n} IN
       /\ ev' = Answer(G, "COMPLETE")
       /\ Enter(t, Wake(status, G))
  /\ sem' = [sem EXCEPT ![s].count = @ + n]
  /\ UNCHANGED <<process, starting, locked, table, call>>

(***************************************************************************)
(* left[i] is what the loop has left to give away after entry i.           *)
(***************************************************************************)
SyPostSem(t, s, n) ==
  /\ Running(t)
  /\ sem[s].state # "free"
  /\ sem[s].count + n <= MaxCount
  /\ \E left \in [0..Len(table) -> 0..(sem[s].count + n)] :
       /\ left[0] = sem[s].count + n
       /\ \A i \in DOMAIN table :
            left[i] = IF Grants(s, i, left[i - 1])
                      THEN left[i - 1] - ev[table[i]].len ELSE left[i - 1]
       /\ LET G == {e \in InTable(table) :
                      \E i \in DOMAIN table : table[i] = e /\ Grants(s, i, left[i - 1])}
          IN /\ ev' = Answer(G, "COMPLETE")
             /\ Enter(t, Wake(status, G))
       /\ sem' = [sem EXCEPT ![s].count = left[Len(table)]]
  /\ UNCHANGED <<process, starting, locked, table, call>>

\* Mutants: counts are taken from a semaphore that has too few; a get that
\* asks for all there is blocks.
SyGetSemUnchecked(t, s, n) ==
  /\ Running(t)
  /\ sem[s].state # "free"
  /\ sem' = [sem EXCEPT ![s].count = @ - n]
  /\ Enter(t, status)
  /\ UNCHANGED <<process, starting, locked, table, ev, call>>

SyGetSemBlocksEarly(t, s, n) ==
  /\ Running(t)
  /\ sem[s].state # "free"
  /\ sem[s].count <= n
  /\ Room(1)
  /\ table' = Append(table, Req(t))
  /\ ev' = [ev EXCEPT ![Req(t)] = Request(s, "SEM_GET", n, Len(table) + 1)]
  /\ call' = [call EXCEPT ![t] = "get"]
  /\ Enter(t, [status EXCEPT ![t] = "BLOCKED"])
  /\ UNCHANGED <<process, starting, locked, sem>>

SyGetSemAvailable(t, s, n) ==
  /\ Running(t)
  /\ sem[s].state # "free"
  /\ sem[s].count >= n
  /\ sem' = [sem EXCEPT ![s].count = @ - n]
  /\ Enter(t, status)
  /\ UNCHANGED <<process, starting, locked, table, ev, call>>

\* Not available (and SEM_U_NOBLOCK not given: with it the call changes nothing).
SyGetSemBlock(t, s, n) ==
  /\ Running(t)
  /\ sem[s].state # "free"
  /\ sem[s].count < n
  /\ Room(1)
  /\ table' = Append(table, Req(t))
  /\ ev' = [ev EXCEPT ![Req(t)] = Request(s, "SEM_GET", n, Len(table) + 1)]
  /\ call' = [call EXCEPT ![t] = "get"]
  /\ Enter(t, [status EXCEPT ![t] = "BLOCKED"])
  /\ UNCHANGED <<process, starting, locked, sem>>

\* The wait table is full: the call fails with the thread's status already set.
SyGetSemFull(t, s, n) ==
  /\ Running(t)
  /\ sem[s].state # "free"
  /\ sem[s].count < n
  /\ ~Room(1)
  /\ status' = [status EXCEPT ![t] = "BLOCKED"]
  /\ UNCHANGED <<process, starting, current, locked, table, ev, sem, call>>

ReturnGet(t) ==
  /\ process = "running" /\ current = t
  /\ call[t] = "get"
  /\ LET i == ev[Req(t)].idx IN
       /\ table' = Shift(table, i)
       /\ ev' = [Renumber(ev, Shift(table, i), i) EXCEPT ![Req(t)] = NoRequest]
  /\ call' = [call EXCEPT ![t] = "none"]
  /\ UNCHANGED <<process, status, starting, current, locked, sem>>

-----------------------------------------------------------------------------
(***************************************************************************)
(* thWait() and thMultiWait().                                             *)
(***************************************************************************)
Exists(o) == IF o \in Sems THEN sem[o].state # "free" ELSE Alive(o)

\* The EventCkFn of the object: evSemaphore or evThread returns 1.
Ready(o, type) ==
  \/ o \in Sems /\ sem[o].count > 0
  \/ o \in Threads /\ type = "THR_START" /\ o \notin starting

\* evSemaphore takes one count whenever it reports the semaphore ready.
AfterCheck(o) ==
  IF o \in Sems THEN [sem EXCEPT ![o].count = IF @ > 0 THEN @ - 1 ELSE @] ELSE sem

\* Mutant: the thread is marked BLOCKED before the check and not reset after it.
ThWaitReadyAsleep(t, o, type) ==
  /\ Running(t)
  /\ Exists(o)
  /\ Ready(o, type)
  /\ sem' = AfterCheck(o)
  /\ Enter(t, [status EXCEPT ![t] = "BLOCKED"])
  /\ UNCHANGED <<process, starting, locked, table, ev, call>>

ThWaitReady(t, o, type) ==
  /\ Running(t)
  /\ Exists(o)
  /\ Ready(o, type)
  /\ sem' = AfterCheck(o)
  /\ Enter(t, status)
  /\ UNCHANGED <<process, starting, locked, table, ev, call>>

ThWaitBlock(t, o, type, n) ==
  /\ Running(t)
  /\ Exists(o)
  /\ ~Ready(o, type)
  /\ Room(1)
  /\ table' = Append(table, Req(t))
  /\ ev' = [ev EXCEPT ![Req(t)] = Request(o, type, n, Len(table) + 1)]
  /\ call' = [call EXCEPT ![t] = "wait"]
  /\ Enter(t, [status EXCEPT ![t] = "BLOCKED"])
  /\ UNCHANGED <<process, starting, locked, sem>>

\* The request has been answered whenever the thread resumes (see Answered).
ReturnWait(t) ==
  /\ process = "running" /\ current = t
  /\ call[t] = "wait"
  /\ LET i == ev[Req(t)].idx IN
       /\ table' = Shift(table, i)
       /\ ev' = [Renumber(ev, Shift(table, i), i) EXCEPT ![Req(t)] = NoRequest]
  /\ call' = [call EXCEPT ![t] = "none"]
  /\ UNCHANGED <<process, status, starting, current, locked, sem>>

(***************************************************************************)
(* thMultiWait() on a timer and, when o # None, an object.  After the      *)
(* check of its requests it always goes on to block: when one was ready it *)
(* yields first, and the check after the yield stops at the timer.         *)
(***************************************************************************)
ThMultiWait(t, o, type, n, zero) ==
  /\ Running(t)
  /\ o # None => Exists(o)
  /\ ev' = [ev EXCEPT ![Req(t)] = Request(o, type, n, 0)]
  /\ call' = [call EXCEPT ![t] = "enter"]
  /\ IF o # None THEN sem' = AfterCheck(o) ELSE UNCHANGED sem
  /\ IF zero \/ (o # None /\ Ready(o, type))
     THEN Enter(t, status)
     ELSE UNCHANGED <<status, current>>
  /\ UNCHANGED <<process, starting, locked, table>>

MultiReqs(t) == IF ev[Req(t)].obj = None THEN <<Timer(t)>>
                ELSE <<Timer(t), Req(t)>>

MultiBlock(t) ==
  /\ process = "running" /\ current = t
  /\ call[t] = "enter"
  /\ Room(Len(MultiReqs(t)))
  /\ table' = table \o MultiReqs(t)
  /\ ev' = [ev EXCEPT ![Timer(t)] = Request(None, "MT_TIMER", 1, Len(table) + 1),
                      ![Req(t)].status = "INPROC",
                      ![Req(t)].idx = IF ev[Req(t)].obj = None THEN 0 ELSE Len(table) + 2]
  /\ call' = [call EXCEPT ![t] = "multi"]
  /\ Enter(t, [status EXCEPT ![t] = "BLOCKED"])
  /\ UNCHANGED <<process, starting, locked, sem>>

\* Mutant: the requests added before the one that did not fit stay behind.
MultiFullLeaves(t) ==
  /\ process = "running" /\ current = t
  /\ call[t] = "enter"
  /\ ~Room(Len(MultiReqs(t)))
  /\ table' = IF Room(1) THEN Append(table, Timer(t)) ELSE table
  /\ ev' = [ev EXCEPT ![Req(t)] = NoRequest]
  /\ call' = [call EXCEPT ![t] = "none"]
  /\ UNCHANGED <<process, status, starting, current, locked, sem>>

\* No room for every request: those added are backed out and the call fails.
MultiFull(t) ==
  /\ process = "running" /\ current = t
  /\ call[t] = "enter"
  /\ ~Room(Len(MultiReqs(t)))
  /\ ev' = [ev EXCEPT ![Req(t)] = NoRequest]
  /\ call' = [call EXCEPT ![t] = "none"]
  /\ UNCHANGED <<process, status, starting, current, locked, table, sem>>

\* Both requests leave the table; with neither answered the loop blocks again.
ReturnMulti(t) ==
  /\ process = "running" /\ current = t
  /\ call[t] = "multi"
  /\ LET i    == ev[Timer(t)].idx
         q    == Shift(table, i)
         r    == Renumber(ev, q, i)
         k    == r[Req(t)].idx
         done == \/ ev[Timer(t)].status # "INPROC"
                 \/ ev[Req(t)].obj # None /\ ev[Req(t)].status # "INPROC"
         q2   == IF ev[Req(t)].obj = None THEN q ELSE Shift(q, k)
         r2   == IF ev[Req(t)].obj = None THEN r ELSE Renumber(r, q2, k)
     IN /\ table' = q2
        /\ ev' = [r2 EXCEPT ![Timer(t)] = NoRequest,
                            ![Req(t)] = IF done THEN NoRequest ELSE @]
        /\ call' = [call EXCEPT ![t] = IF done THEN "none" ELSE "enter"]
  /\ UNCHANGED <<process, status, starting, current, locked, sem>>

-----------------------------------------------------------------------------
(***************************************************************************)
(* The rest of mtSched().  Only the timers of the locking thread count     *)
(* while the scheduler is locked.                                          *)
(***************************************************************************)
Timers == {e \in InTable(table) :
             e = Timer(e[1]) /\ locked \in {None, e[1]}}

\* The waits that complete because u is about to run.
TurnWaits(u) ==
  {e \in Waiting(u) : \/ ev[e].type = "THR_TIME"
                      \/ ev[e].type = "THR_START" /\ u \in starting}

\* Mutant: the pick does not look at LockedThread.
DispatchUnlocked(t) ==
  /\ process = "running" /\ current = None
  /\ \E due \in SUBSET Timers :
       LET st == Wake(status, due) IN
       /\ st[t] = "RUNNABLE"
       /\ ev' = Answer(due \cup TurnWaits(t), "COMPLETE")
       /\ status' = [Wake(st, TurnWaits(t)) EXCEPT ![t] = "EXECUTING"]
  /\ starting' = starting \ {t}
  /\ current' = t
  /\ UNCHANGED <<process, locked, table, sem, call>>

Dispatch(t) ==
  /\ process = "running" /\ current = None
  /\ locked \in {None, t}
  /\ \E due \in SUBSET Timers :
       LET st == Wake(status, due) IN
       /\ st[t] = "RUNNABLE"
       /\ ev' = Answer(due \cup TurnWaits(t), "COMPLETE")
       /\ status' = [Wake(st, TurnWaits(t)) EXCEPT ![t] = "EXECUTING"]
  /\ starting' = starting \ {t}
  /\ current' = t
  /\ UNCHANGED <<process, locked, table, sem, call>>

(***************************************************************************)
(* poll() came back before the locking thread's timer was due: another     *)
(* thread is runnable, so the test for having slept too little is passed   *)
(* over, and the locking thread is resumed all the same.                   *)
(***************************************************************************)
DispatchEarly(t) ==
  /\ process = "running" /\ current = None
  /\ locked = t
  /\ status[t] = "BLOCKED"
  /\ Timers # {}
  /\ \E u \in Threads : status[u] = "RUNNABLE"
  /\ ev' = Answer(TurnWaits(t), "COMPLETE")
  /\ status' = [Wake(status, TurnWaits(t)) EXCEPT ![t] = "EXECUTING"]
  /\ current' = t
  /\ UNCHANGED <<process, starting, locked, table, sem, call>>

-----------------------------------------------------------------------------
(***************************************************************************)
(* mtInitialize() makes the first thread and enters mtSched().             *)
(***************************************************************************)
Init ==
  /\ process = "running"
  /\ \E t \in Threads :
       /\ status = [u \in Threads |-> IF u = t THEN "RUNNABLE" ELSE "none"]
       /\ starting = {t}
  /\ current = None
  /\ locked = None
  /\ table = <<>>
  /\ ev = [e \in EventIds |-> NoRequest]
  /\ sem = [s \in Sems |-> [state |-> "free", count |-> 0]]
  /\ call = [t \in Threads |-> "none"]

ThreadStep(t) ==
  \/ "create" \in Ops /\ \E u \in Threads : ThCreate(t, u)
  \/ "yield" \in Ops /\ ThYield(t)
  \/ "exit" \in Ops /\ ThExit(t)
  \/ "kill" \in Ops /\ \E u \in Threads : ThKill(t, u)
  \/ "lock" \in Ops /\ (ThLock(t) \/ ThUnlock(t))

SemStep(t) ==
  \E s \in Sems :
    \/ \E n \in 0..MaxCount : SyCreateSem(t, s, n)
    \/ "destroy" \in Ops /\ \E hard \in BOOLEAN : SyDestroySem(t, s, hard)
    \/ \E n \in 1..MaxReq :
         \/ "post" \in Ops /\ SyPostSem(t, s, n)
         \/ "get" \in Ops /\ \/ SyGetSemAvailable(t, s, n)
                             \/ SyGetSemBlock(t, s, n)
                             \/ SyGetSemFull(t, s, n)

WaitStep(t) ==
  \/ "wait" \in Ops /\ \E o \in Objects : \E type \in TypesOf(o) :
       \/ ThWaitReady(t, o, type)
       \/ \E n \in LensOf(o) : ThWaitBlock(t, o, type, n)
  \/ "sleep" \in Ops /\ \E zero \in BOOLEAN : ThMultiWait(t, None, "MT_TIMER", 1, zero)
  \/ "multi" \in Ops /\ \E o \in Objects :
       \E type \in TypesOf(o), n \in LensOf(o), zero \in BOOLEAN : ThMultiWait(t, o, type, n, zero)

Return(t) ==
  ReturnGet(t) \/ ReturnWait(t) \/ MultiBlock(t) \/ MultiFull(t) \/ ReturnMulti(t)

Next ==
  \E t \in Threads :
    \/ ThreadStep(t) \/ SemStep(t) \/ WaitStep(t)
    \/ Return(t)
    \/ Dispatch(t) \/ DispatchEarly(t)

Spec == Init /\ [][Next]_vars

-----------------------------------------------------------------------------
InWait(t) == call[t] \in {"get", "wait", "multi"}

\* The requests thread t has in the table while it is in its call.
RequestsOf(t) ==
  {e \in {Timer(t), Req(t)} :
     IF e = Timer(t) THEN call[t] = "multi"
     ELSE \/ call[t] \in {"get", "wait"}
          \/ call[t] = "multi" /\ ev[Req(t)].obj # None}

(***************************************************************************)
(* A thread is EXECUTING only while it is MTASK.CurrentThread, and, while  *)
(* the scheduler is locked, the locking thread alone runs ("prevents other *)
(* threads from running", mtask.c:2095), whoever was runnable first.       *)
(***************************************************************************)
OneRunner ==
  /\ \A t \in Threads : status[t] = "EXECUTING" => current = t
  /\ locked # None /\ current # None => current = locked

(***************************************************************************)
(* The event wait table holds exactly the requests of the threads inside a *)
(* wait, once each, and every TableIdx names its own entry, whatever order *)
(* the other waits ended in: evRemoveIdx(event->TableIdx), run long after  *)
(* the index was stored, removes the caller's own request.                 *)
(***************************************************************************)
TableExact ==
  /\ \A e \in EventIds : e \in InTable(table) <=> e \in RequestsOf(e[1])
  /\ \A i \in DOMAIN table : ev[table[i]].idx = i

(***************************************************************************)
(* A thread suspended in a wait is BLOCKED while all its requests are in   *)
(* process and RUNNABLE once one was answered: no answer leaves its thread *)
(* asleep, and nothing else wakes a thread.  In thWait and syGetSem the    *)
(* caller resumes with an answer and never with a request in process.      *)
(***************************************************************************)
Answered ==
  \A t \in Threads : InWait(t) =>
    /\ status[t] = "BLOCKED" => \A e \in RequestsOf(t) : ev[e].status = "INPROC"
    /\ status[t] = "RUNNABLE" => \E e \in RequestsOf(t) : ev[e].status # "INPROC"
    /\ status[t] = "EXECUTING" /\ call[t] # "multi" => ev[Req(t)].status # "INPROC"

(***************************************************************************)
(* The status of a thread, the globals of MTASK and the wait table say the *)
(* same: one thread runs, and those in a wait sleep until they are         *)
(* answered (syPostSem, thExit, thKill and syDestroySem change the status  *)
(* of threads that are not running, mtSched that of the next one).         *)
(***************************************************************************)
StatusExact == OneRunner /\ Answered

(***************************************************************************)
(* While the wait table has room, no thread sleeps outside a wait: BLOCKED *)
(* is a status only of a thread with a request in the table.  (With the    *)
(* table full, syGetSem fails and leaves its caller BLOCKED.)              *)
(***************************************************************************)
NoLostSleeper ==
  \A t \in Threads : status[t] = "BLOCKED" => InWait(t)

(***************************************************************************)
(* A request still in process is for an object that still exists: freeing  *)
(* a semaphore or ending a thread answers every wait on it, so no waiter   *)
(* is left on a freed address that a later object may take over.  (Not so  *)
(* for thMultiWait, which yields between its check and its block.)         *)
(***************************************************************************)
NoStaleWait ==
  \A t \in Threads :
    call[t] \in {"get", "wait"} /\ ev[Req(t)].status = "INPROC"
      => Exists(ev[Req(t)].obj)

(***************************************************************************)
(* syGetSem and thWait never leave a thread asleep beside counts that      *)
(* would satisfy it: what a semaphore holds is less than every request     *)
(* blocked on it asks for, whichever posts, gets and waits came between.   *)
(***************************************************************************)
NoMissedWake ==
  \A t \in Threads, s \in Sems :
    /\ call[t] \in {"get", "wait"}
    /\ ev[Req(t)].obj = s /\ ev[Req(t)].status = "INPROC"
    => sem[s].count < ev[Req(t)].len

(***************************************************************************)
(* Counts are given out oldest request first: a younger request is granted *)
(* before an older one of the same semaphore only if it asks for less.     *)
(***************************************************************************)
OldestFirst ==
  \A i, j \in DOMAIN table :
    /\ i < j
    /\ ev[table[i]].obj \in Sems /\ ev[table[i]].obj = ev[table[j]].obj
    /\ ev[table[i]].status = "INPROC" /\ ev[table[j]].status = "COMPLETE"
    => ev[table[j]].len < ev[table[i]].len

-----------------------------------------------------------------------------
(***************************************************************************)
(* thMultiWait "waits on multiple events until at least one of the events  *)
(* completes" (mtask.c:1847): it does not sleep beside a semaphore that    *)
(* has the counts it asked for.                                            *)
(***************************************************************************)
MultiWaitSees ==
  \A t \in Threads, s \in Sems :
    /\ call[t] = "multi" /\ status[t] = "BLOCKED"
    /\ ev[Req(t)].obj = s
    => sem[s].count < ev[Req(t)].len
=============================================================================
