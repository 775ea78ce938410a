---------------------------- MODULE MTask_proofs ----------------------------
(***************************************************************************)
(* Safety of the thread kernel for any number of threads and semaphores    *)
(* and any size of the wait table; and, at the end, for any number of      *)
(* threads that use a semaphore as a mutex.  MutexAssumption is cited only *)
(* there: what is proved of MTask does not rest on it.                     *)
(***************************************************************************)
EXTENDS MTaskMutex, MTaskTokens, Lines_proofs

\* A thread inside a call, and the current thread, are in the thread table.
Lives ==
  /\ \A t \in Threads : call[t] # "none" => Alive(t)
  /\ current # None => Alive(current)

IInv == TypeOK /\ TableExact /\ Answered /\ OneRunner /\ Lives

\* The table q is well formed and the requests in r carry their positions.
Indexed(q, r) ==
  /\ q \in Seq(EventIds)
  /\ Len(q) <= MaxEvents
  /\ r \in [EventIds -> EventReq]
  /\ \A j \in DOMAIN q : r[q[j]].idx = j

\* a and b are the same request, up to the index.
SameRequest(a, b) ==
  a.obj = b.obj /\ a.type = b.type /\ a.len = b.len /\ a.status = b.status

-----------------------------------------------------------------------------
(***************************************************************************)
(* evRemoveIdx: taking entry i out of the table keeps every other entry,   *)
(* its order aside nothing of the other requests changes but the index,    *)
(* and every index still names its own entry.                              *)
(***************************************************************************)
LEMMA ShiftRemoves ==
  ASSUME NEW q, NEW r, Indexed(q, r), NEW i \in DOMAIN q
  PROVE  /\ Shift(q, i) \in Seq(EventIds)
         /\ Len(Shift(q, i)) = Len(q) - 1
         /\ InTable(Shift(q, i)) = InTable(q) \ {q[i]}
<1> DEFINE s == Shift(q, i)
<1>1. q \in Seq(EventIds) /\ Len(q) \in Nat /\ DOMAIN q = 1..Len(q)
  BY DEF Indexed
<1>2. /\ DOMAIN s = 1..(Len(q) - 1)
      /\ \A j \in 1..(Len(q) - 1) : s[j] = IF j < i THEN q[j] ELSE q[j + 1]
  BY DEF Shift
<1>3. s \in Seq(EventIds) /\ Len(s) = Len(q) - 1
  <2>1. \A j \in 1..(Len(q) - 1) : s[j] \in EventIds
    BY <1>1, <1>2
  <2>2. Len(q) - 1 \in Nat
    BY <1>1
  <2> QED BY <2>1, <2>2, <1>2 DEF Shift
<1>4. ASSUME NEW e \in InTable(s) PROVE e \in InTable(q) /\ e # q[i]
  <2>1. PICK j \in 1..(Len(q) - 1) : e = s[j]
    BY <1>2 DEF InTable
  <2>2. \A a, b \in 1..Len(q) : q[a] = q[b] => a = b
    BY <1>1 DEF Indexed
  <2> QED BY <1>1, <1>2, <2>1, <2>2 DEF InTable
<1>5. ASSUME NEW e \in InTable(q), e # q[i] PROVE e \in InTable(s)
  <2>1. PICK j \in 1..Len(q) : e = q[j]
    BY <1>1 DEF InTable
  <2>2. CASE j < i
    <3>1. j \in 1..(Len(q) - 1) /\ s[j] = e
      BY <1>1, <1>2, <2>1, <2>2
    <3> QED BY <3>1, <1>2 DEF InTable
  <2>3. CASE j > i
    <3>1. (j - 1) \in 1..(Len(q) - 1) /\ s[j - 1] = e
      BY <1>1, <1>2, <2>1, <2>3
    <3> QED BY <3>1, <1>2 DEF InTable
  <2> QED BY <1>1, <1>5, <2>1, <2>2, <2>3
<1> QED BY <1>3, <1>4, <1>5

LEMMA AppendIn ==
  ASSUME NEW q \in Seq(EventIds), NEW e \in EventIds
  PROVE  InTable(Append(q, e)) = InTable(q) \cup {e}
<1>1. /\ Len(q) \in Nat /\ DOMAIN q = 1..Len(q)
      /\ DOMAIN Append(q, e) = 1..(Len(q) + 1)
      /\ Append(q, e)[Len(q) + 1] = e
      /\ \A i \in 1..Len(q) : Append(q, e)[i] = q[i]
  OBVIOUS
<1>2. ASSUME NEW x \in InTable(Append(q, e)) PROVE x \in InTable(q) \cup {e}
  <2>1. PICK i \in 1..(Len(q) + 1) : x = Append(q, e)[i]
    BY <1>1 DEF InTable
  <2>2. CASE i = Len(q) + 1
    BY <1>1, <2>1, <2>2
  <2>3. CASE i \in 1..Len(q)
    BY <1>1, <2>1, <2>3 DEF InTable
  <2> QED BY <1>1, <2>1, <2>2, <2>3
<1>3. ASSUME NEW x \in InTable(q) PROVE x \in InTable(Append(q, e))
  <2>1. PICK i \in 1..Len(q) : x = q[i]
    BY <1>1 DEF InTable
  <2>2. i \in 1..(Len(q) + 1) /\ Append(q, e)[i] = x
    BY <1>1, <2>1
  <2> QED BY <1>1, <2>2 DEF InTable
<1>4. e \in InTable(Append(q, e))
  <2>1. Len(q) + 1 \in 1..(Len(q) + 1)
    BY <1>1
  <2> QED BY <1>1, <2>1 DEF InTable
<1> QED BY <1>2, <1>3, <1>4

LEMMA RenumberIndexes ==
  ASSUME NEW q, NEW r, Indexed(q, r), NEW i \in DOMAIN q
  PROVE  /\ Indexed(Shift(q, i), Renumber(r, Shift(q, i), i))
         /\ \A e \in EventIds : SameRequest(Renumber(r, Shift(q, i), i)[e], r[e])
<1> DEFINE s == Shift(q, i)
           n == Renumber(r, s, i)
<1>1. q \in Seq(EventIds) /\ Len(q) \in Nat /\ DOMAIN q = 1..Len(q) /\ Len(q) <= MaxEvents
  BY DEF Indexed
<1>2. s \in Seq(EventIds) /\ Len(s) = Len(q) - 1 /\ DOMAIN s = 1..Len(s)
  BY ShiftRemoves
<1>3. \A j \in 1..Len(s) : s[j] = IF j < i THEN q[j] ELSE q[j + 1]
  BY <1>2 DEF Shift
<1>4. \A a, b \in 1..Len(s) : s[a] = s[b] => a = b
  <2>1. \A a, b \in 1..Len(q) : q[a] = q[b] => a = b
    BY <1>1 DEF Indexed
  <2> QED BY <1>1, <1>2, <1>3, <2>1
<1>5. ASSUME NEW e \in EventIds
      PROVE /\ n[e] \in EventReq
            /\ SameRequest(n[e], r[e])
            /\ \A j \in i..Len(s) : s[j] = e => n[e].idx = j
            /\ (\A j \in i..Len(s) : s[j] # e) => n[e] = r[e]
  <2>1. r[e] \in EventReq
    BY DEF Indexed
  <2>2. CASE \E j \in i..Len(s) : s[j] = e
    <3>1. PICK j \in i..Len(s) : s[j] = e
      BY <2>2
    <3>2. (CHOOSE k \in i..Len(s) : s[k] = e) = j
      BY <3>1, <1>4, <1>1
    <3>3. n[e] = [r[e] EXCEPT !.idx = j]
      BY <3>1, <3>2 DEF Renumber
    <3>4. j \in 0..MaxEvents
      BY <1>1, <1>2, <3>1, BoundAssumption
    <3>5. \A k \in i..Len(s) : s[k] = e => k = j
      BY <3>1, <1>4, <1>1
    <3> QED BY <2>1, <3>3, <3>4, <3>1, <3>5 DEF EventReq, SameRequest
  <2>3. CASE ~ \E j \in i..Len(s) : s[j] = e
    BY <2>1, <2>3 DEF Renumber, SameRequest
  <2> QED BY <2>2, <2>3
<1>6. n \in [EventIds -> EventReq]
  BY <1>5 DEF Renumber
<1>7. ASSUME NEW j \in 1..Len(s) PROVE n[s[j]].idx = j
  <2>1. s[j] \in EventIds
    BY <1>2
  <2>2. CASE j >= i
    BY <1>5, <2>1, <2>2, <1>1, <1>2
  <2>3. CASE j < i
    <3>1. \A k \in i..Len(s) : s[k] # s[j]
      BY <1>4, <2>3, <1>1, <1>2
    <3>2. n[s[j]] = r[s[j]]
      BY <1>5, <2>1, <3>1
    <3>3. s[j] = q[j] /\ j \in DOMAIN q
      BY <1>1, <1>2, <1>3, <2>3
    <3> QED BY <3>2, <3>3 DEF Indexed
  <2> QED BY <2>2, <2>3, <1>1, <1>2
<1>8. Indexed(s, n)
  <2> HIDE DEF s, n
  <2> QED BY <1>1, <1>2, <1>6, <1>7, BoundAssumption DEF Indexed
<1>9. \A e \in EventIds : SameRequest(n[e], r[e])
  <2> HIDE DEF n
  <2> QED BY <1>5
<1> QED BY <1>8, <1>9

-----------------------------------------------------------------------------
(***************************************************************************)
(* mtSched()'s prologue and the waking of threads, as functions of status. *)
(***************************************************************************)
LEMMA EnterStatus ==
  ASSUME NEW t \in Threads, NEW st \in [Threads -> Statuses], Enter(t, st)
  PROVE  /\ status' \in [Threads -> Statuses]
         /\ current' \in {t, None}
         /\ \A u \in Threads \ {t} : status'[u] = st[u]
         /\ status'[t] = "EXECUTING" <=> current' = t
         /\ status'[t] = "BLOCKED" <=> st[t] = "BLOCKED"
         /\ status'[t] = "none" <=> st[t] = "none"
BY ObjectAssumption DEF Enter, Statuses

LEMMA WakeStatus ==
  ASSUME NEW st \in [Threads -> Statuses], NEW E
  PROVE  /\ Wake(st, E) \in [Threads -> Statuses]
         /\ \A u \in Threads :
              Wake(st, E)[u] = IF \E e \in E : e[1] = u THEN "RUNNABLE" ELSE st[u]
BY DEF Wake, Statuses

LEMMA Ids ==
  ASSUME NEW u \in Threads
  PROVE  /\ Timer(u) \in EventIds /\ Req(u) \in EventIds /\ Timer(u) # Req(u)
         /\ \A e \in EventIds : e[1] = u <=> e = Timer(u) \/ e = Req(u)
         /\ \A e \in RequestsOf(u) : e \in EventIds /\ e[1] = u
<1>1. /\ Timer(u) \in EventIds /\ Req(u) \in EventIds /\ Timer(u) # Req(u)
      /\ Timer(u)[1] = u /\ Req(u)[1] = u
  BY DEF EventIds, Timer, Req
<1>2. \A e \in EventIds : e[1] = u <=> e = Timer(u) \/ e = Req(u)
  BY DEF EventIds, Timer, Req
<1>3. \A e \in RequestsOf(u) : e = Timer(u) \/ e = Req(u)
  BY DEF RequestsOf
<1> QED BY <1>1, <1>2, <1>3

LEMMA InvIndexed == IInv => Indexed(table, ev)
BY DEF IInv, TypeOK, TableExact, Indexed

(***************************************************************************)
(* A request in the table belongs to a thread that is alive and in a wait. *)
(***************************************************************************)
LEMMA Owner ==
  ASSUME IInv, NEW e \in InTable(table)
  PROVE  e \in EventIds /\ e[1] \in Threads /\ InWait(e[1]) /\ e \in RequestsOf(e[1])
<1>1. e \in EventIds
  BY DEF IInv, TypeOK, InTable
<1>2. e[1] \in Threads
  BY <1>1 DEF EventIds
<1>3. e \in RequestsOf(e[1])
  BY <1>1 DEF IInv, TableExact
<1> QED BY <1>1, <1>2, <1>3 DEF RequestsOf, InWait

(***************************************************************************)
(* A step that leaves the table and the calls alone, and answers (or       *)
(* answers again) the requests in E, waking their threads.                 *)
(***************************************************************************)
LEMMA AnswerStep ==
  ASSUME IInv, UNCHANGED <<table, call>>,
         ev' \in [EventIds -> EventReq],
         NEW E, E \subseteq InTable(table),
         \A e \in EventIds \ E : ev'[e] = ev[e],
         \A e \in E : /\ ev'[e].obj = ev[e].obj /\ ev'[e].idx = ev[e].idx
                      /\ ev'[e].status # "INPROC",
         \A u \in Threads : InWait(u) =>
           IF \E e \in E : e[1] = u
           THEN status'[u] \in {"RUNNABLE", "EXECUTING"}
           ELSE \/ status'[u] = status[u]
                \/ status[u] = "RUNNABLE" /\ status'[u] = "EXECUTING"
                \/ call[u] = "multi" /\ status'[u] = "EXECUTING"
  PROVE  TableExact' /\ Answered'
<1>1. \A e \in EventIds : ev'[e].obj = ev[e].obj /\ ev'[e].idx = ev[e].idx
  OBVIOUS
<1>2. \A u \in Threads : Req(u) \in EventIds /\ Timer(u) \in EventIds
  BY Ids
<1>3. \A u \in Threads : RequestsOf(u)' = RequestsOf(u)
  BY <1>1, <1>2 DEF RequestsOf
<1>4. TableExact'
  <2>1. \A e \in EventIds : (e \in InTable(table) <=> e \in RequestsOf(e[1]))'
    BY <1>3 DEF IInv, TableExact, EventIds
  <2>2. \A i \in DOMAIN table : table[i] \in EventIds
    BY DEF IInv, TypeOK
  <2> QED BY <1>1, <2>1, <2>2 DEF IInv, TableExact
<1>5. ASSUME NEW u \in Threads, InWait(u)'
      PROVE  /\ status'[u] = "BLOCKED" => \A e \in RequestsOf(u)' : ev'[e].status = "INPROC"
             /\ status'[u] = "RUNNABLE" => \E e \in RequestsOf(u)' : ev'[e].status # "INPROC"
             /\ status'[u] = "EXECUTING" /\ call'[u] # "multi" => ev'[Req(u)].status # "INPROC"
  <2>1. InWait(u)
    BY <1>5 DEF InWait
  <2>2. \A e \in RequestsOf(u) : e \in EventIds /\ e[1] = u
    BY Ids
  <2>3. call[u] # "multi" => RequestsOf(u) = {Req(u)}
    BY <2>1, Ids DEF InWait, RequestsOf
  <2>4. CASE \E e \in E : e[1] = u
    <3>1. PICK e \in E : e[1] = u
      BY <2>4
    <3>2. e \in RequestsOf(u)
      BY <3>1, Owner
    <3> QED BY <1>3, <2>1, <2>3, <2>4, <3>1, <3>2
  <2>5. CASE ~ \E e \in E : e[1] = u
    <3>1. \A e \in RequestsOf(u) : ev'[e] = ev[e]
      BY <2>2, <2>5
    <3> QED BY <1>3, <2>1, <2>3, <2>5, <3>1 DEF IInv, Answered
  <2> QED BY <2>4, <2>5
<1> QED BY <1>4, <1>5 DEF Answered

LEMMA QuietStep ==
  ASSUME IInv, UNCHANGED <<table, call, ev>>,
         \A u \in Threads : InWait(u) => status'[u] = status[u]
  PROVE  TableExact' /\ Answered'
<1>1. ev' \in [EventIds -> EventReq]
  BY DEF IInv, TypeOK
<1> DEFINE E == {}
<1>2. /\ E \subseteq InTable(table)
      /\ \A e \in EventIds \ E : ev'[e] = ev[e]
      /\ \A u \in Threads : ~ \E e \in E : e[1] = u
  OBVIOUS
<1>3. \A u \in Threads : InWait(u) =>
        IF \E e \in E : e[1] = u
        THEN status'[u] \in {"RUNNABLE", "EXECUTING"}
        ELSE \/ status'[u] = status[u]
             \/ status[u] = "RUNNABLE" /\ status'[u] = "EXECUTING"
             \/ call[u] = "multi" /\ status'[u] = "EXECUTING"
  OBVIOUS
<1>4. \A e \in E : /\ ev'[e].obj = ev[e].obj /\ ev'[e].idx = ev[e].idx
                   /\ ev'[e].status # "INPROC"
  OBVIOUS
<1> HIDE DEF E
<1> QED BY <1>1, <1>2, <1>3, <1>4, AnswerStep

-----------------------------------------------------------------------------
(***************************************************************************)
(* One lemma per action: each preserves the inductive invariant.           *)
(***************************************************************************)
SemType == [Sems -> [state : {"free", "open", "closing"}, count : 0..MaxCount]]

\* Calls of the running thread t that leave the wait table and the calls alone.
LEMMA QuietInv ==
  ASSUME IInv, NEW t \in Threads, Running(t),
         NEW st \in [Threads -> Statuses], Enter(t, st), st[t] # "none",
         \A u \in Threads \ {t} : Alive(u) => st[u] = status[u],
         \A u \in Threads \ {t} : st[u] # "EXECUTING",
         UNCHANGED <<process, locked, table, ev, call>>,
         starting' \in SUBSET Threads, sem' \in SemType
  PROVE  IInv'
<1>1. TypeOK
  BY DEF IInv
<1>2. /\ status' \in [Threads -> Statuses]
      /\ current' \in {t, None}
      /\ \A v \in Threads \ {t} : status'[v] = st[v]
      /\ status'[t] = "EXECUTING" <=> current' = t
      /\ status'[t] = "none" <=> st[t] = "none"
  BY EnterStatus
<1>3. TypeOK'
  BY <1>1, <1>2 DEF TypeOK, SemType
<1>4. \A v \in Threads : InWait(v) => status'[v] = status[v]
  <2>1. \A v \in Threads : InWait(v) => v # t /\ Alive(v)
    BY DEF IInv, Lives, Running, InWait
  <2> QED BY <1>2, <2>1
<1>5. TableExact' /\ Answered'
  BY <1>4, QuietStep
<1>6. OneRunner'
  BY <1>2 DEF IInv, OneRunner, Running
<1>7. Lives'
  <2>1. \A v \in Threads : call[v] # "none" => v # t /\ Alive(v)
    BY DEF IInv, Lives, Running
  <2> QED BY <1>2, <2>1 DEF Lives, Alive
<1> QED BY <1>3, <1>5, <1>6, <1>7 DEF IInv

LEMMA CreateInv ==
  ASSUME IInv, NEW t \in Threads, NEW u \in Threads, ThCreate(t, u)
  PROVE  IInv'
<1> DEFINE st == [status EXCEPT ![u] = "RUNNABLE"]
<1>1. TypeOK /\ Running(t) /\ ~Alive(u)
  BY DEF ThCreate, IInv
<1>2. t # u /\ Alive(t)
  BY <1>1, ObjectAssumption DEF IInv, Lives, Running, Alive
<1>3. \A v \in Threads \ {t} : status[v] # "EXECUTING"
  BY <1>1 DEF IInv, OneRunner, Running
<1>4. /\ st \in [Threads -> Statuses] /\ st[t] # "none"
      /\ \A v \in Threads \ {t} : Alive(v) => st[v] = status[v]
      /\ \A v \in Threads \ {t} : st[v] # "EXECUTING"
  BY <1>1, <1>2, <1>3 DEF TypeOK, Statuses, Alive
<1>5. Enter(t, st) /\ starting' \in SUBSET Threads /\ sem' \in SemType
      /\ UNCHANGED <<process, locked, table, ev, call>>
  BY <1>1 DEF ThCreate, TypeOK, SemType
<1> HIDE DEF st
<1> QED BY <1>1, <1>4, <1>5, QuietInv

LEMMA YieldInv ==
  ASSUME IInv, NEW t \in Threads, ThYield(t)
  PROVE  IInv'
<1> DEFINE st == [status EXCEPT ![t] = "RUNNABLE"]
<1>1. TypeOK /\ Running(t)
  BY DEF ThYield, IInv
<1>2. \A v \in Threads \ {t} : status[v] # "EXECUTING"
  BY <1>1 DEF IInv, OneRunner, Running
<1>3. /\ st \in [Threads -> Statuses] /\ st[t] # "none"
      /\ \A v \in Threads \ {t} : st[v] = status[v] /\ st[v] # "EXECUTING"
  BY <1>1, <1>2 DEF TypeOK, Statuses
<1>4. Enter(t, st) /\ starting' \in SUBSET Threads /\ sem' \in SemType
      /\ UNCHANGED <<process, locked, table, ev, call>>
  BY <1>1 DEF ThYield, TypeOK, SemType
<1> HIDE DEF st
<1> QED BY <1>1, <1>3, <1>4, QuietInv

\* syGetSem or thWait took its count without blocking.
LEMMA TakeInv ==
  ASSUME IInv, NEW t \in Threads, Running(t), Enter(t, status),
         UNCHANGED <<process, starting, locked, table, ev, call>>, sem' \in SemType
  PROVE  IInv'
<1>1. TypeOK /\ Alive(t)
  BY ObjectAssumption DEF IInv, Running, Lives
<1>2. \A v \in Threads \ {t} : status[v] # "EXECUTING"
  BY <1>1 DEF IInv, OneRunner, Running
<1>3. status \in [Threads -> Statuses] /\ status[t] # "none" /\ starting' \in SUBSET Threads
  BY <1>1 DEF TypeOK, Alive
<1> QED BY <1>2, <1>3, QuietInv

LEMMA GetInv ==
  ASSUME IInv, NEW t \in Threads, NEW s \in Sems, NEW n \in 1..MaxReq,
         SyGetSemAvailable(t, s, n)
  PROVE  IInv'
<1>1. sem' \in SemType
  <2>1. sem \in SemType /\ sem[s].count \in 0..MaxCount /\ sem[s].count >= n
    BY DEF SyGetSemAvailable, IInv, TypeOK, SemType
  <2>2. sem[s].count - n \in 0..MaxCount
    BY <2>1, BoundAssumption
  <2> QED BY <2>1, <2>2 DEF SyGetSemAvailable, SemType
<1> QED BY <1>1, TakeInv DEF SyGetSemAvailable

LEMMA CheckType ==
  ASSUME TypeOK, NEW o \in Objects
  PROVE  AfterCheck(o) \in SemType
<1>1. CASE o \in Sems
  <2>1. sem[o].count \in 0..MaxCount
    BY <1>1 DEF TypeOK
  <2>2. (IF sem[o].count > 0 THEN sem[o].count - 1 ELSE sem[o].count) \in 0..MaxCount
    BY <2>1, BoundAssumption
  <2> QED BY <1>1, <2>2 DEF AfterCheck, SemType, TypeOK
<1>2. CASE o \notin Sems
  BY <1>2 DEF AfterCheck, SemType, TypeOK
<1> QED BY <1>1, <1>2

LEMMA WaitReadyInv ==
  ASSUME IInv, NEW t \in Threads, NEW o \in Objects, NEW type \in TypesOf(o),
         ThWaitReady(t, o, type)
  PROVE  IInv'
<1>1. sem' \in SemType
  BY CheckType DEF ThWaitReady, IInv
<1> QED BY <1>1, TakeInv DEF ThWaitReady

\* Calls that do not reach mtSched() and change no status but the caller's.
LEMMA StayInv ==
  ASSUME IInv, NEW t \in Threads, Running(t),
         UNCHANGED <<process, starting, current, table, ev, call>>,
         sem' \in SemType, locked' \in {locked, t, None},
         status' = status \/ status' = [status EXCEPT ![t] = "BLOCKED"]
  PROVE  IInv'
<1>1. TypeOK /\ Alive(t)
  BY ObjectAssumption DEF IInv, Running, Lives
<1>2. \A v \in Threads : InWait(v) => status'[v] = status[v]
  BY <1>1 DEF Running, InWait, TypeOK
<1>3. TableExact' /\ Answered'
  BY <1>2, QuietStep
<1>4. TypeOK'
  BY <1>1 DEF TypeOK, SemType, Statuses
<1>5. OneRunner' /\ Lives'
  BY <1>1 DEF IInv, OneRunner, Lives, Running, Alive, TypeOK
<1> QED BY <1>3, <1>4, <1>5 DEF IInv

LEMMA LockInv ==
  ASSUME IInv, NEW t \in Threads, ThLock(t) \/ ThUnlock(t)
  PROVE  IInv'
<1>1. sem' \in SemType
  BY DEF ThLock, ThUnlock, IInv, TypeOK, SemType
<1> QED BY <1>1, StayInv DEF ThLock, ThUnlock

LEMMA CreateSemInv ==
  ASSUME IInv, NEW t \in Threads, NEW s \in Sems, NEW n \in 0..MaxCount,
         SyCreateSem(t, s, n)
  PROVE  IInv'
<1>1. sem' \in SemType
  BY DEF SyCreateSem, IInv, TypeOK, SemType
<1> QED BY <1>1, StayInv DEF SyCreateSem

LEMMA GetFullInv ==
  ASSUME IInv, NEW t \in Threads, NEW s \in Sems, NEW n \in 1..MaxReq,
         SyGetSemFull(t, s, n)
  PROVE  IInv'
<1>1. sem' \in SemType
  BY DEF SyGetSemFull, IInv, TypeOK, SemType
<1> QED BY <1>1, StayInv DEF SyGetSemFull

(***************************************************************************)
(* The calls that answer requests, and the dispatcher.                     *)
(***************************************************************************)
LEMMA AnswerType ==
  ASSUME TypeOK, NEW E, NEW code \in {"COMPLETE", "ERROR"}
  PROVE  /\ Answer(E, code) \in [EventIds -> EventReq]
         /\ \A e \in EventIds \ E : Answer(E, code)[e] = ev[e]
         /\ \A e \in EventIds : e \in E =>
              /\ Answer(E, code)[e].obj = ev[e].obj
              /\ Answer(E, code)[e].idx = ev[e].idx
              /\ Answer(E, code)[e].status # "INPROC"
BY ZenonT(40) DEF TypeOK, Answer, EventReq

LEMMA ExitInv ==
  ASSUME IInv, NEW t \in Threads, ThExit(t)
  PROVE  IInv'
<1> DEFINE E == Waiting(t)
<1>1. TypeOK /\ Running(t) /\ Alive(t) /\ E \subseteq InTable(table)
  BY ObjectAssumption DEF IInv, Running, Lives, Waiting, ThExit
<1>2. E \subseteq EventIds
  BY <1>1, Owner
<1>3. /\ ev' \in [EventIds -> EventReq]
      /\ \A e \in EventIds \ E : ev'[e] = ev[e]
      /\ \A e \in E : /\ ev'[e].obj = ev[e].obj /\ ev'[e].idx = ev[e].idx
                       /\ ev'[e].status # "INPROC"
  <2>1. ev' = Ended(ev, E)
    BY DEF ThExit
  <2> HIDE DEF E
  <2>2. ASSUME NEW e \in E
        PROVE  /\ ev'[e] \in EventReq
               /\ ev'[e].obj = ev[e].obj /\ ev'[e].idx = ev[e].idx
               /\ ev'[e].status # "INPROC"
    <3>1. ev[e] \in EventReq
      BY <1>1, <1>2 DEF TypeOK
    <3>2. ev'[e] = [ev[e] EXCEPT !.status =
                      IF ev[e].type = "THR_EXIT" THEN "COMPLETE" ELSE "ERROR"]
      BY <1>2, <2>1 DEF Ended
    <3> QED BY <3>1, <3>2 DEF EventReq
  <2>3. \A e \in EventIds \ E : ev'[e] = ev[e] /\ ev'[e] \in EventReq
    BY <1>1, <2>1 DEF Ended, TypeOK
  <2> QED BY <2>1, <2>2, <2>3 DEF Ended
<1>4. /\ status' \in [Threads -> Statuses] /\ status'[t] = "none"
      /\ \A u \in Threads \ {t} :
           status'[u] = IF \E e \in E : e[1] = u THEN "RUNNABLE" ELSE status[u]
  <2>1. status' = [Wake(status, E) EXCEPT ![t] = "none"]
    BY DEF ThExit
  <2>2. status \in [Threads -> Statuses]
    BY <1>1 DEF TypeOK
  <2> HIDE DEF E
  <2> QED BY <2>1, <2>2, WakeStatus DEF Statuses
<1>5. \A u \in Threads : InWait(u) => u # t
  BY <1>1 DEF Running, InWait
<1>6. TableExact' /\ Answered'
  <2>1. UNCHANGED <<table, call>>
    BY DEF ThExit
  <2> HIDE DEF E
  <2> QED BY <1>1, <1>3, <1>4, <1>5, <2>1, AnswerStep
<1>7. TypeOK'
  BY <1>1, <1>3, <1>4 DEF TypeOK, ThExit
<1>8. OneRunner' /\ Lives'
  BY <1>1, <1>4 DEF IInv, OneRunner, Lives, ThExit, Running, Alive
<1> QED BY <1>6, <1>7, <1>8 DEF IInv

\* syDestroySem and syPostSem: the running thread t answers the requests in E.
LEMMA GiveInv ==
  ASSUME IInv, NEW t \in Threads, Running(t),
         NEW E, E \subseteq InTable(table), NEW code \in {"COMPLETE", "ERROR"},
         ev' = Answer(E, code),
         \/ Enter(t, Wake(status, E))
         \/ status' = Wake(status, E) /\ UNCHANGED current,
         UNCHANGED <<process, starting, locked, table, call>>, sem' \in SemType
  PROVE  IInv'
<1>1. TypeOK /\ Alive(t) /\ status \in [Threads -> Statuses]
  BY ObjectAssumption DEF IInv, Running, Lives, TypeOK
<1>2. E \subseteq EventIds /\ \A e \in E : e[1] # t /\ Alive(e[1])
  BY Owner DEF Running, InWait, IInv, Lives
<1>3. /\ ev' \in [EventIds -> EventReq]
      /\ \A e \in EventIds \ E : ev'[e] = ev[e]
      /\ \A e \in E : /\ ev'[e].obj = ev[e].obj /\ ev'[e].idx = ev[e].idx
                       /\ ev'[e].status # "INPROC"
  BY <1>1, <1>2, AnswerType
<1>4. /\ Wake(status, E) \in [Threads -> Statuses]
      /\ \A u \in Threads :
           Wake(status, E)[u] = IF \E e \in E : e[1] = u THEN "RUNNABLE" ELSE status[u]
  BY <1>1, WakeStatus
<1>5. Wake(status, E)[t] = status[t]
  BY <1>2, <1>4
<1>6. /\ status' \in [Threads -> Statuses]
      /\ current' \in {t, None}
      /\ \A u \in Threads \ {t} : status'[u] = Wake(status, E)[u]
      /\ status'[t] = "EXECUTING" => current' = t
      /\ status'[t] # "none"
  <2>1. CASE Enter(t, Wake(status, E))
    BY <1>1, <1>4, <1>5, <2>1, EnterStatus DEF Alive
  <2>2. CASE status' = Wake(status, E) /\ UNCHANGED current
    BY <1>1, <1>4, <1>5, <2>2 DEF Running, Alive
  <2> QED BY <2>1, <2>2
<1>7. \A u \in Threads : InWait(u) => u # t
  BY DEF Running, InWait
<1>8. TableExact' /\ Answered'
  BY <1>3, <1>4, <1>6, <1>7, AnswerStep
<1>9. TypeOK'
  BY <1>1, <1>3, <1>6 DEF TypeOK, SemType
<1>10. OneRunner'
  BY <1>4, <1>6 DEF IInv, OneRunner, Running
<1>11. Lives'
  <2>1. \A u \in Threads : Alive(u) => status'[u] # "none"
    BY <1>4, <1>6 DEF Alive
  <2> QED BY <1>1, <1>6, <2>1 DEF IInv, Lives, Alive
<1> QED BY <1>8, <1>9, <1>10, <1>11 DEF IInv

LEMMA DestroyInv ==
  ASSUME IInv, NEW t \in Threads, NEW s \in Sems, NEW hard \in BOOLEAN,
         SyDestroySem(t, s, hard)
  PROVE  IInv'
<1> DEFINE E == IF hard THEN Waiting(s) ELSE {}
<1>1. E \subseteq InTable(table)
  BY DEF Waiting
<1>2. sem' \in SemType
  BY SMTT(30), BoundAssumption DEF SyDestroySem, IInv, TypeOK, SemType
<1>3. /\ ev' = Answer(E, "ERROR") /\ status' = Wake(status, E)
      /\ UNCHANGED <<process, starting, current, locked, table, call>>
      /\ Running(t)
  BY DEF SyDestroySem
<1> HIDE DEF E
<1> QED BY <1>1, <1>2, <1>3, GiveInv

LEMMA PostInv ==
  ASSUME IInv, NEW t \in Threads, NEW s \in Sems, NEW n \in 1..MaxReq,
         SyPostSem(t, s, n)
  PROVE  IInv'
<1>1. TypeOK /\ Len(table) \in Nat /\ sem[s].count \in 0..MaxCount
      /\ sem[s].count + n <= MaxCount
  BY DEF IInv, TypeOK, SyPostSem
<1>2. PICK left \in [0..Len(table) -> 0..(sem[s].count + n)] :
        LET G == {e \in InTable(table) :
                    \E i \in DOMAIN table : table[i] = e /\ Grants(s, i, left[i - 1])}
        IN /\ ev' = Answer(G, "COMPLETE")
           /\ Enter(t, Wake(status, G))
           /\ sem' = [sem EXCEPT ![s].count = left[Len(table)]]
  BY DEF SyPostSem
<1> DEFINE G == {e \in InTable(table) :
                   \E i \in DOMAIN table : table[i] = e /\ Grants(s, i, left[i - 1])}
<1>3. G \subseteq InTable(table) /\ ev' = Answer(G, "COMPLETE")
      /\ Enter(t, Wake(status, G))
  BY <1>2
<1>4. left[Len(table)] \in 0..MaxCount
  BY <1>1, <1>2, BoundAssumption
<1>5. sem' \in SemType
  BY ZenonT(40), <1>1, <1>2, <1>4 DEF TypeOK, SemType
<1>6. Running(t) /\ UNCHANGED <<process, starting, locked, table, call>>
  BY DEF SyPostSem
<1> HIDE DEF G
<1> QED BY <1>3, <1>5, <1>6, GiveInv

(***************************************************************************)
(* mtSched() hands the processor to t, having answered the requests in E.  *)
(***************************************************************************)
LEMMA ResumeInv ==
  ASSUME IInv, NEW t \in Threads, current = None,
         NEW E, E \subseteq InTable(table),
         ev' = Answer(E, "COMPLETE"),
         status' \in [Threads -> Statuses], status'[t] = "EXECUTING", Alive(t),
         \A u \in Threads \ {t} :
           status'[u] = IF \E e \in E : e[1] = u THEN "RUNNABLE" ELSE status[u],
         (\E e \in E : e[1] = t) \/ status[t] = "RUNNABLE" \/ call[t] = "multi",
         starting' \in SUBSET Threads, current' = t, locked \in {None, t},
         UNCHANGED <<process, locked, table, sem, call>>
  PROVE  IInv'
<1>1. TypeOK
  BY DEF IInv
<1>2. E \subseteq EventIds /\ \A e \in E : Alive(e[1])
  BY Owner DEF InWait, IInv, Lives
<1>3. /\ ev' \in [EventIds -> EventReq]
      /\ \A e \in EventIds \ E : ev'[e] = ev[e]
      /\ \A e \in E : /\ ev'[e].obj = ev[e].obj /\ ev'[e].idx = ev[e].idx
                       /\ ev'[e].status # "INPROC"
  BY <1>1, <1>2, AnswerType
<1>4. TableExact' /\ Answered'
  BY <1>3, AnswerStep
<1>5. TypeOK'
  BY <1>1, <1>3 DEF TypeOK
<1>6. OneRunner'
  BY ObjectAssumption DEF IInv, OneRunner
<1>7. Lives'
  BY DEF IInv, Lives, Alive
<1> QED BY <1>4, <1>5, <1>6, <1>7 DEF IInv

LEMMA DispatchInv ==
  ASSUME IInv, NEW t \in Threads, Dispatch(t)
  PROVE  IInv'
<1>1. TypeOK /\ status \in [Threads -> Statuses]
  BY DEF IInv, TypeOK
<1>2. PICK due \in SUBSET Timers :
        LET st == Wake(status, due) IN
        /\ st[t] = "RUNNABLE"
        /\ ev' = Answer(due \cup TurnWaits(t), "COMPLETE")
        /\ status' = [Wake(st, TurnWaits(t)) EXCEPT ![t] = "EXECUTING"]
  BY DEF Dispatch
<1> DEFINE T == TurnWaits(t)
           E == due \cup T
           st == Wake(status, due)
<1>3. E \subseteq InTable(table)
  BY DEF Timers, TurnWaits, Waiting
<1>4. st \in [Threads -> Statuses] /\ \A u \in Threads :
        st[u] = IF \E e \in due : e[1] = u THEN "RUNNABLE" ELSE status[u]
  BY <1>1, WakeStatus
<1>5. Wake(st, T) \in [Threads -> Statuses] /\ \A u \in Threads :
        Wake(st, T)[u] = IF \E e \in T : e[1] = u THEN "RUNNABLE" ELSE st[u]
  <2> HIDE DEF st, T
  <2> QED BY <1>4, WakeStatus
<1>6. /\ status' \in [Threads -> Statuses] /\ status'[t] = "EXECUTING"
      /\ \A u \in Threads \ {t} : status'[u] = Wake(st, T)[u]
  <2>1. status' = [Wake(st, T) EXCEPT ![t] = "EXECUTING"]
    BY <1>2
  <2> QED BY <1>5, <2>1 DEF Statuses
<1>7. \A u \in Threads \ {t} :
        status'[u] = IF \E e \in E : e[1] = u THEN "RUNNABLE" ELSE status[u]
  <2> HIDE DEF st, T
  <2> QED BY <1>4, <1>5, <1>6
<1>8. (\E e \in E : e[1] = t) \/ status[t] = "RUNNABLE"
  BY <1>2, <1>4
<1>9. Alive(t)
  <2>1. ASSUME NEW e \in E, e[1] = t PROVE Alive(t)
    BY <1>3, <2>1, Owner DEF InWait, IInv, Lives
  <2> QED BY <1>8, <2>1 DEF Alive
<1>10. /\ current = None /\ current' = t /\ starting' \in SUBSET Threads
       /\ locked \in {None, t} /\ UNCHANGED <<process, locked, table, sem, call>>
       /\ ev' = Answer(E, "COMPLETE")
  BY <1>1, <1>2 DEF Dispatch, TypeOK
<1> HIDE DEF E
<1> QED BY <1>3, <1>6, <1>7, <1>8, <1>9, <1>10, ResumeInv

LEMMA DispatchEarlyInv ==
  ASSUME IInv, NEW t \in Threads, DispatchEarly(t)
  PROVE  IInv'
<1> DEFINE E == TurnWaits(t)
<1>1. TypeOK /\ status \in [Threads -> Statuses]
  BY DEF IInv, TypeOK
<1>2. E \subseteq InTable(table)
  BY DEF TurnWaits, Waiting
<1>3. Wake(status, E) \in [Threads -> Statuses] /\ \A u \in Threads :
        Wake(status, E)[u] = IF \E e \in E : e[1] = u THEN "RUNNABLE" ELSE status[u]
  <2> HIDE DEF E
  <2> QED BY <1>1, WakeStatus
<1>4. /\ status' \in [Threads -> Statuses] /\ status'[t] = "EXECUTING"
      /\ \A u \in Threads \ {t} :
            status'[u] = IF \E e \in E : e[1] = u THEN "RUNNABLE" ELSE status[u]
  <2>1. status' = [Wake(status, E) EXCEPT ![t] = "EXECUTING"]
    BY DEF DispatchEarly
  <2> HIDE DEF E
  <2> QED BY <1>3, <2>1 DEF Statuses
<1>5. Alive(t) /\ call[t] = "multi"
  <2>1. PICK e \in InTable(table) : e = Timer(e[1]) /\ locked \in {None, e[1]}
    BY DEF DispatchEarly, Timers
  <2>2. e = Timer(t)
    BY <2>1, ObjectAssumption DEF DispatchEarly
  <2>3. e \in RequestsOf(t) /\ InWait(t)
    BY <2>2, Owner DEF Timer
  <2> QED BY <2>2, <2>3 DEF RequestsOf, IInv, Lives, InWait
<1>6. /\ current = None /\ current' = t /\ starting' \in SUBSET Threads
      /\ locked \in {None, t} /\ UNCHANGED <<process, locked, table, sem, call>>
      /\ ev' = Answer(E, "COMPLETE")
  BY <1>1 DEF DispatchEarly, TypeOK
<1> HIDE DEF E
<1> QED BY <1>2, <1>4, <1>5, <1>6, ResumeInv

(***************************************************************************)
(* The steps that change thread t's own requests and call.                 *)
(***************************************************************************)
AnsweredAt(t) ==
  InWait(t) =>
    /\ status[t] = "BLOCKED" => \A e \in RequestsOf(t) : ev[e].status = "INPROC"
    /\ status[t] = "RUNNABLE" => \E e \in RequestsOf(t) : ev[e].status # "INPROC"
    /\ status[t] = "EXECUTING" /\ call[t] # "multi" => ev[Req(t)].status # "INPROC"

LEMMA OthersKeep ==
  ASSUME IInv, NEW t \in Threads, call' \in [Threads -> {"none", "get", "wait", "enter", "multi"}],
         \A u \in Threads \ {t} : call'[u] = call[u],
         \A u \in Threads \ {t} : InWait(u) => status'[u] = status[u],
         \A e \in EventIds : e[1] # t => SameRequest(ev'[e], ev[e])
  PROVE  /\ \A u \in Threads \ {t} : RequestsOf(u)' = RequestsOf(u)
         /\ AnsweredAt(t)' => Answered'
<1>1. ASSUME NEW u \in Threads \ {t}
      PROVE  SameRequest(ev'[Req(u)], ev[Req(u)]) /\ SameRequest(ev'[Timer(u)], ev[Timer(u)])
  <2>1. /\ Req(u) \in EventIds /\ Timer(u) \in EventIds
        /\ Req(u)[1] # t /\ Timer(u)[1] # t
    BY DEF Req, Timer, EventIds
  <2> QED BY <2>1
<1>2. \A u \in Threads \ {t} : RequestsOf(u)' = RequestsOf(u)
  BY <1>1 DEF RequestsOf, SameRequest
<1>3. ASSUME NEW u \in Threads \ {t} PROVE AnsweredAt(u)'
  <2>1. AnsweredAt(u)
    BY DEF IInv, Answered, AnsweredAt
  <2>2. \A e \in RequestsOf(u) : ev'[e].status = ev[e].status
    BY <1>1 DEF RequestsOf, SameRequest
  <2>3. InWait(u)' <=> InWait(u)
    BY DEF InWait
  <2> QED BY <1>1, <1>2, <2>1, <2>2, <2>3 DEF AnsweredAt, SameRequest
<1> QED BY <1>2, <1>3 DEF Answered, AnsweredAt

\* A call of the running thread t that enters one request and blocks.
LEMMA BlockInv ==
  ASSUME IInv, NEW t \in Threads, Running(t), Room(1),
         NEW o \in Objects, NEW type \in EventTypes, NEW n \in 1..MaxReq,
         NEW c \in {"get", "wait"},
         table' = Append(table, Req(t)),
         ev' = [ev EXCEPT ![Req(t)] = Request(o, type, n, Len(table) + 1)],
         call' = [call EXCEPT ![t] = c],
         Enter(t, [status EXCEPT ![t] = "BLOCKED"]),
         UNCHANGED <<process, starting, locked, sem>>
  PROVE  IInv'
<1>1. TypeOK /\ Alive(t) /\ call[t] = "none" /\ current = t
  BY ObjectAssumption DEF IInv, Running, Lives
<1>2. Len(table) \in Nat /\ Len(table) + 1 <= MaxEvents /\ table \in Seq(EventIds)
  BY <1>1 DEF TypeOK, Room
<1>3. Req(t) \in EventIds /\ Req(t)[1] = t
  BY DEF Req, EventIds
<1>4. Request(o, type, n, Len(table) + 1) \in EventReq
  <2>1. Len(table) + 1 \in 0..MaxEvents
    BY <1>2, BoundAssumption
  <2> QED BY <2>1 DEF Request, EventReq
<1>5. ev' \in [EventIds -> EventReq] /\ \A e \in EventIds : e # Req(t) => ev'[e] = ev[e]
  BY <1>1, <1>3, <1>4 DEF TypeOK
<1>6. ev'[Req(t)] = Request(o, type, n, Len(table) + 1)
  BY <1>1, <1>3 DEF TypeOK
<1>7. /\ status' = [status EXCEPT ![t] = "BLOCKED"] /\ current' = None
      /\ status' \in [Threads -> Statuses] /\ status'[t] = "BLOCKED"
  BY <1>1 DEF Enter, TypeOK, Statuses
<1>8. TypeOK'
  <2>1. table' \in Seq(EventIds) /\ Len(table') <= MaxEvents
    BY <1>2, <1>3
  <2> QED BY <1>1, <1>5, <1>7, <2>1 DEF TypeOK
<1>9. Req(t) \notin InTable(table) /\ Timer(t) \notin InTable(table)
  BY <1>1, Owner, Ids DEF InWait, Timer
<1>10. /\ \A u \in Threads \ {t} : RequestsOf(u)' = RequestsOf(u)
       /\ AnsweredAt(t)' => Answered'
  <2>1. \A e \in EventIds : e[1] # t => SameRequest(ev'[e], ev[e])
    BY <1>3, <1>5 DEF SameRequest
  <2>2. /\ call' \in [Threads -> {"none", "get", "wait", "enter", "multi"}]
        /\ \A u \in Threads \ {t} : call'[u] = call[u] /\ status'[u] = status[u]
    BY <1>1, <1>7 DEF TypeOK
  <2> QED BY <2>1, <2>2, OthersKeep
<1>11. RequestsOf(t)' = {Req(t)}
  <2>1. call'[t] = c
    BY <1>1 DEF TypeOK
  <2> QED BY <2>1, Ids DEF RequestsOf
<1>12. Answered'
  <2>1. ev'[Req(t)].status = "INPROC"
    BY <1>6 DEF Request
  <2>2. AnsweredAt(t)'
    BY <1>7, <1>11, <2>1 DEF AnsweredAt
  <2> QED BY <1>10, <2>2
<1>13. TableExact'
  <2>1. InTable(table') = InTable(table) \cup {Req(t)}
    BY <1>2, <1>3, AppendIn
  <2>2. ASSUME NEW e \in EventIds
        PROVE  e \in InTable(table') <=> e \in RequestsOf(e[1])'
    <3>1. e[1] \in Threads
      BY DEF EventIds
    <3>2. CASE e[1] = t
      BY <1>9, <1>11, <2>1, <3>2, Ids
    <3>3. CASE e[1] # t
      BY <1>3, <1>10, <2>1, <3>1, <3>3 DEF IInv, TableExact
    <3> QED BY <3>2, <3>3
  <2>3. ASSUME NEW i \in DOMAIN table' PROVE ev'[table'[i]].idx = i
    <3>1. CASE i = Len(table) + 1
      BY <1>2, <1>3, <1>6, <3>1 DEF Request
    <3>2. CASE i # Len(table) + 1
      <4>1. i \in DOMAIN table /\ table'[i] = table[i] /\ table[i] \in EventIds
        BY <1>2, <1>3, <3>2
      <4>2. table[i] # Req(t)
        BY <1>9, <4>1 DEF InTable
      <4> QED BY <1>5, <4>1, <4>2 DEF IInv, TableExact
    <3> QED BY <3>1, <3>2
  <2> QED BY <2>2, <2>3 DEF TableExact
<1>14. OneRunner' /\ Lives'
  BY <1>1, <1>7 DEF IInv, TypeOK, OneRunner, Lives, Alive
<1> QED BY <1>8, <1>12, <1>13, <1>14 DEF IInv

LEMMA GetBlockInv ==
  ASSUME IInv, NEW t \in Threads, NEW s \in Sems, NEW n \in 1..MaxReq,
         SyGetSemBlock(t, s, n)
  PROVE  IInv'
BY BlockInv DEF SyGetSemBlock, Objects, EventTypes

LEMMA WaitBlockInv ==
  ASSUME IInv, NEW t \in Threads, NEW o \in Objects, NEW type \in TypesOf(o),
         NEW n \in LensOf(o), ThWaitBlock(t, o, type, n)
  PROVE  IInv'
<1>1. type \in EventTypes /\ n \in 1..MaxReq
  BY BoundAssumption DEF TypesOf, EventTypes, LensOf
<1> QED BY <1>1, BlockInv DEF ThWaitBlock

(***************************************************************************)
(* Thread t has no request in the table before or after the step, and only *)
(* its own object request is filled in or cleared (thMultiWait outside the *)
(* table).                                                                 *)
(***************************************************************************)
LEMMA OwnCallInv ==
  ASSUME IInv, NEW t \in Threads, current = t, call[t] \in {"none", "enter"},
         NEW x \in EventReq, NEW c \in {"none", "enter"},
         ev' = [ev EXCEPT ![Req(t)] = x], call' = [call EXCEPT ![t] = c],
         Enter(t, status) \/ UNCHANGED <<status, current>>,
         UNCHANGED <<process, starting, locked, table>>, sem' \in SemType
  PROVE  IInv'
<1>1. TypeOK /\ Alive(t) /\ status \in [Threads -> Statuses]
  BY ObjectAssumption DEF IInv, Lives, TypeOK
<1>2. /\ status' \in [Threads -> Statuses]
      /\ current' \in {t, None}
      /\ \A u \in Threads \ {t} : status'[u] = status[u]
      /\ status'[t] = "EXECUTING" => current' = t
      /\ status'[t] # "none"
  <2>1. CASE Enter(t, status)
    BY <1>1, <2>1, EnterStatus DEF Alive
  <2>2. CASE UNCHANGED <<status, current>>
    BY <1>1, <2>2 DEF Alive
  <2> QED BY <2>1, <2>2
<1>3. Req(t) \in EventIds /\ Req(t)[1] = t
  BY DEF Req, EventIds
<1>4. /\ ev' \in [EventIds -> EventReq]
      /\ \A e \in EventIds : e # Req(t) => ev'[e] = ev[e]
      /\ call' \in [Threads -> {"none", "get", "wait", "enter", "multi"}]
      /\ \A u \in Threads \ {t} : call'[u] = call[u]
      /\ call'[t] = c
  BY <1>1, <1>3 DEF TypeOK
<1>5. TypeOK'
  BY <1>1, <1>2, <1>4 DEF TypeOK, SemType
<1>6. /\ \A u \in Threads \ {t} : RequestsOf(u)' = RequestsOf(u)
      /\ AnsweredAt(t)' => Answered'
  <2>1. \A e \in EventIds : e[1] # t => SameRequest(ev'[e], ev[e])
    BY <1>3, <1>4 DEF SameRequest
  <2> QED BY <1>2, <1>4, <2>1, OthersKeep
<1>7. Answered'
  BY <1>4, <1>6 DEF AnsweredAt, InWait
<1>8. RequestsOf(t) = {} /\ RequestsOf(t)' = {}
  BY <1>4, Ids DEF RequestsOf
<1>9. TableExact'
  <2>1. Req(t) \notin InTable(table)
    BY <1>3, <1>8 DEF IInv, TableExact
  <2>2. ASSUME NEW e \in EventIds
        PROVE  e \in InTable(table) <=> e \in RequestsOf(e[1])'
    <3>1. e[1] \in Threads
      BY DEF EventIds
    <3> QED BY <1>6, <1>8, <3>1 DEF IInv, TableExact
  <2>3. \A i \in DOMAIN table : table[i] \in EventIds /\ table[i] # Req(t)
    BY <1>1, <2>1 DEF TypeOK, InTable
  <2> QED BY <1>4, <2>2, <2>3 DEF IInv, TableExact
<1>10. OneRunner'
  BY <1>2 DEF IInv, OneRunner
<1>11. Lives'
  BY <1>1, <1>2, <1>4 DEF IInv, Lives, Alive
<1> QED BY <1>5, <1>7, <1>9, <1>10, <1>11 DEF IInv

LEMMA NoRequestType == NoRequest \in EventReq
BY BoundAssumption DEF NoRequest, EventReq, EventTypes

LEMMA MultiWaitInv ==
  ASSUME IInv, NEW t \in Threads, NEW o \in Objects \cup {None},
         NEW type \in EventTypes, NEW n \in 1..MaxReq, NEW zero \in BOOLEAN,
         ThMultiWait(t, o, type, n, zero)
  PROVE  IInv'
<1>1. Request(o, type, n, 0) \in EventReq
  BY BoundAssumption DEF Request, EventReq
<1>2. sem' \in SemType
  <2>1. CASE o = None
    BY <2>1 DEF ThMultiWait, IInv, TypeOK, SemType
  <2>2. CASE o # None
    BY <2>2, CheckType DEF ThMultiWait, IInv
  <2> QED BY <2>1, <2>2
<1>3. Enter(t, status) \/ UNCHANGED <<status, current>>
  BY DEF ThMultiWait
<1> QED BY <1>1, <1>2, <1>3, OwnCallInv DEF ThMultiWait, Running

LEMMA MultiFullInv ==
  ASSUME IInv, NEW t \in Threads, MultiFull(t)
  PROVE  IInv'
<1>1. sem' \in SemType
  BY DEF MultiFull, IInv, TypeOK, SemType
<1> QED BY <1>1, NoRequestType, OwnCallInv DEF MultiFull

(***************************************************************************)
(* Thread t's requests leave the table; every other waiting thread keeps   *)
(* its status and outcomes, or is woken by an answer.                      *)
(***************************************************************************)
LEMMA LeaveStep ==
  ASSUME IInv, NEW t \in Threads, NEW r, Indexed(table', r),
         InTable(table') = InTable(table) \ {Timer(t), Req(t)},
         \A e \in EventIds : SameRequest(r[e], ev[e]),
         \A u \in Threads \ {t} : call'[u] = call[u], call'[t] \in {"none", "enter"},
         \A e \in EventIds : e[1] # t => ev'[e].obj = r[e].obj /\ ev'[e].idx = r[e].idx,
         \A u \in Threads \ {t} : InWait(u) =>
           \/ /\ status'[u] = status[u]
              /\ \A e \in EventIds : e[1] = u => ev'[e].status = r[e].status
           \/ /\ status'[u] = "RUNNABLE"
              /\ \E e \in InTable(table') : e[1] = u /\ ev'[e].status # "INPROC"
  PROVE  TableExact' /\ Answered'
<1>1. InTable(table') \subseteq EventIds
  BY DEF Indexed, InTable
<1>2. \A e \in EventIds : e[1] # t => ev'[e].obj = ev[e].obj /\ ev'[e].idx = r[e].idx
  BY DEF SameRequest
<1>3. ASSUME NEW u \in Threads \ {t} PROVE RequestsOf(u)' = RequestsOf(u)
  <2>1. Req(u) \in EventIds /\ Req(u)[1] # t
    BY DEF Req, EventIds
  <2> QED BY <1>2, <2>1 DEF RequestsOf
<1>4. RequestsOf(t)' = {}
  BY Ids DEF RequestsOf
<1>5. TableExact'
  <2>1. ASSUME NEW e \in EventIds
        PROVE  e \in InTable(table') <=> e \in RequestsOf(e[1])'
    <3>1. e[1] \in Threads
      BY DEF EventIds
    <3>2. CASE e[1] = t
      BY <1>4, <3>2, Ids
    <3>3. CASE e[1] # t
      <4>1. e # Timer(t) /\ e # Req(t)
        BY <3>3, Ids
      <4> QED BY <1>3, <3>1, <3>3, <4>1 DEF IInv, TableExact
    <3> QED BY <3>2, <3>3
  <2>2. ASSUME NEW i \in DOMAIN table' PROVE ev'[table'[i]].idx = i
    <3>1. table'[i] \in InTable(table') /\ table'[i] \in EventIds
      BY <1>1 DEF InTable
    <3>2. table'[i][1] # t
      BY <3>1, Ids
    <3> QED BY <1>2, <3>1, <3>2 DEF Indexed
  <2> QED BY <2>1, <2>2 DEF TableExact
<1>6. ASSUME NEW u \in Threads, InWait(u)'
      PROVE  /\ status'[u] = "BLOCKED" => \A e \in RequestsOf(u)' : ev'[e].status = "INPROC"
             /\ status'[u] = "RUNNABLE" => \E e \in RequestsOf(u)' : ev'[e].status # "INPROC"
             /\ status'[u] = "EXECUTING" /\ call'[u] # "multi" => ev'[Req(u)].status # "INPROC"
  <2>1. u # t /\ InWait(u) /\ call'[u] = call[u]
    BY <1>6 DEF InWait
  <2>2. \A e \in RequestsOf(u) : e \in EventIds /\ e[1] = u
    BY Ids
  <2>3. call[u] # "multi" => RequestsOf(u) = {Req(u)}
    BY <2>1, Ids DEF InWait, RequestsOf
  <2>4. CASE /\ status'[u] = "RUNNABLE"
             /\ \E e \in InTable(table') : e[1] = u /\ ev'[e].status # "INPROC"
    <3>1. PICK e \in InTable(table') : e[1] = u /\ ev'[e].status # "INPROC"
      BY <2>4
    <3>2. e \in RequestsOf(u)
      BY <3>1, Owner
    <3> QED BY <1>3, <2>1, <2>4, <3>1, <3>2
  <2>5. CASE /\ status'[u] = status[u]
             /\ \A e \in EventIds : e[1] = u => ev'[e].status = r[e].status
    <3>1. \A e \in RequestsOf(u) : ev'[e].status = ev[e].status
      BY <2>2, <2>5 DEF SameRequest
    <3>2. AnsweredAt(u)
      BY DEF IInv, Answered, AnsweredAt
    <3> QED BY <1>3, <2>1, <2>3, <2>5, <3>1, <3>2 DEF AnsweredAt
  <2> QED BY <2>1, <2>4, <2>5
<1> QED BY <1>5, <1>6 DEF Answered

LEMMA ReturnOneInv ==
  ASSUME IInv, NEW t \in Threads, current = t, call[t] \in {"get", "wait"},
         table' = Shift(table, ev[Req(t)].idx),
         ev' = [Renumber(ev, Shift(table, ev[Req(t)].idx), ev[Req(t)].idx)
                  EXCEPT ![Req(t)] = NoRequest],
         call' = [call EXCEPT ![t] = "none"],
         UNCHANGED <<process, status, starting, current, locked, sem>>
  PROVE  IInv'
<1> DEFINE i == ev[Req(t)].idx
           q == Shift(table, i)
           r == Renumber(ev, q, i)
<1>1. TypeOK /\ Indexed(table, ev)
  BY InvIndexed DEF IInv
<1>2. Req(t) \in InTable(table) /\ Timer(t) \notin InTable(table)
  BY Ids DEF IInv, TableExact, RequestsOf, Req, Timer
<1>3. i \in DOMAIN table /\ table[i] = Req(t)
  BY <1>2 DEF IInv, TableExact, InTable
<1>4. /\ Indexed(q, r) /\ InTable(q) = InTable(table) \ {Timer(t), Req(t)}
      /\ \A e \in EventIds : SameRequest(r[e], ev[e])
  BY <1>1, <1>2, <1>3, ShiftRemoves, RenumberIndexes
<1> HIDE DEF q, r
<1>5. /\ ev' \in [EventIds -> EventReq]
      /\ \A e \in EventIds : e[1] # t => ev'[e] = r[e]
  <2>1. ev' = [r EXCEPT ![Req(t)] = NoRequest]
    BY DEF q, r
  <2>2. r \in [EventIds -> EventReq]
    BY <1>4 DEF Indexed
  <2>3. \A e \in EventIds : e[1] # t => e # Req(t)
    BY Ids
  <2> QED BY <2>1, <2>2, <2>3, NoRequestType
<1>6. /\ call' \in [Threads -> {"none", "get", "wait", "enter", "multi"}]
      /\ \A u \in Threads \ {t} : call'[u] = call[u]
      /\ call'[t] = "none"
  BY <1>1 DEF TypeOK
<1>7. table' = q
  BY DEF q
<1>8. TableExact' /\ Answered'
  <2>1. Indexed(table', r) /\ InTable(table') = InTable(table) \ {Timer(t), Req(t)}
    BY <1>4, <1>7
  <2>2. \A e \in EventIds : e[1] # t => ev'[e].obj = r[e].obj /\ ev'[e].idx = r[e].idx
    BY <1>5
  <2>3. \A u \in Threads \ {t} : InWait(u) =>
          /\ status'[u] = status[u]
          /\ \A e \in EventIds : e[1] = u => ev'[e].status = r[e].status
    BY <1>5
  <2> QED BY <1>4, <1>6, <2>1, <2>2, <2>3, LeaveStep
<1>9. TypeOK'
  BY <1>1, <1>4, <1>5, <1>6, <1>7 DEF TypeOK, Indexed
<1>10. OneRunner' /\ Lives'
  BY <1>6 DEF IInv, OneRunner, Lives, Alive
<1> QED BY <1>8, <1>9, <1>10 DEF IInv

LEMMA ReturnGetInv ==
  ASSUME IInv, NEW t \in Threads, ReturnGet(t)
  PROVE  IInv'
BY ReturnOneInv DEF ReturnGet

LEMMA ReturnWaitInv ==
  ASSUME IInv, NEW t \in Threads, ReturnWait(t)
  PROVE  IInv'
BY ReturnOneInv DEF ReturnWait

(***************************************************************************)
(* Taking the request e out of the table, if it is there: the index stored *)
(* in the request is its position.                                         *)
(***************************************************************************)
LEMMA Dropping ==
  ASSUME NEW q, NEW r, Indexed(q, r), NEW e \in EventIds
  PROVE  /\ Indexed(Dropped(q, e), DroppedReqs(r, q, e))
         /\ InTable(Dropped(q, e)) = InTable(q) \ {e}
         /\ \A x \in EventIds : SameRequest(DroppedReqs(r, q, e)[x], r[x])
         /\ e \in InTable(q) => Position(q, e) = r[e].idx
<1>1. CASE e \in InTable(q)
  <2>1. \E i \in DOMAIN q : q[i] = e
    BY <1>1 DEF InTable
  <2>2. Position(q, e) \in DOMAIN q /\ q[Position(q, e)] = e
    BY <2>1 DEF Position
  <2> DEFINE i == Position(q, e)
  <2>3. /\ Dropped(q, e) = Shift(q, i)
        /\ DroppedReqs(r, q, e) = Renumber(r, Shift(q, i), i)
    BY <1>1 DEF Dropped, DroppedReqs
  <2>4. Position(q, e) = r[e].idx
    BY <2>2 DEF Indexed
  <2> HIDE DEF i
  <2>5. i \in DOMAIN q /\ q[i] = e
    BY <2>2 DEF i
  <2> QED BY <2>3, <2>4, <2>5, ShiftRemoves, RenumberIndexes
<1>2. CASE e \notin InTable(q)
  <2>1. Dropped(q, e) = q /\ DroppedReqs(r, q, e) = r
    BY <1>2 DEF Dropped, DroppedReqs
  <2>2. \A x \in EventIds : SameRequest(r[x], r[x])
    BY DEF SameRequest
  <2> QED BY <1>2, <2>1, <2>2
<1> QED BY <1>1, <1>2

\* Both requests of thread u out of the table.
Table2(u) == Dropped(Dropped(table, Timer(u)), Req(u))
Reqs2(u)  == DroppedReqs(DroppedReqs(ev, table, Timer(u)),
                         Dropped(table, Timer(u)), Req(u))

LEMMA DroppingBoth ==
  ASSUME IInv, NEW u \in Threads
  PROVE  /\ Indexed(Table2(u), Reqs2(u))
         /\ InTable(Table2(u)) = InTable(table) \ {Timer(u), Req(u)}
         /\ \A x \in EventIds : SameRequest(Reqs2(u)[x], ev[x])
<1> DEFINE q == Dropped(table, Timer(u))
           r == DroppedReqs(ev, table, Timer(u))
<1>1. Timer(u) \in EventIds /\ Req(u) \in EventIds
  BY Ids
<1>2. /\ Indexed(q, r) /\ InTable(q) = InTable(table) \ {Timer(u)}
      /\ \A x \in EventIds : SameRequest(r[x], ev[x])
  BY <1>1, InvIndexed, Dropping
<1> HIDE DEF q, r
<1>3. Table2(u) = Dropped(q, Req(u)) /\ Reqs2(u) = DroppedReqs(r, q, Req(u))
  BY DEF q, r, Table2, Reqs2
<1>4. /\ Indexed(Dropped(q, Req(u)), DroppedReqs(r, q, Req(u)))
      /\ InTable(Dropped(q, Req(u))) = InTable(q) \ {Req(u)}
      /\ \A x \in EventIds : SameRequest(DroppedReqs(r, q, Req(u))[x], r[x])
  BY <1>1, <1>2, Dropping
<1>5. \A x \in EventIds : SameRequest(Reqs2(u)[x], ev[x])
  BY <1>2, <1>3, <1>4 DEF SameRequest
<1> QED BY <1>2, <1>3, <1>4, <1>5

\* ReturnMulti takes both requests out of the table.
LEMMA ReturnMultiReqs ==
  ASSUME IInv, NEW t \in Threads, ReturnMulti(t)
  PROVE  \E x \in {NoRequest, Reqs2(t)[Req(t)]}, c \in {"none", "enter"} :
           /\ table' = Table2(t)
           /\ ev' = [Reqs2(t) EXCEPT ![Timer(t)] = NoRequest, ![Req(t)] = x]
           /\ call' = [call EXCEPT ![t] = c]
<1>1. TypeOK /\ call[t] = "multi"
  BY DEF IInv, ReturnMulti
<1>2. Timer(t) \in EventIds /\ Req(t) \in EventIds /\ Timer(t) # Req(t)
  BY Ids
<1>3. /\ Timer(t) \in InTable(table)
      /\ Req(t) \in InTable(table) <=> ev[Req(t)].obj # None
  BY <1>1, <1>2 DEF IInv, TableExact, RequestsOf, Timer, Req
<1> DEFINE i    == ev[Timer(t)].idx
           q    == Shift(table, i)
           r    == Renumber(ev, q, i)
           k    == r[Req(t)].idx
           done == \/ ev[Timer(t)].status # "INPROC"
                   \/ ev[Req(t)].obj # None /\ ev[Req(t)].status # "INPROC"
           q2   == IF ev[Req(t)].obj = None THEN q ELSE Shift(q, k)
           r2   == IF ev[Req(t)].obj = None THEN r ELSE Renumber(r, q2, k)
<1>4. /\ table' = q2
      /\ ev' = [r2 EXCEPT ![Timer(t)] = NoRequest,
                          ![Req(t)] = IF done THEN NoRequest ELSE @]
      /\ call' = [call EXCEPT ![t] = IF done THEN "none" ELSE "enter"]
  BY DEF ReturnMulti
<1>5. q = Dropped(table, Timer(t)) /\ r = DroppedReqs(ev, table, Timer(t))
  BY <1>2, <1>3, InvIndexed, Dropping DEF Dropped, DroppedReqs
<1>6. Indexed(q, r) /\ InTable(q) = InTable(table) \ {Timer(t)}
  BY <1>2, <1>5, InvIndexed, Dropping
<1>7. q2 = Table2(t) /\ r2 = Reqs2(t)
  <2>1. q2 = Dropped(q, Req(t)) /\ r2 = DroppedReqs(r, q, Req(t))
    <3> HIDE DEF q, r
    <3>1. Req(t) \in InTable(q) => Position(q, Req(t)) = r[Req(t)].idx
      BY <1>2, <1>6, Dropping
    <3>2. Req(t) \in InTable(q) <=> ev[Req(t)].obj # None
      BY <1>2, <1>3, <1>6
    <3> QED BY <3>1, <3>2 DEF Dropped, DroppedReqs
  <2> QED BY <1>5, <2>1 DEF Table2, Reqs2
<1> HIDE DEF q2, r2, done
<1>8. Reqs2(t) \in [EventIds -> EventReq]
  BY DroppingBoth DEF Indexed
<1>9. [Reqs2(t) EXCEPT ![Timer(t)] = NoRequest,
                       ![Req(t)] = IF done THEN NoRequest ELSE @]
      = [Reqs2(t) EXCEPT ![Timer(t)] = NoRequest,
                         ![Req(t)] = IF done THEN NoRequest ELSE Reqs2(t)[Req(t)]]
  BY <1>2, <1>8
<1>10. (IF done THEN NoRequest ELSE Reqs2(t)[Req(t)]) \in {NoRequest, Reqs2(t)[Req(t)]}
      /\ (IF done THEN "none" ELSE "enter") \in {"none", "enter"}
  OBVIOUS
<1> QED BY <1>4, <1>7, <1>9, <1>10

LEMMA ReturnMultiInv ==
  ASSUME IInv, NEW t \in Threads, ReturnMulti(t)
  PROVE  IInv'
<1>1. TypeOK /\ current = t /\ call[t] = "multi"
      /\ UNCHANGED <<process, status, starting, current, locked, sem>>
  BY DEF IInv, ReturnMulti
<1>2. Timer(t) \in EventIds /\ Req(t) \in EventIds /\ Timer(t) # Req(t)
  BY Ids
<1>4. PICK x \in {NoRequest, Reqs2(t)[Req(t)]}, c \in {"none", "enter"} :
        /\ table' = Table2(t)
        /\ ev' = [Reqs2(t) EXCEPT ![Timer(t)] = NoRequest, ![Req(t)] = x]
        /\ call' = [call EXCEPT ![t] = c]
  BY ReturnMultiReqs
<1>5. /\ Indexed(Table2(t), Reqs2(t))
      /\ InTable(Table2(t)) = InTable(table) \ {Timer(t), Req(t)}
      /\ \A e \in EventIds : SameRequest(Reqs2(t)[e], ev[e])
  BY DroppingBoth
<1>6. /\ ev' \in [EventIds -> EventReq]
      /\ \A e \in EventIds : e[1] # t => ev'[e] = Reqs2(t)[e]
  <2>1. Reqs2(t) \in [EventIds -> EventReq] /\ x \in EventReq
    BY <1>2, <1>4, <1>5, NoRequestType DEF Indexed
  <2>2. \A e \in EventIds : e[1] # t => e # Req(t) /\ e # Timer(t)
    BY Ids
  <2> QED BY <1>4, <2>1, <2>2, NoRequestType
<1>7. /\ call' \in [Threads -> {"none", "get", "wait", "enter", "multi"}]
      /\ \A u \in Threads \ {t} : call'[u] = call[u]
      /\ call'[t] \in {"none", "enter"}
  BY <1>1, <1>4 DEF TypeOK
<1>8. TableExact' /\ Answered'
  <2>1. Indexed(table', Reqs2(t)) /\ InTable(table') = InTable(table) \ {Timer(t), Req(t)}
    BY <1>4, <1>5
  <2>2. \A e \in EventIds : e[1] # t =>
          ev'[e].obj = Reqs2(t)[e].obj /\ ev'[e].idx = Reqs2(t)[e].idx
    BY <1>6
  <2>3. \A u \in Threads \ {t} : InWait(u) =>
          /\ status'[u] = status[u]
          /\ \A e \in EventIds : e[1] = u => ev'[e].status = Reqs2(t)[e].status
    BY <1>1, <1>6
  <2> QED BY <1>5, <1>7, <2>1, <2>2, <2>3, LeaveStep
<1>9. TypeOK'
  BY <1>1, <1>4, <1>5, <1>6, <1>7 DEF TypeOK, Indexed
<1>10. OneRunner' /\ Lives'
  BY <1>1, <1>7 DEF IInv, OneRunner, Lives, Alive
<1> QED BY <1>8, <1>9, <1>10 DEF IInv

(***************************************************************************)
(* thMultiWait adds its timer, and then its object's request if it has one.*)
(***************************************************************************)
LEMMA AddedRequests ==
  ASSUME NEW q \in Seq(EventIds), NEW t \in Threads
  PROVE  /\ q \o <<Timer(t)>> = Append(q, Timer(t))
         /\ q \o <<Timer(t), Req(t)>> = Append(Append(q, Timer(t)), Req(t))
<1>1. Timer(t) \in EventIds /\ Req(t) \in EventIds
  BY Ids
<1>2. q \o <<Timer(t)>> = Append(q, Timer(t))
  BY <1>1
<1>3. q \o <<Timer(t), Req(t)>> = Append(Append(q, Timer(t)), Req(t))
  BY <1>1
<1> QED BY <1>2, <1>3

LEMMA MultiBlockInv ==
  ASSUME IInv, NEW t \in Threads, MultiBlock(t)
  PROVE  IInv'
<1> DEFINE n == Len(table)
           single == ev[Req(t)].obj = None
<1>1. TypeOK /\ Alive(t) /\ call[t] = "enter" /\ current = t
      /\ UNCHANGED <<process, starting, locked, sem>>
  BY ObjectAssumption DEF IInv, Lives, MultiBlock
<1>2. /\ table \in Seq(EventIds) /\ n \in Nat
      /\ Timer(t) \in EventIds /\ Req(t) \in EventIds /\ Timer(t) # Req(t)
  BY <1>1, Ids DEF TypeOK
<1>3. /\ table' = IF single THEN Append(table, Timer(t))
                  ELSE Append(Append(table, Timer(t)), Req(t))
      /\ n + (IF single THEN 1 ELSE 2) <= MaxEvents
  BY <1>2, AddedRequests DEF MultiBlock, MultiReqs, Room
<1>4. /\ table' \in Seq(EventIds) /\ Len(table') <= MaxEvents
      /\ DOMAIN table' = 1..(n + (IF single THEN 1 ELSE 2))
      /\ \A i \in 1..n : table'[i] = table[i]
      /\ table'[n + 1] = Timer(t)
      /\ ~single => table'[n + 2] = Req(t)
  <2>1. CASE single
    BY <1>2, <1>3, <2>1
  <2>2. CASE ~single
    BY <1>2, <1>3, <2>2
  <2> QED BY <2>1, <2>2
<1>5. InTable(table') = InTable(table) \cup (IF single THEN {Timer(t)} ELSE {Timer(t), Req(t)})
  <2>1. Append(table, Timer(t)) \in Seq(EventIds)
    BY <1>2
  <2>2. InTable(Append(table, Timer(t))) = InTable(table) \cup {Timer(t)}
    BY <1>2, AppendIn
  <2>3. InTable(Append(Append(table, Timer(t)), Req(t)))
          = InTable(Append(table, Timer(t))) \cup {Req(t)}
    BY <1>2, <2>1, AppendIn
  <2> QED BY <1>3, <2>2, <2>3
<1>6. /\ ev' \in [EventIds -> EventReq]
      /\ ev'[Timer(t)].idx = n + 1 /\ ev'[Timer(t)].status = "INPROC"
      /\ ev'[Req(t)].status = "INPROC" /\ ev'[Req(t)].obj = ev[Req(t)].obj
      /\ ~single => ev'[Req(t)].idx = n + 2
      /\ \A e \in EventIds : e[1] # t => ev'[e] = ev[e]
  <2>1. ev \in [EventIds -> EventReq] /\ ev[Req(t)] \in EventReq
    BY <1>1, <1>2 DEF TypeOK
  <2>2. Request(None, "MT_TIMER", 1, n + 1) \in EventReq
    <3>1. n + 1 \in 0..MaxEvents
      BY <1>2, <1>3, BoundAssumption
    <3> QED BY <3>1, BoundAssumption DEF Request, EventReq, EventTypes
  <2> DEFINE k == IF single THEN 0 ELSE n + 2
             x == [[ev[Req(t)] EXCEPT !.status = "INPROC"] EXCEPT !.idx = k]
  <2>3. k \in 0..MaxEvents
    BY <1>2, <1>3, BoundAssumption
  <2>4. /\ x \in EventReq /\ x.status = "INPROC"
        /\ x.obj = ev[Req(t)].obj /\ x.idx = k
    <3> HIDE DEF k
    <3> QED BY <2>1, <2>3 DEF EventReq
  <2>5. ev' = [ev EXCEPT ![Timer(t)] = Request(None, "MT_TIMER", 1, n + 1), ![Req(t)] = x]
    BY <1>2, <2>1 DEF MultiBlock
  <2>6. \A e \in EventIds : e[1] # t => e # Req(t) /\ e # Timer(t)
    BY Ids
  <2> HIDE DEF x
  <2>7. ev'[Timer(t)] = Request(None, "MT_TIMER", 1, n + 1) /\ ev'[Req(t)] = x
    BY <1>2, <2>1, <2>5
  <2>8. ev'[Timer(t)].idx = n + 1 /\ ev'[Timer(t)].status = "INPROC"
    BY <2>7 DEF Request
  <2>9. ev' \in [EventIds -> EventReq] /\ \A e \in EventIds : e[1] # t => ev'[e] = ev[e]
    BY <1>2, <2>1, <2>2, <2>4, <2>5, <2>6
  <2> QED BY <2>4, <2>7, <2>8, <2>9
<1>7. /\ status' = [status EXCEPT ![t] = "BLOCKED"] /\ current' = None
      /\ status' \in [Threads -> Statuses] /\ status'[t] = "BLOCKED"
  BY <1>1 DEF MultiBlock, Enter, TypeOK, Statuses
<1>8. /\ call' \in [Threads -> {"none", "get", "wait", "enter", "multi"}]
      /\ \A u \in Threads \ {t} : call'[u] = call[u] /\ status'[u] = status[u]
      /\ call'[t] = "multi"
  BY <1>1, <1>7 DEF MultiBlock, TypeOK
<1>9. TypeOK'
  BY <1>1, <1>4, <1>6, <1>7, <1>8 DEF TypeOK
<1>10. /\ \A u \in Threads \ {t} : RequestsOf(u)' = RequestsOf(u)
       /\ AnsweredAt(t)' => Answered'
  <2>1. \A e \in EventIds : e[1] # t => SameRequest(ev'[e], ev[e])
    BY <1>6 DEF SameRequest
  <2> QED BY <1>8, <2>1, OthersKeep
<1>11. RequestsOf(t)' = IF single THEN {Timer(t)} ELSE {Timer(t), Req(t)}
  BY <1>2, <1>6, <1>8 DEF RequestsOf
<1>12. Answered'
  <2>1. AnsweredAt(t)'
    BY <1>6, <1>7, <1>11 DEF AnsweredAt
  <2> QED BY <1>10, <2>1
<1>13. \A e \in InTable(table) : e \in EventIds /\ e[1] # t
  BY <1>1, Owner DEF InWait
<1>14. TableExact'
  <2>1. ASSUME NEW e \in EventIds
        PROVE  e \in InTable(table') <=> e \in RequestsOf(e[1])'
    <3>1. e[1] \in Threads
      BY DEF EventIds
    <3>2. CASE e[1] = t
      BY <1>5, <1>11, <1>13, <3>2
    <3>3. CASE e[1] # t
      <4>1. e # Timer(t) /\ e # Req(t)
        BY <3>3, Ids
      <4> QED BY <1>5, <1>10, <3>1, <3>3, <4>1 DEF IInv, TableExact
    <3> QED BY <3>2, <3>3
  <2>2. ASSUME NEW i \in DOMAIN table' PROVE ev'[table'[i]].idx = i
    <3>1. CASE i \in 1..n
      <4>1. i \in DOMAIN table /\ table'[i] = table[i]
        BY <1>2, <1>4, <3>1
      <4>2. table[i] \in EventIds /\ table[i][1] # t
        BY <1>13, <4>1 DEF InTable
      <4> QED BY <1>6, <4>1, <4>2 DEF IInv, TableExact
    <3>2. CASE i = n + 1
      BY <1>4, <1>6, <3>2
    <3>3. CASE ~single /\ i = n + 2
      BY <1>4, <1>6, <3>3
    <3> QED BY <1>2, <1>4, <3>1, <3>2, <3>3
  <2> QED BY <2>1, <2>2 DEF TableExact
<1>15. OneRunner' /\ Lives'
  BY <1>1, <1>7, <1>8 DEF IInv, TypeOK, OneRunner, Lives, Alive
<1> QED BY <1>9, <1>12, <1>14, <1>15 DEF IInv

LEMMA KillInv ==
  ASSUME IInv, NEW t \in Threads, NEW u \in Threads, ThKill(t, u)
  PROVE  IInv'
<1> DEFINE W == {e \in InTable(Table2(u)) : Reqs2(u)[e].obj = u}
<1>1. /\ TypeOK /\ Running(t) /\ Alive(t) /\ u # t
      /\ UNCHANGED <<locked, sem>>
      /\ process' \in {"faulted", "running"} /\ starting' \in SUBSET Threads
  BY ObjectAssumption DEF IInv, Lives, Running, ThKill, TypeOK
<1>2. /\ table' = Table2(u)
      /\ ev' = [Ended(Reqs2(u), W) EXCEPT ![Timer(u)] = NoRequest, ![Req(u)] = NoRequest]
      /\ Enter(t, [Wake(status, W) EXCEPT ![u] = "none"])
      /\ call' = [call EXCEPT ![u] = "none"]
  BY DEF ThKill, Table2, Reqs2
<1>3. /\ Indexed(Table2(u), Reqs2(u))
      /\ InTable(Table2(u)) = InTable(table) \ {Timer(u), Req(u)}
      /\ \A e \in EventIds : SameRequest(Reqs2(u)[e], ev[e])
  BY DroppingBoth
<1>4. W \subseteq InTable(table') /\ W \subseteq InTable(table)
      /\ W \subseteq EventIds
  BY <1>2, <1>3, Owner
<1> HIDE DEF W
<1>5. ASSUME NEW e \in EventIds
      PROVE  /\ Ended(Reqs2(u), W)[e] \in EventReq
             /\ Ended(Reqs2(u), W)[e].obj = Reqs2(u)[e].obj
             /\ Ended(Reqs2(u), W)[e].idx = Reqs2(u)[e].idx
             /\ e \in W => Ended(Reqs2(u), W)[e].status # "INPROC"
             /\ e \notin W => Ended(Reqs2(u), W)[e] = Reqs2(u)[e]
  <2>1. Reqs2(u)[e] \in EventReq
    BY <1>3 DEF Indexed
  <2> QED BY <2>1 DEF Ended, EventReq
<1>6. /\ ev' \in [EventIds -> EventReq]
      /\ \A e \in EventIds : e[1] # u =>
           /\ ev'[e].obj = Reqs2(u)[e].obj /\ ev'[e].idx = Reqs2(u)[e].idx
           /\ e \in W => ev'[e].status # "INPROC"
           /\ e \notin W => ev'[e].status = Reqs2(u)[e].status
  <2>1. Ended(Reqs2(u), W) \in [EventIds -> EventReq]
    BY <1>5 DEF Ended
  <2>2. \A e \in EventIds : e[1] # u => e # Req(u) /\ e # Timer(u)
    BY Ids
  <2>3. \A e \in EventIds : e[1] # u => ev'[e] = Ended(Reqs2(u), W)[e]
    BY <1>2, <2>1, <2>2
  <2>4. ev' \in [EventIds -> EventReq]
    BY <1>2, <2>1, NoRequestType
  <2> QED BY <1>5, <2>3, <2>4
<1>7. /\ Wake(status, W) \in [Threads -> Statuses]
      /\ \A v \in Threads :
           Wake(status, W)[v] = IF \E e \in W : e[1] = v THEN "RUNNABLE" ELSE status[v]
  BY <1>1, WakeStatus DEF TypeOK
<1> DEFINE st == [Wake(status, W) EXCEPT ![u] = "none"]
<1>8. /\ st \in [Threads -> Statuses] /\ st[u] = "none"
      /\ \A v \in Threads \ {u} : st[v] = Wake(status, W)[v]
  BY <1>7 DEF Statuses
<1>9. Enter(t, st)
  BY <1>2
<1> HIDE DEF st
<1>10. /\ status' \in [Threads -> Statuses]
       /\ current' \in {t, None}
       /\ \A v \in Threads \ {t} : status'[v] = st[v]
       /\ status'[t] = "EXECUTING" => current' = t
       /\ status'[t] = "none" <=> st[t] = "none"
  BY <1>8, <1>9, EnterStatus
<1>11. /\ call' \in [Threads -> {"none", "get", "wait", "enter", "multi"}]
       /\ \A v \in Threads \ {u} : call'[v] = call[v]
       /\ call'[u] = "none"
  BY <1>1, <1>2 DEF TypeOK
<1>12. TypeOK'
  <2>1. table' \in Seq(EventIds) /\ Len(table') <= MaxEvents
    BY <1>2, <1>3 DEF Indexed
  <2> QED BY <1>1, <1>6, <1>10, <1>11, <2>1 DEF TypeOK
<1>13. TableExact' /\ Answered'
  <2>1. ASSUME NEW v \in Threads \ {u}, InWait(v)
        PROVE  \/ /\ status'[v] = status[v]
                  /\ \A e \in EventIds : e[1] = v => ev'[e].status = Reqs2(u)[e].status
               \/ /\ status'[v] = "RUNNABLE"
                  /\ \E e \in InTable(table') : e[1] = v /\ ev'[e].status # "INPROC"
    <3>1. v # t /\ status'[v] = Wake(status, W)[v]
      BY <1>1, <1>8, <1>10, <2>1 DEF Running, InWait
    <3>2. CASE \E e \in W : e[1] = v
      BY <1>4, <1>6, <1>7, <3>1, <3>2
    <3>3. CASE ~ \E e \in W : e[1] = v
      BY <1>6, <1>7, <3>1, <3>3
    <3> QED BY <3>2, <3>3
  <2>2. \A e \in EventIds : e[1] # u =>
          ev'[e].obj = Reqs2(u)[e].obj /\ ev'[e].idx = Reqs2(u)[e].idx
    BY <1>6
  <2>3. Indexed(table', Reqs2(u)) /\ InTable(table') = InTable(table) \ {Timer(u), Req(u)}
    BY <1>2, <1>3
  <2> QED BY <1>3, <1>11, <2>1, <2>2, <2>3, LeaveStep
<1>14. OneRunner'
  <2>1. \A v \in Threads : status[v] = "EXECUTING" => v = t
    BY <1>1 DEF IInv, OneRunner, Running
  <2>2. \A v \in Threads : status'[v] = "EXECUTING" => current' = v
    BY <1>7, <1>8, <1>10, <2>1
  <2> QED BY <1>1, <1>10, <2>2 DEF IInv, OneRunner, Running
<1>15. Lives'
  <2>1. \A v \in Threads \ {u} : Alive(v) => status'[v] # "none"
    BY <1>7, <1>8, <1>10 DEF Alive
  <2> QED BY <1>1, <1>10, <1>11, <2>1 DEF IInv, Lives, Alive
<1> QED BY <1>12, <1>13, <1>14, <1>15 DEF IInv

-----------------------------------------------------------------------------
(***************************************************************************)
(* The initial state and every step.                                       *)
(***************************************************************************)
LEMMA InitInv == Init => IInv
<1> SUFFICES ASSUME Init PROVE IInv
  OBVIOUS
<1>1. TypeOK
  <2>1. table \in Seq(EventIds) /\ Len(table) <= MaxEvents
    BY BoundAssumption DEF Init
  <2>2. ev \in [EventIds -> EventReq]
    BY NoRequestType DEF Init
  <2>3. sem \in [Sems -> [state : {"free", "open", "closing"}, count : 0..MaxCount]]
    BY BoundAssumption DEF Init
  <2> QED BY <2>1, <2>2, <2>3 DEF Init, TypeOK, Statuses
<1>2. \A t \in Threads : call[t] = "none" /\ ~InWait(t) /\ RequestsOf(t) = {}
  BY Ids DEF Init, InWait, RequestsOf
<1>3. TableExact
  <2>1. \A e \in EventIds : e[1] \in Threads
    BY DEF EventIds
  <2>2. DOMAIN table = {}
    BY DEF Init
  <2> QED BY <1>2, <2>1, <2>2 DEF TableExact, InTable
<1>4. Answered
  BY <1>2 DEF Answered
<1>5. OneRunner /\ Lives
  <2>1. \A u \in Threads : status[u] # "EXECUTING"
    BY DEF Init
  <2> QED BY <1>2, <2>1 DEF Init, OneRunner, Lives
<1> QED BY <1>1, <1>3, <1>4, <1>5 DEF IInv

LEMMA NextInv == IInv /\ [Next]_vars => IInv'
<1> SUFFICES ASSUME IInv, [Next]_vars PROVE IInv'
  OBVIOUS
<1>1. CASE UNCHANGED vars
  <2>1. TypeOK' /\ TableExact' /\ Answered' /\ OneRunner' /\ Lives'
    BY <1>1 DEF vars, IInv, TypeOK, TableExact, RequestsOf, Answered, InWait,
                OneRunner, Lives, Alive
  <2> QED BY <2>1 DEF IInv
<1>2. ASSUME NEW t \in Threads, ThreadStep(t) PROVE IInv'
  BY <1>2, CreateInv, YieldInv, ExitInv, KillInv, LockInv DEF ThreadStep
<1>3. ASSUME NEW t \in Threads, SemStep(t) PROVE IInv'
  BY <1>3, CreateSemInv, DestroyInv, PostInv, GetInv, GetBlockInv, GetFullInv DEF SemStep
<1>4. ASSUME NEW t \in Threads, WaitStep(t) PROVE IInv'
  <2>1. ASSUME NEW o \in Objects, NEW type \in TypesOf(o), NEW n \in LensOf(o)
        PROVE  type \in EventTypes /\ n \in 1..MaxReq /\ o \in Objects \cup {None}
    BY BoundAssumption DEF TypesOf, EventTypes, LensOf
  <2>2. "MT_TIMER" \in EventTypes /\ 1 \in 1..MaxReq /\ None \in Objects \cup {None}
    BY BoundAssumption DEF EventTypes
  <2> QED BY <1>4, <2>1, <2>2, WaitReadyInv, WaitBlockInv, MultiWaitInv DEF WaitStep
<1>5. ASSUME NEW t \in Threads, Return(t) PROVE IInv'
  BY <1>5, ReturnGetInv, ReturnWaitInv, MultiBlockInv, MultiFullInv, ReturnMultiInv DEF Return
<1>6. ASSUME NEW t \in Threads, Dispatch(t) \/ DispatchEarly(t) PROVE IInv'
  BY <1>6, DispatchInv, DispatchEarlyInv
<1> QED BY <1>1, <1>2, <1>3, <1>4, <1>5, <1>6 DEF Next

(***************************************************************************)
(* The conjunction the other results follow from: which requests are in    *)
(* the table cannot be shown without the statuses, nor either without the  *)
(* indexes, so the parts are preserved together or not at all.             *)
(***************************************************************************)
THEOREM Inductive == Spec => []IInv
<1>1. Init => IInv
  BY InitInv
<1>2. IInv /\ [Next]_vars => IInv'
  BY NextInv
<1> QED BY <1>1, <1>2, PTL DEF Spec

(***************************************************************************)
(* No call drives a count below zero or past its bound, and the wait table *)
(* never outgrows MT_MAX_EVENTS.                                           *)
(***************************************************************************)
THEOREM TypeCorrect == Spec => []TypeOK
<1>1. IInv => TypeOK
  BY DEF IInv
<1> QED BY <1>1, Inductive, PTL

(***************************************************************************)
(* The event wait table holds exactly the waiting threads' requests, with  *)
(* right indexes, in every run of the kernel (evAdd, evRemoveIdx, thKill). *)
(***************************************************************************)
THEOREM WaitTableExact == Spec => []TableExact
<1>1. IInv => TableExact
  BY DEF IInv
<1> QED BY <1>1, Inductive, PTL

(***************************************************************************)
(* No answered request leaves its thread BLOCKED, nothing else wakes a     *)
(* waiting thread, and a syGetSem or thWait resumes only with an answer.   *)
(***************************************************************************)
THEOREM WaitersAnswered == Spec => []Answered
<1>1. IInv => Answered
  BY DEF IInv
<1> QED BY <1>1, Inductive, PTL

(***************************************************************************)
(* At most one thread is EXECUTING, and under thLock only the locking one. *)
(***************************************************************************)
THEOREM SingleRunner == Spec => []OneRunner
<1>1. IInv => OneRunner
  BY DEF IInv
<1> QED BY <1>1, Inductive, PTL

(***************************************************************************)
(* Both together: the statuses of the threads always agree with who is     *)
(* current and with the wait table.                                        *)
(***************************************************************************)
THEOREM StatusesAgree == Spec => []StatusExact
<1>1. IInv => StatusExact
  BY DEF IInv, StatusExact
<1> QED BY <1>1, Inductive, PTL

-----------------------------------------------------------------------------
(***************************************************************************)
(* syGetSem and thWait never go on waiting for an object that was freed.   *)
(***************************************************************************)
Fresh ==
  \A t \in Threads : call[t] \in {"get", "wait"} =>
    /\ ev[Req(t)].obj \in Objects
    /\ ev[Req(t)].status = "INPROC" => Exists(ev[Req(t)].obj)

\* Objects that exist and are waited for in this way remain.
Remains ==
  /\ \A u \in Threads : Alive(u) => Alive(u)'
  /\ \A s \in Sems : sem[s].state # "free" => sem'[s].state # "free"

\* Thread u's wait goes on as it was, is answered, is for an object that
\* exists, or is over.
WaitFine(u) ==
  \/ /\ call'[u] = call[u] /\ ev'[Req(u)].obj = ev[Req(u)].obj
     /\ ev'[Req(u)].status = "INPROC" => ev[Req(u)].status = "INPROC"
  \/ ev'[Req(u)].obj \in Objects /\ Exists(ev[Req(u)].obj)'
  \/ call'[u] \notin {"get", "wait"}

LEMMA RemainingFresh ==
  ASSUME Fresh, Remains, \A u \in Threads : WaitFine(u)
  PROVE  Fresh'
<1>1. \A o \in Objects : Exists(o) => Exists(o)'
  BY DEF Remains, Exists, Objects
<1> QED BY <1>1 DEF Fresh, WaitFine

LEMMA EnterAlive ==
  ASSUME NEW t \in Threads, NEW st \in [Threads -> Statuses], Enter(t, st)
  PROVE  \A u \in Threads : st[u] # "none" => Alive(u)'
BY EnterStatus DEF Alive

\* The calls that touch no request.
LEMMA QuietFresh ==
  ASSUME IInv, Fresh, NEW t \in Threads, UNCHANGED <<ev, call>>,
         \/ \E u \in Threads : ThCreate(t, u)
         \/ ThYield(t) \/ ThLock(t) \/ ThUnlock(t)
         \/ \E s \in Sems, n \in Nat :
              SyCreateSem(t, s, n) \/ SyGetSemAvailable(t, s, n) \/ SyGetSemFull(t, s, n)
         \/ \E o \in Objects : \E type \in TypesOf(o) : ThWaitReady(t, o, type)
  PROVE  Fresh'
<1>1. /\ status \in [Threads -> Statuses] /\ Alive(t)
      /\ sem \in [Sems -> [state : {"free", "open", "closing"}, count : 0..MaxCount]]
  BY ObjectAssumption
     DEF IInv, TypeOK, Lives, Running, ThCreate, ThYield, ThLock, ThUnlock,
         SyCreateSem, SyGetSemAvailable, SyGetSemFull, ThWaitReady
<1>2. \A u \in Threads : Alive(u) => Alive(u)'
  <2>1. CASE Enter(t, status)
    BY <1>1, <2>1, EnterAlive DEF Alive
  <2>2. CASE \E u \in Threads : ThCreate(t, u)
    <3>1. PICK u \in Threads : ThCreate(t, u)
      BY <2>2
    <3> DEFINE st == [status EXCEPT ![u] = "RUNNABLE"]
    <3>2. /\ st \in [Threads -> Statuses] /\ Enter(t, st)
          /\ \A v \in Threads : status[v] # "none" => st[v] # "none"
      BY <1>1, <3>1 DEF ThCreate, Statuses
    <3> HIDE DEF st
    <3> QED BY <3>2, EnterAlive DEF Alive
  <2>3. CASE ThYield(t)
    <3> DEFINE st == [status EXCEPT ![t] = "RUNNABLE"]
    <3>1. /\ st \in [Threads -> Statuses] /\ Enter(t, st)
          /\ \A v \in Threads : status[v] # "none" => st[v] # "none"
      BY <1>1, <2>3 DEF ThYield, Statuses
    <3> HIDE DEF st
    <3> QED BY <3>1, EnterAlive DEF Alive
  <2>4. CASE status' = status \/ status' = [status EXCEPT ![t] = "BLOCKED"]
    BY <1>1, <2>4 DEF Alive, Statuses
  <2> QED BY <2>1, <2>2, <2>3, <2>4
          DEF ThLock, ThUnlock, SyCreateSem, SyGetSemAvailable, SyGetSemFull, ThWaitReady
<1>3. \A s \in Sems : sem[s].state # "free" => sem'[s].state # "free"
  <2>1. \/ UNCHANGED sem
        \/ \E s \in Sems, n \in Nat : SyCreateSem(t, s, n) \/ SyGetSemAvailable(t, s, n)
        \/ \E o \in Objects : sem' = AfterCheck(o)
    BY DEF ThCreate, ThYield, ThLock, ThUnlock, SyGetSemFull, ThWaitReady
  <2> QED BY <1>1, <2>1 DEF SyCreateSem, SyGetSemAvailable, AfterCheck
<1>4. \A u \in Threads : WaitFine(u)
  BY DEF WaitFine
<1> QED BY <1>2, <1>3, <1>4, RemainingFresh DEF Remains

\* The calls that enter, change or leave the caller's own wait.
LEMMA OwnFresh ==
  ASSUME IInv, Fresh, NEW t \in Threads,
         \A u \in Threads : Alive(u) => Alive(u)',
         \A s \in Sems : sem[s].state # "free" => sem'[s].state # "free",
         \A u \in Threads \ {t} : /\ call'[u] = call[u]
                                  /\ SameRequest(ev'[Req(u)], ev[Req(u)]),
         \/ call'[t] \notin {"get", "wait"}
         \/ ev'[Req(t)].obj \in Objects /\ Exists(ev[Req(t)].obj)'
  PROVE  Fresh'
<1>1. \A u \in Threads : WaitFine(u)
  BY DEF WaitFine, SameRequest
<1> QED BY <1>1, RemainingFresh DEF Remains

LEMMA BlockFresh ==
  ASSUME IInv, Fresh, NEW t \in Threads, Running(t),
         NEW o \in Objects, Exists(o), NEW type, NEW n, NEW c \in {"get", "wait"},
         ev' = [ev EXCEPT ![Req(t)] = Request(o, type, n, Len(table) + 1)],
         call' = [call EXCEPT ![t] = c],
         Enter(t, [status EXCEPT ![t] = "BLOCKED"]), UNCHANGED sem
  PROVE  Fresh'
<1> DEFINE st == [status EXCEPT ![t] = "BLOCKED"]
<1>1. TypeOK /\ Alive(t)
  BY ObjectAssumption DEF IInv, Lives, Running
<1>2. /\ st \in [Threads -> Statuses] /\ Enter(t, st)
      /\ \A v \in Threads : status[v] # "none" => st[v] # "none"
  BY <1>1 DEF TypeOK, Statuses
<1> HIDE DEF st
<1>3. \A u \in Threads : Alive(u) => Alive(u)'
  BY <1>2, EnterAlive DEF Alive
<1>4. Req(t) \in EventIds /\ \A u \in Threads \ {t} : Req(u) # Req(t)
  BY DEF Req, EventIds
<1>5. ev'[Req(t)].obj = o
  BY <1>1, <1>4 DEF TypeOK, Request
<1>6. Exists(ev[Req(t)].obj)'
  BY <1>3, <1>5 DEF Exists, Objects
<1>7. \A u \in Threads \ {t} : call'[u] = call[u] /\ SameRequest(ev'[Req(u)], ev[Req(u)])
  BY <1>1, <1>4 DEF TypeOK, SameRequest
<1> QED BY <1>3, <1>5, <1>6, <1>7, OwnFresh

LEMMA ReqReturned ==
  ASSUME IInv, NEW t \in Threads, NEW x,
         ev' = [Renumber(ev, Shift(table, ev[Req(t)].idx), ev[Req(t)].idx)
                  EXCEPT ![Req(t)] = x],
         call[t] \in {"get", "wait"}
  PROVE  \A u \in Threads \ {t} : SameRequest(ev'[Req(u)], ev[Req(u)])
<1>1. Req(t) \in InTable(table)
  BY Ids DEF IInv, TableExact, RequestsOf, Req, Timer
<1>2. ev[Req(t)].idx \in DOMAIN table
  BY <1>1 DEF IInv, TableExact, InTable
<1>3. \A e \in EventIds :
        SameRequest(Renumber(ev, Shift(table, ev[Req(t)].idx), ev[Req(t)].idx)[e], ev[e])
  BY <1>2, InvIndexed, RenumberIndexes
<1>4. \A u \in Threads \ {t} : Req(u) \in EventIds /\ Req(u) # Req(t)
  BY DEF Req, EventIds
<1> QED BY <1>3, <1>4 DEF Renumber

\* What a resumed thread does before its call returns leaves the other
\* threads' requests as they were.
LEMMA ReturnOthers ==
  ASSUME IInv, NEW t \in Threads, Return(t)
  PROVE  /\ \A u \in Threads \ {t} :
              call'[u] = call[u] /\ SameRequest(ev'[Req(u)], ev[Req(u)])
         /\ call'[t] \notin {"get", "wait"}
<1>1. TypeOK
  BY DEF IInv
<1>4. /\ \A u \in Threads \ {t} : call'[u] = call[u]
      /\ call'[t] \notin {"get", "wait"}
  BY <1>1 DEF Return, ReturnGet, ReturnWait, MultiBlock, MultiFull, ReturnMulti, TypeOK
<1>5. \A u \in Threads \ {t} : Req(u) \in EventIds /\ Req(u) # Req(t) /\ Req(u) # Timer(t)
  BY DEF Req, Timer, EventIds
<1>6. \A u \in Threads \ {t} : SameRequest(ev'[Req(u)], ev[Req(u)])
  <2>1. CASE ReturnGet(t) \/ ReturnWait(t)
    BY <2>1, ReqReturned DEF ReturnGet, ReturnWait
  <2>2. CASE MultiBlock(t) \/ MultiFull(t)
    BY <1>1, <1>5, <2>2 DEF MultiBlock, MultiFull, TypeOK, SameRequest
  <2>3. CASE ReturnMulti(t)
    <3>1. Timer(t) \in InTable(table)
      BY <2>3, Ids DEF IInv, TableExact, RequestsOf, ReturnMulti, Timer
    <3> DEFINE i  == ev[Timer(t)].idx
               q  == Shift(table, i)
               r  == Renumber(ev, q, i)
               k  == r[Req(t)].idx
               q2 == IF ev[Req(t)].obj = None THEN q ELSE Shift(q, k)
               r2 == IF ev[Req(t)].obj = None THEN r ELSE Renumber(r, q2, k)
    <3>2. \A u \in Threads \ {t} : ev'[Req(u)] = r2[Req(u)]
      <4>1. r2 = [e \in EventIds |-> r2[e]]
        BY DEF Renumber
      <4> QED BY <1>5, <2>3, <4>1 DEF ReturnMulti
    <3>3. i \in DOMAIN table /\ table[i] = Timer(t)
      BY <3>1 DEF IInv, TableExact, InTable
    <3>4. /\ Indexed(q, r) /\ InTable(q) = InTable(table) \ {Timer(t)}
          /\ \A e \in EventIds : SameRequest(r[e], ev[e])
      BY <3>3, InvIndexed, ShiftRemoves, RenumberIndexes
    <3> HIDE DEF q, r
    <3>5. \A e \in EventIds : SameRequest(r2[e], r[e])
      <4>1. CASE ev[Req(t)].obj = None
        BY <4>1 DEF SameRequest
      <4>2. CASE ev[Req(t)].obj # None
        <5>1. Req(t) \in InTable(table)
          BY <2>3, <4>2, Ids DEF IInv, TableExact, RequestsOf, ReturnMulti, Req
        <5>2. Req(t) \in InTable(q)
          BY <3>4, <5>1, Ids
        <5>3. k \in DOMAIN q
          BY <3>4, <5>2 DEF Indexed, InTable
        <5> QED BY <3>4, <4>2, <5>3, RenumberIndexes
      <4> QED BY <4>1, <4>2
    <3> HIDE DEF r2
    <3> QED BY <1>5, <3>2, <3>4, <3>5 DEF SameRequest
  <2> QED BY <2>1, <2>2, <2>3 DEF Return
<1> QED BY <1>4, <1>6

LEMMA ReturnFresh ==
  ASSUME IInv, Fresh, NEW t \in Threads, Return(t)
  PROVE  Fresh'
<1>1. TypeOK /\ Alive(t)
  BY ObjectAssumption
     DEF IInv, Lives, Return, ReturnGet, ReturnWait, MultiBlock, MultiFull, ReturnMulti
<1>2. UNCHANGED sem
  BY DEF Return, ReturnGet, ReturnWait, MultiBlock, MultiFull, ReturnMulti
<1>3. \A u \in Threads : Alive(u) => Alive(u)'
  <2>1. CASE MultiBlock(t)
    <3> DEFINE st == [status EXCEPT ![t] = "BLOCKED"]
    <3>1. /\ st \in [Threads -> Statuses] /\ Enter(t, st)
          /\ \A v \in Threads : status[v] # "none" => st[v] # "none"
      BY <1>1, <2>1 DEF MultiBlock, TypeOK, Statuses
    <3> HIDE DEF st
    <3> QED BY <3>1, EnterAlive DEF Alive
  <2>2. CASE UNCHANGED status
    BY <2>2 DEF Alive
  <2> QED BY <2>1, <2>2 DEF Return, ReturnGet, ReturnWait, MultiFull, ReturnMulti
<1> QED BY <1>2, <1>3, ReturnOthers, OwnFresh

LEMMA MultiWaitFresh ==
  ASSUME IInv, Fresh, NEW t \in Threads, NEW o \in Objects \cup {None}, NEW type, NEW n,
         NEW zero \in BOOLEAN, ThMultiWait(t, o, type, n, zero)
  PROVE  Fresh'
<1>1. TypeOK /\ Alive(t)
  BY ObjectAssumption DEF IInv, Lives, Running, ThMultiWait
<1>2. \A u \in Threads : Alive(u) => Alive(u)'
  <2>1. CASE Enter(t, status)
    BY <1>1, <2>1, EnterAlive DEF Alive, TypeOK
  <2>2. CASE UNCHANGED status
    BY <2>2 DEF Alive
  <2> QED BY <2>1, <2>2 DEF ThMultiWait
<1>3. \A s \in Sems : sem[s].state # "free" => sem'[s].state # "free"
  BY <1>1 DEF ThMultiWait, AfterCheck, TypeOK
<1>4. \A u \in Threads \ {t} : Req(u) \in EventIds /\ Req(u) # Req(t)
  BY DEF Req, EventIds
<1>5. \A u \in Threads \ {t} : call'[u] = call[u] /\ SameRequest(ev'[Req(u)], ev[Req(u)])
  BY <1>1, <1>4 DEF ThMultiWait, TypeOK, SameRequest
<1>6. call'[t] \notin {"get", "wait"}
  BY <1>1 DEF ThMultiWait, TypeOK
<1> QED BY <1>2, <1>3, <1>5, <1>6, OwnFresh

LEMMA AnswerFresh ==
  ASSUME IInv, Fresh, NEW E, NEW code \in {"COMPLETE", "ERROR"},
         ev' = Answer(E, code), UNCHANGED call, Remains
  PROVE  Fresh'
<1>1. \A u \in Threads : Req(u) \in EventIds /\ ev[Req(u)] \in EventReq
  BY Ids DEF IInv, TypeOK
<1>2. \A u \in Threads : WaitFine(u)
  BY <1>1 DEF WaitFine, Answer, EventReq
<1> QED BY <1>2, RemainingFresh

LEMMA PostFresh ==
  ASSUME IInv, Fresh, NEW t \in Threads, NEW s \in Sems, NEW n \in 1..MaxReq,
         SyPostSem(t, s, n)
  PROVE  Fresh'
<1>1. TypeOK /\ UNCHANGED call
  BY DEF IInv, SyPostSem
<1>2. PICK left \in [0..Len(table) -> 0..(sem[s].count + n)] :
        LET G == {e \in InTable(table) :
                    \E i \in DOMAIN table : table[i] = e /\ Grants(s, i, left[i - 1])}
        IN /\ ev' = Answer(G, "COMPLETE")
           /\ Enter(t, Wake(status, G))
           /\ sem' = [sem EXCEPT ![s].count = left[Len(table)]]
  BY DEF SyPostSem
<1> DEFINE G == {e \in InTable(table) :
                   \E i \in DOMAIN table : table[i] = e /\ Grants(s, i, left[i - 1])}
<1>3. ev' = Answer(G, "COMPLETE") /\ Enter(t, Wake(status, G))
  BY <1>2
<1> HIDE DEF G
<1>4. /\ Wake(status, G) \in [Threads -> Statuses]
      /\ \A v \in Threads : status[v] # "none" => Wake(status, G)[v] # "none"
  BY <1>1 DEF TypeOK, Wake, Statuses
<1>5. Remains
  <2>1. \A u \in Threads : Alive(u) => Alive(u)'
    BY <1>3, <1>4, EnterAlive DEF Alive
  <2>2. \A r \in Sems : sem[r].state # "free" => sem'[r].state # "free"
    BY <1>1, <1>2 DEF TypeOK
  <2> QED BY <2>1, <2>2 DEF Remains
<1> QED BY <1>1, <1>3, <1>5, AnswerFresh

LEMMA DispatchFresh ==
  ASSUME IInv, Fresh, NEW t \in Threads, Dispatch(t) \/ DispatchEarly(t)
  PROVE  Fresh'
<1>1. TypeOK /\ UNCHANGED <<call, sem>>
  BY DEF IInv, Dispatch, DispatchEarly
<1>2. PICK E : ev' = Answer(E, "COMPLETE")
  BY DEF Dispatch, DispatchEarly
<1>3. \A u \in Threads : Alive(u) => Alive(u)'
  BY <1>1 DEF Dispatch, DispatchEarly, Wake, Alive, TypeOK
<1> QED BY <1>1, <1>2, <1>3, AnswerFresh DEF Remains

(***************************************************************************)
(* The calls that free an object.                                          *)
(***************************************************************************)
LEMMA FreedFresh ==
  ASSUME IInv, Fresh, NEW gone \in Objects, call' \in [Threads -> {"none", "get", "wait", "enter", "multi"}],
         \A o \in Objects \ {gone} : Exists(o) => Exists(o)',
         \A u \in Threads : call'[u] \in {"get", "wait"} =>
           /\ call'[u] = call[u] /\ ev'[Req(u)].obj = ev[Req(u)].obj
           /\ ev'[Req(u)].status = "INPROC" => ev[Req(u)].status = "INPROC"
           /\ ev[Req(u)].obj = gone => ev'[Req(u)].status # "INPROC"
  PROVE  Fresh'
BY DEF Fresh

LEMMA InTableWhileWaiting ==
  ASSUME IInv, NEW u \in Threads, call[u] \in {"get", "wait"}
  PROVE  Req(u) \in InTable(table) /\ Req(u) \in EventIds /\ ev[Req(u)] \in EventReq
BY Ids DEF IInv, TypeOK, TableExact, RequestsOf, Req, Timer

LEMMA ExitFresh ==
  ASSUME IInv, Fresh, NEW t \in Threads, ThExit(t)
  PROVE  Fresh'
<1>1. TypeOK /\ UNCHANGED <<call, sem>> /\ ev' = Ended(ev, Waiting(t))
      /\ status' = [Wake(status, Waiting(t)) EXCEPT ![t] = "none"]
  BY DEF IInv, ThExit
<1>2. \A o \in Objects \ {t} : Exists(o) => Exists(o)'
  BY <1>1 DEF Exists, Objects, Alive, Wake, TypeOK
<1>3. ASSUME NEW u \in Threads, call'[u] \in {"get", "wait"}
      PROVE  /\ call'[u] = call[u] /\ ev'[Req(u)].obj = ev[Req(u)].obj
             /\ ev'[Req(u)].status = "INPROC" => ev[Req(u)].status = "INPROC"
             /\ ev[Req(u)].obj = t => ev'[Req(u)].status # "INPROC"
  <2>1. Req(u) \in InTable(table) /\ Req(u) \in EventIds /\ ev[Req(u)] \in EventReq
    BY <1>1, <1>3, InTableWhileWaiting
  <2> QED BY <1>1, <2>1 DEF Ended, Waiting, EventReq
<1>4. call' \in [Threads -> {"none", "get", "wait", "enter", "multi"}] /\ t \in Objects
  BY <1>1 DEF TypeOK, Objects
<1> QED BY <1>2, <1>3, <1>4, FreedFresh

LEMMA DestroyFresh ==
  ASSUME IInv, Fresh, NEW t \in Threads, NEW s \in Sems, NEW hard \in BOOLEAN,
         SyDestroySem(t, s, hard)
  PROVE  Fresh'
<1> DEFINE E == IF hard THEN Waiting(s) ELSE {}
<1>1. TypeOK /\ UNCHANGED call /\ ev' = Answer(E, "ERROR") /\ status' = Wake(status, E)
  BY DEF IInv, SyDestroySem
<1>2. ASSUME NEW o \in Objects \ {s} PROVE Exists(o) => Exists(o)'
  BY <1>1 DEF SyDestroySem, Exists, Objects, Alive, Wake, TypeOK
<1>3. \/ Waiting(s) \subseteq E
      \/ Exists(s)'
  BY <1>1 DEF SyDestroySem, Exists, TypeOK
<1>4. ASSUME NEW u \in Threads, call[u] \in {"get", "wait"}
      PROVE  /\ ev'[Req(u)].obj = ev[Req(u)].obj
             /\ ev'[Req(u)].status = "INPROC" => ev[Req(u)].status = "INPROC"
             /\ ev[Req(u)].obj = s /\ Waiting(s) \subseteq E => ev'[Req(u)].status # "INPROC"
  <2>1. Req(u) \in InTable(table) /\ Req(u) \in EventIds /\ ev[Req(u)] \in EventReq
    BY <1>4, InTableWhileWaiting
  <2> HIDE DEF E
  <2> QED BY <1>1, <2>1 DEF Answer, Waiting, EventReq
<1>5. CASE Waiting(s) \subseteq E
  <2>1. call' \in [Threads -> {"none", "get", "wait", "enter", "multi"}] /\ s \in Objects
    BY <1>1 DEF TypeOK, Objects
  <2> HIDE DEF E
  <2> QED BY <1>1, <1>2, <1>4, <1>5, <2>1, FreedFresh
<1>6. CASE Exists(s)'
  <2>1. \A o \in Objects : Exists(o) => Exists(o)'
    BY <1>2, <1>6
  <2> HIDE DEF E
  <2> QED BY <1>1, <1>4, <2>1 DEF Fresh
<1> QED BY <1>3, <1>5, <1>6

LEMMA KillFresh ==
  ASSUME IInv, Fresh, NEW t \in Threads, NEW u \in Threads, ThKill(t, u)
  PROVE  Fresh'
<1> DEFINE W == {e \in InTable(Table2(u)) : Reqs2(u)[e].obj = u}
           st == [Wake(status, W) EXCEPT ![u] = "none"]
<1>1. /\ TypeOK /\ UNCHANGED sem
      /\ ev' = [Ended(Reqs2(u), W) EXCEPT ![Timer(u)] = NoRequest, ![Req(u)] = NoRequest]
      /\ Enter(t, st)
      /\ call' = [call EXCEPT ![u] = "none"]
  BY DEF ThKill, Table2, Reqs2, IInv
<1>2. /\ InTable(Table2(u)) = InTable(table) \ {Timer(u), Req(u)}
      /\ \A e \in EventIds : SameRequest(Reqs2(u)[e], ev[e])
      /\ Reqs2(u) \in [EventIds -> EventReq]
  BY DroppingBoth DEF Indexed
<1>3. \A o \in Objects \ {u} : Exists(o) => Exists(o)'
  <2> HIDE DEF W
  <2>1. /\ st \in [Threads -> Statuses]
        /\ \A v \in Threads \ {u} : status[v] # "none" => st[v] # "none"
    BY <1>1 DEF TypeOK, Wake, Statuses
  <2> HIDE DEF st
  <2>2. \A v \in Threads \ {u} : Alive(v) => Alive(v)'
    BY <1>1, <2>1, EnterAlive DEF Alive
  <2> QED BY <1>1, <2>2 DEF Exists, Objects
<1>4. ASSUME NEW v \in Threads, call'[v] \in {"get", "wait"}
      PROVE  /\ call'[v] = call[v] /\ ev'[Req(v)].obj = ev[Req(v)].obj
             /\ ev'[Req(v)].status = "INPROC" => ev[Req(v)].status = "INPROC"
             /\ ev[Req(v)].obj = u => ev'[Req(v)].status # "INPROC"
  <2>1. v # u /\ call'[v] = call[v]
    BY <1>1, <1>4 DEF TypeOK
  <2>2. Req(v) \in InTable(table) /\ Req(v) \in EventIds /\ Reqs2(u)[Req(v)] \in EventReq
    BY <1>2, <1>4, <2>1, InTableWhileWaiting
  <2>3. Req(v) # Req(u) /\ Req(v) # Timer(u)
    BY <2>1 DEF Req, Timer
  <2>4. ev[Req(v)].obj = u => Req(v) \in W
    BY <1>2, <2>2, <2>3 DEF SameRequest
  <2> HIDE DEF W
  <2>5. ev'[Req(v)] = Ended(Reqs2(u), W)[Req(v)]
    BY <1>1, <2>2, <2>3 DEF Ended
  <2>6. SameRequest(Reqs2(u)[Req(v)], ev[Req(v)])
    BY <1>2, <2>2
  <2> QED BY <2>1, <2>2, <2>4, <2>5, <2>6 DEF Ended, EventReq, SameRequest
<1>5. call' \in [Threads -> {"none", "get", "wait", "enter", "multi"}] /\ u \in Objects
  BY <1>1 DEF TypeOK, Objects
<1> HIDE DEF W, st
<1> QED BY <1>3, <1>4, <1>5, FreedFresh

LEMMA InitFresh == Init => Fresh
BY DEF Init, Fresh

LEMMA NextFresh == IInv /\ Fresh /\ [Next]_vars => Fresh'
<1> SUFFICES ASSUME IInv, Fresh, [Next]_vars PROVE Fresh'
  OBVIOUS
<1>1. CASE UNCHANGED vars
  BY <1>1 DEF vars, Fresh, Exists, Alive
<1>2. ASSUME NEW t \in Threads, ThreadStep(t) PROVE Fresh'
  <2>1. CASE \/ \E u \in Threads : ThCreate(t, u)
             \/ ThYield(t) \/ ThLock(t) \/ ThUnlock(t)
    <3>1. UNCHANGED <<ev, call>>
      BY <2>1 DEF ThCreate, ThYield, ThLock, ThUnlock
    <3> QED BY <2>1, <3>1, QuietFresh
  <2> QED BY <1>2, <2>1, ExitFresh, KillFresh DEF ThreadStep
<1>3. ASSUME NEW t \in Threads, SemStep(t) PROVE Fresh'
  <2>1. ASSUME NEW s \in Sems, NEW n \in Nat,
               SyCreateSem(t, s, n) \/ SyGetSemAvailable(t, s, n) \/ SyGetSemFull(t, s, n)
        PROVE  Fresh'
    <3>1. UNCHANGED <<ev, call>>
      BY <2>1 DEF SyCreateSem, SyGetSemAvailable, SyGetSemFull
    <3> QED BY <2>1, <3>1, QuietFresh
  <2>2. ASSUME NEW s \in Sems, NEW n \in 1..MaxReq, SyGetSemBlock(t, s, n)
        PROVE  Fresh'
    <3>1. s \in Objects /\ Exists(s)
      BY <2>2 DEF SyGetSemBlock, Objects, Exists
    <3> QED BY <2>2, <3>1, BlockFresh DEF SyGetSemBlock
  <2>3. 0..MaxCount \subseteq Nat /\ 1..MaxReq \subseteq Nat
    BY BoundAssumption
  <2> QED BY <1>3, <2>1, <2>2, <2>3, DestroyFresh, PostFresh DEF SemStep
<1>4. ASSUME NEW t \in Threads, WaitStep(t) PROVE Fresh'
  <2>1. ASSUME NEW o \in Objects, NEW type \in TypesOf(o), ThWaitReady(t, o, type)
        PROVE  Fresh'
    <3>1. UNCHANGED <<ev, call>>
      BY <2>1 DEF ThWaitReady
    <3> QED BY <2>1, <3>1, QuietFresh
  <2>2. ASSUME NEW o \in Objects, NEW type, NEW n, ThWaitBlock(t, o, type, n)
        PROVE  Fresh'
    BY <2>2, BlockFresh DEF ThWaitBlock
  <2>3. ASSUME NEW o \in Objects \cup {None}, NEW type, NEW n, NEW zero \in BOOLEAN,
               ThMultiWait(t, o, type, n, zero)
        PROVE  Fresh'
    BY <2>3, MultiWaitFresh
  <2> QED BY <1>4, <2>1, <2>2, <2>3 DEF WaitStep
<1>5. ASSUME NEW t \in Threads, Return(t) \/ Dispatch(t) \/ DispatchEarly(t)
      PROVE  Fresh'
  BY <1>5, ReturnFresh, DispatchFresh
<1> QED BY <1>1, <1>2, <1>3, <1>4, <1>5 DEF Next

(***************************************************************************)
(* A waiter in syGetSem or thWait whose object was destroyed (thExit,      *)
(* thKill, syDestroySem) has always been answered.                         *)
(***************************************************************************)
THEOREM NoWaitOnFreed == Spec => []NoStaleWait
<1>1. Init => IInv /\ Fresh
  BY InitInv, InitFresh
<1>2. (IInv /\ Fresh) /\ [Next]_vars => (IInv /\ Fresh)'
  BY NextInv, NextFresh
<1>3. Fresh => NoStaleWait
  BY DEF Fresh, NoStaleWait
<1> QED BY <1>1, <1>2, <1>3, PTL DEF Spec

-----------------------------------------------------------------------------
(***************************************************************************)
(* What semaphores promise their waiters: no missed wake-up, and oldest    *)
(* first.                                                                  *)
(***************************************************************************)

(***************************************************************************)
(* Every non-empty set of natural numbers has a least element: the form of *)
(* induction the loop of syPostSem is reasoned about with.                 *)
(***************************************************************************)
NatLess == OpToRel(<, Nat)

LEMMA LeastNat ==
  ASSUME NEW T \in SUBSET Nat, T # {}
  PROVE  \E x \in T : \A y \in T : x <= y
<1>1. IsWellFoundedOn(OpToRel(<, Nat), Nat)
  BY NatLessThanWellFounded
<1>2. PICK x \in T : \A y \in T : ~(<<y, x>> \in NatLess)
  BY <1>1, WFMin DEF NatLess
<1>3. \A y \in T : ~(y < x)
  BY <1>2 DEF NatLess, OpToRel
<1> QED BY <1>3

LEMMA Falls ==
  ASSUME NEW n \in Nat, NEW f \in [0..n -> Int],
         \A i \in 1..n : f[i] <= f[i - 1],
         NEW a \in 0..n, NEW b \in 0..n, a <= b
  PROVE  f[b] <= f[a]
<1> DEFINE T == {c \in 0..n : a <= c /\ ~(f[c] <= f[a])}
<1>1. SUFFICES ASSUME T # {} PROVE FALSE
  OBVIOUS
<1>2. PICK c \in T : \A d \in T : c <= d
  <2>1. T \in SUBSET Nat
    OBVIOUS
  <2> HIDE DEF T
  <2> QED BY <1>1, <2>1, LeastNat
<1>3. c \in 0..n /\ a <= c /\ ~(f[c] <= f[a])
  BY <1>2
<1>4. c # a
  BY <1>3
<1>5. c - 1 \in 0..n /\ a <= c - 1 /\ c \in 1..n
  BY <1>3, <1>4
<1>6. f[c - 1] <= f[a]
  BY <1>2, <1>5
<1>7. f[c] <= f[c - 1]
  BY <1>5
<1> QED BY <1>3, <1>5, <1>6, <1>7

(***************************************************************************)
(* The loop of syPostSem gives each request it passes over less than that  *)
(* request asks for, and has no more than that afterwards.                 *)
(***************************************************************************)
PostGives(s, n, left, G) ==
  /\ G \subseteq InTable(table)
  /\ left \in [0..Len(table) -> Int]
  /\ \A a, b \in 0..Len(table) : a <= b => left[b] <= left[a]
  /\ \A i \in DOMAIN table :
       /\ table[i] \in G =>
            ev[table[i]].obj = s /\ ev[table[i]].len <= left[i - 1]
       /\ table[i] \notin G /\ ev[table[i]].obj = s =>
            left[i - 1] < ev[table[i]].len
  /\ ev' = Answer(G, "COMPLETE")
  /\ sem' = [sem EXCEPT ![s].count = left[Len(table)]]

LEMMA PostLoop ==
  ASSUME IInv, NEW t \in Threads, NEW s \in Sems, NEW n \in 1..MaxReq,
         SyPostSem(t, s, n)
  PROVE  \E left, G : PostGives(s, n, left, G)
<1>1. /\ TypeOK /\ Len(table) \in Nat /\ DOMAIN table = 1..Len(table)
      /\ sem[s].count \in Nat /\ n \in Nat
  BY BoundAssumption DEF IInv, TypeOK
<1>2. PICK left \in [0..Len(table) -> 0..(sem[s].count + n)] :
        /\ \A i \in DOMAIN table :
             left[i] = IF Grants(s, i, left[i - 1])
                       THEN left[i - 1] - ev[table[i]].len ELSE left[i - 1]
        /\ LET G == {e \in InTable(table) :
                       \E i \in DOMAIN table : table[i] = e /\ Grants(s, i, left[i - 1])}
           IN /\ ev' = Answer(G, "COMPLETE")
              /\ Enter(t, Wake(status, G))
        /\ sem' = [sem EXCEPT ![s].count = left[Len(table)]]
  BY DEF SyPostSem
<1>3. ASSUME NEW i \in 1..Len(table)
      PROVE  /\ ev[table[i]].len \in Nat \ {0} /\ left[i - 1] \in Int
             /\ table[i] \in InTable(table) /\ i - 1 \in 0..Len(table)
  <2>0. i \in DOMAIN table
    BY <1>1
  <2>1. table[i] \in EventIds /\ table[i] \in InTable(table)
    BY <2>0 DEF IInv, TypeOK, InTable
  <2>2. ev[table[i]].len \in 1..MaxReq
    BY <1>1, <2>1 DEF TypeOK, EventReq
  <2>3. i - 1 \in 0..Len(table)
    BY <1>1
  <2> QED BY <1>1, <2>1, <2>2, <2>3, BoundAssumption
<1> DEFINE G == {e \in InTable(table) :
                   \E i \in DOMAIN table : table[i] = e /\ Grants(s, i, left[i - 1])}
<1>4. left \in [0..Len(table) -> Int] /\ \A i \in 1..Len(table) : left[i] <= left[i - 1]
  <2>1. left \in [0..Len(table) -> Int]
    BY <1>1
  <2> QED BY SMTT(30), <1>1, <1>2, <1>3, <2>1
<1>5. \A a, b \in 0..Len(table) : a <= b => left[b] <= left[a]
  BY <1>1, <1>4, Falls
<1>6. ASSUME NEW i \in DOMAIN table
      PROVE  table[i] \in G <=> Grants(s, i, left[i - 1])
  <2>1. \A j \in DOMAIN table : table[i] = table[j] => i = j
    BY DEF IInv, TableExact
  <2> QED BY <1>1, <1>3, <2>1
<1>7. ASSUME NEW i \in DOMAIN table
      PROVE  /\ table[i] \in G =>
                  ev[table[i]].obj = s /\ ev[table[i]].len <= left[i - 1]
             /\ table[i] \notin G /\ ev[table[i]].obj = s =>
                  left[i - 1] < ev[table[i]].len
  <2> HIDE DEF G
  <2> QED BY <1>1, <1>3, <1>6 DEF Grants
<1>8. G \subseteq InTable(table) /\ ev' = Answer(G, "COMPLETE")
      /\ sem' = [sem EXCEPT ![s].count = left[Len(table)]]
  BY <1>2
<1> HIDE DEF G
<1>9. PostGives(s, n, left, G)
  BY <1>4, <1>5, <1>7, <1>8 DEF PostGives
<1> QED BY <1>9

-----------------------------------------------------------------------------
(***************************************************************************)
(* How a step of the kernel leaves the wait of a thread in syGetSem or     *)
(* thWait: it goes on or is answered, or it begins.                        *)
(***************************************************************************)
GoesOn(u) ==
  /\ call'[u] = call[u]
  /\ ev'[Req(u)].obj = ev[Req(u)].obj /\ ev'[Req(u)].len = ev[Req(u)].len
  /\ ev'[Req(u)].status = "INPROC" => ev[Req(u)].status = "INPROC"

Begins(u) ==
  \/ \E s \in Sems, n \in 1..MaxReq : SyGetSemBlock(u, s, n)
  \/ \E o \in Objects : \E type \in TypesOf(o), n \in LensOf(o) : ThWaitBlock(u, o, type, n)

LEMMA AnsweredGoesOn ==
  ASSUME IInv, NEW E, NEW code \in {"COMPLETE", "ERROR"}, ev' = Answer(E, code),
         UNCHANGED call, NEW u \in Threads
  PROVE  GoesOn(u)
<1>1. Req(u) \in EventIds /\ ev[Req(u)] \in EventReq
  BY Ids DEF IInv, TypeOK
<1> QED BY <1>1 DEF GoesOn, Answer, EventReq

LEMMA KeptGoesOn ==
  ASSUME NEW u \in Threads, call'[u] = call[u], SameRequest(ev'[Req(u)], ev[Req(u)])
  PROVE  GoesOn(u)
BY DEF GoesOn, SameRequest

LEMMA KillGoesOn ==
  ASSUME IInv, NEW t \in Threads, NEW u \in Threads, ThKill(t, u),
         NEW v \in Threads, call'[v] \in {"get", "wait"}
  PROVE  GoesOn(v)
<1> DEFINE W == {e \in InTable(Table2(u)) : Reqs2(u)[e].obj = u}
<1>1. /\ TypeOK
      /\ ev' = [Ended(Reqs2(u), W) EXCEPT ![Timer(u)] = NoRequest, ![Req(u)] = NoRequest]
      /\ call' = [call EXCEPT ![u] = "none"]
  BY DEF ThKill, Table2, Reqs2, IInv
<1> HIDE DEF W
<1>2. /\ \A e \in EventIds : SameRequest(Reqs2(u)[e], ev[e])
      /\ Reqs2(u) \in [EventIds -> EventReq]
  BY DroppingBoth DEF Indexed
<1>3. v # u /\ call'[v] = call[v]
  BY <1>1 DEF TypeOK
<1>4. Req(v) \in EventIds /\ Req(v) # Req(u) /\ Req(v) # Timer(u)
  BY <1>3 DEF Req, Timer, EventIds
<1>5. ev'[Req(v)] = Ended(Reqs2(u), W)[Req(v)]
  BY <1>1, <1>4 DEF Ended
<1>6. SameRequest(Reqs2(u)[Req(v)], ev[Req(v)]) /\ Reqs2(u)[Req(v)] \in EventReq
  BY <1>2, <1>4
<1>7. /\ ev'[Req(v)].obj = Reqs2(u)[Req(v)].obj /\ ev'[Req(v)].len = Reqs2(u)[Req(v)].len
      /\ ev'[Req(v)].status = "INPROC" => Reqs2(u)[Req(v)].status = "INPROC"
  BY <1>4, <1>5, <1>6 DEF Ended, EventReq
<1> QED BY <1>3, <1>6, <1>7 DEF GoesOn, SameRequest

LEMMA StepWaits ==
  ASSUME IInv, [Next]_vars, NEW u \in Threads, call'[u] \in {"get", "wait"}
  PROVE  GoesOn(u) \/ Begins(u)
<1>1. CASE UNCHANGED <<ev, call>>
  BY <1>1 DEF GoesOn
<1>2. ASSUME NEW t \in Threads, ThreadStep(t) PROVE GoesOn(u)
  <2>1. CASE ThExit(t)
    <3>1. ev' = Ended(ev, Waiting(t)) /\ UNCHANGED call
      BY <2>1 DEF ThExit
    <3>2. Req(u) \in EventIds /\ ev[Req(u)] \in EventReq
      BY Ids DEF IInv, TypeOK
    <3> QED BY <3>1, <3>2 DEF GoesOn, Ended, EventReq
  <2>2. ASSUME NEW v \in Threads, ThKill(t, v) PROVE GoesOn(u)
    BY <2>2, KillGoesOn
  <2> QED BY <1>1, <1>2, <2>1, <2>2
          DEF ThreadStep, ThCreate, ThYield, ThLock, ThUnlock, GoesOn
<1>3. ASSUME NEW t \in Threads, SemStep(t) PROVE GoesOn(u) \/ Begins(u)
  <2>1. ASSUME NEW s \in Sems, NEW n \in 1..MaxReq, SyPostSem(t, s, n) PROVE GoesOn(u)
    <3>1. PICK left, G : PostGives(s, n, left, G)
      BY <2>1, PostLoop
    <3>2. ev' = Answer(G, "COMPLETE") /\ UNCHANGED call
      BY <2>1, <3>1 DEF PostGives, SyPostSem
    <3> QED BY <3>2, AnsweredGoesOn
  <2>2. ASSUME NEW s \in Sems, NEW hard \in BOOLEAN, SyDestroySem(t, s, hard) PROVE GoesOn(u)
    <3>1. PICK E : ev' = Answer(E, "ERROR")
      BY <2>2 DEF SyDestroySem
    <3>2. UNCHANGED call
      BY <2>2 DEF SyDestroySem
    <3> QED BY <3>1, <3>2, AnsweredGoesOn
  <2>3. ASSUME NEW s \in Sems, NEW n \in 1..MaxReq, SyGetSemBlock(t, s, n)
        PROVE GoesOn(u) \/ Begins(u)
    <3>1. CASE u = t
      BY <2>3, <3>1 DEF Begins
    <3>2. CASE u # t
      <4>1. Req(u) # Req(t)
        BY <3>2 DEF Req
      <4> QED BY <2>3, <3>2, <4>1 DEF GoesOn, SyGetSemBlock, IInv, TypeOK
    <3> QED BY <3>1, <3>2
  <2> QED BY <1>1, <1>3, <2>1, <2>2, <2>3
          DEF SemStep, SyCreateSem, SyGetSemAvailable, SyGetSemFull
<1>4. ASSUME NEW t \in Threads, WaitStep(t) PROVE GoesOn(u) \/ Begins(u)
  <2>1. ASSUME NEW o \in Objects, NEW type \in TypesOf(o), NEW n \in LensOf(o),
               ThWaitBlock(t, o, type, n)
        PROVE GoesOn(u) \/ Begins(u)
    <3>1. CASE u = t
      BY <2>1, <3>1 DEF Begins
    <3>2. CASE u # t
      <4>1. Req(u) # Req(t)
        BY <3>2 DEF Req
      <4> QED BY <2>1, <3>2, <4>1 DEF GoesOn, ThWaitBlock, IInv, TypeOK
    <3> QED BY <3>1, <3>2
  <2>2. ASSUME NEW o, NEW type, NEW n, NEW zero, ThMultiWait(t, o, type, n, zero)
        PROVE  GoesOn(u)
    <3>1. u # t
      BY <2>2 DEF ThMultiWait, IInv, TypeOK
    <3>2. Req(u) # Req(t)
      BY <3>1 DEF Req
    <3> QED BY <2>2, <3>1, <3>2 DEF GoesOn, ThMultiWait, IInv, TypeOK
  <2> QED BY <1>1, <1>4, <2>1, <2>2 DEF WaitStep, ThWaitReady
<1>5. ASSUME NEW t \in Threads, Return(t) PROVE GoesOn(u)
  BY <1>5, ReturnOthers, KeptGoesOn
<1>6. ASSUME NEW t \in Threads, Dispatch(t) \/ DispatchEarly(t) PROVE GoesOn(u)
  <2>1. PICK E : ev' = Answer(E, "COMPLETE")
    BY <1>6 DEF Dispatch, DispatchEarly
  <2>2. UNCHANGED call
    BY <1>6 DEF Dispatch, DispatchEarly
  <2> QED BY <2>1, <2>2, AnsweredGoesOn
<1> QED BY <1>1, <1>2, <1>3, <1>4, <1>5, <1>6 DEF Next, vars

(***************************************************************************)
(* The count of a semaphore rises only when it is posted to or created.    *)
(***************************************************************************)
LEMMA CountRises ==
  ASSUME IInv, [Next]_vars, NEW s \in Sems
  PROVE  \/ sem'[s].count <= sem[s].count
         \/ \E t \in Threads, n \in 1..MaxReq : SyPostSem(t, s, n)
         \/ sem[s].state = "free"
<1>1. sem \in [Sems -> [state : {"free", "open", "closing"}, count : 0..MaxCount]]
      /\ 0..MaxCount \subseteq Int /\ 1..MaxReq \subseteq Nat
  BY BoundAssumption DEF IInv, TypeOK
<1>2. UNCHANGED sem => sem'[s].count <= sem[s].count
  BY <1>1
<1>3. ASSUME NEW t \in Threads, SemStep(t)
      PROVE  \/ sem'[s].count <= sem[s].count
             \/ \E n \in 1..MaxReq : SyPostSem(t, s, n)
             \/ sem[s].state = "free"
  <2>1. ASSUME NEW r \in Sems, NEW n, SyCreateSem(t, r, n)
        PROVE  sem'[s].count <= sem[s].count \/ sem[s].state = "free"
    BY <1>1, <2>1 DEF SyCreateSem
  <2>2. ASSUME NEW r \in Sems, NEW hard, SyDestroySem(t, r, hard)
        PROVE  sem'[s].count <= sem[s].count
    BY <1>1, <2>2 DEF SyDestroySem
  <2>3. ASSUME NEW r \in Sems, NEW n \in 1..MaxReq, SyPostSem(t, r, n), r # s
        PROVE  sem'[s].count <= sem[s].count
    BY <1>1, <2>3, PostLoop DEF PostGives
  <2>4. ASSUME NEW r \in Sems, NEW n \in 1..MaxReq, SyGetSemAvailable(t, r, n)
        PROVE  sem'[s].count <= sem[s].count
    BY <1>1, <2>4 DEF SyGetSemAvailable
  <2>5. PICK r \in Sems :
          \/ \E n \in 0..MaxCount : SyCreateSem(t, r, n)
          \/ \E hard \in BOOLEAN : SyDestroySem(t, r, hard)
          \/ \E n \in 1..MaxReq : SyPostSem(t, r, n)
          \/ \E n \in 1..MaxReq : SyGetSemAvailable(t, r, n)
          \/ UNCHANGED sem
    BY <1>3 DEF SemStep, SyGetSemBlock, SyGetSemFull
  <2> QED BY <1>2, <2>1, <2>2, <2>3, <2>4, <2>5
<1>4. ASSUME NEW o \in Objects, sem' = AfterCheck(o)
      PROVE  sem'[s].count <= sem[s].count
  BY <1>1, <1>4 DEF AfterCheck
<1>5. ASSUME NEW t \in Threads, WaitStep(t)
      PROVE  sem'[s].count <= sem[s].count
  <2>1. UNCHANGED sem \/ \E o \in Objects : sem' = AfterCheck(o)
    BY <1>5 DEF WaitStep, ThWaitReady, ThWaitBlock, ThMultiWait
  <2> QED BY <1>2, <1>4, <2>1, <1>1
<1> QED BY ZenonT(40), <1>2, <1>3, <1>5
        DEF Next, vars, ThreadStep, Return, ThCreate, ThYield, ThExit, ThKill, ThLock,
            ThUnlock, ReturnGet, ReturnWait, MultiBlock, MultiFull, ReturnMulti,
            Dispatch, DispatchEarly

-----------------------------------------------------------------------------
(***************************************************************************)
(* No missed wake-up.                                                      *)
(***************************************************************************)
LEMMA NextNoMissed == IInv /\ Fresh /\ NoMissedWake /\ [Next]_vars => NoMissedWake'
<1> SUFFICES ASSUME IInv, Fresh, NoMissedWake, [Next]_vars,
                    NEW u \in Threads, NEW s \in Sems,
                    call'[u] \in {"get", "wait"},
                    ev'[Req(u)].obj = s, ev'[Req(u)].status = "INPROC"
             PROVE  sem'[s].count < ev'[Req(u)].len
  BY DEF NoMissedWake
<1>1. /\ TypeOK /\ sem[s].count \in Int /\ sem'[s].count \in Int
      /\ Req(u) \in EventIds /\ ev[Req(u)].len \in Int
  <2>1. TypeOK /\ TypeOK'
    BY NextInv DEF IInv
  <2>2. Req(u) \in EventIds
    BY Ids
  <2>3. sem[s].count \in 0..MaxCount /\ sem'[s].count \in 0..MaxCount
    BY <2>1 DEF TypeOK
  <2>4. ev[Req(u)].len \in 1..MaxReq
    BY <2>1, <2>2 DEF TypeOK, EventReq
  <2> QED BY <2>1, <2>2, <2>3, <2>4, BoundAssumption
<1>2. CASE GoesOn(u)
  <2>1. /\ call[u] \in {"get", "wait"} /\ ev[Req(u)].obj = s
        /\ ev[Req(u)].status = "INPROC" /\ ev'[Req(u)].len = ev[Req(u)].len
    BY <1>2 DEF GoesOn
  <2>2. sem[s].count < ev[Req(u)].len
    BY <2>1 DEF NoMissedWake
  <2>3. CASE sem'[s].count <= sem[s].count
    BY <1>1, <2>1, <2>2, <2>3
  <2>4. CASE \E t \in Threads, n \in 1..MaxReq : SyPostSem(t, s, n)
    <3>1. PICK n, left, G : n \in 1..MaxReq /\ PostGives(s, n, left, G)
      BY <2>4, PostLoop
    <3>2. Req(u) \in InTable(table)
      BY <2>1, InTableWhileWaiting
    <3>3. Req(u) \notin G
      BY <1>1, <3>1 DEF PostGives, Answer, TypeOK, EventReq
    <3>4. PICK i \in DOMAIN table : table[i] = Req(u)
      BY <3>2 DEF InTable
    <3>5. left[i - 1] < ev[Req(u)].len
      BY <2>1, <3>1, <3>3, <3>4 DEF PostGives
    <3>6. /\ i - 1 \in 0..Len(table) /\ Len(table) \in 0..Len(table) /\ i - 1 <= Len(table)
      BY <1>1, <3>4 DEF TypeOK
    <3>7. left[Len(table)] <= left[i - 1] /\ left[Len(table)] \in Int /\ left[i - 1] \in Int
      BY <3>1, <3>6 DEF PostGives
    <3>8. sem'[s].count = left[Len(table)]
      BY <1>1, <3>1 DEF PostGives, TypeOK
    <3> QED BY <1>1, <2>1, <3>5, <3>7, <3>8
  <2>5. CASE sem[s].state = "free"
    <3>1. Exists(s)
      BY <2>1 DEF Fresh
    <3> QED BY <2>5, <3>1 DEF Exists
  <2> QED BY <2>3, <2>4, <2>5, CountRises
<1>3. CASE Begins(u)
  <2>1. ASSUME NEW r \in Sems, NEW n \in 1..MaxReq, SyGetSemBlock(u, r, n)
        PROVE  sem'[s].count < ev'[Req(u)].len
    <3>1. ev'[Req(u)] = Request(r, "SEM_GET", n, Len(table) + 1)
      BY <1>1, <2>1 DEF SyGetSemBlock, TypeOK
    <3>2. r = s /\ ev'[Req(u)].len = n
      BY <3>1 DEF Request
    <3> QED BY <2>1, <3>2 DEF SyGetSemBlock
  <2>2. ASSUME NEW o \in Objects, NEW type \in TypesOf(o), NEW n \in LensOf(o),
               ThWaitBlock(u, o, type, n)
        PROVE  sem'[s].count < ev'[Req(u)].len
    <3>1. ev'[Req(u)] = Request(o, type, n, Len(table) + 1)
      BY <1>1, <2>2 DEF ThWaitBlock, TypeOK
    <3>2. o = s /\ ev'[Req(u)].len = n
      BY <3>1 DEF Request
    <3>3. n \in 1..MaxReq
      BY <3>2 DEF LensOf
    <3>4. ~(sem[s].count > 0) /\ sem' = sem
      BY <2>2, <3>2 DEF ThWaitBlock, Ready
    <3> QED BY <1>1, <3>2, <3>3, <3>4, BoundAssumption
  <2> QED BY <1>3, <2>1, <2>2 DEF Begins
<1> QED BY <1>2, <1>3, StepWaits

(***************************************************************************)
(* What a semaphore holds is always less than every blocked syGetSem or    *)
(* thWait on it asks for.                                                  *)
(***************************************************************************)
THEOREM NoMissedWakeUp == Spec => []NoMissedWake
<1>1. Init => IInv /\ Fresh /\ NoMissedWake
  <2>1. Init => NoMissedWake
    BY DEF Init, NoMissedWake
  <2> QED BY <2>1, InitInv, InitFresh
<1>2. (IInv /\ Fresh /\ NoMissedWake) /\ [Next]_vars => (IInv /\ Fresh /\ NoMissedWake)'
  BY NextInv, NextFresh, NextNoMissed
<1> QED BY <1>1, <1>2, PTL DEF Spec

-----------------------------------------------------------------------------
(***************************************************************************)
(* Oldest first.                                                           *)
(***************************************************************************)
Ordered(q, r) ==
  \A i, j \in DOMAIN q :
    /\ i < j
    /\ r[q[i]].obj \in Sems /\ r[q[i]].obj = r[q[j]].obj
    /\ r[q[i]].status = "INPROC" /\ r[q[j]].status = "COMPLETE"
    => r[q[j]].len < r[q[i]].len

\* A timer is a request for no object.
TimersFree == \A t \in Threads : ev[Timer(t)].obj = None

\* The request b is a, or a failed: as far as the order goes.
KeepsTurn(a, b) ==
  /\ b.obj = a.obj /\ b.len = a.len
  /\ a.obj \in Sems => b.status \in {a.status, "ERROR"}

LEMMA TurnsOrdered ==
  ASSUME NEW q, NEW r, NEW x, Ordered(q, r),
         \A e \in InTable(q) : KeepsTurn(r[e], x[e])
  PROVE  Ordered(q, x)
<1>1. \A i \in DOMAIN q : KeepsTurn(r[q[i]], x[q[i]])
  BY DEF InTable
<1> QED BY <1>1 DEF Ordered, KeepsTurn

LEMMA ShiftOrdered ==
  ASSUME NEW q, NEW r, Indexed(q, r), NEW i \in DOMAIN q, Ordered(q, r)
  PROVE  Ordered(Shift(q, i), r)
<1>1. Len(q) \in Nat /\ DOMAIN q = 1..Len(q)
  BY DEF Indexed
<1>2. /\ DOMAIN Shift(q, i) = 1..(Len(q) - 1)
      /\ \A j \in 1..(Len(q) - 1) : Shift(q, i)[j] = IF j < i THEN q[j] ELSE q[j + 1]
  BY DEF Shift
<1> DEFINE c(a) == IF a < i THEN a ELSE a + 1
<1>3. \A a \in 1..(Len(q) - 1) : c(a) \in 1..Len(q) /\ Shift(q, i)[a] = q[c(a)]
  BY <1>1, <1>2
<1>4. \A a, b \in 1..(Len(q) - 1) : a < b => c(a) < c(b)
  BY <1>1
<1> HIDE DEF c
<1>5. ASSUME NEW a \in 1..(Len(q) - 1), NEW b \in 1..(Len(q) - 1), a < b,
             r[Shift(q, i)[a]].obj \in Sems,
             r[Shift(q, i)[a]].obj = r[Shift(q, i)[b]].obj,
             r[Shift(q, i)[a]].status = "INPROC",
             r[Shift(q, i)[b]].status = "COMPLETE"
      PROVE  r[Shift(q, i)[b]].len < r[Shift(q, i)[a]].len
  <2>1. /\ c(a) \in DOMAIN q /\ Shift(q, i)[a] = q[c(a)]
        /\ c(b) \in DOMAIN q /\ Shift(q, i)[b] = q[c(b)]
        /\ c(a) < c(b)
    BY <1>1, <1>3, <1>4, <1>5
  <2> QED BY <1>5, <2>1 DEF Ordered
<1> QED BY <1>2, <1>5 DEF Ordered

LEMMA DroppedOrdered ==
  ASSUME NEW q, NEW r, Indexed(q, r), NEW e \in EventIds, Ordered(q, r)
  PROVE  Ordered(Dropped(q, e), DroppedReqs(r, q, e))
<1>1. Ordered(Dropped(q, e), r)
  <2>1. CASE e \in InTable(q)
    <3>1. \E i \in DOMAIN q : q[i] = e
      BY <2>1 DEF InTable
    <3>2. Position(q, e) \in DOMAIN q
      BY <3>1 DEF Position
    <3> QED BY <2>1, <3>2, ShiftOrdered DEF Dropped
  <2>2. CASE e \notin InTable(q)
    BY <2>2 DEF Dropped
  <2> QED BY <2>1, <2>2
<1>2. InTable(Dropped(q, e)) \subseteq EventIds
  <2>1. Indexed(Dropped(q, e), DroppedReqs(r, q, e))
    BY Dropping
  <2> QED BY <2>1 DEF Indexed, InTable
<1>3. \A x \in EventIds : SameRequest(DroppedReqs(r, q, e)[x], r[x])
  BY Dropping
<1>4. \A x \in InTable(Dropped(q, e)) : KeepsTurn(r[x], DroppedReqs(r, q, e)[x])
  BY <1>2, <1>3 DEF KeepsTurn, SameRequest
<1> QED BY <1>1, <1>4, TurnsOrdered

LEMMA AppendOrdered ==
  ASSUME NEW q \in Seq(EventIds), NEW r, Ordered(q, r), NEW e \in EventIds,
         r[e].status # "COMPLETE"
  PROVE  Ordered(Append(q, e), r)
<1>1. /\ Len(q) \in Nat /\ DOMAIN q = 1..Len(q)
      /\ DOMAIN Append(q, e) = 1..(Len(q) + 1)
      /\ Append(q, e)[Len(q) + 1] = e
      /\ \A i \in 1..Len(q) : Append(q, e)[i] = q[i]
  OBVIOUS
<1>2. ASSUME NEW i \in 1..(Len(q) + 1), NEW j \in 1..(Len(q) + 1), i < j,
             r[Append(q, e)[j]].status = "COMPLETE"
      PROVE  /\ i \in DOMAIN q /\ j \in DOMAIN q
             /\ Append(q, e)[i] = q[i] /\ Append(q, e)[j] = q[j]
  <2>1. j # Len(q) + 1
    BY <1>1, <1>2
  <2> QED BY <1>1, <1>2, <2>1
<1> HIDE DEF Ordered
<1>3. ASSUME NEW i \in 1..(Len(q) + 1), NEW j \in 1..(Len(q) + 1), i < j,
             r[Append(q, e)[i]].obj \in Sems,
             r[Append(q, e)[i]].obj = r[Append(q, e)[j]].obj,
             r[Append(q, e)[i]].status = "INPROC",
             r[Append(q, e)[j]].status = "COMPLETE"
      PROVE  r[Append(q, e)[j]].len < r[Append(q, e)[i]].len
  <2>1. i \in DOMAIN q /\ j \in DOMAIN q
        /\ Append(q, e)[i] = q[i] /\ Append(q, e)[j] = q[j]
    BY <1>2, <1>3
  <2> QED BY <1>3, <2>1 DEF Ordered
<1> QED BY <1>1, <1>3 DEF Ordered

LEMMA TimerNotReq ==
  ASSUME NEW t \in Threads, NEW u \in Threads
  PROVE  Timer(t) # Req(u) /\ (Timer(t) = Timer(u) => t = u) /\ (Req(t) = Req(u) => t = u)
BY DEF Timer, Req

LEMMA NextTimersFree == IInv /\ TimersFree /\ [Next]_vars => TimersFree'
<1> SUFFICES ASSUME IInv, TimersFree, [Next]_vars, NEW v \in Threads
             PROVE  ev'[Timer(v)].obj = None
  BY DEF TimersFree
<1>1. /\ TypeOK /\ Timer(v) \in EventIds /\ ev[Timer(v)].obj = None
      /\ ev[Timer(v)] \in EventReq /\ NoRequest.obj = None
  BY Ids DEF TimersFree, IInv, TypeOK, NoRequest
<1>2. CASE UNCHANGED ev
  BY <1>1, <1>2
<1>3. ASSUME NEW E, NEW code \in {"COMPLETE", "ERROR"}, ev' = Answer(E, code)
      PROVE  ev'[Timer(v)].obj = None
  BY <1>1, <1>3 DEF Answer, EventReq
<1>4. ASSUME NEW t \in Threads, NEW x, ev' = [ev EXCEPT ![Req(t)] = x]
      PROVE  ev'[Timer(v)].obj = None
  <2>1. Timer(v) # Req(t)
    BY TimerNotReq
  <2> QED BY <1>1, <1>4, <2>1 DEF TypeOK
<1>5. ASSUME NEW t \in Threads, Return(t) PROVE ev'[Timer(v)].obj = None
  <2>1. CASE ReturnGet(t) \/ ReturnWait(t)
    <3> DEFINE r == Renumber(ev, Shift(table, ev[Req(t)].idx), ev[Req(t)].idx)
    <3>1. Req(t) \in InTable(table)
      BY <2>1, Ids DEF IInv, TableExact, RequestsOf, Req, Timer, ReturnGet, ReturnWait
    <3>2. ev[Req(t)].idx \in DOMAIN table
      BY <3>1 DEF IInv, TableExact, InTable
    <3>3. SameRequest(r[Timer(v)], ev[Timer(v)])
      BY <1>1, <3>2, InvIndexed, RenumberIndexes
    <3>4. ev'[Timer(v)] = r[Timer(v)]
      <4>1. ev' = [r EXCEPT ![Req(t)] = NoRequest]
        BY <2>1 DEF ReturnGet, ReturnWait
      <4>2. Timer(v) # Req(t) /\ r = [e \in EventIds |-> r[e]]
        BY TimerNotReq DEF Renumber
      <4> HIDE DEF r
      <4> QED BY <1>1, <4>1, <4>2
    <3> QED BY <1>1, <3>3, <3>4 DEF SameRequest
  <2>2. CASE MultiBlock(t)
    <3>1. Timer(v) # Req(t)
      BY TimerNotReq
    <3> QED BY <1>1, <2>2, <3>1 DEF MultiBlock, TypeOK, Request
  <2>3. CASE MultiFull(t)
    BY <1>4, <2>3 DEF MultiFull
  <2>4. CASE ReturnMulti(t)
    <3>1. ev'[Timer(v)].obj = IF v = t THEN None ELSE Reqs2(t)[Timer(v)].obj
      <4>1. PICK x : ev' = [Reqs2(t) EXCEPT ![Timer(t)] = NoRequest, ![Req(t)] = x]
        BY <2>4, ReturnMultiReqs
      <4>2. Reqs2(t) \in [EventIds -> EventReq]
        BY DroppingBoth DEF Indexed
      <4>3. Timer(v) # Req(t) /\ (Timer(v) = Timer(t) => v = t)
        BY TimerNotReq
      <4> QED BY <1>1, <4>1, <4>2, <4>3
    <3>2. SameRequest(Reqs2(t)[Timer(v)], ev[Timer(v)])
      BY <1>1, DroppingBoth
    <3> QED BY <1>1, <3>1, <3>2 DEF SameRequest
  <2> QED BY <1>5, <2>1, <2>2, <2>3, <2>4 DEF Return
<1>6. ASSUME NEW t \in Threads, ThreadStep(t) PROVE ev'[Timer(v)].obj = None
  <2>1. CASE ThExit(t)
    BY <1>1, <2>1 DEF ThExit, Ended, EventReq
  <2>2. ASSUME NEW u \in Threads, ThKill(t, u) PROVE ev'[Timer(v)].obj = None
    <3> DEFINE W == {e \in InTable(Table2(u)) : Reqs2(u)[e].obj = u}
    <3>1. ev' = [Ended(Reqs2(u), W) EXCEPT ![Timer(u)] = NoRequest, ![Req(u)] = NoRequest]
      BY <2>2 DEF ThKill, Table2, Reqs2
    <3> HIDE DEF W
    <3>2. SameRequest(Reqs2(u)[Timer(v)], ev[Timer(v)]) /\ Reqs2(u)[Timer(v)] \in EventReq
      BY <1>1, DroppingBoth DEF Indexed
    <3>3. Ended(Reqs2(u), W)[Timer(v)].obj = None
      BY <1>1, <3>2 DEF Ended, EventReq, SameRequest
    <3>4. Ended(Reqs2(u), W) = [e \in EventIds |-> Ended(Reqs2(u), W)[e]]
      BY DEF Ended
    <3> QED BY <1>1, <3>1, <3>3, <3>4
  <2> QED BY <1>2, <1>6, <2>1, <2>2 DEF ThreadStep, ThCreate, ThYield, ThLock, ThUnlock
<1>7. ASSUME NEW t \in Threads, SemStep(t) PROVE ev'[Timer(v)].obj = None
  <2>1. ASSUME NEW s \in Sems, NEW n \in 1..MaxReq, SyPostSem(t, s, n)
        PROVE  ev'[Timer(v)].obj = None
    <3>1. PICK G : ev' = Answer(G, "COMPLETE")
      BY <2>1, PostLoop DEF PostGives
    <3> QED BY <1>3, <3>1
  <2>2. ASSUME NEW s \in Sems, NEW hard \in BOOLEAN, SyDestroySem(t, s, hard)
        PROVE  ev'[Timer(v)].obj = None
    <3>1. PICK E : ev' = Answer(E, "ERROR")
      BY <2>2 DEF SyDestroySem
    <3> QED BY <1>3, <3>1
  <2>3. ASSUME NEW s \in Sems, NEW n \in 1..MaxReq, SyGetSemBlock(t, s, n)
        PROVE  ev'[Timer(v)].obj = None
    BY <1>4, <2>3 DEF SyGetSemBlock
  <2> QED BY <1>2, <1>7, <2>1, <2>2, <2>3
          DEF SemStep, SyCreateSem, SyGetSemAvailable, SyGetSemFull
<1>8. ASSUME NEW t \in Threads, WaitStep(t) PROVE ev'[Timer(v)].obj = None
  <2>1. UNCHANGED ev \/ \E x : ev' = [ev EXCEPT ![Req(t)] = x]
    BY <1>8 DEF WaitStep, ThWaitReady, ThWaitBlock, ThMultiWait
  <2> QED BY <1>2, <1>4, <2>1
<1>9. ASSUME NEW t \in Threads, Dispatch(t) \/ DispatchEarly(t)
      PROVE  ev'[Timer(v)].obj = None
  <2>1. PICK E : ev' = Answer(E, "COMPLETE")
    BY <1>9 DEF Dispatch, DispatchEarly
  <2> QED BY <1>3, <2>1
<1> QED BY <1>2, <1>5, <1>6, <1>7, <1>8, <1>9 DEF Next, vars

LEMMA PostOldest ==
  ASSUME IInv, OldestFirst, NEW t \in Threads, NEW s \in Sems, NEW n \in 1..MaxReq,
         SyPostSem(t, s, n)
  PROVE  Ordered(table, ev')
<1>1. /\ TypeOK /\ Len(table) \in Nat /\ DOMAIN table = 1..Len(table)
      /\ \A i \in DOMAIN table : /\ table[i] \in EventIds /\ ev[table[i]] \in EventReq
                                 /\ table[i] \in InTable(table)
  BY DEF IInv, TypeOK, InTable
<1>2. PICK left, G : PostGives(s, n, left, G)
  BY PostLoop
<1>3. \A i \in DOMAIN table :
        /\ ev'[table[i]].obj = ev[table[i]].obj /\ ev'[table[i]].len = ev[table[i]].len
        /\ ev[table[i]].len \in Int
        /\ ev'[table[i]].status = IF table[i] \in G THEN "COMPLETE" ELSE ev[table[i]].status
  <2>1. ASSUME NEW i \in DOMAIN table
        PROVE  ev'[table[i]] = IF table[i] \in G
                 THEN [ev[table[i]] EXCEPT !.status = "COMPLETE"] ELSE ev[table[i]]
    BY <1>1, <1>2 DEF PostGives, Answer
  <2>2. ASSUME NEW i \in DOMAIN table PROVE ev[table[i]].len \in Int
    <3>1. ev[table[i]].len \in 1..MaxReq
      BY <1>1 DEF EventReq
    <3> QED BY <3>1, BoundAssumption
  <2> QED BY <1>1, <2>1, <2>2 DEF EventReq
<1>4. ASSUME NEW i \in DOMAIN table, NEW j \in DOMAIN table, i < j,
             ev'[table[i]].obj \in Sems, ev'[table[i]].obj = ev'[table[j]].obj,
             ev'[table[i]].status = "INPROC", ev'[table[j]].status = "COMPLETE"
      PROVE  ev'[table[j]].len < ev'[table[i]].len
  <2>1. table[i] \notin G /\ ev[table[i]].status = "INPROC"
    BY <1>3, <1>4
  <2>2. CASE table[j] \in G
    <3>1. ev[table[j]].obj = s /\ ev[table[j]].len <= left[j - 1]
      BY <1>2, <2>2 DEF PostGives
    <3>2. left[i - 1] < ev[table[i]].len
      BY <1>2, <1>3, <1>4, <2>1, <3>1 DEF PostGives
    <3>3. i - 1 \in 0..Len(table) /\ j - 1 \in 0..Len(table) /\ i - 1 <= j - 1
      BY <1>1, <1>4
    <3>4. left[j - 1] <= left[i - 1] /\ left[j - 1] \in Int /\ left[i - 1] \in Int
      BY <1>2, <3>3 DEF PostGives
    <3> QED BY <1>3, <3>1, <3>2, <3>4
  <2>3. CASE table[j] \notin G
    BY <1>3, <1>4, <2>1, <2>3 DEF OldestFirst
  <2> QED BY <2>2, <2>3
<1> QED BY <1>4 DEF Ordered

LEMMA NextOldest == IInv /\ TimersFree /\ OldestFirst /\ [Next]_vars => OldestFirst'
<1> SUFFICES ASSUME IInv, TimersFree, OldestFirst, [Next]_vars
             PROVE  Ordered(table', ev')
  BY DEF OldestFirst, Ordered
<1>1. /\ TypeOK /\ Ordered(table, ev) /\ Indexed(table, ev)
      /\ table \in Seq(EventIds) /\ ev \in [EventIds -> EventReq]
      /\ \A e \in InTable(table) : e \in EventIds /\ ev[e] \in EventReq
  BY InvIndexed, Owner DEF IInv, TypeOK, OldestFirst, Ordered
<1>2. ASSUME UNCHANGED <<table, ev>> PROVE Ordered(table', ev')
  BY <1>1, <1>2
<1>3. ASSUME UNCHANGED table, \A e \in InTable(table) : KeepsTurn(ev[e], ev'[e])
      PROVE  Ordered(table', ev')
  BY <1>1, <1>3, TurnsOrdered
<1>4. ASSUME NEW t \in Threads, NEW x, Req(t) \notin InTable(table), UNCHANGED table,
             ev' = [ev EXCEPT ![Req(t)] = x]
      PROVE  Ordered(table', ev')
  <2>1. \A e \in InTable(table) : KeepsTurn(ev[e], ev'[e])
    BY <1>1, <1>4 DEF KeepsTurn
  <2> QED BY <1>3, <1>4, <2>1
<1>5. ASSUME NEW t \in Threads, NEW x, Req(t) \notin InTable(table),
             table' = Append(table, Req(t)),
             ev' = [ev EXCEPT ![Req(t)] = x], x.status # "COMPLETE"
      PROVE  Ordered(table', ev')
  <2>1. Req(t) \in EventIds
    BY Ids
  <2>2. \A e \in InTable(table) : KeepsTurn(ev[e], ev'[e])
    BY <1>1, <1>5 DEF KeepsTurn
  <2>3. Ordered(table, ev') /\ ev'[Req(t)].status # "COMPLETE"
    BY <1>1, <1>5, <2>1, <2>2, TurnsOrdered
  <2> QED BY <1>1, <1>5, <2>1, <2>3, AppendOrdered
<1>6. ASSUME NEW t \in Threads, call[t] \in {"none", "enter"}
      PROVE  Req(t) \notin InTable(table) /\ Timer(t) \notin InTable(table)
  BY <1>6, Owner, Ids DEF InWait, Req, Timer
<1>7. ASSUME NEW t \in Threads, ThreadStep(t) PROVE Ordered(table', ev')
  <2>1. CASE ThExit(t)
    <3>1. ev' = Ended(ev, Waiting(t)) /\ UNCHANGED table
      BY <2>1 DEF ThExit
    <3>2. \A e \in InTable(table) : KeepsTurn(ev[e], ev'[e])
      BY <1>1, <3>1, ObjectAssumption DEF KeepsTurn, Ended, Waiting, EventReq
    <3> QED BY <1>3, <3>1, <3>2
  <2>2. ASSUME NEW u \in Threads, ThKill(t, u) PROVE Ordered(table', ev')
    <3> DEFINE W == {e \in InTable(Table2(u)) : Reqs2(u)[e].obj = u}
    <3>1. /\ ev' = [Ended(Reqs2(u), W) EXCEPT ![Timer(u)] = NoRequest, ![Req(u)] = NoRequest]
          /\ table' = Table2(u)
      BY <2>2 DEF ThKill, Table2, Reqs2
    <3>2. Ordered(Table2(u), Reqs2(u))
      <4>1. /\ Indexed(Dropped(table, Timer(u)), DroppedReqs(ev, table, Timer(u)))
            /\ Ordered(Dropped(table, Timer(u)), DroppedReqs(ev, table, Timer(u)))
        BY <1>1, Ids, Dropping, DroppedOrdered
      <4> QED BY <4>1, Ids, DroppedOrdered DEF Table2, Reqs2
    <3>3. ASSUME NEW e \in InTable(Table2(u)) PROVE KeepsTurn(Reqs2(u)[e], ev'[e])
      <4>1. e \in EventIds /\ e # Timer(u) /\ e # Req(u) /\ Reqs2(u)[e] \in EventReq
        BY <1>1, DroppingBoth DEF Indexed
      <4>2. e \in W <=> Reqs2(u)[e].obj = u
        OBVIOUS
      <4> HIDE DEF W
      <4>3. ev'[e] = Ended(Reqs2(u), W)[e]
        BY <3>1, <4>1 DEF Ended
      <4> QED BY <4>1, <4>2, <4>3, ObjectAssumption DEF KeepsTurn, Ended, EventReq
    <3> HIDE DEF W
    <3> QED BY <3>1, <3>2, <3>3, TurnsOrdered
  <2> QED BY <1>2, <1>7, <2>1, <2>2 DEF ThreadStep, ThCreate, ThYield, ThLock, ThUnlock
<1>8. ASSUME NEW t \in Threads, SemStep(t) PROVE Ordered(table', ev')
  <2>1. ASSUME NEW s \in Sems, NEW n \in 1..MaxReq, SyPostSem(t, s, n)
        PROVE  Ordered(table', ev')
    <3>1. UNCHANGED table
      BY <2>1 DEF SyPostSem
    <3> QED BY <2>1, <3>1, PostOldest
  <2>2. ASSUME NEW s \in Sems, NEW hard \in BOOLEAN, SyDestroySem(t, s, hard)
        PROVE  Ordered(table', ev')
    <3>1. PICK E : ev' = Answer(E, "ERROR") /\ UNCHANGED table
      BY <2>2 DEF SyDestroySem
    <3>2. \A e \in InTable(table) : KeepsTurn(ev[e], ev'[e])
      BY <1>1, <3>1 DEF KeepsTurn, Answer, EventReq
    <3> QED BY <1>3, <3>1, <3>2
  <2>3. ASSUME NEW s \in Sems, NEW n \in 1..MaxReq, SyGetSemBlock(t, s, n)
        PROVE  Ordered(table', ev')
    <3>1. Req(t) \notin InTable(table)
      BY <1>6, <2>3 DEF SyGetSemBlock, Running
    <3>2. Request(s, "SEM_GET", n, Len(table) + 1).status # "COMPLETE"
      BY DEF Request
    <3> QED BY <1>5, <2>3, <3>1, <3>2 DEF SyGetSemBlock
  <2> QED BY <1>2, <1>8, <2>1, <2>2, <2>3
          DEF SemStep, SyCreateSem, SyGetSemAvailable, SyGetSemFull
<1>9. ASSUME NEW t \in Threads, WaitStep(t) PROVE Ordered(table', ev')
  <2>1. ASSUME NEW o \in Objects, NEW type \in TypesOf(o), NEW n \in LensOf(o),
               ThWaitBlock(t, o, type, n)
        PROVE  Ordered(table', ev')
    <3>1. Req(t) \notin InTable(table)
      BY <1>6, <2>1 DEF ThWaitBlock, Running
    <3>2. Request(o, type, n, Len(table) + 1).status # "COMPLETE"
      BY DEF Request
    <3> QED BY <1>5, <2>1, <3>1, <3>2 DEF ThWaitBlock
  <2>2. ASSUME NEW o, NEW type, NEW n, NEW zero, ThMultiWait(t, o, type, n, zero)
        PROVE  Ordered(table', ev')
    <3>1. Req(t) \notin InTable(table)
      BY <1>6, <2>2 DEF ThMultiWait, Running
    <3> QED BY <1>4, <2>2, <3>1 DEF ThMultiWait
  <2> QED BY <1>2, <1>9, <2>1, <2>2 DEF WaitStep, ThWaitReady
<1>10. ASSUME NEW t \in Threads, Return(t) PROVE Ordered(table', ev')
  <2>1. CASE ReturnGet(t) \/ ReturnWait(t)
    <3> DEFINE i == ev[Req(t)].idx
               q == Shift(table, i)
               r == Renumber(ev, q, i)
    <3>1. Req(t) \in InTable(table)
      BY <2>1, Ids DEF IInv, TableExact, RequestsOf, Req, Timer, ReturnGet, ReturnWait
    <3>2. i \in DOMAIN table /\ table[i] = Req(t)
      BY <3>1 DEF IInv, TableExact, InTable
    <3>3. /\ Ordered(q, ev) /\ InTable(q) = InTable(table) \ {Req(t)}
          /\ \A e \in EventIds : SameRequest(r[e], ev[e])
      BY <1>1, <3>2, ShiftOrdered, ShiftRemoves, RenumberIndexes
    <3>4. /\ table' = q /\ ev' = [r EXCEPT ![Req(t)] = NoRequest]
          /\ r = [e \in EventIds |-> r[e]]
      BY <2>1 DEF ReturnGet, ReturnWait, Renumber
    <3> HIDE DEF q, r
    <3>5. \A e \in InTable(q) : KeepsTurn(ev[e], ev'[e])
      BY <1>1, <3>3, <3>4 DEF KeepsTurn, SameRequest
    <3> QED BY <3>3, <3>4, <3>5, TurnsOrdered
  <2>2. CASE MultiFull(t)
    <3>1. Req(t) \notin InTable(table)
      BY <1>6, <2>2 DEF MultiFull
    <3> QED BY <1>4, <2>2, <3>1 DEF MultiFull
  <2>3. CASE MultiBlock(t)
    <3>1. /\ Timer(t) \notin InTable(table) /\ Req(t) \notin InTable(table)
          /\ Timer(t) \in EventIds /\ Req(t) \in EventIds /\ Timer(t) # Req(t)
      BY <1>6, <2>3, Ids DEF MultiBlock
    <3>2. /\ ev'[Timer(t)].status = "INPROC" /\ ev'[Req(t)].status = "INPROC"
          /\ \A e \in InTable(table) : ev'[e] = ev[e]
      BY <1>1, <2>3, <3>1 DEF MultiBlock, Request, EventReq
    <3>3. Ordered(table, ev')
      <4>1. \A e \in InTable(table) : KeepsTurn(ev[e], ev'[e])
        BY <3>2 DEF KeepsTurn
      <4> QED BY <1>1, <4>1, TurnsOrdered
    <3>4. Ordered(Append(table, Timer(t)), ev') /\ Append(table, Timer(t)) \in Seq(EventIds)
      BY <1>1, <3>1, <3>2, <3>3, AppendOrdered
    <3>5. Ordered(Append(Append(table, Timer(t)), Req(t)), ev')
      BY <3>1, <3>2, <3>4, AppendOrdered
    <3> QED BY <1>1, <2>3, <3>4, <3>5, AddedRequests DEF MultiBlock, MultiReqs
  <2>4. CASE ReturnMulti(t)
    <3>1. PICK x : table' = Table2(t)
                   /\ ev' = [Reqs2(t) EXCEPT ![Timer(t)] = NoRequest, ![Req(t)] = x]
      BY <2>4, ReturnMultiReqs
    <3>2. Ordered(Table2(t), Reqs2(t))
      <4>1. /\ Indexed(Dropped(table, Timer(t)), DroppedReqs(ev, table, Timer(t)))
            /\ Ordered(Dropped(table, Timer(t)), DroppedReqs(ev, table, Timer(t)))
        BY <1>1, Ids, Dropping, DroppedOrdered
      <4> QED BY <4>1, Ids, DroppedOrdered DEF Table2, Reqs2
    <3>3. ASSUME NEW e \in InTable(Table2(t)) PROVE KeepsTurn(Reqs2(t)[e], ev'[e])
      <4>1. e \in EventIds /\ e # Timer(t) /\ e # Req(t) /\ Reqs2(t) \in [EventIds -> EventReq]
        BY <1>1, DroppingBoth DEF Indexed
      <4> QED BY <3>1, <4>1 DEF KeepsTurn
    <3> QED BY <3>1, <3>2, <3>3, TurnsOrdered
  <2> QED BY <1>10, <2>1, <2>2, <2>3, <2>4 DEF Return
<1>11. ASSUME NEW t \in Threads, Dispatch(t) \/ DispatchEarly(t) PROVE Ordered(table', ev')
  <2>1. PICK E : /\ ev' = Answer(E, "COMPLETE")
                 /\ \A e \in E : e \in Timers \/ ev[e].obj = t
    BY ZenonT(40), <1>11 DEF Dispatch, DispatchEarly, TurnWaits, Waiting
  <2>2. ASSUME NEW e \in InTable(table) PROVE KeepsTurn(ev[e], ev'[e])
    <3>1. e \in E => ev[e].obj \notin Sems
      <4>1. ASSUME e = Timer(e[1]) PROVE ev[e].obj = None
        BY <4>1, Owner DEF TimersFree
      <4> QED BY <2>1, <4>1, ObjectAssumption DEF Timers
    <3> QED BY <1>1, <2>1, <3>1 DEF KeepsTurn, Answer, EventReq
  <2>3. UNCHANGED table
    BY <1>11 DEF Dispatch, DispatchEarly
  <2> QED BY <1>3, <2>2, <2>3
<1> QED BY <1>2, <1>7, <1>8, <1>9, <1>10, <1>11 DEF Next, vars

(***************************************************************************)
(* A younger request is granted before an older one of the same semaphore  *)
(* only when it asks for less.                                             *)
(***************************************************************************)
THEOREM GrantedOldestFirst == Spec => []OldestFirst
<1>1. Init => IInv /\ TimersFree /\ OldestFirst
  <2>1. Init => TimersFree
    <3> SUFFICES ASSUME Init, NEW t \in Threads
                 PROVE  ev[Timer(t)].obj = None
      BY DEF TimersFree
    <3>1. Timer(t) \in EventIds
      BY Ids
    <3>2. ev[Timer(t)] = NoRequest
      BY <3>1 DEF Init
    <3> QED BY <3>2 DEF NoRequest
  <2>2. Init => OldestFirst
    BY DEF Init, OldestFirst
  <2> QED BY <2>1, <2>2, InitInv
<1>2. (IInv /\ TimersFree /\ OldestFirst) /\ [Next]_vars
        => (IInv /\ TimersFree /\ OldestFirst)'
  BY NextInv, NextTimersFree, NextOldest
<1> QED BY <1>1, <1>2, PTL DEF Spec

-----------------------------------------------------------------------------
(***************************************************************************)
(* No thread sleeps outside a wait as long as the wait table has room for  *)
(* the requests of all threads but one: mtask.c has MT_MAX_EVENTS at four  *)
(* times MT_MAX_THREADS, and a thread has two requests at most.            *)
(***************************************************************************)
Roomy == IsFiniteSet(Threads) /\ MaxEvents > 2 * (Cardinality(Threads) - 1)

\* Who is current is EXECUTING.
Awake == current # None => status[current] = "EXECUTING"

LEMMA RoomForOne ==
  ASSUME Roomy, IInv, NEW t \in Threads, Running(t)
  PROVE  Room(1)
<1> DEFINE O == Threads \ {t}
           K == {"timer", "object"}
           n == Len(table)
<1>1. /\ table \in Seq(EventIds) /\ n \in Nat /\ DOMAIN table = 1..n
      /\ \A i, j \in 1..n : table[i] = table[j] => i = j
  BY SMTT(30) DEF IInv, TypeOK, TableExact
<1>2. IsFiniteSet(O) /\ Cardinality(O) = Cardinality(Threads) - 1
      /\ Cardinality(Threads) \in Nat /\ Cardinality(O) \in Nat
  BY FS_RemoveElement, FS_CardinalityType DEF Roomy
<1>3. IsFiniteSet(K) /\ Cardinality(K) = 2
  <2>1. IsFiniteSet({"timer"}) /\ Cardinality({"timer"}) = 1
    BY FS_Singleton
  <2>2. K = {"timer"} \cup {"object"} /\ "object" \notin {"timer"}
    OBVIOUS
  <2> HIDE DEF K
  <2> QED BY <2>1, <2>2, FS_AddElement
<1>4. IsFiniteSet(O \X K) /\ Cardinality(O \X K) = Cardinality(O) * Cardinality(K)
  BY <1>2, <1>3, FS_Product
<1>5. Cardinality(O \X K) = 2 * (Cardinality(Threads) - 1)
  BY <1>2, <1>3, <1>4
<1>6. ASSUME NEW i \in 1..n PROVE table[i] \in O \X K
  <2>1. table[i] \in InTable(table) /\ table[i] \in EventIds
    BY <1>1 DEF InTable
  <2>2. InWait(table[i][1])
    BY <2>1, Owner
  <2> QED BY <2>1, <2>2 DEF InWait, Running, EventIds
<1> HIDE DEF O, K
<1> DEFINE f == [i \in 1..n |-> table[i]]
<1>7. f \in Injection(1..n, O \X K)
  BY <1>1, <1>6, Zenon DEF Injection, IsInjective
<1>8. Cardinality(1..n) <= Cardinality(O \X K)
  BY <1>4, <1>7, FS_Injection
<1>9. Cardinality(1..n) = n
  <2>1. n \in Int /\ 1 \in Int
    BY <1>1
  <2>2. Cardinality(1..n) = IF 1 > n THEN 0 ELSE n - 1 + 1
    BY <2>1, FS_Interval
  <2> QED BY <1>1, <2>2
<1> QED BY <1>1, <1>2, <1>5, <1>8, <1>9, BoundAssumption DEF Room, Roomy

\* A step after which who is BLOCKED was so before and is in the same call, or
\* is in a wait.
LEMMA SleepsOn ==
  ASSUME NoLostSleeper, Awake',
         \A u \in Threads : status'[u] = "BLOCKED" =>
           \/ status[u] = "BLOCKED" /\ call'[u] = call[u]
           \/ call'[u] \in {"get", "wait", "multi"}
  PROVE  NoLostSleeper' /\ Awake'
BY DEF NoLostSleeper, InWait

\* A call of the running thread t that has made the statuses st and reaches mtSched().
LEMMA EnterSleeps ==
  ASSUME IInv, NoLostSleeper, NEW t \in Threads,
         NEW st \in [Threads -> Statuses], Enter(t, st),
         \A u \in Threads : st[u] = "BLOCKED" =>
           \/ status[u] = "BLOCKED" /\ call'[u] = call[u]
           \/ call'[u] \in {"get", "wait", "multi"}
  PROVE  NoLostSleeper' /\ Awake'
<1>1. /\ current' \in {t, None}
      /\ \A u \in Threads \ {t} : status'[u] = st[u]
      /\ status'[t] = "EXECUTING" <=> current' = t
      /\ status'[t] = "BLOCKED" <=> st[t] = "BLOCKED"
  BY EnterStatus
<1> QED BY <1>1, SleepsOn DEF Awake

LEMMA NextSleeps ==
  ASSUME Roomy, IInv, NoLostSleeper, Awake, [Next]_vars
  PROVE  NoLostSleeper' /\ Awake'
<1>1. TypeOK /\ status \in [Threads -> Statuses] /\ call \in [Threads -> {"none", "get", "wait", "enter", "multi"}]
  BY DEF IInv, TypeOK
<1>2. \A e \in InTable(table) : e[1] \in Threads /\ call[e[1]] \in {"get", "wait", "multi"}
  BY Owner DEF InWait
<1>3. \A t \in Threads : Running(t) \/ current = t => current = t /\ current # None /\ status[t] = "EXECUTING"
  BY ObjectAssumption DEF Running, Awake
<1>4. CASE UNCHANGED vars
  BY <1>4 DEF vars, NoLostSleeper, Awake, InWait
<1>5. ASSUME NEW t \in Threads, ThreadStep(t) PROVE NoLostSleeper' /\ Awake'
  <2>1. ASSUME NEW u \in Threads, ThCreate(t, u) PROVE NoLostSleeper' /\ Awake'
    <3>1. PICK st : st = [status EXCEPT ![u] = "RUNNABLE"]
      OBVIOUS
    <3>2. /\ st \in [Threads -> Statuses] /\ Enter(t, st) /\ call' = call
          /\ \A v \in Threads : st[v] = "BLOCKED" => status[v] = "BLOCKED"
      BY <1>1, <2>1, <3>1 DEF ThCreate, Statuses
    <3> QED BY <3>2, EnterSleeps
  <2>2. ASSUME ThYield(t) PROVE NoLostSleeper' /\ Awake'
    <3>1. PICK st : st = [status EXCEPT ![t] = "RUNNABLE"]
      OBVIOUS
    <3>2. /\ st \in [Threads -> Statuses] /\ Enter(t, st) /\ call' = call
          /\ \A v \in Threads : st[v] = "BLOCKED" => status[v] = "BLOCKED"
      BY <1>1, <2>2, <3>1 DEF ThYield, Statuses
    <3> QED BY <3>2, EnterSleeps
  <2>3. ASSUME ThExit(t) PROVE NoLostSleeper' /\ Awake'
    <3>1. \A v \in Threads : status'[v] = "BLOCKED" => status[v] = "BLOCKED"
      BY <1>1, <2>3, WakeStatus DEF ThExit
    <3>2. Awake' /\ call' = call
      BY <2>3 DEF ThExit, Awake
    <3> QED BY <3>1, <3>2, SleepsOn
  <2>4. ASSUME NEW u \in Threads, ThKill(t, u) PROVE NoLostSleeper' /\ Awake'
    <3>1. PICK E : Enter(t, [Wake(status, E) EXCEPT ![u] = "none"])
      BY <2>4 DEF ThKill
    <3>2. PICK st : st = [Wake(status, E) EXCEPT ![u] = "none"]
      OBVIOUS
    <3>3. /\ st \in [Threads -> Statuses] /\ Enter(t, st)
          /\ \A v \in Threads : st[v] = "BLOCKED" => v # u /\ status[v] = "BLOCKED"
      BY <1>1, <3>1, <3>2, WakeStatus DEF Statuses
    <3>4. \A v \in Threads : v # u => call'[v] = call[v]
      BY <1>1, <2>4 DEF ThKill
    <3> QED BY <3>3, <3>4, EnterSleeps
  <2>5. ASSUME ThLock(t) \/ ThUnlock(t) PROVE NoLostSleeper' /\ Awake'
    BY <2>5 DEF ThLock, ThUnlock, NoLostSleeper, Awake, InWait
  <2> QED BY <1>5, <2>1, <2>2, <2>3, <2>4, <2>5 DEF ThreadStep
<1>6. ASSUME NEW t \in Threads, SemStep(t) PROVE NoLostSleeper' /\ Awake'
  <2>1. ASSUME NEW s \in Sems, NEW n, SyCreateSem(t, s, n) PROVE NoLostSleeper' /\ Awake'
    BY <2>1 DEF SyCreateSem, NoLostSleeper, Awake, InWait
  <2>2. ASSUME NEW s \in Sems, NEW hard \in BOOLEAN, SyDestroySem(t, s, hard)
        PROVE  NoLostSleeper' /\ Awake'
    <3>1. PICK E : /\ E \subseteq InTable(table) /\ status' = Wake(status, E)
                   /\ current' = current /\ call' = call /\ Running(t)
      BY <2>2 DEF SyDestroySem, Waiting
    <3>2. status'[t] = "EXECUTING"
      BY <1>1, <1>2, <1>3, <3>1, WakeStatus DEF Running
    <3>3. Awake'
      BY <1>3, <3>1, <3>2 DEF Awake
    <3>4. \A v \in Threads : status'[v] = "BLOCKED" => status[v] = "BLOCKED"
      BY <1>1, <3>1, WakeStatus
    <3> QED BY <3>1, <3>3, <3>4, SleepsOn
  <2>3. ASSUME NEW s \in Sems, NEW n \in 1..MaxReq, SyPostSem(t, s, n)
        PROVE  NoLostSleeper' /\ Awake'
    <3>1. PICK E : Enter(t, Wake(status, E)) /\ call' = call
      BY <2>3 DEF SyPostSem
    <3>2. PICK st : st = Wake(status, E)
      OBVIOUS
    <3>3. /\ st \in [Threads -> Statuses] /\ Enter(t, st)
          /\ \A v \in Threads : st[v] = "BLOCKED" => status[v] = "BLOCKED"
      BY <1>1, <3>1, <3>2, WakeStatus
    <3> QED BY <3>1, <3>3, EnterSleeps
  <2>4. ASSUME NEW s \in Sems, NEW n \in 1..MaxReq, SyGetSemAvailable(t, s, n)
        PROVE  NoLostSleeper' /\ Awake'
    <3>1. Enter(t, status) /\ call' = call
      BY <2>4 DEF SyGetSemAvailable
    <3> QED BY <1>1, <3>1, EnterSleeps
  <2>5. ASSUME NEW s \in Sems, NEW n \in 1..MaxReq, SyGetSemBlock(t, s, n)
        PROVE  NoLostSleeper' /\ Awake'
    <3>1. PICK st : st = [status EXCEPT ![t] = "BLOCKED"]
      OBVIOUS
    <3>2. /\ st \in [Threads -> Statuses] /\ Enter(t, st)
          /\ \A v \in Threads : v # t => st[v] = status[v] /\ call'[v] = call[v]
          /\ call'[t] = "get"
      BY <1>1, <2>5, <3>1 DEF SyGetSemBlock, Statuses
    <3> QED BY <3>2, EnterSleeps
  <2>6. ASSUME NEW s \in Sems, NEW n \in 1..MaxReq, SyGetSemFull(t, s, n)
        PROVE  NoLostSleeper' /\ Awake'
    BY <2>6, RoomForOne DEF SyGetSemFull
  <2> QED BY <1>6, <2>1, <2>2, <2>3, <2>4, <2>5, <2>6 DEF SemStep
<1>7. ASSUME NEW t \in Threads, WaitStep(t) PROVE NoLostSleeper' /\ Awake'
  <2>1. ASSUME NEW o, NEW type, ThWaitReady(t, o, type) PROVE NoLostSleeper' /\ Awake'
    <3>1. Enter(t, status) /\ call' = call
      BY <2>1 DEF ThWaitReady
    <3> QED BY <1>1, <3>1, EnterSleeps
  <2>2. ASSUME NEW o, NEW type, NEW n, ThWaitBlock(t, o, type, n)
        PROVE  NoLostSleeper' /\ Awake'
    <3>1. PICK st : st = [status EXCEPT ![t] = "BLOCKED"]
      OBVIOUS
    <3>2. /\ st \in [Threads -> Statuses] /\ Enter(t, st)
          /\ \A v \in Threads : v # t => st[v] = status[v] /\ call'[v] = call[v]
          /\ call'[t] = "wait"
      BY <1>1, <2>2, <3>1 DEF ThWaitBlock, Statuses
    <3> QED BY <3>2, EnterSleeps
  <2>3. ASSUME NEW o, NEW type, NEW n, NEW zero, ThMultiWait(t, o, type, n, zero)
        PROVE  NoLostSleeper' /\ Awake'
    <3>1. status[t] = "EXECUTING" /\ current = t
          /\ \A v \in Threads : v # t => call'[v] = call[v]
      BY <1>1, <1>3, <2>3 DEF ThMultiWait
    <3>2. CASE Enter(t, status)
      <4>1. \A v \in Threads : status[v] = "BLOCKED" => call'[v] = call[v]
        BY <3>1
      <4> QED BY <1>1, <3>2, <4>1, EnterSleeps
    <3>3. CASE UNCHANGED <<status, current>>
      <4>1. Awake'
        BY <3>3 DEF Awake
      <4> QED BY <3>1, <3>3, <4>1, SleepsOn
    <3> QED BY <2>3, <3>2, <3>3 DEF ThMultiWait
  <2> QED BY <1>7, <2>1, <2>2, <2>3 DEF WaitStep
<1>8. ASSUME NEW t \in Threads, Return(t) PROVE NoLostSleeper' /\ Awake'
  <2>1. current = t /\ \A v \in Threads : v # t => call'[v] = call[v]
    BY <1>1, <1>8 DEF Return, ReturnGet, ReturnWait, MultiBlock, MultiFull, ReturnMulti
  <2>2. status[t] = "EXECUTING"
    BY <1>3, <2>1
  <2>3. CASE MultiBlock(t)
    <3>1. PICK st : st = [status EXCEPT ![t] = "BLOCKED"]
      OBVIOUS
    <3>2. /\ st \in [Threads -> Statuses] /\ Enter(t, st)
          /\ \A v \in Threads : v # t => st[v] = status[v]
          /\ call'[t] = "multi"
      BY <1>1, <2>3, <3>1 DEF MultiBlock, Statuses
    <3> QED BY <2>1, <3>2, EnterSleeps
  <2>4. CASE UNCHANGED <<status, current>>
    <3>1. Awake'
      BY <2>4 DEF Awake
    <3> QED BY <2>1, <2>2, <2>4, <3>1, SleepsOn
  <2> QED BY <1>8, <2>3, <2>4 DEF Return, ReturnGet, ReturnWait, MultiFull, ReturnMulti
<1>9. ASSUME NEW t \in Threads, Dispatch(t) \/ DispatchEarly(t)
      PROVE  NoLostSleeper' /\ Awake'
  <2>1. PICK st \in [Threads -> Statuses] :
             /\ status' = [Wake(st, TurnWaits(t)) EXCEPT ![t] = "EXECUTING"]
             /\ \A v \in Threads : st[v] = "BLOCKED" => status[v] = "BLOCKED"
    <3>1. CASE Dispatch(t)
      <4>1. PICK due : status' = [Wake(Wake(status, due), TurnWaits(t)) EXCEPT ![t] = "EXECUTING"]
        BY <3>1 DEF Dispatch
      <4>2. PICK st : st = Wake(status, due)
        OBVIOUS
      <4>3. st \in [Threads -> Statuses] /\ \A v \in Threads : st[v] = "BLOCKED" => status[v] = "BLOCKED"
        BY <1>1, <4>2, WakeStatus
      <4>4. status' = [Wake(st, TurnWaits(t)) EXCEPT ![t] = "EXECUTING"]
        BY <4>1, <4>2
      <4> QED BY <4>3, <4>4
    <3>2. CASE DispatchEarly(t)
      BY <1>1, <3>2 DEF DispatchEarly
    <3> QED BY <1>9, <3>1, <3>2
  <2>2. Wake(st, TurnWaits(t)) \in [Threads -> Statuses]
        /\ \A v \in Threads : Wake(st, TurnWaits(t))[v] = "BLOCKED" => st[v] = "BLOCKED"
    BY <2>1, WakeStatus
  <2>3. /\ status'[t] = "EXECUTING"
        /\ \A v \in Threads : status'[v] = "BLOCKED" => status[v] = "BLOCKED"
    BY <2>1, <2>2
  <2>4. current' = t /\ call' = call
    BY <1>9 DEF Dispatch, DispatchEarly
  <2>5. Awake'
    BY <2>3, <2>4 DEF Awake
  <2> QED BY <2>3, <2>4, <2>5, SleepsOn
<1> QED BY <1>4, <1>5, <1>6, <1>7, <1>8, <1>9 DEF Next

(***************************************************************************)
(* Whatever calls the threads make, and in whatever order they run and     *)
(* end, the kernel leaves no thread BLOCKED outside a wait: nothing but an *)
(* answer to a request wakes a thread, so that one would sleep forever.    *)
(* The table must have room for what the other threads may wait for.       *)
(***************************************************************************)
THEOREM SleepersWait ==
  ASSUME Roomy
  PROVE  Spec => []NoLostSleeper
<1>1. Init => NoLostSleeper /\ Awake
  BY DEF Init, NoLostSleeper, Awake
<1>2. IInv /\ NoLostSleeper /\ Awake /\ [Next]_vars => (NoLostSleeper /\ Awake)'
  BY NextSleeps
<1> QED BY <1>1, <1>2, Inductive, PTL DEF Spec

(***************************************************************************)
(* No counts out of nothing.                                               *)
(***************************************************************************)
\* What a semaphore's counts are, from any sums over a set with its requests.
CountsAre ==
  \A s \in Sems : \A T \in SUBSET EventIds : \A w \in [T -> Nat] : \A g :
    /\ IsFiniteSet(T) /\ Given(s) \subseteq T
    /\ \A e \in Given(s) : w[e] = ev[e].len
    /\ Totals(g, T, w)
    => Counts(s) = sem[s].count + g[Given(s)]

LEMMA TableFinite ==
  ASSUME NEW q \in Seq(EventIds)
  PROVE  IsFiniteSet(InTable(q)) /\ InTable(q) \subseteq EventIds
<1>1. Len(q) \in Nat /\ DOMAIN q = 1..Len(q)
  OBVIOUS
<1> DEFINE f == [i \in 1..Len(q) |-> q[i]]
<1>2. f \in Surjection(1..Len(q), InTable(q))
  BY <1>1, Zenon DEF Surjection, InTable
<1>3. IsFiniteSet(1..Len(q))
  BY <1>1, FS_Interval
<1> HIDE DEF f
<1>4. IsFiniteSet(InTable(q))
  BY <1>2, <1>3, FS_Surjection
<1> QED BY <1>1, <1>4 DEF InTable

LEMMA CountsSum == IInv => CountsAre
<1> SUFFICES ASSUME IInv, NEW s \in Sems, NEW T \in SUBSET EventIds,
                    NEW w \in [T -> Nat], NEW g,
                    IsFiniteSet(T), Given(s) \subseteq T,
                    \A e \in Given(s) : w[e] = ev[e].len, Totals(g, T, w)
             PROVE  Counts(s) = sem[s].count + g[Given(s)]
  BY DEF CountsAre
<1>1. PICK S : S = Given(s)
  OBVIOUS
<1> DEFINE v == [e \in S |-> ev[e].len]
<1>2. IsFiniteSet(S) /\ S \subseteq T
  BY <1>1, FS_Subset
<1>3. v \in [S -> Nat] /\ \A e \in S : v[e] = w[e]
  BY <1>1, <1>2
<1>4. MapThenSumSet(LAMBDA e : ev[e].len, S) =
        (CHOOSE h : h = [r \in SUBSET S |->
           IF r = {} THEN 0 ELSE LET x == CHOOSE x \in r : TRUE IN ev[x].len + h[r \ {x}]])[S]
  BY Zenon DEF MapThenSumSet, MapThenFoldSet
<1>5. ASSUME NEW h
      PROVE  Totals(h, S, v) <=> h = [r \in SUBSET S |->
           IF r = {} THEN 0 ELSE LET x == CHOOSE x \in r : TRUE IN ev[x].len + h[r \ {x}]]
  <2>1. \A r \in SUBSET S : r # {} => v[First(r)] = ev[First(r)].len
    BY DEF First
  <2>2. [r \in SUBSET S |-> IF r = {} THEN 0 ELSE v[First(r)] + h[r \ {First(r)}]]
        = [r \in SUBSET S |-> IF r = {} THEN 0 ELSE ev[First(r)].len + h[r \ {First(r)}]]
    BY <2>1
  <2> QED BY <2>2 DEF Totals, First
<1> HIDE DEF v
<1>6. PICK h : Totals(h, S, v) /\ MapThenSumSet(LAMBDA e : ev[e].len, S) = h[S]
  <2>1. \E h : Totals(h, S, v)
    BY <1>2, TotalsExist
  <2> DEFINE R(h) == h = [r \in SUBSET S |->
           IF r = {} THEN 0 ELSE LET x == CHOOSE x \in r : TRUE IN ev[x].len + h[r \ {x}]]
  <2>2. MapThenSumSet(LAMBDA e : ev[e].len, S) = (CHOOSE h : R(h))[S]
    BY <1>4
  <2>3. \A h : Totals(h, S, v) <=> R(h)
    BY <1>5
  <2> HIDE DEF R
  <2>4. R(CHOOSE h : R(h))
    BY <2>1, <2>3
  <2> QED BY <2>2, <2>3, <2>4
<1>7. h[S] = g[S]
  BY <1>2, <1>3, <1>6, TotalsAgree
<1> QED BY <1>1, <1>6, <1>7 DEF Counts

(***************************************************************************)
(* A step that gives no counts: a request that was given its counts had    *)
(* them before.                                                            *)
(***************************************************************************)
Carries ==
  \A e \in InTable(table') :
    \/ ev'[e].status # "COMPLETE"
    \/ e \in InTable(table) /\ KeepsTurn(ev[e], ev'[e])

LEMMA NextCarries ==
  ASSUME IInv, TimersFree, [Next]_vars
  PROVE  Carries \/ \E t \in Threads, s \in Sems, n \in 1..MaxReq : SyPostSem(t, s, n)
<1>1. /\ TypeOK /\ Indexed(table, ev)
      /\ table \in Seq(EventIds) /\ ev \in [EventIds -> EventReq]
      /\ \A e \in InTable(table) : e \in EventIds /\ ev[e] \in EventReq
  BY InvIndexed, Owner DEF IInv, TypeOK
<1>2. ASSUME UNCHANGED <<table, ev>> PROVE Carries
  BY <1>1, <1>2 DEF Carries, KeepsTurn
<1>3. ASSUME UNCHANGED table, \A e \in InTable(table) : KeepsTurn(ev[e], ev'[e])
      PROVE  Carries
  BY <1>3 DEF Carries
<1>4. ASSUME NEW t \in Threads, NEW x, Req(t) \notin InTable(table), UNCHANGED table,
             ev' = [ev EXCEPT ![Req(t)] = x]
      PROVE  Carries
  BY <1>1, <1>4 DEF Carries, KeepsTurn
<1>5. ASSUME NEW t \in Threads, NEW x, Req(t) \notin InTable(table),
             table' = Append(table, Req(t)),
             ev' = [ev EXCEPT ![Req(t)] = x], x.status # "COMPLETE"
      PROVE  Carries
  <2>1. Req(t) \in EventIds
    BY Ids
  <2>2. InTable(table') = InTable(table) \cup {Req(t)}
    BY <1>1, <1>5, <2>1, AppendIn
  <2> QED BY <1>1, <1>5, <2>1, <2>2 DEF Carries, KeepsTurn
<1>6. ASSUME NEW t \in Threads, call[t] \in {"none", "enter"}
      PROVE  Req(t) \notin InTable(table) /\ Timer(t) \notin InTable(table)
  BY <1>6, Owner, Ids DEF InWait, Req, Timer
<1>7. ASSUME NEW t \in Threads, ThreadStep(t) PROVE Carries
  <2>1. CASE ThExit(t)
    <3>1. ev' = Ended(ev, Waiting(t)) /\ UNCHANGED table
      BY <2>1 DEF ThExit
    <3>2. \A e \in InTable(table) : KeepsTurn(ev[e], ev'[e])
      BY <1>1, <3>1, ObjectAssumption DEF KeepsTurn, Ended, Waiting, EventReq
    <3> QED BY <1>3, <3>1, <3>2
  <2>2. ASSUME NEW u \in Threads, ThKill(t, u) PROVE Carries
    <3> DEFINE W == {e \in InTable(Table2(u)) : Reqs2(u)[e].obj = u}
    <3>1. /\ ev' = [Ended(Reqs2(u), W) EXCEPT ![Timer(u)] = NoRequest, ![Req(u)] = NoRequest]
          /\ table' = Table2(u)
      BY <2>2 DEF ThKill, Table2, Reqs2
    <3>2. ASSUME NEW e \in InTable(Table2(u))
          PROVE  e \in InTable(table) /\ KeepsTurn(ev[e], ev'[e])
      <4>1. e \in EventIds /\ e \in InTable(table) /\ e # Timer(u) /\ e # Req(u)
            /\ Reqs2(u)[e] \in EventReq /\ SameRequest(Reqs2(u)[e], ev[e])
        BY <1>1, DroppingBoth DEF Indexed
      <4>2. e \in W <=> Reqs2(u)[e].obj = u
        OBVIOUS
      <4> HIDE DEF W
      <4>3. ev'[e] = Ended(Reqs2(u), W)[e]
        BY <3>1, <4>1 DEF Ended
      <4> QED BY <4>1, <4>2, <4>3, ObjectAssumption DEF KeepsTurn, Ended, EventReq, SameRequest
    <3> QED BY <3>1, <3>2 DEF Carries
  <2> QED BY <1>2, <1>7, <2>1, <2>2 DEF ThreadStep, ThCreate, ThYield, ThLock, ThUnlock
<1>8. ASSUME NEW t \in Threads, SemStep(t)
      PROVE  Carries \/ \E s \in Sems, n \in 1..MaxReq : SyPostSem(t, s, n)
  <2>2. ASSUME NEW s \in Sems, NEW hard \in BOOLEAN, SyDestroySem(t, s, hard) PROVE Carries
    <3>1. PICK E : ev' = Answer(E, "ERROR") /\ UNCHANGED table
      BY <2>2 DEF SyDestroySem
    <3>2. \A e \in InTable(table) : KeepsTurn(ev[e], ev'[e])
      BY <1>1, <3>1 DEF KeepsTurn, Answer, EventReq
    <3> QED BY <1>3, <3>1, <3>2
  <2>3. ASSUME NEW s \in Sems, NEW n \in 1..MaxReq, SyGetSemBlock(t, s, n) PROVE Carries
    <3>1. Req(t) \notin InTable(table)
      BY <1>6, <2>3 DEF SyGetSemBlock, Running
    <3>2. Request(s, "SEM_GET", n, Len(table) + 1).status # "COMPLETE"
      BY DEF Request
    <3> QED BY <1>5, <2>3, <3>1, <3>2 DEF SyGetSemBlock
  <2> QED BY <1>2, <1>8, <2>2, <2>3
          DEF SemStep, SyCreateSem, SyGetSemAvailable, SyGetSemFull
<1>9. ASSUME NEW t \in Threads, WaitStep(t) PROVE Carries
  <2>1. ASSUME NEW o \in Objects, NEW type \in TypesOf(o), NEW n \in LensOf(o),
               ThWaitBlock(t, o, type, n)
        PROVE  Carries
    <3>1. Req(t) \notin InTable(table)
      BY <1>6, <2>1 DEF ThWaitBlock, Running
    <3>2. Request(o, type, n, Len(table) + 1).status # "COMPLETE"
      BY DEF Request
    <3> QED BY <1>5, <2>1, <3>1, <3>2 DEF ThWaitBlock
  <2>2. ASSUME NEW o, NEW type, NEW n, NEW zero, ThMultiWait(t, o, type, n, zero)
        PROVE  Carries
    <3>1. Req(t) \notin InTable(table)
      BY <1>6, <2>2 DEF ThMultiWait, Running
    <3> QED BY <1>4, <2>2, <3>1 DEF ThMultiWait
  <2> QED BY <1>2, <1>9, <2>1, <2>2 DEF WaitStep, ThWaitReady
<1>10. ASSUME NEW t \in Threads, Return(t) PROVE Carries
  <2>1. CASE ReturnGet(t) \/ ReturnWait(t)
    <3> DEFINE i == ev[Req(t)].idx
               q == Shift(table, i)
               r == Renumber(ev, q, i)
    <3>1. Req(t) \in InTable(table)
      BY <2>1, Ids DEF IInv, TableExact, RequestsOf, Req, Timer, ReturnGet, ReturnWait
    <3>2. i \in DOMAIN table /\ table[i] = Req(t)
      BY <3>1 DEF IInv, TableExact, InTable
    <3>3. /\ InTable(q) = InTable(table) \ {Req(t)}
          /\ \A e \in EventIds : SameRequest(r[e], ev[e])
      BY <1>1, <3>2, ShiftRemoves, RenumberIndexes
    <3>4. /\ table' = q /\ ev' = [r EXCEPT ![Req(t)] = NoRequest]
          /\ r = [e \in EventIds |-> r[e]]
      BY <2>1 DEF ReturnGet, ReturnWait, Renumber
    <3> HIDE DEF q, r
    <3> QED BY <1>1, <3>3, <3>4 DEF Carries, KeepsTurn, SameRequest
  <2>2. CASE MultiFull(t)
    <3>1. Req(t) \notin InTable(table)
      BY <1>6, <2>2 DEF MultiFull
    <3> QED BY <1>4, <2>2, <3>1 DEF MultiFull
  <2>3. CASE MultiBlock(t)
    <3>1. /\ Timer(t) \notin InTable(table) /\ Req(t) \notin InTable(table)
          /\ Timer(t) \in EventIds /\ Req(t) \in EventIds /\ Timer(t) # Req(t)
      BY <1>6, <2>3, Ids DEF MultiBlock
    <3>2. /\ ev'[Timer(t)].status = "INPROC" /\ ev'[Req(t)].status = "INPROC"
          /\ \A e \in InTable(table) : ev'[e] = ev[e]
      BY <1>1, <2>3, <3>1 DEF MultiBlock, Request, EventReq
    <3>3. \A e \in InTable(table') : e \in InTable(table) \cup {Timer(t), Req(t)}
      <4>1. /\ InTable(Append(table, Timer(t))) = InTable(table) \cup {Timer(t)}
            /\ Append(table, Timer(t)) \in Seq(EventIds)
        BY <1>1, <3>1, AppendIn
      <4>2. InTable(Append(Append(table, Timer(t)), Req(t)))
              = InTable(Append(table, Timer(t))) \cup {Req(t)}
        BY <3>1, <4>1, AppendIn
      <4> QED BY <1>1, <2>3, <4>1, <4>2, AddedRequests DEF MultiBlock, MultiReqs
    <3> QED BY <3>2, <3>3 DEF Carries, KeepsTurn
  <2>4. CASE ReturnMulti(t)
    <3>1. PICK x : table' = Table2(t)
                   /\ ev' = [Reqs2(t) EXCEPT ![Timer(t)] = NoRequest, ![Req(t)] = x]
      BY <2>4, ReturnMultiReqs
    <3>2. ASSUME NEW e \in InTable(Table2(t))
          PROVE  e \in InTable(table) /\ KeepsTurn(ev[e], ev'[e])
      <4>1. e \in EventIds /\ e \in InTable(table) /\ e # Timer(t) /\ e # Req(t)
            /\ Reqs2(t) \in [EventIds -> EventReq] /\ SameRequest(Reqs2(t)[e], ev[e])
        BY <1>1, DroppingBoth DEF Indexed
      <4> QED BY <3>1, <4>1 DEF KeepsTurn, SameRequest
    <3> QED BY <3>1, <3>2 DEF Carries
  <2> QED BY <1>10, <2>1, <2>2, <2>3, <2>4 DEF Return
<1>11. ASSUME NEW t \in Threads, Dispatch(t) \/ DispatchEarly(t) PROVE Carries
  <2>1. PICK E : /\ ev' = Answer(E, "COMPLETE")
                 /\ \A e \in E : e \in Timers \/ ev[e].obj = t
    BY ZenonT(40), <1>11 DEF Dispatch, DispatchEarly, TurnWaits, Waiting
  <2>2. ASSUME NEW e \in InTable(table) PROVE KeepsTurn(ev[e], ev'[e])
    <3>1. e \in E => ev[e].obj \notin Sems
      <4>1. ASSUME e = Timer(e[1]) PROVE ev[e].obj = None
        BY <4>1, Owner DEF TimersFree
      <4> QED BY <2>1, <4>1, ObjectAssumption DEF Timers
    <3> QED BY <1>1, <2>1, <3>1 DEF KeepsTurn, Answer, EventReq
  <2>3. UNCHANGED table
    BY <1>11 DEF Dispatch, DispatchEarly
  <2> QED BY <1>3, <2>2, <2>3
<1> QED BY <1>2, <1>7, <1>8, <1>9, <1>10, <1>11 DEF Next, vars

\* What the given requests carry cannot have grown.
LEMMA FewerCounts ==
  ASSUME IInv, IInv', NEW s \in Sems, sem'[s].count <= sem[s].count,
         \A e \in Given(s)' : e \in Given(s) /\ ev'[e].len = ev[e].len
  PROVE  ~(Counts(s)' > Counts(s))
<1>1. CountsAre /\ CountsAre'
  BY CountsSum, PTL
<1>2. PICK S, R : S = Given(s) /\ R = Given(s)' /\ R \subseteq S
  OBVIOUS
<1>3. /\ IsFiniteSet(InTable(table)) /\ InTable(table) \subseteq EventIds
      /\ S \subseteq InTable(table)
  BY <1>2, TableFinite DEF IInv, TypeOK, Given, Waiting
<1>4. IsFiniteSet(S) /\ S \in SUBSET EventIds
  BY <1>3, FS_Subset
<1> DEFINE w == [e \in S |-> ev[e].len]
<1>5. w \in [S -> Nat]
  <2>1. \A e \in EventIds : ev[e].len \in 1..MaxReq
    BY DEF IInv, TypeOK, EventReq
  <2> QED BY <1>4, <2>1, BoundAssumption
<1>6. \A e \in S : w[e] = ev[e].len
  OBVIOUS
<1>7. \A e \in R : w[e] = ev'[e].len
  BY <1>2
<1> HIDE DEF w
<1>8. PICK g : Totals(g, S, w)
  BY <1>4, TotalsExist
<1>9. Counts(s) = sem[s].count + g[S]
  BY <1>1, <1>2, <1>4, <1>5, <1>6, <1>8 DEF CountsAre
<1>10. Counts(s)' = sem'[s].count + g[R]
  BY <1>1, <1>2, <1>4, <1>5, <1>7, <1>8 DEF CountsAre
<1>11. g[R] <= g[S] /\ g[R] \in Nat /\ g[S] \in Nat
  BY <1>2, <1>4, <1>5, <1>8, TotalsGrow, TotalsTake
<1>12. sem[s].count \in Nat /\ sem'[s].count \in Nat
  BY BoundAssumption DEF IInv, TypeOK
<1> QED BY <1>9, <1>10, <1>11, <1>12

(***************************************************************************)
(* A post hands out no more than was there and what it brings: with the    *)
(* requests up to entry i the counts given away are at most what the loop  *)
(* has taken off.                                                          *)
(***************************************************************************)
LEMMA PostMakes ==
  ASSUME IInv, IInv', NEW t \in Threads, NEW s \in Sems, NEW n \in 1..MaxReq,
         SyPostSem(t, s, n)
  PROVE  Counts(s)' <= Counts(s) + n
<1>1. /\ TypeOK /\ Len(table) \in Nat /\ DOMAIN table = 1..Len(table)
      /\ sem[s].count \in Nat /\ n \in Nat
  BY BoundAssumption DEF IInv, TypeOK
<1>2. PICK left \in [0..Len(table) -> 0..(sem[s].count + n)] :
        /\ left[0] = sem[s].count + n
        /\ \A i \in DOMAIN table :
             left[i] = IF Grants(s, i, left[i - 1])
                       THEN left[i - 1] - ev[table[i]].len ELSE left[i - 1]
        /\ LET G == {e \in InTable(table) :
                       \E i \in DOMAIN table : table[i] = e /\ Grants(s, i, left[i - 1])}
           IN /\ ev' = Answer(G, "COMPLETE")
              /\ Enter(t, Wake(status, G))
        /\ sem' = [sem EXCEPT ![s].count = left[Len(table)]]
        /\ table' = table
  BY DEF SyPostSem
<1>0. PICK T, N : T = InTable(table) /\ N = Len(table)
  OBVIOUS
<1> DEFINE w == [e \in T |-> ev[e].len]
           D(i) == Given(s) \cup {e \in T : \E j \in 1..i : table[j] = e /\ Grants(s, j, left[j - 1])}
<1>3. IsFiniteSet(T) /\ T \in SUBSET EventIds
  BY <1>0, TableFinite DEF IInv, TypeOK
<1>4. \A e \in EventIds : ev[e] \in EventReq /\ ev[e].len \in Nat \ {0}
  <2>1. \A e \in EventIds : ev[e] \in EventReq /\ ev[e].len \in 1..MaxReq
    BY DEF IInv, TypeOK, EventReq
  <2> QED BY <2>1, BoundAssumption
<1>5. w \in [T -> Nat] /\ \A e \in T : w[e] = ev[e].len
  BY <1>3, <1>4
<1>6. PICK g : Totals(g, T, w)
  BY <1>3, TotalsExist
<1> HIDE DEF w
<1>7. Given(s) \subseteq T /\ D(0) = Given(s) /\ \A i \in 0..N : D(i) \in SUBSET T
  BY <1>0 DEF Given, Waiting
<1>8. Given(s)' = D(N) /\ \A e \in T : ev'[e].len = ev[e].len
  <2>1. PICK G : /\ G = {e \in InTable(table) :
                       \E i \in DOMAIN table : table[i] = e /\ Grants(s, i, left[i - 1])}
                 /\ ev' = Answer(G, "COMPLETE")
    BY <1>2
  <2>2. \A e \in T : ev'[e] = IF e \in G THEN [ev[e] EXCEPT !.status = "COMPLETE"] ELSE ev[e]
    BY <1>3, <2>1 DEF Answer
  <2>3. \A e \in T : /\ ev'[e].obj = ev[e].obj /\ ev'[e].len = ev[e].len
                     /\ ev'[e].status = IF e \in G THEN "COMPLETE" ELSE ev[e].status
    BY ZenonT(40), <1>3, <1>4, <2>2 DEF EventReq
  <2>4. \A e \in G : e \in T /\ ev[e].obj = s
    BY <1>0, <2>1 DEF Grants
  <2>5. Given(s)' = {e \in T : ev'[e].obj = s /\ ev'[e].status = "COMPLETE"}
    BY <1>0, <1>2 DEF Given, Waiting
  <2>6. Given(s) = {e \in T : ev[e].obj = s /\ ev[e].status = "COMPLETE"}
    BY <1>0 DEF Given, Waiting
  <2>7. Given(s)' = Given(s) \cup G
    BY <2>3, <2>4, <2>5, <2>6
  <2> QED BY <1>0, <1>1, <2>1, <2>3, <2>7
<1>21. PICK G, h : G = g[Given(s)] /\ h = [i \in 0..N |-> g[D(i)]]
  OBVIOUS
<1> DEFINE B == {i \in 0..N : h[i] <= G + (left[0] - left[i])}
<1>9. \A S \in SUBSET T : g[S] \in Nat /\ \A x \in S : g[S] = w[x] + g[S \ {x}]
  BY <1>3, <1>5, <1>6, TotalsTake
<1>10. \A i \in 0..N : left[i] \in Nat
  BY <1>0, <1>1
<1>11. 0 \in B
  <2>1. left[0] \in Nat /\ G \in Nat /\ 0 \in 0..N
    BY <1>0, <1>1, <1>7, <1>9, <1>10, <1>21
  <2>2. h[0] = G
    BY <1>7, <1>21, <2>1
  <2>3. left[0] - left[0] = 0
    BY <2>1
  <2> QED BY <2>1, <2>2, <2>3
<1>12. ASSUME NEW i \in 1..N, i - 1 \in B PROVE i \in B
  <2>0. i - 1 \in 0..N /\ i \in 0..N
    BY <1>0, <1>1
  <2>1. g[D(i - 1)] <= g[Given(s)] + (left[0] - left[i - 1])
    BY <1>12, <1>21, <2>0
  <2>2. /\ i \in 0..N /\ i - 1 \in 0..N /\ 0 \in 0..N /\ i \in Nat
        /\ i \in DOMAIN table /\ table[i] \in T
    BY <1>0, <1>1 DEF InTable
  <2>3. /\ D(i) \in SUBSET T /\ D(i - 1) \in SUBSET T
        /\ g[D(i)] \in Nat /\ g[D(i - 1)] \in Nat /\ g[Given(s)] \in Nat
        /\ left[0] \in Nat /\ left[i] \in Nat /\ left[i - 1] \in Nat
    BY <1>7, <1>9, <1>10, <2>2
  <2>4. CASE Grants(s, i, left[i - 1])
    <3>1. left[i] = left[i - 1] - ev[table[i]].len /\ w[table[i]] = ev[table[i]].len
          /\ ev[table[i]].len \in Nat
      BY <1>0, <1>2, <1>3, <1>4, <1>5, <2>2, <2>4
    <3>2. D(i) = D(i - 1) \cup {table[i]}
      <4>1. \A j \in 1..i : j = i \/ j \in 1..(i - 1)
        BY <2>2
      <4>2. \A j \in 1..(i - 1) : j \in 1..i
        BY <2>2
      <4>3. i \in 1..i
        BY <2>2
      <4> QED BY <2>2, <2>4, <4>1, <4>2, <4>3
    <3>3. g[D(i)] <= w[table[i]] + g[D(i - 1)]
      <4> HIDE DEF D
      <4>1. CASE table[i] \in D(i - 1)
        <5>1. D(i) = D(i - 1)
          BY <3>2, <4>1
        <5> QED BY <2>3, <3>1, <5>1
      <4>2. CASE table[i] \notin D(i - 1)
        <5>1. D(i) \ {table[i]} = D(i - 1) /\ table[i] \in D(i)
          BY <3>2, <4>2
        <5>2. g[D(i)] = w[table[i]] + g[D(i - 1)]
          BY <1>9, <2>3, <5>1
        <5> QED BY <2>3, <3>1, <5>2
      <4> QED BY <4>1, <4>2
    <3>4. PICK a, b, c, k, l, m, x : /\ a = g[D(i)] /\ b = g[D(i - 1)] /\ c = g[Given(s)]
                                     /\ k = left[0] /\ l = left[i] /\ m = left[i - 1]
                                     /\ x = w[table[i]]
      OBVIOUS
    <3> HIDE DEF D
    <3>5. /\ a \in Nat /\ b \in Nat /\ c \in Nat /\ k \in Nat /\ l \in Nat /\ m \in Nat /\ x \in Nat
          /\ b <= c + (k - m) /\ l = m - x /\ a <= x + b
      BY <2>1, <2>3, <3>1, <3>3, <3>4
    <3>6. a <= c + (k - l)
      BY ONLY <3>5
    <3>7. g[D(i)] <= g[Given(s)] + (left[0] - left[i])
      BY <3>4, <3>6
    <3> QED BY <1>21, <2>0, <3>7
  <2>5. CASE ~Grants(s, i, left[i - 1])
    <3>1. left[i] = left[i - 1]
      BY <1>2, <2>2, <2>5
    <3>2. D(i) = D(i - 1)
      <4>1. \A j \in 1..i : j = i \/ j \in 1..(i - 1)
        BY <2>2
      <4>2. \A j \in 1..(i - 1) : j \in 1..i
        BY <2>2
      <4> QED BY <2>5, <4>1, <4>2
    <3> HIDE DEF D
    <3> QED BY <1>21, <2>0, <2>1, <3>1, <3>2
  <2> QED BY <2>4, <2>5
<1>13. N \in B
  <2> HIDE DEF B
  <2>1. N \in Nat
    BY <1>0, <1>1
  <2>2. N \in 0..N
    BY <2>1
  <2>3. \A i \in 1..N : i - 1 \in B => i \in B
    BY <1>12
  <2>4. \A i \in 0..N : i \in B
    BY ONLY <1>11, <2>1, <2>3, UpTo
  <2> QED BY <2>2, <2>4
<1>14. PICK Z : Z = D(N)
  OBVIOUS
<1>15. g[Z] <= g[Given(s)] + (left[0] - left[N])
       /\ Z \in SUBSET T /\ g[Z] \in Nat /\ g[Given(s)] \in Nat
  <2>1. N \in 0..N
    BY <1>0, <1>1
  <2> QED BY <1>7, <1>9, <1>13, <1>14, <1>21, <2>1
<1>16. Z = Given(s)'
  BY <1>8, <1>14
<1> HIDE DEF D
<1>17. CountsAre /\ CountsAre'
  BY CountsSum, PTL
<1>18. Counts(s) = sem[s].count + g[Given(s)]
  BY <1>3, <1>5, <1>6, <1>7, <1>17 DEF CountsAre
<1>19. Counts(s)' = sem'[s].count + g[Z]
  <2>1. \A e \in Given(s)' : w[e] = ev'[e].len
    BY <1>5, <1>8, <1>15, <1>16
  <2> QED BY <1>3, <1>5, <1>6, <1>15, <1>16, <1>17, <2>1 DEF CountsAre
<1>20. sem'[s].count = left[N] /\ left[N] \in Nat /\ left[0] = sem[s].count + n
  BY <1>0, <1>1, <1>2, <1>10 DEF TypeOK
<1> QED BY <1>1, <1>15, <1>18, <1>19, <1>20

(***************************************************************************)
(* Counts come into being only in syCreateSem and syPostSem, and no more   *)
(* than those were asked for, for any number of waiters and whatever they  *)
(* ask for: the loop of syPostSem gives no count twice, and none of those  *)
(* it gives away stays in the semaphore.                                   *)
(***************************************************************************)
THEOREM NoCountsMade == Spec => CountsNotMade
<1>1. ASSUME IInv, IInv', TimersFree, [Next]_vars
      PROVE  \A s \in Sems : Counts(s)' > Counts(s) =>
               \/ sem[s].state = "free"
               \/ \E n \in 1..MaxReq : Posts(s, n) /\ Counts(s)' <= Counts(s) + n
  <2> SUFFICES ASSUME NEW s \in Sems, Counts(s)' > Counts(s), sem[s].state # "free"
               PROVE  \E n \in 1..MaxReq : Posts(s, n) /\ Counts(s)' <= Counts(s) + n
    OBVIOUS
  <2>1. CASE \E t \in Threads, n \in 1..MaxReq : SyPostSem(t, s, n)
    BY <1>1, <2>1, PostMakes DEF Posts
  <2>2. CASE ~ \E t \in Threads, n \in 1..MaxReq : SyPostSem(t, s, n)
    <3>1. sem'[s].count <= sem[s].count
      BY <1>1, <2>2, CountRises
    <3>2. ASSUME NEW e \in Given(s)' PROVE e \in Given(s) /\ ev'[e].len = ev[e].len
      <4>0. e \in InTable(table') /\ ev'[e].obj = s /\ ev'[e].status = "COMPLETE"
        BY <3>2 DEF Given, Waiting
      <4>1. CASE Carries
        BY <4>0, <4>1 DEF Given, Waiting, Carries, KeepsTurn
      <4>2. CASE \E t \in Threads, r \in Sems, n \in 1..MaxReq : SyPostSem(t, r, n)
        <5>1. PICK t \in Threads, r \in Sems, n \in 1..MaxReq : SyPostSem(t, r, n)
          BY <4>2
        <5>2. r # s /\ table' = table
          <6>1. r # s
            BY <2>2, <5>1
          <6>2. table' = table
            BY <5>1 DEF SyPostSem
          <6> QED BY <6>1, <6>2
        <5>3. PICK left, G : PostGives(r, n, left, G)
          BY <1>1, <5>1, PostLoop
        <5>4. e \in EventIds /\ ev[e] \in EventReq
          BY <1>1, <4>0, <5>2, Owner DEF IInv, TypeOK
        <5>5. ev'[e] = IF e \in G THEN [ev[e] EXCEPT !.status = "COMPLETE"] ELSE ev[e]
          BY <5>3, <5>4 DEF PostGives, Answer
        <5>6. e \in G => ev[e].obj = r
          <6>1. PICK i \in DOMAIN table : table[i] = e
            BY <4>0, <5>2 DEF InTable
          <6> QED BY <5>3, <6>1 DEF PostGives
        <5>7. e \notin G
          BY <4>0, <5>2, <5>4, <5>5, <5>6 DEF EventReq
        <5> QED BY <4>0, <5>2, <5>5, <5>7 DEF Given, Waiting
      <4> QED BY <1>1, <4>1, <4>2, NextCarries
    <3> QED BY <1>1, <3>1, <3>2, FewerCounts
  <2> QED BY <2>1, <2>2
<1>2. Init => IInv /\ TimersFree
  <2>1. ASSUME Init, NEW t \in Threads PROVE ev[Timer(t)].obj = None
    <3>1. Timer(t) \in EventIds
      BY Ids
    <3> QED BY <2>1, <3>1 DEF Init, NoRequest
  <2> QED BY <2>1, InitInv DEF TimersFree
<1>3. (IInv /\ TimersFree) /\ [Next]_vars => (IInv /\ TimersFree)'
  BY NextInv, NextTimersFree
<1>4. (IInv /\ TimersFree) /\ (IInv /\ TimersFree)' /\ [Next]_vars =>
        [\A s \in Sems : Counts(s)' > Counts(s) =>
           \/ sem[s].state = "free"
           \/ \E n \in 1..MaxReq : Posts(s, n) /\ Counts(s)' <= Counts(s) + n]_vars
  BY <1>1
<1> QED BY <1>2, <1>3, <1>4, PTL DEF Spec, CountsNotMade

-----------------------------------------------------------------------------
(***************************************************************************)
(* A semaphore used as a mutex excludes, and is a fair lock, for any       *)
(* number of threads.                                                      *)
(***************************************************************************)
(***************************************************************************)
(* The one count is in the semaphore, with the thread inside, or with the  *)
(* first request of the table; the thread that was given it in the table   *)
(* holds the mutex as much as one that has returned.                       *)
(***************************************************************************)
Handed ==
  \A i \in DOMAIN table :
    ev[table[i]].status # "INPROC" => i = 1 /\ inside = {}

Users ==
  /\ inside \subseteq Threads
  /\ \A t \in Threads : call[t] \in {"none", "get"}
  /\ \A t \in inside : call[t] = "none"
  /\ \A i \in DOMAIN table : ev[table[i]].obj = Mutex /\ ev[table[i]].len = 1
  /\ current # None => status[current] = "EXECUTING"

OneCount ==
  /\ sem[Mutex].count \in {0, 1}
  /\ sem[Mutex].count = 1 \/ sem[Mutex].state = "free"
       => table = <<>> /\ inside = {}

MInv == Users /\ Handed /\ OneCount /\ Exclusive

-----------------------------------------------------------------------------
\* What the users of the mutex do, the threads of MTask may do.
LEMMA StepIsNext ==
  ASSUME NEW t \in Threads, MStep(t) \/ Run(t)
  PROVE  Next
<1>1. Mutex \in Sems /\ 1 \in 1..MaxReq /\ 1 \in 0..MaxCount
  BY MutexAssumption, BoundAssumption
<1>2. "post" \in Ops /\ "get" \in Ops /\ "create" \in Ops /\ "yield" \in Ops /\ "exit" \in Ops
  BY MutexAssumption
<1>3. Make(t) \/ Take(t) \/ Wait(t) \/ Leave(t) => SemStep(t)
  BY <1>1, <1>2 DEF Make, Take, Wait, Leave, SemStep
<1>4. Elsewhere(t) => ThreadStep(t)
  BY <1>2 DEF Elsewhere, ThreadStep
<1>5. Taken(t) => Return(t)
  BY DEF Taken, Return
<1>6. Run(t) => Dispatch(t)
  BY DEF Run
<1> QED BY <1>3, <1>4, <1>5, <1>6 DEF MStep, Next

LEMMA Entries ==
  ASSUME IInv, Users
  PROVE  /\ Len(table) \in Nat /\ DOMAIN table = 1..Len(table)
         /\ \A i \in DOMAIN table :
              /\ table[i] \in EventIds /\ table[i] \in InTable(table)
              /\ table[i][1] \in Threads /\ table[i] = Req(table[i][1])
              /\ call[table[i][1]] = "get"
              /\ \A j \in DOMAIN table : table[j] = table[i] => j = i
<1>1. Len(table) \in Nat /\ DOMAIN table = 1..Len(table)
  BY DEF IInv, TypeOK
<1>2. ASSUME NEW i \in DOMAIN table
      PROVE  /\ table[i] \in EventIds /\ table[i] \in InTable(table)
             /\ table[i][1] \in Threads /\ table[i] = Req(table[i][1])
             /\ call[table[i][1]] = "get"
  <2>1. table[i] \in InTable(table)
    BY DEF InTable
  <2>2. /\ table[i] \in EventIds /\ table[i][1] \in Threads
        /\ InWait(table[i][1]) /\ table[i] \in RequestsOf(table[i][1])
    BY <2>1, Owner
  <2>3. call[table[i][1]] = "get"
    BY <2>2 DEF InWait, Users
  <2> QED BY <2>1, <2>2, <2>3 DEF RequestsOf
<1>3. \A i, j \in DOMAIN table : table[j] = table[i] => j = i
  BY DEF IInv, TableExact
<1> QED BY <1>1, <1>2, <1>3

\* No thread waits for a thread or a timer.
LEMMA NoOtherWaits ==
  ASSUME IInv, Users, NEW t \in Threads
  PROVE  Waiting(t) = {} /\ TurnWaits(t) = {} /\ Timers = {}
<1>1. t # Mutex
  BY MutexAssumption, ObjectAssumption
<1>2. Waiting(t) = {}
  BY <1>1 DEF Users, Waiting, InTable
<1>3. Timers = {}
  BY Entries DEF Timers, InTable, Req, Timer
<1> QED BY <1>2, <1>3 DEF TurnWaits

\* Steps that wait for nothing and answer nothing.
LEMMA QuietMutex ==
  ASSUME MInv, UNCHANGED <<table, ev, call, inside>>,
         current' # None => status'[current'] = "EXECUTING", OneCount'
  PROVE  MInv'
<1>1. Users' /\ Handed' /\ Exclusive'
  BY DEF MInv, Users, Handed, Exclusive
<1> QED BY <1>1 DEF MInv

LEMMA EnteredRuns ==
  ASSUME NEW t \in Threads, NEW st \in [Threads -> Statuses], Enter(t, st)
  PROVE  current' # None => status'[current'] = "EXECUTING"
BY EnterStatus

LEMMA NobodyAnswered == ASSUME IInv PROVE Ended(ev, {}) = ev /\ Answer({}, "COMPLETE") = ev
BY DEF IInv, TypeOK, Ended, Answer

LEMMA MakeMutex ==
  ASSUME IInv, MInv, NEW t \in Threads, Make(t)
  PROVE  MInv'
<1>1. sem'[Mutex] = [state |-> "open", count |-> 1] /\ sem[Mutex].state = "free"
  BY MutexAssumption DEF Make, SyCreateSem, IInv, TypeOK
<1>2. OneCount'
  BY <1>1 DEF Make, SyCreateSem, MInv, OneCount
<1> QED BY <1>2, QuietMutex DEF Make, SyCreateSem, MInv, Users

LEMMA ElsewhereMutex ==
  ASSUME IInv, MInv, NEW t \in Threads, Elsewhere(t)
  PROVE  MInv' /\ UNCHANGED <<table, ev, call, inside>>
<1>0. status \in [Threads -> Statuses] /\ UNCHANGED inside
  BY DEF IInv, TypeOK, Elsewhere
<1>1. ASSUME NEW u \in Threads, ThCreate(t, u)
      PROVE  MInv' /\ UNCHANGED <<table, ev, call>>
  <2>1. [status EXCEPT ![u] = "RUNNABLE"] \in [Threads -> Statuses]
    BY <1>0 DEF Statuses
  <2>2. current' # None => status'[current'] = "EXECUTING"
    BY <1>1, <2>1, EnteredRuns DEF ThCreate
  <2>3. OneCount' /\ UNCHANGED <<table, ev, call>>
    BY <1>0, <1>1 DEF ThCreate, MInv, OneCount
  <2> QED BY <1>0, <2>2, <2>3, QuietMutex
<1>2. ASSUME ThYield(t) PROVE MInv' /\ UNCHANGED <<table, ev, call>>
  <2>1. [status EXCEPT ![t] = "RUNNABLE"] \in [Threads -> Statuses]
    BY <1>0 DEF Statuses
  <2>2. current' # None => status'[current'] = "EXECUTING"
    BY <1>2, <2>1, EnteredRuns DEF ThYield
  <2>3. OneCount' /\ UNCHANGED <<table, ev, call>>
    BY <1>0, <1>2 DEF ThYield, MInv, OneCount
  <2> QED BY <1>0, <2>2, <2>3, QuietMutex
<1>3. ASSUME ThExit(t) PROVE MInv' /\ UNCHANGED <<table, ev, call>>
  <2>1. Waiting(t) = {}
    BY NoOtherWaits DEF MInv
  <2>2. OneCount' /\ UNCHANGED <<table, ev, call>> /\ current' = None
    BY <1>0, <1>3, <2>1, NobodyAnswered DEF ThExit, MInv, OneCount
  <2> QED BY <1>0, <2>2, QuietMutex
<1> QED BY <1>0, <1>1, <1>2, <1>3 DEF Elsewhere

LEMMA RunMutex ==
  ASSUME IInv, MInv, NEW t \in Threads, Run(t)
  PROVE  MInv' /\ UNCHANGED <<table, ev, call, inside>>
<1>1. Timers = {} /\ TurnWaits(t) = {}
  BY NoOtherWaits DEF MInv
<1>2. PICK due \in SUBSET Timers :
        LET st == Wake(status, due) IN
        /\ ev' = Answer(due \cup TurnWaits(t), "COMPLETE")
        /\ status' = [Wake(st, TurnWaits(t)) EXCEPT ![t] = "EXECUTING"]
  BY DEF Run, Dispatch
<1>3. ev' = ev
  BY <1>1, <1>2, NobodyAnswered
<1>4. status'[t] = "EXECUTING"
  BY <1>2 DEF Wake
<1>5. OneCount' /\ UNCHANGED <<table, call, inside>> /\ current' = t
  BY DEF Run, Dispatch, MInv, OneCount
<1> QED BY <1>3, <1>4, <1>5, QuietMutex

LEMMA TakeMutex ==
  ASSUME IInv, MInv, NEW t \in Threads, Take(t)
  PROVE  MInv' /\ table = <<>> /\ table' = <<>> /\ inside = {} /\ inside' = {t}
<1>1. /\ sem[Mutex].count = 1 /\ sem[Mutex].state # "free" /\ call[t] = "none"
      /\ sem'[Mutex] = [sem[Mutex] EXCEPT !.count = 0]
      /\ UNCHANGED <<table, ev, call>> /\ Enter(t, status)
      /\ status \in [Threads -> Statuses] /\ inside' = inside \cup {t}
  <2>1. sem \in [Sems -> [state : {"free", "open", "closing"}, count : 0..MaxCount]]
    BY DEF IInv, TypeOK
  <2>2. /\ sem[Mutex].count \in {0, 1} /\ sem[Mutex].count >= 1 /\ sem[Mutex].state # "free"
        /\ sem' = [sem EXCEPT ![Mutex].count = @ - 1]
    BY DEF Take, SyGetSemAvailable, MInv, OneCount
  <2>3. sem[Mutex].count = 1
    BY <2>2
  <2>4. sem'[Mutex] = [sem[Mutex] EXCEPT !.count = 0]
    BY <2>1, <2>2, <2>3, MutexAssumption
  <2> QED BY <2>2, <2>3, <2>4 DEF Take, SyGetSemAvailable, Running, IInv, TypeOK
<1>2. table = <<>> /\ inside = {} /\ inside' = {t}
  BY <1>1 DEF MInv, OneCount
<1>3. sem'[Mutex].count = 0 /\ sem'[Mutex].state # "free"
  <2>1. sem[Mutex] \in [state : {"free", "open", "closing"}, count : 0..MaxCount]
    BY MutexAssumption DEF IInv, TypeOK
  <2> QED BY <1>1, <2>1
<1>4. Users'
  <2>1. current' # None => status'[current'] = "EXECUTING"
    BY <1>1, EnteredRuns
  <2> QED BY <1>1, <1>2, <2>1 DEF MInv, Users
<1>5. Handed' /\ OneCount' /\ Exclusive'
  BY <1>1, <1>2, <1>3 DEF Handed, OneCount, Exclusive
<1> QED BY <1>1, <1>2, <1>4, <1>5 DEF MInv

\* Everything else in the table, the new request is in process.
LEMMA WaitMutex ==
  ASSUME IInv, MInv, NEW t \in Threads, Wait(t)
  PROVE  MInv' /\ table' = Append(table, Req(t)) /\ UNCHANGED inside /\ call[t] = "none"
<1>1. /\ sem[Mutex].count = 0 /\ sem[Mutex].state # "free" /\ call[t] = "none"
      /\ t \notin inside
      /\ table' = Append(table, Req(t))
      /\ ev' = [ev EXCEPT ![Req(t)] = Request(Mutex, "SEM_GET", 1, Len(table) + 1)]
      /\ call' = [call EXCEPT ![t] = "get"]
      /\ Enter(t, [status EXCEPT ![t] = "BLOCKED"])
      /\ UNCHANGED <<sem, inside>>
  BY DEF Wait, SyGetSemBlock, Running, MInv, OneCount
<1>2. /\ ev \in [EventIds -> EventReq] /\ Req(t) \in EventIds
      /\ table \in Seq(EventIds) /\ call \in [Threads -> {"none", "get", "wait", "enter", "multi"}]
  BY Ids DEF IInv, TypeOK
<1>3. /\ Len(table) \in Nat /\ DOMAIN table = 1..Len(table)
      /\ DOMAIN table' = 1..(Len(table) + 1) /\ table'[Len(table) + 1] = Req(t)
      /\ \A i \in 1..Len(table) : table'[i] = table[i]
  BY <1>1, <1>2
<1>4. \A i \in DOMAIN table : table[i] \in EventIds /\ table[i] # Req(t)
  <2>1. Req(t)[1] = t
    BY DEF Req
  <2> QED BY <1>1, <2>1, Entries DEF MInv
<1>5. /\ \A i \in DOMAIN table : ev'[table[i]] = ev[table[i]]
      /\ ev'[Req(t)].obj = Mutex /\ ev'[Req(t)].len = 1 /\ ev'[Req(t)].status = "INPROC"
  BY <1>1, <1>2, <1>4 DEF Request
<1>6. ASSUME NEW i \in DOMAIN table'
      PROVE  /\ ev'[table'[i]].obj = Mutex /\ ev'[table'[i]].len = 1
             /\ ev'[table'[i]].status # "INPROC" => i = 1 /\ inside = {}
  <2>1. CASE i \in DOMAIN table
    BY <1>3, <1>5, <2>1 DEF MInv, Users, Handed
  <2>2. CASE i = Len(table) + 1
    BY <1>3, <1>5, <2>2
  <2> QED BY <1>3, <2>1, <2>2
<1>7. current' # None => status'[current'] = "EXECUTING"
  <2>1. [status EXCEPT ![t] = "BLOCKED"] \in [Threads -> Statuses]
    BY DEF IInv, TypeOK, Statuses
  <2> QED BY <1>1, <2>1, EnteredRuns
<1>8. Users'
  BY <1>1, <1>2, <1>6, <1>7 DEF MInv, Users
<1>9. Handed' /\ OneCount' /\ Exclusive'
  BY <1>1, <1>6 DEF MInv, Handed, OneCount, Exclusive
<1> QED BY <1>1, <1>8, <1>9 DEF MInv

(***************************************************************************)
(* The thread that returns from its wait was the first of the table.       *)
(***************************************************************************)
LEMMA TakenMutex ==
  ASSUME IInv, MInv, NEW t \in Threads, Taken(t)
  PROVE  /\ MInv'
         /\ 1 \in DOMAIN table /\ table[1] = Req(t) /\ table' = Shift(table, 1)
         /\ inside = {} /\ inside' = {t}
<1> DEFINE k == ev[Req(t)].idx
<1>1. /\ current = t /\ call[t] = "get" /\ inside' = inside \cup {t}
      /\ table' = Shift(table, k)
      /\ ev' = [Renumber(ev, Shift(table, k), k) EXCEPT ![Req(t)] = NoRequest]
      /\ call' = [call EXCEPT ![t] = "none"]
      /\ UNCHANGED <<status, current, sem>>
  BY DEF Taken, ReturnGet
<1>2. ev[Req(t)].status # "INPROC" /\ Req(t) \in InTable(table)
  <2>0. Req(t) # Timer(t) /\ t # None
    BY Ids, ObjectAssumption
  <2>1. Req(t) \in RequestsOf(t) /\ InWait(t) /\ status[t] = "EXECUTING"
    BY <1>1, <2>0 DEF RequestsOf, InWait, MInv, Users
  <2>2. Req(t) \in EventIds /\ Req(t)[1] = t
    BY Ids DEF Req
  <2> QED BY <1>1, <2>1, <2>2 DEF IInv, Answered, TableExact
<1>3. k = 1 /\ 1 \in DOMAIN table /\ table[1] = Req(t) /\ inside = {}
  <2>1. PICK i \in DOMAIN table : table[i] = Req(t)
    BY <1>2 DEF InTable
  <2>2. i = 1 /\ inside = {}
    BY <1>2, <2>1 DEF MInv, Handed
  <2>3. k = i
    BY <2>1 DEF IInv, TableExact
  <2> QED BY <2>1, <2>2, <2>3
<1> DEFINE q == Shift(table, 1)
           r == Renumber(ev, q, 1)
<1>4. /\ Indexed(q, r) /\ Len(q) = Len(table) - 1
      /\ \A e \in EventIds : SameRequest(r[e], ev[e])
  BY <1>3, InvIndexed, ShiftRemoves, RenumberIndexes
<1>5. ASSUME NEW i \in DOMAIN q
      PROVE  /\ q[i] = table[i + 1] /\ i + 1 \in DOMAIN table /\ i + 1 # 1
             /\ ev'[q[i]].obj = Mutex /\ ev'[q[i]].len = 1 /\ ev'[q[i]].status = "INPROC"
  <2>1. Len(table) \in Nat /\ DOMAIN table = 1..Len(table)
    BY Entries DEF MInv
  <2>2. i \in 1..(Len(table) - 1) /\ q[i] = table[i + 1] /\ i + 1 \in DOMAIN table /\ i + 1 # 1
    BY <2>1 DEF Shift
  <2>3. table[i + 1] # table[1] /\ table[i + 1] \in EventIds
    BY <1>3, <2>2, Entries DEF MInv
  <2>4. /\ ev[table[i + 1]].obj = Mutex /\ ev[table[i + 1]].len = 1
        /\ ev[table[i + 1]].status = "INPROC"
    BY <2>2 DEF MInv, Users, Handed
  <2>5. r[q[i]].obj = Mutex /\ r[q[i]].len = 1 /\ r[q[i]].status = "INPROC"
    BY <1>4, <2>2, <2>3, <2>4 DEF SameRequest
  <2>6. ev'[q[i]] = r[q[i]]
    BY <1>1, <1>3, <1>4, <2>2, <2>3 DEF Indexed
  <2> QED BY <2>2, <2>5, <2>6
<1>6. table' = q /\ inside' = {t} /\ table # <<>>
  BY <1>1, <1>3
<1> HIDE DEF q, r, k
<1>7. Users'
  <2>1. call'[t] = "none" /\ \A u \in Threads : call'[u] \in {"none", "get"}
    BY <1>1 DEF MInv, Users, IInv, TypeOK
  <2> QED BY <1>1, <1>5, <1>6, <2>1 DEF MInv, Users
<1>8. Handed' /\ OneCount' /\ Exclusive'
  <2>1. Handed' /\ Exclusive'
    BY <1>5, <1>6 DEF Handed, Exclusive
  <2>2. OneCount'
    BY <1>1, <1>6 DEF MInv, OneCount
  <2> QED BY <2>1, <2>2
<1> QED BY <1>3, <1>6, <1>7, <1>8 DEF MInv, q

(***************************************************************************)
(* The holder's post gives its count to the first that waits and to no     *)
(* other, or leaves it in the semaphore of an empty table.                 *)
(***************************************************************************)
LEMMA LeaveMutex ==
  ASSUME IInv, MInv, NEW t \in Threads, Leave(t)
  PROVE  MInv' /\ UNCHANGED table /\ inside = {t} /\ inside' = {}
<1>0. 1 \in 1..MaxReq /\ Mutex \in Sems
  BY BoundAssumption, MutexAssumption
<1>1. /\ inside = {t} /\ inside' = {} /\ sem[Mutex].count = 0 /\ sem[Mutex].state # "free"
      /\ UNCHANGED <<table, call>>
  BY DEF Leave, SyPostSem, MInv, OneCount, Exclusive
<1>2. /\ Len(table) \in Nat /\ DOMAIN table = 1..Len(table)
      /\ sem \in [Sems -> [state : {"free", "open", "closing"}, count : 0..MaxCount]]
      /\ status \in [Threads -> Statuses]
  BY DEF IInv, TypeOK
<1>3. PICK left \in [0..Len(table) -> 0..1] :
        /\ left[0] = 1
        /\ \A i \in DOMAIN table :
             left[i] = IF Grants(Mutex, i, left[i - 1])
                       THEN left[i - 1] - ev[table[i]].len ELSE left[i - 1]
        /\ LET G == {e \in InTable(table) :
                       \E i \in DOMAIN table :
                         table[i] = e /\ Grants(Mutex, i, left[i - 1])}
           IN /\ ev' = Answer(G, "COMPLETE")
              /\ Enter(t, Wake(status, G))
        /\ sem' = [sem EXCEPT ![Mutex].count = left[Len(table)]]
  <2>1. 0 + 1 = 1
    OBVIOUS
  <2> QED BY <1>1, <2>1 DEF Leave, SyPostSem
<1> DEFINE G == {e \in InTable(table) :
                   \E i \in DOMAIN table : table[i] = e /\ Grants(Mutex, i, left[i - 1])}
<1>4. \A i \in DOMAIN table : ev[table[i]].obj = Mutex /\ ev[table[i]].len = 1
  BY DEF MInv, Users
<1>5. ASSUME NEW i \in DOMAIN table
      PROVE  left[i] = 0 /\ (Grants(Mutex, i, left[i - 1]) <=> i = 1)
  <2>1. \A j \in 1..Len(table) : left[j] <= left[j - 1]
    <3> SUFFICES ASSUME NEW j \in 1..Len(table) PROVE left[j] <= left[j - 1]
      OBVIOUS
    <3>1. left[j - 1] \in 0..1 /\ ev[table[j]].len = 1
      BY <1>2, <1>4
    <3> QED BY <1>2, <1>3, <3>1
  <2>2. left[1] = 0 /\ Grants(Mutex, 1, left[1 - 1])
    BY SMTT(30), <1>2, <1>3, <1>4 DEF Grants
  <2>3. left \in [0..Len(table) -> Int]
    OBVIOUS
  <2>4. ASSUME NEW b \in 0..Len(table), 1 <= b PROVE left[b] = 0
    <3>1. 1 \in 0..Len(table) /\ left[b] \in 0..1
      BY <1>2, <2>4
    <3>2. left[b] <= left[1]
      BY <1>2, <2>1, <2>3, <2>4, <3>1, Falls
    <3> QED BY <2>2, <3>1, <3>2
  <2>5. left[i] = 0
    BY <1>2, <2>4
  <2>6. i # 1 => left[i - 1] = 0
    BY <1>2, <2>4
  <2> QED BY <2>2, <2>5, <2>6 DEF Grants
<1>6. ASSUME NEW i \in DOMAIN table PROVE table[i] \in G <=> i = 1
  <2>1. table[i] \in InTable(table) /\ \A j \in DOMAIN table : table[j] = table[i] => j = i
    BY Entries DEF MInv
  <2> QED BY <1>5, <2>1
<1>7. ev' = Answer(G, "COMPLETE") /\ Enter(t, Wake(status, G))
  BY <1>3
<1> HIDE DEF G
<1>8. ASSUME NEW i \in DOMAIN table
      PROVE  /\ ev'[table[i]].obj = Mutex /\ ev'[table[i]].len = 1
             /\ ev'[table[i]].status # "INPROC" => i = 1
  <2>1. table[i] \in EventIds /\ ev \in [EventIds -> EventReq]
    BY Entries DEF MInv, IInv, TypeOK
  <2>2. ev[table[i]].status # "INPROC" => i = 1
    BY DEF MInv, Handed
  <2> QED BY <1>4, <1>6, <1>7, <2>1, <2>2 DEF Answer, EventReq
<1>9. current' # None => status'[current'] = "EXECUTING"
  BY <1>2, <1>7, WakeStatus, EnteredRuns
<1>10. Users' /\ Handed' /\ Exclusive'
  BY <1>1, <1>8, <1>9 DEF MInv, Users, Handed, Exclusive
<1>11. OneCount'
  <2>1. sem'[Mutex].count = left[Len(table)] /\ sem'[Mutex].state # "free"
    BY <1>0, <1>1, <1>2, <1>3
  <2>2. left[Len(table)] \in {0, 1} /\ (left[Len(table)] = 1 => Len(table) = 0)
    <3>1. Len(table) # 0 => Len(table) \in DOMAIN table
      BY <1>2
    <3>2. Len(table) # 0 => left[Len(table)] = 0
      BY <3>1, <1>5
    <3>3. left[Len(table)] \in 0..1
      BY <1>2
    <3> QED BY <3>2, <3>3
  <2>3. Len(table) = 0 => table = <<>>
    BY DEF IInv, TypeOK
  <2> QED BY <1>1, <2>1, <2>2, <2>3 DEF OneCount
<1> QED BY <1>1, <1>10, <1>11 DEF MInv

-----------------------------------------------------------------------------
Both == IInv /\ MInv

LEMMA InitMutex == MInit => Both
<1> SUFFICES ASSUME MInit PROVE Both
  OBVIOUS
<1>1. Init /\ inside = {}
  BY DEF MInit
<1>2. IInv
  BY <1>1, InitInv
<1>3. MInv
  BY <1>1, MutexAssumption
  DEF Init, MInv, Users, Handed, OneCount, Exclusive
<1> QED BY <1>2, <1>3 DEF Both

LEMMA NextMutex == Both /\ [MNext]_mvars => Both'
<1> SUFFICES ASSUME Both, [MNext]_mvars PROVE Both'
  OBVIOUS
<1>1. CASE UNCHANGED mvars
  <2>1. UNCHANGED vars
    BY <1>1 DEF mvars
  <2>2. IInv'
    BY <2>1, NextInv DEF Both
  <2>3. MInv'
    BY <1>1 DEF mvars, vars, Both, MInv, Users, Handed, OneCount, Exclusive
  <2> QED BY <2>2, <2>3 DEF Both
<1>2. ASSUME NEW t \in Threads, MStep(t) \/ Run(t) PROVE Both'
  <2>1. IInv'
    BY <1>2, StepIsNext, NextInv DEF Both
  <2>2. MInv'
    BY <1>2, MakeMutex, TakeMutex, WaitMutex, TakenMutex, LeaveMutex,
       ElsewhereMutex, RunMutex DEF MStep, Both
  <2> QED BY <2>1, <2>2 DEF Both
<1> QED BY <1>1, <1>2 DEF MNext

(***************************************************************************)
(* No two threads are ever inside a mutex made of a semaphore, for any     *)
(* number of threads.                                                      *)
(***************************************************************************)
THEOREM MutualExclusion == MSpec => []Exclusive
<1>1. Both => Exclusive
  BY DEF Both, MInv
<1> QED BY <1>1, InitMutex, NextMutex, PTL DEF MSpec

-----------------------------------------------------------------------------
\* The threads of a wait table, in its order.
LEMMA LineIs ==
  ASSUME NEW q \in Seq(EventIds)
  PROVE  /\ Line(q) \in Seq(Threads) /\ Len(Line(q)) = Len(q)
         /\ DOMAIN q = 1..Len(q) /\ DOMAIN Line(q) = 1..Len(q)
         /\ \A i \in 1..Len(q) : Line(q)[i] = q[i][1]
<1>1. DOMAIN q = 1..Len(q) /\ Len(q) \in Nat
  OBVIOUS
<1>2. \A i \in 1..Len(q) : q[i][1] \in Threads
  BY DEF EventIds
<1> QED BY <1>1, <1>2 DEF Line

LEMMA QueueIs ==
  ASSUME TypeOK
  PROVE  /\ Line(table) \in Seq(Threads)
         /\ inside = {} => Queue = Line(table)
         /\ \A t : inside = {t} => Queue = <<t>> \o Line(table)
<1>1. Line(table) \in Seq(Threads)
  BY LineIs DEF TypeOK
<1>2. inside = {} => Queue = Line(table)
  BY <1>1 DEF Queue
<1>3. ASSUME NEW t, inside = {t} PROVE Queue = <<t>> \o Line(table)
  BY <1>3 DEF Queue
<1> QED BY <1>1, <1>2, <1>3

\* Steps that leave the table and the holder alone leave the queue alone.
LEMMA SameQueue == ASSUME UNCHANGED <<table, inside>> PROVE UNCHANGED Queue
BY DEF Queue

LEMMA TakeAsks ==
  ASSUME IInv, MInv, NEW t \in Threads, Take(t)
  PROVE  Lock!Ask(t)
<1>1. table = <<>> /\ table' = <<>> /\ inside = {} /\ inside' = {t}
  BY TakeMutex
<1>2. Line(<<>>) = <<>>
  BY DEF Line
<1>3. Queue = <<>> /\ Queue' = <<t>>
  <2>1. Queue = <<>> \o <<>> /\ Queue' = <<CHOOSE u \in {t} : TRUE>> \o <<>>
    BY <1>1, <1>2 DEF Queue
  <2>2. (CHOOSE u \in {t} : TRUE) = t
    OBVIOUS
  <2>3. <<>> \o <<>> = <<>> /\ <<t>> \o <<>> = <<t>>
    OBVIOUS
  <2> QED BY <2>1, <2>2, <2>3
<1>4. Queue' = Append(Queue, t)
  BY <1>3
<1> QED BY <1>3, <1>4 DEF Lock!Ask

LEMMA WaitAsks ==
  ASSUME IInv, MInv, NEW t \in Threads, Wait(t)
  PROVE  Lock!Ask(t)
<1> DEFINE L == Line(table)
           M == Line(table')
<1>1. table' = Append(table, Req(t)) /\ UNCHANGED inside /\ call[t] = "none" /\ t \notin inside
  BY WaitMutex DEF Wait
<1>2. /\ table \in Seq(EventIds) /\ table' \in Seq(EventIds)
      /\ Req(t) \in EventIds /\ Req(t)[1] = t
      /\ Len(table') = Len(table) + 1 /\ table'[Len(table) + 1] = Req(t)
      /\ \A i \in 1..Len(table) : table'[i] = table[i]
  BY <1>1, Ids DEF IInv, TypeOK, Req
<1>3. /\ L \in Seq(Threads) /\ M \in Seq(Threads)
      /\ Len(L) = Len(table) /\ Len(M) = Len(table) + 1
      /\ \A i \in 1..Len(L) : L[i] = table[i][1] /\ M[i] = L[i]
      /\ M[Len(L) + 1] = t
  BY <1>2, LineIs
<1>4. \A i \in 1..Len(L) : L[i] # t
  BY <1>1, <1>3, Entries DEF MInv
<1> HIDE DEF L, M
<1>5. M = Append(L, t)
  BY <1>3
<1>6. CASE inside = {}
  <2>1. Queue = L /\ Queue' = M
    BY <1>1, <1>3, <1>6 DEF Queue, L, M
  <2>2. Queue' = Append(Queue, t) /\ \A i \in DOMAIN Queue : Queue[i] # t
    BY <1>3, <1>4, <1>5, <2>1
  <2> QED BY <2>2 DEF Lock!Ask
<1>7. ASSUME NEW u \in Threads, inside = {u} PROVE Lock!Ask(t)
  <2>1. Queue = <<u>> \o L /\ Queue' = <<u>> \o M
    BY <1>1, <1>7 DEF Queue, L, M
  <2>2. <<u>> \o Append(L, t) = Append(<<u>> \o L, t)
    BY <1>3
  <2>3. \A i \in DOMAIN (<<u>> \o L) : (<<u>> \o L)[i] # t
    <3>1. u # t
      BY <1>1, <1>7
    <3>2. /\ DOMAIN (<<u>> \o L) = 1..(Len(L) + 1) /\ (<<u>> \o L)[1] = u
          /\ \A i \in 2..(Len(L) + 1) : (<<u>> \o L)[i] = L[i - 1] /\ i - 1 \in 1..Len(L)
      BY <1>3
    <3> QED BY <1>3, <1>4, <3>1, <3>2
  <2>4. Queue' = Append(Queue, t) /\ \A i \in DOMAIN Queue : Queue[i] # t
    BY <1>5, <2>1, <2>2, <2>3
  <2> QED BY <2>4 DEF Lock!Ask
<1>8. inside = {} \/ \E u \in Threads : inside = {u}
  BY DEF MInv, Users, Exclusive
<1> QED BY <1>6, <1>7, <1>8

LEMMA TakenKeeps ==
  ASSUME IInv, MInv, NEW t \in Threads, Taken(t)
  PROVE  UNCHANGED Queue
<1> DEFINE L == Line(table)
           M == Line(table')
<1>1. /\ 1 \in DOMAIN table /\ table[1] = Req(t) /\ table' = Shift(table, 1)
      /\ inside = {} /\ inside' = {t}
  BY TakenMutex
<1>2. table' \in Seq(EventIds) /\ Len(table') = Len(table) - 1
  BY <1>1, InvIndexed, ShiftRemoves
<1>3. /\ table \in Seq(EventIds) /\ Len(table) \in Nat \ {0}
      /\ \A i \in 1..(Len(table) - 1) : table'[i] = table[i + 1]
  BY <1>1 DEF IInv, TypeOK, Shift
<1>4. L[1] = t
  BY <1>1, <1>3, LineIs DEF Req
<1>5. /\ L \in Seq(Threads) /\ M \in Seq(Threads)
      /\ Len(L) = Len(table) /\ Len(M) = Len(table) - 1
      /\ \A i \in 1..(Len(table) - 1) : M[i] = L[i + 1]
  BY <1>2, <1>3, LineIs
<1> HIDE DEF L, M
<1>6. Queue = L /\ Queue' = <<t>> \o M
  BY <1>1, <1>5 DEF Queue, L, M
<1>7. <<t>> \o M \in Seq(Threads) /\ Len(<<t>> \o M) = Len(L)
  BY <1>3, <1>5
<1>8. ASSUME NEW i \in 1..Len(L) PROVE (<<t>> \o M)[i] = L[i]
  <2>1. CASE i = 1
    BY <1>4, <1>5, <2>1
  <2>2. CASE i # 1
    <3>1. i - 1 \in 1..(Len(table) - 1) /\ (i - 1) + 1 = i
      BY <1>3, <1>5, <2>2
    <3>2. M[i - 1] = L[i]
      BY <1>5, <3>1
    <3>3. (<<t>> \o M)[i] = M[i - 1]
      BY <1>5, <3>1
    <3> QED BY <3>2, <3>3
  <2> QED BY <2>1, <2>2
<1>9. <<t>> \o M = L
  BY <1>5, <1>7, <1>8
<1> QED BY <1>6, <1>9

LEMMA LeaveReleases ==
  ASSUME IInv, MInv, NEW t \in Threads, Leave(t)
  PROVE  Lock!Release(t)
<1>1. UNCHANGED table /\ inside = {t} /\ inside' = {}
  BY LeaveMutex
<1>2. Line(table) \in Seq(Threads) /\ Queue = <<t>> \o Line(table)
  BY <1>1, QueueIs DEF IInv
<1>3. Queue' = Line(table)
  BY <1>1, <1>2 DEF Queue
<1>4. Queue # <<>> /\ Head(Queue) = t /\ Tail(Queue) = Line(table)
  BY <1>2
<1> QED BY <1>3, <1>4 DEF Lock!Release, Lock!Holds

(***************************************************************************)
(* The semaphore implements the lock: syGetSem is Ask, whether it blocks   *)
(* or not, syPostSem is Release, and the wake-up, the return from the wait *)
(* and the scheduling between them are not seen in the queue.              *)
(***************************************************************************)
THEOREM LockImplemented == MSpec => IsFairLock
<1>1. MInit => Lock!Init
  <2>1. MInit => table = <<>> /\ inside = {}
    BY DEF MInit, Init
  <2>2. MInit => Line(table) = <<>>
    BY <2>1 DEF Line
  <2> QED BY <2>1, <2>2 DEF Queue, Lock!Init
<1>2. ASSUME Both, [MNext]_mvars PROVE [Lock!Next]_Queue
  <2>1. CASE UNCHANGED mvars
    BY <2>1, SameQueue DEF mvars, vars
  <2>2. ASSUME NEW t \in Threads, MStep(t) \/ Run(t) PROVE [Lock!Next]_Queue
    <3>1. IInv /\ MInv
      BY <1>2 DEF Both
    <3>2. Make(t) => UNCHANGED Queue
      BY SameQueue DEF Make, SyCreateSem
    <3>3. Elsewhere(t) \/ Run(t) => UNCHANGED Queue
      BY <3>1, ElsewhereMutex, RunMutex, SameQueue
    <3>4. Taken(t) => UNCHANGED Queue
      BY <3>1, TakenKeeps
    <3>5. Take(t) \/ Wait(t) => Lock!Ask(t)
      BY <3>1, TakeAsks, WaitAsks
    <3>6. Leave(t) => Lock!Release(t)
      BY <3>1, LeaveReleases
    <3> QED BY <2>2, <3>2, <3>3, <3>4, <3>5, <3>6 DEF MStep, Lock!Next
  <2> QED BY <1>2, <2>1, <2>2 DEF MNext
<1> QED BY <1>1, <1>2, InitMutex, NextMutex, PTL DEF MSpec, IsFairLock, Lock!Spec
=============================================================================
