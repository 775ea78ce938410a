----------------------------- MODULE NhtSession -----------------------------
(***************************************************************************)
(* Sessions of the HTTP network driver (centrallix/netdrivers,             *)
(* net_http_sess.c and the request path of net_http_conn.c): their         *)
(* reference counts, the lists that publish them, the watchdog timers      *)
(* that end them, and the thread that fires the timers.  The sessions are  *)
(* those of one user.                                                      *)
(*                                                                         *)
(* The threads are MTASK threads: a thread runs until it yields, in a call *)
(* that can enter mtSched().  cpu keeps the processor with the thread      *)
(* between two actions with no such call in between.  syGetSem and         *)
(* syPostSem of TimerDataMutex can always yield; the mutex is the lock of  *)
(* FairLock, which MTaskMutex implements.  The work done inside the mutex  *)
(* and its release are one step.                                           *)
(*                                                                         *)
(* A session structure is used once, so that a use after its release can   *)
(* be told; the memory of a timer is used again.  When a timer is due is   *)
(* left open.                                                              *)
(***************************************************************************)
EXTENDS Lines, FiniteSets

CONSTANTS
  Conns,            \* connection threads
  Watchdog,         \* the thread of nht_i_Watchdog
  Sessions,         \* NhtSessionData structures, each used once
  Timers,           \* NhtTimer structures (addresses, reused)
  None,             \* NULL, and XHN_INVALID_HANDLE
  UserSessionLimit  \* NHT.UserSessionLimit

\* There is always memory for a timer: a session has two in its life.
ASSUME NhtAssumption ==
  /\ IsFiniteSet(Conns) /\ IsFiniteSet(Sessions) /\ IsFiniteSet(Timers)
  /\ Cardinality(Timers) >= 2 * Cardinality(Sessions)
  /\ Watchdog \notin Conns
  /\ None \notin Conns \cup Sessions \cup Timers \cup {Watchdog}
  /\ None \notin Sessions \X {"w", "i"}
  /\ UserSessionLimit \in Nat \ {0}

Threads == Conns \cup {Watchdog}

\* A session is given its watchdog and its inactivity timer once, and handle
\* ids are not used again.
Handles == Sessions \X {"w", "i"}

VARIABLES
  sess,    \* the session structures
  listed,  \* usr->Sessions; NHT.Sessions and the hash tables hold the same
  timer,   \* the timer structures: the Handle of each, None when not allocated
  handle,  \* NHT.TimerHctx: the timer of each handle
  list,    \* NHT.Timers
  mutex,   \* who holds TimerDataMutex and, in order, who waits for it
  me,      \* the threads: where each is, and its variables
  cpu,     \* the thread that has not yielded, or None
  misread, \* history: the handles that another timer's owner was given
  fault    \* freed memory was used: nothing is specified after that

timers == <<timer, handle, list, mutex>>
vars == <<sess, listed, timers, me, cpu, misread, fault>>

\* w and i are WatchdogTimer and InactivityTimer; cookie: a client has it.
Unused == [state |-> "unused", cnt |-> 0, closed |-> FALSE, cookie |-> FALSE,
           w |-> None, i |-> None]

NoTimer == <<None, None>>

\* own is conn->NhtSession, w_timer and i_timer the handles nht_i_ConnHandler
\* copied from it; at the session being retired or unlinked, ret
\* where the thread goes on afterwards; work the timer (and its handle) being
\* added, reset or removed, then where the thread goes on; fired is
\* expired_timer; search and before are search_s and cnt of nht_i_LogoutUser.
Idle == [pc |-> "idle", own |-> None, w_timer |-> None, i_timer |-> None,
         at |-> None, ret |-> "idle", work |-> NoTimer, then |-> "idle",
         fired |-> NoTimer, search |-> None, before |-> 0]

Labels == {"idle", "create", "adding", "added", "addi", "linked", "linkedw",
           "held", "done", "all", "alldone",
           "retire", "rmw", "rmi", "removing", "rmfree", "resetting",
           "delisted", "unlink", "close",
           "scan", "pick", "fire", "wfree"}

TypeOK ==
  LET TimerRef == (Timers \cup {None}) \X (Handles \cup {None}) IN
  /\ sess \in [Sessions -> [state : {"unused", "live", "freed"},
                            cnt : 0..(Cardinality(Conns) + 1),
                            closed : BOOLEAN, cookie : BOOLEAN,
                            w : Handles \cup {None}, i : Handles \cup {None}]]
  /\ listed \in Seq(Sessions)
  /\ timer \in [Timers -> Handles \cup {None}]
  /\ handle \in [Handles -> Timers \cup {None}]
  /\ list \in SUBSET Timers
  /\ mutex \in Seq(Threads)
  /\ me \in [Threads -> [pc : Labels, own : Sessions \cup {None},
                         w_timer : Handles \cup {None},
                         i_timer : Handles \cup {None},
                         at : Sessions \cup {None}, ret : Labels,
                         work : TimerRef, then : Labels, fired : TimerRef,
                         search : Sessions \cup {None},
                         before : 0..Cardinality(Sessions)]]
  /\ cpu \in Threads \cup {None}
  /\ misread \subseteq Handles
  /\ fault \in BOOLEAN

-----------------------------------------------------------------------------
Turn(t, l) == ~fault /\ cpu \in {None, t} /\ me[t].pc = l

\* Thread t goes on with the variables r, having yielded or not.
Go(t, r, c) == me' = [me EXCEPT ![t] = r] /\ cpu' = c
Goto(t, r)  == Go(t, r, None) /\ UNCHANGED <<misread, fault>>
Stay(t, r)  == Go(t, r, t) /\ UNCHANGED <<misread, fault>>

To(t, l) == [me[t] EXCEPT !.pc = l]

\* Thread t is about to retire session s, or to release its reference of s,
\* and goes on at l.
ToRetire(t, s, l) == [me[t] EXCEPT !.pc = "retire", !.at = s, !.ret = l]
ToUnlink(t, s, l) == [me[t] EXCEPT !.pc = "unlink", !.at = s, !.ret = l]
Returned(t) == [me[t] EXCEPT !.pc = me[t].ret, !.at = None, !.ret = "idle"]

\* Thread t is done with its timer.
After(t, l) == [me[t] EXCEPT !.pc = l, !.work = NoTimer, !.then = "idle"]

Freed(s) == sess[s].state = "freed"

\* NHT.TimerDataMutex is the lock that MTaskMutex implements.
Lock == INSTANCE FairLock WITH Clients <- Threads, queue <- mutex

\* Mutant: the last to ask is the first to be answered.
AcquireLast(t) ==
  mutex' = IF mutex = <<>> THEN <<t>> ELSE <<Head(mutex), t>> \o Tail(mutex)

Acquire(t) == Lock!Ask(t)
Holds(t)   == Lock!Holds(t)
Release    == \E t \in Threads : Lock!Release(t)

\* xhnHandlePtr; a handle that is not valid has no pointer.
HandlePtr(h) == IF h = None THEN None ELSE handle[h]

Listed == In(listed)

-----------------------------------------------------------------------------
(***************************************************************************)
(* nht_i_AllocSession: a session is discarded when the user has too many   *)
(* (which one is the oldest is left open), and the new one is published    *)
(* before its timers are added.                                            *)
(***************************************************************************)
AllocSession(t) ==
  /\ Turn(t, "idle")
  /\ \/ /\ Len(listed) + 1 >= UserSessionLimit
        /\ \E s \in Listed : Stay(t, ToRetire(t, s, "create"))
     \/ /\ Len(listed) + 1 < UserSessionLimit \/ listed = <<>>
        /\ Stay(t, To(t, "create"))
  /\ UNCHANGED <<sess, listed, timers>>

\* nht_i_AddWatchdog up to its wait for the mutex.
AddWatchdog(t, r, h) ==
  \E a \in Timers :
    /\ timer[a] = None
    /\ timer' = [timer EXCEPT ![a] = h]
    /\ handle' = [handle EXCEPT ![h] = a]
    /\ Acquire(t)
    /\ Goto(t, [r EXCEPT !.pc = "adding", !.work = <<a, h>>])

\* Mutant: the session starts without a reference for the watchdog manager.
CreateSessionUnowned(t) ==
  /\ Turn(t, "create")
  /\ \E s \in Sessions :
       /\ sess[s].state = "unused"
       /\ sess' = [sess EXCEPT ![s] = [Unused EXCEPT !.state = "live", !.cnt = 1]]
       /\ listed' = Append(listed, s)
       /\ AddWatchdog(t, [me[t] EXCEPT !.own = s], <<s, "w">>)
  /\ UNCHANGED list

CreateSession(t) ==
  /\ Turn(t, "create")
  /\ \E s \in Sessions :
       /\ sess[s].state = "unused"
       /\ sess' = [sess EXCEPT ![s] = [Unused EXCEPT !.state = "live", !.cnt = 2]]
       /\ listed' = Append(listed, s)
       /\ AddWatchdog(t, [me[t] EXCEPT !.own = s], <<s, "w">>)
  /\ UNCHANGED list

\* nmMalloc or objOpenSession fails before anything is published.
CreateFails(t) ==
  /\ Turn(t, "create")
  /\ Goto(t, Idle)
  /\ UNCHANGED <<sess, listed, timers>>

AddLocked(t) ==
  /\ Turn(t, "adding") /\ Holds(t)
  /\ list' = list \cup {me[t].work[1]}
  /\ Release
  /\ Goto(t, To(t, "added"))
  /\ UNCHANGED <<sess, listed, timer, handle>>

\* The Handle is read from the timer after the mutex and the update semaphore
\* were posted: by then the timer may have fired, and its memory may be the
\* timer of another session.  With one reference left the inactivity timer is not added.
AddDone(t) ==
  LET s == me[t].own
      h == timer[me[t].work[1]]
  IN
  /\ Turn(t, "added")
  /\ h # None
  /\ \/ /\ me[t].work[2][2] = "w" /\ sess[s].cnt > 1
        /\ sess' = [sess EXCEPT ![s].w = h]
        /\ Go(t, After(t, "addi"), t)
     \/ /\ me[t].work[2][2] = "w" /\ sess[s].cnt <= 1
        /\ sess' = [sess EXCEPT ![s].w = h, ![s].cookie = TRUE]
        /\ Go(t, After(t, "held"), None)
     \/ /\ me[t].work[2][2] = "i"
        /\ sess' = [sess EXCEPT ![s].i = h, ![s].cookie = TRUE]
        /\ Go(t, After(t, "held"), None)
  /\ misread' = misread \cup ({h} \ {me[t].work[2]})
  /\ UNCHANGED <<listed, timers, fault>>

AddInactivity(t) ==
  /\ Turn(t, "addi")
  /\ AddWatchdog(t, me[t], <<me[t].own, "i">>)
  /\ UNCHANGED <<sess, listed, list>>

-----------------------------------------------------------------------------
(***************************************************************************)
(* A request on an existing session: the cookie is looked up and the       *)
(* session linked; then the timers are reset (the inactivity timer first,  *)
(* the watchdog timer alone for a ping), and the request is answered.      *)
(***************************************************************************)
Found(t, s) == [me[t] EXCEPT !.pc = "linked", !.own = s,
                             !.w_timer = sess[s].w, !.i_timer = sess[s].i]

\* Mutant: the link count is not raised.
FindSessionNoLink(t) ==
  /\ Turn(t, "idle")
  /\ \E s \in Listed :
       /\ sess[s].cookie /\ ~sess[s].closed
       /\ Goto(t, Found(t, s))
  /\ UNCHANGED <<sess, listed, timers>>

FindSession(t) ==
  /\ Turn(t, "idle")
  /\ \E s \in Listed :
       /\ sess[s].cookie /\ ~sess[s].closed
       /\ sess' = [sess EXCEPT ![s].cnt = @ + 1]
       /\ Goto(t, Found(t, s))
  /\ UNCHANGED <<listed, timers>>

\* The user's credentials do not match those of the session.
Refuse(t) ==
  /\ Turn(t, "linked")
  /\ Goto(t, To(t, "done"))
  /\ UNCHANGED <<sess, listed, timers>>

\* nht_i_ResetWatchdog; a handle that is not valid any more ends the request.
ResetWatchdog(t, h, next) ==
  /\ IF HandlePtr(h) = None
     THEN Goto(t, To(t, "done")) /\ UNCHANGED mutex
     ELSE /\ Acquire(t)
          /\ Goto(t, [me[t] EXCEPT !.pc = "resetting", !.then = next,
                                   !.work = <<handle[h], h>>])
  /\ UNCHANGED <<sess, listed, timer, handle, list>>

ResetTimers(t) ==
  \/ Turn(t, "linked") /\ ResetWatchdog(t, me[t].i_timer, "linkedw")
  \/ Turn(t, "linked") /\ ResetWatchdog(t, me[t].w_timer, "held")
  \/ Turn(t, "linkedw") /\ ResetWatchdog(t, me[t].w_timer, "held")

ResetLocked(t) ==
  /\ Turn(t, "resetting") /\ Holds(t)
  /\ Release
  /\ Goto(t, After(t, IF me[t].work[1] \in list THEN me[t].then ELSE "done"))
  /\ UNCHANGED <<sess, listed, timer, handle, list>>

\* The request is answered, with or without a logout (nht_i_Logout).
Answer(t) ==
  /\ Turn(t, "held")
  /\ \/ Goto(t, To(t, "done"))
     \/ Stay(t, ToRetire(t, me[t].own, "done"))
     \/ Stay(t, To(t, "all"))
  /\ UNCHANGED <<sess, listed, timers>>

(***************************************************************************)
(* nht_i_LogoutUser retires the first listed session until none is left;   *)
(* it gives up when there are as many as before.                           *)
(***************************************************************************)
LogoutUser(t) ==
  /\ Turn(t, "all")
  /\ \/ /\ listed = <<>>
        /\ Goto(t, To(t, "done"))
     \/ /\ listed # <<>>
        /\ Stay(t, [ToRetire(t, Head(listed), "alldone") EXCEPT
                      !.search = Head(listed), !.before = Len(listed)])
  /\ UNCHANGED <<sess, listed, timers>>

LogoutChecked(t) ==
  LET r == [me[t] EXCEPT !.search = None, !.before = 0] IN
  /\ Turn(t, "alldone")
  /\ \/ Len(listed) < me[t].before /\ Stay(t, [r EXCEPT !.pc = "all"])
     \/ /\ Len(listed) >= me[t].before /\ ~Freed(me[t].search)
        /\ Goto(t, [r EXCEPT !.pc = "done"])
  /\ UNCHANGED <<sess, listed, timers>>

\* nht_i_FreeConn releases the connection's reference.
FreeConn(t) ==
  /\ Turn(t, "done")
  /\ Stay(t, [ToUnlink(t, me[t].own, "idle") EXCEPT
              !.own = None, !.w_timer = None, !.i_timer = None])
  /\ UNCHANGED <<sess, listed, timers>>

-----------------------------------------------------------------------------
(***************************************************************************)
(* nht_i_RetireSess: DelistSess, with its two calls of RemoveWatchdog, and *)
(* UnlinkSess.                                                             *)
(***************************************************************************)
\* Mutant: a session can be retired again.
RetireAgain(t) ==
  LET s == me[t].at IN
  /\ Turn(t, "retire") /\ ~Freed(s)
  /\ sess' = [sess EXCEPT ![s].closed = TRUE]
  /\ listed' = TakenOut(listed, s)
  /\ Stay(t, To(t, "rmw"))
  /\ UNCHANGED timers

\* Mutant: the timers are removed from a session that is still listed.
RetireListed(t) ==
  LET s == me[t].at IN
  /\ Turn(t, "retire") /\ ~Freed(s)
  /\ IF sess[s].closed
     THEN Stay(t, Returned(t)) /\ UNCHANGED sess
     ELSE /\ sess' = [sess EXCEPT ![s].closed = TRUE]
          /\ Stay(t, To(t, "rmw"))
  /\ UNCHANGED <<listed, timers>>

RetireSess(t) ==
  LET s == me[t].at IN
  /\ Turn(t, "retire") /\ ~Freed(s)
  /\ IF sess[s].closed
     THEN Stay(t, Returned(t)) /\ UNCHANGED <<sess, listed>>
     ELSE /\ sess' = [sess EXCEPT ![s].closed = TRUE]
          /\ listed' = TakenOut(listed, s)
          /\ Stay(t, To(t, "rmw"))
  /\ UNCHANGED timers

\* nht_i_RemoveWatchdog up to its wait for the mutex.
RemoveWatchdog(t, h, next) ==
  /\ IF HandlePtr(h) = None
     THEN Stay(t, To(t, next)) /\ UNCHANGED mutex
     ELSE /\ Acquire(t)
          /\ Goto(t, [me[t] EXCEPT !.pc = "removing", !.then = next,
                                   !.work = <<handle[h], h>>])
  /\ UNCHANGED <<sess, listed, timer, handle, list>>

RemoveTimers(t) ==
  \/ Turn(t, "rmw") /\ RemoveWatchdog(t, sess[me[t].at].w, "rmi")
  \/ Turn(t, "rmi") /\ RemoveWatchdog(t, sess[me[t].at].i, "delisted")

\* Mutant: the timer is freed although it was not in the list any more.
RemoveLockedAlways(t) ==
  /\ Turn(t, "removing") /\ Holds(t)
  /\ list' = list \ {me[t].work[1]}
  /\ Release
  /\ Goto(t, To(t, "rmfree"))
  /\ UNCHANGED <<sess, listed, timer, handle>>

RemoveLocked(t) ==
  /\ Turn(t, "removing") /\ Holds(t)
  /\ list' = list \ {me[t].work[1]}
  /\ Release
  /\ Goto(t, IF me[t].work[1] \in list THEN To(t, "rmfree")
                                       ELSE After(t, me[t].then))
  /\ UNCHANGED <<sess, listed, timer, handle>>

RemoveFree(t) ==
  /\ Turn(t, "rmfree")
  /\ handle' = [handle EXCEPT ![me[t].work[2]] = None]
  /\ timer' = [timer EXCEPT ![me[t].work[1]] = None]
  /\ Goto(t, After(t, me[t].then))
  /\ UNCHANGED <<sess, listed, list, mutex>>

Delisted(t) ==
  LET s == me[t].at IN
  /\ Turn(t, "delisted")
  /\ sess' = [sess EXCEPT ![s].w = None, ![s].i = None]
  /\ Stay(t, To(t, "unlink"))
  /\ UNCHANGED <<listed, timers>>

\* With no reference left the session is closed already (LinkCount), and the
\* call of nht_i_DelistSess in nht_i_UnlinkSess does nothing.
UnlinkSess(t) ==
  LET s == me[t].at IN
  /\ Turn(t, "unlink")
  /\ sess' = [sess EXCEPT ![s].cnt = @ - 1]
  /\ IF sess[s].cnt = 1 THEN Goto(t, To(t, "close")) ELSE Stay(t, Returned(t))
  /\ UNCHANGED <<listed, timers>>

CloseSession(t) ==
  /\ Turn(t, "close")
  /\ sess' = [sess EXCEPT ![me[t].at] = [Unused EXCEPT !.state = "freed"]]
  /\ Stay(t, Returned(t))
  /\ UNCHANGED <<listed, timers>>

-----------------------------------------------------------------------------
(***************************************************************************)
(* nht_i_Watchdog takes one timer after the other from the list.           *)
(***************************************************************************)
WatchdogLock ==
  /\ Turn(Watchdog, "scan")
  /\ Acquire(Watchdog)
  /\ Goto(Watchdog, To(Watchdog, "pick"))
  /\ UNCHANGED <<sess, listed, timer, handle, list>>

WatchdogPick ==
  /\ Turn(Watchdog, "pick") /\ Holds(Watchdog)
  /\ Release
  /\ \/ \E a \in list :
          /\ list' = list \ {a}
          /\ Goto(Watchdog, [me[Watchdog] EXCEPT !.pc = "fire",
                                                 !.fired = <<a, timer[a]>>])
     \/ UNCHANGED list /\ Goto(Watchdog, To(Watchdog, "scan"))
  /\ UNCHANGED <<sess, listed, timer, handle>>

\* nht_i_WTimeout and nht_i_ITimeout retire the session of the timer.
WatchdogFire ==
  /\ Turn(Watchdog, "fire")
  /\ Stay(Watchdog, ToRetire(Watchdog, me[Watchdog].fired[2][1], "wfree"))
  /\ UNCHANGED <<sess, listed, timers>>

WatchdogFree ==
  LET f == me[Watchdog].fired IN
  /\ Turn(Watchdog, "wfree")
  /\ handle' = [handle EXCEPT ![f[2]] = None]
  /\ timer' = [timer EXCEPT ![f[1]] = None]
  /\ Goto(Watchdog, [Idle EXCEPT !.pc = "scan"])
  /\ UNCHANGED <<sess, listed, list, mutex>>

-----------------------------------------------------------------------------
\* Freed memory is read: the timer in nht_i_AddWatchdog, the session in
\* nht_i_RetireSess or in the error message of nht_i_LogoutUser.
UseFreed(t) ==
  /\ \/ Turn(t, "added") /\ timer[me[t].work[1]] = None
     \/ Turn(t, "retire") /\ Freed(me[t].at)
     \/ Turn(t, "alldone") /\ Len(listed) >= me[t].before /\ Freed(me[t].search)
  /\ fault' = TRUE
  /\ UNCHANGED <<sess, listed, timers, me, cpu, misread>>

Init ==
  /\ sess = [s \in Sessions |-> Unused]
  /\ listed = <<>>
  /\ timer = [a \in Timers |-> None]
  /\ handle = [h \in Handles |-> None]
  /\ list = {}
  /\ mutex = <<>>
  /\ me = [t \in Threads |-> IF t = Watchdog THEN [Idle EXCEPT !.pc = "scan"]
                                             ELSE Idle]
  /\ cpu = None
  /\ misread = {}
  /\ fault = FALSE

Request(t) ==
  \/ AllocSession(t) \/ CreateSession(t) \/ CreateFails(t)
  \/ AddLocked(t) \/ AddDone(t) \/ AddInactivity(t)
  \/ FindSession(t) \/ Refuse(t) \/ ResetTimers(t) \/ ResetLocked(t)
  \/ Answer(t) \/ LogoutUser(t) \/ LogoutChecked(t) \/ FreeConn(t)

WatchdogStep == WatchdogLock \/ WatchdogPick \/ WatchdogFire \/ WatchdogFree

Retirement(t) ==
  \/ RetireSess(t) \/ RemoveTimers(t) \/ RemoveLocked(t) \/ RemoveFree(t)
  \/ Delisted(t) \/ UnlinkSess(t) \/ CloseSession(t) \/ UseFreed(t)

Step(t) ==
  \/ t \in Conns /\ Request(t)
  \/ t = Watchdog /\ WatchdogStep
  \/ Retirement(t)

Next == \E t \in Threads : Step(t)

Spec == Init /\ [][Next]_vars

-----------------------------------------------------------------------------
\* Thread t has a reference of s that it is going to release.
Releasing(t, s) ==
  /\ me[t].at = s
  /\ me[t].pc \in {"rmw", "rmi", "removing", "rmfree", "delisted", "unlink"}

\* The link count of a session is the number of connections that hold it, of
\* threads about to release a reference, and one for the watchdog manager
\* until the session is retired: the count of nht_i_AllocSession is neither
\* lost nor released twice, whoever discards, times out or logs out the
\* session, and it reaches zero only for a session that was retired.
LinkCount ==
  \A s \in Sessions :
    sess[s].state = "live" =>
      sess[s].cnt = Cardinality({t \in Threads : me[t].own = s})
                  + Cardinality({t \in Threads : Releasing(t, s)})
                  + (IF sess[s].closed THEN 0 ELSE 1)

\* A session is not freed while a connection holds it or a thread retires it:
\* the connection of a session that was discarded, timed out or logged out
\* goes on with it (comment of nht_i_RetireSess).
HeldAlive ==
  \A t \in Threads, s \in Sessions :
    me[t].own = s \/ Releasing(t, s) => sess[s].state = "live"

Firing(h) == /\ me[Watchdog].fired[2] = h
             /\ me[Watchdog].pc \in {"fire", "retire"}

Armed(h, held) ==
  h \in misread \/ (held = h /\ (handle[h] \in list \/ Firing(h)))

\* A session that a request can find can time out: each of its timers is in
\* the watchdog's list or is being fired, under the handle the session has of
\* it.  The exception is a timer whose handle another session was given, when
\* nht_i_AddWatchdog read it from memory that had become this timer: that
\* session removes it when it ends.
FoundArmed ==
  \A s \in Listed :
    /\ sess[s].state = "live" /\ ~sess[s].closed
    /\ sess[s].cookie =>
         Armed(<<s, "w">>, sess[s].w) /\ Armed(<<s, "i">>, sess[s].i)

\* nht_i_RemoveWatchdog and nht_i_ResetWatchdog look a handle up before they
\* wait for the mutex and search the list for the address they found: what
\* they find under that address is still the timer of their handle.
OwnTimer ==
  \A t \in Threads :
    /\ me[t].pc \in {"removing", "resetting"} /\ Holds(t)
    /\ me[t].work[1] \in list
    => timer[me[t].work[1]] = me[t].work[2]

\* The timers that t is about to free.
ToFree(t) == IF me[t].pc = "rmfree" THEN {me[t].work}
             ELSE IF me[t].fired # NoTimer THEN {me[t].fired} ELSE {}

\* A timer that the watchdog fires or a thread removes is freed by one of
\* them only, and by then is still the timer it was.
FreedOnce ==
  \A t \in Threads : \A f \in ToFree(t) :
    /\ timer[f[1]] = f[2] /\ handle[f[2]] = f[1] /\ f[1] \notin list
    /\ \A u \in Threads \ {t} : f \notin ToFree(u)

-----------------------------------------------------------------------------
\* "stop its timers, so that ... no timer can fire on it": no timer of a freed
\* session is left in the watchdog's list.
NoTimerOnFreed == \A a \in list : ~Freed(timer[a][1])
=============================================================================
