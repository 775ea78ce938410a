------------------------------ MODULE NhtApps ------------------------------
(***************************************************************************)
(* The applications of a session of the HTTP driver (net_http_sess.c,      *)
(* net_http.c, net_http_conn.c): groups of applications in the session,    *)
(* applications in a group.  Each has a link count, with one reference for *)
(* every connection that uses it and one for the watchdog manager, which   *)
(* gives it back when the timer of the group or application fires.  What   *)
(* still stands when its group or its session ends is unlinked until it is *)
(* gone.                                                                   *)
(*                                                                         *)
(* One session, as NhtSession has it; here its two timers are a watchdog   *)
(* that may retire it at any time.  The scheduler does not preempt: an     *)
(* action that ends in Stay goes on with the same thread, and one that     *)
(* ends in Goto yields.  Each structure is used once, so that a use after  *)
(* it was freed can be told.                                               *)
(***************************************************************************)
EXTENDS Integers, FiniteSets, Lines

CONSTANTS
  Conns,      \* connections, each served by a thread
  Watchdog,   \* the thread of nht_i_Watchdog
  Groups,     \* NhtAppGroup structures
  Apps,       \* NhtApp structures
  None,
  MaxLost     \* bound: how often an application's reference is overwritten

Threads == Conns \cup {Watchdog}
Owners  == Groups \cup Apps    \* what has a watchdog timer

ASSUME AppsAssumption ==
  /\ IsFiniteSet(Conns) /\ IsFiniteSet(Groups) /\ IsFiniteSet(Apps)
  /\ Watchdog \notin Conns /\ Groups \cap Apps = {}
  /\ None \notin Threads \cup Owners
  /\ MaxLost \in Nat

VARIABLES
  session,  \* the session: its count, whether it is retired or freed
  own,      \* the groups and applications: state, count, group of an application
  groups,   \* AppGroups of the session
  apps,     \* Apps of each group
  osml,     \* the OSML session opened under each application
  lost,     \* history: how often a connection overwrote its reference of one
  valid,    \* the owners with a timer under a valid handle
  list,     \* those whose timer is in NHT.Timers
  mutex,    \* NHT.TimerDataMutex: who has it and, in order, who waits
  me,       \* the threads
  cpu,      \* the thread that has not given up the processor, or None
  fault     \* freed memory was used

timers == <<valid, list, mutex>>
held   == <<session, own, groups, apps, osml, lost>>
vars   == <<held, timers, me, cpu, fault>>

Unused == [state |-> "unused", cnt |-> 0, group |-> None]

\* todo is the stack of unlinks the thread is in: what to do next, and to what.
\* app and group are those of the connection, new is what it is allocating.
Idle == [pc |-> "idle", app |-> None, group |-> None, new |-> None, todo |-> <<>>]

Labels == {"idle", "verify", "work", "newapp", "held", "done", "adding", "added",
           "scan", "pick"}
Ops    == {"unlink", "rm", "rmfree", "close", "free", "members", "fired"}

Do(op, x) == [op |-> op, at |-> x]

\* A step is for a group, an application, or for the session (None).
Frames == [op : Ops, at : Owners \cup {None}]

TypeOK ==
  /\ session \in [cnt : 0..(Cardinality(Conns) + 1), closed : BOOLEAN,
                  state : {"live", "freed"}]
  /\ own \in [Owners -> [state : {"unused", "live", "freed"},
                         cnt : -1..(Cardinality(Threads) + MaxLost),
                         group : Groups \cup {None}]]
  /\ groups \in Seq(Groups) /\ Once(groups)
  /\ apps \in [Groups -> Seq(Apps)] /\ \A g \in Groups : Once(apps[g])
  /\ osml \in [Apps -> {"none", "open", "closed"}]
  /\ lost \in [Apps -> 0..MaxLost]
  /\ valid \in SUBSET Owners /\ list \in SUBSET valid
  /\ mutex \in Seq(Threads) /\ Once(mutex)
  /\ me \in [Threads -> [pc : Labels, app : Apps \cup {None},
                         group : Groups \cup {None},
                         new : Owners \cup {None}, todo : Seq(Frames)]]
  /\ cpu \in Threads \cup {None}
  /\ fault \in BOOLEAN

-----------------------------------------------------------------------------
\* Thread t may run and is at l of its request, or at op of an unlink.
Runs(t)    == ~fault /\ cpu \in {t, None}
Turn(t, l) == Runs(t) /\ me[t].pc = l /\ me[t].todo = <<>>
Unlinks(t, op, x) == Runs(t) /\ me[t].todo # <<>> /\ Head(me[t].todo) = Do(op, x)

Goto(t, r) == me' = [me EXCEPT ![t] = r] /\ cpu' = None /\ UNCHANGED fault
Stay(t, r) == me' = [me EXCEPT ![t] = r] /\ cpu' = t /\ UNCHANGED fault
To(t, l)   == [me[t] EXCEPT !.pc = l]

\* The thread does these in place of the first it has to do.
Then(t, steps) == [me[t] EXCEPT !.todo = steps \o Tail(@)]
Returned(t)    == Then(t, <<>>)

\* With nothing left to do the thread ends, or closes its connection first.
Return(t) == IF Len(me[t].todo) = 1 THEN Goto(t, Returned(t)) ELSE Stay(t, Returned(t))

Lock == INSTANCE FairLock WITH Clients <- Threads, queue <- mutex
Acquire(t) == Lock!Ask(t)
Holds(t)   == Lock!Holds(t)
Release    == \E t \in Threads : Lock!Release(t)

Freed(x) == IF x = None THEN session.state = "freed" ELSE own[x].state = "freed"

\* What an owner is in: the session, or a group.
Home(x) == IF x \in Groups THEN None ELSE own[x].group

-----------------------------------------------------------------------------
(***************************************************************************)
(* A request: the cookie finds the session, and the akey the group and the *)
(* application of the page it is from (nht_i_VerifyAKey), which are        *)
(* linked.                                                                 *)
(***************************************************************************)
FindSession(t) ==
  /\ Turn(t, "idle") /\ ~session.closed
  /\ session' = [session EXCEPT !.cnt = @ + 1]
  /\ Goto(t, To(t, "verify"))
  /\ UNCHANGED <<own, groups, apps, osml, lost, timers>>

\* Mutant: each is linked twice.
LinkedTwice(xs) ==
  [x \in Owners |-> IF x \in xs THEN [own[x] EXCEPT !.cnt = @ + 2] ELSE own[x]]

Linked(xs) ==
  [x \in Owners |-> IF x \in xs THEN [own[x] EXCEPT !.cnt = @ + 1] ELSE own[x]]

\* Mutant: the application is not linked.
VerifyAKeyNoLink(t) ==
  /\ Turn(t, "verify")
  /\ \/ Goto(t, To(t, "work")) /\ UNCHANGED own
     \/ \E g \in In(groups), a \in Apps \cup {None} :
          /\ a \in In(apps[g]) \cup {None}
          /\ own' = Linked({g})
          /\ Goto(t, [To(t, "work") EXCEPT !.group = g, !.app = a])
  /\ UNCHANGED <<session, groups, apps, osml, lost, timers>>

VerifyAKey(t) ==
  /\ Turn(t, "verify")
  /\ \/ Goto(t, To(t, "work")) /\ UNCHANGED own
     \/ \E g \in In(groups), a \in Apps \cup {None} :
          /\ a \in In(apps[g]) \cup {None}
          /\ own' = Linked({g, a} \ {None})
          /\ Goto(t, [To(t, "work") EXCEPT !.group = g, !.app = a])
  /\ UNCHANGED <<session, groups, apps, osml, lost, timers>>

(***************************************************************************)
(* A page without a group gets one, and then an application; an API client *)
(* (mode appinit) gets a new application each time.  Both have their timer *)
(* in the list before they are themselves listed.                          *)
(***************************************************************************)
Alloc(t, x, g) ==
  /\ own[x].state = "unused"
  /\ own' = [own EXCEPT ![x] = [state |-> "live", cnt |-> 2, group |-> g]]
  /\ valid' = valid \cup {x}
  /\ Acquire(t)
  /\ Goto(t, [To(t, "adding") EXCEPT !.new = x])

AllocAppGroup(t) ==
  /\ Turn(t, "work") /\ me[t].group = None
  /\ \E g \in Groups : Alloc(t, g, None)
  /\ UNCHANGED <<session, groups, apps, osml, lost, list>>

AllocApp(t) ==
  /\ Turn(t, "newapp")
  /\ \E a \in Apps : Alloc(t, a, me[t].group)
  /\ UNCHANGED <<session, groups, apps, osml, lost, list>>

\* The connections that are about to overwrite their reference of a.
Replacing(a) ==
  {u \in Conns : me[u].app = a /\ me[u].pc \in {"newapp", "adding", "added"}}

\* The group has an application for the request, or gets one.
UseGroup(t) ==
  LET a == me[t].app IN
  /\ Turn(t, "work")
  /\ \/ /\ me[t].group # None
        /\ a # None => lost[a] + Cardinality(Replacing(a)) < MaxLost
        /\ Stay(t, To(t, "newapp"))
     \/ Stay(t, To(t, "held"))
  /\ UNCHANGED <<held, timers>>

AddLocked(t) ==
  /\ Turn(t, "adding") /\ Holds(t)
  /\ list' = list \cup {me[t].new}
  /\ Release
  /\ Goto(t, To(t, "added"))
  /\ UNCHANGED <<held, valid>>

GroupAdded(t) ==
  LET g == me[t].new IN
  /\ Turn(t, "added") /\ g \in Groups
  /\ groups' = Append(groups, g)
  /\ Stay(t, [To(t, "newapp") EXCEPT !.group = g, !.new = None])
  /\ UNCHANGED <<session, own, apps, osml, lost, timers>>

\* The connection has what is new, or NULL, in place of what it had linked.
Replaced(t, a) ==
  /\ lost' = IF me[t].app = None THEN lost ELSE [lost EXCEPT ![me[t].app] = @ + 1]
  /\ Goto(t, [To(t, "held") EXCEPT !.app = a, !.new = None])

AppAdded(t) ==
  LET a == me[t].new IN
  /\ Turn(t, "added") /\ a \in Apps
  /\ apps' = [apps EXCEPT ![own[a].group] = Append(@, a)]
  /\ Replaced(t, a)
  /\ UNCHANGED <<session, own, groups, osml, timers>>

\* appCreate or objOpenSession fails.
AllocAppFails(t) ==
  /\ Turn(t, "newapp")
  /\ Replaced(t, None)
  /\ UNCHANGED <<session, own, groups, apps, osml, timers>>

\* A page opens an OSML session, and closes it.
OpenOsml(t) ==
  /\ Turn(t, "held") /\ me[t].app # None
  /\ \/ osml[me[t].app] = "none" /\ osml' = [osml EXCEPT ![me[t].app] = "open"]
     \/ osml[me[t].app] = "open" /\ osml' = [osml EXCEPT ![me[t].app] = "none"]
  /\ Goto(t, To(t, "done"))
  /\ UNCHANGED <<session, own, groups, apps, lost, timers>>

\* nht_i_RetireSess, whose own timers are NhtSession's: the session is not found
\* any more, and its reference for the watchdog manager is to be released.
Retire(t, r) ==
  /\ session' = [session EXCEPT !.closed = TRUE]
  /\ Goto(t, [r EXCEPT !.todo = IF session.closed THEN <<>> ELSE <<Do("unlink", None)>>])
  /\ UNCHANGED <<own, groups, apps, osml, lost>>

\* The request is answered, with or without a logout.
Answer(t) ==
  /\ Turn(t, "held")
  /\ \/ Goto(t, To(t, "done")) /\ UNCHANGED held
     \/ me[t].app # None /\ Retire(t, To(t, "done"))
  /\ UNCHANGED timers

\* What a connection releases when it ends, in this order.
Links(r) ==
  (IF r.app = None THEN <<>> ELSE <<Do("unlink", r.app)>>)
  \o (IF r.group = None THEN <<>> ELSE <<Do("unlink", r.group)>>)
  \o <<Do("unlink", None)>>

\* Mutant: the group is not released.
FreeConnKeepsGroup(t) ==
  /\ Turn(t, "done")
  /\ Stay(t, [Idle EXCEPT !.todo = Links([me[t] EXCEPT !.group = None])])
  /\ UNCHANGED <<held, timers>>

FreeConn(t) ==
  /\ Turn(t, "done")
  /\ Stay(t, [Idle EXCEPT !.todo = Links(me[t])])
  /\ UNCHANGED <<held, timers>>

-----------------------------------------------------------------------------
(***************************************************************************)
(* nht_i_UnlinkApp and nht_i_UnlinkAppGroup: without a reference left it   *)
(* leaves the list it is in, and its timer is removed; what is in a group  *)
(* is unlinked as often as it takes.                                       *)
(***************************************************************************)
Ends(x) == IF x \in Groups THEN Do("members", x) ELSE Do("close", x)

RemoveWatchdog(t, x) ==
  \/ /\ x \in valid
     /\ Acquire(t)
     /\ Goto(t, Then(t, <<Do("rm", x), Ends(x)>>))
  \/ /\ x \notin valid
     /\ Stay(t, Then(t, <<Ends(x)>>))
     /\ UNCHANGED mutex

Unlink(t, x) ==
  /\ Unlinks(t, "unlink", x) /\ ~Freed(x)
  /\ own' = [own EXCEPT ![x].cnt = @ - 1]
  /\ \/ /\ own[x].cnt > 1
        /\ Return(t)
        /\ UNCHANGED <<groups, apps, mutex>>
     \/ /\ own[x].cnt <= 1 /\ ~Freed(Home(x))
        /\ IF x \in Groups
           THEN groups' = TakenOut(groups, x) /\ UNCHANGED apps
           ELSE apps' = [apps EXCEPT ![own[x].group] = TakenOut(@, x)] /\ UNCHANGED groups
        /\ RemoveWatchdog(t, x)
  /\ UNCHANGED <<session, osml, lost, valid, list>>

RemoveLocked(t, x) ==
  /\ Unlinks(t, "rm", x) /\ Holds(t)
  /\ list' = list \ {x}
  /\ Release
  /\ Goto(t, IF x \in list THEN Then(t, <<Do("rmfree", x)>>) ELSE Returned(t))
  /\ UNCHANGED <<held, valid>>

RemoveFree(t, x) ==
  /\ Unlinks(t, "rmfree", x)
  /\ valid' = valid \ {x}
  /\ Return(t)
  /\ UNCHANGED <<held, list, mutex>>

\* Mutant: a group ends without its applications.
EndGroupAlone(t, g) ==
  /\ Unlinks(t, "members", g) /\ ~Freed(g)
  /\ own' = [own EXCEPT ![g].state = "freed"]
  /\ Return(t)
  /\ UNCHANGED <<session, groups, apps, osml, lost, timers>>

EndGroup(t, g) ==
  /\ Unlinks(t, "members", g) /\ ~Freed(g)
  /\ \/ /\ apps[g] # <<>>
        /\ Stay(t, Then(t, <<Do("unlink", Head(apps[g])), Do("members", g)>>))
        /\ UNCHANGED own
     \/ /\ apps[g] = <<>>
        /\ own' = [own EXCEPT ![g].state = "freed"]
        /\ Return(t)
  /\ UNCHANGED <<session, groups, apps, osml, lost, timers>>

\* The OSML sessions of the application are looked up in the session and closed,
\* and then the application's own.
CanClose(a) == osml[a] = "open" => ~Freed(own[a].group) /\ ~Freed(None)

EndApp(t, a) ==
  /\ Unlinks(t, "close", a) /\ ~Freed(a) /\ osml[a] # "closed" /\ CanClose(a)
  /\ osml' = [osml EXCEPT ![a] = "none"]
  /\ Goto(t, Then(t, <<Do("free", a)>>))
  /\ UNCHANGED <<session, own, groups, apps, lost, timers>>

FreeApp(t, a) ==
  /\ Unlinks(t, "free", a) /\ ~Freed(a)
  /\ own' = [own EXCEPT ![a].state = "freed"]
  /\ Return(t)
  /\ UNCHANGED <<session, groups, apps, osml, lost, timers>>

-----------------------------------------------------------------------------
(***************************************************************************)
(* nht_i_UnlinkSess: with the last reference the groups are unlinked as    *)
(* often as it takes, all OSML sessions closed, and the session freed.     *)
(***************************************************************************)
UnlinkSess(t) ==
  /\ Unlinks(t, "unlink", None)
  /\ session' = [session EXCEPT !.cnt = @ - 1]
  /\ \/ session.cnt > 1 /\ Return(t)
     \/ session.cnt = 1 /\ Stay(t, Then(t, <<Do("members", None)>>))
  /\ UNCHANGED <<own, groups, apps, osml, lost, timers>>

CloseSession(t) ==
  /\ Unlinks(t, "members", None)
  /\ \/ /\ groups # <<>>
        /\ Stay(t, Then(t, <<Do("unlink", Head(groups)), Do("members", None)>>))
        /\ UNCHANGED osml
     \/ /\ groups = <<>>
        /\ osml' = [a \in Apps |-> IF osml[a] = "open" THEN "closed" ELSE osml[a]]
        /\ Goto(t, Then(t, <<Do("free", None)>>))
  /\ UNCHANGED <<session, own, groups, apps, lost, timers>>

FreeSession(t) ==
  /\ Unlinks(t, "free", None)
  /\ session' = [session EXCEPT !.state = "freed"]
  /\ Return(t)
  /\ UNCHANGED <<own, groups, apps, osml, lost, timers>>

-----------------------------------------------------------------------------
(***************************************************************************)
(* The watchdog takes a timer from the list, releases the mutex, and calls *)
(* back: nht_i_WTimeoutApp and nht_i_WTimeoutAppGroup unlink, and those of *)
(* the session retire it.                                                  *)
(***************************************************************************)
WatchdogLock ==
  /\ Turn(Watchdog, "scan")
  /\ Acquire(Watchdog)
  /\ Goto(Watchdog, To(Watchdog, "pick"))
  /\ UNCHANGED <<held, valid, list>>

WatchdogPick ==
  /\ Turn(Watchdog, "pick") /\ Holds(Watchdog)
  /\ Release
  /\ \/ \E x \in list :
          /\ list' = list \ {x}
          /\ Goto(Watchdog, [To(Watchdog, "scan") EXCEPT
                               !.todo = <<Do("unlink", x), Do("fired", x)>>])
          /\ UNCHANGED held
     \/ Retire(Watchdog, To(Watchdog, "scan")) /\ UNCHANGED list
  /\ UNCHANGED valid

WatchdogFree ==
  \E x \in Owners :
    /\ Unlinks(Watchdog, "fired", x)
    /\ valid' = valid \ {x}
    /\ Goto(Watchdog, Returned(Watchdog))
    /\ UNCHANGED <<held, list, mutex>>

\* Freed memory is used: an application or a group that another thread has
\* ended, or the group or session of an application that is being ended.
UseFreed(t) ==
  /\ \E x \in Owners :
       \/ Unlinks(t, "unlink", x) /\ (Freed(x) \/ (own[x].cnt <= 1 /\ Freed(Home(x))))
       \/ Unlinks(t, "members", x) /\ Freed(x)
       \/ x \in Apps /\ Unlinks(t, "close", x)
            /\ (Freed(x) \/ osml[x] = "closed" \/ ~CanClose(x))
       \/ Unlinks(t, "free", x) /\ Freed(x)
  /\ fault' = TRUE
  /\ UNCHANGED <<held, timers, me, cpu>>

-----------------------------------------------------------------------------
\* The session was opened by a request that has ended.
Init ==
  /\ session = [cnt |-> 1, closed |-> FALSE, state |-> "live"]
  /\ own = [x \in Owners |-> Unused]
  /\ groups = <<>> /\ apps = [g \in Groups |-> <<>>]
  /\ osml = [a \in Apps |-> "none"] /\ lost = [a \in Apps |-> 0]
  /\ valid = {} /\ list = {} /\ mutex = <<>>
  /\ me = [t \in Threads |-> IF t = Watchdog THEN [Idle EXCEPT !.pc = "scan"] ELSE Idle]
  /\ cpu = None /\ fault = FALSE

Request(t) ==
  \/ FindSession(t) \/ VerifyAKey(t) \/ AllocAppGroup(t) \/ AllocApp(t)
  \/ UseGroup(t) \/ AddLocked(t) \/ GroupAdded(t) \/ AppAdded(t) \/ AllocAppFails(t)
  \/ OpenOsml(t) \/ Answer(t) \/ FreeConn(t)

WatchdogStep == WatchdogLock \/ WatchdogPick \/ WatchdogFree

Unlinking(t) ==
  \/ \E x \in Owners : Unlink(t, x) \/ RemoveLocked(t, x) \/ RemoveFree(t, x)
  \/ \E g \in Groups : EndGroup(t, g)
  \/ \E a \in Apps : EndApp(t, a) \/ FreeApp(t, a)
  \/ UnlinkSess(t) \/ CloseSession(t) \/ FreeSession(t) \/ UseFreed(t)

Step(t) ==
  \/ t \in Conns /\ Request(t)
  \/ t = Watchdog /\ WatchdogStep
  \/ Unlinking(t)

Next == \E t \in Threads : Step(t)

Spec == Init /\ [][Next]_vars

\* mtSched() runs every thread that stays runnable.
FairSpec == Spec /\ \A t \in Threads : SF_vars(Step(t))

-----------------------------------------------------------------------------
\* The references of x that a thread has, or is releasing; one that waits for
\* the mutex to add the timer of x has it as new.
Holders(x) == {t \in Threads : x \in {me[t].app, me[t].group, me[t].new}}
Unlinked(q, x) == {i \in DOMAIN q : q[i] = Do("unlink", x)}
Releases(x) == UNION {{t} \X Unlinked(me[t].todo, x) : t \in Threads}
Lost(x) == IF x \in Apps THEN lost[x] ELSE 0
Manager(x) == IF x \in list \/ \E t \in Conns : me[t].pc = "adding" /\ me[t].new = x
              THEN 1 ELSE 0
References(x) ==
  Cardinality(Holders(x)) + Cardinality(Releases(x)) + Lost(x) + Manager(x)

\* The session, or group, that x is in is not ending.
Open(x) == IF x = None THEN session.cnt > 0 ELSE own[x].state = "live" /\ own[x].cnt > 0

\* While what it is in is not being ended, the count of a group or application is
\* the number of connections that use it, or are about to release it, and one for
\* the watchdog manager until its timer has fired and been answered: the loops
\* that unlink what they did not link never meet one in use.
LinksExact ==
  \A x \in Owners :
    own[x].state = "live" /\ Open(Home(x)) =>
      IF Open(x) THEN own[x].cnt = References(x)
                 ELSE Holders(x) = {} /\ Lost(x) = 0

\* What a request works on stands, up to the session: its application is in the
\* list of its group, and the group in that of the session, whatever timers fire
\* and other requests log out meanwhile.
HeldListed ==
  \A t \in Conns :
    /\ me[t].app # None =>
         /\ Open(me[t].app) /\ own[me[t].app].group = me[t].group
         /\ me[t].app \in In(apps[me[t].group])
    /\ me[t].group # None => Open(me[t].group) /\ me[t].group \in In(groups)
    /\ me[t].pc # "idle" => Open(None)

\* A session that is retired is freed in the end, with every group and application
\* it has by then, and no timer of them is left, unless freed memory is used.
RetiredFreed ==
  session.closed ~>
    \/ session.state = "freed" /\ list = {} /\ \A x \in Owners : own[x].state # "live"
    \/ fault
=============================================================================
