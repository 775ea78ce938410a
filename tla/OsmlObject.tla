----------------------------- MODULE OsmlObject -----------------------------
(***************************************************************************)
(* Open objects of a session of the object system (obj_object.c,           *)
(* obj_query.c, obj_session.c): chains of objects that share their upper   *)
(* part, link counts, the directory cache that keeps the upper part of a   *)
(* path open, queries and what they return, and the end of the session.    *)
(*                                                                         *)
(* The threads of a session's requests share it.  A driver may yield in    *)
(* Open, Close, OpenQuery, QueryFetch, QueryClose and OpenChild, and so    *)
(* may the directory cache, a LinkCache, which is the abstract             *)
(* specification of the hash queue (XHashQueue!IsLinkCache): an action is  *)
(* what a thread does between two such calls.                              *)
(*                                                                         *)
(* A path is a file, or one object inside a file.  The parts of the path   *)
(* up to the file, the root among them, are opened one after the other and *)
(* closed one after the other: they are one object here.  The structures   *)
(* are used again: an allocation takes any free one, here the first.       *)
(***************************************************************************)
EXTENDS Integers, FiniteSets

CONSTANTS
  Threads,
  Files,
  Objs,      \* bound: Object structures
  Queries,   \* ObjQuery structures
  None,
  MaxRefs    \* bound: the links callers have of one object

ASSUME OsmlAssumption ==
  /\ IsFiniteSet(Objs) /\ Objs \subseteq Nat
  /\ IsFiniteSet(Threads) /\ IsFiniteSet(Files) /\ IsFiniteSet(Queries)
  /\ None \notin Threads \cup Files \cup Objs \cup Queries
  /\ MaxRefs \in Nat \ {0}

VARIABLES
  obj,      \* the object structures
  opens,    \* OpenObjects of the session
  refs,     \* how often callers, and then the session, must close each object
  query,    \* the query structures: the object of each, or None when free
  listed,   \* OpenQueries of the session
  cached,   \* DirectoryCache: the object of each entry
  held,     \* the entry each thread has a reference of
  me,       \* the threads: where each is in which call, and its variables
  session   \* the session: "open", "closing" or "closed"

cache == <<cached, held>>
vars == <<obj, opens, refs, query, listed, cache, me, session>>

\* child: the object is from objOpenChild.
Free == [state |-> "free", child |-> FALSE, link |-> 0, prev |-> None]

\* at is this of obj_internal_ProcessOpen (and what the call will return), hit
\* cached_obj; del is the object to release next, ret where the thread then
\* goes on.
Idle == [pc |-> "idle", file |-> None, at |-> None, hit |-> None, del |-> None,
         ret |-> "idle", qy |-> None]

Labels == {"idle", "lookup", "unlink", "upper", "file", "leaf", "hit", "add", "cached",
           "close", "qopen", "fetch", "qclose", "child", "uncache", "closeqs",
           "closeobjs"}

TypeOK ==
  /\ obj \in [Objs -> [state : {"free", "live", "closing"}, child : BOOLEAN,
                       link : Nat, prev : Objs \cup {None}]]
  /\ opens \in SUBSET Objs
  /\ refs \in [Objs -> 0..MaxRefs]
  /\ query \in [Queries -> Objs \cup {None}]
  /\ listed \in SUBSET Queries
  /\ cached \in [Files -> Objs \cup {None}]
  /\ held \in [Threads -> Objs \cup {None}]
  /\ me \in [Threads -> [pc : Labels, file : Files \cup {None},
                         at : Objs \cup {None}, hit : Objs \cup {None},
                         del : Objs \cup {None}, ret : Labels,
                         qy : Queries \cup {None}]]
  /\ session \in {"open", "closing", "closed"}

-----------------------------------------------------------------------------
At(t, l) == me[t].pc = l
Goto(t, r) == me' = [me EXCEPT ![t] = r]
To(t, l) == [me[t] EXCEPT !.pc = l]

\* A request of the session is about to call the object system.
Calls(t) == At(t, "idle") /\ session = "open"

Cache == INSTANCE LinkCache WITH Clients <- Threads, Keys <- Files, Items <- Objs

\* An object and the one before it.
Prev(o) == IF o = None THEN None ELSE obj[o].prev
Chain(o) == {o, Prev(o)} \ {None}

\* objLinkTo
Linked(o) == [x \in Objs |-> IF x \in Chain(o) THEN [obj[x] EXCEPT !.link = @ + 1]
                                               ELSE obj[x]]

\* obj_internal_AllocObj
New == CHOOSE o \in Objs : obj[o].state = "free"
                           /\ \A x \in Objs : obj[x].state = "free" => o <= x
HasRoom == \E o \in Objs : obj[o].state = "free"

\* A new object after prev, which has been linked, or not, in was.
Alloc(was, prev) ==
  [was EXCEPT ![New] = [state |-> "live", child |-> FALSE, link |-> 1, prev |-> prev]]

\* Mutant: an object leaves the list at each close.
LeavesAtOnce(o) == opens \ {o}

\* Mutant: an object stays on the list.
LeavesNever(o) == opens

\* objClose: with the last link the object leaves the open objects.
Leaves(o) == IF obj[o].link = 1 THEN opens \ {o} ELSE opens

-----------------------------------------------------------------------------
(***************************************************************************)
(* obj_internal_FreeObj goes along the chain of o and lowers the counts,   *)
(* up to an object it must close; the driver is called, and may yield,     *)
(* before the structure is freed, and the loop goes on behind it.          *)
(***************************************************************************)
Dead(was, o) == {x \in Chain(o) : was[x].link <= 1}
Dying(was, o) ==
  LET dead == Dead(was, o) IN
  IF dead = {} THEN None ELSE CHOOSE x \in dead : dead \subseteq Chain(x)

Released(was, o) ==
  LET d == Dying(was, o) IN
  [x \in Objs |->
     IF x = d THEN [was[x] EXCEPT !.link = 0, !.state = "closing"]
     ELSE IF x \in Chain(o) \ Chain(d) THEN [was[x] EXCEPT !.link = @ - 1]
     ELSE was[x]]

\* Thread t releases o and goes on with the variables r.
FreeObj(t, was, o, r) ==
  LET d == Dying(was, o) IN
  /\ obj' = Released(was, o)
  /\ Goto(t, IF d = None THEN r ELSE [r EXCEPT !.pc = "close", !.del = d, !.ret = r.pc])

\* The driver has closed it.
Closed(t) ==
  LET o == me[t].del
      r == [me[t] EXCEPT !.pc = me[t].ret, !.del = None, !.ret = "idle"]
      was == [obj EXCEPT ![o] = Free]
  IN
  /\ At(t, "close")
  /\ \/ Prev(o) = None /\ obj' = was /\ Goto(t, r)
     \/ Prev(o) # None /\ FreeObj(t, was, Prev(o), r)
  /\ UNCHANGED <<opens, refs, query, listed, cache, session>>

-----------------------------------------------------------------------------
(***************************************************************************)
(* objOpen and obj_internal_ProcessOpen: the upper part of the path from   *)
(* the directory cache, or from the root; then a driver for each part.     *)
(***************************************************************************)
OpenFile(t) ==
  /\ Calls(t) /\ HasRoom
  /\ obj' = Alloc(obj, None)
  /\ Goto(t, [To(t, "file") EXCEPT !.at = New])
  /\ UNCHANGED <<opens, refs, query, listed, cache, session>>

OpenInside(t) ==
  /\ Calls(t)
  /\ \E f \in Files : Goto(t, [To(t, "lookup") EXCEPT !.file = f])
  /\ UNCHANGED <<obj, opens, refs, query, listed, cache, session>>

LookupHit(t) ==
  /\ At(t, "lookup")
  /\ Cache!Find(t, me[t].file)
  /\ Goto(t, [To(t, "hit") EXCEPT !.at = cached[me[t].file]])
  /\ UNCHANGED <<obj, opens, refs, query, listed, session>>

LookupMiss(t) ==
  /\ At(t, "lookup") /\ cached[me[t].file] = None /\ HasRoom
  /\ obj' = Alloc(obj, None)
  /\ Goto(t, [To(t, "upper") EXCEPT !.at = New])
  /\ UNCHANGED <<opens, refs, query, listed, cache, session>>

\* xhqLookup has returned: the object is linked, and the entry let go.
LinkHit(t) ==
  /\ At(t, "hit")
  /\ obj' = Linked(me[t].at)
  /\ Goto(t, [To(t, "unlink") EXCEPT !.hit = me[t].at])
  /\ UNCHANGED <<opens, refs, query, listed, cache, session>>

UnlinkHit(t) ==
  /\ At(t, "unlink") /\ HasRoom
  /\ Cache!Drop(t)
  /\ obj' = Alloc(obj, me[t].at)
  /\ Goto(t, [To(t, "leaf") EXCEPT !.at = New])
  /\ UNCHANGED <<opens, refs, query, listed, session>>

\* The driver has opened the upper part; a driver is called for the last part.
UpperOpened(t) ==
  /\ At(t, "upper") /\ HasRoom
  /\ obj' = Alloc(obj, me[t].at)
  /\ Goto(t, [To(t, "leaf") EXCEPT !.at = New])
  /\ UNCHANGED <<opens, refs, query, listed, cache, session>>

\* A driver, or finding one, fails.
OpenFails(t) ==
  /\ me[t].pc \in {"upper", "file", "leaf"}
  /\ FreeObj(t, obj, me[t].at, Idle)
  /\ UNCHANGED <<opens, refs, query, listed, cache, session>>

\* objOpen returns the object.
Return(t) ==
  /\ opens' = opens \cup {me[t].at}
  /\ refs' = [refs EXCEPT ![me[t].at] = 1]
  /\ Goto(t, Idle)

OpenDone(t) ==
  /\ me[t].pc \in {"file", "leaf"}
  /\ Return(t)
  /\ UNCHANGED <<obj, query, listed, cache, session>>

\* The upper part is cached, unless it came from the cache or must not be.
AllocDC(t) ==
  /\ At(t, "leaf") /\ Prev(me[t].at) # me[t].hit
  /\ obj' = Linked(Prev(me[t].at))
  /\ Goto(t, To(t, "add"))
  /\ UNCHANGED <<opens, refs, query, listed, cache, session>>

\* xhqAdd, which may first discard entries (obj_internal_DiscardDC).
AddDC(t) ==
  /\ At(t, "add")
  /\ Cache!Add(t, me[t].file, Prev(me[t].at))
  /\ Goto(t, To(t, "cached"))
  /\ UNCHANGED <<obj, opens, refs, query, listed, session>>

\* An entry goes, and its object is closed.
DiscardDC(t, f) ==
  /\ Cache!Discard(f)
  /\ opens' = Leaves(cached[f])
  /\ FreeObj(t, obj, cached[f], me[t])

AddDCDiscards(t) ==
  /\ At(t, "add")
  /\ \E f \in Files : DiscardDC(t, f)
  /\ UNCHANGED <<refs, query, listed, session>>

\* Mutant: the entry that could not be added is not freed.
AddDCForgets(t) ==
  /\ At(t, "add")
  /\ Return(t)
  /\ UNCHANGED <<obj, query, listed, cache, session>>

\* Another thread has added the same, or there is no room (obj_internal_FreeDC).
AddDCFails(t) ==
  /\ At(t, "add")
  /\ FreeObj(t, obj, Prev(me[t].at), Idle)
  /\ opens' = Leaves(Prev(me[t].at)) \cup {me[t].at}
  /\ refs' = [refs EXCEPT ![me[t].at] = 1]
  /\ UNCHANGED <<query, listed, cache, session>>

UnlinkDC(t) ==
  /\ At(t, "cached")
  /\ Cache!Drop(t)
  /\ Return(t)
  /\ UNCHANGED <<obj, query, listed, session>>

-----------------------------------------------------------------------------
\* objClose and objLinkTo by a caller that has the object open.
Close(t) ==
  /\ Calls(t)
  /\ \E o \in Objs :
       /\ refs[o] > 0
       /\ refs' = [refs EXCEPT ![o] = @ - 1]
       /\ opens' = Leaves(o)
       /\ FreeObj(t, obj, o, Idle)
  /\ UNCHANGED <<query, listed, cache, session>>

LinkTo(t) ==
  /\ Calls(t)
  /\ \E o \in Objs :
       /\ refs[o] \in 1..(MaxRefs - 1)
       /\ refs' = [refs EXCEPT ![o] = @ + 1]
       /\ obj' = Linked(o)
  /\ UNCHANGED <<opens, query, listed, cache, me, session>>

-----------------------------------------------------------------------------
(***************************************************************************)
(* objOpenQuery, objQueryFetch, objQueryClose and objOpenChild.  What a    *)
(* query returns stands beside the object of the query, not below it.  A   *)
(* caller does not close a query it is fetching from.                      *)
(***************************************************************************)
Busy(q) == \E t \in Threads : me[t].qy = q

OpenQuery(t) ==
  /\ Calls(t)
  /\ \E o \in Objs, q \in Queries :
       /\ refs[o] > 0 /\ query[q] = None
       /\ query' = [query EXCEPT ![q] = o]
       /\ obj' = Linked(o)
       /\ Goto(t, [To(t, "qopen") EXCEPT !.qy = q])
  /\ UNCHANGED <<opens, refs, listed, cache, session>>

OpenQueryDone(t) ==
  /\ At(t, "qopen")
  /\ listed' = listed \cup {me[t].qy}
  /\ Goto(t, Idle)
  /\ UNCHANGED <<obj, opens, refs, query, cache, session>>

\* Mutant: a query that failed to open, or is closed, keeps its object linked.
EndQueryKeeps(t, r) ==
  /\ query' = [query EXCEPT ![me[t].qy] = None]
  /\ listed' = listed \ {me[t].qy}
  /\ Goto(t, r)
  /\ UNCHANGED <<obj, opens>>

\* objQueryClose, after the driver: the object of the query is closed.
EndQuery(t, r) ==
  LET o == query[me[t].qy] IN
  /\ query' = [query EXCEPT ![me[t].qy] = None]
  /\ listed' = listed \ {me[t].qy}
  /\ opens' = Leaves(o)
  /\ FreeObj(t, obj, o, r)

OpenQueryFails(t) ==
  /\ At(t, "qopen")
  /\ EndQuery(t, Idle)
  /\ UNCHANGED <<refs, cache, session>>

QueryFetch(t) ==
  /\ Calls(t) /\ HasRoom
  /\ \E q \in listed :
       /\ ~Busy(q)
       /\ obj' = Alloc(Linked(Prev(query[q])), Prev(query[q]))
       /\ Goto(t, [To(t, "fetch") EXCEPT !.qy = q, !.at = New])
  /\ UNCHANGED <<opens, refs, query, listed, cache, session>>

QueryFetched(t) ==
  /\ At(t, "fetch")
  /\ Return(t)
  /\ UNCHANGED <<obj, query, listed, cache, session>>

\* The driver has no more, or the child is not opened, or the name is too long.
NoObject(t) ==
  /\ me[t].pc \in {"fetch", "child"}
  /\ FreeObj(t, obj, me[t].at, Idle)
  /\ UNCHANGED <<opens, refs, query, listed, cache, session>>

QueryClose(t) ==
  /\ Calls(t)
  /\ \E q \in listed : ~Busy(q) /\ Goto(t, [To(t, "qclose") EXCEPT !.qy = q])
  /\ UNCHANGED <<obj, opens, refs, query, listed, cache, session>>

QueryClosed(t) ==
  /\ At(t, "qclose")
  /\ EndQuery(t, [Idle EXCEPT !.pc = IF session = "open" THEN "idle" ELSE "closeqs"])
  /\ UNCHANGED <<refs, cache, session>>

OpenChild(t) ==
  /\ Calls(t) /\ HasRoom
  /\ \E o \in Objs :
       /\ refs[o] > 0
       /\ obj' = [Alloc(Linked(Prev(o)), Prev(o)) EXCEPT ![New].child = TRUE]
       /\ Goto(t, [To(t, "child") EXCEPT !.at = New])
  /\ UNCHANGED <<opens, refs, query, listed, cache, session>>

\* What objOpenChild returns is not put on OpenObjects.
OpenChildDone(t) ==
  /\ At(t, "child")
  /\ refs' = [refs EXCEPT ![me[t].at] = 1]
  /\ Goto(t, Idle)
  /\ UNCHANGED <<obj, opens, query, listed, cache, session>>

-----------------------------------------------------------------------------
(***************************************************************************)
(* objCloseSession, once no request uses the session: the cache, the       *)
(* queries and the objects are closed, an object as often as it is linked. *)
(***************************************************************************)
CloseSession(t) ==
  /\ session = "open" /\ \A u \in Threads : me[u] = Idle
  /\ session' = "closing"
  /\ Goto(t, To(t, "uncache"))
  /\ UNCHANGED <<obj, opens, refs, query, listed, cache>>

Uncache(t) ==
  /\ At(t, "uncache")
  /\ \/ \E f \in Files : DiscardDC(t, f)
     \/ /\ \A f \in Files : cached[f] = None
        /\ Goto(t, To(t, "closeqs"))
        /\ UNCHANGED <<obj, opens, cache>>
  /\ UNCHANGED <<refs, query, listed, session>>

CloseQueries(t) ==
  /\ At(t, "closeqs")
  /\ \/ \E q \in listed : Goto(t, [To(t, "qclose") EXCEPT !.qy = q])
     \/ listed = {} /\ Goto(t, To(t, "closeobjs"))
  /\ UNCHANGED <<obj, opens, refs, query, listed, cache, session>>

CloseObjects(t) ==
  /\ At(t, "closeobjs")
  /\ \/ \E o \in opens :
          /\ refs' = [refs EXCEPT ![o] = @ - 1]
          /\ opens' = Leaves(o)
          /\ FreeObj(t, obj, o, me[t])
          /\ UNCHANGED session
     \/ /\ opens = {}
        /\ session' = "closed"
        /\ Goto(t, Idle)
        /\ UNCHANGED <<obj, refs, opens>>
  /\ UNCHANGED <<query, listed, cache>>

-----------------------------------------------------------------------------
Init ==
  /\ obj = [o \in Objs |-> Free]
  /\ opens = {} /\ listed = {}
  /\ refs = [o \in Objs |-> 0]
  /\ query = [q \in Queries |-> None]
  /\ Cache!Init
  /\ me = [t \in Threads |-> Idle]
  /\ session = "open"

Step(t) ==
  \/ OpenFile(t) \/ OpenInside(t) \/ LookupHit(t) \/ LookupMiss(t) \/ LinkHit(t)
  \/ UnlinkHit(t) \/ UpperOpened(t) \/ OpenFails(t) \/ OpenDone(t) \/ AllocDC(t)
  \/ AddDC(t) \/ AddDCDiscards(t) \/ AddDCFails(t) \/ UnlinkDC(t)
  \/ Closed(t) \/ Close(t) \/ LinkTo(t)
  \/ OpenQuery(t) \/ OpenQueryDone(t) \/ OpenQueryFails(t) \/ QueryFetch(t)
  \/ QueryFetched(t) \/ NoObject(t) \/ QueryClose(t) \/ QueryClosed(t)
  \/ OpenChild(t) \/ OpenChildDone(t)
  \/ CloseSession(t) \/ Uncache(t) \/ CloseQueries(t) \/ CloseObjects(t)

Next == \E t \in Threads : Step(t)

Spec == Init /\ [][Next]_vars

-----------------------------------------------------------------------------
(***************************************************************************)
(* Who refers to an object: its callers, the query and the cache entry it  *)
(* was linked for, and the calls in progress.  A call that is releasing a  *)
(* chain still refers to the rest of it, and what xhqLookup returned is    *)
(* not yet linked by the call.                                             *)
(***************************************************************************)
OfUsers == ({"caller"} \X (Objs \X (1..MaxRefs))) \cup ({"query"} \X Queries)

Referrers ==
  OfUsers \cup ({"entry"} \X Files) \cup ({"at", "dc", "del"} \X Threads)

\* Has the call a reference for the entry it will add?
ForDC(t) == me[t].pc = "add" \/ me[t].ret = "add"

\* The object a referrer refers to.
RefOf(s) ==
  LET x == s[2] IN
  CASE s[1] = "caller" -> IF x[2] <= refs[x[1]] THEN x[1] ELSE None
    [] s[1] = "query" -> query[x]
    [] s[1] = "entry" -> cached[x]
    [] s[1] = "at" -> IF At(x, "hit") THEN None ELSE me[x].at
    [] s[1] = "dc" -> IF ForDC(x) THEN Prev(me[x].at) ELSE None
    [] s[1] = "del" -> Prev(me[x].del)

(***************************************************************************)
(* A link count is the number of those who refer to the object itself or   *)
(* to one behind it in its chain, and what is referred to is not closed:   *)
(* through hits and misses of the cache, discards and duplicates, failed   *)
(* opens, queries and rows, in any order of the threads.                   *)
(***************************************************************************)
LinkExact ==
  /\ \A o \in Objs :
       obj[o].link = Cardinality({s \in Referrers : o \in Chain(RefOf(s))})
  /\ \A s \in Referrers : \A o \in Chain(RefOf(s)) : obj[o].state = "live"

\* OpenObjects is what callers and queries have open, other than by objOpenChild:
\* an object leaves the list with its last user, and before it is closed.
OpensExact ==
  opens = {o \in Objs : ~obj[o].child /\ \E s \in OfUsers : RefOf(s) = o}

\* When the session has ended, nothing it opened is left but what objOpenChild
\* opened.
SessionEnds ==
  session = "closed" =>
    \A o \in Objs : obj[o].state # "free" =>
      \E c \in Objs : obj[c].child /\ refs[c] > 0 /\ o \in Chain(c)
=============================================================================
