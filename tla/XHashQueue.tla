----------------------------- MODULE XHashQueue -----------------------------
(***************************************************************************)
(* The hash queue of centrallix-lib (xhashqueue.c), used as a cache: a     *)
(* table by key, a queue in the order of use, a link count per element,    *)
(* and a semaphore around each operation.                                  *)
(*                                                                         *)
(* A client is an MTASK thread.  What it does between its wait for         *)
(* ControlLock and its post is one step, except that DiscardFn may yield:  *)
(* both users of the module give one that closes objects.  As that of      *)
(* objdrv_xml.c, it refuses an item that is locked.  Neither gives a       *)
(* FullFn.  The semaphore is the lock of FairLock, which MTaskMutex        *)
(* implements.                                                             *)
(*                                                                         *)
(* Elements are numbered in the order they are made and used once, so that *)
(* a use after its release can be told.  A client has references of one    *)
(* element at a time.                                                      *)
(***************************************************************************)
EXTENDS Lines, FiniteSets

CONSTANTS
  Clients,      \* threads
  Keys,
  Elems,        \* bound: the XHQElement structures, with their data
  None,         \* NULL
  MaxElements,  \* the capacity, in weight
  MaxWeight,    \* bound: the weight of an element
  MaxRefs       \* bound: the references of one client

ASSUME QueueAssumption ==
  /\ IsFiniteSet(Clients) /\ IsFiniteSet(Elems) /\ Elems \subseteq Nat
  /\ None \notin Clients \cup Keys \cup Elems
  /\ MaxElements \in Nat /\ MaxWeight \in Nat \ {0} /\ MaxRefs \in Nat \ {0}

VARIABLES
  elem,    \* the elements
  table,   \* Table: the element of each key
  queue,   \* Queue: elements, last used first
  num,     \* NumElements
  lock,    \* who holds ControlLock and, in order, who waits for it
  me,      \* the clients: where each is in which call, and its variables
  told,    \* how often DiscardFn gave up the data of each element
  fault    \* a freed element was used: nothing is specified after that

vars == <<elem, table, queue, num, lock, me, told, fault>>

\* An element that is in use: a key, weight, LinkCnt and Locked.
Unused == [state |-> "unused", key |-> None, weight |-> 0, cnt |-> 0,
           locked |-> FALSE]

\* ref and n are the caller's reference and how many it has of it; key and
\* weight are the arguments of xhqAdd and xhqLookup; at is the element that
\* DiscardFn was called for, or the next one of an iteration.
Idle == [pc |-> "idle", ref |-> None, n |-> 0, key |-> None, weight |-> 0,
         at |-> None]

Labels == {"idle", "add", "discard", "lookup", "unlink", "link", "remove",
           "keep", "removing", "deinit", "closed"}

TypeOK ==
  /\ elem \in [Elems -> [state : {"unused", "live", "freed"},
                         key : Keys \cup {None}, weight : 0..MaxWeight,
                         cnt : 0..(MaxRefs * Cardinality(Clients)),
                         locked : BOOLEAN]]
  /\ table \in [Keys -> Elems \cup {None}]
  /\ queue \in Seq(Elems)
  /\ num \in 0..MaxElements
  /\ lock \in Seq(Clients)
  /\ me \in [Clients -> [pc : Labels, ref : Elems \cup {None},
                         n : 0..MaxRefs, key : Keys \cup {None},
                         weight : 0..MaxWeight, at : Elems \cup {None}]]
  /\ told \in [Elems -> 0..1]
  /\ fault \in BOOLEAN

-----------------------------------------------------------------------------
Lock == INSTANCE FairLock WITH queue <- lock

At(t, l) == ~fault /\ me[t].pc = l
Inside(t, l) == At(t, l) /\ Lock!Holds(t)

\* Who ends the queue with xhqDeInit sees to it that no one uses it any more.
InUse == \A t \in Clients : me[t].pc \notin {"deinit", "closed"}

Live(e) == elem[e].state = "live"

\* Client t waits for ControlLock and goes on with the variables r.
Ask(t, r) == Lock!Ask(t) /\ me' = [me EXCEPT ![t] = r] /\ UNCHANGED fault

\* Client t posts ControlLock and returns with the variables r.
Return(t, r) == Lock!Release(t) /\ me' = [me EXCEPT ![t] = r] /\ UNCHANGED fault

\* Client t, which holds ControlLock, goes on with the variables r.
Goto(t, r) == me' = [me EXCEPT ![t] = r] /\ UNCHANGED <<lock, fault>>

Called(t, l) == [me[t] EXCEPT !.pc = l]
Back(t) == [me[t] EXCEPT !.pc = "idle", !.key = None, !.weight = 0, !.at = None]
Dropped(t) == IF me[t].n = 1 THEN Idle ELSE [Back(t) EXCEPT !.n = @ - 1]

Without(e) == TakenOut(queue, e)

\* The item is freed and out of the queue.
Free(e) ==
  /\ queue' = Without(e)
  /\ num' = num - elem[e].weight
  /\ elem' = [elem EXCEPT ![e] = [Unused EXCEPT !.state = "freed"]]

\* xhq_internal_EnQueue.
EnQueue(e) == <<e>> \o Without(e)

-----------------------------------------------------------------------------
(***************************************************************************)
(* xhqAdd: elements no one is linked to are discarded, from the tail, for  *)
(* as long as the new one does not fit.                                    *)
(***************************************************************************)
Add(t) ==
  /\ At(t, "idle") /\ me[t].ref = None /\ InUse
  /\ \E k \in Keys, w \in 0..MaxWeight :
       Ask(t, [Called(t, "add") EXCEPT !.key = k, !.weight = IF w = 0 THEN 1 ELSE w])
  /\ UNCHANGED <<elem, table, queue, num, told>>

\* Mutant: an element is discarded from the tail whether it is linked or not.
UnlinkedOrNot(e) ==
  {i \in DOMAIN queue : e = None \/ \E j \in DOMAIN queue : queue[j] = e /\ i < j}

\* The elements xhq_internal_DiscardOne comes to after e (or from the tail),
\* towards the head.
Unlinked(e) ==
  {i \in DOMAIN queue : elem[queue[i]].cnt = 0
                        /\ (e = None \/ \E j \in DOMAIN queue : queue[j] = e /\ i < j)}

\* Mutant: a full queue is not noticed one short.
FitsOneMore(t) == num + me[t].weight <= MaxElements + 1

Fits(t) == num + me[t].weight <= MaxElements

\* The next element is taken from the table and DiscardFn is called; e is the
\* one it refused before, if it did.
DiscardFrom(t, e) ==
  /\ \E i \in Unlinked(e) :
       /\ \A j \in Unlinked(e) : j <= i
       /\ table' = IF e = None
                   THEN [table EXCEPT ![elem[queue[i]].key] = None]
                   ELSE [table EXCEPT ![elem[e].key] = e, ![elem[queue[i]].key] = None]
       /\ Goto(t, [Called(t, "discard") EXCEPT !.at = queue[i]])
  /\ UNCHANGED <<elem, queue, num, told>>

DiscardOne(t) == Inside(t, "add") /\ ~Fits(t) /\ DiscardFrom(t, None)

\* Mutant: xhqAdd returns with the lock when nothing can be discarded.
AddFullLocked(t) ==
  /\ Inside(t, "add") /\ ~Fits(t) /\ Unlinked(None) = {}
  /\ Goto(t, Back(t))
  /\ UNCHANGED <<elem, table, queue, num, told>>

AddFull(t) ==
  /\ Inside(t, "add") /\ ~Fits(t) /\ Unlinked(None) = {}
  /\ Return(t, Back(t))
  /\ UNCHANGED <<elem, table, queue, num, told>>

\* Mutant: the element is freed and its weight is not given back.
DiscardedKeepsWeight(t) ==
  LET e == me[t].at IN
  /\ Inside(t, "discard") /\ ~elem[e].locked
  /\ told' = [told EXCEPT ![e] = @ + 1]
  /\ queue' = Without(e)
  /\ elem' = [elem EXCEPT ![e] = [Unused EXCEPT !.state = "freed"]]
  /\ Goto(t, [Called(t, "add") EXCEPT !.at = None])
  /\ UNCHANGED <<table, num>>

Discarded(t) ==
  LET e == me[t].at IN
  /\ Inside(t, "discard") /\ ~elem[e].locked
  /\ told' = [told EXCEPT ![e] = @ + 1]
  /\ Free(e)
  /\ Goto(t, [Called(t, "add") EXCEPT !.at = None])
  /\ UNCHANGED table

\* DiscardFn refuses a locked item: it is put back, and the next one is tried.
DiscardRefused(t) ==
  LET e == me[t].at IN
  /\ Inside(t, "discard") /\ elem[e].locked
  /\ \/ DiscardFrom(t, e)
     \/ /\ Unlinked(e) = {}
        /\ table' = [table EXCEPT ![elem[e].key] = e]
        /\ Return(t, Back(t))
        /\ UNCHANGED <<elem, queue, num, told>>

AddElement(t) ==
  LET k == me[t].key IN
  /\ Inside(t, "add") /\ Fits(t) /\ table[k] = None
  /\ \E e \in Elems :
       /\ elem[e].state = "unused" /\ \A f \in Elems : f < e => elem[f].state # "unused"
       /\ elem' = [elem EXCEPT ![e] = [state |-> "live", key |-> k, cnt |-> 1,
                                       weight |-> me[t].weight, locked |-> FALSE]]
       /\ table' = [table EXCEPT ![k] = e]
       /\ queue' = EnQueue(e)
       /\ num' = num + me[t].weight
       /\ Return(t, [Back(t) EXCEPT !.ref = e, !.n = 1])
  /\ UNCHANGED told

\* A duplicate key, or no memory; what was discarded for it is gone.
AddFails(t) ==
  /\ Inside(t, "add") /\ Fits(t)
  /\ Return(t, Back(t))
  /\ UNCHANGED <<elem, table, queue, num, told>>

-----------------------------------------------------------------------------
(***************************************************************************)
(* xhqLookup, xhqUnlink, xhqLink, xhqLockItem and xhqUnlockItem.           *)
(***************************************************************************)
Lookup(t) ==
  /\ At(t, "idle") /\ me[t].ref = None /\ InUse
  /\ \E k \in Keys : Ask(t, [Called(t, "lookup") EXCEPT !.key = k])
  /\ UNCHANGED <<elem, table, queue, num, told>>

\* Mutant: the element found is not linked.
LookedUpNoLink(t) ==
  LET e == table[me[t].key] IN
  /\ Inside(t, "lookup")
  /\ Return(t, IF e = None THEN Back(t) ELSE [Back(t) EXCEPT !.ref = e, !.n = 1])
  /\ UNCHANGED <<elem, table, queue, num, told>>

LookedUp(t) ==
  LET e == table[me[t].key] IN
  /\ Inside(t, "lookup")
  /\ \/ /\ e = None
        /\ Return(t, Back(t))
        /\ UNCHANGED elem
     \/ /\ e # None
        /\ elem' = [elem EXCEPT ![e].cnt = @ + 1]
        /\ Return(t, [Back(t) EXCEPT !.ref = e, !.n = 1])
  /\ UNCHANGED <<table, queue, num, told>>

\* The calls that are given an element.
Use(t) ==
  /\ At(t, "idle") /\ me[t].ref # None
  /\ \/ Ask(t, Called(t, "unlink"))
     \/ me[t].n < MaxRefs /\ Ask(t, Called(t, "link"))
  /\ UNCHANGED <<elem, table, queue, num, told>>

Unlink(t) ==
  LET e == me[t].ref IN
  /\ Inside(t, "unlink") /\ Live(e)
  /\ queue' = EnQueue(e)
  /\ elem' = [elem EXCEPT ![e].cnt = @ - 1]
  /\ Return(t, Dropped(t))
  /\ UNCHANGED <<table, num, told>>

Link(t) ==
  LET e == me[t].ref IN
  /\ Inside(t, "link") /\ Live(e)
  /\ elem' = [elem EXCEPT ![e].cnt = @ + 1]
  /\ Return(t, [Back(t) EXCEPT !.n = @ + 1])
  /\ UNCHANGED <<table, queue, num, told>>

\* xhqLockItem and xhqUnlockItem take no lock.
LockItem(t) ==
  /\ At(t, "idle") /\ me[t].ref # None /\ Live(me[t].ref)
  /\ elem' = [elem EXCEPT ![me[t].ref].locked = ~@]
  /\ UNCHANGED <<table, queue, num, lock, me, told, fault>>

-----------------------------------------------------------------------------
(***************************************************************************)
(* xhqRemove: the link count is looked at before the wait for the lock.    *)
(* "keep" is XHQ_UF_NOCALLDISCARD.                                         *)
(***************************************************************************)
Remove(t) ==
  /\ At(t, "idle") /\ me[t].ref # None
  /\ Live(me[t].ref) /\ elem[me[t].ref].cnt = 1
  /\ \E l \in {"remove", "keep"} : Ask(t, Called(t, l))
  /\ UNCHANGED <<elem, table, queue, num, told>>

RemoveDiscards(t) ==
  LET e == me[t].ref IN
  /\ Inside(t, "remove") /\ Live(e)
  /\ table' = [table EXCEPT ![elem[e].key] = None]
  /\ Goto(t, [Called(t, "removing") EXCEPT !.at = e])
  /\ UNCHANGED <<elem, queue, num, told>>

\* Mutant: the item that DiscardFn refused is not put back into the table.
RemovedGone(t) ==
  LET e == me[t].at IN
  /\ Inside(t, "removing")
  /\ \/ /\ elem[e].locked
        /\ Return(t, Back(t))
        /\ UNCHANGED <<elem, table, queue, num, told>>
     \/ /\ ~elem[e].locked
        /\ told' = [told EXCEPT ![e] = @ + 1]
        /\ Free(e)
        /\ Return(t, Idle)
        /\ UNCHANGED table

Removed(t) ==
  LET e == me[t].at IN
  /\ Inside(t, "removing")
  /\ \/ /\ elem[e].locked
        /\ table' = [table EXCEPT ![elem[e].key] = e]
        /\ Return(t, Back(t))
        /\ UNCHANGED <<elem, queue, num, told>>
     \/ /\ ~elem[e].locked
        /\ told' = [told EXCEPT ![e] = @ + 1]
        /\ Free(e)
        /\ Return(t, Idle)
        /\ UNCHANGED table

RemoveKeeps(t) ==
  LET e == me[t].ref IN
  /\ Inside(t, "keep") /\ Live(e)
  /\ \/ elem[e].locked /\ Return(t, Back(t)) /\ UNCHANGED <<elem, table, queue, num>>
     \/ /\ ~elem[e].locked
        /\ table' = [table EXCEPT ![elem[e].key] = None]
        /\ Free(e)
        /\ Return(t, Idle)
  /\ UNCHANGED told

-----------------------------------------------------------------------------
(***************************************************************************)
(* xhqDeInit.  The iteration reads the next element before DiscardFn is    *)
(* called for one; each is freed, whether DiscardFn refuses it or not.     *)
(***************************************************************************)
DeInit(t) ==
  /\ ~fault /\ \A u \in Clients : me[u] = Idle
  /\ Ask(t, Called(t, "deinit"))
  /\ UNCHANGED <<elem, table, queue, num, told>>

DeInitNext(t) ==
  /\ Inside(t, "deinit") /\ queue # <<>>
  /\ LET e == Head(queue) IN
       /\ table' = [table EXCEPT ![elem[e].key] = None]
       /\ told' = [told EXCEPT ![e] = IF elem[e].locked THEN @ ELSE @ + 1]
       /\ Free(e)
  /\ UNCHANGED <<lock, me, fault>>

DeInitDone(t) ==
  /\ Inside(t, "deinit") /\ queue = <<>>
  /\ Lock!Release(t)
  /\ me' = [u \in Clients |-> [Idle EXCEPT !.pc = "closed"]]
  /\ UNCHANGED <<elem, table, queue, num, told, fault>>

-----------------------------------------------------------------------------
\* A client that still has a reference of an element that was freed uses it.
UseFreed(t) ==
  /\ ~fault /\ me[t].ref # None /\ ~Live(me[t].ref)
  /\ \/ me[t].pc = "idle"
     \/ me[t].pc \in {"unlink", "link", "remove", "keep"} /\ Lock!Holds(t)
  /\ fault' = TRUE
  /\ UNCHANGED <<elem, table, queue, num, lock, me, told>>

Init ==
  /\ elem = [e \in Elems |-> Unused]
  /\ table = [k \in Keys |-> None]
  /\ queue = <<>>
  /\ num = 0
  /\ Lock!Init
  /\ me = [t \in Clients |-> Idle]
  /\ told = [e \in Elems |-> 0]
  /\ fault = FALSE

Step(t) ==
  \/ Add(t) \/ DiscardOne(t) \/ AddFull(t) \/ Discarded(t) \/ DiscardRefused(t)
  \/ AddElement(t) \/ AddFails(t)
  \/ Lookup(t) \/ LookedUp(t) \/ Use(t) \/ Unlink(t) \/ Link(t) \/ LockItem(t)
  \/ Remove(t) \/ RemoveDiscards(t) \/ Removed(t) \/ RemoveKeeps(t)
  \/ DeInit(t) \/ DeInitNext(t) \/ DeInitDone(t)
  \/ UseFreed(t)

Next == \E t \in Clients : Step(t)

Spec == Init /\ [][Next]_vars

\* Strong fairness for the steps of a call, as a thread waits for its turn.
InCall(t) == me[t].pc # "idle" /\ Step(t)
FairSpec == Spec /\ \A t \in Clients : SF_vars(InCall(t))

-----------------------------------------------------------------------------
\* The weights of the elements in the queue up to the i-th.
Weigh[i \in Nat] == IF i = 0 THEN 0 ELSE Weigh[i - 1] + elem[queue[i]].weight

\* The references the clients have of e.
References(e) ==
  {r \in Clients \X (1..MaxRefs) : me[r[1]].ref = e /\ r[2] <= me[r[1]].n}

\* The element DiscardFn was called for.
AtDiscard == {me[t].at : t \in Clients} \ {None}

(***************************************************************************)
(* The table and the queue hold the same elements, one for each key, but   *)
(* for the one DiscardFn was called for; NumElements is what the queue     *)
(* weighs.  xhqAdd, xhqRemove and xhq_internal_DiscardOne each take an     *)
(* element from the one or the other and may have to put it back.          *)
(***************************************************************************)
TableIsQueue ==
  /\ \A i, j \in DOMAIN queue :
       elem[queue[i]].key = elem[queue[j]].key => i = j
  /\ \A i \in DOMAIN queue :
       LET e == queue[i] IN
       Live(e) /\ table[elem[e].key] = (IF e \in AtDiscard THEN None ELSE e)
  /\ \A k \in Keys : table[k] # None => \E i \in DOMAIN queue : queue[i] = table[k]

Accounted == num = Weigh[Len(queue)]

\* The link count of an element is the number of references the clients have
\* of it, whichever way they got them and however the calls interleave.
LinksHeld == \A e \in Elems : Live(e) => elem[e].cnt = Cardinality(References(e))

\* What the callers know of: the element of each key and the references.
Kept ==
  [k \in Keys |-> LET on == {e \in Elems : Live(e) /\ elem[e].key = k} IN
                  IF on = {} THEN None ELSE CHOOSE e \in on : TRUE]
Held == [t \in Clients |-> me[t].ref]

Cache == INSTANCE LinkCache WITH Items <- Elems, cached <- Kept, held <- Held

\* What the callers see is a LinkCache: an item someone is linked to is not
\* discarded (xhqAdd, xhqDeInit), and only one who has it removes it.
IsLinkCache == Cache!Spec

\* Every call returns: no path leaves ControlLock taken, and the discarding of
\* elements comes to an end though DiscardFn may refuse them.
CallsReturn ==
  \A t \in Clients : me[t].pc # "idle" ~> me[t].pc \in {"idle", "closed"} \/ fault
=============================================================================
