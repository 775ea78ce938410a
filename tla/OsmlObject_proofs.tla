------------------------- MODULE OsmlObject_proofs -------------------------
(***************************************************************************)
(* For any number of threads, files, objects and queries: link counts are  *)
(* the references of callers, queries, the cache and calls in progress,    *)
(* nothing that is referred to is closed, and the session ends with all it *)
(* has opened closed.                                                      *)
(***************************************************************************)
EXTENDS OsmlObject, FiniteSetTheorems, WellFoundedInduction, TLAPS

-----------------------------------------------------------------------------
(***************************************************************************)
(* The invariant.  The first part is about who refers to what: g is what   *)
(* each referrer refers to, ob the objects, and own the referrers that are *)
(* alone with their object.                                                *)
(***************************************************************************)
Object == [state : {"free", "live", "closing"}, child : BOOLEAN, link : Int,
           prev : Objs \cup {None}]

Above(ob, o) == IF o = None THEN None ELSE ob[o].prev
UsersOf(g, ob, o) == {s \in Referrers : g[s] = o \/ Above(ob, g[s]) = o}

\* Links count the users, who use live objects.
Counted(g, ob) ==
  /\ g \in [Referrers -> Objs \cup {None}] /\ ob \in [Objs -> Object]
  /\ \A o \in Objs : /\ ob[o].link = Cardinality(UsersOf(g, ob, o))
                     /\ ob[o].state = "live" => ob[o].link > 0

\* Chains are of one or two live objects.
Chained(g, ob) ==
  \A s \in Referrers : g[s] # None =>
    /\ ob[g[s]].state = "live"
    /\ Above(ob, g[s]) # None =>
         ob[Above(ob, g[s])].state = "live" /\ ob[Above(ob, g[s])].prev = None

\* What callers and queries have is not above anything, nor has a call or the
\* cache a reference of it.
Separate(g, ob) ==
  \A o \in OfUsers, s \in Referrers :
    g[o] # None /\ g[o] \in {g[s], Above(ob, g[s])} => s \in OfUsers /\ g[s] = g[o]

\* What a call is about to return is its own.
Owned(g, ob, own) ==
  \A o \in own, s \in Referrers :
    g[o] # None /\ (g[o] \in {g[s], Above(ob, g[s])} => s = o)

Graph(g, ob, own) ==
  /\ own \in SUBSET (Referrers \ OfUsers)
  /\ Counted(g, ob) /\ Chained(g, ob) /\ Separate(g, ob) /\ Owned(g, ob, own)

Refs == [s \in Referrers |-> RefOf(s)]

Builds(t) ==
  \/ me[t].pc \in {"upper", "file", "leaf", "add", "cached", "fetch", "child"}
  \/ me[t].ret = "add"
Owners == {<<"at", t>> : t \in {u \in Threads : Builds(u)}}

OpenIn(g, ob) == {o \in Objs : ~ob[o].child /\ \E s \in OfUsers : g[s] = o}

Types ==
  /\ refs \in [Objs -> 0..MaxRefs]
  /\ query \in [Queries -> Objs \cup {None}] /\ listed \in SUBSET Queries
  /\ cached \in [Files -> Objs \cup {None}]
  /\ held \in [Threads -> Objs \cup {None}]
  /\ me \in [Threads -> [pc : Labels, file : Files \cup {None},
                         at : Objs \cup {None}, hit : Objs \cup {None},
                         del : Objs \cup {None}, ret : Labels,
                         qy : Queries \cup {None}]]
  /\ session \in {"open", "closing", "closed"}

\* Where a thread is, and what it then has.
Rets == {"idle", "add", "uncache", "closeqs", "closeobjs"}
Placed(t) ==
  LET r == me[t] IN
  /\ r.pc = "idle" => r = Idle
  /\ r.pc = "lookup" => r.at = None
  /\ r.pc # "close" => r.ret = "idle" /\ r.del = None
  /\ r.pc = "close" => r.ret \in Rets
  /\ r.pc = "close" /\ r.ret = "idle" => r = [Idle EXCEPT !.pc = "close", !.del = r.del]
  /\ r.pc \in {"lookup", "hit", "unlink", "upper", "leaf", "add", "cached"} \/ r.ret = "add"
       => r.file \in Files /\ r.qy = None
  /\ r.pc \in {"hit", "unlink"} => r.at \in Objs /\ held[t] = r.at /\ obj[r.at].prev = None
  /\ r.pc = "hit" => cached[r.file] = r.at
  /\ r.pc = "upper" => obj[r.at].prev = None
  /\ r.pc \in {"leaf", "add", "cached"} \/ r.ret = "add" => obj[r.at].prev # None
  /\ Builds(t) => obj[r.at].child = (r.pc = "child")
  /\ r.pc \in {"qopen", "qclose", "uncache", "closeqs", "closeobjs"} => r.at = None
  /\ r.ret \in {"uncache", "closeqs", "closeobjs"} => r.at = None
  /\ r.pc \in {"qopen", "fetch", "qclose"} => r.qy \in Queries /\ query[r.qy] # None
  /\ r.pc \notin {"qopen", "fetch", "qclose"} => r.qy = None
  /\ r.pc = "qopen" => r.qy \notin listed
  /\ r.pc \in {"fetch", "qclose"} => r.qy \in listed

Distinct ==
  \A t, u \in Threads : t # u => me[t].qy = None \/ me[t].qy # me[u].qy

\* An object that is being closed is closed by one thread.
Closing ==
  /\ \A t \in Threads : me[t].pc = "close" =>
       me[t].del \in Objs /\ obj[me[t].del].state = "closing"
  /\ \A t, u \in Threads : t # u => me[t].del = None \/ me[t].del # me[u].del
  /\ \A o \in Objs : obj[o].state = "closing" => \E t \in Threads : me[t].del = o

Listed ==
  \A q \in Queries :
    /\ q \in listed => query[q] # None
    /\ query[q] # None => q \in listed \/ \E t \in Threads : me[t].pc = "qopen" /\ me[t].qy = q

Uppers == \A f \in Files : cached[f] # None => obj[cached[f]].prev = None

\* The end of the session.
Ends == {"uncache", "qclose", "closeqs", "closeobjs", "close"}
EndRets == {"uncache", "closeqs", "closeobjs"}
Empty == (\A f \in Files : cached[f] = None)
Phase ==
  /\ session = "open" => \A t \in Threads : me[t].pc \notin EndRets /\ me[t].ret \notin EndRets
  /\ session = "closing" => \E t \in Threads :
       /\ \A u \in Threads : u # t => me[u] = Idle
       /\ me[t].pc \in Ends
       /\ me[t].pc = "close" => me[t].ret \in EndRets
       /\ me[t].pc # "uncache" /\ me[t].ret # "uncache" => Empty
       /\ me[t].pc = "closeobjs" \/ me[t].ret = "closeobjs" => listed = {}
  /\ session = "closed" => /\ \A t \in Threads : me[t] = Idle
                           /\ Empty /\ listed = {} /\ opens = {}

IInv ==
  /\ Types /\ Graph(Refs, obj, Owners) /\ opens = OpenIn(Refs, obj)
  /\ \A t \in Threads : Placed(t)
  /\ Distinct /\ Closing /\ Listed /\ Uppers /\ Phase

-----------------------------------------------------------------------------
(***************************************************************************)
(* Counting users.                                                         *)
(***************************************************************************)
LEMMA ReferrersFinite == IsFiniteSet(Referrers) /\ OfUsers \in SUBSET Referrers
<1>1. IsFiniteSet(1..MaxRefs)
  BY OsmlAssumption, FS_Interval
<1>2. IsFiniteSet({"caller"}) /\ IsFiniteSet({"query"}) /\ IsFiniteSet({"entry"})
  BY FS_Singleton
<1>3. IsFiniteSet({"at"} \cup {"dc"} \cup {"del"})
  BY FS_Singleton, FS_Union
<1>4. IsFiniteSet({"at", "dc", "del"})
  <2>1. {"at", "dc", "del"} = {"at"} \cup {"dc"} \cup {"del"}
    OBVIOUS
  <2> QED BY <1>3, <2>1
<1>5. IsFiniteSet(Objs \X (1..MaxRefs))
  BY <1>1, OsmlAssumption, FS_Product
<1>6. /\ IsFiniteSet({"caller"} \X (Objs \X (1..MaxRefs))) /\ IsFiniteSet({"query"} \X Queries)
      /\ IsFiniteSet({"entry"} \X Files) /\ IsFiniteSet({"at", "dc", "del"} \X Threads)
  BY <1>2, <1>4, <1>5, OsmlAssumption, FS_Product
<1>7. IsFiniteSet(OfUsers)
  BY <1>6, FS_Union DEF OfUsers
<1> QED BY <1>6, <1>7, FS_Union DEF Referrers

LEMMA Counts ==
  ASSUME NEW A \in SUBSET Referrers
  PROVE  /\ IsFiniteSet(A) /\ Cardinality(A) \in Nat
         /\ A = {} <=> Cardinality(A) = 0
         /\ \A s \in Referrers : s \notin A => Cardinality(A \cup {s}) = Cardinality(A) + 1
         /\ \A s \in A : Cardinality(A \ {s}) = Cardinality(A) - 1
<1>1. IsFiniteSet(A)
  BY ReferrersFinite, FS_Subset
<1> QED BY <1>1, FS_CardinalityType, FS_EmptySet, FS_AddElement, FS_RemoveElement

LEMMA CountsMore ==
  ASSUME NEW A \in SUBSET Referrers, NEW C \in SUBSET A
  PROVE  Cardinality(C) <= Cardinality(A)
BY Counts, FS_Subset

Put(g, s, o) == [g EXCEPT ![s] = o]

LEMMA PutIs ==
  ASSUME NEW g \in [Referrers -> Objs \cup {None}], NEW s \in Referrers, NEW o \in Objs \cup {None}
  PROVE  /\ Put(g, s, o) \in [Referrers -> Objs \cup {None}]
         /\ Put(g, s, o)[s] = o
         /\ \A v \in Referrers : v # s => Put(g, s, o)[v] = g[v]
BY DEF Put

LEMMA NoneIsNone == None \notin Objs /\ None \notin Queries /\ None \notin Files /\ None \notin Threads
BY OsmlAssumption

\* Nothing of the objects but their counts differs.
Shape(ob, b) ==
  \A x \in Objs : b[x].state = ob[x].state /\ b[x].child = ob[x].child /\ b[x].prev = ob[x].prev

\* The chain of o has n links more.
Gains(ob, b, o, n) ==
  \A x \in Objs : b[x].link = ob[x].link + (IF x \in {o, Above(ob, o)} THEN n ELSE 0)

LEMMA AboveIs ==
  ASSUME NEW ob \in [Objs -> Object], NEW o \in Objs \cup {None}
  PROVE  /\ Above(ob, o) \in Objs \cup {None}
         /\ Above(ob, None) = None
         /\ o # None => o \in Objs /\ Above(ob, o) = ob[o].prev
BY NoneIsNone DEF Above, Object

LEMMA ShapeAbove ==
  ASSUME NEW ob \in [Objs -> Object], NEW b \in [Objs -> Object], Shape(ob, b)
  PROVE  \A o \in Objs \cup {None} : Above(b, o) = Above(ob, o)
BY NoneIsNone DEF Above, Shape

LEMMA LinkKeeps ==
  ASSUME NEW g, NEW ob, NEW own, Graph(g, ob, own), NEW s \in Referrers, g[s] = None,
         NEW v \in Referrers, NEW o \in Objs \cup {None},
         \/ o = g[v] /\ v \notin own /\ (v \in OfUsers <=> s \in OfUsers)
         \/ o = Above(ob, g[v]) /\ s \notin OfUsers,
         NEW b \in [Objs -> Object], Shape(ob, b), Gains(ob, b, o, 1)
  PROVE  Graph(Put(g, s, o), b, own) /\ OpenIn(Put(g, s, o), b) = OpenIn(g, ob)
<1> DEFINE h == Put(g, s, o)
<1>1. /\ g \in [Referrers -> Objs \cup {None}] /\ ob \in [Objs -> Object]
      /\ own \in SUBSET (Referrers \ OfUsers)
  BY DEF Graph, Counted
<1>2. /\ h \in [Referrers -> Objs \cup {None}] /\ h[s] = o
      /\ \A w \in Referrers : w # s => h[w] = g[w]
  BY <1>1, PutIs
<1> HIDE DEF h
<1>3. \A x \in Objs \cup {None} : Above(b, x) = Above(ob, x)
  BY <1>1, ShapeAbove
<1>4. s \notin own
  BY DEF Graph, Owned
<1>5. CASE o = None
  <2>1. h = g
    BY <1>1, <1>2, <1>5
  <2>2. \A x \in Objs : b[x] = ob[x]
    <3> SUFFICES ASSUME NEW x \in Objs PROVE b[x] = ob[x]
      OBVIOUS
    <3>1. b[x].link = ob[x].link
      BY <1>1, <1>5, AboveIs, NoneIsNone DEF Gains, Object
    <3> QED BY <1>1, <3>1 DEF Shape, Object
  <2>3. b = ob
    BY <1>1, <2>2
  <2> QED BY <2>1, <2>3 DEF h
<1>6. CASE o # None
  <2>0. o \in Objs /\ Above(ob, o) \in Objs \cup {None} /\ o \in {g[v], Above(ob, g[v])} /\ g[v] # None
    BY <1>1, <1>6, AboveIs
  <2>1. /\ ob[o].state = "live"
        /\ Above(ob, o) # None => ob[Above(ob, o)].state = "live" /\ ob[Above(ob, o)].prev = None
    <3>1. /\ ob[g[v]].state = "live"
          /\ Above(ob, g[v]) # None =>
               ob[Above(ob, g[v])].state = "live" /\ ob[Above(ob, g[v])].prev = None
      BY <2>0 DEF Graph, Chained
    <3>2. CASE o = g[v]
      BY <3>1, <3>2
    <3>3. CASE o = Above(ob, g[v])
      <4>1. ob[o].state = "live" /\ ob[o].prev = None
        BY <1>6, <3>1, <3>3
      <4>2. Above(ob, o) = None
        BY <1>1, <1>6, <4>1, AboveIs
      <4> QED BY <4>1, <4>2
    <3> QED BY <2>0, <3>2, <3>3
  <2>2. Counted(h, b)
    <3> SUFFICES ASSUME NEW x \in Objs
                 PROVE  /\ b[x].link = Cardinality(UsersOf(h, b, x))
                        /\ b[x].state = "live" => b[x].link > 0
      BY <1>2 DEF Counted
    <3>1. /\ ob[x].link = Cardinality(UsersOf(g, ob, x)) /\ (ob[x].state = "live" => ob[x].link > 0)
          /\ b[x].state = ob[x].state /\ ob[x].link \in Int
      BY <1>1 DEF Graph, Counted, Shape, Object
    <3>u. UsersOf(g, ob, x) \in SUBSET Referrers
      BY DEF UsersOf
    <3>2. s \notin UsersOf(g, ob, x)
      BY <1>1, AboveIs, NoneIsNone DEF UsersOf
    <3>3. CASE x \in {o, Above(ob, o)}
      <4>1. UsersOf(h, b, x) = UsersOf(g, ob, x) \cup {s}
        BY <1>1, <1>2, <1>3, <3>2, <3>3, <2>0 DEF UsersOf
      <4>2. b[x].link = ob[x].link + 1
        BY <3>3 DEF Gains
      <4>3. /\ Cardinality(UsersOf(g, ob, x)) \in Nat
            /\ Cardinality(UsersOf(h, b, x)) = Cardinality(UsersOf(g, ob, x)) + 1
        BY <3>u, <3>2, <4>1, Counts
      <4> QED BY <3>1, <4>2, <4>3
    <3>4. CASE x \notin {o, Above(ob, o)}
      <4>1. UsersOf(h, b, x) = UsersOf(g, ob, x)
        BY <1>1, <1>2, <1>3, <3>2, <3>4, <2>0 DEF UsersOf
      <4>2. b[x].link = ob[x].link
        BY <3>1, <3>4 DEF Gains
      <4> QED BY <3>1, <4>1, <4>2
    <3> QED BY <3>3, <3>4
  <2>3. Chained(h, b)
    <3> SUFFICES ASSUME NEW w \in Referrers, h[w] # None
                 PROVE  /\ b[h[w]].state = "live"
                        /\ Above(b, h[w]) # None =>
                             b[Above(b, h[w])].state = "live" /\ b[Above(b, h[w])].prev = None
      BY DEF Chained
    <3> DEFINE y == h[w]
               z == Above(ob, y)
    <3>1. y \in Objs /\ z \in Objs \cup {None} /\ Above(b, y) = z
      BY <1>1, <1>2, <1>3, AboveIs
    <3>2. ob[y].state = "live" /\ (z # None => ob[z].state = "live" /\ ob[z].prev = None)
      BY <1>2, <2>1 DEF Graph, Chained
    <3> HIDE DEF z
    <3> QED BY <3>1, <3>2 DEF Shape
  <2>4. Separate(h, b)
    <3> SUFFICES ASSUME NEW x \in OfUsers, NEW w \in Referrers, h[x] # None,
                        h[x] \in {h[w], Above(ob, h[w])}
                 PROVE  w \in OfUsers /\ h[w] = h[x]
      BY <1>2, <1>3 DEF Separate
    <3>0. x \in Referrers /\ h[x] \in Objs
      BY <1>2, ReferrersFinite
    <3>1. \A y \in OfUsers, z \in Referrers :
            g[y] # None /\ g[y] \in {g[z], Above(ob, g[z])} => z \in OfUsers /\ g[z] = g[y]
      BY DEF Graph, Separate
    <3>2. CASE x = s
      <4>1. v \in OfUsers /\ g[v] = o
        BY <2>0, <3>2
      <4>2. CASE w = s
        BY <1>2, <3>2, <4>2
      <4>3. CASE w # s
        BY <1>2, <1>6, <3>1, <3>2, <4>1, <4>3
      <4> QED BY <4>2, <4>3
    <3>3. CASE x # s /\ w # s
      BY <1>2, <3>0, <3>1, <3>3
    <3>4. CASE x # s /\ w = s
      <4>1. g[x] # None /\ g[x] \in {o, Above(ob, o)}
        BY <1>2, <3>0, <3>4
      <4>2. CASE o = g[v] /\ v \notin own /\ (v \in OfUsers <=> s \in OfUsers)
        <5>1. v \in OfUsers /\ g[v] = g[x]
          BY <3>1, <4>1, <4>2
        <5> QED BY <1>2, <3>0, <3>4, <4>2, <5>1
      <4>3. CASE o = Above(ob, g[v]) /\ s \notin OfUsers
        <5>1. Above(ob, o) = None
          BY <1>1, <1>6, <2>0, <4>3, AboveIs DEF Graph, Chained
        <5>2. g[x] = Above(ob, g[v])
          BY <4>1, <4>3, <5>1
        <5>3. g[v] = g[x]
          BY <3>1, <4>1, <5>2
        <5>4. g[v] \in Objs /\ ob[g[v]].prev = g[v]
          BY <1>1, <4>1, <5>2, <5>3, AboveIs
        <5>5. ob[g[v]].prev = None
          BY <1>6, <2>0, <4>3, <5>1, <5>2, <5>3
        <5> QED BY <5>4, <5>5, NoneIsNone
      <4> QED BY <4>2, <4>3
    <3> QED BY <3>2, <3>3, <3>4
  <2>5. Owned(h, b, own)
    <3> SUFFICES ASSUME NEW x \in own, NEW w \in Referrers
                 PROVE  h[x] # None /\ (h[x] \in {h[w], Above(ob, h[w])} => w = x)
      BY <1>2, <1>3 DEF Owned
    <3>1. \A z \in Referrers : g[x] # None /\ (g[x] \in {g[z], Above(ob, g[z])} => z = x)
      BY DEF Graph, Owned
    <3>2. h[x] = g[x] /\ x # s /\ x \in Referrers
      BY <1>1, <1>2, <1>4
    <3>3. CASE w = s
      <4>1. SUFFICES ASSUME g[x] \in {o, Above(ob, o)} PROVE FALSE
        BY <1>2, <3>1, <3>2, <3>3
      <4>2. CASE o = g[v] /\ v \notin own
        BY <3>1, <4>1, <4>2
      <4>3. CASE o = Above(ob, g[v])
        <5>1. Above(ob, o) = None
          BY <1>1, <1>6, <2>0, <4>3, AboveIs DEF Graph, Chained
        <5>2. g[x] = Above(ob, g[v]) /\ v = x
          BY <3>1, <4>1, <4>3, <5>1
        <5>3. g[v] \in Objs /\ ob[g[v]].prev = g[v]
          BY <1>1, <3>1, <5>2, AboveIs
        <5>4. ob[g[v]].prev = None
          BY <1>6, <2>0, <4>3, <5>1, <5>2
        <5> QED BY <5>3, <5>4, NoneIsNone
      <4> QED BY <4>2, <4>3
    <3>4. CASE w # s
      BY <1>2, <3>1, <3>2, <3>4
    <3> QED BY <3>3, <3>4
  <2>6. OpenIn(h, b) = OpenIn(g, ob)
    <3>1. ASSUME NEW x \in Objs
          PROVE  (\E w \in OfUsers : h[w] = x) <=> (\E w \in OfUsers : g[w] = x)
      <4>1. \A w \in OfUsers : w \in Referrers /\ (w # s => h[w] = g[w])
        BY <1>2, ReferrersFinite
      <4>2. s \in OfUsers => v \in OfUsers /\ g[v] = o
        BY <2>0
      <4>3. g[s] # x
        BY NoneIsNone
      <4>4. s \in OfUsers => v # s
        BY <2>0
      <4> QED BY <1>2, <4>1, <4>2, <4>3, <4>4
    <3> QED BY <3>1 DEF OpenIn, Shape
  <2>7. Graph(h, b, own)
    BY <1>1, <2>2, <2>3, <2>4, <2>5 DEF Graph
  <2> QED BY <2>6, <2>7 DEF h
<1> QED BY <1>5, <1>6

LEMMA FewerOwned ==
  ASSUME NEW g, NEW ob, NEW own, Graph(g, ob, own), NEW o2 \in SUBSET own
  PROVE  Graph(g, ob, o2)
BY DEF Graph, Owned

\* What is not live nobody refers to.
LEMMA Unused ==
  ASSUME NEW g, NEW ob, NEW own, Graph(g, ob, own), NEW x \in Objs, ob[x].state # "live"
  PROVE  \A w \in Referrers : g[w] # x /\ Above(ob, g[w]) # x
<1>1. None \notin Objs /\ Above(ob, None) = None
  BY NoneIsNone DEF Above
<1>2. ASSUME NEW w \in Referrers PROVE g[w] # x /\ Above(ob, g[w]) # x
  <2>1. g[w] # None => /\ ob[g[w]].state = "live"
                       /\ Above(ob, g[w]) # None => ob[Above(ob, g[w])].state = "live"
    BY DEF Graph, Chained
  <2> QED BY <1>1, <2>1
<1> QED BY <1>2

\* The whole of one object, and of the others.
Only(ob, b, x) == \A y \in Objs : y # x => b[y] = ob[y]

LEMMA OnlyAbove ==
  ASSUME NEW ob \in [Objs -> Object], NEW b \in [Objs -> Object], NEW x \in Objs, Only(ob, b, x)
  PROVE  \A o \in Objs \cup {None} : o # x => Above(b, o) = Above(ob, o)
BY NoneIsNone DEF Above, Only

LEMMA FreeKeeps ==
  ASSUME NEW g, NEW ob, NEW own, Graph(g, ob, own), NEW x \in Objs, ob[x].state # "live",
         NEW b \in [Objs -> Object], Only(ob, b, x), b[x].state # "live", b[x].link = 0
  PROVE  Graph(g, b, own) /\ OpenIn(g, b) = OpenIn(g, ob)
<1>1. /\ g \in [Referrers -> Objs \cup {None}] /\ ob \in [Objs -> Object]
      /\ own \in SUBSET (Referrers \ OfUsers)
  BY DEF Graph, Counted
<1>2. \A w \in Referrers : g[w] # x /\ Above(ob, g[w]) # x
  BY Unused
<1>3. \A w \in Referrers : Above(b, g[w]) = Above(ob, g[w])
  BY <1>1, <1>2, OnlyAbove
<1>4. \A y \in Objs : UsersOf(g, b, y) = UsersOf(g, ob, y)
  BY <1>3 DEF UsersOf
<1>5. Counted(g, b)
  <2> SUFFICES ASSUME NEW y \in Objs
               PROVE  /\ b[y].link = Cardinality(UsersOf(g, b, y))
                      /\ b[y].state = "live" => b[y].link > 0
    BY <1>1 DEF Counted
  <2>1. CASE y = x
    <3>1. UsersOf(g, b, y) = {}
      BY <1>2, <1>4, <2>1 DEF UsersOf
    <3>2. Cardinality({}) = 0
      BY FS_EmptySet
    <3> QED BY <2>1, <3>1, <3>2
  <2>2. CASE y # x
    BY <1>4, <2>2 DEF Graph, Counted, Only
  <2> QED BY <2>1, <2>2
<1>6. Chained(g, b)
  <2> SUFFICES ASSUME NEW w \in Referrers, g[w] # None
               PROVE  /\ b[g[w]].state = "live"
                      /\ Above(b, g[w]) # None =>
                           b[Above(b, g[w])].state = "live" /\ b[Above(b, g[w])].prev = None
    BY DEF Chained
  <2>1. g[w] \in Objs /\ Above(ob, g[w]) \in Objs \cup {None}
    BY <1>1, AboveIs
  <2> QED BY <1>2, <1>3, <2>1 DEF Graph, Chained, Only
<1>7. Separate(g, b)
  BY <1>3 DEF Graph, Separate
<1>8. Owned(g, b, own)
  BY <1>3 DEF Graph, Owned
<1>9. OpenIn(g, b) = OpenIn(g, ob)
  BY <1>2, ReferrersFinite DEF OpenIn, Only
<1> QED BY <1>1, <1>5, <1>6, <1>7, <1>8, <1>9 DEF Graph

LEMMA AllocKeeps ==
  ASSUME NEW g, NEW ob, NEW own, Graph(g, ob, own), NEW s \in Referrers \ OfUsers,
         Above(ob, g[s]) = None, NEW x \in Objs, ob[x].state # "live",
         NEW b \in [Objs -> Object], Only(ob, b, x), b[x].state = "live", b[x].link = 1,
         b[x].prev = g[s]
  PROVE  Graph(Put(g, s, x), b, own \cup {s}) /\ OpenIn(Put(g, s, x), b) = OpenIn(g, ob)
<1> DEFINE h == Put(g, s, x)
           p == g[s]
<1>1. /\ g \in [Referrers -> Objs \cup {None}] /\ ob \in [Objs -> Object]
      /\ own \in SUBSET (Referrers \ OfUsers) /\ p \in Objs \cup {None}
  BY DEF Graph, Counted
<1>2. /\ h \in [Referrers -> Objs \cup {None}] /\ h[s] = x
      /\ \A w \in Referrers : w # s => h[w] = g[w]
  BY <1>1, PutIs
<1>3. \A w \in Referrers : g[w] # x /\ Above(ob, g[w]) # x
  BY Unused
<1>4. /\ \A w \in Referrers : w # s => Above(b, h[w]) = Above(ob, g[w])
      /\ Above(b, x) = p
  BY <1>1, <1>2, <1>3, OnlyAbove, NoneIsNone DEF Above
<1> HIDE DEF h
<1>5. Counted(h, b)
  <2> SUFFICES ASSUME NEW y \in Objs
               PROVE  /\ b[y].link = Cardinality(UsersOf(h, b, y))
                      /\ b[y].state = "live" => b[y].link > 0
    BY <1>2 DEF Counted
  <2>1. CASE y = x
    <3>1. UsersOf(h, b, y) = {s}
      BY <1>2, <1>3, <1>4, <2>1 DEF UsersOf
    <3>2. Cardinality({s}) = 1
      BY FS_Singleton
    <3> QED BY <2>1, <3>1, <3>2
  <2>2. CASE y # x
    <3>1. UsersOf(h, b, y) = UsersOf(g, ob, y)
      BY <1>2, <1>3, <1>4, <2>2, NoneIsNone DEF UsersOf
    <3> QED BY <2>2, <3>1 DEF Graph, Counted, Only
  <2> QED BY <2>1, <2>2
<1>6. Chained(h, b)
  <2> SUFFICES ASSUME NEW w \in Referrers, h[w] # None
               PROVE  /\ b[h[w]].state = "live"
                      /\ Above(b, h[w]) # None =>
                           b[Above(b, h[w])].state = "live" /\ b[Above(b, h[w])].prev = None
    BY DEF Chained
  <2>1. CASE w = s
    <3>1. p # None => ob[p].state = "live" /\ ob[p].prev = None /\ b[p] = ob[p]
      BY <1>1, <1>3, AboveIs DEF Graph, Chained, Only
    <3> QED BY <1>2, <1>4, <2>1, <3>1
  <2>2. CASE w # s
    <3>1. h[w] = g[w] /\ Above(b, h[w]) = Above(ob, g[w]) /\ g[w] \in Objs
          /\ Above(ob, g[w]) \in Objs \cup {None}
      BY <1>1, <1>2, <1>4, <2>2, AboveIs
    <3> QED BY <1>3, <3>1 DEF Graph, Chained, Only
  <2> QED BY <2>1, <2>2
<1>7. Separate(h, b)
  <2> SUFFICES ASSUME NEW y \in OfUsers, NEW w \in Referrers, h[y] # None,
                      h[y] \in {h[w], Above(b, h[w])}
               PROVE  w \in OfUsers /\ h[w] = h[y]
    BY DEF Separate
  <2>1. y \in Referrers /\ y # s /\ h[y] = g[y] /\ g[y] # x
    BY <1>2, <1>3, ReferrersFinite
  <2>2. CASE w = s
    <3>1. g[y] = p
      BY <1>2, <1>4, <2>1, <2>2
    <3>2. s \in OfUsers
      BY <2>1, <3>1 DEF Graph, Separate
    <3> QED BY <3>2
  <2>3. CASE w # s
    BY <1>2, <1>4, <2>1, <2>3 DEF Graph, Separate
  <2> QED BY <2>2, <2>3
<1>8. Owned(h, b, own \cup {s})
  <2> SUFFICES ASSUME NEW y \in own \cup {s}, NEW w \in Referrers
               PROVE  h[y] # None /\ (h[y] \in {h[w], Above(b, h[w])} => w = y)
    BY DEF Owned
  <2>1. CASE y = s
    BY <1>2, <1>3, <1>4, <2>1, NoneIsNone
  <2>2. CASE y # s
    <3>1. y \in own /\ y \in Referrers /\ h[y] = g[y] /\ g[y] # x
      BY <1>1, <1>2, <1>3, <2>2
    <3>2. \A z \in Referrers : g[y] # None /\ (g[y] \in {g[z], Above(ob, g[z])} => z = y)
      BY <3>1 DEF Graph, Owned
    <3>3. CASE w = s
      BY <1>2, <1>4, <2>2, <3>1, <3>2, <3>3
    <3>4. CASE w # s
      BY <1>2, <1>4, <3>1, <3>2, <3>4
    <3> QED BY <3>3, <3>4
  <2> QED BY <2>1, <2>2
<1>9. OpenIn(h, b) = OpenIn(g, ob)
  <2>1. \A w \in OfUsers : w \in Referrers /\ h[w] = g[w] /\ g[w] # x
    BY <1>2, <1>3, ReferrersFinite
  <2> QED BY <2>1 DEF OpenIn, Only
<1>10. Graph(h, b, own \cup {s})
  BY <1>1, <1>5, <1>6, <1>7, <1>8 DEF Graph
<1> QED BY <1>9, <1>10 DEF h

LEMMA MoveKeeps ==
  ASSUME NEW g, NEW ob, NEW own, Graph(g, ob, own), NEW s \in Referrers \ OfUsers,
         NEW u \in Referrers, g[s] # None, g[u] = None,
         s \in own \/ u \notin OfUsers
  PROVE  LET h == Put(Put(g, s, None), u, g[s]) IN
         /\ Graph(h, ob, own \ {s})
         /\ OpenIn(h, ob) = IF u \in OfUsers /\ ~ob[g[s]].child THEN OpenIn(g, ob) \cup {g[s]}
                            ELSE OpenIn(g, ob)
<1> DEFINE o == g[s]
           h == Put(Put(g, s, None), u, o)
<1>1. /\ g \in [Referrers -> Objs \cup {None}] /\ ob \in [Objs -> Object]
      /\ own \in SUBSET (Referrers \ OfUsers) /\ o \in Objs
  BY DEF Graph, Counted
<1>2. /\ h \in [Referrers -> Objs \cup {None}] /\ h[s] = None /\ h[u] = o /\ u # s
      /\ \A w \in Referrers : w # s /\ w # u => h[w] = g[w]
  <2>1. /\ Put(g, s, None) \in [Referrers -> Objs \cup {None}] /\ Put(g, s, None)[s] = None
        /\ \A w \in Referrers : w # s => Put(g, s, None)[w] = g[w]
    BY <1>1, PutIs
  <2> QED BY <1>1, <2>1, PutIs
<1> HIDE DEF h
<1>3. Above(ob, None) = None /\ None \notin Objs
  BY <1>1, AboveIs, NoneIsNone
<1>4. Counted(h, ob)
  <2> SUFFICES ASSUME NEW y \in Objs
               PROVE  Cardinality(UsersOf(h, ob, y)) = Cardinality(UsersOf(g, ob, y))
    BY <1>1, <1>2 DEF Graph, Counted
  <2>1. UsersOf(g, ob, y) \in SUBSET Referrers /\ u \notin UsersOf(g, ob, y)
        /\ UsersOf(g, ob, y) \ {s} \in SUBSET Referrers
    BY <1>3 DEF UsersOf
  <2>2. CASE y \in {o, Above(ob, o)}
    <3>1. s \in UsersOf(g, ob, y)
      BY <2>2 DEF UsersOf
    <3>2. UsersOf(h, ob, y) = (UsersOf(g, ob, y) \ {s}) \cup {u}
      BY <1>2, <1>3, <2>1, <2>2 DEF UsersOf
    <3>3. /\ Cardinality(UsersOf(g, ob, y) \ {s}) = Cardinality(UsersOf(g, ob, y)) - 1
          /\ Cardinality(UsersOf(g, ob, y)) \in Nat
      BY <2>1, <3>1, Counts
    <3>4. Cardinality((UsersOf(g, ob, y) \ {s}) \cup {u}) = Cardinality(UsersOf(g, ob, y) \ {s}) + 1
      BY <2>1, Counts
    <3> QED BY <3>2, <3>3, <3>4
  <2>3. CASE y \notin {o, Above(ob, o)}
    <3>1. UsersOf(h, ob, y) = UsersOf(g, ob, y)
      BY <1>2, <1>3, <2>1, <2>3 DEF UsersOf
    <3> QED BY <3>1
  <2> QED BY <2>2, <2>3
<1>5. Chained(h, ob)
  BY <1>2 DEF Graph, Chained
<1>6. \A y \in OfUsers, w \in Referrers :
        g[y] # None /\ g[y] \in {g[w], Above(ob, g[w])} => w \in OfUsers /\ g[w] = g[y]
  BY DEF Graph, Separate
<1>7. \A y \in own, w \in Referrers : g[y] # None /\ (g[y] \in {g[w], Above(ob, g[w])} => w = y)
  BY DEF Graph, Owned
<1>8. Separate(h, ob)
  <2> SUFFICES ASSUME NEW y \in OfUsers, NEW w \in Referrers, h[y] # None,
                      h[y] \in {h[w], Above(ob, h[w])}
               PROVE  w \in OfUsers /\ h[w] = h[y]
    BY DEF Separate
  <2>1. y \in Referrers /\ y # s /\ w # s
    BY <1>2, <1>3, ReferrersFinite
  <2>2. CASE y = u
    <3>1. s \in own /\ h[y] = g[s]
      BY <1>2, <2>2
    <3>2. CASE w = u
      BY <2>2, <3>2
    <3>3. CASE w # u
      BY <1>2, <1>7, <2>1, <3>1, <3>3
    <3> QED BY <3>2, <3>3
  <2>3. CASE y # u /\ w # u
    BY <1>2, <1>6, <2>1, <2>3
  <2>4. CASE y # u /\ w = u
    <3>1. g[y] # None /\ g[y] \in {g[s], Above(ob, g[s])}
      BY <1>2, <2>1, <2>4
    <3> QED BY <1>6, <3>1
  <2> QED BY <2>2, <2>3, <2>4
<1>9. Owned(h, ob, own \ {s})
  <2> SUFFICES ASSUME NEW y \in own \ {s}, NEW w \in Referrers
               PROVE  h[y] # None /\ (h[y] \in {h[w], Above(ob, h[w])} => w = y)
    BY DEF Owned
  <2>1. y \in Referrers /\ y # s /\ y # u /\ h[y] = g[y] /\ g[y] # None
    BY <1>1, <1>2, <1>7
  <2>2. CASE w = s
    BY <1>2, <1>3, <2>1, <2>2
  <2>3. CASE w = u
    BY <1>2, <1>7, <2>1, <2>3
  <2>4. CASE w # s /\ w # u
    BY <1>2, <1>7, <2>1, <2>4
  <2> QED BY <2>2, <2>3, <2>4
<1>10. OpenIn(h, ob) = IF u \in OfUsers /\ ~ob[o].child THEN OpenIn(g, ob) \cup {o}
                       ELSE OpenIn(g, ob)
  <2>1. \A w \in OfUsers : w \in Referrers /\ w # s
    BY ReferrersFinite
  <2>2. CASE u \in OfUsers
    <3>1. \A x \in Objs : (\E w \in OfUsers : h[w] = x) <=> (\E w \in OfUsers : g[w] = x) \/ x = o
      BY <1>2, <1>3, <2>1, <2>2
    <3> QED BY <1>1, <2>2, <3>1 DEF OpenIn
  <2>3. CASE u \notin OfUsers
    <3>1. \A w \in OfUsers : h[w] = g[w]
      BY <1>2, <2>1, <2>3
    <3> QED BY <2>3, <3>1 DEF OpenIn
  <2> QED BY <2>2, <2>3
<1>11. Graph(h, ob, own \ {s})
  BY <1>1, <1>4, <1>5, <1>8, <1>9 DEF Graph
<1> QED BY <1>10, <1>11 DEF h

\* The chain of an object has at least its users.
LEMMA ChainCounts ==
  ASSUME NEW g, NEW ob, NEW own, Graph(g, ob, own), NEW s \in Referrers, g[s] # None
  PROVE  /\ g[s] \in Objs /\ ob[g[s]].link \in Nat /\ ob[g[s]].link > 0
         /\ Above(ob, g[s]) # None =>
              /\ Above(ob, g[s]) \in Objs /\ Above(ob, g[s]) # g[s]
              /\ ob[Above(ob, g[s])].link \in Nat
              /\ ob[Above(ob, g[s])].link >= ob[g[s]].link
              /\ Above(ob, Above(ob, g[s])) = None
         /\ UsersOf(g, ob, g[s]) \in SUBSET Referrers /\ s \in UsersOf(g, ob, g[s])
<1> DEFINE o == g[s]
           p == Above(ob, o)
<1>1. /\ g \in [Referrers -> Objs \cup {None}] /\ ob \in [Objs -> Object]
      /\ o \in Objs /\ p \in Objs \cup {None} /\ p = ob[o].prev
  <2>1. g \in [Referrers -> Objs \cup {None}] /\ ob \in [Objs -> Object]
    BY DEF Graph, Counted
  <2> QED BY <2>1, AboveIs
<1>2. \A y \in Objs : /\ UsersOf(g, ob, y) \in SUBSET Referrers
                      /\ ob[y].link = Cardinality(UsersOf(g, ob, y))
                      /\ ob[y].link \in Nat
  <2> SUFFICES ASSUME NEW y \in Objs
               PROVE  /\ UsersOf(g, ob, y) \in SUBSET Referrers
                      /\ ob[y].link = Cardinality(UsersOf(g, ob, y))
                      /\ ob[y].link \in Nat
    OBVIOUS
  <2>1. UsersOf(g, ob, y) \in SUBSET Referrers
    BY DEF UsersOf
  <2>2. ob[y].link = Cardinality(UsersOf(g, ob, y))
    BY DEF Graph, Counted
  <2> QED BY <2>1, <2>2, Counts
<1>3. ob[o].state = "live" /\ (p # None => ob[p].state = "live" /\ ob[p].prev = None)
  BY DEF Graph, Chained
<1>4. ob[o].link > 0
  BY <1>1, <1>3 DEF Graph, Counted
<1>5. ASSUME p # None PROVE /\ p \in Objs /\ p # o /\ ob[p].link >= ob[o].link
                            /\ Above(ob, p) = None
  <2>1. p \in Objs /\ Above(ob, p) = None /\ p # o
    BY <1>1, <1>3, <1>5, AboveIs
  <2>2. UsersOf(g, ob, o) \in SUBSET UsersOf(g, ob, p)
    <3> SUFFICES ASSUME NEW w \in Referrers, g[w] = o \/ Above(ob, g[w]) = o
                 PROVE  g[w] = p \/ Above(ob, g[w]) = p
      BY DEF UsersOf
    <3>1. CASE g[w] = o
      BY <3>1
    <3>2. CASE Above(ob, g[w]) = o
      <4>1. g[w] # None /\ Above(ob, g[w]) # None
        BY <1>1, <3>2, AboveIs, NoneIsNone
      <4>2. ob[o].prev = None
        BY <3>2, <4>1 DEF Graph, Chained
      <4> QED BY <1>1, <1>5, <4>2
    <3> QED BY <3>1, <3>2
  <2>3. Cardinality(UsersOf(g, ob, o)) <= Cardinality(UsersOf(g, ob, p))
    BY <1>2, <2>1, <2>2, CountsMore
  <2> QED BY <1>1, <1>2, <2>1, <2>3
<1>6. s \in UsersOf(g, ob, o)
  BY DEF UsersOf
<1> HIDE DEF p
<1> QED BY <1>1, <1>2, <1>4, <1>5, <1>6 DEF p

\* One of several users goes.
LEMMA ReleaseKeeps ==
  ASSUME NEW g, NEW ob, NEW own, Graph(g, ob, own), NEW s \in Referrers, g[s] # None,
         ob[g[s]].link > 1,
         NEW b \in [Objs -> Object], Shape(ob, b), Gains(ob, b, g[s], -1)
  PROVE  Graph(Put(g, s, None), b, own \ {s}) /\ OpenIn(Put(g, s, None), b) = OpenIn(g, ob)
<1> DEFINE o == g[s]
           h == Put(g, s, None)
<1>1. /\ g \in [Referrers -> Objs \cup {None}] /\ ob \in [Objs -> Object]
      /\ own \in SUBSET (Referrers \ OfUsers) /\ o \in Objs
  BY DEF Graph, Counted
<1>2. /\ h \in [Referrers -> Objs \cup {None}] /\ h[s] = None
      /\ \A w \in Referrers : w # s => h[w] = g[w]
  BY <1>1, PutIs
<1>3. /\ Above(ob, None) = None /\ None \notin Objs
      /\ \A x \in Objs \cup {None} : Above(b, x) = Above(ob, x)
  BY <1>1, AboveIs, NoneIsNone, ShapeAbove
<1> HIDE DEF h
<1>4. PICK w \in Referrers : w # s /\ (g[w] = o \/ Above(ob, g[w]) = o)
  <2>1. UsersOf(g, ob, o) \in SUBSET Referrers /\ s \in UsersOf(g, ob, o)
    BY ChainCounts
  <2>2. Cardinality(UsersOf(g, ob, o)) > 1
    BY <1>1 DEF Graph, Counted
  <2>3. UsersOf(g, ob, o) # {s}
    BY <2>2, FS_Singleton
  <2> QED BY <2>1, <2>3 DEF UsersOf
<1>5. Counted(h, b)
  <2> SUFFICES ASSUME NEW y \in Objs
               PROVE  /\ b[y].link = Cardinality(UsersOf(h, b, y))
                      /\ b[y].state = "live" => b[y].link > 0
    BY <1>2 DEF Counted
  <2>1. /\ ob[y].link = Cardinality(UsersOf(g, ob, y)) /\ (ob[y].state = "live" => ob[y].link > 0)
        /\ b[y].state = ob[y].state /\ ob[y].link \in Int
    BY <1>1 DEF Graph, Counted, Shape, Object
  <2>u. UsersOf(g, ob, y) \in SUBSET Referrers
    BY DEF UsersOf
  <2>2. CASE y \in {o, Above(ob, o)}
    <3>1. UsersOf(h, b, y) = UsersOf(g, ob, y) \ {s} /\ s \in UsersOf(g, ob, y)
      BY <1>1, <1>2, <1>3, <2>2 DEF UsersOf
    <3>2. b[y].link = ob[y].link + (-1)
      BY <2>2 DEF Gains
    <3>3. ob[y].link > 1
      <4>1. CASE y = o
        BY <4>1
      <4>2. CASE y # o
        <5>1. y = Above(ob, g[s]) /\ Above(ob, g[s]) # None
          BY <1>3, <2>2, <4>2
        <5>2. ob[y].link >= ob[o].link /\ ob[o].link \in Nat /\ ob[y].link \in Nat
          BY <5>1, ChainCounts
        <5> QED BY <5>2
      <4> QED BY <4>1, <4>2
    <3>4. Cardinality(UsersOf(g, ob, y) \ {s}) = Cardinality(UsersOf(g, ob, y)) - 1
      BY <2>u, <3>1, Counts
    <3> QED BY <2>1, <3>1, <3>2, <3>3, <3>4
  <2>3. CASE y \notin {o, Above(ob, o)}
    <3>1. UsersOf(h, b, y) = UsersOf(g, ob, y)
      BY <1>1, <1>2, <1>3, <2>3 DEF UsersOf
    <3>2. b[y].link = ob[y].link
      BY <2>1, <2>3 DEF Gains
    <3> QED BY <2>1, <3>1, <3>2
  <2> QED BY <2>2, <2>3
<1>6. Chained(h, b)
  <2> SUFFICES ASSUME NEW x \in Referrers, h[x] # None
               PROVE  /\ b[h[x]].state = "live"
                      /\ Above(b, h[x]) # None =>
                           b[Above(b, h[x])].state = "live" /\ b[Above(b, h[x])].prev = None
    BY DEF Chained
  <2> DEFINE y == h[x]
             z == Above(ob, y)
  <2>1. y \in Objs /\ z \in Objs \cup {None} /\ Above(b, y) = z /\ y = g[x]
    BY <1>1, <1>2, <1>3, AboveIs
  <2>2. ob[y].state = "live" /\ (z # None => ob[z].state = "live" /\ ob[z].prev = None)
    BY <2>1 DEF Graph, Chained
  <2> HIDE DEF z
  <2> QED BY <2>1, <2>2 DEF Shape
<1>7. Separate(h, b)
  BY <1>2, <1>3, ReferrersFinite DEF Graph, Separate
<1>8. Owned(h, b, own \ {s})
  <2> SUFFICES ASSUME NEW y \in own \ {s}, NEW x \in Referrers
               PROVE  h[y] # None /\ (h[y] \in {h[x], Above(b, h[x])} => x = y)
    BY DEF Owned
  <2>1. y \in Referrers /\ h[y] = g[y] /\ g[y] # None
        /\ (g[y] \in {g[x], Above(ob, g[x])} => x = y)
    BY <1>1, <1>2 DEF Graph, Owned
  <2> QED BY <1>1, <1>2, <1>3, <2>1
<1>9. OpenIn(h, b) = OpenIn(g, ob)
  <2>1. s \in OfUsers => w \in OfUsers /\ g[w] = o
    BY <1>1, <1>3, <1>4 DEF Graph, Separate
  <2>2. \A x \in Objs : (\E v \in OfUsers : h[v] = x) <=> (\E v \in OfUsers : g[v] = x)
    BY <1>2, <1>3, <1>4, <2>1, ReferrersFinite
  <2> QED BY <2>2 DEF OpenIn, Shape
<1>10. own \ {s} \in SUBSET (Referrers \ OfUsers)
  BY <1>1
<1>11. Graph(h, b, own \ {s})
  BY <1>5, <1>6, <1>7, <1>8, <1>10 DEF Graph
<1> QED BY <1>9, <1>11 DEF h

\* The only user goes: the object is closed, and what is above it is for the
\* thread that closes it.
LEMMA LastReleaseKeeps ==
  ASSUME NEW g, NEW ob, NEW own, Graph(g, ob, own), NEW s \in Referrers, g[s] # None,
         ob[g[s]].link = 1, NEW u \in Referrers \ OfUsers, u = s \/ g[u] = None,
         NEW b \in [Objs -> Object], Only(ob, b, g[s]), b[g[s]].state # "live", b[g[s]].link = 0
  PROVE  LET h == Put(Put(g, s, None), u, Above(ob, g[s])) IN
         Graph(h, b, own \ {s}) /\ OpenIn(h, b) = OpenIn(g, ob) \ {g[s]}
<1> DEFINE o == g[s]
           p == Above(ob, o)
           h == Put(Put(g, s, None), u, p)
<1>1. /\ g \in [Referrers -> Objs \cup {None}] /\ ob \in [Objs -> Object]
      /\ own \in SUBSET (Referrers \ OfUsers) /\ o \in Objs /\ p \in Objs \cup {None}
  <2>1. g \in [Referrers -> Objs \cup {None}] /\ ob \in [Objs -> Object]
        /\ own \in SUBSET (Referrers \ OfUsers)
    BY DEF Graph, Counted
  <2> QED BY <2>1, AboveIs
<1>2. /\ h \in [Referrers -> Objs \cup {None}] /\ (s # u => h[s] = None) /\ h[u] = p
      /\ \A w \in Referrers : w # s /\ w # u => h[w] = g[w]
  <2>1. /\ Put(g, s, None) \in [Referrers -> Objs \cup {None}] /\ Put(g, s, None)[s] = None
        /\ \A w \in Referrers : w # s => Put(g, s, None)[w] = g[w]
    BY <1>1, PutIs
  <2> QED BY <1>1, <2>1, PutIs
<1> HIDE DEF h
<1>3. Above(ob, None) = None /\ Above(b, None) = None /\ None \notin Objs
  BY NoneIsNone DEF Above
<1>4. p # None => p \in Objs /\ p # o /\ Above(ob, p) = None /\ ob[p].state = "live"
                  /\ ob[p].prev = None
  <2>1. p # None => p \in Objs /\ p # o /\ Above(ob, p) = None
    BY ChainCounts
  <2>2. p # None => ob[p].state = "live" /\ ob[p].prev = None
    BY DEF Graph, Chained
  <2> QED BY <2>1, <2>2
<1>5. UsersOf(g, ob, o) = {s}
  <2>1. UsersOf(g, ob, o) \in SUBSET Referrers /\ s \in UsersOf(g, ob, o)
    BY ChainCounts
  <2>2. Cardinality(UsersOf(g, ob, o)) = 1
    BY <1>1 DEF Graph, Counted
  <2>3. PICK z : UsersOf(g, ob, o) = {z}
    BY <2>1, <2>2, Counts, FS_Singleton
  <2> QED BY <2>1, <2>3
<1>6. \A w \in Referrers : w # s => g[w] # o /\ Above(ob, g[w]) # o
  BY <1>5 DEF UsersOf
<1>7. /\ \A w \in Referrers : w # s => Above(b, g[w]) = Above(ob, g[w])
      /\ Above(b, p) = None
  <2>1. \A x \in Objs \cup {None} : x # o => Above(b, x) = Above(ob, x)
    BY <1>1, OnlyAbove
  <2> QED BY <1>1, <1>3, <1>4, <1>6, <2>1
<1> HIDE DEF p
<1>8. \A w \in Referrers : h[w] \in {None, p} \/ (w # s /\ w # u /\ h[w] = g[w] /\ g[w] # o)
  BY <1>2, <1>6
<1>9. Counted(h, b)
  <2> SUFFICES ASSUME NEW y \in Objs
               PROVE  /\ b[y].link = Cardinality(UsersOf(h, b, y))
                      /\ b[y].state = "live" => b[y].link > 0
    BY <1>2 DEF Counted
  <2>1. CASE y = o
    <3>1. UsersOf(h, b, y) = {}
      BY <1>2, <1>3, <1>4, <1>6, <1>7, <2>1 DEF UsersOf
    <3>2. Cardinality({}) = 0
      BY FS_EmptySet
    <3> QED BY <2>1, <3>1, <3>2
  <2>2. CASE y # o
    <3>1. b[y] = ob[y]
      BY <2>2 DEF Only
    <3>2. ob[y].link = Cardinality(UsersOf(g, ob, y)) /\ (ob[y].state = "live" => ob[y].link > 0)
      BY DEF Graph, Counted
    <3>3. Cardinality(UsersOf(h, b, y)) = Cardinality(UsersOf(g, ob, y))
      <4>1. CASE y = p
        <5>1. s \in UsersOf(g, ob, y)
          BY <4>1 DEF UsersOf, p
        <5>2. CASE u = s
          <6>1. UsersOf(h, b, y) = UsersOf(g, ob, y)
            BY <1>2, <1>7, <4>1, <5>1, <5>2 DEF UsersOf
          <6> QED BY <6>1
        <5>3. CASE u # s
          <6>1. u \notin UsersOf(g, ob, y) /\ UsersOf(g, ob, y) \in SUBSET Referrers
            BY <1>3, <5>3 DEF UsersOf
          <6>2. UsersOf(h, b, y) = (UsersOf(g, ob, y) \ {s}) \cup {u}
            BY <1>2, <1>3, <1>7, <4>1, <5>1, <5>3, <6>1 DEF UsersOf
          <6>3. /\ Cardinality(UsersOf(g, ob, y) \ {s}) = Cardinality(UsersOf(g, ob, y)) - 1
                /\ Cardinality(UsersOf(g, ob, y)) \in Nat
            BY <5>1, <6>1, Counts
          <6>4. Cardinality((UsersOf(g, ob, y) \ {s}) \cup {u})
                = Cardinality(UsersOf(g, ob, y) \ {s}) + 1
            <7>1. UsersOf(g, ob, y) \ {s} \in SUBSET Referrers
              BY <6>1
            <7> QED BY <6>1, <7>1, Counts
          <6> QED BY <6>2, <6>3, <6>4
        <5> QED BY <5>2, <5>3
      <4>2. CASE y # p
        <5>1. s \notin UsersOf(g, ob, y) /\ s \notin UsersOf(h, b, y)
          BY <1>2, <1>3, <1>7, <2>2, <4>2 DEF UsersOf, p
        <5>2. u \notin UsersOf(g, ob, y) /\ u \notin UsersOf(h, b, y)
          BY <1>2, <1>3, <1>7, <4>2, <5>1 DEF UsersOf
        <5>3. UsersOf(h, b, y) = UsersOf(g, ob, y)
          BY <1>2, <1>7, <5>1, <5>2 DEF UsersOf
        <5> QED BY <5>3
      <4> QED BY <4>1, <4>2
    <3> QED BY <3>1, <3>2, <3>3
  <2> QED BY <2>1, <2>2
<1>10. Chained(h, b)
  <2> SUFFICES ASSUME NEW x \in Referrers, h[x] # None
               PROVE  /\ b[h[x]].state = "live"
                      /\ Above(b, h[x]) # None =>
                           b[Above(b, h[x])].state = "live" /\ b[Above(b, h[x])].prev = None
    BY DEF Chained
  <2>1. CASE h[x] = p
    BY <1>4, <1>7, <2>1 DEF Only
  <2>2. CASE h[x] # p
    <3>1. x # s /\ h[x] = g[x] /\ g[x] # o /\ Above(b, h[x]) = Above(ob, g[x])
          /\ Above(ob, g[x]) # o /\ g[x] \in Objs /\ Above(ob, g[x]) \in Objs \cup {None}
      BY <1>1, <1>6, <1>7, <1>8, <2>2, AboveIs
    <3>2. /\ ob[g[x]].state = "live"
          /\ Above(ob, g[x]) # None =>
               ob[Above(ob, g[x])].state = "live" /\ ob[Above(ob, g[x])].prev = None
      BY <3>1, NoneIsNone DEF Graph, Chained
    <3> QED BY <3>1, <3>2 DEF Only
  <2> QED BY <2>1, <2>2
<1>11. \A y \in OfUsers, w \in Referrers :
        g[y] # None /\ g[y] \in {g[w], Above(ob, g[w])} => w \in OfUsers /\ g[w] = g[y]
  BY DEF Graph, Separate
<1>12. \A y \in own, w \in Referrers : g[y] # None /\ (g[y] \in {g[w], Above(ob, g[w])} => w = y)
  BY DEF Graph, Owned
<1>13. Separate(h, b)
  <2> SUFFICES ASSUME NEW y \in OfUsers, NEW w \in Referrers, h[y] # None,
                      h[y] \in {h[w], Above(b, h[w])}
               PROVE  w \in OfUsers /\ h[w] = h[y]
    BY DEF Separate
  <2>1. y \in Referrers /\ y # u /\ y # s /\ h[y] = g[y]
    BY <1>2, ReferrersFinite
  <2>2. CASE h[w] \in {None, p}
    <3>1. g[y] = p
      BY <1>3, <1>7, <2>1, <2>2
    <3>2. g[s] = g[y]
      BY <1>11, <2>1, <3>1 DEF p
    <3> QED BY <1>4, <2>1, <3>1, <3>2
  <2>3. CASE w # s /\ w # u /\ h[w] = g[w]
    BY <1>7, <1>11, <2>1, <2>3
  <2> QED BY <1>8, <2>2, <2>3
<1>14. Owned(h, b, own \ {s})
  <2> SUFFICES ASSUME NEW y \in own \ {s}, NEW w \in Referrers
               PROVE  h[y] # None /\ (h[y] \in {h[w], Above(b, h[w])} => w = y)
    BY DEF Owned
  <2>1. y \in Referrers /\ y # u /\ y # s /\ h[y] = g[y] /\ g[y] # None
    BY <1>1, <1>2, <1>12
  <2>2. CASE h[w] \in {None, p}
    <3>1. g[y] # p
      BY <1>12, <2>1 DEF p
    <3> QED BY <1>3, <1>7, <2>1, <2>2, <3>1
  <2>3. CASE w # s /\ w # u /\ h[w] = g[w]
    BY <1>7, <1>12, <2>1, <2>3
  <2> QED BY <1>8, <2>2, <2>3
<1>15. OpenIn(h, b) = OpenIn(g, ob) \ {o}
  <2>1. \A x \in Objs : x # o =>
          ((\E v \in OfUsers : h[v] = x) <=> (\E v \in OfUsers : g[v] = x))
    BY <1>2, <1>3, ReferrersFinite
  <2>2. \A v \in OfUsers : h[v] # o
    BY <1>2, <1>3, <1>6, ReferrersFinite
  <2>3. \A x \in OpenIn(h, b) : x \in OpenIn(g, ob) \ {o}
    BY <2>1, <2>2 DEF OpenIn, Only
  <2>4. \A x \in OpenIn(g, ob) \ {o} : x \in OpenIn(h, b)
    BY <2>1 DEF OpenIn, Only
  <2> QED BY <2>3, <2>4
<1>16. own \ {s} \in SUBSET (Referrers \ OfUsers)
  BY <1>1
<1>17. Graph(h, b, own \ {s})
  BY <1>9, <1>10, <1>13, <1>14, <1>16 DEF Graph
<1> QED BY <1>15, <1>17 DEF h, p

-----------------------------------------------------------------------------
(***************************************************************************)
(* What the operators of the module do to the objects.                     *)
(***************************************************************************)
LEMMA PrevIs == \A o : Prev(o) = Above(obj, o)
BY DEF Prev, Above

LEMMA LinkedIs ==
  ASSUME obj \in [Objs -> Object], NEW o \in Objs \cup {None}
  PROVE  Linked(o) \in [Objs -> Object] /\ Shape(obj, Linked(o)) /\ Gains(obj, Linked(o), o, 1)
<1> DEFINE b == Linked(o)
<1>1. \A x \in Objs : x \in Chain(o) <=> x \in {o, Above(obj, o)}
  BY PrevIs, NoneIsNone DEF Chain
<1>2. ASSUME NEW x \in Objs
      PROVE  /\ b[x] \in Object /\ b[x].state = obj[x].state /\ b[x].child = obj[x].child
             /\ b[x].prev = obj[x].prev
             /\ b[x].link = obj[x].link + (IF x \in {o, Above(obj, o)} THEN 1 ELSE 0)
  <2>1. obj[x] \in Object
    OBVIOUS
  <2>2. CASE x \in Chain(o)
    <3>1. b[x] = [obj[x] EXCEPT !.link = obj[x].link + 1]
      BY <2>2 DEF Linked
    <3> QED BY <1>1, <2>1, <2>2, <3>1 DEF Object
  <2>3. CASE x \notin Chain(o)
    <3>1. b[x] = obj[x]
      BY <2>3 DEF Linked
    <3>2. obj[x].link \in Int
      BY <2>1 DEF Object
    <3> QED BY <1>1, <2>1, <2>3, <3>1, <3>2
  <2> QED BY <2>2, <2>3
<1>3. b = [x \in Objs |-> b[x]]
  BY DEF Linked
<1> HIDE DEF b
<1>4. b \in [Objs -> Object]
  BY <1>2, <1>3
<1>5. Shape(obj, b) /\ Gains(obj, b, o, 1)
  BY <1>2 DEF Shape, Gains
<1> QED BY <1>4, <1>5 DEF b

LEMMA LeastNat ==
  ASSUME NEW K \in SUBSET Nat, K # {}
  PROVE  \E k \in K : \A j \in K : k <= j
<1> DEFINE R == OpToRel(<, Nat)
<1>1. IsWellFoundedOn(R, Nat)
  BY NatLessThanWellFounded
<1>2. PICK k \in K : \A j \in K : ~(<<j, k>> \in R)
  <2> HIDE DEF R
  <2> QED BY <1>1, WFMin
<1>3. \A j \in K : ~(j < k)
  BY <1>2 DEF OpToRel
<1>4. \A j \in K : k <= j
  BY <1>3
<1> QED BY <1>4

LEMMA NewIs ==
  ASSUME HasRoom
  PROVE  New \in Objs /\ obj[New].state = "free"
<1> DEFINE K == {o \in Objs : obj[o].state = "free"}
<1>1. K # {} /\ K \in SUBSET Nat
  BY OsmlAssumption DEF HasRoom
<1>2. \E k \in K : \A j \in K : k <= j
  BY <1>1, LeastNat
<1>3. \E o \in Objs : obj[o].state = "free" /\ \A x \in Objs : obj[x].state = "free" => o <= x
  BY <1>2
<1> QED BY <1>3 DEF New

LEMMA AllocIs ==
  ASSUME NEW was \in [Objs -> Object], NEW p \in Objs \cup {None}, New \in Objs
  PROVE  /\ Alloc(was, p) \in [Objs -> Object] /\ Only(was, Alloc(was, p), New)
         /\ Alloc(was, p)[New] = [state |-> "live", child |-> FALSE, link |-> 1, prev |-> p]
<1> DEFINE z == [state |-> "live", child |-> FALSE, link |-> 1, prev |-> p]
<1>1. z \in Object
  BY DEF Object
<1>2. Alloc(was, p) = [was EXCEPT ![New] = z]
  BY DEF Alloc
<1> HIDE DEF z
<1>3. /\ Alloc(was, p) \in [Objs -> Object] /\ Only(was, Alloc(was, p), New)
      /\ Alloc(was, p)[New] = z
  BY <1>1, <1>2 DEF Only
<1> QED BY <1>3 DEF z

\* What a release leaves of the objects: d is the one to close, if there is one.
Lets(was, b, d) ==
  /\ b \in [Objs -> Object]
  /\ \A x \in Objs : /\ b[x].child = was[x].child /\ b[x].prev = was[x].prev
                     /\ b[x].state = IF x = d THEN "closing" ELSE was[x].state

(***************************************************************************)
(* FreeObj for referrer s of o, on behalf of u, that is for the del of the *)
(* thread.                                                                 *)
(***************************************************************************)
Let(was, g, s, u) == Put(Put(g, s, None), u, Above(was, Dying(was, g[s])))

LEMMA DyingIs ==
  ASSUME NEW g, NEW was, NEW own, Graph(g, was, own), NEW s \in Referrers, g[s] # None,
         \A x \in Objs : was[x].state = "live" => was[x].prev = obj[x].prev
  PROVE  /\ Dying(was, g[s]) = IF was[g[s]].link = 1 THEN g[s] ELSE None
         /\ Chain(g[s]) = {g[s], Above(was, g[s])} \ {None}
         /\ was[g[s]].link = 1 => Chain(g[s]) \ Chain(Dying(was, g[s])) = {}
         /\ Chain(None) = {}
<1> DEFINE o == g[s]
           p == Above(was, o)
<1>1. /\ o \in Objs /\ was[o].link \in Nat /\ was[o].link > 0
      /\ p # None => /\ p \in Objs /\ p # o /\ was[p].link \in Nat
                     /\ was[p].link >= was[o].link
                     /\ Above(was, p) = None
  BY ChainCounts
<1>2. None \notin Objs
  BY NoneIsNone
<1>3. was[o].state = "live" /\ (p # None => was[p].state = "live" /\ was[p].prev = None)
  BY DEF Graph, Chained
<1>4. Prev(o) = p /\ (p # None => Prev(p) = None)
  BY <1>1, <1>2, <1>3 DEF Prev, Above
<1>5. Chain(o) = {o, p} \ {None} /\ o # None
  BY <1>4 DEF Chain
<1>6. Chain(None) = {}
  BY DEF Chain, Prev
<1> HIDE DEF p
<1>7. CASE was[o].link = 1
  <2>1. o \in Dead(was, o) /\ Dead(was, o) \in SUBSET Chain(o)
    BY <1>5, <1>7 DEF Dead
  <2>2. \A x \in Dead(was, o) : Dead(was, o) \subseteq Chain(x) => x = o
    <3> SUFFICES ASSUME NEW x \in Dead(was, o), Dead(was, o) \subseteq Chain(x), x # o PROVE FALSE
      OBVIOUS
    <3>1. x = p /\ p # None
      BY <1>5, <2>1
    <3>2. o \in Chain(p)
      BY <2>1, <3>1
    <3>3. Chain(p) = {p}
      BY <1>4, <3>1 DEF Chain
    <3> QED BY <1>1, <3>1, <3>2, <3>3
  <2>3. Dying(was, o) = o
    BY <2>1, <2>2 DEF Dying
  <2> QED BY <1>5, <1>6, <1>7, <2>3 DEF p
<1>8. CASE was[o].link # 1
  <2>1. Dead(was, o) = {}
    BY <1>1, <1>5, <1>8 DEF Dead
  <2>2. Dying(was, o) = None
    BY <2>1 DEF Dying
  <2> QED BY <1>5, <1>6, <1>8, <2>2 DEF p
<1> QED BY <1>7, <1>8

LEMMA ReleasedIs ==
  ASSUME NEW g, NEW was, NEW own, Graph(g, was, own), NEW s \in Referrers, g[s] # None,
         \A x \in Objs : was[x].state = "live" => was[x].prev = obj[x].prev
  PROVE  LET o == g[s]
             b == Released(was, o)
         IN /\ Lets(was, b, Dying(was, o))
            /\ was[o].link > 1 => Shape(was, b) /\ Gains(was, b, o, -1)
            /\ was[o].link = 1 => Only(was, b, o) /\ b[o].link = 0
            /\ was[o].link = 1 \/ was[o].link > 1
<1> DEFINE o == g[s]
           d == Dying(was, o)
           b == Released(was, o)
<1>1. /\ was \in [Objs -> Object] /\ o \in Objs /\ was[o].link \in Nat /\ was[o].link > 0
  BY ChainCounts DEF Graph, Counted
<1>2. /\ d = (IF was[o].link = 1 THEN o ELSE None)
      /\ Chain(o) = {o, Above(was, o)} \ {None}
      /\ was[o].link = 1 => Chain(o) \ Chain(d) = {}
      /\ Chain(None) = {}
  BY DyingIs
<1>n. None \notin Objs
  BY NoneIsNone
<1>3. b = [x \in Objs |-> IF x = d THEN [was[x] EXCEPT !.link = 0, !.state = "closing"]
                          ELSE IF x \in Chain(o) \ Chain(d) THEN [was[x] EXCEPT !.link = was[x].link - 1]
                          ELSE was[x]]
  BY DEF Released
<1> HIDE DEF d, b
<1>4. CASE was[o].link = 1
  <2>1. \A x \in Objs : b[x] = IF x = o THEN [was[x] EXCEPT !.link = 0, !.state = "closing"] ELSE was[x]
    BY <1>2, <1>3, <1>4
  <2>2. /\ b[o] = [was[o] EXCEPT !.link = 0, !.state = "closing"] /\ was[o] \in Object
    BY <1>1, <2>1
  <2>3. b[o] \in Object /\ b[o].link = 0 /\ b[o].state = "closing" /\ b[o].prev = was[o].prev
        /\ b[o].child = was[o].child
    <3> DEFINE z == 0
               c == "closing"
    <3>1. z = 0 /\ z \in Int /\ c = "closing" /\ c \in {"free", "live", "closing"}
      OBVIOUS
    <3>2. b[o] = [was[o] EXCEPT !.link = z, !.state = c] /\ was[o] \in Object
      BY <2>2
    <3> HIDE DEF z, c
    <3>3. b[o] \in Object /\ b[o].link = z /\ b[o].state = c /\ b[o].prev = was[o].prev
          /\ b[o].child = was[o].child
      BY <3>1, <3>2 DEF Object
    <3> QED BY <3>1, <3>3
  <2>4. \A x \in Objs : x # o => b[x] = was[x]
    BY <2>1
  <2>5. b \in [Objs -> Object]
    BY <1>1, <1>3, <2>3, <2>4
  <2>6. Lets(was, b, d)
    BY <1>2, <1>4, <2>3, <2>4, <2>5 DEF Lets
  <2> QED BY <1>4, <2>3, <2>4, <2>6 DEF Only, b, d
<1>5. CASE was[o].link > 1
  <2>1. d = None /\ Chain(o) \ Chain(d) = Chain(o)
    BY <1>2, <1>5
  <2>2. ASSUME NEW x \in Objs
        PROVE  /\ b[x] \in Object /\ b[x].state = was[x].state /\ b[x].child = was[x].child
               /\ b[x].prev = was[x].prev
               /\ b[x].link = was[x].link + (IF x \in {o, Above(was, o)} THEN -1 ELSE 0)
    <3>1. was[x] \in Object /\ x # d
      BY <1>1, <1>n, <2>1
    <3>2. CASE x \in Chain(o)
      <4>1. b[x] = [was[x] EXCEPT !.link = was[x].link - 1]
        BY <1>3, <2>1, <3>1, <3>2
      <4>2. b[x] \in Object /\ b[x].state = was[x].state /\ b[x].child = was[x].child
            /\ b[x].prev = was[x].prev /\ b[x].link = was[x].link - 1 /\ was[x].link \in Int
        BY <3>1, <4>1 DEF Object
      <4> QED BY <1>2, <3>2, <4>2
    <3>3. CASE x \notin Chain(o)
      <4>1. b[x] = was[x] /\ was[x].link \in Int
        BY <1>3, <2>1, <3>1, <3>3 DEF Object
      <4> QED BY <1>2, <1>n, <3>1, <3>3, <4>1
    <3> QED BY <3>2, <3>3
  <2>3. b \in [Objs -> Object]
    BY <1>3, <2>2
  <2>4. Lets(was, b, d) /\ Shape(was, b) /\ Gains(was, b, o, -1)
    BY <1>n, <2>1, <2>2, <2>3 DEF Lets, Shape, Gains
  <2> QED BY <1>5, <2>4 DEF b, d
<1> QED BY <1>1, <1>4, <1>5

LEMMA Releasing ==
  ASSUME NEW g, NEW was, NEW own, Graph(g, was, own), NEW s \in Referrers, g[s] # None,
         \A x \in Objs : was[x].state = "live" => was[x].prev = obj[x].prev,
         NEW u \in Referrers \ OfUsers, u = s \/ g[u] = None
  PROVE  LET b == Released(was, g[s]) IN
         /\ Graph(Let(was, g, s, u), b, own \ {s})
         /\ OpenIn(Let(was, g, s, u), b) =
              IF was[g[s]].link = 1 THEN OpenIn(g, was) \ {g[s]} ELSE OpenIn(g, was)
         /\ Lets(was, b, Dying(was, g[s]))
<1> DEFINE o == g[s]
           b == Released(was, o)
           d == Dying(was, o)
<1>1. /\ g \in [Referrers -> Objs \cup {None}] /\ was \in [Objs -> Object] /\ o \in Objs
  BY ChainCounts DEF Graph, Counted
<1>2. /\ Lets(was, b, d)
      /\ was[o].link > 1 => Shape(was, b) /\ Gains(was, b, o, -1)
      /\ was[o].link = 1 => Only(was, b, o) /\ b[o].link = 0
      /\ was[o].link = 1 \/ was[o].link > 1
  BY ReleasedIs
<1>3. d = (IF was[o].link = 1 THEN o ELSE None)
  BY DyingIs
<1> HIDE DEF b, d
<1>4. b \in [Objs -> Object]
  BY <1>2 DEF Lets
<1>5. CASE was[o].link = 1
  <2>1. b[o].state # "live" /\ d = o
    BY <1>1, <1>2, <1>3, <1>5 DEF Lets
  <2>2. Let(was, g, s, u) = Put(Put(g, s, None), u, Above(was, g[s]))
    BY <2>1 DEF Let, d
  <2>3. /\ Graph(Put(Put(g, s, None), u, Above(was, g[s])), b, own \ {s})
        /\ OpenIn(Put(Put(g, s, None), u, Above(was, g[s])), b) = OpenIn(g, was) \ {g[s]}
    <3>1. /\ Graph(g, was, own) /\ s \in Referrers /\ g[s] # None /\ was[g[s]].link = 1
          /\ u \in Referrers \ OfUsers /\ (u = s \/ g[u] = None)
          /\ b \in [Objs -> Object] /\ Only(was, b, g[s]) /\ b[g[s]].state # "live"
          /\ b[g[s]].link = 0
      BY <1>2, <1>4, <1>5, <2>1
    <3> QED BY ONLY <3>1, LastReleaseKeeps
  <2> QED BY <1>2, <1>5, <2>2, <2>3 DEF b, d
<1>6. CASE was[o].link > 1
  <2>1. Graph(Put(g, s, None), b, own \ {s}) /\ OpenIn(Put(g, s, None), b) = OpenIn(g, was)
    BY <1>2, <1>4, <1>6, ReleaseKeeps
  <2>2. Let(was, g, s, u) = Put(g, s, None)
    <3>1. Let(was, g, s, u) = Put(Put(g, s, None), u, None)
      BY <1>3, <1>6 DEF Let, Above, d
    <3>2. Put(g, s, None) \in [Referrers -> Objs \cup {None}]
          /\ Put(g, s, None)[u] = None
      BY <1>1, PutIs
    <3> HIDE DEF Put
    <3>3. Put(Put(g, s, None), u, None) = Put(g, s, None)
      <4> DEFINE k == Put(g, s, None)
      <4>1. k \in [Referrers -> Objs \cup {None}] /\ k[u] = None
        BY <3>2
      <4> HIDE DEF k
      <4>2. Put(k, u, None) = k
        BY <4>1 DEF Put
      <4> QED BY <4>2 DEF k
    <3> QED BY <3>1, <3>3
  <2> QED BY <1>2, <1>6, <2>1, <2>2 DEF b, d
<1> QED BY <1>2, <1>5, <1>6

-----------------------------------------------------------------------------
(***************************************************************************)
(* The referrers.                                                          *)
(***************************************************************************)
LEMMA Kinds ==
  /\ \A o \in Objs, i \in 1..MaxRefs : <<"caller", <<o, i>>>> \in OfUsers
  /\ \A q \in Queries : <<"query", q>> \in OfUsers
  /\ \A f \in Files : <<"entry", f>> \in Referrers \ OfUsers
  /\ \A t \in Threads : /\ <<"at", t>> \in Referrers \ OfUsers
                        /\ <<"dc", t>> \in Referrers \ OfUsers
                        /\ <<"del", t>> \in Referrers \ OfUsers
BY DEF Referrers, OfUsers

LEMMA KindOf ==
  ASSUME NEW s \in Referrers
  PROVE  \/ \E o \in Objs, i \in 1..MaxRefs : s = <<"caller", <<o, i>>>>
         \/ \E q \in Queries : s = <<"query", q>>
         \/ \E f \in Files : s = <<"entry", f>>
         \/ \E t \in Threads : s \in {<<"at", t>>, <<"dc", t>>, <<"del", t>>}
<1>1. CASE s \in {"caller"} \X (Objs \X (1..MaxRefs))
  BY <1>1
<1>2. CASE s \in {"query"} \X Queries
  BY <1>2
<1>3. CASE s \in {"entry"} \X Files
  BY <1>3
<1>4. CASE s \in {"at", "dc", "del"} \X Threads
  BY <1>4
<1> QED BY <1>1, <1>2, <1>3, <1>4 DEF Referrers, OfUsers

\* What the referrers of thread t refer to.
AtRef(ob, r) == IF r.pc = "hit" THEN None ELSE r.at
DcRef(ob, r) == IF r.pc = "add" \/ r.ret = "add" THEN Above(ob, r.at) ELSE None
DelRef(ob, r) == Above(ob, r.del)

LEMMA RefIs ==
  /\ \A o \in Objs, i \in 1..MaxRefs :
       Refs[<<"caller", <<o, i>>>>] = IF i <= refs[o] THEN o ELSE None
  /\ \A q \in Queries : Refs[<<"query", q>>] = query[q]
  /\ \A f \in Files : Refs[<<"entry", f>>] = cached[f]
  /\ \A t \in Threads : /\ Refs[<<"at", t>>] = AtRef(obj, me[t])
                        /\ Refs[<<"dc", t>>] = DcRef(obj, me[t])
                        /\ Refs[<<"del", t>>] = DelRef(obj, me[t])
<1>1. \A s \in Referrers : Refs[s] = RefOf(s)
  BY DEF Refs
<1>2. \A s \in OfUsers : Refs[s] = RefOf(s)
  BY <1>1, ReferrersFinite
<1>3. ASSUME NEW o \in Objs, NEW i \in 1..MaxRefs
      PROVE  Refs[<<"caller", <<o, i>>>>] = IF i <= refs[o] THEN o ELSE None
  BY <1>2, Kinds DEF RefOf
<1>4. ASSUME NEW q \in Queries PROVE Refs[<<"query", q>>] = query[q]
  BY <1>2, Kinds DEF RefOf
<1>5. ASSUME NEW f \in Files PROVE Refs[<<"entry", f>>] = cached[f]
  BY <1>1, Kinds DEF RefOf
<1>6. ASSUME NEW t \in Threads
      PROVE  /\ Refs[<<"at", t>>] = AtRef(obj, me[t])
             /\ Refs[<<"dc", t>>] = DcRef(obj, me[t])
             /\ Refs[<<"del", t>>] = DelRef(obj, me[t])
  BY <1>1, Kinds, PrevIs DEF RefOf, AtRef, DcRef, DelRef, At, ForDC
<1> QED BY <1>3, <1>4, <1>5, <1>6

\* The same for the state after a step.
LEMMA RefsPrime ==
  ASSUME NEW h, DOMAIN h = Referrers, h = [s \in Referrers |-> h[s]],
         \A o \in Objs, i \in 1..MaxRefs :
           h[<<"caller", <<o, i>>>>] = IF i <= refs'[o] THEN o ELSE None,
         \A q \in Queries : h[<<"query", q>>] = query'[q],
         \A f \in Files : h[<<"entry", f>>] = cached'[f],
         \A t \in Threads : /\ h[<<"at", t>>] = AtRef(obj', me'[t])
                            /\ h[<<"dc", t>>] = DcRef(obj', me'[t])
                            /\ h[<<"del", t>>] = DelRef(obj', me'[t])
  PROVE  Refs' = h
<1>1. ASSUME NEW s \in Referrers PROVE RefOf(s)' = h[s]
  <2>1. CASE \E o \in Objs, i \in 1..MaxRefs : s = <<"caller", <<o, i>>>>
    BY <2>1 DEF RefOf
  <2>2. CASE \E q \in Queries : s = <<"query", q>>
    BY <2>2 DEF RefOf
  <2>3. CASE \E f \in Files : s = <<"entry", f>>
    BY <2>3 DEF RefOf
  <2>4. CASE \E t \in Threads : s \in {<<"at", t>>, <<"dc", t>>, <<"del", t>>}
    <3>2. PICK t \in Threads : s \in {<<"at", t>>, <<"dc", t>>, <<"del", t>>}
      BY <2>4
    <3>3. CASE s = <<"at", t>>
      BY <3>3 DEF RefOf, AtRef, At
    <3>4. CASE s = <<"dc", t>>
      BY <3>4 DEF RefOf, DcRef, ForDC, Prev, Above
    <3>5. CASE s = <<"del", t>>
      BY <3>5 DEF RefOf, DelRef, Prev, Above
    <3> QED BY <3>2, <3>3, <3>4, <3>5
  <2> QED BY <2>1, <2>2, <2>3, <2>4, KindOf
<1>2. Refs' = [s \in Referrers |-> RefOf(s)']
  BY DEF Refs
<1> QED BY <1>1, <1>2

Local == [pc : Labels, file : Files \cup {None}, at : Objs \cup {None}, hit : Objs \cup {None},
          del : Objs \cup {None}, ret : Labels, qy : Queries \cup {None}]

\* The referrers a step of t leaves as they are, and those of t.
Referring(t, r, h) ==
  /\ h \in [Referrers -> Objs \cup {None}]
  /\ h[<<"at", t>>] = AtRef(obj', r) /\ h[<<"dc", t>>] = DcRef(obj', r)
  /\ h[<<"del", t>>] = DelRef(obj', r)
  /\ \A u \in Threads : u # t => /\ h[<<"at", u>>] = Refs[<<"at", u>>]
                                 /\ h[<<"dc", u>>] = Refs[<<"dc", u>>]
                                 /\ h[<<"del", u>>] = Refs[<<"del", u>>]

\* Objects in use stay what they are, except the one t was closing.
Stable(t) ==
  \A x \in Objs : obj[x].state # "free" /\ x # me[t].del =>
                    obj'[x].prev = obj[x].prev /\ obj'[x].child = obj[x].child

LEMMA Live ==
  ASSUME IInv, NEW t \in Threads
  PROVE  /\ Builds(t) \/ me[t].pc \in {"unlink"} => me[t].at \in Objs /\ obj[me[t].at].state = "live"
         /\ me[t].pc = "hit" => me[t].at \in Objs /\ obj[me[t].at].state = "live"
         /\ \A u \in Threads : u # t /\ me[u].del # None =>
              /\ me[u].del \in Objs /\ obj[me[u].del].state = "closing" /\ me[u].del # me[t].del
         /\ me[t].pc # "close" => me[t].del = None
         /\ me[t].del # None => me[t].del \in Objs /\ obj[me[t].del].state = "closing"
         /\ me \in [Threads -> Local] /\ obj \in [Objs -> Object] /\ refs \in [Objs -> 0..MaxRefs]
         /\ Refs \in [Referrers -> Objs \cup {None}] /\ Placed(t) /\ me[t] \in Local
<1>1. me \in [Threads -> Local] /\ me[t] \in Local
  BY DEF IInv, Types, Local
<1>2. Placed(t) /\ (\A u \in Threads : Placed(u)) /\ Closing /\ Graph(Refs, obj, Owners)
  BY DEF IInv
<1>3. \A u \in Threads : me[u].pc # "close" => me[u].del = None
  BY <1>2 DEF Placed
<1>4. \A u \in Threads : me[u].del # None => me[u].del \in Objs /\ obj[me[u].del].state = "closing"
  BY <1>2, <1>3 DEF Closing
<1>5. \A s \in Referrers : Refs[s] # None => Refs[s] \in Objs /\ obj[Refs[s]].state = "live"
  BY <1>2 DEF Graph, Counted, Chained
<1>6. Builds(t) => me[t].at \in Objs /\ obj[me[t].at].state = "live"
  <2> SUFFICES ASSUME Builds(t) PROVE me[t].at \in Objs /\ obj[me[t].at].state = "live"
    OBVIOUS
  <2>1. <<"at", t>> \in Owners /\ <<"at", t>> \in Referrers
    BY Kinds DEF Owners
  <2>2. Refs[<<"at", t>>] # None
    BY <1>2, <2>1 DEF Graph, Owned
  <2>3. me[t].pc # "hit"
    BY <1>2 DEF Builds, Placed
  <2> QED BY <1>5, <2>1, <2>2, <2>3, RefIs DEF AtRef
<1>7. me[t].pc = "unlink" => me[t].at \in Objs /\ obj[me[t].at].state = "live"
  <2> SUFFICES ASSUME me[t].pc = "unlink" PROVE me[t].at \in Objs /\ obj[me[t].at].state = "live"
    OBVIOUS
  <2>1. me[t].at \in Objs
    BY <1>2 DEF Placed
  <2>2. Refs[<<"at", t>>] = me[t].at
    BY RefIs DEF AtRef
  <2> QED BY <1>5, <2>1, <2>2, Kinds, NoneIsNone
<1>8. me[t].pc = "hit" => me[t].at \in Objs /\ obj[me[t].at].state = "live"
  <2> SUFFICES ASSUME me[t].pc = "hit" PROVE me[t].at \in Objs /\ obj[me[t].at].state = "live"
    OBVIOUS
  <2>1. me[t].file \in Files /\ cached[me[t].file] = me[t].at /\ me[t].at \in Objs
    BY <1>2 DEF Placed
  <2>2. Refs[<<"entry", me[t].file>>] = me[t].at
    BY <2>1, RefIs
  <2> QED BY <1>5, <2>1, <2>2, Kinds, NoneIsNone
<1>9. \A u \in Threads : u # t /\ me[u].del # None => me[u].del # me[t].del
  BY <1>2 DEF Closing
<1>10. obj \in [Objs -> Object] /\ refs \in [Objs -> 0..MaxRefs]
       /\ Refs \in [Referrers -> Objs \cup {None}]
  BY <1>2 DEF Graph, Counted, IInv, Types
<1> QED BY <1>1, <1>2, <1>3, <1>4, <1>6, <1>7, <1>8, <1>9, <1>10

LEMMA RefsStep ==
  ASSUME IInv, NEW t \in Threads, NEW r, me' = [me EXCEPT ![t] = r], Stable(t), NEW h,
         Referring(t, r, h),
         \A o \in Objs, i \in 1..MaxRefs :
           h[<<"caller", <<o, i>>>>] = IF i <= refs'[o] THEN o ELSE None,
         \A q \in Queries : h[<<"query", q>>] = query'[q],
         \A f \in Files : h[<<"entry", f>>] = cached'[f]
  PROVE  Refs' = h
<1>1. me'[t] = r /\ \A u \in Threads : u # t => me'[u] = me[u]
  BY Live
<1>2. ASSUME NEW u \in Threads
      PROVE  /\ h[<<"at", u>>] = AtRef(obj', me'[u])
             /\ h[<<"dc", u>>] = DcRef(obj', me'[u])
             /\ h[<<"del", u>>] = DelRef(obj', me'[u])
  <2>1. CASE u = t
    BY <1>1, <2>1 DEF Referring
  <2>2. CASE u # t
    <3>1. DcRef(obj', me[u]) = DcRef(obj, me[u])
      <4>1. CASE ~(me[u].pc = "add" \/ me[u].ret = "add")
        BY <4>1 DEF DcRef
      <4>2. CASE me[u].pc = "add" \/ me[u].ret = "add"
        <5>1. me[u].at \in Objs /\ obj[me[u].at].state = "live"
          BY <4>2, Live DEF Builds
        <5>2. me[u].at # me[t].del
          BY <5>1, Live, NoneIsNone
        <5> QED BY <4>2, <5>1, <5>2 DEF DcRef, Above, Stable
      <4> QED BY <4>1, <4>2
    <3>2. DelRef(obj', me[u]) = DelRef(obj, me[u])
      <4>1. me[u].del # None => /\ me[u].del \in Objs /\ obj[me[u].del].state = "closing"
                                /\ me[u].del # me[t].del
        BY <2>2, Live
      <4> QED BY <4>1 DEF DelRef, Above, Stable
    <3> QED BY <1>1, <2>2, <3>1, <3>2, RefIs DEF Referring, AtRef
  <2> QED BY <2>1, <2>2
<1>3. DOMAIN h = Referrers /\ h = [s \in Referrers |-> h[s]]
  BY DEF Referring
<1> QED BY <1>2, <1>3, RefsPrime

LEMMA OwnersStep ==
  ASSUME IInv, NEW t \in Threads, NEW r, me' = [me EXCEPT ![t] = r]
  PROVE  /\ Owners' \subseteq Owners \cup {<<"at", t>>}
         /\ ~(r.pc \in {"upper", "file", "leaf", "add", "cached", "fetch", "child"} \/ r.ret = "add")
              => Owners' \subseteq Owners \ {<<"at", t>>}
         /\ Builds(t) <=> <<"at", t>> \in Owners
<1>1. me'[t] = r /\ \A u \in Threads : u # t => me'[u] = me[u]
  BY Live
<1>2. \A u \in Threads : u # t => Builds(u)' = Builds(u)
  BY <1>1 DEF Builds
<1>3. Builds(t)' <=> (r.pc \in {"upper", "file", "leaf", "add", "cached", "fetch", "child"} \/ r.ret = "add")
  BY <1>1 DEF Builds
<1>4. /\ Owners = {<<"at", u>> : u \in {v \in Threads : Builds(v)}}
      /\ Owners' = {<<"at", u>> : u \in {v \in Threads : Builds(v)'}}
  BY DEF Owners
<1>5. \A s : s \in Owners <=> \E u \in Threads : Builds(u) /\ s = <<"at", u>>
  BY <1>4
<1>6. \A s : s \in Owners' <=> \E u \in Threads : Builds(u)' /\ s = <<"at", u>>
  BY <1>4
<1>7. \A s \in Owners' : s # <<"at", t>> => s \in Owners
  BY <1>2, <1>5, <1>6
<1>8. <<"at", t>> \in Owners' <=> Builds(t)'
  BY <1>6
<1>9. <<"at", t>> \in Owners <=> Builds(t)
  BY <1>5
<1> QED BY <1>3, <1>7, <1>8, <1>9

-----------------------------------------------------------------------------
(***************************************************************************)
(* What a step of t, that leaves its variables at r, must not disturb.     *)
(***************************************************************************)
QueryStep(t, r) ==
  /\ r.qy # None => r.qy \in Queries /\ (r.qy = me[t].qy \/ \A u \in Threads : me[u].qy # r.qy)
  /\ \A q \in Queries : q # r.qy /\ q # me[t].qy =>
       query'[q] = query[q] /\ (q \in listed' <=> q \in listed)
  /\ \A q \in Queries : q = r.qy \/ q = me[t].qy =>
       /\ q \in listed' => query'[q] # None
       /\ query'[q] # None => q \in listed' \/ (r.pc = "qopen" /\ r.qy = q)

CacheStep(t) ==
  /\ \A u \in Threads : u # t => held'[u] = held[u]
  /\ \A f \in Files :
       \/ cached'[f] = cached[f]
       \/ cached'[f] = None /\ \A u \in Threads : u # t => held[u] # cached[f]
       \/ cached[f] = None /\ obj'[cached'[f]].prev = None

CloseStep(t, r) ==
  /\ r.pc = "close" => r.del \in Objs /\ obj'[r.del].state = "closing" /\ obj[r.del].state # "closing"
  /\ r.pc # "close" => r.del = None
  /\ \A x \in Objs : x # r.del =>
       (obj'[x].state = "closing" <=> obj[x].state = "closing" /\ x # me[t].del)

PhaseStep(t, r) ==
  /\ session' = session /\ (me[t] # Idle \/ session = "open")
  /\ session = "open" => r.pc \notin EndRets /\ r.ret \notin EndRets
  /\ session = "closing" =>
       /\ r.pc \in Ends /\ (r.pc = "close" => r.ret \in EndRets)
       /\ (r.pc # "uncache" /\ r.ret # "uncache" => Empty')
       /\ (r.pc = "closeobjs" \/ r.ret = "closeobjs" => listed' = {})

LEMMA OthersPlaced ==
  ASSUME IInv, NEW t \in Threads, NEW r, me' = [me EXCEPT ![t] = r], Stable(t),
         CacheStep(t), QueryStep(t, r),
         NEW u \in Threads, u # t
  PROVE  Placed(u)'
<1> DEFINE v == me[u]
<1>1. me'[u] = v /\ held'[u] = held[u] /\ Placed(u) /\ v \in Local
  BY Live DEF CacheStep
<1>2. \A x \in Objs : obj[x].state = "live" => obj'[x].prev = obj[x].prev /\ obj'[x].child = obj[x].child
  BY Live, NoneIsNone DEF Stable
<1>3. Builds(u) => v.at \in Objs /\ obj'[v.at].prev = obj[v.at].prev /\ obj'[v.at].child = obj[v.at].child
  BY <1>2, Live
<1>4. v.pc \in {"hit", "unlink"} => v.at \in Objs /\ obj'[v.at].prev = obj[v.at].prev
  BY <1>2, Live
<1>5. v.pc = "hit" => cached'[v.file] = v.at
  <2> SUFFICES ASSUME v.pc = "hit" PROVE cached'[v.file] = v.at
    OBVIOUS
  <2>1. v.file \in Files /\ cached[v.file] = v.at /\ held[u] = v.at /\ v.at \in Objs
    BY <1>1 DEF Placed
  <2> QED BY <2>1, NoneIsNone DEF CacheStep
<1>6. v.qy # None => /\ v.qy \in Queries /\ query'[v.qy] = query[v.qy]
                     /\ (v.qy \in listed' <=> v.qy \in listed)
  <2>1. v.qy # None => v.qy \in Queries /\ v.qy # me[t].qy
    BY <1>1, Live DEF IInv, Distinct, Local
  <2> QED BY <2>1 DEF QueryStep
<1>7. Builds(u)' = Builds(u)
  BY <1>1 DEF Builds
<1>8. v.pc \in {"upper", "leaf", "add", "cached"} \/ v.ret = "add" => Builds(u)
  BY DEF Builds
<1>9. v.pc \in {"qopen", "fetch", "qclose"} => v.qy # None
  BY <1>1, NoneIsNone DEF Placed
<1> HIDE DEF v
<1>10. /\ v.pc = "idle" => v = Idle
       /\ v.pc = "lookup" => v.at = None
       /\ v.pc # "close" => v.ret = "idle" /\ v.del = None
       /\ v.pc = "close" => v.ret \in Rets
       /\ v.pc = "close" /\ v.ret = "idle" => v = [Idle EXCEPT !.pc = "close", !.del = v.del]
       /\ v.pc \in {"lookup", "hit", "unlink", "upper", "leaf", "add", "cached"} \/ v.ret = "add"
            => v.file \in Files /\ v.qy = None
  BY <1>1 DEF Placed, v
<1>11. /\ v.pc \in {"hit", "unlink"} => v.at \in Objs /\ held'[u] = v.at /\ obj'[v.at].prev = None
       /\ v.pc = "hit" => cached'[v.file] = v.at
       /\ v.pc = "upper" => obj'[v.at].prev = None
       /\ v.pc \in {"leaf", "add", "cached"} \/ v.ret = "add" => obj'[v.at].prev # None
       /\ Builds(u)' => obj'[v.at].child = (v.pc = "child")
  <2>1. /\ v.pc \in {"hit", "unlink"} => v.at \in Objs /\ held[u] = v.at /\ obj[v.at].prev = None
        /\ v.pc = "upper" => obj[v.at].prev = None
        /\ v.pc \in {"leaf", "add", "cached"} \/ v.ret = "add" => obj[v.at].prev # None
        /\ Builds(u) => obj[v.at].child = (v.pc = "child")
    BY <1>1 DEF Placed, v
  <2> QED BY <1>1, <1>3, <1>4, <1>5, <1>7, <1>8, <2>1
<1>12. /\ v.pc \in {"qopen", "qclose", "uncache", "closeqs", "closeobjs"} => v.at = None
       /\ v.ret \in {"uncache", "closeqs", "closeobjs"} => v.at = None
       /\ v.pc \in {"qopen", "fetch", "qclose"} => v.qy \in Queries /\ query'[v.qy] # None
       /\ v.pc \notin {"qopen", "fetch", "qclose"} => v.qy = None
       /\ v.pc = "qopen" => v.qy \notin listed'
       /\ v.pc \in {"fetch", "qclose"} => v.qy \in listed'
  <2>1. /\ v.pc \in {"qopen", "qclose", "uncache", "closeqs", "closeobjs"} => v.at = None
        /\ v.ret \in {"uncache", "closeqs", "closeobjs"} => v.at = None
        /\ v.pc \in {"qopen", "fetch", "qclose"} => v.qy \in Queries /\ query[v.qy] # None
        /\ v.pc \notin {"qopen", "fetch", "qclose"} => v.qy = None
        /\ v.pc = "qopen" => v.qy \notin listed
        /\ v.pc \in {"fetch", "qclose"} => v.qy \in listed
    BY <1>1 DEF Placed, v
  <2> QED BY <1>6, <1>9, <2>1
<1> QED BY <1>1, <1>10, <1>11, <1>12 DEF Placed

LEMMA ClosingStep ==
  ASSUME IInv, NEW t \in Threads, NEW r, me' = [me EXCEPT ![t] = r], CloseStep(t, r)
  PROVE  Closing'
<1>1. me'[t] = r /\ \A u \in Threads : u # t => me'[u] = me[u]
  BY Live
<1>2. \A u \in Threads : u # t /\ me[u].del # None =>
        me[u].del \in Objs /\ obj[me[u].del].state = "closing" /\ me[u].del # me[t].del
  BY Live
<1>3. \A u \in Threads : u # t /\ me[u].del # None =>
        obj'[me[u].del].state = "closing" /\ me[u].del # r.del
  BY <1>2, NoneIsNone DEF CloseStep
<1>4. ASSUME NEW u \in Threads, me'[u].pc = "close"
      PROVE  me'[u].del \in Objs /\ obj'[me'[u].del].state = "closing"
  <2>1. CASE u = t
    BY <1>1, <1>4, <2>1 DEF CloseStep
  <2>2. CASE u # t
    <3>1. me[u].del \in Objs
      BY <1>1, <1>4, <2>2 DEF IInv, Closing
    <3> QED BY <1>1, <1>3, <2>2, <3>1, NoneIsNone
  <2> QED BY <2>1, <2>2
<1>5. ASSUME NEW u \in Threads, NEW v \in Threads, u # v
      PROVE  me'[u].del = None \/ me'[u].del # me'[v].del
  <2>1. CASE u # t /\ v # t
    BY <1>1, <1>5, <2>1 DEF IInv, Closing
  <2>2. CASE u = t
    BY <1>1, <1>3, <1>5, <2>2
  <2>3. CASE v = t
    BY <1>1, <1>3, <1>5, <2>3
  <2> QED BY <2>1, <2>2, <2>3
<1>6. ASSUME NEW x \in Objs, obj'[x].state = "closing" PROVE \E u \in Threads : me'[u].del = x
  <2>1. CASE x = r.del
    BY <1>1, <2>1
  <2>2. CASE x # r.del
    <3>1. obj[x].state = "closing" /\ x # me[t].del
      BY <1>6, <2>2 DEF CloseStep
    <3>2. PICK u \in Threads : me[u].del = x
      BY <3>1 DEF IInv, Closing
    <3> QED BY <1>1, <3>1, <3>2
  <2> QED BY <2>1, <2>2
<1> QED BY <1>4, <1>5, <1>6 DEF Closing

LEMMA QueriesStep ==
  ASSUME IInv, NEW t \in Threads, NEW r, me' = [me EXCEPT ![t] = r], QueryStep(t, r)
  PROVE  Distinct' /\ Listed'
<1>1. me'[t] = r /\ \A u \in Threads : u # t => me'[u] = me[u]
  BY Live
<1>2. \A u \in Threads : u # t => me[u].qy = None \/ me[u].qy # r.qy
  BY DEF IInv, Distinct, QueryStep
<1>3. Distinct'
  <2> SUFFICES ASSUME NEW u \in Threads, NEW v \in Threads, u # v
               PROVE  me'[u].qy = None \/ me'[u].qy # me'[v].qy
    BY DEF Distinct
  <2>1. CASE u # t /\ v # t
    BY <1>1, <2>1 DEF IInv, Distinct
  <2>2. CASE u = t
    BY <1>1, <1>2, <2>2
  <2>3. CASE v = t
    BY <1>1, <1>2, <2>3
  <2> QED BY <2>1, <2>2, <2>3
<1>4. Listed'
  <2> SUFFICES ASSUME NEW q \in Queries
               PROVE  /\ q \in listed' => query'[q] # None
                      /\ query'[q] # None => \/ q \in listed'
                                             \/ \E u \in Threads : me'[u].pc = "qopen" /\ me'[u].qy = q
    BY DEF Listed
  <2>1. CASE q = r.qy \/ q = me[t].qy
    BY <1>1, <2>1 DEF QueryStep
  <2>2. CASE q # r.qy /\ q # me[t].qy
    <3>1. query'[q] = query[q] /\ (q \in listed' <=> q \in listed)
      BY <2>2 DEF QueryStep
    <3>2. /\ q \in listed => query[q] # None
          /\ query[q] # None => q \in listed \/ \E u \in Threads : me[u].pc = "qopen" /\ me[u].qy = q
      BY DEF IInv, Listed
    <3> QED BY <1>1, <2>2, <3>1, <3>2
  <2> QED BY <2>1, <2>2
<1> QED BY <1>3, <1>4

LEMMA UppersStep ==
  ASSUME IInv, NEW t \in Threads, Stable(t), CacheStep(t)
  PROVE  Uppers'
<1> SUFFICES ASSUME NEW f \in Files, cached'[f] # None PROVE obj'[cached'[f]].prev = None
  BY DEF Uppers
<1>1. CASE cached'[f] = cached[f]
  <2>1. Refs[<<"entry", f>>] = cached[f] /\ <<"entry", f>> \in Referrers
    BY RefIs, Kinds
  <2>2. cached[f] \in Objs /\ obj[cached[f]].state = "live" /\ obj[cached[f]].prev = None
    BY <1>1, <2>1 DEF IInv, Types, Graph, Chained, Uppers
  <2>3. cached[f] # me[t].del
    BY <2>2, Live, NoneIsNone
  <2> QED BY <1>1, <2>2, <2>3 DEF Stable
<1>2. CASE cached'[f] # cached[f]
  BY <1>2 DEF CacheStep
<1> QED BY <1>1, <1>2

LEMMA PhaseKeeps ==
  ASSUME IInv, NEW t \in Threads, NEW r, me' = [me EXCEPT ![t] = r], PhaseStep(t, r)
  PROVE  Phase'
<1>1. me'[t] = r /\ (\A u \in Threads : u # t => me'[u] = me[u]) /\ session' = session
  BY Live DEF PhaseStep
<1>2. CASE session = "open"
  BY <1>1, <1>2 DEF IInv, Phase, PhaseStep
<1>3. CASE session = "closing"
  <2>1. me[t] # Idle
    BY <1>3 DEF PhaseStep
  <2>2. \A u \in Threads : u # t => me[u] = Idle
    BY <1>3, <2>1 DEF IInv, Phase
  <2>3. /\ r.pc \in Ends /\ (r.pc = "close" => r.ret \in EndRets)
        /\ (r.pc # "uncache" /\ r.ret # "uncache" => Empty')
        /\ (r.pc = "closeobjs" \/ r.ret = "closeobjs" => listed' = {})
    BY <1>3 DEF PhaseStep
  <2> QED BY <1>1, <1>3, <2>2, <2>3 DEF Phase
<1>4. CASE session = "closed"
  BY <1>4 DEF IInv, Phase, PhaseStep
<1> QED BY <1>2, <1>3, <1>4 DEF IInv, Types

LEMMA Steps ==
  ASSUME IInv, NEW t \in Threads, NEW r, me' = [me EXCEPT ![t] = r], Stable(t),
         CacheStep(t), QueryStep(t, r), CloseStep(t, r), PhaseStep(t, r),
         Types', Graph(Refs', obj', Owners'), opens' = OpenIn(Refs', obj'), Placed(t)'
  PROVE  IInv'
<1>1. \A u \in Threads : Placed(u)'
  BY OthersPlaced
<1>2. Closing' /\ Distinct' /\ Listed' /\ Uppers' /\ Phase'
  BY ClosingStep, QueriesStep, UppersStep, PhaseKeeps
<1> QED BY <1>1, <1>2 DEF IInv, Graph, Counted, Chained, Separate, Owned, OpenIn

-----------------------------------------------------------------------------
(***************************************************************************)
(* From the referrers after a step to the invariant.                       *)
(***************************************************************************)
Mine(t) == {<<"at", t>>, <<"dc", t>>, <<"del", t>>}

\* The referrers of t are h, when it has the variables r.
OwnRefs(t, r, h) ==
  /\ h[<<"at", t>>] = AtRef(obj', r) /\ h[<<"dc", t>>] = DcRef(obj', r)
  /\ h[<<"del", t>>] = DelRef(obj', r)

\* h differs from what was only for thread t, and in K.
But(t, K, h) ==
  /\ h \in [Referrers -> Objs \cup {None}]
  /\ \A s \in Referrers : s \notin Mine(t) /\ s \notin K => h[s] = Refs[s]

\* Callers, queries and entries refer to h.
Used(h) ==
  /\ \A o \in Objs, i \in 1..MaxRefs :
       h[<<"caller", <<o, i>>>>] = IF i <= refs'[o] THEN o ELSE None
  /\ \A q \in Queries : h[<<"query", q>>] = query'[q]
  /\ \A f \in Files : h[<<"entry", f>>] = cached'[f]

LEMMA Differ ==
  /\ \A t \in Threads :
       /\ \A o \in Objs, i \in 1..MaxRefs : <<"caller", <<o, i>>>> \notin Mine(t)
       /\ \A q \in Queries : <<"query", q>> \notin Mine(t)
       /\ \A f \in Files : <<"entry", f>> \notin Mine(t)
       /\ <<"at", t>> # <<"dc", t>> /\ <<"at", t>> # <<"del", t>> /\ <<"dc", t>> # <<"del", t>>
       /\ \A u \in Threads : u # t => <<"at", u>> \notin Mine(t) /\ <<"dc", u>> \notin Mine(t)
                                      /\ <<"del", u>> \notin Mine(t)
  /\ \A o, p \in Objs, i, j \in 1..MaxRefs :
       <<"caller", <<o, i>>>> = <<"caller", <<p, j>>>> <=> o = p /\ i = j
  /\ \A o \in Objs, i \in 1..MaxRefs, q \in Queries : <<"caller", <<o, i>>>> # <<"query", q>>
  /\ \A o \in Objs, i \in 1..MaxRefs, f \in Files : <<"caller", <<o, i>>>> # <<"entry", f>>
  /\ \A q \in Queries, f \in Files : <<"query", q>> # <<"entry", f>>
  /\ \A q, p \in Queries : <<"query", q>> = <<"query", p>> <=> q = p
  /\ \A f, e \in Files : <<"entry", f>> = <<"entry", e>> <=> f = e
BY DEF Mine

LEMMA OnlyKind ==
  /\ \A t \in Threads, s \in OfUsers : s \notin Mine(t)
  /\ \A t \in Threads : Mine(t) \in SUBSET (Referrers \ OfUsers)
BY Kinds DEF Mine

\* Others of the threads.
Elsewhere(t, K) == \A u \in Threads : u # t => K \cap Mine(u) = {}

LEMMA OthersRefer ==
  ASSUME NEW t \in Threads, NEW r, NEW K, NEW h, OwnRefs(t, r, h), But(t, K, h), Elsewhere(t, K)
  PROVE  Referring(t, r, h)
<1>1. ASSUME NEW u \in Threads, u # t
      PROVE  /\ h[<<"at", u>>] = Refs[<<"at", u>>]
             /\ h[<<"dc", u>>] = Refs[<<"dc", u>>]
             /\ h[<<"del", u>>] = Refs[<<"del", u>>]
  <2>1. \A s \in Mine(u) : s \in Referrers /\ s \notin K
    BY <1>1, OnlyKind DEF Elsewhere
  <2>2. <<"at", u>> \in Mine(u) /\ <<"dc", u>> \in Mine(u) /\ <<"del", u>> \in Mine(u)
    BY DEF Mine
  <2>3. <<"at", u>> \notin Mine(t) /\ <<"dc", u>> \notin Mine(t) /\ <<"del", u>> \notin Mine(t)
    BY <1>1, Differ
  <2> QED BY <2>1, <2>2, <2>3 DEF But
<1> QED BY <1>1 DEF Referring, OwnRefs, But

LEMMA SlotsMine ==
  ASSUME NEW t \in Threads, NEW r, NEW h, OwnRefs(t, r, h), But(t, {}, h),
         refs' = refs, query' = query, cached' = cached
  PROVE  Referring(t, r, h) /\ Used(h)
<1>1. \A s \in Referrers : s \notin Mine(t) => h[s] = Refs[s]
  BY DEF But
<1>2. Used(h)
  BY <1>1, Kinds, Differ, RefIs, ReferrersFinite DEF Used
<1>3. Elsewhere(t, {})
  BY DEF Elsewhere
<1> QED BY <1>2, <1>3, OthersRefer

LEMMA SlotsQuery ==
  ASSUME NEW t \in Threads, NEW r, NEW h, NEW q \in Queries, NEW o,
         OwnRefs(t, r, h), But(t, {<<"query", q>>}, h), query \in [Queries -> Objs \cup {None}],
         h[<<"query", q>>] = o, refs' = refs, query' = [query EXCEPT ![q] = o], cached' = cached
  PROVE  Referring(t, r, h) /\ Used(h)
<1>1. \A s \in Referrers : s \notin Mine(t) /\ s # <<"query", q>> => h[s] = Refs[s]
  BY DEF But
<1>2. ASSUME NEW p \in Queries PROVE h[<<"query", p>>] = query'[p]
  <2>1. <<"query", p>> \in Referrers /\ <<"query", p>> \notin Mine(t)
        /\ (<<"query", p>> = <<"query", q>> <=> p = q) /\ Refs[<<"query", p>>] = query[p]
    BY Kinds, Differ, RefIs, ReferrersFinite
  <2>2. CASE p = q
    BY <2>2
  <2>3. CASE p # q
    <3>1. h[<<"query", p>>] = query[p]
      BY <1>1, <2>1, <2>3
    <3> QED BY <2>3, <3>1
  <2> QED BY <2>2, <2>3
<1>3. Used(h)
  BY <1>1, <1>2, Kinds, Differ, RefIs, ReferrersFinite DEF Used
<1>4. Elsewhere(t, {<<"query", q>>})
  BY Differ DEF Elsewhere
<1> QED BY <1>3, <1>4, OthersRefer

LEMMA SlotsEntry ==
  ASSUME NEW t \in Threads, NEW r, NEW h, NEW f \in Files, NEW o,
         OwnRefs(t, r, h), But(t, {<<"entry", f>>}, h), cached \in [Files -> Objs \cup {None}],
         h[<<"entry", f>>] = o, refs' = refs, query' = query, cached' = [cached EXCEPT ![f] = o]
  PROVE  Referring(t, r, h) /\ Used(h)
<1>1. \A s \in Referrers : s \notin Mine(t) /\ s # <<"entry", f>> => h[s] = Refs[s]
  BY DEF But
<1>2. ASSUME NEW e \in Files PROVE h[<<"entry", e>>] = cached'[e]
  <2>1. <<"entry", e>> \in Referrers /\ <<"entry", e>> \notin Mine(t)
        /\ (<<"entry", e>> = <<"entry", f>> <=> e = f) /\ Refs[<<"entry", e>>] = cached[e]
    BY Kinds, Differ, RefIs, ReferrersFinite
  <2>2. CASE e = f
    BY <2>2
  <2>3. CASE e # f
    <3>1. h[<<"entry", e>>] = cached[e]
      BY <1>1, <2>1, <2>3
    <3> QED BY <2>3, <3>1
  <2> QED BY <2>2, <2>3
<1>3. Used(h)
  BY <1>1, <1>2, Kinds, Differ, RefIs, ReferrersFinite DEF Used
<1>4. Elsewhere(t, {<<"entry", f>>})
  BY Differ DEF Elsewhere
<1> QED BY <1>3, <1>4, OthersRefer

\* A caller gets the i-th link of o, or gives it back.
Counting(h, o, i) ==
  \/ refs[o] = i - 1 /\ refs' = [refs EXCEPT ![o] = i] /\ h[<<"caller", <<o, i>>>>] = o
  \/ refs[o] = i /\ refs' = [refs EXCEPT ![o] = i - 1] /\ h[<<"caller", <<o, i>>>>] = None

LEMMA SlotsCaller ==
  ASSUME NEW t \in Threads, NEW r, NEW h, NEW o \in Objs, NEW i \in 1..MaxRefs,
         OwnRefs(t, r, h), But(t, {<<"caller", <<o, i>>>>}, h), refs \in [Objs -> 0..MaxRefs],
         Counting(h, o, i), query' = query, cached' = cached
  PROVE  Referring(t, r, h) /\ Used(h) /\ refs' \in [Objs -> 0..MaxRefs]
<1>1. \A s \in Referrers : s \notin Mine(t) /\ s # <<"caller", <<o, i>>>> => h[s] = Refs[s]
  BY DEF But
<1>2. ASSUME NEW p \in Objs, NEW j \in 1..MaxRefs
      PROVE  h[<<"caller", <<p, j>>>>] = IF j <= refs'[p] THEN p ELSE None
  <2>1. <<"caller", <<p, j>>>> \in Referrers /\ <<"caller", <<p, j>>>> \notin Mine(t)
        /\ (<<"caller", <<p, j>>>> = <<"caller", <<o, i>>>> <=> p = o /\ j = i)
    BY Kinds, Differ, ReferrersFinite
  <2>2. Refs[<<"caller", <<p, j>>>>] = IF j <= refs[p] THEN p ELSE None
    BY RefIs
  <2>3. refs[o] \in Nat /\ refs[p] \in Nat /\ i \in Nat /\ j \in Nat /\ MaxRefs \in Nat /\ i > 0
    BY OsmlAssumption
  <2>4. CASE p = o /\ j = i
    BY <2>3, <2>4 DEF Counting
  <2>5. CASE p = o /\ j # i
    <3>1. h[<<"caller", <<p, j>>>>] = Refs[<<"caller", <<p, j>>>>]
      BY <1>1, <2>1, <2>5
    <3>2. (j <= refs'[p]) <=> (j <= refs[p])
      BY <2>3, <2>5 DEF Counting
    <3> QED BY <3>1, <3>2, <2>2
  <2>6. CASE p # o
    <3>1. h[<<"caller", <<p, j>>>>] = Refs[<<"caller", <<p, j>>>>]
      BY <1>1, <2>1, <2>6
    <3>2. refs'[p] = refs[p]
      BY <2>6 DEF Counting
    <3> QED BY <3>1, <3>2, <2>2
  <2> QED BY <2>4, <2>5, <2>6
<1>3. /\ \A q \in Queries : h[<<"query", q>>] = query'[q]
      /\ \A f \in Files : h[<<"entry", f>>] = cached'[f]
  BY <1>1, Kinds, Differ, RefIs, ReferrersFinite
<1>4. Used(h)
  BY <1>2, <1>3 DEF Used
<1>5. Elsewhere(t, {<<"caller", <<o, i>>>>})
  BY Differ DEF Elsewhere
<1>6. refs' \in [Objs -> 0..MaxRefs]
  BY OsmlAssumption DEF Counting
<1> QED BY <1>4, <1>5, <1>6, OthersRefer

LEMMA Goes ==
  ASSUME IInv, NEW t \in Threads, NEW r, me' = [me EXCEPT ![t] = r], Stable(t),
         CacheStep(t), QueryStep(t, r), CloseStep(t, r), PhaseStep(t, r), Types', Placed(t)',
         NEW h, Referring(t, r, h), Used(h), NEW own, Graph(h, obj', own), Owners' \subseteq own,
         opens' = OpenIn(h, obj')
  PROVE  IInv'
<1>1. Refs' = h
  BY RefsStep DEF Used
<1>2. Graph(h, obj', Owners')
  BY FewerOwned
<1> QED BY <1>1, <1>2, Steps

-----------------------------------------------------------------------------
(***************************************************************************)
(* Steps of calls that release nothing.                                    *)
(***************************************************************************)
\* Objects in use stay as they are, but for their counts.
Steady ==
  \A x \in Objs :
    /\ obj[x].state # "free" => /\ obj'[x].state = obj[x].state /\ obj'[x].prev = obj[x].prev
                                /\ obj'[x].child = obj[x].child
    /\ obj[x].state = "free" => obj'[x].state # "closing"

\* r is of a thread within a call, or between calls.
Calling(r) ==
  /\ r \in Local /\ r.pc \notin {"uncache", "closeqs", "closeobjs", "close"}
  /\ r.ret = "idle" /\ r.del = None

LEMMA CallsIs ==
  ASSUME IInv, NEW t \in Threads
  PROVE  /\ Calls(t) => me[t] = Idle /\ session = "open"
         /\ me[t].pc \notin {"idle", "uncache", "qclose", "closeqs", "closeobjs", "close"} => session = "open"
         /\ Idle.pc = "idle" /\ Idle.file = None /\ Idle.at = None /\ Idle.hit = None
         /\ Idle.del = None /\ Idle.ret = "idle" /\ Idle.qy = None /\ Idle \in Local
<1>1. Calls(t) => me[t] = Idle /\ session = "open"
  BY DEF Calls, At, IInv, Placed
<1>2. Idle.pc = "idle" /\ Idle.file = None /\ Idle.at = None /\ Idle.hit = None
      /\ Idle.del = None /\ Idle.ret = "idle" /\ Idle.qy = None /\ Idle \in Local
  BY DEF Idle, Local, Labels
<1>3. ASSUME me[t].pc \notin {"idle", "uncache", "qclose", "closeqs", "closeobjs", "close"}
      PROVE  session = "open"
  <2>1. me[t] # Idle
    BY <1>2, <1>3
  <2>2. CASE session = "closed"
    BY <2>1, <2>2 DEF IInv, Phase
  <2>3. CASE session = "closing"
    BY <1>3, <2>1, <2>3 DEF IInv, Phase, Ends
  <2> QED BY <2>2, <2>3 DEF IInv, Types
<1> QED BY <1>1, <1>2, <1>3

LEMMA NowRefs ==
  ASSUME IInv, NEW t \in Threads
  PROVE  /\ Refs \in [Referrers -> Objs \cup {None}] /\ obj \in [Objs -> Object]
         /\ me[t].pc # "hit" => Refs[<<"at", t>>] = me[t].at
         /\ me[t].pc = "hit" => Refs[<<"at", t>>] = None
         /\ me[t].pc \notin {"add", "close"} => Refs[<<"dc", t>>] = None
         /\ me[t].pc = "add" \/ me[t].ret = "add" => Refs[<<"dc", t>>] = Above(obj, me[t].at)
         /\ me[t].pc # "close" => Refs[<<"del", t>>] = None
         /\ Refs[<<"del", t>>] = Above(obj, me[t].del)
<1>1. me[t].pc # "close" => me[t].del = None /\ me[t].ret = "idle"
  BY DEF IInv, Placed
<1> QED BY <1>1, Live, RefIs DEF AtRef, DcRef, DelRef, Above

LEMMA QuerySame ==
  ASSUME IInv, NEW t \in Threads, NEW r, me[t].pc # "qopen", query' = query, listed' = listed,
         \/ r.qy = None \/ r.qy = me[t].qy
         \/ r.qy \in listed /\ ~Busy(r.qy)
  PROVE  QueryStep(t, r)
<1>1. me[t].qy # None => me[t].qy \in Queries /\ me[t].qy \in listed
  BY Live DEF Placed, Local
<1>2. \A q \in Queries : q \in listed => query[q] # None
  BY DEF IInv, Listed
<1>3. listed \subseteq Queries
  BY DEF IInv, Types
<1>4. r.qy # None => /\ r.qy \in Queries /\ r.qy \in listed
                     /\ (r.qy = me[t].qy \/ \A u \in Threads : me[u].qy # r.qy)
  BY <1>1, <1>3 DEF Busy
<1>5. \A q \in Queries : q = r.qy \/ q = me[t].qy => q \in listed
  BY <1>1, <1>4, NoneIsNone
<1> QED BY <1>2, <1>4, <1>5 DEF QueryStep

LEMMA CacheSame ==
  ASSUME NEW t, cached' = cached, held' = held \/ \A u \in Threads : u # t => held'[u] = held[u]
  PROVE  CacheStep(t)
BY DEF CacheStep

LEMMA Calm ==
  ASSUME IInv, NEW t \in Threads, NEW r, Calling(r), Steady, me[t].pc # "close",
         session = "open", session' = session
  PROVE  Stable(t) /\ CloseStep(t, r) /\ PhaseStep(t, r)
<1>1. me[t].del = None
  BY Live
<1>2. \A x \in Objs : (obj'[x].state = "closing" <=> obj[x].state = "closing")
  BY DEF Steady
<1>3. CloseStep(t, r)
  BY <1>1, <1>2, NoneIsNone DEF CloseStep, Calling
<1>4. PhaseStep(t, r)
  BY DEF PhaseStep, Calling, EndRets
<1> QED BY <1>3, <1>4 DEF Stable, Steady

LEMMA TypesStep ==
  ASSUME IInv, NEW t \in Threads, NEW r \in Local, me' = [me EXCEPT ![t] = r],
         refs' \in [Objs -> 0..MaxRefs], query' \in [Queries -> Objs \cup {None}],
         listed' \in SUBSET Queries, cached' \in [Files -> Objs \cup {None}],
         held' \in [Threads -> Objs \cup {None}], session' \in {"open", "closing", "closed"}
  PROVE  Types' /\ me'[t] = r
<1>1. me' \in [Threads -> Local] /\ me'[t] = r
  BY Live
<1> QED BY <1>1 DEF Types, Local

LEMMA TypesNow ==
  ASSUME IInv
  PROVE  /\ refs \in [Objs -> 0..MaxRefs] /\ query \in [Queries -> Objs \cup {None}]
         /\ listed \in SUBSET Queries /\ cached \in [Files -> Objs \cup {None}]
         /\ held \in [Threads -> Objs \cup {None}] /\ session \in {"open", "closing", "closed"}
         /\ Graph(Refs, obj, Owners) /\ opens = OpenIn(Refs, obj)
BY DEF IInv, Types

LEMMA CalmGoes ==
  ASSUME IInv, NEW t \in Threads, NEW r, me' = [me EXCEPT ![t] = r], Calling(r), Steady,
         me[t].pc # "close", session = "open", session' = session, CacheStep(t), QueryStep(t, r),
         Types', Placed(t)',
         NEW h, Referring(t, r, h), Used(h), NEW own, Graph(h, obj', own), Owners' \subseteq own,
         opens' = OpenIn(h, obj')
  PROVE  IInv'
<1>1. Stable(t) /\ CloseStep(t, r) /\ PhaseStep(t, r)
  BY Calm
<1> QED BY <1>1, Goes

\* Only at differs.
LEMMA AtGoes ==
  ASSUME IInv, NEW t \in Threads, NEW r, me' = [me EXCEPT ![t] = r], Calling(r), Steady,
         me[t].pc \notin {"close", "add"}, r.pc \notin {"hit", "add"},
         session = "open", session' = session, CacheStep(t), QueryStep(t, r), Placed(t)',
         refs' = refs, query' = query, listed' = listed, opens' = opens, cached' = cached,
         held' \in [Threads -> Objs \cup {None}],
         NEW own, Graph(Put(Refs, <<"at", t>>, r.at), obj', own), Owners' \subseteq own,
         OpenIn(Put(Refs, <<"at", t>>, r.at), obj') = OpenIn(Refs, obj)
  PROVE  IInv'
<1> DEFINE h == Put(Refs, <<"at", t>>, r.at)
<1>1. r \in Local /\ r.at \in Objs \cup {None} /\ r.ret = "idle" /\ r.del = None
  BY DEF Calling, Local
<1>2. <<"at", t>> \in Referrers /\ <<"dc", t>> \in Referrers /\ <<"del", t>> \in Referrers
  BY Kinds
<1>3. /\ h \in [Referrers -> Objs \cup {None}] /\ h[<<"at", t>>] = r.at
      /\ \A s \in Referrers : s # <<"at", t>> => h[s] = Refs[s]
  <2>1. Refs \in [Referrers -> Objs \cup {None}]
    BY NowRefs
  <2> QED BY ONLY <1>1, <1>2, <2>1, PutIs
<1> HIDE DEF h
<1>4. h[<<"dc", t>>] = None /\ h[<<"del", t>>] = None
  BY <1>2, <1>3, NowRefs, Differ
<1>5. OwnRefs(t, r, h)
  BY <1>1, <1>3, <1>4 DEF OwnRefs, AtRef, DcRef, DelRef, Above
<1>6. But(t, {}, h)
  BY <1>3 DEF But, Mine
<1>7. Referring(t, r, h) /\ Used(h)
  BY <1>5, <1>6, SlotsMine
<1>8. Types'
  BY <1>1, TypesNow, TypesStep
<1>9. Graph(h, obj', own) /\ opens' = OpenIn(h, obj')
  BY TypesNow DEF h
<1> QED BY <1>7, <1>8, <1>9, CalmGoes

\* Nothing the calls refer to differs.
LEMMA SameGoes ==
  ASSUME IInv, NEW t \in Threads, NEW r, me' = [me EXCEPT ![t] = r], Calling(r),
         me[t].pc # "close", session = "open", session' = session,
         CacheStep(t), QueryStep(t, r), Placed(t)',
         obj' = obj, refs' = refs, query' = query, listed' \in SUBSET Queries, opens' = opens,
         cached' = cached, held' \in [Threads -> Objs \cup {None}], Owners' \subseteq Owners,
         r.pc = "hit" \/ r.at = me[t].at, me[t].pc # "hit", r.pc = "hit" => me[t].at = None,
         r.pc # "add", me[t].pc # "add"
  PROVE  IInv'
<1>1. r \in Local /\ r.ret = "idle" /\ r.del = None
  BY DEF Calling
<1>2. OwnRefs(t, r, Refs)
  BY <1>1, NowRefs DEF OwnRefs, AtRef, DcRef, DelRef, Above
<1>3. But(t, {}, Refs)
  BY NowRefs DEF But
<1>4. Referring(t, r, Refs) /\ Used(Refs)
  BY <1>2, <1>3, SlotsMine
<1>5. Types'
  BY <1>1, TypesNow, TypesStep
<1>6. Steady
  BY DEF Steady
<1> QED BY <1>4, <1>5, <1>6, TypesNow, CalmGoes

LEMMA AllocSteady ==
  ASSUME obj \in [Objs -> Object], NEW was \in [Objs -> Object], Shape(obj, was), HasRoom,
         NEW p \in Objs \cup {None}, obj' = Alloc(was, p)
  PROVE  /\ Steady /\ New \in Objs /\ obj[New].state = "free" /\ was[New].state = "free"
         /\ obj' \in [Objs -> Object] /\ Only(was, obj', New)
         /\ obj'[New].state = "live" /\ obj'[New].link = 1 /\ obj'[New].prev = p
         /\ obj'[New].child = FALSE
<1>1. New \in Objs /\ obj[New].state = "free" /\ was[New].state = "free"
  BY NewIs DEF Shape
<1>2. /\ obj' \in [Objs -> Object] /\ Only(was, obj', New)
      /\ obj'[New] = [state |-> "live", child |-> FALSE, link |-> 1, prev |-> p]
  BY <1>1, AllocIs
<1>3. Steady
  BY <1>1, <1>2 DEF Steady, Only, Shape
<1> QED BY <1>1, <1>2, <1>3

LEMMA LinkedSteady ==
  ASSUME obj \in [Objs -> Object], NEW o \in Objs \cup {None}, obj' = Linked(o)
  PROVE  Steady /\ obj' \in [Objs -> Object] /\ Shape(obj, obj') /\ Gains(obj, obj', o, 1)
BY LinkedIs DEF Steady, Shape

\* A new object for at, or after the one at was.
LEMMA NewAt ==
  ASSUME IInv, NEW t \in Threads, HasRoom, NEW p \in Objs \cup {None},
         Refs[<<"at", t>>] = p, Above(obj, p) = None, obj' = Alloc(obj, p)
  PROVE  /\ Graph(Put(Refs, <<"at", t>>, New), obj', Owners \cup {<<"at", t>>})
         /\ OpenIn(Put(Refs, <<"at", t>>, New), obj') = OpenIn(Refs, obj)
         /\ Steady /\ New \in Objs /\ obj'[New].prev = p /\ obj'[New].child = FALSE
         /\ p # None => obj'[p].prev = None
<1>1. obj \in [Objs -> Object] /\ Graph(Refs, obj, Owners)
  BY NowRefs, TypesNow
<1>2. Shape(obj, obj)
  BY DEF Shape
<1>3. /\ Steady /\ New \in Objs /\ obj[New].state = "free"
      /\ obj' \in [Objs -> Object] /\ Only(obj, obj', New)
      /\ obj'[New].state = "live" /\ obj'[New].link = 1 /\ obj'[New].prev = p
      /\ obj'[New].child = FALSE
  BY <1>1, <1>2, AllocSteady
<1>4. <<"at", t>> \in Referrers \ OfUsers
  BY Kinds
<1>5. obj[New].state # "live" /\ Above(obj, Refs[<<"at", t>>]) = None
      /\ obj'[New].prev = Refs[<<"at", t>>]
  BY <1>3
<1>6. /\ Graph(Put(Refs, <<"at", t>>, New), obj', Owners \cup {<<"at", t>>})
      /\ OpenIn(Put(Refs, <<"at", t>>, New), obj') = OpenIn(Refs, obj)
  BY ONLY <1>1, <1>3, <1>4, <1>5, AllocKeeps
<1>7. p # None => obj'[p].prev = None
  <2> SUFFICES ASSUME p # None PROVE obj'[p].prev = None
    OBVIOUS
  <2>1. p \in Objs /\ obj[p].prev = None
    BY <1>1, AboveIs
  <2>2. obj[p].state = "live"
    BY <1>1, <1>4 DEF Graph, Chained
  <2> QED BY <2>1, <2>2, <1>3 DEF Steady
<1> QED BY <1>3, <1>6, <1>7

LEMMA OpenFileKeeps ==
  ASSUME IInv, NEW t \in Threads, OpenFile(t)
  PROVE  IInv'
<1> DEFINE r == [To(t, "file") EXCEPT !.at = New]
<1>1. me[t] = Idle /\ session = "open" /\ HasRoom /\ obj' = Alloc(obj, None)
      /\ me' = [me EXCEPT ![t] = r] /\ UNCHANGED <<opens, refs, query, listed, cached, held, session>>
  BY CallsIs DEF OpenFile, Goto, cache
<1>2. Refs[<<"at", t>>] = None /\ Above(obj, None) = None
  BY <1>1, CallsIs, NowRefs DEF Above
<1>3. /\ Graph(Put(Refs, <<"at", t>>, New), obj', Owners \cup {<<"at", t>>})
      /\ OpenIn(Put(Refs, <<"at", t>>, New), obj') = OpenIn(Refs, obj)
      /\ Steady /\ New \in Objs /\ obj'[New].prev = None /\ obj'[New].child = FALSE
  BY <1>1, <1>2, NewAt
<1>4. /\ r \in Local /\ r.pc = "file" /\ r.at = New /\ r.file = None /\ r.ret = "idle"
      /\ r.del = None /\ r.qy = None /\ r.hit = None
  BY <1>1, <1>3, CallsIs DEF To, Local, Labels
<1> HIDE DEF r
<1>5. Calling(r) /\ me[t].pc = "idle"
  BY <1>1, <1>4, CallsIs DEF Calling
<1>6. CacheStep(t) /\ QueryStep(t, r)
  BY <1>1, <1>4, <1>5, CacheSame, QuerySame
<1>7. me'[t] = r
  BY <1>1, Live
<1>8. Placed(t)'
  BY <1>3, <1>4, <1>7 DEF Placed, Builds
<1>9. Owners' \subseteq Owners \cup {<<"at", t>>}
  BY <1>1, OwnersStep
<1> QED BY <1>1, <1>3, <1>4, <1>5, <1>6, <1>8, <1>9, TypesNow, AtGoes

LEMMA LookupMissKeeps ==
  ASSUME IInv, NEW t \in Threads, LookupMiss(t)
  PROVE  IInv'
<1> DEFINE r == [To(t, "upper") EXCEPT !.at = New]
<1>1. me[t].pc = "lookup" /\ HasRoom /\ obj' = Alloc(obj, None)
      /\ me' = [me EXCEPT ![t] = r] /\ UNCHANGED <<opens, refs, query, listed, cached, held, session>>
  BY DEF LookupMiss, Goto, cache, At
<1>0. /\ me[t] \in Local /\ me[t].at = None /\ me[t].del = None /\ me[t].ret = "idle"
      /\ me[t].file \in Files /\ me[t].qy = None /\ session = "open"
  BY <1>1, Live, CallsIs DEF Placed
<1>2. Refs[<<"at", t>>] = None /\ Above(obj, None) = None
  BY <1>0, <1>1, NowRefs DEF Above
<1>3. /\ Graph(Put(Refs, <<"at", t>>, New), obj', Owners \cup {<<"at", t>>})
      /\ OpenIn(Put(Refs, <<"at", t>>, New), obj') = OpenIn(Refs, obj)
      /\ Steady /\ New \in Objs /\ obj'[New].prev = None /\ obj'[New].child = FALSE
  BY <1>1, <1>2, NewAt
<1>4. /\ r \in Local /\ r.pc = "upper" /\ r.at = New /\ r.file \in Files /\ r.ret = "idle"
      /\ r.del = None /\ r.qy = None
  BY <1>0, <1>3 DEF To, Local, Labels
<1> HIDE DEF r
<1>5. Calling(r)
  BY <1>4 DEF Calling
<1>6. CacheStep(t) /\ QueryStep(t, r)
  BY <1>1, <1>4, CacheSame, QuerySame
<1>7. me'[t] = r
  BY <1>1, Live
<1>8. Placed(t)'
  BY <1>3, <1>4, <1>7 DEF Placed, Builds
<1>9. Owners' \subseteq Owners \cup {<<"at", t>>}
  BY <1>1, OwnersStep
<1> QED BY <1>0, <1>1, <1>3, <1>4, <1>5, <1>6, <1>8, <1>9, TypesNow, AtGoes

LEMMA UpperOpenedKeeps ==
  ASSUME IInv, NEW t \in Threads, UpperOpened(t)
  PROVE  IInv'
<1> DEFINE r == [To(t, "leaf") EXCEPT !.at = New]
           p == me[t].at
<1>1. me[t].pc = "upper" /\ HasRoom /\ obj' = Alloc(obj, p)
      /\ me' = [me EXCEPT ![t] = r] /\ UNCHANGED <<opens, refs, query, listed, cached, held, session>>
  BY DEF UpperOpened, Goto, cache, At
<1>0. /\ me[t] \in Local /\ p \in Objs /\ obj[p].prev = None /\ me[t].del = None
      /\ me[t].ret = "idle" /\ me[t].file \in Files /\ me[t].qy = None /\ session = "open"
  BY <1>1, Live, CallsIs DEF Placed, Builds
<1>2. Refs[<<"at", t>>] = p /\ Above(obj, p) = None
  BY <1>0, <1>1, NowRefs DEF Above
<1>3. /\ Graph(Put(Refs, <<"at", t>>, New), obj', Owners \cup {<<"at", t>>})
      /\ OpenIn(Put(Refs, <<"at", t>>, New), obj') = OpenIn(Refs, obj)
      /\ Steady /\ New \in Objs /\ obj'[New].prev = p /\ obj'[New].child = FALSE
  BY <1>0, <1>1, <1>2, NewAt
<1>4. /\ r \in Local /\ r.pc = "leaf" /\ r.at = New /\ r.file \in Files /\ r.ret = "idle"
      /\ r.del = None /\ r.qy = None
  BY <1>0, <1>3 DEF To, Local, Labels
<1> HIDE DEF r
<1>5. Calling(r)
  BY <1>4 DEF Calling
<1>6. CacheStep(t) /\ QueryStep(t, r)
  BY <1>1, <1>4, CacheSame, QuerySame
<1>7. me'[t] = r
  BY <1>1, Live
<1>8. Placed(t)'
  BY <1>0, <1>3, <1>4, <1>7, NoneIsNone DEF Placed, Builds
<1>9. Owners' \subseteq Owners \cup {<<"at", t>>}
  BY <1>1, OwnersStep
<1> QED BY <1>0, <1>1, <1>3, <1>4, <1>5, <1>6, <1>8, <1>9, TypesNow, AtGoes

LEMMA UnlinkHitKeeps ==
  ASSUME IInv, NEW t \in Threads, UnlinkHit(t)
  PROVE  IInv'
<1> DEFINE r == [To(t, "leaf") EXCEPT !.at = New]
           p == me[t].at
<1>1. /\ me[t].pc = "unlink" /\ HasRoom /\ obj' = Alloc(obj, p)
      /\ me' = [me EXCEPT ![t] = r] /\ UNCHANGED <<opens, refs, query, listed, cached, session>>
      /\ held' = [held EXCEPT ![t] = None]
  BY DEF UnlinkHit, Goto, At, Cache!Drop
<1>0. /\ me[t] \in Local /\ p \in Objs /\ obj[p].prev = None /\ me[t].del = None
      /\ me[t].ret = "idle" /\ me[t].file \in Files /\ me[t].qy = None /\ session = "open"
  BY <1>1, Live, CallsIs DEF Placed
<1>2. Refs[<<"at", t>>] = p /\ Above(obj, p) = None
  BY <1>0, <1>1, NowRefs DEF Above
<1>3. /\ Graph(Put(Refs, <<"at", t>>, New), obj', Owners \cup {<<"at", t>>})
      /\ OpenIn(Put(Refs, <<"at", t>>, New), obj') = OpenIn(Refs, obj)
      /\ Steady /\ New \in Objs /\ obj'[New].prev = p /\ obj'[New].child = FALSE
  BY <1>0, <1>1, <1>2, NewAt
<1>4. /\ r \in Local /\ r.pc = "leaf" /\ r.at = New /\ r.file \in Files /\ r.ret = "idle"
      /\ r.del = None /\ r.qy = None
  BY <1>0, <1>3 DEF To, Local, Labels
<1> HIDE DEF r
<1>5. Calling(r)
  BY <1>4 DEF Calling
<1>6. /\ CacheStep(t) /\ QueryStep(t, r)
      /\ held' \in [Threads -> Objs \cup {None}]
  <2>1. held' \in [Threads -> Objs \cup {None}] /\ \A u \in Threads : u # t => held'[u] = held[u]
    BY <1>1, TypesNow
  <2> QED BY <1>1, <1>4, <2>1, CacheSame, QuerySame
<1>7. me'[t] = r
  BY <1>1, Live
<1>8. Placed(t)'
  BY <1>0, <1>3, <1>4, <1>7, NoneIsNone DEF Placed, Builds
<1>9. Owners' \subseteq Owners \cup {<<"at", t>>}
  BY <1>1, OwnersStep
<1> QED BY <1>0, <1>1, <1>3, <1>4, <1>5, <1>6, <1>8, <1>9, TypesNow, AtGoes

LEMMA OwnersAre ==
  ASSUME IInv
  PROVE  /\ \A s \in OfUsers : s \notin Owners
         /\ \A f \in Files : <<"entry", f>> \notin Owners
         /\ \A t \in Threads : <<"dc", t>> \notin Owners /\ <<"del", t>> \notin Owners
<1>1. Owners \in SUBSET (Referrers \ OfUsers)
  BY TypesNow DEF Graph
<1> QED BY <1>1 DEF Owners

LEMMA OpenInsideKeeps ==
  ASSUME IInv, NEW t \in Threads, OpenInside(t)
  PROVE  IInv'
<1>p. PICK f \in Files : Goto(t, [To(t, "lookup") EXCEPT !.file = f])
  BY DEF OpenInside
<1> DEFINE r == [To(t, "lookup") EXCEPT !.file = f]
<1>1. /\ me[t] = Idle /\ session = "open" /\ me' = [me EXCEPT ![t] = r]
      /\ UNCHANGED <<obj, opens, refs, query, listed, cached, held, session>>
  BY <1>p, CallsIs DEF OpenInside, Goto, cache
<1>4. /\ r \in Local /\ r.pc = "lookup" /\ r.at = None /\ r.file \in Files /\ r.ret = "idle"
      /\ r.del = None /\ r.qy = None /\ me[t].pc = "idle" /\ me[t].at = None /\ me[t].ret = "idle"
  BY <1>1, CallsIs DEF To, Local, Labels
<1> HIDE DEF r
<1>5. Calling(r)
  BY <1>4 DEF Calling
<1>6. CacheStep(t) /\ QueryStep(t, r)
  BY <1>1, <1>4, CacheSame, QuerySame
<1>7. me'[t] = r
  BY <1>1, Live
<1>8. Placed(t)'
  BY <1>4, <1>7 DEF Placed, Builds
<1>9. Owners' \subseteq Owners
  BY <1>1, <1>4, OwnersStep
<1> QED BY <1>1, <1>4, <1>5, <1>6, <1>8, <1>9, TypesNow, SameGoes

LEMMA LookupHitKeeps ==
  ASSUME IInv, NEW t \in Threads, LookupHit(t)
  PROVE  IInv'
<1> DEFINE f == me[t].file
           x == cached[f]
           r == [To(t, "hit") EXCEPT !.at = x]
<1>1. /\ me[t].pc = "lookup" /\ me' = [me EXCEPT ![t] = r] /\ x # None
      /\ held' = [held EXCEPT ![t] = x]
      /\ UNCHANGED <<obj, opens, refs, query, listed, cached, session>>
  BY DEF LookupHit, Goto, At, Cache!Find
<1>0. /\ me[t] \in Local /\ me[t].at = None /\ me[t].del = None /\ me[t].ret = "idle"
      /\ f \in Files /\ me[t].qy = None /\ session = "open"
  BY <1>1, Live, CallsIs DEF Placed
<1>2. x \in Objs /\ obj[x].prev = None
  BY <1>0, <1>1, TypesNow DEF IInv, Uppers
<1>3. held' \in [Threads -> Objs \cup {None}] /\ held'[t] = x /\ \A u \in Threads : u # t => held'[u] = held[u]
  BY <1>1, <1>2, TypesNow
<1>4. /\ r \in Local /\ r.pc = "hit" /\ r.at = x /\ r.file = f /\ r.ret = "idle"
      /\ r.del = None /\ r.qy = None
  BY <1>0, <1>2 DEF To, Local, Labels
<1> HIDE DEF r
<1>5. Calling(r)
  BY <1>4 DEF Calling
<1>6. CacheStep(t) /\ QueryStep(t, r)
  BY <1>1, <1>3, <1>4, CacheSame, QuerySame
<1>7. me'[t] = r
  BY <1>1, Live
<1>8. Placed(t)'
  BY <1>0, <1>1, <1>2, <1>3, <1>4, <1>7 DEF Placed, Builds
<1>9. Owners' \subseteq Owners
  BY <1>1, <1>4, OwnersStep
<1> QED BY <1>0, <1>1, <1>3, <1>4, <1>5, <1>6, <1>8, <1>9, TypesNow, SameGoes

LEMMA LinkHitKeeps ==
  ASSUME IInv, NEW t \in Threads, LinkHit(t)
  PROVE  IInv'
<1> DEFINE x == me[t].at
           v == <<"entry", me[t].file>>
           r == [To(t, "unlink") EXCEPT !.hit = x]
<1>1. /\ me[t].pc = "hit" /\ me' = [me EXCEPT ![t] = r] /\ obj' = Linked(x)
      /\ UNCHANGED <<opens, refs, query, listed, cached, held, session>>
  BY DEF LinkHit, Goto, At, cache
<1>0. /\ me[t] \in Local /\ x \in Objs /\ me[t].del = None /\ me[t].ret = "idle"
      /\ obj[x].state = "live" /\ obj[x].prev = None /\ held[t] = x
      /\ me[t].file \in Files /\ cached[me[t].file] = x /\ me[t].qy = None /\ session = "open"
  BY <1>1, Live, CallsIs DEF Placed
<1>2. /\ Graph(Refs, obj, Owners) /\ <<"at", t>> \in Referrers /\ Refs[<<"at", t>>] = None
      /\ v \in Referrers /\ Refs[v] = x /\ v \notin Owners
      /\ (v \in OfUsers <=> <<"at", t>> \in OfUsers) /\ obj \in [Objs -> Object]
  BY <1>0, <1>1, TypesNow, NowRefs, RefIs, Kinds, OwnersAre
<1>3. /\ Steady /\ obj' \in [Objs -> Object] /\ Shape(obj, obj') /\ Gains(obj, obj', x, 1)
  BY <1>0, <1>1, <1>2, LinkedSteady
<1>4. /\ Graph(Put(Refs, <<"at", t>>, x), obj', Owners)
      /\ OpenIn(Put(Refs, <<"at", t>>, x), obj') = OpenIn(Refs, obj)
  BY ONLY <1>0, <1>2, <1>3, LinkKeeps
<1>5. /\ r \in Local /\ r.pc = "unlink" /\ r.at = x /\ r.file \in Files /\ r.ret = "idle"
      /\ r.del = None /\ r.qy = None
  BY <1>0 DEF To, Local, Labels
<1> HIDE DEF r
<1>6. Calling(r)
  BY <1>5 DEF Calling
<1>7. CacheStep(t) /\ QueryStep(t, r)
  BY <1>1, <1>5, CacheSame, QuerySame
<1>8. Placed(t)'
  <2>1. me'[t] = r /\ obj'[x].prev = None
    BY <1>0, <1>1, <1>3, Live DEF Shape
  <2> QED BY <1>0, <1>1, <1>5, <2>1 DEF Placed, Builds
<1>9. Owners' \subseteq Owners
  BY <1>1, <1>5, OwnersStep
<1> QED BY <1>0, <1>1, <1>3, <1>4, <1>5, <1>6, <1>7, <1>8, <1>9, TypesNow, AtGoes

LEMMA OpenQueryDoneKeeps ==
  ASSUME IInv, NEW t \in Threads, OpenQueryDone(t)
  PROVE  IInv'
<1> DEFINE q == me[t].qy
<1>1. /\ me[t].pc = "qopen" /\ me' = [me EXCEPT ![t] = Idle] /\ listed' = listed \cup {q}
      /\ UNCHANGED <<obj, opens, refs, query, cached, held, session>>
  BY DEF OpenQueryDone, Goto, At, cache
<1>0. /\ me[t].at = None /\ me[t].ret = "idle" /\ q \in Queries /\ query[q] # None /\ session = "open"
  BY <1>1, Live, CallsIs DEF Placed
<1>5. Calling(Idle)
  BY CallsIs DEF Calling
<1>6. CacheStep(t) /\ QueryStep(t, Idle)
  <2>1. QueryStep(t, Idle)
    BY <1>0, <1>1, CallsIs, NoneIsNone DEF QueryStep
  <2> QED BY <1>1, <2>1, CacheSame
<1>7. me'[t] = Idle
  BY <1>1, Live
<1>8. Placed(t)'
  BY <1>7, CallsIs DEF Placed, Builds
<1>9. Owners' \subseteq Owners
  BY <1>1, CallsIs, OwnersStep
<1> QED BY <1>0, <1>1, <1>5, <1>6, <1>8, <1>9, CallsIs, TypesNow, SameGoes

LEMMA QueryCloseKeeps ==
  ASSUME IInv, NEW t \in Threads, QueryClose(t)
  PROVE  IInv'
<1>p. PICK q \in listed : ~Busy(q) /\ Goto(t, [To(t, "qclose") EXCEPT !.qy = q])
  BY DEF QueryClose
<1> DEFINE r == [To(t, "qclose") EXCEPT !.qy = q]
<1>1. /\ me[t] = Idle /\ session = "open" /\ me' = [me EXCEPT ![t] = r]
      /\ UNCHANGED <<obj, opens, refs, query, listed, cached, held, session>>
  BY <1>p, CallsIs DEF QueryClose, Goto, cache
<1>2. q \in Queries /\ query[q] # None
  BY TypesNow DEF IInv, Listed
<1>4. /\ r \in Local /\ r.pc = "qclose" /\ r.at = None /\ r.file = None /\ r.ret = "idle"
      /\ r.del = None /\ r.qy = q /\ me[t].pc = "idle" /\ me[t].at = None /\ me[t].ret = "idle"
  BY <1>1, <1>2, CallsIs DEF To, Local, Labels
<1> HIDE DEF r
<1>5. Calling(r)
  BY <1>4 DEF Calling
<1>6. CacheStep(t) /\ QueryStep(t, r)
  BY <1>p, <1>1, <1>4, CacheSame, QuerySame
<1>7. me'[t] = r
  BY <1>1, Live
<1>8. Placed(t)'
  BY <1>1, <1>2, <1>4, <1>7 DEF Placed, Builds
<1>9. Owners' \subseteq Owners
  BY <1>1, <1>4, OwnersStep
<1> QED BY <1>1, <1>4, <1>5, <1>6, <1>8, <1>9, TypesNow, SameGoes

\* A new object beside what v has.
LEMMA NewBeside ==
  ASSUME IInv, NEW t \in Threads, HasRoom, me[t] = Idle, NEW v \in OfUsers, Refs[v] # None,
         NEW p, p = Above(obj, Refs[v]), NEW c \in BOOLEAN,
         obj' \in [Objs -> Object], Only(Linked(p), obj', New),
         obj'[New] = [state |-> "live", child |-> c, link |-> 1, prev |-> p]
  PROVE  /\ Graph(Put(Refs, <<"at", t>>, New), obj', Owners \cup {<<"at", t>>})
         /\ OpenIn(Put(Refs, <<"at", t>>, New), obj') = OpenIn(Refs, obj)
         /\ Steady /\ New \in Objs /\ obj'[New].child = c
<1> DEFINE was == Linked(p)
           a == <<"at", t>>
           g == Put(Refs, a, p)
<1>1. /\ Graph(Refs, obj, Owners) /\ a \in Referrers /\ a \notin OfUsers /\ v \in Referrers
      /\ Refs[a] = None /\ obj \in [Objs -> Object] /\ Refs \in [Referrers -> Objs \cup {None}]
  BY TypesNow, NowRefs, CallsIs, Kinds, ReferrersFinite
<1>2. p \in Objs \cup {None} /\ Above(obj, p) = None
  <2>1. Refs[v] \in Objs
    BY <1>1
  <2>2. p \in Objs \cup {None}
    BY <1>1, <2>1, AboveIs
  <2>3. p # None => obj[p].prev = None
    BY <1>1 DEF Graph, Chained
  <2> QED BY <1>1, <2>2, <2>3, AboveIs
<1>3. /\ was \in [Objs -> Object] /\ Shape(obj, was) /\ Gains(obj, was, p, 1)
  BY <1>1, <1>2, LinkedIs
<1>4. Graph(g, was, Owners) /\ OpenIn(g, was) = OpenIn(Refs, obj)
  BY ONLY <1>1, <1>2, <1>3, p = Above(obj, Refs[v]), LinkKeeps
<1>5. New \in Objs /\ obj[New].state = "free" /\ was[New].state = "free"
  BY <1>3, NewIs DEF Shape
<1> HIDE DEF was
<1>8. /\ obj' \in [Objs -> Object] /\ Only(was, obj', New)
      /\ obj'[New] = [state |-> "live", child |-> c, link |-> 1, prev |-> p]
  BY DEF was
<1>9. g \in [Referrers -> Objs \cup {None}] /\ g[a] = p
  <2>1. p \in Objs \cup {None} /\ a \in Referrers /\ Refs \in [Referrers -> Objs \cup {None}]
    BY <1>1, <1>2
  <2> HIDE DEF a
  <2> QED BY ONLY <2>1, PutIs
<1>10. Above(was, g[a]) = None
  BY <1>1, <1>2, <1>3, <1>9, ShapeAbove
<1>11. /\ obj'[New].state = "live" /\ obj'[New].link = 1 /\ obj'[New].prev = g[a]
       /\ was[New].state # "live" /\ a \in Referrers \ OfUsers
  BY <1>1, <1>5, <1>8, <1>9
<1>12. /\ Graph(Put(g, a, New), obj', Owners \cup {a})
       /\ OpenIn(Put(g, a, New), obj') = OpenIn(g, was)
  BY ONLY <1>4, <1>5, <1>8, <1>10, <1>11, AllocKeeps
<1>13. Put(g, a, New) = Put(Refs, a, New)
  BY <1>1 DEF Put
<1>14. Steady
  BY <1>1, <1>3, <1>5, <1>8 DEF Steady, Shape, Only
<1> QED BY <1>4, <1>5, <1>8, <1>12, <1>13, <1>14

LEMMA QueryFetchKeeps ==
  ASSUME IInv, NEW t \in Threads, QueryFetch(t)
  PROVE  IInv'
<1>p. PICK q \in listed :
        /\ ~Busy(q) /\ obj' = Alloc(Linked(Prev(query[q])), Prev(query[q]))
        /\ Goto(t, [To(t, "fetch") EXCEPT !.qy = q, !.at = New])
  BY DEF QueryFetch
<1> DEFINE r == [To(t, "fetch") EXCEPT !.qy = q, !.at = New]
           p == Above(obj, query[q])
           v == <<"query", q>>
<1>1. /\ me[t] = Idle /\ session = "open" /\ HasRoom /\ me' = [me EXCEPT ![t] = r]
      /\ UNCHANGED <<opens, refs, query, listed, cached, held, session>>
      /\ obj' = Alloc(Linked(p), p)
  BY <1>p, CallsIs, PrevIs DEF QueryFetch, Goto, cache
<1>2. q \in Queries /\ query[q] # None /\ v \in OfUsers /\ Refs[v] = query[q]
  BY TypesNow, Kinds, RefIs DEF IInv, Listed
<1>3. /\ obj' \in [Objs -> Object] /\ Only(Linked(p), obj', New)
      /\ obj'[New] = [state |-> "live", child |-> FALSE, link |-> 1, prev |-> p]
  <2>1. p \in Objs \cup {None} /\ obj \in [Objs -> Object]
    BY <1>2, TypesNow, NowRefs, AboveIs
  <2>2. Linked(p) \in [Objs -> Object] /\ New \in Objs
    BY <1>1, <2>1, LinkedIs, NewIs
  <2>3. /\ Alloc(Linked(p), p) \in [Objs -> Object]
        /\ Only(Linked(p), Alloc(Linked(p), p), New)
        /\ Alloc(Linked(p), p)[New] = [state |-> "live", child |-> FALSE, link |-> 1, prev |-> p]
    BY ONLY <2>1, <2>2, AllocIs
  <2> QED BY <1>1, <2>3
<1>4. /\ Graph(Put(Refs, <<"at", t>>, New), obj', Owners \cup {<<"at", t>>})
      /\ OpenIn(Put(Refs, <<"at", t>>, New), obj') = OpenIn(Refs, obj)
      /\ Steady /\ New \in Objs /\ obj'[New].child = FALSE
  BY <1>1, <1>2, <1>3, NewBeside
<1>5. /\ r \in Local /\ r.pc = "fetch" /\ r.at = New /\ r.file = None /\ r.ret = "idle"
      /\ r.del = None /\ r.qy = q /\ me[t].pc = "idle"
  BY <1>1, <1>2, <1>4, CallsIs DEF To, Local, Labels
<1> HIDE DEF r
<1>6. Calling(r)
  BY <1>5 DEF Calling
<1>7. CacheStep(t) /\ QueryStep(t, r)
  BY <1>p, <1>1, <1>5, CacheSame, QuerySame
<1>8. Placed(t)'
  <2>1. me'[t] = r
    BY <1>1, Live
  <2>2. r.qy \in listed' /\ r.qy \in Queries /\ query'[r.qy] # None
    BY <1>1, <1>2, <1>5
  <2>3. r.at = New /\ obj'[r.at].child = FALSE
    BY <1>4, <1>5
  <2> QED BY <1>5, <2>1, <2>2, <2>3 DEF Placed, Builds
<1>9. Owners' \subseteq Owners \cup {<<"at", t>>}
  BY <1>1, OwnersStep
<1> QED BY <1>1, <1>4, <1>5, <1>6, <1>7, <1>8, <1>9, TypesNow, AtGoes

\* A caller has the object from its first link on.
LEMMA CallersHave ==
  ASSUME IInv, NEW o \in Objs, refs[o] > 0
  PROVE  /\ 1 \in 1..MaxRefs /\ <<"caller", <<o, 1>>>> \in OfUsers
         /\ Refs[<<"caller", <<o, 1>>>>] = o
         /\ refs[o] \in 1..MaxRefs /\ <<"caller", <<o, refs[o]>>>> \in OfUsers
         /\ Refs[<<"caller", <<o, refs[o]>>>>] = o
<1>1. refs[o] \in 0..MaxRefs /\ MaxRefs \in Nat /\ MaxRefs # 0
  BY TypesNow, OsmlAssumption
<1>2. 1 \in 1..MaxRefs /\ refs[o] \in 1..MaxRefs /\ 1 <= refs[o] /\ refs[o] <= refs[o]
  BY <1>1
<1> QED BY <1>2, Kinds, RefIs

LEMMA OpenChildKeeps ==
  ASSUME IInv, NEW t \in Threads, OpenChild(t)
  PROVE  IInv'
<1>p. PICK o \in Objs :
        /\ refs[o] > 0
        /\ obj' = [Alloc(Linked(Prev(o)), Prev(o)) EXCEPT ![New].child = TRUE]
        /\ Goto(t, [To(t, "child") EXCEPT !.at = New])
  BY DEF OpenChild
<1> DEFINE r == [To(t, "child") EXCEPT !.at = New]
           p == Above(obj, o)
           v == <<"caller", <<o, 1>>>>
<1>1. /\ me[t] = Idle /\ session = "open" /\ HasRoom /\ me' = [me EXCEPT ![t] = r]
      /\ UNCHANGED <<opens, refs, query, listed, cached, held, session>>
      /\ obj' = [Alloc(Linked(p), p) EXCEPT ![New].child = TRUE]
  BY <1>p, CallsIs, PrevIs DEF OpenChild, Goto, cache
<1>2. v \in OfUsers /\ Refs[v] = o /\ o # None
  BY <1>p, CallersHave, NoneIsNone
<1>3. /\ obj' \in [Objs -> Object] /\ Only(Linked(p), obj', New)
      /\ obj'[New] = [state |-> "live", child |-> TRUE, link |-> 1, prev |-> p]
  <2> DEFINE b == Alloc(Linked(p), p)
  <2>1. p \in Objs \cup {None} /\ obj \in [Objs -> Object]
    BY TypesNow, NowRefs, AboveIs
  <2>2. Linked(p) \in [Objs -> Object] /\ New \in Objs
    BY <1>1, <2>1, LinkedIs, NewIs
  <2>3. /\ b \in [Objs -> Object] /\ Only(Linked(p), b, New)
        /\ b[New] = [state |-> "live", child |-> FALSE, link |-> 1, prev |-> p]
    BY ONLY <2>1, <2>2, AllocIs
  <2> DEFINE c == TRUE
  <2>4. obj' = [b EXCEPT ![New].child = c] /\ c \in BOOLEAN
    BY <1>1
  <2> HIDE DEF b, c
  <2>5. obj'[New] = [state |-> "live", child |-> c, link |-> 1, prev |-> p]
    BY <2>2, <2>3, <2>4
  <2>6. \A x \in Objs : x # New => obj'[x] = b[x]
    BY <2>3, <2>4
  <2>7. obj'[New] \in Object
    BY <2>1, <2>4, <2>5 DEF Object
  <2>8. DOMAIN obj' = Objs /\ obj' = [x \in Objs |-> obj'[x]]
    BY <2>3, <2>4
  <2>9. \A x \in Objs : obj'[x] \in Object
    BY <2>3, <2>6, <2>7
  <2>10. obj' \in [Objs -> Object]
    BY <2>8, <2>9
  <2>11. Only(Linked(p), obj', New)
    BY <2>3, <2>6 DEF Only
  <2> QED BY <2>5, <2>10, <2>11 DEF c
<1>4. /\ Graph(Put(Refs, <<"at", t>>, New), obj', Owners \cup {<<"at", t>>})
      /\ OpenIn(Put(Refs, <<"at", t>>, New), obj') = OpenIn(Refs, obj)
      /\ Steady /\ New \in Objs /\ obj'[New].child = TRUE
  BY <1>1, <1>2, <1>3, NewBeside
<1>5. /\ r \in Local /\ r.pc = "child" /\ r.at = New /\ r.file = None /\ r.ret = "idle"
      /\ r.del = None /\ r.qy = None /\ me[t].pc = "idle"
  BY <1>1, <1>4, CallsIs DEF To, Local, Labels
<1> HIDE DEF r
<1>6. Calling(r)
  BY <1>5 DEF Calling
<1>7. CacheStep(t) /\ QueryStep(t, r)
  BY <1>p, <1>1, <1>5, CacheSame, QuerySame
<1>8. Placed(t)'
  <2>1. me'[t] = r
    BY <1>1, Live
  <2> QED BY <1>1, <1>4, <1>5, <2>1 DEF Placed, Builds
<1>9. Owners' \subseteq Owners \cup {<<"at", t>>}
  BY <1>1, OwnersStep
<1> QED BY <1>1, <1>4, <1>5, <1>6, <1>7, <1>8, <1>9, TypesNow, AtGoes

\* g with u in the place of s.
LEMMA PutTwice ==
  ASSUME NEW g \in [Referrers -> Objs \cup {None}], NEW s \in Referrers, NEW u \in Referrers,
         NEW o \in Objs \cup {None}
  PROVE  LET h == Put(Put(g, s, None), u, o) IN
         /\ h \in [Referrers -> Objs \cup {None}] /\ h[u] = o /\ (s # u => h[s] = None)
         /\ \A v \in Referrers : v # s /\ v # u => h[v] = g[v]
<1> DEFINE g1 == Put(g, s, None)
           h == Put(g1, u, o)
<1>1. /\ g1 \in [Referrers -> Objs \cup {None}] /\ g1[s] = None
      /\ \A v \in Referrers : v # s => g1[v] = g[v]
  BY PutIs
<1> HIDE DEF g1
<1>2. /\ h \in [Referrers -> Objs \cup {None}] /\ h[u] = o
      /\ \A v \in Referrers : v # u => h[v] = g1[v]
  BY <1>1, PutIs
<1> HIDE DEF h
<1>3. /\ h \in [Referrers -> Objs \cup {None}] /\ h[u] = o /\ (s # u => h[s] = None)
      /\ \A v \in Referrers : v # s /\ v # u => h[v] = g[v]
  BY <1>1, <1>2
<1> QED BY <1>3 DEF g1, h

\* What a call has built nobody has.
LEMMA Unreturned ==
  ASSUME IInv, NEW t \in Threads, Builds(t)
  PROVE  /\ me[t].at \in Objs /\ refs[me[t].at] = 0 /\ 1 \in 1..MaxRefs
         /\ <<"caller", <<me[t].at, 1>>>> \in OfUsers
         /\ Refs[<<"caller", <<me[t].at, 1>>>>] = None
         /\ Refs[<<"at", t>>] = me[t].at /\ <<"at", t>> \in Owners
<1> DEFINE x == me[t].at
<1>1. x \in Objs /\ me[t].pc # "hit"
  BY Live DEF Builds, Placed
<1>2. Refs[<<"at", t>>] = x
  BY <1>1, NowRefs
<1>3. <<"at", t>> \in Owners
  BY DEF Owners
<1>4. refs[x] \in 0..MaxRefs /\ MaxRefs \in Nat /\ MaxRefs # 0
  BY <1>1, TypesNow, OsmlAssumption
<1>5. refs[x] = 0
  <2> SUFFICES ASSUME refs[x] > 0 PROVE FALSE
    BY <1>4
  <2>1. <<"caller", <<x, 1>>>> \in OfUsers /\ Refs[<<"caller", <<x, 1>>>>] = x
    BY <1>1, CallersHave
  <2>2. <<"caller", <<x, 1>>>> = <<"at", t>>
    BY <1>2, <1>3, <2>1, TypesNow, ReferrersFinite DEF Graph, Owned
  <2> QED BY <2>1, <2>2, Kinds
<1>6. 1 \in 1..MaxRefs
  BY <1>4
<1>7. Refs[<<"caller", <<x, 1>>>>] = None /\ <<"caller", <<x, 1>>>> \in OfUsers
  BY <1>1, <1>5, <1>6, RefIs, Kinds
<1> QED BY <1>1, <1>2, <1>3, <1>5, <1>6, <1>7

\* The referrers when the caller has what t has built.
Handed(t) ==
  Put(Put(Refs, <<"at", t>>, None), <<"caller", <<me[t].at, 1>>>>, me[t].at)

LEMMA HandOver ==
  ASSUME IInv, NEW t \in Threads, Builds(t)
  PROVE  LET a == <<"at", t>>
             c == <<"caller", <<me[t].at, 1>>>>
             h == Handed(t)
         IN /\ h \in [Referrers -> Objs \cup {None}] /\ h[c] = me[t].at /\ h[a] = None
            /\ \A v \in Referrers : v # a /\ v # c => h[v] = Refs[v]
            /\ Graph(h, obj, Owners \ {a})
            /\ OpenIn(h, obj) = IF ~obj[me[t].at].child THEN opens \cup {me[t].at} ELSE opens
<1> DEFINE x == me[t].at
           a == <<"at", t>>
           c == <<"caller", <<x, 1>>>>
           h == Handed(t)
<1>1. /\ x \in Objs /\ refs[x] = 0 /\ 1 \in 1..MaxRefs /\ c \in OfUsers /\ Refs[c] = None
      /\ Refs[a] = x /\ a \in Owners
  BY Unreturned
<1>2. /\ Graph(Refs, obj, Owners) /\ a \in Referrers \ OfUsers /\ c \in Referrers
      /\ Refs \in [Referrers -> Objs \cup {None}] /\ opens = OpenIn(Refs, obj) /\ Refs[a] # None
  BY <1>1, TypesNow, NowRefs, Kinds, ReferrersFinite, NoneIsNone
<1>3. /\ h \in [Referrers -> Objs \cup {None}] /\ h[c] = x /\ h[a] = None
      /\ \A v \in Referrers : v # a /\ v # c => h[v] = Refs[v]
  <2>1. a # c /\ x \in Objs \cup {None} /\ a \in Referrers
    BY <1>1, <1>2
  <2>2. h = Put(Put(Refs, a, None), c, x)
    BY DEF Handed
  <2> HIDE DEF a, c, h
  <2>3. LET k == Put(Put(Refs, a, None), c, x) IN
        /\ k \in [Referrers -> Objs \cup {None}] /\ k[c] = x /\ (a # c => k[a] = None)
        /\ \A v \in Referrers : v # a /\ v # c => k[v] = Refs[v]
    BY ONLY <1>2, <2>1, PutTwice
  <2> QED BY ONLY <2>1, <2>2, <2>3
<1>4. /\ Graph(h, obj, Owners \ {a})
      /\ OpenIn(h, obj) = IF ~obj[x].child THEN opens \cup {x} ELSE opens
  <2>1. h = Put(Put(Refs, a, None), c, Refs[a])
    BY <1>1 DEF Handed
  <2> HIDE DEF h, a, c
  <2>2. LET k == Put(Put(Refs, a, None), c, Refs[a]) IN
        /\ Graph(k, obj, Owners \ {a})
        /\ OpenIn(k, obj) = IF c \in OfUsers /\ ~obj[Refs[a]].child
                           THEN OpenIn(Refs, obj) \cup {Refs[a]} ELSE OpenIn(Refs, obj)
    BY ONLY <1>1, <1>2, MoveKeeps
  <2> QED BY ONLY <1>1, <1>2, <2>1, <2>2
<1> QED BY <1>3, <1>4

LEMMA Returns ==
  ASSUME IInv, NEW t \in Threads, me[t].pc \in {"file", "leaf", "cached", "fetch", "child"},
         me' = [me EXCEPT ![t] = Idle], refs' = [refs EXCEPT ![me[t].at] = 1],
         opens' = IF me[t].pc = "child" THEN opens ELSE opens \cup {me[t].at},
         obj' = obj, query' = query, listed' = listed, cached' = cached, session' = session,
         held' \in [Threads -> Objs \cup {None}],
         \A u \in Threads : u # t => held'[u] = held[u]
  PROVE  IInv'
<1> DEFINE x == me[t].at
           a == <<"at", t>>
           c == <<"caller", <<x, 1>>>>
           h == Handed(t)
<1>1. /\ x \in Objs /\ refs[x] = 0 /\ 1 \in 1..MaxRefs /\ c \in OfUsers /\ Refs[c] = None
      /\ Refs[a] = x /\ a \in Owners
  BY Unreturned DEF Builds
<1>3. /\ h \in [Referrers -> Objs \cup {None}] /\ h[c] = x /\ h[a] = None
      /\ \A v \in Referrers : v # a /\ v # c => h[v] = Refs[v]
      /\ Graph(h, obj, Owners \ {a})
      /\ OpenIn(h, obj) = IF ~obj[x].child THEN opens \cup {x} ELSE opens
  BY HandOver DEF Builds
<1>4. /\ Graph(h, obj, Owners \ {a})
      /\ OpenIn(h, obj) = IF ~obj[x].child THEN opens \cup {x} ELSE opens
  BY <1>3
<1>5. obj[x].child = (me[t].pc = "child") /\ me[t].ret = "idle" /\ session = "open" /\ me[t].pc # "close"
  BY Live, CallsIs DEF Placed, Builds
<1> HIDE DEF h
<1>6. opens' = OpenIn(h, obj')
  BY <1>4, <1>5
<1>7. OwnRefs(t, Idle, h)
  <2>1. h[<<"dc", t>>] = None /\ h[<<"del", t>>] = None
    BY <1>1, <1>3, NowRefs, Kinds, Differ
  <2> QED BY <1>3, <2>1, CallsIs DEF OwnRefs, AtRef, DcRef, DelRef, Above
<1>8. But(t, {c}, h)
  BY <1>3 DEF But, Mine
<1>9. Counting(h, x, 1)
  BY <1>1, <1>3 DEF Counting
<1>10. Referring(t, Idle, h) /\ Used(h) /\ refs' \in [Objs -> 0..MaxRefs]
  BY <1>1, <1>7, <1>8, <1>9, TypesNow, SlotsCaller
<1>11. CacheStep(t) /\ QueryStep(t, Idle) /\ Calling(Idle) /\ Steady
  BY <1>5, CacheSame, QuerySame, CallsIs DEF Calling, Steady
<1>12. Types' /\ me'[t] = Idle
  BY <1>10, CallsIs, TypesNow, TypesStep
<1>13. Placed(t)'
  BY <1>12, CallsIs DEF Placed, Builds
<1>14. Owners' \subseteq Owners \ {a}
  BY OwnersStep, CallsIs
<1>15. Graph(h, obj', Owners \ {a})
  BY <1>4
<1> HIDE DEF a, c, x
<1>16. IInv /\ me' = [me EXCEPT ![t] = Idle] /\ session' = session
  OBVIOUS
<1> QED BY ONLY <1>5, <1>6, <1>10, <1>11, <1>12, <1>13, <1>14, <1>15, <1>16, CalmGoes

LEMMA OpenDoneKeeps ==
  ASSUME IInv, NEW t \in Threads, OpenDone(t) PROVE IInv'
<1>1. /\ me[t].pc \in {"file", "leaf", "cached", "fetch", "child"} /\ me[t].pc # "child"
      /\ me' = [me EXCEPT ![t] = Idle]
      /\ opens' = opens \cup {me[t].at} /\ refs' = [refs EXCEPT ![me[t].at] = 1]
      /\ UNCHANGED <<obj, query, listed, cached, held, session>>
  BY DEF OpenDone, Return, Goto, cache
<1>2. held' \in [Threads -> Objs \cup {None}] /\ \A u \in Threads : u # t => held'[u] = held[u]
  BY <1>1, TypesNow
<1>3. opens' = IF me[t].pc = "child" THEN opens ELSE opens \cup {me[t].at}
  BY <1>1
<1> QED BY <1>1, <1>2, <1>3, Returns

LEMMA QueryFetchedKeeps ==
  ASSUME IInv, NEW t \in Threads, QueryFetched(t) PROVE IInv'
BY TypesNow, Returns DEF QueryFetched, Return, Goto, At, cache

LEMMA OpenChildDoneKeeps ==
  ASSUME IInv, NEW t \in Threads, OpenChildDone(t) PROVE IInv'
BY TypesNow, Returns DEF OpenChildDone, Goto, At, cache

LEMMA UnlinkDCKeeps ==
  ASSUME IInv, NEW t \in Threads, UnlinkDC(t) PROVE IInv'
<1>1. held' = [held EXCEPT ![t] = None] /\ cached' = cached
  BY DEF UnlinkDC, Cache!Drop
<1>2. held' \in [Threads -> Objs \cup {None}] /\ \A u \in Threads : u # t => held'[u] = held[u]
  BY <1>1, TypesNow
<1> QED BY <1>1, <1>2, Returns DEF UnlinkDC, Return, Goto, At

LEMMA AllocDCKeeps ==
  ASSUME IInv, NEW t \in Threads, AllocDC(t)
  PROVE  IInv'
<1> DEFINE x == me[t].at
           p == Above(obj, x)
           d == <<"dc", t>>
           h == Put(Refs, d, p)
           r == To(t, "add")
<1>1. /\ me[t].pc = "leaf" /\ me' = [me EXCEPT ![t] = r] /\ obj' = Linked(p)
      /\ UNCHANGED <<opens, refs, query, listed, cached, held, session>>
  BY PrevIs DEF AllocDC, Goto, At, cache
<1>0. /\ me[t] \in Local /\ x \in Objs /\ me[t].del = None /\ me[t].ret = "idle"
      /\ obj[x].state = "live" /\ obj[x].prev # None /\ obj[x].child = FALSE
      /\ me[t].file \in Files /\ me[t].qy = None /\ session = "open"
  BY <1>1, Live, CallsIs DEF Placed, Builds
<1>2. /\ Graph(Refs, obj, Owners) /\ d \in Referrers /\ d \notin OfUsers /\ Refs[d] = None
      /\ <<"at", t>> \in Referrers /\ Refs[<<"at", t>>] = x
      /\ obj \in [Objs -> Object] /\ Refs \in [Referrers -> Objs \cup {None}]
      /\ p \in Objs \cup {None} /\ opens = OpenIn(Refs, obj) /\ Refs[<<"del", t>>] = None
  BY <1>0, <1>1, TypesNow, NowRefs, Kinds, AboveIs
<1>3. /\ Steady /\ obj' \in [Objs -> Object] /\ Shape(obj, obj') /\ Gains(obj, obj', p, 1)
  BY <1>1, <1>2, LinkedSteady
<1>4. Graph(h, obj', Owners) /\ OpenIn(h, obj') = OpenIn(Refs, obj)
  <2>1. p = Above(obj, Refs[<<"at", t>>])
    BY <1>2
  <2> QED BY ONLY <1>2, <1>3, <2>1, LinkKeeps
<1>5. /\ r \in Local /\ r.pc = "add" /\ r.at = x /\ r.file \in Files /\ r.ret = "idle"
      /\ r.del = None /\ r.qy = None
  BY <1>0 DEF To, Local, Labels
<1>6. /\ h \in [Referrers -> Objs \cup {None}] /\ h[d] = p
      /\ \A v \in Referrers : v # d => h[v] = Refs[v]
  <2> HIDE DEF d
  <2> QED BY <1>2, PutIs
<1> HIDE DEF r, h
<1>7. Calling(r)
  BY <1>5 DEF Calling
<1>8. CacheStep(t) /\ QueryStep(t, r)
  BY <1>1, <1>5, CacheSame, QuerySame
<1>9. OwnRefs(t, r, h)
  <2>1. Above(obj', x) = p
    BY <1>0, <1>2, <1>3, ShapeAbove
  <2>2. h[<<"at", t>>] = x /\ h[<<"del", t>>] = None
    BY <1>2, <1>6, Kinds
  <2> QED BY <1>5, <1>6, <2>1, <2>2 DEF OwnRefs, AtRef, DcRef, DelRef, Above
<1>10. But(t, {}, h)
  BY <1>6 DEF But, Mine
<1>11. Referring(t, r, h) /\ Used(h)
  BY <1>1, <1>9, <1>10, SlotsMine
<1>12. Types' /\ me'[t] = r
  BY <1>1, <1>5, TypesNow, TypesStep
<1>13. Placed(t)'
  <2>1. obj'[x].prev # None /\ obj'[x].child = FALSE
    BY <1>0, <1>3 DEF Shape
  <2> QED BY <1>5, <1>12, <2>1 DEF Placed, Builds
<1>14. Owners' \subseteq Owners
  BY <1>1, OwnersStep DEF Builds
<1> QED BY <1>0, <1>1, <1>2, <1>3, <1>4, <1>7, <1>8, <1>11, <1>12, <1>13, <1>14, CalmGoes

LEMMA AddDCKeeps ==
  ASSUME IInv, NEW t \in Threads, AddDC(t)
  PROVE  IInv'
<1> DEFINE x == me[t].at
           f == me[t].file
           p == Above(obj, x)
           d == <<"dc", t>>
           e == <<"entry", f>>
           h == Put(Put(Refs, d, None), e, p)
           r == To(t, "cached")
<1>1. /\ me[t].pc = "add" /\ me' = [me EXCEPT ![t] = r]
      /\ cached[f] = None /\ cached' = [cached EXCEPT ![f] = p] /\ held' = [held EXCEPT ![t] = p]
      /\ UNCHANGED <<obj, opens, refs, query, listed, session>>
  BY PrevIs DEF AddDC, Goto, At, Cache!Add
<1>0. /\ me[t] \in Local /\ x \in Objs /\ me[t].del = None /\ me[t].ret = "idle"
      /\ obj[x].state = "live" /\ obj[x].prev # None /\ obj[x].child = FALSE
      /\ f \in Files /\ me[t].qy = None /\ session = "open"
  BY <1>1, Live, CallsIs DEF Placed, Builds
<1>2. /\ Graph(Refs, obj, Owners) /\ d \in Referrers \ OfUsers /\ Refs[d] = p
      /\ <<"at", t>> \in Referrers /\ Refs[<<"at", t>>] = x /\ e \in Referrers /\ e \notin OfUsers
      /\ obj \in [Objs -> Object] /\ Refs \in [Referrers -> Objs \cup {None}]
      /\ p \in Objs /\ Refs[e] = None /\ opens = OpenIn(Refs, obj) /\ Refs[<<"del", t>>] = None
      /\ d \notin Owners
  BY <1>0, <1>1, TypesNow, NowRefs, Kinds, AboveIs, RefIs, OwnersAre
<1>3. obj[p].prev = None
  <2>1. Refs[<<"at", t>>] # None /\ Above(obj, Refs[<<"at", t>>]) = p /\ p # None
    BY <1>0, <1>2, NoneIsNone
  <2> HIDE DEF p
  <2> QED BY <1>2, <2>1 DEF Graph, Chained
<1>4. Graph(h, obj, Owners) /\ OpenIn(h, obj) = OpenIn(Refs, obj)
  <2>1. h = Put(Put(Refs, d, None), e, Refs[d]) /\ Refs[d] # None
    BY <1>2, NoneIsNone
  <2>2. Graph(h, obj, Owners \ {d}) /\ OpenIn(h, obj) = OpenIn(Refs, obj)
    <3> HIDE DEF h, d, e
    <3>0. /\ Graph(Refs, obj, Owners) /\ d \in Referrers \ OfUsers /\ e \in Referrers
          /\ Refs[d] # None /\ Refs[e] = None /\ e \notin OfUsers
      BY <1>2, <2>1
    <3>1. LET k == Put(Put(Refs, d, None), e, Refs[d]) IN
          /\ Graph(k, obj, Owners \ {d})
          /\ OpenIn(k, obj) = IF e \in OfUsers /\ ~obj[Refs[d]].child
                             THEN OpenIn(Refs, obj) \cup {Refs[d]} ELSE OpenIn(Refs, obj)
      BY ONLY <3>0, MoveKeeps
    <3> QED BY ONLY <1>2, <2>1, <3>1
  <2>3. Owners \ {d} = Owners
    BY <1>2
  <2> QED BY <2>2, <2>3
<1>5. /\ r \in Local /\ r.pc = "cached" /\ r.at = x /\ r.file \in Files /\ r.ret = "idle"
      /\ r.del = None /\ r.qy = None
  BY <1>0 DEF To, Local, Labels
<1>6. /\ h \in [Referrers -> Objs \cup {None}] /\ h[e] = p /\ h[d] = None
      /\ \A v \in Referrers : v # d /\ v # e => h[v] = Refs[v]
  <2>1. d # e /\ p \in Objs \cup {None} /\ d \in Referrers
    BY <1>2
  <2> HIDE DEF d, e
  <2> QED BY <1>2, <2>1, PutTwice
<1> HIDE DEF r, h
<1>7. Calling(r)
  BY <1>5 DEF Calling
<1>8. /\ held' \in [Threads -> Objs \cup {None}] /\ cached' \in [Files -> Objs \cup {None}]
      /\ CacheStep(t) /\ QueryStep(t, r)
  <2>1. /\ held' \in [Threads -> Objs \cup {None}] /\ \A u \in Threads : u # t => held'[u] = held[u]
        /\ cached' \in [Files -> Objs \cup {None}]
    BY <1>1, <1>2, TypesNow
  <2>2. \A g \in Files : cached'[g] = cached[g] \/ (cached[g] = None /\ obj'[cached'[g]].prev = None)
    BY <1>1, <1>3, TypesNow
  <2>3. CacheStep(t)
    BY <2>1, <2>2 DEF CacheStep
  <2> QED BY <1>1, <1>5, <2>1, <2>3, QuerySame
<1>9. OwnRefs(t, r, h)
  <2>2. h[<<"at", t>>] = x /\ h[<<"del", t>>] = None
    BY <1>2, <1>6, Kinds
  <2> QED BY <1>5, <1>6, <2>2 DEF OwnRefs, AtRef, DcRef, DelRef, Above
<1>10. But(t, {e}, h)
  BY <1>6 DEF But, Mine
<1>11. Referring(t, r, h) /\ Used(h)
  BY <1>0, <1>1, <1>6, <1>9, <1>10, TypesNow, SlotsEntry
<1>12. Types' /\ me'[t] = r
  BY <1>1, <1>5, <1>8, TypesNow, TypesStep
<1>13. Placed(t)'
  BY <1>0, <1>1, <1>5, <1>12 DEF Placed, Builds
<1>14. Owners' \subseteq Owners
  BY <1>1, OwnersStep DEF Builds
<1>15. Steady /\ Graph(h, obj', Owners) /\ opens' = OpenIn(h, obj')
  BY <1>1, <1>2, <1>4 DEF Steady
<1> QED BY <1>0, <1>1, <1>7, <1>8, <1>11, <1>12, <1>13, <1>14, <1>15, CalmGoes

LEMMA LinkToKeeps ==
  ASSUME IInv, NEW t \in Threads, LinkTo(t)
  PROVE  IInv'
<1>p. PICK o \in Objs : /\ refs[o] \in 1..(MaxRefs - 1)
                        /\ refs' = [refs EXCEPT ![o] = @ + 1]
                        /\ obj' = Linked(o)
  BY DEF LinkTo
<1> DEFINE i == refs[o] + 1
           c == <<"caller", <<o, i>>>>
           v == <<"caller", <<o, 1>>>>
           h == Put(Refs, c, o)
<1>1. /\ me[t] = Idle /\ session = "open" /\ me' = [me EXCEPT ![t] = Idle]
      /\ UNCHANGED <<opens, query, listed, cached, held, session>>
  BY CallsIs, Live DEF LinkTo, cache
<1>2. /\ refs[o] > 0 /\ i \in 1..MaxRefs /\ refs[o] = i - 1 /\ refs' = [refs EXCEPT ![o] = i]
      /\ ~(i <= refs[o])
  BY <1>p, OsmlAssumption
<1>3. /\ Graph(Refs, obj, Owners) /\ c \in Referrers /\ c \in OfUsers /\ Refs[c] = None
      /\ v \in Referrers /\ v \in OfUsers /\ v \notin Owners /\ Refs[v] = o
      /\ obj \in [Objs -> Object] /\ Refs \in [Referrers -> Objs \cup {None}]
      /\ opens = OpenIn(Refs, obj) /\ o \in Objs \cup {None}
  BY ZenonT(40), <1>2, TypesNow, NowRefs, Kinds, RefIs, CallersHave, OwnersAre, ReferrersFinite
<1>4. /\ Steady /\ obj' \in [Objs -> Object] /\ Shape(obj, obj') /\ Gains(obj, obj', o, 1)
  BY <1>p, <1>3, LinkedSteady
<1>5. Graph(h, obj', Owners) /\ OpenIn(h, obj') = OpenIn(Refs, obj)
  BY ONLY <1>3, <1>4, LinkKeeps
<1>6. /\ h \in [Referrers -> Objs \cup {None}] /\ h[c] = o
      /\ \A w \in Referrers : w # c => h[w] = Refs[w]
  <2> HIDE DEF c
  <2> QED BY <1>3, PutIs
<1> HIDE DEF h
<1>7. OwnRefs(t, Idle, h)
  <2>1. h[<<"at", t>>] = None /\ h[<<"dc", t>>] = None /\ h[<<"del", t>>] = None
    BY <1>1, <1>3, <1>6, NowRefs, CallsIs, Kinds
  <2> QED BY <2>1, CallsIs DEF OwnRefs, AtRef, DcRef, DelRef, Above
<1>8. But(t, {c}, h) /\ Counting(h, o, i)
  BY <1>2, <1>6 DEF But, Counting
<1>9. Referring(t, Idle, h) /\ Used(h) /\ refs' \in [Objs -> 0..MaxRefs]
  <2> HIDE DEF i
  <2> QED BY <1>1, <1>2, <1>7, <1>8, TypesNow, SlotsCaller
<1>10. CacheStep(t) /\ QueryStep(t, Idle) /\ Calling(Idle)
  BY <1>1, CacheSame, QuerySame, CallsIs DEF Calling
<1>11. Types' /\ me'[t] = Idle
  BY <1>1, <1>9, CallsIs, TypesNow, TypesStep
<1>12. Placed(t)'
  BY <1>11, CallsIs DEF Placed, Builds
<1>13. Owners' \subseteq Owners
  BY <1>1, CallsIs, OwnersStep
<1>14. opens' = OpenIn(h, obj') /\ me[t].pc # "close"
  BY <1>1, <1>3, <1>5, CallsIs
<1> QED BY <1>1, <1>4, <1>5, <1>9, <1>10, <1>11, <1>12, <1>13, <1>14, CalmGoes

LEMMA OpenQueryKeeps ==
  ASSUME IInv, NEW t \in Threads, OpenQuery(t)
  PROVE  IInv'
<1>p. PICK o \in Objs, q \in Queries :
        /\ refs[o] > 0 /\ query[q] = None
        /\ query' = [query EXCEPT ![q] = o]
        /\ obj' = Linked(o)
        /\ Goto(t, [To(t, "qopen") EXCEPT !.qy = q])
  BY DEF OpenQuery
<1> DEFINE c == <<"query", q>>
           v == <<"caller", <<o, 1>>>>
           h == Put(Refs, c, o)
           r == [To(t, "qopen") EXCEPT !.qy = q]
<1>1. /\ me[t] = Idle /\ session = "open" /\ me' = [me EXCEPT ![t] = r]
      /\ UNCHANGED <<opens, refs, listed, cached, held, session>>
  BY <1>p, CallsIs DEF OpenQuery, cache, Goto
<1>3. /\ Graph(Refs, obj, Owners) /\ c \in Referrers /\ c \in OfUsers /\ Refs[c] = None
      /\ v \in Referrers /\ v \in OfUsers /\ v \notin Owners /\ Refs[v] = o
      /\ obj \in [Objs -> Object] /\ Refs \in [Referrers -> Objs \cup {None}]
      /\ opens = OpenIn(Refs, obj) /\ o \in Objs \cup {None}
  BY <1>p, TypesNow, NowRefs, Kinds, RefIs, CallersHave, OwnersAre, ReferrersFinite
<1>4. /\ Steady /\ obj' \in [Objs -> Object] /\ Shape(obj, obj') /\ Gains(obj, obj', o, 1)
  BY <1>p, <1>3, LinkedSteady
<1>5. Graph(h, obj', Owners) /\ OpenIn(h, obj') = OpenIn(Refs, obj)
  BY ONLY <1>3, <1>4, LinkKeeps
<1>6. /\ h \in [Referrers -> Objs \cup {None}] /\ h[c] = o
      /\ \A w \in Referrers : w # c => h[w] = Refs[w]
  <2> HIDE DEF c
  <2> QED BY <1>3, PutIs
<1>7. /\ r \in Local /\ r.pc = "qopen" /\ r.at = None /\ r.file = None /\ r.ret = "idle"
      /\ r.del = None /\ r.qy = q /\ me[t].pc = "idle" /\ me[t].qy = None
  BY <1>1, CallsIs DEF To, Local, Labels
<1> HIDE DEF h, r
<1>8. OwnRefs(t, r, h)
  <2>1. h[<<"at", t>>] = None /\ h[<<"dc", t>>] = None /\ h[<<"del", t>>] = None
    BY <1>1, <1>3, <1>6, NowRefs, CallsIs, Kinds
  <2> QED BY <1>7, <2>1 DEF OwnRefs, AtRef, DcRef, DelRef, Above
<1>9. But(t, {c}, h)
  BY <1>6 DEF But
<1>10. Referring(t, r, h) /\ Used(h)
  BY <1>p, <1>1, <1>6, <1>8, <1>9, TypesNow, SlotsQuery
<1>11. q \notin listed /\ \A u \in Threads : me[u].qy # q
  <2>1. q \notin listed
    BY <1>p DEF IInv, Listed
  <2>2. ASSUME NEW u \in Threads, me[u].qy = q PROVE FALSE
    BY <1>p, <2>2, NoneIsNone DEF IInv, Placed
  <2> QED BY <2>1, <2>2
<1>12. /\ CacheStep(t) /\ Calling(r) /\ query' \in [Queries -> Objs \cup {None}] /\ query'[q] = o
       /\ QueryStep(t, r)
  <2>1. query' \in [Queries -> Objs \cup {None}] /\ query'[q] = o /\ \A y \in Queries : y # q => query'[y] = query[y]
    BY <1>p, TypesNow
  <2>2. QueryStep(t, r)
    BY <1>1, <1>7, <1>11, <2>1, NoneIsNone DEF QueryStep
  <2> QED BY <1>1, <1>7, <2>1, <2>2, CacheSame DEF Calling
<1>13. Types' /\ me'[t] = r
  BY <1>1, <1>7, <1>12, TypesNow, TypesStep
<1>14. Placed(t)'
  BY <1>1, <1>7, <1>11, <1>12, <1>13, NoneIsNone DEF Placed, Builds
<1>15. Owners' \subseteq Owners
  BY <1>1, <1>7, OwnersStep
<1>16. opens' = OpenIn(h, obj') /\ me[t].pc # "close"
  BY <1>1, <1>3, <1>5, <1>7
<1> QED BY <1>1, <1>4, <1>5, <1>10, <1>12, <1>13, <1>14, <1>15, <1>16, CalmGoes

-----------------------------------------------------------------------------
(***************************************************************************)
(* Steps that release a chain.                                             *)
(***************************************************************************)
Freed(r, d) == IF d = None THEN r ELSE [r EXCEPT !.pc = "close", !.del = d, !.ret = r.pc]

LEMMA FreedIs ==
  ASSUME NEW r \in Local, NEW d \in Objs \cup {None}, r.del = None, r.ret = "idle"
  PROVE  /\ Freed(r, d) \in Local /\ Freed(r, d).file = r.file /\ Freed(r, d).at = r.at
         /\ Freed(r, d).qy = r.qy /\ Freed(r, d).hit = r.hit /\ Freed(r, d).del = d
         /\ d = None => Freed(r, d) = r
         /\ d # None => Freed(r, d).pc = "close" /\ Freed(r, d).ret = r.pc
<1>1. CASE d = None
  BY <1>1 DEF Freed
<1>2. CASE d # None
  <2> DEFINE rr == [r EXCEPT !.pc = "close", !.del = d, !.ret = r.pc]
  <2>1. /\ rr \in Local /\ rr.file = r.file /\ rr.at = r.at
        /\ rr.qy = r.qy /\ rr.hit = r.hit /\ rr.del = d
        /\ rr.pc = "close" /\ rr.ret = r.pc
    BY ZenonT(40), <1>2 DEF Local, Labels
  <2>2. Freed(r, d) = rr
    BY <1>2 DEF Freed
  <2> HIDE DEF rr
  <2> QED BY <1>2, <2>1, <2>2
<1> QED BY <1>1, <1>2

LEMMA LocalEqual ==
  ASSUME NEW a \in Local, NEW b \in Local, a.pc = b.pc, a.file = b.file, a.at = b.at,
         a.hit = b.hit, a.del = b.del, a.ret = b.ret, a.qy = b.qy
  PROVE  a = b
BY DEF Local

\* The objects but for the one t was closing, which is free.
Left(t, was) ==
  \A x \in Objs :
    /\ x = me[t].del => was[x].state = "free"
    /\ x # me[t].del => /\ was[x].state = obj[x].state /\ was[x].prev = obj[x].prev
                        /\ was[x].child = obj[x].child

\* Where t goes on after the release.
Resumes(t, r) ==
  /\ r \in Local /\ r.del = None /\ r.ret = "idle" /\ r.pc \in Rets /\ r.qy = None
  /\ r.pc = "idle" => r = Idle
  /\ r.pc # "add" => r.at = None
  /\ r.pc = "add" => /\ r.at = me[t].at /\ r.file = me[t].file
                     /\ me[t].pc = "add" \/ me[t].ret = "add"

\* t releases what s has in g.
Frees(t, r, was, g, own, s) ==
  /\ Resumes(t, r)
  /\ Graph(g, was, own) /\ s \in Referrers /\ g[s] # None
  /\ s = <<"del", t>> \/ g[<<"del", t>>] = None
  /\ Left(t, was)
  /\ Owners \ {<<"at", t>>} \subseteq own \ {s} /\ (r.pc = "add" => Owners \subseteq own \ {s})
  /\ FreeObj(t, was, g[s], r)

\* What then refers to what.
Lost(t, r, was, own, s, g, h, d) ==
  /\ d \in Objs \cup {None} /\ (d # None => was[d].state = "live")
  /\ h \in [Referrers -> Objs \cup {None}] /\ h[<<"del", t>>] = Above(was, d)
  /\ s # <<"del", t>> => h[s] = None
  /\ \A v \in Referrers : v # s /\ v # <<"del", t>> => h[v] = g[v]
  /\ Graph(h, obj', own \ {s})
  /\ OpenIn(h, obj') = IF was[g[s]].link = 1 THEN OpenIn(g, was) \ {g[s]} ELSE OpenIn(g, was)
  /\ Lets(was, obj', d)
  /\ me' = [me EXCEPT ![t] = Freed(r, d)]

LEMMA LetIs ==
  ASSUME NEW t \in Threads, NEW r, NEW was, NEW g, NEW own, NEW s, Frees(t, r, was, g, own, s)
  PROVE  Lost(t, r, was, own, s, g, Let(was, g, s, <<"del", t>>), Dying(was, g[s]))
<1> DEFINE d == Dying(was, g[s])
           u == <<"del", t>>
           h == Let(was, g, s, u)
<1>1. /\ Graph(g, was, own) /\ s \in Referrers /\ g[s] # None /\ u \in Referrers \ OfUsers
      /\ u = s \/ g[u] = None
      /\ obj' = Released(was, g[s]) /\ me' = [me EXCEPT ![t] = Freed(r, d)]
      /\ g \in [Referrers -> Objs \cup {None}] /\ was \in [Objs -> Object]
  BY Kinds DEF Frees, FreeObj, Freed, Goto, Graph, Counted
<1>2. \A x \in Objs : was[x].state = "live" => was[x].prev = obj[x].prev
  BY DEF Frees, Left
<1>3. d = IF was[g[s]].link = 1 THEN g[s] ELSE None
  BY ONLY <1>1, <1>2, DyingIs
<1>4. g[s] \in Objs /\ was[g[s]].state = "live"
  BY <1>1 DEF Graph, Chained
<1>5. d \in Objs \cup {None} /\ (d # None => was[d].state = "live")
  BY <1>3, <1>4
<1>6. Above(was, d) \in Objs \cup {None}
  BY <1>1, <1>5, AboveIs
<1>7. /\ h \in [Referrers -> Objs \cup {None}] /\ h[u] = Above(was, d) /\ (s # u => h[s] = None)
      /\ \A v \in Referrers : v # s /\ v # u => h[v] = g[v]
  <2> HIDE DEF u, d
  <2>1. u \in Referrers /\ s \in Referrers /\ g \in [Referrers -> Objs \cup {None}]
    BY <1>1
  <2>2. h = Put(Put(g, s, None), u, Above(was, d))
    BY DEF Let, d
  <2> HIDE DEF h
  <2>3. LET k == Put(Put(g, s, None), u, Above(was, d)) IN
        /\ k \in [Referrers -> Objs \cup {None}] /\ k[u] = Above(was, d) /\ (s # u => k[s] = None)
        /\ \A v \in Referrers : v # s /\ v # u => k[v] = g[v]
    BY ONLY <1>6, <2>1, PutTwice
  <2> QED BY ONLY <2>2, <2>3
<1>8. LET b == Released(was, g[s]) IN
      /\ Graph(h, b, own \ {s})
      /\ OpenIn(h, b) =
           IF was[g[s]].link = 1 THEN OpenIn(g, was) \ {g[s]} ELSE OpenIn(g, was)
      /\ Lets(was, b, Dying(was, g[s]))
  <2> HIDE DEF u
  <2> QED BY ONLY <1>1, <1>2, Releasing
<1> HIDE DEF d, h, u
<1>9. /\ Graph(h, obj', own \ {s})
      /\ OpenIn(h, obj') = IF was[g[s]].link = 1 THEN OpenIn(g, was) \ {g[s]} ELSE OpenIn(g, was)
      /\ Lets(was, obj', d)
  BY <1>1, <1>8 DEF d
<1>10. Lost(t, r, was, own, s, g, h, d)
  BY <1>1, <1>5, <1>7, <1>9 DEF Lost, u
<1> QED BY <1>10 DEF d, h, u

\* What of the session's end the release leaves as it is.
PhaseFree(t, r) ==
  /\ session' = session /\ (me[t] # Idle \/ session = "open")
  /\ session = "open" => r.pc \notin EndRets
  /\ session = "closing" => /\ r.pc \in EndRets
                            /\ r.pc # "uncache" => Empty'
                            /\ r.pc = "closeobjs" => listed' = {}

\* What t has afterwards.
Has(t, r, was, h) ==
  /\ h[<<"at", t>>] = r.at
  /\ h[<<"dc", t>>] = IF r.pc = "add" THEN Above(was, r.at) ELSE None

LEMMA FreesRefs ==
  ASSUME IInv, NEW t \in Threads, NEW r, NEW was, NEW g, NEW own, NEW s, Frees(t, r, was, g, own, s),
         NEW h, h = Let(was, g, s, <<"del", t>>), Has(t, r, was, h)
  PROVE  OwnRefs(t, Freed(r, Dying(was, g[s])), h)
<1> DEFINE d == Dying(was, g[s])
           rr == Freed(r, d)
<1>0. Lost(t, r, was, own, s, g, Let(was, g, s, <<"del", t>>), d)
  BY LetIs
<1>1. /\ d \in Objs \cup {None} /\ h[<<"del", t>>] = Above(was, d) /\ Lets(was, obj', d)
      /\ h \in [Referrers -> Objs \cup {None}]
  BY <1>0 DEF Lost
<1>2. r \in Local /\ r.del = None /\ r.ret = "idle" /\ r.pc \in Rets
  BY DEF Frees, Resumes
<1> HIDE DEF d
<1>3. /\ rr.at = r.at /\ rr.del = d /\ (d = None => rr = r)
      /\ (d # None => rr.pc = "close" /\ rr.ret = r.pc)
  BY ONLY <1>1, <1>2, FreedIs
<1>4. \A o \in Objs \cup {None} : Above(obj', o) = Above(was, o)
  BY <1>1, NoneIsNone DEF Lets, Above
<1>5. r.at \in Objs \cup {None}
  BY <1>2 DEF Local
<1> HIDE DEF rr
<1>6. rr.pc # "hit" /\ (rr.pc = "add" \/ rr.ret = "add" <=> r.pc = "add")
  BY <1>2, <1>3 DEF Rets
<1>7. AtRef(obj', rr) = r.at
  BY <1>3, <1>6 DEF AtRef
<1>8. DcRef(obj', rr) = IF r.pc = "add" THEN Above(was, r.at) ELSE None
  BY <1>3, <1>4, <1>5, <1>6 DEF DcRef
<1>9. DelRef(obj', rr) = h[<<"del", t>>]
  BY <1>1, <1>3, <1>4 DEF DelRef
<1> QED BY <1>7, <1>8, <1>9 DEF OwnRefs, Has, rr, d

LEMMA FreesStable ==
  ASSUME IInv, NEW t \in Threads, NEW r, NEW was, NEW g, NEW own, NEW s, Frees(t, r, was, g, own, s),
         NEW rr, rr = Freed(r, Dying(was, g[s])), QueryStep(t, r), PhaseFree(t, r)
  PROVE  Stable(t) /\ CloseStep(t, rr) /\ QueryStep(t, rr) /\ PhaseStep(t, rr)
<1> DEFINE d == Dying(was, g[s])
<1>0. Lost(t, r, was, own, s, g, Let(was, g, s, <<"del", t>>), d)
  BY LetIs
<1>1. /\ d \in Objs \cup {None} /\ Lets(was, obj', d) /\ (d # None => was[d].state = "live")
  BY <1>0 DEF Lost
<1>2. /\ r \in Local /\ r.del = None /\ r.ret = "idle" /\ r.pc \in Rets /\ Left(t, was)
      /\ r.qy = None
  BY DEF Frees, Resumes
<1> HIDE DEF d
<1>3. /\ rr.at = r.at /\ rr.del = d /\ rr.qy = r.qy /\ (d = None => rr = r)
      /\ (d # None => rr.pc = "close" /\ rr.ret = r.pc)
  <2>1. rr = Freed(r, d)
    BY DEF d
  <2> QED BY <1>1, <1>2, <2>1, FreedIs
<1>4. Stable(t)
  BY <1>1, <1>2 DEF Stable, Lets, Left
<1>5. CloseStep(t, rr)
  <2>1. CASE d = None
    <3>1. rr.pc # "close" /\ rr.del = None
      BY <1>2, <1>3, <2>1 DEF Rets
    <3> QED BY <1>1, <1>2, <2>1, <3>1, NoneIsNone DEF CloseStep, Lets, Left
  <2>2. CASE d # None
    <3>1. d \in Objs /\ obj'[d].state = "closing"
      BY <1>1, <2>2 DEF Lets
    <3>2. d # me[t].del /\ obj[d].state = "live"
      BY <1>1, <1>2, <2>2, <3>1 DEF Left
    <3>3. \A x \in Objs : x # d =>
            (obj'[x].state = "closing" <=> obj[x].state = "closing" /\ x # me[t].del)
      BY <1>1, <1>2 DEF Lets, Left
    <3> QED BY <1>3, <2>2, <3>1, <3>2, <3>3 DEF CloseStep
  <2> QED BY <2>1, <2>2
<1>6. QueryStep(t, rr)
  BY <1>2, <1>3, NoneIsNone DEF QueryStep
<1>7. PhaseStep(t, rr)
  <2>1. CASE d = None
    BY <1>2, <1>3, <2>1 DEF PhaseStep, PhaseFree, EndRets, Ends, Rets
  <2>2. CASE d # None
    BY <1>2, <1>3, <2>2 DEF PhaseStep, PhaseFree, EndRets, Ends, Rets
  <2> QED BY <2>1, <2>2
<1> QED BY <1>4, <1>5, <1>6, <1>7

LEMMA FreesPlaced ==
  ASSUME IInv, NEW t \in Threads, NEW r, NEW was, NEW g, NEW own, NEW s, Frees(t, r, was, g, own, s),
         NEW rr, rr = Freed(r, Dying(was, g[s]))
  PROVE  Placed(t)' /\ Owners' \subseteq own \ {s}
<1> DEFINE d == Dying(was, g[s])
<1>0. Lost(t, r, was, own, s, g, Let(was, g, s, <<"del", t>>), d)
  BY LetIs
<1>1. /\ d \in Objs \cup {None} /\ Lets(was, obj', d) /\ me' = [me EXCEPT ![t] = rr]
  BY <1>0 DEF Lost
<1>2. /\ r \in Local /\ r.del = None /\ r.ret = "idle" /\ r.pc \in Rets /\ Left(t, was)
      /\ r.qy = None /\ (r.pc = "idle" => r = Idle) /\ (r.pc # "add" => r.at = None)
      /\ (r.pc = "add" => /\ r.at = me[t].at /\ r.file = me[t].file
                          /\ me[t].pc = "add" \/ me[t].ret = "add")
  BY DEF Frees, Resumes
<1> HIDE DEF d
<1>3. /\ rr.at = r.at /\ rr.del = d /\ rr.qy = None /\ rr.file = r.file
      /\ (d = None => rr = r) /\ (d # None => rr.pc = "close" /\ rr.ret = r.pc) /\ me'[t] = rr
  <2>1. rr = Freed(r, d)
    BY DEF d
  <2> QED BY <1>1, <1>2, <2>1, FreedIs, Live
<1>4. r.pc = "add" => /\ r.at \in Objs /\ obj'[r.at].prev # None /\ obj'[r.at].child = FALSE
                      /\ r.file \in Files
  <2> SUFFICES ASSUME r.pc = "add"
               PROVE  /\ r.at \in Objs /\ obj'[r.at].prev # None /\ obj'[r.at].child = FALSE
                      /\ r.file \in Files
    OBVIOUS
  <2>1. /\ r.at = me[t].at /\ r.file = me[t].file /\ (me[t].pc = "add" \/ me[t].ret = "add")
        /\ Builds(t) /\ me[t].pc # "child"
    BY <1>2, Live DEF Builds, Placed
  <2>2. /\ me[t].at \in Objs /\ obj[me[t].at].state = "live" /\ me[t].file \in Files
        /\ obj[me[t].at].prev # None /\ obj[me[t].at].child = FALSE
    <3>1. me[t].at \in Objs /\ obj[me[t].at].state = "live" /\ Placed(t)
      BY <2>1, Live
    <3> QED BY <2>1, <3>1 DEF Placed
  <2>3. me[t].at # me[t].del
    BY <2>2, Live, NoneIsNone
  <2> QED BY <1>1, <1>2, <2>1, <2>2, <2>3 DEF Left, Lets
<1>5. /\ rr.pc # "add" /\ rr.ret # "add" => r.pc # "add"
      /\ rr.pc = "add" \/ rr.ret = "add" => r.pc = "add"
      /\ rr.pc \in Rets \cup {"close"} /\ rr.ret \in Rets
      /\ rr.pc # "close" => rr = r /\ d = None
      /\ rr.pc = "close" => rr.ret = r.pc
  BY <1>2, <1>3 DEF Rets
<1>6. r.pc = "idle" /\ d # None => rr = [Idle EXCEPT !.pc = "close", !.del = rr.del]
  <2> SUFFICES ASSUME r.pc = "idle", d # None
               PROVE  rr = [Idle EXCEPT !.pc = "close", !.del = rr.del]
    OBVIOUS
  <2>0. /\ r = Idle /\ Idle.pc = "idle" /\ Idle.file = None /\ Idle.at = None /\ Idle.hit = None
        /\ Idle.del = None /\ Idle.ret = "idle" /\ Idle.qy = None /\ Idle \in Local
    BY <1>2, CallsIs
  <2>1. rr \in Local /\ rr.hit = None
    BY <1>1, <1>2, <2>0, FreedIs DEF d
  <2> DEFINE z == [Idle EXCEPT !.pc = "close", !.del = d]
  <2>2. /\ z \in Local /\ z.pc = "close" /\ z.file = None /\ z.at = None /\ z.hit = None
        /\ z.del = d /\ z.ret = "idle" /\ z.qy = None
    BY <1>1, <2>0 DEF Local, Labels
  <2> HIDE DEF z
  <2>3. rr = z
    BY <1>3, <2>0, <2>1, <2>2, LocalEqual
  <2> QED BY <1>3, <2>3 DEF z
<1>9. rr.ret \in {"uncache", "closeqs", "closeobjs"} => rr.at = None
  BY <1>2, <1>3, <1>5
<1>7. Placed(t)'
  <2>1. CASE d = None
    BY <1>2, <1>3, <1>4, <2>1 DEF Placed, Builds, Rets
  <2>2. CASE d # None
    <3>1. /\ rr.pc = "close" /\ rr.ret \in Rets /\ rr.qy = None /\ me'[t] = rr
          /\ rr.ret = "idle" => rr = [Idle EXCEPT !.pc = "close", !.del = rr.del]
          /\ rr.ret = "add" => /\ rr.file \in Files /\ obj'[rr.at].prev # None
                                /\ obj'[rr.at].child = FALSE
      BY <1>2, <1>3, <1>4, <1>5, <1>6, <2>2
    <3> QED BY <1>9, <3>1 DEF Placed, Builds
  <2> QED BY <2>1, <2>2
<1>8. Owners' \subseteq own \ {s}
  <2>1. Owners \ {<<"at", t>>} \subseteq own \ {s} /\ (r.pc = "add" => Owners \subseteq own \ {s})
    BY DEF Frees
  <2>2. CASE r.pc = "add"
    <3>1. Builds(t)
      BY <1>2, <2>2 DEF Builds
    <3> QED BY <1>1, <2>1, <2>2, <3>1, OwnersStep
  <2>3. CASE r.pc # "add"
    <3>1. ~(rr.pc \in {"upper", "file", "leaf", "add", "cached", "fetch", "child"} \/ rr.ret = "add")
      BY <1>5, <2>3 DEF Rets
    <3> QED BY <1>1, <2>1, <3>1, OwnersStep
  <2> QED BY <2>2, <2>3
<1> QED BY <1>7, <1>8

LEMMA FreesGoes ==
  ASSUME IInv, NEW t \in Threads, NEW r, NEW was, NEW g, NEW own, NEW s, Frees(t, r, was, g, own, s),
         NEW h, h = Let(was, g, s, <<"del", t>>), NEW rr, rr = Freed(r, Dying(was, g[s])),
         CacheStep(t), QueryStep(t, r), PhaseFree(t, r), Referring(t, rr, h), Used(h),
         refs' \in [Objs -> 0..MaxRefs], query' \in [Queries -> Objs \cup {None}],
         listed' \in SUBSET Queries, cached' \in [Files -> Objs \cup {None}], held' = held,
         opens' = IF was[g[s]].link = 1 THEN OpenIn(g, was) \ {g[s]} ELSE OpenIn(g, was)
  PROVE  IInv'
<1>1. Stable(t) /\ CloseStep(t, rr) /\ QueryStep(t, rr) /\ PhaseStep(t, rr)
  BY FreesStable
<1>2. Placed(t)' /\ Owners' \subseteq own \ {s}
  BY FreesPlaced
<1>3. /\ Graph(h, obj', own \ {s}) /\ opens' = OpenIn(h, obj') /\ me' = [me EXCEPT ![t] = rr]
      /\ Dying(was, g[s]) \in Objs \cup {None}
  <2>1. Lost(t, r, was, own, s, g, Let(was, g, s, <<"del", t>>), Dying(was, g[s]))
    BY LetIs
  <2> QED BY <2>1 DEF Lost
<1>4. rr \in Local
  <2>1. r \in Local /\ r.del = None /\ r.ret = "idle"
    BY DEF Frees, Resumes
  <2> QED BY <1>3, <2>1, FreedIs
<1>5. Types'
  <2>1. session' = session
    BY DEF PhaseFree
  <2> QED BY <1>3, <1>4, <2>1, TypesNow, TypesStep
<1> QED BY <1>1, <1>2, <1>3, <1>5, Goes

\* What is not of a user is not on the list.
LEMMA NotOpen ==
  ASSUME NEW g, NEW ob, NEW own, Graph(g, ob, own), NEW s \in Referrers, s \notin OfUsers,
         g[s] # None
  PROVE  OpenIn(g, ob) \ {g[s]} = OpenIn(g, ob)
<1>1. ASSUME NEW x \in OfUsers, g[x] = g[s] PROVE FALSE
  <2>1. x \in Referrers
    BY ReferrersFinite
  <2> QED BY <1>1, <2>1 DEF Graph, Separate
<1> QED BY <1>1 DEF OpenIn

\* A call or the end of a call releases something of its own.
LEMMA FreesMine ==
  ASSUME IInv, NEW t \in Threads, NEW r, NEW was, NEW s \in Mine(t),
         Frees(t, r, was, Refs, Owners, s), was \in [Objs -> Object],
         NEW h, h = Let(was, Refs, s, <<"del", t>>), Has(t, r, was, h),
         CacheStep(t), QueryStep(t, r), PhaseFree(t, r),
         opens = OpenIn(Refs, was),
         UNCHANGED <<refs, query, listed, cached, held, opens>>
  PROVE  IInv'
<1> DEFINE d == Dying(was, Refs[s])
           rr == Freed(r, d)
<1>1. Lost(t, r, was, Owners, s, Refs, h, d)
  BY LetIs
<1>2. OwnRefs(t, rr, h)
  BY FreesRefs
<1>3. <<"del", t>> \in Mine(t)
  BY DEF Mine
<1>4. But(t, {}, h)
  BY <1>1, <1>3 DEF But, Lost
<1> HIDE DEF d, rr
<1>5. Referring(t, rr, h) /\ Used(h)
  BY <1>2, <1>4, SlotsMine
<1>6. opens' = IF was[Refs[s]].link = 1 THEN OpenIn(Refs, was) \ {Refs[s]} ELSE OpenIn(Refs, was)
  <2>1. Graph(Refs, was, Owners) /\ Refs[s] # None /\ s \in Referrers /\ s \notin OfUsers
    BY OnlyKind DEF Frees
  <2>2. OpenIn(Refs, was) \ {Refs[s]} = OpenIn(Refs, was)
    BY ONLY <2>1, NotOpen
  <2> QED BY <2>2
<1>7. refs' \in [Objs -> 0..MaxRefs] /\ query' \in [Queries -> Objs \cup {None}]
      /\ listed' \in SUBSET Queries /\ cached' \in [Files -> Objs \cup {None}] /\ held' = held
  BY TypesNow
<1>8. rr = Freed(r, Dying(was, Refs[s]))
  BY DEF rr, d
<1> QED BY <1>5, <1>6, <1>7, <1>8, FreesGoes

LEMMA LeftNow ==
  ASSUME IInv, NEW t \in Threads, me[t].pc # "close"
  PROVE  Left(t, obj)
BY Live, NoneIsNone DEF Left

LEMMA ResumesIdle == ASSUME IInv, NEW t \in Threads PROVE Resumes(t, Idle)
BY CallsIs DEF Resumes, Rets

\* An open that fails, or a row or child that is not there.
LEMMA FailKeeps ==
  ASSUME IInv, NEW t \in Threads, me[t].pc \in {"upper", "file", "leaf", "fetch", "child"},
         FreeObj(t, obj, me[t].at, Idle),
         UNCHANGED <<opens, refs, query, listed, cached, held, session>>
  PROVE  IInv'
<1> DEFINE a == <<"at", t>>
           h == Let(obj, Refs, a, <<"del", t>>)
<1>1. /\ Graph(Refs, obj, Owners) /\ obj \in [Objs -> Object] /\ opens = OpenIn(Refs, obj)
      /\ a \in Referrers /\ a \in Mine(t) /\ Refs[a] = me[t].at /\ me[t].at \in Objs
      /\ Refs[<<"del", t>>] = None /\ Refs[<<"dc", t>>] = None /\ me[t].pc # "close"
      /\ session = "open" /\ me[t].pc # "qopen"
  BY TypesNow, NowRefs, Kinds, Live, CallsIs DEF Mine, Builds
<1>2. Frees(t, Idle, obj, Refs, Owners, a)
  <2>1. Resumes(t, Idle) /\ Left(t, obj)
    BY <1>1, ResumesIdle, LeftNow
  <2>2. Idle.pc # "add"
    BY CallsIs
  <2> QED BY <1>1, <2>1, <2>2, NoneIsNone DEF Frees
<1>3. Lost(t, Idle, obj, Owners, a, Refs, h, Dying(obj, Refs[a]))
  BY <1>2, LetIs
<1> HIDE DEF h
<1>4. Has(t, Idle, obj, h)
  <2>1. h[a] = None
    BY <1>3 DEF Lost
  <2>2. h[<<"dc", t>>] = None
    BY <1>1, <1>3, Kinds DEF Lost
  <2> QED BY <2>1, <2>2, CallsIs DEF Has
<1>5. CacheStep(t) /\ QueryStep(t, Idle) /\ PhaseFree(t, Idle)
  BY <1>1, CacheSame, QuerySame, CallsIs DEF PhaseFree, EndRets
<1> QED BY <1>1, <1>2, <1>4, <1>5, FreesMine DEF h

LEMMA OpenFailsKeeps ==
  ASSUME IInv, NEW t \in Threads, OpenFails(t) PROVE IInv'
BY FailKeeps DEF OpenFails, cache

LEMMA NoObjectKeeps ==
  ASSUME IInv, NEW t \in Threads, NoObject(t) PROVE IInv'
BY FailKeeps DEF NoObject, cache

\* A cache entry that is discarded, by a thread that goes on where it is.
LEMMA DiscardKeeps ==
  ASSUME IInv, NEW t \in Threads, me[t].pc \in {"add", "uncache"}, NEW f \in Files, DiscardDC(t, f),
         UNCHANGED <<refs, query, listed, session>>
  PROVE  IInv'
<1> DEFINE r == me[t]
           x == cached[f]
           e == <<"entry", f>>
           h == Let(obj, Refs, e, <<"del", t>>)
           rr == Freed(r, Dying(obj, x))
<1>1. /\ x # None /\ (\A u \in Threads : held[u] # x) /\ cached' = [cached EXCEPT ![f] = None]
      /\ held' = held /\ opens' = (IF obj[x].link = 1 THEN opens \ {x} ELSE opens)
      /\ FreeObj(t, obj, x, r)
  BY DEF DiscardDC, Cache!Discard, Leaves
<1>2. /\ Graph(Refs, obj, Owners) /\ obj \in [Objs -> Object] /\ opens = OpenIn(Refs, obj)
      /\ e \in Referrers /\ e \notin Mine(t) /\ Refs[e] = x /\ e \notin Owners
      /\ Refs[<<"del", t>>] = None /\ me[t].pc # "close" /\ Refs[<<"at", t>>] = me[t].at
  BY TypesNow, NowRefs, Kinds, RefIs, Differ, OwnersAre
<1>3. /\ r \in Local /\ r.del = None /\ r.ret = "idle" /\ r.qy = None
      /\ r.pc = "uncache" => r.at = None
  BY Live DEF Placed
<1>4. Frees(t, r, obj, Refs, Owners, e)
  <2>1. Resumes(t, r)
    BY <1>3 DEF Resumes, Rets
  <2>2. Left(t, obj)
    BY <1>2, LeftNow
  <2>3. Owners \ {e} = Owners
    BY <1>2
  <2> QED BY <1>1, <1>2, <2>1, <2>2, <2>3 DEF Frees
<1>5. Lost(t, r, obj, Owners, e, Refs, h, Dying(obj, Refs[e]))
  BY <1>4, LetIs
<1> HIDE DEF h, rr
<1>6. /\ h \in [Referrers -> Objs \cup {None}] /\ h[e] = None
      /\ \A v \in Referrers : v # e /\ v # <<"del", t>> => h[v] = Refs[v]
  BY <1>5 DEF Lost
<1>7. Has(t, r, obj, h)
  <2>1. h[<<"at", t>>] = r.at
    BY <1>2, <1>6, Kinds, Differ
  <2>2. h[<<"dc", t>>] = Refs[<<"dc", t>>]
    BY <1>6, Kinds
  <2>3. Refs[<<"dc", t>>] = IF r.pc = "add" THEN Above(obj, r.at) ELSE None
    BY <1>2, NowRefs
  <2> QED BY <2>1, <2>2, <2>3 DEF Has
<1>8. OwnRefs(t, rr, h)
  BY <1>2, <1>4, <1>7, FreesRefs DEF h, rr
<1>9. But(t, {e}, h)
  BY <1>6 DEF But, Mine
<1>10. Referring(t, rr, h) /\ Used(h)
  BY <1>1, <1>6, <1>8, <1>9, TypesNow, SlotsEntry
<1>11. CacheStep(t)
  BY <1>1, TypesNow DEF CacheStep
<1>12. QueryStep(t, r) /\ PhaseFree(t, r)
  <2>1. QueryStep(t, r)
    BY <1>3, QuerySame
  <2>2. me[t] # Idle
    BY CallsIs
  <2>3. session = "open" => r.pc \notin EndRets
    BY DEF IInv, Phase
  <2>4. session = "closing" => r.pc = "uncache"
    BY <2>2 DEF IInv, Phase, Ends
  <2> QED BY <2>1, <2>2, <2>3, <2>4 DEF PhaseFree, EndRets
<1>13. cached' \in [Files -> Objs \cup {None}]
  BY <1>1, TypesNow
<1>14. h = Let(obj, Refs, e, <<"del", t>>) /\ rr = Freed(r, Dying(obj, Refs[e]))
  BY <1>2 DEF h, rr
<1>15. /\ refs' \in [Objs -> 0..MaxRefs] /\ query' \in [Queries -> Objs \cup {None}]
       /\ listed' \in SUBSET Queries /\ held' = held
       /\ opens' = IF obj[Refs[e]].link = 1 THEN OpenIn(Refs, obj) \ {Refs[e]} ELSE OpenIn(Refs, obj)
  BY <1>1, <1>2, TypesNow
<1> HIDE DEF e, r
<1> QED BY <1>4, <1>10, <1>11, <1>12, <1>13, <1>14, <1>15, FreesGoes

LEMMA AddDCDiscardsKeeps ==
  ASSUME IInv, NEW t \in Threads, AddDCDiscards(t) PROVE IInv'
BY DiscardKeeps DEF AddDCDiscards, At

\* A link of a caller, or of the session for it, is given back.
LEMMA GivesBack ==
  ASSUME IInv, NEW t \in Threads, NEW r, Resumes(t, r), PhaseFree(t, r), r.pc # "add",
         me[t].pc \notin {"close", "qopen", "add", "hit"}, me[t].at = None,
         NEW o \in Objs, refs[o] > 0, refs' = [refs EXCEPT ![o] = @ - 1],
         opens' = Leaves(o), FreeObj(t, obj, o, r), UNCHANGED <<query, listed, cached, held>>
  PROVE  IInv'
<1> DEFINE i == refs[o]
           c == <<"caller", <<o, i>>>>
           h == Let(obj, Refs, c, <<"del", t>>)
           rr == Freed(r, Dying(obj, o))
<1>1. i \in 1..MaxRefs /\ c \in OfUsers /\ Refs[c] = o /\ o # None
  BY CallersHave, NoneIsNone
<1>2. /\ Graph(Refs, obj, Owners) /\ c \in Referrers /\ c \notin Owners /\ c # <<"del", t>>
      /\ c # <<"at", t>> /\ c # <<"dc", t>> /\ <<"at", t>> \in Referrers /\ <<"dc", t>> \in Referrers
      /\ <<"at", t>> # <<"del", t>> /\ <<"dc", t>> # <<"del", t>>
      /\ Refs[<<"del", t>>] = None /\ Refs[<<"at", t>>] = None /\ Refs[<<"dc", t>>] = None
      /\ opens = OpenIn(Refs, obj)
  BY <1>1, TypesNow, NowRefs, Kinds, Differ, OwnersAre, ReferrersFinite
<1> HIDE DEF h, rr, c
<1>3. Frees(t, r, obj, Refs, Owners, c)
  <2>1. Left(t, obj) /\ Owners \ {c} = Owners
    BY <1>2, LeftNow
  <2> QED BY <1>1, <1>2, <2>1 DEF Frees
<1>4. Lost(t, r, obj, Owners, c, Refs, h, Dying(obj, Refs[c]))
  BY <1>3, LetIs DEF h
<1>5. /\ h \in [Referrers -> Objs \cup {None}] /\ h[c] = None
      /\ \A v \in Referrers : v # c /\ v # <<"del", t>> => h[v] = Refs[v]
  BY <1>2, <1>4 DEF Lost
<1>6. Has(t, r, obj, h)
  BY <1>2, <1>5 DEF Has, Resumes
<1>7. h = Let(obj, Refs, c, <<"del", t>>) /\ rr = Freed(r, Dying(obj, Refs[c]))
  BY <1>1 DEF h, rr
<1>8. OwnRefs(t, rr, h)
  BY <1>3, <1>6, <1>7, FreesRefs
<1>9. But(t, {c}, h)
  BY <1>5 DEF But, Mine
<1>10. Referring(t, rr, h) /\ Used(h) /\ refs' \in [Objs -> 0..MaxRefs]
  <2>1. But(t, {<<"caller", <<o, i>>>>}, h) /\ Counting(h, o, i)
    BY <1>5, <1>9 DEF c, Counting
  <2> QED BY <1>1, <1>8, <2>1, TypesNow, SlotsCaller
<1>11. CacheStep(t) /\ QueryStep(t, r)
  BY CacheSame, QuerySame DEF Resumes
<1>12. opens' = IF obj[Refs[c]].link = 1 THEN OpenIn(Refs, obj) \ {Refs[c]} ELSE OpenIn(Refs, obj)
  BY <1>1, <1>2 DEF Leaves
<1>13. /\ query' \in [Queries -> Objs \cup {None}] /\ listed' \in SUBSET Queries
       /\ cached' \in [Files -> Objs \cup {None}] /\ held' = held
  BY TypesNow
<1> QED BY <1>3, <1>7, <1>10, <1>11, <1>12, <1>13, FreesGoes

\* A query ends.
LEMMA EndsQuery ==
  ASSUME IInv, NEW t \in Threads, NEW r, Resumes(t, r), PhaseFree(t, r), r.pc # "add",
         me[t].pc \in {"qopen", "qclose"}, EndQuery(t, r), UNCHANGED <<refs, cached, held>>
  PROVE  IInv'
<1> DEFINE q == me[t].qy
           o == query[q]
           c == <<"query", q>>
           h == Let(obj, Refs, c, <<"del", t>>)
           rr == Freed(r, Dying(obj, o))
<1>1. /\ q \in Queries /\ o # None /\ o \in Objs /\ me[t].at = None /\ me[t].pc # "close"
      /\ c \in OfUsers /\ Refs[c] = o
  <2>1. q \in Queries /\ o # None /\ me[t].at = None
    BY Live DEF Placed
  <2>2. o \in Objs
    BY <2>1, TypesNow
  <2> QED BY <2>1, <2>2, Kinds, RefIs
<1>2. /\ Graph(Refs, obj, Owners) /\ c \in Referrers /\ c \notin Owners /\ c # <<"del", t>>
      /\ c # <<"at", t>> /\ c # <<"dc", t>> /\ <<"at", t>> \in Referrers /\ <<"dc", t>> \in Referrers
      /\ <<"at", t>> # <<"del", t>> /\ <<"dc", t>> # <<"del", t>>
      /\ Refs[<<"del", t>>] = None /\ Refs[<<"at", t>>] = None /\ Refs[<<"dc", t>>] = None
      /\ opens = OpenIn(Refs, obj)
  BY <1>1, TypesNow, NowRefs, Kinds, Differ, OwnersAre, ReferrersFinite
<1>0. /\ query' = [query EXCEPT ![q] = None] /\ listed' = listed \ {q} /\ opens' = Leaves(o)
      /\ FreeObj(t, obj, o, r)
  BY DEF EndQuery
<1> HIDE DEF h, rr, c
<1>3. Frees(t, r, obj, Refs, Owners, c)
  <2>1. Left(t, obj) /\ Owners \ {c} = Owners
    BY <1>1, <1>2, LeftNow
  <2> QED BY <1>0, <1>1, <1>2, <2>1 DEF Frees
<1>4. Lost(t, r, obj, Owners, c, Refs, h, Dying(obj, Refs[c]))
  BY <1>3, LetIs DEF h
<1>5. /\ h \in [Referrers -> Objs \cup {None}] /\ h[c] = None
      /\ \A v \in Referrers : v # c /\ v # <<"del", t>> => h[v] = Refs[v]
  BY <1>2, <1>4 DEF Lost
<1>6. Has(t, r, obj, h)
  BY <1>2, <1>5 DEF Has, Resumes
<1>7. h = Let(obj, Refs, c, <<"del", t>>) /\ rr = Freed(r, Dying(obj, Refs[c]))
  BY <1>1 DEF h, rr
<1>8. OwnRefs(t, rr, h)
  BY <1>3, <1>6, <1>7, FreesRefs
<1>9. But(t, {c}, h)
  BY <1>5 DEF But, Mine
<1>10. Referring(t, rr, h) /\ Used(h)
  <2>1. But(t, {<<"query", q>>}, h) /\ h[<<"query", q>>] = None
    BY <1>5, <1>9 DEF c
  <2> QED BY <1>0, <1>1, <1>8, <2>1, TypesNow, SlotsQuery
<1>11. CacheStep(t) /\ QueryStep(t, r)
  <2>1. r.qy = None
    BY DEF Resumes
  <2>2. QueryStep(t, r)
    BY <1>0, <1>1, <2>1, TypesNow, NoneIsNone DEF QueryStep
  <2> QED BY <2>2, CacheSame
<1>12. opens' = IF obj[Refs[c]].link = 1 THEN OpenIn(Refs, obj) \ {Refs[c]} ELSE OpenIn(Refs, obj)
  BY <1>0, <1>1, <1>2 DEF Leaves
<1>13. /\ query' \in [Queries -> Objs \cup {None}] /\ listed' \in SUBSET Queries
       /\ cached' \in [Files -> Objs \cup {None}] /\ held' = held /\ refs' \in [Objs -> 0..MaxRefs]
  BY <1>0, <1>1, TypesNow
<1> QED BY <1>3, <1>7, <1>10, <1>11, <1>12, <1>13, FreesGoes

LEMMA AddDCFailsKeeps ==
  ASSUME IInv, NEW t \in Threads, AddDCFails(t)
  PROVE  IInv'
<1> DEFINE x == me[t].at
           p == Above(obj, x)
           a == <<"at", t>>
           c == <<"caller", <<x, 1>>>>
           d == <<"dc", t>>
           g == Handed(t)
           own == Owners \ {a}
           h == Let(obj, g, d, <<"del", t>>)
           rr == Freed(Idle, Dying(obj, p))
<1>1. /\ me[t].pc = "add" /\ FreeObj(t, obj, p, Idle)
      /\ opens' = (IF obj[p].link = 1 THEN opens \ {p} ELSE opens) \cup {x}
      /\ refs' = [refs EXCEPT ![x] = 1]
      /\ UNCHANGED <<query, listed, cached, held, session>>
  BY PrevIs DEF AddDCFails, At, Leaves, cache
<1>2. /\ x \in Objs /\ refs[x] = 0 /\ 1 \in 1..MaxRefs /\ c \in OfUsers /\ Refs[c] = None
      /\ Refs[a] = x /\ a \in Owners /\ session = "open" /\ me[t].pc # "close" /\ me[t].pc # "qopen"
      /\ me[t].pc # "child" /\ Builds(t) /\ obj[x].child = FALSE /\ obj[x].prev # None
  BY <1>1, Unreturned, Live, CallsIs DEF Builds, Placed
<1>3. /\ g \in [Referrers -> Objs \cup {None}] /\ g[c] = x /\ g[a] = None
      /\ \A v \in Referrers : v # a /\ v # c => g[v] = Refs[v]
      /\ Graph(g, obj, own) /\ OpenIn(g, obj) = opens \cup {x}
  BY <1>2, HandOver
<1>4. /\ d \in Referrers /\ d \notin OfUsers /\ d # a /\ d # c /\ d # <<"del", t>> /\ d \notin Owners
      /\ <<"del", t>> \in Referrers /\ <<"del", t>> # a /\ <<"del", t>> # c
      /\ a \in Referrers /\ a # c /\ c \in Referrers /\ a # <<"del", t>>
  BY <1>2, Kinds, Differ, OwnersAre, ReferrersFinite
<1>5. g[d] = p /\ g[<<"del", t>>] = None /\ p # None /\ p # x
  <2>1. Refs[d] = p /\ Refs[<<"del", t>>] = None /\ obj \in [Objs -> Object]
    BY <1>1, <1>2, NowRefs
  <2>2. p = obj[x].prev /\ p # None
    BY <1>2, NoneIsNone DEF Above
  <2>3. p # x
    <3>1. Graph(Refs, obj, Owners) /\ a \in Referrers /\ Refs[a] # None /\ Above(obj, Refs[a]) # None
      BY <1>2, <1>4, <2>2, TypesNow, NoneIsNone
    <3>2. Above(obj, Refs[a]) # Refs[a]
      BY ONLY <3>1, ChainCounts
    <3> QED BY <1>2, <3>2
  <2> QED BY <1>3, <1>4, <2>1, <2>2, <2>3
<1> HIDE DEF g, h, rr, p
<1>6. Frees(t, Idle, obj, g, own, d)
  <2>1. Resumes(t, Idle) /\ Left(t, obj) /\ Idle.pc # "add"
    BY <1>2, ResumesIdle, LeftNow, CallsIs
  <2>2. Owners \ {a} \subseteq own \ {d}
    BY <1>4
  <2> QED BY <1>1, <1>3, <1>4, <1>5, <2>1, <2>2 DEF Frees
<1>7. Lost(t, Idle, obj, own, d, g, h, Dying(obj, g[d]))
  BY <1>6, LetIs DEF h
<1>8. /\ h \in [Referrers -> Objs \cup {None}] /\ h[d] = None /\ h[a] = None /\ h[c] = x
      /\ \A v \in Referrers : v \notin {a, c, d, <<"del", t>>} => h[v] = Refs[v]
  BY <1>3, <1>4, <1>7 DEF Lost
<1>9. Has(t, Idle, obj, h)
  BY <1>8, CallsIs DEF Has
<1>10. h = Let(obj, g, d, <<"del", t>>) /\ rr = Freed(Idle, Dying(obj, g[d]))
  BY <1>5 DEF h, rr
<1>11. OwnRefs(t, rr, h)
  BY <1>6, <1>9, <1>10, FreesRefs
<1>12. But(t, {c}, h) /\ Counting(h, x, 1)
  BY <1>1, <1>2, <1>8 DEF But, Mine, Counting
<1>13. Referring(t, rr, h) /\ Used(h) /\ refs' \in [Objs -> 0..MaxRefs]
  BY <1>1, <1>2, <1>11, <1>12, TypesNow, SlotsCaller
<1>14. CacheStep(t) /\ QueryStep(t, Idle) /\ PhaseFree(t, Idle)
  BY <1>1, <1>2, CacheSame, QuerySame, CallsIs DEF PhaseFree, EndRets
<1>15. opens' = IF obj[g[d]].link = 1 THEN OpenIn(g, obj) \ {g[d]} ELSE OpenIn(g, obj)
  BY <1>1, <1>3, <1>5
<1>16. /\ query' \in [Queries -> Objs \cup {None}] /\ listed' \in SUBSET Queries
       /\ cached' \in [Files -> Objs \cup {None}] /\ held' = held
  BY <1>1, TypesNow
<1> QED BY <1>6, <1>10, <1>13, <1>14, <1>15, <1>16, FreesGoes

LEMMA CloseKeeps ==
  ASSUME IInv, NEW t \in Threads, Close(t)
  PROVE  IInv'
<1>p. PICK o \in Objs : /\ refs[o] > 0 /\ refs' = [refs EXCEPT ![o] = @ - 1]
                        /\ opens' = Leaves(o) /\ FreeObj(t, obj, o, Idle)
  BY DEF Close
<1>1. me[t] = Idle /\ session = "open" /\ UNCHANGED <<query, listed, cached, held, session>>
  BY CallsIs DEF Close, cache
<1>2. Resumes(t, Idle) /\ PhaseFree(t, Idle) /\ me[t].pc \notin {"close", "qopen", "add", "hit"}
  BY <1>1, ResumesIdle, CallsIs DEF PhaseFree, EndRets
<1> QED BY <1>p, <1>1, <1>2, CallsIs, GivesBack

LEMMA OpenQueryFailsKeeps ==
  ASSUME IInv, NEW t \in Threads, OpenQueryFails(t)
  PROVE  IInv'
<1>1. me[t].pc = "qopen" /\ EndQuery(t, Idle) /\ UNCHANGED <<refs, cached, held, session>>
  BY DEF OpenQueryFails, At, cache
<1>2. Resumes(t, Idle) /\ PhaseFree(t, Idle) /\ Idle.pc # "add"
  BY <1>1, ResumesIdle, CallsIs DEF PhaseFree, EndRets
<1> QED BY <1>1, <1>2, EndsQuery

\* A thread that does not sleep keeps the session from being closed, and is alone
\* once it is closing.
LEMMA InPhase ==
  ASSUME IInv, NEW t \in Threads, me[t].pc # "idle"
  PROVE  /\ session \in {"open", "closing"}
         /\ session = "open" => me[t].pc \notin EndRets /\ me[t].ret \notin EndRets
         /\ session = "closing" =>
              /\ \A u \in Threads : u # t => me[u] = Idle
              /\ me[t].pc \in Ends /\ (me[t].pc = "close" => me[t].ret \in EndRets)
              /\ me[t].pc # "uncache" /\ me[t].ret # "uncache" => Empty
              /\ me[t].pc = "closeobjs" \/ me[t].ret = "closeobjs" => listed = {}
<1>1. me[t] # Idle
  BY CallsIs
<1>2. session \in {"open", "closing"}
  BY <1>1 DEF IInv, Phase, Types
<1>3. ASSUME session = "closing"
      PROVE  /\ \A u \in Threads : u # t => me[u] = Idle
             /\ me[t].pc \in Ends /\ (me[t].pc = "close" => me[t].ret \in EndRets)
             /\ me[t].pc # "uncache" /\ me[t].ret # "uncache" => Empty
             /\ me[t].pc = "closeobjs" \/ me[t].ret = "closeobjs" => listed = {}
  <2>1. PICK v \in Threads :
          /\ \A u \in Threads : u # v => me[u] = Idle
          /\ me[v].pc \in Ends /\ (me[v].pc = "close" => me[v].ret \in EndRets)
          /\ me[v].pc # "uncache" /\ me[v].ret # "uncache" => Empty
          /\ me[v].pc = "closeobjs" \/ me[v].ret = "closeobjs" => listed = {}
    BY <1>3 DEF IInv, Phase
  <2>2. v = t
    BY <1>1, <2>1
  <2> QED BY <2>1, <2>2
<1>4. session = "open" => me[t].pc \notin EndRets /\ me[t].ret \notin EndRets
  BY DEF IInv, Phase
<1> QED BY <1>2, <1>3, <1>4

LEMMA QueryClosedKeeps ==
  ASSUME IInv, NEW t \in Threads, QueryClosed(t)
  PROVE  IInv'
<1> DEFINE l == IF session = "open" THEN "idle" ELSE "closeqs"
           r == [Idle EXCEPT !.pc = l]
<1>1. me[t].pc = "qclose" /\ EndQuery(t, r) /\ UNCHANGED <<refs, cached, held, session>>
  BY DEF QueryClosed, At, cache
<1>2. l \in Labels /\ l \in {"idle", "closeqs"} /\ (l = "idle" <=> session = "open")
  BY DEF Labels
<1> HIDE DEF l
<1>3. /\ r \in Local /\ r.pc = l /\ r.file = None /\ r.at = None /\ r.hit = None
      /\ r.del = None /\ r.ret = "idle" /\ r.qy = None
  BY <1>2, CallsIs DEF Local
<1> HIDE DEF r
<1>4. l = "idle" => r = Idle
  BY <1>3, CallsIs, LocalEqual
<1>5. Resumes(t, r) /\ r.pc # "add"
  BY <1>2, <1>3, <1>4 DEF Resumes, Rets
<1>6. PhaseFree(t, r)
  <2>1. me[t] # Idle /\ me[t].ret = "idle"
    BY <1>1, CallsIs, Live DEF Placed
  <2>2. session \in {"open", "closing"} /\ (session = "closing" => Empty)
    BY <1>1, <2>1, InPhase
  <2>3. Empty' <=> Empty
    BY <1>1 DEF Empty
  <2> QED BY <1>1, <1>2, <1>3, <2>1, <2>2, <2>3 DEF PhaseFree, EndRets
<1> QED BY <1>1, <1>5, <1>6, EndsQuery

LEMMA ClosedKeeps ==
  ASSUME IInv, NEW t \in Threads, Closed(t)
  PROVE  IInv'
<1> DEFINE x == me[t].del
           r == [me[t] EXCEPT !.pc = me[t].ret, !.del = None, !.ret = "idle"]
           was == [obj EXCEPT ![x] = Free]
           p == Above(obj, x)
           d == <<"del", t>>
<1>1. /\ me[t].pc = "close" /\ UNCHANGED <<opens, refs, query, listed, cached, held, session>>
      /\ \/ p = None /\ obj' = was /\ me' = [me EXCEPT ![t] = r]
         \/ p # None /\ FreeObj(t, was, p, r)
  BY PrevIs DEF Closed, At, Goto, cache
<1>2. /\ x \in Objs /\ obj[x].state = "closing" /\ me[t].ret \in Rets /\ me[t] \in Local
      /\ obj \in [Objs -> Object] /\ Graph(Refs, obj, Owners) /\ opens = OpenIn(Refs, obj)
      /\ me[t].qy = None
      /\ me[t].ret \in {"uncache", "closeqs", "closeobjs"} => me[t].at = None
      /\ me[t].ret = "idle" => me[t] = [Idle EXCEPT !.pc = "close", !.del = x]
  <2>1. x \in Objs /\ obj[x].state = "closing"
    BY <1>1 DEF IInv, Closing
  <2> QED BY <1>1, <2>1, Live, TypesNow DEF Placed
<1>3. /\ was \in [Objs -> Object] /\ Only(obj, was, x) /\ was[x].state = "free" /\ was[x].link = 0
  <2>1. Free \in Object /\ Free.state = "free" /\ Free.link = 0
    BY DEF Free, Object
  <2> QED BY <1>2, <2>1 DEF Only
<1> HIDE DEF was
<1>4. Graph(Refs, was, Owners) /\ OpenIn(Refs, was) = OpenIn(Refs, obj)
  <2>1. was[x].state # "live" /\ obj[x].state # "live"
    BY <1>2, <1>3
  <2> QED BY ONLY <1>2, <1>3, <2>1, FreeKeeps
<1>5. /\ r \in Local /\ r.pc = me[t].ret /\ r.file = me[t].file /\ r.at = me[t].at
      /\ r.hit = me[t].hit /\ r.del = None /\ r.ret = "idle" /\ r.qy = None
  BY ZenonT(40), <1>2 DEF Local, Labels, Rets
<1> HIDE DEF r
<1>6. me[t].ret = "idle" => r = Idle
  <2> SUFFICES ASSUME me[t].ret = "idle" PROVE r = Idle
    OBVIOUS
  <2>1. me[t].file = None /\ me[t].at = None /\ me[t].hit = None
    BY <1>2 DEF Idle
  <2> QED BY <1>5, <2>1, CallsIs, LocalEqual
<1>7. Resumes(t, r)
  <2>1. me[t].ret # "add" => r.at = None
    BY <1>2, <1>5, <1>6, CallsIs DEF Rets
  <2> QED BY <1>2, <1>5, <1>6, <2>1 DEF Resumes
<1>8. Left(t, was)
  BY <1>3 DEF Left, Only
<1>9. PhaseFree(t, r)
  <2>1. /\ session \in {"open", "closing"} /\ (session = "open" => r.pc \notin EndRets)
        /\ session = "closing" => /\ r.pc \in EndRets
                                  /\ r.pc # "uncache" => Empty
                                  /\ r.pc = "closeobjs" => listed = {}
    BY <1>1, <1>5, InPhase
  <2>2. (Empty' <=> Empty) /\ me[t] # Idle
    BY <1>1, CallsIs DEF Empty
  <2> QED BY <1>1, <2>1, <2>2 DEF PhaseFree
<1>10. CacheStep(t) /\ QueryStep(t, r)
  BY <1>1, <1>5, CacheSame, QuerySame
<1>11. me[t].ret = "add" => /\ me[t].at \in Objs /\ me[t].at # x /\ was[me[t].at] = obj[me[t].at]
                            /\ obj[me[t].at].prev # None /\ obj[me[t].at].child = FALSE
                            /\ me[t].file \in Files /\ Builds(t)
  <2> SUFFICES ASSUME me[t].ret = "add"
               PROVE  /\ me[t].at \in Objs /\ me[t].at # x /\ was[me[t].at] = obj[me[t].at]
                      /\ obj[me[t].at].prev # None /\ obj[me[t].at].child = FALSE
                      /\ me[t].file \in Files /\ Builds(t)
    OBVIOUS
  <2>1. Builds(t)
    BY DEF Builds
  <2>2. me[t].at \in Objs /\ obj[me[t].at].state = "live" /\ Placed(t)
    BY <2>1, Live
  <2> QED BY <1>1, <1>2, <1>3, <2>1, <2>2 DEF Only, Placed
<1>12. Refs[<<"at", t>>] = r.at
  BY <1>1, <1>5, NowRefs
<1>13. Refs[<<"dc", t>>] = IF r.pc = "add" THEN Above(was, r.at) ELSE None
  <2>1. CASE me[t].ret = "add"
    BY <1>5, <1>11, <2>1, NowRefs DEF Above
  <2>2. CASE me[t].ret # "add"
    BY <1>1, <1>5, <2>2, RefIs DEF DcRef
  <2> QED BY <2>1, <2>2
<1>14. Refs[d] = p
  BY NowRefs
<1>15. CASE p # None
  <2>1. Frees(t, r, was, Refs, Owners, d)
    <3>1. d \in Referrers /\ Owners \ {d} = Owners
      BY Kinds, OwnersAre
    <3> QED BY <1>1, <1>4, <1>7, <1>8, <1>14, <1>15, <3>1 DEF Frees
  <2> DEFINE h == Let(was, Refs, d, <<"del", t>>)
  <2>2. Lost(t, r, was, Owners, d, Refs, h, Dying(was, Refs[d]))
    BY <2>1, LetIs
  <2> HIDE DEF h
  <2>3. Has(t, r, was, h)
    BY <1>12, <1>13, <2>2, Kinds, Differ DEF Has, Lost
  <2>4. d \in Mine(t)
    BY DEF Mine
  <2>5. opens = OpenIn(Refs, was)
    BY <1>2, <1>4
  <2> QED BY <1>1, <1>3, <1>9, <1>10, <2>1, <2>3, <2>4, <2>5, FreesMine DEF h
<1>16. CASE p = None
  <2>1. obj' = was /\ me' = [me EXCEPT ![t] = r] /\ me'[t] = r
    BY <1>1, <1>16, Live
  <2>2. OwnRefs(t, r, Refs)
    BY <1>2, <1>5, <1>12, <1>13, <1>14, <1>16, <2>1 DEF OwnRefs, AtRef, DcRef, DelRef, Above, Rets
  <2>3. But(t, {}, Refs)
    BY NowRefs DEF But
  <2>4. Referring(t, r, Refs) /\ Used(Refs)
    BY <1>1, <2>2, <2>3, SlotsMine
  <2>5. Stable(t)
    BY <1>3, <2>1 DEF Stable, Only
  <2>6. CloseStep(t, r)
    BY <1>2, <1>3, <1>5, <2>1, NoneIsNone DEF CloseStep, Only, Rets
  <2>7. PhaseStep(t, r)
    BY <1>5, <1>9 DEF PhaseFree, PhaseStep, EndRets, Ends
  <2>8. Types'
    BY <1>1, <1>5, <2>1, TypesNow, TypesStep
  <2>9. Placed(t)'
    <3>1. /\ r.pc \in Rets /\ (r.pc = "idle" => r = Idle) /\ (r.pc # "add" => r.at = None)
          /\ r.pc = "add" => /\ r.at \in Objs /\ obj'[r.at].prev # None
                             /\ obj'[r.at].child = FALSE /\ r.file \in Files
      BY <1>2, <1>5, <1>7, <1>11, <2>1 DEF Resumes
    <3> QED BY <1>5, <2>1, <3>1 DEF Placed, Builds, Rets
  <2>10. Owners' \subseteq Owners
    <3>1. CASE me[t].ret = "add"
      BY <1>11, <2>1, <3>1, OwnersStep
    <3>2. CASE me[t].ret # "add"
      <4>1. ~(r.pc \in {"upper", "file", "leaf", "add", "cached", "fetch", "child"} \/ r.ret = "add")
        BY <1>2, <1>5, <3>2 DEF Rets
      <4> QED BY <2>1, <4>1, OwnersStep
    <3> QED BY <3>1, <3>2
  <2>11. Graph(Refs, obj', Owners) /\ opens' = OpenIn(Refs, obj')
    BY <1>1, <1>2, <1>4, <2>1
  <2> QED BY <1>10, <2>1, <2>4, <2>5, <2>6, <2>7, <2>8, <2>9, <2>10, <2>11, Goes
<1> QED BY <1>15, <1>16

\* A step of the session's end that changes none of what is referred to.
LEMMA EndGoes ==
  ASSUME IInv, NEW t \in Threads, NEW r, me' = [me EXCEPT ![t] = r], r \in Local,
         r.ret = "idle", r.del = None, r.at = None, me[t].at = None,
         me[t].pc \notin {"hit", "add", "close", "qopen"},
         r.pc \in {"idle", "uncache", "closeqs", "closeobjs", "qclose"},
         UNCHANGED <<obj, opens, refs, query, listed, cached, held>>,
         session' \in {"open", "closing", "closed"}, QueryStep(t, r), Placed(t)', Phase'
  PROVE  IInv'
<1>1. OwnRefs(t, r, Refs)
  BY NowRefs DEF OwnRefs, AtRef, DcRef, DelRef, Above
<1>2. But(t, {}, Refs)
  BY NowRefs DEF But
<1>3. Referring(t, r, Refs) /\ Used(Refs)
  BY <1>1, <1>2, SlotsMine
<1>4. Stable(t) /\ CacheStep(t)
  BY CacheSame DEF Stable
<1>5. CloseStep(t, r)
  BY Live, NoneIsNone DEF CloseStep
<1>6. Refs' = Refs
  BY <1>3, <1>4, RefsStep DEF Used
<1>7. Owners' \subseteq Owners
  <2>1. ~(r.pc \in {"upper", "file", "leaf", "add", "cached", "fetch", "child"} \/ r.ret = "add")
    OBVIOUS
  <2> QED BY <2>1, OwnersStep
<1>8. Graph(Refs', obj', Owners') /\ opens' = OpenIn(Refs', obj')
  <2>1. Graph(Refs, obj, Owners')
    BY <1>7, TypesNow, FewerOwned
  <2> QED BY <1>6, <2>1, TypesNow
<1>9. \A u \in Threads : Placed(u)'
  BY <1>4, OthersPlaced
<1>10. Closing' /\ Distinct' /\ Listed' /\ Uppers'
  BY <1>4, <1>5, ClosingStep, QueriesStep, UppersStep
<1>11. Types'
  BY TypesNow, TypesStep
<1> QED BY <1>8, <1>9, <1>10, <1>11 DEF IInv, Graph, Counted, Chained, Separate, Owned, OpenIn

LEMMA UncacheKeeps ==
  ASSUME IInv, NEW t \in Threads, Uncache(t)
  PROVE  IInv'
<1>1. me[t].pc = "uncache" /\ UNCHANGED <<refs, query, listed, session>>
  BY DEF Uncache, At
<1>2. CASE \E f \in Files : DiscardDC(t, f)
  BY <1>1, <1>2, DiscardKeeps
<1>3. CASE Empty /\ Goto(t, To(t, "closeqs")) /\ UNCHANGED <<obj, opens, cached, held>>
  <2> DEFINE r == To(t, "closeqs")
  <2>1. /\ me[t] \in Local /\ me[t].at = None /\ me[t].qy = None /\ me[t].ret = "idle" /\ me[t].del = None
    BY <1>1, Live DEF Placed
  <2>2. /\ r \in Local /\ r.pc = "closeqs" /\ r.at = None /\ r.ret = "idle" /\ r.del = None
        /\ r.qy = None
    BY <2>1 DEF To, Local, Labels
  <2>3. me' = [me EXCEPT ![t] = r]
    BY <1>3 DEF Goto
  <2> HIDE DEF r
  <2>4. me'[t] = r
    BY <2>3, Live
  <2>5. QueryStep(t, r)
    BY <1>1, <2>2, QuerySame
  <2>6. Placed(t)'
    BY <2>2, <2>4 DEF Placed, Builds
  <2>7. Phase'
    <3>1. Empty' /\ me[t] # Idle /\ (session = "open" => FALSE)
      BY <1>1, <1>3, CallsIs, InPhase DEF Empty, EndRets
    <3>2. PhaseStep(t, r)
      BY <1>1, <2>2, <3>1 DEF PhaseStep, Ends, EndRets
    <3> QED BY <2>3, <3>2, PhaseKeeps
  <2> QED BY <1>1, <1>3, <2>1, <2>2, <2>3, <2>5, <2>6, <2>7, TypesNow, EndGoes
<1> QED BY <1>2, <1>3 DEF Uncache, Empty, cache

LEMMA CloseQueriesKeeps ==
  ASSUME IInv, NEW t \in Threads, CloseQueries(t)
  PROVE  IInv'
<1>1. me[t].pc = "closeqs" /\ UNCHANGED <<obj, opens, refs, query, listed, cached, held, session>>
  BY DEF CloseQueries, At, cache
<1>2. /\ me[t] \in Local /\ me[t].at = None /\ me[t].qy = None /\ me[t].ret = "idle" /\ me[t].del = None
      /\ me[t] # Idle
  BY <1>1, Live, CallsIs DEF Placed
<1>3. session = "closing" /\ Empty /\ \A u \in Threads : u # t => me[u] = Idle
  BY <1>1, <1>2, InPhase DEF EndRets
<1>e. Empty'
  BY <1>1, <1>3 DEF Empty
<1>4. CASE \E q \in listed : Goto(t, [To(t, "qclose") EXCEPT !.qy = q])
  <2>1. PICK q \in listed : Goto(t, [To(t, "qclose") EXCEPT !.qy = q])
    BY <1>4
  <2> DEFINE r == [To(t, "qclose") EXCEPT !.qy = q]
  <2>2. q \in Queries /\ query[q] # None
    BY TypesNow DEF IInv, Listed
  <2>3. /\ r \in Local /\ r.pc = "qclose" /\ r.at = None /\ r.ret = "idle" /\ r.del = None
        /\ r.qy = q
    BY <1>2, <2>2 DEF To, Local, Labels
  <2>4. me' = [me EXCEPT ![t] = r]
    BY <2>1 DEF Goto
  <2> HIDE DEF r
  <2>5. me'[t] = r
    BY <2>4, Live
  <2>6. QueryStep(t, r)
    <3>1. ~Busy(q)
      BY <1>2, <1>3, <2>2, CallsIs, NoneIsNone DEF Busy
    <3> QED BY <1>1, <2>3, <3>1, QuerySame
  <2>7. Placed(t)'
    BY <1>1, <2>2, <2>3, <2>5 DEF Placed, Builds
  <2>8. Phase'
    <3>1. PhaseStep(t, r)
      BY <1>1, <1>2, <1>3, <1>e, <2>3 DEF PhaseStep, Ends, EndRets
    <3> QED BY <2>4, <3>1, PhaseKeeps
  <2> QED BY <1>1, <1>2, <2>3, <2>4, <2>6, <2>7, <2>8, TypesNow, EndGoes
<1>5. CASE listed = {} /\ Goto(t, To(t, "closeobjs"))
  <2> DEFINE r == To(t, "closeobjs")
  <2>3. /\ r \in Local /\ r.pc = "closeobjs" /\ r.at = None /\ r.ret = "idle" /\ r.del = None
        /\ r.qy = None
    BY <1>2 DEF To, Local, Labels
  <2>4. me' = [me EXCEPT ![t] = r]
    BY <1>5 DEF Goto
  <2> HIDE DEF r
  <2>5. me'[t] = r
    BY <2>4, Live
  <2>6. QueryStep(t, r)
    BY <1>1, <2>3, QuerySame
  <2>7. Placed(t)'
    BY <2>3, <2>5 DEF Placed, Builds
  <2>8. Phase'
    <3>1. PhaseStep(t, r)
      BY <1>1, <1>2, <1>3, <1>e, <1>5, <2>3 DEF PhaseStep, Ends, EndRets
    <3> QED BY <2>4, <3>1, PhaseKeeps
  <2> QED BY <1>1, <1>2, <2>3, <2>4, <2>6, <2>7, <2>8, TypesNow, EndGoes
<1> QED BY <1>4, <1>5 DEF CloseQueries

LEMMA CloseSessionKeeps ==
  ASSUME IInv, NEW t \in Threads, CloseSession(t)
  PROVE  IInv'
<1> DEFINE r == To(t, "uncache")
<1>1. /\ session = "open" /\ (\A u \in Threads : me[u] = Idle) /\ session' = "closing"
      /\ me' = [me EXCEPT ![t] = r] /\ UNCHANGED <<obj, opens, refs, query, listed, cached, held>>
  BY DEF CloseSession, Goto, cache
<1>2. /\ r \in Local /\ r.pc = "uncache" /\ r.at = None /\ r.ret = "idle" /\ r.del = None
      /\ r.qy = None /\ me[t].at = None /\ me[t].pc = "idle" /\ me[t].qy = None
  BY <1>1, CallsIs DEF To, Local, Labels
<1> HIDE DEF r
<1>3. me'[t] = r /\ \A u \in Threads : u # t => me'[u] = Idle
  BY <1>1, Live
<1>4. QueryStep(t, r)
  BY <1>1, <1>2, QuerySame
<1>5. Placed(t)'
  BY <1>2, <1>3 DEF Placed, Builds
<1>6. Phase'
  BY <1>1, <1>2, <1>3 DEF Phase, Ends
<1> QED BY <1>1, <1>2, <1>4, <1>5, <1>6, EndGoes

LEMMA CloseObjectsKeeps ==
  ASSUME IInv, NEW t \in Threads, CloseObjects(t)
  PROVE  IInv'
<1>1. me[t].pc = "closeobjs" /\ UNCHANGED <<query, listed, cached, held>>
  BY DEF CloseObjects, At, cache
<1>2. /\ me[t] \in Local /\ me[t].at = None /\ me[t].qy = None /\ me[t].ret = "idle" /\ me[t].del = None
      /\ me[t] # Idle
  BY <1>1, Live, CallsIs DEF Placed
<1>3. session = "closing" /\ Empty /\ listed = {} /\ \A u \in Threads : u # t => me[u] = Idle
  BY <1>1, <1>2, InPhase DEF EndRets
<1>4. CASE \E o \in opens : /\ refs' = [refs EXCEPT ![o] = @ - 1] /\ opens' = Leaves(o)
                            /\ FreeObj(t, obj, o, me[t]) /\ UNCHANGED session
  <2>1. PICK o \in opens : /\ refs' = [refs EXCEPT ![o] = @ - 1] /\ opens' = Leaves(o)
                           /\ FreeObj(t, obj, o, me[t]) /\ UNCHANGED session
    BY <1>4
  <2>2. o \in Objs /\ \E s \in OfUsers : Refs[s] = o
    BY TypesNow DEF OpenIn
  <2>3. PICK s \in OfUsers : Refs[s] = o
    BY <2>2
  <2>4. \A q \in Queries : query[q] = None
    <3>1. \A u \in Threads : me[u].pc # "qopen"
      BY <1>1, <1>3, CallsIs
    <3> QED BY <1>3, <3>1 DEF IInv, Listed
  <2>5. refs[o] > 0
    <3>1. CASE s \in {"query"} \X Queries
      BY <2>2, <2>3, <2>4, <3>1, RefIs, NoneIsNone
    <3>2. CASE s \in {"caller"} \X (Objs \X (1..MaxRefs))
      <4>1. PICK x \in Objs, i \in 1..MaxRefs : s = <<"caller", <<x, i>>>>
        BY <3>2
      <4>2. i <= refs[x] /\ x = o
        BY <2>2, <2>3, <4>1, RefIs, NoneIsNone
      <4>3. refs[o] \in 0..MaxRefs /\ i \in Nat /\ i > 0
        BY <2>2, TypesNow
      <4> QED BY <4>2, <4>3
    <3> QED BY <2>3, <3>1, <3>2 DEF OfUsers
  <2>6. Resumes(t, me[t])
    BY <1>1, <1>2 DEF Resumes, Rets
  <2>7. PhaseFree(t, me[t])
    <3>1. Empty'
      BY <1>1, <1>3 DEF Empty
    <3> QED BY <1>1, <1>2, <1>3, <2>1, <3>1 DEF PhaseFree, EndRets
  <2> QED BY <1>1, <1>2, <2>1, <2>2, <2>5, <2>6, <2>7, GivesBack
<1>5. CASE opens = {} /\ session' = "closed" /\ Goto(t, Idle) /\ UNCHANGED <<obj, refs, opens>>
  <2>1. me' = [me EXCEPT ![t] = Idle] /\ me'[t] = Idle /\ \A u \in Threads : u # t => me'[u] = me[u]
    BY <1>5, Live DEF Goto
  <2>2. QueryStep(t, Idle)
    BY <1>1, CallsIs, QuerySame
  <2>3. Placed(t)'
    BY <2>1, CallsIs DEF Placed, Builds
  <2>4. Phase'
    <3>1. Empty'
      BY <1>1, <1>3 DEF Empty
    <3> QED BY <1>1, <1>3, <1>5, <2>1, <3>1 DEF Phase
  <2> QED BY <1>1, <1>2, <1>5, <2>1, <2>2, <2>3, <2>4, CallsIs, EndGoes
<1> QED BY <1>4, <1>5 DEF CloseObjects

-----------------------------------------------------------------------------
(***************************************************************************)
(* The specification.                                                      *)
(***************************************************************************)
LEMMA Initially ==
  ASSUME Init
  PROVE  IInv
<1>1. /\ obj = [o \in Objs |-> Free] /\ opens = {} /\ listed = {} /\ refs = [o \in Objs |-> 0]
      /\ query = [q \in Queries |-> None] /\ cached = [f \in Files |-> None]
      /\ held = [t \in Threads |-> None] /\ me = [t \in Threads |-> Idle] /\ session = "open"
  BY DEF Init, Cache!Init
<1>2. Idle.pc = "idle" /\ Idle.file = None /\ Idle.at = None /\ Idle.hit = None
      /\ Idle.del = None /\ Idle.ret = "idle" /\ Idle.qy = None /\ Idle \in Local
  BY DEF Idle, Local, Labels
<1>3. Free \in Object /\ Free.state = "free" /\ Free.link = 0 /\ Free.child = FALSE
  BY DEF Free, Object
<1>4. \A t \in Threads : me[t] = Idle
  BY <1>1
<1>5. \A s \in Referrers : Refs[s] = None
  <2> SUFFICES ASSUME NEW s \in Referrers PROVE Refs[s] = None
    OBVIOUS
  <2>1. \A o \in Objs, i \in 1..MaxRefs : Refs[<<"caller", <<o, i>>>>] = None
    <3> SUFFICES ASSUME NEW o \in Objs, NEW i \in 1..MaxRefs
                 PROVE  Refs[<<"caller", <<o, i>>>>] = None
      OBVIOUS
    <3>1. refs[o] = 0
      BY <1>1
    <3>2. ~(i <= refs[o])
      BY <3>1, OsmlAssumption
    <3> QED BY <3>2, RefIs
  <2>2. \A t \in Threads : s \in {<<"at", t>>, <<"dc", t>>, <<"del", t>>} => Refs[s] = None
    BY <1>2, <1>4, RefIs DEF AtRef, DcRef, DelRef, Above
  <2>3. (\A q \in Queries : Refs[<<"query", q>>] = None) /\ \A f \in Files : Refs[<<"entry", f>>] = None
    BY <1>1, RefIs
  <2> QED BY <2>1, <2>2, <2>3, KindOf
<1>6. Refs \in [Referrers -> Objs \cup {None}]
  BY <1>5 DEF Refs
<1>7. Counted(Refs, obj)
  <2> SUFFICES ASSUME NEW o \in Objs
               PROVE  /\ obj[o].link = Cardinality(UsersOf(Refs, obj, o))
                      /\ obj[o].state = "live" => obj[o].link > 0
    BY <1>1, <1>3, <1>6 DEF Counted
  <2>1. UsersOf(Refs, obj, o) = {}
    BY <1>5, NoneIsNone DEF UsersOf, Above
  <2>2. Cardinality({}) = 0
    BY FS_EmptySet
  <2> QED BY <1>1, <1>3, <2>1, <2>2
<1>8. \A t \in Threads : ~Builds(t)
  BY <1>2, <1>4 DEF Builds
<1>9. Owners = {}
  BY <1>8 DEF Owners
<1>10. Graph(Refs, obj, Owners)
  <2>1. Chained(Refs, obj) /\ Separate(Refs, obj)
    BY <1>5, ReferrersFinite DEF Chained, Separate
  <2>2. Owned(Refs, obj, {})
    BY DEF Owned
  <2> QED BY <1>7, <1>9, <2>1, <2>2 DEF Graph
<1>11. opens = OpenIn(Refs, obj)
  BY <1>1, <1>5, NoneIsNone, ReferrersFinite DEF OpenIn
<1>12. Types
  BY <1>1, <1>2, OsmlAssumption DEF Types, Local
<1>13. \A t \in Threads : Placed(t)
  BY <1>2, <1>4, <1>8 DEF Placed
<1>14. Distinct /\ Closing /\ Listed /\ Uppers
  BY <1>1, <1>2, <1>3, <1>4, NoneIsNone DEF Distinct, Closing, Listed, Uppers
<1>15. Phase
  BY <1>1, <1>2, <1>4 DEF Phase, EndRets
<1> QED BY <1>10, <1>11, <1>12, <1>13, <1>14, <1>15 DEF IInv

LEMMA Stuttering ==
  ASSUME IInv, UNCHANGED vars
  PROVE  IInv'
<1>1. /\ obj' = obj /\ opens' = opens /\ refs' = refs /\ query' = query /\ listed' = listed
      /\ cached' = cached /\ held' = held /\ me' = me /\ session' = session
  BY DEF vars, cache
<1>2. Refs' = Refs
  BY <1>1 DEF Refs, RefOf, At, ForDC, Prev
<1>3. Owners' = Owners /\ \A t \in Threads : Placed(t)' = Placed(t)
  BY <1>1 DEF Owners, Builds, Placed
<1>4. /\ Types' = Types /\ Distinct' = Distinct /\ Closing' = Closing /\ Listed' = Listed
      /\ Uppers' = Uppers /\ Phase' = Phase
  BY <1>1 DEF Types, Distinct, Closing, Listed, Uppers, Phase, Empty
<1>5. Graph(Refs', obj', Owners') /\ opens' = OpenIn(Refs', obj')
  BY <1>1, <1>2, <1>3, TypesNow
<1> QED BY <1>3, <1>4, <1>5 DEF IInv, Graph, Counted, Chained, Separate, Owned, OpenIn

LEMMA EveryStep ==
  ASSUME IInv, Next
  PROVE  IInv'
<1> SUFFICES ASSUME NEW t \in Threads, Step(t) PROVE IInv'
  BY DEF Next
<1>1. CASE OpenFile(t) \/ OpenInside(t) \/ LookupHit(t) \/ LookupMiss(t) \/ LinkHit(t)
           \/ UnlinkHit(t) \/ UpperOpened(t) \/ OpenFails(t) \/ OpenDone(t) \/ AllocDC(t)
  BY <1>1, OpenFileKeeps, OpenInsideKeeps, LookupHitKeeps, LookupMissKeeps, LinkHitKeeps,
     UnlinkHitKeeps, UpperOpenedKeeps, OpenFailsKeeps, OpenDoneKeeps, AllocDCKeeps
<1>2. CASE AddDC(t) \/ AddDCDiscards(t) \/ AddDCFails(t) \/ UnlinkDC(t) \/ Closed(t)
           \/ Close(t) \/ LinkTo(t) \/ OpenQuery(t) \/ OpenQueryDone(t) \/ OpenQueryFails(t)
  BY <1>2, AddDCKeeps, AddDCDiscardsKeeps, AddDCFailsKeeps, UnlinkDCKeeps, ClosedKeeps,
     CloseKeeps, LinkToKeeps, OpenQueryKeeps, OpenQueryDoneKeeps, OpenQueryFailsKeeps
<1>3. CASE QueryFetch(t) \/ QueryFetched(t) \/ NoObject(t) \/ QueryClose(t) \/ QueryClosed(t)
           \/ OpenChild(t) \/ OpenChildDone(t)
  BY <1>3, QueryFetchKeeps, QueryFetchedKeeps, NoObjectKeeps, QueryCloseKeeps, QueryClosedKeeps,
     OpenChildKeeps, OpenChildDoneKeeps
<1>4. CASE CloseSession(t) \/ Uncache(t) \/ CloseQueries(t) \/ CloseObjects(t)
  BY <1>4, CloseSessionKeeps, UncacheKeeps, CloseQueriesKeeps, CloseObjectsKeeps
<1> QED BY <1>1, <1>2, <1>3, <1>4 DEF Step

LEMMA ObjectInvariant == Spec => []IInv
<1>1. Init => IInv
  BY Initially
<1>2. IInv /\ [Next]_vars => IInv'
  BY EveryStep, Stuttering
<1> QED BY <1>1, <1>2, PTL DEF Spec

-----------------------------------------------------------------------------
LEMMA GraphTypes ==
  ASSUME IInv
  PROVE  Refs \in [Referrers -> Objs \cup {None}] /\ obj \in [Objs -> Object]
BY DEF IInv, Graph, Counted

LEMMA UsersAre ==
  ASSUME IInv, NEW o \in Objs
  PROVE  {s \in Referrers : o \in Chain(RefOf(s))} = UsersOf(Refs, obj, o)
<1>1. \A s \in Referrers : Refs[s] = RefOf(s)
  BY DEF Refs
<1>2. ASSUME NEW s \in Referrers
      PROVE  o \in Chain(RefOf(s)) <=> Refs[s] = o \/ Above(obj, Refs[s]) = o
  BY <1>1, NoneIsNone, PrevIs DEF Chain
<1> QED BY <1>2 DEF UsersOf

LEMMA InvLinkExact ==
  ASSUME IInv
  PROVE  LinkExact
<1>1. ASSUME NEW o \in Objs
      PROVE  obj[o].link = Cardinality({s \in Referrers : o \in Chain(RefOf(s))})
  BY UsersAre, TypesNow DEF Graph, Counted
<1>2. ASSUME NEW s \in Referrers, NEW o \in Chain(RefOf(s)) PROVE obj[o].state = "live"
  <2>1. Refs[s] = RefOf(s) /\ Refs[s] \in Objs \cup {None}
    BY GraphTypes DEF Refs
  <2>2. o \in {Refs[s], Above(obj, Refs[s])} /\ o # None
    BY <2>1, PrevIs DEF Chain
  <2>3. Refs[s] # None
    BY <2>2 DEF Above
  <2> QED BY <2>2, <2>3, TypesNow DEF Graph, Chained
<1> QED BY <1>1, <1>2 DEF LinkExact

LEMMA InvOpensExact ==
  ASSUME IInv
  PROVE  OpensExact
<1>1. \A s \in OfUsers : Refs[s] = RefOf(s)
  BY ReferrersFinite DEF Refs
<1> QED BY <1>1, TypesNow DEF OpensExact, OpenIn

LEMMA InvTypeOK ==
  ASSUME IInv
  PROVE  TypeOK
<1>1. obj \in [Objs -> Object] /\ Graph(Refs, obj, Owners)
  BY GraphTypes, TypesNow
<1>2. ASSUME NEW o \in Objs PROVE obj[o].link \in Nat
  <2>1. UsersOf(Refs, obj, o) \in SUBSET Referrers
    BY DEF UsersOf
  <2> QED BY <1>1, <2>1, Counts DEF Graph, Counted
<1>3. obj \in [Objs -> [state : {"free", "live", "closing"}, child : BOOLEAN,
                       link : Nat, prev : Objs \cup {None}]]
  BY <1>1, <1>2 DEF Object
<1>4. opens \in SUBSET Objs
  BY TypesNow DEF OpenIn
<1> QED BY <1>3, <1>4 DEF TypeOK, IInv, Types

LEMMA InvSessionEnds ==
  ASSUME IInv
  PROVE  SessionEnds
<1> SUFFICES ASSUME session = "closed", NEW o \in Objs, obj[o].state # "free"
             PROVE  \E c \in Objs : obj[c].child /\ refs[c] > 0 /\ o \in Chain(c)
  BY DEF SessionEnds
<1>1. /\ \A t \in Threads : me[t] = Idle
      /\ Empty /\ listed = {} /\ opens = {}
  BY DEF IInv, Phase
<1>2. obj[o].state = "live"
  <2>1. obj[o].state # "closing"
    BY <1>1, CallsIs, NoneIsNone DEF IInv, Closing
  <2> QED BY <2>1, GraphTypes DEF Object
<1>3. UsersOf(Refs, obj, o) # {}
  <2>1. UsersOf(Refs, obj, o) \in SUBSET Referrers
    BY DEF UsersOf
  <2>2. Cardinality(UsersOf(Refs, obj, o)) > 0
    BY <1>2, TypesNow DEF Graph, Counted
  <2>3. Cardinality({}) = 0
    BY FS_EmptySet
  <2> QED BY <2>2, <2>3
<1>4. PICK s \in Referrers : Refs[s] = o \/ Above(obj, Refs[s]) = o
  BY <1>3 DEF UsersOf
<1>5. Refs[s] # None
  BY <1>4, NoneIsNone DEF Above
<1>6. PICK c \in Objs, i \in 1..MaxRefs : s = <<"caller", <<c, i>>>>
  <2>1. ASSUME NEW q \in Queries PROVE query[q] = None
    <3>1. \A t \in Threads : me[t].pc # "qopen"
      BY <1>1, CallsIs
    <3> QED BY <1>1, <3>1 DEF IInv, Listed
  <2>2. \A q \in Queries : s # <<"query", q>>
    BY <1>5, <2>1, RefIs
  <2>3. \A f \in Files : s # <<"entry", f>>
    BY <1>1, <1>5, RefIs DEF Empty
  <2>4. \A t \in Threads : s \notin {<<"at", t>>, <<"dc", t>>, <<"del", t>>}
    BY <1>1, <1>5, CallsIs, NowRefs
  <2> QED BY <2>2, <2>3, <2>4, KindOf
<1>7. Refs[s] = c /\ i <= refs[c]
  BY <1>5, <1>6, RefIs
<1>8. refs[c] > 0
  <2>1. refs[c] \in 0..MaxRefs /\ i \in Nat /\ i > 0
    BY TypesNow
  <2> QED BY <1>7, <2>1
<1>9. obj[c].child
  <2>1. s \in OfUsers
    BY <1>6, Kinds
  <2>2. c \notin OpenIn(Refs, obj)
    BY <1>1, TypesNow
  <2> QED BY <1>7, <2>1, <2>2 DEF OpenIn
<1>10. o \in Chain(c)
  BY <1>4, <1>7, NoneIsNone, PrevIs DEF Chain
<1> QED BY <1>8, <1>9, <1>10

(***************************************************************************)
(* The variables stay of their types: a link count is never negative, and  *)
(* what prev, the list, the queries and the cache name are objects.        *)
(***************************************************************************)
THEOREM TypeCorrect == Spec => []TypeOK
BY ObjectInvariant, InvTypeOK, PTL

(***************************************************************************)
(* objOpen, objClose, objLinkTo, the queries and the directory cache: the  *)
(* link count of each object is the number of those who refer to it or to  *)
(* an object behind it, and what anyone refers to is open.                 *)
(***************************************************************************)
THEOREM LinksAreExact == Spec => []LinkExact
BY ObjectInvariant, InvLinkExact, PTL

(***************************************************************************)
(* OpenObjects is exactly what callers and queries have open: an object is *)
(* taken off with its last user, whoever that is, and before it is closed. *)
(***************************************************************************)
THEOREM OpensAreExact == Spec => []OpensExact
BY ObjectInvariant, InvOpensExact, PTL

(***************************************************************************)
(* objCloseSession leaves no object, but those under what objOpenChild has *)
(* opened.                                                                 *)
(***************************************************************************)
THEOREM SessionsEnd == Spec => []SessionEnds
BY ObjectInvariant, InvSessionEnds, PTL
====
