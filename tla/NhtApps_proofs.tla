--------------------------- MODULE NhtApps_proofs ---------------------------
(***************************************************************************)
(* For any number of connections, groups and applications: the link count  *)
(* of each group and application is the number of its users while what it  *)
(* is in stands, what a request works on stands up to the session, and     *)
(* the counts stay within their bounds.                                    *)
(***************************************************************************)
EXTENDS NhtApps, Lines_proofs, FiniteSetTheorems

-----------------------------------------------------------------------------
(***************************************************************************)
(* The invariant.                                                          *)
(***************************************************************************)
Owner == [state : {"unused", "live", "freed"}, cnt : Int, group : Groups \cup {None}]
Local == [pc : Labels, app : Apps \cup {None}, group : Groups \cup {None},
          new : Owners \cup {None}, todo : Seq(Frames)]

Types ==
  /\ session \in [cnt : Int, closed : BOOLEAN, state : {"live", "freed"}]
  /\ own \in [Owners -> Owner]
  /\ groups \in Seq(Groups) /\ Once(groups)
  /\ apps \in [Groups -> Seq(Apps)] /\ \A g \in Groups : Once(apps[g])
  /\ lost \in [Apps -> Nat]
  /\ list \in SUBSET Owners
  /\ me \in [Threads -> Local]

Used(x) == own[x].state # "unused"
Live(x) == own[x].state = "live"

\* An application that was allocated is in a group that was.
Homed == \A a \in Apps : Used(a) => own[a].group \in Groups /\ Used(own[a].group)

\* What is listed is live and linked, and in the group it says.
Listed ==
  /\ \A g \in In(groups) : Live(g) /\ own[g].cnt > 0
  /\ \A g \in Groups : \A a \in In(apps[g]) : Live(a) /\ own[a].cnt > 0 /\ own[a].group = g

Outside(x) == x \notin In(groups) /\ \A g \in Groups : x \notin In(apps[g])

\* Where a thread is, and what it then has.
Placed(t) ==
  LET r == me[t] IN
  /\ t = Watchdog => r.pc \in {"scan", "pick"} /\ r.app = None /\ r.group = None
  /\ t # Watchdog => r.pc \notin {"scan", "pick"}
  /\ r.pc \in {"idle", "verify"} => r.app = None /\ r.group = None
  /\ r.new # None <=> r.pc \in {"adding", "added"}
  /\ r.pc = "newapp" => r.group # None
  /\ r.group # None => r.group \in In(groups)
  /\ r.app # None => /\ r.group # None /\ own[r.app].group = r.group
                     /\ r.app \in In(apps[r.group])
  /\ r.new # None => Live(r.new) /\ Outside(r.new)
  /\ r.new \in Groups => r.group = None
  /\ r.new \in Apps => own[r.new].group = r.group
  /\ r.pc = "adding" => r.new \notin list

\* No two threads add the same.
Apart == \A t, u \in Threads : t # u => me[t].new = None \/ me[t].new # me[u].new

\* What a thread is in the middle of ending has no reference left.
Sound(f) ==
  IF f.at = None THEN f.op # "fired" /\ (f.op # "unlink" => session.cnt = 0)
  ELSE Used(f.at) /\ (f.op \notin {"unlink", "fired"} => own[f.at].cnt <= 0)

\* Applications are ended inside of groups, and groups of the session.
Rank(f) == IF f.op = "fired" THEN 4 ELSE IF f.at = None THEN 3
           ELSE IF f.at \in Groups THEN 2 ELSE 1
Nested(q) ==
  \A i, j \in DOMAIN q : i < j =>
    Rank(q[i]) < Rank(q[j]) \/ (q[i].op \in {"rm", "rmfree"} /\ Rank(q[i]) = Rank(q[j]))
Stacked(t) == Nested(me[t].todo) /\ \A f \in In(me[t].todo) : Sound(f)

Recorded == \A x \in Owners : x \in list \/ Lost(x) > 0 => Used(x)

\* The threads that are about to release x.
Rel(x) == {t \in Threads : Do("unlink", x) \in In(me[t].todo)}
Busy == {t \in Conns : me[t].pc # "idle"}
SessionExact ==
  session.cnt = Cardinality(Busy) + Cardinality(Rel(None)) + (IF session.closed THEN 0 ELSE 1)

Refs(x) == Cardinality(Holders(x)) + Cardinality(Rel(x)) + Lost(x) + Manager(x)
Exact(x) ==
  Live(x) /\ Open(Home(x)) =>
    IF own[x].cnt > 0 THEN own[x].cnt = Refs(x) ELSE Holders(x) = {} /\ Lost(x) = 0

IInv ==
  /\ Types /\ Homed /\ Listed /\ Apart /\ Recorded /\ SessionExact
  /\ \A t \in Threads : Placed(t) /\ Stacked(t)
  /\ \A x \in Owners : Exact(x)

-----------------------------------------------------------------------------
(***************************************************************************)
(* Counting.                                                               *)
(***************************************************************************)
LEMMA NoneIsNone ==
  /\ None \notin Owners /\ None \notin Threads /\ Groups \cap Apps = {}
  /\ IsFiniteSet(Threads) /\ Watchdog \in Threads /\ Conns \in SUBSET Threads
<1>1. IsFiniteSet({Watchdog})
  BY FS_Singleton
<1>2. IsFiniteSet(Threads)
  BY <1>1, AppsAssumption, FS_Union DEF Threads
<1> QED BY <1>2, AppsAssumption DEF Threads, Owners

\* Two sets of threads that differ at most in t.
LEMMA OneMoves ==
  ASSUME NEW A, NEW B, NEW t, IsFiniteSet(A), A \ {t} = B \ {t}
  PROVE  /\ IsFiniteSet(B) /\ Cardinality(A) \in Nat /\ Cardinality(B) \in Nat
         /\ Cardinality(B) + (IF t \in A THEN 1 ELSE 0)
              = Cardinality(A) + (IF t \in B THEN 1 ELSE 0)
<1> DEFINE C == A \ {t}
<1>1. IsFiniteSet(C) /\ Cardinality(C) \in Nat
  BY FS_RemoveElement, FS_Subset, FS_CardinalityType
<1>2. IsFiniteSet(C \cup {t}) /\ Cardinality(C \cup {t}) = Cardinality(C) + 1
  BY <1>1, FS_AddElement
<1>3. A = (IF t \in A THEN C \cup {t} ELSE C) /\ B = (IF t \in B THEN C \cup {t} ELSE C)
  OBVIOUS
<1> HIDE DEF C
<1> QED BY <1>1, <1>2, <1>3

LEMMA OneToOne ==
  ASSUME NEW S, NEW T, NEW f \in [S -> T], IsFiniteSet(S),
         \A a, b \in S : f[a] = f[b] => a = b, \A y \in T : \E a \in S : f[a] = y
  PROVE  Cardinality(T) = Cardinality(S)
<1>1. f \in Injection(S, T)
  BY DEF Injection, IsInjective
<1>2. f \in Surjection(S, T)
  BY DEF Surjection
<1> QED BY <1>1, <1>2, FS_Bijection DEF Bijection, ExistsBijection

\* A thread that releases x does so once.
LEMMA ReleasesAre ==
  ASSUME NEW x, \A t \in Threads : me[t].todo \in Seq(Frames) /\ Nested(me[t].todo)
  PROVE  IsFiniteSet(Rel(x)) /\ Cardinality(Releases(x)) = Cardinality(Rel(x))
<1> DEFINE f == [t \in Rel(x) |-> <<t, CHOOSE i \in DOMAIN me[t].todo : me[t].todo[i] = Do("unlink", x)>>]
<1>1. IsFiniteSet(Rel(x))
  <2>1. Rel(x) \subseteq Threads
    BY DEF Rel
  <2> QED BY <2>1, NoneIsNone, FS_Subset
<1>2. ASSUME NEW t \in Threads, NEW i \in DOMAIN me[t].todo, NEW j \in DOMAIN me[t].todo,
             me[t].todo[i] = Do("unlink", x), me[t].todo[j] = Do("unlink", x)
      PROVE  i = j
  <2>1. ASSUME NEW a \in DOMAIN me[t].todo, NEW b \in DOMAIN me[t].todo, a < b,
               me[t].todo[a] = Do("unlink", x), me[t].todo[b] = Do("unlink", x)
        PROVE  FALSE
    <3>1. Rank(Do("unlink", x)) < Rank(Do("unlink", x)) \/ Do("unlink", x).op \in {"rm", "rmfree"}
      BY <2>1 DEF Nested
    <3>2. Rank(Do("unlink", x)) \in Nat /\ Do("unlink", x).op = "unlink"
      BY DEF Rank, Do
    <3> QED BY <3>1, <3>2
  <2>2. me[t].todo \in Seq(Frames)
    OBVIOUS
  <2>3. i \in Int /\ j \in Int
    BY <2>2
  <2> QED BY <1>2, <2>1, <2>3
<1>3. \A t \in Rel(x) : /\ t \in Threads /\ f[t][1] = t /\ f[t][2] \in DOMAIN me[t].todo
                        /\ me[t].todo[f[t][2]] = Do("unlink", x)
                        /\ f[t] = <<t, f[t][2]>>
  <2> SUFFICES ASSUME NEW t \in Rel(x)
               PROVE  /\ t \in Threads /\ f[t][1] = t /\ f[t][2] \in DOMAIN me[t].todo
                      /\ me[t].todo[f[t][2]] = Do("unlink", x)
                      /\ f[t] = <<t, f[t][2]>>
    OBVIOUS
  <2>1. \E i \in DOMAIN me[t].todo : me[t].todo[i] = Do("unlink", x)
    BY DEF Rel, In
  <2> QED BY <2>1 DEF Rel
<1>4. f \in [Rel(x) -> Releases(x)]
  <2>1. ASSUME NEW t \in Rel(x) PROVE f[t] \in Releases(x)
    <3>1. PICK i : t \in Threads /\ i \in Unlinked(me[t].todo, x) /\ f[t] = <<t, i>>
      BY <1>3 DEF Unlinked
    <3> HIDE DEF f
    <3>2. f[t] \in {t} \X Unlinked(me[t].todo, x)
      BY <3>1
    <3> QED BY <3>1, <3>2 DEF Releases
  <2> QED BY <2>1
<1>5. ASSUME NEW p \in Releases(x) PROVE \E t \in Rel(x) : f[t] = p
  <2>1. PICK t \in Threads : p \in {t} \X Unlinked(me[t].todo, x)
    BY DEF Releases
  <2>2. PICK i \in DOMAIN me[t].todo : me[t].todo[i] = Do("unlink", x) /\ p = <<t, i>>
    BY <2>1 DEF Unlinked
  <2>3. t \in Rel(x)
    BY <2>2 DEF Rel, In
  <2>4. f[t][2] = i
    BY <1>2, <1>3, <2>2, <2>3
  <2> QED BY <1>3, <2>2, <2>3, <2>4
<1>6. \A t, u \in Rel(x) : f[t] = f[u] => t = u
  BY <1>3
<1>7. \A p \in Releases(x) : \E t \in Rel(x) : f[t] = p
  BY <1>5
<1> HIDE DEF f
<1> QED BY ONLY <1>1, <1>4, <1>6, <1>7, OneToOne

-----------------------------------------------------------------------------
(***************************************************************************)
(* The stacks.                                                             *)
(***************************************************************************)
After(f, g) == Rank(f) < Rank(g) \/ (f.op \in {"rm", "rmfree"} /\ Rank(f) = Rank(g))

LEMMA TailIs ==
  ASSUME NEW q \in Seq(Frames), q # <<>>, Nested(q)
  PROVE  /\ Tail(q) \in Seq(Frames) /\ Nested(Tail(q))
         /\ In(q) = {Head(q)} \cup In(Tail(q)) /\ Head(q) \in Frames
         /\ \A g \in In(Tail(q)) : g \in Frames /\ After(Head(q), g)
<1>1. Len(q) \in Nat \ {0} /\ DOMAIN q = 1..Len(q) /\ Head(q) = q[1]
      /\ Tail(q) \in Seq(Frames) /\ DOMAIN Tail(q) = 1..(Len(q) - 1)
      /\ \A i \in 1..(Len(q) - 1) : Tail(q)[i] = q[i + 1]
  OBVIOUS
<1>2. \A i \in 1..Len(q) : q[i] \in Frames
  BY <1>1
<1>3. Nested(Tail(q))
  <2> SUFFICES ASSUME NEW i \in 1..(Len(q) - 1), NEW j \in 1..(Len(q) - 1), i < j
               PROVE  \/ Rank(Tail(q)[i]) < Rank(Tail(q)[j])
                      \/ Tail(q)[i].op \in {"rm", "rmfree"} /\ Rank(Tail(q)[i]) = Rank(Tail(q)[j])
    BY <1>1 DEF Nested
  <2>1. i + 1 \in 1..Len(q) /\ j + 1 \in 1..Len(q) /\ i + 1 < j + 1
    BY <1>1
  <2> QED BY <1>1, <2>1 DEF Nested
<1>4. ASSUME NEW g \in In(Tail(q)) PROVE g \in Frames /\ After(Head(q), g)
  <2>1. PICK i \in 1..(Len(q) - 1) : g = q[i + 1]
    BY <1>1 DEF In
  <2>2. i + 1 \in 1..Len(q) /\ 1 \in 1..Len(q) /\ 1 < i + 1
    BY <1>1
  <2> QED BY <1>1, <1>2, <2>1, <2>2 DEF Nested, After
<1>5. In(q) = {Head(q)} \cup In(Tail(q))
  <2>1. \A i \in 1..Len(q) : i = 1 \/ (i - 1 \in 1..(Len(q) - 1) /\ q[i] = Tail(q)[i - 1])
    BY <1>1
  <2>2. \A i \in 1..(Len(q) - 1) : i + 1 \in 1..Len(q)
    BY <1>1
  <2>3. 1 \in 1..Len(q)
    BY <1>1
  <2> DEFINE r == Tail(q)
  <2>4. DOMAIN r = 1..(Len(q) - 1) /\ \A i \in 1..(Len(q) - 1) : r[i] = q[i + 1]
    BY <1>1
  <2> HIDE DEF r
  <2>5. ASSUME NEW x \in In(q) PROVE x \in {Head(q)} \cup In(r)
    <3>1. PICK i \in 1..Len(q) : x = q[i]
      BY <1>1 DEF In
    <3>2. CASE i = 1
      BY <1>1, <3>1, <3>2
    <3>3. CASE i # 1
      <4>1. i - 1 \in 1..(Len(q) - 1) /\ x = r[i - 1]
        BY <2>1, <3>1, <3>3 DEF r
      <4> QED BY <2>4, <4>1 DEF In
    <3> QED BY <3>2, <3>3
  <2>6. ASSUME NEW x \in In(r) PROVE x \in In(q)
    BY <1>1, <2>2, <2>4 DEF In
  <2>7. Head(q) \in In(q)
    BY <1>1, <2>3 DEF In
  <2> QED BY <2>5, <2>6, <2>7 DEF r
<1> QED BY <1>1, <1>2, <1>3, <1>4, <1>5

LEMMA PushIs ==
  ASSUME NEW q \in Seq(Frames), Nested(q), NEW f \in Frames,
         \A g \in In(q) : After(f, g)
  PROVE  /\ <<f>> \o q \in Seq(Frames) /\ Nested(<<f>> \o q)
         /\ In(<<f>> \o q) = {f} \cup In(q)
<1> DEFINE r == <<f>> \o q
<1>1. /\ Len(q) \in Nat /\ DOMAIN q = 1..Len(q) /\ r \in Seq(Frames)
      /\ DOMAIN r = 1..(Len(q) + 1) /\ r[1] = f
      /\ \A i \in 2..(Len(q) + 1) : r[i] = q[i - 1]
  OBVIOUS
<1>2. In(r) = {f} \cup In(q)
  <2>1. \A i \in 1..(Len(q) + 1) : i = 1 \/ (i \in 2..(Len(q) + 1) /\ i - 1 \in 1..Len(q))
    BY <1>1
  <2>2. \A i \in 1..Len(q) : i + 1 \in 2..(Len(q) + 1) /\ i + 1 \in 1..(Len(q) + 1) /\ (i + 1) - 1 = i
    BY <1>1
  <2>3. 1 \in 1..(Len(q) + 1)
    BY <1>1
  <2> HIDE DEF r
  <2>4. \A x \in In(r) : x \in {f} \cup In(q)
    BY <1>1, <2>1 DEF In
  <2>5. f \in In(r)
    BY <1>1, <2>3 DEF In
  <2>6. ASSUME NEW i \in 1..Len(q) PROVE q[i] \in In(r)
    BY <1>1, <2>2 DEF In
  <2>7. \A x \in In(q) : x \in In(r)
    BY <1>1, <2>6 DEF In
  <2> QED BY <2>4, <2>5, <2>7
<1>3. Nested(r)
  <2> SUFFICES ASSUME NEW i \in 1..(Len(q) + 1), NEW j \in 1..(Len(q) + 1), i < j
               PROVE  \/ Rank(r[i]) < Rank(r[j])
                      \/ r[i].op \in {"rm", "rmfree"} /\ Rank(r[i]) = Rank(r[j])
    BY <1>1 DEF Nested
  <2>1. j \in 2..(Len(q) + 1) /\ j - 1 \in 1..Len(q) /\ r[j] = q[j - 1]
    BY <1>1
  <2> HIDE DEF r
  <2>2. CASE i = 1
    <3>1. q[j - 1] \in In(q)
      BY <1>1, <2>1 DEF In
    <3> QED BY <1>1, <2>1, <2>2, <3>1 DEF After
  <2>3. CASE i # 1
    <3>1. i \in 2..(Len(q) + 1) /\ i - 1 \in 1..Len(q) /\ i - 1 < j - 1 /\ r[i] = q[i - 1]
      BY <1>1, <2>1, <2>3
    <3> QED BY SMTT(30), <1>1, <2>1, <3>1 DEF Nested
  <2> QED BY <2>2, <2>3
<1> QED BY <1>1, <1>2, <1>3

LEMMA RankIs ==
  ASSUME NEW op \in Ops
  PROVE  /\ \A x \in Owners \cup {None} : /\ Do(op, x) \in Frames
                                          /\ Do(op, x).op = op /\ Do(op, x).at = x
         /\ \A f \in Frames : Rank(f) \in 1..4 /\ f = Do(f.op, f.at)
         /\ \A x \in Owners \cup {None} : Rank(Do("fired", x)) = 4
         /\ op # "fired" => /\ Rank(Do(op, None)) = 3
                            /\ \A g \in Groups : Rank(Do(op, g)) = 2
                            /\ \A a \in Apps : Rank(Do(op, a)) = 1
BY NoneIsNone DEF Frames, Do, Rank, Owners

LEMMA EmptyStack ==
  <<>> \in Seq(Frames) /\ Nested(<<>>) /\ In(<<>>) = {}
<1>1. <<>> \in Seq(Frames) /\ DOMAIN <<>> = {}
  OBVIOUS
<1> QED BY <1>1 DEF Nested, In

-----------------------------------------------------------------------------
(***************************************************************************)
(* A step of thread t, whose variables are r afterwards.                   *)
(***************************************************************************)
Has(x, r)   == IF x \in {r.app, r.group, r.new} THEN 1 ELSE 0
Owes(x, r)  == IF Do("unlink", x) \in In(r.todo) THEN 1 ELSE 0
Works(t, r) == IF t \in Conns /\ r.pc # "idle" THEN 1 ELSE 0
Kept == IF session.closed THEN 0 ELSE 1

Now(t, r) == r \in Local /\ me' = [me EXCEPT ![t] = r]

LEMMA NowIs ==
  ASSUME Types, NEW t \in Threads, NEW r, Now(t, r)
  PROVE  /\ me' \in [Threads -> Local] /\ me'[t] = r /\ r \in Local
         /\ \A u \in Threads : u # t => me'[u] = me[u]
BY DEF Now, Types

LEMMA HoldersMove ==
  ASSUME Types, NEW t \in Threads, NEW r, Now(t, r), NEW x \in Owners
  PROVE  /\ Cardinality(Holders(x)) \in Nat /\ Cardinality(Holders(x))' \in Nat
         /\ Cardinality(Holders(x))' + Has(x, me[t]) = Cardinality(Holders(x)) + Has(x, r)
         /\ Cardinality(Holders(x))' = 0 <=> Holders(x)' = {}
         /\ Holders(x)' \ {t} = Holders(x) \ {t}
<1> DEFINE A == Holders(x)
           B == Holders(x)'
<1>1. A \subseteq Threads /\ IsFiniteSet(A)
  <2>1. A \subseteq Threads
    BY DEF Holders
  <2> QED BY <2>1, NoneIsNone, FS_Subset
<1>2. A \ {t} = B \ {t}
  BY NowIs DEF Holders
<1>3. (IF t \in A THEN 1 ELSE 0) = Has(x, me[t]) /\ (IF t \in B THEN 1 ELSE 0) = Has(x, r)
  BY NowIs DEF Holders, Has
<1>4. /\ IsFiniteSet(B) /\ Cardinality(A) \in Nat /\ Cardinality(B) \in Nat
      /\ Cardinality(B) + (IF t \in A THEN 1 ELSE 0) = Cardinality(A) + (IF t \in B THEN 1 ELSE 0)
  <2> HIDE DEF A, B
  <2> QED BY ONLY <1>1, <1>2, OneMoves
<1>5. Cardinality(B) = 0 <=> B = {}
  <2> HIDE DEF B
  <2> QED BY <1>4, FS_EmptySet
<1> QED BY <1>2, <1>3, <1>4, <1>5

LEMMA RelMoves ==
  ASSUME Types, NEW t \in Threads, NEW r, Now(t, r), NEW x
  PROVE  /\ Cardinality(Rel(x)) \in Nat /\ Cardinality(Rel(x))' \in Nat
         /\ Cardinality(Rel(x))' + Owes(x, me[t]) = Cardinality(Rel(x)) + Owes(x, r)
         /\ Cardinality(Rel(x)) >= Owes(x, me[t])
<1> DEFINE A == Rel(x)
           B == Rel(x)'
<1>1. A \subseteq Threads /\ IsFiniteSet(A)
  <2>1. A \subseteq Threads
    BY DEF Rel
  <2> QED BY <2>1, NoneIsNone, FS_Subset
<1>2. A \ {t} = B \ {t}
  BY NowIs DEF Rel
<1>3. (IF t \in A THEN 1 ELSE 0) = Owes(x, me[t]) /\ (IF t \in B THEN 1 ELSE 0) = Owes(x, r)
  BY NowIs DEF Rel, Owes
<1>4. /\ Cardinality(A) \in Nat /\ Cardinality(B) \in Nat
      /\ Cardinality(B) + (IF t \in A THEN 1 ELSE 0) = Cardinality(A) + (IF t \in B THEN 1 ELSE 0)
  <2> HIDE DEF A, B
  <2> QED BY ONLY <1>1, <1>2, OneMoves
<1>5. Cardinality(A) = 0 <=> A = {}
  <2> HIDE DEF A
  <2> QED BY <1>1, FS_EmptySet
<1> QED BY <1>3, <1>4, <1>5

LEMMA BusyMoves ==
  ASSUME Types, NEW t \in Threads, NEW r, Now(t, r)
  PROVE  /\ Cardinality(Busy) \in Nat /\ Cardinality(Busy)' \in Nat
         /\ Cardinality(Busy)' + Works(t, me[t]) = Cardinality(Busy) + Works(t, r)
<1> DEFINE A == Busy
           B == Busy'
<1>1. A \subseteq Threads /\ IsFiniteSet(A)
  <2>1. A \subseteq Threads
    BY NoneIsNone DEF Busy
  <2> QED BY <2>1, NoneIsNone, FS_Subset
<1>2. A \ {t} = B \ {t}
  BY NowIs, NoneIsNone DEF Busy
<1>3. (IF t \in A THEN 1 ELSE 0) = Works(t, me[t]) /\ (IF t \in B THEN 1 ELSE 0) = Works(t, r)
  BY NowIs DEF Busy, Works
<1>4. /\ Cardinality(A) \in Nat /\ Cardinality(B) \in Nat
      /\ Cardinality(B) + (IF t \in A THEN 1 ELSE 0) = Cardinality(A) + (IF t \in B THEN 1 ELSE 0)
  <2> HIDE DEF A, B
  <2> QED BY ONLY <1>1, <1>2, OneMoves
<1> QED BY <1>3, <1>4

(***************************************************************************)
(* The session is linked by who works on it: the count of the session      *)
(* follows what t does, and is not zero during a request.                  *)
(***************************************************************************)
SessionFlow(t, r) ==
  session'.cnt + Works(t, me[t]) + Owes(None, me[t]) + Kept
    = session.cnt + Works(t, r) + Owes(None, r) + Kept'

LEMMA SessionKeeps ==
  ASSUME Types, SessionExact, NEW t \in Threads, NEW r, Now(t, r),
         session' \in [cnt : Int, closed : BOOLEAN, state : {"live", "freed"}],
         SessionFlow(t, r)
  PROVE  SessionExact'
<1>1. session.cnt = Cardinality(Busy) + Cardinality(Rel(None)) + Kept
  BY DEF SessionExact, Kept
<1>2. session.cnt \in Int /\ session'.cnt \in Int
  BY DEF Types
<1>3. /\ Kept \in Int /\ Kept' \in Int /\ Works(t, me[t]) \in Int /\ Works(t, r) \in Int
      /\ Owes(None, me[t]) \in Int /\ Owes(None, r) \in Int
  BY DEF Kept, Works, Owes
<1>4. /\ Cardinality(Busy) \in Nat /\ Cardinality(Busy)' \in Nat
      /\ Cardinality(Busy)' + Works(t, me[t]) = Cardinality(Busy) + Works(t, r)
  BY BusyMoves
<1>5. /\ Cardinality(Rel(None)) \in Nat /\ Cardinality(Rel(None))' \in Nat
      /\ Cardinality(Rel(None))' + Owes(None, me[t]) = Cardinality(Rel(None)) + Owes(None, r)
  BY RelMoves
<1>6. session'.cnt = Cardinality(Busy)' + Cardinality(Rel(None))' + Kept'
  <2>1. session'.cnt + Works(t, me[t]) + Owes(None, me[t]) + Kept
          = session.cnt + Works(t, r) + Owes(None, r) + Kept'
    BY DEF SessionFlow
  <2> HIDE DEF SessionFlow
  <2>2. PICK w \in Int : w = Works(t, me[t])
    BY <1>3
  <2>3. PICK w1 \in Int : w1 = Works(t, r)
    BY <1>3
  <2>4. PICK o \in Int : o = Owes(None, me[t])
    BY <1>3
  <2>5. PICK o1 \in Int : o1 = Owes(None, r)
    BY <1>3
  <2>6. PICK k \in Int : k = Kept
    BY <1>3
  <2>7. PICK k1 \in Int : k1 = Kept'
    BY <1>3
  <2>8. PICK b \in Int, b1 \in Int : b = Cardinality(Busy) /\ b1 = Cardinality(Busy)'
    BY <1>4
  <2>9. PICK l \in Int, l1 \in Int : l = Cardinality(Rel(None)) /\ l1 = Cardinality(Rel(None))'
    BY <1>5
  <2>10. PICK s \in Int, s1 \in Int : s = session.cnt /\ s1 = session'.cnt
    BY <1>2
  <2>11. s = b + l + k /\ b1 + w = b + w1 /\ l1 + o = l + o1 /\ s1 + w + o + k = s + w1 + o1 + k1
    BY ONLY <1>1, <1>4, <1>5, <2>1, <2>2, <2>3, <2>4, <2>5, <2>6, <2>7, <2>8, <2>9, <2>10
  <2>12. s1 = b1 + l1 + k1
    BY ONLY <2>11, w \in Int, w1 \in Int, o \in Int, o1 \in Int, k \in Int, k1 \in Int, b \in Int, b1 \in Int, l \in Int, l1 \in Int, s \in Int, s1 \in Int
  <2> QED BY ONLY <2>12, <2>7, <2>8, <2>9, <2>10
<1> QED BY <1>6 DEF SessionExact, Kept

LEMMA SessionOpen ==
  ASSUME Types, SessionExact, NEW u \in Conns, me[u].pc # "idle"
  PROVE  session.cnt > 0
<1>1. Busy \subseteq Threads /\ IsFiniteSet(Busy)
  <2>1. Busy \subseteq Threads
    BY NoneIsNone DEF Busy
  <2> QED BY <2>1, NoneIsNone, FS_Subset
<1>2. Rel(None) \subseteq Threads /\ IsFiniteSet(Rel(None))
  <2>1. Rel(None) \subseteq Threads
    BY DEF Rel
  <2> QED BY <2>1, NoneIsNone, FS_Subset
<1>3. Cardinality(Busy) \in Nat /\ Cardinality(Busy) # 0 /\ Cardinality(Rel(None)) \in Nat
  <2>1. Busy # {}
    BY DEF Busy
  <2> QED BY <1>1, <1>2, <2>1, FS_EmptySet, FS_CardinalityType
<1> QED BY <1>3 DEF SessionExact

LEMMA SessionNat ==
  ASSUME Types, SessionExact
  PROVE  session.cnt \in Nat /\ (~session.closed => session.cnt > 0)
<1>1. Busy \subseteq Threads /\ Rel(None) \subseteq Threads
  BY NoneIsNone DEF Busy, Rel
<1>2. Cardinality(Busy) \in Nat /\ Cardinality(Rel(None)) \in Nat
  BY <1>1, NoneIsNone, FS_Subset, FS_CardinalityType
<1> QED BY <1>2 DEF SessionExact

\* What a thread has is live and linked, and so is what it is in.
LEMMA Held ==
  ASSUME IInv, NEW u \in Threads, NEW x \in Owners, u \in Holders(x)
  PROVE  /\ Live(x) /\ own[x].cnt > 0 /\ Open(Home(x)) /\ Used(x)
         /\ u \in Conns /\ me[u].pc # "idle" /\ session.cnt > 0
         /\ x \in Apps => own[x].group = me[u].group
<1>1. /\ Types /\ SessionExact /\ Listed /\ Homed /\ Placed(u) /\ Exact(x)
  BY DEF IInv
<1>2. me[u] \in Local /\ x # None
  BY <1>1, NoneIsNone DEF Types
<1>3. u # Watchdog /\ me[u].pc # "idle"
  BY <1>1, <1>2 DEF Placed, Holders
<1>4. u \in Conns /\ session.cnt > 0
  BY <1>1, <1>3, SessionOpen DEF Threads
<1>5. \A g \in In(groups) : g \in Groups
  BY <1>1 DEF Types, In
<1>6. me[u].group # None => /\ me[u].group \in Groups /\ Live(me[u].group)
                            /\ own[me[u].group].cnt > 0
  BY <1>1, <1>2 DEF Placed, Listed, Local
<1>7. CASE x \in Groups
  <2>1. Home(x) = None
    BY <1>7 DEF Home
  <2>2. x = me[u].group \/ x = me[u].new
    BY <1>2, <1>7, NoneIsNone DEF Holders, Local
  <2>3. Live(x) /\ Open(Home(x))
    BY <1>1, <1>2, <1>4, <1>6, <2>1, <2>2 DEF Open, Placed
  <2>4. own[x].cnt > 0
    BY <1>1, <2>3 DEF Exact
  <2> QED BY <1>3, <1>4, <1>7, <2>3, <2>4, NoneIsNone DEF Live, Used
<1>8. CASE x \in Apps
  <2>1. x \notin Groups /\ Home(x) = own[x].group
    BY <1>8, NoneIsNone DEF Home
  <2>2. x = me[u].app \/ x = me[u].new
    BY <1>2, <2>1 DEF Holders, Local
  <2>3. own[x].group = me[u].group
    BY <1>1, <1>2, <1>8, <2>2 DEF Placed
  <2>4. Live(x)
    <3>1. CASE x = me[u].new
      BY <1>1, <1>2, <3>1 DEF Placed
    <3>2. CASE x = me[u].app
      <4>1. x \in In(apps[me[u].group])
        BY <1>1, <1>2, <3>2 DEF Placed
      <4>2. me[u].group # None
        BY <1>1, <1>2, <1>3, <3>2, <2>3, <4>1 DEF Placed
      <4> QED BY <1>1, <1>6, <4>1, <4>2 DEF Listed
    <3> QED BY <2>2, <3>1, <3>2
  <2>5. me[u].group \in Groups
    BY <1>1, <1>8, <2>3, <2>4 DEF Homed, Used, Live
  <2>6. Open(Home(x))
    BY <1>6, <2>1, <2>3, <2>5, NoneIsNone DEF Open, Live, Owners
  <2>7. own[x].cnt > 0
    BY <1>1, <2>4, <2>6 DEF Exact
  <2> QED BY <1>3, <1>4, <2>3, <2>4, <2>6, <2>7 DEF Live, Used
<1> QED BY <1>7, <1>8 DEF Owners

-----------------------------------------------------------------------------
(***************************************************************************)
(* What a step leaves to the other threads.                                *)
(***************************************************************************)
\* Nothing is used again, nor linked again once it has no reference.
Sinks ==
  /\ session.cnt = 0 => session'.cnt = 0
  /\ \A x \in Owners : Used(x) =>
       /\ own'[x].state # "unused" /\ own'[x].group = own[x].group
       /\ own[x].cnt <= 0 => own'[x].cnt <= 0

\* What the others have stays listed, what is listed was or was new to t.
Keeps(t) ==
  /\ \A x \in Owners : Live(x) /\ own[x].cnt > 0 => own'[x].state = "live"
  /\ \A u \in Threads \ {t} :
       /\ me[u].group # None => me[u].group \in In(groups')
       /\ me[u].app # None => me[u].app \in In(apps'[me[u].group])
  /\ In(groups') \subseteq In(groups) \cup {me[t].new}
  /\ \A g \in Groups : In(apps'[g]) \subseteq In(apps[g]) \cup {me[t].new}
  /\ list' \subseteq list \cup {me[t].new}

LEMMA StacksKept ==
  ASSUME Types, NEW t \in Threads, NEW r, Now(t, r), Sinks,
         NEW u \in Threads, u # t, Stacked(u)
  PROVE  Stacked(u)'
<1>1. me'[u] = me[u] /\ me[u].todo \in Seq(Frames)
  BY NowIs DEF Types, Local
<1>2. ASSUME NEW f \in In(me[u].todo) PROVE Sound(f)'
  <2>1. f \in Frames
    BY <1>1, <1>2 DEF In
  <2>2. Sound(f)
    BY <1>2 DEF Stacked
  <2> QED BY <2>1, <2>2 DEF Sound, Used, Sinks, Frames
<1>3. In(me'[u].todo) = In(me[u].todo) /\ Nested(me[u].todo)
  BY <1>1 DEF Stacked
<1>4. \A f \in In(me'[u].todo) : Sound(f)'
  BY <1>2, <1>3
<1> QED BY <1>1, <1>3, <1>4 DEF Stacked

LEMMA OthersPlaced ==
  ASSUME IInv, NEW t \in Threads, NEW r, Now(t, r), Sinks, Keeps(t),
         NEW u \in Threads, u # t
  PROVE  Placed(u)'
<1> DEFINE v == me[u]
<1>1. Types /\ Placed(u) /\ Apart
  BY DEF IInv
<1>2. me'[u] = v /\ v \in Local
  BY <1>1, NowIs DEF Types
<1>3. /\ v.app \in Apps \cup {None} /\ v.group \in Groups \cup {None}
      /\ v.new \in Owners \cup {None}
  BY <1>2 DEF Local
<1>4. ASSUME NEW x \in Owners, x \in {v.app, v.group, v.new}
      PROVE  own'[x].state = "live" /\ own'[x].group = own[x].group
  <2>1. Live(x) /\ own[x].cnt > 0 /\ Used(x)
    BY <1>4, Held DEF Holders
  <2> QED BY <2>1 DEF Keeps, Sinks
<1>5. v.new # None => v.new # me[t].new
  BY <1>1 DEF Apart
<1>6. v.new # None => /\ own'[v.new].state = "live" /\ v.new \notin In(groups')
                      /\ \A g \in Groups : v.new \notin In(apps'[g])
  <2> SUFFICES ASSUME v.new # None
               PROVE  /\ own'[v.new].state = "live" /\ v.new \notin In(groups')
                      /\ \A g \in Groups : v.new \notin In(apps'[g])
    OBVIOUS
  <2>1. Outside(v.new) /\ v.new \in Owners
    BY <1>1, <1>3 DEF Placed
  <2>2. own'[v.new].state = "live"
    BY <1>4, <2>1
  <2> QED BY <1>5, <2>1, <2>2 DEF Outside, Keeps
<1>7. v.app # None => /\ v.group # None /\ own'[v.app].group = v.group
                      /\ v.app \in In(apps'[v.group])
  <2> SUFFICES ASSUME v.app # None
               PROVE  /\ v.group # None /\ own'[v.app].group = v.group
                      /\ v.app \in In(apps'[v.group])
    OBVIOUS
  <2>1. v.group # None /\ own[v.app].group = v.group /\ v.app \in Owners
    BY <1>1, <1>3 DEF Placed, Owners
  <2> QED BY <1>4, <2>1 DEF Keeps
<1>8. v.group # None => v.group \in In(groups')
  BY DEF Keeps
<1>9. v.new \in Apps => own'[v.new].group = v.group
  <2> SUFFICES ASSUME v.new \in Apps PROVE own'[v.new].group = v.group
    OBVIOUS
  <2>1. own[v.new].group = v.group /\ v.new \in Owners
    BY <1>1 DEF Placed, Owners
  <2> QED BY <1>4, <2>1
<1>10. v.pc = "adding" => v.new \notin list'
  <2> SUFFICES ASSUME v.pc = "adding" PROVE v.new \notin list'
    OBVIOUS
  <2>1. v.new # None /\ v.new \notin list
    BY <1>1 DEF Placed
  <2> QED BY <1>5, <2>1 DEF Keeps
<1>11. /\ u = Watchdog => v.pc \in {"scan", "pick"} /\ v.app = None /\ v.group = None
       /\ u # Watchdog => v.pc \notin {"scan", "pick"}
       /\ v.pc \in {"idle", "verify"} => v.app = None /\ v.group = None
       /\ (v.new # None <=> v.pc \in {"adding", "added"})
       /\ v.pc = "newapp" => v.group # None
       /\ v.new \in Groups => v.group = None
  BY <1>1 DEF Placed
<1> HIDE DEF v
<1> QED BY <1>2, <1>6, <1>7, <1>8, <1>9, <1>10, <1>11 DEF Placed, Live, Outside

(***************************************************************************)
(* The count of an owner follows its references.                           *)
(***************************************************************************)
Flow(t, r, x) ==
  /\ own'[x].state = "live" /\ Open(Home(x))' => Live(x) /\ Open(Home(x))
  /\ own[x].cnt > 0 =>
       own'[x].cnt + Has(x, me[t]) + Owes(x, me[t]) + Lost(x) + Manager(x)
         = own[x].cnt + Has(x, r) + Owes(x, r) + Lost(x)' + Manager(x)'
  /\ own[x].cnt <= 0 => own'[x].cnt <= 0 /\ Has(x, r) = 0 /\ Lost(x)' = Lost(x)

LEMMA ExactKeeps ==
  ASSUME IInv, NEW t \in Threads, NEW r, Now(t, r), Types',
         NEW x \in Owners, Flow(t, r, x)
  PROVE  Exact(x)'
<1>1. Types /\ Exact(x)
  BY DEF IInv
<1>2. SUFFICES ASSUME Live(x)', Open(Home(x))'
               PROVE  IF own'[x].cnt > 0 THEN own'[x].cnt = Refs(x)'
                      ELSE Holders(x)' = {} /\ Lost(x)' = 0
  BY DEF Exact
<1>3. IF own[x].cnt > 0 THEN own[x].cnt = Refs(x) ELSE Holders(x) = {} /\ Lost(x) = 0
  BY <1>1, <1>2 DEF Exact, Flow, Live
<1>4. /\ Cardinality(Holders(x)) \in Nat /\ Cardinality(Holders(x))' \in Nat
      /\ Cardinality(Holders(x))' + Has(x, me[t]) = Cardinality(Holders(x)) + Has(x, r)
      /\ Cardinality(Holders(x))' = 0 <=> Holders(x)' = {}
      /\ Holders(x)' \ {t} = Holders(x) \ {t}
  BY <1>1, HoldersMove
<1>5. /\ Cardinality(Rel(x)) \in Nat /\ Cardinality(Rel(x))' \in Nat
      /\ Cardinality(Rel(x))' + Owes(x, me[t]) = Cardinality(Rel(x)) + Owes(x, r)
  BY <1>1, RelMoves
<1>6. /\ Manager(x) \in Nat /\ Manager(x)' \in Nat
      /\ Lost(x) \in Nat /\ Lost(x)' \in Nat
      /\ Has(x, me[t]) \in Int /\ Has(x, r) \in Int
      /\ Owes(x, me[t]) \in Int /\ Owes(x, r) \in Int
  BY <1>1 DEF Manager, Lost, Has, Owes, Types
<1>7. own[x] \in Owner /\ own'[x] \in Owner /\ own[x].cnt \in Int /\ own'[x].cnt \in Int
  BY <1>1 DEF Types, Owner
<1>8. CASE own[x].cnt <= 0
  <2>1. own'[x].cnt <= 0 /\ Has(x, r) = 0 /\ Lost(x)' = Lost(x)
    BY <1>8 DEF Flow
  <2>2. Holders(x) = {} /\ Lost(x) = 0
    BY <1>3, <1>7, <1>8
  <2>3. t \notin Holders(x)'
    BY <1>1, <2>1, NowIs DEF Has, Holders
  <2> QED BY <1>4, <1>7, <2>1, <2>2, <2>3
<1>9. CASE own[x].cnt > 0
  <2>1. own[x].cnt = Refs(x)
    BY <1>3, <1>9
  <2>2. own'[x].cnt + Has(x, me[t]) + Owes(x, me[t]) + Lost(x) + Manager(x)
          = own[x].cnt + Has(x, r) + Owes(x, r) + Lost(x)' + Manager(x)'
    BY <1>9 DEF Flow
  <2>3. PICK c \in Int, c1 \in Int : c = own[x].cnt /\ c1 = own'[x].cnt
    BY <1>7
  <2>4. PICK h \in Nat, h1 \in Nat : h = Cardinality(Holders(x)) /\ h1 = Cardinality(Holders(x))'
    BY <1>4
  <2>5. PICK l \in Nat, l1 \in Nat : l = Cardinality(Rel(x)) /\ l1 = Cardinality(Rel(x))'
    BY <1>5
  <2>6. PICK m \in Nat, m1 \in Nat : m = Manager(x) /\ m1 = Manager(x)'
    BY <1>6
  <2>7. PICK n \in Nat, n1 \in Nat : n = Lost(x) /\ n1 = Lost(x)'
    BY <1>6
  <2>8. PICK a \in Int, a1 \in Int : a = Has(x, me[t]) /\ a1 = Has(x, r)
    BY <1>6
  <2>9. PICK b \in Int, b1 \in Int : b = Owes(x, me[t]) /\ b1 = Owes(x, r)
    BY <1>6
  <2>10. /\ c = h + l + n + m /\ h1 + a = h + a1 /\ l1 + b = l + b1
         /\ c1 + a + b + n + m = c + a1 + b1 + n1 + m1
    BY <1>4, <1>5, <2>1, <2>2, <2>3, <2>4, <2>5, <2>6, <2>7, <2>8, <2>9 DEF Refs
  <2>11. c1 = h1 + l1 + n1 + m1
    BY ONLY <2>10, c \in Int, c1 \in Int, h \in Nat, h1 \in Nat, l \in Nat, l1 \in Nat,
            m \in Nat, m1 \in Nat, n \in Nat, n1 \in Nat, a \in Int, a1 \in Int,
            b \in Int, b1 \in Int
  <2>12. own'[x].cnt = Refs(x)'
    BY <2>3, <2>4, <2>5, <2>6, <2>7, <2>11 DEF Refs
  <2>13. c1 <= 0 => h1 = 0 /\ n1 = 0
    BY ONLY <2>11, c1 \in Int, h1 \in Nat, l1 \in Nat, m1 \in Nat, n1 \in Nat
  <2> QED BY <1>4, <2>3, <2>4, <2>7, <2>12, <2>13
<1> QED BY <1>7, <1>8, <1>9

(***************************************************************************)
(* A step keeps the invariant when it keeps these.                         *)
(***************************************************************************)
LEMMA StepKeeps ==
  ASSUME IInv, NEW t \in Threads, NEW r, Now(t, r),
         Types', Homed', Listed', Recorded', Sinks, Keeps(t), SessionFlow(t, r),
         Placed(t)', Stacked(t)',
         \A u \in Threads : u # t => r.new = None \/ me[u].new # r.new,
         \A x \in Owners : Flow(t, r, x) \/ Exact(x)'
  PROVE  IInv'
<1>1. Types /\ SessionExact /\ Apart /\ \A u \in Threads : Stacked(u)
  BY DEF IInv
<1>2. SessionExact'
  BY <1>1, SessionKeeps DEF Types
<1>3. Apart'
  BY <1>1, NowIs DEF Apart
<1>4. \A u \in Threads : Placed(u)'
  BY OthersPlaced
<1>5. \A u \in Threads : Stacked(u)'
  BY <1>1, StacksKept
<1>6. \A x \in Owners : Exact(x)'
  BY ExactKeeps
<1> QED BY <1>2, <1>3, <1>4, <1>5, <1>6 DEF IInv

-----------------------------------------------------------------------------
(***************************************************************************)
(* What a thread does next takes the place of the first it had to do.      *)
(***************************************************************************)
Removing == {"rm", "rmfree"}
Below(f, h) ==
  Rank(f) < Rank(h) \/ (Rank(f) = Rank(h) /\ (h.op \in Removing => f.op \in Removing))

LEMMA Popped ==
  ASSUME Types, NEW t \in Threads, Stacked(t), me[t].todo # <<>>
  PROVE  /\ Tail(me[t].todo) \in Seq(Frames) /\ Nested(Tail(me[t].todo))
         /\ Head(me[t].todo) \in Frames /\ Sound(Head(me[t].todo))
         /\ In(me[t].todo) = {Head(me[t].todo)} \cup In(Tail(me[t].todo))
         /\ \A g \in In(Tail(me[t].todo)) :
              g \in Frames /\ After(Head(me[t].todo), g) /\ Sound(g)
         /\ <<>> \o Tail(me[t].todo) = Tail(me[t].todo)
<1> DEFINE q == Tail(me[t].todo)
           h == Head(me[t].todo)
<1>1. me[t].todo \in Seq(Frames) /\ Nested(me[t].todo)
  BY DEF Types, Local, Stacked
<1>2. /\ q \in Seq(Frames) /\ Nested(q)
      /\ In(me[t].todo) = {h} \cup In(q) /\ h \in Frames
      /\ \A g \in In(q) : g \in Frames /\ After(h, g)
  BY <1>1, TailIs
<1>3. Sound(h) /\ \A g \in In(q) : Sound(g)
  BY <1>2 DEF Stacked
<1>4. <<>> \o q = q
  BY <1>2
<1> QED BY <1>2, <1>3, <1>4

LEMMA PushOne ==
  ASSUME Types, NEW t \in Threads, Stacked(t), me[t].todo # <<>>,
         NEW f \in Frames, Below(f, Head(me[t].todo))
  PROVE  /\ <<f>> \o Tail(me[t].todo) \in Seq(Frames) /\ Nested(<<f>> \o Tail(me[t].todo))
         /\ In(<<f>> \o Tail(me[t].todo)) = {f} \cup In(Tail(me[t].todo))
<1> DEFINE q == Tail(me[t].todo)
           h == Head(me[t].todo)
<1>1. /\ q \in Seq(Frames) /\ Nested(q) /\ h \in Frames
      /\ \A g \in In(q) : g \in Frames /\ After(h, g)
  BY Popped
<1>2. ASSUME NEW g \in In(q) PROVE After(f, g)
  <2>1. g \in Frames /\ After(h, g)
    BY <1>1
  <2>2. Rank(f) \in 1..4 /\ Rank(g) \in 1..4 /\ Rank(h) \in 1..4
    BY <1>1, <2>1 DEF Rank
  <2> QED BY <2>1, <2>2 DEF After, Below, Removing
<1> QED BY <1>1, <1>2, PushIs

LEMMA TwoIs ==
  ASSUME NEW q \in Seq(Frames), NEW f \in Frames, NEW g \in Frames
  PROVE  <<f, g>> \o q = <<f>> \o (<<g>> \o q)
<1> DEFINE A == <<f, g>> \o q
           p == <<g>> \o q
           B == <<f>> \o p
<1>1. /\ Len(q) \in Nat /\ A \in Seq(Frames) /\ Len(A) = Len(q) + 2
      /\ A[1] = f /\ A[2] = g /\ \A i \in 3..(Len(q) + 2) : A[i] = q[i - 2]
  OBVIOUS
<1>2. /\ p \in Seq(Frames) /\ Len(p) = Len(q) + 1
      /\ p[1] = g /\ \A i \in 2..(Len(q) + 1) : p[i] = q[i - 1]
  BY <1>1
<1>3. B \in Seq(Frames) /\ Len(B) = Len(q) + 2 /\ B[1] = f
      /\ \A i \in 2..(Len(q) + 2) : B[i] = p[i - 1]
  <2> HIDE DEF p
  <2> QED BY <1>1, <1>2
<1> HIDE DEF A, B, p
<1>4. ASSUME NEW i \in 1..(Len(q) + 2) PROVE A[i] = B[i]
  <2>1. CASE i = 1
    BY <1>1, <1>3, <2>1
  <2>2. CASE i = 2
    BY <1>1, <1>2, <1>3, <2>2
  <2>3. CASE i \in 3..(Len(q) + 2)
    <3>1. i - 1 \in 2..(Len(q) + 1) /\ (i - 1) - 1 = i - 2 /\ i \in 2..(Len(q) + 2)
      BY <1>1, <2>3
    <3> QED BY <1>1, <1>2, <1>3, <2>3, <3>1
  <2> QED BY <1>1, <2>1, <2>2, <2>3
<1>5. /\ A = [i \in 1..(Len(q) + 2) |-> A[i]]
      /\ B = [i \in 1..(Len(q) + 2) |-> B[i]]
  BY <1>1, <1>3
<1> QED BY <1>4, <1>5 DEF A, B, p

LEMMA PushTwo ==
  ASSUME Types, NEW t \in Threads, Stacked(t), me[t].todo # <<>>,
         NEW f \in Frames, NEW g \in Frames, Below(f, Head(me[t].todo)),
         Below(g, Head(me[t].todo)), After(f, g)
  PROVE  /\ <<f, g>> \o Tail(me[t].todo) \in Seq(Frames)
         /\ Nested(<<f, g>> \o Tail(me[t].todo))
         /\ In(<<f, g>> \o Tail(me[t].todo)) = {f, g} \cup In(Tail(me[t].todo))
<1> DEFINE q == Tail(me[t].todo)
           h == Head(me[t].todo)
           p == <<g>> \o q
<1>1. /\ q \in Seq(Frames) /\ h \in Frames
      /\ \A k \in In(q) : k \in Frames /\ After(h, k)
  BY Popped
<1>2. p \in Seq(Frames) /\ Nested(p) /\ In(p) = {g} \cup In(q)
  BY PushOne
<1>3. ASSUME NEW k \in In(p) PROVE After(f, k)
  <2>1. CASE k = g
    BY <2>1
  <2>2. CASE k \in In(q)
    <3>1. k \in Frames /\ After(h, k)
      BY <1>1, <2>2
    <3>2. Rank(f) \in 1..4 /\ Rank(k) \in 1..4 /\ Rank(h) \in 1..4
      BY <1>1, <3>1 DEF Rank
    <3> QED BY <3>1, <3>2 DEF After, Below, Removing
  <2> QED BY <1>2, <1>3, <2>1, <2>2
<1>4. <<f, g>> \o q = <<f>> \o p
  BY <1>1, TwoIs
<1>5. <<f>> \o p \in Seq(Frames) /\ Nested(<<f>> \o p) /\ In(<<f>> \o p) = {f} \cup In(p)
  <2> HIDE DEF p
  <2> QED BY <1>2, <1>3, PushIs
<1> QED BY <1>2, <1>4, <1>5

\* What is owed changes with what is taken off and put on.
LEMMA Owing ==
  ASSUME Types, NEW t \in Threads, Stacked(t), me[t].todo # <<>>,
         NEW S, NEW r, In(r.todo) = S \cup In(Tail(me[t].todo)),
         NEW x \in Owners \cup {None}, Do("unlink", x) \notin S
  PROVE  /\ Head(me[t].todo) # Do("unlink", x) => Owes(x, r) = Owes(x, me[t])
         /\ Head(me[t].todo) = Do("unlink", x) => Owes(x, me[t]) = 1 /\ Owes(x, r) = 0
<1> DEFINE q == Tail(me[t].todo)
           h == Head(me[t].todo)
           u == Do("unlink", x)
<1>1. /\ h \in Frames /\ In(me[t].todo) = {h} \cup In(q)
      /\ \A g \in In(q) : g \in Frames /\ After(h, g)
  BY Popped
<1>2. h = u => u \notin In(q)
  <2> SUFFICES ASSUME h = u, u \in In(q) PROVE FALSE
    OBVIOUS
  <2>1. After(u, u) /\ u.op = "unlink" /\ Rank(u) \in 1..4
    BY <1>1, RankIs DEF Do, Ops
  <2> QED BY <2>1 DEF After
<1> QED BY <1>1, <1>2 DEF Owes

-----------------------------------------------------------------------------
(***************************************************************************)
(* Steps that change the thread only, and perhaps the session.             *)
(***************************************************************************)
Same(t, r) == r.new = me[t].new /\ (r.pc = "adding" <=> me[t].pc = "adding")
Calm == UNCHANGED <<own, groups, apps, lost, list>>

LEMMA ManagerSame ==
  ASSUME Types, NEW t \in Threads, NEW r, Now(t, r), Same(t, r),
         NEW x \in Owners, x \in list' <=> x \in list
  PROVE  Manager(x)' = Manager(x)
<1>1. \A u \in Conns : me'[u].pc = "adding" /\ me'[u].new = x
                         <=> me[u].pc = "adding" /\ me[u].new = x
  BY NowIs, NoneIsNone DEF Same
<1> QED BY <1>1 DEF Manager

\* What t has, if it stays where it is.
LEMMA StaysPlaced ==
  ASSUME IInv, NEW t \in Threads, NEW r, Now(t, r), Calm,
         r.pc = me[t].pc, r.app = me[t].app, r.group = me[t].group, r.new = me[t].new
  PROVE  Placed(t)'
<1>1. Placed(t) /\ Types
  BY DEF IInv
<1>2. me'[t] = r
  BY <1>1, NowIs
<1> QED BY <1>1, <1>2 DEF Placed, Calm, Live, Outside

LEMMA CalmKeeps ==
  ASSUME IInv, NEW t \in Threads, NEW r, Now(t, r), Calm, Same(t, r),
         session' \in [cnt : Int, closed : BOOLEAN, state : {"live", "freed"}],
         session.cnt <= 0 => session'.cnt <= 0, session.cnt = 0 => session'.cnt = 0,
         SessionFlow(t, r), Placed(t)', Stacked(t)',
         \A x \in Owners :
           \/ ~Open(Home(x))'
           \/ /\ Has(x, r) + Owes(x, r) = Has(x, me[t]) + Owes(x, me[t])
              /\ Has(x, r) <= Has(x, me[t])
  PROVE  IInv'
<1>1. Types /\ Homed /\ Listed /\ Recorded /\ Apart
      /\ \A u \in Threads : Placed(u)
  BY DEF IInv
<1>2. Types'
  BY <1>1, NowIs DEF Types, Calm
<1>3. Homed' /\ Listed' /\ Recorded'
  BY <1>1 DEF Homed, Listed, Recorded, Calm, Used, Live, Lost
<1>4. Sinks
  BY <1>1 DEF Sinks, Calm, Used
<1>5. Keeps(t)
  <2>1. \A u \in Threads \ {t} :
          /\ me[u].group # None => me[u].group \in In(groups)
          /\ me[u].app # None => me[u].app \in In(apps[me[u].group])
    BY <1>1 DEF Placed
  <2> QED BY <2>1 DEF Keeps, Calm, Live
<1>6. \A u \in Threads : u # t => r.new = None \/ me[u].new # r.new
  BY <1>1 DEF Apart, Same
<1>7. ASSUME NEW x \in Owners PROVE Flow(t, r, x) \/ Exact(x)'
  <2>1. CASE ~Open(Home(x))'
    BY <2>1 DEF Exact
  <2>2. CASE /\ Has(x, r) + Owes(x, r) = Has(x, me[t]) + Owes(x, me[t])
             /\ Has(x, r) <= Has(x, me[t])
    <3>1. Manager(x)' = Manager(x) /\ Lost(x)' = Lost(x)
      BY <1>1, ManagerSame DEF Calm, Lost
    <3>2. own'[x].cnt = own[x].cnt /\ (own'[x].state = "live" <=> Live(x))
      BY DEF Calm, Live
    <3>3. Open(Home(x))' => Open(Home(x))
      <4>1. session.cnt \in Int /\ session'.cnt \in Int
        BY <1>1 DEF Types
      <4> QED BY <4>1 DEF Open, Home, Calm
    <3>4. own[x].cnt <= 0 => Has(x, r) = 0
      <4>1. Has(x, me[t]) = 1 => own[x].cnt > 0
        BY Held DEF Has, Holders
      <4>2. Has(x, me[t]) \in 0..1 /\ Has(x, r) \in 0..1 /\ own[x].cnt \in Int
        BY <1>1 DEF Has, Types, Owner
      <4> QED BY <2>2, <4>1, <4>2
    <3>5. own[x].cnt + Has(x, me[t]) + Owes(x, me[t]) = own[x].cnt + Has(x, r) + Owes(x, r)
      <4>1. /\ Has(x, me[t]) \in Int /\ Has(x, r) \in Int /\ own[x].cnt \in Int
            /\ Owes(x, me[t]) \in Int /\ Owes(x, r) \in Int
        BY <1>1 DEF Has, Owes, Types, Owner
      <4> QED BY <2>2, <4>1
    <3> QED BY <3>1, <3>2, <3>3, <3>4, <3>5 DEF Flow
  <2> QED BY <1>7, <2>1, <2>2
<1> QED BY <1>2, <1>3, <1>4, <1>5, <1>6, <1>7, StepKeeps

LEMMA MovesPlaced ==
  ASSUME IInv, NEW t \in Threads, NEW r, Now(t, r), Calm,
         r.app = me[t].app, r.group = me[t].group, r.new = None, me[t].new = None,
         t = Watchdog <=> r.pc \in {"scan", "pick"},
         r.pc \in {"idle", "verify"} => r.app = None /\ r.group = None,
         r.pc \notin {"adding", "added"}, r.pc = "newapp" => r.group # None
  PROVE  Placed(t)'
<1>1. Placed(t) /\ Types
  BY DEF IInv
<1>2. me'[t] = r
  BY <1>1, NowIs
<1>3. None \notin Groups /\ None \notin Apps
  BY NoneIsNone DEF Owners
<1> QED BY <1>1, <1>2, <1>3 DEF Placed, Calm, Live, Outside

\* A thread that goes on, with the same to do.
LEMMA MovesOn ==
  ASSUME IInv, NEW t \in Threads, NEW l \in Labels, me' = [me EXCEPT ![t] = To(t, l)], Calm,
         session' \in [cnt : Int, closed : BOOLEAN, state : {"live", "freed"}],
         session.cnt <= 0 => session'.cnt <= 0, session.cnt = 0 => session'.cnt = 0,
         SessionFlow(t, To(t, l)), me[t].pc \notin {"adding", "added"}, l \notin {"adding", "added"},
         t = Watchdog <=> l \in {"scan", "pick"},
         l \in {"idle", "verify"} => me[t].app = None /\ me[t].group = None,
         l = "newapp" => me[t].group # None
  PROVE  IInv'
<1> DEFINE r == To(t, l)
<1>1. Types /\ Placed(t) /\ Stacked(t) /\ me[t] \in Local
  BY DEF IInv, Types
<1>2. /\ r \in Local /\ r.pc = l /\ r.app = me[t].app /\ r.group = me[t].group
      /\ r.new = me[t].new /\ r.todo = me[t].todo
  BY <1>1 DEF To, Local
<1>3. Now(t, r)
  BY <1>2 DEF Now
<1>4. me[t].new = None
  BY <1>1 DEF Placed
<1> HIDE DEF r
<1>5. Placed(t)'
  BY <1>2, <1>3, <1>4, MovesPlaced
<1>6. Stacked(t)'
  <2>1. me'[t] = r
    BY <1>1, <1>3, NowIs
  <2>2. \A f \in In(me[t].todo) : f \in Frames
    BY <1>1 DEF In, Local
  <2> QED BY <1>1, <1>2, <2>1, <2>2 DEF Stacked, Sound, Used, Calm, Frames
<1>7. Same(t, r)
  BY <1>2 DEF Same
<1>8. \A x \in Owners : Has(x, r) = Has(x, me[t]) /\ Owes(x, r) = Owes(x, me[t])
  BY <1>2 DEF Has, Owes
<1>9. \A x \in Owners : /\ Has(x, r) + Owes(x, r) = Has(x, me[t]) + Owes(x, me[t])
                        /\ Has(x, r) <= Has(x, me[t])
  BY <1>8 DEF Has
<1>10. SessionFlow(t, r)
  BY DEF r
<1> QED BY <1>3, <1>5, <1>6, <1>7, <1>9, <1>10, CalmKeeps

LEMMA SessionSame ==
  ASSUME IInv, NEW t \in Threads, NEW r, UNCHANGED session,
         Works(t, r) = Works(t, me[t]), Owes(None, r) = Owes(None, me[t])
  PROVE  /\ session' \in [cnt : Int, closed : BOOLEAN, state : {"live", "freed"}]
         /\ session.cnt <= 0 => session'.cnt <= 0
         /\ session.cnt = 0 => session'.cnt = 0
         /\ SessionFlow(t, r)
BY DEF IInv, Types, SessionFlow, Kept

LEMMA PausesKeep ==
  ASSUME IInv, NEW t \in Threads, NEW l \in Labels, me' = [me EXCEPT ![t] = To(t, l)],
         Calm, UNCHANGED session, me[t].pc \notin {"adding", "added", "idle"},
         l \notin {"adding", "added", "idle", "verify"},
         t = Watchdog <=> l \in {"scan", "pick"}, l = "newapp" => me[t].group # None
  PROVE  IInv'
<1>1. me[t] \in Local
  BY DEF IInv, Types
<1>2. To(t, l).pc = l /\ To(t, l).todo = me[t].todo
  BY <1>1 DEF To, Local
<1>3. Works(t, To(t, l)) = Works(t, me[t]) /\ Owes(None, To(t, l)) = Owes(None, me[t])
  BY <1>2 DEF Works, Owes
<1>4. /\ session' \in [cnt : Int, closed : BOOLEAN, state : {"live", "freed"}]
      /\ session.cnt <= 0 => session'.cnt <= 0
      /\ session.cnt = 0 => session'.cnt = 0
      /\ SessionFlow(t, To(t, l))
  BY <1>3, SessionSame
<1> QED BY <1>4, MovesOn

LEMMA UseGroupKeeps ==
  ASSUME IInv, NEW t \in Conns, UseGroup(t)
  PROVE  IInv'
<1>1. t \in Threads /\ t # Watchdog
  BY NoneIsNone, AppsAssumption
<1>2. PICK l \in {"newapp", "held"} :
        me' = [me EXCEPT ![t] = To(t, l)] /\ (l = "newapp" => me[t].group # None)
  BY DEF UseGroup, Stay
<1>3. me[t].pc = "work" /\ l \in Labels
  BY DEF UseGroup, Turn, Labels
<1>4. Calm /\ UNCHANGED session
  BY DEF UseGroup, held, timers, Calm
<1> QED BY <1>1, <1>2, <1>3, <1>4, PausesKeep

LEMMA OpenOsmlKeeps ==
  ASSUME IInv, NEW t \in Conns, OpenOsml(t)
  PROVE  IInv'
<1>1. t \in Threads /\ t # Watchdog
  BY NoneIsNone, AppsAssumption
<1>2. me' = [me EXCEPT ![t] = To(t, "done")] /\ me[t].pc = "held" /\ "done" \in Labels
  BY DEF OpenOsml, Goto, Turn, Labels
<1>3. Calm /\ UNCHANGED session
  BY DEF OpenOsml, timers, Calm
<1> QED BY <1>1, <1>2, <1>3, PausesKeep

LEMMA WatchdogLockKeeps ==
  ASSUME IInv, WatchdogLock
  PROVE  IInv'
<1>1. Watchdog \in Threads
  BY NoneIsNone
<1>2. /\ me' = [me EXCEPT ![Watchdog] = To(Watchdog, "pick")]
      /\ me[Watchdog].pc = "scan" /\ "pick" \in Labels
  BY DEF WatchdogLock, Goto, Turn, Labels
<1>3. Calm /\ UNCHANGED session
  BY DEF WatchdogLock, held, Calm
<1> QED BY <1>1, <1>2, <1>3, PausesKeep

LEMMA FindSessionKeeps ==
  ASSUME IInv, NEW t \in Conns, FindSession(t)
  PROVE  IInv'
<1> DEFINE r == To(t, "verify")
<1>1. Types /\ SessionExact /\ Placed(t) /\ t \in Threads /\ t # Watchdog
  BY NoneIsNone, AppsAssumption DEF IInv
<1>2. /\ me' = [me EXCEPT ![t] = r] /\ me[t].pc = "idle" /\ "verify" \in Labels
      /\ ~session.closed /\ session' = [session EXCEPT !.cnt = @ + 1]
  BY DEF FindSession, Goto, Turn, Labels
<1>3. Calm
  BY DEF FindSession, timers, Calm
<1>4. session.cnt \in Nat /\ session.cnt > 0
  BY <1>1, <1>2, SessionNat
<1>5. /\ session' \in [cnt : Int, closed : BOOLEAN, state : {"live", "freed"}]
      /\ session'.cnt = session.cnt + 1 /\ session'.closed = session.closed
  <2>1. session \in [cnt : Int, closed : BOOLEAN, state : {"live", "freed"}]
    BY <1>1 DEF Types
  <2>2. PICK n \in Int : n = session.cnt + 1
    BY <1>4
  <2>3. session' = [session EXCEPT !.cnt = n]
    BY <1>2, <2>2
  <2> QED BY ONLY <2>1, <2>2, <2>3
<1>6. me[t] \in Local
  BY <1>1 DEF Types
<1>7. r.pc = "verify" /\ r.todo = me[t].todo
  BY <1>6 DEF To, Local
<1>8. SessionFlow(t, r)
  <2>1. /\ Works(t, r) = 1 /\ Works(t, me[t]) = 0 /\ Owes(None, r) = Owes(None, me[t])
        /\ Kept' = Kept
    BY <1>2, <1>5, <1>7 DEF Works, Owes, Kept
  <2>2. Owes(None, me[t]) \in Int /\ Kept \in Int
    BY DEF Owes, Kept
  <2> HIDE DEF r
  <2> QED BY <1>4, <1>5, <2>1, <2>2 DEF SessionFlow
<1>9. me[t].app = None /\ me[t].group = None
  BY <1>1, <1>2 DEF Placed
<1>10. session.cnt <= 0 => session'.cnt <= 0
  BY <1>4
<1>11. session.cnt = 0 => session'.cnt = 0
  BY <1>4
<1>12. SessionFlow(t, To(t, "verify"))
  BY <1>8
<1>13. me' = [me EXCEPT ![t] = To(t, "verify")]
  BY <1>2
<1> HIDE DEF r
<1> QED BY <1>1, <1>2, <1>3, <1>5, <1>9, <1>10, <1>11, <1>12, <1>13, MovesOn

-----------------------------------------------------------------------------
(***************************************************************************)
(* A retirement, and the end of a connection.                              *)
(***************************************************************************)
LEMMA OneStack ==
  ASSUME NEW f \in Frames
  PROVE  <<f>> \in Seq(Frames) /\ Nested(<<f>>) /\ In(<<f>>) = {f}
<1>1. <<f>> \in Seq(Frames) /\ DOMAIN <<f>> = 1..1 /\ <<f>>[1] = f
  OBVIOUS
<1>2. \A i \in 1..1 : i = 1
  OBVIOUS
<1> QED BY <1>1, <1>2 DEF Nested, In

LEMMA NothingOwed ==
  ASSUME NEW t \in Threads, me[t].todo = <<>>, NEW x
  PROVE  Owes(x, me[t]) = 0
BY EmptyStack DEF Owes

LEMMA RetiresKeep ==
  ASSUME IInv, NEW t \in Threads, me[t].todo = <<>>, NEW l, Retire(t, To(t, l)), UNCHANGED list,
         \/ t \in Conns /\ me[t].pc = "held" /\ l = "done"
         \/ t = Watchdog /\ me[t].pc = "pick" /\ l = "scan"
  PROVE  IInv'
<1> DEFINE q == IF session.closed THEN <<>> ELSE <<Do("unlink", None)>>
           r == [To(t, l) EXCEPT !.todo = q]
<1>1. Types /\ Placed(t) /\ me[t] \in Local
  BY DEF IInv, Types
<1>2. q \in Seq(Frames) /\ Nested(q) /\ In(q) = (IF session.closed THEN {} ELSE {Do("unlink", None)})
  <2>1. Do("unlink", None) \in Frames
    BY RankIs DEF Ops
  <2> QED BY <2>1, OneStack, EmptyStack
<1>3. me' = [me EXCEPT ![t] = r] /\ Calm
  BY DEF Retire, Goto, Calm
<1>4. /\ r \in Local /\ r.pc = l /\ r.app = me[t].app /\ r.group = me[t].group
      /\ r.new = me[t].new /\ r.todo = q
  <2> HIDE DEF q
  <2>1. l \in Labels
    BY DEF Labels
  <2> QED BY <1>1, <1>2, <2>1 DEF To, Local
<1> HIDE DEF r, q
<1>5. Now(t, r) /\ me'[t] = r
  BY <1>1, <1>3, <1>4 DEF Now, Types
<1>6. t = Watchdog <=> l = "scan"
  BY AppsAssumption
<1>7. me[t].new = None
  BY <1>1 DEF Placed
<1>8. Placed(t)'
  BY <1>3, <1>4, <1>5, <1>6, <1>7, MovesPlaced
<1>9. session' = [session EXCEPT !.closed = TRUE]
  BY DEF Retire
<1>10. /\ session' \in [cnt : Int, closed : BOOLEAN, state : {"live", "freed"}]
       /\ session'.cnt = session.cnt /\ session'.closed /\ session.cnt \in Int
  BY <1>1, <1>9 DEF Types
<1>11. Stacked(t)'
  <2>1. \A f \in In(q) : Sound(f)'
    BY <1>2, RankIs DEF Sound, Ops
  <2> QED BY <1>2, <1>4, <1>5, <2>1 DEF Stacked
<1>12. /\ \A x \in Owners : Has(x, r) = Has(x, me[t]) /\ Owes(x, r) = 0 /\ Owes(x, me[t]) = 0
       /\ Owes(None, r) = (IF session.closed THEN 0 ELSE 1) /\ Owes(None, me[t]) = 0
       /\ Works(t, r) = Works(t, me[t])
  <2>1. \A x \in Owners : Do("unlink", x) \notin In(q)
    BY <1>2, NoneIsNone DEF Do
  <2> QED BY <1>2, <1>4, <2>1, NothingOwed DEF Has, Owes, Works
<1>13. SessionFlow(t, r)
  <2>1. Kept' = 0 /\ Kept = (IF session.closed THEN 0 ELSE 1) /\ Works(t, me[t]) \in Int
    BY <1>10 DEF Kept, Works
  <2>2. CASE session.closed
    <3>1. Kept = 0 /\ Owes(None, r) = 0 /\ Owes(None, me[t]) = 0
      BY <1>12, <2>1, <2>2
    <3> QED BY <1>10, <1>12, <2>1, <3>1 DEF SessionFlow
  <2>3. CASE ~session.closed
    <3>1. Kept = 1 /\ Owes(None, r) = 1 /\ Owes(None, me[t]) = 0
      BY <1>12, <2>1, <2>3
    <3> QED BY <1>10, <1>12, <2>1, <3>1 DEF SessionFlow
  <2> QED BY <2>2, <2>3
<1>14. Same(t, r)
  BY <1>4 DEF Same
<1>15. \A x \in Owners : /\ Has(x, r) + Owes(x, r) = Has(x, me[t]) + Owes(x, me[t])
                         /\ Has(x, r) <= Has(x, me[t])
  BY <1>12 DEF Has
<1>16. (session.cnt <= 0 => session'.cnt <= 0) /\ (session.cnt = 0 => session'.cnt = 0)
  BY <1>10
<1> QED BY <1>3, <1>5, <1>8, <1>10, <1>11, <1>13, <1>14, <1>15, <1>16, CalmKeeps

LEMMA AnswerKeeps ==
  ASSUME IInv, NEW t \in Conns, Answer(t)
  PROVE  IInv'
<1>1. t \in Threads /\ t # Watchdog /\ me[t].pc = "held" /\ me[t].todo = <<>>
  BY NoneIsNone, AppsAssumption DEF Answer, Turn
<1>2. CASE Goto(t, To(t, "done")) /\ UNCHANGED held
  <2>1. /\ me' = [me EXCEPT ![t] = To(t, "done")] /\ "done" \in Labels
        /\ Calm /\ UNCHANGED session
    BY <1>2 DEF Answer, timers, Goto, held, Calm, Labels
  <2> QED BY <1>1, <2>1, PausesKeep
<1>3. CASE Retire(t, To(t, "done"))
  <2>1. UNCHANGED list
    BY DEF Answer, timers
  <2> QED BY <1>1, <1>3, <2>1, RetiresKeep
<1> QED BY <1>2, <1>3 DEF Answer

LEMMA PairIs ==
  ASSUME NEW f \in Frames, NEW g \in Frames
  PROVE  <<f>> \o <<g>> = <<f, g>>
<1> DEFINE A == <<f>> \o <<g>>
           B == <<f, g>>
<1>1. A \in Seq(Frames) /\ Len(A) = 2 /\ A[1] = f /\ A[2] = g
  OBVIOUS
<1>2. B \in Seq(Frames) /\ Len(B) = 2 /\ B[1] = f /\ B[2] = g
  OBVIOUS
<1> HIDE DEF A, B
<1>3. \A i \in 1..2 : A[i] = B[i]
  BY <1>1, <1>2
<1>4. A = [i \in 1..2 |-> A[i]] /\ B = [i \in 1..2 |-> B[i]]
  BY <1>1, <1>2
<1>5. A = B
  BY <1>3, <1>4
<1> QED BY <1>5 DEF A, B

LEMMA LinksAre ==
  ASSUME NEW r \in Local
  PROVE  /\ Links(r) \in Seq(Frames) /\ Nested(Links(r))
         /\ In(Links(r)) = {Do("unlink", x) : x \in {r.app, r.group, None}}
<1> DEFINE a == Do("unlink", r.app)
           g == Do("unlink", r.group)
           s == Do("unlink", None)
<1>1. r.app \in Apps \cup {None} /\ r.group \in Groups \cup {None}
  BY DEF Local
<1>2. /\ s \in Frames /\ a \in Frames /\ g \in Frames
      /\ Rank(s) = 3 /\ (r.group # None => Rank(g) = 2) /\ (r.app # None => Rank(a) = 1)
  BY <1>1, RankIs DEF Ops, Owners
<1>3. r.group # None => After(g, s) /\ (r.app # None => After(a, g))
  BY <1>2 DEF After
<1>4. r.app # None => After(a, s)
  BY <1>2 DEF After
<1>5. <<s>> \in Seq(Frames) /\ Nested(<<s>>) /\ In(<<s>>) = {s}
  BY <1>2, OneStack
<1>6. r.group # None => /\ <<g>> \o <<s>> \in Seq(Frames) /\ Nested(<<g>> \o <<s>>)
                        /\ In(<<g>> \o <<s>>) = {g, s}
  BY ZenonT(40), <1>2, <1>3, <1>5, PushIs
<1>7. /\ r.app = None => a = s
      /\ r.group = None => g = s
      /\ {Do("unlink", x) : x \in {r.app, r.group, None}} = {a, g, s}
  OBVIOUS
<1> HIDE DEF a, g, s
<1>8. Links(r) = ((IF r.app = None THEN <<>> ELSE <<a>>)
                   \o (IF r.group = None THEN <<>> ELSE <<g>>)) \o <<s>>
  BY DEF Links, a, g, s
<1>9. CASE r.app = None /\ r.group = None
  <2>1. Links(r) = <<s>>
    BY <1>2, <1>8, <1>9
  <2> QED BY <1>5, <1>7, <1>9, <2>1
<1>10. CASE r.app = None /\ r.group # None
  <2>1. Links(r) = <<g>> \o <<s>>
    BY <1>2, <1>8, <1>10
  <2> QED BY <1>6, <1>7, <1>10, <2>1
<1>11. CASE r.app # None /\ r.group = None
  <2>1. Links(r) = <<a>> \o <<s>>
    BY <1>2, <1>8, <1>11
  <2>2. /\ <<a>> \o <<s>> \in Seq(Frames) /\ Nested(<<a>> \o <<s>>)
        /\ In(<<a>> \o <<s>>) = {a, s}
    BY <1>2, <1>4, <1>5, <1>11, PushIs
  <2> QED BY <1>7, <1>11, <2>1, <2>2
<1>12. CASE r.app # None /\ r.group # None
  <2> DEFINE p == <<g>> \o <<s>>
  <2>1. <<a>> \o <<g>> = <<a, g>>
    BY <1>2, PairIs
  <2>2. Links(r) = <<a, g>> \o <<s>>
    BY <1>8, <1>12, <2>1
  <2>3. Links(r) = <<a>> \o p
    BY <1>2, <1>5, <2>2, TwoIs
  <2>4. p \in Seq(Frames) /\ Nested(p) /\ In(p) = {g, s}
    BY <1>6, <1>12
  <2>5. \A k \in In(p) : After(a, k)
    BY <1>3, <1>4, <1>12, <2>4
  <2> HIDE DEF p
  <2>6. <<a>> \o p \in Seq(Frames) /\ Nested(<<a>> \o p) /\ In(<<a>> \o p) = {a} \cup In(p)
    BY <1>2, <2>4, <2>5, PushIs
  <2> QED BY <1>7, <2>3, <2>4, <2>6
<1> QED BY <1>9, <1>10, <1>11, <1>12

LEMMA FreeConnKeeps ==
  ASSUME IInv, NEW t \in Conns, FreeConn(t)
  PROVE  IInv'
<1> DEFINE q == Links(me[t])
           r == [Idle EXCEPT !.todo = q]
<1>1. t \in Threads /\ t # Watchdog /\ me[t].pc = "done" /\ me[t].todo = <<>>
  BY NoneIsNone, AppsAssumption DEF FreeConn, Turn
<1>2. Types /\ Placed(t) /\ me[t] \in Local /\ me[t].new = None
  BY <1>1 DEF IInv, Types, Placed
<1>3. /\ q \in Seq(Frames) /\ Nested(q)
      /\ In(q) = {Do("unlink", x) : x \in {me[t].app, me[t].group, None}}
  BY <1>2, LinksAre
<1>4. me' = [me EXCEPT ![t] = r] /\ Calm /\ UNCHANGED session
  BY DEF FreeConn, Stay, held, timers, Calm
<1>5. r \in Local /\ r.pc = "idle" /\ r.app = None /\ r.group = None /\ r.new = None /\ r.todo = q
  <2> HIDE DEF q
  <2> QED BY <1>3 DEF Idle, Local, Labels
<1> HIDE DEF q, r
<1>6. Now(t, r) /\ me'[t] = r
  BY <1>1, <1>2, <1>4, <1>5 DEF Now, Types
<1>7. Placed(t)'
  BY <1>1, <1>5, <1>6, NoneIsNone DEF Placed, Owners
<1>8. Stacked(t)'
  <2>1. ASSUME NEW f \in In(q) PROVE Sound(f)'
    <3>1. PICK x \in {me[t].app, me[t].group, None} : f = Do("unlink", x)
      BY <1>3, <2>1
    <3>2. x \in Owners => Used(x)
      <4> SUFFICES ASSUME x \in Owners PROVE Used(x)
        OBVIOUS
      <4>1. t \in Holders(x)
        BY <1>1, <3>1, NoneIsNone DEF Holders
      <4> QED BY <1>1, <4>1, Held
    <3>3. x \in Owners \cup {None}
      BY <1>2, <3>1 DEF Local, Owners
    <3> QED BY <1>4, <3>1, <3>2, <3>3 DEF Sound, Do, Used, Calm
  <2> QED BY <1>3, <1>5, <1>6, <2>1 DEF Stacked
<1>9. \A x \in Owners : Has(x, r) = 0 /\ Owes(x, r) = Has(x, me[t]) /\ Owes(x, me[t]) = 0
  <2> SUFFICES ASSUME NEW x \in Owners
               PROVE  Has(x, r) = 0 /\ Owes(x, r) = Has(x, me[t]) /\ Owes(x, me[t]) = 0
    OBVIOUS
  <2>1. x # None
    BY NoneIsNone
  <2>2. Has(x, r) = 0
    BY <1>5, <2>1 DEF Has
  <2>3. Do("unlink", x) \in In(q) <=> x \in {me[t].app, me[t].group}
    BY <1>3, <2>1 DEF Do
  <2> QED BY <1>1, <1>2, <1>5, <2>1, <2>2, <2>3, NothingOwed DEF Has, Owes
<1>10. Owes(None, r) = 1 /\ Owes(None, me[t]) = 0 /\ Works(t, r) = 0 /\ Works(t, me[t]) = 1
  BY <1>1, <1>3, <1>5, NothingOwed DEF Owes, Works
<1>11. /\ session' \in [cnt : Int, closed : BOOLEAN, state : {"live", "freed"}]
       /\ session'.cnt = session.cnt /\ session.cnt \in Int
  BY <1>2, <1>4 DEF Types
<1>12. SessionFlow(t, r)
  <2>1. Kept' = Kept /\ Kept \in Int
    BY <1>4 DEF Kept
  <2> QED BY <1>10, <1>11, <2>1 DEF SessionFlow
<1>13. Same(t, r)
  BY <1>1, <1>2, <1>5 DEF Same
<1>14. \A x \in Owners : /\ Has(x, r) + Owes(x, r) = Has(x, me[t]) + Owes(x, me[t])
                         /\ Has(x, r) <= Has(x, me[t])
  BY <1>9 DEF Has
<1>15. (session.cnt <= 0 => session'.cnt <= 0) /\ (session.cnt = 0 => session'.cnt = 0)
  BY <1>11
<1> QED BY <1>1, <1>4, <1>6, <1>7, <1>8, <1>11, <1>12, <1>13, <1>14, <1>15, CalmKeeps

-----------------------------------------------------------------------------
(***************************************************************************)
(* A thread in the middle of an unlink.                                    *)
(***************************************************************************)
Steps(t, steps, S) ==
  /\ steps \o Tail(me[t].todo) \in Seq(Frames) /\ Nested(steps \o Tail(me[t].todo))
  /\ In(steps \o Tail(me[t].todo)) = S \cup In(Tail(me[t].todo))

Sounds(S) == \A f \in S : Sound(f)

LEMMA NoSteps ==
  ASSUME IInv, NEW t \in Threads, me[t].todo # <<>>
  PROVE  Steps(t, <<>>, {})
<1>1. Types /\ Stacked(t)
  BY DEF IInv
<1> QED BY <1>1, Popped DEF Steps

LEMMA OneStep ==
  ASSUME IInv, NEW t \in Threads, me[t].todo # <<>>,
         NEW f \in Frames, Below(f, Head(me[t].todo))
  PROVE  Steps(t, <<f>>, {f})
<1>1. Types /\ Stacked(t)
  BY DEF IInv
<1> QED BY <1>1, PushOne DEF Steps

LEMMA TwoSteps ==
  ASSUME IInv, NEW t \in Threads, me[t].todo # <<>>,
         NEW f \in Frames, NEW g \in Frames, Below(f, Head(me[t].todo)),
         Below(g, Head(me[t].todo)), After(f, g)
  PROVE  Steps(t, <<f, g>>, {f, g})
<1>1. Types /\ Stacked(t)
  BY DEF IInv
<1> QED BY <1>1, PushTwo DEF Steps

\* What t then has and owes.
Goes(t, r, S) ==
  /\ Now(t, r) /\ Same(t, r) /\ Stacked(t)' /\ me'[t] = r
  /\ In(r.todo) = S \cup In(Tail(me[t].todo))
  /\ r.pc = me[t].pc /\ r.app = me[t].app /\ r.group = me[t].group /\ r.new = me[t].new
  /\ \A x \in Owners : Has(x, r) = Has(x, me[t])
  /\ Works(t, r) = Works(t, me[t])

LEMMA ThenIs ==
  ASSUME IInv, NEW t \in Threads, me[t].todo # <<>>, NEW steps, NEW S, Steps(t, steps, S),
         me' = [me EXCEPT ![t] = Then(t, steps)], Sinks, Sounds(S)'
  PROVE  Goes(t, Then(t, steps), S)
<1> DEFINE q == steps \o Tail(me[t].todo)
           r == Then(t, steps)
<1>1. Types /\ Stacked(t) /\ me[t] \in Local
  BY DEF IInv, Types
<1>2. q \in Seq(Frames) /\ Nested(q) /\ In(q) = S \cup In(Tail(me[t].todo))
  BY DEF Steps
<1>3. r = [me[t] EXCEPT !.todo = q] /\ me' = [me EXCEPT ![t] = r]
  BY DEF Then
<1> HIDE DEF q, r
<1>4. /\ r \in Local /\ r.pc = me[t].pc /\ r.app = me[t].app /\ r.group = me[t].group
      /\ r.new = me[t].new /\ r.todo = q
  BY <1>1, <1>2, <1>3 DEF Local
<1>5. Now(t, r) /\ me'[t] = r
  BY <1>1, <1>3, <1>4 DEF Now, Types
<1>6. ASSUME NEW f \in In(Tail(me[t].todo)) PROVE Sound(f)'
  <2>1. f \in Frames /\ Sound(f)
    BY <1>1, <1>6, Popped
  <2> QED BY <2>1 DEF Sound, Used, Sinks, Frames
<1>7. Stacked(t)'
  BY <1>2, <1>4, <1>5, <1>6 DEF Stacked, Sounds
<1>8. Same(t, r) /\ Works(t, r) = Works(t, me[t]) /\ \A x \in Owners : Has(x, r) = Has(x, me[t])
  BY <1>4 DEF Same, Has, Works
<1>9. Goes(t, r, S)
  BY <1>2, <1>4, <1>5, <1>7, <1>8 DEF Goes
<1> QED BY <1>9 DEF r

\* Only the session may change with it.
LEMMA GoesOn ==
  ASSUME IInv, NEW t \in Threads, me[t].todo # <<>>, NEW steps, NEW S, Steps(t, steps, S),
         me' = [me EXCEPT ![t] = Then(t, steps)], Calm,
         session' \in [cnt : Int, closed : BOOLEAN, state : {"live", "freed"}],
         session'.closed = session.closed,
         IF Head(me[t].todo) = Do("unlink", None) THEN session'.cnt = session.cnt - 1
                                                  ELSE session'.cnt = session.cnt,
         Sounds(S)', Do("unlink", None) \notin S,
         \A x \in Owners : \/ ~Open(Home(x))'
                           \/ Do("unlink", x) \notin S /\ Head(me[t].todo) # Do("unlink", x)
  PROVE  IInv'
<1> DEFINE r == Then(t, steps)
           h == Head(me[t].todo)
<1>1. Types /\ SessionExact /\ Stacked(t)
  BY DEF IInv
<1>2. session.cnt \in Nat /\ session'.cnt \in Int
  BY <1>1, SessionNat
<1>3. h = Do("unlink", None) => session.cnt > 0
  <2> SUFFICES ASSUME h = Do("unlink", None) PROVE session.cnt > 0
    OBVIOUS
  <2>1. t \in Rel(None)
    BY <1>1, Popped DEF Rel
  <2>2. Rel(None) \subseteq Threads /\ Busy \subseteq Threads
    BY NoneIsNone DEF Rel, Busy
  <2>3. IsFiniteSet(Rel(None)) /\ Cardinality(Rel(None)) \in Nat /\ Cardinality(Busy) \in Nat
    BY <2>2, NoneIsNone, FS_Subset, FS_CardinalityType
  <2>4. Cardinality(Rel(None)) # 0
    BY <2>1, <2>3, FS_EmptySet
  <2> QED BY <1>1, <2>3, <2>4 DEF SessionExact
<1>4. (session.cnt <= 0 => session'.cnt <= 0) /\ (session.cnt = 0 => session'.cnt = 0)
  BY <1>2, <1>3
<1>5. Sinks
  BY <1>4 DEF Sinks, Calm, Used
<1>11. Goes(t, r, S)
  BY <1>5, ThenIs
<1> HIDE DEF r
<1>6. /\ Now(t, r) /\ Same(t, r) /\ Stacked(t)' /\ me'[t] = r
      /\ In(r.todo) = S \cup In(Tail(me[t].todo))
      /\ r.pc = me[t].pc /\ r.app = me[t].app /\ r.group = me[t].group /\ r.new = me[t].new
      /\ \A x \in Owners : Has(x, r) = Has(x, me[t])
      /\ Works(t, r) = Works(t, me[t])
  BY <1>11 DEF Goes
<1>7. /\ h # Do("unlink", None) => Owes(None, r) = Owes(None, me[t])
      /\ h = Do("unlink", None) => Owes(None, me[t]) = 1 /\ Owes(None, r) = 0
  BY <1>1, <1>6, Owing
<1>8. SessionFlow(t, r)
  <2>1. Kept' = Kept /\ Kept \in Int /\ Works(t, me[t]) \in Int /\ Owes(None, me[t]) \in Int
    BY DEF Kept, Works, Owes
  <2>2. CASE h = Do("unlink", None)
    BY <1>2, <1>6, <1>7, <2>1, <2>2 DEF SessionFlow
  <2>3. CASE h # Do("unlink", None)
    BY <1>2, <1>6, <1>7, <2>1, <2>3 DEF SessionFlow
  <2> QED BY <2>2, <2>3
<1>9. Placed(t)'
  BY <1>6, StaysPlaced
<1>10. ASSUME NEW x \in Owners
       PROVE  \/ ~Open(Home(x))'
              \/ /\ Has(x, r) + Owes(x, r) = Has(x, me[t]) + Owes(x, me[t])
                 /\ Has(x, r) <= Has(x, me[t])
  <2> SUFFICES ASSUME Open(Home(x))'
               PROVE  /\ Has(x, r) + Owes(x, r) = Has(x, me[t]) + Owes(x, me[t])
                      /\ Has(x, r) <= Has(x, me[t])
    OBVIOUS
  <2>1. Owes(x, r) = Owes(x, me[t])
    BY <1>1, <1>6, Owing
  <2>2. Has(x, me[t]) \in Int
    BY DEF Has
  <2> QED BY <1>6, <2>1, <2>2
<1> QED BY <1>4, <1>6, <1>8, <1>9, <1>10, CalmKeeps

\* Neither does.
LEMMA Passes ==
  ASSUME IInv, NEW t \in Threads, me[t].todo # <<>>, NEW steps, NEW S, Steps(t, steps, S),
         me' = [me EXCEPT ![t] = Then(t, steps)], Calm, session'.cnt = session.cnt,
         session' \in [cnt : Int, closed : BOOLEAN, state : {"live", "freed"}],
         session'.closed = session.closed,
         Sounds(S)', \A f \in S \cup {Head(me[t].todo)} : f.op # "unlink"
  PROVE  IInv'
<1>1. \A x : Do("unlink", x).op = "unlink"
  BY DEF Do
<1>2. \A x : Do("unlink", x) \notin S /\ Head(me[t].todo) # Do("unlink", x)
  BY <1>1
<1> QED BY <1>2, GoesOn

LEMMA RemoveFreeKeeps ==
  ASSUME IInv, NEW t \in Threads, NEW x \in Owners, RemoveFree(t, x) \/ (t = Watchdog /\ WatchdogFree)
  PROVE  IInv'
<1>1. PICK y : Unlinks(t, "rmfree", y) \/ Unlinks(t, "fired", y)
  BY DEF RemoveFree, WatchdogFree
<1>2. me[t].todo # <<>> /\ Head(me[t].todo).op # "unlink"
  BY <1>1 DEF Unlinks, Do
<1>3. me' = [me EXCEPT ![t] = Then(t, <<>>)]
  BY DEF RemoveFree, WatchdogFree, Return, Goto, Stay, Returned
<1>4. Calm /\ UNCHANGED session
  BY DEF RemoveFree, WatchdogFree, held, Calm
<1>5. session' \in [cnt : Int, closed : BOOLEAN, state : {"live", "freed"}]
  BY <1>4 DEF IInv, Types
<1>6. Steps(t, <<>>, {})
  BY <1>2, NoSteps
<1>7. Sounds({})' /\ \A f \in {} \cup {Head(me[t].todo)} : f.op # "unlink"
  BY <1>2 DEF Sounds
<1>8. session'.cnt = session.cnt /\ session'.closed = session.closed
  BY <1>4
<1>9. IInv /\ t \in Threads
  OBVIOUS
<1> QED BY ONLY <1>2, <1>3, <1>4, <1>5, <1>6, <1>7, <1>8, <1>9, Passes

LEMMA EndAppKeeps ==
  ASSUME IInv, NEW t \in Threads, NEW a \in Apps, EndApp(t, a)
  PROVE  IInv'
<1> DEFINE f == Do("free", a)
           h == Do("close", a)
<1>1. me[t].todo # <<>> /\ Head(me[t].todo) = h
  BY DEF EndApp, Unlinks
<1>2. me' = [me EXCEPT ![t] = Then(t, <<f>>)] /\ Calm /\ UNCHANGED session
  BY DEF EndApp, Goto, timers, Calm
<1>3. /\ f \in Frames /\ f.op = "free" /\ f.at = a /\ Rank(f) = 1
      /\ h \in Frames /\ h.op = "close" /\ h.at = a /\ Rank(h) = 1
  BY RankIs DEF Ops, Owners
<1>4. a \in Owners /\ a # None
  BY NoneIsNone DEF Owners
<1> HIDE DEF f, h
<1>5. Sound(h)
  <2>1. Types /\ Stacked(t)
    BY DEF IInv
  <2> QED BY <1>1, <2>1, Popped
<1>6. Sound(f)'
  BY <1>2, <1>3, <1>4, <1>5 DEF Sound, Used, Calm
<1>7. Steps(t, <<f>>, {f})
  BY <1>1, <1>3, OneStep DEF Below, Removing
<1>8. session' \in [cnt : Int, closed : BOOLEAN, state : {"live", "freed"}]
  BY <1>2 DEF IInv, Types
<1>9. Sounds({f})' /\ \A k \in {f} \cup {Head(me[t].todo)} : k.op # "unlink"
  BY <1>1, <1>3, <1>6 DEF Sounds
<1>10. session'.cnt = session.cnt /\ session'.closed = session.closed
  BY <1>2
<1> QED BY <1>1, <1>2, <1>7, <1>8, <1>9, <1>10, Passes

-----------------------------------------------------------------------------
(***************************************************************************)
(* The session ends, and what is in a group.                               *)
(***************************************************************************)
LEMMA DoIs ==
  ASSUME NEW op, NEW x
  PROVE  Do(op, x).op = op /\ Do(op, x).at = x
BY DEF Do

LEMMA HeadIs ==
  ASSUME IInv, NEW t \in Threads, NEW op, NEW x, Unlinks(t, op, x)
  PROVE  /\ me[t].todo # <<>> /\ Head(me[t].todo) = Do(op, x) /\ Do(op, x) \in Frames
         /\ Sound(Do(op, x)) /\ op \in Ops /\ x \in Owners \cup {None}
<1>1. Types /\ Stacked(t) /\ me[t].todo # <<>> /\ Head(me[t].todo) = Do(op, x)
  BY DEF IInv, Unlinks
<1>2. Do(op, x) \in Frames /\ Sound(Do(op, x))
  BY <1>1, Popped
<1> QED BY <1>1, <1>2, DoIs DEF Frames

LEMMA EndGroupKeeps ==
  ASSUME IInv, NEW t \in Threads, NEW g \in Groups, EndGroup(t, g), apps[g] # <<>>
  PROVE  IInv'
<1>1. Types /\ Listed /\ apps[g] \in Seq(Apps)
  BY DEF IInv, Types
<1>2. PICK a \in Apps : a = Head(apps[g]) /\ a \in In(apps[g])
  <2>1. 1 \in DOMAIN apps[g] /\ Head(apps[g]) = apps[g][1] /\ Head(apps[g]) \in Apps
    BY <1>1
  <2> QED BY <2>1 DEF In
<1> DEFINE f == Do("unlink", a)
           k == Do("members", g)
<1>3. Live(a) /\ own[a].group = g /\ Home(a) = g /\ a \in Owners /\ g \in Owners
  BY <1>1, <1>2, NoneIsNone DEF Listed, Home, Owners
<1>4. /\ me[t].todo # <<>> /\ Head(me[t].todo) = k /\ k \in Frames /\ Sound(k)
  BY HeadIs DEF EndGroup
<1>5. me' = [me EXCEPT ![t] = Then(t, <<f, k>>)] /\ Calm /\ UNCHANGED session
  BY <1>2 DEF EndGroup, Stay, timers, Calm
<1>6. /\ f \in Frames /\ f.op = "unlink" /\ f.at = a /\ Rank(f) = 1
      /\ k.op = "members" /\ k.at = g /\ Rank(k) = 2 /\ g # None /\ a # None
  BY <1>2, <1>3, RankIs, NoneIsNone DEF Ops
<1> HIDE DEF f, k
<1>7. Steps(t, <<f, k>>, {f, k})
  BY <1>4, <1>6, TwoSteps DEF Below, After, Removing
<1>8. own[g].cnt <= 0 /\ Used(g)
  BY <1>4, <1>6 DEF Sound
<1>9. Sounds({f, k})'
  BY <1>3, <1>5, <1>6, <1>8 DEF Sounds, Sound, Used, Live, Calm
<1>10. ASSUME NEW x \in Owners
       PROVE  \/ ~Open(Home(x))'
              \/ Do("unlink", x) \notin {f, k} /\ Head(me[t].todo) # Do("unlink", x)
  <2>1. CASE x = a
    <3>1. own' = own /\ own[g].cnt \in Int
      BY <1>1, <1>3, <1>5 DEF Calm, Types, Owner
    <3>2. Home(x)' = g
      BY <1>3, <2>1, <3>1 DEF Home
    <3> QED BY <1>6, <1>8, <3>1, <3>2 DEF Open
  <2>2. CASE x # a
    <3>1. Do("unlink", x) # f /\ Do("unlink", x) # k
      BY <1>6, <2>2, DoIs
    <3> QED BY <1>4, <3>1
  <2> QED BY <2>1, <2>2
<1>11. Do("unlink", None) \notin {f, k} /\ Head(me[t].todo) # Do("unlink", None)
  BY <1>4, <1>6, DoIs
<1>12. session' \in [cnt : Int, closed : BOOLEAN, state : {"live", "freed"}]
       /\ session'.cnt = session.cnt /\ session'.closed = session.closed
  BY <1>1, <1>5 DEF Types
<1> QED BY <1>4, <1>5, <1>7, <1>9, <1>10, <1>11, <1>12, GoesOn

LEMMA CloseSessionKeeps ==
  ASSUME IInv, NEW t \in Threads, CloseSession(t)
  PROVE  IInv'
<1> DEFINE k == Do("members", None)
           e == Do("free", None)
<1>1. Types /\ Listed /\ groups \in Seq(Groups)
  BY DEF IInv, Types
<1>2. /\ me[t].todo # <<>> /\ Head(me[t].todo) = k /\ k \in Frames /\ Sound(k)
  BY HeadIs DEF CloseSession
<1>3. Calm /\ UNCHANGED session
  BY DEF CloseSession, timers, Calm
<1>4. /\ k.op = "members" /\ k.at = None /\ Rank(k) = 3
      /\ e \in Frames /\ e.op = "free" /\ e.at = None /\ Rank(e) = 3
  BY RankIs DEF Ops
<1>5. session.cnt = 0
  BY <1>2, <1>4 DEF Sound
<1>6. session' \in [cnt : Int, closed : BOOLEAN, state : {"live", "freed"}]
       /\ session'.cnt = session.cnt /\ session'.closed = session.closed
  BY <1>1, <1>3 DEF Types
<1>7. CASE groups # <<>> /\ Stay(t, Then(t, <<Do("unlink", Head(groups)), k>>))
  <2>1. PICK g \in Groups : g = Head(groups) /\ g \in In(groups)
    <3>1. 1 \in DOMAIN groups /\ Head(groups) = groups[1] /\ Head(groups) \in Groups
      BY <1>1, <1>7
    <3> QED BY <3>1 DEF In
  <2> DEFINE f == Do("unlink", g)
  <2>2. Live(g) /\ g \in Owners /\ g # None
    BY <1>1, <2>1, NoneIsNone DEF Listed, Owners
  <2>3. me' = [me EXCEPT ![t] = Then(t, <<f, k>>)]
    BY <1>7, <2>1 DEF Stay
  <2>4. f \in Frames /\ f.op = "unlink" /\ f.at = g /\ Rank(f) = 2
    BY <2>1, <2>2, RankIs DEF Ops
  <2> HIDE DEF f, k
  <2>5. Steps(t, <<f, k>>, {f, k})
    BY <1>2, <1>4, <2>4, TwoSteps DEF Below, After, Removing
  <2>6. Sounds({f, k})'
    BY <1>3, <1>4, <1>5, <2>2, <2>4 DEF Sounds, Sound, Used, Live, Calm
  <2>7. ASSUME NEW x \in Owners
        PROVE  \/ ~Open(Home(x))'
               \/ Do("unlink", x) \notin {f, k} /\ Head(me[t].todo) # Do("unlink", x)
    <3>1. CASE x = g
      <4>1. Home(x)' = None
        BY <2>1, <3>1 DEF Home
      <4> QED BY <1>3, <1>5, <4>1 DEF Open
    <3>2. CASE x # g
      <4>1. Do("unlink", x) # f /\ Do("unlink", x) # k
        BY <1>4, <2>4, <3>2, DoIs
      <4> QED BY <1>2, <4>1
    <3> QED BY <3>1, <3>2
  <2>8. Do("unlink", None) \notin {f, k} /\ Head(me[t].todo) # Do("unlink", None)
    BY <1>2, <1>4, <2>2, <2>4, DoIs
  <2> QED BY <1>2, <1>3, <1>6, <2>3, <2>5, <2>6, <2>7, <2>8, GoesOn
<1>8. CASE Goto(t, Then(t, <<e>>))
  <2>1. me' = [me EXCEPT ![t] = Then(t, <<e>>)]
    BY <1>8 DEF Goto
  <2> HIDE DEF e, k
  <2>2. Steps(t, <<e>>, {e})
    BY <1>2, <1>4, OneStep DEF Below, Removing
  <2>3. Sounds({e})' /\ \A i \in {e} \cup {Head(me[t].todo)} : i.op # "unlink"
    BY <1>2, <1>3, <1>4, <1>5 DEF Sounds, Sound
  <2> QED BY <1>2, <1>3, <1>6, <2>1, <2>2, <2>3, Passes
<1> QED BY <1>7, <1>8 DEF CloseSession

LEMMA FreeSessionKeeps ==
  ASSUME IInv, NEW t \in Threads, FreeSession(t)
  PROVE  IInv'
<1>1. Types
  BY DEF IInv
<1>2. me[t].todo # <<>> /\ Head(me[t].todo).op # "unlink"
  BY HeadIs, DoIs DEF FreeSession
<1>3. me' = [me EXCEPT ![t] = Then(t, <<>>)] /\ Calm
  BY DEF FreeSession, Return, Goto, Stay, Returned, timers, Calm
<1>4. session' = [session EXCEPT !.state = "freed"]
  BY DEF FreeSession
<1>5. session' \in [cnt : Int, closed : BOOLEAN, state : {"live", "freed"}]
       /\ session'.cnt = session.cnt /\ session'.closed = session.closed
  BY <1>1, <1>4 DEF Types
<1>6. Steps(t, <<>>, {})
  BY <1>2, NoSteps
<1>7. Sounds({})' /\ \A f \in {} \cup {Head(me[t].todo)} : f.op # "unlink"
  BY <1>2 DEF Sounds
<1>8. IInv /\ t \in Threads
  OBVIOUS
<1> QED BY ONLY <1>2, <1>3, <1>5, <1>6, <1>7, <1>8, Passes

LEMMA UnlinkSessKeeps ==
  ASSUME IInv, NEW t \in Threads, UnlinkSess(t)
  PROVE  IInv'
<1> DEFINE h == Do("unlink", None)
           k == Do("members", None)
<1>1. Types /\ session.cnt \in Int
  BY DEF IInv, Types
<1>2. me[t].todo # <<>> /\ Head(me[t].todo) = h /\ h \in Frames
  BY HeadIs DEF UnlinkSess
<1>3. Calm /\ session' = [session EXCEPT !.cnt = @ - 1]
  BY DEF UnlinkSess, timers, Calm
<1>4. /\ session' \in [cnt : Int, closed : BOOLEAN, state : {"live", "freed"}]
      /\ session'.cnt = session.cnt - 1 /\ session'.closed = session.closed
  <2>1. session \in [cnt : Int, closed : BOOLEAN, state : {"live", "freed"}]
    BY <1>1 DEF Types
  <2>2. PICK n \in Int : n = session.cnt - 1
    BY <1>1
  <2>3. session' = [session EXCEPT !.cnt = n]
    BY <1>3, <2>2
  <2> QED BY ONLY <2>1, <2>2, <2>3
<1>5. /\ h.op = "unlink" /\ h.at = None /\ Rank(h) = 3
      /\ k \in Frames /\ k.op = "members" /\ k.at = None /\ Rank(k) = 3
  BY RankIs DEF Ops
<1>6. \A x \in Owners : Do("unlink", x) # k /\ Do("unlink", x) # h
  BY <1>5, DoIs, NoneIsNone
<1>7. IF Head(me[t].todo) = Do("unlink", None) THEN session'.cnt = session.cnt - 1
                                               ELSE session'.cnt = session.cnt
  BY <1>2, <1>4
<1>8. CASE Return(t)
  <2>1. me' = [me EXCEPT ![t] = Then(t, <<>>)]
    BY <1>8 DEF Return, Goto, Stay, Returned
  <2>2. Steps(t, <<>>, {}) /\ Sounds({})'
    BY <1>2, NoSteps DEF Sounds
  <2>3. /\ Do("unlink", None) \notin {}
        /\ \A x \in Owners : \/ ~Open(Home(x))'
                             \/ Do("unlink", x) \notin {} /\ Head(me[t].todo) # Do("unlink", x)
    BY <1>2, <1>6
  <2> HIDE DEF h, k
  <2>4. IInv /\ t \in Threads
    OBVIOUS
  <2> QED BY ONLY <1>2, <1>3, <1>4, <1>7, <2>1, <2>2, <2>3, <2>4, GoesOn
<1>9. CASE session.cnt = 1 /\ Stay(t, Then(t, <<k>>))
  <2>1. me' = [me EXCEPT ![t] = Then(t, <<k>>)]
    BY <1>9 DEF Stay
  <2>2. /\ Do("unlink", None) \notin {k}
        /\ \A x \in Owners : \/ ~Open(Home(x))'
                             \/ Do("unlink", x) \notin {k} /\ Head(me[t].todo) # Do("unlink", x)
    BY <1>2, <1>5, <1>6
  <2> HIDE DEF h, k
  <2>3. Steps(t, <<k>>, {k})
    BY <1>2, <1>5, OneStep DEF Below, Removing
  <2>4. Sounds({k})'
    BY <1>4, <1>5, <1>9 DEF Sounds, Sound
  <2>5. IInv /\ t \in Threads
    OBVIOUS
  <2> QED BY ONLY <1>2, <1>3, <1>4, <1>7, <2>1, <2>2, <2>3, <2>4, <2>5, GoesOn
<1> QED BY <1>8, <1>9 DEF UnlinkSess

-----------------------------------------------------------------------------
(***************************************************************************)
(* What is unlinked, and what has been.                                    *)
(***************************************************************************)
\* Nothing new is listed or linked.
Ebbs ==
  /\ own' \in [Owners -> Owner]
  /\ groups' \in Seq(Groups) /\ Once(groups') /\ In(groups') \subseteq In(groups)
  /\ apps' \in [Groups -> Seq(Apps)]
  /\ \A g \in Groups : Once(apps'[g]) /\ In(apps'[g]) \subseteq In(apps[g])
  /\ list' \subseteq list
  /\ \A y \in Owners :
       /\ own'[y].group = own[y].group /\ own'[y].cnt <= own[y].cnt
       /\ own'[y].state = "unused" <=> own[y].state = "unused"
       /\ own'[y].state = "live" => Live(y)
       /\ Live(y) /\ own[y].cnt > 0 => own'[y].state = "live"

\* What is listed keeps a link, and what a thread has is still listed.
StillListed ==
  /\ \A g \in In(groups') : own'[g].cnt > 0
  /\ \A g \in Groups : \A a \in In(apps'[g]) : own'[a].cnt > 0
  /\ \A u \in Threads :
       /\ me[u].group # None => me[u].group \in In(groups')
       /\ me[u].app # None => me[u].app \in In(apps'[me[u].group])

\* One link less for what t unlinks.
OneLess(t) ==
  \A y \in Owners : own[y].cnt > 0 =>
    /\ y \in list' <=> y \in list
    /\ own'[y].cnt = own[y].cnt - (IF Head(me[t].todo) = Do("unlink", y) THEN 1 ELSE 0)

LEMMA EbbsKeeps ==
  ASSUME IInv, NEW t \in Threads, Ebbs, StillListed, UNCHANGED <<session, lost>>
  PROVE  Homed' /\ Listed' /\ Recorded' /\ Sinks /\ Keeps(t)
<1>1. Types /\ Homed /\ Listed /\ Recorded
  BY DEF IInv
<1>2. own \in [Owners -> Owner] /\ groups \in Seq(Groups) /\ apps \in [Groups -> Seq(Apps)]
  BY <1>1 DEF Types
<1>3. \A y \in Owners : own[y].cnt \in Int /\ own'[y].cnt \in Int
  BY <1>2 DEF Ebbs, Owner
<1>4. Groups \subseteq Owners /\ Apps \subseteq Owners
  BY DEF Owners
<1>5. /\ \A g \in In(groups) : g \in Groups
      /\ \A g \in Groups : \A a \in In(apps[g]) : a \in Apps
  <2>1. \A g \in In(groups) : g \in Groups
    BY <1>2 DEF In
  <2>2. ASSUME NEW g \in Groups, NEW a \in In(apps[g]) PROVE a \in Apps
    <3>1. apps[g] \in Seq(Apps)
      BY <1>2
    <3> QED BY <2>2, <3>1 DEF In
  <2> QED BY <2>1, <2>2
<1>6. Homed'
  <2>1. ASSUME NEW a \in Apps, own'[a].state # "unused"
        PROVE  own'[a].group \in Groups /\ own'[own'[a].group].state # "unused"
    <3>1. a \in Owners /\ own[a].state # "unused" /\ own'[a].group = own[a].group
      BY <1>4, <2>1 DEF Ebbs
    <3>2. own[a].group \in Groups /\ own[own[a].group].state # "unused"
      BY <1>1, <3>1 DEF Homed, Used
    <3> QED BY <1>4, <3>1, <3>2 DEF Ebbs
  <2> QED BY <2>1 DEF Homed, Used
<1>7. Listed'
  <2>1. ASSUME NEW g \in In(groups') PROVE own'[g].state = "live" /\ own'[g].cnt > 0
    <3>1. g \in Owners /\ Live(g) /\ own[g].cnt > 0
      BY <1>1, <1>4, <1>5, <2>1 DEF Ebbs, Listed
    <3> QED BY <2>1, <3>1 DEF Ebbs, StillListed
  <2>2. ASSUME NEW g \in Groups, NEW a \in In(apps'[g])
        PROVE  own'[a].state = "live" /\ own'[a].cnt > 0 /\ own'[a].group = g
    <3>1. a \in In(apps[g])
      BY <2>2 DEF Ebbs
    <3>2. a \in Owners /\ Live(a) /\ own[a].cnt > 0 /\ own[a].group = g
      BY <1>1, <1>4, <1>5, <3>1 DEF Listed
    <3> QED BY <2>2, <3>2 DEF Ebbs, StillListed
  <2> QED BY <2>1, <2>2 DEF Listed, Live
<1>8. Recorded'
  <2>1. ASSUME NEW y \in Owners, y \in list' \/ Lost(y)' > 0 PROVE own'[y].state # "unused"
    <3>1. y \in list \/ Lost(y) > 0
      BY <2>1 DEF Ebbs, Lost
    <3>2. own[y].state # "unused"
      BY <1>1, <3>1 DEF Recorded, Used
    <3> QED BY <3>2 DEF Ebbs
  <2> QED BY <2>1 DEF Recorded, Used
<1>9. Sinks
  BY <1>3 DEF Sinks, Ebbs, Used
<1>10. Keeps(t)
  BY DEF Keeps, Ebbs, StillListed
<1> QED BY <1>6, <1>7, <1>8, <1>9, <1>10

LEMMA EbbsPlaced ==
  ASSUME IInv, NEW t \in Threads, NEW r, Now(t, r), Ebbs, StillListed,
         r.pc = me[t].pc, r.app = me[t].app, r.group = me[t].group, r.new = me[t].new
  PROVE  Placed(t)'
<1> DEFINE v == me[t]
<1>1. Types /\ Placed(t) /\ v \in Local
  BY DEF IInv, Types
<1>2. me'[t] = r
  BY <1>1, NowIs
<1>3. /\ v.app \in Apps \cup {None} /\ v.group \in Groups \cup {None}
      /\ v.new \in Owners \cup {None}
  BY <1>1 DEF Local
<1>4. ASSUME NEW x \in Owners, x \in {v.app, v.group, v.new}
      PROVE  own'[x].state = "live" /\ own'[x].group = own[x].group
  <2>1. Live(x) /\ own[x].cnt > 0
    BY <1>4, Held DEF Holders
  <2> QED BY <2>1 DEF Ebbs
<1>5. v.new # None => /\ own'[v.new].state = "live" /\ v.new \notin In(groups')
                      /\ \A g \in Groups : v.new \notin In(apps'[g])
  <2> SUFFICES ASSUME v.new # None
               PROVE  /\ own'[v.new].state = "live" /\ v.new \notin In(groups')
                      /\ \A g \in Groups : v.new \notin In(apps'[g])
    OBVIOUS
  <2>1. Outside(v.new) /\ v.new \in Owners
    BY <1>1, <1>3 DEF Placed
  <2>2. own'[v.new].state = "live"
    BY <1>4, <2>1
  <2> QED BY <2>1, <2>2 DEF Outside, Ebbs
<1>6. v.app # None => /\ v.group # None /\ own'[v.app].group = v.group
                      /\ v.app \in In(apps'[v.group])
  <2> SUFFICES ASSUME v.app # None
               PROVE  /\ v.group # None /\ own'[v.app].group = v.group
                      /\ v.app \in In(apps'[v.group])
    OBVIOUS
  <2>1. v.group # None /\ own[v.app].group = v.group /\ v.app \in Owners
    BY <1>1, <1>3 DEF Placed, Owners
  <2> QED BY <1>4, <2>1 DEF StillListed
<1>7. v.group # None => v.group \in In(groups')
  BY DEF StillListed
<1>8. v.new \in Apps => own'[v.new].group = v.group
  <2> SUFFICES ASSUME v.new \in Apps PROVE own'[v.new].group = v.group
    OBVIOUS
  <2>1. own[v.new].group = v.group /\ v.new \in Owners
    BY <1>1 DEF Placed, Owners
  <2> QED BY <1>4, <2>1
<1>9. v.pc = "adding" => v.new \notin list'
  BY <1>1 DEF Placed, Ebbs
<1>10. /\ t = Watchdog => v.pc \in {"scan", "pick"} /\ v.app = None /\ v.group = None
       /\ t # Watchdog => v.pc \notin {"scan", "pick"}
       /\ v.pc \in {"idle", "verify"} => v.app = None /\ v.group = None
       /\ (v.new # None <=> v.pc \in {"adding", "added"})
       /\ v.pc = "newapp" => v.group # None
       /\ v.new \in Groups => v.group = None
  BY <1>1 DEF Placed
<1>11. r.pc = v.pc /\ r.app = v.app /\ r.group = v.group /\ r.new = v.new
  OBVIOUS
<1> HIDE DEF v
<1> QED BY <1>2, <1>5, <1>6, <1>7, <1>8, <1>9, <1>10, <1>11 DEF Placed, Live, Outside

LEMMA InStack ==
  ASSUME IInv, NEW t \in Threads, me[t].todo # <<>>, NEW steps, NEW S, Steps(t, steps, S),
         me' = [me EXCEPT ![t] = Then(t, steps)], UNCHANGED <<session, lost>>,
         Sounds(S)', \A f \in S : f.op # "unlink", Head(me[t].todo) # Do("unlink", None),
         Ebbs, StillListed, OneLess(t)
  PROVE  IInv'
<1> DEFINE r == Then(t, steps)
           h == Head(me[t].todo)
<1>1. Types /\ Stacked(t) /\ Apart
  BY DEF IInv
<1>2. Homed' /\ Listed' /\ Recorded' /\ Sinks /\ Keeps(t)
  BY EbbsKeeps
<1>3. Goes(t, r, S)
  BY <1>2, ThenIs
<1> HIDE DEF r
<1>4. /\ Now(t, r) /\ Same(t, r) /\ Stacked(t)' /\ me'[t] = r
      /\ In(r.todo) = S \cup In(Tail(me[t].todo))
      /\ r.pc = me[t].pc /\ r.app = me[t].app /\ r.group = me[t].group /\ r.new = me[t].new
      /\ \A x \in Owners : Has(x, r) = Has(x, me[t])
      /\ Works(t, r) = Works(t, me[t])
  BY <1>3 DEF Goes
<1>5. Placed(t)'
  BY <1>4, EbbsPlaced
<1>6. Types'
  <2>1. me' \in [Threads -> Local]
    BY <1>1, <1>4, NowIs
  <2>2. list' \in SUBSET Owners
    BY <1>1 DEF Types, Ebbs
  <2> QED BY <1>1, <2>1, <2>2 DEF Types, Ebbs
<1>7. \A x : Do("unlink", x) \notin S
  BY DoIs
<1>8. Owes(None, r) = Owes(None, me[t])
  BY <1>1, <1>4, <1>7, Owing
<1>9. SessionFlow(t, r)
  BY <1>4, <1>8, SessionSame
<1>10. \A u \in Threads : u # t => r.new = None \/ me[u].new # r.new
  BY <1>1, <1>4 DEF Apart
<1>11. ASSUME NEW y \in Owners PROVE Flow(t, r, y)
  <2>1. own[y] \in Owner /\ own'[y] \in Owner /\ own[y].cnt \in Int /\ own'[y].cnt \in Int
    BY <1>1, <1>6 DEF Types, Owner
  <2>2. own'[y].state = "live" /\ Open(Home(y))' => Live(y) /\ Open(Home(y))
    <3> SUFFICES ASSUME own'[y].state = "live", Open(Home(y))' PROVE Live(y) /\ Open(Home(y))
      OBVIOUS
    <3>1. Live(y) /\ own'[y].group = own[y].group
      BY DEF Ebbs
    <3>2. Home(y)' = Home(y)
      BY <3>1 DEF Home
    <3>3. CASE y \in Groups
      BY <3>1, <3>2, <3>3 DEF Open, Home
    <3>4. CASE y \notin Groups
      <4>1. y \in Apps /\ own[y].group \in Groups /\ Home(y) = own[y].group
        BY <3>1, <3>4 DEF Home, Homed, Owners, Live, Used, IInv
      <4>2. PICK g \in Groups : g = own[y].group
        BY <4>1
      <4>3. g \in Owners /\ g # None
        BY NoneIsNone DEF Owners
      <4>4. own'[g].state = "live" /\ own'[g].cnt > 0
        BY <3>2, <4>1, <4>2, <4>3 DEF Open
      <4>5. Live(g) /\ own[g].cnt > 0
        <5>1. own[g].cnt \in Int /\ own'[g].cnt \in Int /\ own'[g].cnt <= own[g].cnt
          BY <1>1, <1>6, <4>3 DEF Types, Owner, Ebbs
        <5> QED BY <4>3, <4>4, <5>1 DEF Ebbs
      <4> QED BY <3>1, <4>1, <4>2, <4>3, <4>5 DEF Open, Live
    <3> QED BY <3>3, <3>4
  <2>3. Lost(y)' = Lost(y)
    BY DEF Lost
  <2>4. own[y].cnt > 0 =>
          own'[y].cnt + Has(y, me[t]) + Owes(y, me[t]) + Lost(y) + Manager(y)
            = own[y].cnt + Has(y, r) + Owes(y, r) + Lost(y)' + Manager(y)'
    <3> SUFFICES ASSUME own[y].cnt > 0
                 PROVE  own'[y].cnt + Has(y, me[t]) + Owes(y, me[t]) + Lost(y) + Manager(y)
                          = own[y].cnt + Has(y, r) + Owes(y, r) + Lost(y)' + Manager(y)'
      OBVIOUS
    <3>1. /\ y \in list' <=> y \in list
          /\ own'[y].cnt = own[y].cnt - (IF h = Do("unlink", y) THEN 1 ELSE 0)
      BY DEF OneLess
    <3>2. Manager(y)' = Manager(y)
      BY <1>1, <1>4, <3>1, ManagerSame
    <3>3. /\ h # Do("unlink", y) => Owes(y, r) = Owes(y, me[t])
          /\ h = Do("unlink", y) => Owes(y, me[t]) = 1 /\ Owes(y, r) = 0
      BY <1>1, <1>4, <1>7, Owing
    <3>4. /\ Has(y, me[t]) \in Int /\ Owes(y, me[t]) \in Int /\ Manager(y) \in Int /\ Lost(y) \in Int
          /\ Has(y, r) = Has(y, me[t])
      BY <1>1, <1>4 DEF Has, Owes, Manager, Lost, Types
    <3>5. PICK a \in Int, b \in Int, m \in Int, n \in Int, c \in Int :
            /\ a = Has(y, me[t]) /\ b = Owes(y, me[t]) /\ m = Manager(y) /\ n = Lost(y)
            /\ c = own[y].cnt
      BY <2>1, <3>4
    <3>6. CASE h = Do("unlink", y)
      <4>1. own'[y].cnt = c - 1 /\ b = 1 /\ Owes(y, r) = 0
        BY <3>1, <3>3, <3>5, <3>6
      <4>2. (c - 1) + a + 1 + n + m = c + a + 0 + n + m
        BY ONLY a \in Int, m \in Int, n \in Int, c \in Int
      <4> QED BY <2>3, <3>2, <3>4, <3>5, <4>1, <4>2
    <3>7. CASE h # Do("unlink", y)
      <4>1. own'[y].cnt = c /\ Owes(y, r) = b
        BY <2>1, <3>1, <3>3, <3>5, <3>7
      <4> QED BY <2>3, <3>2, <3>4, <3>5, <4>1
    <3> QED BY <3>6, <3>7
  <2>5. own[y].cnt <= 0 => own'[y].cnt <= 0 /\ Has(y, r) = 0
    <3> SUFFICES ASSUME own[y].cnt <= 0 PROVE own'[y].cnt <= 0 /\ Has(y, r) = 0
      OBVIOUS
    <3>1. own'[y].cnt <= 0
      BY <2>1 DEF Ebbs
    <3>2. t \notin Holders(y)
      BY <2>1, Held
    <3> QED BY <1>4, <3>1, <3>2 DEF Has, Holders
  <2> QED BY <2>2, <2>3, <2>4, <2>5 DEF Flow
<1> QED BY <1>2, <1>4, <1>5, <1>6, <1>9, <1>10, <1>11, StepKeeps

\* Nothing is taken out of a list.
LEMMA AllStay ==
  ASSUME IInv, UNCHANGED <<groups, apps>>,
         \A y \in Owners : own[y].cnt > 0 => own'[y].cnt > 0
  PROVE  /\ groups' \in Seq(Groups) /\ Once(groups') /\ In(groups') \subseteq In(groups)
         /\ apps' \in [Groups -> Seq(Apps)]
         /\ \A g \in Groups : Once(apps'[g]) /\ In(apps'[g]) \subseteq In(apps[g])
         /\ StillListed
<1>1. Types /\ Listed /\ \A u \in Threads : Placed(u)
  BY DEF IInv
<1>2. ASSUME NEW g \in In(groups) PROVE g \in Owners /\ own[g].cnt > 0
  BY <1>1, <1>2 DEF Types, In, Listed, Owners
<1>3. ASSUME NEW g \in Groups, NEW a \in In(apps[g]) PROVE a \in Owners /\ own[a].cnt > 0
  <2>1. apps[g] \in Seq(Apps)
    BY <1>1 DEF Types
  <2>2. a \in Apps
    BY <1>3, <2>1 DEF In
  <2> QED BY <1>1, <1>3, <2>2 DEF Listed, Owners
<1>4. StillListed
  BY <1>1, <1>2, <1>3 DEF StillListed, Placed
<1> QED BY <1>1, <1>4 DEF Types

LEMMA FreedKeeps ==
  ASSUME IInv, NEW t \in Threads, NEW x \in Owners, NEW op \in {"members", "free"},
         Unlinks(t, op, x), own' = [own EXCEPT ![x].state = "freed"], Return(t),
         UNCHANGED <<session, groups, apps, lost, list>>
  PROVE  IInv'
<1>1. Types /\ own \in [Owners -> Owner]
  BY DEF IInv, Types
<1>2. /\ me[t].todo # <<>> /\ Head(me[t].todo) = Do(op, x)
      /\ Do(op, x).op = op /\ Do(op, x).at = x /\ Sound(Do(op, x))
  BY HeadIs, DoIs
<1>3. Used(x) /\ own[x].cnt <= 0 /\ own[x].cnt \in Int
  BY <1>1, <1>2, NoneIsNone DEF Sound, Owner
<1>4. /\ own' \in [Owners -> Owner]
      /\ \A y \in Owners : /\ own'[y].group = own[y].group /\ own'[y].cnt = own[y].cnt
                           /\ own'[y].state = IF y = x THEN "freed" ELSE own[y].state
  BY <1>1 DEF Owner
<1>5. me' = [me EXCEPT ![t] = Then(t, <<>>)]
  BY DEF Return, Goto, Stay, Returned
<1>6. Steps(t, <<>>, {}) /\ Sounds({})' /\ \A f \in {} : f.op # "unlink"
  BY <1>2, NoSteps DEF Sounds
<1>7. \A y : Head(me[t].todo) # Do("unlink", y)
  BY <1>2, DoIs
<1>8. /\ groups' \in Seq(Groups) /\ Once(groups') /\ In(groups') \subseteq In(groups)
      /\ apps' \in [Groups -> Seq(Apps)]
      /\ \A g \in Groups : Once(apps'[g]) /\ In(apps'[g]) \subseteq In(apps[g])
      /\ StillListed
  BY <1>4, AllStay
<1>9. Ebbs
  <2>1. \A y \in Owners :
         /\ own'[y].group = own[y].group /\ own'[y].cnt <= own[y].cnt
         /\ own'[y].state = "unused" <=> own[y].state = "unused"
         /\ own'[y].state = "live" => Live(y)
         /\ Live(y) /\ own[y].cnt > 0 => own'[y].state = "live"
    BY <1>1, <1>3, <1>4 DEF Live, Used, Owner
  <2> QED BY <1>4, <1>8, <2>1 DEF Ebbs
<1>10. OneLess(t)
  <2>1. \A y \in Owners : own[y].cnt \in Int
    BY <1>1 DEF Owner
  <2> QED BY <1>4, <1>7, <2>1 DEF OneLess
<1>11. IInv /\ t \in Threads /\ UNCHANGED <<session, lost>>
  OBVIOUS
<1> QED BY ONLY <1>2, <1>5, <1>6, <1>7, <1>8, <1>9, <1>10, <1>11, InStack

LEMMA RemoveLockedKeeps ==
  ASSUME IInv, NEW t \in Threads, NEW x \in Owners, RemoveLocked(t, x)
  PROVE  IInv'
<1> DEFINE k == Do("rmfree", x)
           h == Do("rm", x)
<1>1. Types /\ own \in [Owners -> Owner] /\ x # None
  BY NoneIsNone DEF IInv, Types
<1>2. me[t].todo # <<>> /\ Head(me[t].todo) = h /\ h \in Frames /\ Sound(h)
  BY HeadIs DEF RemoveLocked
<1>3. /\ h.op = "rm" /\ h.at = x /\ k \in Frames /\ k.op = "rmfree" /\ k.at = x
      /\ Rank(k) = Rank(h)
  <2>1. h.op = "rm" /\ h.at = x /\ k \in Frames /\ k.op = "rmfree" /\ k.at = x
    BY RankIs DEF Ops
  <2> QED BY <2>1 DEF Rank
<1> HIDE DEF h, k
<1>4. Used(x) /\ own[x].cnt <= 0 /\ own[x].cnt \in Int
  BY <1>1, <1>2, <1>3 DEF Sound, Owner
<1>5. UNCHANGED <<session, own, groups, apps, lost>> /\ list' = list \ {x}
  BY DEF RemoveLocked, held
<1>6. /\ groups' \in Seq(Groups) /\ Once(groups') /\ In(groups') \subseteq In(groups)
      /\ apps' \in [Groups -> Seq(Apps)]
      /\ \A g \in Groups : Once(apps'[g]) /\ In(apps'[g]) \subseteq In(apps[g])
      /\ StillListed
  BY <1>5, AllStay
<1>7. \A y \in Owners : own[y].cnt \in Int
  BY <1>1 DEF Owner
<1>8. Ebbs
  <2>1. \A y \in Owners :
         /\ own'[y].group = own[y].group /\ own'[y].cnt <= own[y].cnt
         /\ own'[y].state = "unused" <=> own[y].state = "unused"
         /\ own'[y].state = "live" => Live(y)
         /\ Live(y) /\ own[y].cnt > 0 => own'[y].state = "live"
    BY <1>5, <1>7 DEF Live
  <2> QED BY <1>1, <1>5, <1>6, <2>1 DEF Ebbs
<1>9. \A y : Head(me[t].todo) # Do("unlink", y)
  BY <1>2, <1>3, DoIs
<1>10. OneLess(t)
  <2>1. ASSUME NEW y \in Owners, own[y].cnt > 0
        PROVE  (y \in list' <=> y \in list) /\ own'[y].cnt = own[y].cnt - 0
    <3>1. y # x
      BY <1>4, <2>1
    <3> QED BY <1>5, <1>7, <3>1
  <2> QED BY <1>9, <2>1 DEF OneLess
<1>11. IInv /\ t \in Threads /\ UNCHANGED <<session, lost>>
  BY <1>5
<1>12. CASE me' = [me EXCEPT ![t] = Then(t, <<k>>)]
  <2>1. Steps(t, <<k>>, {k})
    BY <1>2, <1>3, OneStep DEF Below, Removing
  <2>2. Sounds({k})' /\ \A f \in {k} : f.op # "unlink"
    BY <1>1, <1>3, <1>4, <1>5 DEF Sounds, Sound, Used
  <2> QED BY ONLY <1>2, <1>6, <1>8, <1>9, <1>10, <1>11, <1>12, <2>1, <2>2, InStack
<1>13. CASE me' = [me EXCEPT ![t] = Then(t, <<>>)]
  <2>1. Steps(t, <<>>, {}) /\ Sounds({})' /\ \A f \in {} : f.op # "unlink"
    BY <1>2, NoSteps DEF Sounds
  <2> QED BY ONLY <1>2, <1>6, <1>8, <1>9, <1>10, <1>11, <1>13, <2>1, InStack
<1> QED BY <1>12, <1>13 DEF RemoveLocked, Goto, Returned, k

\* The last reference is that of the thread that releases it.
LEMMA LastLink ==
  ASSUME IInv, NEW t \in Threads, NEW x \in Owners, Unlinks(t, "unlink", x), own[x].cnt <= 1
  PROVE  Holders(x) = {}
<1> SUFFICES ASSUME NEW u \in Holders(x) PROVE FALSE
  OBVIOUS
<1>1. Types /\ Stacked(t) /\ Exact(x) /\ u \in Threads
  BY DEF IInv, Holders
<1>2. Live(x) /\ own[x].cnt > 0 /\ Open(Home(x))
  BY <1>1, Held
<1>3. own[x].cnt = Refs(x) /\ own[x].cnt \in Int
  BY <1>1, <1>2 DEF Exact, Types, Owner
<1>4. t \in Rel(x)
  <2>1. me[t].todo # <<>> /\ Head(me[t].todo) = Do("unlink", x)
    BY HeadIs
  <2> QED BY <1>1, <2>1, Popped DEF Rel
<1>5. Rel(x) \subseteq Threads /\ Holders(x) \subseteq Threads
  BY DEF Rel, Holders
<1>6. IsFiniteSet(Rel(x)) /\ IsFiniteSet(Holders(x))
  BY <1>5, NoneIsNone, FS_Subset
<1>7. /\ Cardinality(Rel(x)) \in Nat /\ Cardinality(Rel(x)) # 0
      /\ Cardinality(Holders(x)) \in Nat /\ Cardinality(Holders(x)) # 0
  BY <1>4, <1>6, FS_CardinalityType, FS_EmptySet
<1>8. Lost(x) \in Nat /\ Manager(x) \in Nat
  BY <1>1 DEF Lost, Manager, Types
<1> QED BY <1>3, <1>7, <1>8 DEF Refs

LEMMA UnlinkKeeps ==
  ASSUME IInv, NEW t \in Threads, NEW x \in Owners, Unlink(t, x)
  PROVE  IInv'
<1> DEFINE h == Do("unlink", x)
<1>1. Types /\ own \in [Owners -> Owner] /\ x # None /\ Homed /\ Listed /\ \A u \in Threads : Placed(u)
  BY NoneIsNone DEF IInv, Types
<1>2. me[t].todo # <<>> /\ Head(me[t].todo) = h /\ h \in Frames /\ Sound(h)
  BY HeadIs DEF Unlink
<1>3. h.op = "unlink" /\ h.at = x
  BY DoIs
<1> HIDE DEF h
<1>4. Used(x) /\ own[x].cnt \in Int
  BY <1>1, <1>2, <1>3 DEF Sound, Owner
<1>5. UNCHANGED <<session, lost, list>> /\ own' = [own EXCEPT ![x].cnt = @ - 1]
  BY DEF Unlink
<1>6. /\ own' \in [Owners -> Owner]
      /\ \A y \in Owners : /\ own'[y].group = own[y].group /\ own'[y].state = own[y].state
                           /\ own'[y].cnt = own[y].cnt - (IF y = x THEN 1 ELSE 0)
                           /\ own[y].cnt \in Int
  BY <1>1, <1>4, <1>5 DEF Owner
<1>7. OneLess(t)
  <2>1. \A y \in Owners : Head(me[t].todo) = Do("unlink", y) <=> y = x
    BY <1>2, <1>3, DoIs DEF h
  <2> QED BY <1>5, <1>6, <2>1 DEF OneLess
<1>8. Head(me[t].todo) # Do("unlink", None)
  BY <1>1, <1>2, <1>3, DoIs
<1>9. \A y \in Owners :
       /\ own'[y].group = own[y].group /\ own'[y].cnt <= own[y].cnt
       /\ own'[y].state = "unused" <=> own[y].state = "unused"
       /\ own'[y].state = "live" => Live(y)
       /\ Live(y) /\ own[y].cnt > 0 => own'[y].state = "live"
  BY <1>6 DEF Live
<1>10. IInv /\ t \in Threads /\ UNCHANGED <<session, lost>>
  BY <1>5
<1>11. CASE own[x].cnt > 1 /\ Return(t) /\ UNCHANGED <<groups, apps, mutex>>
  <2>1. me' = [me EXCEPT ![t] = Then(t, <<>>)]
    BY <1>11 DEF Return, Goto, Stay, Returned
  <2>2. Steps(t, <<>>, {}) /\ Sounds({})' /\ \A f \in {} : f.op # "unlink"
    BY <1>2, NoSteps DEF Sounds
  <2>3. \A y \in Owners : own[y].cnt > 0 => own'[y].cnt > 0
    BY <1>6, <1>11
  <2>4. /\ groups' \in Seq(Groups) /\ Once(groups') /\ In(groups') \subseteq In(groups)
        /\ apps' \in [Groups -> Seq(Apps)]
        /\ \A g \in Groups : Once(apps'[g]) /\ In(apps'[g]) \subseteq In(apps[g])
        /\ StillListed
    BY <1>11, <2>3, AllStay
  <2>5. Ebbs
    BY <1>5, <1>6, <1>9, <2>4 DEF Ebbs
  <2> QED BY ONLY <1>2, <1>7, <1>8, <1>10, <2>1, <2>2, <2>4, <2>5, InStack
<1>12. CASE own[x].cnt <= 1 /\ RemoveWatchdog(t, x)
            /\ IF x \in Groups
               THEN groups' = TakenOut(groups, x) /\ UNCHANGED apps
               ELSE apps' = [apps EXCEPT ![own[x].group] = TakenOut(@, x)] /\ UNCHANGED groups
  <2>1. Holders(x) = {}
    BY <1>12, LastLink DEF Unlink
  <2>2. groups \in Seq(Groups) /\ Once(groups) /\ apps \in [Groups -> Seq(Apps)]
        /\ \A g \in Groups : apps[g] \in Seq(Apps) /\ Once(apps[g])
    BY <1>1 DEF Types
  <2>3. /\ groups' \in Seq(Groups) /\ Once(groups')
        /\ In(groups') = In(groups) \ (IF x \in Groups THEN {x} ELSE {})
    <3>1. CASE x \in Groups
      BY <1>12, <2>2, <3>1, TakenOutIs
    <3>2. CASE x \notin Groups
      BY <1>12, <2>2, <3>2
    <3> QED BY <3>1, <3>2
  <2>4. /\ apps' \in [Groups -> Seq(Apps)]
        /\ \A g \in Groups : Once(apps'[g])
             /\ In(apps'[g]) = In(apps[g]) \ (IF x \notin Groups /\ g = own[x].group THEN {x} ELSE {})
    <3>1. CASE x \in Groups
      BY <1>12, <2>2, <3>1
    <3>2. CASE x \notin Groups
      <4>1. PICK o \in Groups : o = own[x].group
        BY <1>1, <1>4, <3>2 DEF Homed, Owners
      <4>2. /\ TakenOut(apps[o], x) \in Seq(Apps) /\ Once(TakenOut(apps[o], x))
            /\ In(TakenOut(apps[o], x)) = In(apps[o]) \ {x}
        BY <2>2, TakenOutIs
      <4>3. apps' = [apps EXCEPT ![o] = TakenOut(apps[o], x)]
        BY <1>12, <3>2, <4>1
      <4> DEFINE n == TakenOut(apps[o], x)
      <4> HIDE DEF n
      <4>4. n \in Seq(Apps) /\ Once(n) /\ In(n) = In(apps[o]) \ {x} /\ apps' = [apps EXCEPT ![o] = n]
        BY <4>2, <4>3 DEF n
      <4> QED BY <2>2, <3>2, <4>1, <4>4
    <3> QED BY <3>1, <3>2
  <2>5. x \notin In(groups') /\ \A g \in Groups : x \notin In(apps'[g])
    <3>1. x \notin In(groups')
      <4>1. \A g \in In(groups) : g \in Groups
        BY <2>2 DEF In
      <4> QED BY <2>3, <4>1
    <3>2. ASSUME NEW g \in Groups, x \in In(apps'[g]) PROVE FALSE
      <4>1. x \in In(apps[g]) /\ apps[g] \in Seq(Apps)
        BY <2>2, <2>4, <3>2
      <4>2. x \in Apps
        BY <4>1 DEF In
      <4>3. x \notin Groups /\ own[x].group = g
        BY <1>1, <4>1, <4>2, NoneIsNone DEF Listed
      <4> QED BY <2>4, <3>2, <4>3
    <3> QED BY <3>1, <3>2
  <2>6. StillListed
    <3>1. \A g \in In(groups') : own'[g].cnt > 0
      <4>1. ASSUME NEW g \in In(groups') PROVE own'[g].cnt > 0
        <5>1. g \in In(groups) /\ g # x
          BY <2>3, <2>5
        <5>2. g \in Owners /\ own[g].cnt > 0
          BY <1>1, <2>2, <5>1 DEF In, Listed, Owners
        <5> QED BY <1>6, <5>1, <5>2
      <4> QED BY <4>1
    <3>2. ASSUME NEW g \in Groups, NEW a \in In(apps'[g]) PROVE own'[a].cnt > 0
      <4>1. a \in In(apps[g]) /\ a # x /\ apps[g] \in Seq(Apps)
        BY <2>2, <2>4, <2>5
      <4>2. a \in Owners
        BY <4>1 DEF In, Owners
      <4>3. own[a].cnt > 0
        BY <1>1, <4>1 DEF Listed
      <4> QED BY <1>6, <4>1, <4>2, <4>3
    <3>3. ASSUME NEW u \in Threads
          PROVE  /\ me[u].group # None => me[u].group \in In(groups')
                 /\ me[u].app # None => me[u].app \in In(apps'[me[u].group])
      <4>1. x # me[u].group /\ x # me[u].app
        BY <2>1 DEF Holders
      <4>2. /\ me[u].group # None => me[u].group \in In(groups)
            /\ me[u].app # None => me[u].app \in In(apps[me[u].group]) /\ me[u].group # None
        BY <1>1 DEF Placed
      <4>3. me[u].group \in Groups \cup {None}
        BY <1>1 DEF Types, Local
      <4> QED BY <2>3, <2>4, <4>1, <4>2, <4>3
    <3> QED BY <3>1, <3>2, <3>3 DEF StillListed
  <2>7. Ebbs
    BY <1>5, <1>6, <1>9, <2>3, <2>4 DEF Ebbs
  <2> DEFINE m == Do("rm", x)
             e == Ends(x)
  <2>8. /\ m \in Frames /\ m.op = "rm" /\ m.at = x /\ Rank(m) = Rank(h)
        /\ e \in Frames /\ e.op \in {"members", "close"} /\ e.at = x /\ Rank(e) = Rank(h)
    <3>1. m \in Frames /\ m.op = "rm" /\ m.at = x
      BY RankIs DEF Ops
    <3>2. e \in Frames /\ e.op \in {"members", "close"} /\ e.at = x
      BY RankIs DEF Ops, Ends
    <3> QED BY <1>1, <1>3, <3>1, <3>2 DEF Rank
  <2>9. own'[x].cnt <= 0 /\ own'[x].state # "unused"
    BY <1>4, <1>6, <1>12 DEF Used
  <2> HIDE DEF m, e
  <2>10. Sound(m)' /\ Sound(e)'
    BY <1>1, <2>8, <2>9 DEF Sound, Used
  <2>11. CASE me' = [me EXCEPT ![t] = Then(t, <<m, e>>)]
    <3>1. Steps(t, <<m, e>>, {m, e})
      BY <1>2, <1>3, <2>8, TwoSteps DEF Below, After, Removing
    <3>2. Sounds({m, e})' /\ \A f \in {m, e} : f.op # "unlink"
      BY <2>8, <2>10 DEF Sounds
    <3> QED BY ONLY <1>2, <1>7, <1>8, <1>10, <2>6, <2>7, <2>11, <3>1, <3>2, InStack
  <2>12. CASE me' = [me EXCEPT ![t] = Then(t, <<e>>)]
    <3>1. Steps(t, <<e>>, {e})
      BY <1>2, <1>3, <2>8, OneStep DEF Below, Removing
    <3>2. Sounds({e})' /\ \A f \in {e} : f.op # "unlink"
      BY <2>8, <2>10 DEF Sounds
    <3> QED BY ONLY <1>2, <1>7, <1>8, <1>10, <2>6, <2>7, <2>12, <3>1, <3>2, InStack
  <2> QED BY <1>12, <2>11, <2>12 DEF RemoveWatchdog, Goto, Stay, m, e
<1> QED BY <1>11, <1>12 DEF Unlink

-----------------------------------------------------------------------------
(***************************************************************************)
(* A request that goes on.                                                 *)
(***************************************************************************)
LEMMA Working ==
  ASSUME IInv, NEW t \in Conns, me[t].todo = <<>>, me[t].pc # "idle", UNCHANGED session,
         NEW r \in Local, r.todo = <<>>, r.pc # "idle", me' = [me EXCEPT ![t] = r]
  PROVE  /\ t \in Threads /\ t # Watchdog /\ Now(t, r) /\ me'[t] = r
         /\ Stacked(t)' /\ SessionFlow(t, r)
         /\ \A x \in Owners : Owes(x, r) = 0 /\ Owes(x, me[t]) = 0
<1>1. t \in Threads /\ t # Watchdog /\ Types
  BY NoneIsNone, AppsAssumption DEF IInv
<1>2. Now(t, r) /\ me'[t] = r
  BY <1>1 DEF Now, Types
<1>3. \A x : Owes(x, r) = 0 /\ Owes(x, me[t]) = 0
  BY EmptyStack DEF Owes
<1>4. Stacked(t)'
  BY <1>2, EmptyStack DEF Stacked
<1>5. Works(t, r) = Works(t, me[t])
  BY DEF Works
<1>6. SessionFlow(t, r)
  BY <1>1, <1>3, <1>5, SessionSame
<1> QED BY <1>1, <1>2, <1>3, <1>4, <1>6

LEMMA ManagerStays ==
  ASSUME Types, NEW t \in Threads, NEW r, Now(t, r), NEW x \in Owners,
         x \in list' <=> x \in list,
         r.pc = "adding" /\ r.new = x <=> me[t].pc = "adding" /\ me[t].new = x
  PROVE  Manager(x)' = Manager(x)
<1>1. \A u \in Conns : me'[u].pc = "adding" /\ me'[u].new = x
                         <=> me[u].pc = "adding" /\ me[u].new = x
  BY NowIs, NoneIsNone
<1> QED BY <1>1 DEF Manager

\* What the others have, while nothing is taken out.
LEMMA OthersKeep ==
  ASSUME IInv, NEW t \in Threads,
         \A x \in Owners : Live(x) /\ own[x].cnt > 0 => own'[x].state = "live",
         In(groups) \subseteq In(groups'), In(groups') \subseteq In(groups) \cup {me[t].new},
         \A g \in Groups : /\ In(apps[g]) \subseteq In(apps'[g])
                           /\ In(apps'[g]) \subseteq In(apps[g]) \cup {me[t].new},
         list' \subseteq list \cup {me[t].new}
  PROVE  Keeps(t)
<1>1. ASSUME NEW u \in Threads
      PROVE  /\ me[u].group # None => me[u].group \in In(groups')
             /\ me[u].app # None => me[u].app \in In(apps'[me[u].group])
  <2>1. Placed(u) /\ me[u].group \in Groups \cup {None}
    BY DEF IInv, Types, Local
  <2>2. me[u].group # None => me[u].group \in In(groups)
    BY <2>1 DEF Placed
  <2>3. me[u].app # None => me[u].group # None /\ me[u].app \in In(apps[me[u].group])
    BY <2>1 DEF Placed
  <2> QED BY <2>1, <2>2, <2>3
<1> QED BY <1>1 DEF Keeps

LEMMA VerifiedKeep ==
  ASSUME IInv, NEW t \in Conns, Turn(t, "verify"), UNCHANGED <<session, groups, apps, lost, list>>,
         NEW g \in In(groups), NEW a \in In(apps[g]) \cup {None},
         own' = Linked({g, a} \ {None}),
         me' = [me EXCEPT ![t] = [To(t, "work") EXCEPT !.group = g, !.app = a]]
  PROVE  IInv'
<1> DEFINE xs == {g, a} \ {None}
           r == [To(t, "work") EXCEPT !.group = g, !.app = a]
<1>1. /\ Types /\ Listed /\ Homed /\ Recorded /\ Apart /\ t \in Threads /\ Placed(t)
      /\ t # Watchdog /\ me[t] \in Local /\ own \in [Owners -> Owner]
  BY NoneIsNone, AppsAssumption DEF IInv, Types
<1>2. me[t].pc = "verify" /\ me[t].todo = <<>>
  BY DEF Turn
<1>3. me[t].app = None /\ me[t].group = None /\ me[t].new = None
  BY <1>1, <1>2 DEF Placed
<1>4. g \in Groups /\ g \in Owners /\ g # None /\ Live(g) /\ own[g].cnt > 0
  <2>1. g \in Groups
    BY <1>1 DEF Types, In
  <2> QED BY <1>1, <2>1, NoneIsNone DEF Listed, Owners
<1>5. a \in Apps \cup {None}
      /\ (a # None => a \in Owners /\ Live(a) /\ own[a].cnt > 0 /\ own[a].group = g)
  <2>1. apps[g] \in Seq(Apps)
    BY <1>1, <1>4 DEF Types
  <2>2. a \in Apps \cup {None}
    BY <2>1 DEF In
  <2> QED BY <1>1, <1>4, <2>2 DEF Listed, Owners
<1>6. /\ r \in Local /\ r.pc = "work" /\ r.app = a /\ r.group = g /\ r.new = None /\ r.todo = <<>>
  BY <1>1, <1>2, <1>3, <1>4, <1>5 DEF To, Local, Labels
<1>7. me' = [me EXCEPT ![t] = r]
  OBVIOUS
<1> HIDE DEF r
<1>8. /\ Now(t, r) /\ me'[t] = r /\ Stacked(t)' /\ SessionFlow(t, r)
      /\ \A x \in Owners : Owes(x, r) = 0 /\ Owes(x, me[t]) = 0
  BY <1>2, <1>6, <1>7, Working
<1>9. \A y \in Owners : Has(y, me[t]) = 0 /\ Has(y, r) = IF y \in xs THEN 1 ELSE 0
  BY <1>3, <1>6, NoneIsNone DEF Has
<1>10. \A y \in xs : y \in Owners /\ Live(y) /\ own[y].cnt > 0 /\ Used(y)
  BY <1>4, <1>5 DEF Live, Used
<1> HIDE DEF xs
<1>11. /\ own' \in [Owners -> Owner]
       /\ \A y \in Owners : /\ own'[y].state = own[y].state /\ own'[y].group = own[y].group
                            /\ own[y].cnt \in Int /\ own'[y].cnt \in Int
                            /\ y \in xs => own'[y].cnt = own[y].cnt + 1
                            /\ y \notin xs => own'[y].cnt = own[y].cnt
  <2>1. own' = [y \in Owners |-> IF y \in xs THEN [own[y] EXCEPT !.cnt = own[y].cnt + 1] ELSE own[y]]
    BY DEF Linked, xs
  <2>2. ASSUME NEW y \in Owners
        PROVE  /\ own'[y] \in Owner /\ own'[y].state = own[y].state /\ own'[y].group = own[y].group
               /\ own[y].cnt \in Int /\ own'[y].cnt \in Int
               /\ y \in xs => own'[y].cnt = own[y].cnt + 1
               /\ y \notin xs => own'[y].cnt = own[y].cnt
    <3>1. own[y] \in Owner
      BY <1>1
    <3>2. own[y].cnt \in Int
      BY <3>1 DEF Owner
    <3>3. PICK n \in Int : n = own[y].cnt + 1
      BY <3>2
    <3>4. CASE y \in xs
      <4>1. own'[y] = [own[y] EXCEPT !.cnt = n]
        BY <2>1, <3>3, <3>4
      <4> QED BY <3>1, <3>2, <3>3, <3>4, <4>1 DEF Owner
    <3>5. CASE y \notin xs
      <4>1. own'[y] = own[y]
        BY <2>1, <3>5
      <4> QED BY <3>1, <3>2, <3>5, <4>1
    <3> QED BY <3>4, <3>5
  <2> QED BY <2>1, <2>2
<1>12. ASSUME NEW y \in Owners
       PROVE  /\ own[y].cnt > 0 => own'[y].cnt > 0
              /\ own[y].cnt <= 0 => own'[y].cnt <= 0 /\ y \notin xs
              /\ Has(y, r) = 0 => own'[y].cnt = own[y].cnt
              /\ Has(y, r) # 0 => Has(y, r) = 1 /\ own'[y].cnt = own[y].cnt + 1
              /\ own[y].cnt \in Int
  <2>1. PICK n \in Int : n = own[y].cnt
    BY <1>11
  <2>2. CASE y \in xs
    <3>1. own'[y].cnt = n + 1 /\ n > 0 /\ Has(y, r) = 1
      BY <1>9, <1>10, <1>11, <2>1, <2>2
    <3> QED BY <2>1, <3>1
  <2>3. CASE y \notin xs
    <3>1. own'[y].cnt = n /\ Has(y, r) = 0
      BY <1>9, <1>11, <2>1, <2>3
    <3> QED BY <2>1, <2>3, <3>1
  <2> QED BY <2>2, <2>3
<1>13. Types'
  <2>1. me' \in [Threads -> Local]
    BY <1>1, <1>6, <1>7 DEF Types
  <2> QED BY <1>1, <1>11, <2>1 DEF Types
<1>14. Homed' /\ Recorded'
  BY ZenonT(40), <1>1, <1>11 DEF Homed, Recorded, Used, Lost, Owners
<1>15. Listed'
  <2>1. ASSUME NEW h \in In(groups) PROVE own'[h].state = "live" /\ own'[h].cnt > 0
    <3>1. h \in Owners
      BY <1>1 DEF Types, In, Owners
    <3>2. Live(h) /\ own[h].cnt > 0
      BY <1>1 DEF Listed
    <3> QED BY <1>11, <1>12, <3>1, <3>2 DEF Live
  <2>2. ASSUME NEW h \in Groups, NEW b \in In(apps[h])
        PROVE  own'[b].state = "live" /\ own'[b].cnt > 0 /\ own'[b].group = h
    <3>1. apps[h] \in Seq(Apps)
      BY <1>1 DEF Types
    <3>2. b \in Owners
      BY <3>1 DEF In, Owners
    <3>3. Live(b) /\ own[b].cnt > 0 /\ own[b].group = h
      BY <1>1 DEF Listed
    <3> QED BY <1>11, <1>12, <3>2, <3>3 DEF Live
  <2> QED BY <2>1, <2>2 DEF Listed, Live
<1>16. Sinks
  BY <1>11, <1>12 DEF Sinks, Used
<1>17. Keeps(t)
  BY <1>1, <1>11, OthersKeep DEF Live
<1>18. Placed(t)'
  <2>1. /\ g \in In(groups') /\ (a # None => own'[a].group = g /\ a \in In(apps'[g]))
    BY <1>4, <1>5, <1>11
  <2> QED BY <1>1, <1>4, <1>6, <1>8, <2>1, NoneIsNone DEF Placed, Owners
<1>19. ASSUME NEW y \in Owners PROVE Flow(t, r, y)
  <2>1. Manager(y)' = Manager(y) /\ Lost(y)' = Lost(y)
    BY <1>1, <1>2, <1>6, <1>8, ManagerStays DEF Lost
  <2>2. Manager(y) \in Int /\ Lost(y) \in Int
    BY <1>1 DEF Manager, Lost, Types
  <2>3. own'[y].state = "live" /\ Open(Home(y))' => Live(y) /\ Open(Home(y))
    <3> SUFFICES ASSUME own'[y].state = "live", Open(Home(y))' PROVE Live(y) /\ Open(Home(y))
      OBVIOUS
    <3>1. Live(y) /\ Home(y)' = Home(y)
      BY <1>11 DEF Live, Home
    <3>2. Home(y) \in Owners \cup {None}
      BY <1>1, <3>1 DEF Homed, Home, Owners, Live, Used
    <3>3. PICK h \in Owners \cup {None} : h = Home(y)
      BY <3>2
    <3>4. Open(h)'
      BY <3>1, <3>3
    <3>5. Open(h)
      <4>1. CASE h = None
        BY <3>4, <4>1 DEF Open
      <4>2. CASE h # None
        <5>1. h \in Owners
          BY <4>2
        <5> QED BY <1>10, <1>11, <3>4, <4>2, <5>1 DEF Open
      <4> QED BY <4>1, <4>2
    <3> QED BY <3>1, <3>3, <3>5
  <2>4. own'[y].cnt + 0 + 0 + Lost(y) + Manager(y)
          = own[y].cnt + Has(y, r) + 0 + Lost(y)' + Manager(y)'
    <3>1. Has(y, r) \in {0, 1}
      BY DEF Has
    <3>2. PICK c \in Int, m \in Int, n \in Int : c = own[y].cnt /\ m = Manager(y) /\ n = Lost(y)
      BY <1>12, <2>2
    <3>3. CASE Has(y, r) = 0
      <4>1. own'[y].cnt = c
        BY <1>12, <3>2, <3>3
      <4> QED BY <2>1, <3>2, <3>3, <4>1
    <3>4. CASE Has(y, r) = 1
      <4>1. own'[y].cnt = c + 1
        <5>1. own'[y].cnt = own[y].cnt + 1
          <6>1. Has(y, r) # 0
            BY <3>4
          <6> QED BY ONLY <1>12, <6>1, y \in Owners
        <5> QED BY ONLY <3>2, <5>1
      <4>2. (c + 1) + 0 + 0 + n + m = c + 1 + 0 + n + m
        BY <3>2
      <4> QED BY <2>1, <3>2, <3>4, <4>1, <4>2
    <3> QED BY <3>1, <3>3, <3>4
  <2>5. own[y].cnt <= 0 => own'[y].cnt <= 0 /\ Has(y, r) = 0
    BY <1>9, <1>12
  <2> QED BY <1>8, <1>9, <2>1, <2>3, <2>4, <2>5 DEF Flow
<1>20. \A u \in Threads : u # t => r.new = None \/ me[u].new # r.new
  BY <1>6
<1> QED BY <1>1, <1>8, <1>13, <1>14, <1>15, <1>16, <1>17, <1>18, <1>19, <1>20, StepKeeps

LEMMA VerifyAKeyKeeps ==
  ASSUME IInv, NEW t \in Conns, VerifyAKey(t)
  PROVE  IInv'
<1>1. UNCHANGED <<session, groups, apps, lost, list>> /\ Turn(t, "verify") /\ me[t].pc = "verify"
  BY DEF VerifyAKey, timers, Turn
<1>2. t \in Threads /\ t # Watchdog
  BY NoneIsNone, AppsAssumption
<1>3. CASE Goto(t, To(t, "work")) /\ UNCHANGED own
  <2>1. /\ me' = [me EXCEPT ![t] = To(t, "work")] /\ "work" \in Labels
        /\ Calm /\ UNCHANGED session
    BY <1>1, <1>3 DEF Goto, Calm, Labels
  <2> QED BY <1>1, <1>2, <2>1, PausesKeep
<1>4. ASSUME NEW g \in In(groups), NEW a \in In(apps[g]) \cup {None},
             own' = Linked({g, a} \ {None}),
             Goto(t, [To(t, "work") EXCEPT !.group = g, !.app = a])
      PROVE  IInv'
  BY <1>1, <1>4, VerifiedKeep DEF Goto
<1> QED BY <1>3, <1>4 DEF VerifyAKey

\* What is unused nobody has, and nothing is in it.
LEMMA UnusedIs ==
  ASSUME IInv, NEW x \in Owners, ~Used(x)
  PROVE  /\ Holders(x) = {} /\ Rel(x) = {} /\ Lost(x) = 0 /\ x \notin list /\ Outside(x)
         /\ \A y \in Owners : Used(y) => Home(y) # x
<1>1. Types /\ Recorded /\ Listed /\ Homed /\ \A u \in Threads : Stacked(u)
  BY DEF IInv
<1>2. Holders(x) = {}
  <2> SUFFICES ASSUME NEW u \in Holders(x) PROVE FALSE
    OBVIOUS
  <2>1. u \in Threads
    BY DEF Holders
  <2> QED BY <2>1, Held
<1>3. Rel(x) = {}
  <2> SUFFICES ASSUME NEW u \in Rel(x) PROVE FALSE
    OBVIOUS
  <2>1. Sound(Do("unlink", x))
    BY <1>1 DEF Rel, Stacked
  <2> QED BY <2>1, DoIs, NoneIsNone DEF Sound
<1>4. Lost(x) = 0 /\ x \notin list
  <2>1. Lost(x) \in Nat
    BY <1>1 DEF Lost, Types
  <2> QED BY <1>1, <2>1 DEF Recorded
<1>5. Outside(x)
  BY <1>1 DEF Listed, Live, Used, Outside
<1>6. \A y \in Owners : Used(y) => Home(y) # x
  BY <1>1, NoneIsNone DEF Homed, Home, Owners
<1> QED BY <1>2, <1>3, <1>4, <1>5, <1>6

LEMMA AllocKeeps ==
  ASSUME IInv, NEW t \in Conns, NEW x \in Owners, NEW g \in Groups \cup {None},
         me[t].todo = <<>>, me[t].pc \in {"work", "newapp"}, Alloc(t, x, g),
         UNCHANGED <<session, groups, apps, lost, list>>, g = me[t].group,
         x \in Groups <=> g = None
  PROVE  IInv'
<1> DEFINE r == [To(t, "adding") EXCEPT !.new = x]
           n == [state |-> "live", cnt |-> 2, group |-> g]
<1>1. /\ Types /\ Listed /\ Homed /\ Recorded /\ Apart /\ t \in Threads /\ Placed(t)
      /\ t # Watchdog /\ me[t] \in Local /\ own \in [Owners -> Owner] /\ x # None
  BY NoneIsNone, AppsAssumption DEF IInv, Types
<1>2. ~Used(x) /\ own' = [own EXCEPT ![x] = n] /\ me' = [me EXCEPT ![t] = r]
  BY DEF Alloc, Goto, Used
<1>3. /\ Holders(x) = {} /\ Rel(x) = {} /\ Lost(x) = 0 /\ x \notin list /\ Outside(x)
      /\ \A y \in Owners : Used(y) => Home(y) # x
  BY <1>2, UnusedIs
<1>4. me[t].new = None
  BY <1>1 DEF Placed
<1>5. /\ r \in Local /\ r.pc = "adding" /\ r.app = me[t].app /\ r.group = me[t].group
      /\ r.new = x /\ r.todo = <<>>
  BY <1>1 DEF To, Local, Labels
<1>6. n \in Owner /\ n.state = "live" /\ n.cnt = 2 /\ n.group = g
  BY DEF Owner
<1> HIDE DEF r, n
<1>7. /\ Now(t, r) /\ me'[t] = r /\ Stacked(t)' /\ SessionFlow(t, r)
      /\ \A y \in Owners : Owes(y, r) = 0 /\ Owes(y, me[t]) = 0
  BY <1>2, <1>5, Working
<1>8. /\ own' \in [Owners -> Owner] /\ own'[x] = n
      /\ \A y \in Owners : y # x => own'[y] = own[y]
  BY <1>1, <1>2, <1>6
<1>9. Types'
  <2>1. me' \in [Threads -> Local]
    BY <1>1, <1>2, <1>5 DEF Types
  <2> QED BY <1>1, <1>8, <2>1 DEF Types
<1>10. \A y \in Owners : Used(y) => y # x
  BY <1>2
<1>11. g # None => g \in Owners /\ Used(g)
  <2> SUFFICES ASSUME g # None PROVE g \in Owners /\ Used(g)
    OBVIOUS
  <2>1. g \in Owners /\ t \in Holders(g)
    BY <1>1 DEF Owners, Holders
  <2> QED BY <1>1, <2>1, Held
<1>12. Homed'
  <2>1. ASSUME NEW a \in Apps, own'[a].state # "unused"
        PROVE  own'[a].group \in Groups /\ own'[own'[a].group].state # "unused"
    <3>1. CASE a = x
      <4>1. g \in Groups /\ g # x /\ Used(g) /\ own'[a].group = g
        BY <1>1, <1>6, <1>8, <1>10, <1>11, <3>1, NoneIsNone
      <4> QED BY <1>8, <1>11, <4>1 DEF Used, Owners
    <3>2. CASE a # x
      <4>1. a \in Owners /\ own'[a] = own[a]
        BY <1>8, <3>2 DEF Owners
      <4>2. own[a].group \in Groups /\ Used(own[a].group)
        BY <1>1, <2>1, <4>1 DEF Homed, Used
      <4>3. own[a].group \in Owners /\ own[a].group # x
        BY <1>10, <4>2 DEF Owners
      <4> QED BY <1>8, <4>1, <4>2, <4>3 DEF Used
    <3> QED BY <3>1, <3>2
  <2> QED BY <2>1 DEF Homed, Used
<1>13. Listed'
  <2>1. \A h \in In(groups) : h \in Owners /\ h # x
    BY <1>1, <1>3 DEF Types, In, Owners, Outside
  <2>2. ASSUME NEW h \in Groups, NEW a \in In(apps[h]) PROVE a \in Owners /\ a # x
    <3>1. apps[h] \in Seq(Apps)
      BY <1>1 DEF Types
    <3> QED BY <1>3, <2>2, <3>1 DEF In, Owners, Outside
  <2> QED BY <1>1, <1>8, <2>1, <2>2 DEF Listed, Live
<1>14. Recorded'
  BY <1>1, <1>3, <1>8 DEF Recorded, Used, Lost
<1>15. Sinks
  BY <1>8, <1>10 DEF Sinks, Used
<1>16. Keeps(t)
  <2>1. \A y \in Owners : Live(y) => own'[y].state = "live"
    BY <1>8, <1>10 DEF Live, Used
  <2>2. /\ In(groups) \subseteq In(groups') /\ In(groups') \subseteq In(groups) \cup {me[t].new}
        /\ \A h \in Groups : /\ In(apps[h]) \subseteq In(apps'[h])
                             /\ In(apps'[h]) \subseteq In(apps[h]) \cup {me[t].new}
        /\ list' \subseteq list \cup {me[t].new}
    OBVIOUS
  <2> QED BY <1>1, <2>1, <2>2, OthersKeep
<1>17. Placed(t)'
  <2>1. /\ me[t].group # None => me[t].group \in In(groups')
        /\ me[t].app # None => /\ me[t].group # None /\ own[me[t].app].group = me[t].group
                               /\ me[t].app \in In(apps'[me[t].group])
    BY <1>1 DEF Placed
  <2>2. me[t].app # None => own'[me[t].app] = own[me[t].app]
    <3> SUFFICES ASSUME me[t].app # None PROVE own'[me[t].app] = own[me[t].app]
      OBVIOUS
    <3>1. me[t].app \in Owners /\ t \in Holders(me[t].app)
      BY <1>1 DEF Holders, Local, Owners
    <3> QED BY <1>3, <1>8, <3>1
  <2>3. Outside(x)' /\ own'[x].state = "live" /\ own'[x].group = g
    BY <1>3, <1>6, <1>8 DEF Outside
  <2>4. x \in Groups => r.group = None
    BY <1>5
  <2> QED BY <1>1, <1>3, <1>5, <1>7, <2>1, <2>2, <2>3, <2>4 DEF Placed, Live
<1>18. Exact(x)'
  <2>1. Rel(x)' = {}
    <3>1. \A u \in Threads : Do("unlink", x) \notin In(me'[u].todo)
      <4>1. \A u \in Threads : Do("unlink", x) \notin In(me[u].todo)
        BY <1>3 DEF Rel
      <4> QED BY <1>1, <1>5, <1>7, <4>1, NowIs, EmptyStack
    <3> QED BY <3>1 DEF Rel
  <2>2. Cardinality(Rel(x)') = 0
    BY <2>1, FS_EmptySet
  <2>3. Cardinality(Holders(x)) = 0
    BY <1>3, FS_EmptySet
  <2>4. Has(x, me[t]) = 0 /\ Has(x, r) = 1
    BY <1>1, <1>3, <1>5 DEF Has, Holders
  <2>5. Cardinality(Holders(x))' = 1
    <3>1. /\ Cardinality(Holders(x))' \in Nat
          /\ Cardinality(Holders(x))' + Has(x, me[t]) = Cardinality(Holders(x)) + Has(x, r)
      BY <1>1, <1>7, HoldersMove
    <3> QED BY <2>3, <2>4, <3>1
  <2>6. Lost(x)' = 0
    BY <1>3 DEF Lost
  <2>7. Manager(x)' = 1
    BY <1>5, <1>7 DEF Manager
  <2>8. Refs(x)' = 2
    BY <2>2, <2>5, <2>6, <2>7 DEF Refs
  <2>9. own'[x].cnt = 2
    BY <1>6, <1>8
  <2> QED BY <2>8, <2>9 DEF Exact
<1>19. ASSUME NEW y \in Owners, y # x PROVE Flow(t, r, y)
  <2>1. Manager(y)' = Manager(y) /\ Lost(y)' = Lost(y)
    BY <1>1, <1>4, <1>5, <1>7, <1>19, ManagerStays DEF Lost
  <2>2. own'[y] = own[y] /\ own[y].cnt \in Int
    BY <1>1, <1>8, <1>19 DEF Owner
  <2>3. own'[y].state = "live" /\ Open(Home(y))' => Live(y) /\ Open(Home(y))
    <3> SUFFICES ASSUME own'[y].state = "live", Open(Home(y))' PROVE Live(y) /\ Open(Home(y))
      OBVIOUS
    <3>1. Live(y) /\ Home(y)' = Home(y) /\ Home(y) # x
      BY <1>3, <2>2 DEF Live, Used, Home
    <3>2. Home(y) \in Owners \cup {None}
      BY <1>1, <3>1 DEF Homed, Home, Owners, Live, Used
    <3>3. PICK h \in Owners \cup {None} : h = Home(y)
      BY <3>2
    <3>4. h # None => own'[h] = own[h]
      BY <1>8, <3>1, <3>3
    <3>5. Open(h)'
      BY <3>1, <3>3
    <3> QED BY <3>1, <3>3, <3>4, <3>5 DEF Open
  <2>4. Has(y, r) = Has(y, me[t])
    BY <1>4, <1>5, <1>19, NoneIsNone DEF Has
  <2>5. own[y].cnt <= 0 => Has(y, r) = 0
    <3>1. Has(y, me[t]) = 1 => own[y].cnt > 0
      BY <1>1, Held DEF Has, Holders
    <3>2. Has(y, me[t]) \in {0, 1}
      BY DEF Has
    <3> QED BY <2>2, <2>4, <3>1, <3>2
  <2> QED BY <1>7, <2>1, <2>2, <2>3, <2>4, <2>5 DEF Flow
<1>20. \A u \in Threads : u # t => r.new = None \/ me[u].new # r.new
  BY <1>3, <1>5 DEF Holders
<1>21. \A y \in Owners : Flow(t, r, y) \/ Exact(y)'
  BY <1>18, <1>19
<1> QED BY <1>1, <1>7, <1>9, <1>12, <1>13, <1>14, <1>15, <1>16, <1>17, <1>20, <1>21, StepKeeps

LEMMA AllocsKeep ==
  ASSUME IInv, NEW t \in Conns, AllocAppGroup(t) \/ AllocApp(t)
  PROVE  IInv'
<1>1. Placed(t) /\ me[t].group \in Groups \cup {None} /\ t \in Threads
  BY NoneIsNone DEF IInv, Types, Local
<1>2. CASE AllocAppGroup(t)
  <2>1. PICK g \in Groups : Alloc(t, g, None)
    BY <1>2 DEF AllocAppGroup
  <2>2. /\ me[t].todo = <<>> /\ me[t].pc = "work" /\ me[t].group = None /\ g \in Owners
        /\ UNCHANGED <<session, groups, apps, lost, list>>
    BY <1>2 DEF AllocAppGroup, Turn, Owners
  <2> QED BY <2>1, <2>2, AllocKeeps
<1>3. CASE AllocApp(t)
  <2>1. PICK a \in Apps : Alloc(t, a, me[t].group)
    BY <1>3 DEF AllocApp
  <2>2. /\ me[t].todo = <<>> /\ me[t].pc = "newapp" /\ a \in Owners /\ a \notin Groups
        /\ UNCHANGED <<session, groups, apps, lost, list>>
    BY <1>3, NoneIsNone DEF AllocApp, Turn, Owners
  <2>3. me[t].group # None
    BY <1>1, <2>2 DEF Placed
  <2>4. PICK g \in Groups \cup {None} : g = me[t].group
    BY <1>1
  <2> QED BY <2>1, <2>2, <2>3, <2>4, AllocKeeps
<1> QED BY <1>2, <1>3

-----------------------------------------------------------------------------
(***************************************************************************)
(* What is new is given to the watchdog, and then listed.                  *)
(***************************************************************************)
LEMMA OwnSame ==
  ASSUME IInv, UNCHANGED <<own, session>>
  PROVE  /\ Homed' /\ Sinks
         /\ \A x \in Owners : /\ own'[x] = own[x] /\ own[x].cnt \in Int
                              /\ own'[x].state = "live" /\ Open(Home(x))' => Live(x) /\ Open(Home(x))
BY DEF IInv, Types, Owner, Homed, Sinks, Used, Live, Home, Open

LEMMA FlowSame ==
  ASSUME IInv, UNCHANGED <<own, session>>, NEW t \in Threads, NEW r, NEW x \in Owners,
         Has(x, me[t]) + Owes(x, me[t]) + Lost(x) + Manager(x)
           = Has(x, r) + Owes(x, r) + Lost(x)' + Manager(x)',
         Lost(x)' \in Int, Has(x, r) <= Has(x, me[t]), Has(x, me[t]) = 0 => Lost(x)' = Lost(x)
  PROVE  Flow(t, r, x)
<1>1. /\ own'[x] = own[x] /\ own[x].cnt \in Int
      /\ own'[x].state = "live" /\ Open(Home(x))' => Live(x) /\ Open(Home(x))
  BY OwnSame
<1>2. own[x].cnt > 0 =>
        own'[x].cnt + Has(x, me[t]) + Owes(x, me[t]) + Lost(x) + Manager(x)
          = own[x].cnt + Has(x, r) + Owes(x, r) + Lost(x)' + Manager(x)'
  <2>1. /\ Has(x, me[t]) \in Int /\ Has(x, r) \in Int /\ Owes(x, me[t]) \in Int /\ Owes(x, r) \in Int
        /\ Manager(x) \in Int /\ Manager(x)' \in Int /\ Lost(x) \in Int
    BY DEF Has, Owes, Manager, Lost, IInv, Types
  <2>2. PICK a \in Int, b \in Int, c \in Int, d \in Int :
          a = Has(x, me[t]) /\ b = Owes(x, me[t]) /\ c = Lost(x) /\ d = Manager(x)
    BY <2>1
  <2>3. PICK a1 \in Int, b1 \in Int, c1 \in Int, d1 \in Int :
          a1 = Has(x, r) /\ b1 = Owes(x, r) /\ c1 = Lost(x)' /\ d1 = Manager(x)'
    BY <2>1
  <2>4. PICK n \in Int : n = own[x].cnt
    BY <1>1
  <2>5. a + b + c + d = a1 + b1 + c1 + d1
    BY <2>2, <2>3
  <2>6. n + a + b + c + d = n + a1 + b1 + c1 + d1
    BY ONLY <2>5, a \in Int, b \in Int, c \in Int, d \in Int, a1 \in Int, b1 \in Int,
            c1 \in Int, d1 \in Int, n \in Int
  <2> QED BY <1>1, <2>2, <2>3, <2>4, <2>6
<1>3. own[x].cnt <= 0 => own'[x].cnt <= 0 /\ Has(x, r) = 0 /\ Lost(x)' = Lost(x)
  <2>1. Has(x, me[t]) = 1 => own[x].cnt > 0
    BY Held DEF Has, Holders
  <2>2. Has(x, me[t]) \in {0, 1} /\ Has(x, r) \in {0, 1}
    BY DEF Has
  <2> QED BY <1>1, <2>1, <2>2
<1> QED BY <1>1, <1>2, <1>3 DEF Flow

LEMMA AddLockedKeeps ==
  ASSUME IInv, NEW t \in Conns, AddLocked(t)
  PROVE  IInv'
<1> DEFINE r == To(t, "added")
<1>1. /\ Types /\ Listed /\ Recorded /\ Apart /\ t \in Threads /\ Placed(t)
      /\ t # Watchdog /\ me[t] \in Local
  BY NoneIsNone, AppsAssumption DEF IInv, Types
<1>2. /\ me[t].pc = "adding" /\ me[t].todo = <<>> /\ list' = list \cup {me[t].new}
      /\ UNCHANGED <<session, own, groups, apps, lost>>
      /\ me' = [me EXCEPT ![t] = r]
  BY DEF AddLocked, Turn, held, Goto
<1>3. /\ r \in Local /\ r.pc = "added" /\ r.app = me[t].app /\ r.group = me[t].group
      /\ r.new = me[t].new /\ r.todo = <<>>
  BY <1>1, <1>2 DEF To, Local, Labels
<1> HIDE DEF r
<1>4. /\ Now(t, r) /\ me'[t] = r /\ Stacked(t)' /\ SessionFlow(t, r)
      /\ \A y \in Owners : Owes(y, r) = 0 /\ Owes(y, me[t]) = 0
  BY <1>2, <1>3, Working
<1>5. PICK x \in Owners : x = me[t].new /\ Live(x)
  BY <1>1, <1>2 DEF Placed, Local
<1>6. Types'
  <2>1. me' \in [Threads -> Local]
    BY <1>1, <1>2, <1>3 DEF Types
  <2> QED BY <1>1, <1>2, <1>5, <2>1 DEF Types
<1>7. Homed' /\ Sinks
  BY <1>2, OwnSame
<1>8. Listed' /\ Recorded'
  BY <1>1, <1>2, <1>5 DEF Listed, Recorded, Live, Used, Lost
<1>9. Keeps(t)
  BY <1>1, <1>2, OthersKeep DEF Live
<1>10. Placed(t)'
  BY <1>1, <1>2, <1>3, <1>4 DEF Placed, Live, Outside
<1>11. ASSUME NEW y \in Owners PROVE Flow(t, r, y)
  <2>1. Manager(y)' = Manager(y)
    <3>1. CASE y = x
      <4>1. Manager(y) = 1
        BY <1>2, <1>5, <3>1 DEF Manager
      <4>2. Manager(y)' = 1
        BY <1>2, <1>5, <3>1 DEF Manager
      <4> QED BY <4>1, <4>2
    <3>2. CASE y # x
      BY <1>1, <1>2, <1>3, <1>4, <1>5, <3>2, ManagerStays
    <3> QED BY <3>1, <3>2
  <2>2. /\ Lost(y)' = Lost(y) /\ Lost(y) \in Int
        /\ Has(y, r) = Has(y, me[t]) /\ Has(y, r) \in Int
    BY <1>1, <1>2, <1>3 DEF Lost, Types, Has
  <2> QED BY <1>1, <1>2, <1>4, <2>1, <2>2, FlowSame
<1>12. \A u \in Threads : u # t => r.new = None \/ me[u].new # r.new
  BY <1>1, <1>3 DEF Apart
<1> QED BY <1>1, <1>4, <1>6, <1>7, <1>8, <1>9, <1>10, <1>11, <1>12, StepKeeps

LEMMA GroupAddedKeeps ==
  ASSUME IInv, NEW t \in Conns, GroupAdded(t)
  PROVE  IInv'
<1> DEFINE r == [To(t, "newapp") EXCEPT !.group = me[t].new, !.new = None]
<1>1. /\ Types /\ Listed /\ Recorded /\ Apart /\ t \in Threads /\ Placed(t)
      /\ t # Watchdog /\ me[t] \in Local
  BY NoneIsNone, AppsAssumption DEF IInv, Types
<1>2. PICK g \in Groups : g = me[t].new
  BY DEF GroupAdded
<1>3. /\ me[t].pc = "added" /\ me[t].todo = <<>> /\ groups' = Append(groups, g)
      /\ UNCHANGED <<session, own, apps, lost, list>>
      /\ me' = [me EXCEPT ![t] = r]
  BY <1>2 DEF GroupAdded, Turn, timers, Stay
<1>4. /\ me[t].group = None /\ me[t].app = None /\ g # None /\ g \in Owners
      /\ Live(g) /\ Outside(g)
  BY <1>1, <1>2, NoneIsNone DEF Placed, Owners
<1>5. /\ r \in Local /\ r.pc = "newapp" /\ r.app = None /\ r.group = g
      /\ r.new = None /\ r.todo = <<>>
  BY <1>1, <1>2, <1>3, <1>4 DEF To, Local, Labels
<1> HIDE DEF r
<1>6. /\ Now(t, r) /\ me'[t] = r /\ Stacked(t)' /\ SessionFlow(t, r)
      /\ \A y \in Owners : Owes(y, r) = 0 /\ Owes(y, me[t]) = 0
  BY <1>3, <1>5, Working
<1>7. own[g].cnt > 0
  <2>1. t \in Holders(g)
    BY <1>1, <1>2 DEF Holders
  <2> QED BY <1>1, <1>4, <2>1, Held
<1>8. /\ groups' \in Seq(Groups) /\ Once(groups') /\ In(groups') = In(groups) \cup {g}
  BY <1>1, <1>3, <1>4, AskAppends DEF Types, Outside
<1>9. Types'
  <2>1. me' \in [Threads -> Local]
    BY <1>1, <1>3, <1>5 DEF Types
  <2> QED BY <1>1, <1>3, <1>8, <2>1 DEF Types
<1>10. Homed' /\ Sinks
  BY <1>3, OwnSame
<1>11. Listed' /\ Recorded'
  BY <1>1, <1>3, <1>4, <1>7, <1>8 DEF Listed, Recorded, Live, Used, Lost
<1>12. Keeps(t)
  <2>1. /\ \A x \in Owners : Live(x) /\ own[x].cnt > 0 => own'[x].state = "live"
        /\ In(groups) \subseteq In(groups') /\ In(groups') \subseteq In(groups) \cup {me[t].new}
        /\ \A h \in Groups : /\ In(apps[h]) \subseteq In(apps'[h])
                             /\ In(apps'[h]) \subseteq In(apps[h]) \cup {me[t].new}
        /\ list' \subseteq list \cup {me[t].new}
    BY <1>2, <1>3, <1>8 DEF Live
  <2> QED BY <1>1, <2>1, OthersKeep
<1>13. Placed(t)'
  BY <1>1, <1>4, <1>5, <1>6, <1>8, NoneIsNone DEF Placed, Owners
<1>14. ASSUME NEW y \in Owners PROVE Flow(t, r, y)
  <2>1. Manager(y)' = Manager(y)
    BY <1>1, <1>3, <1>5, <1>6, ManagerStays
  <2>2. /\ Lost(y)' = Lost(y) /\ Lost(y) \in Int
        /\ Has(y, r) = Has(y, me[t]) /\ Has(y, r) \in Int
    BY <1>1, <1>2, <1>3, <1>4, <1>5 DEF Lost, Types, Has
  <2> QED BY <1>1, <1>3, <1>6, <2>1, <2>2, FlowSame
<1>15. \A u \in Threads : u # t => r.new = None \/ me[u].new # r.new
  BY <1>5
<1> QED BY <1>1, <1>6, <1>9, <1>10, <1>11, <1>12, <1>13, <1>14, <1>15, StepKeeps

\* A connection that has what is new in place of what it had.
LEMMA ReplacedKeeps ==
  ASSUME IInv, NEW t \in Conns, me[t].todo = <<>>, me[t].pc \in {"newapp", "added"},
         NEW a \in Apps \cup {None}, a = me[t].new, NEW g \in Groups, g = me[t].group,
         UNCHANGED <<session, own, groups, list>>, Replaced(t, a),
         apps' \in [Groups -> Seq(Apps)],
         \A h \in Groups : /\ Once(apps'[h])
                           /\ In(apps'[h]) = In(apps[h]) \cup (IF h = g THEN {a} \ {None} ELSE {}),
         a # None => own[a].group = g
  PROVE  IInv'
<1> DEFINE r == [To(t, "held") EXCEPT !.app = a, !.new = None]
<1>1. /\ Types /\ Listed /\ Recorded /\ Apart /\ t \in Threads /\ Placed(t)
      /\ t # Watchdog /\ me[t] \in Local /\ g # None /\ g \in Owners
  BY NoneIsNone, AppsAssumption DEF IInv, Types, Owners
<1>2. PICK o \in Apps \cup {None} : o = me[t].app
  BY <1>1 DEF Local
<1>3. /\ lost' = (IF o = None THEN lost ELSE [lost EXCEPT ![o] = @ + 1])
      /\ me' = [me EXCEPT ![t] = r]
  BY <1>2 DEF Replaced, Goto
<1>4. /\ r \in Local /\ r.pc = "held" /\ r.app = a /\ r.group = g
      /\ r.new = None /\ r.todo = <<>>
  BY <1>1 DEF To, Local, Labels
<1> HIDE DEF r
<1>5. /\ Now(t, r) /\ me'[t] = r /\ Stacked(t)' /\ SessionFlow(t, r)
      /\ \A y \in Owners : Owes(y, r) = 0 /\ Owes(y, me[t]) = 0
  BY <1>3, <1>4, Working
<1>6. a # None => a \in Owners /\ Live(a) /\ own[a].cnt > 0 /\ Outside(a)
  <2> SUFFICES ASSUME a # None PROVE a \in Owners /\ Live(a) /\ own[a].cnt > 0 /\ Outside(a)
    OBVIOUS
  <2>1. a \in Owners /\ t \in Holders(a)
    BY <1>1 DEF Holders, Owners
  <2> QED BY <1>1, <2>1, Held DEF Placed
<1>7. o # None => o \in Owners /\ Used(o) /\ o # a /\ o # g
  <2> SUFFICES ASSUME o # None PROVE o \in Owners /\ Used(o) /\ o # a /\ o # g
    OBVIOUS
  <2>1. o \in Owners /\ t \in Holders(o) /\ o # g
    BY <1>1, <1>2, NoneIsNone DEF Holders, Owners
  <2>2. o \in In(apps[g])
    BY <1>1, <1>2 DEF Placed
  <2> QED BY <1>1, <1>6, <2>1, <2>2, Held DEF Outside
<1>8. /\ lost' \in [Apps -> Nat]
      /\ \A b \in Apps : b # o => lost'[b] = lost[b]
      /\ o # None => lost'[o] = lost[o] + 1
  BY <1>1, <1>3, NoneIsNone DEF Types, Owners
<1>9. Types'
  <2>1. me' \in [Threads -> Local]
    BY <1>1, <1>3, <1>4 DEF Types
  <2> QED BY <1>1, <1>8, <2>1 DEF Types
<1>10. Homed' /\ Sinks
  BY OwnSame
<1>11. Listed'
  <2>1. ASSUME NEW h \in Groups, NEW b \in In(apps'[h])
        PROVE  Live(b) /\ own[b].cnt > 0 /\ own[b].group = h
    <3>1. CASE b \in In(apps[h])
      BY <1>1, <3>1 DEF Listed
    <3>2. CASE b \notin In(apps[h])
      <4>1. h = g /\ b = a /\ a # None
        BY <2>1, <3>2
      <4> QED BY <1>6, <4>1
    <3> QED BY <3>1, <3>2
  <2> QED BY <1>1, <2>1 DEF Listed, Live
<1>12. Recorded'
  <2>1. ASSUME NEW y \in Owners, y \in list' \/ Lost(y)' > 0 PROVE Used(y)
    <3>1. CASE y = o
      BY <1>7, <3>1, NoneIsNone
    <3>2. CASE y # o
      BY <1>1, <1>8, <2>1, <3>2 DEF Recorded, Lost
    <3> QED BY <3>1, <3>2
  <2> QED BY <2>1 DEF Recorded, Used
<1>13. Keeps(t)
  <2>1. /\ \A x \in Owners : Live(x) /\ own[x].cnt > 0 => own'[x].state = "live"
        /\ In(groups) \subseteq In(groups') /\ In(groups') \subseteq In(groups) \cup {me[t].new}
        /\ \A h \in Groups : /\ In(apps[h]) \subseteq In(apps'[h])
                             /\ In(apps'[h]) \subseteq In(apps[h]) \cup {me[t].new}
        /\ list' \subseteq list \cup {me[t].new}
    BY DEF Live
  <2> QED BY <1>1, <2>1, OthersKeep
<1>14. Placed(t)'
  <2>1. g \in In(groups') /\ (a # None => a \in In(apps'[g]) /\ own'[a].group = g)
    BY <1>1 DEF Placed
  <2> QED BY <1>1, <1>4, <1>5, <2>1, NoneIsNone DEF Placed, Owners
<1>15. ASSUME NEW y \in Owners PROVE Flow(t, r, y)
  <2>1. Manager(y)' = Manager(y)
    BY <1>1, <1>4, <1>5, ManagerStays
  <2>2. Lost(y) \in Int /\ Lost(y)' \in Int /\ Manager(y) \in Int /\ y # None
    BY <1>1, <1>9, NoneIsNone DEF Lost, Types, Manager
  <2>3. CASE y = o
    <3>1. y \in Apps /\ Has(y, me[t]) = 1 /\ Has(y, r) = 0
      BY <1>2, <1>4, <1>7, <2>2, <2>3 DEF Has
    <3>2. Lost(y)' = Lost(y) + 1
      BY <1>8, <2>2, <2>3, <3>1 DEF Lost
    <3>3. PICK n \in Int, m \in Int : n = Lost(y) /\ m = Manager(y)
      BY <2>2
    <3>4. 1 + 0 + n + m = 0 + 0 + (n + 1) + m
      BY <3>3
    <3> QED BY <1>1, <1>5, <2>1, <2>2, <3>1, <3>2, <3>3, <3>4, FlowSame
  <2>4. CASE y # o
    <3>1. Has(y, r) = Has(y, me[t]) /\ Has(y, r) \in Int
      BY <1>2, <1>4, <2>2, <2>4 DEF Has
    <3>2. Lost(y)' = Lost(y)
      BY <1>8, <2>4 DEF Lost
    <3> QED BY <1>1, <1>5, <2>1, <2>2, <3>1, <3>2, FlowSame
  <2> QED BY <2>3, <2>4
<1>16. \A u \in Threads : u # t => r.new = None \/ me[u].new # r.new
  BY <1>4
<1> QED BY <1>1, <1>5, <1>9, <1>10, <1>11, <1>12, <1>13, <1>14, <1>15, <1>16, StepKeeps

LEMMA AppAddedKeeps ==
  ASSUME IInv, NEW t \in Conns, AppAdded(t)
  PROVE  IInv'
<1>1. /\ Types /\ Homed /\ t \in Threads /\ Placed(t) /\ me[t].todo = <<>> /\ me[t].pc = "added"
      /\ UNCHANGED <<session, own, groups, list>>
  BY NoneIsNone DEF IInv, AppAdded, Turn, timers
<1>2. PICK a \in Apps : a = me[t].new
  BY DEF AppAdded
<1>3. /\ Replaced(t, a) /\ a # None
      /\ apps' = [apps EXCEPT ![own[a].group] = Append(@, a)]
  BY <1>2, NoneIsNone DEF AppAdded, Owners
<1>4. Live(a) /\ Outside(a) /\ own[a].group = me[t].group
  BY <1>1, <1>2, <1>3 DEF Placed
<1>5. PICK g \in Groups : g = own[a].group
  BY <1>1, <1>4 DEF Homed, Live, Used
<1>6. /\ apps \in [Groups -> Seq(Apps)] /\ apps[g] \in Seq(Apps)
      /\ \A h \in Groups : Once(apps[h])
  BY <1>1 DEF Types
<1>7. /\ Append(apps[g], a) \in Seq(Apps) /\ Once(Append(apps[g], a))
      /\ In(Append(apps[g], a)) = In(apps[g]) \cup {a}
  BY <1>4, <1>6, AskAppends DEF Outside
<1> DEFINE q == Append(apps[g], a)
<1>8. apps' = [apps EXCEPT ![g] = q]
  BY <1>3, <1>5
<1> HIDE DEF q
<1>9. /\ apps' \in [Groups -> Seq(Apps)]
      /\ \A h \in Groups : /\ Once(apps'[h])
                           /\ In(apps'[h]) = In(apps[h]) \cup (IF h = g THEN {a} \ {None} ELSE {})
  <2>1. q \in Seq(Apps) /\ Once(q) /\ In(q) = In(apps[g]) \cup {a}
    BY <1>7 DEF q
  <2> QED BY <1>3, <1>6, <1>8, <2>1
<1> QED BY <1>1, <1>2, <1>3, <1>4, <1>5, <1>9, ReplacedKeeps

LEMMA AllocAppFailsKeeps ==
  ASSUME IInv, NEW t \in Conns, AllocAppFails(t)
  PROVE  IInv'
<1>1. /\ Types /\ t \in Threads /\ Placed(t) /\ me[t].todo = <<>> /\ me[t].pc = "newapp"
      /\ UNCHANGED <<session, own, groups, apps, list>> /\ Replaced(t, None)
  BY NoneIsNone DEF IInv, AllocAppFails, Turn, timers
<1>2. me[t].new = None /\ me[t].group # None /\ me[t].group \in Groups \cup {None}
  BY <1>1 DEF Placed, Types, Local
<1>3. PICK g \in Groups : g = me[t].group
  BY <1>2
<1>4. /\ apps' \in [Groups -> Seq(Apps)]
      /\ \A h \in Groups : /\ Once(apps'[h])
                           /\ In(apps'[h]) = In(apps[h]) \cup (IF h = g THEN {None} \ {None} ELSE {})
  BY <1>1 DEF Types
<1> QED BY <1>1, <1>2, <1>3, <1>4, ReplacedKeeps

-----------------------------------------------------------------------------
(***************************************************************************)
(* The watchdog takes a timer: its reference is then to be released.       *)
(***************************************************************************)
LEMMA FiresKeep ==
  ASSUME IInv, Turn(Watchdog, "pick"), NEW x \in list, list' = list \ {x}, UNCHANGED held,
         me' = [me EXCEPT ![Watchdog] = [To(Watchdog, "scan") EXCEPT
                              !.todo = <<Do("unlink", x), Do("fired", x)>>]]
  PROVE  IInv'
<1> DEFINE t == Watchdog
           f == Do("unlink", x)
           k == Do("fired", x)
           q == <<f, k>>
           r == [To(t, "scan") EXCEPT !.todo = q]
<1>1. /\ Types /\ Listed /\ Recorded /\ Apart /\ t \in Threads /\ Placed(t) /\ t \notin Conns
      /\ me[t] \in Local /\ \A u \in Threads : Placed(u)
  BY NoneIsNone, AppsAssumption DEF IInv, Types
<1>2. x \in Owners /\ x # None /\ Used(x)
  BY <1>1, NoneIsNone DEF Types, Recorded
<1>3. me[t].pc = "pick" /\ me[t].todo = <<>> /\ me[t].new = None /\ me[t].app = None
      /\ me[t].group = None
  BY <1>1 DEF Turn, Placed
<1>4. /\ f \in Frames /\ f.op = "unlink" /\ f.at = x /\ Rank(f) \in 1..2
      /\ k \in Frames /\ k.op = "fired" /\ k.at = x /\ Rank(k) = 4
  <2>1. /\ f \in Frames /\ f.op = "unlink" /\ f.at = x
        /\ k \in Frames /\ k.op = "fired" /\ k.at = x
    BY <1>2, RankIs DEF Ops
  <2> QED BY <1>2, <2>1 DEF Rank
<1>5. q \in Seq(Frames) /\ Nested(q) /\ In(q) = {f, k}
  <2>1. <<k>> \in Seq(Frames) /\ Nested(<<k>>) /\ In(<<k>>) = {k}
    BY <1>4, OneStack
  <2>2. After(f, k)
    BY <1>4 DEF After
  <2>3. <<f>> \o <<k>> \in Seq(Frames) /\ Nested(<<f>> \o <<k>>)
        /\ In(<<f>> \o <<k>>) = {f} \cup {k}
    BY <1>4, <2>1, <2>2, PushIs
  <2> QED BY <1>4, <2>3, PairIs
<1> HIDE DEF q
<1>6. /\ r \in Local /\ r.pc = "scan" /\ r.app = None /\ r.group = None
      /\ r.new = None /\ r.todo = q
  BY <1>1, <1>3, <1>5 DEF To, Local, Labels
<1>7. me' = [me EXCEPT ![t] = r]
  BY DEF q
<1> HIDE DEF r
<1>8. Now(t, r) /\ me'[t] = r
  BY <1>1, <1>6, <1>7 DEF Now, Types
<1>9. UNCHANGED <<session, own, groups, apps, lost>>
  BY DEF held
<1>10. Types'
  <2>1. me' \in [Threads -> Local]
    BY <1>1, <1>8, NowIs
  <2> QED BY <1>1, <1>9, <2>1 DEF Types
<1>11. Homed' /\ Sinks
  BY <1>9, OwnSame
<1>12. Listed' /\ Recorded'
  BY <1>1, <1>9 DEF Listed, Recorded, Live, Used, Lost
<1>13. Keeps(t)
  <2>1. /\ \A y \in Owners : Live(y) /\ own[y].cnt > 0 => own'[y].state = "live"
        /\ In(groups) \subseteq In(groups') /\ In(groups') \subseteq In(groups) \cup {me[t].new}
        /\ \A h \in Groups : /\ In(apps[h]) \subseteq In(apps'[h])
                             /\ In(apps'[h]) \subseteq In(apps[h]) \cup {me[t].new}
        /\ list' \subseteq list \cup {me[t].new}
    BY <1>9 DEF Live
  <2> QED BY <1>1, <2>1, OthersKeep
<1>14. Placed(t)'
  BY <1>6, <1>8, NoneIsNone DEF Placed, Owners
<1>15. Stacked(t)'
  <2>1. Sound(f)' /\ Sound(k)'
    BY <1>2, <1>4, <1>9 DEF Sound, Used
  <2> HIDE DEF f, k
  <2> QED BY <1>5, <1>6, <1>8, <2>1 DEF Stacked
<1>16. \A y : Owes(y, me[t]) = 0
  BY <1>1, <1>3, NothingOwed
<1>17. \A y \in Owners \cup {None} : Owes(y, r) = IF y = x THEN 1 ELSE 0
  <2>1. \A y : Do("unlink", y) \in In(q) <=> y = x
    BY <1>5, DoIs
  <2> QED BY <1>6, <2>1 DEF Owes
<1>18. SessionFlow(t, r)
  <2>1. Works(t, r) = Works(t, me[t])
    BY <1>1 DEF Works
  <2>2. Owes(None, r) = Owes(None, me[t])
    BY <1>2, <1>16, <1>17
  <2> QED BY <1>1, <1>9, <2>1, <2>2, SessionSame
<1>19. ASSUME NEW y \in Owners PROVE Flow(t, r, y)
  <2>1. /\ Lost(y)' = Lost(y) /\ Lost(y) \in Int /\ Has(y, r) = 0 /\ Has(y, me[t]) = 0
        /\ Manager(y) \in Int
    <3>1. y # None
      BY NoneIsNone
    <3>2. Has(y, r) = 0 /\ Has(y, me[t]) = 0
      BY <1>3, <1>6, <3>1 DEF Has
    <3> QED BY <1>1, <1>9, <3>2 DEF Lost, Types, Manager
  <2>2. CASE y = x
    <3>1. ~\E u \in Conns : me'[u].pc = "adding" /\ me'[u].new = x
      <4>1. ASSUME NEW u \in Conns, me'[u].pc = "adding", me'[u].new = x PROVE FALSE
        <5>1. u \in Threads /\ u # t /\ me'[u] = me[u]
          BY <1>1, <1>8, NowIs, NoneIsNone
        <5> QED BY <1>1, <4>1, <5>1 DEF Placed
      <4> QED BY <4>1
    <3>2. Manager(y) = 1 /\ Manager(y)' = 0
      BY <2>2, <3>1 DEF Manager
    <3>3. Owes(y, r) = 1 /\ Owes(y, me[t]) = 0
      BY <1>16, <1>17, <2>2
    <3>4. PICK n \in Int : n = Lost(y)
      BY <2>1
    <3>5. 0 + 0 + n + 1 = 0 + 1 + n + 0
      BY <3>4
    <3> QED BY <1>1, <1>9, <2>1, <3>2, <3>3, <3>4, <3>5, FlowSame
  <2>3. CASE y # x
    <3>1. Manager(y)' = Manager(y)
      BY <1>1, <1>3, <1>6, <1>8, <2>3, ManagerStays
    <3>2. Owes(y, r) = 0 /\ Owes(y, me[t]) = 0
      BY <1>16, <1>17, <2>3
    <3> QED BY <1>1, <1>9, <2>1, <3>1, <3>2, FlowSame
  <2> QED BY <2>2, <2>3
<1>20. \A u \in Threads : u # t => r.new = None \/ me[u].new # r.new
  BY <1>6
<1> QED BY <1>1, <1>8, <1>10, <1>11, <1>12, <1>13, <1>14, <1>15, <1>18, <1>19, <1>20, StepKeeps

LEMMA WatchdogPickKeeps ==
  ASSUME IInv, WatchdogPick
  PROVE  IInv'
<1>1. Turn(Watchdog, "pick") /\ me[Watchdog].pc = "pick" /\ me[Watchdog].todo = <<>>
      /\ Watchdog \in Threads
  BY NoneIsNone DEF WatchdogPick, Turn
<1>2. ASSUME NEW x \in list, list' = list \ {x}, UNCHANGED held,
             Goto(Watchdog, [To(Watchdog, "scan") EXCEPT
                               !.todo = <<Do("unlink", x), Do("fired", x)>>])
      PROVE  IInv'
  BY <1>1, <1>2, FiresKeep DEF Goto
<1>3. CASE Retire(Watchdog, To(Watchdog, "scan")) /\ UNCHANGED list
  BY <1>1, <1>3, RetiresKeep
<1> QED BY <1>2, <1>3 DEF WatchdogPick

-----------------------------------------------------------------------------
LEMMA StillKeeps ==
  ASSUME IInv, UNCHANGED <<session, own, groups, apps, lost, list, me>>
  PROVE  IInv'
<1>1. \A x : Rel(x)' = Rel(x) /\ Holders(x)' = Holders(x) /\ Manager(x)' = Manager(x)
             /\ Lost(x)' = Lost(x) /\ Home(x)' = Home(x) /\ (Used(x)' <=> Used(x))
             /\ (Live(x)' <=> Live(x)) /\ (Open(x)' <=> Open(x))
  BY DEF Rel, Holders, Manager, Lost, Home, Used, Live, Open
<1>2. \A t \in Threads : Placed(t)' /\ Stacked(t)'
  BY <1>1 DEF IInv, Placed, Stacked, Sound, Live, Used, Outside
<1>3. \A x \in Owners : Exact(x)'
  <2> SUFFICES ASSUME NEW x \in Owners PROVE Exact(x)'
    OBVIOUS
  <2>1. Exact(x) /\ Refs(x)' = Refs(x)
    BY <1>1 DEF IInv, Refs
  <2>2. Open(Home(x))' <=> Open(Home(x))
    BY DEF Open, Home
  <2> QED BY <1>1, <2>1, <2>2 DEF Exact
<1>4. Types' /\ Homed' /\ Listed' /\ Apart' /\ Recorded'
  BY <1>1 DEF IInv, Types, Homed, Listed, Apart, Recorded, Used, Live, Lost
<1>5. SessionExact'
  BY <1>1 DEF IInv, SessionExact, Busy
<1> QED BY <1>2, <1>3, <1>4, <1>5 DEF IInv

LEMMA Initially ==
  ASSUME Init
  PROVE  IInv
<1> DEFINE w == [Idle EXCEPT !.pc = "scan"]
<1>1. /\ me = [t \in Threads |-> IF t = Watchdog THEN w ELSE Idle]
      /\ session = [cnt |-> 1, closed |-> FALSE, state |-> "live"]
      /\ own = [x \in Owners |-> Unused] /\ groups = <<>>
      /\ apps = [g \in Groups |-> <<>>] /\ lost = [a \in Apps |-> 0] /\ list = {}
  BY DEF Init
<1>2. /\ w \in Local /\ w.pc = "scan" /\ w.app = None /\ w.group = None /\ w.new = None
      /\ w.todo = <<>>
      /\ Idle \in Local /\ Idle.pc = "idle" /\ Idle.app = None /\ Idle.group = None
      /\ Idle.new = None /\ Idle.todo = <<>>
  BY EmptyStack DEF Idle, Local, Labels
<1> HIDE DEF w
<1>3. \A t \in Threads :
        /\ me[t] \in Local /\ me[t].app = None /\ me[t].group = None /\ me[t].new = None
        /\ me[t].todo = <<>> /\ me[t].pc = IF t = Watchdog THEN "scan" ELSE "idle"
  BY <1>1, <1>2
<1>4. me \in [Threads -> Local]
  BY <1>1, <1>2
<1>5. \A x \in Owners : own[x].state = "unused" /\ own[x].cnt = 0 /\ own[x] \in Owner
  BY <1>1 DEF Unused, Owner
<1>6. <<>> \in Seq(Groups) /\ <<>> \in Seq(Apps) /\ Once(<<>>) /\ In(<<>>) = {}
  BY EmptyStack DEF Once
<1>7. Types
  <2>1. session \in [cnt : Int, closed : BOOLEAN, state : {"live", "freed"}]
    BY <1>1
  <2>2. own \in [Owners -> Owner]
    BY <1>1, <1>5
  <2> QED BY <1>1, <1>4, <1>6, <2>1, <2>2 DEF Types
<1>8. Homed /\ Listed /\ Apart /\ Recorded
  BY <1>1, <1>3, <1>5, <1>6, NoneIsNone DEF Homed, Listed, Apart, Recorded, Used, Lost, Owners
<1>9. SessionExact
  <2>1. Busy = {} /\ Rel(None) = {}
    <3>1. Busy = {}
      BY <1>3, NoneIsNone, AppsAssumption DEF Busy
    <3>2. Rel(None) = {}
      BY <1>3, EmptyStack DEF Rel
    <3> QED BY <3>1, <3>2
  <2>2. Cardinality(Busy) = 0 /\ Cardinality(Rel(None)) = 0
    BY <2>1, FS_EmptySet
  <2>3. session.cnt = 1 /\ ~session.closed
    BY <1>1
  <2> QED BY <2>2, <2>3 DEF SessionExact
<1>10. \A t \in Threads : Placed(t) /\ Stacked(t)
  BY <1>3, NoneIsNone, EmptyStack DEF Placed, Stacked, Owners
<1>11. \A x \in Owners : Exact(x)
  BY <1>5 DEF Exact, Live
<1> QED BY <1>7, <1>8, <1>9, <1>10, <1>11 DEF IInv

LEMMA EndsKeep ==
  ASSUME IInv, NEW t \in Threads, NEW x \in Owners,
         \/ x \in Groups /\ EndGroup(t, x)
         \/ x \in Apps /\ FreeApp(t, x)
  PROVE  IInv'
<1>1. CASE x \in Groups /\ EndGroup(t, x) /\ apps[x] # <<>>
  BY <1>1, EndGroupKeeps
<1>2. CASE x \in Groups /\ EndGroup(t, x) /\ apps[x] = <<>>
  <2>1. /\ Unlinks(t, "members", x) /\ own' = [own EXCEPT ![x].state = "freed"] /\ Return(t)
        /\ UNCHANGED <<session, groups, apps, lost, list>>
    BY <1>2 DEF EndGroup, timers
  <2> QED BY <2>1, FreedKeeps
<1>3. CASE x \in Apps /\ FreeApp(t, x)
  <2>1. /\ Unlinks(t, "free", x) /\ own' = [own EXCEPT ![x].state = "freed"] /\ Return(t)
        /\ UNCHANGED <<session, groups, apps, lost, list>>
    BY <1>3 DEF FreeApp, timers
  <2> QED BY <2>1, FreedKeeps
<1> QED BY <1>1, <1>2, <1>3

LEMMA EveryStep ==
  ASSUME IInv, [Next]_vars
  PROVE  IInv'
<1>1. ASSUME NEW t \in Conns, Request(t) PROVE IInv'
  BY <1>1, FindSessionKeeps, VerifyAKeyKeeps, AllocsKeep, UseGroupKeeps, AddLockedKeeps,
     GroupAddedKeeps, AppAddedKeeps, AllocAppFailsKeeps, OpenOsmlKeeps, AnswerKeeps,
     FreeConnKeeps DEF Request
<1>2. CASE WatchdogStep
  <2>1. CASE WatchdogFree
    <3>1. PICK x \in Owners : Unlinks(Watchdog, "fired", x)
      BY <2>1 DEF WatchdogFree
    <3> QED BY <2>1, <3>1, NoneIsNone, RemoveFreeKeeps
  <2> QED BY <1>2, <2>1, WatchdogLockKeeps, WatchdogPickKeeps DEF WatchdogStep
<1>3. ASSUME NEW t \in Threads, Unlinking(t) PROVE IInv'
  <2>1. ASSUME NEW x \in Owners, Unlink(t, x) \/ RemoveLocked(t, x) \/ RemoveFree(t, x)
        PROVE  IInv'
    BY <2>1, UnlinkKeeps, RemoveLockedKeeps, RemoveFreeKeeps
  <2>2. ASSUME NEW g \in Groups, EndGroup(t, g) PROVE IInv'
    BY <2>2, EndsKeep DEF Owners
  <2>3. ASSUME NEW a \in Apps, EndApp(t, a) \/ FreeApp(t, a) PROVE IInv'
    BY <2>3, EndAppKeeps, EndsKeep DEF Owners
  <2>4. CASE UseFreed(t)
    BY <2>4, StillKeeps DEF UseFreed, held, timers
  <2> QED BY <1>3, <2>1, <2>2, <2>3, <2>4, UnlinkSessKeeps, CloseSessionKeeps,
             FreeSessionKeeps DEF Unlinking
<1>4. CASE UNCHANGED vars
  BY <1>4, StillKeeps DEF vars, held, timers
<1> QED BY <1>1, <1>2, <1>3, <1>4 DEF Next, Step

-----------------------------------------------------------------------------
(***************************************************************************)
(* What the runs check, for any number of connections, groups and          *)
(* applications.                                                           *)
(***************************************************************************)
LEMMA Always ==
  Spec => []IInv
<1>1. Init => IInv
  BY Initially
<1>2. IInv /\ [Next]_vars => IInv'
  BY EveryStep
<1> QED BY <1>1, <1>2, PTL DEF Spec

\* While what it is in is not being ended, the link count of a group or of an
\* application is the number of the references to it: nht_i_UnlinkApp and
\* nht_i_UnlinkAppGroup end it with the last of them and not before.
THEOREM LinksAreExact ==
  Spec => []LinksExact
<1>1. IInv => LinksExact
  <2> SUFFICES ASSUME IInv, NEW x \in Owners, own[x].state = "live", Open(Home(x))
               PROVE  IF Open(x) THEN own[x].cnt = References(x)
                                 ELSE Holders(x) = {} /\ Lost(x) = 0
    BY DEF LinksExact
  <2>1. Exact(x) /\ Live(x) /\ x # None
    BY NoneIsNone DEF IInv, Live
  <2>2. \A t \in Threads : me[t].todo \in Seq(Frames) /\ Nested(me[t].todo)
    BY DEF IInv, Types, Local, Stacked
  <2>3. Refs(x) = References(x)
    BY <2>2, ReleasesAre DEF Refs, References
  <2>4. Open(x) <=> own[x].cnt > 0
    BY <2>1 DEF Open
  <2> QED BY <2>1, <2>3, <2>4 DEF Exact
<1> QED BY <1>1, Always, PTL

\* Whatever timers fire, and however many other requests end or log out: the
\* application a request works on is listed in its group, the group in the
\* session, and none of the three is being ended.
THEOREM HeldStands ==
  Spec => []HeldListed
<1>1. IInv => HeldListed
  <2> SUFFICES ASSUME IInv, NEW t \in Conns
               PROVE  /\ me[t].app # None =>
                           /\ Open(me[t].app) /\ own[me[t].app].group = me[t].group
                           /\ me[t].app \in In(apps[me[t].group])
                      /\ me[t].group # None => Open(me[t].group) /\ me[t].group \in In(groups)
                      /\ me[t].pc # "idle" => Open(None)
    BY DEF HeldListed
  <2>1. Types /\ SessionExact /\ t \in Threads /\ Placed(t) /\ me[t] \in Local
    BY NoneIsNone DEF IInv, Types
  <2>2. ASSUME NEW x \in Owners, x \in {me[t].app, me[t].group} PROVE Open(x)
    <3>1. t \in Holders(x)
      BY <2>1, <2>2 DEF Holders
    <3> QED BY <2>1, <3>1, Held, NoneIsNone DEF Open, Live
  <2>3. me[t].app \in Owners \cup {None} /\ me[t].group \in Owners \cup {None}
    BY <2>1 DEF Local, Owners
  <2>4. me[t].pc # "idle" => Open(None)
    BY <2>1, SessionOpen DEF Open
  <2> QED BY <2>1, <2>2, <2>3, <2>4 DEF Placed
<1> QED BY <1>1, Always, PTL

-----------------------------------------------------------------------------
(***************************************************************************)
(* The bounds of the counts.                                               *)
(***************************************************************************)
\* x is in the list of what it is in.
IsListed(x) == IF x \in Groups THEN x \in In(groups)
               ELSE own[x].group \in Groups /\ x \in In(apps[own[x].group])
\* A thread waits for the mutex to add the timer of x.
Adding(x) == \E t \in Threads : me[t].pc = "adding" /\ me[t].new = x
\* Thread t is about to release x.
LetsGo(t, x) == Do("unlink", x) \in In(me[t].todo)

\* The manager of the session is released once, by who retires it.
Retiring(t) == LetsGo(t, None) /\ (t = Watchdog \/ me[t].pc # "idle")
RetiredOnce == \A t \in Threads : Retiring(t) =>
                 session.closed /\ \A u \in Threads : Retiring(u) => u = t

\* A connection that is in a request has no other to release.
Answering == \A t \in Conns : me[t].pc # "idle" =>
               me[t].todo = <<>> \/ me[t].todo = <<Do("unlink", None)>>

\* A timer that has fired, or was removed, is in the list no more, and will not be.
OffList(x) ==
  \A t \in Threads :
    /\ Do("fired", x) \in In(me[t].todo) => t = Watchdog
    /\ Do("fired", x) \in In(me[t].todo) \/ Do("rmfree", x) \in In(me[t].todo) =>
         x \notin list /\ ~Adding(x)
HasTimer(x) == x \in list \/ Adding(x) => x \in valid

\* Why a thread releases x: its timer has fired, what it is in ends, or the thread
\* has it, and what it is in, from its request.
Owed(t, x) ==
  \/ Do("fired", x) \in In(me[t].todo)
  \/ /\ IsListed(x) /\ cpu = t /\ Head(me[t].todo) = Do("unlink", x)
     /\ Do("members", Home(x)) \in In(me[t].todo)
  \/ IsListed(x) /\ t \in Conns /\ LetsGo(t, Home(x))

\* A count goes below zero once: its group ended x, and then its timer that had
\* fired is answered.
Low(x) ==
  own[x].cnt >= 0 \/ (own[x].cnt = -1 /\ x \notin list /\ \A t \in Threads : ~LetsGo(t, x))
\* A count has no more than one link for each thread, and those overwritten, of
\* which there are never more than MaxLost.
High(x) == own[x].cnt <= Cardinality(Threads) + MaxLost
Few == \A a \in Apps : lost[a] + Cardinality(Replacing(a)) <= MaxLost

\* The bounds, and what they rest on.
Bounds ==
  /\ RetiredOnce /\ Answering /\ Few
  /\ \A x \in Owners : OffList(x) /\ HasTimer(x) /\ Low(x) /\ High(x)
  /\ \A t \in Threads, x \in Owners : LetsGo(t, x) => Owed(t, x)

\* The types of the other variables.
Rest ==
  /\ osml \in [Apps -> {"none", "open", "closed"}]
  /\ valid \in SUBSET Owners
  /\ mutex \in Seq(Threads) /\ Once(mutex)
  /\ cpu \in Threads \cup {None} /\ fault \in BOOLEAN

-----------------------------------------------------------------------------
(***************************************************************************)
(* A step of an unlink, which puts S on the stack.                         *)
(***************************************************************************)
Undoes(t, S) ==
  /\ Runs(t) /\ me[t].todo # <<>>
  /\ me'[t].pc = me[t].pc /\ me'[t].app = me[t].app /\ me'[t].group = me[t].group
  /\ me'[t].new = me[t].new /\ In(me'[t].todo) = S \cup In(Tail(me[t].todo))
  /\ \A u \in Threads : u # t => me'[u] = me[u]
  /\ UNCHANGED lost /\ session'.closed = session.closed /\ list' \subseteq list
  /\ Do("unlink", None) \notin S
  /\ Head(me[t].todo) = Do("unlink", None) => session.cnt = 1 \/ me'[t].todo = Tail(me[t].todo)

\* What it does to the owner x.
UndoesTo(t, S, x) ==
  /\ own'[x].group = own[x].group
  /\ x \in valid /\ x \notin valid' =>
       Head(me[t].todo) = Do("rmfree", x) \/ Head(me[t].todo) = Do("fired", x)
  /\ own'[x].cnt = IF Head(me[t].todo) = Do("unlink", x) THEN own[x].cnt - 1 ELSE own[x].cnt
  /\ IsListed(x) => IsListed(x)' \/ (Head(me[t].todo) = Do("unlink", x) /\ own[x].cnt <= 1)
  /\ Do("fired", x) \notin S
  /\ Do("rmfree", x) \in S => x \in list /\ x \notin list'
  /\ Do("unlink", x) \in S => /\ IsListed(x)' /\ cpu' = t /\ Head(me'[t].todo) = Do("unlink", x)
                              /\ Do("members", Home(x)) \in S

\* Steps of an unlink are the same if they do the same to the same.
LEMMA FramesDiffer ==
  ASSUME NEW op, NEW x, NEW op2, NEW y, Do(op, x) = Do(op2, y)
  PROVE  op = op2 /\ x = y
BY DEF Do

\* What is listed is linked.
LEMMA ListedIs ==
  ASSUME IInv, NEW x \in Owners, IsListed(x)
  PROVE  /\ Live(x) /\ own[x].cnt > 0 /\ Used(x)
         /\ x \in Groups => Home(x) = None
         /\ x \in Apps => Home(x) \in Groups /\ Home(x) = own[x].group
<1>1. Listed /\ Groups \cap Apps = {}
  BY NoneIsNone DEF IInv
<1>2. x \in Groups => Live(x) /\ own[x].cnt > 0 /\ Home(x) = None
  BY <1>1 DEF IsListed, Listed, Home
<1>3. x \in Apps => x \notin Groups
  BY <1>1
<1>4. x \in Apps => Live(x) /\ own[x].cnt > 0 /\ Home(x) \in Groups /\ Home(x) = own[x].group
  BY <1>1, <1>3 DEF IsListed, Listed, Home
<1> QED BY <1>2, <1>4 DEF Live, Used, Owners

\* What a thread is about to release was allocated.
LEMMA OwedUsed ==
  ASSUME IInv, NEW u \in Threads, NEW x \in Owners, NEW op, Do(op, x) \in In(me[u].todo)
  PROVE  Used(x)
<1>1. Stacked(u) /\ x # None
  BY NoneIsNone DEF IInv
<1>2. Sound(Do(op, x))
  BY <1>1 DEF Stacked
<1> QED BY <1>1, <1>2, DoIs DEF Sound

\* What is being added is linked, and not in the list yet.
LEMMA AddingIs ==
  ASSUME IInv, NEW x \in Owners, Adding(x)
  PROVE  own[x].cnt > 0 /\ Used(x) /\ x \notin list
<1>1. PICK t \in Threads : me[t].pc = "adding" /\ me[t].new = x
  BY DEF Adding
<1>2. Placed(t) /\ t \in Holders(x)
  BY <1>1 DEF IInv, Holders
<1>3. x \notin list
  BY <1>1, <1>2 DEF Placed
<1> QED BY <1>2, <1>3, Held

\* A connection in a request is not the last that has the session.
LEMMA TwoOfSession ==
  ASSUME IInv, NEW t \in Conns, me[t].pc # "idle", LetsGo(t, None)
  PROVE  session.cnt # 1
<1>1. Types /\ SessionExact /\ t \in Threads
  BY NoneIsNone DEF IInv
<1>2. t \in Busy /\ t \in Rel(None) /\ Busy \subseteq Threads /\ Rel(None) \subseteq Threads
  BY <1>1, NoneIsNone DEF Busy, Rel, LetsGo
<1>3. IsFiniteSet(Busy) /\ IsFiniteSet(Rel(None))
  BY <1>2, NoneIsNone, FS_Subset
<1>4. /\ Cardinality(Busy) \in Nat /\ Cardinality(Busy) # 0
      /\ Cardinality(Rel(None)) \in Nat /\ Cardinality(Rel(None)) # 0
  BY <1>2, <1>3, FS_CardinalityType, FS_EmptySet
<1> QED BY <1>1, <1>4 DEF SessionExact

\* Two that release what is listed do not end it with the first of them.
LEMMA TwoOwe ==
  ASSUME IInv, Bounds, NEW t \in Threads, NEW u \in Threads, t # u, NEW x \in Owners,
         LetsGo(t, x), LetsGo(u, x), IsListed(x), u \in Conns, LetsGo(u, Home(x))
  PROVE  own[x].cnt > 1
<1>1. Types /\ SessionExact /\ Exact(x)
  BY DEF IInv
<1>2. /\ Live(x) /\ own[x].cnt > 0
      /\ x \in Groups => Home(x) = None
      /\ x \in Apps => Home(x) \in Groups
  BY ListedIs
<1>3. CASE ~Open(Home(x))
  <2>1. CASE x \in Groups
    <3>1. Rel(None) # {} /\ Rel(None) \subseteq Threads /\ Busy \subseteq Threads
      BY <1>2, <2>1, NoneIsNone DEF Rel, LetsGo, Busy
    <3>2. IsFiniteSet(Rel(None)) /\ IsFiniteSet(Busy)
      BY <3>1, NoneIsNone, FS_Subset
    <3>3. /\ Cardinality(Rel(None)) \in Nat /\ Cardinality(Rel(None)) # 0
          /\ Cardinality(Busy) \in Nat
      BY <3>1, <3>2, FS_CardinalityType, FS_EmptySet
    <3>4. session.cnt > 0
      BY <1>1, <3>3 DEF SessionExact
    <3> QED BY <1>2, <1>3, <2>1, <3>4 DEF Open
  <2>2. CASE x \in Apps
    <3>1. PICK g \in Groups : g = Home(x)
      BY <1>2, <2>2
    <3>2. g \in Owners /\ g # None /\ LetsGo(u, g)
      BY <3>1, NoneIsNone DEF Owners
    <3>3. Owed(u, g) /\ OffList(g)
      BY <3>2 DEF Bounds
    <3>4. Do("fired", g) \notin In(me[u].todo)
      BY <3>3, AppsAssumption DEF OffList
    <3>5. IsListed(g)
      BY <3>3, <3>4 DEF Owed
    <3>6. Live(g) /\ own[g].cnt > 0
      BY <3>2, <3>5, ListedIs
    <3> QED BY <1>3, <3>1, <3>2, <3>6 DEF Open, Live
  <2> QED BY <2>1, <2>2 DEF Owners
<1>4. CASE Open(Home(x))
  <2>1. own[x].cnt = Refs(x)
    BY <1>1, <1>2, <1>4 DEF Exact
  <2>2. {t, u} \subseteq Rel(x) /\ Rel(x) \subseteq Threads /\ Holders(x) \subseteq Threads
    BY DEF Rel, LetsGo, Holders
  <2>3. IsFiniteSet(Rel(x)) /\ IsFiniteSet(Holders(x))
    BY <2>2, NoneIsNone, FS_Subset
  <2>4. Cardinality(Rel(x)) \in Nat /\ Cardinality(Holders(x)) \in Nat
    BY <2>3, FS_CardinalityType
  <2>5. Cardinality({t, u}) = 2
    <3>1. IsFiniteSet({t}) /\ Cardinality({t}) = 1 /\ {t} \cup {u} = {t, u}
      BY FS_Singleton
    <3>2. Cardinality({t} \cup {u}) = Cardinality({t}) + 1
      BY <3>1, FS_AddElement
    <3> QED BY <3>1, <3>2
  <2>6. Cardinality({t, u}) <= Cardinality(Rel(x))
    BY <2>2, <2>3, FS_Subset
  <2>7. Lost(x) \in Nat /\ Manager(x) \in Nat
    BY <1>1 DEF Lost, Manager, Types
  <2> QED BY <2>1, <2>4, <2>5, <2>6, <2>7 DEF Refs
<1> QED BY <1>3, <1>4

\* What t owes after a step of an unlink.
LEMMA UndoesOwe ==
  ASSUME IInv, NEW t \in Threads, NEW S, Undoes(t, S), NEW x \in Owners \cup {None}
  PROVE  /\ LetsGo(t, x) => Head(me[t].todo) = Do("unlink", x) \/ Do("unlink", x) \in In(Tail(me[t].todo))
         /\ LetsGo(t, x)' => \/ Do("unlink", x) \in S
                             \/ Head(me[t].todo) # Do("unlink", x) /\ LetsGo(t, x)
<1>1. Types /\ Stacked(t) /\ me[t].todo # <<>>
  BY DEF IInv, Undoes
<1> DEFINE h == Head(me[t].todo)
           u == Do("unlink", x)
<1>2. /\ h \in Frames /\ In(me[t].todo) = {h} \cup In(Tail(me[t].todo))
      /\ \A g \in In(Tail(me[t].todo)) : g \in Frames /\ After(h, g)
  BY <1>1, Popped
<1>3. In(me'[t].todo) = S \cup In(Tail(me[t].todo))
  BY DEF Undoes
<1>4. h = u => u \notin In(Tail(me[t].todo))
  <2> SUFFICES ASSUME h = u, u \in In(Tail(me[t].todo)) PROVE FALSE
    OBVIOUS
  <2>1. After(u, u)
    BY <1>2
  <2>2. u.op = "unlink" /\ Rank(u) \in 1..4
    BY RankIs DEF Ops
  <2> QED BY <2>1, <2>2 DEF After
<1> QED BY <1>2, <1>3, <1>4 DEF LetsGo

LEMMA UndoesRetire ==
  ASSUME IInv, Bounds, NEW t \in Threads, NEW S, Undoes(t, S)
  PROVE  RetiredOnce' /\ Answering' /\ Few'
<1>1. /\ \A u \in Threads : u # t => me'[u] = me[u]
      /\ me'[t].pc = me[t].pc /\ me'[t].app = me[t].app /\ Do("unlink", None) \notin S
      /\ lost' = lost /\ session'.closed = session.closed
      /\ me[t].todo # <<>>
  BY DEF Undoes
<1>2. RetiredOnce /\ Answering /\ Few
  BY DEF Bounds
<1>3. \A u \in Threads : LetsGo(u, None)' => LetsGo(u, None)
  BY <1>1, UndoesOwe DEF LetsGo
<1>4. \A u \in Threads : Retiring(u)' => Retiring(u)
  BY <1>1, <1>3 DEF Retiring
<1>5. RetiredOnce'
  BY <1>1, <1>2, <1>4 DEF RetiredOnce
<1>6. ASSUME t \in Conns, me[t].pc # "idle" PROVE me'[t].todo = <<>>
  <2>1. me[t].todo = <<Do("unlink", None)>>
    BY <1>1, <1>2, <1>6 DEF Answering
  <2>2. Head(me[t].todo) = Do("unlink", None) /\ Tail(me[t].todo) = <<>>
    BY <2>1
  <2>3. Types /\ Stacked(t)
    BY DEF IInv
  <2>4. LetsGo(t, None)
    BY <1>1, <2>2, <2>3, Popped DEF LetsGo
  <2>5. session.cnt # 1
    BY <1>6, <2>4, TwoOfSession
  <2> QED BY <2>2, <2>5 DEF Undoes
<1>7. Answering'
  BY <1>1, <1>2, <1>6, NoneIsNone DEF Answering
<1>8. \A a \in Apps : Replacing(a)' = Replacing(a)
  BY <1>1, NoneIsNone DEF Replacing
<1>9. Few'
  BY <1>1, <1>2, <1>8 DEF Few
<1> QED BY <1>5, <1>7, <1>9

LEMMA UndoesTimer ==
  ASSUME IInv, Bounds, NEW t \in Threads, NEW S, Undoes(t, S), NEW x \in Owners, UndoesTo(t, S, x)
  PROVE  OffList(x)' /\ HasTimer(x)'
<1>1. /\ \A u \in Threads : u # t => me'[u] = me[u]
      /\ me'[t].pc = me[t].pc /\ me'[t].new = me[t].new /\ list' \subseteq list
      /\ me[t].todo # <<>> /\ In(me'[t].todo) = S \cup In(Tail(me[t].todo))
  BY DEF Undoes
<1>2. OffList(x) /\ HasTimer(x) /\ Types /\ Stacked(t)
  BY DEF Bounds, IInv
<1>3. Adding(x)' <=> Adding(x)
  BY <1>1 DEF Adding
<1>4. In(me[t].todo) = {Head(me[t].todo)} \cup In(Tail(me[t].todo))
  BY <1>1, <1>2, Popped
<1>5. OffList(x)'
  <2> SUFFICES ASSUME NEW u \in Threads
               PROVE  /\ Do("fired", x) \in In(me'[u].todo) => u = Watchdog
                      /\ Do("fired", x) \in In(me'[u].todo) \/ Do("rmfree", x) \in In(me'[u].todo) =>
                           x \notin list' /\ ~Adding(x)'
    BY DEF OffList
  <2>1. Do("fired", x) \in In(me'[u].todo) => Do("fired", x) \in In(me[u].todo)
    BY <1>1, <1>4 DEF UndoesTo
  <2>2. Do("rmfree", x) \in In(me'[u].todo) =>
          \/ Do("rmfree", x) \in In(me[u].todo)
          \/ Do("rmfree", x) \in S
    BY <1>1, <1>4
  <2>3. Do("rmfree", x) \in S => x \notin list' /\ ~Adding(x)
    BY AddingIs DEF UndoesTo
  <2>4. Do("fired", x) \in In(me[u].todo) \/ Do("rmfree", x) \in In(me[u].todo) =>
          x \notin list' /\ ~Adding(x)
    BY <1>1, <1>2 DEF OffList
  <2>5. Do("fired", x) \in In(me[u].todo) => u = Watchdog
    BY <1>2 DEF OffList
  <2> QED BY <1>3, <2>1, <2>2, <2>3, <2>4, <2>5
<1>6. HasTimer(x)'
  <2> SUFFICES ASSUME x \in list \/ Adding(x) PROVE x \in valid'
    BY <1>1, <1>3 DEF HasTimer
  <2>1. x \in valid
    BY <1>2 DEF HasTimer
  <2>2. Do("rmfree", x) \notin In(me[t].todo) /\ Do("fired", x) \notin In(me[t].todo)
    BY <1>2 DEF OffList
  <2> QED BY <1>4, <2>1, <2>2 DEF UndoesTo
<1> QED BY <1>5, <1>6

LEMMA UndoesCount ==
  ASSUME IInv, IInv', Bounds, NEW t \in Threads, NEW S, Undoes(t, S), NEW x \in Owners, UndoesTo(t, S, x)
  PROVE  Low(x)' /\ High(x)'
<1>1. /\ \A u \in Threads : u # t => me'[u] = me[u]
      /\ list' \subseteq list /\ me[t].todo # <<>>
  BY DEF Undoes
<1>2. OffList(x) /\ Low(x) /\ High(x) /\ Types /\ Stacked(t)
  BY DEF Bounds, IInv
<1>3. own[x].cnt \in Int /\ own'[x].cnt \in Int
  BY DEF IInv, Types, Owner
<1>4. own'[x].cnt = IF Head(me[t].todo) = Do("unlink", x) THEN own[x].cnt - 1 ELSE own[x].cnt
  BY DEF UndoesTo
<1>5. Cardinality(Threads) + MaxLost \in Int
  BY NoneIsNone, AppsAssumption, FS_CardinalityType
<1>6. High(x)'
  <2> DEFINE n == Cardinality(Threads) + MaxLost
  <2>1. own[x].cnt <= n /\ n \in Int
    BY <1>2, <1>5 DEF High
  <2>2. own'[x].cnt <= n
    <3> HIDE DEF n
    <3> QED BY <1>3, <1>4, <2>1
  <2> QED BY <2>2 DEF High
<1>7. Do("unlink", x) \in S => own'[x].cnt > 0
  <2>1. Do("unlink", x) \in S => IsListed(x)'
    BY DEF UndoesTo
  <2>2. IsListed(x)' => own'[x].cnt > 0
    BY DEF IsListed, IInv, Listed
  <2> QED BY <2>1, <2>2
<1>8. Low(x)'
  <2> SUFFICES ASSUME ~(own'[x].cnt >= 0)
               PROVE  own'[x].cnt = -1 /\ x \notin list' /\ \A u \in Threads : ~LetsGo(u, x)'
    BY DEF Low
  <2>1. Do("unlink", x) \notin S
    BY <1>3, <1>7
  <2>2. LetsGo(t, x)' => Head(me[t].todo) # Do("unlink", x) /\ LetsGo(t, x)
    BY <2>1, UndoesOwe
  <2>3. CASE Head(me[t].todo) # Do("unlink", x)
    <3>1. own[x].cnt = -1 /\ x \notin list /\ \A u \in Threads : ~LetsGo(u, x)
      BY <1>2, <1>4, <2>3 DEF Low
    <3>2. \A u \in Threads : ~LetsGo(u, x)'
      BY <1>1, <2>2, <3>1 DEF LetsGo
    <3> QED BY <1>1, <1>4, <2>3, <3>1, <3>2
  <2>4. CASE Head(me[t].todo) = Do("unlink", x)
    <3>1. LetsGo(t, x)
      BY <1>1, <1>2, <2>4, Popped DEF LetsGo
    <3>2. own[x].cnt >= 0
      BY <1>2, <3>1 DEF Low
    <3>3. own[x].cnt = 0 /\ own'[x].cnt = -1
      BY <1>3, <1>4, <2>4, <3>2
    <3>4. ~IsListed(x)
      BY <3>3, ListedIs
    <3>5. \A u \in Threads : LetsGo(u, x) => Do("fired", x) \in In(me[u].todo)
      BY <3>4 DEF Bounds, Owed
    <3>6. t = Watchdog /\ x \notin list
      BY <1>2, <3>1, <3>5 DEF OffList
    <3>7. \A u \in Threads : LetsGo(u, x) => u = t
      BY <1>2, <3>5, <3>6 DEF OffList
    <3>8. \A u \in Threads : ~LetsGo(u, x)'
      BY <1>1, <2>2, <2>4, <3>7 DEF LetsGo
    <3> QED BY <1>1, <3>3, <3>6, <3>8
  <2> QED BY <2>3, <2>4
<1> QED BY <1>6, <1>8

LEMMA UndoesOwed ==
  ASSUME IInv, Bounds, NEW t \in Threads, NEW S, Undoes(t, S), \A y \in Owners : UndoesTo(t, S, y),
         NEW u \in Threads, NEW x \in Owners, LetsGo(u, x)'
  PROVE  Owed(u, x)'
<1>1. /\ \A v \in Threads : v # t => me'[v] = me[v]
      /\ cpu \in {t, None} /\ me[t].todo # <<>> /\ In(me'[t].todo) = S \cup In(Tail(me[t].todo))
  BY DEF Undoes, Runs
<1>2. Types /\ Stacked(t) /\ UndoesTo(t, S, x)
  BY DEF IInv
<1> DEFINE h == Head(me[t].todo)
<1>3. /\ h \in Frames /\ In(me[t].todo) = {h} \cup In(Tail(me[t].todo))
      /\ \A g \in In(Tail(me[t].todo)) : g \in Frames /\ After(h, g)
  BY <1>1, <1>2, Popped
<1>4. Home(x)' = Home(x)
  BY <1>2 DEF Home, UndoesTo
<1>5. CASE u # t
  <2>1. me'[u] = me[u] /\ LetsGo(u, x) /\ u # None
    BY <1>1, <1>5, NoneIsNone DEF LetsGo
  <2>2. Owed(u, x)
    BY <2>1 DEF Bounds
  <2>3. CASE Do("fired", x) \in In(me[u].todo)
    BY <2>1, <2>3 DEF Owed
  <2>4. CASE cpu = u
    BY <1>1, <1>5, <2>1, <2>4
  <2>5. CASE IsListed(x) /\ u \in Conns /\ LetsGo(u, Home(x))
    <3>1. LetsGo(u, Home(x))'
      BY <1>4, <2>1, <2>5 DEF LetsGo
    <3>2. ~(h = Do("unlink", x) /\ own[x].cnt <= 1)
      <4> SUFFICES ASSUME h = Do("unlink", x) PROVE ~(own[x].cnt <= 1)
        OBVIOUS
      <4>1. LetsGo(t, x)
        BY <1>3 DEF LetsGo
      <4>2. own[x].cnt > 1 /\ own[x].cnt \in Int
        BY <1>2, <1>5, <2>1, <2>5, <4>1, TwoOwe DEF Types, Owner
      <4> QED BY <4>2
    <3>3. IsListed(x)'
      BY <1>2, <2>5, <3>2 DEF UndoesTo
    <3> QED BY <2>5, <3>1, <3>3 DEF Owed
  <2> QED BY <2>2, <2>3, <2>4, <2>5 DEF Owed
<1>6. CASE u = t /\ Do("unlink", x) \in S
  <2>1. /\ IsListed(x)' /\ cpu' = t /\ Head(me'[t].todo) = Do("unlink", x)
        /\ Do("members", Home(x)) \in S
    BY <1>2, <1>6 DEF UndoesTo
  <2>2. Do("members", Home(x)') \in In(me'[t].todo)
    BY <1>1, <1>4, <2>1
  <2> QED BY <1>6, <2>1, <2>2 DEF Owed
<1>7. CASE u = t /\ Do("unlink", x) \notin S
  <2>1. h # Do("unlink", x) /\ LetsGo(t, x)
    BY <1>7, UndoesOwe
  <2>2. Do("unlink", x) \in In(Tail(me[t].todo)) /\ After(h, Do("unlink", x))
    BY <1>3, <2>1 DEF LetsGo
  <2>3. Owed(t, x)
    BY <2>1 DEF Bounds
  <2>4. CASE Do("fired", x) \in In(me[t].todo)
    <3>1. h # Do("fired", x)
      <4> SUFFICES ASSUME h = Do("fired", x) PROVE FALSE
        OBVIOUS
      <4>1. Rank(h) = 4 /\ h.op = "fired"
        BY RankIs DEF Ops, Do
      <4>2. Rank(Do("unlink", x)) \in 1..4
        BY RankIs DEF Ops
      <4> QED BY <2>2, <4>1, <4>2 DEF After
    <3>2. Do("fired", x) \in In(me'[t].todo)
      BY <1>1, <1>3, <2>4, <3>1
    <3> QED BY <1>7, <3>2 DEF Owed
  <2>5. CASE IsListed(x) /\ t \in Conns /\ LetsGo(t, Home(x))
    <3>1. IsListed(x)'
      BY <1>2, <2>1, <2>5 DEF UndoesTo
    <3>2. h # Do("unlink", Home(x))
      <4> SUFFICES ASSUME h = Do("unlink", Home(x)) PROVE FALSE
        OBVIOUS
      <4>1. h.op = "unlink" /\ Rank(h) < Rank(Do("unlink", x))
        BY <2>2, DoIs DEF After
      <4>2. CASE x \in Groups
        <5>1. Home(x) = None
          BY <4>2 DEF Home
        <5>2. Rank(h) = 3 /\ Rank(Do("unlink", x)) = 2
          BY <4>2, <5>1, RankIs DEF Ops
        <5> QED BY <4>1, <5>2
      <4>3. CASE x \in Apps
        <5>1. Home(x) \in Groups
          BY <2>5, <4>3, ListedIs
        <5>2. Rank(h) = 2 /\ Rank(Do("unlink", x)) = 1
          BY <4>3, <5>1, RankIs DEF Ops
        <5> QED BY <4>1, <5>2
      <4> QED BY <4>2, <4>3 DEF Owners
    <3>3. Do("unlink", Home(x)) \in In(me'[t].todo)
      BY <1>1, <1>3, <2>5, <3>2 DEF LetsGo
    <3>4. LetsGo(t, Home(x))'
      BY <1>4, <3>3 DEF LetsGo
    <3> QED BY <1>7, <2>5, <3>1, <3>4 DEF Owed
  <2> QED BY <2>1, <2>3, <2>4, <2>5 DEF Owed
<1> QED BY <1>5, <1>6, <1>7

LEMMA UndoesKeeps ==
  ASSUME IInv, IInv', Bounds, NEW t \in Threads,
         \E S : Undoes(t, S) /\ \A x \in Owners : UndoesTo(t, S, x)
  PROVE  Bounds'
<1>1. PICK S : Undoes(t, S) /\ \A x \in Owners : UndoesTo(t, S, x)
  OBVIOUS
<1>2. RetiredOnce' /\ Answering' /\ Few'
  BY <1>1, UndoesRetire
<1>3. \A x \in Owners : OffList(x)' /\ HasTimer(x)'
  BY <1>1, UndoesTimer
<1>4. \A x \in Owners : Low(x)' /\ High(x)'
  BY <1>1, UndoesCount
<1>5. \A u \in Threads, x \in Owners : LetsGo(u, x)' => Owed(u, x)'
  BY <1>1, UndoesOwed
<1> QED BY <1>2, <1>3, <1>4, <1>5 DEF Bounds

\* A step of an unlink by its stack.
LEMMA Undoing ==
  ASSUME IInv, NEW t \in Threads, me[t].todo # <<>>, NEW steps, NEW S, Steps(t, steps, S),
         me' = [me EXCEPT ![t] = Then(t, steps)]
  PROVE  /\ me'[t].pc = me[t].pc /\ me'[t].app = me[t].app /\ me'[t].group = me[t].group
         /\ me'[t].new = me[t].new /\ In(me'[t].todo) = S \cup In(Tail(me[t].todo))
         /\ me'[t].todo = steps \o Tail(me[t].todo)
         /\ \A u \in Threads : u # t => me'[u] = me[u]
<1>1. Types /\ me[t] \in Local
  BY DEF IInv, Types
<1> DEFINE q == steps \o Tail(me[t].todo)
<1>2. q \in Seq(Frames) /\ In(q) = S \cup In(Tail(me[t].todo))
  BY DEF Steps
<1>3. me' = [me EXCEPT ![t] = [me[t] EXCEPT !.todo = q]]
  BY DEF Then
<1> HIDE DEF q
<1>4. me'[t] = [me[t] EXCEPT !.todo = q] /\ \A u \in Threads : u # t => me'[u] = me[u]
  BY <1>1, <1>3 DEF Types
<1>5. /\ me'[t].pc = me[t].pc /\ me'[t].app = me[t].app /\ me'[t].group = me[t].group
      /\ me'[t].new = me[t].new /\ me'[t].todo = q
  BY <1>1, <1>4 DEF Local
<1> QED BY <1>2, <1>4, <1>5 DEF q

\* What a step of an unlink leaves to do.
UndoesBut(t) == \E Z : Undoes(t, Z) /\ \A y \in Owners : UndoesTo(t, Z, y)

\* A step that neither unlinks nor ends what is in another.
Plain(t, op, x, steps, S) ==
  /\ Unlinks(t, op, x) /\ op # "unlink"
  /\ Steps(t, steps, S) /\ me' = [me EXCEPT ![t] = Then(t, steps)]
  /\ \A f \in S : f.op \in {"free", "rm", "members", "close"}
  /\ lost' = lost /\ groups' = groups /\ apps' = apps /\ session'.closed = session.closed
  /\ list' \subseteq list
  /\ \A y \in Owners : own'[y].group = own[y].group /\ own'[y].cnt = own[y].cnt
  /\ \A y \in valid : y \in valid' \/ (y = x /\ op \in {"rmfree", "fired"})

LEMMA PlainUndoes ==
  ASSUME IInv, NEW t \in Threads, NEW op, NEW x, NEW steps, NEW S, Plain(t, op, x, steps, S)
  PROVE  UndoesBut(t)
<1>0. /\ op # "unlink" /\ Steps(t, steps, S) /\ me' = [me EXCEPT ![t] = Then(t, steps)]
      /\ \A f \in S : f.op \in {"free", "rm", "members", "close"}
      /\ lost' = lost /\ groups' = groups /\ apps' = apps /\ session'.closed = session.closed
      /\ list' \subseteq list
      /\ \A y \in Owners : own'[y].group = own[y].group /\ own'[y].cnt = own[y].cnt
      /\ \A y \in valid : y \in valid' \/ (y = x /\ op \in {"rmfree", "fired"})
  BY DEF Plain
<1>1. me[t].todo # <<>> /\ Runs(t) /\ Head(me[t].todo) = Do(op, x)
  BY DEF Unlinks, Plain
<1>2. /\ me'[t].pc = me[t].pc /\ me'[t].app = me[t].app /\ me'[t].group = me[t].group
      /\ me'[t].new = me[t].new /\ In(me'[t].todo) = S \cup In(Tail(me[t].todo))
      /\ \A u \in Threads : u # t => me'[u] = me[u]
  BY <1>0, <1>1, Undoing
<1>3. \A y : Head(me[t].todo) # Do("unlink", y)
  BY <1>0, <1>1, FramesDiffer
<1>4. \A y : Do("unlink", y) \notin S /\ Do("fired", y) \notin S /\ Do("rmfree", y) \notin S
  BY <1>0, DoIs
<1>5. Undoes(t, S)
  BY <1>0, <1>1, <1>2, <1>3, <1>4 DEF Undoes
<1>6. ASSUME NEW y \in Owners PROVE UndoesTo(t, S, y)
  <2>1. IsListed(y)' <=> IsListed(y)
    BY <1>0 DEF IsListed
  <2> QED BY <1>0, <1>1, <1>3, <1>4, <2>1 DEF UndoesTo
<1> QED BY <1>5, <1>6 DEF UndoesBut

LEMMA RemoveLockedUndoes ==
  ASSUME IInv, NEW t \in Threads, NEW x \in Owners, RemoveLocked(t, x)
  PROVE  UndoesBut(t)
<1> DEFINE k == Do("rmfree", x)
           h == Do("rm", x)
<1>1. me[t].todo # <<>> /\ Head(me[t].todo) = h /\ h \in Frames /\ Sound(h) /\ Unlinks(t, "rm", x)
  BY HeadIs DEF RemoveLocked
<1>2. /\ h.op = "rm" /\ h.at = x /\ k \in Frames /\ k.op = "rmfree" /\ k.at = x
      /\ Rank(k) = Rank(h)
  <2>1. h.op = "rm" /\ h.at = x /\ k \in Frames /\ k.op = "rmfree" /\ k.at = x
    BY RankIs DEF Ops
  <2> QED BY <2>1 DEF Rank
<1>3. /\ UNCHANGED <<session, own, groups, apps, lost, valid>> /\ list' = list \ {x} /\ Runs(t)
  BY DEF RemoveLocked, held, Unlinks
<1>4. CASE x \notin list
  <2>1. me' = [me EXCEPT ![t] = Then(t, <<>>)] /\ list' \subseteq list
    BY <1>3, <1>4 DEF RemoveLocked, Goto, Returned
  <2>2. Steps(t, <<>>, {}) /\ "rm" # "unlink"
    BY <1>1, NoSteps
  <2>3. Plain(t, "rm", x, <<>>, {})
    BY <1>1, <1>3, <2>1, <2>2 DEF Plain
  <2> QED BY <2>3, PlainUndoes
<1>5. CASE x \in list
  <2>1. me' = [me EXCEPT ![t] = Then(t, <<k>>)] /\ list' \subseteq list
    BY <1>3, <1>5 DEF RemoveLocked, Goto
  <2>2. Steps(t, <<k>>, {k})
    <3> HIDE DEF h, k
    <3> QED BY <1>1, <1>2, OneStep DEF Below, Removing
  <2>3. /\ me'[t].pc = me[t].pc /\ me'[t].app = me[t].app /\ me'[t].group = me[t].group
        /\ me'[t].new = me[t].new /\ In(me'[t].todo) = {k} \cup In(Tail(me[t].todo))
        /\ \A u \in Threads : u # t => me'[u] = me[u]
    BY <1>1, <2>1, <2>2, Undoing
  <2>4. \A y : /\ Head(me[t].todo) # Do("unlink", y) /\ Do("unlink", y) # k /\ Do("fired", y) # k
               /\ Do("rmfree", y) = k => y = x
    BY <1>1, FramesDiffer
  <2>5. Undoes(t, {k})
    <3> HIDE DEF k
    <3> QED BY <1>1, <1>3, <2>1, <2>3, <2>4 DEF Undoes
  <2>6. ASSUME NEW y \in Owners PROVE UndoesTo(t, {k}, y)
    <3>1. IsListed(y)' <=> IsListed(y)
      BY <1>3 DEF IsListed
    <3> HIDE DEF k
    <3> QED BY <1>3, <1>5, <2>4, <3>1 DEF UndoesTo
  <2> QED BY <2>5, <2>6 DEF UndoesBut
<1> QED BY <1>4, <1>5

LEMMA RemoveFreeUndoes ==
  ASSUME IInv, NEW t \in Threads, NEW x \in Owners,
         RemoveFree(t, x) \/ (t = Watchdog /\ WatchdogFree)
  PROVE  UndoesBut(t)
<1>1. PICK y : \/ Unlinks(t, "rmfree", y) /\ valid' = valid \ {y}
               \/ Unlinks(t, "fired", y) /\ valid' = valid \ {y}
  BY DEF RemoveFree, WatchdogFree
<1>2. me' = [me EXCEPT ![t] = Then(t, <<>>)] /\ UNCHANGED <<held, list>>
  BY DEF RemoveFree, WatchdogFree, Return, Goto, Stay, Returned
<1>3. PICK op \in {"rmfree", "fired"} : Unlinks(t, op, y)
  BY <1>1
<1>4. Steps(t, <<>>, {})
  BY <1>3, NoSteps DEF Unlinks
<1>5. UNCHANGED <<lost, groups, apps, session, own>> /\ valid' = valid \ {y}
  BY <1>1, <1>2 DEF held
<1>6. op # "unlink" /\ list' \subseteq list
  BY <1>2
<1>7. Plain(t, op, y, <<>>, {})
  BY <1>2, <1>3, <1>4, <1>5, <1>6 DEF Plain
<1> QED BY <1>7, PlainUndoes

\* An application or a group is freed, or an application is closed.
LEMMA FreedUndoes ==
  ASSUME IInv, NEW t \in Threads, NEW x \in Owners, NEW op \in {"members", "free"},
         Unlinks(t, op, x), own' = [own EXCEPT ![x].state = "freed"], Return(t),
         UNCHANGED <<session, groups, apps, lost, timers>>
  PROVE  UndoesBut(t)
<1>1. me' = [me EXCEPT ![t] = Then(t, <<>>)] /\ UNCHANGED <<valid, list>>
  BY DEF Return, Goto, Stay, Returned, timers
<1>2. Steps(t, <<>>, {}) /\ op # "unlink"
  BY NoSteps DEF Unlinks
<1>3. \A y \in Owners : own'[y].group = own[y].group /\ own'[y].cnt = own[y].cnt
  BY DEF IInv, Types, Owner
<1>4. Plain(t, op, x, <<>>, {})
  BY <1>1, <1>2, <1>3 DEF Plain
<1> QED BY <1>4, PlainUndoes

LEMMA EndAppUndoes ==
  ASSUME IInv, NEW t \in Threads, NEW a \in Apps, EndApp(t, a)
  PROVE  UndoesBut(t)
<1> DEFINE f == Do("free", a)
           h == Do("close", a)
<1>1. me[t].todo # <<>> /\ Head(me[t].todo) = h /\ Unlinks(t, "close", a)
  BY DEF EndApp, Unlinks
<1>2. /\ me' = [me EXCEPT ![t] = Then(t, <<f>>)] /\ UNCHANGED <<session, own, groups, apps, lost>>
      /\ UNCHANGED <<valid, list>>
  BY DEF EndApp, Goto, timers
<1>3. /\ f \in Frames /\ f.op = "free" /\ Rank(f) = 1
      /\ h \in Frames /\ h.op = "close" /\ Rank(h) = 1
  BY RankIs DEF Ops, Owners
<1> HIDE DEF f, h
<1>4. Steps(t, <<f>>, {f})
  BY <1>1, <1>3, OneStep DEF Below, Removing
<1>5. \A k \in {f} : k.op \in {"free", "rm", "members", "close"}
  BY <1>3
<1>6. Plain(t, "close", a, <<f>>, {f})
  BY <1>1, <1>2, <1>4, <1>5 DEF Plain
<1> QED BY <1>6, PlainUndoes

\* What is in a group, or in the session, is unlinked next.
LEMMA NextUndoes ==
  ASSUME IInv, NEW t \in Threads, NEW x \in Owners, IsListed(x), NEW g, g = Home(x),
         Unlinks(t, "members", g), Stay(t, Then(t, <<Do("unlink", x), Do("members", g)>>)),
         UNCHANGED <<session, own, groups, apps, lost, timers>>
  PROVE  UndoesBut(t)
<1> DEFINE f == Do("unlink", x)
           k == Do("members", g)
<1>1. /\ me[t].todo # <<>> /\ Head(me[t].todo) = k /\ k \in Frames
      /\ Runs(t) /\ me' = [me EXCEPT ![t] = Then(t, <<f, k>>)] /\ cpu' = t
  BY HeadIs DEF Stay, Unlinks
<1>2. UNCHANGED <<valid, list>>
  BY DEF timers
<1>3. f \in Frames /\ f.op = "unlink" /\ k.op = "members" /\ Rank(f) < Rank(k)
  <2>1. f \in Frames /\ f.op = "unlink" /\ k.op = "members"
    BY RankIs DEF Ops, Do
  <2>2. CASE x \in Groups
    <3>1. Rank(f) = 2 /\ g = None
      BY <2>2, RankIs, ListedIs DEF Ops
    <3>2. Rank(k) = 3
      BY <3>1, RankIs DEF Ops
    <3> QED BY <2>1, <3>1, <3>2
  <2>3. CASE x \in Apps
    <3>1. Rank(f) = 1 /\ g \in Groups
      BY <2>3, RankIs, ListedIs DEF Ops
    <3>2. Rank(k) = 2
      BY <3>1, RankIs DEF Ops
    <3> QED BY <2>1, <3>1, <3>2
  <2> QED BY <2>2, <2>3 DEF Owners
<1>4. \A y, op : /\ Do("unlink", y) # k /\ (Do("unlink", y) = f => y = x)
                 /\ Do("fired", y) \notin {f, k} /\ Do("rmfree", y) \notin {f, k}
  BY FramesDiffer
<1>5. x # None
  BY NoneIsNone
<1>6. f # Do("unlink", None)
  BY <1>5, FramesDiffer
<1>7. Home(x) = g
  OBVIOUS
<1>8. k = Do("members", Home(x))
  OBVIOUS
<1> HIDE DEF f, k
<1>9. Steps(t, <<f, k>>, {f, k})
  BY <1>1, <1>3, TwoSteps DEF Below, After, Removing
<1>10. /\ me'[t].pc = me[t].pc /\ me'[t].app = me[t].app /\ me'[t].group = me[t].group
       /\ me'[t].new = me[t].new /\ In(me'[t].todo) = {f, k} \cup In(Tail(me[t].todo))
       /\ me'[t].todo = <<f, k>> \o Tail(me[t].todo)
       /\ \A u \in Threads : u # t => me'[u] = me[u]
  BY <1>1, <1>9, Undoing
<1>11. Head(me'[t].todo) = f
  <2>1. Tail(me[t].todo) \in Seq(Frames)
    BY <1>1, Popped DEF IInv
  <2>2. Head(<<f, k>> \o Tail(me[t].todo)) = f
    BY <1>1, <1>3, <2>1
  <2> QED BY <1>10, <2>2
<1>12. Undoes(t, {f, k})
  BY <1>1, <1>2, <1>4, <1>6, <1>10 DEF Undoes
<1>13. ASSUME NEW y \in Owners PROVE UndoesTo(t, {f, k}, y)
  <2>1. IsListed(y)' <=> IsListed(y)
    BY DEF IsListed
  <2>2. Do("unlink", y) \in {f, k} => y = x
    BY <1>4
  <2>3. Head(me[t].todo) # Do("unlink", y) /\ Do("fired", y) \notin {f, k} /\ Do("rmfree", y) \notin {f, k}
    BY <1>1, <1>4
  <2>4. Do("unlink", x) = f
    BY DEF f
  <2>5. Do("unlink", y) \in {f, k} => /\ IsListed(y)' /\ cpu' = t /\ Head(me'[t].todo) = Do("unlink", y)
                                      /\ Do("members", Home(y)) \in {f, k}
    BY <1>1, <1>8, <1>11, <2>1, <2>2, <2>4
  <2> QED BY <1>2, <2>1, <2>3, <2>5 DEF UndoesTo
<1> QED BY <1>12, <1>13 DEF UndoesBut

\* An unlink takes x off, and perhaps out of its list, and goes on with S.
Takes(t, x, steps, S) ==
  /\ Unlinks(t, "unlink", x) /\ Steps(t, steps, S) /\ me' = [me EXCEPT ![t] = Then(t, steps)]
  /\ \A f \in S : f.op \in {"rm", "members", "close"}
  /\ own' = [own EXCEPT ![x].cnt = @ - 1]
  /\ session' = session /\ lost' = lost /\ valid' = valid /\ list' = list
  /\ \A y \in Owners : IsListed(y) => IsListed(y)' \/ (y = x /\ own[x].cnt <= 1)

LEMMA TakenUndoes ==
  ASSUME IInv, NEW t \in Threads, NEW x \in Owners, NEW steps, NEW S, Takes(t, x, steps, S)
  PROVE  UndoesBut(t)
<1>0. /\ Steps(t, steps, S) /\ me' = [me EXCEPT ![t] = Then(t, steps)]
      /\ \A f \in S : f.op \in {"rm", "members", "close"}
      /\ own' = [own EXCEPT ![x].cnt = @ - 1]
      /\ session' = session /\ lost' = lost /\ valid' = valid /\ list' = list
      /\ \A y \in Owners : IsListed(y) => IsListed(y)' \/ (y = x /\ own[x].cnt <= 1)
  BY DEF Takes
<1>1. me[t].todo # <<>> /\ Runs(t) /\ Head(me[t].todo) = Do("unlink", x) /\ x # None
  BY NoneIsNone DEF Takes, Unlinks
<1>2. /\ me'[t].pc = me[t].pc /\ me'[t].app = me[t].app /\ me'[t].group = me[t].group
      /\ me'[t].new = me[t].new /\ In(me'[t].todo) = S \cup In(Tail(me[t].todo))
      /\ \A u \in Threads : u # t => me'[u] = me[u]
  BY <1>0, <1>1, Undoing
<1>3. \A y : Head(me[t].todo) = Do("unlink", y) <=> y = x
  BY <1>1, FramesDiffer
<1>4. \A y : Do("unlink", y) \notin S /\ Do("fired", y) \notin S /\ Do("rmfree", y) \notin S
  BY <1>0, DoIs
<1>6. Undoes(t, S)
  BY <1>0, <1>1, <1>2, <1>3, <1>4 DEF Undoes
<1>7. \A y \in Owners : /\ own'[y].group = own[y].group
                        /\ own'[y].cnt = IF y = x THEN own[y].cnt - 1 ELSE own[y].cnt
  BY <1>0 DEF IInv, Types, Owner
<1>8. ASSUME NEW y \in Owners PROVE UndoesTo(t, S, y)
  <2>1. own'[y].cnt = IF Head(me[t].todo) = Do("unlink", y) THEN own[y].cnt - 1 ELSE own[y].cnt
    BY <1>3, <1>7
  <2>2. IsListed(y) => IsListed(y)' \/ (Head(me[t].todo) = Do("unlink", y) /\ own[y].cnt <= 1)
    BY <1>0, <1>3
  <2>3. own'[y].group = own[y].group
    BY <1>7
  <2> QED BY <1>0, <1>4, <2>1, <2>2, <2>3 DEF UndoesTo
<1> QED BY <1>6, <1>8 DEF UndoesBut

LEMMA UnlinkUndoes ==
  ASSUME IInv, NEW t \in Threads, NEW x \in Owners, Unlink(t, x)
  PROVE  UndoesBut(t)
<1> DEFINE h == Do("unlink", x)
<1>1. Types /\ own \in [Owners -> Owner] /\ x # None /\ Homed /\ Listed
  BY NoneIsNone DEF IInv, Types
<1>2. /\ me[t].todo # <<>> /\ Head(me[t].todo) = h /\ h \in Frames /\ Sound(h)
      /\ Unlinks(t, "unlink", x)
  BY HeadIs DEF Unlink
<1>3. h.op = "unlink" /\ h.at = x
  BY DoIs
<1> HIDE DEF h
<1>4. Used(x)
  BY <1>1, <1>2, <1>3 DEF Sound
<1>5. own' = [own EXCEPT ![x].cnt = @ - 1] /\ UNCHANGED <<session, lost, valid, list>>
  BY DEF Unlink
<1>6. \A y \in Owners : own'[y].group = own[y].group
  BY <1>1, <1>5 DEF Owner
<1>7. CASE own[x].cnt > 1 /\ Return(t) /\ UNCHANGED <<groups, apps, mutex>>
  <2>1. me' = [me EXCEPT ![t] = Then(t, <<>>)]
    BY <1>7 DEF Return, Goto, Stay, Returned
  <2>2. Steps(t, <<>>, {}) /\ \A f \in {} : f.op \in {"rm", "members", "close"}
    BY <1>2, NoSteps
  <2>3. \A y \in Owners : IsListed(y) => IsListed(y)' \/ (y = x /\ own[x].cnt <= 1)
    BY <1>6, <1>7 DEF IsListed
  <2>4. Takes(t, x, <<>>, {})
    BY <1>2, <1>5, <2>1, <2>2, <2>3 DEF Takes
  <2> QED BY <2>4, TakenUndoes
<1>8. CASE own[x].cnt <= 1 /\ RemoveWatchdog(t, x)
            /\ IF x \in Groups
               THEN groups' = TakenOut(groups, x) /\ UNCHANGED apps
               ELSE apps' = [apps EXCEPT ![own[x].group] = TakenOut(@, x)] /\ UNCHANGED groups
  <2>1. groups \in Seq(Groups) /\ Once(groups) /\ apps \in [Groups -> Seq(Apps)]
        /\ \A g \in Groups : apps[g] \in Seq(Apps) /\ Once(apps[g])
    BY <1>1 DEF Types
  <2>2. In(groups) \subseteq In(groups') \cup {x}
    <3>1. CASE x \in Groups
      BY <1>8, <2>1, <3>1, TakenOutIs
    <3>2. CASE x \notin Groups
      BY <1>8, <3>2
    <3> QED BY <3>1, <3>2
  <2>3. \A g \in Groups : In(apps[g]) \subseteq In(apps'[g]) \cup {x}
    <3>1. CASE x \in Groups
      BY <1>8, <3>1
    <3>2. CASE x \notin Groups
      <4>1. PICK o \in Groups : o = own[x].group
        BY <1>1, <1>4, <3>2 DEF Homed, Owners
      <4>2. In(TakenOut(apps[o], x)) = In(apps[o]) \ {x}
        BY <2>1, TakenOutIs
      <4>3. apps' = [apps EXCEPT ![o] = TakenOut(apps[o], x)]
        BY <1>8, <3>2, <4>1
      <4> DEFINE n == TakenOut(apps[o], x)
      <4>4. In(n) = In(apps[o]) \ {x} /\ apps' = [apps EXCEPT ![o] = n]
        BY <4>2, <4>3
      <4> HIDE DEF n
      <4> QED BY <2>1, <4>1, <4>4
    <3> QED BY <3>1, <3>2
  <2>4. \A y \in Owners : IsListed(y) => IsListed(y)' \/ (y = x /\ own[x].cnt <= 1)
    <3> SUFFICES ASSUME NEW y \in Owners, IsListed(y), y # x PROVE IsListed(y)'
      BY <1>8
    <3>1. CASE y \in Groups
      BY <2>2, <3>1 DEF IsListed
    <3>2. CASE y \notin Groups
      BY <1>6, <2>3, <3>2 DEF IsListed
    <3> QED BY <3>1, <3>2
  <2> DEFINE m == Do("rm", x)
             e == Ends(x)
  <2>5. /\ m \in Frames /\ m.op = "rm" /\ m.at = x /\ Rank(m) = Rank(h)
        /\ e \in Frames /\ e.op \in {"members", "close"} /\ e.at = x /\ Rank(e) = Rank(h)
    <3>1. m \in Frames /\ m.op = "rm" /\ m.at = x
      BY RankIs DEF Ops
    <3>2. e \in Frames /\ e.op \in {"members", "close"} /\ e.at = x
      BY RankIs DEF Ops, Ends
    <3> QED BY <1>1, <1>3, <3>1, <3>2 DEF Rank
  <2>6. CASE me' = [me EXCEPT ![t] = Then(t, <<m, e>>)]
    <3> HIDE DEF m, e
    <3>1. Steps(t, <<m, e>>, {m, e})
      BY <1>2, <1>3, <2>5, TwoSteps DEF Below, After, Removing
    <3>2. \A f \in {m, e} : f.op \in {"rm", "members", "close"}
      BY <2>5
    <3>3. Takes(t, x, <<m, e>>, {m, e})
      BY <1>2, <1>5, <2>4, <2>6, <3>1, <3>2 DEF Takes
    <3> QED BY <3>3, TakenUndoes
  <2>7. CASE me' = [me EXCEPT ![t] = Then(t, <<e>>)]
    <3> HIDE DEF m, e
    <3>1. Steps(t, <<e>>, {e})
      BY <1>2, <1>3, <2>5, OneStep DEF Below, Removing
    <3>2. \A f \in {e} : f.op \in {"rm", "members", "close"}
      BY <2>5
    <3>3. Takes(t, x, <<e>>, {e})
      BY <1>2, <1>5, <2>4, <2>7, <3>1, <3>2 DEF Takes
    <3> QED BY <3>3, TakenUndoes
  <2> QED BY <1>8, <2>6, <2>7 DEF RemoveWatchdog, Goto, Stay
<1> QED BY <1>7, <1>8 DEF Unlink

LEMMA EndGroupUndoes ==
  ASSUME IInv, NEW t \in Threads, NEW g \in Groups, EndGroup(t, g)
  PROVE  UndoesBut(t)
<1>1. Unlinks(t, "members", g) /\ UNCHANGED <<session, groups, apps, lost, timers>> /\ g \in Owners
  BY DEF EndGroup, Owners
<1>2. CASE apps[g] # <<>> /\ UNCHANGED own
           /\ Stay(t, Then(t, <<Do("unlink", Head(apps[g])), Do("members", g)>>))
  <2>1. Types /\ Listed /\ apps[g] \in Seq(Apps)
    BY DEF IInv, Types
  <2>2. PICK a \in Apps : a = Head(apps[g]) /\ a \in In(apps[g])
    <3>1. 1 \in DOMAIN apps[g] /\ Head(apps[g]) = apps[g][1] /\ Head(apps[g]) \in Apps
      BY <1>2, <2>1
    <3> QED BY <3>1 DEF In
  <2>3. a \in Owners /\ a \notin Groups /\ own[a].group = g
    BY <2>1, <2>2, NoneIsNone DEF Listed, Owners
  <2>4. IsListed(a) /\ g = Home(a)
    BY <2>2, <2>3 DEF IsListed, Home
  <2>5. Stay(t, Then(t, <<Do("unlink", a), Do("members", g)>>))
    BY <1>2, <2>2
  <2> QED BY <1>1, <1>2, <2>3, <2>4, <2>5, NextUndoes
<1>3. CASE own' = [own EXCEPT ![g].state = "freed"] /\ Return(t)
  BY <1>1, <1>3, FreedUndoes
<1> QED BY <1>2, <1>3 DEF EndGroup

LEMMA FreeAppUndoes ==
  ASSUME IInv, NEW t \in Threads, NEW a \in Apps, FreeApp(t, a)
  PROVE  UndoesBut(t)
<1>1. /\ Unlinks(t, "free", a) /\ UNCHANGED <<session, groups, apps, lost, timers>> /\ a \in Owners
      /\ own' = [own EXCEPT ![a].state = "freed"] /\ Return(t) /\ "free" \in {"members", "free"}
  BY DEF FreeApp, Owners
<1> QED BY <1>1, FreedUndoes

LEMMA CloseSessionUndoes ==
  ASSUME IInv, NEW t \in Threads, CloseSession(t)
  PROVE  UndoesBut(t)
<1> DEFINE k == Do("members", None)
           e == Do("free", None)
<1>1. Types /\ Listed /\ groups \in Seq(Groups)
  BY DEF IInv, Types
<1>2. /\ me[t].todo # <<>> /\ Head(me[t].todo) = k /\ k \in Frames /\ Unlinks(t, "members", None)
  BY HeadIs DEF CloseSession
<1>3. UNCHANGED <<session, own, groups, apps, lost, timers>>
  BY DEF CloseSession
<1>4. CASE groups # <<>> /\ Stay(t, Then(t, <<Do("unlink", Head(groups)), k>>))
  <2>1. PICK g \in Groups : g = Head(groups) /\ g \in In(groups)
    <3>1. 1 \in DOMAIN groups /\ Head(groups) = groups[1] /\ Head(groups) \in Groups
      BY <1>1, <1>4
    <3> QED BY <3>1 DEF In
  <2>2. g \in Owners /\ IsListed(g) /\ None = Home(g)
    BY <2>1 DEF IsListed, Home, Owners
  <2>3. Stay(t, Then(t, <<Do("unlink", g), Do("members", None)>>))
    BY <1>4, <2>1
  <2> QED BY <1>2, <1>3, <2>2, <2>3, NextUndoes
<1>5. CASE Goto(t, Then(t, <<e>>))
  <2>1. me' = [me EXCEPT ![t] = Then(t, <<e>>)] /\ UNCHANGED <<valid, list>>
    BY <1>3, <1>5 DEF Goto, timers
  <2>2. e \in Frames /\ e.op = "free" /\ Rank(e) = 3 /\ Rank(k) = 3 /\ k.op = "members"
    BY RankIs DEF Ops
  <2> HIDE DEF e, k
  <2>3. Steps(t, <<e>>, {e})
    BY <1>2, <2>2, OneStep DEF Below, Removing
  <2>4. \A f \in {e} : f.op \in {"free", "rm", "members", "close"}
    BY <2>2
  <2>5. Plain(t, "members", None, <<e>>, {e})
    BY <1>2, <1>3, <2>1, <2>3, <2>4 DEF Plain
  <2> QED BY <2>5, PlainUndoes
<1> QED BY <1>4, <1>5 DEF CloseSession

LEMMA FreeSessionUndoes ==
  ASSUME IInv, NEW t \in Threads, FreeSession(t)
  PROVE  UndoesBut(t)
<1>1. Unlinks(t, "free", None) /\ UNCHANGED <<own, groups, apps, lost, timers>> /\ "free" # "unlink"
  BY DEF FreeSession
<1>2. me' = [me EXCEPT ![t] = Then(t, <<>>)] /\ UNCHANGED <<valid, list>>
  BY DEF FreeSession, Return, Goto, Stay, Returned, timers
<1>3. session'.closed = session.closed
  BY DEF FreeSession, IInv, Types
<1>4. Steps(t, <<>>, {})
  BY <1>1, NoSteps DEF Unlinks
<1>5. Plain(t, "free", None, <<>>, {})
  BY <1>1, <1>2, <1>3, <1>4 DEF Plain
<1> QED BY <1>5, PlainUndoes

LEMMA UnlinkSessUndoes ==
  ASSUME IInv, NEW t \in Threads, UnlinkSess(t)
  PROVE  UndoesBut(t)
<1> DEFINE k == Do("members", None)
           h == Do("unlink", None)
<1>1. /\ me[t].todo # <<>> /\ Head(me[t].todo) = h /\ h \in Frames /\ Runs(t)
  BY HeadIs DEF UnlinkSess, Unlinks
<1>2. /\ UNCHANGED <<own, groups, apps, lost, valid, list>>
      /\ session'.closed = session.closed
  BY DEF UnlinkSess, timers, IInv, Types
<1>3. k \in Frames /\ k.op = "members" /\ Rank(k) = 3 /\ Rank(h) = 3 /\ h.op = "unlink"
  BY RankIs DEF Ops
<1>4. \A y \in Owners : Head(me[t].todo) # Do("unlink", y)
  BY <1>1, FramesDiffer, NoneIsNone
<1>5. \A y, op : Head(me[t].todo) = Do(op, y) => op = "unlink"
  BY <1>1, FramesDiffer
<1> HIDE DEF k, h
<1>6. ASSUME NEW S \in {{}, {k}}, NEW steps, Steps(t, steps, S), me' = [me EXCEPT ![t] = Then(t, steps)],
             session.cnt = 1 \/ me'[t].todo = Tail(me[t].todo)
      PROVE  UndoesBut(t)
  <2>1. /\ me'[t].pc = me[t].pc /\ me'[t].app = me[t].app /\ me'[t].group = me[t].group
        /\ me'[t].new = me[t].new /\ In(me'[t].todo) = S \cup In(Tail(me[t].todo))
        /\ \A u \in Threads : u # t => me'[u] = me[u]
    BY <1>1, <1>6, Undoing
  <2>2. \A y : Do("unlink", y) \notin S /\ Do("fired", y) \notin S /\ Do("rmfree", y) \notin S
    BY <1>3, <1>6, DoIs
  <2>3. list' \subseteq list /\ lost' = lost
    BY <1>2
  <2>4. Undoes(t, S)
    BY <1>1, <1>2, <1>6, <2>1, <2>2, <2>3 DEF Undoes
  <2>5. ASSUME NEW y \in Owners PROVE UndoesTo(t, S, y)
    <3>1. IsListed(y)' <=> IsListed(y)
      BY <1>2 DEF IsListed
    <3> QED BY <1>2, <1>4, <2>2, <3>1 DEF UndoesTo
  <2> QED BY <2>4, <2>5 DEF UndoesBut
<1>7. CASE Return(t)
  <2>1. me' = [me EXCEPT ![t] = Then(t, <<>>)]
    BY <1>7 DEF Return, Goto, Stay, Returned
  <2>2. Steps(t, <<>>, {})
    BY <1>1, NoSteps
  <2>3. me'[t].todo = <<>> \o Tail(me[t].todo)
    BY <1>1, <2>1, <2>2, Undoing
  <2>4. me'[t].todo = Tail(me[t].todo)
    BY <1>1, <2>3, Popped DEF IInv
  <2> QED BY <1>6, <2>1, <2>2, <2>4
<1>8. CASE session.cnt = 1 /\ me' = [me EXCEPT ![t] = Then(t, <<k>>)]
  <2>1. Steps(t, <<k>>, {k})
    BY <1>1, <1>3, OneStep DEF Below, Removing
  <2> QED BY <1>6, <1>8, <2>1
<1> QED BY <1>7, <1>8 DEF UnlinkSess, Stay, k

LEMMA UnlinkingBounded ==
  ASSUME IInv, IInv', Bounds, NEW t \in Threads, Unlinking(t) \/ (t = Watchdog /\ WatchdogFree)
  PROVE  Bounds'
<1>1. CASE UndoesBut(t)
  BY <1>1, UndoesKeeps DEF UndoesBut
<1>2. CASE UseFreed(t)
  <2>1. UNCHANGED <<held, timers, me, cpu>>
    BY <1>2 DEF UseFreed
  <2> QED BY <2>1 DEF held, timers, Bounds, RetiredOnce, Retiring, LetsGo, Answering, Few, Replacing,
             OffList, HasTimer, Adding, Low, High, Owed, IsListed, Home
<1>3. CASE \E x \in Owners : Unlink(t, x) \/ RemoveLocked(t, x) \/ RemoveFree(t, x)
  BY <1>1, <1>3, UnlinkUndoes, RemoveLockedUndoes, RemoveFreeUndoes
<1>4. CASE t = Watchdog /\ WatchdogFree
  BY <1>1, <1>4, RemoveFreeUndoes DEF WatchdogFree
<1>5. CASE \/ \E g \in Groups : EndGroup(t, g)
           \/ \E a \in Apps : EndApp(t, a) \/ FreeApp(t, a)
  BY <1>1, <1>5, EndGroupUndoes, EndAppUndoes, FreeAppUndoes
<1>6. CASE UnlinkSess(t) \/ CloseSession(t) \/ FreeSession(t)
  BY <1>1, <1>6, UnlinkSessUndoes, CloseSessionUndoes, FreeSessionUndoes
<1> QED BY <1>2, <1>3, <1>4, <1>5, <1>6 DEF Unlinking

\* While what it is in stands, the links of an owner are those of the connections
\* and of the watchdog, each once, and what was overwritten.
HighFact ==
  IInv /\ Answering /\ Few /\ (\A x \in Owners : OffList(x))
       /\ (\A t \in Threads, x \in Owners : LetsGo(t, x) => Owed(t, x)) =>
    \A x \in Owners : Live(x) /\ Open(Home(x)) /\ own[x].cnt > 0 => High(x)

LEMMA HighIs == HighFact
<1> SUFFICES ASSUME IInv, Answering, Few, \A x \in Owners : OffList(x),
                    \A t \in Threads, x \in Owners : LetsGo(t, x) => Owed(t, x),
                    NEW x \in Owners, Live(x), Open(Home(x)), own[x].cnt > 0
             PROVE  High(x)
  BY DEF HighFact
<1> DEFINE H == Holders(x)
           R == Rel(x)
           C == R \ {Watchdog}
           w == IF Watchdog \in R THEN 1 ELSE 0
<1>1. Types /\ Exact(x) /\ x # None /\ IsFiniteSet(Conns) /\ MaxLost \in Nat
  BY NoneIsNone, AppsAssumption DEF IInv
<1>2. own[x].cnt = Cardinality(H) + Cardinality(R) + Lost(x) + Manager(x)
  BY <1>1 DEF Exact, Refs
<1>3. H \subseteq Conns
  BY Held DEF Holders
<1>4. R \subseteq Threads /\ C \subseteq Conns
  BY DEF Rel, Threads
<1>5. H \cap C = {}
  <2> SUFFICES ASSUME NEW u \in Conns, u \in Holders(x), u \in Rel(x) PROVE FALSE
    BY <1>3
  <2>1. me[u].pc # "idle" /\ Do("unlink", x) \in In(me[u].todo)
    BY Held, NoneIsNone DEF Rel
  <2>2. me[u].todo = <<>> \/ me[u].todo = <<Do("unlink", None)>>
    BY <2>1 DEF Answering
  <2>3. Do("unlink", None) \in Frames
    BY RankIs DEF Ops
  <2>4. In(<<Do("unlink", None)>>) = {Do("unlink", None)}
    BY <2>3, OneStack
  <2>5. Do("unlink", x) = Do("unlink", None)
    BY <2>1, <2>2, <2>4, EmptyStack
  <2> QED BY <1>1, <2>5, FramesDiffer
<1>6. w + Manager(x) <= 1 /\ w \in Nat /\ Manager(x) \in Nat
  <2>1. CASE Watchdog \notin R
    BY <2>1 DEF Manager
  <2>2. CASE Watchdog \in R
    <3>1. Watchdog \in Threads /\ LetsGo(Watchdog, x) /\ Watchdog \notin Conns
      BY <2>2, NoneIsNone, AppsAssumption DEF Rel, LetsGo
    <3>2. Owed(Watchdog, x)
      BY <3>1
    <3>3. Do("members", Home(x)) \notin In(me[Watchdog].todo)
      <4> SUFFICES ASSUME Do("members", Home(x)) \in In(me[Watchdog].todo) PROVE FALSE
        OBVIOUS
      <4>1. Sound(Do("members", Home(x)))
        BY <3>1 DEF IInv, Stacked
      <4>2. CASE Home(x) = None
        BY <4>1, <4>2, DoIs DEF Sound, Open
      <4>3. CASE Home(x) # None
        <5>1. own[Home(x)].cnt <= 0 /\ own[Home(x)].cnt > 0
          BY <4>1, <4>3, DoIs DEF Sound, Open
        <5>2. Home(x) \in Owners
          <6>1. CASE x \in Groups
            BY <4>3, <6>1 DEF Home
          <6>2. CASE x \in Apps
            BY <6>2, NoneIsNone DEF Home, IInv, Homed, Used, Live, Owners
          <6> QED BY <6>1, <6>2 DEF Owners
        <5>3. own[Home(x)].cnt \in Int
          BY <1>1, <5>2 DEF Types, Owner
        <5> QED BY <5>1, <5>3
      <4> QED BY <4>2, <4>3
    <3>4. Do("fired", x) \in In(me[Watchdog].todo)
      BY <3>1, <3>2, <3>3 DEF Owed
    <3>5. x \notin list /\ ~Adding(x)
      BY <3>1, <3>4 DEF OffList
    <3>6. Manager(x) = 0
      BY <3>5, NoneIsNone DEF Manager, Adding
    <3> QED BY <2>2, <3>6
  <2> QED BY <2>1, <2>2
<1>7. Lost(x) \in Nat /\ Lost(x) <= MaxLost
  <2>1. CASE x \in Apps
    <3>1. Replacing(x) \subseteq Conns
      BY DEF Replacing
    <3>2. Cardinality(Replacing(x)) \in Nat
      BY <1>1, <3>1, FS_Subset, FS_CardinalityType
    <3>3. lost[x] \in Nat /\ lost[x] + Cardinality(Replacing(x)) <= MaxLost
      BY <1>1, <2>1 DEF Few, Types
    <3> QED BY <1>1, <2>1, <3>2, <3>3 DEF Lost
  <2>2. CASE x \notin Apps
    BY <1>1, <2>2 DEF Lost
  <2> QED BY <2>1, <2>2
<1>8. IsFiniteSet(H) /\ IsFiniteSet(R) /\ IsFiniteSet(C)
  BY <1>1, <1>3, <1>4, NoneIsNone, FS_Subset
<1>9. Cardinality(R) = Cardinality(C) + w
  <2>1. CASE Watchdog \in R
    <3>1. Cardinality(R \ {Watchdog}) = Cardinality(R) - 1
      BY <1>8, <2>1, FS_RemoveElement
    <3>2. Cardinality(R) \in Nat
      BY <1>8, FS_CardinalityType
    <3> QED BY <2>1, <3>1, <3>2
  <2>2. CASE Watchdog \notin R
    <3>1. C = R /\ w = 0
      BY <2>2
    <3>2. Cardinality(R) \in Nat
      BY <1>8, FS_CardinalityType
    <3> HIDE DEF C, w, R
    <3> QED BY <3>1, <3>2
  <2> QED BY <2>1, <2>2
<1>10. Cardinality(H) + Cardinality(C) <= Cardinality(Conns)
  <2>1. Cardinality(H \cup C) <= Cardinality(Conns)
    BY <1>1, <1>3, <1>4, FS_Subset
  <2>2. Cardinality(H \cup C) = Cardinality(H) + Cardinality(C) - Cardinality(H \cap C)
    BY <1>8, FS_Union
  <2>3. Cardinality(H \cap C) = 0
    BY <1>5, FS_EmptySet
  <2>4. Cardinality(H) \in Nat /\ Cardinality(C) \in Nat
    BY <1>8, FS_CardinalityType
  <2> HIDE DEF H, C
  <2> QED BY <2>1, <2>2, <2>3, <2>4
<1>11. Cardinality(Threads) = Cardinality(Conns) + 1
  BY <1>1, AppsAssumption, FS_AddElement DEF Threads
<1>12. Cardinality(H) \in Nat /\ Cardinality(C) \in Nat /\ Cardinality(Conns) \in Nat
  BY <1>1, <1>8, FS_CardinalityType
<1> HIDE DEF H, R, C, w
<1>13. own[x].cnt <= Cardinality(Threads) + MaxLost
  BY <1>1, <1>2, <1>6, <1>7, <1>9, <1>10, <1>11, <1>12
<1> QED BY <1>13 DEF High

LEMMA HighNext == HighFact'
BY HighIs, PTL

HeldFact ==
  IInv => \A u \in Threads, x \in Owners :
            u \in Holders(x) => Live(x) /\ own[x].cnt > 0 /\ Open(Home(x))

LEMMA HeldIs == HeldFact
BY Held DEF HeldFact

LEMMA HeldNext == HeldFact'
BY HeldIs, PTL

-----------------------------------------------------------------------------
(***************************************************************************)
(* A step of a request, or of the watchdog with nothing to do: what it     *)
(* does to x, and what it leaves to do.                                    *)
(***************************************************************************)
Turned(t) ==
  /\ Runs(t) /\ me[t].todo = <<>>
  /\ \A u \in Threads : u # t => me'[u] = me[u]

TurnsTo(t, x) ==
  /\ IsListed(x) => IsListed(x)'
  /\ Used(x) => own'[x].group = own[x].group
  /\ own'[x].cnt # own[x].cnt => t \in Holders(x)'
  /\ x \in valid => x \in valid'
  /\ x \in list' => x \in list \/ Adding(x)
  /\ Adding(x)' => Adding(x) \/ (~Used(x) /\ x \in valid')

Tasks(t) ==
  \/ me'[t].todo = <<>> /\ session'.closed = session.closed
  \/ me'[t].todo = <<Do("unlink", None)>> /\ ~session.closed /\ session'.closed
  \/ /\ me'[t].todo = Links(me[t]) /\ me'[t].pc = "idle" /\ t \in Conns
     /\ session'.closed = session.closed
  \/ \E x \in list : /\ me'[t].todo = <<Do("unlink", x), Do("fired", x)>>
                     /\ t = Watchdog /\ x \notin list' /\ session'.closed = session.closed

LEMMA PairIn ==
  ASSUME NEW f \in Frames, NEW g \in Frames
  PROVE  In(<<f, g>>) = {f, g}
<1>1. DOMAIN <<f, g>> = 1..2 /\ <<f, g>>[1] = f /\ <<f, g>>[2] = g
  OBVIOUS
<1>2. \A i \in 1..2 : i = 1 \/ i = 2
  OBVIOUS
<1>3. 1 \in 1..2 /\ 2 \in 1..2
  OBVIOUS
<1> QED BY <1>1, <1>2, <1>3 DEF In

\* What is then to be done.
LEMMA TasksAre ==
  ASSUME IInv, NEW t \in Threads, Tasks(t), NEW x \in Owners
  PROVE  /\ Do("rmfree", x) \notin In(me'[t].todo)
         /\ Do("fired", x) \in In(me'[t].todo) => t = Watchdog /\ x \in list /\ x \notin list'
         /\ Do("unlink", x) \in In(me'[t].todo) =>
              \/ Do("fired", x) \in In(me'[t].todo)
              \/ /\ me'[t].todo = Links(me[t]) /\ t \in Conns
                 /\ x \in {me[t].app, me[t].group}
<1>1. Types /\ me[t] \in Local /\ x # None /\ None \in Owners \cup {None}
  BY NoneIsNone DEF IInv, Types
<1>2. CASE me'[t].todo = <<>>
  BY <1>2, EmptyStack
<1>3. CASE me'[t].todo = <<Do("unlink", None)>>
  <2>1. In(me'[t].todo) = {Do("unlink", None)}
    BY <1>3, RankIs, OneStack DEF Ops
  <2> QED BY <1>1, <2>1, FramesDiffer
<1>4. CASE me'[t].todo = Links(me[t]) /\ t \in Conns
  <2>1. In(me'[t].todo) = {Do("unlink", y) : y \in {me[t].app, me[t].group, None}}
    BY <1>1, <1>4, LinksAre
  <2> QED BY <1>1, <1>4, <2>1, FramesDiffer
<1>5. ASSUME NEW y \in list, me'[t].todo = <<Do("unlink", y), Do("fired", y)>>,
             t = Watchdog, y \notin list'
      PROVE  /\ Do("rmfree", x) \notin In(me'[t].todo)
             /\ Do("fired", x) \in In(me'[t].todo) => t = Watchdog /\ x \in list /\ x \notin list'
             /\ Do("unlink", x) \in In(me'[t].todo) => Do("fired", x) \in In(me'[t].todo)
  <2>1. y \in Owners
    BY <1>1, <1>5 DEF Types
  <2>2. In(me'[t].todo) = {Do("unlink", y), Do("fired", y)}
    BY <1>5, <2>1, RankIs, PairIn DEF Ops
  <2>3. /\ \A op : Do(op, x) = Do("unlink", y) => op = "unlink" /\ x = y
        /\ \A op : Do(op, x) = Do("fired", y) => op = "fired" /\ x = y
    BY FramesDiffer
  <2> QED BY <1>5, <2>2, <2>3
<1> QED BY <1>2, <1>3, <1>4, <1>5 DEF Tasks

LEMMA TasksOwe ==
  ASSUME IInv, NEW t \in Threads, Tasks(t), NEW x \in Owners, LetsGo(t, x)'
  PROVE  x \in list \/ t \in Holders(x)
<1>1. Do("unlink", x) \in In(me'[t].todo)
  BY DEF LetsGo
<1> QED BY <1>1, TasksAre DEF Holders

LEMMA TurnRetire ==
  ASSUME IInv, Bounds, NEW t \in Threads, Turned(t), Tasks(t)
  PROVE  RetiredOnce' /\ Answering'
<1>1. RetiredOnce /\ Answering /\ \A u \in Threads : u # t => me'[u] = me[u]
  BY DEF Bounds, Turned
<1>2. Conns \subseteq Threads /\ Watchdog \notin Conns
  BY NoneIsNone, AppsAssumption
<1>3. \A u \in Threads : u # t => (Retiring(u)' <=> Retiring(u))
  BY <1>1 DEF Retiring, LetsGo
<1>4. CASE me'[t].todo = <<Do("unlink", None)>> /\ ~session.closed /\ session'.closed
  <2>1. \A u \in Threads : ~Retiring(u)
    BY <1>1, <1>4 DEF RetiredOnce
  <2>2. RetiredOnce'
    BY <1>3, <1>4, <2>1 DEF RetiredOnce
  <2> QED BY <1>1, <1>2, <1>4, <2>2 DEF Answering
<1>5. CASE session'.closed = session.closed /\ ~Retiring(t)'
            /\ (t \in Conns => me'[t].pc = "idle" \/ me'[t].todo = <<>>)
  <2>1. RetiredOnce'
    BY <1>1, <1>3, <1>5 DEF RetiredOnce
  <2> QED BY <1>1, <1>2, <1>5, <2>1 DEF Answering
<1>6. CASE me'[t].todo = <<>> /\ session'.closed = session.closed
  <2>1. ~Retiring(t)'
    BY <1>6, EmptyStack DEF Retiring, LetsGo
  <2> QED BY <1>5, <1>6, <2>1
<1>7. CASE me'[t].pc = "idle" /\ t \in Conns /\ session'.closed = session.closed
  <2>1. ~Retiring(t)'
    BY <1>2, <1>7 DEF Retiring
  <2> QED BY <1>5, <1>7, <2>1
<1>8. ASSUME NEW x \in list, me'[t].todo = <<Do("unlink", x), Do("fired", x)>>,
             t = Watchdog, session'.closed = session.closed
      PROVE  RetiredOnce' /\ Answering'
  <2>1. x \in Owners /\ x # None
    BY NoneIsNone DEF IInv, Types
  <2>2. In(me'[t].todo) = {Do("unlink", x), Do("fired", x)}
    BY <1>8, <2>1, RankIs, PairIn DEF Ops
  <2>3. ~Retiring(t)'
    BY <2>1, <2>2, FramesDiffer DEF Retiring, LetsGo
  <2> QED BY <1>2, <1>5, <1>8, <2>3
<1> QED BY <1>4, <1>6, <1>7, <1>8 DEF Tasks

LEMMA TurnTimer ==
  ASSUME IInv, Bounds, NEW t \in Threads, Turned(t), Tasks(t), NEW x \in Owners, TurnsTo(t, x)
  PROVE  OffList(x)' /\ HasTimer(x)'
<1>1. OffList(x) /\ HasTimer(x) /\ Recorded /\ \A u \in Threads : u # t => me'[u] = me[u]
  BY DEF Bounds, Turned, IInv
<1>2. HasTimer(x)'
  BY <1>1 DEF HasTimer, TurnsTo
<1>3. ASSUME x \notin list, ~Adding(x), Used(x) PROVE x \notin list' /\ ~Adding(x)'
  BY <1>3 DEF TurnsTo
<1>4. OffList(x)'
  <2> SUFFICES ASSUME NEW u \in Threads
               PROVE  /\ Do("fired", x) \in In(me'[u].todo) => u = Watchdog
                      /\ Do("fired", x) \in In(me'[u].todo) \/ Do("rmfree", x) \in In(me'[u].todo) =>
                           x \notin list' /\ ~Adding(x)'
    BY DEF OffList
  <2>1. CASE u # t
    <3>1. me'[u] = me[u]
      BY <1>1, <2>1
    <3>2. Do("fired", x) \in In(me[u].todo) => u = Watchdog
      BY <1>1 DEF OffList
    <3>3. Do("fired", x) \in In(me[u].todo) \/ Do("rmfree", x) \in In(me[u].todo) =>
            x \notin list /\ ~Adding(x) /\ Used(x)
      BY <1>1, OwedUsed DEF OffList
    <3> QED BY <1>3, <3>1, <3>2, <3>3
  <2>2. CASE u = t
    <3>1. /\ Do("rmfree", x) \notin In(me'[t].todo)
          /\ Do("fired", x) \in In(me'[t].todo) => t = Watchdog /\ x \in list /\ x \notin list'
      BY TasksAre
    <3>2. x \in list => Used(x) /\ ~Adding(x)
      BY <1>1, AddingIs DEF Recorded
    <3>3. x \in list => ~Adding(x)'
      BY <3>2 DEF TurnsTo
    <3> QED BY <2>2, <3>1, <3>3
  <2> QED BY <2>1, <2>2
<1> QED BY <1>2, <1>4

LEMMA TurnLow ==
  ASSUME IInv, IInv', Bounds, NEW t \in Threads, Turned(t), Tasks(t), NEW x \in Owners, TurnsTo(t, x)
  PROVE  Low(x)'
<1>1. Low(x) /\ \A u \in Threads : u # t => me'[u] = me[u]
  BY DEF Bounds, Turned
<1>2. own[x].cnt \in Int /\ own'[x].cnt \in Int
  BY DEF IInv, Types, Owner
<1>3. SUFFICES ASSUME ~(own'[x].cnt >= 0)
               PROVE  own'[x].cnt = -1 /\ x \notin list' /\ \A u \in Threads : ~LetsGo(u, x)'
  BY DEF Low
<1>4. own'[x].cnt = own[x].cnt
  <2> SUFFICES ASSUME t \in Holders(x)' PROVE FALSE
    BY DEF TurnsTo
  <2>1. own'[x].cnt > 0
    BY HeldNext DEF HeldFact
  <2> QED BY <1>2, <1>3, <2>1
<1>5. ~(own[x].cnt >= 0)
  BY <1>3, <1>4
<1>6. own[x].cnt = -1 /\ x \notin list /\ \A u \in Threads : ~LetsGo(u, x)
  BY <1>1, <1>5 DEF Low
<1>7. x \notin list'
  BY <1>2, <1>5, <1>6, AddingIs DEF TurnsTo
<1>8. ~LetsGo(t, x)'
  <2>1. t \in Holders(x) => own[x].cnt > 0
    BY Held
  <2> QED BY <1>2, <1>5, <1>6, <2>1, TasksOwe
<1>9. \A u \in Threads : ~LetsGo(u, x)'
  BY <1>1, <1>6, <1>8 DEF LetsGo
<1> QED BY <1>4, <1>6, <1>7, <1>9

LEMMA TurnOwed ==
  ASSUME IInv, Bounds, NEW t \in Threads, Turned(t), Tasks(t), \A y \in Owners : TurnsTo(t, y),
         NEW u \in Threads, NEW x \in Owners, LetsGo(u, x)'
  PROVE  Owed(u, x)'
<1>1. cpu \in {t, None} /\ \A v \in Threads : v # t => me'[v] = me[v]
  BY DEF Turned, Runs
<1>2. Used(x) => Home(x)' = Home(x)
  BY DEF TurnsTo, Home
<1>3. IsListed(x) => IsListed(x)'
  BY DEF TurnsTo
<1>4. CASE u # t
  <2>1. me'[u] = me[u] /\ LetsGo(u, x) /\ u # None
    BY <1>1, <1>4, NoneIsNone DEF LetsGo
  <2>2. Owed(u, x) /\ Used(x)
    BY <2>1, OwedUsed DEF Bounds, LetsGo
  <2>3. CASE Do("fired", x) \in In(me[u].todo)
    BY <2>1, <2>3 DEF Owed
  <2>4. CASE cpu = u
    BY <1>1, <1>4, <2>1, <2>4
  <2>5. CASE IsListed(x) /\ u \in Conns /\ LetsGo(u, Home(x))
    <3>1. LetsGo(u, Home(x))'
      BY <1>2, <2>1, <2>2, <2>5 DEF LetsGo
    <3> QED BY <1>3, <2>5, <3>1 DEF Owed
  <2> QED BY <2>2, <2>3, <2>4, <2>5 DEF Owed
<1>5. CASE u = t
  <2>1. \/ Do("fired", x) \in In(me'[t].todo)
        \/ me'[t].todo = Links(me[t]) /\ t \in Conns /\ x \in {me[t].app, me[t].group}
    BY <1>5, TasksAre DEF LetsGo
  <2>2. CASE Do("fired", x) \in In(me'[t].todo)
    BY <1>5, <2>2 DEF Owed
  <2>3. CASE me'[t].todo = Links(me[t]) /\ t \in Conns /\ x \in {me[t].app, me[t].group}
    <3>1. me[t] \in Local /\ Placed(t) /\ x # None /\ Groups \cap Apps = {}
      BY NoneIsNone DEF IInv, Types
    <3>2. In(me'[t].todo) = {Do("unlink", y) : y \in {me[t].app, me[t].group, None}}
      BY <2>3, <3>1, LinksAre
    <3>3. Used(x)
      BY <2>3, Held DEF Holders
    <3>4. IsListed(x) /\ Home(x) \in {me[t].group, None}
      <4>1. CASE x \in Groups
        <5>1. x = me[t].group
          BY <2>3, <3>1, <4>1 DEF Local
        <5> QED BY <3>1, <4>1, <5>1 DEF Placed, IsListed, Home
      <4>2. CASE x \in Apps
        <5>1. x = me[t].app /\ x \notin Groups
          BY <2>3, <3>1, <4>2 DEF Local
        <5>2. own[x].group = me[t].group /\ me[t].group # None /\ x \in In(apps[me[t].group])
          BY <3>1, <5>1 DEF Placed
        <5>3. me[t].group \in Groups
          BY <3>1, <5>2 DEF Local
        <5> QED BY <5>1, <5>2, <5>3 DEF IsListed, Home
      <4> QED BY <4>1, <4>2 DEF Owners
    <3>5. Do("unlink", Home(x)) \in In(me'[t].todo)
      BY <3>2, <3>4
    <3>6. LetsGo(t, Home(x))'
      BY <1>2, <3>3, <3>5 DEF LetsGo
    <3> QED BY <1>3, <1>5, <2>3, <3>4, <3>6 DEF Owed
  <2> QED BY <2>1, <2>2, <2>3
<1> QED BY <1>4, <1>5

LEMMA TurnKeeps ==
  ASSUME IInv, IInv', Bounds, NEW t \in Threads, Turned(t), Tasks(t), \A y \in Owners : TurnsTo(t, y),
         Few'
  PROVE  Bounds'
<1>1. RetiredOnce' /\ Answering'
  BY TurnRetire
<1>2. \A x \in Owners : OffList(x)' /\ HasTimer(x)'
  BY TurnTimer
<1>3. \A x \in Owners : Low(x)'
  BY TurnLow
<1>4. \A u \in Threads, x \in Owners : LetsGo(u, x)' => Owed(u, x)'
  BY TurnOwed
<1>5. ASSUME NEW x \in Owners PROVE High(x)'
  <2>1. CASE own'[x].cnt = own[x].cnt
    BY <2>1 DEF Bounds, High
  <2>2. CASE t \in Holders(x)'
    <3>1. Live(x)' /\ own'[x].cnt > 0 /\ Open(Home(x))'
      BY <2>2, HeldNext DEF HeldFact
    <3> QED BY <1>1, <1>2, <1>4, <3>1, HighNext DEF HighFact
  <2> QED BY <2>1, <2>2 DEF TurnsTo
<1> QED BY <1>1, <1>2, <1>3, <1>4, <1>5 DEF Bounds

\* What a step does to the number of times that the reference of a was overwritten,
\* and to those that are about to.
Spends(t, a) ==
  \/ lost'[a] = lost[a] /\ (t \in Replacing(a)' => t \in Replacing(a))
  \/ lost'[a] = lost[a] + 1 /\ t \in Replacing(a) /\ t \notin Replacing(a)'
  \/ lost'[a] = lost[a] /\ lost[a] + Cardinality(Replacing(a)) < MaxLost

\* A step of a request, and of the watchdog with nothing to do.
Turning(t) ==
  /\ Turned(t) /\ Tasks(t)
  /\ \A y \in Owners : TurnsTo(t, y)
  /\ \A a \in Apps : Spends(t, a)

LEMMA TurnSpends ==
  ASSUME IInv, IInv', Bounds, NEW t \in Threads, Turned(t), NEW a \in Apps, Spends(t, a)
  PROVE  lost'[a] + Cardinality(Replacing(a)') <= MaxLost
<1> DEFINE R == Replacing(a)
           S == Replacing(a)'
<1>1. IsFiniteSet(R) /\ R \ {t} = S \ {t}
  <2>1. R \subseteq Threads
    BY DEF Replacing, Threads
  <2>2. IsFiniteSet(R)
    BY <2>1, NoneIsNone, FS_Subset
  <2>3. \A u \in Conns : u # t => me'[u] = me[u]
    BY NoneIsNone DEF Turned
  <2>4. R \ {t} = S \ {t}
    BY <2>3 DEF Replacing
  <2> QED BY <2>2, <2>4
<1>2. /\ Cardinality(R) \in Nat /\ Cardinality(S) \in Nat
      /\ Cardinality(S) + (IF t \in R THEN 1 ELSE 0) = Cardinality(R) + (IF t \in S THEN 1 ELSE 0)
  <2> HIDE DEF R, S
  <2> QED BY <1>1, OneMoves
<1>3. lost[a] + Cardinality(R) <= MaxLost /\ MaxLost \in Nat
  BY AppsAssumption DEF Bounds, Few
<1>4. lost[a] \in Nat /\ lost'[a] \in Nat
  BY DEF IInv, Types
<1>5. \/ lost'[a] = lost[a] /\ (t \in S => t \in R)
      \/ lost'[a] = lost[a] + 1 /\ t \in R /\ t \notin S
      \/ lost'[a] = lost[a] /\ lost[a] + Cardinality(R) < MaxLost
  BY DEF Spends
<1> HIDE DEF R, S
<1>6. lost'[a] + Cardinality(S) <= MaxLost
  BY <1>2, <1>3, <1>4, <1>5
<1> QED BY <1>6 DEF S

LEMMA TurnBounded ==
  ASSUME IInv, IInv', Bounds, NEW t \in Threads, Turning(t)
  PROVE  Bounds'
<1>1. Turned(t) /\ Tasks(t) /\ (\A y \in Owners : TurnsTo(t, y)) /\ \A a \in Apps : Spends(t, a)
  BY DEF Turning
<1>2. \A a \in Apps : lost'[a] + Cardinality(Replacing(a)') <= MaxLost
  BY <1>1, TurnSpends
<1>3. Few'
  BY <1>2 DEF Few
<1> QED BY <1>1, <1>3, TurnKeeps

LEMMA GoesTurned ==
  ASSUME IInv, NEW t \in Threads, Runs(t), me[t].todo = <<>>, NEW r, me' = [me EXCEPT ![t] = r]
  PROVE  Turned(t) /\ me'[t] = r
BY DEF IInv, Types, Turned

\* What t is adding is its own.
LEMMA AddingFrom ==
  ASSUME NEW t \in Threads, Turned(t), NEW x, Adding(x)'
  PROVE  Adding(x) \/ (me'[t].pc = "adding" /\ me'[t].new = x)
BY DEF Adding, Turned

\* A step that allocates nothing, links nothing and adds nothing.
Quiet(t) ==
  /\ UNCHANGED <<own, groups, apps, valid>> /\ list' \subseteq list
  /\ me'[t].pc # "adding"

LEMMA QuietTurns ==
  ASSUME IInv, NEW t \in Threads, Turned(t), Quiet(t), NEW x \in Owners
  PROVE  TurnsTo(t, x)
<1>1. own'[x] = own[x] /\ own[x].cnt \in Int
  BY DEF Quiet, IInv, Types, Owner
<1>2. IsListed(x) => IsListed(x)'
  BY DEF Quiet, IsListed
<1>3. Adding(x)' => Adding(x)
  BY AddingFrom DEF Quiet
<1>4. valid' = valid /\ list' \subseteq list
  BY DEF Quiet
<1> QED BY <1>1, <1>2, <1>3, <1>4 DEF TurnsTo

\* It overwrites nothing, and is not about to.
LEMMA Saves ==
  ASSUME NEW t \in Threads, lost' = lost, me'[t].pc \notin {"newapp", "adding", "added"}, NEW a \in Apps
  PROVE  Spends(t, a)
BY DEF Spends, Replacing

\* As it goes on from newapp to added, it is about to overwrite the same.
LEMMA SavesOn ==
  ASSUME NEW t \in Threads, lost' = lost, me'[t].app = me[t].app, NEW a \in Apps,
         me[t].app = None \/ me[t].pc \in {"newapp", "adding", "added"}
  PROVE  Spends(t, a)
BY NoneIsNone DEF Spends, Replacing, Owners

LEMMA ToIs ==
  ASSUME IInv, NEW t \in Threads, NEW l
  PROVE  /\ To(t, l).pc = l /\ To(t, l).todo = me[t].todo /\ To(t, l).app = me[t].app
         /\ To(t, l).group = me[t].group /\ To(t, l).new = me[t].new
<1>1. me[t] \in Local
  BY DEF IInv, Types
<1> QED BY <1>1 DEF To, Local

\* A quiet step to l.
LEMMA QuietGoes ==
  ASSUME IInv, NEW t \in Threads, Runs(t), me[t].todo = <<>>, NEW l, l \notin {"newapp", "adding", "added"},
         me' = [me EXCEPT ![t] = To(t, l)], session'.closed = session.closed,
         UNCHANGED <<own, groups, apps, lost, valid, list>>
  PROVE  Turning(t)
<1>1. Turned(t) /\ me'[t] = To(t, l)
  BY GoesTurned
<1>2. me'[t].pc = l /\ me'[t].todo = <<>>
  BY <1>1, ToIs
<1>3. Tasks(t)
  BY <1>2 DEF Tasks
<1>4. \A y \in Owners : TurnsTo(t, y)
  BY <1>1, <1>2, QuietTurns DEF Quiet
<1>5. \A a \in Apps : Spends(t, a)
  BY <1>2, Saves
<1> QED BY <1>1, <1>3, <1>4, <1>5 DEF Turning

LEMMA MovesTurn ==
  ASSUME IInv, NEW t \in Conns, FindSession(t) \/ OpenOsml(t)
  PROVE  Turning(t)
<1>1. t \in Threads
  BY NoneIsNone
<1>2. CASE FindSession(t)
  <2>1. session' = [session EXCEPT !.cnt = @ + 1] /\ session'.closed = session.closed
    BY <1>2 DEF FindSession, IInv, Types
  <2> QED BY <1>1, <1>2, <2>1, QuietGoes DEF FindSession, Turn, Goto, timers
<1>3. CASE OpenOsml(t)
  BY <1>1, <1>3, QuietGoes DEF OpenOsml, Turn, Goto, timers
<1> QED BY <1>2, <1>3

LEMMA LocksTurn ==
  ASSUME IInv, WatchdogLock
  PROVE  Turning(Watchdog)
BY NoneIsNone, QuietGoes DEF WatchdogLock, Turn, Goto, held

LEMMA UseGroupTurns ==
  ASSUME IInv, NEW t \in Conns, UseGroup(t)
  PROVE  Turning(t)
<1>1. /\ t \in Threads /\ Runs(t) /\ me[t].todo = <<>>
      /\ UNCHANGED <<session, own, groups, apps, lost, valid, list>>
  BY NoneIsNone DEF UseGroup, Turn, held, timers
<1>2. CASE Stay(t, To(t, "held"))
  BY <1>1, <1>2, QuietGoes DEF Stay
<1>3. CASE Stay(t, To(t, "newapp")) /\
           (me[t].app # None => lost[me[t].app] + Cardinality(Replacing(me[t].app)) < MaxLost)
  <2>1. Turned(t) /\ me'[t] = To(t, "newapp")
    BY <1>1, <1>3, GoesTurned DEF Stay
  <2>2. me'[t].pc = "newapp" /\ me'[t].todo = <<>> /\ me'[t].app = me[t].app
    BY <1>1, <2>1, ToIs
  <2>3. Tasks(t)
    BY <1>1, <2>2 DEF Tasks
  <2>4. \A y \in Owners : TurnsTo(t, y)
    BY <1>1, <2>1, <2>2, QuietTurns DEF Quiet
  <2>5. ASSUME NEW a \in Apps PROVE Spends(t, a)
    <3>1. CASE me[t].app = a
      BY <1>1, <1>3, <3>1, NoneIsNone DEF Spends, Owners
    <3>2. CASE me[t].app # a
      BY <1>1, <2>2, <3>2 DEF Spends, Replacing
    <3> QED BY <3>1, <3>2
  <2> QED BY <2>1, <2>3, <2>4, <2>5 DEF Turning
<1> QED BY <1>2, <1>3 DEF UseGroup

\* The session is retired, by a request or by the watchdog.
LEMMA RetireTurns ==
  ASSUME IInv, NEW t \in Threads, Runs(t), me[t].todo = <<>>, NEW l \in {"done", "scan"},
         Retire(t, To(t, l)), UNCHANGED <<valid, list>>
  PROVE  Turning(t)
<1> DEFINE q == IF session.closed THEN <<>> ELSE <<Do("unlink", None)>>
           r == [To(t, l) EXCEPT !.todo = q]
<1>1. /\ me' = [me EXCEPT ![t] = r] /\ session' = [session EXCEPT !.closed = TRUE]
      /\ UNCHANGED <<own, groups, apps, lost>>
  BY DEF Retire, Goto
<1>2. Turned(t) /\ me'[t] = r
  <2> HIDE DEF r
  <2> QED BY <1>1, GoesTurned
<1>3. me'[t].pc = l /\ me'[t].todo = q
  <2>1. me[t] \in Local
    BY DEF IInv, Types
  <2>2. r.pc = l /\ r.todo = q
    <3> HIDE DEF q
    <3> QED BY <2>1 DEF To, Local
  <2> QED BY <1>2, <2>2
<1>4. session'.closed /\ session.closed \in BOOLEAN
  BY <1>1 DEF IInv, Types
<1>5. Tasks(t)
  <2>1. CASE session.closed
    BY <1>3, <1>4, <2>1 DEF Tasks
  <2>2. CASE ~session.closed
    BY <1>3, <1>4, <2>2 DEF Tasks
  <2> QED BY <2>1, <2>2
<1> HIDE DEF r, q
<1>6. \A y \in Owners : TurnsTo(t, y)
  BY <1>1, <1>2, <1>3, QuietTurns DEF Quiet
<1>7. \A a \in Apps : Spends(t, a)
  BY <1>1, <1>3, Saves
<1> QED BY <1>2, <1>5, <1>6, <1>7 DEF Turning

LEMMA AnswerTurns ==
  ASSUME IInv, NEW t \in Conns, Answer(t)
  PROVE  Turning(t)
<1>1. t \in Threads /\ Runs(t) /\ me[t].todo = <<>> /\ UNCHANGED <<valid, list>>
  BY NoneIsNone DEF Answer, Turn, timers
<1>2. CASE Goto(t, To(t, "done")) /\ UNCHANGED held
  BY <1>1, <1>2, QuietGoes DEF Goto, held
<1>3. CASE Retire(t, To(t, "done"))
  BY <1>1, <1>3, RetireTurns
<1> QED BY <1>2, <1>3 DEF Answer

LEMMA FreeConnTurns ==
  ASSUME IInv, NEW t \in Conns, FreeConn(t)
  PROVE  Turning(t)
<1> DEFINE q == Links(me[t])
           r == [Idle EXCEPT !.todo = q]
<1>1. /\ t \in Threads /\ Runs(t) /\ me[t].todo = <<>> /\ me' = [me EXCEPT ![t] = r]
      /\ UNCHANGED <<session, own, groups, apps, lost, valid, list>>
  BY NoneIsNone DEF FreeConn, Turn, Stay, held, timers
<1>2. Turned(t) /\ me'[t] = r
  <2> HIDE DEF r
  <2> QED BY <1>1, GoesTurned
<1>3. me'[t].pc = "idle" /\ me'[t].todo = Links(me[t])
  <2>1. r.pc = "idle" /\ r.todo = q
    <3> HIDE DEF q
    <3> QED BY DEF Idle
  <2> QED BY <1>2, <2>1
<1> HIDE DEF r, q
<1>4. Tasks(t)
  BY <1>1, <1>3 DEF Tasks
<1>5. \A y \in Owners : TurnsTo(t, y)
  BY <1>1, <1>2, <1>3, QuietTurns DEF Quiet
<1>6. \A a \in Apps : Spends(t, a)
  BY <1>1, <1>3, Saves
<1> QED BY <1>2, <1>4, <1>5, <1>6 DEF Turning

LEMMA PickTurns ==
  ASSUME IInv, WatchdogPick
  PROVE  Turning(Watchdog)
<1> DEFINE t == Watchdog
<1>1. t \in Threads /\ Runs(t) /\ me[t].todo = <<>> /\ UNCHANGED valid
  BY NoneIsNone DEF WatchdogPick, Turn
<1>2. ASSUME NEW x \in list, list' = list \ {x}, UNCHANGED held,
             Goto(t, [To(t, "scan") EXCEPT !.todo = <<Do("unlink", x), Do("fired", x)>>])
      PROVE  Turning(t)
  <2> DEFINE q == <<Do("unlink", x), Do("fired", x)>>
             r == [To(t, "scan") EXCEPT !.todo = q]
  <2>1. me' = [me EXCEPT ![t] = r] /\ UNCHANGED <<session, own, groups, apps, lost>>
    BY <1>2 DEF Goto, held
  <2>2. Turned(t) /\ me'[t] = r
    <3> HIDE DEF r
    <3> QED BY <1>1, <2>1, GoesTurned
  <2>3. me'[t].pc = "scan" /\ me'[t].todo = q
    <3>1. me[t] \in Local
      BY <1>1 DEF IInv, Types
    <3>2. r.pc = "scan" /\ r.todo = q
      <4> HIDE DEF q
      <4> QED BY <3>1 DEF To, Local
    <3> QED BY <2>2, <3>2
  <2>4. Tasks(t)
    <3>1. x \notin list' /\ session'.closed = session.closed
      BY <1>2, <2>1
    <3> QED BY <2>3, <3>1 DEF Tasks
  <2> HIDE DEF r, q
  <2>5. \A y \in Owners : TurnsTo(t, y)
    <3>1. list' \subseteq list
      BY <1>2
    <3> QED BY <1>1, <2>1, <2>2, <2>3, <3>1, QuietTurns DEF Quiet
  <2>6. \A a \in Apps : Spends(t, a)
    BY <1>1, <2>1, <2>3, Saves
  <2> QED BY <2>2, <2>4, <2>5, <2>6 DEF Turning
<1>3. CASE Retire(t, To(t, "scan")) /\ UNCHANGED list
  BY <1>1, <1>3, RetireTurns
<1> QED BY <1>2, <1>3 DEF WatchdogPick

LEMMA VerifyTurns ==
  ASSUME IInv, NEW t \in Conns, VerifyAKey(t)
  PROVE  Turning(t)
<1>1. /\ Types /\ t \in Threads /\ Runs(t) /\ me[t].todo = <<>> /\ me[t] \in Local
      /\ UNCHANGED <<session, groups, apps, lost, valid, list>>
  BY NoneIsNone DEF VerifyAKey, Turn, timers, IInv, Types
<1>2. CASE Goto(t, To(t, "work")) /\ UNCHANGED own
  BY <1>1, <1>2, QuietGoes DEF Goto
<1>3. ASSUME NEW g \in In(groups), NEW a \in Apps \cup {None}, own' = Linked({g, a} \ {None}),
             Goto(t, [To(t, "work") EXCEPT !.group = g, !.app = a])
      PROVE  Turning(t)
  <2> DEFINE xs == {g, a} \ {None}
             r == [To(t, "work") EXCEPT !.group = g, !.app = a]
  <2>1. r.pc = "work" /\ r.todo = <<>> /\ r.group = g /\ r.app = a
    BY <1>1 DEF To, Local
  <2>2. me' = [me EXCEPT ![t] = r]
    BY <1>3 DEF Goto
  <2> HIDE DEF r
  <2>3. Turned(t) /\ me'[t] = r
    BY <1>1, <2>2, GoesTurned
  <2>4. Tasks(t)
    BY <1>1, <2>1, <2>3 DEF Tasks
  <2>5. \A y \in Owners : /\ own'[y].group = own[y].group
                          /\ y \notin xs => own'[y].cnt = own[y].cnt
    <3> HIDE DEF xs
    <3>1. own' = [y \in Owners |-> IF y \in xs THEN [own[y] EXCEPT !.cnt = @ + 1] ELSE own[y]]
      BY <1>3 DEF Linked, xs
    <3>2. \A y \in Owners : own[y] \in Owner
      BY <1>1 DEF Types
    <3> QED BY <3>1, <3>2 DEF Owner
  <2>6. ASSUME NEW y \in Owners PROVE TurnsTo(t, y)
    <3>1. IsListed(y) => IsListed(y)'
      BY <1>1, <2>5 DEF IsListed
    <3>2. y \in xs => t \in Holders(y)'
      BY <1>1, <2>1, <2>3 DEF Holders
    <3>3. Adding(y)' => Adding(y)
      BY <1>1, <2>1, <2>3, AddingFrom
    <3> QED BY <1>1, <2>5, <3>1, <3>2, <3>3 DEF TurnsTo
  <2>7. \A b \in Apps : Spends(t, b)
    BY <1>1, <2>1, <2>3, Saves
  <2> QED BY <2>3, <2>4, <2>6, <2>7 DEF Turning
<1> QED BY <1>2, <1>3 DEF VerifyAKey

LEMMA AllocTurns ==
  ASSUME IInv, NEW t \in Conns, NEW x \in Owners, NEW g, Alloc(t, x, g), Runs(t), me[t].todo = <<>>,
         UNCHANGED <<session, groups, apps, lost, list>>,
         me[t].app = None \/ me[t].pc = "newapp"
  PROVE  Turning(t)
<1> DEFINE r == [To(t, "adding") EXCEPT !.new = x]
<1>1. /\ Types /\ t \in Threads /\ me[t] \in Local /\ ~Used(x) /\ valid' = valid \cup {x}
      /\ own' = [own EXCEPT ![x] = [state |-> "live", cnt |-> 2, group |-> g]]
      /\ me' = [me EXCEPT ![t] = r]
  BY NoneIsNone DEF Alloc, Goto, Used, IInv, Types
<1>2. r.pc = "adding" /\ r.todo = <<>> /\ r.app = me[t].app /\ r.new = x
  BY <1>1 DEF To, Local
<1> HIDE DEF r
<1>3. Turned(t) /\ me'[t] = r
  BY <1>1, GoesTurned
<1>4. Tasks(t)
  BY <1>1, <1>2, <1>3 DEF Tasks
<1>5. \A y \in Owners : y # x => own'[y] = own[y]
  BY <1>1 DEF Types
<1>6. ASSUME NEW y \in Owners PROVE TurnsTo(t, y)
  <2>1. IsListed(y) => IsListed(y)'
    <3> SUFFICES ASSUME IsListed(y) PROVE IsListed(y)'
      OBVIOUS
    <3>1. y # x
      BY <1>1, ListedIs
    <3> QED BY <1>5, <3>1 DEF IsListed
  <2>2. Used(y) => own'[y].group = own[y].group
    BY <1>1, <1>5
  <2>3. own'[y].cnt # own[y].cnt => t \in Holders(y)'
    BY <1>1, <1>2, <1>3, <1>5 DEF Holders
  <2>4. Adding(y)' => Adding(y) \/ (~Used(y) /\ y \in valid')
    BY <1>1, <1>2, <1>3, AddingFrom
  <2> QED BY <1>1, <2>1, <2>2, <2>3, <2>4 DEF TurnsTo
<1>7. \A a \in Apps : Spends(t, a)
  BY <1>1, <1>2, <1>3, SavesOn
<1> QED BY <1>3, <1>4, <1>6, <1>7 DEF Turning

LEMMA AllocsTurn ==
  ASSUME IInv, NEW t \in Conns, AllocAppGroup(t) \/ AllocApp(t)
  PROVE  Turning(t)
<1>1. CASE AllocAppGroup(t)
  <2>1. PICK g \in Groups : Alloc(t, g, None)
    BY <1>1 DEF AllocAppGroup
  <2>2. /\ me[t].todo = <<>> /\ Runs(t) /\ me[t].group = None /\ g \in Owners
        /\ UNCHANGED <<session, groups, apps, lost, list>>
    BY <1>1 DEF AllocAppGroup, Turn, Owners
  <2>3. me[t].app = None
    BY <2>2, NoneIsNone DEF IInv, Placed
  <2> QED BY <2>1, <2>2, <2>3, AllocTurns
<1>2. CASE AllocApp(t)
  <2>1. PICK a \in Apps : Alloc(t, a, me[t].group)
    BY <1>2 DEF AllocApp
  <2>2. /\ me[t].todo = <<>> /\ Runs(t) /\ me[t].pc = "newapp" /\ a \in Owners
        /\ UNCHANGED <<session, groups, apps, lost, list>>
    BY <1>2 DEF AllocApp, Turn, Owners
  <2> QED BY <2>1, <2>2, AllocTurns
<1> QED BY <1>1, <1>2

LEMMA AddLockedTurns ==
  ASSUME IInv, NEW t \in Conns, AddLocked(t)
  PROVE  Turning(t)
<1>1. /\ t \in Threads /\ Runs(t) /\ me[t].todo = <<>> /\ me[t].pc = "adding"
      /\ list' = list \cup {me[t].new} /\ UNCHANGED <<session, own, groups, apps, lost, valid>>
      /\ me' = [me EXCEPT ![t] = To(t, "added")]
  BY NoneIsNone DEF AddLocked, Turn, held, Goto
<1>2. Turned(t) /\ me'[t] = To(t, "added")
  BY <1>1, GoesTurned
<1>3. me'[t].pc = "added" /\ me'[t].todo = <<>> /\ me'[t].app = me[t].app
  BY <1>1, <1>2, ToIs
<1>4. Tasks(t)
  BY <1>1, <1>3 DEF Tasks
<1>5. ASSUME NEW y \in Owners PROVE TurnsTo(t, y)
  <2>1. IsListed(y) => IsListed(y)'
    BY <1>1 DEF IsListed
  <2>2. y \in list' => y \in list \/ Adding(y)
    BY <1>1 DEF Adding
  <2>3. Adding(y)' => Adding(y)
    BY <1>1, <1>2, <1>3, AddingFrom
  <2> QED BY <1>1, <2>1, <2>2, <2>3 DEF TurnsTo
<1>6. \A a \in Apps : Spends(t, a)
  BY <1>1, <1>3, SavesOn
<1> QED BY <1>2, <1>4, <1>5, <1>6 DEF Turning

LEMMA GroupAddedTurns ==
  ASSUME IInv, NEW t \in Conns, GroupAdded(t)
  PROVE  Turning(t)
<1> DEFINE r == [To(t, "newapp") EXCEPT !.group = me[t].new, !.new = None]
<1>1. /\ t \in Threads /\ Runs(t) /\ me[t].todo = <<>> /\ me[t].pc = "added" /\ me[t].new \in Groups
      /\ groups' = Append(groups, me[t].new) /\ UNCHANGED <<session, own, apps, lost, valid, list>>
      /\ me' = [me EXCEPT ![t] = r]
  BY NoneIsNone DEF GroupAdded, Turn, timers, Stay
<1>2. Types /\ Placed(t) /\ me[t] \in Local
  BY <1>1 DEF IInv, Types
<1>3. r.pc = "newapp" /\ r.todo = <<>> /\ r.app = me[t].app /\ r.new = None
  BY <1>1, <1>2 DEF To, Local
<1> HIDE DEF r
<1>4. Turned(t) /\ me'[t] = r
  BY <1>1, GoesTurned
<1>5. Tasks(t)
  BY <1>1, <1>3, <1>4 DEF Tasks
<1>6. In(groups') = In(groups) \cup {me[t].new}
  <2>1. me[t].new \notin In(groups)
    BY <1>1, <1>2, NoneIsNone DEF Placed, Outside, Owners
  <2> QED BY <1>1, <1>2, <2>1, AskAppends DEF Types
<1>7. ASSUME NEW y \in Owners PROVE TurnsTo(t, y)
  <2>1. IsListed(y) => IsListed(y)'
    BY <1>1, <1>6 DEF IsListed
  <2>2. Adding(y)' => Adding(y)
    BY <1>1, <1>3, <1>4, AddingFrom
  <2> QED BY <1>1, <2>1, <2>2 DEF TurnsTo
<1>8. \A a \in Apps : Spends(t, a)
  BY <1>1, <1>3, <1>4, SavesOn
<1> QED BY <1>4, <1>5, <1>7, <1>8 DEF Turning

\* The connection has what is new, or nothing, in place of what it had.
LEMMA ReplacedTurns ==
  ASSUME IInv, NEW t \in Conns, Runs(t), me[t].todo = <<>>, me[t].pc \in {"newapp", "added"},
         NEW a, Replaced(t, a), UNCHANGED <<session, own, groups, valid, list>>,
         \A h \in Groups : In(apps[h]) \subseteq In(apps'[h])
  PROVE  Turning(t)
<1> DEFINE r == [To(t, "held") EXCEPT !.app = a, !.new = None]
<1>1. t \in Threads /\ Types /\ me[t] \in Local /\ me' = [me EXCEPT ![t] = r]
  BY NoneIsNone DEF IInv, Types, Replaced, Goto
<1>2. r.pc = "held" /\ r.todo = <<>>
  BY <1>1 DEF To, Local
<1> HIDE DEF r
<1>3. Turned(t) /\ me'[t] = r
  BY <1>1, GoesTurned
<1>4. Tasks(t)
  BY <1>2, <1>3 DEF Tasks
<1>5. ASSUME NEW y \in Owners PROVE TurnsTo(t, y)
  <2>1. IsListed(y) => IsListed(y)'
    BY DEF IsListed
  <2>2. Adding(y)' => Adding(y)
    BY <1>1, <1>2, <1>3, AddingFrom
  <2> QED BY <2>1, <2>2 DEF TurnsTo
<1>6. ASSUME NEW b \in Apps PROVE Spends(t, b)
  <2>1. t \notin Replacing(b)'
    BY <1>2, <1>3 DEF Replacing
  <2>2. CASE me[t].app = b
    <3>1. lost' = [lost EXCEPT ![b] = @ + 1]
      BY <2>2, NoneIsNone DEF Replaced, Owners
    <3>2. lost'[b] = lost[b] + 1
      BY <1>1, <3>1 DEF Types
    <3>3. t \in Replacing(b)
      BY <2>2 DEF Replacing
    <3> QED BY <2>1, <3>2, <3>3 DEF Spends
  <2>3. CASE me[t].app # b
    <3>1. lost'[b] = lost[b]
      BY <1>1, <2>3 DEF Replaced, Types
    <3> QED BY <2>1, <3>1 DEF Spends
  <2> QED BY <2>2, <2>3
<1> QED BY <1>3, <1>4, <1>5, <1>6 DEF Turning

LEMMA ReplacesTurn ==
  ASSUME IInv, NEW t \in Conns, AppAdded(t) \/ AllocAppFails(t)
  PROVE  Turning(t)
<1>1. t \in Threads
  BY NoneIsNone
<1>2. CASE AllocAppFails(t)
  BY <1>2, ReplacedTurns DEF AllocAppFails, Turn, timers
<1>3. CASE AppAdded(t)
  <2>1. /\ Types /\ Homed /\ Placed(t) /\ me[t].todo = <<>> /\ me[t].pc = "added" /\ Runs(t)
        /\ UNCHANGED <<session, own, groups, valid, list>>
    BY <1>1, <1>3 DEF IInv, AppAdded, Turn, timers
  <2>2. PICK a \in Apps : a = me[t].new
    BY <1>3 DEF AppAdded
  <2>3. /\ Replaced(t, a) /\ a # None
        /\ apps' = [apps EXCEPT ![own[a].group] = Append(@, a)]
    BY <1>3, <2>2, NoneIsNone DEF AppAdded, Owners
  <2>4. Live(a) /\ Outside(a)
    BY <2>1, <2>2, <2>3 DEF Placed
  <2>5. PICK g \in Groups : g = own[a].group
    BY <2>1, <2>4 DEF Homed, Live, Used
  <2>6. apps \in [Groups -> Seq(Apps)] /\ apps[g] \in Seq(Apps) /\ Once(apps[g])
    BY <2>1 DEF Types
  <2>7. In(Append(apps[g], a)) = In(apps[g]) \cup {a}
    BY <2>4, <2>6, AskAppends DEF Outside
  <2> DEFINE q == Append(apps[g], a)
  <2>8. apps' = [apps EXCEPT ![g] = q] /\ In(q) = In(apps[g]) \cup {a}
    BY <2>3, <2>5, <2>7
  <2> HIDE DEF q
  <2>9. \A h \in Groups : In(apps[h]) \subseteq In(apps'[h])
    BY <2>6, <2>8
  <2> QED BY <2>1, <2>3, <2>9, ReplacedTurns
<1> QED BY <1>2, <1>3

LEMMA RequestBounded ==
  ASSUME IInv, IInv', Bounds, NEW t \in Conns, Request(t)
  PROVE  Bounds'
<1>1. t \in Threads
  BY NoneIsNone
<1>2. CASE FindSession(t) \/ VerifyAKey(t) \/ AllocAppGroup(t) \/ AllocApp(t) \/ UseGroup(t) \/ AddLocked(t)
  <2>1. Turning(t)
    BY <1>2, MovesTurn, VerifyTurns, AllocsTurn, UseGroupTurns, AddLockedTurns
  <2> QED BY <1>1, <2>1, TurnBounded
<1>3. CASE GroupAdded(t) \/ AppAdded(t) \/ AllocAppFails(t) \/ OpenOsml(t) \/ Answer(t) \/ FreeConn(t)
  <2>1. Turning(t)
    BY <1>3, GroupAddedTurns, ReplacesTurn, MovesTurn, AnswerTurns, FreeConnTurns
  <2> QED BY <1>1, <2>1, TurnBounded
<1> QED BY <1>2, <1>3 DEF Request

LEMMA StepBounded ==
  ASSUME IInv, IInv', Bounds, [Next]_vars
  PROVE  Bounds'
<1>1. ASSUME NEW t \in Threads, Step(t) PROVE Bounds'
  <2>1. CASE t \in Conns /\ Request(t)
    BY <2>1, RequestBounded
  <2>2. CASE t = Watchdog /\ (WatchdogLock \/ WatchdogPick)
    <3>1. Turning(Watchdog) /\ Watchdog \in Threads
      BY <2>2, LocksTurn, PickTurns, NoneIsNone
    <3> QED BY <3>1, TurnBounded
  <2>3. CASE Unlinking(t) \/ (t = Watchdog /\ WatchdogFree)
    BY <2>3, UnlinkingBounded
  <2> QED BY <1>1, <2>1, <2>2, <2>3 DEF Step, WatchdogStep
<1>2. CASE UNCHANGED vars
  BY <1>2 DEF vars, held, timers, Bounds, RetiredOnce, Retiring, LetsGo, Answering, Few, Replacing,
              OffList, HasTimer, Adding, Low, High, Owed, IsListed, Home
<1> QED BY <1>1, <1>2 DEF Next

LEMMA InitBounded ==
  ASSUME Init
  PROVE  Bounds
<1> DEFINE w == [Idle EXCEPT !.pc = "scan"]
<1>1. /\ me = [t \in Threads |-> IF t = Watchdog THEN w ELSE Idle]
      /\ own = [x \in Owners |-> Unused] /\ lost = [a \in Apps |-> 0] /\ list = {}
  BY DEF Init
<1>2. /\ w.pc = "scan" /\ w.app = None /\ w.todo = <<>>
      /\ Idle.pc = "idle" /\ Idle.app = None /\ Idle.todo = <<>>
  BY DEF Idle
<1> HIDE DEF w
<1>3. \A t \in Threads : me[t].pc \in {"idle", "scan"} /\ me[t].app = None /\ me[t].todo = <<>>
  BY <1>1, <1>2
<1>4. \A t \in Threads : \A op, x : Do(op, x) \notin In(me[t].todo)
  BY <1>3, EmptyStack
<1>5. \A x \in Owners : own[x].cnt = 0
  BY <1>1 DEF Unused
<1>6. Few
  <2> SUFFICES ASSUME NEW a \in Apps PROVE lost[a] + Cardinality(Replacing(a)) <= MaxLost
    BY DEF Few
  <2>1. Replacing(a) = {}
    BY <1>3, NoneIsNone DEF Replacing
  <2>2. Cardinality(Replacing(a)) = 0 /\ lost[a] = 0
    BY <1>1, <2>1, FS_EmptySet
  <2> QED BY <2>2, AppsAssumption
<1>7. RetiredOnce /\ Answering /\ \A t \in Threads, x \in Owners : ~LetsGo(t, x)
  BY <1>3, <1>4, NoneIsNone DEF RetiredOnce, Retiring, LetsGo, Answering
<1>8. Cardinality(Threads) \in Nat /\ MaxLost \in Nat
  BY NoneIsNone, AppsAssumption, FS_CardinalityType
<1>9. ASSUME NEW x \in Owners PROVE OffList(x) /\ HasTimer(x) /\ Low(x) /\ High(x)
  <2>1. ~Adding(x) /\ x \notin list
    BY <1>1, <1>3 DEF Adding
  <2> QED BY <1>4, <1>5, <1>8, <2>1 DEF OffList, HasTimer, Low, High
<1> QED BY <1>6, <1>7, <1>9 DEF Bounds

-----------------------------------------------------------------------------
\* What a step does to the rest.
RestMoves(t) ==
  /\ valid' \subseteq valid \/ \E x \in Owners : valid' = valid \cup {x}
  /\ mutex' = mutex \/ Acquire(t) \/ Release
  /\ cpu' = cpu \/ cpu' = t \/ cpu' = None
  /\ fault' = fault \/ fault' = TRUE
  /\ osml \in [Apps -> {"none", "open", "closed"}] => osml' \in [Apps -> {"none", "open", "closed"}]

LEMMA RestKept ==
  ASSUME Rest, NEW t \in Threads, RestMoves(t)
  PROVE  Rest'
<1>1. mutex' \in Seq(Threads) /\ Once(mutex')
  <2>1. CASE mutex' = mutex
    BY <2>1 DEF Rest
  <2>2. CASE Acquire(t)
    <3>1. t \notin In(mutex) /\ mutex' = Append(mutex, t)
      BY <2>2 DEF Acquire, Lock!Ask, In
    <3> QED BY <3>1, AskAppends DEF Rest
  <2>3. CASE Release
    <3>1. mutex # <<>> /\ mutex' = Tail(mutex)
      BY <2>3 DEF Release, Lock!Release, Lock!Holds
    <3> QED BY <3>1, ReleaseTakes DEF Rest
  <2> QED BY <2>1, <2>2, <2>3 DEF RestMoves
<1> QED BY <1>1 DEF Rest, RestMoves

LEMMA RequestRest ==
  ASSUME NEW t \in Conns, Request(t)
  PROVE  RestMoves(t)
<1>1. CASE FindSession(t)
  BY <1>1 DEF FindSession, Goto, timers, RestMoves
<1>2. CASE VerifyAKey(t)
  BY <1>2 DEF VerifyAKey, Goto, timers, RestMoves
<1>3. CASE AllocAppGroup(t)
  BY <1>3 DEF AllocAppGroup, Alloc, Goto, Owners, RestMoves
<1>4. CASE AllocApp(t)
  BY <1>4 DEF AllocApp, Alloc, Goto, Owners, RestMoves
<1>5. CASE UseGroup(t)
  BY <1>5 DEF UseGroup, Stay, held, timers, RestMoves
<1>6. CASE AddLocked(t)
  BY <1>6 DEF AddLocked, Goto, held, RestMoves
<1>7. CASE GroupAdded(t)
  BY <1>7 DEF GroupAdded, Stay, timers, RestMoves
<1>8. CASE AppAdded(t) \/ AllocAppFails(t)
  BY <1>8 DEF AppAdded, AllocAppFails, Replaced, Goto, timers, RestMoves
<1>9. CASE OpenOsml(t)
  BY <1>9 DEF OpenOsml, Goto, timers, RestMoves
<1>10. CASE Answer(t)
  BY <1>10 DEF Answer, Retire, Goto, held, timers, RestMoves
<1>11. CASE FreeConn(t)
  BY <1>11 DEF FreeConn, Stay, held, timers, RestMoves
<1> QED BY <1>1, <1>2, <1>3, <1>4, <1>5, <1>6, <1>7, <1>8, <1>9, <1>10, <1>11 DEF Request

LEMMA UnlinkingRest ==
  ASSUME NEW t \in Threads, Unlinking(t)
  PROVE  RestMoves(t)
<1>1. ASSUME NEW x \in Owners, Unlink(t, x) PROVE RestMoves(t)
  BY <1>1 DEF Unlink, RemoveWatchdog, Return, Goto, Stay, RestMoves
<1>2. ASSUME NEW x \in Owners, RemoveLocked(t, x) PROVE RestMoves(t)
  BY <1>2 DEF RemoveLocked, Goto, held, RestMoves
<1>3. ASSUME NEW x \in Owners, RemoveFree(t, x) PROVE RestMoves(t)
  BY <1>3 DEF RemoveFree, Return, Goto, Stay, held, RestMoves
<1>4. ASSUME NEW g \in Groups, EndGroup(t, g) PROVE RestMoves(t)
  BY <1>4 DEF EndGroup, Return, Goto, Stay, timers, RestMoves
<1>5. ASSUME NEW a \in Apps, EndApp(t, a) PROVE RestMoves(t)
  BY <1>5 DEF EndApp, Goto, timers, RestMoves
<1>6. ASSUME NEW a \in Apps, FreeApp(t, a) PROVE RestMoves(t)
  BY <1>6 DEF FreeApp, Return, Goto, Stay, timers, RestMoves
<1>7. CASE UnlinkSess(t) \/ FreeSession(t)
  BY <1>7 DEF UnlinkSess, FreeSession, Return, Goto, Stay, timers, RestMoves
<1>8. CASE CloseSession(t)
  BY <1>8 DEF CloseSession, Goto, Stay, timers, RestMoves
<1>9. CASE UseFreed(t)
  BY <1>9 DEF UseFreed, held, timers, RestMoves
<1> QED BY <1>1, <1>2, <1>3, <1>4, <1>5, <1>6, <1>7, <1>8, <1>9 DEF Unlinking

LEMMA WatchdogRest ==
  ASSUME WatchdogStep
  PROVE  RestMoves(Watchdog)
<1>1. CASE WatchdogLock
  BY <1>1 DEF WatchdogLock, Goto, held, RestMoves
<1>2. CASE WatchdogPick
  BY <1>2 DEF WatchdogPick, Retire, Goto, held, RestMoves
<1>3. CASE WatchdogFree
  BY <1>3 DEF WatchdogFree, Goto, held, RestMoves
<1> QED BY <1>1, <1>2, <1>3 DEF WatchdogStep

LEMMA StepRest ==
  ASSUME Rest, [Next]_vars
  PROVE  Rest'
<1>1. ASSUME NEW t \in Threads, Step(t) PROVE Rest'
  <2>1. RestMoves(t)
    BY <1>1, RequestRest, UnlinkingRest, WatchdogRest DEF Step
  <2> QED BY <2>1, RestKept
<1>2. CASE UNCHANGED vars
  BY <1>2 DEF vars, held, timers, Rest
<1> QED BY <1>1, <1>2 DEF Next

\* The session has one reference for each connection that is in a request or about
\* to release it, and one for the watchdog manager until that has given it back.
LEMMA SessionBounded ==
  ASSUME IInv, Bounds
  PROVE  session.cnt \in 0..(Cardinality(Conns) + 1)
<1> DEFINE R == Rel(None)
           C == Conns \ Busy
<1>1. /\ Types /\ SessionExact /\ RetiredOnce /\ IsFiniteSet(Conns) /\ IsFiniteSet(Threads)
      /\ session.closed \in BOOLEAN
  BY AppsAssumption, NoneIsNone DEF IInv, Bounds, Types
<1>2. R \subseteq Threads /\ Busy \subseteq Conns /\ C \subseteq Conns
  BY DEF Rel, Busy
<1>3. IsFiniteSet(R) /\ IsFiniteSet(Busy) /\ IsFiniteSet(C)
  BY <1>1, <1>2, FS_Subset
<1>4. /\ Cardinality(R) \in Nat /\ Cardinality(Busy) \in Nat /\ Cardinality(C) \in Nat
      /\ Cardinality(Conns) \in Nat
  BY <1>1, <1>3, FS_CardinalityType
<1>5. Cardinality(C) = Cardinality(Conns) - Cardinality(Busy)
  <2>1. Conns \cap Busy = Busy
    BY <1>2
  <2> QED BY <1>1, <2>1, FS_Difference
<1>6. \A u \in R : u \in C \/ Retiring(u)
  BY DEF Rel, Busy, Retiring, LetsGo, Threads
<1>7. session.cnt = Cardinality(Busy) + Cardinality(R) + Kept /\ Kept \in {0, 1}
  BY <1>1 DEF SessionExact, Kept
<1> HIDE DEF R, C
<1>8. CASE \A u \in R : ~Retiring(u)
  <2>1. R \subseteq C
    BY <1>6, <1>8
  <2>2. Cardinality(R) <= Cardinality(C)
    BY <1>3, <2>1, FS_Subset
  <2> QED BY <1>4, <1>5, <1>7, <2>2
<1>9. ASSUME NEW u \in R, Retiring(u) PROVE session.cnt \in 0..(Cardinality(Conns) + 1)
  <2>1. u \in Threads /\ session.closed /\ \A v \in Threads : Retiring(v) => v = u
    BY <1>1, <1>2, <1>9 DEF RetiredOnce
  <2>2. Kept = 0
    BY <2>1 DEF Kept
  <2>3. R \ {u} \subseteq C
    BY <1>2, <1>6, <2>1
  <2>4. Cardinality(R \ {u}) <= Cardinality(C)
    BY <1>3, <2>3, FS_Subset
  <2>5. Cardinality(R \ {u}) = Cardinality(R) - 1
    BY <1>3, <1>9, FS_RemoveElement
  <2> QED BY <1>4, <1>5, <1>7, <2>2, <2>4, <2>5
<1> QED BY <1>8, <1>9

\* Every count stays within its bound, whatever is linked, retired, fired and
\* released in whatever order: the session's has no more references than there are
\* connections and the watchdog manager, and that of a group or application is never
\* released below zero but once, by its timer after its group has ended it.
THEOREM TypeCorrect ==
  Spec => []TypeOK
<1>1. Init => IInv /\ Bounds /\ Rest
  <2> SUFFICES ASSUME Init PROVE IInv /\ Bounds /\ Rest
    OBVIOUS
  <2>1. Rest
    <3>1. mutex \in Seq(Threads) /\ Once(mutex)
      BY DEF Init, Once
    <3>2. osml \in [Apps -> {"none", "open", "closed"}] /\ valid \in SUBSET Owners
      BY DEF Init
    <3>3. cpu \in Threads \cup {None} /\ fault \in BOOLEAN
      BY DEF Init
    <3> QED BY <3>1, <3>2, <3>3 DEF Rest
  <2> QED BY <2>1, Initially, InitBounded
<1>2. IInv /\ Bounds /\ Rest /\ [Next]_vars => (IInv /\ Bounds /\ Rest)'
  <2> SUFFICES ASSUME IInv, Bounds, Rest, [Next]_vars PROVE IInv' /\ Bounds' /\ Rest'
    OBVIOUS
  <2>1. IInv'
    BY EveryStep
  <2>2. Bounds'
    BY <2>1, StepBounded
  <2>3. Rest'
    BY StepRest
  <2> QED BY <2>1, <2>2, <2>3
<1>3. IInv /\ Bounds /\ Rest => TypeOK
  <2> SUFFICES ASSUME IInv, Bounds, Rest PROVE TypeOK
    OBVIOUS
  <2>1. Types /\ \A a \in Apps : lost[a] \in 0..MaxLost
    <3>1. Types /\ MaxLost \in Nat
      BY AppsAssumption DEF IInv
    <3>2. ASSUME NEW a \in Apps PROVE lost[a] \in 0..MaxLost
      <4>1. Replacing(a) \subseteq Threads
        BY DEF Replacing, Threads
      <4>2. Cardinality(Replacing(a)) \in Nat
        BY <4>1, NoneIsNone, FS_Subset, FS_CardinalityType
      <4>3. lost[a] \in Nat /\ lost[a] + Cardinality(Replacing(a)) <= MaxLost
        BY <3>1 DEF Bounds, Few, Types
      <4> QED BY <3>1, <4>2, <4>3
    <3> QED BY <3>1, <3>2
  <2>2. session \in [cnt : 0..(Cardinality(Conns) + 1), closed : BOOLEAN,
                     state : {"live", "freed"}]
    BY <2>1, SessionBounded DEF Types
  <2>3. own \in [Owners -> [state : {"unused", "live", "freed"},
                            cnt : -1..(Cardinality(Threads) + MaxLost),
                            group : Groups \cup {None}]]
    <3> DEFINE T == [state : {"unused", "live", "freed"},
                     cnt : -1..(Cardinality(Threads) + MaxLost), group : Groups \cup {None}]
    <3>1. ASSUME NEW x \in Owners PROVE own[x] \in T
      <4>1. own[x] \in Owner /\ own[x].cnt \in Int
        BY <2>1 DEF Types, Owner
      <4>2. Cardinality(Threads) \in Nat /\ MaxLost \in Nat
        BY NoneIsNone, AppsAssumption, FS_CardinalityType
      <4>3. own[x].cnt >= -1 /\ own[x].cnt <= Cardinality(Threads) + MaxLost
        BY <4>1 DEF Bounds, Low, High
      <4>4. own[x].cnt \in -1..(Cardinality(Threads) + MaxLost)
        BY <4>1, <4>2, <4>3
      <4> QED BY <4>1, <4>4 DEF Owner
    <3> HIDE DEF T
    <3>2. own \in [Owners -> T]
      BY <2>1, <3>1 DEF Types
    <3> QED BY <3>2 DEF T
  <2>4. lost \in [Apps -> 0..MaxLost] /\ list \in SUBSET valid
    BY <2>1 DEF Types, Bounds, HasTimer
  <2> QED BY <2>1, <2>2, <2>3, <2>4 DEF TypeOK, Types, Rest, Local
<1> QED BY <1>1, <1>2, <1>3, PTL DEF Spec
=============================================================================
