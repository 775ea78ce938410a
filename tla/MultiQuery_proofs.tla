------------------------- MODULE MultiQuery_proofs -------------------------
(***************************************************************************)
(* For any queries, of any number of statements and rows, and any number   *)
(* of rows the caller holds: the objects, statements and queries that rows *)
(* need are kept until the last row is closed, and then go; and the rows   *)
(* are the groups of the statement.                                        *)
(***************************************************************************)
EXTENDS MultiQuery, Lines_proofs

ObjRef == {None} \cup (Nat \X Nat)
Key == {None, <<"all">>, <<"null">>} \cup {<<v>> : v \in Values}

Tree == [alive : BOOLEAN, links : Int, finished : BOOLEAN, finishes : Int, started : Int,
         iter : Int, user : Int, pos : Nat, saved : ObjRef, saving : BOOLEAN,
         last : BOOLEAN, key : Key, begun : BOOLEAN,
         agg : Seq(ObjRef), agg2 : Seq(Seq(ObjRef))]

\* A statement whose source has the objects X.
Sound(s, X) ==
  /\ s \in Tree
  /\ s.saved \in X \cup {None}
  /\ s.saved # None => s.saving
  /\ s.saving => s.begun
  /\ s.started \in {0, 1}
  /\ s.finishes = IF s.started = 1 /\ s.finished THEN 1 ELSE 0
  /\ s.started = 0 => s = NewStmt
  /\ s.alive = (s.links > 0)

B(y, x) == IF y = x THEN 1 ELSE 0

\* What the row of the source and the saved one have of the links does not change.
Same(X, s, o, l, t, p, m) ==
  \A x \in X : m[x] - B(p, x) - B(t.saved, x) = l[x] - B(o, x) - B(s.saved, x)

LEMMA LinkedIs ==
  ASSUME NEW X, None \notin X, NEW l \in [X -> Int], NEW o \in X \cup {None}
  PROVE  /\ Linked(l, o) \in [X -> Int] /\ Closed(l, o) \in [X -> Int]
         /\ \A x \in X : Linked(l, o)[x] = l[x] + B(o, x) /\ Closed(l, o)[x] = l[x] - B(o, x)
BY DEF Linked, Closed, B

LEMMA SameSteps ==
  ASSUME NEW X, NEW s, NEW o, NEW l \in [X -> Int], NEW t, NEW p, NEW m \in [X -> Int],
         NEW u, NEW q, NEW n \in [X -> Int],
         Same(X, s, o, l, t, p, m), Same(X, t, p, m, u, q, n)
  PROVE  Same(X, s, o, l, u, q, n)
<1>1. ASSUME NEW x, NEW y PROVE B(x, y) \in Int
  BY DEF B
<1> QED BY <1>1 DEF Same

LEMMA TreeFinishedIs ==
  ASSUME NEW X, None \notin X, NEW s \in Tree, s.saved \in X \cup {None},
         s.saved # None => s.saving, s.saving => s.begun,
         NEW o \in X \cup {None}, NEW l \in [X -> Int]
  PROVE  LET f == TreeFinished(s, o, l) IN
         /\ f.stmt \in Tree /\ f.links \in [X -> Int]
         /\ f.stmt.saved = None /\ (f.stmt.saving => f.stmt.begun)
         /\ Same(X, s, o, l, f.stmt, None, f.links)
         /\ f.stmt.finishes = s.finishes + 1 /\ f.stmt.links = s.links
         /\ f.stmt.alive = s.alive /\ f.stmt.started = s.started
<1> DEFINE z == None
           n == s.finishes + 1
           t == [s EXCEPT !.saved = z, !.saving = FALSE, !.finishes = n]
           m == Closed(Closed(l, o), s.saved)
<1>1. TreeFinished(s, o, l) = [stmt |-> t, links |-> m]
  <2>1. CASE s.saving
    BY <2>1 DEF TreeFinished
  <2>2. CASE ~s.saving
    <3>1. s.saving = FALSE /\ s.saved = None
      BY <2>2 DEF Tree
    <3>2. [s EXCEPT !.saved = s.saved, !.saving = s.saving, !.finishes = @ + 1] = t
      BY <3>1
    <3> QED BY <2>2, <3>1, <3>2 DEF TreeFinished
  <2> QED BY <2>1, <2>2
<1>2. z = None /\ z \in ObjRef /\ n = s.finishes + 1 /\ n \in Int
  BY DEF Tree, ObjRef
<1> HIDE DEF z, n
<1>a. z \in ObjRef /\ n \in Int
  BY <1>2
<1>b. /\ t \in Tree /\ t.saved = z /\ t.saving = FALSE /\ t.begun = s.begun
      /\ t.finishes = n /\ t.links = s.links
      /\ t.alive = s.alive /\ t.started = s.started
  BY <1>a DEF Tree
<1>3. /\ t \in Tree /\ t.saved = None /\ t.saving = FALSE /\ t.begun = s.begun
      /\ t.finishes = s.finishes + 1 /\ t.links = s.links
      /\ t.alive = s.alive /\ t.started = s.started
  BY <1>2, <1>b
<1>4. m \in [X -> Int] /\ \A x \in X : m[x] = l[x] - B(o, x) - B(s.saved, x)
  <2>1. Closed(l, o) \in [X -> Int] /\ \A x \in X : Closed(l, o)[x] = l[x] - B(o, x)
    BY LinkedIs
  <2> QED BY <2>1, LinkedIs
<1>5. Same(X, s, o, l, t, None, m)
  <2>1. \A x \in X : B(None, x) = 0
    BY DEF B
  <2>2. \A x, y : B(x, y) \in Int
    BY DEF B
  <2> QED BY <1>3, <1>4, <2>1, <2>2 DEF Same
<1> HIDE DEF t, m
<1> QED BY <1>1, <1>3, <1>4, <1>5

LEMMA TreeEnds ==
  ASSUME NEW s \in Tree
  PROVE  LET t == [s EXCEPT !.finished = TRUE] IN
         /\ t \in Tree /\ t.finished = TRUE /\ t.saved = s.saved /\ t.saving = s.saving
         /\ t.begun = s.begun /\ t.finishes = s.finishes /\ t.links = s.links
         /\ t.alive = s.alive /\ t.started = s.started
BY DEF Tree

LEMMA TreeLinks ==
  ASSUME NEW s \in Tree, NEW n \in Int
  PROVE  LET t == [s EXCEPT !.links = n] IN
         /\ t \in Tree /\ t.links = n /\ t.saved = s.saved /\ t.saving = s.saving
         /\ t.begun = s.begun /\ t.finishes = s.finishes /\ t.finished = s.finished
         /\ t.alive = s.alive /\ t.started = s.started
BY DEF Tree

LEMMA TreeFreed ==
  ASSUME NEW s \in Tree
  PROVE  LET t == [s EXCEPT !.alive = FALSE] IN
         /\ t \in Tree /\ t.alive = FALSE /\ t.saved = s.saved /\ t.saving = s.saving
         /\ t.begun = s.begun /\ t.finishes = s.finishes /\ t.links = s.links
         /\ t.finished = s.finished /\ t.started = s.started
BY DEF Tree

\* A statement that may be finished.
Started(s, X) ==
  /\ s \in Tree
  /\ s.saved \in X \cup {None}
  /\ s.saved # None => s.saving
  /\ s.saving => s.begun
  /\ s.started = 1
  /\ s.finishes = IF s.finished THEN 1 ELSE 0

\* The same statement to those who have it.
Keeps(s, t) == t.links = s.links /\ t.alive = s.alive

LEMMA FinishStatementIs ==
  ASSUME NEW X, None \notin X, NEW Y \in SUBSET X, NEW s, Started(s, Y),
         NEW o \in X \cup {None}, NEW l \in [X -> Int]
  PROVE  LET f == FinishStatement(s, o, l) IN
         /\ f.stmt \in Tree /\ f.links \in [X -> Int]
         /\ Started(f.stmt, Y) /\ f.stmt.finished
         /\ Keeps(s, f.stmt)
         /\ s.finished => f.objlist = o
         /\ ~s.finished => f.objlist = None
         /\ Same(X, s, o, l, f.stmt, f.objlist, f.links)
<1> DEFINE f == FinishStatement(s, o, l)
           g == TreeFinished(s, o, l)
           t == [g.stmt EXCEPT !.finished = TRUE]
<1>0. \A x, z : B(x, z) \in Int
  BY DEF B
<1>1. CASE s.finished
  <2>1. f = [stmt |-> s, objlist |-> o, links |-> l]
    BY <1>1 DEF FinishStatement
  <2>2. Same(X, s, o, l, s, o, l)
    BY DEF Same
  <2>3. s \in Tree
    BY DEF Started
  <2> QED BY <1>1, <2>1, <2>2, <2>3 DEF Keeps
<1>2. CASE ~s.finished
  <2>1. f = [stmt |-> t, objlist |-> None, links |-> g.links]
    BY <1>2 DEF FinishStatement
  <2>2. /\ g.stmt \in Tree /\ g.links \in [X -> Int]
        /\ g.stmt.saved = None /\ (g.stmt.saving => g.stmt.begun)
        /\ Same(X, s, o, l, g.stmt, None, g.links)
        /\ g.stmt.finishes = s.finishes + 1 /\ g.stmt.links = s.links
        /\ g.stmt.alive = s.alive /\ g.stmt.started = s.started
    BY TreeFinishedIs DEF Started
  <2> HIDE DEF f, g
  <2>3. /\ t \in Tree /\ t.finished = TRUE /\ t.saved = g.stmt.saved
        /\ t.saving = g.stmt.saving
        /\ t.begun = g.stmt.begun /\ t.finishes = g.stmt.finishes /\ t.links = g.stmt.links
        /\ t.alive = g.stmt.alive /\ t.started = g.stmt.started
    BY <2>2, TreeEnds
  <2> HIDE DEF t
  <2>4. Started(t, Y)
    BY <1>2, <2>2, <2>3 DEF Started
  <2>5. Same(X, s, o, l, t, None, g.links)
    BY <2>2, <2>3 DEF Same
  <2>6. t.finished /\ t.links = s.links /\ t.alive = s.alive
    BY <2>2, <2>3
  <2>7. Keeps(s, t)
    BY <2>6 DEF Keeps
  <2> QED BY <1>2, <2>1, <2>2, <2>3, <2>4, <2>5, <2>6, <2>7 DEF f
<1> QED BY <1>1, <1>2 DEF f

-----------------------------------------------------------------------------
(***************************************************************************)
(* A statement loses a link: it is finished by then, or has others.        *)
(***************************************************************************)
Dropped(s) == [s EXCEPT !.links = s.links - 1, !.alive = s.links > 1]

LEMMA TreeDropped ==
  ASSUME NEW s \in Tree
  PROVE  LET t == Dropped(s) IN
         /\ t \in Tree /\ t.saved = s.saved /\ t.saving = s.saving
         /\ t.begun = s.begun /\ t.finishes = s.finishes /\ t.finished = s.finished
         /\ t.started = s.started
         /\ t.links = s.links - 1 /\ t.alive = (t.links > 0)
<1> DEFINE n == s.links - 1
           a == s.links > 1
           t == [s EXCEPT !.links = n, !.alive = a]
<1>1. n \in Int /\ a \in BOOLEAN /\ a = (n > 0)
  BY DEF Tree
<1>2. n = s.links - 1
  OBVIOUS
<1>3. Dropped(s) = t
  BY DEF Dropped
<1> HIDE DEF n, a
<1>4. /\ t \in Tree /\ t.saved = s.saved /\ t.saving = s.saving
      /\ t.begun = s.begun /\ t.finishes = s.finishes /\ t.finished = s.finished
      /\ t.started = s.started /\ t.links = n
  BY <1>1 DEF Tree
<1>5. t.alive = a
  BY DEF Tree
<1> HIDE DEF t
<1> QED BY <1>1, <1>2, <1>3, <1>4, <1>5

LEMMA CloseStatementIs ==
  ASSUME NEW s \in Tree, s.finished \/ s.links > 1, s.links > 0, s.alive = (s.links > 0),
         NEW o, NEW l
  PROVE  CloseStatement(s, o, l) = [stmt |-> Dropped(s), objlist |-> o, links |-> l]
<1> DEFINE n == s.links - 1
           t == [s EXCEPT !.links = n]
<1>1. n \in Int /\ n = s.links - 1
  BY DEF Tree
<1>2. s.alive = TRUE
  OBVIOUS
<1> HIDE DEF n
<1>3. t \in Tree /\ t.links = n /\ t.finished = s.finished
  BY <1>1 DEF Tree
<1>0. CloseStatement(s, o, l)
        = IF t.links > 0 THEN [stmt |-> t, objlist |-> o, links |-> l]
          ELSE [FinishStatement(t, o, l) EXCEPT !.stmt.alive = FALSE]
  BY DEF CloseStatement, n
<1>4. CASE s.links > 1
  <2>1. t = [s EXCEPT !.links = n, !.alive = TRUE]
    BY <1>1, <1>2 DEF Tree
  <2>2. CloseStatement(s, o, l) = [stmt |-> t, objlist |-> o, links |-> l]
    <3> HIDE DEF t
    <3>2. s.links \in Int
      BY DEF Tree
    <3>1. t.links > 0
      BY <1>1, <1>3, <1>4, <3>2
    <3> QED BY <1>0, <3>1
  <2>3. Dropped(s) = [s EXCEPT !.links = n, !.alive = TRUE]
    BY <1>4, <1>1 DEF Dropped
  <2> QED BY <2>1, <2>2, <2>3
<1>5. CASE ~(s.links > 1)
  <2>1. s.finished /\ ~(n > 0)
    BY <1>1, <1>5 DEF Tree
  <2>2. FinishStatement(t, o, l) = [stmt |-> t, objlist |-> o, links |-> l]
    BY <2>1, <1>3 DEF FinishStatement
  <2>3. CloseStatement(s, o, l)
          = [[stmt |-> t, objlist |-> o, links |-> l] EXCEPT !.stmt.alive = FALSE]
    BY <1>0, <1>3, <2>1, <2>2
  <2>4. @ = [stmt |-> [t EXCEPT !.alive = FALSE], objlist |-> o, links |-> l]
    OBVIOUS
  <2>5. [t EXCEPT !.alive = FALSE] = [s EXCEPT !.links = n, !.alive = FALSE]
    BY DEF Tree
  <2>6. Dropped(s) = [s EXCEPT !.links = n, !.alive = FALSE]
    <3>1. (s.links > 1) = FALSE
      BY <1>5
    <3> QED BY <1>1, <3>1 DEF Dropped
  <2> QED BY <2>3, <2>4, <2>5, <2>6
<1> QED BY <1>4, <1>5

-----------------------------------------------------------------------------
(***************************************************************************)
(* The invariant.                                                          *)
(***************************************************************************)
ObjsOf(i) == {i} \X DOMAIN text[i].rows

Types ==
  /\ text \in Seq(QueryStatement)
  /\ qy \in [links : Int, cur : Int, ended : BOOLEAN, open : BOOLEAN]
  /\ Cur \in Stmts \cup {NoStmt}
  /\ stmt \in [Stmts -> Tree]
  /\ objlist \in Objs \cup {None}
  /\ links \in [Objs -> Int]
  /\ pseudo \in [Handles -> [stmt : Stmts, row : Objs \cup {None}] \cup {None}]
  /\ pc \in {"idle", "next", "prime", "group", "regroup", "row"}

Sounds == \A i \in Stmts : Sound(stmt[i], ObjsOf(i))

\* The current statement is the only one that runs; those after it have not begun.
Current ==
  /\ Cur # NoStmt => /\ S.started = 1
                     /\ objlist \in ObjsOf(Cur) \cup {None}
                     /\ S.finished = ~qy.open
                     /\ \A i \in Stmts : i > Cur => stmt[i] = NewStmt
  /\ Cur = NoStmt \/ ~qy.open => objlist = None
  /\ \A i \in Stmts : i # Cur => stmt[i].finished
  /\ pc # "idle" => qy.open /\ Cur # NoStmt
  /\ pc \in {"prime", "group"} => ~S.saving /\ S.begun
  /\ pc = "regroup" => S.begun

RowsOf(p, i) == {h \in Handles : p[h] # None /\ p[h].stmt = i}
ObjRows(p, x) == {h \in Handles : p[h] # None /\ p[h].row = x}
AllRows(p) == {h \in Handles : p[h] # None}

LinkCounts ==
  \A x \in Objs : links[x] = Cardinality(ObjRows(pseudo, x)) + B(objlist, x)
                             + B(stmt[x[1]].saved, x)
StmtCounts ==
  \A i \in Stmts : stmt[i].links = Cardinality(RowsOf(pseudo, i)) + B(Cur, i)
QueryCount == qy.links = Cardinality(AllRows(pseudo)) + (IF qy.open THEN 1 ELSE 0)

IInv == Types /\ Sounds /\ Current /\ LinkCounts /\ StmtCounts /\ QueryCount

LEMMA ObjsFacts ==
  ASSUME text \in Seq(QueryStatement)
  PROVE  /\ None \notin Objs
         /\ \A i \in Stmts : ObjsOf(i) \subseteq Objs /\ i \in Nat /\ i # 0
         /\ \A x \in Objs : x[1] \in Stmts /\ x \in ObjsOf(x[1])
         /\ \A i \in Stmts : \A x \in ObjsOf(i) : x[1] = i
         /\ Objs \subseteq ObjRef
         /\ Stmts = 1..Len(text)
<1>1. Stmts = 1..Len(text) /\ Len(text) \in Nat
  BY DEF Stmts
<1>2. \A i \in Stmts : text[i].rows \in Seq([g : Values, ok : BOOLEAN])
  <2>1. \A i \in Stmts : text[i] \in QueryStatement
    BY <1>1
  <2> QED BY <2>1 DEF QueryStatement
<1>3. \A i \in Stmts : DOMAIN text[i].rows \subseteq Nat
  BY <1>2
<1>4. \A x \in Objs : \E i \in Stmts : x \in ObjsOf(i)
  BY DEF Objs, ObjsOf
<1>5. \A i \in Stmts : \A x \in ObjsOf(i) : x[1] = i /\ x \in Nat \X Nat
  BY <1>1, <1>3 DEF ObjsOf
<1>6. \A i \in Stmts : ObjsOf(i) \subseteq Objs
  BY DEF Objs, ObjsOf
<1>7. None \notin Nat \X Nat
  BY DEF None
<1> QED BY <1>1, <1>4, <1>5, <1>6, <1>7 DEF ObjRef

LEMMA SavedOnce ==
  ASSUME Types, Sounds, NEW x \in Objs
  PROVE  Cardinality({i \in Stmts : stmt[i].saved = x}) = B(stmt[x[1]].saved, x)
<1>0. text \in Seq(QueryStatement)
  BY DEF Types
<1>1. x[1] \in Stmts /\ x # None
  BY <1>0, ObjsFacts
<1>2. ASSUME NEW i \in Stmts, stmt[i].saved = x PROVE i = x[1]
  BY <1>0, <1>1, <1>2, ObjsFacts DEF Sounds, Sound
<1>3. CASE stmt[x[1]].saved = x
  <2>1. {i \in Stmts : stmt[i].saved = x} = {x[1]}
    BY <1>1, <1>2, <1>3
  <2> QED BY <2>1, <1>3, FS_Singleton DEF B
<1>4. CASE stmt[x[1]].saved # x
  <2>1. {i \in Stmts : stmt[i].saved = x} = {}
    BY <1>1, <1>2, <1>4
  <2> QED BY <2>1, <1>4, FS_EmptySet DEF B
<1> QED BY <1>3, <1>4

LEMMA IInvIsEnough ==
  ASSUME IInv PROVE RowsKept
<1>1. ObjectsHeld
  BY SavedOnce DEF IInv, LinkCounts, ObjectsHeld, ObjRows, B
<1>2. \A i \in Stmts : /\ stmt[i].alive = (stmt[i].links > 0)
                       /\ stmt[i].finishes <= stmt[i].started
                       /\ stmt[i].started = 1 /\ (Cur # i \/ ~qy.open)
                            => stmt[i].finishes = 1
  <2> TAKE i \in Stmts
  <2>1. Sound(stmt[i], ObjsOf(i))
    BY DEF IInv, Sounds
  <2>2. Cur # i \/ ~qy.open => stmt[i].finished \/ stmt[i].started = 0
    <3>1. CASE Cur # i
      BY <3>1 DEF IInv, Current
    <3>2. CASE Cur = i /\ ~qy.open
      <4>1. Cur # NoStmt
        BY <3>2, ObjsFacts DEF IInv, Types, NoStmt
      <4> QED BY <3>2, <4>1 DEF IInv, Current, S
    <3> QED BY <3>1, <3>2
  <2> QED BY <2>1, <2>2 DEF Sound
<1>3. StatementsHeld
  BY <1>2 DEF IInv, StmtCounts, QueryCount, StatementsHeld, RowsOf, AllRows, B
<1> QED BY <1>1, <1>3 DEF RowsKept

-----------------------------------------------------------------------------
(***************************************************************************)
(* The rows of the caller, counted.                                        *)
(***************************************************************************)
Pseudo == [stmt : Stmts, row : Objs \cup {None}]

LEMMA PseudoIsNotNone ==
  ASSUME NEW r \in Pseudo
  PROVE  r # None
<1>1. r = [stmt |-> r.stmt, row |-> r.row]
  BY DEF Pseudo
<1>2. DOMAIN r = {"stmt", "row"}
  BY <1>1
<1>3. DOMAIN None = {}
  BY DEF None
<1> QED BY <1>2, <1>3

LEMMA AddMember ==
  ASSUME NEW A \in SUBSET Handles, NEW h \in Handles, h \notin A
  PROVE  /\ Cardinality(A) \in Nat
         /\ Cardinality(A \cup {h}) = Cardinality(A) + 1
<1>1. IsFiniteSet(A)
  BY QueryAssumption, FS_Subset
<1> QED BY <1>1, FS_CardinalityType, FS_AddElement

LEMMA CountsAreNat ==
  ASSUME NEW p, NEW x
  PROVE  /\ Cardinality(RowsOf(p, x)) \in Nat
         /\ Cardinality(ObjRows(p, x)) \in Nat
         /\ Cardinality(AllRows(p)) \in Nat
<1>1. IsFiniteSet(RowsOf(p, x)) /\ IsFiniteSet(ObjRows(p, x)) /\ IsFiniteSet(AllRows(p))
  BY QueryAssumption, FS_Subset DEF RowsOf, ObjRows, AllRows
<1> QED BY <1>1, FS_CardinalityType

Put(p, h, r) == [p EXCEPT ![h] = r]

LEMMA AddRow ==
  ASSUME NEW p \in [Handles -> Pseudo \cup {None}], NEW h \in Handles, p[h] = None,
         NEW r \in Pseudo, NEW q, q = Put(p, h, r)
  PROVE  /\ Cardinality(AllRows(q)) = Cardinality(AllRows(p)) + 1
         /\ \A i : Cardinality(RowsOf(q, i)) = Cardinality(RowsOf(p, i)) + B(r.stmt, i)
         /\ \A x : Cardinality(ObjRows(q, x)) = Cardinality(ObjRows(p, x)) + B(r.row, x)
<1>0. r # None
  BY PseudoIsNotNone
<1>1. q \in [Handles -> Pseudo \cup {None}] /\ q[h] = r
      /\ \A k \in Handles : k # h => q[k] = p[k]
  BY DEF Put
<1>2. AllRows(q) = AllRows(p) \cup {h} /\ h \notin AllRows(p)
      /\ AllRows(p) \in SUBSET Handles
  BY <1>0, <1>1 DEF AllRows
<1>3. ASSUME NEW i
      PROVE  Cardinality(RowsOf(q, i)) = Cardinality(RowsOf(p, i)) + B(r.stmt, i)
  <2>1. h \notin RowsOf(p, i) /\ RowsOf(p, i) \in SUBSET Handles
    BY DEF RowsOf
  <2>2. CASE r.stmt = i
    <3>1. RowsOf(q, i) = RowsOf(p, i) \cup {h}
      BY <1>0, <1>1, <2>2 DEF RowsOf
    <3> QED BY <2>1, <2>2, <3>1, AddMember DEF B
  <2>3. CASE r.stmt # i
    <3>1. RowsOf(q, i) = RowsOf(p, i)
      BY <1>0, <1>1, <2>3 DEF RowsOf
    <3> QED BY <2>3, <3>1, CountsAreNat DEF B
  <2> QED BY <2>2, <2>3
<1>4. ASSUME NEW x
      PROVE  Cardinality(ObjRows(q, x)) = Cardinality(ObjRows(p, x)) + B(r.row, x)
  <2>1. h \notin ObjRows(p, x) /\ ObjRows(p, x) \in SUBSET Handles
    BY DEF ObjRows
  <2>2. CASE r.row = x
    <3>1. ObjRows(q, x) = ObjRows(p, x) \cup {h}
      BY <1>0, <1>1, <2>2 DEF ObjRows
    <3> QED BY <2>1, <2>2, <3>1, AddMember DEF B
  <2>3. CASE r.row # x
    <3>1. ObjRows(q, x) = ObjRows(p, x)
      BY <1>0, <1>1, <2>3 DEF ObjRows
    <3> QED BY <2>3, <3>1, CountsAreNat DEF B
  <2> QED BY <2>2, <2>3
<1> QED BY <1>2, <1>3, <1>4, AddMember

LEMMA DropRow ==
  ASSUME NEW p \in [Handles -> Pseudo \cup {None}], NEW h \in Handles, p[h] # None,
         NEW q, q = Put(p, h, None)
  PROVE  /\ q \in [Handles -> Pseudo \cup {None}]
         /\ Cardinality(AllRows(q)) = Cardinality(AllRows(p)) - 1
         /\ \A i : Cardinality(RowsOf(q, i)) = Cardinality(RowsOf(p, i)) - B(p[h].stmt, i)
         /\ \A x : Cardinality(ObjRows(q, x)) = Cardinality(ObjRows(p, x)) - B(p[h].row, x)
<1>1. q \in [Handles -> Pseudo \cup {None}] /\ q[h] = None /\ p = [q EXCEPT ![h] = p[h]]
      /\ p[h] \in Pseudo
  BY DEF Put
<1>2. /\ Cardinality(AllRows(p)) = Cardinality(AllRows(q)) + 1
      /\ \A i : Cardinality(RowsOf(p, i)) = Cardinality(RowsOf(q, i)) + B(p[h].stmt, i)
      /\ \A x : Cardinality(ObjRows(p, x)) = Cardinality(ObjRows(q, x)) + B(p[h].row, x)
  <2>1. PICK r \in Pseudo : r = p[h]
    BY <1>1
  <2>2. p = Put(q, h, r)
    BY <1>1, <2>1 DEF Put
  <2>3. Cardinality(AllRows(p)) = Cardinality(AllRows(q)) + 1
    BY <1>1, <2>2, AddRow
  <2>4. \A i : Cardinality(RowsOf(p, i)) = Cardinality(RowsOf(q, i)) + B(r.stmt, i)
    BY <1>1, <2>2, AddRow
  <2>5. \A x : Cardinality(ObjRows(p, x)) = Cardinality(ObjRows(q, x)) + B(r.row, x)
    BY <1>1, <2>2, AddRow
  <2> QED BY <2>1, <2>3, <2>4, <2>5
<1>3. \A x, y : B(x, y) \in Int
  BY DEF B
<1>4. Cardinality(AllRows(q)) = Cardinality(AllRows(p)) - 1
  BY <1>2, CountsAreNat
<1>5. \A i : Cardinality(RowsOf(q, i)) = Cardinality(RowsOf(p, i)) - B(p[h].stmt, i)
  BY <1>2, <1>3, CountsAreNat
<1>6. \A x : Cardinality(ObjRows(q, x)) = Cardinality(ObjRows(p, x)) - B(p[h].row, x)
  BY <1>2, <1>3, CountsAreNat
<1> QED BY <1>1, <1>4, <1>5, <1>6

-----------------------------------------------------------------------------
(***************************************************************************)
(* The rows of the source, and the statements of the text.                 *)
(***************************************************************************)
LEMMA LeastNat ==
  ASSUME NEW K \in SUBSET Nat, K # {}
  PROVE  LET k == CHOOSE k \in K : \A j \in K : k <= j IN k \in K
<1> DEFINE R == OpToRel(<, Nat)
<1>1. IsWellFoundedOn(R, Nat)
  BY NatLessThanWellFounded
<1>2. PICK k \in K : \A j \in K : ~(<<j, k>> \in R)
  <2> HIDE DEF R
  <2> QED BY <1>1, WFMin
<1>3. \A j \in K : ~(j < k)
  BY <1>2 DEF OpToRel
<1>4. \A j \in K : k <= j
  BY <1>3
<1> QED BY <1>4

LEMMA Element ==
  ASSUME NEW V, NEW w \in Seq(V), NEW k \in 1..Len(w)
  PROVE  w[k] \in V
OBVIOUS

LEMMA ChildItemIs ==
  ASSUME Types, Cur # NoStmt, NEW s \in Tree, NEW o \in Objs \cup {None},
         NEW l \in [Objs -> Int]
  PROVE  LET c == ChildItem(s, o, l) IN
         /\ c.rval \in {-1, 0, 1} /\ c.pos \in Nat
         /\ c.row \in ObjsOf(Cur) \cup {None} /\ c.links \in [Objs -> Int]
         /\ \A x \in Objs : c.links[x] = l[x] - B(o, x) + B(c.row, x)
         /\ KeyOf(c.row) \in Key
         /\ c.rval # 1 => c.row = None
<1> DEFINE K == {k \in (s.pos + 1)..Len(T.rows) : T.rows[k].ok}
           k == CHOOSE k \in K : \A j \in K : k <= j
           c == ChildItem(s, o, l)
           m == Closed(l, o)
<1>1. Cur \in Stmts /\ text \in Seq(QueryStatement)
  BY DEF Types
<1>2. T \in QueryStatement /\ ObjsOf(Cur) \subseteq Objs /\ None \notin Objs
  BY <1>1, ObjsFacts DEF T, Stmts
<1>3. T.rows \in Seq([g : Values, ok : BOOLEAN]) /\ Len(T.rows) \in Nat
      /\ DOMAIN T.rows = 1..Len(T.rows) /\ s.pos \in Nat
  BY <1>2 DEF QueryStatement, Tree
<1>4. ObjsOf(Cur) = {Cur} \X (1..Len(T.rows))
  BY <1>3 DEF ObjsOf, T
<1>5. m \in [Objs -> Int] /\ \A x \in Objs : m[x] = l[x] - B(o, x)
  BY <1>2, LinkedIs
<1>b. \A x, y : B(x, y) \in Int
  BY DEF B
<1> HIDE DEF m
<1>6. CASE K = {}
  <2>1. c.rval \in {-1, 0} /\ c.pos = Len(T.rows) + 1 /\ c.row = None /\ c.links = m
    BY <1>6 DEF ChildItem, m
  <2>2. \A x \in Objs : B(c.row, x) = 0
    BY <1>2, <2>1 DEF B
  <2>3. KeyOf(c.row) \in Key
    BY <2>1 DEF KeyOf, Key
  <2> HIDE DEF c, K
  <2> QED BY <1>3, <1>5, <1>b, <2>1, <2>2, <2>3 DEF c
<1>7. CASE K # {}
  <2>1. k \in 1..Len(T.rows)
    <3>1. K \in SUBSET Nat /\ K \subseteq 1..Len(T.rows)
      BY <1>3
    <3> HIDE DEF K
    <3>2. k \in K
      BY <1>7, <3>1, LeastNat
    <3> QED BY <3>1, <3>2
  <2>2. c.rval = 1 /\ c.pos = k /\ c.row = <<Cur, k>> /\ c.links = Linked(m, <<Cur, k>>)
    BY <1>7 DEF ChildItem, m
  <2> HIDE DEF c, K, k
  <2>3. c.row \in ObjsOf(Cur)
    BY <1>4, <2>1, <2>2
  <2>4. c.links \in [Objs -> Int] /\ \A x \in Objs : c.links[x] = m[x] + B(c.row, x)
    <3>1. c.links = Linked(m, c.row) /\ c.row \in Objs \cup {None}
      BY <1>2, <2>2, <2>3
    <3> QED BY <1>2, <1>5, <3>1, LinkedIs
  <2>5. KeyOf(c.row) \in Key
    <3>0. T.rows[k] \in [g : Values, ok : BOOLEAN]
      BY <1>3, <2>1, Element
    <3>1. T.rows[k].g \in Values
      BY <3>0
    <3>2. c.row # None /\ c.row[2] = k
      BY <1>2, <2>2, <2>3
    <3> QED BY <3>1, <3>2 DEF KeyOf, Key
  <2>6. \A x \in Objs : c.links[x] = l[x] - B(o, x) + B(c.row, x)
    BY <1>5, <1>b, <2>4
  <2>7. c.pos \in Nat
    BY <2>1, <2>2
  <2> QED BY <2>2, <2>3, <2>4, <2>5, <2>6, <2>7 DEF c
<1> QED BY <1>6, <1>7

LEMMA NextStatementIs ==
  ASSUME text \in Seq(QueryStatement),
         NEW q \in [links : Int, cur : Int, ended : BOOLEAN, open : BOOLEAN],
         NEW i \in Nat
  PROVE  LET n == NextStatement(q, i) IN
         /\ n \in [links : Int, cur : Int, ended : BOOLEAN, open : BOOLEAN]
         /\ n.links = q.links /\ n.open = q.open
         /\ n.cur = NoStmt \/ (n.cur \in Stmts /\ n.cur > i)
<1> DEFINE K == {k \in Stmts : k > i /\ text[k].kind # "immediate"}
           k == CHOOSE k \in K : \A j \in K : k <= j
           e == k = Len(text)
<1>1. Stmts = 1..Len(text) /\ Len(text) \in Nat
  BY ObjsFacts
<1>2. NoStmt \in Int /\ e \in BOOLEAN
  BY DEF NoStmt
<1>3. CASE K = {}
  <2>1. NextStatement(q, i) = [q EXCEPT !.cur = NoStmt, !.ended = TRUE]
    BY <1>3 DEF NextStatement
  <2> QED BY <1>2, <2>1
<1>4. CASE K # {}
  <2>1. k \in K
    <3>1. K \in SUBSET Nat
      BY <1>1
    <3> HIDE DEF K
    <3> QED BY <1>4, <3>1, LeastNat
  <2>2. k \in Stmts /\ k > i /\ k \in Int
    BY <1>1, <2>1
  <2>3. NextStatement(q, i) = [q EXCEPT !.cur = NoStmt, !.ended = e]
        \/ NextStatement(q, i) = [q EXCEPT !.cur = k, !.ended = e]
    BY <1>4 DEF NextStatement
  <2> HIDE DEF k, e
  <2> QED BY <1>2, <2>2, <2>3
<1> QED BY <1>3, <1>4

\* A statement that has just been started.
Begun == [NewStmt EXCEPT !.alive = TRUE, !.links = 1, !.finished = FALSE, !.started = 1]

LEMMA TreeBegins ==
  ASSUME NEW s \in Tree
  PROVE  LET t == [s EXCEPT !.alive = TRUE, !.links = 1, !.finished = FALSE, !.started = 1] IN
         /\ t \in Tree /\ t.links = 1 /\ t.saved = s.saved /\ t.started = 1
         /\ t.finished = FALSE /\ t.alive = TRUE /\ t.saving = s.saving
         /\ t.finishes = s.finishes
<1> DEFINE one == 1
           t == [s EXCEPT !.alive = TRUE, !.links = 1, !.finished = FALSE, !.started = 1]
           u == [s EXCEPT !.alive = TRUE]
           v == [u EXCEPT !.links = one]
           w == [v EXCEPT !.finished = FALSE]
           x == [w EXCEPT !.started = one]
<1>1. /\ u \in Tree /\ u.saved = s.saved /\ u.alive = TRUE
      /\ u.saving = s.saving /\ u.finishes = s.finishes
  BY DEF Tree
<1>2. t = x
  OBVIOUS
<1>a. one \in Int
  OBVIOUS
<1>b. one = 1
  OBVIOUS
<1> HIDE DEF t, u, one
<1>3. /\ v \in Tree /\ v.links = one /\ v.saved = u.saved /\ v.alive = u.alive
      /\ v.saving = u.saving /\ v.finishes = u.finishes
  BY <1>1, <1>a DEF Tree
<1> HIDE DEF v
<1>4. /\ w \in Tree /\ w.links = v.links /\ w.saved = v.saved /\ w.alive = v.alive
      /\ w.finished = FALSE /\ w.saving = v.saving /\ w.finishes = v.finishes
  BY <1>3 DEF Tree
<1> HIDE DEF w
<1>5. /\ x \in Tree /\ x.links = w.links /\ x.saved = w.saved /\ x.alive = w.alive
      /\ x.finished = w.finished /\ x.saving = w.saving /\ x.finishes = w.finishes
      /\ x.started = one
  BY <1>4, <1>a DEF Tree
<1> HIDE DEF x
<1> QED BY <1>1, <1>2, <1>3, <1>4, <1>5, <1>b DEF t

LEMMA NewStmtIs ==
  /\ NewStmt \in Tree /\ NewStmt.links = 0 /\ NewStmt.saved = None /\ NewStmt.started = 0
  /\ NewStmt.finished = TRUE /\ NewStmt.alive = FALSE /\ NewStmt.saving = FALSE
  /\ NewStmt.finishes = 0
  /\ Begun \in Tree /\ Begun.links = 1 /\ Begun.saved = None /\ Begun.started = 1
  /\ Begun.finished = FALSE /\ Begun.alive = TRUE /\ Begun.saving = FALSE
  /\ Begun.finishes = 0
<1>1. <<>> \in Seq(ObjRef) /\ <<>> \in Seq(Seq(ObjRef))
  OBVIOUS
<1>2. None \in ObjRef /\ None \in Key
  BY DEF ObjRef, Key
<1>3. /\ NewStmt \in Tree /\ NewStmt.links = 0 /\ NewStmt.saved = None
      /\ NewStmt.started = 0 /\ NewStmt.finished = TRUE /\ NewStmt.alive = FALSE
      /\ NewStmt.saving = FALSE /\ NewStmt.finishes = 0
  BY <1>1, <1>2 DEF NewStmt, Tree
<1> QED BY <1>3, TreeBegins DEF Begun

LEMMA StartsSound ==
  ASSUME NEW X
  PROVE  Sound(NewStmt, X) /\ Sound(Begun, X)
<1>1. NewStmt.alive = (NewStmt.links > 0) /\ Begun.alive = (Begun.links > 0)
  <2>1. (0 > 0) = FALSE /\ (1 > 0) = TRUE
    OBVIOUS
  <2> QED BY <2>1, NewStmtIs
<1>2. Sound(NewStmt, X)
  BY <1>1, NewStmtIs DEF Sound
<1>3. Sound(Begun, X)
  BY <1>1, NewStmtIs DEF Sound
<1> QED BY <1>2, <1>3

-----------------------------------------------------------------------------
(***************************************************************************)
(* Steps of a fetch.  A statement that works goes from S, objlist and      *)
(* links to t, p and m.                                                    *)
(***************************************************************************)
Works(t, p, m) ==
  /\ t \in Tree
  /\ t.saved \in ObjsOf(Cur) \cup {None}
  /\ t.saved # None => t.saving
  /\ t.saving => t.begun
  /\ t.started = 1 /\ t.finished = FALSE /\ t.finishes = 0
  /\ t.links = S.links /\ t.alive = S.alive
  /\ p \in ObjsOf(Cur) \cup {None} /\ m \in [Objs -> Int]
  /\ Same(Objs, S, objlist, links, t, p, m)

LEMMA SameText ==
  ASSUME text' = text
  PROVE  Stmts' = Stmts /\ Objs' = Objs /\ \A i : ObjsOf(i)' = ObjsOf(i)
BY DEF Stmts, Objs, ObjsOf

LEMMA OtherSaved ==
  ASSUME Types, NEW i \in Stmts, NEW z \in ObjsOf(i) \cup {None}, NEW x \in Objs, x[1] # i
  PROVE  B(z, x) = 0
BY ObjsFacts DEF Types, B

LEMMA AtWork ==
  ASSUME IInv, pc # "idle"
  PROVE  /\ Cur \in Stmts /\ Cur # NoStmt /\ qy.open /\ Works(S, objlist, links)
         /\ S \in Tree /\ S.links > 0 /\ S.alive = TRUE
         /\ ObjsOf(Cur) \subseteq Objs /\ None \notin Objs
<1>1. Cur \in Stmts /\ Cur # NoStmt /\ qy.open /\ S \in Tree /\ text \in Seq(QueryStatement)
  BY DEF IInv, Types, Current, S
<1>2. ObjsOf(Cur) \subseteq Objs /\ None \notin Objs
  BY <1>1, ObjsFacts
<1>3. Sound(S, ObjsOf(Cur))
  BY <1>1 DEF IInv, Sounds, S
<1>4. S.finished = FALSE /\ S.started = 1 /\ objlist \in ObjsOf(Cur) \cup {None}
  BY <1>1 DEF IInv, Current
<1>5. S.links = Cardinality(RowsOf(pseudo, Cur)) + 1
  BY <1>1 DEF IInv, StmtCounts, S, B
<1>6. S.links > 0
  BY <1>5, CountsAreNat
<1>7. Same(Objs, S, objlist, links, S, objlist, links)
  BY DEF Same
<1>8. S.alive = TRUE
  BY <1>3, <1>6 DEF Sound
<1>9. S.finishes = 0
  BY <1>3, <1>4 DEF Sound
<1>10. Works(S, objlist, links)
  BY <1>1, <1>3, <1>4, <1>7, <1>9 DEF Works, Sound, IInv, Types
<1> QED BY <1>1, <1>2, <1>6, <1>8, <1>10

LEMMA FetchKeeps ==
  ASSUME IInv, pc # "idle", NEW t, NEW p, NEW m, Works(t, p, m),
         stmt' = [stmt EXCEPT ![Cur] = t], objlist' = p, links' = m,
         qy' = qy, pseudo' = pseudo, text' = text,
         pc' \in {"idle", "next", "prime", "group", "regroup", "row"},
         pc' \in {"prime", "group"} => ~t.saving /\ t.begun,
         pc' = "regroup" => t.begun
  PROVE  IInv'
<1>1. /\ Cur \in Stmts /\ Cur # NoStmt /\ qy.open /\ S \in Tree /\ S.links > 0 /\ S.alive = TRUE
      /\ ObjsOf(Cur) \subseteq Objs /\ None \notin Objs
  BY AtWork
<1>2. Stmts' = Stmts /\ Objs' = Objs /\ \A i : ObjsOf(i)' = ObjsOf(i)
  BY SameText
<1>3. Types /\ stmt \in [Stmts -> Tree]
  BY DEF IInv, Types
<1>4. stmt'[Cur] = t /\ (\A i \in Stmts : i # Cur => stmt'[i] = stmt[i])
      /\ stmt' \in [Stmts -> Tree]
  BY <1>1, <1>3 DEF Works
<1>5. Cur' = Cur /\ S' = t
  BY <1>4 DEF Cur, S
<1>6. Types'
  BY <1>1, <1>2, <1>3, <1>4, <1>5 DEF Types, Works
<1>7. Sounds'
  <2>0. t.alive = (t.links > 0)
    <3>1. t.alive = TRUE /\ t.links > 0
      BY <1>1 DEF Works
    <3>2. (t.links > 0) = TRUE
      BY <3>1
    <3> QED BY <3>1, <3>2
  <2>1. Sound(t, ObjsOf(Cur))
    BY <2>0 DEF Works, Sound
  <2>2. \A i \in Stmts : Sound(stmt'[i], ObjsOf(i))
    BY <1>4, <2>1 DEF IInv, Sounds
  <2> QED BY <1>2, <2>2 DEF Sounds
<1>8. Current'
  <2>1. S'.started = 1 /\ S'.finished = FALSE /\ qy'.open = TRUE
        /\ objlist' \in ObjsOf(Cur)' \cup {None}
    BY <1>1, <1>2, <1>3, <1>5 DEF Works, Types
  <2>2. \A i \in Stmts : i > Cur => stmt'[i] = NewStmt
    BY <1>1, <1>4, ObjsFacts, <1>3 DEF IInv, Current, Types
  <2>3. \A i \in Stmts : i # Cur => stmt'[i].finished
    BY <1>4 DEF IInv, Current
  <2> QED BY <1>1, <1>2, <1>5, <2>1, <2>2, <2>3 DEF Current
<1>9. LinkCounts'
  <2> SUFFICES ASSUME NEW x \in Objs
               PROVE  m[x] = Cardinality(ObjRows(pseudo, x)) + B(p, x) + B(stmt'[x[1]].saved, x)
    BY <1>2 DEF LinkCounts
  <2>0. \A y, z : B(y, z) \in Int
    BY DEF B
  <2>1. links[x] = Cardinality(ObjRows(pseudo, x)) + B(objlist, x) + B(stmt[x[1]].saved, x)
    BY DEF IInv, LinkCounts
  <2>2. m[x] - B(p, x) - B(t.saved, x) = links[x] - B(objlist, x) - B(S.saved, x)
    BY DEF Works, Same
  <2>3. m[x] \in Int /\ links[x] \in Int /\ Cardinality(ObjRows(pseudo, x)) \in Int
    BY <1>3, CountsAreNat DEF Works, Types
  <2>4. CASE x[1] = Cur
    BY <1>4, <2>0, <2>1, <2>2, <2>3, <2>4 DEF S
  <2>5. CASE x[1] # Cur
    <3>1. B(t.saved, x) = 0 /\ B(S.saved, x) = 0
      BY <1>1, <1>3, <2>5, OtherSaved, AtWork DEF Works
    <3>2. stmt'[x[1]] = stmt[x[1]]
      BY <1>3, <1>4, <2>5, ObjsFacts DEF Types
    <3> QED BY <3>1, <3>2, <2>0, <2>1, <2>2, <2>3
  <2> QED BY <2>4, <2>5
<1>10. StmtCounts'
  BY <1>1, <1>2, <1>4, <1>5 DEF IInv, StmtCounts, Works, S
<1>11. QueryCount'
  BY DEF IInv, QueryCount
<1> QED BY <1>6, <1>7, <1>8, <1>9, <1>10, <1>11 DEF IInv

LEMMA NextStmtIs ==
  ASSUME Types, NEW st \in [Stmts -> Tree], NEW k \in Stmts \cup {NoStmt}
  PROVE  /\ StartedStmt(st, k) \in [Stmts -> Tree]
         /\ \A i \in Stmts : StartedStmt(st, k)[i] = IF i = k THEN Begun ELSE st[i]
<1>1. \A i \in Stmts : i # NoStmt
  BY ObjsFacts DEF Types, NoStmt
<1>2. CASE k = NoStmt
  BY <1>1, <1>2 DEF StartedStmt
<1>3. CASE k # NoStmt
  <2>1. StartedStmt(st, k) = [st EXCEPT ![k] = Begun]
    BY <1>3 DEF StartedStmt, Begun
  <2> QED BY <1>3, <2>1, NewStmtIs
<1> QED BY <1>2, <1>3

LEMMA EndsStatement ==
  ASSUME IInv, pc # "idle", NEW s, NEW o, NEW l, Works(s, o, l),
         EndOfStatement(s, o, l), pseudo' = pseudo, text' = text
  PROVE  IInv'
<1> DEFINE f == FinishStatement(s, o, l)
           t == f.stmt
           m == f.links
           d == Dropped(t)
           q == NextStatement(qy, Cur)
           k == q.cur
<1>1. /\ Cur \in Stmts /\ Cur # NoStmt /\ qy.open /\ S \in Tree /\ S.links > 0 /\ S.alive = TRUE
      /\ ObjsOf(Cur) \subseteq Objs /\ None \notin Objs
  BY AtWork
<1>2. Stmts' = Stmts /\ Objs' = Objs /\ \A i : ObjsOf(i)' = ObjsOf(i)
  BY SameText
<1>3. Types /\ stmt \in [Stmts -> Tree] /\ text \in Seq(QueryStatement)
  BY DEF IInv, Types
<1>4. /\ t \in Tree /\ m \in [Objs -> Int]
      /\ Started(t, ObjsOf(Cur)) /\ t.finished
      /\ t.links = s.links /\ t.alive = s.alive
      /\ f.objlist = None
      /\ Same(Objs, s, o, l, t, None, m)
  <2>1. /\ Started(s, ObjsOf(Cur)) /\ o \in Objs \cup {None} /\ l \in [Objs -> Int]
        /\ s.finished = FALSE
    BY <1>1 DEF Works, Started
  <2>2. /\ f.stmt \in Tree /\ f.links \in [Objs -> Int]
        /\ Started(f.stmt, ObjsOf(Cur)) /\ f.stmt.finished
        /\ f.stmt.links = s.links /\ f.stmt.alive = s.alive
        /\ f.objlist = None
        /\ Same(Objs, s, o, l, f.stmt, f.objlist, f.links)
    <3>1. /\ ObjsOf(Cur) \in SUBSET Objs /\ None \notin Objs /\ Started(s, ObjsOf(Cur))
          /\ o \in Objs \cup {None} /\ l \in [Objs -> Int] /\ s.finished = FALSE
      BY <1>1, <2>1
    <3>2. f.stmt \in Tree /\ f.links \in [Objs -> Int]
      BY ONLY <3>1, FinishStatementIs DEF f
    <3>3. Started(f.stmt, ObjsOf(Cur)) /\ f.stmt.finished
      BY ONLY <3>1, FinishStatementIs DEF f
    <3>4. f.stmt.links = s.links /\ f.stmt.alive = s.alive
      <4>1. Keeps(s, f.stmt)
        BY ONLY <3>1, FinishStatementIs DEF f
      <4> QED BY <4>1 DEF Keeps
    <3>5. f.objlist = None
      BY ONLY <3>1, FinishStatementIs DEF f
    <3>6. Same(Objs, s, o, l, f.stmt, f.objlist, f.links)
      BY ONLY <3>1, FinishStatementIs DEF f
    <3> QED BY <3>2, <3>3, <3>4, <3>5, <3>6
  <2> QED BY <2>2
<1>5. CloseStatement(t, f.objlist, f.links) = [stmt |-> d, objlist |-> f.objlist, links |-> m]
  <2>1. t.links > 0 /\ t.alive = TRUE
    BY <1>1, <1>4 DEF Works
  <2>2. (t.links > 0) = TRUE
    BY <2>1
  <2> HIDE DEF t, d
  <2>3. CloseStatement(t, f.objlist, f.links)
          = [stmt |-> Dropped(t), objlist |-> f.objlist, links |-> f.links]
    BY <1>4, <2>1, <2>2, CloseStatementIs
  <2> QED BY <2>3 DEF d
<1>6. /\ d \in Tree /\ d.saved = t.saved /\ d.saving = t.saving
      /\ d.begun = t.begun /\ d.finishes = t.finishes /\ d.finished = t.finished
      /\ d.started = t.started
      /\ d.links = t.links - 1 /\ d.alive = (d.links > 0)
  <2> HIDE DEF t
  <2> QED BY <1>4, TreeDropped
<1>7. /\ q \in [links : Int, cur : Int, ended : BOOLEAN, open : BOOLEAN]
      /\ q.links = qy.links /\ q.open = qy.open
      /\ k = NoStmt \/ (k \in Stmts /\ k > Cur)
  BY <1>1, <1>3, ObjsFacts, NextStatementIs DEF Types
<1>8. /\ qy' = q /\ objlist' = None /\ links' = m
      /\ stmt' = StartedStmt([stmt EXCEPT ![Cur] = d], k)
      /\ pc' = IF k = NoStmt THEN "idle" ELSE "next"
  BY <1>4, <1>5 DEF EndOfStatement
<1>9. Same(Objs, S, objlist, links, t, None, m)
  <2>1. Same(Objs, S, objlist, links, s, o, l) /\ l \in [Objs -> Int] /\ links \in [Objs -> Int]
    BY <1>3 DEF Works, Types
  <2>2. Same(Objs, s, o, l, t, None, m) /\ m \in [Objs -> Int]
    BY <1>4
  <2> HIDE DEF t, m, f
  <2>3. \A y, z : B(y, z) \in Int
    BY DEF B
  <2> QED BY <2>1, <2>2, <2>3 DEF Same
<1>10. Started(d, ObjsOf(Cur)) /\ d.links = S.links - 1 /\ d.finished
  BY <1>4, <1>6 DEF Started, Works
<1> HIDE DEF f, t, m, d, q, k
<1>11. /\ stmt' \in [Stmts -> Tree]
       /\ \A i \in Stmts : stmt'[i] = IF i = k THEN Begun ELSE IF i = Cur THEN d ELSE stmt[i]
  <2> DEFINE st == [stmt EXCEPT ![Cur] = d]
  <2>1. st \in [Stmts -> Tree] /\ st[Cur] = d /\ \A i \in Stmts : i # Cur => st[i] = stmt[i]
    BY <1>1, <1>3, <1>6
  <2> HIDE DEF st
  <2>2. stmt' = StartedStmt(st, k)
    BY <1>8 DEF st
  <2> QED BY <1>3, <1>7, <2>1, <2>2, NextStmtIs
<1>12. Cur' = k /\ k \in Stmts \cup {NoStmt} /\ k # Cur /\ (k # NoStmt => S' = Begun)
       /\ (k \in Stmts => k # NoStmt /\ k > Cur /\ stmt[k] = NewStmt)
  <2>1. Cur' = k
    BY <1>8 DEF Cur, k
  <2>2. k \in Stmts \cup {NoStmt}
    BY <1>7
  <2>3. k # Cur
    BY <1>1, <1>3, <1>7, ObjsFacts
  <2>4. k # NoStmt => S' = Begun
    BY <1>11, <2>1, <2>2 DEF S
  <2>5. k \in Stmts => k # NoStmt
    BY <1>3, ObjsFacts DEF NoStmt
  <2>6. k \in Stmts => k > Cur
    BY <1>7, <2>5
  <2>7. k \in Stmts => stmt[k] = NewStmt
    BY <1>1, <2>6 DEF IInv, Current
  <2> QED BY <2>1, <2>2, <2>3, <2>4, <2>5, <2>6, <2>7
<1>13. Types'
  BY <1>2, <1>3, <1>4, <1>7, <1>8, <1>11, <1>12 DEF Types
<1>14. Sounds'
  <2>1. Sound(d, ObjsOf(Cur))
    BY <1>6, <1>10 DEF Started, Sound
  <2>2. \A i \in Stmts : Sound(stmt'[i], ObjsOf(i))
    BY <1>11, <2>1, StartsSound DEF IInv, Sounds
  <2> QED BY <1>2, <2>2 DEF Sounds
<1>15. Current'
  <2>1. \A i \in Stmts : i # k => stmt'[i].finished
    BY <1>10, <1>11 DEF IInv, Current
  <2>2. ASSUME k # NoStmt, NEW i \in Stmts, i > k PROVE stmt'[i] = NewStmt
    <3>1. i > Cur /\ i # k /\ i # Cur
      BY <1>1, <1>3, <1>7, <2>2, ObjsFacts
    <3> QED BY <1>1, <1>11, <3>1 DEF IInv, Current
  <2>3. qy'.open = TRUE /\ objlist' = None
    BY <1>1, <1>3, <1>7, <1>8 DEF Types
  <2>4. k # NoStmt => S'.started = 1 /\ S'.finished = FALSE
    BY <1>12, NewStmtIs
  <2> QED BY <1>2, <1>8, <1>12, <2>1, <2>2, <2>3, <2>4 DEF Current
<1>16. LinkCounts'
  <2> SUFFICES ASSUME NEW x \in Objs
               PROVE  m[x] = Cardinality(ObjRows(pseudo, x)) + B(None, x) + B(stmt'[x[1]].saved, x)
    BY <1>2, <1>8 DEF LinkCounts
  <2>0. \A y, z : B(y, z) \in Int
    BY DEF B
  <2>a. x[1] \in Stmts
    BY <1>3, ObjsFacts
  <2>1. links[x] = Cardinality(ObjRows(pseudo, x)) + B(objlist, x) + B(stmt[x[1]].saved, x)
    BY DEF IInv, LinkCounts
  <2>2. m[x] - B(None, x) - B(t.saved, x) = links[x] - B(objlist, x) - B(S.saved, x)
    BY <1>9 DEF Same
  <2>3. m[x] \in Int /\ links[x] \in Int /\ Cardinality(ObjRows(pseudo, x)) \in Int
    BY <1>3, <1>4, CountsAreNat DEF Types
  <2>4. CASE x[1] = Cur
    <3>1. stmt'[x[1]].saved = t.saved
      BY <1>6, <1>11, <1>12, <2>a, <2>4
    <3> QED BY <3>1, <2>0, <2>1, <2>2, <2>3, <2>4 DEF S
  <2>5. CASE x[1] # Cur
    <3>1. B(t.saved, x) = 0 /\ B(S.saved, x) = 0
      BY <1>1, <1>3, <1>4, <2>5, OtherSaved, AtWork DEF Works, Started
    <3>2. stmt'[x[1]].saved = stmt[x[1]].saved
      <4>1. CASE x[1] = k
        <5>1. stmt'[x[1]] = Begun /\ stmt[x[1]] = NewStmt
          BY <1>11, <1>12, <2>a, <4>1
        <5> QED BY <5>1, NewStmtIs
      <4>2. CASE x[1] # k
        BY <1>11, <2>a, <2>5, <4>2
      <4> QED BY <4>1, <4>2
    <3>3. B(stmt'[x[1]].saved, x) = B(stmt[x[1]].saved, x)
      BY <3>2
    <3>4. m[x] - B(None, x) = links[x] - B(objlist, x)
      BY <3>1, <2>0, <2>2, <2>3
    <3> HIDE DEF k
    <3> QED BY <3>3, <3>4, <2>0, <2>1, <2>3
  <2> QED BY <2>4, <2>5
<1>17. StmtCounts'
  <2> SUFFICES ASSUME NEW i \in Stmts
               PROVE  stmt'[i].links = Cardinality(RowsOf(pseudo, i)) + B(k, i)
    BY <1>2, <1>12 DEF StmtCounts
  <2>1. stmt[i].links = Cardinality(RowsOf(pseudo, i)) + B(Cur, i)
    BY DEF IInv, StmtCounts
  <2>2. Cardinality(RowsOf(pseudo, i)) \in Int
    BY CountsAreNat
  <2>3. CASE i = k
    <3>1. stmt[i] = NewStmt
      BY <1>12, <2>3
    <3> QED BY <1>11, <1>12, <2>1, <2>2, <2>3, <3>1, NewStmtIs DEF B
  <2>4. CASE i = Cur
    BY <1>10, <1>11, <1>12, <2>1, <2>2, <2>4 DEF B, S
  <2>5. CASE i # k /\ i # Cur
    BY <1>11, <2>1, <2>5 DEF B
  <2> QED BY <2>3, <2>4, <2>5
<1>18. QueryCount'
  BY <1>7, <1>8 DEF IInv, QueryCount
<1> QED BY <1>13, <1>14, <1>15, <1>16, <1>17, <1>18 DEF IInv

\* As far as its end and its links go, the same.
Alike(s, t) ==
  /\ t.saved = s.saved /\ t.saving = s.saving /\ (s.begun => t.begun)
  /\ t.started = s.started /\ t.finished = s.finished /\ t.finishes = s.finishes
  /\ t.links = s.links /\ t.alive = s.alive

LEMMA WorksAlike ==
  ASSUME NEW s, NEW p, NEW m, Works(s, p, m), NEW t \in Tree, Alike(s, t)
  PROVE  Works(t, p, m)
<1>1. Same(Objs, S, objlist, links, t, p, m)
  BY DEF Works, Same, Alike
<1> QED BY <1>1 DEF Works, Alike

LEMMA TreePos ==
  ASSUME NEW s \in Tree, NEW n \in Nat
  PROVE  LET t == [s EXCEPT !.pos = n] IN t \in Tree /\ Alike(s, t) /\ t.begun = s.begun
BY DEF Tree, Alike

LEMMA TreeBegun ==
  ASSUME NEW s \in Tree
  PROVE  LET t == [s EXCEPT !.begun = TRUE] IN t \in Tree /\ Alike(s, t) /\ t.begun = TRUE
BY DEF Tree, Alike

LEMMA TreeIter ==
  ASSUME NEW s \in Tree, NEW n \in Int
  PROVE  LET t == [s EXCEPT !.iter = n] IN t \in Tree /\ Alike(s, t) /\ t.begun = s.begun
BY DEF Tree, Alike

LEMMA TreeUser ==
  ASSUME NEW s \in Tree, NEW n \in Int
  PROVE  LET t == [s EXCEPT !.user = n] IN t \in Tree /\ Alike(s, t) /\ t.begun = s.begun
BY DEF Tree, Alike

LEMMA TreeLast ==
  ASSUME NEW s \in Tree, NEW b \in BOOLEAN
  PROVE  LET t == [s EXCEPT !.last = b] IN t \in Tree /\ Alike(s, t) /\ t.begun = s.begun
BY DEF Tree, Alike

LEMMA TreeKey ==
  ASSUME NEW s \in Tree, NEW k \in Key
  PROVE  LET t == [s EXCEPT !.key = k] IN t \in Tree /\ Alike(s, t) /\ t.begun = s.begun
BY DEF Tree, Alike

LEMMA TreeAgg ==
  ASSUME NEW s \in Tree, NEW a \in Seq(ObjRef)
  PROVE  LET t == [s EXCEPT !.agg = a] IN t \in Tree /\ Alike(s, t) /\ t.begun = s.begun
BY DEF Tree, Alike

LEMMA TreeAgg2 ==
  ASSUME NEW s \in Tree, NEW a \in Seq(Seq(ObjRef))
  PROVE  LET t == [s EXCEPT !.agg2 = a] IN t \in Tree /\ Alike(s, t) /\ t.begun = s.begun
BY DEF Tree, Alike

Saves(s, z, b) == [s EXCEPT !.saved = z, !.saving = b]

LEMMA TreeSaves ==
  ASSUME NEW s \in Tree, NEW z \in ObjRef, NEW b \in BOOLEAN
  PROVE  LET t == Saves(s, z, b) IN
         /\ t \in Tree /\ t.saved = z /\ t.saving = b /\ t.begun = s.begun
         /\ t.started = s.started /\ t.finished = s.finished /\ t.finishes = s.finishes
         /\ t.links = s.links /\ t.alive = s.alive
<1> DEFINE t == [s EXCEPT !.saved = z, !.saving = b]
<1>1. /\ t \in Tree /\ t.saved = z /\ t.begun = s.begun
      /\ t.started = s.started /\ t.finished = s.finished /\ t.finishes = s.finishes
      /\ t.links = s.links /\ t.alive = s.alive
  BY DEF Tree
<1>2. t.saving = b
  BY DEF Tree
<1> QED BY <1>1, <1>2 DEF Saves

LEMMA AlikeAlike ==
  ASSUME NEW s, NEW t, NEW u, Alike(s, t), Alike(t, u)
  PROVE  Alike(s, u)
BY DEF Alike

LEMMA Source ==
  ASSUME IInv, pc # "idle"
  PROVE  LET c == ChildItem(S, objlist, links) IN
         /\ c.rval \in {-1, 0, 1} /\ c.pos \in Nat
         /\ KeyOf(c.row) \in Key
         /\ c.rval # 1 => c.row = None
         /\ Works(S, c.row, c.links)
<1> DEFINE c == ChildItem(S, objlist, links)
<1>1. /\ Cur # NoStmt /\ Types /\ S \in Tree /\ objlist \in Objs \cup {None}
      /\ links \in [Objs -> Int] /\ Works(S, objlist, links)
  BY AtWork DEF IInv, Types
<1>2. /\ c.rval \in {-1, 0, 1} /\ c.pos \in Nat
      /\ c.row \in ObjsOf(Cur) \cup {None} /\ c.links \in [Objs -> Int]
      /\ \A x \in Objs : c.links[x] = links[x] - B(objlist, x) + B(c.row, x)
      /\ KeyOf(c.row) \in Key
      /\ (c.rval # 1 => c.row = None)
  BY <1>1, ChildItemIs
<1> HIDE DEF c
<1>3. \A x, y : B(x, y) \in Int
  BY DEF B
<1>4. Same(Objs, S, objlist, links, S, c.row, c.links)
  BY <1>1, <1>2, <1>3 DEF Same
<1>5. Works(S, c.row, c.links)
  BY <1>1, <1>2, <1>4 DEF Works
<1> QED BY <1>2, <1>5 DEF c

LEMMA LimitReachedKeeps == ASSUME IInv, LimitReached PROVE IInv'
<1>1. pc # "idle" /\ EndOfStatement(S, objlist, links) /\ pseudo' = pseudo /\ text' = text
  BY DEF LimitReached, At
<1> QED BY <1>1, AtWork, EndsStatement

LEMMA NextPlainKeeps == ASSUME IInv, NextPlain PROVE IInv'
<1> DEFINE c == ChildItem(S, objlist, links)
           n == c.pos
           u == [S EXCEPT !.pos = n]
           t == [u EXCEPT !.begun = TRUE]
<1>1. /\ pc # "idle" /\ pseudo' = pseudo /\ text' = text
      /\ IF c.rval = 0 THEN EndOfStatement(t, None, c.links)
         ELSE /\ stmt' = [stmt EXCEPT ![Cur] = t] /\ objlist' = c.row /\ links' = c.links
              /\ pc' \in {"row", "idle"} /\ qy' = qy
  BY DEF NextPlain, At, Set
<1>2. c.rval \in {-1, 0, 1} /\ n \in Nat /\ (c.rval # 1 => c.row = None)
      /\ Works(S, c.row, c.links) /\ S \in Tree
  BY <1>1, Source, AtWork
<1> HIDE DEF c, n
<1>3. u \in Tree /\ Alike(S, u)
  BY <1>2, TreePos
<1> HIDE DEF u
<1>4. t \in Tree /\ Alike(u, t)
  BY <1>3, TreeBegun
<1> HIDE DEF t
<1>5. Works(t, c.row, c.links)
  BY <1>2, <1>3, <1>4, AlikeAlike, WorksAlike
<1>6. CASE c.rval = 0
  <2>1. c.row = None /\ EndOfStatement(t, None, c.links)
    BY <1>1, <1>2, <1>6
  <2>2. Works(t, None, c.links)
    BY <1>5, <2>1
  <2> QED BY <1>1, <2>1, <2>2, EndsStatement
<1>7. CASE c.rval # 0
  BY <1>1, <1>5, <1>7, FetchKeeps
<1> QED BY <1>6, <1>7

LEMMA NextGroupKeeps == ASSUME IInv, NextGroup PROVE IInv'
<1> DEFINE e == GroupEntered(S, objlist, links)
           a == <<>>
           u == [S EXCEPT !.begun = TRUE]
           v == [u EXCEPT !.agg = a]
           z == None
           b == FALSE
           w == Saves(v, z, b)
           m == Closed(links, objlist)
<1>1. /\ pc # "idle" /\ pseudo' = pseudo /\ text' = text
      /\ IF S.last THEN EndOfStatement(e.stmt, e.objlist, e.links)
         ELSE /\ stmt' = [stmt EXCEPT ![Cur] = e.stmt] /\ objlist' = e.objlist
              /\ links' = e.links /\ pc' \in {"prime", "group"} /\ qy' = qy
  BY DEF NextGroup, At, Set
<1>2. e = IF S.saving /\ S.begun THEN [stmt |-> w, objlist |-> S.saved, links |-> m]
          ELSE [stmt |-> v, objlist |-> objlist, links |-> links]
  BY DEF GroupEntered, Saves
<1>3. Works(S, objlist, links) /\ S \in Tree /\ ObjsOf(Cur) \subseteq Objs /\ None \notin Objs
      /\ links \in [Objs -> Int] /\ objlist \in Objs \cup {None}
  BY <1>1, AtWork DEF IInv, Types
<1>4. a \in Seq(ObjRef) /\ z \in ObjRef /\ b \in BOOLEAN /\ z = None /\ b = FALSE
  BY DEF ObjRef
<1>5. m \in [Objs -> Int] /\ \A x \in Objs : m[x] = links[x] - B(objlist, x)
  BY <1>3, LinkedIs
<1> HIDE DEF e, a, z, b, m
<1>6. u \in Tree /\ Alike(S, u) /\ u.begun = TRUE
  BY <1>3, TreeBegun
<1> HIDE DEF u
<1>7. v \in Tree /\ Alike(u, v) /\ v.begun = u.begun
  BY <1>4, <1>6, TreeAgg
<1> HIDE DEF v
<1>8. Works(v, objlist, links)
  BY <1>3, <1>6, <1>7, AlikeAlike, WorksAlike
<1>9. /\ w \in Tree /\ w.saved = z /\ w.saving = b /\ w.begun = v.begun
      /\ w.started = v.started /\ w.finished = v.finished /\ w.finishes = v.finishes
      /\ w.links = v.links /\ w.alive = v.alive
  BY <1>4, <1>7, TreeSaves
<1> HIDE DEF w
<1>10. Works(w, S.saved, m)
  <2>1. Same(Objs, S, objlist, links, w, S.saved, m)
    <3>1. \A x \in Objs : B(w.saved, x) = 0
      BY <1>3, <1>4, <1>9 DEF B
    <3>2. \A x, y : B(x, y) \in Int
      BY DEF B
    <3> QED BY <1>3, <1>5, <3>1, <3>2 DEF Same
  <2> QED BY <1>3, <1>4, <1>5, <1>8, <1>9, <2>1 DEF Works
<1>11. Works(e.stmt, e.objlist, e.links) /\ e.stmt.begun = TRUE /\ ~e.stmt.saving
  <2>1. CASE S.saving /\ S.begun
    BY <1>2, <1>4, <1>6, <1>7, <1>9, <1>10, <2>1
  <2>2. CASE ~(S.saving /\ S.begun)
    <3>1. ~S.saving /\ v.saving = S.saving
      BY <1>3, <1>6, <1>7, <2>2 DEF Works, Alike
    <3> QED BY <1>2, <1>6, <1>7, <1>8, <2>2, <3>1
  <2> QED BY <2>1, <2>2
<1>12. CASE S.last
  BY <1>1, <1>11, <1>12, EndsStatement
<1>13. CASE ~S.last
  BY <1>1, <1>11, <1>13, FetchKeeps
<1> QED BY <1>12, <1>13

LEMMA PrimeKeeps == ASSUME IInv, Prime PROVE IInv'
<1> DEFINE c == ChildItem(S, objlist, links)
           n == c.pos
           s == [S EXCEPT !.pos = n]
           b == TRUE
           u == [s EXCEPT !.last = b]
           k == KeyOf(c.row)
           v == [s EXCEPT !.key = k]
           t == IF c.rval = 0 THEN u ELSE v
<1>1. /\ pc = "prime" /\ pseudo' = pseudo /\ text' = text
      /\ \/ c.rval = 0 /\ EndOfStatement(s, None, c.links)
         \/ /\ stmt' = [stmt EXCEPT ![Cur] = t] /\ objlist' = c.row /\ links' = c.links
            /\ pc' \in {"row", "group"} /\ qy' = qy
  BY DEF Prime, At, Set
<1>2. c.rval \in {-1, 0, 1} /\ n \in Nat /\ (c.rval # 1 => c.row = None) /\ k \in Key
      /\ Works(S, c.row, c.links) /\ S \in Tree
  BY <1>1, Source, AtWork
<1>3. b \in BOOLEAN
  OBVIOUS
<1>4. ~S.saving /\ S.begun
  BY <1>1 DEF IInv, Current
<1> HIDE DEF c, n, b, k
<1>5. s \in Tree /\ Alike(S, s)
  BY <1>2, TreePos
<1> HIDE DEF s
<1>6. u \in Tree /\ Alike(s, u) /\ v \in Tree /\ Alike(s, v)
  BY <1>2, <1>3, <1>5, TreeLast, TreeKey
<1> HIDE DEF u, v
<1>7. t \in Tree /\ Alike(s, t)
  BY <1>6
<1> HIDE DEF t
<1>8. Works(s, c.row, c.links)
  BY <1>2, <1>5, WorksAlike
<1>9. Works(t, c.row, c.links) /\ ~t.saving /\ t.begun
  <2>1. Works(t, c.row, c.links)
    BY <1>7, <1>8, WorksAlike
  <2> QED BY <1>4, <1>5, <1>7, <2>1 DEF Alike
<1>10. CASE c.rval = 0 /\ EndOfStatement(s, None, c.links)
  <2>1. Works(s, None, c.links)
    BY <1>2, <1>8, <1>10
  <2> QED BY <1>1, <1>10, <2>1, EndsStatement
<1>11. CASE /\ stmt' = [stmt EXCEPT ![Cur] = t] /\ objlist' = c.row /\ links' = c.links
            /\ pc' \in {"row", "group"} /\ qy' = qy
  BY <1>1, <1>9, <1>11, FetchKeeps
<1> QED BY <1>1, <1>10, <1>11

LEMMA TreeSaved ==
  ASSUME NEW s \in Tree, NEW z \in ObjRef
  PROVE  LET t == [s EXCEPT !.saved = z] IN
         /\ t \in Tree /\ t.saved = z /\ t.saving = s.saving /\ t.begun = s.begun
         /\ t.started = s.started /\ t.finished = s.finished /\ t.finishes = s.finishes
         /\ t.links = s.links /\ t.alive = s.alive
BY DEF Tree

LEMMA GroupKeeps == ASSUME IInv, Group PROVE IInv'
<1> DEFINE ll == Linked(links, objlist)
           c == ChildItem(S, objlist, ll)
           n == c.pos
           r == c.row
           a == Append(S.agg, objlist)
           yes == TRUE
           no == FALSE
           z == None
           b == (c.rval = 0)
           k == IF c.rval = 0 THEN S.key ELSE KeyOf(c.row)
           m == Closed(c.links, objlist)
           u == [S EXCEPT !.agg = a]
           s == Saves(u, objlist, yes)
           t == [s EXCEPT !.pos = n]
           t2 == Saves(t, z, no)
           v == [t EXCEPT !.saved = r]
           w == [v EXCEPT !.last = b]
           t3 == [w EXCEPT !.key = k]
<1>1. /\ pc = "group" /\ pseudo' = pseudo /\ text' = text /\ qy' = qy
      /\ \/ /\ c.rval = -1 /\ stmt' = [stmt EXCEPT ![Cur] = t]
            /\ objlist' = r /\ links' = c.links /\ pc' = "idle"
         \/ /\ stmt' = [stmt EXCEPT ![Cur] = t2]
            /\ objlist' = r /\ links' = Closed(c.links, s.saved) /\ pc' = "group"
         \/ /\ stmt' = [stmt EXCEPT ![Cur] = t3]
            /\ objlist' = s.saved /\ links' = c.links /\ pc' \in {"regroup", "row"}
  <2>1. s = [S EXCEPT !.agg = Append(@, objlist), !.saved = objlist, !.saving = TRUE]
    BY DEF Saves
  <2>2. t2 = [s EXCEPT !.pos = c.pos, !.saved = None, !.saving = FALSE]
    BY DEF Saves
  <2>3. s.key = S.key => t3 = [s EXCEPT !.pos = c.pos, !.saved = c.row, !.last = (c.rval = 0),
                                    !.key = IF c.rval = 0 THEN @ ELSE KeyOf(c.row)]
    OBVIOUS
  <2>4. s.key = S.key
    BY <2>1, AtWork DEF Group, At, Tree
  <2> HIDE DEF t2, t3, s
  <2> QED BY <2>1, <2>2, <2>3, <2>4 DEF Group, At, Set
<1>2. /\ Works(S, objlist, links) /\ S \in Tree /\ ObjsOf(Cur) \subseteq Objs /\ None \notin Objs
      /\ links \in [Objs -> Int] /\ objlist \in Objs \cup {None} /\ Cur # NoStmt /\ Types
      /\ Objs \subseteq ObjRef
  BY <1>1, AtWork, ObjsFacts DEF IInv, Types
<1>3. S.saved = None /\ S.saving = FALSE /\ S.begun
  BY <1>1, <1>2 DEF IInv, Current, Works, Tree
<1>4. ll \in [Objs -> Int] /\ \A x \in Objs : ll[x] = links[x] + B(objlist, x)
  BY <1>2, LinkedIs
<1> HIDE DEF ll
<1>5. /\ c.rval \in {-1, 0, 1} /\ n \in Nat
      /\ r \in ObjsOf(Cur) \cup {None} /\ c.links \in [Objs -> Int]
      /\ \A x \in Objs : c.links[x] = ll[x] - B(objlist, x) + B(r, x)
      /\ KeyOf(r) \in Key
  BY <1>2, <1>4, ChildItemIs
<1> HIDE DEF c
<1>6. /\ objlist \in ObjRef /\ r \in ObjRef /\ a \in Seq(ObjRef)
      /\ k \in Key /\ b \in BOOLEAN
  <2>1. objlist \in ObjRef /\ r \in ObjRef
    BY <1>2, <1>5 DEF ObjRef
  <2>2. S.agg \in Seq(ObjRef) /\ S.key \in Key
    BY <1>2 DEF Tree
  <2> QED BY <1>5, <2>1, <2>2
<1>7. yes = TRUE /\ no = FALSE /\ z = None /\ z \in ObjRef /\ yes \in BOOLEAN /\ no \in BOOLEAN
  BY DEF ObjRef
<1>8. m \in [Objs -> Int] /\ \A x \in Objs : m[x] = c.links[x] - B(objlist, x)
  <2> DEFINE cl == c.links
  <2>1. cl \in [Objs -> Int] /\ m = Closed(cl, objlist)
    BY <1>5
  <2> HIDE DEF cl, m
  <2>2. m \in [Objs -> Int] /\ \A x \in Objs : m[x] = cl[x] - B(objlist, x)
    BY <1>2, <2>1, LinkedIs
  <2> QED BY <2>2 DEF cl
<1> HIDE DEF n, r, a, yes, no, z, b, k, m
<1>9. u \in Tree /\ Alike(S, u) /\ u.begun = S.begun
  BY <1>2, <1>6, TreeAgg
<1> HIDE DEF u
<1>10. /\ s \in Tree /\ s.saved = objlist /\ s.saving = yes /\ s.begun = u.begun
       /\ s.started = u.started /\ s.finished = u.finished /\ s.finishes = u.finishes
       /\ s.links = u.links /\ s.alive = u.alive
  BY ZenonT(40), <1>6, <1>7, <1>9, TreeSaves
<1> HIDE DEF s
<1>11. t \in Tree /\ Alike(s, t) /\ t.begun = s.begun
  BY <1>5, <1>10, TreePos
<1> HIDE DEF t
<1>12. /\ t.saved = objlist /\ t.saving = TRUE /\ t.begun = TRUE
       /\ t.started = 1 /\ t.finished = FALSE /\ t.finishes = 0
       /\ t.links = S.links /\ t.alive = S.alive
  <2>1. S.started = 1 /\ S.finished = FALSE /\ S.finishes = 0 /\ S.begun = TRUE
    BY <1>2, <1>3 DEF Works, Tree
  <2> QED BY <2>1, <1>7, <1>9, <1>10, <1>11 DEF Alike
<1>13. \A x, y : B(x, y) \in Int
  BY DEF B
<1>14. \A x \in Objs : B(None, x) = 0
  BY <1>2 DEF B
<1>15. CASE /\ c.rval = -1 /\ stmt' = [stmt EXCEPT ![Cur] = t]
            /\ objlist' = r /\ links' = c.links /\ pc' = "idle"
  <2>1. Same(Objs, S, objlist, links, t, r, c.links)
    BY <1>2, <1>3, <1>4, <1>5, <1>12, <1>13, <1>14 DEF Same
  <2>2. Works(t, r, c.links)
    BY <1>2, <1>5, <1>11, <1>12, <2>1 DEF Works
  <2> QED BY <1>1, <1>15, <2>2, FetchKeeps
<1>16. CASE /\ stmt' = [stmt EXCEPT ![Cur] = t2]
            /\ objlist' = r /\ links' = Closed(c.links, s.saved) /\ pc' = "group"
  <2>1. links' = m
    BY <1>10, <1>16 DEF m
  <2>2. /\ t2 \in Tree /\ t2.saved = None /\ t2.saving = FALSE /\ t2.begun = t.begun
        /\ t2.started = t.started /\ t2.finished = t.finished /\ t2.finishes = t.finishes
        /\ t2.links = t.links /\ t2.alive = t.alive
    BY <1>7, <1>11, TreeSaves
  <2>3. t2.saved = None
    BY <2>2
  <2> HIDE DEF t2
  <2>4. Same(Objs, S, objlist, links, t2, r, m)
    BY <1>2, <1>3, <1>4, <1>5, <1>8, <1>13, <1>14, <2>3 DEF Same
  <2>5. Works(t2, r, m)
    BY <1>5, <1>8, <1>12, <2>2, <2>4 DEF Works
  <2> QED BY <1>1, <1>12, <1>16, <2>1, <2>2, <2>5, FetchKeeps
<1>17. CASE /\ stmt' = [stmt EXCEPT ![Cur] = t3]
            /\ objlist' = s.saved /\ links' = c.links /\ pc' \in {"regroup", "row"}
  <2>1. /\ v \in Tree /\ v.saved = r /\ v.saving = t.saving /\ v.begun = t.begun
        /\ v.started = t.started /\ v.finished = t.finished /\ v.finishes = t.finishes
        /\ v.links = t.links /\ v.alive = t.alive
    BY <1>6, <1>11, TreeSaved
  <2> HIDE DEF v
  <2>2. w \in Tree /\ Alike(v, w)
    BY <1>6, <2>1, TreeLast
  <2> HIDE DEF w
  <2>3. t3 \in Tree /\ Alike(w, t3)
    BY <1>6, <2>2, TreeKey
  <2> HIDE DEF t3
  <2>4. Alike(v, t3) /\ t3.saved = r /\ t3.begun
    BY <1>12, <2>1, <2>2, <2>3 DEF Alike
  <2>5. Same(Objs, S, objlist, links, v, objlist, c.links)
    BY <1>2, <1>3, <1>4, <1>5, <1>13, <1>14, <2>1 DEF Same
  <2>6. Works(v, objlist, c.links)
    BY <1>2, <1>5, <1>12, <2>1, <2>5 DEF Works
  <2>7. Works(t3, objlist, c.links)
    BY <2>3, <2>4, <2>6, WorksAlike
  <2> QED BY <1>1, <1>10, <1>17, <2>4, <2>7, FetchKeeps
<1> QED BY <1>1, <1>15, <1>16, <1>17

LEMMA RegroupKeeps == ASSUME IInv, Regroup PROVE IInv'
<1> DEFINE a == Append(S.agg2, S.agg)
           e == <<>>
           z == None
           no == FALSE
           s == [S EXCEPT !.agg2 = a]
           v == Saves(s, z, no)
           t == [v EXCEPT !.agg = e]
           m == Closed(links, objlist)
<1>1. /\ pc = "regroup" /\ pseudo' = pseudo /\ text' = text /\ qy' = qy
      /\ \/ stmt' = [stmt EXCEPT ![Cur] = s] /\ pc' = "row" /\ objlist' = objlist /\ links' = links
         \/ /\ stmt' = [stmt EXCEPT ![Cur] = t]
            /\ pc' = "group" /\ objlist' = S.saved /\ links' = m
  <2>1. t = [s EXCEPT !.saved = None, !.saving = FALSE, !.agg = <<>>]
    BY DEF Saves
  <2> HIDE DEF t
  <2> QED BY <2>1 DEF Regroup, At, Set
<1>2. /\ Works(S, objlist, links) /\ S \in Tree /\ ObjsOf(Cur) \subseteq Objs /\ None \notin Objs
      /\ links \in [Objs -> Int] /\ objlist \in Objs \cup {None}
  BY <1>1, AtWork DEF IInv, Types
<1>3. S.begun
  BY <1>1 DEF IInv, Current
<1>4. a \in Seq(Seq(ObjRef)) /\ e \in Seq(ObjRef)
  <2>1. S.agg2 \in Seq(Seq(ObjRef)) /\ S.agg \in Seq(ObjRef)
    BY <1>2 DEF Tree
  <2> DEFINE Q == Seq(ObjRef)
  <2>2. e \in Q
    OBVIOUS
  <2> HIDE DEF Q
  <2>3. S.agg2 \in Seq(Q) /\ S.agg \in Q
    BY <2>1 DEF Q
  <2>4. a \in Seq(Q)
    BY <2>3
  <2> QED BY <2>2, <2>4 DEF Q
<1>5. m \in [Objs -> Int] /\ \A x \in Objs : m[x] = links[x] - B(objlist, x)
  BY <1>2, LinkedIs
<1>6. z \in ObjRef /\ no \in BOOLEAN /\ z = None /\ no = FALSE
  BY DEF ObjRef
<1> HIDE DEF a, e, z, no, m
<1>7. s \in Tree /\ Alike(S, s) /\ s.begun = S.begun
  BY <1>2, <1>4, TreeAgg2
<1> HIDE DEF s
<1>8. Works(s, objlist, links)
  BY <1>2, <1>7, WorksAlike
<1>9. CASE stmt' = [stmt EXCEPT ![Cur] = s] /\ pc' = "row" /\ objlist' = objlist /\ links' = links
  BY <1>1, <1>8, <1>9, FetchKeeps
<1>10. CASE /\ stmt' = [stmt EXCEPT ![Cur] = t]
            /\ pc' = "group" /\ objlist' = S.saved /\ links' = m
  <2>1. /\ v \in Tree /\ v.saved = z /\ v.saving = no /\ v.begun = s.begun
        /\ v.started = s.started /\ v.finished = s.finished /\ v.finishes = s.finishes
        /\ v.links = s.links /\ v.alive = s.alive
    BY <1>6, <1>7, TreeSaves
  <2> HIDE DEF v
  <2>2. t \in Tree /\ Alike(v, t) /\ t.begun = v.begun
    BY <1>4, <2>1, TreeAgg
  <2> HIDE DEF t
  <2>3. Same(Objs, S, objlist, links, v, S.saved, m)
    <3>1. \A x \in Objs : B(v.saved, x) = 0
      BY <1>2, <1>6, <2>1 DEF B
    <3>2. \A x, y : B(x, y) \in Int
      BY DEF B
    <3> QED BY <1>2, <1>5, <3>1, <3>2 DEF Same
  <2>4. Works(v, S.saved, m)
    BY <1>2, <1>5, <1>6, <1>8, <2>1, <2>3 DEF Works
  <2>5. Works(t, S.saved, m) /\ ~t.saving /\ t.begun
    BY <1>3, <1>6, <1>7, <2>1, <2>2, <2>4, WorksAlike DEF Alike
  <2> QED BY <1>1, <1>10, <2>5, FetchKeeps
<1> QED BY <1>1, <1>9, <1>10

LEMMA NoRowKeeps == ASSUME IInv, NoRow \/ AssignFails PROVE IInv'
<1> DEFINE n == S.iter + 1
           k == S.user + 1
           s == [S EXCEPT !.iter = n]
           t == [s EXCEPT !.user = k]
<1>1. /\ pc = "row" /\ pc' \in {"idle", "next"} /\ pseudo' = pseudo /\ text' = text /\ qy' = qy
      /\ objlist' = objlist /\ links' = links
      /\ stmt' = stmt \/ stmt' = [stmt EXCEPT ![Cur] = s] \/ stmt' = [stmt EXCEPT ![Cur] = t]
  <2>1. t = [S EXCEPT !.iter = n, !.user = k]
    OBVIOUS
  <2>2. s.user = S.user
    BY AtWork DEF NoRow, AssignFails, At, Tree
  <2>3. t = [s EXCEPT !.user = @ + 1]
    BY <2>2
  <2> HIDE DEF t
  <2> QED BY <2>3 DEF NoRow, AssignFails, At, Set
<1>2. Works(S, objlist, links) /\ S \in Tree
  BY <1>1, AtWork
<1>3. n \in Int /\ k \in Int
  BY <1>2 DEF Tree
<1> HIDE DEF n, k
<1>4. s \in Tree /\ Alike(S, s)
  BY <1>2, <1>3, TreeIter
<1> HIDE DEF s
<1>5. t \in Tree /\ Alike(s, t)
  BY <1>3, <1>4, TreeUser
<1> HIDE DEF t
<1>6. Works(s, objlist, links)
  BY <1>2, <1>4, WorksAlike
<1>7. Works(t, objlist, links)
  BY <1>5, <1>6, WorksAlike
<1>8. CASE stmt' = stmt
  <2>1. stmt' = [stmt EXCEPT ![Cur] = S]
    BY <1>8 DEF IInv, Types, S
  <2> QED BY <1>1, <1>2, <2>1, FetchKeeps
<1>9. CASE stmt' = [stmt EXCEPT ![Cur] = s]
  BY <1>1, <1>6, <1>9, FetchKeeps
<1>10. CASE stmt' = [stmt EXCEPT ![Cur] = t]
  BY <1>1, <1>7, <1>10, FetchKeeps
<1> QED BY <1>1, <1>8, <1>9, <1>10

LEMMA RowKeeps == ASSUME IInv, Row PROVE IInv'
<1> DEFINE n == S.iter + 1
           j == S.links + 1
           k == S.user + 1
           s == [S EXCEPT !.iter = n]
           u == [s EXCEPT !.links = j]
           t == [u EXCEPT !.user = k]
           r == [stmt |-> Cur, row |-> objlist]
           m == Linked(links, objlist)
           ql == qy.links + 1
<1>1. PICK h \in Handles : pseudo[h] = None /\ pseudo' = [pseudo EXCEPT ![h] = r]
  BY DEF Row
<1>2. /\ pc = "row" /\ pc' = "idle" /\ text' = text /\ qy' = [qy EXCEPT !.links = ql]
      /\ objlist' = objlist /\ links' = m
      /\ stmt' = [stmt EXCEPT ![Cur] = t]
  <2>1. s.links = S.links /\ s.user = S.user
    BY AtWork DEF Row, At, Tree
  <2>2. t = [s EXCEPT !.links = @ + 1, !.user = @ + 1]
    BY <2>1
  <2> HIDE DEF t
  <2> QED BY <2>2 DEF Row, At, Set
<1>3. /\ Works(S, objlist, links) /\ S \in Tree /\ ObjsOf(Cur) \subseteq Objs /\ None \notin Objs
      /\ links \in [Objs -> Int] /\ objlist \in Objs \cup {None} /\ qy.open /\ S.links > 0
      /\ S.alive = TRUE /\ Cur \in Stmts /\ Cur # NoStmt
      /\ Types /\ stmt \in [Stmts -> Tree]
      /\ pseudo \in [Handles -> Pseudo \cup {None}]
      /\ qy \in [links : Int, cur : Int, ended : BOOLEAN, open : BOOLEAN]
  BY <1>2, AtWork DEF IInv, Types, Pseudo
<1>4. n \in Int /\ j \in Int /\ k \in Int /\ j = S.links + 1 /\ j > 0 /\ ql \in Int
  <2>1. S.iter \in Int /\ S.links \in Int /\ S.user \in Int
    BY <1>3 DEF Tree
  <2>2. qy.links \in Int
    BY <1>3
  <2> QED BY <1>3, <2>1, <2>2
<1>5. r \in Pseudo /\ r.stmt = Cur /\ r.row = objlist
  BY <1>3 DEF Pseudo
<1>6. m \in [Objs -> Int] /\ \A x \in Objs : m[x] = links[x] + B(objlist, x)
  BY <1>3, LinkedIs
<1>q. qy' \in [links : Int, cur : Int, ended : BOOLEAN, open : BOOLEAN]
      /\ qy'.links = ql /\ qy'.cur = qy.cur /\ qy'.open = qy.open
  <2> HIDE DEF ql
  <2> QED BY <1>2, <1>3, <1>4
<1>ql. ql = qy.links + 1
  OBVIOUS
<1> HIDE DEF n, j, k, r, m, ql
<1>7. s \in Tree /\ Alike(S, s)
  BY <1>3, <1>4, TreeIter
<1> HIDE DEF s
<1>8. /\ u \in Tree /\ u.links = j /\ u.saved = s.saved /\ u.saving = s.saving
      /\ u.begun = s.begun /\ u.finishes = s.finishes /\ u.finished = s.finished
      /\ u.alive = s.alive /\ u.started = s.started
  BY <1>4, <1>7, TreeLinks
<1> HIDE DEF u
<1>9. t \in Tree /\ Alike(u, t)
  BY <1>4, <1>8, TreeUser
<1> HIDE DEF t
<1>10. /\ t \in Tree /\ t.saved = S.saved /\ t.saving = S.saving /\ (S.begun => t.begun)
       /\ t.finishes = S.finishes /\ t.finished = S.finished /\ t.started = S.started
       /\ t.links = S.links + 1 /\ t.alive = TRUE
  BY <1>3, <1>4, <1>7, <1>8, <1>9 DEF Alike
<1>11. Stmts' = Stmts /\ Objs' = Objs /\ (\A i : ObjsOf(i)' = ObjsOf(i)) /\ Cur' = Cur
  BY <1>2, <1>q, SameText DEF Cur
<1>12. stmt'[Cur] = t /\ (\A i \in Stmts : i # Cur => stmt'[i] = stmt[i])
       /\ stmt' \in [Stmts -> Tree] /\ S' = t
  BY <1>2, <1>3, <1>10, <1>11 DEF S
<1>13. pseudo' \in [Handles -> Pseudo \cup {None}]
  BY <1>1, <1>3, <1>5
<1>14. /\ Cardinality(AllRows(pseudo')) = Cardinality(AllRows(pseudo)) + 1
       /\ \A i : Cardinality(RowsOf(pseudo', i)) = Cardinality(RowsOf(pseudo, i)) + B(r.stmt, i)
       /\ \A x : Cardinality(ObjRows(pseudo', x)) = Cardinality(ObjRows(pseudo, x)) + B(r.row, x)
  <2>1. pseudo' = Put(pseudo, h, r)
    BY <1>1 DEF Put
  <2>2. /\ pseudo \in [Handles -> Pseudo \cup {None}] /\ h \in Handles /\ pseudo[h] = None
        /\ r \in Pseudo
    BY <1>1, <1>3, <1>5
  <2>3. Cardinality(AllRows(pseudo')) = Cardinality(AllRows(pseudo)) + 1
    BY ONLY <2>1, <2>2, AddRow
  <2>4. \A i : Cardinality(RowsOf(pseudo', i)) = Cardinality(RowsOf(pseudo, i)) + B(r.stmt, i)
    BY ONLY <2>1, <2>2, AddRow
  <2>5. \A x : Cardinality(ObjRows(pseudo', x)) = Cardinality(ObjRows(pseudo, x)) + B(r.row, x)
    BY ONLY <2>1, <2>2, AddRow
  <2> QED BY <2>3, <2>4, <2>5
<1>15. \A x, y : B(x, y) \in Int
  BY DEF B
<1>16. Types'
  BY <1>2, <1>3, <1>6, <1>q, <1>11, <1>12, <1>13 DEF Types, Pseudo
<1>17. Sounds'
  <2>0. t.alive = (t.links > 0)
    <3>1. t.alive = TRUE /\ t.links > 0
      BY <1>3, <1>4, <1>10 DEF Tree
    <3>2. (t.links > 0) = TRUE
      BY <3>1
    <3> QED BY <3>1, <3>2
  <2>1. Sound(t, ObjsOf(Cur))
    BY <1>3, <1>10, <2>0 DEF Works, Sound
  <2>2. \A i \in Stmts : Sound(stmt'[i], ObjsOf(i))
    BY <1>12, <2>1 DEF IInv, Sounds
  <2> QED BY <1>11, <2>2 DEF Sounds
<1>18. Current'
  <2>1. \A i \in Stmts : i > Cur => stmt'[i] = NewStmt
    BY <1>3, <1>12, ObjsFacts DEF IInv, Current, Types
  <2>2. \A i \in Stmts : i # Cur => stmt'[i].finished
    BY <1>12 DEF IInv, Current
  <2>3. qy'.open = TRUE /\ S'.started = 1 /\ S'.finished = FALSE
    BY <1>3, <1>q, <1>10, <1>12 DEF Works
  <2> QED BY <1>2, <1>3, <1>11, <2>1, <2>2, <2>3 DEF Current, Works
<1>19. LinkCounts'
  <2> SUFFICES ASSUME NEW x \in Objs
               PROVE  m[x] = Cardinality(ObjRows(pseudo', x)) + B(objlist, x)
                             + B(stmt'[x[1]].saved, x)
    BY <1>2, <1>11 DEF LinkCounts
  <2>1. stmt'[x[1]].saved = stmt[x[1]].saved
    BY <1>3, <1>10, <1>12, ObjsFacts DEF Types, S
  <2>2. links[x] = Cardinality(ObjRows(pseudo, x)) + B(objlist, x) + B(stmt[x[1]].saved, x)
    BY DEF IInv, LinkCounts
  <2>3. B(stmt'[x[1]].saved, x) = B(stmt[x[1]].saved, x)
    BY <2>1
  <2> QED BY <1>5, <1>6, <1>14, <1>15, <2>2, <2>3, CountsAreNat
<1>20. StmtCounts'
  <2> SUFFICES ASSUME NEW i \in Stmts
               PROVE  stmt'[i].links = Cardinality(RowsOf(pseudo', i)) + B(Cur, i)
    BY <1>11 DEF StmtCounts
  <2>1. stmt[i].links = Cardinality(RowsOf(pseudo, i)) + B(Cur, i)
    BY DEF IInv, StmtCounts
  <2>2. CASE i = Cur
    BY <1>5, <1>10, <1>12, <1>14, <2>1, <2>2, CountsAreNat DEF S, B
  <2>3. CASE i # Cur
    BY <1>5, <1>12, <1>14, <2>1, <2>3, CountsAreNat DEF B
  <2> QED BY <2>2, <2>3
<1>21. QueryCount'
  <2>1. qy.links = Cardinality(AllRows(pseudo)) + 1
    BY <1>3 DEF IInv, QueryCount
  <2>2. qy'.links = Cardinality(AllRows(pseudo')) + 1
    BY <1>q, <1>ql, <1>14, <2>1, CountsAreNat
  <2> QED BY <1>3, <1>q, <2>2 DEF QueryCount
<1> QED BY <1>16, <1>17, <1>18, <1>19, <1>20, <1>21 DEF IInv

-----------------------------------------------------------------------------
(***************************************************************************)
(* The caller closes a row, or the query.                                  *)
(***************************************************************************)
MultiQueryRecord == [links : Int, cur : Int, ended : BOOLEAN, open : BOOLEAN]

LEMMA SoundDropped ==
  ASSUME NEW X, NEW s, Sound(s, X), s.started = 1
  PROVE  Sound(Dropped(s), X)
<1> DEFINE t == Dropped(s)
<1>1. /\ t \in Tree /\ t.saved = s.saved /\ t.saving = s.saving
      /\ t.begun = s.begun /\ t.finishes = s.finishes /\ t.finished = s.finished
      /\ t.started = s.started /\ t.alive = (t.links > 0)
  BY TreeDropped DEF Sound
<1> HIDE DEF t
<1>2. Sound(t, X)
  BY <1>1 DEF Sound
<1> QED BY <1>2 DEF t

\* What the last link of the query does to u.
LosesLink(q, st, o, l, u) ==
  /\ u.objlist = o /\ u.links = l
  /\ u.qy \in MultiQueryRecord /\ u.qy.links = q.links - 1 /\ u.qy.open = q.open
  /\ u.qy.cur = IF q.links > 1 THEN q.cur ELSE NoStmt
  /\ u.stmt \in [Stmts -> Tree]
  /\ \A i \in Stmts : u.stmt[i] = IF ~(q.links > 1) /\ i = q.cur /\ q.cur # NoStmt
                                  THEN Dropped(st[i]) ELSE st[i]

LEMMA UnlinkedIs ==
  ASSUME NEW q \in MultiQueryRecord, NEW st \in [Stmts -> Tree], NEW o, NEW l,
         q.cur \in Stmts \cup {NoStmt},
         ~(q.links > 1) /\ q.cur # NoStmt =>
           st[q.cur].finished /\ st[q.cur].links > 0 /\ st[q.cur].alive = TRUE
  PROVE  LosesLink(q, st, o, l, Unlinked(q, st, o, l))
<1> DEFINE u == Unlinked(q, st, o, l)
           j == q.links - 1
           n == [q EXCEPT !.links = j]
           z == NoStmt
           e == [n EXCEPT !.cur = z]
           s == st[q.cur]
           d == Dropped(s)
           sd == [st EXCEPT ![q.cur] = d]
<1>1. j \in Int /\ j = q.links - 1 /\ z \in Int /\ z = NoStmt /\ (j > 0 <=> q.links > 1)
  BY DEF MultiQueryRecord, NoStmt
<1>2. u = IF n.links > 0 \/ q.cur = NoStmt
          THEN [qy |-> n, stmt |-> st, objlist |-> o, links |-> l]
          ELSE [qy |-> e, stmt |-> [st EXCEPT ![q.cur] = CloseStatement(s, o, l).stmt],
                objlist |-> CloseStatement(s, o, l).objlist,
                links |-> CloseStatement(s, o, l).links]
  BY DEF Unlinked
<1> HIDE DEF j, z, u
<1>3. n \in MultiQueryRecord /\ n.links = j /\ n.open = q.open /\ n.cur = q.cur
  BY <1>1 DEF MultiQueryRecord
<1> HIDE DEF n
<1>4. e \in MultiQueryRecord /\ e.links = j /\ e.open = q.open /\ e.cur = z
  BY <1>1, <1>3 DEF MultiQueryRecord
<1> HIDE DEF e
<1>5. CASE n.links > 0 \/ q.cur = NoStmt
  <2>1. u = [qy |-> n, stmt |-> st, objlist |-> o, links |-> l]
    BY <1>2, <1>5
  <2>2. n.cur = IF q.links > 1 THEN q.cur ELSE NoStmt
    BY <1>1, <1>3, <1>5
  <2>3. \A i \in Stmts : st[i] = IF ~(q.links > 1) /\ i = q.cur /\ q.cur # NoStmt
                                 THEN Dropped(st[i]) ELSE st[i]
    BY <1>1, <1>3, <1>5
  <2> QED BY <1>1, <1>3, <2>1, <2>2, <2>3 DEF u, LosesLink
<1>6. CASE ~(n.links > 0 \/ q.cur = NoStmt)
  <2>1. ~(q.links > 1) /\ q.cur # NoStmt /\ q.cur \in Stmts
    BY <1>1, <1>3, <1>6
  <2>2. s \in Tree /\ s.finished /\ s.links > 0 /\ s.alive = TRUE
    BY <2>1
  <2>3. s.alive = (s.links > 0)
    <3>1. (s.links > 0) = TRUE
      BY <2>2
    <3> QED BY <2>2, <3>1
  <2> HIDE DEF s
  <2>4. CloseStatement(s, o, l) = [stmt |-> d, objlist |-> o, links |-> l]
    BY <2>2, <2>3, CloseStatementIs
  <2>5. d \in Tree
    BY <2>2, TreeDropped
  <2>d. d = Dropped(st[q.cur])
    BY DEF s
  <2> HIDE DEF d
  <2>6. u = [qy |-> e, stmt |-> sd, objlist |-> o, links |-> l]
    BY <1>2, <1>6, <2>4
  <2>7. sd \in [Stmts -> Tree] /\ \A i \in Stmts : sd[i] = IF i = q.cur THEN d ELSE st[i]
    BY <2>1, <2>5
  <2> HIDE DEF sd
  <2>8. \A i \in Stmts : sd[i] = IF ~(q.links > 1) /\ i = q.cur /\ q.cur # NoStmt
                                 THEN Dropped(st[i]) ELSE st[i]
    BY <2>1, <2>d, <2>7
  <2> QED BY <1>1, <1>4, <2>1, <2>6, <2>7, <2>8 DEF u, LosesLink
<1> QED BY <1>5, <1>6

LEMMA CloseKeeps == ASSUME IInv, NEW h \in Handles, Close(h) PROVE IInv'
<1> DEFINE r == pseudo[h]
           i == r.stmt
           x0 == r.row
           d == Dropped(stmt[i])
           st == [stmt EXCEPT ![i] = d]
           u == Unlinked(qy, st, objlist, links)
           gone == ~(qy.links > 1) /\ Cur # NoStmt
<1>1. /\ Types /\ stmt \in [Stmts -> Tree] /\ pseudo \in [Handles -> Pseudo \cup {None}]
      /\ text \in Seq(QueryStatement) /\ qy \in MultiQueryRecord /\ qy.cur = Cur
      /\ Cur \in Stmts \cup {NoStmt} /\ links \in [Objs -> Int] /\ objlist \in Objs \cup {None}
  BY DEF IInv, Types, Pseudo, MultiQueryRecord, Cur
<1>2. /\ r # None /\ pc' = pc /\ text' = text /\ pseudo' = [pseudo EXCEPT ![h] = None]
  BY DEF Close
<1>3. r \in Pseudo /\ i \in Stmts /\ x0 \in Objs \cup {None}
  BY <1>1, <1>2 DEF Pseudo
<1>4. /\ Cardinality(AllRows(pseudo')) = Cardinality(AllRows(pseudo)) - 1
      /\ \A k : Cardinality(RowsOf(pseudo', k)) = Cardinality(RowsOf(pseudo, k)) - B(i, k)
      /\ \A x : Cardinality(ObjRows(pseudo', x)) = Cardinality(ObjRows(pseudo, x)) - B(x0, x)
      /\ pseudo' \in [Handles -> Pseudo \cup {None}]
  <2>1. pseudo' = Put(pseudo, h, None)
    BY <1>2 DEF Put
  <2>2. pseudo \in [Handles -> Pseudo \cup {None}] /\ h \in Handles /\ pseudo[h] # None
    BY <1>1, <1>2
  <2>3. Cardinality(AllRows(pseudo')) = Cardinality(AllRows(pseudo)) - 1
    BY ONLY <2>1, <2>2, DropRow
  <2>4. \A k : Cardinality(RowsOf(pseudo', k)) = Cardinality(RowsOf(pseudo, k)) - B(pseudo[h].stmt, k)
    BY ONLY <2>1, <2>2, DropRow
  <2>5. \A x : Cardinality(ObjRows(pseudo', x)) = Cardinality(ObjRows(pseudo, x)) - B(pseudo[h].row, x)
    BY ONLY <2>1, <2>2, DropRow
  <2>6. pseudo' \in [Handles -> Pseudo \cup {None}]
    BY ONLY <2>1, <2>2, DropRow
  <2> QED BY <2>3, <2>4, <2>5, <2>6
<1>b. \A x, y : B(x, y) \in Int /\ B(x, x) = 1
  BY DEF B
<1> HIDE DEF r, i, x0
<1>5. stmt[i].links = Cardinality(RowsOf(pseudo, i)) + B(Cur, i)
  BY <1>3 DEF IInv, StmtCounts
<1>6. Cardinality(RowsOf(pseudo, i)) >= 1 /\ Cardinality(AllRows(pseudo)) >= 1
  <2>1. Cardinality(RowsOf(pseudo', i)) = Cardinality(RowsOf(pseudo, i)) - 1
    BY <1>4, <1>b
  <2> QED BY <1>4, <2>1, CountsAreNat
<1>7. stmt[i].links > 0 /\ (i = Cur => stmt[i].links > 1) /\ stmt[i] \in Tree
  BY <1>1, <1>3, <1>5, <1>6, CountsAreNat DEF B
<1>8. Sound(stmt[i], ObjsOf(i)) /\ stmt[i].started = 1 /\ stmt[i] # NewStmt
  <2>1. Sound(stmt[i], ObjsOf(i))
    BY <1>3 DEF IInv, Sounds
  <2>2. stmt[i] # NewStmt
    BY <1>7, NewStmtIs
  <2> QED BY <2>1, <2>2 DEF Sound
<1>9. CloseStatement(stmt[i], objlist, links) = [stmt |-> d, objlist |-> objlist, links |-> links]
  <2>1. stmt[i].finished \/ stmt[i].links > 1
    BY <1>3, <1>7 DEF IInv, Current
  <2>2. stmt[i].alive = (stmt[i].links > 0)
    BY <1>8 DEF Sound
  <2> QED BY <1>7, <2>1, <2>2, CloseStatementIs
<1>10. /\ qy' = u.qy /\ stmt' = u.stmt /\ objlist' = u.objlist /\ links' = Closed(u.links, x0)
  BY <1>9 DEF Close, r, i, x0
<1>11. /\ d \in Tree /\ d.saved = stmt[i].saved /\ d.saving = stmt[i].saving
       /\ d.begun = stmt[i].begun /\ d.finishes = stmt[i].finishes /\ d.finished = stmt[i].finished
       /\ d.started = stmt[i].started
       /\ d.links = stmt[i].links - 1 /\ d.alive = (d.links > 0)
  BY <1>7, TreeDropped
<1>12. Sound(d, ObjsOf(i))
  BY <1>8, SoundDropped
<1> HIDE DEF d
<1>13. st \in [Stmts -> Tree] /\ \A k \in Stmts : st[k] = IF k = i THEN d ELSE stmt[k]
  BY <1>1, <1>3, <1>11
<1> HIDE DEF st
<1>14. /\ \A k \in Stmts : /\ st[k] \in Tree /\ st[k].saved = stmt[k].saved /\ st[k].saving = stmt[k].saving
                           /\ st[k].begun = stmt[k].begun /\ st[k].finished = stmt[k].finished
                           /\ st[k].started = stmt[k].started
                           /\ st[k].links = stmt[k].links - B(i, k)
                           /\ Sound(st[k], ObjsOf(k))
  <2> SUFFICES ASSUME NEW k \in Stmts
               PROVE  /\ st[k] \in Tree /\ st[k].saved = stmt[k].saved /\ st[k].saving = stmt[k].saving
                      /\ st[k].begun = stmt[k].begun /\ st[k].finished = stmt[k].finished
                      /\ st[k].started = stmt[k].started
                      /\ st[k].links = stmt[k].links - B(i, k)
                      /\ Sound(st[k], ObjsOf(k))
    OBVIOUS
  <2>1. CASE k = i
    BY <1>11, <1>12, <1>13, <2>1 DEF B
  <2>2. CASE k # i
    <3>1. st[k] = stmt[k] /\ stmt[k].links \in Int /\ B(i, k) = 0
      BY <1>1, <1>13, <2>2 DEF B, Tree
    <3>2. Sound(stmt[k], ObjsOf(k)) /\ stmt[k] \in Tree
      BY <1>1 DEF IInv, Sounds
    <3> QED BY <3>1, <3>2
  <2> QED BY <2>1, <2>2
<1>15. qy.links = Cardinality(AllRows(pseudo)) + (IF qy.open THEN 1 ELSE 0)
  BY DEF IInv, QueryCount
<1>16. gone => ~qy.open /\ Cur \in Stmts
  BY <1>1, <1>6, <1>15, CountsAreNat
<1>17. gone => S.finished /\ S.started = 1 /\ S = stmt[Cur] /\ stmt[Cur].finished
  BY <1>1, <1>16 DEF IInv, Current, S
<1>18. gone => st[Cur].finished /\ st[Cur].links > 0 /\ st[Cur].alive = TRUE
  <2> SUFFICES ASSUME gone PROVE st[Cur].finished /\ st[Cur].links > 0 /\ st[Cur].alive = TRUE
    OBVIOUS
  <2>1. stmt[Cur].links = Cardinality(RowsOf(pseudo, Cur)) + 1
    BY <1>16 DEF IInv, StmtCounts, B
  <2>2. st[Cur].links = Cardinality(RowsOf(pseudo', Cur)) + 1
    BY <1>4, <1>14, <1>16, <1>b, <2>1, CountsAreNat
  <2>3. st[Cur].links > 0
    BY <2>2, CountsAreNat
  <2>4. st[Cur].alive = TRUE
    BY <1>14, <1>16, <2>3 DEF Sound
  <2> QED BY <1>14, <1>16, <1>17, <2>3, <2>4
<1>19. /\ u.objlist = objlist /\ u.links = links
       /\ u.qy \in MultiQueryRecord /\ u.qy.links = qy.links - 1 /\ u.qy.open = qy.open
       /\ u.qy.cur = (IF qy.links > 1 THEN qy.cur ELSE NoStmt)
       /\ u.stmt \in [Stmts -> Tree]
       /\ \A k \in Stmts : u.stmt[k] = IF ~(qy.links > 1) /\ k = qy.cur /\ qy.cur # NoStmt
                                       THEN Dropped(st[k]) ELSE st[k]
  <2>1. /\ qy \in MultiQueryRecord /\ st \in [Stmts -> Tree] /\ qy.cur \in Stmts \cup {NoStmt}
        /\ (~(qy.links > 1) /\ qy.cur # NoStmt =>
              st[qy.cur].finished /\ st[qy.cur].links > 0 /\ st[qy.cur].alive = TRUE)
    BY <1>1, <1>13, <1>18
  <2>2. LosesLink(qy, st, objlist, links, u)
    BY <2>1, UnlinkedIs
  <2> QED BY <2>2 DEF LosesLink
<1> HIDE DEF u
<1>20. /\ objlist' = objlist /\ links' = Closed(links, x0)
       /\ qy' \in MultiQueryRecord /\ qy'.links = qy.links - 1 /\ qy'.open = qy.open
       /\ Cur' = (IF gone THEN NoStmt ELSE Cur)
       /\ stmt' \in [Stmts -> Tree]
       /\ \A k \in Stmts : stmt'[k] = IF gone /\ k = Cur THEN Dropped(st[k]) ELSE st[k]
  <2>1. Cur' = (IF qy.links > 1 THEN Cur ELSE NoStmt)
    BY <1>1, <1>10, <1>19 DEF Cur
  <2>2. Cur' = (IF gone THEN NoStmt ELSE Cur)
    BY <2>1
  <2> QED BY <1>1, <1>10, <1>19, <2>2
<1>21. /\ \A k \in Stmts : /\ stmt'[k].saved = stmt[k].saved /\ stmt'[k].saving = stmt[k].saving
                           /\ stmt'[k].begun = stmt[k].begun /\ stmt'[k].finished = stmt[k].finished
                           /\ stmt'[k].started = stmt[k].started
                           /\ stmt'[k].links = stmt[k].links - B(i, k) - (IF gone /\ k = Cur THEN 1 ELSE 0)
                           /\ Sound(stmt'[k], ObjsOf(k))
                           /\ (stmt[k] = NewStmt /\ k # Cur => stmt'[k] = NewStmt)
  <2> SUFFICES ASSUME NEW k \in Stmts
               PROVE  /\ stmt'[k].saved = stmt[k].saved /\ stmt'[k].saving = stmt[k].saving
                      /\ stmt'[k].begun = stmt[k].begun /\ stmt'[k].finished = stmt[k].finished
                      /\ stmt'[k].started = stmt[k].started
                      /\ stmt'[k].links = stmt[k].links - B(i, k) - (IF gone /\ k = Cur THEN 1 ELSE 0)
                      /\ Sound(stmt'[k], ObjsOf(k))
                      /\ (stmt[k] = NewStmt /\ k # Cur => stmt'[k] = NewStmt)
    OBVIOUS
  <2>0. stmt[k].links \in Int
    BY <1>1 DEF Tree
  <2>1. CASE gone /\ k = Cur
    <3>1. stmt'[k] = Dropped(st[k]) /\ st[k] \in Tree /\ st[k].started = 1 /\ Sound(st[k], ObjsOf(k))
      BY <1>14, <1>17, <1>20, <2>1
    <3>2. /\ stmt'[k].saved = st[k].saved /\ stmt'[k].saving = st[k].saving
          /\ stmt'[k].begun = st[k].begun /\ stmt'[k].finished = st[k].finished
          /\ stmt'[k].started = st[k].started /\ stmt'[k].links = st[k].links - 1
      BY <3>1, TreeDropped
    <3>3. Sound(stmt'[k], ObjsOf(k))
      BY <3>1, SoundDropped
    <3> QED BY <1>14, <2>1, <3>2, <3>3
  <2>2. CASE ~(gone /\ k = Cur)
    <3>1. stmt'[k] = st[k]
      BY <1>20, <2>2
    <3>2. stmt[k] = NewStmt => st[k] = stmt[k]
      BY <1>8, <1>13
    <3> QED BY <1>14, <1>b, <2>0, <2>2, <3>1, <3>2
  <2> QED BY <2>1, <2>2
<1> HIDE DEF gone
<1>22. Stmts' = Stmts /\ Objs' = Objs /\ (\A k : ObjsOf(k)' = ObjsOf(k))
  BY <1>2, SameText
<1>23. links' \in [Objs -> Int] /\ \A x \in Objs : links'[x] = links[x] - B(x0, x)
  <2>1. None \notin Objs
    BY <1>1, ObjsFacts
  <2>2. Closed(links, x0) \in [Objs -> Int]
        /\ \A x \in Objs : Closed(links, x0)[x] = links[x] - B(x0, x)
    BY <1>1, <1>3, <2>1, LinkedIs
  <2> QED BY <1>20, <2>2
<1>24. Types'
  <2>1. Cur' \in Stmts \cup {NoStmt}
    BY <1>1, <1>20
  <2> QED BY <1>1, <1>2, <1>4, <1>20, <1>22, <1>23, <2>1 DEF Types, Pseudo, MultiQueryRecord
<1>25. Sounds'
  BY <1>21, <1>22 DEF Sounds
<1>26. Current'
  <2>1. CASE gone
    <3>1. Cur' = NoStmt /\ objlist' = None /\ pc' = "idle"
      BY <1>2, <1>16, <1>20, <2>1 DEF IInv, Current
    <3>2. \A k \in Stmts : stmt'[k].finished
      BY <1>17, <1>21, <2>1 DEF IInv, Current
    <3> QED BY <3>1, <3>2, <1>22 DEF Current
  <2>2. CASE ~gone
    <3>1. Cur' = Cur /\ pc' = pc /\ objlist' = objlist /\ qy'.open = qy.open
      BY <1>2, <1>20, <2>2
    <3>2. \A k \in Stmts : k # Cur => stmt'[k].finished
      BY <1>21 DEF IInv, Current
    <3>3. CASE Cur = NoStmt
      BY <1>22, <3>1, <3>2, <3>3 DEF IInv, Current
    <3>4. CASE Cur # NoStmt
      <4>1. Cur \in Stmts /\ S' = stmt'[Cur]
        BY <1>1, <3>1, <3>4 DEF S
      <4>2. /\ S'.started = S.started /\ S'.finished = S.finished /\ S'.saving = S.saving
            /\ S'.begun = S.begun
        BY <1>21, <4>1 DEF S
      <4>3. \A k \in Stmts : k > Cur => stmt'[k] = NewStmt
        <5>1. \A k \in Stmts : k > Cur => k # Cur /\ stmt[k] = NewStmt
          BY <1>1, <3>4, <4>1, ObjsFacts DEF IInv, Current
        <5> QED BY <1>21, <5>1
      <4> QED BY <1>22, <3>1, <3>2, <3>4, <4>2, <4>3 DEF IInv, Current
    <3> QED BY <3>3, <3>4
  <2> QED BY <2>1, <2>2
<1>27. LinkCounts'
  <2> SUFFICES ASSUME NEW x \in Objs
               PROVE  links'[x] = Cardinality(ObjRows(pseudo', x)) + B(objlist, x)
                             + B(stmt'[x[1]].saved, x)
    BY <1>20, <1>22 DEF LinkCounts
  <2>1. stmt'[x[1]].saved = stmt[x[1]].saved
    BY <1>1, <1>21, ObjsFacts
  <2>2. links[x] = Cardinality(ObjRows(pseudo, x)) + B(objlist, x) + B(stmt[x[1]].saved, x)
    BY DEF IInv, LinkCounts
  <2>3. B(stmt'[x[1]].saved, x) = B(stmt[x[1]].saved, x)
    BY <2>1
  <2> QED BY <1>4, <1>b, <1>23, <2>2, <2>3, CountsAreNat
<1>28. StmtCounts'
  <2> SUFFICES ASSUME NEW k \in Stmts
               PROVE  stmt'[k].links = Cardinality(RowsOf(pseudo', k)) + B(Cur', k)
    BY <1>22 DEF StmtCounts
  <2>1. stmt[k].links = Cardinality(RowsOf(pseudo, k)) + B(Cur, k)
    BY DEF IInv, StmtCounts
  <2>2. CASE gone /\ k = Cur
    <3>1. Cur' # k
      BY <1>1, <1>20, <2>2, ObjsFacts DEF NoStmt
    <3> QED BY <1>4, <1>21, <1>b, <2>1, <2>2, <3>1, CountsAreNat DEF B
  <2>3. CASE gone /\ k # Cur
    <3>1. Cur' # k
      BY <1>1, <1>20, <2>3, ObjsFacts DEF NoStmt
    <3>2. B(Cur, k) = 0 /\ B(Cur', k) = 0
      BY <2>3, <3>1 DEF B
    <3> QED BY <1>4, <1>21, <1>b, <2>1, <2>3, <3>2, CountsAreNat
  <2>4. CASE ~gone
    BY <1>4, <1>20, <1>21, <1>b, <2>1, <2>4, CountsAreNat
  <2> QED BY <2>2, <2>3, <2>4
<1>29. QueryCount'
  BY <1>4, <1>15, <1>20, CountsAreNat DEF QueryCount
<1> QED BY <1>24, <1>25, <1>26, <1>27, <1>28, <1>29 DEF IInv

\* The current statement is finished, if there is one.
FinishedIs ==
  LET f == IF Cur = NoStmt THEN [stmt |-> NewStmt, objlist |-> objlist, links |-> links]
           ELSE FinishStatement(S, objlist, links)
  IN [stmt |-> IF Cur = NoStmt THEN stmt ELSE [stmt EXCEPT ![Cur] = f.stmt],
      objlist |-> f.objlist, links |-> f.links]

\* It has closed what it had, and what else there is stays.
Finishes(st, o, l) ==
  /\ st \in [Stmts -> Tree] /\ o = None /\ l \in [Objs -> Int]
  /\ \A i \in Stmts : /\ Sound(st[i], ObjsOf(i)) /\ st[i].finished
                      /\ st[i].links = stmt[i].links /\ st[i].alive = stmt[i].alive
                      /\ st[i].started = stmt[i].started
                      /\ (i # Cur => st[i] = stmt[i])
  /\ \A x \in Objs : l[x] = Cardinality(ObjRows(pseudo, x)) + B(st[x[1]].saved, x)

LEMMA QueryFinished ==
  ASSUME IInv, qy.open
  PROVE  Finishes(FinishedIs.stmt, FinishedIs.objlist, FinishedIs.links)
<1>1. /\ Types /\ stmt \in [Stmts -> Tree] /\ text \in Seq(QueryStatement)
      /\ Cur \in Stmts \cup {NoStmt} /\ links \in [Objs -> Int] /\ objlist \in Objs \cup {None}
      /\ None \notin Objs
  BY ObjsFacts DEF IInv, Types
<1>b. (\A x, y : B(x, y) \in Int) /\ (\A x \in Objs : B(None, x) = 0)
  BY <1>1 DEF B
<1>2. CASE Cur = NoStmt
  <2>1. FinishedIs.stmt = stmt /\ FinishedIs.objlist = objlist /\ FinishedIs.links = links
    BY <1>2 DEF FinishedIs
  <2>2. objlist = None
    BY <1>2 DEF IInv, Current
  <2>3. \A i \in Stmts : stmt[i].finished /\ Sound(stmt[i], ObjsOf(i))
    BY <1>1, <1>2, ObjsFacts DEF IInv, Current, Sounds, NoStmt
  <2>4. ASSUME NEW x \in Objs
        PROVE  links[x] = Cardinality(ObjRows(pseudo, x)) + B(stmt[x[1]].saved, x)
    <3>1. links[x] = Cardinality(ObjRows(pseudo, x)) + B(objlist, x) + B(stmt[x[1]].saved, x)
      BY DEF IInv, LinkCounts
    <3>2. B(objlist, x) = 0
      BY <1>b, <2>2
    <3> QED BY <1>b, <3>1, <3>2, CountsAreNat
  <2>5. Finishes(stmt, objlist, links)
    BY <1>1, <2>2, <2>3, <2>4 DEF Finishes
  <2> QED BY <2>1, <2>5
<1>3. CASE Cur # NoStmt
  <2> DEFINE f == FinishStatement(S, objlist, links)
             t == f.stmt
             m == f.links
             st == [stmt EXCEPT ![Cur] = t]
  <2>1. Cur \in Stmts /\ ObjsOf(Cur) \in SUBSET Objs /\ S \in Tree
    BY <1>1, <1>3, ObjsFacts DEF S
  <2>2. Sound(S, ObjsOf(Cur))
    BY <2>1 DEF IInv, Sounds, S
  <2>3. S.started = 1 /\ S.finished = FALSE
    BY <1>3 DEF IInv, Current
  <2>4. Started(S, ObjsOf(Cur))
    BY <2>2, <2>3 DEF Sound, Started
  <2>5. /\ t \in Tree /\ m \in [Objs -> Int] /\ Started(t, ObjsOf(Cur)) /\ t.finished
        /\ f.objlist = None /\ Keeps(S, t) /\ Same(Objs, S, objlist, links, t, None, m)
    <3>1. f.stmt \in Tree /\ f.links \in [Objs -> Int]
      BY <1>1, <2>1, <2>4, FinishStatementIs
    <3>2. Started(f.stmt, ObjsOf(Cur)) /\ f.stmt.finished
      BY <1>1, <2>1, <2>4, FinishStatementIs
    <3>3. f.objlist = None
      <4>1. /\ None \notin Objs /\ ObjsOf(Cur) \in SUBSET Objs /\ Started(S, ObjsOf(Cur))
            /\ objlist \in Objs \cup {None} /\ links \in [Objs -> Int] /\ S.finished = FALSE
        BY <1>1, <2>1, <2>3, <2>4
      <4> QED BY ONLY <4>1, FinishStatementIs DEF f
    <3>4. Keeps(S, f.stmt)
      BY <1>1, <2>1, <2>4, FinishStatementIs
    <3>5. Same(Objs, S, objlist, links, f.stmt, f.objlist, f.links)
      BY <1>1, <2>1, <2>4, FinishStatementIs
    <3> HIDE DEF f
    <3> QED BY <3>1, <3>2, <3>3, <3>4, <3>5
  <2>6. FinishedIs.stmt = st /\ FinishedIs.objlist = f.objlist /\ FinishedIs.links = m
    BY <1>3 DEF FinishedIs
  <2> HIDE DEF f, t, m
  <2>7. st \in [Stmts -> Tree] /\ st[Cur] = t /\ \A i \in Stmts : i # Cur => st[i] = stmt[i]
    BY <1>1, <2>1, <2>5
  <2> HIDE DEF st
  <2>8. t.links = S.links /\ t.alive = S.alive /\ Sound(t, ObjsOf(Cur))
    <3>1. t.links = S.links /\ t.alive = S.alive
      BY <2>5 DEF Keeps
    <3> QED BY <2>2, <2>5, <3>1 DEF Sound, Started
  <2>9. \A i \in Stmts : /\ Sound(st[i], ObjsOf(i)) /\ st[i].finished
                         /\ st[i].links = stmt[i].links /\ st[i].alive = stmt[i].alive
                         /\ st[i].started = stmt[i].started
    <3> SUFFICES ASSUME NEW i \in Stmts
                 PROVE  /\ Sound(st[i], ObjsOf(i)) /\ st[i].finished
                        /\ st[i].links = stmt[i].links /\ st[i].alive = stmt[i].alive
                        /\ st[i].started = stmt[i].started
      OBVIOUS
    <3>1. CASE i = Cur
      BY <2>3, <2>5, <2>7, <2>8, <3>1 DEF S, Started
    <3>2. CASE i # Cur
      BY <2>7, <3>2 DEF IInv, Sounds, Current
    <3> QED BY <3>1, <3>2
  <2>10. ASSUME NEW x \in Objs
         PROVE  m[x] = Cardinality(ObjRows(pseudo, x)) + B(st[x[1]].saved, x)
    <3>1. links[x] = Cardinality(ObjRows(pseudo, x)) + B(objlist, x) + B(stmt[x[1]].saved, x)
      BY DEF IInv, LinkCounts
    <3>2. m[x] - B(None, x) - B(t.saved, x) = links[x] - B(objlist, x) - B(S.saved, x)
      BY <2>5 DEF Same
    <3>3. m[x] \in Int /\ links[x] \in Int /\ Cardinality(ObjRows(pseudo, x)) \in Int
          /\ B(None, x) = 0
      BY <1>1, <1>b, <2>5, CountsAreNat
    <3>4. CASE x[1] = Cur
      BY <1>b, <2>7, <3>1, <3>2, <3>3, <3>4 DEF S
    <3>5. CASE x[1] # Cur
      <4>1. B(t.saved, x) = 0 /\ B(S.saved, x) = 0
        BY <1>1, <2>1, <2>4, <2>5, <3>5, OtherSaved DEF Started
      <4>2. B(st[x[1]].saved, x) = B(stmt[x[1]].saved, x)
        BY <1>1, <2>7, <3>5, ObjsFacts
      <4>3. m[x] = links[x] - B(objlist, x)
        BY <1>b, <3>2, <3>3, <4>1
      <4> QED BY <1>b, <3>1, <3>3, <4>2, <4>3
    <3> QED BY <3>4, <3>5
  <2>11. Finishes(st, f.objlist, m)
    BY <2>5, <2>7, <2>9, <2>10 DEF Finishes
  <2> QED BY <2>6, <2>11
<1> QED BY <1>2, <1>3

LEMMA QueryCloseKeeps == ASSUME IInv, QueryClose PROVE IInv'
<1> DEFINE st == FinishedIs.stmt
           o == FinishedIs.objlist
           l == FinishedIs.links
           u == Unlinked(qy, st, o, l)
           gone == ~(qy.links > 1) /\ Cur # NoStmt
           no == FALSE
<1>1. /\ Types /\ stmt \in [Stmts -> Tree] /\ text \in Seq(QueryStatement)
      /\ qy \in MultiQueryRecord /\ qy.cur = Cur /\ Cur \in Stmts \cup {NoStmt}
      /\ qy.links = Cardinality(AllRows(pseudo)) + 1 /\ qy.open
  <2>1. qy.open
    BY DEF QueryClose
  <2> QED BY <2>1 DEF IInv, Types, MultiQueryRecord, Cur, QueryCount
<1>2. /\ pc = "idle" /\ pc' = pc /\ text' = text /\ pseudo' = pseudo
      /\ qy' = [u.qy EXCEPT !.open = no] /\ stmt' = u.stmt /\ objlist' = u.objlist
      /\ links' = u.links
  BY DEF QueryClose, FinishedIs
<1>3. Finishes(st, o, l)
  BY <1>1, QueryFinished
<1>no. no = FALSE /\ no \in BOOLEAN
  OBVIOUS
<1> HIDE DEF st, o, l, no
<1>4. /\ st \in [Stmts -> Tree] /\ o = None /\ l \in [Objs -> Int]
      /\ \A i \in Stmts : /\ Sound(st[i], ObjsOf(i)) /\ st[i].finished
                          /\ st[i].links = stmt[i].links /\ st[i].alive = stmt[i].alive
                          /\ st[i].started = stmt[i].started
                          /\ (i # Cur => st[i] = stmt[i])
      /\ \A x \in Objs : l[x] = Cardinality(ObjRows(pseudo, x)) + B(st[x[1]].saved, x)
  BY <1>3 DEF Finishes
<1>5. gone => Cur \in Stmts /\ st[Cur].finished /\ st[Cur].links > 0 /\ st[Cur].alive = TRUE
              /\ st[Cur].started = 1
  <2> SUFFICES ASSUME gone
               PROVE  /\ Cur \in Stmts /\ st[Cur].finished /\ st[Cur].links > 0
                      /\ st[Cur].alive = TRUE /\ st[Cur].started = 1
    OBVIOUS
  <2>1. Cur \in Stmts /\ S = stmt[Cur] /\ S.started = 1
    BY <1>1 DEF S, IInv, Current
  <2>2. stmt[Cur].links = Cardinality(RowsOf(pseudo, Cur)) + 1
    BY <2>1 DEF IInv, StmtCounts, B
  <2>3. st[Cur].links > 0
    BY <1>4, <2>1, <2>2, CountsAreNat
  <2>4. st[Cur].alive = TRUE
    BY <1>4, <2>1, <2>3 DEF Sound
  <2> QED BY <1>4, <2>1, <2>3, <2>4
<1>6. /\ u.objlist = o /\ u.links = l
      /\ u.qy \in MultiQueryRecord /\ u.qy.links = qy.links - 1 /\ u.qy.open = qy.open
      /\ u.qy.cur = (IF qy.links > 1 THEN qy.cur ELSE NoStmt)
      /\ u.stmt \in [Stmts -> Tree]
      /\ \A k \in Stmts : u.stmt[k] = IF ~(qy.links > 1) /\ k = qy.cur /\ qy.cur # NoStmt
                                      THEN Dropped(st[k]) ELSE st[k]
  <2>1. /\ qy \in MultiQueryRecord /\ st \in [Stmts -> Tree] /\ qy.cur \in Stmts \cup {NoStmt}
        /\ (~(qy.links > 1) /\ qy.cur # NoStmt =>
              st[qy.cur].finished /\ st[qy.cur].links > 0 /\ st[qy.cur].alive = TRUE)
    BY <1>1, <1>4, <1>5
  <2>2. LosesLink(qy, st, o, l, u)
    BY <2>1, UnlinkedIs
  <2> QED BY <2>2 DEF LosesLink
<1> HIDE DEF u
<1>7. /\ qy' \in MultiQueryRecord /\ qy'.links = qy.links - 1 /\ qy'.open = FALSE
      /\ Cur' = (IF gone THEN NoStmt ELSE Cur)
  <2> DEFINE v == u.qy
  <2>1. v \in MultiQueryRecord /\ qy' = [v EXCEPT !.open = no]
    BY <1>2, <1>6
  <2> HIDE DEF v
  <2>2. qy' \in MultiQueryRecord /\ qy'.links = v.links /\ qy'.open = no /\ qy'.cur = v.cur
    BY <1>no, <2>1 DEF MultiQueryRecord
  <2>3. Cur' = (IF qy.links > 1 THEN Cur ELSE NoStmt)
    BY <1>1, <1>6, <2>2 DEF Cur, v
  <2>4. Cur' = (IF gone THEN NoStmt ELSE Cur)
    BY <2>3
  <2> QED BY <1>6, <1>no, <2>2, <2>4 DEF v
<1>8. /\ objlist' = None /\ links' = l /\ stmt' \in [Stmts -> Tree]
      /\ \A k \in Stmts : stmt'[k] = IF gone /\ k = Cur THEN Dropped(st[k]) ELSE st[k]
  BY <1>1, <1>2, <1>4, <1>6
<1>9. /\ \A k \in Stmts : /\ stmt'[k].saved = st[k].saved /\ stmt'[k].finished
                          /\ stmt'[k].started = stmt[k].started
                          /\ stmt'[k].links = stmt[k].links - (IF gone /\ k = Cur THEN 1 ELSE 0)
                          /\ Sound(stmt'[k], ObjsOf(k))
                          /\ (k # Cur => stmt'[k] = stmt[k])
  <2> SUFFICES ASSUME NEW k \in Stmts
               PROVE  /\ stmt'[k].saved = st[k].saved /\ stmt'[k].finished
                      /\ stmt'[k].started = stmt[k].started
                      /\ stmt'[k].links = stmt[k].links - (IF gone /\ k = Cur THEN 1 ELSE 0)
                      /\ Sound(stmt'[k], ObjsOf(k))
                      /\ (k # Cur => stmt'[k] = stmt[k])
    OBVIOUS
  <2>1. CASE gone /\ k = Cur
    <3>1. stmt'[k] = Dropped(st[k]) /\ st[k] \in Tree /\ st[k].started = 1 /\ Sound(st[k], ObjsOf(k))
          /\ st[k].finished /\ st[k].links = stmt[k].links
      BY <1>4, <1>5, <1>8, <2>1
    <3>2. /\ stmt'[k].saved = st[k].saved /\ stmt'[k].finished = st[k].finished
          /\ stmt'[k].started = st[k].started /\ stmt'[k].links = st[k].links - 1
      BY <3>1, TreeDropped
    <3>3. Sound(stmt'[k], ObjsOf(k))
      BY <3>1, SoundDropped
    <3> QED BY <1>4, <2>1, <3>1, <3>2, <3>3
  <2>2. CASE ~(gone /\ k = Cur)
    <3>1. stmt'[k] = st[k]
      BY <1>8, <2>2
    <3>2. stmt[k].links \in Int
      BY <1>1 DEF Tree
    <3> QED BY <1>4, <2>2, <3>1, <3>2
  <2> QED BY <2>1, <2>2
<1>10. gone => Cur \in Stmts
  BY <1>5
<1> HIDE DEF gone
<1>11. Stmts' = Stmts /\ Objs' = Objs /\ (\A k : ObjsOf(k)' = ObjsOf(k))
  BY <1>2, SameText
<1>b. \A x, y : B(x, y) \in Int
  BY DEF B
<1>12. Types'
  <2>1. Cur' \in Stmts \cup {NoStmt}
    BY <1>1, <1>7
  <2>2. pseudo' \in [Handles -> [stmt : Stmts, row : Objs \cup {None}] \cup {None}]
    BY <1>2 DEF IInv, Types
  <2> QED BY <1>1, <1>2, <1>4, <1>7, <1>8, <1>11, <2>1, <2>2 DEF Types, MultiQueryRecord
<1>13. Sounds'
  BY <1>9, <1>11 DEF Sounds
<1>14. Current'
  <2>1. CASE Cur' = NoStmt
    BY <1>2, <1>8, <1>9, <1>11, <2>1 DEF Current
  <2>2. CASE Cur' # NoStmt
    <3>1. Cur' = Cur /\ Cur \in Stmts /\ Cur # NoStmt /\ S' = stmt'[Cur] /\ S = stmt[Cur]
      BY <1>1, <1>7, <2>2 DEF S
    <3>2. S'.started = 1 /\ S'.finished = TRUE
      <4>1. S.started = 1
        BY <3>1 DEF IInv, Current
      <4>2. S' \in Tree
        BY <1>8, <3>1
      <4> QED BY <1>9, <3>1, <4>1, <4>2 DEF Tree
    <3>3. \A k \in Stmts : k > Cur => stmt'[k] = NewStmt
      <4>1. \A k \in Stmts : k > Cur => k # Cur /\ stmt[k] = NewStmt
        BY <1>1, <3>1, ObjsFacts DEF IInv, Current
      <4> QED BY <1>9, <4>1
    <3> QED BY <1>2, <1>7, <1>8, <1>9, <1>11, <3>1, <3>2, <3>3 DEF Current
  <2> QED BY <2>1, <2>2
<1>15. LinkCounts'
  <2> SUFFICES ASSUME NEW x \in Objs
               PROVE  l[x] = Cardinality(ObjRows(pseudo, x)) + B(None, x)
                             + B(stmt'[x[1]].saved, x)
    BY <1>2, <1>8, <1>11 DEF LinkCounts
  <2>1. stmt'[x[1]].saved = st[x[1]].saved
    BY <1>1, <1>9, ObjsFacts
  <2>2. B(stmt'[x[1]].saved, x) = B(st[x[1]].saved, x)
    BY <2>1
  <2>3. B(None, x) = 0
    BY <1>1, ObjsFacts DEF B
  <2> QED BY <1>4, <1>b, <2>2, <2>3, CountsAreNat
<1>16. StmtCounts'
  <2> SUFFICES ASSUME NEW k \in Stmts
               PROVE  stmt'[k].links = Cardinality(RowsOf(pseudo, k)) + B(Cur', k)
    BY <1>2, <1>11 DEF StmtCounts
  <2>1. stmt[k].links = Cardinality(RowsOf(pseudo, k)) + B(Cur, k)
    BY DEF IInv, StmtCounts
  <2>2. CASE gone
    <3>1. Cur' # k
      BY <1>1, <1>7, <2>2, ObjsFacts DEF NoStmt
    <3> QED BY <1>9, <2>1, <2>2, <3>1, CountsAreNat DEF B
  <2>3. CASE ~gone
    BY <1>7, <1>9, <1>b, <2>1, <2>3, CountsAreNat
  <2> QED BY <2>2, <2>3
<1>17. QueryCount'
  BY <1>1, <1>2, <1>7, CountsAreNat DEF QueryCount
<1> QED BY <1>12, <1>13, <1>14, <1>15, <1>16, <1>17 DEF IInv

LEMMA FetchBegins == ASSUME IInv, Fetch PROVE IInv'
<1>1. /\ pc' = "next" /\ qy.open /\ Cur # NoStmt /\ text' = text /\ qy' = qy /\ stmt' = stmt
      /\ objlist' = objlist /\ links' = links /\ pseudo' = pseudo
  BY DEF Fetch
<1>2. Stmts' = Stmts /\ Objs' = Objs /\ (\A i : ObjsOf(i)' = ObjsOf(i)) /\ Cur' = Cur /\ S' = S
  BY <1>1, SameText DEF Cur, S
<1>3. Types' /\ Sounds'
  BY <1>1, <1>2 DEF IInv, Types, Sounds
<1>4. Current'
  BY <1>1, <1>2 DEF IInv, Current
<1>5. LinkCounts' /\ StmtCounts' /\ QueryCount'
  BY <1>1, <1>2 DEF IInv, LinkCounts, StmtCounts, QueryCount
<1> QED BY <1>3, <1>4, <1>5 DEF IInv

LEMMA Stuttering == ASSUME IInv, UNCHANGED vars PROVE IInv'
<1>1. /\ pc' = pc /\ text' = text /\ qy' = qy /\ stmt' = stmt
      /\ objlist' = objlist /\ links' = links /\ pseudo' = pseudo
  BY DEF vars
<1>2. Stmts' = Stmts /\ Objs' = Objs /\ (\A i : ObjsOf(i)' = ObjsOf(i)) /\ Cur' = Cur /\ S' = S
  BY <1>1, SameText DEF Cur, S
<1>3. Types' /\ Sounds'
  BY <1>1, <1>2 DEF IInv, Types, Sounds
<1>4. Current'
  BY <1>1, <1>2 DEF IInv, Current
<1>5. LinkCounts' /\ StmtCounts' /\ QueryCount'
  BY <1>1, <1>2 DEF IInv, LinkCounts, StmtCounts, QueryCount
<1> QED BY <1>3, <1>4, <1>5 DEF IInv

LEMMA Initially == ASSUME Init PROVE IInv
<1> DEFINE q0 == [links |-> 1, cur |-> NoStmt, ended |-> FALSE, open |-> TRUE]
           st0 == [i \in Stmts |-> NewStmt]
<1>1. /\ text \in Seq(QueryStatement) /\ qy = NextStatement(q0, 0) /\ Cur # NoStmt
      /\ stmt = StartedStmt(st0, Cur) /\ objlist = None /\ links = NewLinks
      /\ pseudo = [h \in Handles |-> None] /\ pc = "idle"
  BY QueryAssumption DEF Init, Cur
<1>2. /\ qy \in [links : Int, cur : Int, ended : BOOLEAN, open : BOOLEAN]
      /\ qy.links = 1 /\ qy.open = TRUE /\ Cur \in Stmts
  <2>1. /\ q0 \in [links : Int, cur : Int, ended : BOOLEAN, open : BOOLEAN]
        /\ q0.links = 1 /\ q0.open = TRUE
    BY DEF NoStmt
  <2> HIDE DEF q0
  <2> QED BY <1>1, <2>1, NextStatementIs DEF Cur
<1>3. \A i \in Stmts : i # NoStmt
  BY <1>1, ObjsFacts DEF NoStmt
<1>4. stmt = [st0 EXCEPT ![Cur] = Begun]
  BY <1>1 DEF StartedStmt, Begun
<1>5. stmt \in [Stmts -> Tree] /\ \A i \in Stmts : stmt[i] = IF i = Cur THEN Begun ELSE NewStmt
  BY <1>2, <1>4, NewStmtIs
<1>6. links \in [Objs -> Int] /\ \A x \in Objs : links[x] = 0
  BY <1>1 DEF NewLinks
<1>7. Types
  BY <1>1, <1>2, <1>5, <1>6 DEF Types
<1>8. Sounds
  BY <1>5, StartsSound DEF Sounds
<1>9. Current
  <2>1. S = Begun
    BY <1>2, <1>5 DEF S
  <2>2. \A i \in Stmts : i > Cur => stmt[i] = NewStmt
    <3>1. Stmts \subseteq Nat
      BY <1>1
    <3>2. \A i \in Stmts : i > Cur => i # Cur
      BY <1>2, <3>1
    <3> QED BY <1>5, <3>2
  <2>3. \A i \in Stmts : i # Cur => stmt[i].finished
    BY <1>5, NewStmtIs
  <2> QED BY <1>1, <1>2, <2>1, <2>2, <2>3, NewStmtIs DEF Current
<1>10. /\ \A i : RowsOf(pseudo, i) = {} /\ ObjRows(pseudo, i) = {}
       /\ AllRows(pseudo) = {}
  BY <1>1 DEF RowsOf, ObjRows, AllRows
<1>11. /\ \A i : Cardinality(RowsOf(pseudo, i)) = 0 /\ Cardinality(ObjRows(pseudo, i)) = 0
       /\ Cardinality(AllRows(pseudo)) = 0
  BY <1>10, FS_EmptySet
<1>12. LinkCounts
  <2> SUFFICES ASSUME NEW x \in Objs PROVE 0 = 0 + B(None, x) + B(stmt[x[1]].saved, x)
    BY <1>1, <1>6, <1>11 DEF LinkCounts
  <2>1. stmt[x[1]].saved = None /\ x # None
    BY ZenonT(40), <1>1, <1>5, NewStmtIs, ObjsFacts
  <2> QED BY <2>1 DEF B
<1>13. StmtCounts
  BY <1>5, <1>11, NewStmtIs DEF StmtCounts, B
<1>14. QueryCount
  BY <1>2, <1>11 DEF QueryCount
<1> QED BY <1>7, <1>8, <1>9, <1>12, <1>13, <1>14 DEF IInv

\* The parts of the invariant hold of every state.
THEOREM QueryInvariant == Spec => []IInv
<1>1. Init => IInv
  BY Initially
<1>2. IInv /\ [Next]_vars => IInv'
  <2> SUFFICES ASSUME IInv, [Next]_vars PROVE IInv'
    OBVIOUS
  <2>1. CASE Fetch
    BY <2>1, FetchBegins
  <2>2. CASE LimitReached
    BY <2>2, LimitReachedKeeps
  <2>3. CASE NextPlain
    BY <2>3, NextPlainKeeps
  <2>4. CASE NextGroup
    BY <2>4, NextGroupKeeps
  <2>5. CASE Prime
    BY <2>5, PrimeKeeps
  <2>6. CASE Group
    BY <2>6, GroupKeeps
  <2>7. CASE Regroup
    BY <2>7, RegroupKeeps
  <2>8. CASE Row
    BY <2>8, RowKeeps
  <2>9. CASE NoRow \/ AssignFails
    BY <2>9, NoRowKeeps
  <2>10. CASE QueryClose
    BY <2>10, QueryCloseKeeps
  <2>11. CASE \E h \in Handles : Close(h)
    BY <2>11, CloseKeeps
  <2>12. CASE UNCHANGED vars
    BY <2>12, Stuttering
  <2> QED BY <2>1, <2>2, <2>3, <2>4, <2>5, <2>6, <2>7, <2>8, <2>9, <2>10, <2>11, <2>12
          DEF Next, FetchStep
<1> QED BY <1>1, <1>2, PTL DEF Spec

(* Whatever the rows and the order of the calls: the current statement is one of
   the text, the object in the list and the rows of the caller are rows of the
   sources, and a saved row is one that mqtFinish will put back. *)
THEOREM TypeCorrect == Spec => []TypeOK
<1> DEFINE Places == pc \in {"idle", "next", "prime", "group", "regroup", "row"}
<1>1. Init => Places
  BY DEF Init
<1>2. Places /\ [Next]_vars => Places'
  <2> SUFFICES ASSUME Places, [Next]_vars PROVE Places'
    OBVIOUS
  <2>1. CASE Fetch
    BY <2>1 DEF Fetch
  <2>2. CASE LimitReached
    BY <2>2 DEF LimitReached, EndOfStatement
  <2>3. CASE NextPlain
    BY <2>3 DEF NextPlain, EndOfStatement
  <2>4. CASE NextGroup
    BY <2>4 DEF NextGroup, EndOfStatement
  <2>5. CASE Prime
    BY <2>5 DEF Prime, EndOfStatement
  <2>6. CASE Group
    BY <2>6 DEF Group
  <2>7. CASE Regroup
    BY <2>7 DEF Regroup
  <2>8. CASE Row \/ NoRow \/ AssignFails
    BY <2>8 DEF Row, NoRow, AssignFails
  <2>9. CASE QueryClose \/ \E h \in Handles : Close(h)
    BY <2>9 DEF QueryClose, Close
  <2>10. CASE UNCHANGED vars
    BY <2>10 DEF vars
  <2> QED BY <2>1, <2>2, <2>3, <2>4, <2>5, <2>6, <2>7, <2>8, <2>9, <2>10 DEF Next, FetchStep
<1>3. IInv /\ Places => TypeOK
  <2> SUFFICES ASSUME IInv, Places PROVE TypeOK
    OBVIOUS
  <2>1. Cur \in Stmts \cup {NoStmt} /\ objlist \in Objs \cup {None}
    BY DEF IInv, Types
  <2>2. \A h \in Handles : pseudo[h] = None \/ pseudo[h].row \in Objs \cup {None}
    BY DEF IInv, Types
  <2>3. \A i \in Stmts : stmt[i].saved # None => stmt[i].saving
    BY DEF IInv, Sounds, Sound
  <2> QED BY <2>1, <2>2, <2>3 DEF TypeOK
<1> QED BY <1>1, <1>2, <1>3, QueryInvariant, PTL DEF Spec

(* A row the caller has keeps what it shows: its object, its statement and the
   query stand until the last row of them is closed, in whatever order rows,
   query and fetches come, and then each goes once. *)
THEOREM RowsAreKept == Spec => []RowsKept
<1>1. IInv => RowsKept
  BY IInvIsEnough
<1> QED BY <1>1, QueryInvariant, PTL

-----------------------------------------------------------------------------
(***************************************************************************)
(* What a fold picks of a list, step by step.                              *)
(***************************************************************************)
\* f[j] is what is picked of the first j elements of s.
Picks(f, s, A) ==
  /\ f \in [0..Len(s) -> Seq(In(s))]
  /\ f[0] = <<>>
  /\ \A j \in 1..Len(s) : f[j] = IF s[j] \in A THEN Append(f[j - 1], s[j]) ELSE f[j - 1]
  /\ f[Len(s)] = Picked(s, A)

PickedUpTo(s, A) == CHOOSE f : Picks(f, s, A)

LEMMA PickedUnfolds ==
  ASSUME NEW s, NEW A
  PROVE  Picked(s, A) =
           (CHOOSE it : it = [d \in SUBSET (DOMAIN s) |->
              IF d = {} THEN <<>>
              ELSE IF s[Max(d)] \in A THEN Append(it[d \ {Max(d)}], s[Max(d)])
                   ELSE it[d \ {Max(d)}]])[DOMAIN s]
BY Zenon DEF Picked, FoldLeft, MapThenFoldSet

LEMMA PickedIs ==
  ASSUME NEW W, NEW s \in Seq(W), NEW A
  PROVE  Picks(PickedUpTo(s, A), s, A)
<1> DEFINE n == Len(s)
           V == Seq(In(s))
           o == [m \in 1..n |-> [v \in V |-> IF s[m] \in A THEN Append(v, s[m]) ELSE v]]
           Eq(it) == it = [d \in SUBSET (DOMAIN s) |->
                       IF d = {} THEN <<>>
                       ELSE IF s[Max(d)] \in A THEN Append(it[d \ {Max(d)}], s[Max(d)])
                            ELSE it[d \ {Max(d)}]]
           e == CHOOSE it : Eq(it)
<1>1. n \in Nat /\ DOMAIN s = 1..n /\ \A m \in 1..n : s[m] \in In(s)
  BY DEF In
<1>2. <<>> \in V /\ \A v \in V, m \in 1..n : Append(v, s[m]) \in V
  BY <1>1
<1>3. o \in [1..n -> [V -> V]]
  BY <1>2
<1>4. PICK it : Folding(it, n, <<>>, o)
  BY <1>1, FoldExists
<1>5. \A d \in SUBSET (1..n) : it[d] \in V
  <2>1. PICK f : f = Partials(it, n)
    OBVIOUS
  <2>2. PICK b : b = <<>>
    OBVIOUS
  <2> HIDE DEF o, V, n
  <2>3. b \in V /\ FoldsWith(it, n, V, b, o)
    BY <1>2, <1>4, <2>2, FoldingFolds
  <2> QED BY <1>1, <1>3, <2>1, <2>3, FoldIs
<1>6. Eq(it)
  <2>1. ASSUME NEW d \in SUBSET (1..n), d # {}
        PROVE  o[Max(d)][it[d \ {Max(d)}]] =
                 IF s[Max(d)] \in A THEN Append(it[d \ {Max(d)}], s[Max(d)])
                 ELSE it[d \ {Max(d)}]
    <3>1. Max(d) \in 1..n
      BY <1>1, <2>1, MaxIs
    <3>2. it[d \ {Max(d)}] \in V
      BY <1>5
    <3> QED BY <3>1, <3>2
  <2> HIDE DEF o, n
  <2> QED BY <1>1, <1>4, <2>1 DEF Folding
<1>7. Eq(e)
  <2> HIDE DEF Eq
  <2> QED BY <1>6
<1>8. FoldsWith(e, n, V, <<>>, o)
  <2>1. \A d \in SUBSET (1..n) :
          e[d] = IF d = {} THEN <<>>
                 ELSE IF s[Max(d)] \in A THEN Append(e[d \ {Max(d)}], s[Max(d)])
                      ELSE e[d \ {Max(d)}]
    <3> HIDE DEF e, n
    <3> QED BY <1>1, <1>7
  <2> HIDE DEF e, Eq
  <2>2. ASSUME NEW d \in SUBSET (1..n), d # {}, e[d \ {Max(d)}] \in V
        PROVE  e[d] = o[Max(d)][e[d \ {Max(d)}]]
    <3>1. Max(d) \in 1..n
      BY <1>1, <2>2, MaxIs
    <3> QED BY <2>1, <2>2, <3>1
  <2>3. e[{}] = <<>>
    BY <2>1
  <2> QED BY <2>2, <2>3 DEF FoldsWith
<1>9. Picked(s, A) = e[1..n]
  <2> HIDE DEF n
  <2> QED BY <1>1, PickedUnfolds
<1> HIDE DEF e, Eq
<1> DEFINE f == Partials(e, n)
<1>10. /\ f \in [0..n -> V] /\ f[0] = <<>>
       /\ \A j \in 1..n : f[j] = o[j][f[j - 1]]
       /\ f[n] = e[1..n]
  <2>1. PICK b : b = <<>>
    OBVIOUS
  <2>2. n \in Nat /\ b \in V /\ o \in [1..n -> [V -> V]] /\ FoldsWith(e, n, V, b, o)
    <3> HIDE DEF o, V, n
    <3> QED BY <1>1, <1>2, <1>3, <1>8, <2>1
  <2> HIDE DEF o, V, n
  <2>3. /\ f \in [0..n -> V] /\ f[0] = b
        /\ \A j \in 1..n : f[j] = o[j][f[j - 1]]
        /\ f[n] = e[1..n]
    <3>1. PICK x : x = Partials(e, n)
      OBVIOUS
    <3>2. PICK N, U, p, c : N = n /\ U = V /\ p = o /\ c = e
      OBVIOUS
    <3>3. /\ N \in Nat /\ b \in U /\ p \in [1..N -> [U -> U]]
          /\ FoldsWith(c, N, U, b, p) /\ x = Partials(c, N)
      BY <2>2, <3>1, <3>2
    <3>4. Proceeds(x, N, U, b, p) /\ x[N] = c[1..N]
      BY ONLY <3>3, FoldIs
    <3> QED BY <3>1, <3>2, <3>4 DEF Proceeds
  <2> QED BY <2>1, <2>3
<1>11. Picks(f, s, A)
  <2>1. \A j \in 1..n : f[j - 1] \in V
    <3> HIDE DEF f, o, V, n
    <3>1. \A j \in 1..n : j - 1 \in 0..n
      BY <1>1
    <3> QED BY <1>10, <3>1
  <2>2. \A j \in 1..n : f[j] = IF s[j] \in A THEN Append(f[j - 1], s[j]) ELSE f[j - 1]
    <3> HIDE DEF f
    <3> QED BY <1>10, <2>1
  <2> HIDE DEF f, o
  <2> QED BY <1>1, <1>9, <1>10, <2>2 DEF Picks
<1> HIDE DEF f
<1> QED BY <1>11 DEF PickedUpTo

\* What is picked of more elements has what is picked of fewer before it.
LEMMA PickedGrows ==
  ASSUME NEW W, NEW s \in Seq(W), NEW A, NEW f, Picks(f, s, A), NEW a \in 0..Len(s)
  PROVE  \A b \in a..Len(s) : /\ Len(f[a]) <= Len(f[b])
                              /\ \A k \in 1..Len(f[a]) : f[b][k] = f[a][k]
<1> DEFINE n == Len(s)
           Good(b) == /\ Len(f[a]) <= Len(f[b])
                      /\ \A k \in 1..Len(f[a]) : f[b][k] = f[a][k]
           C == {b \in 0..n : b >= a => Good(b)}
<1>1. n \in Nat /\ a \in Nat /\ \A j \in 0..n : f[j] \in Seq(In(s)) /\ Len(f[j]) \in Nat
  BY DEF Picks
<1>2. 0 \in C
  <2>1. 0 >= a => a = 0
    BY <1>1
  <2>2. Good(a)
    BY <1>1
  <2> QED BY <1>1, <2>1, <2>2
<1>3. ASSUME NEW b \in 1..n, b - 1 \in C PROVE b \in C
  <2>0. b \in 0..n /\ b - 1 \in 0..n /\ b \in Nat
    BY <1>1
  <2>1. CASE b <= a
    <3>1. b >= a => a = b
      BY <1>1, <2>0, <2>1
    <3>2. Good(a)
      BY <1>1
    <3> QED BY <2>0, <3>1, <3>2
  <2>2. CASE a < b
    <3>1. Good(b - 1)
      <4>1. b - 1 >= a
        BY <1>1, <2>0, <2>2
      <4> QED BY <1>3, <4>1
    <3>2. f[b] = f[b - 1] \/ f[b] = Append(f[b - 1], s[b])
      BY DEF Picks
    <3>3. CASE f[b] = f[b - 1]
      BY <2>0, <3>1, <3>3
    <3>4. CASE f[b] = Append(f[b - 1], s[b])
      <4>1. PICK v \in Seq(In(s)) : v = f[b - 1]
        BY <1>1, <2>0
      <4>2. Len(Append(v, s[b])) = Len(v) + 1 /\ \A k \in 1..Len(v) : Append(v, s[b])[k] = v[k]
        BY <4>1
      <4>3. Len(f[a]) <= Len(v) /\ Len(v) \in Nat /\ Len(f[a]) \in Nat
            /\ \A k \in 1..Len(f[a]) : v[k] = f[a][k]
        BY <1>1, <3>1, <4>1
      <4>4. Len(f[a]) <= Len(f[b])
        BY <3>4, <4>1, <4>2, <4>3
      <4>5. ASSUME NEW k \in 1..Len(f[a]) PROVE f[b][k] = f[a][k]
        <5>1. k \in 1..Len(v)
          BY <4>3
        <5> QED BY <3>4, <4>1, <4>2, <4>3, <5>1
      <4>6. Good(b)
        BY <4>4, <4>5
      <4> HIDE DEF Good
      <4> QED BY <2>0, <4>6
    <3> QED BY <3>2, <3>3, <3>4
  <2> QED BY <1>1, <2>0, <2>1, <2>2
<1>4. \A b \in 0..n : b \in C
  <2> HIDE DEF C, n
  <2> QED BY <1>1, <1>2, <1>3, UpTo
<1>5. \A b \in a..n : b \in 0..n /\ b >= a
  BY <1>1
<1> QED BY <1>4, <1>5

-----------------------------------------------------------------------------
(***************************************************************************)
(* The rows that pass the constraint.                                      *)
(***************************************************************************)
Rising(q) == \A a, b \in 1..Len(q) : a < b => q[a] < q[b]

LEMMA RowsAre ==
  ASSUME NEW t \in QueryStatement
  PROVE  /\ t.rows \in Seq([g : Values, ok : BOOLEAN]) /\ Len(t.rows) \in Nat
         /\ DOMAIN t.rows = 1..Len(t.rows)
         /\ \A n \in 1..Len(t.rows) : t.rows[n].g \in Values /\ t.rows[n].ok \in BOOLEAN
         /\ t.by \in BOOLEAN /\ t.level \in 0..2 /\ t.having \in Nat /\ t.start \in Nat
         /\ t.cnt \in Nat
<1>1. t.rows \in Seq([g : Values, ok : BOOLEAN])
  BY DEF QueryStatement
<1>2. \A n \in 1..Len(t.rows) : t.rows[n] \in [g : Values, ok : BOOLEAN]
  BY <1>1, Element
<1> QED BY <1>1, <1>2 DEF QueryStatement

LEMMA KeptIs ==
  ASSUME NEW t \in QueryStatement, NEW K, K = Kept(t)
  PROVE  /\ K \in Seq(1..Len(t.rows)) /\ Len(K) \in Nat /\ DOMAIN K = 1..Len(K)
         /\ \A a \in 1..Len(K) : K[a] \in 1..Len(t.rows) /\ t.rows[K[a]].ok
         /\ Rising(K)
         /\ \A x \in 1..Len(t.rows) : t.rows[x].ok => \E a \in 1..Len(K) : K[a] = x
<1> DEFINE n == Len(t.rows)
           all == [i \in 1..n |-> i]
           A == {i \in 1..n : t.rows[i].ok}
           f == PickedUpTo(all, A)
           Good(q, j) == /\ q \in Seq(1..n)
                         /\ \A a \in 1..Len(q) : q[a] <= j /\ t.rows[q[a]].ok
                         /\ Rising(q)
                         /\ \A x \in 1..j : t.rows[x].ok => \E a \in 1..Len(q) : q[a] = x
           C == {j \in 0..n : Good(f[j], j)}
<1>1. n \in Nat /\ DOMAIN t.rows = 1..n
  BY RowsAre
<1>2. all \in Seq(1..n) /\ Len(all) = n /\ \A j \in 1..n : all[j] = j
  BY <1>1
<1>3. K = Picked(all, A)
  BY <1>1 DEF Kept
<1> HIDE DEF n, all, A
<1>4. Picks(f, all, A)
  BY <1>2, PickedIs
<1> HIDE DEF f
<1>5. f[0] = <<>> /\ K = f[n]
      /\ \A j \in 1..n : f[j] = IF j \in A THEN Append(f[j - 1], j) ELSE f[j - 1]
  BY <1>2, <1>3, <1>4 DEF Picks
<1>6. 0 \in C
  <2>1. Good(<<>>, 0)
    BY DEF Rising
  <2> HIDE DEF Good
  <2> QED BY <1>1, <1>5, <2>1
<1>7. ASSUME NEW j \in 1..n, j - 1 \in C PROVE j \in C
  <2>0. j \in 0..n /\ j \in Nat
    BY <1>1
  <2>1. PICK q : q = f[j - 1]
    OBVIOUS
  <2>2. Good(q, j - 1)
    BY <1>7, <2>1
  <2>3. CASE j \in A
    <3>1. f[j] = Append(q, j) /\ t.rows[j].ok
      BY <1>5, <2>1, <2>3 DEF A
    <3>2. PICK p : p = Append(q, j)
      OBVIOUS
    <3>3. /\ p \in Seq(1..n) /\ Len(q) \in Nat /\ Len(p) = Len(q) + 1 /\ p[Len(p)] = j
          /\ \A a \in 1..Len(q) : p[a] = q[a] /\ q[a] \in 1..n
      <4>1. q \in Seq(1..n) /\ \A a \in 1..Len(q) : q[a] \in 1..n
        BY <2>2, Element
      <4> QED BY <3>2, <4>1
    <3>4. \A a \in 1..Len(p) : a = Len(p) \/ a \in 1..Len(q)
      BY <3>3
    <3>5. \A a \in 1..Len(p) : p[a] <= j /\ t.rows[p[a]].ok
      <4> SUFFICES ASSUME NEW a \in 1..Len(p) PROVE p[a] <= j /\ t.rows[p[a]].ok
        OBVIOUS
      <4>1. CASE a = Len(p)
        BY <2>0, <3>1, <3>3, <4>1
      <4>2. CASE a \in 1..Len(q)
        <5>1. q[a] <= j - 1 /\ t.rows[q[a]].ok /\ q[a] \in Int /\ p[a] = q[a]
          BY <1>1, <2>2, <3>3, <4>2
        <5> QED BY <2>0, <5>1
      <4> QED BY <3>4, <4>1, <4>2
    <3>6. Rising(p)
      <4> SUFFICES ASSUME NEW a \in 1..Len(p), NEW b \in 1..Len(p), a < b PROVE p[a] < p[b]
        BY DEF Rising
      <4>1. a \in 1..Len(q)
        BY <3>3
      <4>2. CASE b \in 1..Len(q)
        BY <2>2, <3>3, <4>1, <4>2 DEF Rising
      <4>3. CASE b = Len(p)
        <5>1. q[a] <= j - 1 /\ q[a] \in Int /\ p[a] = q[a] /\ p[b] = j
          BY <1>1, <2>2, <3>3, <4>1, <4>3
        <5> QED BY <2>0, <5>1
      <4> QED BY <3>4, <4>2, <4>3
    <3>7. ASSUME NEW x \in 1..j, t.rows[x].ok PROVE \E a \in 1..Len(p) : p[a] = x
      <4>1. CASE x = j
        <5>1. Len(p) \in 1..Len(p)
          BY <3>3
        <5> QED BY <3>3, <4>1, <5>1
      <4>2. CASE x # j
        <5>1. x \in 1..(j - 1)
          BY <2>0, <4>2
        <5>2. PICK a \in 1..Len(q) : q[a] = x
          BY <2>2, <3>7, <5>1
        <5>3. a \in 1..Len(p)
          BY <3>3
        <5> QED BY <3>3, <5>2, <5>3
      <4> QED BY <4>1, <4>2
    <3>8. Good(p, j)
      BY <3>3, <3>5, <3>6, <3>7
    <3> HIDE DEF Good
    <3> QED BY <2>0, <3>1, <3>2, <3>8
  <2>4. CASE j \notin A
    <3>1. f[j] = q /\ ~t.rows[j].ok
      BY <1>5, <2>1, <2>4 DEF A
    <3>2. \A a \in 1..Len(q) : q[a] \in Int
      BY <1>1, <2>2
    <3>3. \A a \in 1..Len(q) : q[a] <= j /\ t.rows[q[a]].ok
      BY <2>0, <2>2, <3>2
    <3>4. ASSUME NEW x \in 1..j, t.rows[x].ok PROVE \E a \in 1..Len(q) : q[a] = x
      <4>1. x \in 1..(j - 1)
        BY <2>0, <3>1, <3>4
      <4> QED BY <2>2, <3>4, <4>1
    <3>5. Good(q, j)
      BY <2>2, <3>3, <3>4
    <3> HIDE DEF Good
    <3> QED BY <2>0, <3>1, <3>5
  <2> QED BY <2>3, <2>4
<1>8. n \in C
  <2> HIDE DEF C
  <2>1. \A j \in 0..n : j \in C
    BY <1>1, <1>6, <1>7, UpTo
  <2> QED BY <1>1, <2>1
<1>9. Good(K, n)
  BY <1>5, <1>8
<1>10. K \in Seq(1..n) /\ Len(K) \in Nat /\ DOMAIN K = 1..Len(K)
  BY <1>9
<1>11. \A a \in 1..Len(K) : K[a] \in 1..n
  BY <1>10, Element
<1> QED BY <1>9, <1>10, <1>11 DEF n

-----------------------------------------------------------------------------
(***************************************************************************)
(* The runs of rows with one key.                                          *)
(***************************************************************************)
\* r[j] is the runs of the first j rows.
RunsStep(r, t) ==
  /\ r \in [0..Len(Kept(t)) -> Seq(Seq(Nat))]
  /\ r[0] = <<>>
  /\ \A j \in 1..Len(Kept(t)) : r[j] = WithRow(t, r[j - 1], Kept(t)[j])
  /\ r[Len(Kept(t))] = Runs(t)

RunsUpTo(t) == CHOOSE r : RunsStep(r, t)

LEMMA RunsUnfold ==
  ASSUME NEW t
  PROVE  Runs(t) =
           (CHOOSE it : it = [d \in SUBSET (DOMAIN Kept(t)) |->
              IF d = {} THEN <<>>
              ELSE WithRow(t, it[d \ {Max(d)}], Kept(t)[Max(d)])])[DOMAIN Kept(t)]
BY SMT DEF Runs, FoldLeft, MapThenFoldSet

LEMMA WithRowIs ==
  ASSUME NEW t, NEW R \in Seq(Seq(Nat)), NEW n \in Nat
  PROVE  /\ WithRow(t, R, n) \in Seq(Seq(Nat))
         /\ R = <<>> \/ GroupKey(t, Head(Last(R))) # GroupKey(t, n)
              => /\ Len(WithRow(t, R, n)) = Len(R) + 1
                 /\ WithRow(t, R, n)[Len(R) + 1] = <<n>>
                 /\ \A k \in 1..Len(R) : WithRow(t, R, n)[k] = R[k]
         /\ R # <<>> /\ GroupKey(t, Head(Last(R))) = GroupKey(t, n)
              => /\ Len(WithRow(t, R, n)) = Len(R)
                 /\ WithRow(t, R, n)[Len(R)] = Append(R[Len(R)], n)
                 /\ \A k \in 1..(Len(R) - 1) : WithRow(t, R, n)[k] = R[k]
<1>1. CASE R = <<>> \/ GroupKey(t, Head(Last(R))) # GroupKey(t, n)
  <2>1. WithRow(t, R, n) = Append(R, <<n>>) /\ <<n>> \in Seq(Nat)
    BY <1>1 DEF WithRow
  <2>2. PICK q \in Seq(Nat) : q = <<n>>
    BY <2>1
  <2>3. /\ Append(R, q) \in Seq(Seq(Nat)) /\ Len(Append(R, q)) = Len(R) + 1
        /\ Append(R, q)[Len(R) + 1] = q /\ \A k \in 1..Len(R) : Append(R, q)[k] = R[k]
    OBVIOUS
  <2> QED BY <1>1, <2>1, <2>2, <2>3
<1>2. CASE R # <<>> /\ GroupKey(t, Head(Last(R))) = GroupKey(t, n)
  <2>1. Len(R) \in 1..Len(R) /\ Len(R) \in Nat
    BY <1>2
  <2>2. R[Len(R)] \in Seq(Nat)
    BY <2>1, Element
  <2>3. Append(R[Len(R)], n) \in Seq(Nat)
    BY <2>2
  <2>4. PICK q \in Seq(Nat) : q = Append(R[Len(R)], n)
    BY <2>3
  <2>5. WithRow(t, R, n) = [R EXCEPT ![Len(R)] = q]
    BY <1>2, <2>4 DEF WithRow
  <2>6. PICK m : m = Len(R)
    OBVIOUS
  <2>7. PICK Q : Q = [R EXCEPT ![m] = q]
    OBVIOUS
  <2>8. Q \in Seq(Seq(Nat)) /\ Len(Q) = m /\ Q[m] = q /\ \A k \in 1..(m - 1) : Q[k] = R[k]
    BY <2>1, <2>6, <2>7
  <2> QED BY <1>2, <2>4, <2>5, <2>6, <2>7, <2>8
<1> QED BY <1>1, <1>2

\* Row x joins the last of the runs R, or begins a run of its own.
Joins(R, Q, x) == /\ Len(Q) = Len(R) /\ Q[Len(R)] = Append(R[Len(R)], x)
                  /\ \A k \in 1..(Len(R) - 1) : Q[k] = R[k]
Begins(R, Q, x) == /\ Len(Q) = Len(R) + 1 /\ Q[Len(R) + 1] = <<x>>
                   /\ \A k \in 1..Len(R) : Q[k] = R[k]

LEMMA WithRowAdds ==
  ASSUME NEW t, NEW R \in Seq(Seq(Nat)), NEW n \in Nat
  PROVE  IF R # <<>> /\ GroupKey(t, Head(Last(R))) = GroupKey(t, n)
         THEN Joins(R, WithRow(t, R, n), n) ELSE Begins(R, WithRow(t, R, n), n)
<1>1. CASE R # <<>> /\ GroupKey(t, Head(Last(R))) = GroupKey(t, n)
  BY <1>1, WithRowIs DEF Joins
<1>2. CASE ~(R # <<>> /\ GroupKey(t, Head(Last(R))) = GroupKey(t, n))
  <2>1. R = <<>> \/ GroupKey(t, Head(Last(R))) # GroupKey(t, n)
    BY <1>2
  <2> QED BY <1>2, <2>1, WithRowIs, ZenonT(40) DEF Begins
<1> QED BY <1>1, <1>2

LEMMA WithRowType ==
  ASSUME NEW t, NEW R \in Seq(Seq(Nat)), NEW n \in Nat
  PROVE  WithRow(t, R, n) \in Seq(Seq(Nat))
BY ONLY WithRowIs

LEMMA KeptNat ==
  ASSUME NEW t \in QueryStatement
  PROVE  /\ Len(Kept(t)) \in Nat /\ DOMAIN Kept(t) = 1..Len(Kept(t))
         /\ \A j \in 1..Len(Kept(t)) : Kept(t)[j] \in Nat
<1>1. PICK K : K = Kept(t)
  OBVIOUS
<1>2. /\ Len(K) \in Nat /\ DOMAIN K = 1..Len(K) /\ Len(t.rows) \in Nat
      /\ \A j \in 1..Len(K) : K[j] \in 1..Len(t.rows)
  BY <1>1, KeptIs, RowsAre
<1>3. \A j \in 1..Len(K) : K[j] \in Nat
  BY <1>2
<1> QED BY <1>1, <1>2, <1>3

LEMMA RunsStepIs ==
  ASSUME NEW t \in QueryStatement
  PROVE  RunsStep(RunsUpTo(t), t)
<1>0. PICK K : K = Kept(t)
  OBVIOUS
<1> DEFINE n == Len(K)
           V == Seq(Seq(Nat))
           o == [m \in 1..n |-> [v \in V |-> WithRow(t, v, K[m])]]
           Eq(it) == it = [d \in SUBSET (DOMAIN K) |->
                       IF d = {} THEN <<>> ELSE WithRow(t, it[d \ {Max(d)}], K[Max(d)])]
           e == CHOOSE it : Eq(it)
<1>1. n \in Nat /\ DOMAIN K = 1..n /\ \A m \in 1..n : K[m] \in Nat
  BY <1>0, KeptNat
<1>2. <<>> \in V /\ \A v \in V, m \in 1..n : WithRow(t, v, K[m]) \in V
  <2>1. <<>> \in V
    OBVIOUS
  <2> QED BY <1>1, <2>1, WithRowType
<1>3. o \in [1..n -> [V -> V]]
  BY <1>2
<1>4. PICK it : Folding(it, n, <<>>, o)
  BY <1>1, FoldExists
<1>5. \A d \in SUBSET (1..n) : it[d] \in V
  <2>1. PICK f : f = Partials(it, n)
    OBVIOUS
  <2>2. PICK b : b = <<>>
    OBVIOUS
  <2> HIDE DEF o, V, n
  <2>3. b \in V /\ FoldsWith(it, n, V, b, o)
    BY <1>2, <1>4, <2>2, FoldingFolds
  <2> QED BY <1>1, <1>3, <2>1, <2>3, FoldIs
<1>6. Eq(it)
  <2>1. ASSUME NEW d \in SUBSET (1..n), d # {}
        PROVE  o[Max(d)][it[d \ {Max(d)}]] = WithRow(t, it[d \ {Max(d)}], K[Max(d)])
    <3>1. Max(d) \in 1..n
      BY <1>1, <2>1, MaxIs
    <3>2. it[d \ {Max(d)}] \in V
      BY <1>5
    <3> QED BY <3>1, <3>2
  <2> HIDE DEF o, n
  <2> QED BY <1>1, <1>4, <2>1 DEF Folding
<1>7. Eq(e)
  <2> HIDE DEF Eq
  <2> QED BY <1>6
<1>8. FoldsWith(e, n, V, <<>>, o)
  <2>1. \A d \in SUBSET (1..n) :
          e[d] = IF d = {} THEN <<>> ELSE WithRow(t, e[d \ {Max(d)}], K[Max(d)])
    <3> HIDE DEF e, n
    <3> QED BY <1>1, <1>7
  <2> HIDE DEF e, Eq
  <2>2. ASSUME NEW d \in SUBSET (1..n), d # {}, e[d \ {Max(d)}] \in V
        PROVE  e[d] = o[Max(d)][e[d \ {Max(d)}]]
    <3>1. Max(d) \in 1..n
      BY <1>1, <2>2, MaxIs
    <3> QED BY <2>1, <2>2, <3>1
  <2>3. e[{}] = <<>>
    BY <2>1
  <2> QED BY <2>2, <2>3 DEF FoldsWith
<1>9. Runs(t) = e[1..n]
  <2> HIDE DEF n
  <2> QED BY <1>0, <1>1, RunsUnfold
<1> HIDE DEF e, Eq
<1>10. PICK f : f = Partials(e, n)
  OBVIOUS
<1>11. Proceeds(f, n, V, <<>>, o) /\ f[n] = e[1..n]
  <2>1. PICK b : b = <<>>
    OBVIOUS
  <2>2. n \in Nat /\ b \in V /\ o \in [1..n -> [V -> V]] /\ FoldsWith(e, n, V, b, o)
    <3> HIDE DEF o, V, n
    <3> QED BY <1>1, <1>2, <1>3, <1>8, <2>1
  <2> HIDE DEF o, V, n
  <2>3. PICK N, U, p, c : N = n /\ U = V /\ p = o /\ c = e
    OBVIOUS
  <2>4. /\ N \in Nat /\ b \in U /\ p \in [1..N -> [U -> U]]
        /\ FoldsWith(c, N, U, b, p) /\ f = Partials(c, N)
    BY <1>10, <2>2, <2>3
  <2>5. Proceeds(f, N, U, b, p) /\ f[N] = c[1..N]
    BY ONLY <2>4, FoldIs
  <2> QED BY <2>1, <2>3, <2>5
<1>12. RunsStep(f, t)
  <2>1. f \in [0..n -> V] /\ f[0] = <<>> /\ \A j \in 1..n : f[j] = o[j][f[j - 1]]
    <3> HIDE DEF o, V, n
    <3> QED BY <1>11 DEF Proceeds
  <2>2. \A j \in 1..n : j - 1 \in 0..n
    BY <1>1
  <2>3. \A j \in 1..n : f[j] = WithRow(t, f[j - 1], K[j])
    BY <2>1, <2>2
  <2> HIDE DEF o, n
  <2>4. f \in [0..n -> Seq(Seq(Nat))]
    BY <2>1
  <2> QED BY <1>0, <1>9, <1>11, <2>1, <2>3, <2>4 DEF RunsStep, n
<1> QED BY <1>12 DEF RunsUpTo

LEMMA AppendLast ==
  ASSUME NEW V, NEW q \in Seq(V), NEW x \in V
  PROVE  /\ Append(q, x) \in Seq(V) /\ Append(q, x) # <<>> /\ <<x>> # <<>>
         /\ Last(Append(q, x)) = x /\ Last(<<x>>) = x /\ Head(<<x>>) = x
         /\ q # <<>> => Head(Append(q, x)) = Head(q)
<1>1. PICK p : p = Append(q, x)
  OBVIOUS
<1>2. p \in Seq(V) /\ Len(q) \in Nat /\ Len(p) = Len(q) + 1 /\ p[Len(q) + 1] = x
      /\ \A k \in 1..Len(q) : p[k] = q[k]
  BY <1>1
<1>3. p # <<>>
  <2>1. Len(p) # 0 /\ Len(<<>>) = 0
    BY <1>2
  <2> QED BY <2>1
<1>4. <<x>> # <<>>
  <2>1. Len(<<x>>) = 1 /\ Len(<<>>) = 0
    OBVIOUS
  <2> QED BY <2>1
<1>5. Last(p) = x
  BY <1>2 DEF Last
<1>6. Last(<<x>>) = x /\ Head(<<x>>) = x
  BY DEF Last
<1>7. q # <<>> => Head(p) = Head(q)
  <2> HAVE q # <<>>
  <2>1. 1 \in 1..Len(q) /\ Head(q) = q[1]
    BY <1>2
  <2>2. Head(p) = p[1]
    BY <1>2, <1>3
  <2> QED BY <1>2, <2>1, <2>2
<1> QED BY <1>1, <1>2, <1>3, <1>4, <1>5, <1>6, <1>7

Keyed(t, a, b) == GroupKey(t, Kept(t)[a]) = GroupKey(t, Kept(t)[b])

LEMMA RunsAre ==
  ASSUME NEW t \in QueryStatement, NEW r, RunsStep(r, t), NEW j \in 1..Len(Kept(t))
  PROVE  /\ r[j] \in Seq(Seq(Nat)) /\ Len(r[j]) \in Nat \ {0} /\ r[j] # <<>>
         /\ \A k \in 1..Len(r[j]) : r[j][k] \in Seq(Nat) /\ r[j][k] # <<>>
         /\ Last(r[j]) = r[j][Len(r[j])]
         /\ Last(Last(r[j])) = Kept(t)[j]
         /\ GroupKey(t, Head(Last(r[j]))) = GroupKey(t, Kept(t)[j])
<1>0. PICK K : K = Kept(t)
  OBVIOUS
<1> DEFINE n == Len(K)
           Good(R, i) == /\ Len(R) > 0
                         /\ \A k \in 1..Len(R) : R[k] # <<>>
                         /\ Last(Last(R)) = K[i]
                         /\ GroupKey(t, Head(Last(R))) = GroupKey(t, K[i])
           C == {i \in 0..n : i > 0 => Good(r[i], i)}
<1>1. n \in Nat /\ \A m \in 1..n : K[m] \in Nat
  BY <1>0, KeptNat
<1>2. /\ r[0] = <<>> /\ \A i \in 0..n : r[i] \in Seq(Seq(Nat))
      /\ \A i \in 1..n : r[i] = WithRow(t, r[i - 1], K[i])
  BY <1>0 DEF RunsStep
<1>3. 0 \in C
  BY <1>1
<1>4. ASSUME NEW i \in 1..n, i - 1 \in C PROVE i \in C
  <2>0. i \in 0..n /\ i - 1 \in 0..n /\ i > 0
    BY <1>1
  <2>1. PICK R \in Seq(Seq(Nat)) : R = r[i - 1]
    BY <1>2, <2>0
  <2>2. PICK x \in Nat : x = K[i]
    BY <1>1
  <2>3. PICK Q : Q = WithRow(t, R, x)
    OBVIOUS
  <2>4. Q = r[i] /\ Q \in Seq(Seq(Nat))
    BY <1>2, <2>1, <2>2, <2>3, WithRowType
  <2>5. R # <<>> => Good(R, i - 1)
    <3>1. R # <<>> => i - 1 > 0
      BY <1>2, <2>0, <2>1
    <3> QED BY <1>4, <2>1, <3>1
  <2>6. CASE R = <<>> \/ GroupKey(t, Head(Last(R))) # GroupKey(t, x)
    <3>1. Len(Q) = Len(R) + 1 /\ Q[Len(R) + 1] = <<x>> /\ \A k \in 1..Len(R) : Q[k] = R[k]
      BY <2>3, <2>6, WithRowIs
    <3>2. Len(R) \in Nat
      OBVIOUS
    <3>3. Last(Q) = <<x>> /\ Len(Q) > 0
      BY <3>1, <3>2 DEF Last
    <3>4. Last(<<x>>) = x /\ Head(<<x>>) = x
      BY DEF Last
    <3>5. ASSUME NEW k \in 1..Len(Q) PROVE Q[k] # <<>>
      <4>1. CASE k = Len(R) + 1
        <5>1. <<x>> # <<>>
          BY AppendLast
        <5> QED BY <3>1, <4>1, <5>1
      <4>2. CASE k # Len(R) + 1
        <5>1. k \in 1..Len(R) /\ R # <<>>
          BY <3>1, <3>2, <4>2
        <5> QED BY <2>5, <3>1, <5>1
      <4> QED BY <4>1, <4>2
    <3>6. Good(Q, i)
      BY <2>2, <3>3, <3>4, <3>5
    <3> HIDE DEF Good
    <3> QED BY <2>0, <2>4, <3>6
  <2>7. CASE R # <<>> /\ GroupKey(t, Head(Last(R))) = GroupKey(t, x)
    <3>1. Len(Q) = Len(R) /\ Q[Len(R)] = Append(R[Len(R)], x)
          /\ \A k \in 1..(Len(R) - 1) : Q[k] = R[k]
      BY <2>3, <2>7, WithRowIs
    <3>2. Len(R) \in Nat /\ Len(R) \in 1..Len(R) /\ Len(R) > 0
      BY <2>7
    <3>3. PICK q \in Seq(Nat) : q = R[Len(R)]
      BY <3>2, Element
    <3>4. Last(R) = q /\ q # <<>>
      BY <2>5, <2>7, <3>2, <3>3 DEF Last
    <3>5. /\ Append(q, x) # <<>> /\ Head(Append(q, x)) = Head(q)
          /\ Last(Append(q, x)) = x
      BY ONLY q \in Seq(Nat), x \in Nat, <3>4, AppendLast, ZenonT(40)
    <3>6. Last(Q) = Append(q, x)
      BY <3>1, <3>3 DEF Last
    <3>7. ASSUME NEW k \in 1..Len(Q) PROVE Q[k] # <<>>
      <4>1. CASE k = Len(R)
        BY <3>1, <3>3, <3>5, <4>1
      <4>2. CASE k # Len(R)
        <5>1. k \in 1..(Len(R) - 1) /\ k \in 1..Len(R)
          BY <3>1, <3>2, <4>2
        <5> QED BY <2>5, <2>7, <3>1, <5>1
      <4> QED BY <4>1, <4>2
    <3>8. Good(Q, i)
      BY <2>2, <2>7, <3>1, <3>2, <3>4, <3>5, <3>6, <3>7
    <3> HIDE DEF Good
    <3> QED BY <2>0, <2>4, <3>8
  <2> QED BY <2>6, <2>7
<1>5. j \in C /\ j \in 0..n /\ j > 0
  <2> HIDE DEF C
  <2>1. \A i \in 0..n : i \in C
    BY <1>1, <1>3, <1>4, UpTo
  <2> QED BY <1>0, <1>1, <2>1
<1>6. Good(r[j], j)
  BY <1>5
<1>7. PICK R \in Seq(Seq(Nat)) : R = r[j]
  BY <1>2, <1>5
<1>8. /\ Len(R) \in Nat \ {0} /\ R # <<>> /\ \A k \in 1..Len(R) : R[k] \in Seq(Nat)
      /\ Last(R) = R[Len(R)]
  BY <1>6, <1>7, Element DEF Last
<1> QED BY <1>0, <1>6, <1>7, <1>8

LEMMA RunNext ==
  ASSUME NEW t \in QueryStatement, NEW r, RunsStep(r, t),
         NEW j \in 1..(Len(Kept(t)) - 1), NEW R, R = r[j], NEW Q, Q = r[j + 1]
  PROVE  IF Keyed(t, j, j + 1) THEN Joins(R, Q, Kept(t)[j + 1])
         ELSE Begins(R, Q, Kept(t)[j + 1])
<1>1. /\ Len(Kept(t)) \in Nat /\ j \in 1..Len(Kept(t)) /\ j + 1 \in 1..Len(Kept(t))
      /\ (j + 1) - 1 = j /\ j \in 0..Len(Kept(t))
  BY KeptNat
<1>2. R \in Seq(Seq(Nat)) /\ R # <<>> /\ GroupKey(t, Head(Last(R))) = GroupKey(t, Kept(t)[j])
  BY <1>1, RunsAre
<1>3. PICK x \in Nat : x = Kept(t)[j + 1]
  BY <1>1, KeptNat
<1>4. Q = WithRow(t, R, x)
  BY <1>1, <1>3 DEF RunsStep
<1>5. IF R # <<>> /\ GroupKey(t, Head(Last(R))) = GroupKey(t, x)
      THEN Joins(R, Q, x) ELSE Begins(R, Q, x)
  BY <1>2, <1>3, <1>4, WithRowAdds
<1>6. Keyed(t, j, j + 1) <=> GroupKey(t, Head(Last(R))) = GroupKey(t, x)
  BY <1>2, <1>3 DEF Keyed
<1> QED BY <1>2, <1>3, <1>5, <1>6

\* What is before the last run stays.
Stay(r, a, b) == /\ Len(r[a]) <= Len(r[b])
                 /\ \A k \in 1..(Len(r[a]) - 1) : r[b][k] = r[a][k]

LEMMA RunsStay ==
  ASSUME NEW t \in QueryStatement, NEW r, RunsStep(r, t), NEW a \in 1..Len(Kept(t))
  PROVE  \A b \in a..Len(Kept(t)) : Stay(r, a, b)
<1> DEFINE n == Len(Kept(t))
           Good(b) == /\ Len(r[a]) <= Len(r[b])
                      /\ \A k \in 1..(Len(r[a]) - 1) : r[b][k] = r[a][k]
           C == {b \in 0..n : b >= a => Good(b)}
<1>1. n \in Nat /\ a \in Nat /\ a > 0
  BY KeptNat
<1>2. \A b \in 1..n : Len(r[b]) \in Nat
  BY RunsAre
<1>3. 0 \in C
  BY <1>1
<1>4. ASSUME NEW b \in 1..n, b - 1 \in C PROVE b \in C
  <2>0. b \in 0..n /\ b \in Nat
    BY <1>1
  <2>1. CASE b < a
    BY <1>1, <2>0, <2>1
  <2>2. CASE b = a
    <3>1. Good(b)
      BY <1>2, <2>2
    <3> HIDE DEF Good
    <3> QED BY <2>0, <3>1
  <2>3. CASE a < b
    <3>1. b - 1 >= a /\ b - 1 \in 1..(n - 1) /\ b - 1 \in 1..n /\ (b - 1) + 1 = b
      BY <1>1, <2>0, <2>3
    <3>2. Good(b - 1)
      BY <1>4, <3>1
    <3>3. PICK R, Q : R = r[b - 1] /\ Q = r[b]
      OBVIOUS
    <3>4. Len(R) \in Nat /\ Len(Q) \in Nat /\ Len(r[a]) \in Nat
      BY <1>2, <3>1, <3>3
    <3>8. PICK j \in 1..(n - 1) : j = b - 1 /\ j + 1 = b
      BY <3>1
    <3>9. R = r[j] /\ Q = r[j + 1]
      BY <3>3, <3>8
    <3>5. Len(R) <= Len(Q) /\ \A k \in 1..(Len(R) - 1) : Q[k] = R[k]
      <4>1. IF Keyed(t, j, j + 1) THEN Joins(R, Q, Kept(t)[j + 1])
            ELSE Begins(R, Q, Kept(t)[j + 1])
        BY <3>9, RunNext
      <4>2. CASE Joins(R, Q, Kept(t)[j + 1])
        BY <3>4, <4>2 DEF Joins
      <4>3. CASE Begins(R, Q, Kept(t)[j + 1])
        BY <3>4, <4>3 DEF Begins
      <4> QED BY <4>1, <4>2, <4>3
    <3>6. Len(r[a]) <= Len(R) /\ \A k \in 1..(Len(r[a]) - 1) : R[k] = r[a][k]
      BY <3>2, <3>3
    <3>7. Good(b)
      <4>1. \A k \in 1..(Len(r[a]) - 1) : k \in 1..(Len(R) - 1)
        BY <3>4, <3>6
      <4> QED BY <3>3, <3>4, <3>5, <3>6, <4>1
    <3> HIDE DEF Good
    <3> QED BY <2>0, <3>7
  <2> QED BY <1>1, <2>0, <2>1, <2>2, <2>3
<1>5. \A b \in 0..n : b \in C
  <2> HIDE DEF C, n
  <2> QED BY <1>1, <1>3, <1>4, UpTo
<1>6. \A b \in a..n : b \in 0..n /\ b >= a
  BY <1>1
<1>7. \A b \in a..n : Good(b)
  BY <1>5, <1>6
<1> QED BY <1>7 DEF Stay

-----------------------------------------------------------------------------
(***************************************************************************)
(* The rows the source has, and the key of a row.                          *)
(***************************************************************************)
\* After m rows that pass the constraint the source is at:
AtRow(t, m) == IF m = 0 THEN 0 ELSE Kept(t)[m]

LEMMA NextKept ==
  ASSUME NEW t \in QueryStatement, NEW m \in 0..Len(Kept(t)), NEW p, p = AtRow(t, m)
  PROVE  LET ok == {k \in (p + 1)..Len(t.rows) : t.rows[k].ok} IN
         /\ m = Len(Kept(t)) => ok = {}
         /\ m # Len(Kept(t)) => /\ ok # {}
                                /\ (CHOOSE k \in ok : \A j \in ok : k <= j) = Kept(t)[m + 1]
<1>0. PICK K : K = Kept(t)
  OBVIOUS
<1> DEFINE ok == {k \in (p + 1)..Len(t.rows) : t.rows[k].ok}
<1>1. /\ Len(K) \in Nat /\ Len(t.rows) \in Nat /\ Rising(K)
      /\ \A a \in 1..Len(K) : K[a] \in 1..Len(t.rows) /\ t.rows[K[a]].ok
      /\ \A x \in 1..Len(t.rows) : t.rows[x].ok => \E a \in 1..Len(K) : K[a] = x
  <2>1. Len(t.rows) \in Nat
    BY RowsAre
  <2>2. /\ Len(K) \in Nat /\ Rising(K)
        /\ \A a \in 1..Len(K) : K[a] \in 1..Len(t.rows) /\ t.rows[K[a]].ok
    BY ONLY t \in QueryStatement, <1>0, KeptIs
  <2>3. \A x \in 1..Len(t.rows) : t.rows[x].ok => \E a \in 1..Len(K) : K[a] = x
    BY ONLY SMTT(30), t \in QueryStatement, <1>0, KeptIs
  <2> QED BY <2>1, <2>2, <2>3
<1>2. p \in Nat /\ m \in Nat /\ \A a \in 1..Len(K) : p < K[a] => a > m
  <2>1. CASE m = 0
    BY <1>1, <2>1 DEF AtRow
  <2>2. CASE m # 0
    <3>1. m \in 1..Len(K) /\ p = K[m] /\ p \in Nat
      BY <1>0, <1>1, <2>2 DEF AtRow
    <3>2. ASSUME NEW a \in 1..Len(K), p < K[a] PROVE a > m
      <4>1. K[a] \in Nat
        BY <1>1
      <4>2. a < m => K[a] < K[m]
        BY <1>1, <3>1 DEF Rising
      <4> QED BY <3>1, <3>2, <4>1, <4>2
    <3> QED BY <3>1, <3>2
  <2> QED BY <2>1, <2>2
<1>3. \A k \in ok : \E a \in 1..Len(K) : K[a] = k /\ a > m
  <2> SUFFICES ASSUME NEW k \in ok PROVE \E a \in 1..Len(K) : K[a] = k /\ a > m
    OBVIOUS
  <2>1. k \in 1..Len(t.rows) /\ t.rows[k].ok /\ p < k
    BY <1>1, <1>2
  <2> QED BY <1>1, <1>2, <2>1
<1>4. CASE m = Len(K)
  <2>1. ok = {}
    BY <1>1, <1>3, <1>4
  <2> QED BY <1>0, <1>4, <2>1
<1>5. CASE m # Len(K)
  <2>1. m + 1 \in 1..Len(K)
    BY <1>0, <1>1, <1>5
  <2>2. PICK x : x = K[m + 1]
    OBVIOUS
  <2>3. x \in 1..Len(t.rows) /\ t.rows[x].ok
    BY <1>1, <2>1, <2>2
  <2>4. p < x
    <3>1. CASE m = 0
      BY <2>3, <3>1 DEF AtRow
    <3>2. CASE m # 0
      <4>1. m \in 1..Len(K) /\ p = K[m] /\ m < m + 1
        BY <1>0, <1>1, <1>2, <3>2 DEF AtRow
      <4> QED BY <1>1, <2>1, <2>2, <4>1 DEF Rising
    <3> QED BY <3>1, <3>2
  <2>5. x \in ok
    BY <1>2, <2>3, <2>4
  <2>6. \A k \in ok : x <= k
    <3> SUFFICES ASSUME NEW k \in ok PROVE x <= k
      OBVIOUS
    <3>1. PICK a \in 1..Len(K) : K[a] = k /\ a > m
      BY <1>3
    <3>2. a = m + 1 \/ m + 1 < a
      BY <1>2, <3>1
    <3>3. m + 1 < a => x < k
      BY <1>1, <2>1, <2>2, <3>1 DEF Rising
    <3>4. k \in Int /\ x \in Int
      BY <1>2, <2>3
    <3> QED BY <2>2, <3>1, <3>2, <3>3, <3>4
  <2>7. ok \subseteq Int
    BY <1>1, <1>2
  <2> HIDE DEF ok
  <2>8. (CHOOSE k \in ok : \A j \in ok : k <= j) = x
    <3>1. \A y \in ok : (\A j \in ok : y <= j) => y = x
      BY <2>5, <2>6, <2>7
    <3>2. \E y \in ok : \A j \in ok : y <= j
      BY <2>5, <2>6
    <3> QED BY <3>1, <3>2
  <2> QED BY <1>0, <1>5, <2>2, <2>5, <2>8 DEF ok
<1> QED BY <1>4, <1>5

\* What the source returns after m rows that pass.
LEMMA SourceNext ==
  ASSUME T \in QueryStatement, T.error = "no", NEW m \in 0..Len(Kept(T)), NEW s, NEW o, NEW l,
         s.pos = AtRow(T, m)
  PROVE  LET c == ChildItem(s, o, l) IN
         /\ m = Len(Kept(T)) => c.rval = 0 /\ c.row = None
         /\ m # Len(Kept(T)) => c.rval = 1 /\ c.row = <<Cur, Kept(T)[m + 1]>>
                                /\ c.pos = Kept(T)[m + 1]
<1> DEFINE ok == {k \in (s.pos + 1)..Len(T.rows) : T.rows[k].ok}
           k == CHOOSE k \in ok : \A j \in ok : k <= j
           c == ChildItem(s, o, l)
<1>1. /\ m = Len(Kept(T)) => ok = {}
      /\ m # Len(Kept(T)) => ok # {} /\ k = Kept(T)[m + 1]
  BY NextKept
<1>2. ok = {} => c.rval = 0 /\ c.row = None
  BY DEF ChildItem
<1>3. ok # {} => c.rval = 1 /\ c.row = <<Cur, k>> /\ c.pos = k
  BY DEF ChildItem
<1> HIDE DEF ok, k, c
<1>4. CASE m = Len(Kept(T))
  BY <1>1, <1>2, <1>4 DEF c
<1>5. CASE m # Len(Kept(T))
  BY <1>1, <1>3, <1>5 DEF c
<1> QED BY <1>4, <1>5

\* The values of the GROUP BY items of row n.
KeyFor(t, n) == IF ~t.by THEN <<"all">> ELSE <<t.rows[n].g>>

LEMMA KeysAre ==
  /\ \A i, k : KeyOf(<<i, k>>) = KeyFor(T, k)
  /\ \A t \in QueryStatement : \A a, b :
       KeyFor(t, a) = KeyFor(t, b) <=> GroupKey(t, a) = GroupKey(t, b)
<1>1. ASSUME NEW i, NEW k PROVE KeyOf(<<i, k>>) = KeyFor(T, k)
  <2>1. <<i, k>> # None
    <3>1. Len(<<i, k>>) = 2 /\ Len(None) = 0
      BY DEF None
    <3> QED BY <3>1
  <2>2. <<i, k>>[2] = k
    OBVIOUS
  <2> QED BY <2>1, <2>2 DEF KeyOf, KeyFor
<1>2. ASSUME NEW t \in QueryStatement, NEW a, NEW b
      PROVE  KeyFor(t, a) = KeyFor(t, b) <=> GroupKey(t, a) = GroupKey(t, b)
  <2>1. \A x, y : <<x>> = <<y>> => x = y
    OBVIOUS
  <2> QED BY <2>1 DEF KeyFor, GroupKey
<1> QED BY <1>1, <1>2

-----------------------------------------------------------------------------
(***************************************************************************)
(* The aggregates while a run is read.                                     *)
(***************************************************************************)
LEMMA FrontIs ==
  ASSUME NEW V, NEW q \in Seq(V), NEW x \in V
  PROVE  /\ Front(Append(q, x)) = q /\ Front(<<x>>) = <<>>
         /\ q # <<>> => Front(q) \in Seq(V) /\ q = Append(Front(q), Last(q)) /\ Last(q) \in V
<1>1. Front(Append(q, x)) = q
  <2>1. PICK p : p = Append(q, x)
    OBVIOUS
  <2>2. p \in Seq(V) /\ Len(p) = Len(q) + 1 /\ Len(q) \in Nat /\ \A k \in 1..Len(q) : p[k] = q[k]
    BY <2>1
  <2>3. PICK w : w = SubSeq(p, 1, Len(p) - 1)
    OBVIOUS
  <2>4. w \in Seq(V) /\ Len(w) = Len(q) /\ \A k \in 1..Len(q) : w[k] = q[k]
    BY <2>2, <2>3
  <2>5. w = q
    BY <2>4
  <2> QED BY <2>1, <2>3, <2>5 DEF Front
<1>2. Front(<<x>>) = <<>>
  <2>1. Front(<<x>>) = SubSeq(<<x>>, 1, 0)
    BY DEF Front
  <2> QED BY <2>1
<1>3. ASSUME q # <<>>
      PROVE  Front(q) \in Seq(V) /\ q = Append(Front(q), Last(q)) /\ Last(q) \in V
  <2>1. Len(q) \in Nat /\ Len(q) > 0
    BY <1>3
  <2>2. PICK w : w = SubSeq(q, 1, Len(q) - 1)
    OBVIOUS
  <2>a. PICK N \in Nat : N = Len(q) - 1
    BY <2>1
  <2>b. w = SubSeq(q, 1, N) /\ 1..N \subseteq DOMAIN q
    BY <2>1, <2>2, <2>a
  <2>c. w = [k \in 1..N |-> q[k]]
    BY <2>b
  <2>d. \A k \in 1..N : q[k] \in V
    BY <2>1, <2>a, Element
  <2>3. w \in Seq(V) /\ Len(w) = Len(q) - 1 /\ \A k \in 1..(Len(q) - 1) : w[k] = q[k]
    BY <2>a, <2>c, <2>d
  <2>4. PICK y \in V : y = q[Len(q)]
    BY <2>1, Element
  <2>5. PICK p : p = Append(w, y)
    OBVIOUS
  <2>6. p \in Seq(V) /\ Len(p) = Len(q) /\ p[Len(q)] = y /\ \A k \in 1..(Len(q) - 1) : p[k] = q[k]
    BY <2>1, <2>3, <2>5
  <2>7. \A k \in 1..Len(q) : k = Len(q) \/ k \in 1..(Len(q) - 1)
    BY <2>1
  <2>8. \A k \in 1..Len(q) : p[k] = q[k]
    BY <2>4, <2>6, <2>7
  <2>9. p = q
    BY <2>6, <2>8
  <2> QED BY <2>2, <2>3, <2>4, <2>5, <2>9 DEF Front, Last
<1> QED BY <1>1, <1>2, <1>3

LEMMA SeqsIs ==
  ASSUME NEW i \in Nat, NEW q \in Seq(Nat), NEW x \in Nat
  PROVE  /\ Seqs(i, q) \in Seq(ObjRef) /\ Len(Seqs(i, q)) = Len(q)
         /\ Seqs(i, <<>>) = <<>>
         /\ Seqs(i, Append(q, x)) = Append(Seqs(i, q), <<i, x>>)
         /\ q # <<>> => Last(Seqs(i, q)) = <<i, Last(q)>>
<1>1. PICK w : w = Seqs(i, q)
  OBVIOUS
<1>2. w = [k \in 1..Len(q) |-> <<i, q[k]>>] /\ Len(q) \in Nat /\ \A k \in 1..Len(q) : q[k] \in Nat
  BY <1>1 DEF Seqs
<1>3. \A k \in 1..Len(q) : <<i, q[k]>> \in ObjRef
  BY <1>2 DEF ObjRef
<1>4. w \in Seq(ObjRef) /\ Len(w) = Len(q) /\ \A k \in 1..Len(q) : w[k] = <<i, q[k]>>
  <2> DEFINE O == ObjRef
  <2>1. w \in [1..Len(q) -> O]
    BY <1>2, <1>3
  <2> HIDE DEF O
  <2>3. PICK N \in Nat : N = Len(q)
    BY <1>2
  <2>4. w \in [1..N -> O]
    BY <2>1, <2>3
  <2>5. w \in Seq(O) /\ Len(w) = N
    BY ONLY <2>4, N \in Nat
  <2>2. w \in Seq(O) /\ Len(w) = Len(q)
    BY <2>3, <2>5
  <2> QED BY <1>2, <2>2 DEF O
<1>5. Seqs(i, <<>>) = <<>>
  BY DEF Seqs
<1>6. Seqs(i, Append(q, x)) = Append(w, <<i, x>>)
  <2>1. PICK p : p = Append(q, x)
    OBVIOUS
  <2>2. p \in Seq(Nat) /\ Len(p) = Len(q) + 1 /\ p[Len(q) + 1] = x /\ \A k \in 1..Len(q) : p[k] = q[k]
    BY <2>1
  <2>3. PICK y \in ObjRef : y = <<i, x>>
    BY DEF ObjRef
  <2>4. PICK u : u = Seqs(i, p)
    OBVIOUS
  <2>5. u = [k \in 1..(Len(q) + 1) |-> <<i, p[k]>>]
    BY <2>2, <2>4 DEF Seqs
  <2>6. PICK v : v = Append(w, y)
    OBVIOUS
  <2>7. v \in Seq(ObjRef) /\ DOMAIN v = 1..(Len(q) + 1) /\ Len(v) = Len(q) + 1 /\ v[Len(q) + 1] = y /\ \A k \in 1..Len(q) : v[k] = w[k]
    BY <1>4, <2>6
  <2>8. \A k \in 1..(Len(q) + 1) : k = Len(q) + 1 \/ k \in 1..Len(q)
    BY <1>2
  <2>9. \A k \in 1..(Len(q) + 1) : v[k] = <<i, p[k]>>
    BY <1>4, <2>2, <2>3, <2>7, <2>8
  <2>10. v = [k \in 1..(Len(q) + 1) |-> v[k]]
    BY <2>7
  <2>11. u = v
    BY <2>5, <2>9, <2>10
  <2> QED BY <2>1, <2>3, <2>4, <2>6, <2>11
<1>7. q # <<>> => Last(w) = <<i, Last(q)>>
  <2> HAVE q # <<>>
  <2>1. Len(q) \in 1..Len(q)
    BY <1>2
  <2> QED BY <1>4, <2>1 DEF Last
<1> QED BY <1>1, <1>4, <1>5, <1>6, <1>7

\* The run of row m, as far as it goes, and what the aggregates have before the
\* row is counted.
Number(t, m) == Len(RunsUpTo(t)[m])
AggOf(i, t, m) == Seqs(i, Last(RunsUpTo(t)[m]))
AggBefore(i, t, m) == Seqs(i, Front(Last(RunsUpTo(t)[m])))
Agg2Before(i, t, m) == [x \in 1..(Number(t, m) - 1) |-> Seqs(i, RunsUpTo(t)[m][x])]

LEMMA AggIs ==
  ASSUME NEW t \in QueryStatement, NEW i \in Nat, NEW m \in 1..Len(Kept(t))
  PROVE  /\ Number(t, m) \in Nat \ {0}
         /\ AggOf(i, t, m) = Append(AggBefore(i, t, m), <<i, Kept(t)[m]>>)
         /\ AggBefore(i, t, m) \in Seq(ObjRef) /\ AggOf(i, t, m) \in Seq(ObjRef)
         /\ Agg2Before(i, t, m) \in Seq(Seq(ObjRef))
         /\ Len(Agg2Before(i, t, m)) = Number(t, m) - 1
<1>1. PICK R : R = RunsUpTo(t)[m]
  OBVIOUS
<1>2. /\ R \in Seq(Seq(Nat)) /\ Len(R) \in Nat \ {0}
      /\ \A k \in 1..Len(R) : R[k] \in Seq(Nat) /\ R[k] # <<>>
      /\ Last(R) = R[Len(R)] /\ Last(Last(R)) = Kept(t)[m]
  BY <1>1, RunsStepIs, RunsAre
<1>3. PICK q : q = Last(R)
  OBVIOUS
<1>4. q \in Seq(Nat) /\ q # <<>> /\ Last(q) = Kept(t)[m]
  <2>1. Len(R) \in 1..Len(R)
    BY <1>2
  <2> QED BY <1>2, <1>3, <2>1
<1>5. Front(q) \in Seq(Nat) /\ q = Append(Front(q), Last(q)) /\ Last(q) \in Nat
  <2>1. 0 \in Nat
    OBVIOUS
  <2> QED BY ONLY <1>4, <2>1, FrontIs
<1>6. PICK w \in Seq(Nat), x \in Nat : w = Front(q) /\ x = Last(q)
  BY <1>5
<1>7. Seqs(i, q) \in Seq(ObjRef) /\ Seqs(i, w) \in Seq(ObjRef)
      /\ Seqs(i, q) = Append(Seqs(i, w), <<i, x>>)
  <2>1. q = Append(w, x)
    BY <1>5, <1>6
  <2> QED BY <1>4, <2>1, SeqsIs
<1>8. Agg2Before(i, t, m) = [k \in 1..(Len(R) - 1) |-> Seqs(i, R[k])]
  BY <1>1 DEF Agg2Before, Number
<1>9. PICK N \in Nat : N = Len(R) - 1
  BY <1>2
<1>10. \A k \in 1..N : Seqs(i, R[k]) \in Seq(ObjRef)
  <2> SUFFICES ASSUME NEW k \in 1..N PROVE Seqs(i, R[k]) \in Seq(ObjRef)
    OBVIOUS
  <2>1. k \in 1..Len(R)
    BY <1>2, <1>9
  <2>2. R[k] \in Seq(Nat) /\ 0 \in Nat
    BY <1>2, <2>1
  <2> QED BY <2>2, SeqsIs
<1>11. Agg2Before(i, t, m) \in Seq(Seq(ObjRef)) /\ Len(Agg2Before(i, t, m)) = N
  <2> DEFINE O == Seq(ObjRef)
  <2>1. PICK a : a = Agg2Before(i, t, m)
    OBVIOUS
  <2>2. a \in [1..N -> O]
    BY <1>8, <1>9, <1>10, <2>1
  <2> HIDE DEF O
  <2>3. a \in Seq(O) /\ Len(a) = N
    BY ONLY <2>2, N \in Nat
  <2> QED BY <2>1, <2>3 DEF O
<1> QED BY <1>1, <1>2, <1>3, <1>4, <1>6, <1>7, <1>9, <1>11 DEF Number, AggOf, AggBefore

\* Before the first row there is nothing.
LEMMA AggFirst ==
  ASSUME NEW t \in QueryStatement, NEW i \in Nat, Len(Kept(t)) # 0
  PROVE  Number(t, 1) = 1 /\ AggBefore(i, t, 1) = <<>> /\ Agg2Before(i, t, 1) = <<>>
<1>1. 1 \in 1..Len(Kept(t)) /\ 1 - 1 = 0
  BY KeptNat
<1>2. PICK x \in Nat : x = Kept(t)[1]
  BY <1>1, KeptNat
<1>3. RunsUpTo(t)[1] = WithRow(t, <<>>, x)
  BY <1>1, <1>2, RunsStepIs DEF RunsStep
<1>4. PICK R : R = RunsUpTo(t)[1]
  OBVIOUS
<1>5. R = <<<<x>>>>
  BY <1>3, <1>4 DEF WithRow
<1>6. Len(R) = 1 /\ Last(R) = <<x>>
  BY <1>5 DEF Last
<1>7. Front(<<x>>) = <<>>
  <2>1. <<>> \in Seq(Nat)
    OBVIOUS
  <2> QED BY <2>1, FrontIs
<1>8. Seqs(i, <<>>) = <<>>
  BY DEF Seqs
<1>9. Agg2Before(i, t, 1) = <<>>
  <2>1. Agg2Before(i, t, 1) = [k \in 1..0 |-> Seqs(i, R[k])]
    BY <1>4, <1>6 DEF Agg2Before, Number
  <2> QED BY <2>1
<1> QED BY <1>4, <1>6, <1>7, <1>8, <1>9 DEF Number, AggBefore

\* The next row, in the run or in one of its own.
LEMMA AggNext ==
  ASSUME NEW t \in QueryStatement, NEW i \in Nat, NEW m \in 1..(Len(Kept(t)) - 1)
  PROVE  IF Keyed(t, m, m + 1)
         THEN /\ Number(t, m + 1) = Number(t, m)
              /\ AggBefore(i, t, m + 1) = AggOf(i, t, m)
              /\ Agg2Before(i, t, m + 1) = Agg2Before(i, t, m)
         ELSE /\ Number(t, m + 1) = Number(t, m) + 1
              /\ AggBefore(i, t, m + 1) = <<>>
              /\ Agg2Before(i, t, m + 1) = Append(Agg2Before(i, t, m), AggOf(i, t, m))
<1>0. m \in 1..Len(Kept(t)) /\ m + 1 \in 1..Len(Kept(t))
  BY KeptNat
<1>1. PICK R, Q : R = RunsUpTo(t)[m] /\ Q = RunsUpTo(t)[m + 1]
  OBVIOUS
<1>2. /\ R \in Seq(Seq(Nat)) /\ Len(R) \in Nat \ {0}
      /\ \A k \in 1..Len(R) : R[k] \in Seq(Nat)
      /\ Last(R) = R[Len(R)] /\ Last(Last(R)) = Kept(t)[m]
  BY <1>0, <1>1, RunsStepIs, RunsAre
<1>3. PICK x \in Nat : x = Kept(t)[m + 1]
  BY <1>0, KeptNat
<1>4. IF Keyed(t, m, m + 1) THEN Joins(R, Q, x) ELSE Begins(R, Q, x)
  BY <1>1, <1>3, RunsStepIs, RunNext
<1>5. PICK q \in Seq(Nat) : q = Last(R)
  <2>1. Len(R) \in 1..Len(R)
    BY <1>2
  <2> QED BY <1>2, <2>1
<1>6. Front(Append(q, x)) = q /\ Front(<<x>>) = <<>>
  BY FrontIs
<1>7. CASE Keyed(t, m, m + 1)
  <2>1. Len(Q) = Len(R) /\ Q[Len(R)] = Append(R[Len(R)], x)
        /\ \A k \in 1..(Len(R) - 1) : Q[k] = R[k]
    BY <1>4, <1>7 DEF Joins
  <2>2. Last(Q) = Append(q, x)
    BY <1>2, <1>5, <2>1 DEF Last
  <2>3. Front(Last(Q)) = Last(R)
    BY <1>5, <1>6, <2>2
  <2>4. Agg2Before(i, t, m + 1) = Agg2Before(i, t, m)
    <3>1. [k \in 1..(Len(Q) - 1) |-> Seqs(i, Q[k])] = [k \in 1..(Len(R) - 1) |-> Seqs(i, R[k])]
      BY <2>1
    <3> QED BY <1>1, <3>1 DEF Agg2Before, Number
  <2> QED BY <1>1, <1>7, <2>1, <2>3, <2>4 DEF Number, AggBefore, AggOf
<1>8. CASE ~Keyed(t, m, m + 1)
  <2>1. Len(Q) = Len(R) + 1 /\ Q[Len(R) + 1] = <<x>>
        /\ \A k \in 1..Len(R) : Q[k] = R[k]
    BY <1>4, <1>8 DEF Begins
  <2>2. Front(Last(Q)) = <<>>
    BY <1>6, <2>1 DEF Last
  <2>3. AggBefore(i, t, m + 1) = <<>>
    <3>1. Seqs(i, <<>>) = <<>>
      BY DEF Seqs
    <3> QED BY <1>1, <2>2, <3>1 DEF AggBefore
  <2>4. Agg2Before(i, t, m + 1) = Append(Agg2Before(i, t, m), AggOf(i, t, m))
    <3>1. PICK a \in Seq(Seq(ObjRef)), b \in Seq(ObjRef) :
            a = Agg2Before(i, t, m) /\ b = AggOf(i, t, m)
      BY <1>0, AggIs
    <3>2. PICK v : v = Append(a, b)
      OBVIOUS
    <3>3. PICK N \in Nat : N = Len(R) - 1
      BY <1>2
    <3>4. Len(a) = N /\ \A k \in 1..N : a[k] = Seqs(i, R[k])
      <4>1. Len(a) = N
        BY <1>0, <1>1, <3>1, <3>3, AggIs DEF Number
      <4>2. a = [k \in 1..N |-> Seqs(i, R[k])]
        BY <1>1, <3>1, <3>3 DEF Agg2Before, Number
      <4> QED BY <4>1, <4>2
    <3>5. b = Seqs(i, R[N + 1])
      BY <1>1, <1>2, <3>1, <3>3 DEF AggOf
    <3>6. DOMAIN v = 1..(N + 1) /\ v[N + 1] = b /\ \A k \in 1..N : v[k] = a[k]
      BY <3>1, <3>2, <3>4
    <3>7. v = [k \in 1..(N + 1) |-> v[k]]
      <4>1. v \in Seq(Seq(ObjRef))
        BY <3>2
      <4> QED BY <3>6, <4>1
    <3>8. \A k \in 1..(N + 1) : v[k] = Seqs(i, Q[k])
      <4> SUFFICES ASSUME NEW k \in 1..(N + 1) PROVE v[k] = Seqs(i, Q[k])
        OBVIOUS
      <4>1. Q[k] = R[k]
        BY <1>2, <2>1, <3>3
      <4>2. k = N + 1 \/ k \in 1..N
        OBVIOUS
      <4> QED BY <3>4, <3>5, <3>6, <4>1, <4>2
    <3>9. v = [k \in 1..(N + 1) |-> Seqs(i, Q[k])]
      BY <3>7, <3>8
    <3>10. N + 1 = Len(Q) - 1
      BY <1>2, <2>1, <3>3
    <3>11. Agg2Before(i, t, m + 1) = v
      BY <1>1, <3>9, <3>10 DEF Agg2Before, Number
    <3> QED BY <3>1, <3>2, <3>11
  <2> QED BY <1>1, <1>8, <2>1, <2>3, <2>4 DEF Number
<1> QED BY <1>7, <1>8

-----------------------------------------------------------------------------
(***************************************************************************)
(* The groups of a statement.                                              *)
(***************************************************************************)
Plain(t) == ~t.by /\ t.level = 0

Shows == [row : ObjRef, agg : Seq(ObjRef), agg2 : Seq(Seq(ObjRef))]

LEMMA ShowsIs ==
  ASSUME NEW p \in ObjRef, NEW a \in Seq(ObjRef), NEW b \in Seq(Seq(ObjRef))
  PROVE  [row |-> p, agg |-> a, agg2 |-> b] \in Shows
BY DEF Shows

LEMMA NothingYet ==
  /\ <<>> \in Seq(ObjRef) /\ <<>> \in Seq(Seq(ObjRef)) /\ None \in ObjRef
  /\ \A i, n \in Nat : <<i, n>> \in ObjRef
BY DEF ObjRef

LEMMA KeptEmpty ==
  ASSUME NEW t \in QueryStatement
  PROVE  Kept(t) = <<>> <=> Len(Kept(t)) = 0
<1>1. PICK K : K = Kept(t)
  OBVIOUS
<1>2. K \in Seq(1..Len(t.rows))
  BY <1>1, KeptIs
<1>3. K = <<>> <=> Len(K) = 0
  BY <1>2
<1> QED BY <1>1, <1>3

\* What the groups must be, whatever the statement.
GroupsTold(i, t, G) ==
  LET K == Kept(t) IN
  /\ G \in Seq(Shows)
  /\ Plain(t) =>
       /\ Len(G) = Len(K)
       /\ \A c \in 1..Len(K) : G[c] = [row |-> <<i, K[c]>>, agg |-> <<>>, agg2 |-> <<>>]
  /\ ~Plain(t) /\ Len(K) = 0 =>
       IF t.level = 0 THEN G = <<>>
       ELSE Len(G) = 1 /\ G[1] = [row |-> None, agg |-> <<>>, agg2 |-> <<>>]
  /\ ~Plain(t) /\ Len(K) # 0 /\ t.level # 2 =>
       /\ Len(G) = Number(t, Len(K))
       /\ \A m \in 1..Len(K) :
            m = Len(K) \/ ~Keyed(t, m, m + 1) =>
              /\ Number(t, m) \in 1..Len(G)
              /\ G[Number(t, m)] = [row |-> <<i, K[m]>>, agg |-> AggOf(i, t, m), agg2 |-> <<>>]
  /\ ~Plain(t) /\ Len(K) # 0 /\ t.level = 2 =>
       /\ Len(G) = 1
       /\ G[1] = [row |-> <<i, K[Len(K)]>>, agg |-> AggOf(i, t, Len(K)),
                  agg2 |-> Append(Agg2Before(i, t, Len(K)), AggOf(i, t, Len(K)))]

LEMMA GroupsPlain ==
  ASSUME NEW t \in QueryStatement, NEW i \in Nat, Plain(t)
  PROVE  GroupsTold(i, t, Groups(i, t))
<1>1. PICK K, G : K = Kept(t) /\ G = Groups(i, t)
  OBVIOUS
<1>2. Len(K) \in Nat /\ DOMAIN K = 1..Len(K) /\ \A j \in 1..Len(K) : K[j] \in Nat
  BY <1>1, KeptNat
<1>3. G = [k \in DOMAIN K |-> [row |-> <<i, K[k]>>, agg |-> <<>>, agg2 |-> <<>>]]
  BY <1>1 DEF Groups, Plain
<1>4. \A k \in 1..Len(K) : [row |-> <<i, K[k]>>, agg |-> <<>>, agg2 |-> <<>>] \in Shows
  BY <1>2, NothingYet, ShowsIs
<1>5. PICK N \in Nat : N = Len(K)
  BY <1>2
<1>6. G \in [1..N -> Shows]
  BY <1>2, <1>3, <1>4, <1>5
<1>7. G \in Seq(Shows) /\ Len(G) = N
  BY ONLY <1>6, N \in Nat
<1>8. \A c \in 1..N : G[c] = [row |-> <<i, K[c]>>, agg |-> <<>>, agg2 |-> <<>>]
  BY <1>2, <1>3, <1>5
<1> QED BY <1>1, <1>5, <1>7, <1>8 DEF GroupsTold

LEMMA GroupsNone ==
  ASSUME NEW t \in QueryStatement, NEW i \in Nat, ~Plain(t), Len(Kept(t)) = 0
  PROVE  GroupsTold(i, t, Groups(i, t))
<1>1. PICK x : x = [row |-> None, agg |-> <<>>, agg2 |-> <<>>]
  OBVIOUS
<1>2. x \in Shows
  BY <1>1, NothingYet, ShowsIs
<1>3. PICK G : G = Groups(i, t)
  OBVIOUS
<1>4. Kept(t) = <<>>
  BY KeptEmpty
<1>5. G = IF t.level = 0 THEN <<>> ELSE <<x>>
  BY <1>1, <1>3, <1>4 DEF Groups, Plain
<1>6. CASE t.level = 0
  <2>1. G = <<>> /\ G \in Seq(Shows)
    BY <1>5, <1>6
  <2> QED BY <1>3, <1>6, <2>1 DEF GroupsTold
<1>7. CASE t.level # 0
  <2>1. G \in Seq(Shows) /\ Len(G) = 1 /\ G[1] = x
    BY <1>2, <1>5, <1>7
  <2> QED BY <1>1, <1>3, <1>7, <2>1 DEF GroupsTold
<1> QED BY <1>6, <1>7

\* The runs of all the rows.
LEMMA AllRuns ==
  ASSUME NEW t \in QueryStatement, NEW i \in Nat, Len(Kept(t)) # 0, NEW R, R = Runs(t)
  PROVE  /\ R = RunsUpTo(t)[Len(Kept(t))] /\ Len(Kept(t)) \in 1..Len(Kept(t))
         /\ R \in Seq(Seq(Nat)) /\ Len(R) \in Nat \ {0}
         /\ \A k \in 1..Len(R) : R[k] \in Seq(Nat) /\ R[k] # <<>>
         /\ Last(R) = R[Len(R)] /\ Last(Last(R)) = Kept(t)[Len(Kept(t))]
<1>1. Len(Kept(t)) \in 1..Len(Kept(t))
  BY KeptNat
<1>2. RunsStep(RunsUpTo(t), t)
  BY RunsStepIs
<1>3. R = RunsUpTo(t)[Len(Kept(t))]
  BY <1>2 DEF RunsStep
<1>4. PICK r, j : r = RunsUpTo(t) /\ j = Len(Kept(t))
  OBVIOUS
<1>5. RunsStep(r, t) /\ R = r[j] /\ j \in 1..Len(Kept(t))
  BY <1>1, <1>2, <1>3, <1>4
<1>6. /\ R \in Seq(Seq(Nat)) /\ Len(R) \in Nat \ {0}
      /\ \A k \in 1..Len(R) : R[k] \in Seq(Nat) /\ R[k] # <<>>
      /\ Last(R) = R[Len(R)] /\ Last(Last(R)) = Kept(t)[j]
  BY <1>5, RunsAre
<1> QED BY <1>1, <1>3, <1>4, <1>6

LEMMA LastSeqs ==
  ASSUME NEW i \in Nat, NEW q \in Seq(Nat), q # <<>>
  PROVE  Seqs(i, q) \in Seq(ObjRef) /\ Last(Seqs(i, q)) = <<i, Last(q)>> /\ Last(q) \in Nat
<1>1. 0 \in Nat
  OBVIOUS
<1> QED BY <1>1, SeqsIs, FrontIs

LEMMA GroupsRuns ==
  ASSUME NEW t \in QueryStatement, NEW i \in Nat, ~Plain(t), Len(Kept(t)) # 0, t.level # 2
  PROVE  GroupsTold(i, t, Groups(i, t))
<1>1. PICK K, R, G : K = Kept(t) /\ R = Runs(t) /\ G = Groups(i, t)
  OBVIOUS
<1>2. /\ R = RunsUpTo(t)[Len(K)] /\ Len(K) \in 1..Len(K)
      /\ R \in Seq(Seq(Nat)) /\ Len(R) \in Nat \ {0} /\ DOMAIN R = 1..Len(R)
      /\ \A k \in 1..Len(R) : R[k] \in Seq(Nat) /\ R[k] # <<>>
      /\ Last(R) = R[Len(R)] /\ Last(Last(R)) = K[Len(K)]
  BY <1>1, AllRuns
<1>3. Kept(t) # <<>>
  BY KeptEmpty
<1> DEFINE runs == [k \in DOMAIN R |-> Seqs(i, R[k])]
           g(k) == [row |-> Last(runs[k]), agg |-> runs[k], agg2 |-> <<>>]
<1>4. G = [k \in DOMAIN runs |-> g(k)]
  BY <1>1, <1>3 DEF Groups, Plain
<1>5. DOMAIN runs = 1..Len(R) /\ \A k \in 1..Len(R) : runs[k] = Seqs(i, R[k])
  BY <1>2
<1> HIDE DEF runs
<1>6. ASSUME NEW k \in 1..Len(R)
      PROVE  /\ g(k) = [row |-> <<i, Last(R[k])>>, agg |-> Seqs(i, R[k]), agg2 |-> <<>>]
             /\ g(k) \in Shows
  <2>1. PICK q \in Seq(Nat) : q = R[k]
    BY <1>2
  <2>2. q # <<>>
    BY <1>2, <2>1
  <2>3. Seqs(i, q) \in Seq(ObjRef) /\ Last(Seqs(i, q)) = <<i, Last(q)>> /\ Last(q) \in Nat
    BY <2>2, LastSeqs
  <2>4. g(k) = [row |-> <<i, Last(q)>>, agg |-> Seqs(i, q), agg2 |-> <<>>]
    BY <1>5, <2>1, <2>3
  <2>5. <<i, Last(q)>> \in ObjRef
    BY <2>3, NothingYet
  <2>6. [row |-> <<i, Last(q)>>, agg |-> Seqs(i, q), agg2 |-> <<>>] \in Shows
    BY <2>3, <2>5, NothingYet, ShowsIs
  <2> HIDE DEF g
  <2> QED BY <2>1, <2>4, <2>6
<1>7. PICK N \in Nat : N = Len(R)
  BY <1>2
<1>8. G \in Seq(Shows) /\ Len(G) = N /\ \A k \in 1..N : G[k] = g(k)
  <2> HIDE DEF g
  <2>1. G \in [1..N -> Shows] /\ \A k \in 1..N : G[k] = g(k)
    BY <1>4, <1>5, <1>6, <1>7
  <2>2. G \in Seq(Shows) /\ Len(G) = N
    BY ONLY <2>1, N \in Nat
  <2> QED BY <2>1, <2>2
<1>9. N = Number(t, Len(K))
  BY <1>1, <1>2, <1>7 DEF Number
<1>10. ASSUME NEW m \in 1..Len(K), m = Len(K) \/ ~Keyed(t, m, m + 1)
       PROVE  /\ Number(t, m) \in 1..N
              /\ G[Number(t, m)] = [row |-> <<i, K[m]>>, agg |-> AggOf(i, t, m), agg2 |-> <<>>]
  <2>1. PICK Q : Q = RunsUpTo(t)[m]
    OBVIOUS
  <2>2. Len(Q) \in Nat \ {0} /\ Last(Q) = Q[Len(Q)] /\ Last(Last(Q)) = K[m]
    BY <1>1, <2>1, RunsStepIs, RunsAre
  <2>3. Len(Q) \in 1..N /\ R[Len(Q)] = Q[Len(Q)]
    <3>1. CASE m = Len(K)
      <4>1. Q = R
        BY <1>2, <2>1, <3>1
      <4> QED BY <1>2, <1>7, <4>1
    <3>2. CASE m # Len(K)
      <4>1. Len(K) \in Nat /\ m \in 1..(Len(K) - 1) /\ m + 1 \in 1..Len(K)
            /\ Len(K) \in (m + 1)..Len(K)
        BY <1>1, <3>2, KeptNat
      <4>2. PICK P : P = RunsUpTo(t)[m + 1]
        OBVIOUS
      <4>3. IF Keyed(t, m, m + 1) THEN Joins(Q, P, K[m + 1]) ELSE Begins(Q, P, K[m + 1])
        BY <1>1, <2>1, <4>1, <4>2, RunsStepIs, RunNext
      <4>4. Len(P) = Len(Q) + 1 /\ P[Len(Q)] = Q[Len(Q)]
        BY <1>10, <2>2, <3>2, <4>3 DEF Begins
      <4>5. PICK a \in 1..Len(Kept(t)) : a = m + 1
        BY <1>1, <4>1
      <4>6. PICK r : r = RunsUpTo(t) /\ RunsStep(r, t)
        BY RunsStepIs
      <4>7. Stay(r, a, Len(K))
        <5>1. Len(K) \in a..Len(Kept(t))
          BY <1>1, <4>1, <4>5
        <5>2. \A b \in a..Len(Kept(t)) : Stay(r, a, b)
          BY <4>6, RunsStay
        <5> QED BY <5>1, <5>2
      <4>8. Len(P) <= Len(R) /\ \A k \in 1..(Len(P) - 1) : R[k] = P[k]
        <5>1. r[a] = P /\ r[Len(K)] = R
          BY <1>1, <1>2, <4>1, <4>2, <4>5, <4>6
        <5> QED BY <4>7, <5>1 DEF Stay
      <4>9. PICK c \in Nat \ {0} : c = Len(Q)
        BY <2>2
      <4>10. c \in 1..(Len(P) - 1) /\ c \in 1..N
        BY <1>2, <1>7, <4>4, <4>8, <4>9
      <4>11. R[c] = P[c] /\ P[c] = Q[c]
        BY <4>4, <4>8, <4>9, <4>10
      <4> QED BY <4>9, <4>10, <4>11
    <3> QED BY <3>1, <3>2
  <2>4. PICK k \in 1..N : k = Len(Q)
    BY <2>3
  <2>5. G[k] = [row |-> <<i, Last(R[k])>>, agg |-> Seqs(i, R[k]), agg2 |-> <<>>]
    <3> HIDE DEF g
    <3> QED BY <1>6, <1>7, <1>8
  <2>6. R[k] = Last(Q)
    BY <2>2, <2>3, <2>4
  <2> QED BY <2>1, <2>2, <2>4, <2>5, <2>6 DEF Number, AggOf
<1> QED BY <1>1, <1>8, <1>9, <1>10 DEF GroupsTold

LEMMA GroupsOne ==
  ASSUME NEW t \in QueryStatement, NEW i \in Nat, ~Plain(t), Len(Kept(t)) # 0, t.level = 2
  PROVE  GroupsTold(i, t, Groups(i, t))
<1>1. PICK K, R, G, n : K = Kept(t) /\ R = Runs(t) /\ G = Groups(i, t) /\ n = Len(K)
  OBVIOUS
<1>2. /\ R = RunsUpTo(t)[n] /\ n \in 1..Len(K)
      /\ R \in Seq(Seq(Nat)) /\ Len(R) \in Nat \ {0} /\ DOMAIN R = 1..Len(R)
      /\ \A k \in 1..Len(R) : R[k] \in Seq(Nat) /\ R[k] # <<>>
      /\ Last(R) = R[Len(R)] /\ Last(Last(R)) = K[n]
  BY SMTT(30), <1>1, AllRuns
<1>3. Kept(t) # <<>>
  BY KeptEmpty
<1> DEFINE runs == [k \in DOMAIN R |-> Seqs(i, R[k])]
           g(k) == [row |-> Last(runs[k]), agg |-> runs[k], agg2 |-> <<>>]
           group == [k \in DOMAIN runs |-> g(k)]
<1>4. G = <<[Last(group) EXCEPT !.agg2 = runs]>>
  BY <1>1, <1>3 DEF Groups, Plain
<1>5. DOMAIN runs = 1..Len(R) /\ \A k \in 1..Len(R) : runs[k] = Seqs(i, R[k])
  BY <1>2
<1>6. PICK N \in Nat \ {0} : N = Len(R)
  BY <1>2
<1>7. PICK A2, A : A2 = Agg2Before(i, t, n) /\ A = AggOf(i, t, n)
  OBVIOUS
<1>8. A2 \in Seq(Seq(ObjRef)) /\ A \in Seq(ObjRef) /\ Len(A2) = N - 1
      /\ A = Seqs(i, R[N])
  <2>1. /\ A2 \in Seq(Seq(ObjRef)) /\ A \in Seq(ObjRef) /\ Len(A2) = Number(t, n) - 1
    BY <1>1, <1>2, <1>7, AggIs
  <2> QED BY <1>2, <1>6, <1>7, <2>1 DEF Number, AggOf
<1>9. runs = Append(A2, A)
  <2>1. PICK v : v = Append(A2, A)
    OBVIOUS
  <2>2. v \in Seq(Seq(ObjRef)) /\ DOMAIN v = 1..N /\ v[N] = A
        /\ \A k \in 1..(N - 1) : v[k] = A2[k]
    BY <1>8, <2>1
  <2>3. \A k \in 1..(N - 1) : A2[k] = Seqs(i, R[k])
    <3>1. A2 = [k \in 1..(N - 1) |-> Seqs(i, R[k])]
      BY <1>2, <1>6, <1>7 DEF Agg2Before, Number
    <3> QED BY <3>1
  <2>4. \A k \in 1..N : k = N \/ k \in 1..(N - 1)
    OBVIOUS
  <2>5. \A k \in 1..N : v[k] = Seqs(i, R[k])
    BY <1>8, <2>2, <2>3, <2>4
  <2>6. v = [k \in 1..N |-> v[k]]
    BY <2>2
  <2>7. runs = [k \in 1..N |-> Seqs(i, R[k])]
    BY <1>2, <1>6
  <2> HIDE DEF runs
  <2> QED BY <2>1, <2>5, <2>6, <2>7
<1>10. Last(group) = g(N)
  <2> HIDE DEF g, runs
  <2>1. group = [k \in 1..N |-> g(k)]
    BY <1>5, <1>6
  <2> HIDE DEF group
  <2>2. Len(group) = N
    BY <2>1
  <2> QED BY <2>1, <2>2 DEF Last
<1>11. g(N) = [row |-> <<i, K[n]>>, agg |-> A, agg2 |-> <<>>]
  <2> HIDE DEF runs
  <2>1. PICK q \in Seq(Nat) : q = R[N]
    BY <1>2, <1>6
  <2>2. q # <<>> /\ Last(q) = K[n]
    BY <1>2, <1>6, <2>1
  <2>3. Last(Seqs(i, q)) = <<i, Last(q)>>
    BY <2>2, LastSeqs
  <2>4. runs[N] = Seqs(i, q) /\ A = Seqs(i, q)
    BY <1>5, <1>6, <1>8, <2>1
  <2>5. g(N) = [row |-> Last(Seqs(i, q)), agg |-> Seqs(i, q), agg2 |-> <<>>]
    BY <2>4
  <2> QED BY <2>2, <2>3, <2>4, <2>5
<1> HIDE DEF runs, g, group
<1>12. G = <<[row |-> <<i, K[n]>>, agg |-> A, agg2 |-> Append(A2, A)]>>
  <2>1. PICK x, y : x = runs /\ y = <<i, K[n]>>
    OBVIOUS
  <2>2. G = <<[[row |-> y, agg |-> A, agg2 |-> <<>>] EXCEPT !.agg2 = x]>>
    BY <1>4, <1>10, <1>11, <2>1
  <2>3. [[row |-> y, agg |-> A, agg2 |-> <<>>] EXCEPT !.agg2 = x] = [row |-> y, agg |-> A, agg2 |-> x]
    OBVIOUS
  <2> QED BY <1>9, <2>1, <2>2, <2>3
<1>13. [row |-> <<i, K[n]>>, agg |-> A, agg2 |-> Append(A2, A)] \in Shows
  <2>1. K[n] \in Nat
    BY <1>1, <1>2, KeptNat
  <2>2. <<i, K[n]>> \in ObjRef
    BY <2>1, NothingYet
  <2>3. Append(A2, A) \in Seq(Seq(ObjRef))
    BY <1>8
  <2> QED BY <1>8, <2>2, <2>3, ShowsIs
<1>14. G \in Seq(Shows) /\ Len(G) = 1 /\ G[1] = [row |-> <<i, K[n]>>, agg |-> A, agg2 |-> Append(A2, A)]
  BY <1>12, <1>13
<1> QED BY <1>1, <1>7, <1>14 DEF GroupsTold

LEMMA GroupsAre ==
  ASSUME NEW t \in QueryStatement, NEW i \in Nat
  PROVE  GroupsTold(i, t, Groups(i, t))
BY GroupsPlain, GroupsNone, GroupsRuns, GroupsOne

-----------------------------------------------------------------------------
(***************************************************************************)
(* The rows returned after some groups.                                    *)
(***************************************************************************)
\* What meets HAVING of the first c groups is MetUpTo(i, t)[c].
MetUpTo(i, t) ==
  PickedUpTo(Groups(i, t), {r \in Range(Groups(i, t)) : Len(r.agg) >= t.having})

MetTold(t, G, f, M) ==
  /\ G \in Seq(Shows) /\ Len(G) \in Nat
  /\ \A c \in 0..Len(G) : f[c] \in Seq(Shows) /\ Len(f[c]) \in Nat
  /\ f[0] = <<>> /\ f[Len(G)] = M
  /\ \A c \in 1..Len(G) :
       f[c] = IF Len(G[c].agg) >= t.having THEN Append(f[c - 1], G[c]) ELSE f[c - 1]
  /\ \A a \in 0..Len(G) : \A b \in a..Len(G) :
       /\ Len(f[a]) <= Len(f[b])
       /\ \A k \in 1..Len(f[a]) : f[b][k] = f[a][k]

LEMMA MetIs ==
  ASSUME NEW t \in QueryStatement, NEW i \in Nat
  PROVE  MetTold(t, Groups(i, t), MetUpTo(i, t), Met(i, t))
<1>0. PICK G, f : G = Groups(i, t) /\ f = MetUpTo(i, t)
  OBVIOUS
<1>1. G \in Seq(Shows) /\ Len(G) \in Nat
  <2>1. G \in Seq(Shows)
    BY <1>0, GroupsAre DEF GroupsTold
  <2> QED BY <2>1
<1>2. PICK A : A = {r \in Range(G) : Len(r.agg) >= t.having}
  OBVIOUS
<1>3. Picks(f, G, A) /\ Met(i, t) = Picked(G, A)
  <2>1. Picks(PickedUpTo(G, A), G, A)
    BY <1>1, PickedIs
  <2> QED BY <1>0, <1>2, <2>1 DEF MetUpTo, Met
<1>4. \A c \in 1..Len(G) : G[c] \in A <=> Len(G[c].agg) >= t.having
  <2>1. \A c \in 1..Len(G) : G[c] \in Range(G)
    BY <1>1 DEF Range
  <2> QED BY <1>2, <2>1
<1>5. \A c \in 0..Len(G) : f[c] \in Seq(Shows) /\ Len(f[c]) \in Nat
  <2> SUFFICES ASSUME NEW c \in 0..Len(G) PROVE f[c] \in Seq(Shows) /\ Len(f[c]) \in Nat
    OBVIOUS
  <2>1. PICK q \in Seq(In(G)) : q = f[c]
    BY <1>3 DEF Picks
  <2>2. \A k \in 1..Len(q) : q[k] \in In(G)
    BY Element
  <2>3. In(G) \subseteq Shows
    BY <1>1, Element DEF In
  <2>4. PICK N \in Nat : N = Len(q)
    OBVIOUS
  <2>5. q \in [1..N -> Shows]
    BY <2>2, <2>3, <2>4
  <2>6. q \in Seq(Shows)
    BY ONLY <2>5, N \in Nat
  <2> QED BY <2>1, <2>4, <2>6
<1>6. /\ f[0] = <<>> /\ f[Len(G)] = Met(i, t)
      /\ \A c \in 1..Len(G) : f[c] = IF G[c] \in A THEN Append(f[c - 1], G[c]) ELSE f[c - 1]
  BY <1>3 DEF Picks
<1>7. ASSUME NEW a \in 0..Len(G)
      PROVE  \A b \in a..Len(G) : /\ Len(f[a]) <= Len(f[b])
                                  /\ \A k \in 1..Len(f[a]) : f[b][k] = f[a][k]
  BY <1>1, <1>3, PickedGrows
<1> QED BY <1>0, <1>1, <1>4, <1>5, <1>6, <1>7 DEF MetTold

\* What group c adds.
MetNext(t, G, c, f, e) ==
  /\ Len(G) \in Nat /\ c \in 0..Len(G) /\ c - 1 \in 0..Len(G)
  /\ e \in Seq(Shows) /\ Len(e) \in Nat /\ G[c] \in Shows
  /\ f = IF Len(G[c].agg) >= t.having THEN Append(e, G[c]) ELSE e

LEMMA MetStep ==
  ASSUME NEW t \in QueryStatement, NEW i \in Nat, NEW G, G = Groups(i, t),
         NEW c \in 1..Len(G), NEW f, f = MetUpTo(i, t)[c], NEW e, e = MetUpTo(i, t)[c - 1]
  PROVE  MetNext(t, G, c, f, e)
<1>1. PICK h, M : h = MetUpTo(i, t) /\ M = Met(i, t)
  OBVIOUS
<1>2. MetTold(t, G, h, M)
  BY <1>1, MetIs
<1>3. G \in Seq(Shows) /\ Len(G) \in Nat
  BY <1>2 DEF MetTold
<1>4. c \in 0..Len(G) /\ c - 1 \in 0..Len(G)
  BY <1>3
<1>5. G[c] \in Shows
  BY <1>3, Element
<1> QED BY <1>1, <1>2, <1>3, <1>4, <1>5 DEF MetTold, MetNext

\* LIMIT of n rows.
Within(t, n) == IF n <= 0 THEN 0 ELSE IF n < t.cnt THEN n ELSE t.cnt

\* out has the rows of the first c groups.
Given(i, t, s, o, c) ==
  LET f == MetUpTo(i, t)[c]
  IN /\ c \in 0..Len(Groups(i, t))
     /\ s.iter = Len(f) - 1
     /\ s.user = Within(t, Len(f) - t.start)
     /\ Len(o) = s.user
     /\ \A k \in 1..s.user : o[k] = f[t.start + k]

LEMMA GivenFirst ==
  ASSUME NEW t \in QueryStatement, NEW i \in Nat, NEW s, s.iter = -1, s.user = 0
  PROVE  Given(i, t, s, <<>>, 0)
<1>1. PICK f : f = MetUpTo(i, t)[0]
  OBVIOUS
<1>2. f = <<>> /\ Len(f) = 0 /\ Len(Groups(i, t)) \in Nat
  BY <1>1, MetIs DEF MetTold
<1>3. t.start \in Nat /\ Within(t, 0 - t.start) = 0
  BY RowsAre DEF Within
<1> QED BY <1>1, <1>2, <1>3 DEF Given

LEMMA GivenLike ==
  ASSUME NEW i, NEW t, NEW s, NEW o, NEW c, Given(i, t, s, o, c),
         NEW u, u.iter = s.iter, u.user = s.user
  PROVE  Given(i, t, u, o, c)
BY DEF Given

\* A group that does not meet HAVING.
LEMMA GivenPassed ==
  ASSUME NEW t \in QueryStatement, NEW i \in Nat, NEW s, NEW o, NEW c \in 1..Len(Groups(i, t)),
         Given(i, t, s, o, c - 1), NEW u, u.user = s.user, u.iter = s.iter,
         ~(Len(Groups(i, t)[c].agg) >= t.having)
  PROVE  Given(i, t, u, o, c)
<1>1. MetUpTo(i, t)[c] = MetUpTo(i, t)[c - 1] /\ c \in 0..Len(Groups(i, t))
  <2>1. PICK G, f, e : G = Groups(i, t) /\ f = MetUpTo(i, t)[c] /\ e = MetUpTo(i, t)[c - 1]
    OBVIOUS
  <2>2. c \in 1..Len(G) /\ ~(Len(G[c].agg) >= t.having)
    BY <2>1
  <2>3. MetNext(t, G, c, f, e)
    BY <2>1, <2>2, MetStep
  <2> QED BY <2>1, <2>2, <2>3 DEF MetNext
<1> QED BY <1>1 DEF Given

\* One that does, before the rows LIMIT asks for.
LEMMA GivenSkipped ==
  ASSUME NEW t \in QueryStatement, NEW i \in Nat, NEW s, NEW o, NEW c \in 1..Len(Groups(i, t)),
         Given(i, t, s, o, c - 1), NEW u, u.user = s.user, u.iter = s.iter + 1,
         Len(Groups(i, t)[c].agg) >= t.having, s.user < t.cnt, ~(u.iter >= t.start)
  PROVE  Given(i, t, u, o, c)
<1>1. PICK G, f, e : G = Groups(i, t) /\ f = MetUpTo(i, t)[c] /\ e = MetUpTo(i, t)[c - 1]
  OBVIOUS
<1>2. /\ Len(G) \in Nat /\ f = Append(e, G[c]) /\ e \in Seq(Shows) /\ Len(e) \in Nat
      /\ c \in 0..Len(G) /\ c - 1 \in 0..Len(G)
  <2>1. c \in 1..Len(G) /\ Len(G[c].agg) >= t.having
    BY <1>1
  <2>2. MetNext(t, G, c, f, e)
    BY <1>1, <2>1, MetStep
  <2> QED BY <2>1, <2>2 DEF MetNext
<1>3. Len(f) = Len(e) + 1
  BY <1>2
<1>4. t.start \in Nat /\ t.cnt \in Nat
  BY RowsAre
<1>5. /\ s.iter = Len(e) - 1 /\ s.user = Within(t, Len(e) - t.start) /\ Len(o) = s.user
  BY <1>1 DEF Given
<1>6. u.iter = Len(f) - 1 /\ Len(f) - t.start <= 0 /\ Len(e) - t.start <= 0
  BY SMTT(30), <1>2, <1>3, <1>4, <1>5
<1>7. s.user = 0 /\ Within(t, Len(f) - t.start) = 0
  BY <1>5, <1>6 DEF Within
<1> QED BY <1>1, <1>2, <1>5, <1>6, <1>7 DEF Given

\* One that is returned.
LEMMA GivenRow ==
  ASSUME NEW t \in QueryStatement, NEW i \in Nat, NEW s, NEW o \in Seq(Shows),
         NEW c \in 1..Len(Groups(i, t)),
         Given(i, t, s, o, c - 1), NEW u, u.user = s.user + 1, u.iter = s.iter + 1,
         Len(Groups(i, t)[c].agg) >= t.having, s.user < t.cnt, u.iter >= t.start
  PROVE  Given(i, t, u, Append(o, Groups(i, t)[c]), c)
<1>1. PICK G, f, e : G = Groups(i, t) /\ f = MetUpTo(i, t)[c] /\ e = MetUpTo(i, t)[c - 1]
  OBVIOUS
<1>2. /\ Len(G) \in Nat /\ f = Append(e, G[c]) /\ e \in Seq(Shows) /\ Len(e) \in Nat
      /\ G[c] \in Shows
      /\ c \in 0..Len(G) /\ c - 1 \in 0..Len(G)
  <2>1. c \in 1..Len(G) /\ Len(G[c].agg) >= t.having
    BY <1>1
  <2>2. MetNext(t, G, c, f, e)
    BY <1>1, <2>1, MetStep
  <2> QED BY <2>1, <2>2 DEF MetNext
<1>3. Len(f) = Len(e) + 1 /\ f[Len(e) + 1] = G[c] /\ \A k \in 1..Len(e) : f[k] = e[k]
  BY <1>2
<1>4. t.start \in Nat /\ t.cnt \in Nat
  BY RowsAre
<1>5. /\ s.iter = Len(e) - 1 /\ s.user = Within(t, Len(e) - t.start) /\ Len(o) = s.user
      /\ \A k \in 1..s.user : o[k] = e[t.start + k]
  BY <1>1 DEF Given
<1>6. PICK n \in Int : n = Len(e) - t.start
  BY <1>2, <1>4
<1>a. PICK x \in Nat, y \in Nat : x = t.start /\ y = Len(e)
  BY <1>2, <1>4
<1>b. n = y - x
  BY <1>6, <1>a
<1>7. n >= 0
  <2>1. u.iter = y
    BY <1>5, <1>a
  <2>2. y >= x
    BY <1>a, <2>1
  <2> QED BY <1>a, <1>b, <2>2
<1>8. s.user = n
  <2>1. PICK z \in Nat : z = t.cnt
    BY <1>4
  <2>2. s.user = IF n <= 0 THEN 0 ELSE IF n < z THEN n ELSE z
    BY <1>5, <1>6, <2>1 DEF Within
  <2>3. s.user < z
    BY <2>1
  <2> QED BY <1>7, <2>2, <2>3
<1>9. u.user = n + 1 /\ Len(f) - t.start = n + 1 /\ n + 1 <= t.cnt
  <2>1. PICK y2 \in Nat, z \in Nat : y2 = Len(f) /\ z = t.cnt
    BY <1>3, <1>4, <1>a
  <2>2. y2 = y + 1 /\ n < z
    BY <1>3, <1>8, <1>a, <2>1
  <2>3. y2 - x = n + 1 /\ n + 1 <= z
    BY <1>b, <2>2
  <2> QED BY <1>8, <1>a, <2>1, <2>3
<1>10. Within(t, n + 1) = n + 1
  BY <1>4, <1>7, <1>9 DEF Within
<1>11. PICK p : p = Append(o, G[c])
  OBVIOUS
<1>12. p \in Seq(Shows) /\ Len(p) = n + 1 /\ p[n + 1] = G[c] /\ \A k \in 1..n : p[k] = o[k]
  <2>1. Len(o) = n
    BY <1>5, <1>8
  <2>2. PICK g \in Shows : g = G[c]
    BY <1>2
  <2> QED BY <1>11, <2>1, <2>2
<1>13. \A k \in 1..(n + 1) : p[k] = f[t.start + k]
  <2> SUFFICES ASSUME NEW k \in 1..(n + 1) PROVE p[k] = f[t.start + k]
    OBVIOUS
  <2>1. CASE k = n + 1
    <3>1. t.start + k = Len(e) + 1
      <4>1. x + k = y + 1
        BY <1>b, <2>1
      <4> QED BY <1>a, <4>1
    <3> QED BY <1>3, <1>12, <2>1, <3>1
  <2>2. CASE k # n + 1
    <3>1. k \in 1..n /\ t.start + k \in 1..Len(e)
      <4>1. k \in 1..n /\ x + k \in 1..y
        BY <1>b, <1>7, <2>2
      <4> QED BY <1>a, <4>1
    <3> QED BY <1>3, <1>5, <1>8, <1>12, <3>1
  <2> QED BY <2>1, <2>2
<1>14. u.iter = Len(f) - 1
  BY <1>2, <1>3, <1>5
<1> QED BY <1>1, <1>2, <1>9, <1>10, <1>11, <1>12, <1>13, <1>14 DEF Given

LEMMA SubSeqIs ==
  ASSUME NEW V, NEW M \in Seq(V), NEW a \in Nat, NEW k \in Nat \ {0}, a + k <= Len(M)
  PROVE  LET w == SubSeq(M, a + 1, a + k) IN
         w \in Seq(V) /\ Len(w) = k /\ \A x \in 1..k : w[x] = M[a + x]
<1>1. PICK w : w = SubSeq(M, a + 1, a + k)
  OBVIOUS
<1>2. Len(M) \in Nat /\ (a + k) - (a + 1) + 1 = k /\ \A x \in 1..k : a + x \in 1..Len(M)
  OBVIOUS
<1>3. w = [x \in 1..k |-> M[a + x]]
  BY <1>1, <1>2
<1>4. \A x \in 1..k : M[a + x] \in V
  BY <1>2, Element
<1>5. w \in [1..k -> V]
  BY <1>3, <1>4
<1>6. w \in Seq(V) /\ Len(w) = k
  BY ONLY <1>5, k \in Nat \ {0}
<1> QED BY <1>1, <1>3, <1>6

LEMMA ExpectedIs ==
  ASSUME NEW t \in QueryStatement, NEW i \in Nat, t.kind = "select",
         NEW M \in Seq(Shows), M = Met(i, t), NEW n, n = Within(t, Len(M) - t.start)
  PROVE  /\ Expected(i, t) \in Seq(Shows) /\ n \in Nat /\ Len(Expected(i, t)) = n
         /\ \A k \in 1..n : Expected(i, t)[k] = M[t.start + k]
<1>1. t.start \in Nat /\ t.cnt \in Nat /\ Len(M) \in Nat
  BY RowsAre
<1>2. PICK d \in Int : d = Len(M) - t.start
  BY <1>1
<1>3. PICK k \in Int : k = IF d < t.cnt THEN d ELSE t.cnt
  BY <1>1, <1>2
<1>4. Expected(i, t) = IF k <= 0 THEN <<>> ELSE SubSeq(M, t.start + 1, t.start + k)
  BY <1>2, <1>3 DEF Expected
<1>5. CASE k <= 0
  <2>1. n = 0
    BY <1>1, <1>2, <1>3, <1>5 DEF Within
  <2> QED BY <1>4, <1>5, <2>1
<1>6. CASE k > 0
  <2>1. n = k /\ n \in Nat
    BY <1>1, <1>2, <1>3, <1>6 DEF Within
  <2>2. t.start + k <= Len(M)
    BY <1>1, <1>2, <1>3
  <2>3. PICK x \in Nat, y \in Nat \ {0} : x = t.start /\ y = k
    <3>1. k \in Nat \ {0}
      BY <1>6
    <3> QED BY <1>1, <3>1
  <2>4. PICK w : w = SubSeq(M, x + 1, x + y)
    OBVIOUS
  <2>5. w \in Seq(Shows) /\ Len(w) = y /\ \A z \in 1..y : w[z] = M[x + z]
    <3>1. x + y <= Len(M)
      BY <2>2, <2>3
    <3> QED BY <2>4, <3>1, SubSeqIs
  <2>6. Expected(i, t) = w
    <3>1. ~(k <= 0)
      BY <1>6
    <3> QED BY <1>4, <2>3, <2>4, <3>1
  <2> QED BY <2>1, <2>3, <2>5, <2>6
<1> QED BY <1>3, <1>5, <1>6

\* What has been returned begins what is expected, and is all of it once no group
\* is left or LIMIT is reached.
LEMMA GivenExpected ==
  ASSUME NEW t \in QueryStatement, NEW i \in Nat, t.kind = "select", NEW s,
         NEW o \in Seq(Shows), NEW c, Given(i, t, s, o, c)
  PROVE  /\ IsPrefix(o, Expected(i, t))
         /\ c = Len(Groups(i, t)) \/ s.user >= t.cnt => o = Expected(i, t)
<1>1. PICK G, f, M, E : /\ G = Groups(i, t) /\ f = MetUpTo(i, t)[c] /\ M = Met(i, t)
                        /\ E = Expected(i, t)
  OBVIOUS
<1>2. /\ c \in 0..Len(G) /\ Len(o) = s.user /\ s.user = Within(t, Len(f) - t.start)
      /\ \A k \in 1..s.user : o[k] = f[t.start + k]
  BY <1>1 DEF Given
<1>3. /\ Len(G) \in Nat /\ f \in Seq(Shows) /\ M \in Seq(Shows) /\ Len(f) \in Nat
      /\ Len(M) \in Nat
      /\ Len(f) <= Len(M) /\ \A k \in 1..Len(f) : M[k] = f[k]
      /\ c = Len(G) => f = M
  <2>1. PICK h : h = MetUpTo(i, t)
    OBVIOUS
  <2>4. f = h[c]
    BY <1>1, <2>1
  <2>5. /\ Len(G) \in Nat /\ h[Len(G)] = Met(i, t)
        /\ \A x \in 0..Len(G) : h[x] \in Seq(Shows) /\ Len(h[x]) \in Nat
        /\ \A a \in 0..Len(G) : \A b \in a..Len(G) :
              /\ Len(h[a]) <= Len(h[b])
              /\ \A k \in 1..Len(h[a]) : h[b][k] = h[a][k]
    <3>1. MetTold(t, G, h, Met(i, t))
      BY <1>1, <2>1, MetIs
    <3> QED BY <3>1 DEF MetTold
  <2>2. /\ Len(G) \in Nat /\ h[Len(G)] = M /\ f = h[c]
        /\ \A x \in 0..Len(G) : h[x] \in Seq(Shows) /\ Len(h[x]) \in Nat
        /\ \A a \in 0..Len(G) : \A b \in a..Len(G) :
              /\ Len(h[a]) <= Len(h[b])
              /\ \A k \in 1..Len(h[a]) : h[b][k] = h[a][k]
    BY SMTT(30), <1>1, <2>4, <2>5
  <2>3. Len(G) \in 0..Len(G) /\ Len(G) \in c..Len(G)
    BY <1>2, <2>2
  <2> QED BY <1>2, <2>2, <2>3
<1>4. PICK n : n = Within(t, Len(M) - t.start)
  OBVIOUS
<1>5. E \in Seq(Shows) /\ n \in Nat /\ Len(E) = n /\ \A k \in 1..n : E[k] = M[t.start + k]
  BY <1>1, <1>3, <1>4, ExpectedIs
<1>6. t.start \in Nat /\ t.cnt \in Nat
  BY RowsAre
<1>7. s.user \in Nat /\ s.user <= n /\ \A k \in 1..s.user : t.start + k \in 1..Len(f)
  <2>0. Len(f) - t.start \in Int /\ Len(M) - t.start \in Int
    BY <1>3, <1>6
  <2>1. PICK a, b \in Int : a = Len(f) - t.start /\ b = Len(M) - t.start
    BY <2>0
  <2>2. a <= b
    BY <1>3, <1>6, <2>1
  <2>3. s.user = Within(t, a) /\ n = Within(t, b)
    BY <1>2, <1>4, <2>1
  <2>4. s.user \in Nat /\ s.user <= n /\ (s.user = 0 \/ s.user <= a)
    BY <1>6, <2>2, <2>3 DEF Within
  <2>5. PICK x \in Nat, z \in Nat : x = t.start /\ z = Len(f)
    BY <1>3, <1>6
  <2>6. a = z - x
    BY <2>1, <2>5
  <2>7. PICK y \in Nat : y = s.user
    BY <2>4
  <2>8. \A k \in 1..y : x + k \in 1..z
    BY <2>4, <2>6, <2>7
  <2> QED BY <2>4, <2>5, <2>7, <2>8
<1>8. \A k \in 1..s.user : o[k] = E[k]
  <2> SUFFICES ASSUME NEW k \in 1..s.user PROVE o[k] = E[k]
    OBVIOUS
  <2>1. k \in 1..n /\ t.start + k \in 1..Len(f)
    BY <1>5, <1>7
  <2>2. M[t.start + k] = f[t.start + k]
    BY <1>3, <2>1
  <2> QED BY <1>2, <1>5, <2>1, <2>2
<1>9. IsPrefix(o, E)
  <2>1. SubSeq(o, 1, Len(o)) = [k \in 1..s.user |-> o[k]]
    BY <1>2, <1>7
  <2>2. SubSeq(E, 1, Len(o)) = [k \in 1..s.user |-> E[k]]
    BY <1>2, <1>5, <1>7
  <2> QED BY <1>2, <1>5, <1>7, <1>8, <2>1, <2>2 DEF IsPrefix
<1>10. ASSUME c = Len(G) \/ s.user >= t.cnt PROVE o = E
  <2>1. s.user = n
    <3>1. CASE c = Len(G)
      BY <1>2, <1>3, <1>4, <3>1
    <3>2. CASE s.user >= t.cnt
      <4>1. n <= t.cnt
        BY <1>3, <1>4, <1>6 DEF Within
      <4> QED BY <1>5, <1>6, <1>7, <3>2, <4>1
    <3> QED BY <1>10, <3>1, <3>2
  <2> QED BY <1>2, <1>5, <1>8, <2>1
<1> QED BY <1>1, <1>9, <1>10

-----------------------------------------------------------------------------
(***************************************************************************)
(* Where a select stands whose source does not fail.                       *)
(***************************************************************************)
\* The row after m has been read ahead, and begins a run.
Waiting(i, t, s, m) ==
  /\ m \in 1..(Len(Kept(t)) - 1)
  /\ ~s.last /\ s.saving
  /\ s.saved = <<i, Kept(t)[m + 1]>> /\ s.pos = Kept(t)[m + 1]
  /\ s.key = KeyFor(t, Kept(t)[m + 1])
  /\ ~Keyed(t, m, m + 1)

\* c groups have been read.
After(i, t, s, c) ==
  \/ /\ Plain(t) /\ c \in 0..Len(Kept(t))
     /\ s.pos = AtRow(t, c) /\ s.agg = <<>> /\ s.agg2 = <<>>
  \/ ~Plain(t) /\ s.begun /\ s.last /\ c = Len(Groups(i, t))
  \/ /\ ~Plain(t) /\ s.begun /\ t.level # 2 /\ s.agg2 = <<>>
     /\ \E m \in 1..Len(Kept(t)) : c = Number(t, m) /\ Waiting(i, t, s, m)

Fresh(t, s) == ~Plain(t) /\ s.pos = 0 /\ ~s.saving /\ ~s.last /\ s.agg = <<>> /\ s.agg2 = <<>>

\* Row m is the one of the source, and those of its run before it are counted.
InRun(i, t, s, p, m) ==
  /\ m \in 1..Len(Kept(t))
  /\ p = <<i, Kept(t)[m]>> /\ s.pos = Kept(t)[m] /\ ~s.saving /\ ~s.last /\ s.begun
  /\ s.key = KeyFor(t, Kept(t)[m])
  /\ s.agg = AggBefore(i, t, m)
  /\ s.agg2 = IF t.level = 2 THEN Agg2Before(i, t, m) ELSE <<>>

\* Row m ended its run, and the aggregates have all of it.
RunDone(i, t, s, p, m) ==
  /\ m \in 1..Len(Kept(t))
  /\ p = <<i, Kept(t)[m]>> /\ s.begun
  /\ s.agg = AggOf(i, t, m) /\ s.agg2 = Agg2Before(i, t, m)
  /\ (s.last /\ m = Len(Kept(t))) \/ Waiting(i, t, s, m)

Stands(i, t, s, p, at, c) ==
  /\ at \in {"idle", "next"} => (Fresh(t, s) /\ ~s.begun /\ c = 0) \/ After(i, t, s, c)
  /\ at \notin {"idle", "next"} => s.user < t.cnt
  /\ at = "prime" => Fresh(t, s) /\ s.begun /\ c = 0
  /\ at = "group" =>
       /\ ~Plain(t)
       /\ \E m \in 1..Len(Kept(t)) :
            InRun(i, t, s, p, m) /\ c = IF t.level = 2 THEN 0 ELSE Number(t, m) - 1
  /\ at = "regroup" =>
       /\ ~Plain(t) /\ t.level = 2 /\ c = 0
       /\ \E m \in 1..Len(Kept(t)) : RunDone(i, t, s, p, m)
  /\ at = "row" =>
       /\ c + 1 \in 1..Len(Groups(i, t))
       /\ After(i, t, s, c + 1) /\ Groups(i, t)[c + 1] = Shown(s, p)

Scan(i, t, s, p, o, at) ==
  \E c \in 0..Len(Groups(i, t)) : Given(i, t, s, o, c) /\ Stands(i, t, s, p, at, c)

\* Begun, counting and returning as before.
Counts(s, u) == u.iter = s.iter /\ u.user = s.user

LEMMA ScanAt ==
  ASSUME NEW i, NEW t, NEW s, NEW o, NEW c \in 0..Len(Groups(i, t)), Given(i, t, s, o, c),
         NEW u, Counts(s, u), NEW p, NEW at, Stands(i, t, u, p, at, c)
  PROVE  Scan(i, t, u, p, o, at)
BY GivenLike DEF Scan, Counts

\* A row of a plain statement.
LEMMA PlainRow ==
  ASSUME NEW t \in QueryStatement, NEW i \in Nat, NEW s, NEW u, NEW p, NEW q, NEW o,
         NEW c \in 0..Len(Groups(i, t)), Given(i, t, s, o, c),
         Plain(t), s.user < t.cnt, s.user \in Int,
         Stands(i, t, s, p, "next", c),
         c # Len(Kept(t)), u.pos = Kept(t)[c + 1], q = <<i, Kept(t)[c + 1]>>,
         Counts(s, u), u.agg = s.agg, u.agg2 = s.agg2
  PROVE  Scan(i, t, u, q, o, "row")
<1>1. /\ c \in 0..Len(Kept(t)) /\ s.agg = <<>> /\ s.agg2 = <<>>
  BY DEF Stands, After, Fresh
<1>2. GroupsTold(i, t, Groups(i, t)) /\ Len(Kept(t)) \in Nat
  BY GroupsAre, KeptNat
<1>3. /\ c + 1 \in 0..Len(Kept(t)) /\ c + 1 \in 1..Len(Groups(i, t))
      /\ c + 1 \in 1..Len(Kept(t)) /\ c + 1 # 0
  BY <1>1, <1>2 DEF GroupsTold
<1>4. Groups(i, t)[c + 1] = Shown(u, q)
  BY <1>1, <1>2, <1>3 DEF GroupsTold, Shown
<1>5. After(i, t, u, c + 1)
  BY <1>1, <1>3 DEF After, AtRow
<1>6. Stands(i, t, u, q, "row", c)
  BY <1>3, <1>4, <1>5 DEF Stands, Counts
<1> QED BY <1>6, ScanAt

\* A plain statement has no row left.
LEMMA PlainEnds ==
  ASSUME NEW t \in QueryStatement, NEW i \in Nat, NEW s, NEW p, NEW c,
         Plain(t), Stands(i, t, s, p, "next", c)
  PROVE  /\ c \in 0..Len(Kept(t)) /\ s.pos = AtRow(t, c)
         /\ c = Len(Kept(t)) => c = Len(Groups(i, t))
<1>1. c \in 0..Len(Kept(t)) /\ s.pos = AtRow(t, c)
  BY DEF Stands, After, Fresh
<1>2. GroupsTold(i, t, Groups(i, t))
  BY GroupsAre
<1> QED BY <1>1, <1>2 DEF GroupsTold

\* The first fetch of a grouped statement.
LEMMA GroupBegins ==
  ASSUME NEW t \in QueryStatement, NEW i \in Nat, NEW s, NEW u, NEW p, NEW q, NEW o,
         NEW c \in 0..Len(Groups(i, t)), Given(i, t, s, o, c),
         ~Plain(t), s.user < t.cnt, Stands(i, t, s, p, "next", c),
         ~s.begun, Counts(s, u),
         u.begun, u.agg = <<>>, u.agg2 = s.agg2, u.pos = s.pos, u.saving = s.saving,
         u.last = s.last
  PROVE  Scan(i, t, u, q, o, "prime") /\ ~s.last
<1>1. Fresh(t, s) /\ c = 0
  BY DEF Stands, After
<1>2. Fresh(t, u)
  BY <1>1 DEF Fresh
<1>3. Stands(i, t, u, q, "prime", c)
  BY <1>1, <1>2 DEF Stands, Counts
<1>4. Scan(i, t, u, q, o, "prime")
  <2>1. Given(i, t, u, o, c)
    BY GivenLike DEF Counts
  <2> QED BY ONLY c \in 0..Len(Groups(i, t)), <1>3, <2>1, ZenonT(40) DEF Scan
<1> QED BY <1>1, <1>4 DEF Fresh

\* The next group, with the row read ahead.
LEMMA GroupGoesOn ==
  ASSUME NEW t \in QueryStatement, NEW i \in Nat, NEW s, NEW u, NEW p, NEW o,
         NEW c \in 0..Len(Groups(i, t)), Given(i, t, s, o, c),
         ~Plain(t), s.user < t.cnt, Stands(i, t, s, p, "next", c),
         s.begun, ~s.last, Counts(s, u),
         u.begun, u.agg = <<>>, u.agg2 = s.agg2, u.pos = s.pos, ~u.saving,
         u.last = s.last, u.key = s.key
  PROVE  Scan(i, t, u, s.saved, o, "group") /\ s.saving
<1>1. /\ t.level # 2 /\ s.agg2 = <<>>
      /\ \E m \in 1..Len(Kept(t)) : c = Number(t, m) /\ Waiting(i, t, s, m)
  BY DEF Stands, After
<1>2. PICK m \in 1..Len(Kept(t)) : c = Number(t, m) /\ Waiting(i, t, s, m)
  BY <1>1
<1>3. /\ m \in 1..(Len(Kept(t)) - 1) /\ ~Keyed(t, m, m + 1) /\ Len(Kept(t)) \in Nat
  BY <1>2, KeptNat DEF Waiting
<1>4. Number(t, m + 1) = Number(t, m) + 1 /\ AggBefore(i, t, m + 1) = <<>>
  BY <1>3, AggNext
<1>5. m + 1 \in 1..Len(Kept(t)) /\ Number(t, m) \in Nat
  <2>1. m + 1 \in 1..Len(Kept(t))
    BY ONLY <1>3
  <2>2. Number(t, m) \in Nat
    BY ONLY t \in QueryStatement, i \in Nat, m \in 1..Len(Kept(t)), AggIs
  <2> QED BY <2>1, <2>2
<1>6. InRun(i, t, u, s.saved, m + 1)
  BY <1>1, <1>2, <1>4, <1>5 DEF InRun, Waiting
<1>7. c = Number(t, m + 1) - 1
  BY <1>2, <1>4, <1>5
<1>8. Stands(i, t, u, s.saved, "group", c)
  BY <1>1, <1>5, <1>6, <1>7 DEF Stands, Counts
<1> QED BY <1>2, <1>8, ScanAt DEF Waiting

\* All groups have been read.
LEMMA GroupsEnd ==
  ASSUME NEW t, NEW i, NEW s, NEW p, NEW c,
         ~Plain(t), Stands(i, t, s, p, "next", c), s.last
  PROVE  c = Len(Groups(i, t))
BY DEF Stands, After, Fresh, Waiting

\* The first row of a grouped statement.
LEMMA FirstRow ==
  ASSUME NEW t \in QueryStatement, NEW i \in Nat, NEW s, NEW u, NEW p, NEW q, NEW o,
         NEW c \in 0..Len(Groups(i, t)), Given(i, t, s, o, c),
         Stands(i, t, s, p, "prime", c), Len(Kept(t)) # 0,
         Counts(s, u), u.agg = s.agg, u.agg2 = s.agg2, u.saving = s.saving, u.last = s.last,
         u.begun = s.begun, u.pos = Kept(t)[1], u.key = KeyFor(t, Kept(t)[1]),
         q = <<i, Kept(t)[1]>>
  PROVE  Scan(i, t, u, q, o, "group")
<1>1. Fresh(t, s) /\ s.begun /\ c = 0 /\ s.user < t.cnt
  BY DEF Stands
<1>2. Number(t, 1) = 1 /\ AggBefore(i, t, 1) = <<>> /\ Agg2Before(i, t, 1) = <<>>
  BY AggFirst
<1>3. 1 \in 1..Len(Kept(t))
  BY KeptNat
<1>4. InRun(i, t, u, q, 1)
  BY <1>1, <1>2, <1>3 DEF InRun, Fresh
<1>5. Stands(i, t, u, q, "group", c)
  BY <1>1, <1>2, <1>3, <1>4 DEF Stands, Counts, Fresh
<1> QED BY <1>5, ScanAt

\* A grouped statement without rows: no group, or one of aggregates of nothing.
LEMMA NoFirstRow ==
  ASSUME NEW t \in QueryStatement, NEW i \in Nat, NEW s, NEW p, NEW o,
         NEW c \in 0..Len(Groups(i, t)), Given(i, t, s, o, c),
         Stands(i, t, s, p, "prime", c), Len(Kept(t)) = 0
  PROVE  /\ t.level = 0 => c = Len(Groups(i, t))
         /\ t.level # 0 =>
              \A u : Counts(s, u) /\ u.agg = s.agg /\ u.agg2 = s.agg2 /\ u.last
                     /\ u.begun = s.begun => Scan(i, t, u, None, o, "row")
<1>1. Fresh(t, s) /\ s.begun /\ c = 0 /\ s.user < t.cnt /\ ~Plain(t)
  BY DEF Stands, Fresh
<1>2. GroupsTold(i, t, Groups(i, t))
  BY GroupsAre
<1>3. CASE t.level = 0
  <2>1. Groups(i, t) = <<>>
    BY <1>1, <1>2, <1>3 DEF GroupsTold
  <2> QED BY <1>1, <1>3, <2>1
<1>4. CASE t.level # 0
  <2>1. Len(Groups(i, t)) = 1 /\ Groups(i, t)[1] = [row |-> None, agg |-> <<>>, agg2 |-> <<>>]
    BY <1>1, <1>2, <1>4 DEF GroupsTold
  <2> SUFFICES ASSUME NEW u, Counts(s, u), u.agg = s.agg, u.agg2 = s.agg2, u.last,
                      u.begun = s.begun
               PROVE  Scan(i, t, u, None, o, "row")
    BY <1>4
  <2>2. Groups(i, t)[1] = Shown(u, None)
    BY <1>1, <2>1 DEF Shown, Fresh
  <2>3. After(i, t, u, 1)
    BY <1>1, <2>1 DEF After
  <2>4. Stands(i, t, u, None, "row", c)
    BY <1>1, <2>1, <2>2, <2>3 DEF Stands, Counts
  <2> QED BY <2>4, ScanAt
<1> QED BY <1>3, <1>4

\* The next row is in the run.
LEMMA RunGoesOn ==
  ASSUME NEW t \in QueryStatement, NEW i \in Nat, NEW s, NEW u, NEW p, NEW q, NEW o,
         NEW c \in 0..Len(Groups(i, t)), Given(i, t, s, o, c),
         Stands(i, t, s, p, "group", c), NEW m \in 1..Len(Kept(t)), InRun(i, t, s, p, m),
         c = IF t.level = 2 THEN 0 ELSE Number(t, m) - 1,
         m # Len(Kept(t)), KeyFor(t, Kept(t)[m + 1]) = s.key, q = <<i, Kept(t)[m + 1]>>,
         Counts(s, u), u.agg = Append(s.agg, p), u.agg2 = s.agg2, u.pos = Kept(t)[m + 1],
         ~u.saving, u.last = s.last, u.begun = s.begun, u.key = s.key
  PROVE  Scan(i, t, u, q, o, "group")
<1>1. ~Plain(t) /\ s.user < t.cnt
  BY DEF Stands
<1>2. m \in 1..(Len(Kept(t)) - 1) /\ m + 1 \in 1..Len(Kept(t))
  BY KeptNat
<1>3. Keyed(t, m, m + 1)
  <2>1. KeyFor(t, Kept(t)[m]) = KeyFor(t, Kept(t)[m + 1])
    BY DEF InRun
  <2> QED BY <2>1, KeysAre DEF Keyed
<1>4. /\ Number(t, m + 1) = Number(t, m) /\ AggBefore(i, t, m + 1) = AggOf(i, t, m)
      /\ Agg2Before(i, t, m + 1) = Agg2Before(i, t, m)
  BY <1>2, <1>3, AggNext
<1>5. u.agg = AggOf(i, t, m)
  BY AggIs DEF InRun
<1>6. InRun(i, t, u, q, m + 1)
  BY <1>2, <1>4, <1>5 DEF InRun
<1>7. Stands(i, t, u, q, "group", c)
  BY <1>1, <1>2, <1>4, <1>6 DEF Stands, Counts
<1> QED BY <1>7, ScanAt

\* It begins another one, or there is none.
LEMMA RunEnds ==
  ASSUME NEW t \in QueryStatement, NEW i \in Nat, NEW s, NEW u, NEW p, NEW o,
         NEW c \in 0..Len(Groups(i, t)), Given(i, t, s, o, c),
         Stands(i, t, s, p, "group", c), NEW m \in 1..Len(Kept(t)), InRun(i, t, s, p, m),
         c = IF t.level = 2 THEN 0 ELSE Number(t, m) - 1,
         Counts(s, u), u.agg = Append(s.agg, p), u.agg2 = s.agg2, u.begun = s.begun,
         \/ m = Len(Kept(t)) /\ u.last
         \/ /\ m # Len(Kept(t)) /\ KeyFor(t, Kept(t)[m + 1]) # s.key
            /\ ~u.last /\ u.saving /\ u.saved = <<i, Kept(t)[m + 1]>>
            /\ u.pos = Kept(t)[m + 1] /\ u.key = KeyFor(t, Kept(t)[m + 1])
  PROVE  Scan(i, t, u, p, o, IF t.level = 2 THEN "regroup" ELSE "row")
<1>1. ~Plain(t) /\ s.user < t.cnt
  BY DEF Stands
<1>2. u.agg = AggOf(i, t, m) /\ Number(t, m) \in Nat \ {0} /\ u.begun
  BY AggIs DEF InRun
<1>3. (u.last /\ m = Len(Kept(t))) \/ (Waiting(i, t, u, m) /\ m # Len(Kept(t)))
  <2>1. CASE m # Len(Kept(t)) /\ KeyFor(t, Kept(t)[m + 1]) # s.key
    <3>1. m \in 1..(Len(Kept(t)) - 1)
      BY <2>1, KeptNat
    <3>2. ~Keyed(t, m, m + 1)
      <4>1. KeyFor(t, Kept(t)[m]) # KeyFor(t, Kept(t)[m + 1])
        BY <2>1 DEF InRun
      <4> QED BY <4>1, KeysAre DEF Keyed
    <3> QED BY <2>1, <3>1, <3>2 DEF Waiting
  <2> QED BY <2>1
<1>4. CASE t.level = 2
  <2>1. RunDone(i, t, u, p, m)
    BY <1>2, <1>3, <1>4 DEF RunDone, InRun
  <2>2. Stands(i, t, u, p, "regroup", c)
    BY <1>1, <1>4, <2>1 DEF Stands, Counts
  <2> QED BY <1>4, <2>2, ScanAt
<1>5. CASE t.level # 2
  <2>1. u.agg2 = <<>> /\ c + 1 = Number(t, m)
    BY <1>2, <1>5 DEF InRun
  <2>2. GroupsTold(i, t, Groups(i, t)) /\ Len(Kept(t)) # 0
    BY GroupsAre, KeptNat
  <2>3. m = Len(Kept(t)) \/ ~Keyed(t, m, m + 1)
    BY <1>3 DEF Waiting
  <2>4. /\ Len(Groups(i, t)) = Number(t, Len(Kept(t)))
        /\ Number(t, m) \in 1..Len(Groups(i, t))
        /\ Groups(i, t)[Number(t, m)]
             = [row |-> <<i, Kept(t)[m]>>, agg |-> AggOf(i, t, m), agg2 |-> <<>>]
    BY <1>1, <1>5, <2>2, <2>3 DEF GroupsTold
  <2>5. Groups(i, t)[c + 1] = Shown(u, p)
    BY <1>2, <2>1, <2>4 DEF Shown, InRun
  <2>6. After(i, t, u, c + 1)
    BY <1>1, <1>2, <1>3, <1>5, <2>1, <2>4 DEF After
  <2>7. Stands(i, t, u, p, "row", c)
    BY <1>1, <2>1, <2>4, <2>5, <2>6 DEF Stands, Counts
  <2> QED BY <1>5, <2>7, ScanAt
<1> QED BY <1>4, <1>5

\* The last group of the first level is counted.
LEMMA AllRegrouped ==
  ASSUME NEW t \in QueryStatement, NEW i \in Nat, NEW s, NEW u, NEW p, NEW o,
         NEW c \in 0..Len(Groups(i, t)), Given(i, t, s, o, c),
         Stands(i, t, s, p, "regroup", c), s.last,
         Counts(s, u), u.agg = s.agg, u.agg2 = Append(s.agg2, s.agg), u.begun = s.begun,
         u.last = s.last
  PROVE  Scan(i, t, u, p, o, "row")
<1>1. ~Plain(t) /\ s.user < t.cnt /\ t.level = 2 /\ c = 0
  BY DEF Stands
<1>2. PICK m \in 1..Len(Kept(t)) : RunDone(i, t, s, p, m)
  BY DEF Stands
<1>3. m = Len(Kept(t)) /\ Len(Kept(t)) # 0
  BY <1>2, KeptNat DEF RunDone, Waiting
<1>4. GroupsTold(i, t, Groups(i, t))
  BY GroupsAre
<1>5. /\ Len(Groups(i, t)) = 1
      /\ Groups(i, t)[1] = [row |-> <<i, Kept(t)[m]>>, agg |-> AggOf(i, t, m),
                            agg2 |-> Append(Agg2Before(i, t, m), AggOf(i, t, m))]
  BY <1>1, <1>3, <1>4 DEF GroupsTold
<1>6. Groups(i, t)[1] = Shown(u, p)
  BY <1>2, <1>5 DEF RunDone, Shown
<1>7. After(i, t, u, 1)
  BY <1>1, <1>2, <1>5 DEF After, RunDone
<1>8. Stands(i, t, u, p, "row", c)
  BY <1>1, <1>5, <1>6, <1>7 DEF Stands, Counts
<1> QED BY <1>8, ScanAt

\* Another one is, and the next begins with the row read ahead.
LEMMA Regrouped ==
  ASSUME NEW t \in QueryStatement, NEW i \in Nat, NEW s, NEW u, NEW p, NEW o,
         NEW c \in 0..Len(Groups(i, t)), Given(i, t, s, o, c),
         Stands(i, t, s, p, "regroup", c), ~s.last,
         Counts(s, u), u.agg = <<>>, u.agg2 = Append(s.agg2, s.agg), u.begun = s.begun,
         u.last = s.last, u.pos = s.pos, u.key = s.key, ~u.saving
  PROVE  Scan(i, t, u, s.saved, o, "group")
<1>1. ~Plain(t) /\ s.user < t.cnt /\ t.level = 2 /\ c = 0
  BY DEF Stands
<1>2. PICK m \in 1..Len(Kept(t)) : RunDone(i, t, s, p, m)
  BY DEF Stands
<1>3. Waiting(i, t, s, m)
  BY <1>2 DEF RunDone
<1>4. m \in 1..(Len(Kept(t)) - 1) /\ ~Keyed(t, m, m + 1) /\ Len(Kept(t)) \in Nat
  BY <1>3, KeptNat DEF Waiting
<1>5. /\ AggBefore(i, t, m + 1) = <<>>
      /\ Agg2Before(i, t, m + 1) = Append(Agg2Before(i, t, m), AggOf(i, t, m))
  BY <1>4, AggNext
<1>6. m + 1 \in 1..Len(Kept(t))
  BY <1>4
<1>7. InRun(i, t, u, s.saved, m + 1)
  BY <1>1, <1>2, <1>3, <1>5, <1>6 DEF InRun, RunDone, Waiting
<1>8. Stands(i, t, u, s.saved, "group", c)
  BY <1>1, <1>6, <1>7 DEF Stands, Counts
<1> QED BY <1>8, ScanAt

\* What a group was read by does not change.
Kind(s, u) ==
  /\ u.pos = s.pos /\ u.agg = s.agg /\ u.agg2 = s.agg2 /\ u.begun = s.begun /\ u.last = s.last
  /\ u.saving = s.saving /\ u.saved = s.saved /\ u.key = s.key

LEMMA AfterKind ==
  ASSUME NEW t, NEW i, NEW s, NEW u, NEW c, After(i, t, s, c), Kind(s, u)
  PROVE  After(i, t, u, c)
<1>1. CASE Plain(t) /\ c \in 0..Len(Kept(t))
           /\ s.pos = AtRow(t, c) /\ s.agg = <<>> /\ s.agg2 = <<>>
  BY <1>1 DEF After, Kind
<1>2. CASE ~Plain(t) /\ s.begun /\ s.last /\ c = Len(Groups(i, t))
  BY <1>2 DEF After, Kind
<1>3. CASE /\ ~Plain(t) /\ s.begun /\ t.level # 2 /\ s.agg2 = <<>>
           /\ \E m \in 1..Len(Kept(t)) : c = Number(t, m) /\ Waiting(i, t, s, m)
  <2>1. \A m : Waiting(i, t, s, m) => Waiting(i, t, u, m)
    BY DEF Waiting, Kind
  <2> QED BY <1>3, <2>1 DEF After, Kind
<1> QED BY <1>1, <1>2, <1>3 DEF After

LEMMA ScanKind ==
  ASSUME NEW t, NEW i, NEW s, NEW u, NEW o, NEW c \in 1..Len(Groups(i, t)),
         After(i, t, s, c), Kind(s, u), Given(i, t, u, o, c), NEW p, NEW at \in {"idle", "next"}
  PROVE  Scan(i, t, u, p, o, at)
<1>1. Stands(i, t, u, p, at, c)
  BY AfterKind DEF Stands
<1>2. c \in 0..Len(Groups(i, t))
  BY DEF Given
<1> QED BY <1>1, <1>2 DEF Scan

\* A row is returned, skipped for LIMIT, or passed for HAVING.
LEMMA RowMade ==
  ASSUME NEW t \in QueryStatement, NEW i \in Nat, NEW s, NEW u, NEW p, NEW o \in Seq(Shows),
         NEW c \in 0..Len(Groups(i, t)), Given(i, t, s, o, c),
         Stands(i, t, s, p, "row", c), Kind(s, u)
  PROVE  /\ /\ Len(s.agg) >= t.having /\ u.iter = s.iter + 1 /\ u.user = s.user + 1
            /\ u.iter >= t.start
            => Scan(i, t, u, p, Append(o, Shown(s, p)), "idle")
         /\ /\ Len(s.agg) >= t.having /\ u.iter = s.iter + 1 /\ u.user = s.user
            /\ ~(u.iter >= t.start)
            => Scan(i, t, u, p, o, "next")
         /\ ~(Len(s.agg) >= t.having) /\ Counts(s, u) => Scan(i, t, u, p, o, "next")
<1>1. PICK G, d : G = Groups(i, t) /\ d = c + 1
  OBVIOUS
<1>2. d \in 1..Len(G) /\ After(i, t, s, d) /\ G[d] = Shown(s, p) /\ s.user < t.cnt
  BY <1>1 DEF Stands
<1>3. G[d].agg = s.agg /\ d - 1 = c /\ d \in 1..Len(Groups(i, t))
  BY <1>1, <1>2 DEF Shown
<1>4. Given(i, t, s, o, d - 1)
  BY <1>3
<1>5. ASSUME Len(s.agg) >= t.having, u.iter = s.iter + 1, u.user = s.user + 1,
             u.iter >= t.start
      PROVE  Scan(i, t, u, p, Append(o, Shown(s, p)), "idle")
  <2>1. Given(i, t, u, Append(o, G[d]), d)
    BY <1>1, <1>2, <1>3, <1>4, <1>5, GivenRow
  <2> QED BY <1>2, <1>3, <2>1, ScanKind
<1>6. ASSUME Len(s.agg) >= t.having, u.iter = s.iter + 1, u.user = s.user,
             ~(u.iter >= t.start)
      PROVE  Scan(i, t, u, p, o, "next")
  <2>1. Given(i, t, u, o, d)
    BY <1>1, <1>2, <1>3, <1>4, <1>6, GivenSkipped
  <2> QED BY <1>2, <1>3, <2>1, ScanKind
<1>7. ASSUME ~(Len(s.agg) >= t.having), Counts(s, u)
      PROVE  Scan(i, t, u, p, o, "next")
  <2>1. Given(i, t, u, o, d)
    BY <1>1, <1>2, <1>3, <1>4, <1>7, GivenPassed DEF Counts
  <2> QED BY <1>2, <1>3, <2>1, ScanKind
<1> QED BY <1>5, <1>6, <1>7

-----------------------------------------------------------------------------
(***************************************************************************)
(* The rows of every statement, and what keeps them so.                    *)
(***************************************************************************)
RowsFine(i, t, s, o, cur, open, p, at) ==
  /\ t.kind # "select" \/ s.started = 0 => o = <<>>
  /\ cur = i => t.kind \in {"select", "assign"}
  /\ t.error = "no" =>
       /\ IsPrefix(o, Expected(i, t))
       /\ s.started = 1 /\ cur # i /\ open => o = Expected(i, t)
       /\ cur = i /\ open /\ t.kind = "select" => Scan(i, t, s, p, o, at)

RowsInv ==
  /\ out \in [Stmts -> Seq(Shows)]
  /\ \A i \in Stmts : RowsFine(i, text[i], stmt[i], out[i], Cur, qy.open, objlist, pc)

LEMMA NoneExpected ==
  ASSUME NEW t \in QueryStatement, NEW i \in Nat
  PROVE  /\ IsPrefix(<<>>, Expected(i, t))
         /\ t.kind # "select" => Expected(i, t) = <<>>
<1>1. t.kind # "select" => Expected(i, t) = <<>>
  BY DEF Expected
<1>2. CASE t.kind # "select"
  BY <1>1, <1>2 DEF IsPrefix
<1>3. CASE t.kind = "select"
  <2>1. PICK s : s = [iter |-> -1, user |-> 0]
    OBVIOUS
  <2>2. s.iter = -1 /\ s.user = 0
    BY <2>1
  <2>3. Given(i, t, s, <<>>, 0)
    BY <2>2, GivenFirst
  <2>4. <<>> \in Seq(Shows)
    OBVIOUS
  <2> QED BY <1>3, <2>3, <2>4, GivenExpected
<1> QED BY <1>1, <1>2, <1>3

\* A statement that does not run, or stops.
LEMMA StillFine ==
  ASSUME NEW i, NEW t, NEW s, NEW o, NEW cur, NEW open, NEW p, NEW at,
         RowsFine(i, t, s, o, cur, open, p, at),
         NEW u, u.started = s.started, NEW cur2, NEW open2, NEW p2, NEW at2,
         cur2 = i => cur = i /\ ~open2,
         open2 => open,
         open2 /\ u.started = 1 /\ cur = i /\ t.error = "no" => o = Expected(i, t)
  PROVE  RowsFine(i, t, u, o, cur2, open2, p2, at2)
BY DEF RowsFine

\* The statement that runs.
LEMMA RunsFine ==
  ASSUME NEW i \in Nat, NEW t \in QueryStatement, NEW u, u.started = 1, NEW o \in Seq(Shows),
         NEW open, NEW p, NEW at, t.kind \in {"select", "assign"},
         t.kind # "select" => o = <<>>,
         t.error = "no" /\ t.kind = "select" => Scan(i, t, u, p, o, at)
  PROVE  RowsFine(i, t, u, o, i, open, p, at)
<1>1. t.error = "no" => IsPrefix(o, Expected(i, t))
  <2>1. CASE t.kind = "select" /\ t.error = "no"
    <3>1. PICK c \in 0..Len(Groups(i, t)) : Given(i, t, u, o, c)
      BY <2>1 DEF Scan
    <3> QED BY <2>1, <3>1, GivenExpected
  <2>2. CASE t.kind # "select"
    BY <2>2, NoneExpected
  <2> QED BY <2>1, <2>2
<1>2. u.started # 0
  OBVIOUS
<1> QED BY <1>1, <1>2 DEF RowsFine

LEMMA Working ==
  ASSUME IInv, RowsInv, pc # "idle"
  PROVE  /\ Cur \in Stmts /\ Cur \in Nat /\ T = text[Cur] /\ S = stmt[Cur] /\ T \in QueryStatement
         /\ S \in Tree /\ S.started = 1 /\ qy.open /\ Cur # NoStmt
         /\ out \in [Stmts -> Seq(Shows)] /\ out[Cur] \in Seq(Shows)
         /\ T.kind \in {"select", "assign"} /\ (T.kind # "select" => out[Cur] = <<>>)
         /\ T.error = "no" /\ T.kind = "select" => Scan(Cur, T, S, objlist, out[Cur], pc)
<1>1. /\ Cur \in Stmts /\ Cur # NoStmt /\ qy.open /\ S \in Tree /\ Works(S, objlist, links)
      /\ text \in Seq(QueryStatement)
  BY AtWork DEF IInv, Types
<1>2. Cur \in Nat /\ text[Cur] \in QueryStatement
  <2>1. Cur \in 1..Len(text)
    BY <1>1, ObjsFacts
  <2> QED BY <1>1, <2>1, Element
<1>3. S.started = 1
  BY <1>1 DEF Works
<1>4. RowsFine(Cur, text[Cur], stmt[Cur], out[Cur], Cur, qy.open, objlist, pc)
  BY <1>1 DEF RowsInv
<1>5. out \in [Stmts -> Seq(Shows)] /\ out[Cur] \in Seq(Shows)
  BY <1>1 DEF RowsInv
<1>6. T = text[Cur] /\ S = stmt[Cur]
  BY DEF T, S
<1> QED BY <1>1, <1>2, <1>3, <1>4, <1>5, <1>6 DEF RowsFine

\* A fetch goes on with the statement, and has o of its rows.
LEMMA RowsMove ==
  ASSUME IInv, RowsInv, pc # "idle", text' = text, Cur' = Cur, qy'.open = qy.open,
         NEW u, u.started = 1, stmt' = [stmt EXCEPT ![Cur] = u],
         NEW o \in Seq(Shows), out' = [out EXCEPT ![Cur] = o], T.kind # "select" => o = <<>>,
         T.error = "no" /\ T.kind = "select" => Scan(Cur, T, u, objlist', o, pc')
  PROVE  RowsInv'
<1>1. /\ Cur \in Stmts /\ Cur \in Nat /\ T = text[Cur] /\ T \in QueryStatement /\ qy.open
      /\ out \in [Stmts -> Seq(Shows)] /\ T.kind \in {"select", "assign"}
  BY Working
<1>2. Stmts' = Stmts /\ stmt \in [Stmts -> Tree]
  BY SameText DEF IInv, Types
<1>3. out' \in [Stmts -> Seq(Shows)] /\ out'[Cur] = o /\ \A i \in Stmts : i # Cur => out'[i] = out[i]
  BY <1>1
<1>4. stmt'[Cur] = u /\ \A i \in Stmts : i # Cur => stmt'[i] = stmt[i]
  BY <1>1, <1>2
<1>5. RowsFine(Cur, T, u, o, Cur, qy.open, objlist', pc')
  <2>1. PICK i, t, p, at : i = Cur /\ t = T /\ p = objlist' /\ at = pc'
    OBVIOUS
  <2>2. /\ i \in Nat /\ t \in QueryStatement /\ t.kind \in {"select", "assign"}
        /\ (t.kind # "select" => o = <<>>)
        /\ (t.error = "no" /\ t.kind = "select" => Scan(i, t, u, p, o, at))
    BY <1>1, <2>1
  <2>3. RowsFine(i, t, u, o, i, qy.open, p, at)
    BY ONLY <2>2, u.started = 1, o \in Seq(Shows), RunsFine
  <2> QED BY <2>1, <2>3
<1>6. ASSUME NEW i \in Stmts, i # Cur
      PROVE  RowsFine(i, text[i], stmt'[i], out'[i], Cur, qy.open, objlist', pc')
  <2>1. RowsFine(i, text[i], stmt[i], out[i], Cur, qy.open, objlist, pc)
    BY DEF RowsInv
  <2>2. RowsFine(i, text[i], stmt[i], out[i], Cur, qy.open, objlist', pc')
    BY <1>6, <2>1 DEF RowsFine
  <2> QED BY <1>3, <1>4, <1>6, <2>2
<1>7. \A i \in Stmts : RowsFine(i, text[i], stmt'[i], out'[i], Cur, qy.open, objlist', pc')
  BY <1>1, <1>3, <1>4, <1>5, <1>6
<1>8. Cur' = Cur /\ qy'.open = qy.open /\ text' = text
  OBVIOUS
<1> QED BY <1>2, <1>3, <1>7, <1>8 DEF RowsInv

\* The same, without another row.
LEMMA RowsStay ==
  ASSUME IInv, RowsInv, pc # "idle", text' = text, Cur' = Cur, qy'.open = qy.open,
         NEW u, u.started = 1, stmt' = [stmt EXCEPT ![Cur] = u], out' = out,
         T.error = "no" /\ T.kind = "select" => Scan(Cur, T, u, objlist', out[Cur], pc')
  PROVE  RowsInv'
<1>1. PICK o : o = out[Cur]
  OBVIOUS
<1>2. /\ Cur \in Stmts /\ out \in [Stmts -> Seq(Shows)] /\ o \in Seq(Shows)
      /\ (T.kind # "select" => o = <<>>)
  BY <1>1, Working
<1>3. out' = [out EXCEPT ![Cur] = o]
  BY <1>1, <1>2
<1>4. T.error = "no" /\ T.kind = "select" => Scan(Cur, T, u, objlist', o, pc')
  BY <1>1
<1> QED BY <1>2, <1>3, <1>4, RowsMove

-----------------------------------------------------------------------------
(***************************************************************************)
(* The statement that runs ends, and another may begin.                    *)
(***************************************************************************)
LEMMA BegunIs ==
  /\ Begun.pos = 0 /\ Begun.iter = -1 /\ Begun.user = 0 /\ Begun.agg = <<>> /\ Begun.agg2 = <<>>
  /\ ~Begun.saving /\ ~Begun.last /\ ~Begun.begun /\ Begun.started = 1
<1>1. PICK s : s = NewStmt
  OBVIOUS
<1>2. /\ s.pos = 0 /\ s.iter = -1 /\ s.user = 0 /\ s.agg = <<>> /\ s.agg2 = <<>>
      /\ ~s.saving /\ ~s.last /\ ~s.begun
  BY <1>1 DEF NewStmt
<1>3. s \in Tree /\ Begun = [s EXCEPT !.alive = TRUE, !.links = 1, !.finished = FALSE, !.started = 1]
  BY <1>1, NewStmtIs DEF Begun
<1>4. PICK u : u = [s EXCEPT !.alive = TRUE, !.links = 1, !.finished = FALSE, !.started = 1]
  OBVIOUS
<1>5. /\ u.pos = s.pos /\ u.iter = s.iter /\ u.user = s.user /\ u.agg = s.agg /\ u.agg2 = s.agg2
      /\ u.saving = s.saving /\ u.last = s.last /\ u.begun = s.begun /\ u.started = 1
  BY <1>3, <1>4 DEF Tree
<1> QED BY <1>2, <1>3, <1>4, <1>5

LEMMA ScanBegins ==
  ASSUME NEW t \in QueryStatement, NEW i \in Nat, NEW p, NEW at \in {"idle", "next"}
  PROVE  Scan(i, t, Begun, p, <<>>, at)
<1>1. Given(i, t, Begun, <<>>, 0)
  BY BegunIs, GivenFirst
<1>2. 0 \in 0..Len(Groups(i, t)) /\ Len(Kept(t)) \in Nat
  BY <1>1, KeptNat DEF Given
<1>3. CASE Plain(t)
  <2>1. 0 \in 0..Len(Kept(t)) /\ AtRow(t, 0) = 0
    BY <1>2 DEF AtRow
  <2>2. After(i, t, Begun, 0)
    BY <1>3, <2>1, BegunIs DEF After
  <2> QED BY <1>1, <1>2, <2>2 DEF Scan, Stands
<1>4. CASE ~Plain(t)
  <2>1. Fresh(t, Begun) /\ ~Begun.begun
    BY <1>4, BegunIs DEF Fresh
  <2> QED BY <1>1, <1>2, <2>1 DEF Scan, Stands
<1> QED BY <1>3, <1>4

LEMMA NextKind ==
  ASSUME text \in Seq(QueryStatement), NEW q \in MultiQueryRecord, NEW i \in Nat, NEW k,
         k = NextStatement(q, i).cur, k # NoStmt
  PROVE  text[k].kind \in {"select", "assign"}
<1> DEFINE K == {j \in Stmts : j > i /\ text[j].kind # "immediate"}
           j == CHOOSE j \in K : \A n \in K : j <= n
<1>1. Stmts = 1..Len(text) /\ Len(text) \in Nat
  BY ObjsFacts
<1>2. CASE K = {}
  <2>1. NextStatement(q, i) = [q EXCEPT !.cur = NoStmt, !.ended = TRUE]
    BY <1>2 DEF NextStatement
  <2> QED BY <2>1 DEF MultiQueryRecord
<1>3. CASE K # {}
  <2>1. j \in K
    <3>1. K \in SUBSET Nat
      BY <1>1
    <3> HIDE DEF K
    <3> QED BY <1>3, <3>1, LeastNat
  <2>2. j \in Stmts /\ text[j] \in QueryStatement /\ text[j].kind # "immediate"
    BY <1>1, <2>1, Element
  <2>3. text[j].kind \in {"select", "assign", "bad"}
    BY <2>2 DEF QueryStatement
  <2>4. CASE text[j].kind = "bad"
    <3>1. NextStatement(q, i) = [q EXCEPT !.cur = NoStmt, !.ended = (j = Len(text))]
      BY <1>3, <2>4 DEF NextStatement
    <3> HIDE DEF j
    <3> QED BY <3>1 DEF MultiQueryRecord
  <2>5. CASE text[j].kind # "bad"
    <3>1. NextStatement(q, i) = [q EXCEPT !.cur = j, !.ended = (j = Len(text))]
      BY <1>3, <2>5 DEF NextStatement
    <3> HIDE DEF j
    <3>2. k = j
      BY <3>1 DEF MultiQueryRecord
    <3> QED BY <2>3, <2>5, <3>2
  <2> QED BY <2>4, <2>5
<1> QED BY <1>2, <1>3

\* The statement k, if it is one, begins where the current one has ended.
GoesOnTo(k) ==
  /\ k \in Stmts \cup {NoStmt} /\ k # Cur /\ Cur' = k /\ qy'.open = qy.open
  /\ k \in Stmts => /\ stmt[k] = NewStmt /\ stmt'[k] = Begun
                    /\ text[k].kind \in {"select", "assign"}
  /\ \A i \in Stmts : i # k => stmt'[i].started = stmt[i].started
  /\ pc' \in {"idle", "next"}

LEMMA StatementEnds ==
  ASSUME IInv, pc # "idle", NEW s, NEW o, NEW l, Works(s, o, l), EndOfStatement(s, o, l)
  PROVE  GoesOnTo(NextStatement(qy, Cur).cur)
<1> DEFINE f == FinishStatement(s, o, l)
           t == f.stmt
           m == f.links
           d == Dropped(t)
           q == NextStatement(qy, Cur)
           k == q.cur
<1>1. /\ Cur \in Stmts /\ Cur # NoStmt /\ qy.open /\ S \in Tree /\ S.links > 0 /\ S.alive = TRUE
      /\ ObjsOf(Cur) \subseteq Objs /\ None \notin Objs
  BY AtWork
<1>3. Types /\ stmt \in [Stmts -> Tree] /\ text \in Seq(QueryStatement)
      /\ qy \in MultiQueryRecord
  BY DEF IInv, Types, MultiQueryRecord
<1>4. /\ t \in Tree /\ t.finished /\ t.links = s.links /\ t.alive = s.alive /\ t.started = 1
  <2>1. /\ ObjsOf(Cur) \in SUBSET Objs /\ None \notin Objs /\ Started(s, ObjsOf(Cur))
        /\ o \in Objs \cup {None} /\ l \in [Objs -> Int]
    BY <1>1 DEF Works, Started
  <2>2. f.stmt \in Tree /\ Started(f.stmt, ObjsOf(Cur)) /\ f.stmt.finished
    BY ONLY <2>1, FinishStatementIs DEF f
  <2>3. Keeps(s, f.stmt)
    BY ONLY <2>1, FinishStatementIs DEF f
  <2> QED BY <2>2, <2>3 DEF Keeps, Started
<1>5. CloseStatement(t, f.objlist, f.links) = [stmt |-> d, objlist |-> f.objlist, links |-> m]
  <2>1. t.links > 0 /\ t.alive = TRUE
    BY <1>1, <1>4 DEF Works
  <2>2. (t.links > 0) = TRUE
    BY <2>1
  <2> HIDE DEF t, d
  <2>3. CloseStatement(t, f.objlist, f.links)
          = [stmt |-> Dropped(t), objlist |-> f.objlist, links |-> f.links]
    BY <1>4, <2>1, <2>2, CloseStatementIs
  <2> QED BY <2>3 DEF d
<1>6. d \in Tree /\ d.started = 1
  <2> HIDE DEF t
  <2> QED BY <1>4, TreeDropped
<1>7. /\ q.open = qy.open
      /\ k = NoStmt \/ (k \in Stmts /\ k > Cur)
  BY <1>1, <1>3, ObjsFacts, NextStatementIs DEF MultiQueryRecord
<1>k. k # NoStmt => text[k].kind \in {"select", "assign"}
  BY <1>1, <1>3, ObjsFacts, NextKind
<1>8. /\ qy' = q /\ stmt' = StartedStmt([stmt EXCEPT ![Cur] = d], k)
      /\ pc' = IF k = NoStmt THEN "idle" ELSE "next"
  BY <1>5 DEF EndOfStatement
<1> HIDE DEF f, t, m, d, q, k
<1>11. \A i \in Stmts : stmt'[i] = IF i = k THEN Begun ELSE IF i = Cur THEN d ELSE stmt[i]
  <2> DEFINE st == [stmt EXCEPT ![Cur] = d]
  <2>1. st \in [Stmts -> Tree] /\ st[Cur] = d /\ \A i \in Stmts : i # Cur => st[i] = stmt[i]
    BY <1>1, <1>3, <1>6
  <2> HIDE DEF st
  <2>2. stmt' = StartedStmt(st, k)
    BY <1>8 DEF st
  <2> QED BY <1>3, <1>7, <2>1, <2>2, NextStmtIs
<1>12. /\ k \in Stmts \cup {NoStmt} /\ k # Cur /\ Cur' = k /\ qy'.open = qy.open
       /\ k \in Stmts => k # NoStmt /\ stmt[k] = NewStmt
  <2>1. Cur' = k /\ qy'.open = qy.open
    BY <1>7, <1>8 DEF Cur, k
  <2>2. k \in Stmts \cup {NoStmt}
    BY <1>7
  <2>3. k # Cur
    BY <1>1, <1>3, <1>7, ObjsFacts
  <2>5. k \in Stmts => k # NoStmt
    BY <1>3, ObjsFacts DEF NoStmt
  <2>6. k \in Stmts => k > Cur
    BY <1>7, <2>5
  <2>7. k \in Stmts => stmt[k] = NewStmt
    BY <1>1, <2>6 DEF IInv, Current
  <2> QED BY <2>1, <2>2, <2>3, <2>5, <2>7
<1>13. k \in Stmts => stmt'[k] = Begun
  BY <1>11
<1>14. \A i \in Stmts : i # k => stmt'[i].started = stmt[i].started
  <2>1. stmt[Cur].started = 1
    BY <1>1 DEF IInv, Current, S
  <2> QED BY <1>6, <1>11, <2>1
<1>15. pc' \in {"idle", "next"}
  BY <1>8
<1>16. GoesOnTo(k)
  BY <1>k, <1>12, <1>13, <1>14, <1>15 DEF GoesOnTo
<1> QED BY <1>16 DEF k, q

\* All rows of the statement have been returned.
LEMMA EndRows ==
  ASSUME IInv, RowsInv, pc # "idle", NEW s, NEW o, NEW l, Works(s, o, l),
         EndOfStatement(s, o, l), text' = text, out' = out,
         T.error = "no" /\ T.kind = "select" => out[Cur] = Expected(Cur, T)
  PROVE  RowsInv'
<1>1. PICK k : k = NextStatement(qy, Cur).cur
  OBVIOUS
<1>2. GoesOnTo(k)
  BY <1>1, StatementEnds
<1>3. /\ k \in Stmts \cup {NoStmt} /\ k # Cur /\ Cur' = k /\ qy'.open = qy.open
      /\ (k \in Stmts => /\ stmt[k] = NewStmt /\ stmt'[k] = Begun
                         /\ text[k].kind \in {"select", "assign"})
      /\ (\A i \in Stmts : i # k => stmt'[i].started = stmt[i].started)
      /\ pc' \in {"idle", "next"}
  BY <1>2 DEF GoesOnTo
<1>4. /\ Cur \in Stmts /\ Cur \in Nat /\ T = text[Cur] /\ T \in QueryStatement
      /\ out \in [Stmts -> Seq(Shows)] /\ (T.kind # "select" => out[Cur] = <<>>)
  BY Working
<1>5. T.error = "no" => out[Cur] = Expected(Cur, T)
  BY <1>4, NoneExpected
<1>6. text \in Seq(QueryStatement) /\ Stmts' = Stmts
  BY SameText DEF IInv, Types
<1>7. PICK p, at : p = objlist' /\ at = pc'
  OBVIOUS
<1>8. ASSUME NEW i \in Stmts
      PROVE  RowsFine(i, text[i], stmt'[i], out[i], k, qy.open, p, at)
  <2>1. RowsFine(i, text[i], stmt[i], out[i], Cur, qy.open, objlist, pc)
    BY DEF RowsInv
  <2>2. CASE i = k
    <3>1. i \in Nat /\ text[i] \in QueryStatement
      <4>1. i \in 1..Len(text)
        BY <1>6, ObjsFacts
      <4> QED BY <1>6, <4>1, Element
    <3>2. PICK t, u : t = text[i] /\ u = stmt'[i]
      OBVIOUS
    <3>3. out[i] = <<>> /\ t.kind \in {"select", "assign"} /\ u = Begun
      <4>1. stmt[i] = NewStmt
        BY <1>3, <2>2
      <4> QED BY <1>3, <2>1, <2>2, <3>2, <4>1, NewStmtIs DEF RowsFine
    <3>4. Scan(i, t, Begun, p, <<>>, at) /\ <<>> \in Seq(Shows)
      BY <1>3, <1>7, <3>1, <3>2, ScanBegins
    <3>5. u.started = 1 /\ Scan(i, t, u, p, out[i], at) /\ out[i] \in Seq(Shows)
      BY <3>3, <3>4, BegunIs
    <3>6. i \in Nat /\ t \in QueryStatement /\ (t.kind # "select" => out[i] = <<>>)
      BY <3>1, <3>2, <3>3
    <3>7. RowsFine(i, t, u, out[i], i, qy.open, p, at)
      <4>1. PICK r : r = out[i]
        OBVIOUS
      <4>2. /\ i \in Nat /\ t \in QueryStatement /\ t.kind \in {"select", "assign"} /\ u.started = 1
            /\ r \in Seq(Shows) /\ (t.kind # "select" => r = <<>>)
            /\ (t.error = "no" /\ t.kind = "select" => Scan(i, t, u, p, r, at))
        BY <3>3, <3>5, <3>6, <4>1
      <4>3. RowsFine(i, t, u, r, i, qy.open, p, at)
        BY ONLY <4>2, RunsFine
      <4> QED BY <4>1, <4>3
    <3> QED BY <2>2, <3>2, <3>7
  <2>3. CASE i # k
    <3>1. PICK u : u = stmt'[i]
      OBVIOUS
    <3>2. u.started = stmt[i].started
      BY <1>3, <2>3, <3>1
    <3>3. Cur = i /\ text[i].error = "no" => out[i] = Expected(i, text[i])
      BY <1>4, <1>5
    <3>4. RowsFine(i, text[i], u, out[i], k, qy.open, p, at)
      BY <2>1, <2>3, <3>2, <3>3, StillFine
    <3> QED BY <3>1, <3>4
  <2> QED BY <2>2, <2>3
<1>9. out' = out /\ text' = text
  OBVIOUS
<1> QED BY <1>3, <1>4, <1>6, <1>7, <1>8, <1>9 DEF RowsInv

-----------------------------------------------------------------------------
(***************************************************************************)
(* A fetch begins, and reads rows up to the first of a group.              *)
(***************************************************************************)
LEMMA FetchRows == ASSUME IInv, RowsInv, Fetch PROVE RowsInv'
<1>1. /\ pc = "idle" /\ pc' = "next" /\ qy.open /\ Cur' = Cur /\ qy'.open = qy.open
      /\ text' = text /\ stmt' = stmt /\ objlist' = objlist /\ out' = out
  BY DEF Fetch, Cur
<1>2. Stmts' = Stmts
  BY <1>1, SameText
<1>3. ASSUME NEW i \in Stmts
      PROVE  RowsFine(i, text[i], stmt[i], out[i], Cur, qy.open, objlist, "next")
  <2>1. RowsFine(i, text[i], stmt[i], out[i], Cur, qy.open, objlist, "idle")
    BY <1>1 DEF RowsInv
  <2>2. PICK t, s, o : t = text[i] /\ s = stmt[i] /\ o = out[i]
    OBVIOUS
  <2>3. Scan(i, t, s, objlist, o, "idle") => Scan(i, t, s, objlist, o, "next")
    BY DEF Scan, Stands
  <2> QED BY <2>1, <2>2, <2>3 DEF RowsFine
<1>4. out \in [Stmts -> Seq(Shows)]
  BY DEF RowsInv
<1> QED BY <1>1, <1>2, <1>3, <1>4 DEF RowsInv

\* The rows of the statement are all that are expected.
LEMMA ScanEnds ==
  ASSUME NEW t \in QueryStatement, NEW i \in Nat, t.kind = "select", NEW s, NEW p,
         NEW o \in Seq(Shows), NEW at, Scan(i, t, s, p, o, at), s.user >= t.cnt
  PROVE  o = Expected(i, t)
<1>1. PICK c \in 0..Len(Groups(i, t)) : Given(i, t, s, o, c)
  BY DEF Scan
<1> QED BY <1>1, GivenExpected

LEMMA LimitReachedRows == ASSUME IInv, RowsInv, LimitReached PROVE RowsInv'
<1>1. /\ pc = "next" /\ S.user >= T.cnt /\ EndOfStatement(S, objlist, links)
      /\ text' = text /\ out' = out
  BY DEF LimitReached, At
<1>2. Works(S, objlist, links)
  BY <1>1, AtWork
<1>3. T.error = "no" /\ T.kind = "select" => out[Cur] = Expected(Cur, T)
  <2>1. PICK i, t, s, o : i = Cur /\ t = T /\ s = S /\ o = out[Cur]
    OBVIOUS
  <2>2. /\ i \in Nat /\ t \in QueryStatement /\ o \in Seq(Shows) /\ s.user >= t.cnt
        /\ (t.error = "no" /\ t.kind = "select" => Scan(i, t, s, objlist, o, pc))
    BY <1>1, <2>1, Working
  <2>3. t.error = "no" /\ t.kind = "select" => o = Expected(i, t)
    BY ONLY <2>2, ScanEnds
  <2> QED BY <2>1, <2>3
<1> QED BY <1>1, <1>2, <1>3, EndRows

LEMMA PosBegunIs ==
  ASSUME NEW s \in Tree, NEW n \in Nat
  PROVE  LET t == [s EXCEPT !.pos = n, !.begun = TRUE] IN
         /\ t.pos = n /\ Counts(s, t) /\ t.agg = s.agg /\ t.agg2 = s.agg2
BY DEF Tree, Counts

\* The next row of a plain statement, if there is one.
LEMMA PlainNext ==
  ASSUME T \in QueryStatement, Cur \in Nat, NEW s, NEW p, NEW l, NEW o \in Seq(Shows),
         T.error = "no", T.kind = "select", Plain(T), s.user < T.cnt, s.user \in Int,
         Scan(Cur, T, s, p, o, "next"),
         NEW c, c = ChildItem(s, p, l),
         NEW u, u.pos = c.pos, Counts(s, u), u.agg = s.agg, u.agg2 = s.agg2
  PROVE  /\ c.rval = 0 => o = Expected(Cur, T)
         /\ c.rval # 0 => c.rval = 1 /\ Scan(Cur, T, u, c.row, o, "row")
<1>1. PICK k \in 0..Len(Groups(Cur, T)) :
        Given(Cur, T, s, o, k) /\ Stands(Cur, T, s, p, "next", k)
  BY DEF Scan
<1>2. /\ k \in 0..Len(Kept(T)) /\ s.pos = AtRow(T, k)
      /\ k = Len(Kept(T)) => k = Len(Groups(Cur, T))
  BY <1>1, PlainEnds
<1>3. /\ k = Len(Kept(T)) => c.rval = 0
      /\ k # Len(Kept(T)) => c.rval = 1 /\ c.row = <<Cur, Kept(T)[k + 1]>>
                             /\ c.pos = Kept(T)[k + 1]
  BY <1>2, SourceNext
<1>4. CASE k = Len(Kept(T))
  BY <1>1, <1>2, <1>3, <1>4, GivenExpected
<1>5. CASE k # Len(Kept(T))
  <2>1. PICK i, t, q : i = Cur /\ t = T /\ q = c.row
    OBVIOUS
  <2>2. Scan(i, t, u, q, o, "row")
    BY <1>1, <1>3, <1>5, <2>1, PlainRow
  <2> QED BY <1>3, <1>5, <2>1, <2>2
<1> QED BY <1>4, <1>5

LEMMA NextPlainRows == ASSUME IInv, RowsInv, NextPlain PROVE RowsInv'
<1> DEFINE c == ChildItem(S, objlist, links)
           n == c.pos
           u == [S EXCEPT !.pos = n]
           t == [u EXCEPT !.begun = TRUE]
<1>1. /\ pc = "next" /\ text' = text /\ out' = out /\ S.user < T.cnt /\ ~Grouped
      /\ IF c.rval = 0 THEN EndOfStatement(t, None, c.links)
         ELSE /\ stmt' = [stmt EXCEPT ![Cur] = t] /\ objlist' = c.row
              /\ pc' = (IF c.rval = 1 THEN "row" ELSE "idle") /\ qy' = qy
  BY DEF NextPlain, At, Set
<1>2. c.rval \in {-1, 0, 1} /\ n \in Nat /\ (c.rval # 1 => c.row = None)
      /\ Works(S, c.row, c.links) /\ S \in Tree
  BY <1>1, Source, AtWork
<1>c. PICK d : d = c
  OBVIOUS
<1> HIDE DEF c, n
<1>3. u \in Tree /\ Alike(S, u)
  BY <1>2, TreePos
<1>a. t.pos = n /\ Counts(S, t) /\ t.agg = S.agg /\ t.agg2 = S.agg2
  BY <1>2, PosBegunIs
<1> HIDE DEF u
<1>4. t \in Tree /\ Alike(u, t)
  BY <1>3, TreeBegun
<1> HIDE DEF t
<1>5. Works(t, c.row, c.links) /\ t.started = 1
  <2>1. Works(t, c.row, c.links)
    BY <1>2, <1>3, <1>4, AlikeAlike, WorksAlike
  <2> QED BY <2>1 DEF Works
<1>6. ASSUME T.error = "no", T.kind = "select"
      PROVE  /\ d.rval = 0 => out[Cur] = Expected(Cur, T)
             /\ d.rval # 0 => d.rval = 1 /\ Scan(Cur, T, t, d.row, out[Cur], "row")
  <2>1. PICK s, o : s = S /\ o = out[Cur]
    OBVIOUS
  <2>2. /\ Plain(T) /\ s.user < T.cnt /\ s.user \in Int
        /\ d = ChildItem(s, objlist, links) /\ t.pos = d.pos
        /\ Counts(s, t) /\ t.agg = s.agg /\ t.agg2 = s.agg2
    <3>1. ~T.by /\ ~(T.level > 0) /\ T.level \in 0..2 /\ S.user \in Int
      BY <1>1, <1>2, Working DEF Grouped, QueryStatement, Tree
    <3>2. Plain(T)
      BY <3>1 DEF Plain
    <3> QED BY <1>1, <1>c, <1>a, <2>1, <3>1, <3>2 DEF c, n
  <2>3. T \in QueryStatement /\ Cur \in Nat /\ o \in Seq(Shows) /\ Scan(Cur, T, s, objlist, o, "next")
    BY <1>1, <1>6, <2>1, Working
  <2>4. /\ d.rval = 0 => o = Expected(Cur, T)
        /\ d.rval # 0 => d.rval = 1 /\ Scan(Cur, T, t, d.row, o, "row")
    BY <1>6, <2>2, <2>3, PlainNext
  <2> QED BY <2>1, <2>4
<1>7. CASE c.rval = 0
  <2>1. Works(t, None, c.links) /\ EndOfStatement(t, None, c.links)
    BY <1>1, <1>2, <1>5, <1>7
  <2>2. PICK m : m = c.links
    OBVIOUS
  <2>3. T.error = "no" /\ T.kind = "select" => out[Cur] = Expected(Cur, T)
    BY <1>c, <1>6, <1>7
  <2> QED BY <1>1, <2>1, <2>2, <2>3, EndRows
<1>8. CASE c.rval # 0
  <2>1. /\ stmt' = [stmt EXCEPT ![Cur] = t] /\ objlist' = d.row /\ qy' = qy /\ Cur' = Cur
        /\ (d.rval = 1 => pc' = "row")
    BY <1>1, <1>c, <1>8 DEF Cur
  <2>2. T.error = "no" /\ T.kind = "select" => Scan(Cur, T, t, objlist', out[Cur], pc')
    BY <1>c, <1>6, <1>8, <2>1
  <2> QED BY <1>1, <1>5, <2>1, <2>2, RowsStay
<1> QED BY <1>7, <1>8

\* What a group begins with.
LEMMA EnteredIs ==
  ASSUME NEW s \in Tree, NEW o, NEW l
  PROVE  LET e == GroupEntered(s, o, l)
             u == e.stmt
         IN /\ u.begun /\ u.agg = <<>> /\ u.agg2 = s.agg2 /\ u.pos = s.pos /\ u.last = s.last
            /\ u.key = s.key /\ Counts(s, u)
            /\ ~(s.saving /\ s.begun) => u.saving = s.saving /\ e.objlist = o
            /\ s.saving /\ s.begun => ~u.saving /\ e.objlist = s.saved
<1> DEFINE a == <<>>
           z == None
           t == [s EXCEPT !.begun = TRUE, !.agg = a]
           w == [t EXCEPT !.saved = z, !.saving = FALSE]
           e == GroupEntered(s, o, l)
<1>1. e = IF s.saving /\ s.begun THEN [stmt |-> w, objlist |-> s.saved, links |-> Closed(l, o)]
          ELSE [stmt |-> t, objlist |-> o, links |-> l]
  BY DEF GroupEntered
<1>2. a = <<>> /\ a \in Seq(ObjRef) /\ z \in ObjRef
  BY DEF ObjRef
<1> HIDE DEF a, z, e
<1>3. /\ t \in Tree /\ t.begun /\ t.agg = a /\ t.agg2 = s.agg2 /\ t.pos = s.pos /\ t.last = s.last
      /\ t.key = s.key /\ Counts(s, t) /\ t.saving = s.saving
  BY <1>2 DEF Tree, Counts
<1> HIDE DEF t
<1>4. /\ w.begun = t.begun /\ w.agg = t.agg /\ w.agg2 = t.agg2 /\ w.pos = t.pos /\ w.last = t.last
      /\ w.key = t.key /\ Counts(t, w) /\ ~w.saving
  BY <1>2, <1>3 DEF Tree, Counts
<1>5. Counts(s, w)
  BY <1>3, <1>4 DEF Counts
<1> HIDE DEF w
<1>6. CASE s.saving /\ s.begun
  <2>1. e.stmt = w /\ e.objlist = s.saved
    BY <1>1, <1>6
  <2> QED BY <1>2, <1>3, <1>4, <1>5, <1>6, <2>1 DEF e
<1>7. CASE ~(s.saving /\ s.begun)
  <2>1. e.stmt = t /\ e.objlist = o
    BY <1>1, <1>7
  <2> QED BY <1>2, <1>3, <1>7, <2>1 DEF e
<1> QED BY <1>6, <1>7

LEMMA EnteredWorks ==
  ASSUME IInv, pc # "idle"
  PROVE  LET e == GroupEntered(S, objlist, links) IN Works(e.stmt, e.objlist, e.links)
<1> DEFINE e == GroupEntered(S, objlist, links)
           a == <<>>
           u == [S EXCEPT !.begun = TRUE]
           v == [u EXCEPT !.agg = a]
           z == None
           b == FALSE
           w == Saves(v, z, b)
           m == Closed(links, objlist)
<1>2. e = IF S.saving /\ S.begun THEN [stmt |-> w, objlist |-> S.saved, links |-> m]
          ELSE [stmt |-> v, objlist |-> objlist, links |-> links]
  BY DEF GroupEntered, Saves
<1>3. Works(S, objlist, links) /\ S \in Tree /\ ObjsOf(Cur) \subseteq Objs /\ None \notin Objs
      /\ links \in [Objs -> Int] /\ objlist \in Objs \cup {None}
  BY AtWork DEF IInv, Types
<1>4. a \in Seq(ObjRef) /\ z \in ObjRef /\ b \in BOOLEAN /\ z = None /\ b = FALSE
  BY DEF ObjRef
<1>5. m \in [Objs -> Int] /\ \A x \in Objs : m[x] = links[x] - B(objlist, x)
  BY <1>3, LinkedIs
<1> HIDE DEF e, a, z, b, m
<1>6. u \in Tree /\ Alike(S, u)
  BY <1>3, TreeBegun
<1> HIDE DEF u
<1>7. v \in Tree /\ Alike(u, v)
  BY <1>4, <1>6, TreeAgg
<1> HIDE DEF v
<1>8. Works(v, objlist, links)
  BY <1>3, <1>6, <1>7, AlikeAlike, WorksAlike
<1>9. /\ w \in Tree /\ w.saved = z /\ w.saving = b /\ w.begun = v.begun
      /\ w.started = v.started /\ w.finished = v.finished /\ w.finishes = v.finishes
      /\ w.links = v.links /\ w.alive = v.alive
  BY <1>4, <1>7, TreeSaves
<1> HIDE DEF w
<1>10. Works(w, S.saved, m)
  <2>1. Same(Objs, S, objlist, links, w, S.saved, m)
    <3>1. \A x \in Objs : B(w.saved, x) = 0
      BY <1>3, <1>4, <1>9 DEF B
    <3>2. \A x, y : B(x, y) \in Int
      BY DEF B
    <3> QED BY <1>3, <1>5, <3>1, <3>2 DEF Same
  <2> QED BY <1>3, <1>4, <1>5, <1>8, <1>9, <2>1 DEF Works
<1>11. CASE S.saving /\ S.begun
  BY <1>2, <1>10, <1>11 DEF e
<1>12. CASE ~(S.saving /\ S.begun)
  BY <1>2, <1>8, <1>12 DEF e
<1> QED BY <1>11, <1>12

\* The next group, if there is one.
LEMMA GroupNext ==
  ASSUME NEW t \in QueryStatement, NEW i \in Nat, NEW s \in Tree, NEW p, NEW l,
         NEW o \in Seq(Shows), t.kind = "select", ~Plain(t), s.user < t.cnt,
         Scan(i, t, s, p, o, "next"), NEW e, e = GroupEntered(s, p, l)
  PROVE  /\ s.last => o = Expected(i, t)
         /\ ~s.last /\ ~s.begun => Scan(i, t, e.stmt, e.objlist, o, "prime")
         /\ ~s.last /\ s.begun => Scan(i, t, e.stmt, e.objlist, o, "group")
<1>1. PICK c \in 0..Len(Groups(i, t)) : Given(i, t, s, o, c) /\ Stands(i, t, s, p, "next", c)
  BY DEF Scan
<1>2. PICK u, q : u = e.stmt /\ q = e.objlist
  OBVIOUS
<1>3. /\ u.begun /\ u.agg = <<>> /\ u.agg2 = s.agg2 /\ u.pos = s.pos /\ u.last = s.last
      /\ u.key = s.key /\ Counts(s, u)
      /\ ~(s.saving /\ s.begun) => u.saving = s.saving /\ q = p
      /\ s.saving /\ s.begun => ~u.saving /\ q = s.saved
  BY <1>2, EnteredIs
<1>4. s.last => o = Expected(i, t)
  BY <1>1, GroupsEnd, GivenExpected
<1>5. ~s.last /\ ~s.begun => Scan(i, t, u, q, o, "prime")
  BY <1>1, <1>3, GroupBegins
<1>6. ASSUME ~s.last, s.begun PROVE Scan(i, t, u, q, o, "group")
  <2>1. ~u.saving
    BY <1>3, <1>6
  <2>2. Scan(i, t, u, s.saved, o, "group") /\ s.saving
    BY <1>1, <1>3, <1>6, <2>1, GroupGoesOn
  <2> QED BY <1>3, <1>6, <2>2
<1> QED BY <1>2, <1>4, <1>5, <1>6

LEMMA NextGroupRows == ASSUME IInv, RowsInv, NextGroup PROVE RowsInv'
<1> DEFINE e == GroupEntered(S, objlist, links)
<1>1. /\ pc = "next" /\ text' = text /\ out' = out /\ S.user < T.cnt /\ Grouped
      /\ IF S.last THEN EndOfStatement(e.stmt, e.objlist, e.links)
         ELSE /\ stmt' = [stmt EXCEPT ![Cur] = e.stmt] /\ objlist' = e.objlist
              /\ pc' = (IF ~S.begun THEN "prime" ELSE "group") /\ qy' = qy
  BY DEF NextGroup, At, Set
<1>2. Works(e.stmt, e.objlist, e.links) /\ e.stmt.started = 1
  <2>1. Works(e.stmt, e.objlist, e.links)
    BY <1>1, EnteredWorks
  <2> QED BY <2>1 DEF Works
<1>3. ASSUME T.error = "no", T.kind = "select"
      PROVE  /\ S.last => out[Cur] = Expected(Cur, T)
             /\ ~S.last /\ ~S.begun => Scan(Cur, T, e.stmt, e.objlist, out[Cur], "prime")
             /\ ~S.last /\ S.begun => Scan(Cur, T, e.stmt, e.objlist, out[Cur], "group")
  <2>1. PICK i, t, s, o, d : i = Cur /\ t = T /\ s = S /\ o = out[Cur] /\ d = e
    OBVIOUS
  <2>2. /\ t \in QueryStatement /\ i \in Nat /\ s \in Tree /\ o \in Seq(Shows) /\ t.kind = "select"
        /\ s.user < t.cnt /\ Scan(i, t, s, objlist, o, "next")
        /\ d = GroupEntered(s, objlist, links)
    BY <1>1, <1>3, <2>1, Working
  <2>3. ~Plain(t)
    BY <1>1, <2>1 DEF Grouped, Plain
  <2>4. /\ s.last => o = Expected(i, t)
        /\ ~s.last /\ ~s.begun => Scan(i, t, d.stmt, d.objlist, o, "prime")
        /\ ~s.last /\ s.begun => Scan(i, t, d.stmt, d.objlist, o, "group")
    BY ONLY <2>2, <2>3, GroupNext
  <2> QED BY <2>1, <2>4
<1> HIDE DEF e
<1>4. CASE S.last
  <2>1. EndOfStatement(e.stmt, e.objlist, e.links)
    BY <1>1, <1>4
  <2>2. T.error = "no" /\ T.kind = "select" => out[Cur] = Expected(Cur, T)
    BY <1>3, <1>4
  <2> QED BY <1>1, <1>2, <2>1, <2>2, EndRows
<1>5. CASE ~S.last
  <2>1. /\ stmt' = [stmt EXCEPT ![Cur] = e.stmt] /\ objlist' = e.objlist
        /\ pc' = (IF ~S.begun THEN "prime" ELSE "group") /\ qy' = qy /\ Cur' = Cur
    BY <1>1, <1>5 DEF Cur
  <2>2. T.error = "no" /\ T.kind = "select" => Scan(Cur, T, e.stmt, objlist', out[Cur], pc')
    BY <1>3, <1>5, <2>1
  <2> QED BY <1>1, <1>2, <2>1, <2>2, RowsStay
<1> QED BY <1>4, <1>5

\* The first row of the source, if it has one.
LEMMA PrimeNext ==
  ASSUME T \in QueryStatement, Cur \in Nat, NEW s, NEW p, NEW l, NEW o \in Seq(Shows),
         T.error = "no", T.kind = "select", Scan(Cur, T, s, p, o, "prime"),
         NEW c, c = ChildItem(s, p, l)
  PROVE  /\ c.rval = 0 /\ T.level = 0 => o = Expected(Cur, T)
         /\ c.rval # -1
         /\ c.rval = 0 => c.row = None
         /\ c.rval = 0 /\ T.level # 0 =>
              \A u : Counts(s, u) /\ u.agg = s.agg /\ u.agg2 = s.agg2 /\ u.last
                     /\ u.begun = s.begun => Scan(Cur, T, u, None, o, "row")
         /\ c.rval = 1 =>
              \A u : Counts(s, u) /\ u.agg = s.agg /\ u.agg2 = s.agg2 /\ u.saving = s.saving
                     /\ u.last = s.last /\ u.begun = s.begun /\ u.pos = c.pos
                     /\ u.key = KeyOf(c.row) => Scan(Cur, T, u, c.row, o, "group")
<1>1. PICK k \in 0..Len(Groups(Cur, T)) :
        Given(Cur, T, s, o, k) /\ Stands(Cur, T, s, p, "prime", k)
  BY DEF Scan
<1>2. s.pos = AtRow(T, 0) /\ 0 \in 0..Len(Kept(T)) /\ Len(Kept(T)) \in Nat
  BY <1>1, KeptNat DEF Stands, Fresh, AtRow
<1>3. /\ 0 = Len(Kept(T)) => c.rval = 0 /\ c.row = None
      /\ 0 # Len(Kept(T)) => c.rval = 1 /\ c.row = <<Cur, Kept(T)[0 + 1]>>
                             /\ c.pos = Kept(T)[0 + 1]
  BY <1>2, SourceNext
<1>4. PICK i, t, r : i = Cur /\ t = T /\ r = c.row
  OBVIOUS
<1>5. CASE Len(Kept(T)) = 0
  <2>1. /\ t.level = 0 => k = Len(Groups(i, t))
        /\ t.level # 0 =>
             \A u : Counts(s, u) /\ u.agg = s.agg /\ u.agg2 = s.agg2 /\ u.last
                    /\ u.begun = s.begun => Scan(i, t, u, None, o, "row")
    BY <1>1, <1>4, <1>5, NoFirstRow
  <2>2. t.level = 0 => o = Expected(i, t)
    BY <1>1, <1>4, <2>1, GivenExpected
  <2> QED BY <1>3, <1>4, <1>5, <2>1, <2>2
<1>6. CASE Len(Kept(T)) # 0
  <2>1. c.rval = 1 /\ r = <<i, Kept(t)[1]>> /\ c.pos = Kept(t)[1]
    BY <1>3, <1>4, <1>6
  <2>2. KeyOf(r) = KeyFor(t, Kept(t)[1])
    BY <1>4, <2>1, KeysAre
  <2>3. ASSUME NEW u, Counts(s, u), u.agg = s.agg, u.agg2 = s.agg2, u.saving = s.saving,
               u.last = s.last, u.begun = s.begun, u.pos = c.pos, u.key = KeyOf(r)
        PROVE  Scan(i, t, u, r, o, "group")
    <3>1. u.pos = Kept(t)[1] /\ u.key = KeyFor(t, Kept(t)[1])
      BY <2>1, <2>2, <2>3
    <3> QED BY <1>1, <1>4, <1>6, <2>1, <2>3, <3>1, FirstRow
  <2> QED BY <1>4, <2>1, <2>3
<1> QED BY <1>5, <1>6

LEMMA PosLastIs ==
  ASSUME NEW s \in Tree, NEW n \in Nat
  PROVE  LET t == [s EXCEPT !.pos = n]
             u == [t EXCEPT !.last = TRUE]
         IN /\ Counts(s, u) /\ u.agg = s.agg /\ u.agg2 = s.agg2 /\ u.last
            /\ u.begun = s.begun
BY DEF Tree, Counts

LEMMA PosKeyIs ==
  ASSUME NEW s \in Tree, NEW n \in Nat, NEW k \in Key
  PROVE  LET t == [s EXCEPT !.pos = n]
             u == [t EXCEPT !.key = k]
         IN /\ Counts(s, u) /\ u.agg = s.agg /\ u.agg2 = s.agg2 /\ u.saving = s.saving
            /\ u.last = s.last /\ u.begun = s.begun /\ u.pos = n /\ u.key = k
BY DEF Tree, Counts

LEMMA PrimeRows == ASSUME IInv, RowsInv, Prime PROVE RowsInv'
<1> DEFINE c == ChildItem(S, objlist, links)
           n == c.pos
           k == KeyOf(c.row)
           s == [S EXCEPT !.pos = n]
           u == [s EXCEPT !.last = TRUE]
           v == [s EXCEPT !.key = k]
           t == IF c.rval = 0 THEN u ELSE v
<1>1. /\ pc = "prime" /\ text' = text /\ out' = out
      /\ IF c.rval = 0 /\ T.level = 0 THEN EndOfStatement(s, None, c.links)
         ELSE /\ stmt' = [stmt EXCEPT ![Cur] = t] /\ objlist' = c.row
              /\ pc' = (IF c.rval = 0 THEN "row" ELSE "group") /\ qy' = qy
  BY DEF Prime, At, Set
<1>2. c.rval \in {-1, 0, 1} /\ n \in Nat /\ (c.rval # 1 => c.row = None) /\ k \in Key
      /\ Works(S, c.row, c.links) /\ S \in Tree
  BY <1>1, Source, AtWork
<1>c. PICK d : d = c
  OBVIOUS
<1>k. d.pos = n /\ KeyOf(d.row) = k /\ d.rval = c.rval /\ d.row = c.row
  BY <1>c
<1> HIDE DEF c, n, k
<1>u. Counts(S, u) /\ u.agg = S.agg /\ u.agg2 = S.agg2 /\ u.last /\ u.begun = S.begun
  BY <1>2, PosLastIs
<1>v. /\ Counts(S, v) /\ v.agg = S.agg /\ v.agg2 = S.agg2 /\ v.saving = S.saving
      /\ v.last = S.last /\ v.begun = S.begun /\ v.pos = n /\ v.key = k
  BY ZenonT(40), <1>2, PosKeyIs
<1>5. s \in Tree /\ Alike(S, s)
  BY <1>2, TreePos
<1> HIDE DEF s
<1>6. u \in Tree /\ Alike(s, u) /\ v \in Tree /\ Alike(s, v)
  BY <1>2, <1>5, TreeLast, TreeKey
<1> HIDE DEF u, v
<1>7. Works(s, c.row, c.links) /\ t.started = 1
  <2>1. Works(s, c.row, c.links)
    BY <1>2, <1>5, WorksAlike
  <2> QED BY <1>6, <2>1 DEF Works, Alike
<1>8. ASSUME T.error = "no", T.kind = "select"
      PROVE  /\ d.rval = 0 /\ T.level = 0 => out[Cur] = Expected(Cur, T)
             /\ d.rval = 0 /\ T.level # 0 => Scan(Cur, T, u, d.row, out[Cur], "row")
             /\ d.rval # 0 => Scan(Cur, T, v, d.row, out[Cur], "group")
  <2>1. PICK r, o : r = S /\ o = out[Cur]
    OBVIOUS
  <2>2. /\ T \in QueryStatement /\ Cur \in Nat /\ o \in Seq(Shows)
        /\ Scan(Cur, T, r, objlist, o, "prime") /\ d = ChildItem(r, objlist, links)
    BY <1>1, <1>c, <1>8, <2>1, Working DEF c
  <2>3. /\ d.rval = 0 /\ T.level = 0 => o = Expected(Cur, T)
        /\ d.rval # -1
        /\ d.rval = 0 => d.row = None
        /\ d.rval = 0 /\ T.level # 0 =>
             \A x : Counts(r, x) /\ x.agg = r.agg /\ x.agg2 = r.agg2 /\ x.last
                    /\ x.begun = r.begun => Scan(Cur, T, x, None, o, "row")
        /\ d.rval = 1 =>
             \A x : Counts(r, x) /\ x.agg = r.agg /\ x.agg2 = r.agg2 /\ x.saving = r.saving
                    /\ x.last = r.last /\ x.begun = r.begun /\ x.pos = d.pos
                    /\ x.key = KeyOf(d.row) => Scan(Cur, T, x, d.row, o, "group")
    BY <1>8, <2>2, PrimeNext
  <2>4. d.rval = 0 /\ T.level # 0 => Scan(Cur, T, u, d.row, o, "row")
    BY <1>u, <2>1, <2>3
  <2>5. d.rval = 1 => Scan(Cur, T, v, d.row, o, "group")
    BY <1>v, <1>k, <2>1, <2>3
  <2> QED BY <1>2, <1>c, <2>1, <2>3, <2>4, <2>5
<1>9. CASE c.rval = 0 /\ T.level = 0
  <2>1. Works(s, None, c.links) /\ EndOfStatement(s, None, c.links)
    BY <1>1, <1>2, <1>7, <1>9
  <2>2. PICK m : m = c.links
    OBVIOUS
  <2>3. T.error = "no" /\ T.kind = "select" => out[Cur] = Expected(Cur, T)
    BY <1>k, <1>8, <1>9
  <2> QED BY <1>1, <2>1, <2>2, <2>3, EndRows
<1>10. CASE ~(c.rval = 0 /\ T.level = 0)
  <2>1. /\ stmt' = [stmt EXCEPT ![Cur] = t] /\ objlist' = d.row /\ qy' = qy /\ Cur' = Cur
        /\ pc' = (IF d.rval = 0 THEN "row" ELSE "group")
        /\ t = (IF d.rval = 0 THEN u ELSE v)
    BY <1>1, <1>k, <1>10 DEF Cur
  <2>2. T.error = "no" /\ T.kind = "select" => Scan(Cur, T, t, objlist', out[Cur], pc')
    BY <1>k, <1>8, <1>10, <2>1
  <2> QED BY <1>1, <1>7, <2>1, <2>2, RowsStay
<1> QED BY <1>9, <1>10

-----------------------------------------------------------------------------
(***************************************************************************)
(* The rows of a group, and the row that is returned.                      *)
(***************************************************************************)
\* What turns of the group-by loop do to the statement.
Counted(s, p, n, r, b, k) ==
  LET a == [s EXCEPT !.agg = Append(@, p), !.saved = p, !.saving = TRUE]
      same == [a EXCEPT !.pos = n, !.saved = None, !.saving = FALSE]
      ends == [a EXCEPT !.pos = n, !.saved = r, !.last = b, !.key = k]
  IN /\ a.saved = p /\ a.key = s.key /\ [a EXCEPT !.pos = n].started = s.started
     /\ Counts(s, same) /\ same.agg = Append(s.agg, p) /\ same.agg2 = s.agg2
     /\ same.pos = n /\ ~same.saving /\ same.last = s.last /\ same.begun = s.begun
     /\ same.key = s.key /\ same.started = s.started
     /\ Counts(s, ends) /\ ends.agg = Append(s.agg, p) /\ ends.agg2 = s.agg2
     /\ ends.pos = n /\ ends.saving /\ ends.saved = r /\ ends.last = b /\ ends.key = k
     /\ ends.begun = s.begun /\ ends.started = s.started

LEMMA CountedIs ==
  ASSUME NEW s \in Tree, NEW p \in ObjRef, NEW n \in Nat, NEW r \in ObjRef, NEW b \in BOOLEAN,
         NEW k \in Key
  PROVE  Counted(s, p, n, r, b, k)
<1> DEFINE a == [s EXCEPT !.agg = Append(@, p), !.saved = p, !.saving = TRUE]
           z == None
           m == [a EXCEPT !.pos = n]
           same == [a EXCEPT !.pos = n, !.saved = z, !.saving = FALSE]
           ends == [a EXCEPT !.pos = n, !.saved = r, !.last = b, !.key = k]
<1>1. PICK g : g = Append(s.agg, p)
  OBVIOUS
<1>2. g \in Seq(ObjRef) /\ z \in ObjRef
  <2>1. s.agg \in Seq(ObjRef)
    BY DEF Tree
  <2> QED BY <1>1, <2>1 DEF ObjRef
<1> HIDE DEF z
<1>3. a = [s EXCEPT !.agg = g, !.saved = p, !.saving = TRUE]
  BY <1>1
<1>4. /\ a \in Tree /\ a.agg = g /\ a.saved = p /\ a.saving = TRUE /\ Counts(s, a)
      /\ a.agg2 = s.agg2 /\ a.last = s.last /\ a.begun = s.begun /\ a.key = s.key
      /\ a.started = s.started
  <2> HIDE DEF a
  <2> QED BY <1>2, <1>3 DEF Tree, Counts
<1> HIDE DEF a
<1>5. m \in Tree /\ m.started = a.started
  BY <1>4 DEF Tree
<1>6. /\ Counts(a, same) /\ same.agg = a.agg /\ same.agg2 = a.agg2
      /\ same.pos = n /\ ~same.saving /\ same.last = a.last /\ same.begun = a.begun
      /\ same.key = a.key /\ same.started = a.started
  BY <1>2, <1>4 DEF Tree, Counts
<1>7. /\ Counts(a, ends) /\ ends.agg = a.agg /\ ends.agg2 = a.agg2
      /\ ends.pos = n /\ ends.saving = a.saving /\ ends.saved = r /\ ends.key = k
      /\ ends.begun = a.begun /\ ends.started = a.started
  BY <1>2, <1>4 DEF Tree, Counts
<1>8. ends.last = b
  BY <1>2, <1>4 DEF Tree
<1> HIDE DEF m, same, ends
<1>9. Counts(s, same) /\ Counts(s, ends)
  BY <1>4, <1>6, <1>7 DEF Counts
<1> QED BY <1>1, <1>4, <1>5, <1>6, <1>7, <1>8, <1>9 DEF Counted, a, m, same, ends, z

\* The row counted is p, and c the next one: the run goes on or ends.
TurnsOn(s, p, c, u) ==
  /\ Counts(s, u) /\ u.agg = Append(s.agg, p) /\ u.agg2 = s.agg2 /\ u.pos = c.pos
  /\ ~u.saving /\ u.last = s.last /\ u.begun = s.begun /\ u.key = s.key

TurnsOff(s, p, c, u) ==
  /\ Counts(s, u) /\ u.agg = Append(s.agg, p) /\ u.agg2 = s.agg2 /\ u.begun = s.begun
  /\ u.pos = c.pos /\ u.saving /\ u.saved = c.row
  /\ u.last <=> c.rval = 0
  /\ c.rval # 0 => u.key = KeyOf(c.row)

LEMMA TurnNext ==
  ASSUME T \in QueryStatement, Cur \in Nat, NEW s, NEW p, NEW l, NEW o \in Seq(Shows),
         T.error = "no", T.kind = "select", Scan(Cur, T, s, p, o, "group"),
         NEW c, c = ChildItem(s, p, l)
  PROVE  /\ c.rval # -1
         /\ c.rval = 1 /\ KeyOf(c.row) = s.key =>
              \A u : TurnsOn(s, p, c, u) => Scan(Cur, T, u, c.row, o, "group")
         /\ ~(c.rval = 1 /\ KeyOf(c.row) = s.key) =>
              \A u : TurnsOff(s, p, c, u) =>
                       Scan(Cur, T, u, p, o, IF T.level = 2 THEN "regroup" ELSE "row")
<1>1. PICK k \in 0..Len(Groups(Cur, T)) :
        Given(Cur, T, s, o, k) /\ Stands(Cur, T, s, p, "group", k)
  BY DEF Scan
<1>2. PICK m \in 1..Len(Kept(T)) :
        InRun(Cur, T, s, p, m) /\ k = IF T.level = 2 THEN 0 ELSE Number(T, m) - 1
  BY <1>1 DEF Stands
<1>3. s.pos = AtRow(T, m) /\ m \in 0..Len(Kept(T))
  BY <1>2, KeptNat DEF InRun, AtRow
<1>4. /\ m = Len(Kept(T)) => c.rval = 0 /\ c.row = None
      /\ m # Len(Kept(T)) => c.rval = 1 /\ c.row = <<Cur, Kept(T)[m + 1]>>
                             /\ c.pos = Kept(T)[m + 1]
  BY <1>3, SourceNext
<1>5. PICK i, t, r : i = Cur /\ t = T /\ r = c.row
  OBVIOUS
<1>6. ASSUME m = Len(Kept(T))
      PROVE  /\ c.rval = 0
             /\ \A u : TurnsOff(s, p, c, u) =>
                         Scan(i, t, u, p, o, IF t.level = 2 THEN "regroup" ELSE "row")
  <2>1. c.rval = 0
    BY <1>4, <1>6
  <2>2. ASSUME NEW u, TurnsOff(s, p, c, u)
        PROVE  Scan(i, t, u, p, o, IF t.level = 2 THEN "regroup" ELSE "row")
    <3>1. Counts(s, u) /\ u.agg = Append(s.agg, p) /\ u.agg2 = s.agg2 /\ u.begun = s.begun /\ u.last
      BY <2>1, <2>2 DEF TurnsOff
    <3> QED BY <1>1, <1>2, <1>5, <1>6, <3>1, RunEnds
  <2> QED BY <2>1, <2>2
<1>7. ASSUME m # Len(Kept(T))
      PROVE  /\ c.rval = 1
             /\ KeyOf(r) = s.key => \A u : TurnsOn(s, p, c, u) => Scan(i, t, u, r, o, "group")
             /\ KeyOf(r) # s.key =>
                  \A u : TurnsOff(s, p, c, u) =>
                           Scan(i, t, u, p, o, IF t.level = 2 THEN "regroup" ELSE "row")
  <2>1. c.rval = 1 /\ r = <<i, Kept(t)[m + 1]>> /\ c.pos = Kept(t)[m + 1]
    BY <1>4, <1>5, <1>7
  <2>2. KeyOf(r) = KeyFor(t, Kept(t)[m + 1])
    BY <1>5, <2>1, KeysAre
  <2>3. ASSUME KeyOf(r) = s.key, NEW u, TurnsOn(s, p, c, u)
        PROVE  Scan(i, t, u, r, o, "group")
    <3>1. /\ Counts(s, u) /\ u.agg = Append(s.agg, p) /\ u.agg2 = s.agg2 /\ ~u.saving
          /\ u.last = s.last /\ u.begun = s.begun /\ u.key = s.key
          /\ u.pos = Kept(t)[m + 1] /\ KeyFor(t, Kept(t)[m + 1]) = s.key
      BY <2>1, <2>2, <2>3 DEF TurnsOn
    <3> QED BY <1>1, <1>2, <1>5, <1>7, <2>1, <3>1, RunGoesOn
  <2>4. ASSUME KeyOf(r) # s.key, NEW u, TurnsOff(s, p, c, u)
        PROVE  Scan(i, t, u, p, o, IF t.level = 2 THEN "regroup" ELSE "row")
    <3>1. /\ Counts(s, u) /\ u.agg = Append(s.agg, p) /\ u.agg2 = s.agg2 /\ u.begun = s.begun
          /\ ~u.last /\ u.saving /\ u.saved = <<i, Kept(t)[m + 1]>>
          /\ u.pos = Kept(t)[m + 1] /\ KeyFor(t, Kept(t)[m + 1]) # s.key
          /\ u.key = KeyFor(t, Kept(t)[m + 1])
      <4>1. c.rval # 0 /\ KeyOf(c.row) = KeyOf(r) /\ c.row = r
        BY <1>5, <2>1
      <4>2. /\ Counts(s, u) /\ u.agg = Append(s.agg, p) /\ u.agg2 = s.agg2 /\ u.begun = s.begun
            /\ u.pos = c.pos /\ u.saving /\ u.saved = r /\ ~u.last /\ u.key = KeyOf(r)
        BY <2>4, <4>1 DEF TurnsOff
      <4> QED BY <2>1, <2>2, <2>4, <4>2
    <3> QED BY <1>1, <1>2, <1>5, <1>7, <3>1, RunEnds
  <2> QED BY <2>1, <2>3, <2>4
<1> QED BY <1>5, <1>6, <1>7

LEMMA GroupRows == ASSUME IInv, RowsInv, Group PROVE RowsInv'
<1> DEFINE c == ChildItem(S, objlist, Linked(links, objlist))
           n == c.pos
           k == IF c.rval = 0 THEN S.key ELSE KeyOf(c.row)
           b == (c.rval = 0)
           z == c.row
           s == [S EXCEPT !.agg = Append(@, objlist), !.saved = objlist, !.saving = TRUE]
           t1 == [s EXCEPT !.pos = n]
           t2 == [s EXCEPT !.pos = n, !.saved = None, !.saving = FALSE]
           t3 == [s EXCEPT !.pos = n, !.saved = z, !.last = b, !.key = k]
           same == c.rval = 1 /\ KeyOf(c.row) = S.key
<1>0. pc = "group" /\ S \in Tree /\ objlist \in ObjRef /\ Types /\ Cur # NoStmt
      /\ objlist \in Objs \cup {None} /\ Linked(links, objlist) \in [Objs -> Int]
      /\ ObjsOf(Cur) \subseteq ObjRef
  <2>1. pc = "group"
    BY DEF Group, At
  <2>2. Types /\ objlist \in Objs \cup {None} /\ links \in [Objs -> Int]
    BY DEF IInv, Types
  <2>3. S \in Tree /\ None \notin Objs /\ Cur # NoStmt /\ ObjsOf(Cur) \subseteq Objs
    BY <2>1, AtWork
  <2>4. Objs \subseteq ObjRef
    BY <2>2, ObjsFacts DEF Types
  <2>5. objlist \in ObjRef
    BY <2>2, <2>4 DEF ObjRef
  <2> QED BY <2>1, <2>2, <2>3, <2>4, <2>5, LinkedIs
<1>2. /\ c.rval \in {-1, 0, 1} /\ n \in Nat /\ z \in ObjRef /\ k \in Key /\ b \in BOOLEAN
  <2>1. /\ c.rval \in {-1, 0, 1} /\ c.pos \in Nat /\ c.row \in ObjsOf(Cur) \cup {None}
        /\ KeyOf(c.row) \in Key
    BY <1>0, ChildItemIs
  <2> HIDE DEF c
  <2>2. c.row \in ObjRef
    BY <1>0, <2>1 DEF ObjRef
  <2>3. S.key \in Key
    BY <1>0 DEF Tree
  <2> QED BY <2>1, <2>2, <2>3
<1>1. /\ text' = text /\ out' = out /\ qy' = qy /\ Cur' = Cur
      /\ \/ c.rval = -1 /\ stmt' = [stmt EXCEPT ![Cur] = t1]
         \/ same /\ stmt' = [stmt EXCEPT ![Cur] = t2] /\ objlist' = z /\ pc' = "group"
         \/ /\ ~same /\ stmt' = [stmt EXCEPT ![Cur] = t3]
            /\ objlist' = s.saved /\ pc' = (IF T.level = 2 THEN "regroup" ELSE "row")
  <2>1. s.key = S.key
    BY <1>0 DEF Tree
  <2>3. t3 = [s EXCEPT !.pos = n, !.saved = z, !.last = b,
                       !.key = IF c.rval = 0 THEN @ ELSE KeyOf(c.row)]
    BY <2>1
  <2> HIDE DEF t2, t3, s
  <2> QED BY <1>0, <2>1, <2>3 DEF Group, At, Set, Cur, s, t2
<1>c. PICK d : d = c
  OBVIOUS
<1>k. /\ d.pos = n /\ k = (IF d.rval = 0 THEN S.key ELSE KeyOf(d.row)) /\ d.rval = c.rval
      /\ d.row = z /\ b = (d.rval = 0) /\ same = (d.rval = 1 /\ KeyOf(d.row) = S.key)
  BY <1>c
<1>l. PICK ll : ll = Linked(links, objlist)
  OBVIOUS
<1>d. d = ChildItem(S, objlist, ll)
  BY <1>c, <1>l
<1> HIDE DEF c, n, k, b, z
<1>3. /\ s.saved = objlist /\ t1.started = S.started
      /\ Counts(S, t2) /\ t2.agg = Append(S.agg, objlist) /\ t2.agg2 = S.agg2
      /\ t2.pos = n /\ ~t2.saving /\ t2.last = S.last /\ t2.begun = S.begun
      /\ t2.key = S.key /\ t2.started = S.started
      /\ Counts(S, t3) /\ t3.agg = Append(S.agg, objlist) /\ t3.agg2 = S.agg2
      /\ t3.pos = n /\ t3.saving /\ t3.saved = z /\ t3.last = b /\ t3.key = k
      /\ t3.begun = S.begun /\ t3.started = S.started
  <2>1. Counted(S, objlist, n, z, b, k)
    BY <1>0, <1>2, CountedIs
  <2> QED BY <2>1 DEF Counted
<1> HIDE DEF s, t1, t2, t3, same
<1>4. ASSUME T.error = "no", T.kind = "select"
      PROVE  /\ d.rval # -1
             /\ same => Scan(Cur, T, t2, z, out[Cur], "group")
             /\ ~same => Scan(Cur, T, t3, objlist, out[Cur],
                              IF T.level = 2 THEN "regroup" ELSE "row")
  <2>1. PICK r, o, p : r = S /\ o = out[Cur] /\ p = objlist
    OBVIOUS
  <2>2. /\ T \in QueryStatement /\ Cur \in Nat /\ o \in Seq(Shows)
        /\ Scan(Cur, T, r, p, o, "group") /\ d = ChildItem(r, p, ll)
    BY <1>0, <1>4, <1>d, <2>1, Working
  <2>3. /\ d.rval # -1
        /\ d.rval = 1 /\ KeyOf(d.row) = r.key =>
              \A u : TurnsOn(r, p, d, u) => Scan(Cur, T, u, d.row, o, "group")
        /\ ~(d.rval = 1 /\ KeyOf(d.row) = r.key) =>
              \A u : TurnsOff(r, p, d, u) =>
                       Scan(Cur, T, u, p, o, IF T.level = 2 THEN "regroup" ELSE "row")
    BY <1>4, <2>2, TurnNext
  <2>4. same => Scan(Cur, T, t2, d.row, o, "group")
    <3>1. TurnsOn(r, p, d, t2)
      BY <1>3, <1>k, <2>1 DEF TurnsOn
    <3> QED BY <1>k, <2>1, <2>3, <3>1
  <2>5. ~same => Scan(Cur, T, t3, p, o, IF T.level = 2 THEN "regroup" ELSE "row")
    <3>1. TurnsOff(r, p, d, t3)
      BY <1>3, <1>k, <2>1 DEF TurnsOff
    <3> QED BY <1>k, <2>1, <2>3, <3>1
  <2> QED BY <1>k, <2>1, <2>3, <2>4, <2>5
<1>5. pc # "idle" /\ S.started = 1 /\ qy'.open = qy.open /\ Cur' = Cur
  BY <1>0, <1>1, Working
<1>6. CASE c.rval = -1 /\ stmt' = [stmt EXCEPT ![Cur] = t1]
  <2>1. ~(T.error = "no" /\ T.kind = "select") /\ t1.started = 1
    BY <1>3, <1>4, <1>5, <1>6, <1>k
  <2> QED BY <1>1, <1>5, <1>6, <2>1, RowsStay
<1>7. CASE same /\ stmt' = [stmt EXCEPT ![Cur] = t2] /\ objlist' = z /\ pc' = "group"
  <2>1. T.error = "no" /\ T.kind = "select" => Scan(Cur, T, t2, objlist', out[Cur], pc')
    BY <1>4, <1>7
  <2>2. t2.started = 1
    BY <1>3, <1>5
  <2> QED BY <1>1, <1>5, <1>7, <2>1, <2>2, RowsStay
<1>8. CASE /\ ~same /\ stmt' = [stmt EXCEPT ![Cur] = t3]
           /\ objlist' = s.saved /\ pc' = (IF T.level = 2 THEN "regroup" ELSE "row")
  <2>1. T.error = "no" /\ T.kind = "select" => Scan(Cur, T, t3, objlist', out[Cur], pc')
    BY <1>3, <1>4, <1>8
  <2>2. t3.started = 1
    BY <1>3, <1>5
  <2> QED BY <1>1, <1>5, <1>8, <2>1, <2>2, RowsStay
<1> QED BY <1>1, <1>6, <1>7, <1>8

LEMMA RegroupedIs ==
  ASSUME NEW s \in Tree
  PROVE  LET a == [s EXCEPT !.agg2 = Append(@, s.agg)]
             b == [a EXCEPT !.saved = None, !.saving = FALSE, !.agg = <<>>]
         IN /\ Counts(s, a) /\ a.agg = s.agg /\ a.agg2 = Append(s.agg2, s.agg)
            /\ a.begun = s.begun /\ a.last = s.last /\ a.started = s.started
            /\ Counts(s, b) /\ b.agg = <<>> /\ b.agg2 = Append(s.agg2, s.agg)
            /\ b.begun = s.begun /\ b.last = s.last /\ b.pos = s.pos /\ b.key = s.key
            /\ ~b.saving /\ b.started = s.started
<1> DEFINE a == [s EXCEPT !.agg2 = Append(@, s.agg)]
           z == None
           y == <<>>
           b == [a EXCEPT !.saved = z, !.saving = FALSE, !.agg = y]
<1>1. PICK g : g = Append(s.agg2, s.agg)
  OBVIOUS
<1>2. g \in Seq(Seq(ObjRef)) /\ z \in ObjRef /\ y \in Seq(ObjRef)
  <2>1. s.agg2 \in Seq(Seq(ObjRef)) /\ s.agg \in Seq(ObjRef)
    BY DEF Tree
  <2> QED BY <1>1, <2>1 DEF ObjRef
<1>3. a = [s EXCEPT !.agg2 = g]
  BY <1>1
<1> HIDE DEF a, z, y
<1>4. /\ a \in Tree /\ Counts(s, a) /\ a.agg = s.agg /\ a.agg2 = g /\ a.key = s.key
      /\ a.begun = s.begun /\ a.last = s.last /\ a.started = s.started /\ a.pos = s.pos
  BY <1>2, <1>3 DEF Tree, Counts
<1>5. /\ Counts(a, b) /\ b.agg = y /\ b.agg2 = a.agg2 /\ b.begun = a.begun /\ b.last = a.last
      /\ b.pos = a.pos /\ b.key = a.key /\ ~b.saving /\ b.started = a.started
  BY <1>2, <1>4 DEF Tree, Counts
<1> HIDE DEF b
<1>6. Counts(s, b)
  BY <1>4, <1>5 DEF Counts
<1> QED BY <1>1, <1>4, <1>5, <1>6 DEF a, b, y, z

LEMMA RegroupNext ==
  ASSUME NEW t \in QueryStatement, NEW i \in Nat, NEW s, NEW p, NEW o \in Seq(Shows),
         Scan(i, t, s, p, o, "regroup")
  PROVE  /\ s.last =>
              \A u : Counts(s, u) /\ u.agg = s.agg /\ u.agg2 = Append(s.agg2, s.agg)
                     /\ u.begun = s.begun /\ u.last = s.last => Scan(i, t, u, p, o, "row")
         /\ ~s.last =>
              \A u : Counts(s, u) /\ u.agg = <<>> /\ u.agg2 = Append(s.agg2, s.agg)
                     /\ u.begun = s.begun /\ u.last = s.last /\ u.pos = s.pos /\ u.key = s.key
                     /\ ~u.saving => Scan(i, t, u, s.saved, o, "group")
<1>1. PICK c \in 0..Len(Groups(i, t)) : Given(i, t, s, o, c) /\ Stands(i, t, s, p, "regroup", c)
  BY DEF Scan
<1>2. CASE s.last
  BY <1>1, <1>2, AllRegrouped
<1>3. CASE ~s.last
  BY <1>1, <1>3, Regrouped
<1> QED BY <1>2, <1>3

LEMMA RegroupRows == ASSUME IInv, RowsInv, Regroup PROVE RowsInv'
<1> DEFINE a == [S EXCEPT !.agg2 = Append(@, S.agg)]
           b == [a EXCEPT !.saved = None, !.saving = FALSE, !.agg = <<>>]
<1>1. /\ pc = "regroup" /\ text' = text /\ qy' = qy /\ out' = out /\ Cur' = Cur
      /\ IF S.last THEN stmt' = [stmt EXCEPT ![Cur] = a] /\ pc' = "row" /\ objlist' = objlist
         ELSE stmt' = [stmt EXCEPT ![Cur] = b] /\ pc' = "group" /\ objlist' = S.saved
  BY DEF Regroup, At, Set, Cur
<1>2. S \in Tree /\ S.started = 1
  BY <1>1, Working
<1>3. /\ Counts(S, a) /\ a.agg = S.agg /\ a.agg2 = Append(S.agg2, S.agg)
      /\ a.begun = S.begun /\ a.last = S.last /\ a.started = S.started
      /\ Counts(S, b) /\ b.agg = <<>> /\ b.agg2 = Append(S.agg2, S.agg)
      /\ b.begun = S.begun /\ b.last = S.last /\ b.pos = S.pos /\ b.key = S.key
      /\ ~b.saving /\ b.started = S.started
  BY <1>2, RegroupedIs
<1> HIDE DEF a, b
<1>4. ASSUME T.error = "no", T.kind = "select"
      PROVE  /\ S.last => Scan(Cur, T, a, objlist, out[Cur], "row")
             /\ ~S.last => Scan(Cur, T, b, S.saved, out[Cur], "group")
  <2>1. PICK i, t, s, p, o : i = Cur /\ t = T /\ s = S /\ p = objlist /\ o = out[Cur]
    OBVIOUS
  <2>2. t \in QueryStatement /\ i \in Nat /\ o \in Seq(Shows) /\ Scan(i, t, s, p, o, "regroup")
    BY <1>1, <1>4, <2>1, Working
  <2>3. /\ s.last =>
             \A u : Counts(s, u) /\ u.agg = s.agg /\ u.agg2 = Append(s.agg2, s.agg)
                    /\ u.begun = s.begun /\ u.last = s.last => Scan(i, t, u, p, o, "row")
        /\ ~s.last =>
             \A u : Counts(s, u) /\ u.agg = <<>> /\ u.agg2 = Append(s.agg2, s.agg)
                    /\ u.begun = s.begun /\ u.last = s.last /\ u.pos = s.pos /\ u.key = s.key
                    /\ ~u.saving => Scan(i, t, u, s.saved, o, "group")
    BY ONLY <2>2, RegroupNext
  <2>4. s.last => Scan(i, t, a, p, o, "row")
    BY <1>3, <2>1, <2>3
  <2>5. ~s.last => Scan(i, t, b, s.saved, o, "group")
    BY <1>3, <2>1, <2>3
  <2> QED BY <2>1, <2>4, <2>5
<1>5. CASE S.last
  <2>1. T.error = "no" /\ T.kind = "select" => Scan(Cur, T, a, objlist', out[Cur], pc')
    BY <1>1, <1>4, <1>5
  <2> QED BY <1>1, <1>2, <1>3, <1>5, <2>1, RowsStay
<1>6. CASE ~S.last
  <2>1. T.error = "no" /\ T.kind = "select" => Scan(Cur, T, b, objlist', out[Cur], pc')
    BY <1>1, <1>4, <1>6
  <2> QED BY <1>1, <1>2, <1>3, <1>6, <2>1, RowsStay
<1> QED BY <1>5, <1>6

LEMMA RowIs ==
  ASSUME NEW s \in Tree
  PROVE  LET a == [s EXCEPT !.iter = @ + 1]
             b == [a EXCEPT !.user = @ + 1]
             c == [a EXCEPT !.links = @ + 1, !.user = @ + 1]
         IN /\ Kind(s, a) /\ a.iter = s.iter + 1 /\ a.user = s.user /\ a.started = s.started
            /\ b.started = s.started
            /\ Kind(s, c) /\ c.iter = s.iter + 1 /\ c.user = s.user + 1 /\ c.started = s.started
<1>1. PICK j, n, m : j = s.iter + 1 /\ n = s.user + 1 /\ m = s.links + 1
  OBVIOUS
<1>2. j \in Int /\ n \in Int /\ m \in Int
  BY <1>1 DEF Tree
<1> DEFINE a == [s EXCEPT !.iter = j]
           b == [a EXCEPT !.user = n]
           c == [a EXCEPT !.links = m, !.user = n]
<1>3. /\ a \in Tree /\ Kind(s, a) /\ a.iter = j /\ a.user = s.user /\ a.started = s.started
      /\ a.links = s.links
  BY <1>2 DEF Tree, Kind
<1>4. /\ [s EXCEPT !.iter = @ + 1] = a /\ [a EXCEPT !.user = @ + 1] = b
      /\ [a EXCEPT !.links = @ + 1, !.user = @ + 1] = c
  BY <1>1, <1>3
<1> HIDE DEF a
<1>5. b.started = a.started
  BY <1>2, <1>3 DEF Tree
<1>6. Kind(a, c) /\ c.iter = a.iter /\ c.user = n /\ c.started = a.started
  BY <1>2, <1>3 DEF Tree, Kind
<1> HIDE DEF b, c
<1>7. Kind(s, c)
  BY <1>3, <1>6 DEF Kind
<1> QED BY <1>1, <1>3, <1>4, <1>5, <1>6, <1>7

LEMMA RowNextIs ==
  ASSUME NEW t \in QueryStatement, NEW i \in Nat, NEW s, NEW p, NEW o \in Seq(Shows),
         Scan(i, t, s, p, o, "row"), NEW u, Kind(s, u)
  PROVE  /\ s.user < t.cnt
         /\ /\ Len(s.agg) >= t.having /\ u.iter = s.iter + 1 /\ u.user = s.user + 1
            /\ u.iter >= t.start
            => Scan(i, t, u, p, Append(o, Shown(s, p)), "idle")
         /\ /\ Len(s.agg) >= t.having /\ u.iter = s.iter + 1 /\ u.user = s.user
            /\ ~(u.iter >= t.start)
            => Scan(i, t, u, p, o, "next")
         /\ ~(Len(s.agg) >= t.having) /\ Counts(s, u) => Scan(i, t, u, p, o, "next")
<1>1. PICK c \in 0..Len(Groups(i, t)) : Given(i, t, s, o, c) /\ Stands(i, t, s, p, "row", c)
  BY DEF Scan
<1>2. s.user < t.cnt
  BY <1>1 DEF Stands
<1>3. /\ /\ Len(s.agg) >= t.having /\ u.iter = s.iter + 1 /\ u.user = s.user + 1
         /\ u.iter >= t.start
         => Scan(i, t, u, p, Append(o, Shown(s, p)), "idle")
      /\ /\ Len(s.agg) >= t.having /\ u.iter = s.iter + 1 /\ u.user = s.user
         /\ ~(u.iter >= t.start)
         => Scan(i, t, u, p, o, "next")
      /\ ~(Len(s.agg) >= t.having) /\ Counts(s, u) => Scan(i, t, u, p, o, "next")
  BY <1>1, RowMade
<1> QED BY <1>2, <1>3

LEMMA RowRows == ASSUME IInv, RowsInv, Row PROVE RowsInv'
<1> DEFINE a == [S EXCEPT !.iter = @ + 1]
           c == [a EXCEPT !.links = @ + 1, !.user = @ + 1]
           n == qy.links + 1
<1>1. /\ pc = "row" /\ Having(S) /\ Limit(a) /\ T.kind # "assign" /\ text' = text
      /\ objlist' = objlist /\ stmt' = [stmt EXCEPT ![Cur] = c]
      /\ out' = [out EXCEPT ![Cur] = Append(@, Shown(S, objlist))] /\ pc' = "idle"
      /\ qy' = [qy EXCEPT !.links = n]
  BY DEF Row, At, Set
<1>2. /\ S \in Tree /\ S.started = 1 /\ T.kind = "select" /\ out[Cur] \in Seq(Shows)
      /\ Cur \in Stmts /\ out \in [Stmts -> Seq(Shows)]
  BY <1>1, Working
<1>3. Cur' = Cur /\ qy'.open = qy.open
  <2>1. qy \in MultiQueryRecord
    BY DEF IInv, Types, MultiQueryRecord
  <2> HIDE DEF n
  <2> QED BY <1>1, <2>1 DEF MultiQueryRecord, Cur
<1>4. /\ a.iter = S.iter + 1 /\ a.user = S.user
      /\ Kind(S, c) /\ c.iter = S.iter + 1 /\ c.user = S.user + 1 /\ c.started = S.started
  BY <1>2, RowIs
<1> HIDE DEF a, c
<1>5. PICK r : r = Append(out[Cur], Shown(S, objlist))
  OBVIOUS
<1>6. out' = [out EXCEPT ![Cur] = r] /\ r \in Seq(Shows)
  <2>1. Shown(S, objlist) \in Shows
    <3>1. S.agg \in Seq(ObjRef) /\ S.agg2 \in Seq(Seq(ObjRef))
      BY <1>2 DEF Tree
    <3>2. objlist \in ObjRef
      <4>1. text \in Seq(QueryStatement) /\ objlist \in Objs \cup {None}
        BY DEF IInv, Types
      <4> QED BY <4>1, ObjsFacts DEF ObjRef
    <3> QED BY <3>1, <3>2, ShowsIs DEF Shown
  <2> QED BY <1>1, <1>2, <1>5, <2>1
<1>7. T.error = "no" /\ T.kind = "select" => Scan(Cur, T, c, objlist', r, pc')
  <2> SUFFICES ASSUME T.error = "no" PROVE Scan(Cur, T, c, objlist, r, "idle")
    BY <1>1
  <2>1. PICK i, t, s, p, o : i = Cur /\ t = T /\ s = S /\ p = objlist /\ o = out[Cur]
    OBVIOUS
  <2>2. /\ t \in QueryStatement /\ i \in Nat /\ o \in Seq(Shows) /\ Scan(i, t, s, p, o, "row")
        /\ Kind(s, c)
    BY <1>1, <1>2, <1>4, <2>1, Working
  <2>3. Len(s.agg) >= t.having /\ c.iter = s.iter + 1 /\ c.user = s.user + 1 /\ c.iter >= t.start
    BY <1>1, <1>4, <2>1 DEF Having, Limit
  <2>4. Scan(i, t, c, p, Append(o, Shown(s, p)), "idle")
    BY <2>2, <2>3, RowNextIs
  <2> QED BY <1>5, <2>1, <2>4
<1>8. c.started = 1 /\ pc # "idle" /\ (T.kind # "select" => r = <<>>)
  BY <1>1, <1>2, <1>4
<1> QED BY <1>1, <1>3, <1>6, <1>7, <1>8, RowsMove

LEMMA NoRowRows == ASSUME IInv, RowsInv, NoRow \/ AssignFails PROVE RowsInv'
<1> DEFINE a == [S EXCEPT !.iter = @ + 1]
           b == [a EXCEPT !.user = @ + 1]
<1>1. /\ pc = "row" /\ text' = text /\ qy' = qy /\ Cur' = Cur /\ objlist' = objlist /\ out' = out
      /\ \/ pc' = "next" /\ ~Having(S) /\ stmt' = stmt
         \/ pc' = "next" /\ Having(S) /\ ~Limit(a) /\ stmt' = [stmt EXCEPT ![Cur] = a]
         \/ T.kind = "assign" /\ stmt' = [stmt EXCEPT ![Cur] = b]
         \/ T.kind = "assign" /\ stmt' = [stmt EXCEPT ![Cur] = a]
  BY DEF NoRow, AssignFails, At, Set, Cur
<1>2. /\ S \in Tree /\ S.started = 1 /\ Cur \in Stmts /\ S = stmt[Cur] /\ qy'.open = qy.open
      /\ pc # "idle" /\ stmt \in [Stmts -> Tree]
  BY <1>1, Working DEF IInv, Types
<1>4. /\ Kind(S, a) /\ a.iter = S.iter + 1 /\ a.user = S.user /\ a.started = S.started
      /\ b.started = S.started
  BY <1>2, RowIs
<1> HIDE DEF a, b
<1>5. ASSUME T.error = "no", T.kind = "select"
      PROVE  /\ ~Having(S) => Scan(Cur, T, S, objlist, out[Cur], "next")
             /\ Having(S) /\ ~Limit(a) => Scan(Cur, T, a, objlist, out[Cur], "next")
  <2>1. PICK i, t, s, p, o : i = Cur /\ t = T /\ s = S /\ p = objlist /\ o = out[Cur]
    OBVIOUS
  <2>2. /\ t \in QueryStatement /\ i \in Nat /\ o \in Seq(Shows) /\ Scan(i, t, s, p, o, "row")
        /\ Kind(s, a)
    BY <1>1, <1>4, <1>5, <2>1, Working
  <2>3. ~(Len(s.agg) >= t.having) => Scan(i, t, s, p, o, "next")
    <3>1. Kind(s, s) /\ Counts(s, s)
      BY DEF Kind, Counts
    <3> QED BY <2>2, <3>1, RowNextIs
  <2>4. s.user < t.cnt
    BY <2>2, RowNextIs
  <2>5. ASSUME Len(s.agg) >= t.having, ~(a.iter >= t.start)
        PROVE  Scan(i, t, a, p, o, "next")
    BY <1>4, <2>1, <2>2, <2>5, RowNextIs
  <2>6. ~Limit(a) => ~(a.iter >= t.start)
    BY <1>4, <2>1, <2>4 DEF Limit
  <2> QED BY <2>1, <2>3, <2>5, <2>6 DEF Having
<1>6. CASE pc' = "next" /\ ~Having(S) /\ stmt' = stmt
  <2>1. PICK u : u = S
    OBVIOUS
  <2>2. stmt' = [stmt EXCEPT ![Cur] = u] /\ u.started = 1
    BY <1>2, <1>6, <2>1
  <2>3. T.error = "no" /\ T.kind = "select" => Scan(Cur, T, u, objlist', out[Cur], pc')
    BY <1>1, <1>5, <1>6, <2>1
  <2> QED BY <1>1, <1>2, <2>2, <2>3, RowsStay
<1>7. CASE pc' = "next" /\ Having(S) /\ ~Limit(a) /\ stmt' = [stmt EXCEPT ![Cur] = a]
  <2>1. T.error = "no" /\ T.kind = "select" => Scan(Cur, T, a, objlist', out[Cur], pc')
    BY <1>1, <1>5, <1>7
  <2> QED BY <1>1, <1>2, <1>4, <1>7, <2>1, RowsStay
<1>8. CASE T.kind = "assign" /\ stmt' = [stmt EXCEPT ![Cur] = b]
  <2>1. ~(T.error = "no" /\ T.kind = "select") /\ b.started = 1
    BY <1>2, <1>4, <1>8
  <2> QED BY <1>1, <1>2, <1>8, <2>1, RowsStay
<1>9. CASE T.kind = "assign" /\ stmt' = [stmt EXCEPT ![Cur] = a]
  <2>1. ~(T.error = "no" /\ T.kind = "select") /\ a.started = 1
    BY <1>2, <1>4, <1>9
  <2> QED BY <1>1, <1>2, <1>9, <2>1, RowsStay
<1> QED BY <1>1, <1>6, <1>7, <1>8, <1>9

-----------------------------------------------------------------------------
(***************************************************************************)
(* The caller closes a row, or the query.                                  *)
(***************************************************************************)
\* As far as its rows go, the same.
RowsAlike(s, u) == Kind(s, u) /\ Counts(s, u) /\ u.started = s.started

LEMMA DroppedAlike == ASSUME NEW s \in Tree PROVE RowsAlike(s, Dropped(s))
<1> DEFINE n == s.links - 1
           a == s.links > 1
           t == [s EXCEPT !.links = n, !.alive = a]
<1>1. n \in Int /\ a \in BOOLEAN /\ Dropped(s) = t
  BY DEF Tree, Dropped
<1> HIDE DEF n, a
<1>2. RowsAlike(s, t)
  BY <1>1 DEF Tree, RowsAlike, Kind, Counts
<1> QED BY <1>1, <1>2

LEMMA AlikeTwice ==
  ASSUME NEW s, NEW t, NEW u, RowsAlike(s, t), RowsAlike(t, u)
  PROVE  RowsAlike(s, u)
BY DEF RowsAlike, Kind, Counts

LEMMA ScanAlike ==
  ASSUME NEW i, NEW t, NEW s, NEW u, NEW p, NEW o, NEW at, Scan(i, t, s, p, o, at),
         RowsAlike(s, u)
  PROVE  Scan(i, t, u, p, o, at)
<1>1. PICK c \in 0..Len(Groups(i, t)) : Given(i, t, s, o, c) /\ Stands(i, t, s, p, at, c)
  BY DEF Scan
<1>2. Kind(s, u) /\ Counts(s, u)
  BY DEF RowsAlike
<1>3. Given(i, t, u, o, c)
  BY <1>1, <1>2, GivenLike DEF Counts
<1>4. \A k : After(i, t, s, k) => After(i, t, u, k)
  BY <1>2, AfterKind
<1>5. \A m : InRun(i, t, s, p, m) => InRun(i, t, u, p, m)
  BY <1>2 DEF InRun, Kind
<1>6. \A m : RunDone(i, t, s, p, m) => RunDone(i, t, u, p, m)
  BY <1>2 DEF RunDone, Waiting, Kind
<1>7. (Fresh(t, s) => Fresh(t, u)) /\ Shown(u, p) = Shown(s, p) /\ u.user = s.user
      /\ u.begun = s.begun
  BY <1>2 DEF Fresh, Shown, Kind, Counts
<1>8. Stands(i, t, u, p, at, c)
  BY <1>1, <1>4, <1>5, <1>6, <1>7 DEF Stands
<1> QED BY <1>1, <1>3, <1>8 DEF Scan

LEMMA CloseRows == ASSUME IInv, RowsInv, NEW h \in Handles, Close(h) PROVE RowsInv'
<1> DEFINE r == pseudo[h]
           i == r.stmt
           x0 == r.row
           d == Dropped(stmt[i])
           st == [stmt EXCEPT ![i] = d]
           u == Unlinked(qy, st, objlist, links)
           gone == ~(qy.links > 1) /\ Cur # NoStmt
<1>1. /\ Types /\ stmt \in [Stmts -> Tree] /\ pseudo \in [Handles -> Pseudo \cup {None}]
      /\ text \in Seq(QueryStatement) /\ qy \in MultiQueryRecord /\ qy.cur = Cur
      /\ Cur \in Stmts \cup {NoStmt} /\ links \in [Objs -> Int] /\ objlist \in Objs \cup {None}
  BY DEF IInv, Types, Pseudo, MultiQueryRecord, Cur
<1>2. /\ r # None /\ pc' = pc /\ text' = text /\ pseudo' = [pseudo EXCEPT ![h] = None]
  BY DEF Close
<1>3. r \in Pseudo /\ i \in Stmts /\ x0 \in Objs \cup {None}
  BY <1>1, <1>2 DEF Pseudo
<1>4. /\ Cardinality(AllRows(pseudo')) = Cardinality(AllRows(pseudo)) - 1
      /\ \A k : Cardinality(RowsOf(pseudo', k)) = Cardinality(RowsOf(pseudo, k)) - B(i, k)
      /\ \A x : Cardinality(ObjRows(pseudo', x)) = Cardinality(ObjRows(pseudo, x)) - B(x0, x)
      /\ pseudo' \in [Handles -> Pseudo \cup {None}]
  <2>1. pseudo' = Put(pseudo, h, None)
    BY <1>2 DEF Put
  <2>2. pseudo \in [Handles -> Pseudo \cup {None}] /\ h \in Handles /\ pseudo[h] # None
    BY <1>1, <1>2
  <2>3. Cardinality(AllRows(pseudo')) = Cardinality(AllRows(pseudo)) - 1
    BY ONLY <2>1, <2>2, DropRow
  <2>4. \A k : Cardinality(RowsOf(pseudo', k)) = Cardinality(RowsOf(pseudo, k)) - B(pseudo[h].stmt, k)
    BY ONLY <2>1, <2>2, DropRow
  <2>5. \A x : Cardinality(ObjRows(pseudo', x)) = Cardinality(ObjRows(pseudo, x)) - B(pseudo[h].row, x)
    BY ONLY <2>1, <2>2, DropRow
  <2>6. pseudo' \in [Handles -> Pseudo \cup {None}]
    BY ONLY <2>1, <2>2, DropRow
  <2> QED BY <2>3, <2>4, <2>5, <2>6
<1>b. \A x, y : B(x, y) \in Int /\ B(x, x) = 1
  BY DEF B
<1> HIDE DEF r, i, x0
<1>5. stmt[i].links = Cardinality(RowsOf(pseudo, i)) + B(Cur, i)
  BY <1>3 DEF IInv, StmtCounts
<1>6. Cardinality(RowsOf(pseudo, i)) >= 1 /\ Cardinality(AllRows(pseudo)) >= 1
  <2>1. Cardinality(RowsOf(pseudo', i)) = Cardinality(RowsOf(pseudo, i)) - 1
    BY <1>4, <1>b
  <2> QED BY <1>4, <2>1, CountsAreNat
<1>7. stmt[i].links > 0 /\ (i = Cur => stmt[i].links > 1) /\ stmt[i] \in Tree
  BY <1>1, <1>3, <1>5, <1>6, CountsAreNat DEF B
<1>8. Sound(stmt[i], ObjsOf(i)) /\ stmt[i].started = 1 /\ stmt[i] # NewStmt
  <2>1. Sound(stmt[i], ObjsOf(i))
    BY <1>3 DEF IInv, Sounds
  <2>2. stmt[i] # NewStmt
    BY <1>7, NewStmtIs
  <2> QED BY <2>1, <2>2 DEF Sound
<1>9. CloseStatement(stmt[i], objlist, links) = [stmt |-> d, objlist |-> objlist, links |-> links]
  <2>1. stmt[i].finished \/ stmt[i].links > 1
    BY <1>3, <1>7 DEF IInv, Current
  <2>2. stmt[i].alive = (stmt[i].links > 0)
    BY <1>8 DEF Sound
  <2> QED BY <1>7, <2>1, <2>2, CloseStatementIs
<1>10. /\ qy' = u.qy /\ stmt' = u.stmt /\ objlist' = u.objlist /\ links' = Closed(u.links, x0)
  BY <1>9 DEF Close, r, i, x0
<1>11. /\ d \in Tree /\ d.saved = stmt[i].saved /\ d.saving = stmt[i].saving
       /\ d.begun = stmt[i].begun /\ d.finishes = stmt[i].finishes /\ d.finished = stmt[i].finished
       /\ d.started = stmt[i].started
       /\ d.links = stmt[i].links - 1 /\ d.alive = (d.links > 0)
  BY <1>7, TreeDropped
<1>12. Sound(d, ObjsOf(i))
  BY <1>8, SoundDropped
<1> HIDE DEF d
<1>13. st \in [Stmts -> Tree] /\ \A k \in Stmts : st[k] = IF k = i THEN d ELSE stmt[k]
  BY <1>1, <1>3, <1>11
<1> HIDE DEF st
<1>14. /\ \A k \in Stmts : /\ st[k] \in Tree /\ st[k].saved = stmt[k].saved /\ st[k].saving = stmt[k].saving
                           /\ st[k].begun = stmt[k].begun /\ st[k].finished = stmt[k].finished
                           /\ st[k].started = stmt[k].started
                           /\ st[k].links = stmt[k].links - B(i, k)
                           /\ Sound(st[k], ObjsOf(k))
  <2> SUFFICES ASSUME NEW k \in Stmts
               PROVE  /\ st[k] \in Tree /\ st[k].saved = stmt[k].saved /\ st[k].saving = stmt[k].saving
                      /\ st[k].begun = stmt[k].begun /\ st[k].finished = stmt[k].finished
                      /\ st[k].started = stmt[k].started
                      /\ st[k].links = stmt[k].links - B(i, k)
                      /\ Sound(st[k], ObjsOf(k))
    OBVIOUS
  <2>1. CASE k = i
    BY <1>11, <1>12, <1>13, <2>1 DEF B
  <2>2. CASE k # i
    <3>1. st[k] = stmt[k] /\ stmt[k].links \in Int /\ B(i, k) = 0
      BY <1>1, <1>13, <2>2 DEF B, Tree
    <3>2. Sound(stmt[k], ObjsOf(k)) /\ stmt[k] \in Tree
      BY <1>1 DEF IInv, Sounds
    <3> QED BY <3>1, <3>2
  <2> QED BY <2>1, <2>2
<1>15. qy.links = Cardinality(AllRows(pseudo)) + (IF qy.open THEN 1 ELSE 0)
  BY DEF IInv, QueryCount
<1>16. gone => ~qy.open /\ Cur \in Stmts
  BY <1>1, <1>6, <1>15, CountsAreNat
<1>17. gone => S.finished /\ S.started = 1 /\ S = stmt[Cur] /\ stmt[Cur].finished
  BY <1>1, <1>16 DEF IInv, Current, S
<1>18. gone => st[Cur].finished /\ st[Cur].links > 0 /\ st[Cur].alive = TRUE
  <2> SUFFICES ASSUME gone PROVE st[Cur].finished /\ st[Cur].links > 0 /\ st[Cur].alive = TRUE
    OBVIOUS
  <2>1. stmt[Cur].links = Cardinality(RowsOf(pseudo, Cur)) + 1
    BY <1>16 DEF IInv, StmtCounts, B
  <2>2. st[Cur].links = Cardinality(RowsOf(pseudo', Cur)) + 1
    BY <1>4, <1>14, <1>16, <1>b, <2>1, CountsAreNat
  <2>3. st[Cur].links > 0
    BY <2>2, CountsAreNat
  <2>4. st[Cur].alive = TRUE
    BY <1>14, <1>16, <2>3 DEF Sound
  <2> QED BY <1>14, <1>16, <1>17, <2>3, <2>4
<1>19. /\ u.objlist = objlist /\ u.links = links
       /\ u.qy \in MultiQueryRecord /\ u.qy.links = qy.links - 1 /\ u.qy.open = qy.open
       /\ u.qy.cur = (IF qy.links > 1 THEN qy.cur ELSE NoStmt)
       /\ u.stmt \in [Stmts -> Tree]
       /\ \A k \in Stmts : u.stmt[k] = IF ~(qy.links > 1) /\ k = qy.cur /\ qy.cur # NoStmt
                                       THEN Dropped(st[k]) ELSE st[k]
  <2>1. /\ qy \in MultiQueryRecord /\ st \in [Stmts -> Tree] /\ qy.cur \in Stmts \cup {NoStmt}
        /\ (~(qy.links > 1) /\ qy.cur # NoStmt =>
              st[qy.cur].finished /\ st[qy.cur].links > 0 /\ st[qy.cur].alive = TRUE)
    BY <1>1, <1>13, <1>18
  <2>2. LosesLink(qy, st, objlist, links, u)
    BY <2>1, UnlinkedIs
  <2> QED BY <2>2 DEF LosesLink
<1> HIDE DEF u
<1>20. /\ objlist' = objlist /\ links' = Closed(links, x0)
       /\ qy' \in MultiQueryRecord /\ qy'.links = qy.links - 1 /\ qy'.open = qy.open
       /\ Cur' = (IF gone THEN NoStmt ELSE Cur)
       /\ stmt' \in [Stmts -> Tree]
       /\ \A k \in Stmts : stmt'[k] = IF gone /\ k = Cur THEN Dropped(st[k]) ELSE st[k]
  <2>1. Cur' = (IF qy.links > 1 THEN Cur ELSE NoStmt)
    BY <1>1, <1>10, <1>19 DEF Cur
  <2>2. Cur' = (IF gone THEN NoStmt ELSE Cur)
    BY <2>1
  <2> QED BY <1>1, <1>10, <1>19, <2>2
<1>21. \A k \in Stmts : RowsAlike(stmt[k], stmt'[k])
  <2> SUFFICES ASSUME NEW k \in Stmts PROVE RowsAlike(stmt[k], stmt'[k])
    OBVIOUS
  <2>0. RowsAlike(stmt[k], stmt[k])
    BY DEF RowsAlike, Kind, Counts
  <2>1. RowsAlike(stmt[k], st[k])
    <3>1. CASE k = i
      <4>1. RowsAlike(stmt[i], d)
        BY <1>7, DroppedAlike DEF d
      <4> QED BY <1>13, <3>1, <4>1
    <3>2. CASE k # i
      BY <1>13, <2>0, <3>2
    <3> QED BY <3>1, <3>2
  <2>2. CASE gone /\ k = Cur
    <3>1. RowsAlike(st[k], Dropped(st[k]))
      BY <1>13, DroppedAlike
    <3>2. stmt'[k] = Dropped(st[k])
      BY <1>20, <2>2
    <3> QED BY <2>1, <3>1, <3>2, AlikeTwice
  <2>3. CASE ~(gone /\ k = Cur)
    BY <1>20, <2>1, <2>3
  <2> QED BY <2>2, <2>3
<1>22. /\ text' = text /\ pc' = pc /\ objlist' = objlist /\ out' = out /\ qy'.open = qy.open
       /\ Cur' \in {Cur, NoStmt} /\ (qy.open => Cur' = Cur)
  <2>1. out' = out
    BY DEF Close
  <2> QED BY <1>2, <1>16, <1>20, <2>1
<1>23. PICK j : j = Cur'
  OBVIOUS
<1>24. ASSUME NEW k \in Stmts
       PROVE  RowsFine(k, text[k], stmt'[k], out[k], j, qy.open, objlist, pc)
  <2>1. RowsFine(k, text[k], stmt[k], out[k], Cur, qy.open, objlist, pc)
    BY DEF RowsInv
  <2>2. PICK s, v, t, o : s = stmt[k] /\ v = stmt'[k] /\ t = text[k] /\ o = out[k]
    OBVIOUS
  <2>3. v.started = s.started
    BY <1>21, <2>2 DEF RowsAlike
  <2>4. Scan(k, t, s, objlist, o, pc) => Scan(k, t, v, objlist, o, pc)
    <3>1. RowsAlike(s, v)
      BY <1>21, <2>2
    <3> QED BY <3>1, ScanAlike
  <2>5. j = k => j = Cur
    <3>1. k # NoStmt
      BY <1>1, ObjsFacts DEF NoStmt
    <3> QED BY <1>22, <1>23, <3>1
  <2>6. qy.open => j = Cur
    BY <1>22, <1>23
  <2>7. RowsFine(k, t, s, o, Cur, qy.open, objlist, pc)
    BY <2>1, <2>2
  <2>8. RowsFine(k, t, v, o, j, qy.open, objlist, pc)
    BY <2>3, <2>4, <2>5, <2>6, <2>7 DEF RowsFine
  <2> QED BY <2>2, <2>8
<1>25. out \in [Stmts -> Seq(Shows)] /\ Stmts' = Stmts
  BY <1>22, SameText DEF RowsInv
<1> QED BY <1>22, <1>23, <1>24, <1>25 DEF RowsInv

LEMMA QueryCloseRows == ASSUME IInv, RowsInv, QueryClose PROVE RowsInv'
<1> DEFINE st == FinishedIs.stmt
           o == FinishedIs.objlist
           l == FinishedIs.links
           u == Unlinked(qy, st, o, l)
           gone == ~(qy.links > 1) /\ Cur # NoStmt
           no == FALSE
<1>1. /\ Types /\ stmt \in [Stmts -> Tree] /\ text \in Seq(QueryStatement)
      /\ qy \in MultiQueryRecord /\ qy.cur = Cur /\ Cur \in Stmts \cup {NoStmt}
      /\ qy.links = Cardinality(AllRows(pseudo)) + 1 /\ qy.open
  <2>1. qy.open
    BY DEF QueryClose
  <2> QED BY <2>1 DEF IInv, Types, MultiQueryRecord, Cur, QueryCount
<1>2. /\ pc = "idle" /\ pc' = pc /\ text' = text /\ pseudo' = pseudo
      /\ qy' = [u.qy EXCEPT !.open = no] /\ stmt' = u.stmt /\ objlist' = u.objlist
      /\ links' = u.links
  BY DEF QueryClose, FinishedIs
<1>3. Finishes(st, o, l)
  BY <1>1, QueryFinished
<1>no. no = FALSE /\ no \in BOOLEAN
  OBVIOUS
<1> HIDE DEF st, o, l, no
<1>4. /\ st \in [Stmts -> Tree] /\ o = None /\ l \in [Objs -> Int]
      /\ \A i \in Stmts : /\ Sound(st[i], ObjsOf(i)) /\ st[i].finished
                          /\ st[i].links = stmt[i].links /\ st[i].alive = stmt[i].alive
                          /\ st[i].started = stmt[i].started
                          /\ (i # Cur => st[i] = stmt[i])
      /\ \A x \in Objs : l[x] = Cardinality(ObjRows(pseudo, x)) + B(st[x[1]].saved, x)
  BY <1>3 DEF Finishes
<1>5. gone => Cur \in Stmts /\ st[Cur].finished /\ st[Cur].links > 0 /\ st[Cur].alive = TRUE
              /\ st[Cur].started = 1
  <2> SUFFICES ASSUME gone
               PROVE  /\ Cur \in Stmts /\ st[Cur].finished /\ st[Cur].links > 0
                      /\ st[Cur].alive = TRUE /\ st[Cur].started = 1
    OBVIOUS
  <2>1. Cur \in Stmts /\ S = stmt[Cur] /\ S.started = 1
    BY <1>1 DEF S, IInv, Current
  <2>2. stmt[Cur].links = Cardinality(RowsOf(pseudo, Cur)) + 1
    BY <2>1 DEF IInv, StmtCounts, B
  <2>3. st[Cur].links > 0
    BY <1>4, <2>1, <2>2, CountsAreNat
  <2>4. st[Cur].alive = TRUE
    BY <1>4, <2>1, <2>3 DEF Sound
  <2> QED BY <1>4, <2>1, <2>3, <2>4
<1>6. /\ u.objlist = o /\ u.links = l
      /\ u.qy \in MultiQueryRecord /\ u.qy.links = qy.links - 1 /\ u.qy.open = qy.open
      /\ u.qy.cur = (IF qy.links > 1 THEN qy.cur ELSE NoStmt)
      /\ u.stmt \in [Stmts -> Tree]
      /\ \A k \in Stmts : u.stmt[k] = IF ~(qy.links > 1) /\ k = qy.cur /\ qy.cur # NoStmt
                                      THEN Dropped(st[k]) ELSE st[k]
  <2>1. /\ qy \in MultiQueryRecord /\ st \in [Stmts -> Tree] /\ qy.cur \in Stmts \cup {NoStmt}
        /\ (~(qy.links > 1) /\ qy.cur # NoStmt =>
              st[qy.cur].finished /\ st[qy.cur].links > 0 /\ st[qy.cur].alive = TRUE)
    BY <1>1, <1>4, <1>5
  <2>2. LosesLink(qy, st, o, l, u)
    BY <2>1, UnlinkedIs
  <2> QED BY <2>2 DEF LosesLink
<1> HIDE DEF u
<1>7. /\ qy' \in MultiQueryRecord /\ qy'.links = qy.links - 1 /\ qy'.open = FALSE
      /\ Cur' = (IF gone THEN NoStmt ELSE Cur)
  <2> DEFINE v == u.qy
  <2>1. v \in MultiQueryRecord /\ qy' = [v EXCEPT !.open = no]
    BY <1>2, <1>6
  <2> HIDE DEF v
  <2>2. qy' \in MultiQueryRecord /\ qy'.links = v.links /\ qy'.open = no /\ qy'.cur = v.cur
    BY <1>no, <2>1 DEF MultiQueryRecord
  <2>3. Cur' = (IF qy.links > 1 THEN Cur ELSE NoStmt)
    BY <1>1, <1>6, <2>2 DEF Cur, v
  <2>4. Cur' = (IF gone THEN NoStmt ELSE Cur)
    BY <2>3
  <2> QED BY <1>6, <1>no, <2>2, <2>4 DEF v
<1>8. \A k \in Stmts : stmt'[k].started = stmt[k].started
  <2> SUFFICES ASSUME NEW k \in Stmts PROVE stmt'[k].started = stmt[k].started
    OBVIOUS
  <2>1. stmt'[k] = IF gone /\ k = Cur THEN Dropped(st[k]) ELSE st[k]
    BY <1>1, <1>2, <1>6
  <2>2. Dropped(st[k]).started = st[k].started
    BY <1>4, TreeDropped
  <2> QED BY <1>4, <2>1, <2>2
<1>9. /\ Cur' \in {Cur, NoStmt} /\ qy'.open = FALSE /\ qy.open /\ out' = out /\ text' = text
      /\ Stmts' = Stmts
  <2>1. out' = out
    BY DEF QueryClose
  <2> QED BY <1>1, <1>2, <1>7, <2>1, SameText
<1>10. PICK j, p, at : j = Cur' /\ p = objlist' /\ at = pc'
  OBVIOUS
<1>11. ASSUME NEW k \in Stmts
       PROVE  RowsFine(k, text[k], stmt'[k], out[k], j, FALSE, p, at)
  <2>1. RowsFine(k, text[k], stmt[k], out[k], Cur, qy.open, objlist, pc)
    BY DEF RowsInv
  <2>2. PICK v : v = stmt'[k]
    OBVIOUS
  <2>3. v.started = stmt[k].started
    BY <1>8, <2>2
  <2>4. j = k => Cur = k
    <3>1. k # NoStmt
      BY <1>1, ObjsFacts DEF NoStmt
    <3> QED BY <1>9, <1>10, <3>1
  <2>5. RowsFine(k, text[k], v, out[k], j, FALSE, p, at)
    BY <2>1, <2>3, <2>4, StillFine
  <2> QED BY <2>2, <2>5
<1>12. out \in [Stmts -> Seq(Shows)]
  BY DEF RowsInv
<1> QED BY <1>9, <1>10, <1>11, <1>12 DEF RowsInv

LEMMA RowsStutter == ASSUME IInv, RowsInv, UNCHANGED vars PROVE RowsInv'
<1>1. /\ text' = text /\ qy' = qy /\ stmt' = stmt /\ objlist' = objlist /\ pc' = pc /\ out' = out
      /\ Cur' = Cur
  BY DEF vars, Cur
<1>2. Stmts' = Stmts
  BY <1>1, SameText
<1> QED BY <1>1, <1>2 DEF RowsInv

LEMMA RowsInitially == ASSUME Init PROVE RowsInv
<1> DEFINE q0 == [links |-> 1, cur |-> NoStmt, ended |-> FALSE, open |-> TRUE]
           st0 == [i \in Stmts |-> NewStmt]
<1>1. /\ IInv /\ text \in Seq(QueryStatement) /\ qy = NextStatement(q0, 0) /\ Cur # NoStmt
      /\ stmt = StartedStmt(st0, Cur) /\ pc = "idle" /\ out = [i \in Stmts |-> <<>>]
  BY Initially, QueryAssumption DEF Init, Cur
<1>2. text[Cur].kind \in {"select", "assign"} /\ Cur \in Stmts
  <2>1. q0 \in MultiQueryRecord
    BY DEF NoStmt, MultiQueryRecord
  <2>2. Cur = NextStatement(q0, 0).cur
    BY <1>1 DEF Cur
  <2> HIDE DEF q0
  <2> QED BY <1>1, <2>1, <2>2, NextKind DEF IInv, Types
<1>3. \A i \in Stmts : stmt[i] = IF i = Cur THEN Begun ELSE NewStmt
  <2>1. stmt = [st0 EXCEPT ![Cur] = Begun]
    BY <1>1 DEF StartedStmt, Begun
  <2> QED BY <1>2, <2>1
<1>4. out \in [Stmts -> Seq(Shows)] /\ \A i \in Stmts : out[i] = <<>>
  <2>1. <<>> \in Seq(Shows)
    OBVIOUS
  <2> QED BY <1>1, <2>1
<1>5. ASSUME NEW i \in Stmts
      PROVE  RowsFine(i, text[i], stmt[i], out[i], Cur, qy.open, objlist, pc)
  <2>1. i \in Nat /\ text[i] \in QueryStatement
    <3>1. i \in 1..Len(text)
      BY <1>1, ObjsFacts
    <3> QED BY <1>1, <3>1, Element
  <2>2. PICK t, s, o : t = text[i] /\ s = stmt[i] /\ o = out[i]
    OBVIOUS
  <2>3. o = <<>> /\ IsPrefix(o, Expected(i, t))
    BY <1>4, <2>1, <2>2, NoneExpected
  <2>4. CASE i = Cur
    <3>1. Scan(i, t, s, objlist, o, pc)
      BY <1>1, <1>3, <2>1, <2>2, <2>3, <2>4, ScanBegins
    <3> QED BY <1>2, <2>2, <2>3, <2>4, <3>1 DEF RowsFine
  <2>5. CASE i # Cur
    <3>1. s.started = 0
      BY <1>3, <2>2, <2>5, NewStmtIs
    <3>2. s.started # 1
      BY <3>1
    <3> QED BY <2>2, <2>3, <2>5, <3>2 DEF RowsFine
  <2> QED BY <2>4, <2>5
<1> QED BY <1>4, <1>5 DEF RowsInv

(* Whatever the statements, their rows and the LIMIT, and however the caller
   mixes fetches with closing rows and the query: what a statement has returned
   is a prefix of the groups of its rows that meet HAVING, from the LIMIT on,
   each with the aggregates of exactly its rows, and all of them when the query
   has gone on to the next statement. *)
THEOREM RowsAreTheGroups == Spec => []RowsAreGroups
<1>1. Init => RowsInv
  BY RowsInitially
<1>2. IInv /\ RowsInv /\ [Next]_vars => RowsInv'
  <2> SUFFICES ASSUME IInv, RowsInv, [Next]_vars PROVE RowsInv'
    OBVIOUS
  <2>1. CASE Fetch
    BY <2>1, FetchRows
  <2>2. CASE LimitReached
    BY <2>2, LimitReachedRows
  <2>3. CASE NextPlain
    BY <2>3, NextPlainRows
  <2>4. CASE NextGroup
    BY <2>4, NextGroupRows
  <2>5. CASE Prime
    BY <2>5, PrimeRows
  <2>6. CASE Group
    BY <2>6, GroupRows
  <2>7. CASE Regroup
    BY <2>7, RegroupRows
  <2>8. CASE Row
    BY <2>8, RowRows
  <2>9. CASE NoRow \/ AssignFails
    BY <2>9, NoRowRows
  <2>10. CASE QueryClose
    BY <2>10, QueryCloseRows
  <2>11. CASE \E h \in Handles : Close(h)
    BY <2>11, CloseRows
  <2>12. CASE UNCHANGED vars
    BY <2>12, RowsStutter
  <2> QED BY <2>1, <2>2, <2>3, <2>4, <2>5, <2>6, <2>7, <2>8, <2>9, <2>10, <2>11, <2>12
          DEF Next, FetchStep
<1>3. RowsInv => RowsAreGroups
  <2> SUFFICES ASSUME RowsInv PROVE RowsAreGroups
    OBVIOUS
  <2>1. \A i \in Stmts : RowsFine(i, text[i], stmt[i], out[i], Cur, qy.open, objlist, pc)
    BY DEF RowsInv
  <2> QED BY <2>1 DEF RowsFine, RowsAreGroups
<1> QED BY <1>1, <1>2, <1>3, QueryInvariant, PTL DEF Spec
=============================================================================
