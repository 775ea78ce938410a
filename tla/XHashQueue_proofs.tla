------------------------- MODULE XHashQueue_proofs -------------------------
(***************************************************************************)
(* For any number of threads, keys and elements, the table and the queue   *)
(* of a hash queue hold the same elements, its link counts are exact, it   *)
(* is a LinkCache, and what it holds weighs what NumElements says and no   *)
(* more than its capacity.                                                 *)
(***************************************************************************)
EXTENDS XHashQueue, Lines_proofs, FiniteSetTheorems

Element == [state : {"unused", "live", "freed"}, key : Keys \cup {None},
            weight : Nat, cnt : Int, locked : BOOLEAN]

Local == [pc : Labels, ref : Elems \cup {None}, n : 0..MaxRefs,
          key : Keys \cup {None}, weight : Nat, at : Elems \cup {None}]

Types ==
  /\ elem \in [Elems -> Element]
  /\ table \in [Keys -> Elems \cup {None}]
  /\ queue \in Seq(Elems)
  /\ num \in Int
  /\ lock \in Seq(Clients)
  /\ me \in [Clients -> Local]
  /\ told \in [Elems -> Nat]
  /\ fault \in BOOLEAN

Resting(r) == r.pc \in {"idle", "closed"}

\* The clients in the line of ControlLock are those in a call, once each.
Lined == Once(lock) /\ In(lock) = {t \in Clients : ~Resting(me[t])}

\* The variables of a client, by where it is.
Placed(r) ==
  /\ r.pc \in {"add", "discard", "lookup"} => r.ref = None /\ r.key \in Keys
  /\ r.pc \in {"unlink", "link", "remove", "keep", "removing"} => r.ref # None
  /\ r.pc \in {"deinit", "closed"} => r.ref = None
  /\ r.ref = None <=> r.n = 0
  /\ r.pc = "link" => r.n < MaxRefs
  /\ r.at # None <=> r.pc \in {"discard", "removing"}
  /\ r.pc = "removing" => r.at = r.ref

\* DiscardFn is called by the one who has ControlLock, for an element that is
\* in use and, from xhqAdd, has no links.
Discarding ==
  \A t \in Clients : me[t].at # None =>
    /\ Lock!Holds(t)
    /\ Live(me[t].at)
    /\ me[t].pc = "discard" => elem[me[t].at].cnt = 0

\* Who ends the queue is alone with it.
Closing ==
  ~InUse =>
    /\ \A t \in Clients : me[t].ref = None /\ me[t].pc \in {"idle", "deinit", "closed"}
    /\ \A t, u \in Clients : me[t].pc = "deinit" /\ me[u].pc = "deinit" => t = u

Queued == Once(queue) /\ In(queue) = {e \in Elems : Live(e)}

Tabled ==
  /\ \A e \in Elems : Live(e) =>
       elem[e].key \in Keys /\ table[elem[e].key] = (IF e \in AtDiscard THEN None ELSE e)
  /\ \A e, f \in Elems : Live(e) /\ Live(f) /\ elem[e].key = elem[f].key => e = f
  /\ \A k \in Keys : table[k] # None => Live(table[k]) /\ elem[table[k]].key = k

\* A reference is of an element that was made.
Made == \A t \in Clients : me[t].ref # None => elem[me[t].ref].state # "unused"

IInv ==
  /\ Types /\ Lined /\ \A t \in Clients : Placed(me[t])
  /\ Discarding /\ Closing /\ Queued /\ Tabled /\ Made /\ LinksHeld

-----------------------------------------------------------------------------
LEMMA EnQueuePuts ==
  ASSUME queue \in Seq(Elems), Once(queue), NEW e \in Elems
  PROVE  EnQueue(e) \in Seq(Elems) /\ Once(EnQueue(e)) /\ In(EnQueue(e)) = In(queue) \cup {e}
<1> DEFINE w == Without(e)
           s == <<e>> \o w
<1>1. w \in Seq(Elems) /\ Once(w) /\ In(w) = In(queue) \ {e}
  BY TakenOutIs DEF Without
<1> HIDE DEF w
<1>2. /\ Len(w) \in Nat /\ DOMAIN w = 1..Len(w) /\ s \in Seq(Elems)
      /\ DOMAIN s = 1..(Len(w) + 1) /\ s[1] = e
      /\ \A j \in 1..Len(w) : s[j + 1] = w[j]
      /\ \A j \in 2..(Len(w) + 1) : s[j] = w[j - 1]
  BY <1>1
<1> HIDE DEF s
<1>3. \A j \in 1..(Len(w) + 1) : j = 1 \/ (j \in 2..(Len(w) + 1) /\ j - 1 \in 1..Len(w))
  BY <1>2
<1>4. \A j \in 1..Len(w) : w[j] # e
  BY <1>1, <1>2 DEF In
<1>5. Once(s)
  <2> SUFFICES ASSUME NEW i \in 1..(Len(w) + 1), NEW j \in 1..(Len(w) + 1), s[i] = s[j] PROVE i = j
    BY <1>2 DEF Once
  <2>1. CASE i = 1 \/ j = 1
    BY <1>2, <1>3, <1>4, <2>1
  <2>2. CASE i # 1 /\ j # 1
    <3>1. i - 1 \in 1..Len(w) /\ j - 1 \in 1..Len(w) /\ w[i - 1] = w[j - 1]
      BY <1>2, <1>3, <2>2
    <3>2. i - 1 = j - 1
      BY <1>1, <1>2, <3>1 DEF Once
    <3> QED BY <3>2
  <2> QED BY <2>1, <2>2
<1>6. \A x \in In(s) : x \in In(w) \cup {e}
  <2> SUFFICES ASSUME NEW j \in 1..(Len(w) + 1) PROVE s[j] \in In(w) \cup {e}
    BY <1>2 DEF In
  <2> QED BY <1>2, <1>3 DEF In
<1>7. \A x \in In(w) : x \in In(s)
  <2> SUFFICES ASSUME NEW j \in 1..Len(w) PROVE w[j] \in In(s)
    BY <1>2 DEF In
  <2>1. j + 1 \in 1..(Len(w) + 1)
    BY <1>2
  <2> QED BY <1>2, <2>1 DEF In
<1>8. e \in In(s)
  <2>1. 1 \in 1..(Len(w) + 1)
    BY <1>2
  <2> QED BY <1>2, <2>1 DEF In
<1> QED BY <1>1, <1>2, <1>5, <1>6, <1>7, <1>8 DEF s, w, EnQueue
-----------------------------------------------------------------------------
(***************************************************************************)
(* What the three ways to go on do to the line of ControlLock.             *)
(***************************************************************************)
LEMMA Updated ==
  ASSUME Types, NEW t \in Clients, NEW r \in Local, me' = [me EXCEPT ![t] = r]
  PROVE  me' \in [Clients -> Local] /\ me'[t] = r /\ \A u \in Clients : u # t => me'[u] = me[u]
BY DEF Types

(***************************************************************************)
(* A new link count or a new lock flag leaves state and key of every       *)
(* element as they were.                                                   *)
(***************************************************************************)
LEMMA FieldsKept ==
  ASSUME Types, NEW e \in Elems,
         \/ \E n \in Int : elem' = [elem EXCEPT ![e].cnt = n]
         \/ elem' = [elem EXCEPT ![e].locked = ~elem[e].locked]
  PROVE  /\ elem' \in [Elems -> Element]
         /\ \A f \in Elems : elem'[f].state = elem[f].state /\ elem'[f].key = elem[f].key
<1>1. elem \in [Elems -> Element] /\ elem[e] \in Element
  BY DEF Types
<1>2. ASSUME NEW n \in Int
      PROVE  /\ [elem[e] EXCEPT !.cnt = n] \in Element
             /\ [elem[e] EXCEPT !.cnt = n].state = elem[e].state
             /\ [elem[e] EXCEPT !.cnt = n].key = elem[e].key
  BY <1>1 DEF Element
<1>3. /\ [elem[e] EXCEPT !.locked = ~elem[e].locked] \in Element
      /\ [elem[e] EXCEPT !.locked = ~elem[e].locked].state = elem[e].state
      /\ [elem[e] EXCEPT !.locked = ~elem[e].locked].key = elem[e].key
  BY <1>1 DEF Element
<1>4. CASE \E n \in Int : elem' = [elem EXCEPT ![e].cnt = n]
  <2>1. PICK n \in Int : elem' = [elem EXCEPT ![e] = [elem[e] EXCEPT !.cnt = n]]
    BY <1>4
  <2> QED BY <1>1, <1>2, <2>1
<1>5. CASE elem' = [elem EXCEPT ![e].locked = ~elem[e].locked]
  <2>1. elem' = [elem EXCEPT ![e] = [elem[e] EXCEPT !.locked = ~elem[e].locked]]
    BY <1>5
  <2> QED BY <1>1, <1>3, <2>1
<1> QED BY <1>4, <1>5

LEMMA LockAsk ==
  ASSUME Types, Lined, NEW t \in Clients, NEW r \in Local, Resting(me[t]), ~Resting(r), Ask(t, r)
  PROVE  /\ lock' \in Seq(Clients) /\ Lined'
         /\ \A u \in Clients : Lock!Holds(u) => Lock!Holds(u)'
<1>1. lock \in Seq(Clients) /\ Once(lock) /\ t \notin In(lock) /\ lock' = Append(lock, t)
  BY DEF Types, Lined, Ask, Lock!Ask
<1>2. /\ lock' \in Seq(Clients) /\ Once(lock') /\ In(lock') = In(lock) \cup {t}
      /\ lock # <<>> => Head(lock') = Head(lock)
  BY <1>1, AskAppends
<1>3. me' = [me EXCEPT ![t] = r]
  BY DEF Ask
<1>4. In(lock') = {u \in Clients : ~Resting(me'[u])}
  BY <1>2, <1>3, Updated DEF Lined
<1>5. lock' # <<>>
  BY <1>1
<1> QED BY <1>2, <1>4, <1>5 DEF Lined, Lock!Holds, Resting

LEMMA LockReturn ==
  ASSUME Types, Lined, NEW t \in Clients, NEW r \in Local, Resting(r), Return(t, r)
  PROVE  lock' \in Seq(Clients) /\ Lined'
<1>1. lock \in Seq(Clients) /\ Once(lock) /\ lock # <<>> /\ Head(lock) = t /\ lock' = Tail(lock)
  BY DEF Types, Lined, Return, Lock!Release, Lock!Holds
<1>2. lock' \in Seq(Clients) /\ Once(lock') /\ In(lock') = In(lock) \ {t}
  BY <1>1, ReleaseTakes
<1>3. me' = [me EXCEPT ![t] = r]
  BY DEF Return
<1>4. In(lock') = {u \in Clients : ~Resting(me'[u])}
  BY <1>2, <1>3, Updated DEF Lined
<1> QED BY <1>2, <1>4 DEF Lined, Resting

LEMMA LockGoto ==
  ASSUME Types, Lined, NEW t \in Clients, NEW r \in Local, Lock!Holds(t), ~Resting(r), Goto(t, r)
  PROVE  lock' \in Seq(Clients) /\ Lined' /\ Lock!Holds(t)'
<1>1. lock' = lock /\ me' = [me EXCEPT ![t] = r] /\ lock # <<>> /\ Head(lock) = t /\ lock \in Seq(Clients)
  BY DEF Goto, Types, Lock!Holds
<1>2. t \in In(lock)
  <2>1. 1 \in DOMAIN lock /\ Head(lock) = lock[1]
    BY <1>1
  <2> QED BY <1>1, <2>1 DEF In
<1>3. In(lock') = {u \in Clients : ~Resting(me'[u])}
  BY <1>1, <1>2, Updated DEF Lined
<1> QED BY <1>1, <1>3 DEF Lined, Resting, Lock!Holds

LEMMA OneDiscard ==
  ASSUME Types, Discarding, NEW t \in Clients, Lock!Holds(t)
  PROVE  (\A u \in Clients : u # t => me[u].at = None) /\ AtDiscard = {me[t].at} \ {None}
BY DEF Discarding, Lock!Holds, AtDiscard

(***************************************************************************)
(* The link counts.                                                        *)
(***************************************************************************)
LEMMA Finite == \A e : IsFiniteSet(References(e))
<1>1. IsFiniteSet(Clients) /\ IsFiniteSet(1..MaxRefs)
  BY FS_Interval, QueueAssumption
<1>2. IsFiniteSet(Clients \X (1..MaxRefs))
  BY <1>1, FS_Product
<1> QED BY <1>2, FS_Subset DEF References

LEMMA SameLinks ==
  ASSUME LinksHeld,
         \A u \in Clients : me'[u].ref = me[u].ref /\ me'[u].n = me[u].n,
         \A e \in Elems : Live(e)' => Live(e) /\ elem'[e].cnt = elem[e].cnt
  PROVE  LinksHeld'
<1>1. \A e \in Elems : References(e)' = References(e)
  BY DEF References
<1> QED BY <1>1 DEF LinksHeld

LEMMA MoreLinks ==
  ASSUME Types, LinksHeld, NEW t \in Clients, NEW e \in Elems, NEW r \in Local,
         me' = [me EXCEPT ![t] = r], r.ref = e, r.n = me[t].n + 1, me[t].ref \in {None, e},
         me[t].ref = None => me[t].n = 0,
         Live(e) \/ References(e) = {},
         elem'[e].cnt = (IF Live(e) THEN elem[e].cnt ELSE 0) + 1,
         \A f \in Elems \ {e} : Live(f)' => Live(f) /\ elem'[f].cnt = elem[f].cnt
  PROVE  LinksHeld'
<1>1. me' \in [Clients -> Local] /\ me'[t] = r /\ \A u \in Clients : u # t => me'[u] = me[u]
  BY Updated
<1>2. MaxRefs \in Nat /\ e # None /\ me[t].n \in Nat /\ r.n \in 1..MaxRefs
  BY QueueAssumption DEF Types, Local
<1> DEFINE x == <<t, r.n>>
<1>3. x \notin References(e) /\ References(e)' = References(e) \cup {x}
  BY <1>1, <1>2 DEF References
<1>4. \A f \in Elems \ {e} : References(f)' = References(f)
  BY <1>1, <1>2 DEF References
<1>5. Cardinality(References(e)') = Cardinality(References(e)) + 1
  <2> HIDE DEF x
  <2>1. IsFiniteSet(References(e))
    BY Finite
  <2>2. Cardinality(References(e) \cup {x}) = Cardinality(References(e)) + 1
    BY <1>3, <2>1, FS_AddElement
  <2> QED BY <1>3, <2>2
<1>6. Cardinality(References(e)) = IF Live(e) THEN elem[e].cnt ELSE 0
  BY FS_EmptySet DEF LinksHeld
<1> QED BY <1>4, <1>5, <1>6 DEF LinksHeld

LEMMA FewerLinks ==
  ASSUME Types, LinksHeld, NEW t \in Clients, NEW e \in Elems, NEW r \in Local,
         me' = [me EXCEPT ![t] = r], me[t].ref = e, me[t].n > 0,
         \/ r.ref = e /\ r.n = me[t].n - 1
         \/ me[t].n = 1 /\ r.ref = None,
         Live(e)' => Live(e) /\ elem'[e].cnt = elem[e].cnt - 1,
         \A f \in Elems \ {e} : Live(f)' => Live(f) /\ elem'[f].cnt = elem[f].cnt
  PROVE  LinksHeld'
<1>1. me' \in [Clients -> Local] /\ me'[t] = r /\ \A u \in Clients : u # t => me'[u] = me[u]
  BY Updated
<1>2. MaxRefs \in Nat /\ None \notin Elems /\ me[t].n \in 1..MaxRefs /\ r.n \in Nat
  BY QueueAssumption DEF Types, Local
<1> DEFINE x == <<t, me[t].n>>
<1>3. x \in References(e) /\ References(e)' = References(e) \ {x}
  BY <1>1, <1>2 DEF References
<1>4. \A f \in Elems \ {e} : References(f)' = References(f)
  BY <1>1, <1>2 DEF References
<1>5. Cardinality(References(e)') = Cardinality(References(e)) - 1
  <2> HIDE DEF x
  <2>1. IsFiniteSet(References(e))
    BY Finite
  <2>2. Cardinality(References(e) \ {x}) = Cardinality(References(e)) - 1
    BY <1>3, <2>1, FS_RemoveElement
  <2> QED BY <1>3, <2>2
<1> QED BY <1>4, <1>5 DEF LinksHeld

-----------------------------------------------------------------------------
(***************************************************************************)
(* Tabled' part by part.                                                   *)
(***************************************************************************)
LEMMA TabledNext ==
  ASSUME \A e \in Elems : elem'[e].state = "live" =>
            /\ elem'[e].key \in Keys
            /\ table'[elem'[e].key] = IF e \in AtDiscard' THEN None ELSE e,
         \A e, f \in Elems :
            /\ elem'[e].state = "live" /\ elem'[f].state = "live"
            /\ elem'[e].key = elem'[f].key
            => e = f,
         \A k \in Keys : table'[k] # None =>
            elem'[table'[k]].state = "live" /\ elem'[table'[k]].key = k
  PROVE  Tabled'
BY DEF Tabled, Live

(***************************************************************************)
(* The steps that only take or post ControlLock.                           *)
(***************************************************************************)
LEMMA ClosingKept ==
  ASSUME Types, Closing, NEW t \in Clients, NEW r \in Local, me' = [me EXCEPT ![t] = r],
         InUse \/ me[t].ref # None \/ me[t].pc \notin {"idle", "deinit", "closed"},
         r.pc \notin {"deinit", "closed"}
  PROVE  Closing'
<1>1. InUse
  BY DEF Closing
<1> QED BY <1>1, Updated DEF InUse, Closing

LEMMA Asks ==
  ASSUME IInv, NEW t \in Clients, NEW r \in Local, Resting(me[t]), ~Resting(r), Ask(t, r),
         Placed(r), r.ref = me[t].ref, r.n = me[t].n, r.at = None,
         UNCHANGED <<elem, table, queue, num, told>>, Closing'
  PROVE  IInv'
<1>1. /\ me' = [me EXCEPT ![t] = r] /\ fault' = fault /\ me' \in [Clients -> Local]
      /\ me'[t] = r /\ \A u \in Clients : u # t => me'[u] = me[u]
  BY Updated DEF IInv, Ask
<1>2. lock' \in Seq(Clients) /\ Lined' /\ \A u \in Clients : Lock!Holds(u) => Lock!Holds(u)'
  BY LockAsk DEF IInv
<1>3. me[t].at = None
  BY DEF IInv, Placed, Resting
<1>4. Types'
  BY <1>1, <1>2 DEF IInv, Types
<1>5. \A u \in Clients : Placed(me[u])'
  BY <1>1 DEF IInv, Placed
<1>6. Discarding'
  BY <1>1, <1>2 DEF IInv, Discarding, Live
<1>7. AtDiscard' = AtDiscard
  BY <1>1, <1>3 DEF AtDiscard
<1>8. Queued' /\ Tabled'
  BY <1>7 DEF IInv, Queued, Tabled, Live
<1>9. Made'
  BY <1>1 DEF IInv, Made
<1>10. LinksHeld'
  BY <1>1, SameLinks DEF IInv, Live
<1> QED BY <1>2, <1>4, <1>5, <1>6, <1>8, <1>9, <1>10 DEF IInv

LEMMA Returns ==
  ASSUME IInv, NEW t \in Clients, NEW r \in Local, Return(t, r), r.pc = "idle",
         Placed(r), r.ref = me[t].ref, r.n = me[t].n, r.at = None, me[t].at = None,
         me[t].pc \notin {"idle", "deinit", "closed"},
         UNCHANGED <<elem, table, queue, num, told>>
  PROVE  IInv'
<1>1. /\ me' = [me EXCEPT ![t] = r] /\ fault' = fault /\ me' \in [Clients -> Local]
      /\ me'[t] = r /\ (\A u \in Clients : u # t => me'[u] = me[u]) /\ Lock!Holds(t)
  BY Updated DEF IInv, Return, Lock!Release
<1>2. lock' \in Seq(Clients) /\ Lined'
  BY LockReturn DEF IInv, Resting
<1>3. \A u \in Clients : me[u].at = None
  BY <1>1, OneDiscard DEF IInv
<1>4. Types'
  BY <1>1, <1>2 DEF IInv, Types
<1>5. \A u \in Clients : Placed(me[u])'
  BY <1>1 DEF IInv, Placed
<1>6. Discarding' /\ AtDiscard' = AtDiscard
  BY <1>1, <1>3 DEF Discarding, AtDiscard
<1>7. Closing'
  BY <1>1, ClosingKept DEF IInv
<1>8. Queued' /\ Tabled'
  BY <1>6 DEF IInv, Queued, Tabled, Live
<1>9. Made'
  BY <1>1 DEF IInv, Made
<1>10. LinksHeld'
  BY <1>1, SameLinks DEF IInv, Live
<1> QED BY <1>2, <1>4, <1>5, <1>6, <1>7, <1>8, <1>9, <1>10 DEF IInv

(***************************************************************************)
(* The steps of a discarding: an element is taken from the table, put      *)
(* back, or freed.                                                         *)
(***************************************************************************)
LEMMA TakesOff ==
  ASSUME IInv, NEW t \in Clients, NEW r \in Local, Goto(t, r), Lock!Holds(t),
         Placed(r), r.ref = me[t].ref, r.n = me[t].n, r.at \in Elems, Live(r.at),
         r.at # me[t].at, r.pc = "discard" => elem[r.at].cnt = 0,
         r.pc \in {"discard", "removing"}, me[t].pc \notin {"idle", "deinit", "closed"},
         table' \in [Keys -> Elems \cup {None}],
         \A k \in Keys : table'[k] = IF k = elem[r.at].key THEN None
                                     ELSE IF me[t].at # None /\ k = elem[me[t].at].key
                                     THEN me[t].at ELSE table[k],
         UNCHANGED <<elem, queue, num, told>>
  PROVE  IInv'
<1>1. /\ me' = [me EXCEPT ![t] = r] /\ fault' = fault /\ me' \in [Clients -> Local]
      /\ me'[t] = r /\ (\A u \in Clients : u # t => me'[u] = me[u])
  BY Updated DEF IInv, Goto
<1>2. lock' \in Seq(Clients) /\ Lined' /\ Lock!Holds(t)'
  BY LockGoto DEF IInv, Resting
<1>3. (\A u \in Clients : u # t => me[u].at = None) /\ AtDiscard = {me[t].at} \ {None}
  BY OneDiscard DEF IInv
<1>4. me[t].at \in Elems \cup {None} /\ None \notin Elems
  BY QueueAssumption DEF IInv, Types, Local
<1>6. Types'
  BY <1>1, <1>2 DEF IInv, Types
<1>7. \A u \in Clients : Placed(me[u])'
  BY <1>1 DEF IInv, Placed
<1>8. Discarding' /\ AtDiscard' = {r.at}
  BY <1>1, <1>2, <1>3, <1>4 DEF Discarding, AtDiscard, Live
<1>9. Closing'
  BY <1>1, ClosingKept DEF IInv
<1>10. Queued'
  BY DEF IInv, Queued, Live
<1>11. Tabled'
  <2>1. me[t].at # None => Live(me[t].at)
    BY DEF IInv, Discarding
  <2>2. ASSUME NEW e \in Elems, Live(e)
        PROVE  elem[e].key \in Keys /\ table'[elem[e].key] = IF e = r.at THEN None ELSE e
    <3>1. elem[e].key \in Keys /\ (e # r.at => elem[e].key # elem[r.at].key)
      BY <2>2 DEF IInv, Tabled
    <3>2. e # me[t].at => me[t].at = None \/ elem[e].key # elem[me[t].at].key
      BY <1>4, <2>1, <2>2 DEF IInv, Tabled
    <3>3. e # me[t].at => table[elem[e].key] = e
      BY <1>3, <2>2 DEF IInv, Tabled
    <3> QED BY <1>4, <3>1, <3>2, <3>3
  <2>3. ASSUME NEW k \in Keys, table'[k] # None
        PROVE  Live(table'[k]) /\ elem[table'[k]].key = k
    <3>1. table[k] # None => Live(table[k]) /\ elem[table[k]].key = k
      BY DEF IInv, Tabled
    <3> QED BY <1>4, <2>1, <2>3, <3>1
  <2>4. \A e, f \in Elems : Live(e) /\ Live(f) /\ elem[e].key = elem[f].key => e = f
    BY DEF IInv, Tabled
  <2>5. elem' = elem /\ (\A e \in Elems : e \in AtDiscard' <=> e = r.at)
    BY <1>8
  <2>6. \A e \in Elems : elem'[e].state = "live" <=> Live(e)
    BY <2>5 DEF Live
  <2>7. ASSUME NEW e \in Elems, elem'[e].state = "live"
        PROVE  /\ elem'[e].key \in Keys
               /\ table'[elem'[e].key] = IF e \in AtDiscard' THEN None ELSE e
    BY <2>2, <2>5, <2>6, <2>7
  <2>8. ASSUME NEW e \in Elems, NEW f \in Elems, elem'[e].state = "live",
               elem'[f].state = "live", elem'[e].key = elem'[f].key
        PROVE  e = f
    BY <2>4, <2>5, <2>6, <2>8
  <2>9. ASSUME NEW k \in Keys, table'[k] # None
        PROVE  elem'[table'[k]].state = "live" /\ elem'[table'[k]].key = k
    BY <2>3, <2>5, <2>9 DEF Live
  <2> QED BY <2>7, <2>8, <2>9, TabledNext
<1>12. Made'
  BY <1>1 DEF IInv, Made
<1>13. LinksHeld'
  BY <1>1, SameLinks DEF IInv, Live
<1> QED BY <1>2, <1>6, <1>7, <1>8, <1>9, <1>10, <1>11, <1>12, <1>13 DEF IInv

LEMMA PutsBack ==
  ASSUME IInv, NEW t \in Clients, NEW r \in Local, Return(t, r), r.pc = "idle",
         Placed(r), r.ref = me[t].ref, r.n = me[t].n, r.at = None, me[t].at # None,
         me[t].pc \notin {"idle", "deinit", "closed"},
         table' = [table EXCEPT ![elem[me[t].at].key] = me[t].at],
         UNCHANGED <<elem, queue, num, told>>
  PROVE  IInv'
<1>1. /\ me' = [me EXCEPT ![t] = r] /\ fault' = fault /\ me' \in [Clients -> Local]
      /\ me'[t] = r /\ (\A u \in Clients : u # t => me'[u] = me[u]) /\ Lock!Holds(t)
  BY Updated DEF IInv, Return, Lock!Release
<1>2. lock' \in Seq(Clients) /\ Lined'
  BY LockReturn DEF IInv, Resting
<1>3. (\A u \in Clients : u # t => me[u].at = None) /\ AtDiscard = {me[t].at}
  BY <1>1, OneDiscard DEF IInv
<1>4. me[t].at \in Elems /\ Live(me[t].at) /\ None \notin Elems /\ elem[me[t].at].key \in Keys
  <2>1. me[t].at \in Elems /\ None \notin Elems
    BY QueueAssumption DEF IInv, Types, Local
  <2>2. Live(me[t].at)
    BY DEF IInv, Discarding
  <2> QED BY <2>1, <2>2 DEF IInv, Tabled
<1>5. table' \in [Keys -> Elems \cup {None}]
  BY <1>4 DEF IInv, Types
<1>6. Types'
  BY <1>1, <1>2, <1>5 DEF IInv, Types
<1>7. \A u \in Clients : Placed(me[u])'
  BY <1>1 DEF IInv, Placed
<1>8. Discarding' /\ AtDiscard' = {}
  BY <1>1, <1>3 DEF Discarding, AtDiscard
<1>9. Closing'
  BY <1>1, ClosingKept DEF IInv
<1>10. Queued'
  BY DEF IInv, Queued, Live
<1>11. Tabled'
  <2>1. ASSUME NEW e \in Elems, Live(e)
        PROVE  elem[e].key \in Keys /\ table'[elem[e].key] = e
    BY <1>3, <1>4, <2>1 DEF IInv, Tabled, Types
  <2>2. ASSUME NEW k \in Keys, table'[k] # None
        PROVE  Live(table'[k]) /\ elem[table'[k]].key = k
    BY <1>4, <2>2 DEF IInv, Tabled, Types
  <2> QED BY <1>8, <2>1, <2>2 DEF IInv, Tabled, Live
<1>12. Made'
  BY <1>1 DEF IInv, Made
<1>13. LinksHeld'
  BY <1>1, SameLinks DEF IInv, Live
<1> QED BY <1>2, <1>6, <1>7, <1>8, <1>9, <1>10, <1>11, <1>12, <1>13 DEF IInv

LEMMA Frees ==
  ASSUME IInv, NEW e \in Elems, Live(e), Free(e), AtDiscard \subseteq {e}, AtDiscard' = {},
         \A k \in Keys : table'[k] = IF k = elem[e].key THEN None ELSE table[k],
         table' \in [Keys -> Elems \cup {None}]
  PROVE  /\ elem' \in [Elems -> Element] /\ queue' \in Seq(Elems) /\ num' \in Int
         /\ \A f \in Elems : f # e => elem'[f] = elem[f]
         /\ elem'[e].state = "freed"
         /\ Queued' /\ Tabled'
<1>1. elem \in [Elems -> Element] /\ queue \in Seq(Elems) /\ num \in Int /\ elem[e].weight \in Nat
  BY DEF IInv, Types, Element
<1>2. [Unused EXCEPT !.state = "freed"] \in Element /\ [Unused EXCEPT !.state = "freed"].state = "freed"
  <2>1. Unused \in Element
    BY DEF Unused, Element
  <2> QED BY <2>1 DEF Element
<1>3. /\ elem' \in [Elems -> Element] /\ elem'[e].state = "freed"
      /\ \A f \in Elems : f # e => elem'[f] = elem[f]
  BY <1>1, <1>2 DEF Free
<1>4. num' \in Int
  BY <1>1 DEF Free
<1>5. queue' \in Seq(Elems) /\ Once(queue') /\ In(queue') = In(queue) \ {e}
  BY <1>1, TakenOutIs DEF IInv, Queued, Free, Without
<1>6. \A f \in Elems : Live(f)' <=> Live(f) /\ f # e
  BY <1>3 DEF Live
<1>7. Queued'
  BY <1>5, <1>6 DEF IInv, Queued
<1>8. Tabled'
  <2>1. None \notin Elems
    BY QueueAssumption
  <2>2. ASSUME NEW f \in Elems, Live(f), f # e
        PROVE  elem[f].key \in Keys /\ table'[elem[f].key] = f
    BY <2>2 DEF IInv, Tabled
  <2>3. ASSUME NEW k \in Keys, table'[k] # None
        PROVE  Live(table'[k]) /\ elem[table'[k]].key = k /\ table'[k] # e /\ table'[k] \in Elems
    BY <2>3 DEF IInv, Tabled
  <2>4. \A f, g \in Elems : Live(f) /\ Live(g) /\ elem[f].key = elem[g].key => f = g
    BY DEF IInv, Tabled
  <2>5. \A f \in Elems : Live(f)' => elem'[f].key \in Keys /\ table'[elem'[f].key] = f
    BY <1>3, <1>6, <2>2
  <2>6. \A f, g \in Elems : Live(f)' /\ Live(g)' /\ elem'[f].key = elem'[g].key => f = g
    BY <1>3, <1>6, <2>4
  <2>7. \A k \in Keys : table'[k] # None =>
                            elem'[table'[k]].state = "live" /\ elem'[table'[k]].key = k
    BY <1>3, <2>3 DEF Live
  <2>8. Tabled'
    BY <2>5, <2>6, <2>7 DEF Tabled, Live
  <2> QED BY <2>8
<1> QED BY <1>3, <1>4, <1>5, <1>7, <1>8

LEMMA FreedLinks ==
  ASSUME IInv, NEW e \in Elems,
         \A f \in Elems : f # e => elem'[f] = elem[f], elem'[e].state = "freed",
         \A u \in Clients : \/ me'[u].ref = me[u].ref /\ me'[u].n = me[u].n
                            \/ me[u].ref = e /\ me'[u].ref = None
  PROVE  Made' /\ LinksHeld'
<1>1. None \notin Elems
  BY QueueAssumption
<1>2. \A f \in Elems : Live(f)' => f # e /\ Live(f) /\ elem'[f] = elem[f]
  BY DEF Live
<1>3. \A f \in Elems : f # e => References(f)' = References(f)
  BY <1>1 DEF References
<1>4. LinksHeld'
  BY <1>2, <1>3 DEF IInv, LinksHeld
<1>5. \A u \in Clients : me[u].ref \in Elems \cup {None}
  BY DEF IInv, Types, Local
<1>6. Made'
  BY <1>1, <1>5 DEF IInv, Made
<1> QED BY <1>4, <1>6

LEMMA FreesAndReturns ==
  ASSUME IInv, NEW t \in Clients, NEW e \in Elems, me[t].ref = e, Live(e), Free(e),
         me[t].at \in {None, e}, Return(t, Idle), told' \in [Elems -> Nat],
         table' \in [Keys -> Elems \cup {None}],
         \A k \in Keys : table'[k] = IF k = elem[e].key THEN None ELSE table[k]
  PROVE  IInv'
<1>0. Idle \in Local /\ Placed(Idle) /\ Idle.pc = "idle" /\ Idle.ref = None /\ Idle.at = None
  BY QueueAssumption DEF Idle, Local, Labels, Placed
<1>1. /\ me' = [me EXCEPT ![t] = Idle] /\ fault' = fault /\ me' \in [Clients -> Local]
      /\ me'[t] = Idle /\ (\A u \in Clients : u # t => me'[u] = me[u]) /\ Lock!Holds(t)
  BY <1>0, Updated DEF IInv, Return, Lock!Release
<1>2. lock' \in Seq(Clients) /\ Lined'
  BY <1>0, LockReturn DEF IInv, Resting
<1>3. (\A u \in Clients : u # t => me[u].at = None) /\ AtDiscard \subseteq {e}
  BY <1>1, OneDiscard DEF IInv
<1>4. Discarding' /\ AtDiscard' = {}
  BY <1>0, <1>1, <1>3 DEF Discarding, AtDiscard
<1>5. /\ elem' \in [Elems -> Element] /\ queue' \in Seq(Elems) /\ num' \in Int
      /\ (\A f \in Elems : f # e => elem'[f] = elem[f]) /\ elem'[e].state = "freed"
      /\ Queued' /\ Tabled'
  BY <1>3, <1>4, Frees
<1>6. Types'
  BY <1>1, <1>2, <1>5 DEF IInv, Types
<1>7. \A u \in Clients : Placed(me[u])'
  BY <1>0, <1>1 DEF IInv, Placed
<1>8. Closing'
  <2>1. me[t].ref # None
    BY QueueAssumption
  <2> QED BY <1>0, <1>1, <2>1, ClosingKept DEF IInv
<1>9. Made' /\ LinksHeld'
  BY <1>0, <1>1, <1>5, FreedLinks
<1> QED BY <1>2, <1>4, <1>5, <1>6, <1>7, <1>8, <1>9 DEF IInv

-----------------------------------------------------------------------------
(***************************************************************************)
(* The steps that change a link count.                                     *)
(***************************************************************************)
LEMMA Counts ==
  ASSUME IInv, NEW t \in Clients, NEW e \in Elems, NEW r \in Local, Return(t, r), r.pc = "idle",
         Placed(r), r.at = None, me[t].at = None, me[t].pc \notin {"idle", "deinit", "closed"},
         Live(e), r.ref = e \/ me[t].ref = e, r.ref \in {None, e},
         NEW c \in Int, elem' = [elem EXCEPT ![e].cnt = c],
         UNCHANGED <<table, num, told>>,
         queue' = queue \/ queue' = EnQueue(e),
         LinksHeld'
  PROVE  IInv'
<1>1. /\ me' = [me EXCEPT ![t] = r] /\ fault' = fault /\ me' \in [Clients -> Local]
      /\ me'[t] = r /\ (\A u \in Clients : u # t => me'[u] = me[u]) /\ Lock!Holds(t)
  BY Updated DEF IInv, Return, Lock!Release
<1>2. lock' \in Seq(Clients) /\ Lined'
  BY LockReturn DEF IInv, Resting
<1>3. \A u \in Clients : me[u].at = None
  BY <1>1, OneDiscard DEF IInv
<1>4. /\ elem' \in [Elems -> Element]
      /\ \A f \in Elems : elem'[f].state = elem[f].state /\ elem'[f].key = elem[f].key
  BY FieldsKept DEF IInv
<1>5. queue' \in Seq(Elems) /\ Queued'
  <2>1. e \in In(queue) /\ \A f \in Elems : Live(f)' <=> Live(f)
    BY <1>4 DEF IInv, Queued, Live
  <2>2. CASE queue' = queue
    BY <2>1, <2>2 DEF IInv, Types, Queued
  <2>3. CASE queue' = EnQueue(e)
    <3>1. queue' \in Seq(Elems) /\ Once(queue') /\ In(queue') = In(queue) \cup {e}
      BY <2>3, EnQueuePuts DEF IInv, Types, Queued
    <3> QED BY <2>1, <3>1 DEF IInv, Queued
  <2> QED BY <2>2, <2>3
<1>6. Types'
  BY <1>1, <1>2, <1>4, <1>5 DEF IInv, Types
<1>7. \A u \in Clients : Placed(me[u])'
  BY <1>1 DEF IInv, Placed
<1>8. Discarding' /\ AtDiscard' = AtDiscard
  BY <1>1, <1>3 DEF Discarding, AtDiscard
<1>9. Closing'
  BY <1>1, ClosingKept DEF IInv
<1>10. Tabled'
  <2>1. \A k \in Keys : table[k] # None => table[k] \in Elems
    BY DEF IInv, Types
  <2> QED BY <1>4, <1>8, <2>1 DEF IInv, Tabled, Live
<1>11. Made'
  <2>1. \A u \in Clients : me[u].ref # None => me[u].ref \in Elems
    BY DEF IInv, Types, Local
  <2> QED BY <1>1, <1>4, <2>1 DEF IInv, Made, Live
<1> QED BY <1>2, <1>5, <1>6, <1>7, <1>8, <1>9, <1>10, <1>11 DEF IInv

LEMMA BackIs ==
  ASSUME NEW t \in Clients, me[t] \in Local
  PROVE  /\ Back(t) \in Local /\ Back(t).pc = "idle" /\ Back(t).ref = me[t].ref
         /\ Back(t).n = me[t].n /\ Back(t).key = None /\ Back(t).at = None
<1>1. None \in Keys \cup {None} /\ None \in Elems \cup {None} /\ 0 \in Nat /\ "idle" \in Labels
  BY DEF Labels
<1> QED BY <1>1 DEF Back, Local

LEMMA LooksUp ==
  ASSUME IInv, NEW t \in Clients, LookedUp(t), table[me[t].key] # None
  PROVE  IInv'
<1> DEFINE e == table[me[t].key]
           r == [Back(t) EXCEPT !.ref = e, !.n = 1]
<1>1. me[t] \in Local /\ me[t].pc = "lookup" /\ Placed(me[t]) /\ Lock!Holds(t)
  BY DEF IInv, Types, LookedUp, Inside, At
<1>2. me[t].ref = None /\ me[t].key \in Keys /\ me[t].n = 0 /\ me[t].at = None
  BY <1>1 DEF Placed
<1>3. e \in Elems /\ Live(e) /\ None \notin Elems /\ elem[e].cnt \in Int
  <2>1. e \in Elems /\ None \notin Elems
    BY <1>2, QueueAssumption DEF IInv, Types
  <2>2. Live(e)
    BY <1>2 DEF IInv, Tabled
  <2> QED BY <2>1, <2>2 DEF IInv, Types, Element
<1> HIDE DEF e
<1>4. /\ Return(t, r) /\ elem' = [elem EXCEPT ![e].cnt = elem[e].cnt + 1]
      /\ UNCHANGED <<table, queue, num, told>>
  BY DEF LookedUp, e
<1>5. /\ r \in Local /\ r.pc = "idle" /\ r.ref = e /\ r.n = 1 /\ r.at = None /\ r.key = None
  <2>1. Back(t) \in Local /\ Back(t).pc = "idle" /\ Back(t).key = None /\ Back(t).at = None
    BY <1>1, BackIs
  <2>2. 1 \in 0..MaxRefs
    BY QueueAssumption
  <2> QED BY <1>3, <2>1, <2>2 DEF Local
<1>6. Placed(r)
  BY <1>3, <1>5 DEF Placed
<1> HIDE DEF r
<1>7. LinksHeld'
  <2>1. me' = [me EXCEPT ![t] = r]
    BY <1>4 DEF Return
  <2>2. /\ elem'[e].cnt = elem[e].cnt + 1
        /\ \A f \in Elems \ {e} : elem'[f] = elem[f]
    BY <1>3, <1>4 DEF IInv, Types, Element
  <2>3. \A f \in Elems \ {e} : Live(f)' => Live(f) /\ elem'[f].cnt = elem[f].cnt
    BY <2>2 DEF Live
  <2>4. Types /\ LinksHeld /\ me[t].ref \in {None, e} /\ r.n = me[t].n + 1
    BY <1>2, <1>5 DEF IInv
  <2>5. elem'[e].cnt = (IF Live(e) THEN elem[e].cnt ELSE 0) + 1
    BY <1>3, <2>2
  <2> QED BY <1>2, <1>3, <1>5, <2>1, <2>3, <2>4, <2>5, MoreLinks
<1>8. elem[e].cnt + 1 \in Int
  BY <1>3
<1> QED BY <1>1, <1>2, <1>3, <1>4, <1>5, <1>6, <1>7, <1>8, Counts

LEMMA Links ==
  ASSUME IInv, NEW t \in Clients, Link(t)
  PROVE  IInv'
<1> DEFINE e == me[t].ref
           r == [Back(t) EXCEPT !.n = @ + 1]
<1>1. me[t] \in Local /\ me[t].pc = "link" /\ Placed(me[t]) /\ Live(e)
  BY DEF IInv, Types, Link, Inside, At
<1>2. e \in Elems /\ e # None /\ me[t].at = None /\ me[t].n \in Nat /\ me[t].n < MaxRefs /\ MaxRefs \in Nat
  BY <1>1, QueueAssumption DEF Placed, Local
<1>3. elem[e].cnt \in Int
  BY <1>2 DEF IInv, Types, Element
<1>4. /\ Return(t, r) /\ elem' = [elem EXCEPT ![e].cnt = elem[e].cnt + 1]
      /\ UNCHANGED <<table, queue, num, told>>
  BY DEF Link
<1>5. r \in Local /\ r.pc = "idle" /\ r.ref = e /\ r.n = me[t].n + 1 /\ r.at = None /\ r.key = None
  <2>1. /\ Back(t) \in Local /\ Back(t).pc = "idle" /\ Back(t).key = None
        /\ Back(t).at = None /\ Back(t).ref = e /\ Back(t).n = me[t].n
    BY <1>1, BackIs
  <2>2. me[t].n + 1 \in 0..MaxRefs
    BY <1>2
  <2> QED BY <2>1, <2>2 DEF Local
<1>6. Placed(r)
  BY <1>2, <1>5 DEF Placed
<1> HIDE DEF r, e
<1>7. LinksHeld'
  <2>1. me' = [me EXCEPT ![t] = r]
    BY <1>4 DEF Return
  <2>2. /\ elem'[e].cnt = elem[e].cnt + 1
        /\ \A f \in Elems \ {e} : elem'[f] = elem[f]
    BY <1>2, <1>4 DEF IInv, Types, Element
  <2>3. me[t].ref = e
    BY DEF e
  <2>4. \A f \in Elems \ {e} : Live(f)' => Live(f) /\ elem'[f].cnt = elem[f].cnt
    BY <2>2 DEF Live
  <2>5. Types /\ LinksHeld /\ me[t].ref \in {None, e}
    BY <2>3 DEF IInv
  <2>6. elem'[e].cnt = (IF Live(e) THEN elem[e].cnt ELSE 0) + 1
    BY <1>1, <2>2
  <2>7. Live(e) \/ References(e) = {}
    BY <1>1
  <2>8. me[t].ref = None => me[t].n = 0
    BY <1>2, <2>3
  <2> QED BY <1>2, <1>5, <2>1, <2>4, <2>5, <2>6, <2>7, <2>8, MoreLinks
<1>8. elem[e].cnt + 1 \in Int
  BY <1>3
<1> QED BY <1>1, <1>2, <1>4, <1>5, <1>6, <1>7, <1>8, Counts

LEMMA Unlinks ==
  ASSUME IInv, NEW t \in Clients, Unlink(t)
  PROVE  IInv'
<1>0. PICK e : e = me[t].ref
  OBVIOUS
<1> DEFINE r == Dropped(t)
<1>1. me[t] \in Local /\ me[t].pc = "unlink" /\ Placed(me[t]) /\ Live(e)
  BY <1>0 DEF IInv, Types, Unlink, Inside, At
<1>2. e \in Elems /\ e # None /\ me[t].at = None /\ me[t].n \in 1..MaxRefs /\ MaxRefs \in Nat
  BY <1>0, <1>1, QueueAssumption DEF Placed, Local
<1>3. elem[e].cnt \in Int
  BY <1>2 DEF IInv, Types, Element
<1>4. /\ Return(t, r) /\ elem' = [elem EXCEPT ![e].cnt = elem[e].cnt - 1]
      /\ UNCHANGED <<table, num, told>> /\ queue' = EnQueue(e)
  BY <1>0 DEF Unlink
<1>5. /\ r \in Local /\ r.pc = "idle" /\ r.at = None /\ Placed(r)
      /\ (r.ref = e /\ r.n = me[t].n - 1) \/ (me[t].n = 1 /\ r.ref = None)
  <2>1. CASE me[t].n = 1
    <3>1. r = Idle
      BY <2>1 DEF Dropped
    <3> QED BY <2>1, <3>1, QueueAssumption DEF Idle, Local, Labels, Placed
  <2>2. CASE me[t].n # 1
    <3> DEFINE b == [Back(t) EXCEPT !.n = @ - 1]
    <3>1. b \in Local /\ b.pc = "idle" /\ b.at = None /\ b.ref = e /\ b.n = me[t].n - 1
      <4>1. /\ Back(t) \in Local /\ Back(t).pc = "idle" /\ Back(t).at = None
            /\ Back(t).ref = e /\ Back(t).n = me[t].n
        BY <1>0, <1>1, BackIs
      <4>2. me[t].n - 1 \in 0..MaxRefs
        BY <1>2
      <4> QED BY <4>1, <4>2 DEF Local
    <3>2. r = b
      BY <2>2 DEF Dropped
    <3>3. Placed(b)
      BY <1>2, <2>2, <3>1 DEF Placed
    <3> QED BY <3>1, <3>2, <3>3
  <2> QED BY <2>1, <2>2
<1> HIDE DEF r
<1>7. LinksHeld'
  <2>1. me' = [me EXCEPT ![t] = r]
    BY <1>4 DEF Return
  <2>2. /\ elem'[e].cnt = elem[e].cnt - 1
        /\ \A f \in Elems \ {e} : elem'[f] = elem[f]
    BY <1>2, <1>4 DEF IInv, Types, Element
  <2>3. \A f \in Elems \ {e} : Live(f)' => Live(f) /\ elem'[f].cnt = elem[f].cnt
    BY <2>2 DEF Live
  <2>4. Types /\ LinksHeld /\ me[t].n > 0
    BY <1>2 DEF IInv
  <2>5. Live(e)' => Live(e) /\ elem'[e].cnt = elem[e].cnt - 1
    BY <1>1, <1>0, <2>2
  <2>6. r \in Local /\ e \in Elems /\ me[t].ref = e
    BY <1>2, <1>5, <1>0
  <2>7. (r.ref = e /\ r.n = me[t].n - 1) \/ (me[t].n = 1 /\ r.ref = None)
    BY <1>5
  <2> QED BY <2>1, <2>3, <2>4, <2>5, <2>6, <2>7, FewerLinks
<1>8. elem[e].cnt - 1 \in Int
  BY <1>3
<1> QED BY <1>1, <1>2, <1>4, <1>5, <1>0, <1>7, <1>8, Counts

LEMMA Adds ==
  ASSUME IInv, NEW t \in Clients, AddElement(t)
  PROVE  IInv'
<1> DEFINE k == me[t].key
<1>1. me[t] \in Local /\ me[t].pc = "add" /\ Placed(me[t]) /\ Lock!Holds(t)
  BY DEF IInv, Types, AddElement, Inside, At
<1>2. /\ me[t].ref = None /\ k \in Keys /\ me[t].n = 0 /\ me[t].at = None /\ me[t].weight \in Nat
      /\ None \notin Elems
  BY <1>1, QueueAssumption DEF Placed, Local
<1>3. PICK e \in Elems :
        /\ elem[e].state = "unused" /\ table[k] = None
        /\ elem' = [elem EXCEPT ![e] = [state |-> "live", key |-> k, cnt |-> 1,
                                        weight |-> me[t].weight, locked |-> FALSE]]
        /\ table' = [table EXCEPT ![k] = e]
        /\ queue' = EnQueue(e)
        /\ num' = num + me[t].weight
        /\ Return(t, [Back(t) EXCEPT !.ref = e, !.n = 1])
        /\ told' = told
  BY DEF AddElement
<1> DEFINE r == [Back(t) EXCEPT !.ref = e, !.n = 1]
<1>4. r \in Local /\ r.pc = "idle" /\ r.ref = e /\ r.n = 1 /\ r.at = None
  <2>1. Back(t) \in Local /\ Back(t).pc = "idle" /\ Back(t).key = None /\ Back(t).at = None
    BY <1>1, BackIs
  <2>2. 1 \in 0..MaxRefs
    BY QueueAssumption
  <2> QED BY <2>1, <2>2 DEF Local
<1>5. Placed(r)
  BY <1>2, <1>4 DEF Placed
<1> HIDE DEF r, k
<1>6. /\ me' = [me EXCEPT ![t] = r] /\ fault' = fault /\ me' \in [Clients -> Local]
      /\ me'[t] = r /\ (\A u \in Clients : u # t => me'[u] = me[u])
  BY <1>3, <1>4, Updated DEF IInv, Return, r
<1>7. lock' \in Seq(Clients) /\ Lined'
  BY <1>3, <1>4, LockReturn DEF IInv, Resting, r
<1>8. (\A u \in Clients : me[u].at = None) /\ AtDiscard = {}
  BY <1>1, <1>2, OneDiscard DEF IInv
<1>9. /\ elem' \in [Elems -> Element] /\ elem'[e].state = "live" /\ elem'[e].key = k
      /\ elem'[e].cnt = 1 /\ \A f \in Elems : f # e => elem'[f] = elem[f]
  BY <1>2, <1>3 DEF IInv, Types, Element
<1>10. ~Live(e) /\ \A f \in Elems : Live(f)' <=> Live(f) \/ f = e
  BY <1>3, <1>9 DEF Live
<1>11. queue' \in Seq(Elems) /\ Queued'
  <2>1. queue' \in Seq(Elems) /\ Once(queue') /\ In(queue') = In(queue) \cup {e}
    BY <1>3, EnQueuePuts DEF IInv, Types, Queued
  <2> QED BY <1>10, <2>1 DEF IInv, Queued
<1>12. table' \in [Keys -> Elems \cup {None}] /\ num' \in Int
  BY <1>2, <1>3 DEF IInv, Types
<1>13. Types'
  BY <1>3, <1>6, <1>7, <1>9, <1>11, <1>12 DEF IInv, Types
<1>14. \A u \in Clients : Placed(me[u])'
  BY <1>5, <1>6 DEF IInv, Placed
<1>15. Discarding' /\ AtDiscard' = {}
  BY <1>4, <1>6, <1>8 DEF Discarding, AtDiscard
<1>16. Closing'
  BY <1>1, <1>4, <1>6, ClosingKept DEF IInv
<1>17. Tabled'
  <2>1. ASSUME NEW f \in Elems, Live(f)
        PROVE  elem[f].key \in Keys /\ table[elem[f].key] = f /\ elem[f].key # k
    BY <1>2, <1>3, <1>8, <2>1 DEF IInv, Tabled
  <2>2. \A f \in Elems : Live(f)' => elem'[f].key \in Keys /\ table'[elem'[f].key] = f
    BY <1>2, <1>3, <1>9, <1>10, <2>1 DEF IInv, Types
  <2>3. \A f, g \in Elems : Live(f) /\ Live(g) /\ elem[f].key = elem[g].key => f = g
    BY DEF IInv, Tabled
  <2>4. \A f, g \in Elems : Live(f)' /\ Live(g)' /\ elem'[f].key = elem'[g].key => f = g
    BY <1>9, <1>10, <2>1, <2>3
  <2>5. ASSUME NEW j \in Keys, table'[j] # None
        PROVE  elem'[table'[j]].state = "live" /\ elem'[table'[j]].key = j
    <3>1. CASE j = k
      BY <1>3, <1>9, <3>1 DEF IInv, Types
    <3>2. CASE j # k
      <4>1. table'[j] = table[j] /\ Live(table[j]) /\ elem[table[j]].key = j /\ table[j] \in Elems
        BY <1>3, <2>5, <3>2 DEF IInv, Types, Tabled
      <4> QED BY <1>9, <1>10, <4>1 DEF Live
    <3> QED BY <3>1, <3>2
  <2>6. Tabled'
    BY <1>15, <2>2, <2>4, <2>5 DEF Tabled, Live
  <2> QED BY <2>6
<1>18. Made'
  <2>1. \A u \in Clients : me[u].ref # None => me[u].ref \in Elems
    BY DEF IInv, Types, Local
  <2> QED BY <1>4, <1>6, <1>9, <2>1 DEF IInv, Made
<1>19. LinksHeld'
  <2>1. References(e) = {}
    BY <1>2, <1>3 DEF IInv, Made, References
  <2>2. elem'[e].cnt = (IF Live(e) THEN elem[e].cnt ELSE 0) + 1
    BY <1>9, <1>10
  <2>3. \A f \in Elems \ {e} : Live(f)' => Live(f) /\ elem'[f].cnt = elem[f].cnt
    BY <1>9 DEF Live
  <2>4. Types /\ LinksHeld /\ me[t].ref \in {None, e} /\ r.n = me[t].n + 1
    BY <1>2, <1>4 DEF IInv
  <2> QED BY <1>2, <1>4, <1>6, <2>1, <2>2, <2>3, <2>4, MoreLinks
<1> QED BY <1>7, <1>11, <1>13, <1>14, <1>15, <1>16, <1>17, <1>18, <1>19 DEF IInv

LEMMA LocksItem ==
  ASSUME IInv, NEW t \in Clients, LockItem(t)
  PROVE  IInv'
<1> DEFINE e == me[t].ref
<1>1. /\ elem' = [elem EXCEPT ![e].locked = ~elem[e].locked]
      /\ UNCHANGED <<table, queue, num, lock, me, told, fault>>
  BY DEF LockItem
<1>2. /\ elem' \in [Elems -> Element]
      /\ \A f \in Elems : /\ elem'[f].state = elem[f].state /\ elem'[f].key = elem[f].key
                          /\ elem'[f].cnt = elem[f].cnt
  <2>1. e \in Elems /\ elem \in [Elems -> Element] /\ elem[e] \in Element
    BY QueueAssumption DEF LockItem, IInv, Types, Local
  <2> HIDE DEF e
  <2>2. /\ [elem[e] EXCEPT !.locked = ~elem[e].locked] \in Element
        /\ [elem[e] EXCEPT !.locked = ~elem[e].locked].state = elem[e].state
        /\ [elem[e] EXCEPT !.locked = ~elem[e].locked].key = elem[e].key
        /\ [elem[e] EXCEPT !.locked = ~elem[e].locked].cnt = elem[e].cnt
    BY <2>1 DEF Element
  <2>3. elem' = [elem EXCEPT ![e] = [elem[e] EXCEPT !.locked = ~elem[e].locked]]
    BY <1>1
  <2> QED BY <2>1, <2>2, <2>3
<1>3. \A f \in Elems : Live(f)' <=> Live(f)
  BY <1>2 DEF Live
<1>4. Types' /\ Lined' /\ (\A u \in Clients : Placed(me[u])') /\ Closing'
  BY <1>1, <1>2 DEF IInv, Types, Lined, Placed, Resting, Closing, InUse
<1>5. \A u \in Clients : /\ me[u].at # None => me[u].at \in Elems
                         /\ me[u].ref # None => me[u].ref \in Elems
  BY DEF IInv, Types, Local
<1>6. Discarding'
  <2>1. ASSUME NEW u \in Clients, me[u].at # None
        PROVE  Lock!Holds(u) /\ Live(me[u].at) /\ (me[u].pc = "discard" => elem[me[u].at].cnt = 0)
    BY <2>1 DEF IInv, Discarding
  <2>2. ASSUME NEW u \in Clients, me'[u].at # None
        PROVE  /\ Lock!Holds(u)' /\ elem'[me'[u].at].state = "live"
               /\ me'[u].pc = "discard" => elem'[me'[u].at].cnt = 0
    <3>1. me' = me /\ lock' = lock /\ me[u].at \in Elems
      BY <1>1, <1>5, <2>2
    <3> QED BY <1>2, <2>1, <2>2, <3>1 DEF Live, Lock!Holds
  <2> QED BY <2>2 DEF Discarding, Live
<1>7. Made'
  BY <1>1, <1>2, <1>5 DEF IInv, Made
<1>8. Queued'
  BY <1>1, <1>3 DEF IInv, Queued
<1>9. Tabled'
  <2>1. AtDiscard' = AtDiscard /\ \A k \in Keys : table[k] # None => table[k] \in Elems
    BY <1>1 DEF AtDiscard, IInv, Types
  <2> QED BY SMTT(30), <1>1, <1>2, <2>1 DEF IInv, Tabled, Live
<1>10. LinksHeld'
  BY <1>1, <1>2, <1>3, SameLinks DEF IInv
<1> QED BY <1>4, <1>6, <1>7, <1>8, <1>9, <1>10 DEF IInv

-----------------------------------------------------------------------------
(***************************************************************************)
(* The steps of xhqAdd, xhqRemove and xhqDeInit that discard.              *)
(***************************************************************************)
LEMMA DiscardsFrom ==
  ASSUME IInv, NEW t \in Clients, NEW e, e = me[t].at, Lock!Holds(t), ~fault,
         me[t].pc \in {"add", "discard"}, DiscardFrom(t, e)
  PROVE  IInv'
<1>1. PICK i \in Unlinked(e) :
        /\ table' = IF e = None
                    THEN [table EXCEPT ![elem[queue[i]].key] = None]
                    ELSE [table EXCEPT ![elem[e].key] = e, ![elem[queue[i]].key] = None]
        /\ Goto(t, [Called(t, "discard") EXCEPT !.at = queue[i]])
  BY DEF DiscardFrom
<1>2. UNCHANGED <<elem, queue, num, told>>
  BY DEF DiscardFrom
<1> DEFINE d == queue[i]
           r == [Called(t, "discard") EXCEPT !.at = d]
<1>3. d \in Elems /\ Live(d) /\ elem[d].cnt = 0 /\ None \notin Elems
  <2>1. i \in DOMAIN queue /\ d \in In(queue)
    BY DEF Unlinked, In
  <2> QED BY <2>1, QueueAssumption DEF IInv, Queued, Unlinked
<1>4. d # e
  <2>1. CASE e = None
    BY <1>3, <2>1
  <2>2. CASE e # None
    <3>1. i \in DOMAIN queue /\ \E j \in DOMAIN queue : queue[j] = e /\ i < j
      BY <2>2 DEF Unlinked
    <3>2. Once(queue) /\ DOMAIN queue \subseteq Nat
      BY DEF IInv, Queued, Types
    <3> QED BY <3>1, <3>2 DEF Once
  <2> QED BY <2>1, <2>2
<1>5. me[t] \in Local /\ Placed(me[t])
  BY DEF IInv, Types
<1> HIDE DEF d
<1>6. /\ r \in Local /\ r.pc = "discard" /\ r.at = d /\ r.ref = me[t].ref /\ r.n = me[t].n
      /\ r.key = me[t].key
  BY <1>3, <1>5 DEF Called, Local, Labels
<1>7. Placed(r)
  BY <1>3, <1>5, <1>6 DEF Placed
<1>8. table' = [k \in Keys |-> IF k = elem[d].key THEN None
                               ELSE IF e # None /\ k = elem[e].key THEN e ELSE table[k]]
  <2>1. table \in [Keys -> Elems \cup {None}] /\ elem[d].key \in Keys
    BY <1>3 DEF IInv, Types, Tabled
  <2>2. CASE e = None
    BY <1>1, <2>1, <2>2 DEF d
  <2>3. CASE e # None
    <3>1. e \in Elems /\ Live(e)
      BY <1>5, <2>3 DEF IInv, Discarding, Local
    <3>2. elem[e].key \in Keys
      BY <3>1 DEF IInv, Tabled
    <3>3. table' = [table EXCEPT ![elem[e].key] = e, ![elem[d].key] = None]
      BY <1>1, <2>3 DEF d
    <3> QED BY <2>1, <2>3, <3>2, <3>3
  <2> QED BY <2>2, <2>3
<1>9. Goto(t, r)
  BY <1>1 DEF d
<1>10. /\ table' \in [Keys -> Elems \cup {None}]
       /\ \A k \in Keys : table'[k] = IF k = elem[r.at].key THEN None
                                      ELSE IF me[t].at # None /\ k = elem[me[t].at].key
                                      THEN me[t].at ELSE table[k]
  <2>1. e \in Elems \cup {None} /\ table \in [Keys -> Elems \cup {None}]
    BY <1>5 DEF IInv, Types, Local
  <2> QED BY <1>6, <1>8, <2>1
<1> HIDE DEF r
<1> QED BY <1>2, <1>3, <1>4, <1>6, <1>7, <1>9, <1>10, TakesOff

LEMMA Discards ==
  ASSUME IInv, NEW t \in Clients, Discarded(t)
  PROVE  IInv'
<1>0. PICK e : e = me[t].at
  OBVIOUS
<1> DEFINE r == [Called(t, "add") EXCEPT !.at = None]
<1>1. me[t] \in Local /\ me[t].pc = "discard" /\ Placed(me[t]) /\ Lock!Holds(t)
  BY DEF IInv, Types, Discarded, Inside, At
<1>2. e \in Elems /\ e # None /\ Live(e) /\ me[t].ref = None /\ None \notin Elems
  BY <1>0, <1>1, QueueAssumption DEF IInv, Discarding, Placed, Local
<1>3. Free(e) /\ Goto(t, r) /\ table' = table /\ told' = [told EXCEPT ![e] = @ + 1]
  BY <1>0 DEF Discarded
<1>4. /\ r \in Local /\ r.pc = "add" /\ r.at = None /\ r.ref = me[t].ref /\ r.n = me[t].n
      /\ r.key = me[t].key
  BY <1>1 DEF Called, Local, Labels
<1>5. Placed(r)
  BY <1>1, <1>4 DEF Placed
<1> HIDE DEF r
<1>6. /\ me' = [me EXCEPT ![t] = r] /\ fault' = fault /\ me' \in [Clients -> Local]
      /\ me'[t] = r /\ (\A u \in Clients : u # t => me'[u] = me[u])
  BY <1>3, <1>4, Updated DEF IInv, Goto
<1>7. lock' \in Seq(Clients) /\ Lined'
  BY <1>1, <1>3, <1>4, LockGoto DEF IInv, Resting
<1>8. (\A u \in Clients : u # t => me[u].at = None) /\ AtDiscard = {e}
  BY <1>0, <1>1, <1>2, OneDiscard DEF IInv
<1>9. Discarding' /\ AtDiscard' = {}
  BY <1>4, <1>6, <1>8 DEF Discarding, AtDiscard
<1>10. \A k \in Keys : table'[k] = IF k = elem[e].key THEN None ELSE table[k]
  BY <1>2, <1>3, <1>8 DEF IInv, Tabled
<1>11. /\ elem' \in [Elems -> Element] /\ queue' \in Seq(Elems) /\ num' \in Int
       /\ (\A f \in Elems : f # e => elem'[f] = elem[f]) /\ elem'[e].state = "freed"
       /\ Queued' /\ Tabled'
  <2>1. table' \in [Keys -> Elems \cup {None}]
    BY <1>3 DEF IInv, Types
  <2> QED BY <1>2, <1>3, <1>8, <1>9, <1>10, <2>1, Frees
<1>12. Types'
  <2>1. told' \in [Elems -> Nat]
    BY <1>2, <1>3 DEF IInv, Types
  <2> QED BY <1>3, <1>6, <1>7, <1>11, <2>1 DEF IInv, Types
<1>13. \A u \in Clients : Placed(me[u])'
  BY <1>5, <1>6 DEF IInv, Placed
<1>14. Closing'
  BY <1>1, <1>4, <1>6, ClosingKept DEF IInv
<1>15. Made' /\ LinksHeld'
  <2>1. \A u \in Clients : me'[u].ref = me[u].ref /\ me'[u].n = me[u].n
    BY <1>4, <1>6
  <2> QED BY <1>2, <1>11, <2>1, FreedLinks
<1> QED BY <1>7, <1>9, <1>11, <1>12, <1>13, <1>14, <1>15 DEF IInv

LEMMA Removes ==
  ASSUME IInv, NEW t \in Clients, RemoveDiscards(t) \/ Removed(t) \/ RemoveKeeps(t)
  PROVE  IInv'
<1>1. me[t] \in Local /\ Placed(me[t]) /\ Lock!Holds(t) /\ ~fault /\ None \notin Elems
  BY QueueAssumption DEF IInv, Types, RemoveDiscards, Removed, RemoveKeeps, Inside, At
<1>2. PICK e : e = me[t].ref
  OBVIOUS
<1>3. /\ Back(t) \in Local /\ Back(t).pc = "idle" /\ Back(t).ref = me[t].ref
      /\ Back(t).n = me[t].n /\ Back(t).at = None
  BY <1>1, BackIs
<1>4. CASE RemoveDiscards(t)
  <2> DEFINE r == [Called(t, "removing") EXCEPT !.at = e]
  <2>1. me[t].pc = "remove" /\ e \in Elems /\ Live(e) /\ me[t].at = None
    BY <1>1, <1>2, <1>4 DEF RemoveDiscards, Inside, At, Placed, Local
  <2>2. r \in Local /\ r.pc = "removing" /\ r.at = e /\ r.ref = me[t].ref /\ r.n = me[t].n
    BY <1>1, <2>1 DEF Called, Local, Labels
  <2>3. Placed(r)
    BY <1>1, <1>2, <2>1, <2>2 DEF Placed
  <2>4. Goto(t, r) /\ table' = [table EXCEPT ![elem[e].key] = None] /\ UNCHANGED <<elem, queue, num, told>>
    BY <1>2, <1>4 DEF RemoveDiscards
  <2>5. /\ table' \in [Keys -> Elems \cup {None}]
        /\ \A k \in Keys : table'[k] = IF k = elem[e].key THEN None ELSE table[k]
    BY <2>1, <2>4 DEF IInv, Types
  <2> HIDE DEF r
  <2> QED BY <1>1, <2>1, <2>2, <2>3, <2>4, <2>5, TakesOff
<1>5. CASE Removed(t)
  <2>1. me[t].pc = "removing" /\ me[t].at = e /\ e \in Elems /\ e # None
    BY <1>1, <1>2, <1>5 DEF Removed, Inside, At, Placed, Local
  <2>2. Live(e) /\ elem[e].key \in Keys /\ table[elem[e].key] = None
    <3>1. e \in AtDiscard /\ Live(e)
      BY <2>1 DEF AtDiscard, IInv, Discarding
    <3> QED BY <2>1, <3>1 DEF IInv, Tabled
  <2>3. CASE elem[e].locked
    <3>1. /\ table' = [table EXCEPT ![elem[me[t].at].key] = me[t].at]
          /\ Return(t, Back(t)) /\ UNCHANGED <<elem, queue, num, told>>
      BY <1>5, <2>1, <2>3 DEF Removed
    <3>2. Placed(Back(t))
      BY <1>1, <1>3 DEF Placed
    <3> QED BY <1>3, <2>1, <3>1, <3>2, PutsBack
  <2>4. CASE ~elem[e].locked
    <3>1. Free(e) /\ table' = table /\ Return(t, Idle) /\ told' = [told EXCEPT ![e] = @ + 1]
      BY <1>5, <2>1, <2>4 DEF Removed
    <3>2. told' \in [Elems -> Nat] /\ table' \in [Keys -> Elems \cup {None}]
      BY <2>1, <3>1 DEF IInv, Types
    <3>3. \A k \in Keys : table'[k] = IF k = elem[e].key THEN None ELSE table[k]
      BY <2>2, <3>1
    <3> QED BY <1>2, <2>1, <2>2, <3>1, <3>2, <3>3, FreesAndReturns
  <2> QED BY <2>3, <2>4
<1>6. CASE RemoveKeeps(t)
  <2>1. me[t].pc = "keep" /\ me[t].at = None /\ e \in Elems /\ Live(e)
    BY <1>1, <1>2, <1>6 DEF RemoveKeeps, Inside, At, Placed, Local
  <2>2. CASE elem[e].locked
    <3>1. Return(t, Back(t)) /\ UNCHANGED <<elem, table, queue, num, told>>
      BY <1>2, <1>6, <2>2 DEF RemoveKeeps
    <3>2. Placed(Back(t))
      BY <1>1, <1>3 DEF Placed
    <3> QED BY <1>3, <2>1, <3>1, <3>2, Returns
  <2>3. CASE ~elem[e].locked
    <3>1. /\ Free(e) /\ table' = [table EXCEPT ![elem[e].key] = None] /\ Return(t, Idle)
          /\ told' = told
      BY <1>2, <1>6, <2>3 DEF RemoveKeeps
    <3>2. told' \in [Elems -> Nat] /\ table' \in [Keys -> Elems \cup {None}]
      BY <3>1 DEF IInv, Types
    <3>3. \A k \in Keys : table'[k] = IF k = elem[e].key THEN None ELSE table[k]
      BY <3>1 DEF IInv, Types
    <3> QED BY <1>2, <2>1, <3>1, <3>2, <3>3, FreesAndReturns
  <2> QED BY <2>2, <2>3
<1> QED BY <1>4, <1>5, <1>6

LEMMA Ends ==
  ASSUME IInv, NEW t \in Clients, DeInitNext(t) \/ DeInitDone(t)
  PROVE  IInv'
<1>1. /\ me[t] \in Local /\ Placed(me[t]) /\ Lock!Holds(t) /\ me[t].pc = "deinit"
      /\ me[t].at = None /\ ~InUse
  BY DEF IInv, Types, DeInitNext, DeInitDone, Inside, At, Placed, InUse
<1>2. /\ \A u \in Clients : me[u].ref = None /\ me[u].pc \in {"idle", "deinit", "closed"}
      /\ \A u \in Clients : me[u].at = None /\ me[u].n = 0
      /\ AtDiscard = {}
  <2>1. \A u \in Clients : me[u].ref = None /\ me[u].pc \in {"idle", "deinit", "closed"}
    BY <1>1 DEF IInv, Closing
  <2>2. \A u \in Clients : me[u].at = None /\ me[u].n = 0
    BY <2>1 DEF IInv, Placed
  <2> QED BY <2>1, <2>2 DEF AtDiscard
<1>3. CASE DeInitNext(t)
  <2> DEFINE e == Head(queue)
  <2>1. e \in Elems /\ Live(e)
    <3>1. queue # <<>> /\ queue \in Seq(Elems)
      BY <1>3 DEF DeInitNext, IInv, Types
    <3>2. e \in In(queue)
      BY <3>1, ReleaseTakes DEF IInv, Queued
    <3> QED BY <3>2 DEF IInv, Queued
  <2>2. /\ table' = [table EXCEPT ![elem[e].key] = None] /\ Free(e)
        /\ told' = [told EXCEPT ![e] = IF elem[e].locked THEN @ ELSE @ + 1]
        /\ UNCHANGED <<lock, me, fault>>
    BY <1>3 DEF DeInitNext
  <2> HIDE DEF e
  <2>3. /\ table' \in [Keys -> Elems \cup {None}] /\ told' \in [Elems -> Nat]
        /\ \A k \in Keys : table'[k] = IF k = elem[e].key THEN None ELSE table[k]
    <3>1. table \in [Keys -> Elems \cup {None}] /\ told \in [Elems -> Nat] /\ told[e] + 1 \in Nat
      BY <2>1 DEF IInv, Types
    <3>2. table' \in [Keys -> Elems \cup {None}]
      BY <2>2, <3>1
    <3>3. told' \in [Elems -> Nat]
      BY <2>2, <3>1
    <3>4. \A k \in Keys : table'[k] = IF k = elem[e].key THEN None ELSE table[k]
      BY <2>2, <3>1
    <3> QED BY <3>2, <3>3, <3>4
  <2>4. AtDiscard' = {} /\ Discarding'
    BY <1>2, <2>2 DEF AtDiscard, Discarding
  <2>5. PICK d : d = e
    OBVIOUS
  <2>6. /\ elem' \in [Elems -> Element] /\ queue' \in Seq(Elems) /\ num' \in Int
        /\ (\A f \in Elems : f # d => elem'[f] = elem[f]) /\ elem'[d].state = "freed"
        /\ Queued' /\ Tabled'
    BY <1>2, <2>1, <2>2, <2>3, <2>4, <2>5, Frees
  <2>7. Types' /\ Lined' /\ Closing' /\ \A u \in Clients : Placed(me[u])'
    BY <2>2, <2>3, <2>6 DEF IInv, Types, Lined, Resting, Closing, InUse, Placed
  <2>8. Made' /\ LinksHeld'
    BY <2>1, <2>2, <2>5, <2>6, FreedLinks
  <2> QED BY <2>4, <2>6, <2>7, <2>8 DEF IInv
<1>4. CASE DeInitDone(t)
  <2> DEFINE r == [Idle EXCEPT !.pc = "closed"]
  <2>1. /\ lock' = Tail(lock) /\ me' = [u \in Clients |-> r]
        /\ UNCHANGED <<elem, table, queue, num, told, fault>>
    BY <1>4 DEF DeInitDone, Lock!Release
  <2>2. /\ r \in Local /\ r.pc = "closed" /\ r.ref = None /\ r.n = 0 /\ r.at = None
        /\ Placed(r)
    BY QueueAssumption DEF Idle, Local, Labels, Placed
  <2> HIDE DEF r
  <2>3. lock' \in Seq(Clients) /\ Once(lock') /\ In(lock') = {}
    <3>1. lock \in Seq(Clients) /\ Once(lock) /\ lock # <<>> /\ Head(lock) = t
      BY <1>1 DEF IInv, Types, Lined, Lock!Holds
    <3>2. lock' \in Seq(Clients) /\ Once(lock') /\ In(lock') = In(lock) \ {t} /\ t \in In(lock)
      BY <2>1, <3>1, ReleaseTakes
    <3>3. \A u \in In(lock) : u \in Clients /\ me[u].pc = "deinit"
      BY <1>2 DEF IInv, Lined, Resting
    <3>4. \A u \in In(lock) : u = t
      BY <1>1, <3>3 DEF IInv, Closing
    <3> QED BY <3>2, <3>4
  <2>4. Types' /\ \A u \in Clients : Placed(me[u])'
    BY <2>1, <2>2, <2>3 DEF IInv, Types, Placed
  <2>5. Lined' /\ Closing'
    BY <2>1, <2>2, <2>3 DEF Lined, Resting, Closing, InUse
  <2>6. Discarding' /\ AtDiscard' = AtDiscard
    BY <1>2, <2>1, <2>2 DEF Discarding, AtDiscard
  <2>7. Queued' /\ Tabled'
    BY <2>1, <2>6 DEF IInv, Queued, Tabled, Live
  <2>8. Made' /\ LinksHeld'
    <3>1. \A u \in Clients : me'[u].ref = me[u].ref /\ me'[u].n = me[u].n
      BY <1>2, <2>1, <2>2
    <3>2. LinksHeld'
      BY <2>1, <3>1, SameLinks DEF IInv, Live
    <3> QED BY <2>1, <3>1, <3>2 DEF IInv, Made
  <2> QED BY <2>4, <2>5, <2>6, <2>7, <2>8 DEF IInv
<1> QED BY <1>3, <1>4

-----------------------------------------------------------------------------
(***************************************************************************)
(* The calls begin, and those that find nothing to do return.              *)
(***************************************************************************)
LEMMA Begins ==
  ASSUME IInv, NEW t \in Clients, Add(t) \/ Lookup(t) \/ Use(t) \/ Remove(t) \/ DeInit(t)
  PROVE  IInv'
<1>1. me[t] \in Local /\ Placed(me[t]) /\ Types /\ Closing /\ None \notin Keys
  BY QueueAssumption DEF IInv, Types
<1>2. /\ UNCHANGED <<elem, table, queue, num, told>>
      /\ me[t].pc = "idle" /\ me[t].at = None
  <2>1. UNCHANGED <<elem, table, queue, num, told>>
    BY DEF Add, Lookup, Use, Remove, DeInit
  <2>2. me[t].pc = "idle"
    <3>1. CASE DeInit(t)
      BY <3>1 DEF DeInit, Idle
    <3>2. CASE ~DeInit(t)
      BY <3>2 DEF Add, Lookup, Use, Remove, At
    <3> QED BY <3>1, <3>2
  <2> QED BY <1>1, <2>1, <2>2 DEF Placed
<1>3. ASSUME NEW r \in Local, Ask(t, r), ~Resting(r), Placed(r), r.ref = me[t].ref,
             r.n = me[t].n, r.at = None, InUse \/ me[t].ref # None, r.pc # "deinit"
      PROVE  IInv'
  <2>1. r.pc \notin {"deinit", "closed"} /\ me' = [me EXCEPT ![t] = r]
    BY <1>3 DEF Resting, Ask
  <2>2. Closing'
    BY <1>1, <1>3, <2>1, ClosingKept
  <2> QED BY <1>2, <1>3, <2>2, Asks DEF Resting
<1>4. ASSUME NEW l \in {"unlink", "link", "remove", "keep"}, Ask(t, Called(t, l)),
             me[t].ref # None, l = "link" => me[t].n < MaxRefs
      PROVE  IInv'
  <2> DEFINE r == Called(t, l)
  <2>1. r \in Local /\ r.pc = l /\ r.ref = me[t].ref /\ r.n = me[t].n /\ r.at = None
    BY <1>1, <1>2 DEF Called, Local, Labels
  <2>2. Placed(r) /\ ~Resting(r)
    BY <1>1, <1>4, <2>1 DEF Placed, Resting
  <2> QED BY <1>3, <1>4, <2>1, <2>2
<1>5. CASE Add(t)
  <2>1. PICK k \in Keys, w \in 0..MaxWeight :
          Ask(t, [Called(t, "add") EXCEPT !.key = k, !.weight = IF w = 0 THEN 1 ELSE w])
    BY <1>5 DEF Add
  <2> DEFINE r == [Called(t, "add") EXCEPT !.key = k, !.weight = IF w = 0 THEN 1 ELSE w]
  <2>2. me[t].ref = None /\ InUse /\ (IF w = 0 THEN 1 ELSE w) \in Nat
    <3>1. w \in Nat
      BY QueueAssumption
    <3> QED BY <1>5, <3>1 DEF Add
  <2>3. /\ r \in Local /\ r.pc = "add" /\ r.ref = me[t].ref /\ r.n = me[t].n /\ r.at = None
        /\ r.key = k
    BY <1>1, <1>2, <2>2 DEF Called, Local, Labels
  <2>4. Placed(r) /\ ~Resting(r)
    BY <1>1, <2>2, <2>3 DEF Placed, Resting
  <2> HIDE DEF r
  <2> QED BY <1>3, <2>1, <2>2, <2>3, <2>4 DEF r
<1>6. CASE Lookup(t)
  <2>1. PICK k \in Keys : Ask(t, [Called(t, "lookup") EXCEPT !.key = k])
    BY <1>6 DEF Lookup
  <2> DEFINE r == [Called(t, "lookup") EXCEPT !.key = k]
  <2>2. me[t].ref = None /\ InUse
    BY <1>6 DEF Lookup
  <2>3. /\ r \in Local /\ r.pc = "lookup" /\ r.ref = me[t].ref /\ r.n = me[t].n /\ r.at = None
        /\ r.key = k
    BY <1>1, <1>2 DEF Called, Local, Labels
  <2>4. Placed(r) /\ ~Resting(r)
    BY <1>1, <2>2, <2>3 DEF Placed, Resting
  <2> QED BY <1>3, <2>1, <2>2, <2>3, <2>4
<1>7. CASE Use(t)
  BY <1>4, <1>7 DEF Use
<1>8. CASE Remove(t)
  BY <1>4, <1>8 DEF Remove
<1>9. CASE DeInit(t)
  <2> DEFINE r == Called(t, "deinit")
  <2>1. Ask(t, r) /\ \A u \in Clients : me[u] = Idle
    BY <1>9 DEF DeInit
  <2>2. \A u \in Clients : me[u].pc = "idle" /\ me[u].ref = None /\ me[u].n = 0
    BY <2>1 DEF Idle
  <2>3. r \in Local /\ r.pc = "deinit" /\ r.ref = me[t].ref /\ r.n = me[t].n /\ r.at = None
    BY <1>1, <1>2 DEF Called, Local, Labels
  <2>4. Placed(r) /\ ~Resting(r)
    BY <2>2, <2>3 DEF Placed, Resting
  <2>5. me' = [me EXCEPT ![t] = r]
    BY <2>1 DEF Ask
  <2> HIDE DEF r
  <2>6. Closing'
    BY <1>1, <2>2, <2>3, <2>5, Updated DEF Closing
  <2> QED BY <1>2, <2>1, <2>3, <2>4, <2>6, Asks DEF Resting
<1> QED BY <1>5, <1>6, <1>7, <1>8, <1>9

LEMMA Misses ==
  ASSUME IInv, NEW t \in Clients,
         \/ AddFull(t) \/ AddFails(t)
         \/ LookedUp(t) /\ table[me[t].key] = None
  PROVE  IInv'
<1>1. me[t] \in Local /\ Placed(me[t]) /\ me[t].pc \in {"add", "lookup"}
  BY DEF IInv, Types, AddFull, AddFails, LookedUp, Inside, At
<1>2. Return(t, Back(t)) /\ UNCHANGED <<elem, table, queue, num, told>>
  BY DEF AddFull, AddFails, LookedUp
<1>3. /\ Back(t) \in Local /\ Back(t).pc = "idle" /\ Back(t).ref = me[t].ref
      /\ Back(t).n = me[t].n /\ Back(t).at = None
  BY <1>1, BackIs
<1>4. Placed(Back(t)) /\ me[t].at = None
  BY <1>1, <1>3 DEF Placed
<1> QED BY <1>1, <1>2, <1>3, <1>4, Returns

LEMMA Refused ==
  ASSUME IInv, NEW t \in Clients, DiscardRefused(t)
  PROVE  IInv'
<1>1. PICK e : e = me[t].at
  OBVIOUS
<1>2. /\ me[t] \in Local /\ Placed(me[t]) /\ me[t].pc = "discard" /\ Lock!Holds(t) /\ ~fault
      /\ e # None
  BY <1>1 DEF IInv, Types, DiscardRefused, Inside, At, Placed
<1>3. CASE DiscardFrom(t, e)
  BY <1>1, <1>2, <1>3, DiscardsFrom
<1>4. CASE ~DiscardFrom(t, e)
  <2>1. /\ table' = [table EXCEPT ![elem[me[t].at].key] = me[t].at]
        /\ Return(t, Back(t)) /\ UNCHANGED <<elem, queue, num, told>>
    BY <1>1, <1>4 DEF DiscardRefused
  <2>2. /\ Back(t) \in Local /\ Back(t).pc = "idle" /\ Back(t).ref = me[t].ref
        /\ Back(t).n = me[t].n /\ Back(t).at = None
    BY <1>2, BackIs
  <2>3. Placed(Back(t))
    BY <1>2, <2>2 DEF Placed
  <2> QED BY <1>1, <1>2, <2>1, <2>2, <2>3, PutsBack
<1> QED BY <1>3, <1>4

LEMMA StepKeeps ==
  ASSUME IInv, NEW t \in Clients, Step(t)
  PROVE  IInv'
<1>1. CASE Add(t) \/ Lookup(t) \/ Use(t) \/ Remove(t) \/ DeInit(t)
  BY <1>1, Begins
<1>2. CASE DiscardOne(t)
  <2>1. me[t].pc = "add" /\ Lock!Holds(t) /\ ~fault /\ DiscardFrom(t, None) /\ Placed(me[t])
    BY <1>2 DEF DiscardOne, Inside, At, IInv
  <2>2. me[t].at = None
    BY <2>1 DEF Placed
  <2> QED BY <2>1, <2>2, DiscardsFrom
<1>3. CASE AddFull(t) \/ AddFails(t)
  BY <1>3, Misses
<1>4. CASE Discarded(t)
  BY <1>4, Discards
<1>5. CASE DiscardRefused(t)
  BY <1>5, Refused
<1>6. CASE AddElement(t)
  BY <1>6, Adds
<1>7. CASE LookedUp(t)
  BY <1>7, LooksUp, Misses
<1>8. CASE Unlink(t)
  BY <1>8, Unlinks
<1>9. CASE Link(t)
  BY <1>9, Links
<1>10. CASE LockItem(t)
  BY <1>10, LocksItem
<1>11. CASE RemoveDiscards(t) \/ Removed(t) \/ RemoveKeeps(t)
  BY <1>11, Removes
<1>12. CASE DeInitNext(t) \/ DeInitDone(t)
  BY <1>12, Ends
<1>13. CASE UseFreed(t)
  <2>1. fault' = TRUE /\ UNCHANGED <<elem, table, queue, num, lock, me, told>>
    BY <1>13 DEF UseFreed
  <2> QED BY <2>1 DEF IInv, Types, Lined, Resting, Placed, Discarding, Closing, InUse, Live,
                      Queued, Tabled, AtDiscard, Made, LinksHeld, References, Lock!Holds
<1> QED BY <1>1, <1>2, <1>3, <1>4, <1>5, <1>6, <1>7, <1>8, <1>9, <1>10, <1>11, <1>12, <1>13
        DEF Step

-----------------------------------------------------------------------------
LEMMA InitHolds == Init => IInv
<1> SUFFICES ASSUME Init PROVE IInv
  OBVIOUS
<1>1. /\ elem = [e \in Elems |-> Unused] /\ table = [k \in Keys |-> None] /\ queue = <<>>
      /\ num = 0 /\ lock = <<>> /\ me = [t \in Clients |-> Idle]
      /\ told = [e \in Elems |-> 0] /\ fault = FALSE
  BY DEF Init, Lock!Init
<1>2. Unused \in Element /\ Unused.state = "unused"
  BY DEF Unused, Element
<1>3. /\ Idle \in Local /\ Placed(Idle) /\ Resting(Idle) /\ Idle.pc = "idle" /\ Idle.ref = None
      /\ Idle.at = None
  BY QueueAssumption DEF Idle, Local, Labels, Placed, Resting
<1>4. In(queue) = {} /\ In(lock) = {} /\ Once(queue) /\ Once(lock)
  BY <1>1 DEF In, Once
<1>5. Types
  <2>1. queue \in Seq(Elems) /\ lock \in Seq(Clients)
    BY <1>1
  <2>2. elem \in [Elems -> Element] /\ me \in [Clients -> Local]
    BY <1>1, <1>2, <1>3
  <2>3. table \in [Keys -> Elems \cup {None}] /\ told \in [Elems -> Nat]
    BY <1>1
  <2>4. num \in Int
    BY <1>1
  <2>5. fault \in BOOLEAN
    BY <1>1
  <2> QED BY <2>1, <2>2, <2>3, <2>4, <2>5 DEF Types
<1>6. \A t \in Clients : me[t] = Idle
  BY <1>1
<1>7. \A e \in Elems : ~Live(e)
  BY <1>1, <1>2 DEF Live
<1>8. Lined /\ Discarding /\ Closing /\ Made /\ \A t \in Clients : Placed(me[t])
  BY <1>3, <1>4, <1>6 DEF Lined, Discarding, Closing, InUse, Made
<1>9. Queued /\ Tabled /\ LinksHeld
  BY <1>1, <1>4, <1>7 DEF Queued, Tabled, LinksHeld
<1> QED BY <1>5, <1>8, <1>9 DEF IInv

(***************************************************************************)
(* IInv is an invariant: whatever the threads call and in whatever order   *)
(* they get ControlLock.                                                   *)
(***************************************************************************)
THEOREM Invariance == Spec => []IInv
<1>1. IInv /\ [Next]_vars => IInv'
  <2> SUFFICES ASSUME IInv, [Next]_vars PROVE IInv'
    OBVIOUS
  <2>1. CASE Next
    BY <2>1, StepKeeps DEF Next
  <2>2. CASE UNCHANGED vars
    BY <2>2 DEF vars, IInv, Types, Lined, Resting, Placed, Discarding, Closing, InUse, Live,
                Queued, Tabled, AtDiscard, Made, LinksHeld, References, Lock!Holds
  <2> QED BY <2>1, <2>2
<1> QED BY InitHolds, <1>1, PTL DEF Spec

(***************************************************************************)
(* The table and the queue of a hash queue hold the same elements, one for *)
(* each key, at every point of xhqAdd, xhqRemove and xhqDeInit.            *)
(***************************************************************************)
THEOREM TableAgrees == Spec => []TableIsQueue
<1>1. IInv => TableIsQueue
  <2> SUFFICES ASSUME IInv PROVE TableIsQueue
    OBVIOUS
  <2>1. \A i \in DOMAIN queue : queue[i] \in Elems /\ Live(queue[i])
    <3>1. \A i \in DOMAIN queue : queue[i] \in In(queue)
      BY DEF In
    <3> QED BY <3>1 DEF IInv, Queued
  <2>2. \A i, j \in DOMAIN queue : elem[queue[i]].key = elem[queue[j]].key => i = j
    BY <2>1 DEF IInv, Queued, Tabled, Once
  <2>3. \A i \in DOMAIN queue :
          table[elem[queue[i]].key] = (IF queue[i] \in AtDiscard THEN None ELSE queue[i])
    BY <2>1 DEF IInv, Tabled
  <2>4. ASSUME NEW k \in Keys, table[k] # None
        PROVE  \E i \in DOMAIN queue : queue[i] = table[k]
    <3>1. table[k] \in Elems /\ Live(table[k])
      BY <2>4 DEF IInv, Types, Tabled
    <3>2. table[k] \in In(queue)
      BY <3>1 DEF IInv, Queued
    <3> QED BY <3>2 DEF In
  <2> QED BY <2>1, <2>2, <2>3, <2>4 DEF TableIsQueue
<1> QED BY Invariance, <1>1, PTL

(***************************************************************************)
(* The link count of an element is the number of references that the       *)
(* callers of xhqAdd, xhqLookup and xhqLink have not given back.           *)
(***************************************************************************)
THEOREM LinkCountsExact == Spec => []LinksHeld
<1>1. IInv => LinksHeld
  BY DEF IInv
<1> QED BY Invariance, <1>1, PTL

-----------------------------------------------------------------------------
(***************************************************************************)
(* The hash queue is a LinkCache.                                          *)
(***************************************************************************)
KeptRight ==
  /\ Kept \in [Keys -> Elems \cup {None}]
  /\ \A e \in Elems : Live(e) => elem[e].key \in Keys /\ Kept[elem[e].key] = e
  /\ \A k \in Keys : Kept[k] # None =>
       Kept[k] \in Elems /\ Live(Kept[k]) /\ elem[Kept[k]].key = k

LEMMA KeptIs == IInv => KeptRight
<1> SUFFICES ASSUME IInv PROVE KeptRight
  OBVIOUS
<1> DEFINE On(k) == {e \in Elems : Live(e) /\ elem[e].key = k}
<1>1. \A k \in Keys : Kept[k] = IF On(k) = {} THEN None ELSE CHOOSE e \in On(k) : TRUE
  BY DEF Kept
<1>2. ASSUME NEW k \in Keys, On(k) # {}
      PROVE  Kept[k] \in On(k)
  BY <1>1, <1>2
<1>3. Kept \in [Keys -> Elems \cup {None}]
  <2>1. \A k \in Keys : Kept[k] \in Elems \cup {None}
    BY <1>1, <1>2
  <2>2. Kept = [k \in Keys |-> Kept[k]]
    BY DEF Kept
  <2> QED BY <2>1, <2>2
<1>4. ASSUME NEW e \in Elems, Live(e)
      PROVE  elem[e].key \in Keys /\ Kept[elem[e].key] = e
  <2>1. elem[e].key \in Keys /\ e \in On(elem[e].key)
    BY <1>4 DEF IInv, Tabled
  <2>2. Kept[elem[e].key] \in On(elem[e].key)
    BY <1>2, <2>1
  <2>3. \A f \in Elems : Live(f) /\ elem[f].key = elem[e].key => f = e
    BY <1>4 DEF IInv, Tabled
  <2> QED BY <2>1, <2>2, <2>3
<1>5. ASSUME NEW k \in Keys, Kept[k] # None
      PROVE  Kept[k] \in Elems /\ Live(Kept[k]) /\ elem[Kept[k]].key = k
  <2>1. Kept[k] \in On(k)
    BY <1>1, <1>2, <1>5
  <2> QED BY <2>1
<1> QED BY <1>3, <1>4, <1>5 DEF KeptRight

LEMMA KeptNext ==
  ASSUME IInv, IInv'
  PROVE  /\ KeptRight
         /\ Kept' \in [Keys -> Elems \cup {None}]
         /\ \A e \in Elems : elem'[e].state = "live" =>
              elem'[e].key \in Keys /\ Kept'[elem'[e].key] = e
         /\ \A k \in Keys : Kept'[k] # None =>
              Kept'[k] \in Elems /\ elem'[Kept'[k]].state = "live" /\ elem'[Kept'[k]].key = k
<1>1. KeptRight /\ KeptRight'
  BY KeptIs, PTL
<1> QED BY <1>1 DEF KeptRight, Live

LEMMA KeptSame ==
  ASSUME IInv, IInv',
         \A e \in Elems : elem'[e].state = elem[e].state /\ elem'[e].key = elem[e].key
  PROVE  Kept' = Kept
<1>1. \A k \in Keys : Kept'[k] = Kept[k]
  BY KeptNext DEF KeptRight, Live
<1> QED BY <1>1, KeptNext DEF KeptRight

LEMMA KeptFreed ==
  ASSUME IInv, IInv', NEW e \in Elems, Live(e), elem'[e].state = "freed",
         \A f \in Elems : f # e => elem'[f] = elem[f]
  PROVE  /\ elem[e].key \in Keys /\ Kept[elem[e].key] = e
         /\ Kept' = [Kept EXCEPT ![elem[e].key] = None]
<1>1. elem[e].key \in Keys /\ Kept[elem[e].key] = e
  BY KeptNext DEF KeptRight
<1>2. \A k \in Keys : Kept'[k] = IF k = elem[e].key THEN None ELSE Kept[k]
  BY <1>1, KeptNext DEF KeptRight, Live
<1> QED BY <1>1, <1>2, KeptNext DEF KeptRight

LEMMA HeldNext ==
  ASSUME Types, NEW t \in Clients, NEW r \in Local, me' = [me EXCEPT ![t] = r]
  PROVE  Held' = [Held EXCEPT ![t] = r.ref]
BY Updated DEF Held

Stutters == UNCHANGED <<Kept, Held>>

LEMMA Unseen ==
  ASSUME IInv, IInv',
         \A e \in Elems : elem'[e].state = elem[e].state /\ elem'[e].key = elem[e].key,
         \A u \in Clients : me'[u].ref = me[u].ref
  PROVE  Stutters
BY KeptSame DEF Stutters, Held

LEMMA UnseenSteps ==
  ASSUME IInv, IInv', NEW t \in Clients,
         \/ Add(t) \/ DiscardOne(t) \/ AddFull(t) \/ DiscardRefused(t) \/ AddFails(t)
         \/ Lookup(t) \/ Use(t) \/ Link(t) \/ LockItem(t)
         \/ Remove(t) \/ RemoveDiscards(t) \/ DeInit(t) \/ DeInitDone(t) \/ UseFreed(t)
         \/ LookedUp(t) /\ table[me[t].key] = None
         \/ Return(t, Back(t)) /\ elem' = elem
  PROVE  Stutters
<1>1. me \in [Clients -> Local]
  BY DEF IInv, Types
<1>2. \A e \in Elems : elem'[e].state = elem[e].state /\ elem'[e].key = elem[e].key
  <2>1. CASE Link(t)
    <3>1. me[t].ref \in Elems /\ elem[me[t].ref].cnt + 1 \in Int
      BY <2>1, QueueAssumption DEF Link, IInv, Types, Local, Element
    <3>2. elem' = [elem EXCEPT ![me[t].ref].cnt = elem[me[t].ref].cnt + 1]
      BY <2>1 DEF Link
    <3> QED BY <3>1, <3>2, FieldsKept DEF IInv
  <2>2. CASE LockItem(t)
    <3>1. me[t].ref \in Elems
      BY <2>2, QueueAssumption DEF LockItem, IInv, Types, Local
    <3>2. elem' = [elem EXCEPT ![me[t].ref].locked = ~elem[me[t].ref].locked]
      BY <2>2 DEF LockItem
    <3> QED BY <3>1, <3>2, FieldsKept DEF IInv
  <2>3. CASE elem' = elem
    BY <2>3
  <2>4. ~Link(t) /\ ~LockItem(t) => elem' = elem
    BY DEF Add, DiscardOne, AddFull, DiscardRefused, AddFails, Lookup, LookedUp, Use, Remove,
           RemoveDiscards, DeInit, DeInitDone, UseFreed, DiscardFrom
  <2> QED BY <2>1, <2>2, <2>3, <2>4
<1>3. \A u \in Clients : me'[u].ref = me[u].ref
  <2>1. CASE DeInitDone(t)
    <3>1. \A u \in Clients : me[u].ref = None
      BY <2>1 DEF DeInitDone, Inside, At, IInv, Closing, InUse
    <3>2. me' = [u \in Clients |-> [Idle EXCEPT !.pc = "closed"]]
      BY <2>1 DEF DeInitDone
    <3> QED BY <3>1, <3>2 DEF Idle
  <2>2. ASSUME NEW r, me' = [me EXCEPT ![t] = r], r.ref = me[t].ref
        PROVE  \A u \in Clients : me'[u].ref = me[u].ref
    BY <1>1, <2>2
  <2>3. me[t] \in Local
    BY <1>1
  <2>4. \A l : Called(t, l).ref = me[t].ref
    BY <2>3 DEF Called, Local
  <2>5. Back(t).ref = me[t].ref /\ [Back(t) EXCEPT !.n = @ + 1].ref = me[t].ref
    BY <2>3 DEF Back, Local
  <2>6. CASE Add(t)
    <3>1. PICK k \in Keys, w \in 0..MaxWeight :
            Ask(t, [Called(t, "add") EXCEPT !.key = k, !.weight = IF w = 0 THEN 1 ELSE w])
      BY <2>6 DEF Add
    <3>2. [Called(t, "add") EXCEPT !.key = k, !.weight = IF w = 0 THEN 1 ELSE w].ref = me[t].ref
      BY <2>3 DEF Called, Local
    <3> QED BY <2>2, <3>1, <3>2 DEF Ask
  <2>7. CASE Lookup(t)
    <3>1. PICK k \in Keys : Ask(t, [Called(t, "lookup") EXCEPT !.key = k])
      BY <2>7 DEF Lookup
    <3>2. [Called(t, "lookup") EXCEPT !.key = k].ref = me[t].ref
      BY <2>3 DEF Called, Local
    <3> QED BY <2>2, <3>1, <3>2 DEF Ask
  <2>8. CASE Use(t) \/ Remove(t) \/ DeInit(t)
    <3>1. \E l : Ask(t, Called(t, l))
      BY <2>8 DEF Use, Remove, DeInit
    <3> QED BY <2>2, <2>4, <3>1 DEF Ask
  <2>9. ASSUME NEW e, DiscardFrom(t, e)
        PROVE  \A u \in Clients : me'[u].ref = me[u].ref
    <3>1. PICK i : Goto(t, [Called(t, "discard") EXCEPT !.at = queue[i]])
      BY <2>9 DEF DiscardFrom
    <3>2. [Called(t, "discard") EXCEPT !.at = queue[i]].ref = me[t].ref
      BY <2>3 DEF Called, Local
    <3> QED BY <2>2, <3>1, <3>2 DEF Goto
  <2>10. CASE Return(t, Back(t))
    BY <2>2, <2>5, <2>10 DEF Return
  <2>11. CASE DiscardOne(t)
    BY <2>9, <2>11 DEF DiscardOne
  <2>12. CASE DiscardRefused(t)
    BY <2>9, <2>10, <2>12 DEF DiscardRefused
  <2>13. CASE RemoveDiscards(t)
    <3>1. Goto(t, [Called(t, "removing") EXCEPT !.at = me[t].ref])
      BY <2>13 DEF RemoveDiscards
    <3>2. [Called(t, "removing") EXCEPT !.at = me[t].ref].ref = me[t].ref
      BY <2>3 DEF Called, Local
    <3> QED BY <2>2, <3>1, <3>2 DEF Goto
  <2>14. CASE Link(t)
    BY <2>2, <2>5, <2>14 DEF Link, Return
  <2>15. CASE LockItem(t) \/ UseFreed(t)
    BY <2>15 DEF LockItem, UseFreed
  <2>16. CASE AddFull(t) \/ AddFails(t) \/ (LookedUp(t) /\ table[me[t].key] = None)
    BY <2>10, <2>16 DEF AddFull, AddFails, LookedUp
  <2> QED BY <2>1, <2>6, <2>7, <2>8, <2>11, <2>12, <2>13, <2>14, <2>15, <2>16,
            <2>10
<1> QED BY <1>2, <1>3, Unseen

\* Who has a reference of an element is counted.
LEMMA NotHeld ==
  ASSUME IInv, NEW e \in Elems, Live(e), elem[e].cnt = 0
  PROVE  \A u \in Clients : me[u].ref # e
<1>1. References(e) = {}
  BY Finite, FS_EmptySet DEF IInv, LinksHeld
<1> SUFFICES ASSUME NEW u \in Clients, me[u].ref = e PROVE FALSE
  OBVIOUS
<1>2. me[u].n \in 0..MaxRefs /\ me[u].n # 0 /\ MaxRefs \in Nat
  BY QueueAssumption DEF IInv, Types, Local, Placed
<1>3. 1 \in 1..MaxRefs /\ 1 <= me[u].n
  BY <1>2
<1>4. <<u, 1>> \in References(e)
  BY <1>3 DEF References
<1> QED BY <1>1, <1>4

LEMMA FreeIsDiscard ==
  ASSUME IInv, IInv', NEW e \in Elems, Live(e), Free(e),
         \A u \in Clients : me[u].ref # e /\ me'[u].ref = me[u].ref
  PROVE  Cache!Next
<1> DEFINE k == elem[e].key
<1>1. elem'[e].state = "freed" /\ \A f \in Elems : f # e => elem'[f] = elem[f]
  BY DEF Free, IInv, Types, Unused
<1>2. k \in Keys /\ Kept[k] = e /\ Kept' = [Kept EXCEPT ![k] = None]
  BY <1>1, KeptFreed
<1>3. Held' = Held /\ \A u \in Clients : Held[u] # e
  BY DEF Held
<1>4. e # None
  BY QueueAssumption
<1> HIDE DEF k
<1>5. Cache!Discard(k)
  BY <1>2, <1>3, <1>4 DEF Cache!Discard
<1> QED BY <1>2, <1>5 DEF Cache!Next

LEMMA FreeIsRemove ==
  ASSUME IInv, IInv', NEW t \in Clients, NEW e \in Elems, me[t].ref = e, Live(e), Free(e),
         Return(t, Idle)
  PROVE  Cache!Next
<1> DEFINE k == elem[e].key
<1>1. elem'[e].state = "freed" /\ \A f \in Elems : f # e => elem'[f] = elem[f]
  BY DEF Free, IInv, Types, Unused
<1>2. k \in Keys /\ Kept[k] = e /\ Kept' = [Kept EXCEPT ![k] = None]
  BY <1>1, KeptFreed
<1>3. Held' = [Held EXCEPT ![t] = None] /\ Held[t] = e
  <2>1. Idle \in Local /\ Idle.ref = None
    BY QueueAssumption DEF Idle, Local, Labels
  <2> QED BY <2>1, HeldNext DEF IInv, Return, Held
<1>4. e # None
  BY QueueAssumption
<1> HIDE DEF k
<1>5. Cache!Remove(t, k)
  BY <1>2, <1>3, <1>4 DEF Cache!Remove
<1> QED BY <1>2, <1>5 DEF Cache!Next

LEMMA HitIsFind ==
  ASSUME IInv, IInv', NEW t \in Clients, LookedUp(t), table[me[t].key] # None
  PROVE  Cache!Next
<1>1. PICK k : k = me[t].key
  OBVIOUS
<1>2. PICK e : e = table[k]
  OBVIOUS
<1>3. me[t] \in Local /\ me[t].ref = None /\ k \in Keys /\ e # None /\ e \in Elems
  BY <1>1, <1>2 DEF IInv, Types, Placed, LookedUp, Inside, At
<1>4. Live(e) /\ elem[e].key = k
  BY <1>2, <1>3 DEF IInv, Tabled
<1>5. elem' = [elem EXCEPT ![e].cnt = @ + 1] /\ Return(t, [Back(t) EXCEPT !.ref = e, !.n = 1])
  BY <1>1, <1>2 DEF LookedUp
<1>6. Kept' = Kept
  <2>1. \A f \in Elems : elem'[f].state = elem[f].state /\ elem'[f].key = elem[f].key
    <3>1. elem[e].cnt + 1 \in Int /\ elem' = [elem EXCEPT ![e].cnt = elem[e].cnt + 1]
      BY <1>3, <1>5 DEF IInv, Types, Element
    <3> QED BY <1>3, <3>1, FieldsKept DEF IInv
  <2> QED BY <2>1, KeptSame
<1>7. Held' = [Held EXCEPT ![t] = e] /\ Held[t] = None
  <2> DEFINE r == [Back(t) EXCEPT !.ref = e, !.n = 1]
  <2>1. Back(t) \in Local /\ 1 \in 0..MaxRefs
    BY <1>3, BackIs, QueueAssumption
  <2>2. r \in Local /\ r.ref = e
    BY <1>3, <2>1 DEF Local
  <2>3. me' = [me EXCEPT ![t] = r]
    BY <1>5 DEF Return
  <2> HIDE DEF r
  <2> QED BY <1>3, <2>2, <2>3, HeldNext DEF IInv, Held
<1>8. Kept[k] = e
  BY <1>3, <1>4, KeptNext DEF KeptRight
<1>9. Cache!Find(t, k)
  BY <1>3, <1>6, <1>7, <1>8 DEF Cache!Find
<1> QED BY <1>3, <1>9 DEF Cache!Next

LEMMA AddIsAdd ==
  ASSUME IInv, IInv', NEW t \in Clients, AddElement(t)
  PROVE  Cache!Next
<1>1. PICK k : k = me[t].key
  OBVIOUS
<1>2. /\ me[t] \in Local /\ me[t].ref = None /\ k \in Keys /\ me[t].at = None
      /\ Lock!Holds(t) /\ None \notin Elems
  BY <1>1, QueueAssumption DEF IInv, Types, Placed, AddElement, Inside, At
<1>3. PICK e \in Elems :
        /\ elem[e].state = "unused" /\ table[k] = None
        /\ elem' = [elem EXCEPT ![e] = [state |-> "live", key |-> k, cnt |-> 1,
                                        weight |-> me[t].weight, locked |-> FALSE]]
        /\ Return(t, [Back(t) EXCEPT !.ref = e, !.n = 1])
  BY <1>1 DEF AddElement
<1>4. /\ elem'[e].state = "live" /\ elem'[e].key = k /\ ~Live(e)
      /\ \A f \in Elems : f # e => elem'[f] = elem[f]
  BY <1>3 DEF IInv, Types, Live
<1>5. AtDiscard = {}
  BY <1>2, OneDiscard DEF IInv
<1>6. Kept[k] = None
  <2>1. \A f \in Elems : Live(f) => elem[f].key # k
    BY <1>2, <1>3, <1>5 DEF IInv, Tabled
  <2> QED BY <1>2, <2>1, KeptNext DEF KeptRight
<1>7. \A j \in Keys : Kept[j] # e
  BY <1>2, <1>4, KeptNext DEF KeptRight
<1>8. Kept' = [Kept EXCEPT ![k] = e]
  <2>1. Kept'[k] = e
    BY <1>4, KeptNext
  <2>2. ASSUME NEW j \in Keys, j # k
        PROVE  Kept'[j] = Kept[j]
    <3>1. CASE Kept'[j] # None
      <4>1. Kept'[j] \in Elems /\ elem'[Kept'[j]].state = "live" /\ elem'[Kept'[j]].key = j
        BY <3>1, KeptNext
      <4>2. elem'[Kept'[j]] = elem[Kept'[j]]
        BY <1>4, <2>2, <4>1
      <4> QED BY <4>1, <4>2, KeptNext DEF KeptRight, Live
    <3>2. CASE Kept'[j] = None /\ Kept[j] # None
      <4>1. Kept[j] \in Elems /\ Live(Kept[j]) /\ elem[Kept[j]].key = j /\ Kept[j] # e
        BY <1>7, <3>2, KeptNext DEF KeptRight
      <4>2. elem'[Kept[j]] = elem[Kept[j]]
        BY <1>4, <4>1
      <4> QED BY <3>2, <4>1, <4>2, KeptNext DEF Live
    <3> QED BY <3>1, <3>2
  <2> QED BY <1>2, <2>1, <2>2, KeptNext DEF KeptRight
<1>9. Held' = [Held EXCEPT ![t] = e] /\ Held[t] = None
  <2> DEFINE r == [Back(t) EXCEPT !.ref = e, !.n = 1]
  <2>1. Back(t) \in Local /\ 1 \in 0..MaxRefs
    BY <1>2, BackIs, QueueAssumption
  <2>2. r \in Local /\ r.ref = e
    BY <2>1 DEF Local
  <2>3. me' = [me EXCEPT ![t] = r]
    BY <1>3 DEF Return
  <2> HIDE DEF r
  <2> QED BY <1>2, <2>2, <2>3, HeldNext DEF IInv, Held
<1>10. Cache!Add(t, k, e)
  BY <1>2, <1>6, <1>7, <1>8, <1>9 DEF Cache!Add
<1> QED BY <1>2, <1>10 DEF Cache!Next

LEMMA UnlinkIsDrop ==
  ASSUME IInv, IInv', NEW t \in Clients, Unlink(t)
  PROVE  Cache!Next \/ Stutters
<1>1. PICK e : e = me[t].ref
  OBVIOUS
<1>2. me[t] \in Local /\ e \in Elems /\ e # None
  BY <1>1 DEF IInv, Types, Local, Placed, Unlink, Inside, At
<1>3. elem' = [elem EXCEPT ![e].cnt = @ - 1] /\ Return(t, Dropped(t))
  BY <1>1 DEF Unlink
<1>4. \A f \in Elems : elem'[f].state = elem[f].state /\ elem'[f].key = elem[f].key
  <2>1. elem' = [elem EXCEPT ![e].cnt = elem[e].cnt - 1] /\ elem[e].cnt - 1 \in Int
    BY <1>2, <1>3 DEF IInv, Types, Element
  <2> QED BY <1>2, <2>1, FieldsKept DEF IInv
<1>5. CASE me[t].n = 1
  <2>1. me' = [me EXCEPT ![t] = Idle] /\ Idle \in Local /\ Idle.ref = None
    BY <1>3, <1>5, QueueAssumption DEF Dropped, Return, Idle, Local, Labels
  <2>2. Held' = [Held EXCEPT ![t] = None] /\ Held[t] = e
    BY <1>1, <2>1, HeldNext DEF IInv, Held
  <2>3. Kept' = Kept
    BY <1>4, KeptSame
  <2>4. Cache!Drop(t)
    BY <1>2, <2>2, <2>3 DEF Cache!Drop
  <2> QED BY <2>4 DEF Cache!Next
<1>6. CASE me[t].n # 1
  <2> DEFINE r == [Back(t) EXCEPT !.n = @ - 1]
  <2>1. me' = [me EXCEPT ![t] = r]
    BY <1>3, <1>6 DEF Dropped, Return
  <2>2. r.ref = me[t].ref
    BY <1>2 DEF Back, Local
  <2> HIDE DEF r
  <2>3. \A u \in Clients : me'[u].ref = me[u].ref
    BY <2>1, <2>2 DEF IInv, Types
  <2> QED BY <1>4, <2>3, Unseen
<1> QED BY <1>5, <1>6

LEMMA StepRefines ==
  ASSUME IInv, IInv', NEW t \in Clients, Step(t)
  PROVE  Cache!Next \/ Stutters
<1>1. CASE Discarded(t)
  <2>1. PICK e : e = me[t].at
    OBVIOUS
  <2>2. me[t] \in Local /\ me[t].pc = "discard" /\ Free(e) /\ Placed(me[t])
    BY <1>1, <2>1 DEF Discarded, Inside, At, IInv, Types
  <2>3. e \in Elems /\ Live(e) /\ elem[e].cnt = 0
    BY <2>1, <2>2 DEF IInv, Discarding, Placed, Local
  <2>4. \A u \in Clients : me[u].ref # e
    BY <2>3, NotHeld
  <2> DEFINE r == [Called(t, "add") EXCEPT !.at = None]
  <2>5. me' = [me EXCEPT ![t] = r]
    BY <1>1 DEF Discarded, Goto
  <2>6. r.ref = me[t].ref
    BY <2>2 DEF Called, Local
  <2> HIDE DEF r
  <2>7. \A u \in Clients : me'[u].ref = me[u].ref
    BY <2>5, <2>6 DEF IInv, Types
  <2> QED BY <2>2, <2>3, <2>4, <2>7, FreeIsDiscard
<1>2. CASE AddElement(t)
  BY <1>2, AddIsAdd
<1>3. CASE LookedUp(t)
  BY <1>3, HitIsFind, UnseenSteps
<1>4. CASE Unlink(t)
  BY <1>4, UnlinkIsDrop
<1>5. CASE Removed(t)
  <2>1. PICK e : e = me[t].at
    OBVIOUS
  <2>2. me[t].ref = e /\ e # None /\ e \in Elems /\ Live(e)
    BY <1>5, <2>1 DEF Removed, Inside, At, IInv, Types, Local, Placed, Discarding
  <2>3. CASE elem[e].locked
    BY <1>5, <2>1, <2>3, UnseenSteps DEF Removed
  <2>4. CASE ~elem[e].locked
    <3>1. Free(e) /\ Return(t, Idle)
      BY <1>5, <2>1, <2>4 DEF Removed
    <3> QED BY <2>2, <3>1, FreeIsRemove
  <2> QED BY <2>3, <2>4
<1>6. CASE RemoveKeeps(t)
  <2>1. PICK e : e = me[t].ref
    OBVIOUS
  <2>2. e \in Elems /\ Live(e)
    BY <1>6, <2>1 DEF RemoveKeeps, Inside, At, IInv, Types, Local, Placed
  <2>3. CASE elem[e].locked
    BY <1>6, <2>1, <2>3, UnseenSteps DEF RemoveKeeps
  <2>4. CASE ~elem[e].locked
    <3>1. Free(e) /\ Return(t, Idle)
      BY <1>6, <2>1, <2>4 DEF RemoveKeeps
    <3> QED BY <2>1, <2>2, <3>1, FreeIsRemove
  <2> QED BY <2>3, <2>4
<1>7. CASE DeInitNext(t)
  <2>1. PICK e : e = Head(queue)
    OBVIOUS
  <2>2. Free(e) /\ me' = me /\ queue # <<>>
    BY <1>7, <2>1 DEF DeInitNext
  <2>3. e \in Elems /\ Live(e)
    <3>1. e \in In(queue)
      BY <2>1, <2>2, ReleaseTakes DEF IInv, Types, Queued
    <3> QED BY <3>1 DEF IInv, Queued
  <2>4. \A u \in Clients : me[u].ref = None
    BY <1>7 DEF DeInitNext, Inside, At, IInv, Closing, InUse
  <2>5. None \notin Elems
    BY QueueAssumption
  <2> QED BY <2>2, <2>3, <2>4, <2>5, FreeIsDiscard
<1>8. CASE \/ Add(t) \/ DiscardOne(t) \/ AddFull(t) \/ DiscardRefused(t) \/ AddFails(t)
           \/ Lookup(t) \/ Use(t) \/ Link(t) \/ LockItem(t)
           \/ Remove(t) \/ RemoveDiscards(t) \/ DeInit(t) \/ DeInitDone(t) \/ UseFreed(t)
  BY <1>8, UnseenSteps
<1> QED BY <1>1, <1>2, <1>3, <1>4, <1>5, <1>6, <1>7, <1>8 DEF Step

(***************************************************************************)
(* What the callers of a hash queue see is a LinkCache: xhqAdd and         *)
(* xhqDeInit discard only what no one is linked to, xhqRemove only what    *)
(* its caller is linked to, and xhqLookup finds what was added.            *)
(***************************************************************************)
THEOREM CacheImplemented == Spec => IsLinkCache
<1>1. Init => Cache!Init
  <2> SUFFICES ASSUME Init PROVE Cache!Init
    OBVIOUS
  <2>1. IInv
    BY InitHolds
  <2>2. \A e \in Elems : ~Live(e)
    BY DEF Init, Live, Unused
  <2>3. \A t \in Clients : me[t].ref = None
    BY DEF Init, Idle
  <2>4. Kept = [k \in Keys |-> None]
    BY <2>1, <2>2, KeptIs DEF KeptRight
  <2>5. Held = [t \in Clients |-> None]
    BY <2>3 DEF Held
  <2> QED BY <2>4, <2>5 DEF Cache!Init
<1>2. IInv /\ IInv' /\ [Next]_vars => [Cache!Next]_<<Kept, Held>>
  <2> SUFFICES ASSUME IInv, IInv', [Next]_vars PROVE Cache!Next \/ Stutters
    BY DEF Stutters
  <2>1. CASE Next
    BY <2>1, StepRefines DEF Next
  <2>2. CASE UNCHANGED vars
    BY <2>2, Unseen DEF vars
  <2> QED BY <2>1, <2>2
<1> QED BY Invariance, <1>1, <1>2, PTL DEF Spec, IsLinkCache, Cache!Spec

-----------------------------------------------------------------------------
(***************************************************************************)
(* The capacity: what NumElements says, and the bounds of the variables.   *)
(***************************************************************************)
W == [e \in Elems |-> elem[e].weight]

Bounded ==
  /\ Accounted /\ num <= MaxElements
  /\ \A e \in Elems : /\ elem[e].weight \in 0..MaxWeight /\ (~Live(e) => elem[e].cnt = 0)
                      /\ told[e] \in 0..1 /\ (elem[e].state # "freed" => told[e] = 0)
  /\ \A t \in Clients : me[t].weight \in 0..MaxWeight

\* The recursion that defines Weigh adds up the weights.
LEMMA WeighIs ==
  Weigh = [i \in Nat |-> IF i = 0 THEN 0 ELSE Weigh[i - 1] + elem[queue[i]].weight]
<1> DEFINE d == [i \in Nat |-> elem[queue[i]].weight]
<1>1. PICK f : f = [i \in Nat |-> IF i = 0 THEN 0 ELSE f[i - 1] + d[i]]
  BY SumsExist
<1>2. \A i \in Nat : d[i] = elem[queue[i]].weight
  OBVIOUS
<1> HIDE DEF d
<1>3. f = [i \in Nat |-> IF i = 0 THEN 0 ELSE f[i - 1] + elem[queue[i]].weight]
  BY <1>1, <1>2
<1>4. \E g : g = [i \in Nat |-> IF i = 0 THEN 0 ELSE g[i - 1] + elem[queue[i]].weight]
  BY <1>3
<1> QED BY <1>4 DEF Weigh

LEMMA WeighSums == Types => W \in [Elems -> Nat] /\ Sums(Weigh, queue, W)
<1> SUFFICES ASSUME Types PROVE W \in [Elems -> Nat] /\ Sums(Weigh, queue, W)
  OBVIOUS
<1>1. Len(queue) \in Nat /\ \A i \in 1..Len(queue) : queue[i] \in Elems
  BY DEF Types
<1>2. \A i \in 1..Len(queue) : i \in Nat /\ i # 0 /\ W[queue[i]] = elem[queue[i]].weight
  BY <1>1 DEF W
<1>3. \A i \in Nat : Weigh[i] = IF i = 0 THEN 0 ELSE Weigh[i - 1] + elem[queue[i]].weight
  BY WeighIs
<1>4. W \in [Elems -> Nat]
  BY DEF W, Types, Element
<1> QED BY <1>2, <1>3, <1>4 DEF Sums

LEMMA WeighSumsNext == Types' => W' \in [Elems -> Nat] /\ Sums(Weigh', queue', W')
<1>1. (Types => W \in [Elems -> Nat] /\ Sums(Weigh, queue, W))'
  BY WeighSums, PTL
<1> QED BY <1>1 DEF Sums

(***************************************************************************)
(* What the queue weighs when its order changes, when an element is put    *)
(* into it and when one is freed.                                          *)
(***************************************************************************)
LEMMA WeighKept ==
  ASSUME Types, Types', queue' = queue, \A e \in Elems : elem'[e].weight = elem[e].weight
  PROVE  Weigh'[Len(queue')] = Weigh[Len(queue)]
<1>1. \A x \in In(queue) : x \in Elems
  BY DEF Types, In
<1>2. \A x \in In(queue) : W'[x] = W[x]
  BY <1>1 DEF W
<1>3. queue \in Seq(Elems) /\ Sums(Weigh, queue, W) /\ Sums(Weigh', queue, W')
  BY WeighSums, WeighSumsNext DEF Types
<1> QED BY <1>2, <1>3, SumKept

LEMMA WeighEnQueued ==
  ASSUME Types, Types', Once(queue), NEW e \in Elems, queue' = EnQueue(e),
         \A f \in Elems : f # e => elem'[f].weight = elem[f].weight
  PROVE  Weigh'[Len(queue')]
           = Weigh[Len(queue)] - (IF e \in In(queue) THEN elem[e].weight ELSE 0)
             + elem'[e].weight
<1>0. PICK w : w = TakenOut(queue, e)
  OBVIOUS
<1>1. /\ queue \in Seq(Elems) /\ Sums(Weigh, queue, W) /\ Sums(Weigh', queue', W')
      /\ W \in [Elems -> Nat] /\ W' \in [Elems -> Nat]
  BY WeighSums, WeighSumsNext DEF Types
<1>2. w \in Seq(Elems) /\ In(w) = In(queue) \ {e}
  BY <1>0, <1>1, TakenOutIs
<1>3. \A x \in In(w) : W'[x] = W[x]
  <2>1. \A x \in In(queue) : x \in Elems
    BY <1>1 DEF In
  <2> QED BY <1>2, <2>1 DEF W
<1>4. W[e] = elem[e].weight /\ W'[e] = elem'[e].weight
  BY DEF W
<1>5. PICK h : Sums(h, w, W)
  BY <1>2, SumsOf
<1>6. PICK f : Sums(f, w, W')
  BY <1>2, SumsOf
<1>7. f[Len(w)] = h[Len(w)]
  BY <1>2, <1>3, <1>5, <1>6, SumKept
<1>8. queue' = <<e>> \o w
  BY <1>0 DEF EnQueue, Without
<1>9. Weigh'[Len(queue')] = f[Len(w)] + W'[e]
  <2>1. Sums(Weigh', <<e>> \o w, W')
    BY <1>1, <1>8
  <2>2. Weigh'[Len(<<e>> \o w)] = f[Len(w)] + W'[e]
    BY <1>1, <1>2, <1>6, <2>1, SumOfPut
  <2> QED BY <1>8, <2>2
<1>10. CASE e \in In(queue)
  <2>1. h[Len(w)] = Weigh[Len(queue)] - W[e]
    <3>1. Sums(h, TakenOut(queue, e), W)
      BY <1>0, <1>5
    <3>2. PICK q \in Seq(Elems) : q = queue
      BY <1>1
    <3>3. PICK v \in [Elems -> Nat] : v = W
      BY <1>1
    <3>4. PICK g : g = Weigh
      OBVIOUS
    <3>5. Once(q) /\ e \in In(q) /\ Sums(g, q, v) /\ Sums(h, TakenOut(q, e), v)
      BY <1>1, <1>10, <3>1, <3>2, <3>3, <3>4
    <3>6. h[Len(TakenOut(q, e))] = g[Len(q)] - v[e]
      BY ONLY <3>5, SumOfTakenOut
    <3>7. h[Len(TakenOut(queue, e))] = Weigh[Len(queue)] - W[e]
      BY <3>2, <3>3, <3>4, <3>6
    <3> QED BY <1>0, <3>7
  <2> QED BY <1>4, <1>7, <1>9, <1>10, <2>1
<1>11. CASE e \notin In(queue)
  <2>1. w = queue
    BY <1>0, <1>11 DEF TakenOut
  <2>2. h[Len(w)] = Weigh[Len(queue)]
    BY <1>1, <1>5, <2>1, SumKept
  <2>3. Weigh[Len(queue)] \in Nat
    BY <1>1, SumsAre
  <2> QED BY <1>4, <1>7, <1>9, <1>11, <2>2, <2>3
<1> QED BY <1>10, <1>11

LEMMA WeighFreed ==
  ASSUME Types, Types', Once(queue), NEW e \in In(queue), queue' = Without(e),
         \A f \in Elems : f # e => elem'[f] = elem[f]
  PROVE  Weigh'[Len(queue')] = Weigh[Len(queue)] - elem[e].weight
<1>1. /\ queue \in Seq(Elems) /\ queue' \in Seq(Elems)
      /\ Sums(Weigh, queue, W) /\ Sums(Weigh', queue', W') /\ W \in [Elems -> Nat]
  BY WeighSums, WeighSumsNext DEF Types
<1>2. In(queue') = In(queue) \ {e}
  BY <1>1, TakenOutIs DEF Without
<1>3. \A x \in In(queue) : x \in Elems
  BY <1>1 DEF In
<1>4. (\A x \in In(queue') : W'[x] = W[x]) /\ W[e] = elem[e].weight
  BY <1>2, <1>3 DEF W
<1>5. PICK h : Sums(h, queue', W)
  BY <1>1, SumsOf
<1>6. Weigh'[Len(queue')] = h[Len(queue')]
  BY <1>1, <1>4, <1>5, SumKept
<1>7. h[Len(queue')] = Weigh[Len(queue)] - W[e]
  BY <1>1, <1>5, SumOfTakenOut DEF Without
<1> QED BY <1>4, <1>6, <1>7

-----------------------------------------------------------------------------
(***************************************************************************)
(* The capacity is kept, through every step.                               *)
(***************************************************************************)
LEMMA VarsAre ==
  ASSUME Types, NEW t \in Clients
  PROVE  /\ \A l \in Labels : Called(t, l).weight = me[t].weight
         /\ \A l \in Labels, e \in Elems \cup {None} :
              [Called(t, l) EXCEPT !.at = e].weight = me[t].weight
         /\ Back(t).weight = 0 /\ Dropped(t).weight = 0 /\ Idle.weight = 0
         /\ \A e \in Elems : [Back(t) EXCEPT !.ref = e, !.n = 1].weight = 0
         /\ [Back(t) EXCEPT !.n = @ + 1].weight = 0
<1>1. me[t] \in Local
  BY DEF Types
<1>2. Idle.weight = 0
  BY DEF Idle
<1>3. \A l \in Labels : Called(t, l).weight = me[t].weight /\ Called(t, l) \in Local
  BY <1>1 DEF Local, Called
<1>4. Back(t).weight = 0 /\ Back(t) \in Local
  <2>1. 0 \in Nat /\ "idle" \in Labels
    BY DEF Labels
  <2> QED BY <1>1, <2>1 DEF Local, Back
<1>5. Dropped(t).weight = 0
  BY <1>2, <1>4 DEF Dropped, Local
<1> QED BY <1>2, <1>3, <1>4, <1>5 DEF Local

LEMMA WeightsKept ==
  ASSUME Types, Bounded, NEW t \in Clients, NEW r, r.weight \in 0..MaxWeight,
         me' = [me EXCEPT ![t] = r]
  PROVE  \A u \in Clients : me'[u].weight \in 0..MaxWeight
BY DEF Types, Bounded

\* Only the variables of clients and the table change.
LEMMA Untouched ==
  ASSUME IInv, IInv', Bounded, UNCHANGED <<elem, queue, num, told>>,
         \A u \in Clients : me'[u].weight \in 0..MaxWeight
  PROVE  Bounded'
<1>1. Weigh'[Len(queue')] = Weigh[Len(queue)]
  BY WeighKept DEF IInv
<1> QED BY <1>1 DEF Bounded, Accounted, Live

\* A link count or the lock flag of an element that is in use changes.
LEMMA Fielded ==
  ASSUME IInv, IInv', Bounded, NEW e \in Elems, Live(e),
         \/ \E n \in Int : elem' = [elem EXCEPT ![e].cnt = n]
         \/ elem' = [elem EXCEPT ![e].locked = ~elem[e].locked],
         queue' = queue \/ queue' = EnQueue(e),
         UNCHANGED <<num, told>>,
         \A u \in Clients : me'[u].weight \in 0..MaxWeight
  PROVE  Bounded'
<1>1. \A f \in Elems : elem'[f].state = elem[f].state
  BY FieldsKept DEF IInv
<1>2. /\ \A f \in Elems : elem'[f].weight = elem[f].weight
      /\ \A f \in Elems : f # e => elem'[f] = elem[f]
  <2>1. elem \in [Elems -> Element] /\ elem[e] \in Element
    BY DEF IInv, Types
  <2>2. CASE \E n \in Int : elem' = [elem EXCEPT ![e].cnt = n]
    <3>1. PICK n \in Int : elem' = [elem EXCEPT ![e] = [elem[e] EXCEPT !.cnt = n]]
      BY <2>2
    <3> QED BY <2>1, <3>1 DEF Element
  <2>3. CASE elem' = [elem EXCEPT ![e].locked = ~elem[e].locked]
    <3>1. elem' = [elem EXCEPT ![e] = [elem[e] EXCEPT !.locked = ~elem[e].locked]]
      BY <2>3
    <3> QED BY <2>1, <3>1 DEF Element
  <2> QED BY <2>2, <2>3
<1>3. \A f \in Elems : Live(f)' <=> Live(f)
  BY <1>1 DEF Live
<1>4. Weigh'[Len(queue')] = Weigh[Len(queue)]
  <2>1. CASE queue' = queue
    BY <1>2, <2>1, WeighKept DEF IInv
  <2>2. CASE queue' = EnQueue(e)
    <3>1. e \in In(queue) /\ Once(queue) /\ Types /\ Types'
      BY DEF IInv, Queued
    <3>2. Weigh'[Len(queue')] = Weigh[Len(queue)] - elem[e].weight + elem'[e].weight
      BY <1>2, <2>2, <3>1, WeighEnQueued
    <3>3. num \in Int /\ elem[e].weight \in Nat /\ num = Weigh[Len(queue)]
      BY <3>1 DEF Types, Element, Bounded, Accounted
    <3> QED BY <1>2, <3>2, <3>3
  <2> QED BY <2>1, <2>2
<1>5. Accounted'
  BY <1>4 DEF Bounded, Accounted
<1>6. \A f \in Elems : ~Live(f)' => elem'[f].cnt = 0
  BY <1>2, <1>3 DEF Bounded
<1> QED BY <1>1, <1>2, <1>5, <1>6 DEF Bounded

\* An element is freed; DiscardFn has given up its data, or was not to.
LEMMA Freed ==
  ASSUME IInv, IInv', Bounded, NEW e \in Elems, Live(e), Free(e),
         told' = told \/ told' = [told EXCEPT ![e] = told[e] + 1],
         \A u \in Clients : me'[u].weight \in 0..MaxWeight
  PROVE  Bounded'
<1> DEFINE z == [Unused EXCEPT !.state = "freed"]
<1>1. z.state = "freed" /\ z.weight = 0 /\ z.cnt = 0
  BY DEF Unused
<1>2. elem' = [elem EXCEPT ![e] = z] /\ queue' = Without(e) /\ num' = num - elem[e].weight
  BY DEF Free
<1> HIDE DEF z
<1>3. elem'[e] = z /\ \A f \in Elems : f # e => elem'[f] = elem[f]
  BY <1>2 DEF IInv, Types
<1>4. e \in In(queue) /\ Once(queue) /\ Types /\ Types'
  BY DEF IInv, Queued
<1>5. Accounted'
  BY <1>2, <1>3, <1>4, WeighFreed DEF Bounded, Accounted
<1>6. num' <= MaxElements
  BY SMTT(30), <1>2, <1>4, QueueAssumption DEF Bounded, Types, Element
<1>7. told[e] = 0
  BY DEF Bounded, Live
<1>8. ASSUME NEW f \in Elems
      PROVE  /\ elem'[f].weight \in 0..MaxWeight /\ (~Live(f)' => elem'[f].cnt = 0)
             /\ told'[f] \in 0..1 /\ (elem'[f].state # "freed" => told'[f] = 0)
  <2>1. CASE f = e
    <3>1. 0 \in 0..MaxWeight /\ told'[f] \in 0..1
      BY <1>4, <1>7, <2>1, QueueAssumption DEF Types
    <3> QED BY <1>1, <1>3, <2>1, <3>1
  <2>2. CASE f # e
    <3>1. elem'[f] = elem[f] /\ told'[f] = told[f] /\ (Live(f)' <=> Live(f))
      BY <1>3, <1>4, <2>2 DEF Types, Live
    <3> QED BY <3>1 DEF Bounded
  <2> QED BY <2>1, <2>2
<1> QED BY <1>5, <1>6, <1>8 DEF Bounded

LEMMA Added ==
  ASSUME IInv, IInv', Bounded, NEW t \in Clients, AddElement(t)
  PROVE  Bounded'
<1>1. PICK e \in Elems :
        /\ elem[e].state = "unused"
        /\ elem' = [elem EXCEPT ![e] = [state |-> "live", key |-> me[t].key, cnt |-> 1,
                                        weight |-> me[t].weight, locked |-> FALSE]]
        /\ queue' = EnQueue(e)
        /\ num' = num + me[t].weight
        /\ Return(t, [Back(t) EXCEPT !.ref = e, !.n = 1])
        /\ told' = told
  BY DEF AddElement
<1>2. /\ elem'[e].state = "live" /\ elem'[e].weight = me[t].weight
      /\ \A f \in Elems : f # e => elem'[f] = elem[f]
  BY <1>1 DEF IInv, Types
<1>3. Once(queue) /\ Types /\ Types' /\ e \notin In(queue)
  BY <1>1 DEF IInv, Queued, Live
<1>4. Weigh'[Len(queue')] = Weigh[Len(queue)] - 0 + elem'[e].weight
  BY <1>1, <1>2, <1>3, WeighEnQueued
<1>5. Accounted'
  BY <1>1, <1>2, <1>3, <1>4 DEF Bounded, Accounted, Types
<1>6. num' <= MaxElements
  BY <1>1 DEF AddElement, Fits
<1>7. \A u \in Clients : me'[u].weight \in 0..MaxWeight
  <2>1. [Back(t) EXCEPT !.ref = e, !.n = 1].weight = 0
    BY <1>3, VarsAre
  <2> DEFINE r == [Back(t) EXCEPT !.ref = e, !.n = 1]
  <2>2. me' = [me EXCEPT ![t] = r] /\ r.weight \in 0..MaxWeight
    BY <1>1, <2>1, QueueAssumption DEF Return
  <2> HIDE DEF r
  <2> QED BY <1>3, <2>2, WeightsKept
<1>8. \A f \in Elems : /\ elem'[f].weight \in 0..MaxWeight /\ (~Live(f)' => elem'[f].cnt = 0)
                       /\ told'[f] \in 0..1 /\ (elem'[f].state # "freed" => told'[f] = 0)
  BY <1>1, <1>2 DEF Bounded, Live
<1> QED BY <1>5, <1>6, <1>7, <1>8 DEF Bounded

LEMMA StepIsBounded ==
  ASSUME IInv, IInv', Bounded, NEW t \in Clients, Step(t)
  PROVE  Bounded'
<1> USE DEF Ask, Return, Goto
<1>1. Types /\ me[t] \in Local /\ me[t].weight \in 0..MaxWeight /\ 0 \in 0..MaxWeight
  BY QueueAssumption DEF IInv, Types, Bounded
<1>2. ASSUME NEW r, r.weight \in 0..MaxWeight, me' = [me EXCEPT ![t] = r]
      PROVE  \A u \in Clients : me'[u].weight \in 0..MaxWeight
  BY <1>1, <1>2, WeightsKept
<1>3. ASSUME UNCHANGED <<elem, queue, num, told>>, NEW r, r.weight \in 0..MaxWeight,
             me' = [me EXCEPT ![t] = r]
      PROVE  Bounded'
  BY <1>2, <1>3, Untouched
<1>4. /\ \A l \in Labels : Called(t, l).weight = me[t].weight
      /\ \A l \in Labels, e \in Elems \cup {None} :
           [Called(t, l) EXCEPT !.at = e].weight = me[t].weight
      /\ Back(t).weight = 0 /\ Dropped(t).weight = 0 /\ Idle.weight = 0
      /\ \A e \in Elems : [Back(t) EXCEPT !.ref = e, !.n = 1].weight = 0
      /\ [Back(t) EXCEPT !.n = @ + 1].weight = 0
  BY <1>1, VarsAre
<1>5. CASE Add(t)
  <2>1. PICK k \in Keys, w \in 0..MaxWeight :
          me' = [me EXCEPT ![t] = [Called(t, "add") EXCEPT !.key = k,
                                                           !.weight = IF w = 0 THEN 1 ELSE w]]
    BY <1>5 DEF Add
  <2> DEFINE r == [Called(t, "add") EXCEPT !.key = k, !.weight = IF w = 0 THEN 1 ELSE w]
  <2>2. r.weight = IF w = 0 THEN 1 ELSE w
    BY <1>1 DEF Called, Local
  <2>3. r.weight \in 0..MaxWeight
    BY <2>2, QueueAssumption
  <2>4. me' = [me EXCEPT ![t] = r] /\ UNCHANGED <<elem, queue, num, told>>
    BY <1>5, <2>1 DEF Add
  <2> HIDE DEF r
  <2> QED BY <1>3, <2>3, <2>4
<1>6. ASSUME NEW e, DiscardFrom(t, e)
      PROVE  Bounded'
  <2>1. PICK i \in DOMAIN queue : me' = [me EXCEPT ![t] = [Called(t, "discard") EXCEPT !.at = queue[i]]]
    BY <1>6 DEF DiscardFrom, Unlinked
  <2>2. queue[i] \in Elems /\ "discard" \in Labels
    BY <1>1 DEF Types, Labels
  <2>3. [Called(t, "discard") EXCEPT !.at = queue[i]].weight = me[t].weight
    BY <1>4, <2>2
  <2> DEFINE r == [Called(t, "discard") EXCEPT !.at = queue[i]]
  <2>4. me' = [me EXCEPT ![t] = r] /\ UNCHANGED <<elem, queue, num, told>> /\ r.weight \in 0..MaxWeight
    BY <1>1, <1>6, <2>1, <2>3 DEF DiscardFrom
  <2> HIDE DEF r
  <2> QED BY <1>3, <2>4
<1>7. CASE DiscardOne(t) \/ DiscardRefused(t)
  <2>1. CASE UNCHANGED <<elem, queue, num, told>> /\ me' = [me EXCEPT ![t] = Back(t)]
    BY <1>1, <1>3, <1>4, <2>1
  <2>2. (\E e : DiscardFrom(t, e))
        \/ (UNCHANGED <<elem, queue, num, told>> /\ me' = [me EXCEPT ![t] = Back(t)])
    BY <1>7 DEF DiscardOne, DiscardRefused
  <2> QED BY <1>6, <2>1, <2>2
<1>8. CASE AddFull(t) \/ AddFails(t)
  <2>1. UNCHANGED <<elem, queue, num, told>> /\ me' = [me EXCEPT ![t] = Back(t)]
    BY <1>8 DEF AddFull, AddFails
  <2> QED BY <1>1, <1>3, <1>4, <2>1
<1>9. CASE Lookup(t)
  <2>1. PICK k \in Keys : me' = [me EXCEPT ![t] = [Called(t, "lookup") EXCEPT !.key = k]]
    BY <1>9 DEF Lookup
  <2> DEFINE r == [Called(t, "lookup") EXCEPT !.key = k]
  <2>2. r.weight = me[t].weight
    BY <1>1 DEF Called, Local
  <2>3. me' = [me EXCEPT ![t] = r] /\ UNCHANGED <<elem, queue, num, told>>
    BY <1>9, <2>1 DEF Lookup
  <2> HIDE DEF r
  <2> QED BY <1>1, <1>3, <2>2, <2>3
<1>10. CASE Use(t) \/ Remove(t) \/ DeInit(t)
  <2>1. PICK l \in Labels : me' = [me EXCEPT ![t] = Called(t, l)]
    <3>1. \A l \in {"unlink", "link", "remove", "keep", "deinit"} : l \in Labels
      BY DEF Labels
    <3> QED BY <1>10, <3>1 DEF Use, Remove, DeInit
  <2>2. UNCHANGED <<elem, queue, num, told>>
    BY <1>10 DEF Use, Remove, DeInit
  <2> QED BY <1>1, <1>3, <1>4, <2>1, <2>2
<1>11. CASE RemoveDiscards(t)
  <2>1. /\ me' = [me EXCEPT ![t] = [Called(t, "removing") EXCEPT !.at = me[t].ref]]
        /\ UNCHANGED <<elem, queue, num, told>>
    BY <1>11 DEF RemoveDiscards
  <2>2. me[t].ref \in Elems \cup {None} /\ "removing" \in Labels
    BY <1>1 DEF Local, Labels
  <2>3. [Called(t, "removing") EXCEPT !.at = me[t].ref].weight = me[t].weight
    BY <1>4, <2>2
  <2> DEFINE r == [Called(t, "removing") EXCEPT !.at = me[t].ref]
  <2>4. me' = [me EXCEPT ![t] = r] /\ r.weight \in 0..MaxWeight
    BY <1>1, <2>1, <2>3
  <2> HIDE DEF r
  <2> QED BY <1>3, <2>1, <2>4
<1>12. CASE LookedUp(t)
  <2> DEFINE e == table[me[t].key]
             r == [Back(t) EXCEPT !.ref = e, !.n = 1]
  <2>1. CASE e = None
    <3>1. UNCHANGED <<elem, queue, num, told>> /\ me' = [me EXCEPT ![t] = Back(t)]
      BY <1>12, <2>1 DEF LookedUp
    <3> QED BY <1>1, <1>3, <1>4, <3>1
  <2>2. CASE e # None
    <3>1. me[t].key \in Keys
      BY <1>12 DEF LookedUp, Inside, At, IInv, Placed
    <3>2. e \in Elems /\ Live(e) /\ elem[e].cnt \in Int
      BY <1>1, <2>2, <3>1 DEF IInv, Types, Tabled, Element
    <3>3. /\ elem' = [elem EXCEPT ![e].cnt = @ + 1] /\ UNCHANGED <<queue, num, told>>
          /\ me' = [me EXCEPT ![t] = r]
      BY <1>12, <2>2 DEF LookedUp
    <3>4. elem' = [elem EXCEPT ![e].cnt = elem[e].cnt + 1] /\ elem[e].cnt + 1 \in Int
      BY <3>2, <3>3
    <3>5. r.weight = 0
      BY <1>4, <3>2
    <3> HIDE DEF r, e
    <3>6. \A u \in Clients : me'[u].weight \in 0..MaxWeight
      BY <1>1, <1>2, <3>3, <3>5
    <3> QED BY <3>2, <3>3, <3>4, <3>6, Fielded
  <2> QED BY <2>1, <2>2
<1>13. CASE Unlink(t)
  <2> DEFINE e == me[t].ref
  <2>1. /\ Live(e) /\ queue' = EnQueue(e) /\ UNCHANGED <<num, told>>
        /\ elem' = [elem EXCEPT ![e].cnt = @ - 1] /\ me' = [me EXCEPT ![t] = Dropped(t)]
    BY <1>13 DEF Unlink
  <2>2. e \in Elems
    BY <1>1, <1>13 DEF Unlink, Inside, At, IInv, Placed, Local
  <2>3. elem' = [elem EXCEPT ![e].cnt = elem[e].cnt - 1] /\ elem[e].cnt - 1 \in Int
    BY <1>1, <2>1, <2>2 DEF Types, Element
  <2>4. \A u \in Clients : me'[u].weight \in 0..MaxWeight
    BY <1>1, <1>2, <1>4, <2>1
  <2> HIDE DEF e
  <2> QED BY <2>1, <2>2, <2>3, <2>4, Fielded
<1>14. CASE Link(t)
  <2> DEFINE e == me[t].ref
             r == [Back(t) EXCEPT !.n = @ + 1]
  <2>1. /\ Live(e) /\ UNCHANGED <<queue, num, told>>
        /\ elem' = [elem EXCEPT ![e].cnt = @ + 1] /\ me' = [me EXCEPT ![t] = r]
    BY <1>14 DEF Link
  <2>2. e \in Elems
    BY <1>1, <1>14 DEF Link, Inside, At, IInv, Placed, Local
  <2>3. elem' = [elem EXCEPT ![e].cnt = elem[e].cnt + 1] /\ elem[e].cnt + 1 \in Int
    BY <1>1, <2>1, <2>2 DEF Types, Element
  <2>4. r.weight = 0
    BY <1>4
  <2> HIDE DEF r
  <2>5. \A u \in Clients : me'[u].weight \in 0..MaxWeight
    BY <1>1, <1>2, <2>1, <2>4
  <2> HIDE DEF e
  <2> QED BY <2>1, <2>2, <2>3, <2>5, Fielded
<1>15. CASE LockItem(t)
  <2> DEFINE e == me[t].ref
  <2>1. /\ e # None /\ Live(e) /\ UNCHANGED <<queue, num, told, me>>
        /\ elem' = [elem EXCEPT ![e].locked = ~elem[e].locked]
    BY <1>15 DEF LockItem
  <2>2. e \in Elems
    BY <1>1, <2>1 DEF Local
  <2>3. \A u \in Clients : me'[u].weight \in 0..MaxWeight
    BY <2>1 DEF Bounded
  <2> HIDE DEF e
  <2> QED BY <2>1, <2>2, <2>3, Fielded
<1>16. CASE AddElement(t)
  BY <1>16, Added
<1>17. CASE Discarded(t)
  <2> DEFINE e == me[t].at
             r == [Called(t, "add") EXCEPT !.at = None]
  <2>1. /\ Free(e) /\ told' = [told EXCEPT ![e] = told[e] + 1] /\ me' = [me EXCEPT ![t] = r]
        /\ me[t].pc = "discard"
    BY <1>17 DEF Discarded, Inside, At
  <2>2. e \in Elems /\ Live(e)
    BY <1>1, <2>1 DEF IInv, Placed, Discarding, Local
  <2>3. r.weight = me[t].weight
    <3>1. "add" \in Labels
      BY DEF Labels
    <3> QED BY <1>4, <3>1
  <2> HIDE DEF r
  <2>4. \A u \in Clients : me'[u].weight \in 0..MaxWeight
    BY <1>1, <1>2, <2>1, <2>3
  <2> HIDE DEF e
  <2> QED BY <2>1, <2>2, <2>4, Freed
<1>18. CASE Removed(t) \/ RemoveKeeps(t)
  <2> DEFINE e == IF me[t].pc = "removing" THEN me[t].at ELSE me[t].ref
  <2>1. CASE UNCHANGED <<elem, queue, num, told>> /\ me' = [me EXCEPT ![t] = Back(t)]
    BY <1>1, <1>3, <1>4, <2>1
  <2>2. \/ UNCHANGED <<elem, queue, num, told>> /\ me' = [me EXCEPT ![t] = Back(t)]
        \/ /\ Free(e) /\ me' = [me EXCEPT ![t] = Idle]
           /\ told' = told \/ told' = [told EXCEPT ![e] = told[e] + 1]
    BY <1>18 DEF Removed, RemoveKeeps, Inside, At
  <2>3. e \in Elems /\ Live(e)
    BY <1>1, <1>18 DEF Removed, RemoveKeeps, Inside, At, IInv, Placed, Discarding, Local
  <2>4. CASE Free(e) /\ me' = [me EXCEPT ![t] = Idle]
             /\ (told' = told \/ told' = [told EXCEPT ![e] = told[e] + 1])
    <3>1. \A u \in Clients : me'[u].weight \in 0..MaxWeight
      BY <1>1, <1>2, <1>4, <2>4
    <3> HIDE DEF e
    <3> QED BY <2>3, <2>4, <3>1, Freed
  <2> QED BY <2>1, <2>2, <2>4
<1>19. CASE DeInitNext(t)
  <2> DEFINE e == Head(queue)
  <2>1. /\ queue # <<>> /\ Free(e) /\ UNCHANGED me
        /\ told' = [told EXCEPT ![e] = IF elem[e].locked THEN @ ELSE @ + 1]
    BY <1>19 DEF DeInitNext
  <2>2. e \in In(queue) /\ queue \in Seq(Elems)
    BY <1>1, <2>1 DEF Types, In
  <2>3. e \in Elems /\ Live(e)
    BY <2>2 DEF IInv, Queued
  <2> HIDE DEF e
  <2>4. told' = told \/ told' = [told EXCEPT ![e] = told[e] + 1]
    BY <1>1, <2>1, <2>3 DEF Types
  <2>5. \A u \in Clients : me'[u].weight \in 0..MaxWeight
    BY <2>1 DEF Bounded
  <2> QED BY <2>1, <2>3, <2>4, <2>5, Freed
<1>20. CASE DeInitDone(t) \/ UseFreed(t)
  <2>1. UNCHANGED <<elem, queue, num, told>>
    BY <1>20 DEF DeInitDone, UseFreed
  <2>2. \A u \in Clients : me'[u].weight \in 0..MaxWeight
    <3>1. CASE DeInitDone(t)
      <4>1. [Idle EXCEPT !.pc = "closed"].weight = 0
        BY DEF Idle
      <4> QED BY <1>1, <3>1, <4>1 DEF DeInitDone
    <3>2. CASE UseFreed(t)
      BY <3>2 DEF UseFreed, Bounded
    <3> QED BY <1>20, <3>1, <3>2
  <2> QED BY <2>1, <2>2, Untouched
<1> QED BY <1>5, <1>7, <1>8, <1>9, <1>10, <1>11, <1>12, <1>13, <1>14, <1>15, <1>16, <1>17,
           <1>18, <1>19, <1>20 DEF Step

LEMMA InitIsBounded == Init => Bounded
<1> SUFFICES ASSUME Init PROVE Bounded
  OBVIOUS
<1>1. /\ elem = [e \in Elems |-> Unused] /\ queue = <<>> /\ num = 0
      /\ me = [t \in Clients |-> Idle] /\ told = [e \in Elems |-> 0]
  BY DEF Init
<1>2. Weigh[Len(queue)] = 0
  BY <1>1, WeighIs
<1> QED BY <1>1, <1>2, QueueAssumption DEF Bounded, Accounted, Unused, Idle, Live

LEMMA AlwaysBounded == Spec => [](IInv /\ Bounded)
<1>1. IInv /\ IInv' /\ Bounded /\ [Next]_vars => Bounded'
  <2> SUFFICES ASSUME IInv, IInv', Bounded, [Next]_vars PROVE Bounded'
    OBVIOUS
  <2>1. CASE Next
    BY <2>1, StepIsBounded DEF Next
  <2>2. CASE UNCHANGED vars
    <3>1. \A u \in Clients : me'[u].weight \in 0..MaxWeight
      BY <2>2 DEF vars, Bounded
    <3> QED BY <2>2, <3>1, Untouched DEF vars
  <2> QED BY <2>1, <2>2
<1> QED BY Invariance, InitIsBounded, <1>1, PTL DEF Spec

(***************************************************************************)
(* NumElements is the weight of what is in the queue: what xhqAdd adds and *)
(* each of the four ways to free an element takes off is the same.         *)
(***************************************************************************)
THEOREM WeightAccounted == Spec => []Accounted
<1>1. IInv /\ Bounded => Accounted
  BY DEF Bounded
<1> QED BY AlwaysBounded, <1>1, PTL

LEMMA CountBounded ==
  ASSUME NEW e \in Elems, Types
  PROVE  /\ Cardinality(References(e)) \in 0..(MaxRefs * Cardinality(Clients))
         /\ 0 \in 0..(MaxRefs * Cardinality(Clients))
<1> DEFINE S == Clients \X (1..MaxRefs)
<1>1. IsFiniteSet(Clients) /\ MaxRefs \in Nat
  BY QueueAssumption
<1>2. IsFiniteSet(1..MaxRefs) /\ Cardinality(1..MaxRefs) = MaxRefs
  BY <1>1, FS_Interval
<1>3. IsFiniteSet(S) /\ Cardinality(S) = Cardinality(Clients) * Cardinality(1..MaxRefs)
  BY <1>1, <1>2, FS_Product
<1>4. References(e) \subseteq S
  BY DEF References
<1>5. Cardinality(References(e)) <= Cardinality(S) /\ IsFiniteSet(References(e))
  BY <1>3, <1>4, FS_Subset
<1>6. Cardinality(References(e)) \in Nat /\ Cardinality(Clients) \in Nat
  BY <1>1, <1>5, FS_CardinalityType
<1>7. Cardinality(Clients) * MaxRefs = MaxRefs * Cardinality(Clients)
  BY <1>1, <1>6
<1>8. MaxRefs * Cardinality(Clients) \in Int
  BY <1>1, <1>6
<1>9. PICK m \in Int : m = MaxRefs * Cardinality(Clients)
  BY <1>8
<1>10. Cardinality(References(e)) <= m
  BY <1>2, <1>3, <1>5, <1>7, <1>9
<1>11. Cardinality(References(e)) \in 0..m /\ 0 \in 0..m
  BY <1>6, <1>9, <1>10
<1> QED BY <1>9, <1>11

(***************************************************************************)
(* What the cache holds never weighs more than its capacity, DiscardFn is  *)
(* called with success at most once for an element, and the variables have *)
(* their types.                                                            *)
(***************************************************************************)
THEOREM TypeCorrect == Spec => []TypeOK
<1>1. IInv /\ Bounded => TypeOK
  <2> SUFFICES ASSUME IInv, Bounded PROVE TypeOK
    OBVIOUS
  <2>1. Types
    BY DEF IInv
  <2>2. num \in 0..MaxElements
    <3>1. queue \in Seq(Elems) /\ W \in [Elems -> Nat] /\ Sums(Weigh, queue, W)
      BY <2>1, WeighSums DEF Types
    <3>2. Len(queue) \in 0..Len(queue)
      BY <3>1
    <3>3. Weigh[Len(queue)] \in Nat
      BY <3>1, <3>2, SumsAre
    <3> QED BY <3>3, QueueAssumption DEF Bounded, Accounted
  <2>3. ASSUME NEW e \in Elems
        PROVE  elem[e] \in [state : {"unused", "live", "freed"},
                            key : Keys \cup {None}, weight : 0..MaxWeight,
                            cnt : 0..(MaxRefs * Cardinality(Clients)),
                            locked : BOOLEAN]
    <3>1. /\ Cardinality(References(e)) \in 0..(MaxRefs * Cardinality(Clients))
          /\ 0 \in 0..(MaxRefs * Cardinality(Clients))
      BY <2>1, CountBounded
    <3>2. elem[e].cnt \in 0..(MaxRefs * Cardinality(Clients))
      <4>1. CASE Live(e)
        BY <3>1, <4>1 DEF IInv, LinksHeld
      <4>2. CASE ~Live(e)
        BY <3>1, <4>2 DEF Bounded
      <4> QED BY <4>1, <4>2
    <3>3. elem[e] \in Element /\ elem[e].weight \in 0..MaxWeight
      BY <2>1 DEF Types, Bounded
    <3> QED BY <3>2, <3>3 DEF Element
  <2>4. ASSUME NEW t \in Clients
        PROVE  me[t] \in [pc : Labels, ref : Elems \cup {None},
                          n : 0..MaxRefs, key : Keys \cup {None},
                          weight : 0..MaxWeight, at : Elems \cup {None}]
    BY <2>1 DEF Types, Bounded, Local
  <2>5. told \in [Elems -> 0..1]
    BY <2>1 DEF Types, Bounded
  <2>6. elem = [e \in Elems |-> elem[e]] /\ me = [t \in Clients |-> me[t]]
    BY <2>1 DEF Types
  <2> QED BY <2>1, <2>2, <2>3, <2>4, <2>5, <2>6 DEF Types, TypeOK
<1> QED BY AlwaysBounded, <1>1, PTL
=============================================================================
