---------------------------- MODULE Lines_proofs ----------------------------
(***************************************************************************)
(* What the lists of Lines hold when one is added or taken out, sums over  *)
(* a list or a set, and folds over a list.                                 *)
(***************************************************************************)
EXTENDS Lines, FiniteSets, FiniteSetsExt, FiniteSetTheorems, WellFoundedInduction, TLAPS

(***************************************************************************)
(* A line with one more at its end.                                        *)
(***************************************************************************)
LEMMA AskAppends ==
  ASSUME NEW S, NEW q \in Seq(S), NEW x \in S, Once(q), x \notin In(q)
  PROVE  /\ Append(q, x) \in Seq(S) /\ Once(Append(q, x))
         /\ In(Append(q, x)) = In(q) \cup {x}
         /\ q # <<>> => Head(Append(q, x)) = Head(q)
<1> DEFINE r == Append(q, x)
<1>1. /\ Len(q) \in Nat /\ DOMAIN q = 1..Len(q) /\ r \in Seq(S)
      /\ DOMAIN r = 1..(Len(q) + 1) /\ r[Len(q) + 1] = x
      /\ \A i \in 1..Len(q) : r[i] = q[i]
  OBVIOUS
<1> HIDE DEF r
<1>2. \A i \in 1..(Len(q) + 1) : i \in 1..Len(q) \/ i = Len(q) + 1
  BY <1>1
<1>3. Once(r)
  BY <1>1, <1>2 DEF Once, In
<1>4. \A y \in In(r) : y \in In(q) \cup {x}
  BY <1>1, <1>2 DEF In
<1>5. \A i \in 1..Len(q) : i \in 1..(Len(q) + 1)
  BY <1>1
<1>6. \A y \in In(q) : y \in In(r)
  BY <1>1, <1>5 DEF In
<1>7. x \in In(r)
  <2>1. Len(q) + 1 \in 1..(Len(q) + 1)
    BY <1>1
  <2> QED BY <1>1, <2>1 DEF In
<1>8. q # <<>> => Head(r) = Head(q)
  BY <1>1 DEF r
<1> QED BY <1>1, <1>3, <1>4, <1>6, <1>7, <1>8 DEF r

(***************************************************************************)
(* A line without its first.                                               *)
(***************************************************************************)
LEMMA ReleaseTakes ==
  ASSUME NEW S, NEW q \in Seq(S), Once(q), q # <<>>
  PROVE  /\ Tail(q) \in Seq(S) /\ Once(Tail(q))
         /\ In(Tail(q)) = In(q) \ {Head(q)}
         /\ Head(q) \in In(q)
<1> DEFINE r == Tail(q)
<1>1. /\ Len(q) \in Nat \ {0} /\ DOMAIN q = 1..Len(q) /\ r \in Seq(S)
      /\ DOMAIN r = 1..(Len(q) - 1) /\ Head(q) = q[1]
      /\ \A i \in 1..(Len(q) - 1) : r[i] = q[i + 1]
  OBVIOUS
<1> HIDE DEF r
<1>2. \A i \in 1..(Len(q) - 1) : i + 1 \in 1..Len(q) /\ i + 1 # 1
  BY <1>1
<1>3. Once(r)
  <2> SUFFICES ASSUME NEW i \in DOMAIN r, NEW j \in DOMAIN r, r[i] = r[j] PROVE i = j
    BY DEF Once
  <2>1. i \in Nat /\ j \in Nat /\ q[i + 1] = q[j + 1] /\ i + 1 \in DOMAIN q /\ j + 1 \in DOMAIN q
    BY <1>1, <1>2
  <2>2. i + 1 = j + 1
    BY <2>1 DEF Once
  <2> QED BY <2>1, <2>2
<1>4. 1 \in 1..Len(q)
  BY <1>1
<1>5. \A y \in In(r) : y \in In(q) /\ y # Head(q)
  <2> TAKE y \in In(r)
  <2>1. PICK i \in 1..(Len(q) - 1) : y = r[i]
    BY <1>1 DEF In
  <2>2. i + 1 \in DOMAIN q /\ 1 \in DOMAIN q /\ i + 1 # 1 /\ y = q[i + 1]
    BY <1>1, <1>2, <1>4, <2>1
  <2>3. y \in In(q)
    BY <2>2 DEF In
  <2>4. y # q[1]
    BY <2>2 DEF Once
  <2> QED BY <1>1, <2>3, <2>4
<1>6. \A y \in In(q) : y # Head(q) => y \in In(r)
  <2> SUFFICES ASSUME NEW y \in In(q), y # Head(q) PROVE y \in In(r)
    OBVIOUS
  <2>1. PICK i \in 1..Len(q) : y = q[i]
    BY <1>1 DEF In
  <2>2. i # 1
    BY <1>1, <2>1
  <2>3. i - 1 \in 1..(Len(q) - 1) /\ (i - 1) + 1 = i
    BY <1>1, <2>2
  <2> QED BY <1>1, <2>1, <2>3 DEF In
<1>7. Head(q) \in In(q)
  BY <1>1, <1>4 DEF In
<1> QED BY <1>1, <1>3, <1>5, <1>6, <1>7 DEF r

(***************************************************************************)
(* A list from which one is taken out, wherever it is.                     *)
(***************************************************************************)
LEMMA TakenOutIs ==
  ASSUME NEW S, NEW q \in Seq(S), Once(q), NEW e
  PROVE  /\ TakenOut(q, e) \in Seq(S) /\ Once(TakenOut(q, e))
         /\ In(TakenOut(q, e)) = In(q) \ {e}
<1> DEFINE i == CHOOSE k \in DOMAIN q : q[k] = e
           s == [j \in 1..(Len(q) - 1) |-> q[IF j < i THEN j ELSE j + 1]]
<1>1. Len(q) \in Nat /\ DOMAIN q = 1..Len(q) /\ \A k \in 1..Len(q) : q[k] \in S
  BY DEF In
<1>2. CASE e \notin In(q)
  BY <1>1, <1>2 DEF TakenOut, In
<1>3. CASE e \in In(q)
  <2>1. i \in 1..Len(q) /\ q[i] = e
    BY <1>1, <1>3 DEF In
  <2>2. TakenOut(q, e) = s
    BY <1>3 DEF TakenOut, In
  <2> HIDE DEF i
  <2>3. DOMAIN s = 1..(Len(q) - 1) /\ Len(q) - 1 \in Nat
    BY <1>1, <2>1
  <2> DEFINE f(j) == IF j < i THEN j ELSE j + 1
  <2>4. \A j \in 1..(Len(q) - 1) : f(j) \in 1..Len(q) /\ f(j) # i /\ s[j] = q[f(j)]
    BY <1>1, <2>1
  <2>5. s \in Seq(S)
    <3>1. \A j \in 1..(Len(q) - 1) : s[j] \in S
      BY <1>1, <2>4
    <3> QED BY <3>1, <2>3
  <2>0. \A j, k \in 1..(Len(q) - 1) : f(j) = f(k) => j = k
    BY <1>1, <2>1
  <2> HIDE DEF s, f
  <2>6. Once(s)
    <3> SUFFICES ASSUME NEW j \in 1..(Len(q) - 1), NEW k \in 1..(Len(q) - 1), s[j] = s[k]
                 PROVE  j = k
      BY <2>3 DEF Once
    <3>1. f(j) = f(k)
      BY <1>1, <2>4 DEF Once
    <3> QED BY <3>1, <2>0
  <2>7. ASSUME NEW x \in In(s) PROVE x \in In(q) /\ x # e
    <3>1. PICK j \in 1..(Len(q) - 1) : x = s[j]
      BY <2>3 DEF In
    <3>2. x = q[f(j)] /\ f(j) \in 1..Len(q) /\ f(j) # i
      BY <2>4, <3>1
    <3>3. x \in In(q)
      BY <1>1, <3>2 DEF In
    <3>4. x # e
      BY <1>1, <2>1, <3>2 DEF Once
    <3> QED BY <3>3, <3>4
  <2>8. ASSUME NEW x \in In(q), x # e PROVE x \in In(s)
    <3>1. PICK j \in 1..Len(q) : x = q[j]
      BY <1>1 DEF In
    <3>2. CASE j < i
      <4>1. j \in 1..(Len(q) - 1) /\ f(j) = j
        BY <1>1, <2>1, <3>1, <3>2 DEF f
      <4> QED BY <4>1, <2>3, <2>4, <3>1 DEF In
    <3>3. CASE j > i
      <4>1. (j - 1) \in 1..(Len(q) - 1) /\ f(j - 1) = j
        BY <1>1, <2>1, <3>1, <3>3 DEF f
      <4> QED BY <4>1, <2>3, <2>4, <3>1 DEF In
    <3> QED BY <1>1, <2>1, <2>8, <3>1, <3>2, <3>3
  <2> QED BY <1>1, <2>2, <2>5, <2>6, <2>7, <2>8
<1> QED BY <1>2, <1>3

(***************************************************************************)
(* The order of a line: who joins it is behind all others, and it is kept  *)
(* when the first leaves, who was behind no one.                           *)
(***************************************************************************)
LEMMA BehindAll ==
  ASSUME NEW S, NEW q \in Seq(S), NEW x \in S
  PROVE  /\ \A y \in In(q) : Before(Append(q, x), y, x)
         /\ \A y, z \in S : Before(q, y, z) => Before(Append(q, x), y, z)
<1> DEFINE r == Append(q, x)
<1>1. /\ Len(q) \in Nat /\ DOMAIN q = 1..Len(q)
      /\ DOMAIN r = 1..(Len(q) + 1) /\ r[Len(q) + 1] = x
      /\ \A i \in 1..Len(q) : r[i] = q[i]
  OBVIOUS
<1> HIDE DEF r
<1>2. \A i \in 1..Len(q) : i \in 1..(Len(q) + 1) /\ i < Len(q) + 1
  BY <1>1
<1>3. Len(q) + 1 \in 1..(Len(q) + 1)
  BY <1>1
<1>4. ASSUME NEW y \in In(q) PROVE Before(r, y, x)
  <2>1. PICK i \in 1..Len(q) : q[i] = y
    BY <1>1 DEF In
  <2> QED BY <1>1, <1>2, <1>3, <2>1 DEF Before
<1>5. ASSUME NEW y \in S, NEW z \in S, Before(q, y, z) PROVE Before(r, y, z)
  <2>1. PICK i \in 1..Len(q), j \in 1..Len(q) : i < j /\ q[i] = y /\ q[j] = z
    BY <1>1, <1>5 DEF Before
  <2> QED BY <1>1, <1>2, <2>1 DEF Before
<1> QED BY <1>4, <1>5 DEF r

(***************************************************************************)
(* The order of a line when the first leaves.                              *)
(***************************************************************************)
LEMMA OrderKept ==
  ASSUME NEW S, NEW q \in Seq(S), Once(q), q # <<>>
  PROVE  /\ \A y, z \in S : Before(q, y, z) /\ y # Head(q) => Before(Tail(q), y, z)
         /\ \A y \in S : ~Before(q, y, Head(q))
<1> DEFINE r == Tail(q)
<1>1. /\ Len(q) \in Nat \ {0} /\ DOMAIN q = 1..Len(q)
      /\ DOMAIN r = 1..(Len(q) - 1) /\ Head(q) = q[1]
      /\ \A i \in 1..(Len(q) - 1) : r[i] = q[i + 1]
  OBVIOUS
<1> HIDE DEF r
<1>2. ASSUME NEW y \in S, NEW z \in S, Before(q, y, z), y # Head(q)
      PROVE  Before(r, y, z)
  <2>1. PICK i \in 1..Len(q), j \in 1..Len(q) : i < j /\ q[i] = y /\ q[j] = z
    BY <1>1, <1>2 DEF Before
  <2>2. i # 1
    BY <1>1, <1>2, <2>1
  <2>3. /\ i - 1 \in 1..(Len(q) - 1) /\ j - 1 \in 1..(Len(q) - 1) /\ i - 1 < j - 1
        /\ (i - 1) + 1 = i /\ (j - 1) + 1 = j
    BY <1>1, <2>1, <2>2
  <2>4. r[i - 1] = y /\ r[j - 1] = z
    BY <1>1, <2>1, <2>3
  <2> QED BY <1>1, <2>3, <2>4 DEF Before
<1>3. ASSUME NEW y \in S, Before(q, y, Head(q)) PROVE FALSE
  <2>1. PICK i \in 1..Len(q), j \in 1..Len(q) : i < j /\ q[i] = y /\ q[j] = q[1]
    BY <1>1, <1>3 DEF Before
  <2>2. 1 \in 1..Len(q)
    BY <1>1
  <2>3. j = 1
    BY <1>1, <2>1, <2>2 DEF Once
  <2> QED BY <1>1, <2>1, <2>3
<1> QED BY <1>2, <1>3 DEF r
-----------------------------------------------------------------------------
(***************************************************************************)
(* Sums over a list.  f[i] is the sum of the weights w of its first i.     *)
(* The provers have no induction for an operator: what holds at 0 and goes *)
(* on from each number to the next has no least exception.                 *)
(***************************************************************************)
LEMMA UpTo ==
  ASSUME NEW n \in Nat, NEW B, 0 \in B, \A i \in 1..n : i - 1 \in B => i \in B
  PROVE  \A i \in 0..n : i \in B
<1> DEFINE R == OpToRel(<, Nat)
           K == (0..n) \ B
<1>1. SUFFICES ASSUME K # {} PROVE FALSE
  OBVIOUS
<1>2. IsWellFoundedOn(R, Nat)
  BY NatLessThanWellFounded
<1>0. K \in SUBSET Nat
  OBVIOUS
<1>3. PICK k \in K : \A j \in K : ~(<<j, k>> \in R)
  <2> HIDE DEF R, K
  <2> QED BY <1>0, <1>1, <1>2, WFMin
<1>4. \A j \in K : ~(j < k)
  <2>1. \A j \in K : j \in Nat /\ k \in Nat
    OBVIOUS
  <2> HIDE DEF K
  <2> QED BY <1>3, <2>1 DEF OpToRel
<1>5. k \in 1..n /\ k - 1 \in 0..n /\ k - 1 < k
  OBVIOUS
<1>6. k - 1 \in B
  BY <1>4, <1>5
<1> QED BY <1>5, <1>6

Sums(f, q, w) == f[0] = 0 /\ \A i \in 1..Len(q) : f[i] = f[i - 1] + w[q[i]]

\* The definition of such an f by recursion has a solution.
LEMMA SumsExist ==
  ASSUME NEW d
  PROVE  \E f : f = [i \in Nat |-> IF i = 0 THEN 0 ELSE f[i - 1] + d[i]]
<1> DEFINE Upto(n, g) == g = [i \in 0..n |-> IF i = 0 THEN 0 ELSE g[i - 1] + d[i]]
           The(n) == CHOOSE g : Upto(n, g)
           f == [i \in Nat |-> The(i)[i]]
<1>1. \A n \in Nat : \E g : Upto(n, g)
  <2> SUFFICES ASSUME NEW m \in Nat PROVE \E g : Upto(m, g)
    OBVIOUS
  <2> DEFINE B == {n \in Nat : \E g : Upto(n, g)}
  <2>1. 0 \in B
    <3>1. Upto(0, [i \in 0..0 |-> 0])
      OBVIOUS
    <3> QED BY <3>1
  <2>2. ASSUME NEW n \in 1..m, n - 1 \in B
        PROVE  n \in B
    <3>1. PICK g : Upto(n - 1, g)
      BY <2>2
    <3> DEFINE h == [i \in 0..n |-> IF i = n THEN g[n - 1] + d[n] ELSE g[i]]
    <3>2. \A i \in 0..n : h[i] = IF i = 0 THEN 0 ELSE h[i - 1] + d[i]
      <4> SUFFICES ASSUME NEW i \in 0..n PROVE h[i] = IF i = 0 THEN 0 ELSE h[i - 1] + d[i]
        OBVIOUS
      <4>1. CASE i = n
        BY <4>1
      <4>2. CASE i # n
        <5>1. i \in 0..(n - 1) /\ h[i] = g[i] /\ (i # 0 => h[i - 1] = g[i - 1])
          BY <4>2
        <5> HIDE DEF h
        <5> QED BY <3>1, <5>1
      <4> QED BY <4>1, <4>2
    <3>3. Upto(n, h)
      <4>1. h = [i \in 0..n |-> h[i]]
        OBVIOUS
      <4> HIDE DEF h
      <4> QED BY <3>2, <4>1
    <3> HIDE DEF h
    <3> QED BY <3>3
  <2> HIDE DEF B
  <2>3. m \in B
    BY <2>1, <2>2, UpTo
  <2> QED BY <2>3 DEF B
<1>2. ASSUME NEW n \in Nat
      PROVE  Upto(n, The(n))
  <2> HIDE DEF Upto
  <2> QED BY <1>1
<1>3. ASSUME NEW n \in Nat, NEW m \in Nat, n <= m
      PROVE  \A i \in 0..n : The(n)[i] = The(m)[i]
  <2> DEFINE a == The(n)
             b == The(m)
             B == {i \in 0..n : a[i] = b[i]}
  <2>1. Upto(n, a) /\ Upto(m, b)
    BY <1>2
  <2> HIDE DEF a, b, The
  <2>2. \A i \in 0..n : /\ a[i] = IF i = 0 THEN 0 ELSE a[i - 1] + d[i]
                        /\ b[i] = IF i = 0 THEN 0 ELSE b[i - 1] + d[i]
    <3> SUFFICES ASSUME NEW i \in 0..n
                 PROVE  /\ a[i] = IF i = 0 THEN 0 ELSE a[i - 1] + d[i]
                        /\ b[i] = IF i = 0 THEN 0 ELSE b[i - 1] + d[i]
      OBVIOUS
    <3>1. i \in 0..m
      BY <1>3
    <3> QED BY <2>1, <3>1
  <2>3. 0 \in B /\ \A i \in 1..n : i - 1 \in B => i \in B
    BY <2>2
  <2> HIDE DEF B
  <2>4. \A i \in 0..n : i \in B
    BY <2>3, UpTo
  <2> QED BY <2>4 DEF B, a, b
<1>4. \A i \in Nat : f[i] = IF i = 0 THEN 0 ELSE f[i - 1] + d[i]
  <2> SUFFICES ASSUME NEW i \in Nat PROVE f[i] = IF i = 0 THEN 0 ELSE f[i - 1] + d[i]
    OBVIOUS
  <2>1. f[i] = The(i)[i] /\ Upto(i, The(i)) /\ i \in 0..i
    BY <1>2
  <2>2. CASE i = 0
    <3> HIDE DEF The, f
    <3> QED BY <2>1, <2>2
  <2>3. CASE i # 0
    <3>1. i - 1 \in Nat /\ i - 1 <= i /\ i - 1 \in 0..(i - 1)
      BY <2>3
    <3>2. f[i - 1] = The(i - 1)[i - 1]
      BY <3>1
    <3>3. The(i - 1)[i - 1] = The(i)[i - 1]
      <4> HIDE DEF The
      <4> QED BY <1>3, <3>1
    <3> HIDE DEF The, f
    <3> QED BY <2>1, <2>3, <3>2, <3>3
  <2> QED BY <2>2, <2>3
<1>5. f = [i \in Nat |-> IF i = 0 THEN 0 ELSE f[i - 1] + d[i]]
  <2>1. f = [i \in Nat |-> f[i]]
    OBVIOUS
  <2> HIDE DEF f
  <2> QED BY <1>4, <2>1
<1> HIDE DEF f
<1> QED BY <1>5

LEMMA SumsOf ==
  ASSUME NEW S, NEW q \in Seq(S), NEW w
  PROVE  \E f : Sums(f, q, w)
<1> DEFINE d == [i \in Nat |-> w[q[i]]]
<1>1. PICK f : f = [i \in Nat |-> IF i = 0 THEN 0 ELSE f[i - 1] + d[i]]
  BY SumsExist
<1>2. \A i \in Nat : f[i] = IF i = 0 THEN 0 ELSE f[i - 1] + w[q[i]]
  <2>1. \A i \in Nat : d[i] = w[q[i]]
    OBVIOUS
  <2> HIDE DEF d
  <2> QED BY <1>1, <2>1
<1>3. Len(q) \in Nat
  OBVIOUS
<1> QED BY <1>2, <1>3 DEF Sums

LEMMA SumsAre ==
  ASSUME NEW S, NEW q \in Seq(S), NEW w \in [S -> Nat], NEW f, Sums(f, q, w)
  PROVE  \A i \in 0..Len(q) : f[i] \in Nat
<1> DEFINE B == {i \in 0..Len(q) : f[i] \in Nat}
<1>1. Len(q) \in Nat /\ 0 \in B
  BY DEF Sums
<1>2. ASSUME NEW i \in 1..Len(q), i - 1 \in B
      PROVE  i \in B
  <2>1. q[i] \in S /\ w[q[i]] \in Nat /\ f[i] = f[i - 1] + w[q[i]]
    BY <1>1 DEF Sums
  <2> QED BY <1>1, <1>2, <2>1
<1> HIDE DEF B
<1>3. \A i \in 0..Len(q) : i \in B
  BY <1>1, <1>2, UpTo
<1> QED BY <1>3 DEF B

LEMMA SumKept ==
  ASSUME NEW S, NEW q \in Seq(S), NEW w, NEW v, \A x \in In(q) : v[x] = w[x],
         NEW f, Sums(f, q, w), NEW g, Sums(g, q, v)
  PROVE  g[Len(q)] = f[Len(q)]
<1> DEFINE B == {i \in 0..Len(q) : g[i] = f[i]}
<1>1. Len(q) \in Nat /\ 0 \in B
  BY DEF Sums
<1>2. ASSUME NEW i \in 1..Len(q), i - 1 \in B
      PROVE  i \in B
  <2>1. v[q[i]] = w[q[i]]
    BY <1>1 DEF In
  <2> QED BY <1>1, <1>2, <2>1 DEF Sums
<1> HIDE DEF B
<1>3. \A i \in 0..Len(q) : i \in B
  BY <1>1, <1>2, UpTo
<1> QED BY <1>1, <1>3 DEF B

LEMMA SumOfPut ==
  ASSUME NEW S, NEW q \in Seq(S), NEW e \in S, NEW w \in [S -> Nat],
         NEW f, Sums(f, q, w), NEW g, Sums(g, <<e>> \o q, w)
  PROVE  g[Len(<<e>> \o q)] = f[Len(q)] + w[e]
<1> DEFINE B == {i \in 0..Len(q) : g[i + 1] = f[i] + w[e]}
<1>1. /\ Len(q) \in Nat /\ Len(<<e>> \o q) = Len(q) + 1 /\ w[e] \in Nat
      /\ (<<e>> \o q)[1] = e /\ \A i \in 1..Len(q) : (<<e>> \o q)[i + 1] = q[i] /\ q[i] \in S
  OBVIOUS
<1>2. \A i \in 0..Len(q) : f[i] \in Nat
  BY SumsAre
<1>3. 0 \in B
  BY SMTT(30), <1>1 DEF Sums
<1>4. ASSUME NEW i \in 1..Len(q), i - 1 \in B
      PROVE  i \in B
  <2>1. f[i] = f[i - 1] + w[q[i]] /\ w[q[i]] \in Nat /\ f[i - 1] \in Nat
    BY <1>1, <1>2 DEF Sums
  <2>2. i + 1 \in 1..(Len(q) + 1) /\ (i + 1) - 1 = i /\ (i - 1) + 1 = i
    BY <1>1
  <2>3. g[i + 1] = g[i] + w[q[i]]
    BY ZenonT(40), <1>1, <2>2 DEF Sums
  <2>4. g[i] = f[i - 1] + w[e]
    BY <1>4, <2>2
  <2> QED BY <1>1, <2>1, <2>3, <2>4
<1> HIDE DEF B
<1>5. \A i \in 0..Len(q) : i \in B
  BY <1>1, <1>3, <1>4, UpTo
<1> QED BY <1>1, <1>5 DEF B

LEMMA SumOfTakenOut ==
  ASSUME NEW S, NEW q \in Seq(S), Once(q), NEW e \in In(q), NEW w \in [S -> Nat],
         NEW f, Sums(f, q, w), NEW g, Sums(g, TakenOut(q, e), w)
  PROVE  g[Len(TakenOut(q, e))] = f[Len(q)] - w[e]
<1> DEFINE s == TakenOut(q, e)
<1>1. Len(q) \in Nat /\ DOMAIN q = 1..Len(q) /\ \A i \in 1..Len(q) : q[i] \in S
  OBVIOUS
<1>2. PICK k \in 1..Len(q) :
        q[k] = e /\ s = [j \in 1..(Len(q) - 1) |-> q[IF j < k THEN j ELSE j + 1]]
  <2> DEFINE i == CHOOSE i \in DOMAIN q : q[i] = e
  <2>1. i \in 1..Len(q) /\ q[i] = e
    BY <1>1 DEF In
  <2> QED BY <2>1 DEF TakenOut
<1>0. PICK n \in Nat : n = Len(q) - 1
  BY <1>1, <1>2
<1>3. s = [j \in 1..n |-> q[IF j < k THEN j ELSE j + 1]]
  BY <1>0, <1>2
<1>4. e \in S /\ w[e] \in Nat /\ \A j \in 1..n : s[j] = q[IF j < k THEN j ELSE j + 1]
  BY <1>0, <1>1, <1>2, <1>3
<1>5. s \in Seq(S)
  BY TakenOutIs
<1>6. Len(s) = n
  <2>1. DOMAIN s = 1..n
    BY <1>3
  <2> HIDE DEF s
  <2> QED BY <1>4, <1>5, <2>1
<1>7. \A i \in 0..Len(q) : f[i] \in Nat
  BY SumsAre
<1> HIDE DEF s
<1> DEFINE B == {i \in 0..n : g[i] = IF i < k THEN f[i] ELSE f[i + 1] - w[e]}
<1>8. 0 \in B
  <2>1. 0 < k
    BY <1>1, <1>2
  <2> QED BY <1>4, <2>1 DEF Sums, s
<1>9. ASSUME NEW i \in 1..n, i - 1 \in B
      PROVE  i \in B
  <2>1. g[i] = g[i - 1] + w[s[i]]
    BY <1>6 DEF Sums, s
  <2>2. i \in 1..Len(q) /\ i + 1 \in 1..Len(q) /\ (i + 1) - 1 = i /\ (i - 1) + 1 = i
        /\ i \in Int /\ k \in Int /\ i \in 0..n
    BY <1>0, <1>1, <1>2
  <2>3. f[i] = f[i - 1] + w[q[i]] /\ f[i + 1] = f[i] + w[q[i + 1]]
    BY <2>2 DEF Sums
  <2>4. /\ f[i - 1] \in Nat /\ f[i] \in Nat /\ f[i + 1] \in Nat
        /\ w[q[i]] \in Nat /\ w[q[i + 1]] \in Nat
    BY <1>1, <1>7, <2>2
  <2>5. CASE i < k
    <3>1. s[i] = q[i] /\ i - 1 < k
      BY <1>4, <2>2, <2>5
    <3> QED BY <1>9, <2>1, <2>2, <2>3, <2>4, <2>5, <3>1
  <2>6. CASE i = k
    <3>1. s[i] = q[i + 1] /\ i - 1 < k /\ ~(i < k)
      BY <1>4, <2>2, <2>6
    <3>2. g[i] = f[i - 1] + w[q[i + 1]]
      BY <1>9, <2>1, <2>2, <3>1
    <3>3. w[q[i]] = w[e]
      BY <1>2, <2>6
    <3>4. f[i + 1] = f[i - 1] + w[e] + w[q[i + 1]]
      BY <2>3, <2>4, <3>3
    <3>5. w[e] \in Nat
      BY <2>4, <3>3
    <3>6. PICK a \in Nat : a = f[i - 1]
      BY <2>4
    <3>7. PICK b \in Nat : b = w[q[i + 1]]
      BY <2>4
    <3>8. PICK c \in Nat : c = w[e]
      BY <3>5
    <3>9. PICK d \in Nat : d = f[i + 1]
      BY <2>4
    <3>10. g[i] = a + b /\ d = a + c + b
      BY ONLY <3>2, <3>4, <3>6, <3>7, <3>8, <3>9
    <3>11. a + b = d - c
      BY ONLY <3>10
    <3>12. g[i] = f[i + 1] - w[e]
      BY ONLY <3>8, <3>9, <3>10, <3>11
    <3> QED BY <2>2, <3>1, <3>12
  <2>7. CASE k < i
    <3>1. s[i] = q[i + 1] /\ ~(i - 1 < k) /\ ~(i < k)
      BY <1>4, <2>2, <2>7
    <3>2. g[i] = f[i] - w[e] + w[q[i + 1]]
      BY <1>9, <2>1, <2>2, <3>1
    <3>3. g[i] = f[i + 1] - w[e]
      BY SMTT(30), <1>4, <2>3, <2>4, <3>2
    <3> QED BY <2>2, <3>1, <3>3
  <2> QED BY <2>2, <2>5, <2>6, <2>7
<1> HIDE DEF B
<1>10. \A i \in 0..n : i \in B
  BY <1>4, <1>8, <1>9, UpTo
<1>11. CASE n < k
  <2>1. k = n + 1 /\ Len(q) = n + 1 /\ Len(q) \in 1..Len(q) /\ Len(q) - 1 = n
    BY <1>0, <1>1, <1>2, <1>11
  <2>2. f[Len(q)] = f[n] + w[e] /\ f[n] \in Nat
    BY <1>1, <1>2, <1>7, <2>1 DEF Sums
  <2>3. n \in B
    BY <1>4, <1>10
  <2> QED BY <1>4, <1>6, <1>11, <2>1, <2>2, <2>3 DEF B, s
<1>12. CASE ~(n < k)
  <2>1. n + 1 = Len(q)
    BY <1>0, <1>1
  <2>2. n \in B
    BY <1>4, <1>10
  <2> QED BY <1>4, <1>6, <1>12, <2>1, <2>2 DEF B, s
<1> QED BY <1>11, <1>12

-----------------------------------------------------------------------------
(***************************************************************************)
(* Sums over a finite set, as MapThenSumSet defines them: g[s] is the sum  *)
(* of the weights w over the subset s of S.                                *)
(***************************************************************************)
First(s) == CHOOSE x \in s : TRUE

Totals(g, S, w) ==
  g = [s \in SUBSET S |-> IF s = {} THEN 0 ELSE w[First(s)] + g[s \ {First(s)}]]

\* What is left without an element is smaller by one.
LEMMA PartSmaller ==
  ASSUME NEW S, IsFiniteSet(S), NEW s \in SUBSET S
  PROVE  /\ Cardinality(s) \in 0..Cardinality(S)
         /\ s = {} <=> Cardinality(s) = 0
         /\ s # {} => First(s) \in s
         /\ \A x \in s : s \ {x} \in SUBSET S /\ Cardinality(s \ {x}) = Cardinality(s) - 1
<1>1. IsFiniteSet(s) /\ Cardinality(s) <= Cardinality(S)
  BY FS_Subset
<1>2. Cardinality(s) \in Nat /\ Cardinality(S) \in Nat
  BY <1>1, FS_CardinalityType
<1>3. s # {} => First(s) \in s
  BY DEF First
<1>4. \A x \in s : s \ {x} \in SUBSET S /\ Cardinality(s \ {x}) = Cardinality(s) - 1
  BY <1>1, FS_RemoveElement
<1> QED BY <1>1, <1>2, <1>3, <1>4, FS_EmptySet

LEMMA TotalsExist ==
  ASSUME NEW S, IsFiniteSet(S), NEW w
  PROVE  \E g : Totals(g, S, w)
<1> DEFINE N == Cardinality(S)
           U(n) == {s \in SUBSET S : Cardinality(s) <= n}
           Part(g, n) == g = [s \in U(n) |-> IF s = {} THEN 0
                                             ELSE w[First(s)] + g[s \ {First(s)}]]
           B == {n \in Nat : \E g : Part(g, n)}
<1>1. N \in Nat
  BY FS_CardinalityType
<1>2. 0 \in B
  <2> DEFINE g == [s \in U(0) |-> 0]
  <2>1. ASSUME NEW s \in U(0) PROVE s = {}
    BY PartSmaller
  <2>2. Part(g, 0)
    <3>1. \A s \in U(0) : (IF s = {} THEN 0 ELSE w[First(s)] + g[s \ {First(s)}]) = 0
      BY <2>1
    <3> HIDE DEF U
    <3> QED BY <3>1
  <2> QED BY <2>2
<1>3. ASSUME NEW n \in 1..N, n - 1 \in B PROVE n \in B
  <2>0. n \in Nat /\ n - 1 \in Nat
    BY <1>1
  <2>1. PICK g : Part(g, n - 1)
    BY <1>3
  <2> DEFINE h == [s \in U(n) |-> IF Cardinality(s) = n
                                  THEN w[First(s)] + g[s \ {First(s)}] ELSE g[s]]
  <2>2. ASSUME NEW s \in U(n)
        PROVE  h[s] = IF s = {} THEN 0 ELSE w[First(s)] + h[s \ {First(s)}]
    <3>0. s \in SUBSET S /\ Cardinality(s) <= n /\ Cardinality(s) \in Nat /\ n \in Nat
      BY PartSmaller
    <3>1. s # {} => /\ First(s) \in s
                    /\ s \ {First(s)} \in SUBSET S
                    /\ Cardinality(s \ {First(s)}) = Cardinality(s) - 1
      BY <3>0, PartSmaller
    <3>2. s # {} => /\ s \ {First(s)} \in U(n)
                    /\ Cardinality(s \ {First(s)}) # n
                    /\ h[s \ {First(s)}] = g[s \ {First(s)}]
      BY <3>0, <3>1
    <3>3. CASE Cardinality(s) = n
      <4>1. s # {}
        BY <3>0, <3>3, PartSmaller
      <4>2. h[s] = w[First(s)] + g[s \ {First(s)}]
        BY <3>3
      <4> HIDE DEF h
      <4> QED BY <3>2, <4>1, <4>2
    <3>4. CASE Cardinality(s) # n
      <4>1. s \in U(n - 1) /\ h[s] = g[s]
        BY <3>0, <3>4
      <4> HIDE DEF h
      <4> HIDE DEF U
      <4> QED BY <2>1, <3>2, <4>1
    <3> QED BY <3>3, <3>4
  <2>3. Part(h, n)
    <3>1. h = [s \in U(n) |-> h[s]]
      OBVIOUS
    <3> HIDE DEF h
    <3> HIDE DEF U
    <3> QED BY <2>2, <3>1
  <2> HIDE DEF h
  <2> HIDE DEF Part
  <2> QED BY <2>0, <2>3
<1>4. N \in B
  <2> HIDE DEF B
  <2> QED BY <1>1, <1>2, <1>3, UpTo
<1>5. U(N) = SUBSET S
  <2>1. \A s \in SUBSET S : Cardinality(s) <= N
    BY PartSmaller
  <2> QED BY <2>1
<1>6. PICK g : Part(g, N)
  BY <1>4
<1>7. g = [s \in SUBSET S |-> IF s = {} THEN 0 ELSE w[First(s)] + g[s \ {First(s)}]]
  <2> HIDE DEF U
  <2> QED BY <1>5, <1>6
<1> QED BY <1>7 DEF Totals

\* The sum does not depend on the order in which the elements are taken.
LEMMA TotalsTake ==
  ASSUME NEW S, IsFiniteSet(S), NEW w \in [S -> Nat], NEW g, Totals(g, S, w)
  PROVE  \A s \in SUBSET S : g[s] \in Nat /\ \A x \in s : g[s] = w[x] + g[s \ {x}]
<1> DEFINE N == Cardinality(S)
           Good(s) == g[s] \in Nat /\ \A x \in s : g[s] = w[x] + g[s \ {x}]
           B == {n \in Nat : \A s \in SUBSET S : Cardinality(s) <= n => Good(s)}
<1>1. N \in Nat
  BY FS_CardinalityType
<1>2. ASSUME NEW s \in SUBSET S
      PROVE  g[s] = IF s = {} THEN 0 ELSE w[First(s)] + g[s \ {First(s)}]
  BY DEF Totals
<1>3. 0 \in B
  <2>1. ASSUME NEW s \in SUBSET S, Cardinality(s) <= 0 PROVE Good(s)
    <3>1. Cardinality(s) = 0
      BY <2>1, PartSmaller
    <3>2. s = {}
      BY <3>1, PartSmaller
    <3>3. g[s] = 0
      BY <1>2, <3>2
    <3> QED BY <3>2, <3>3
  <2> HIDE DEF Good
  <2> QED BY <2>1
<1>4. ASSUME NEW n \in 1..N, n - 1 \in B PROVE n \in B
  <2>0. n \in Nat /\ n - 1 \in Nat
    BY <1>1
  <2>1. \A s \in SUBSET S : Cardinality(s) <= n - 1 => Good(s)
    BY <1>4
  <2> HIDE DEF Good
  <2>2. ASSUME NEW s \in SUBSET S, Cardinality(s) = n PROVE Good(s)
    <3>1. PICK c : c = First(s)
      OBVIOUS
    <3>0. Cardinality(s) # 0
      BY <2>2, <1>1
    <3>6. s # {} /\ c \in s
      BY <3>0, <3>1, PartSmaller
    <3>7. g[s] = w[First(s)] + g[s \ {First(s)}]
      BY <1>2, <3>6
    <3>2. s # {} /\ c \in s /\ c \in S /\ g[s] = w[c] + g[s \ {c}] /\ n \in Nat
      BY <2>0, <3>1, <3>6, <3>7
    <3>3. \A x \in s : s \ {x} \in SUBSET S /\ Cardinality(s \ {x}) = n - 1 /\ Good(s \ {x})
      BY <2>1, <2>2, PartSmaller
    <3>4. g[s] \in Nat
      <4>1. g[s \ {c}] \in Nat /\ w[c] \in Nat
        BY <3>2, <3>3 DEF Good
      <4> QED BY <3>2, <4>1
    <3>5. ASSUME NEW x \in s PROVE g[s] = w[x] + g[s \ {x}]
      <4>1. CASE x = c
        BY <3>2, <4>1
      <4>2. CASE x # c
        <5>1. PICK r : r = (s \ {c}) \ {x} /\ r = (s \ {x}) \ {c}
          OBVIOUS
        <5>2. g[s \ {c}] = w[x] + g[r] /\ g[s \ {x}] = w[c] + g[r]
          BY <3>2, <3>3, <4>2, <5>1 DEF Good
        <5>3. g[r] \in Nat
          <6>1. s \ {c} \in SUBSET S /\ x \in s \ {c} /\ Cardinality(s \ {c}) = n - 1
            BY <3>2, <3>3, <4>2
          <6>2. r \in SUBSET S /\ Cardinality(r) = n - 2
            <7>1. Cardinality(r) = Cardinality(s \ {c}) - 1
              BY <5>1, <6>1, PartSmaller
            <7> QED BY <2>0, <5>1, <6>1, <7>1
          <6>3. Cardinality(r) <= n - 1
            BY <2>0, <6>2
          <6> QED BY <2>1, <6>2, <6>3 DEF Good
        <5>4. w[x] \in Nat /\ w[c] \in Nat
          BY <3>2
        <5> QED BY <3>2, <5>2, <5>3, <5>4
      <4> QED BY <4>1, <4>2
    <3> QED BY <3>4, <3>5 DEF Good
  <2>3. ASSUME NEW s \in SUBSET S, Cardinality(s) <= n PROVE Good(s)
    <3>1. Cardinality(s) = n \/ Cardinality(s) <= n - 1
      BY <2>0, <2>3, PartSmaller
    <3> QED BY <2>1, <2>2, <3>1
  <2> QED BY <2>0, <2>3
<1>5. \A i \in 0..N : i \in B
  <2> HIDE DEF B
  <2> QED BY <1>1, <1>3, <1>4, UpTo
<1>6. ASSUME NEW s \in SUBSET S PROVE Good(s)
  <2>1. Cardinality(s) \in 0..N
    BY PartSmaller
  <2> QED BY <1>5, <2>1
<1> QED BY <1>6

\* A sum over a part of S is the same, from whichever set it is computed.
LEMMA TotalsAgree ==
  ASSUME NEW S, IsFiniteSet(S), NEW T, IsFiniteSet(T),
         NEW w \in [S -> Nat], NEW g, Totals(g, S, w),
         NEW v \in [T -> Nat], NEW h, Totals(h, T, v),
         NEW s, s \subseteq S, s \subseteq T, \A x \in s : w[x] = v[x]
  PROVE  g[s] = h[s]
<1> DEFINE N == Cardinality(s)
           B == {n \in Nat : \A r \in SUBSET s : Cardinality(r) <= n => g[r] = h[r]}
<1>1. IsFiniteSet(s) /\ N \in Nat
  BY FS_Subset, FS_CardinalityType
<1>2. g[{}] = 0 /\ h[{}] = 0
  BY DEF Totals
<1>3. 0 \in B
  <2>1. \A r \in SUBSET s : Cardinality(r) <= 0 => r = {}
    BY <1>1, PartSmaller
  <2> QED BY <1>2, <2>1
<1>4. ASSUME NEW n \in 1..N, n - 1 \in B PROVE n \in B
  <2>0. n \in Nat /\ n - 1 \in Nat
    BY <1>1
  <2>1. ASSUME NEW r \in SUBSET s, Cardinality(r) <= n, r # {} PROVE g[r] = h[r]
    <3>1. PICK x \in r : TRUE
      BY <2>1
    <3>2. r \ {x} \in SUBSET s /\ Cardinality(r \ {x}) <= n - 1
      BY <1>1, <2>1, PartSmaller
    <3>3. g[r \ {x}] = h[r \ {x}]
      BY <1>4, <3>2
    <3>4. g[r] = w[x] + g[r \ {x}] /\ h[r] = v[x] + h[r \ {x}]
      BY TotalsTake
    <3> QED BY <3>3, <3>4
  <2> QED BY <1>2, <2>0, <2>1
<1>5. N \in B
  <2> HIDE DEF B
  <2> QED BY <1>1, <1>3, <1>4, UpTo
<1> QED BY <1>5

LEMMA TotalsGrow ==
  ASSUME NEW S, IsFiniteSet(S), NEW w \in [S -> Nat], NEW g, Totals(g, S, w),
         NEW s, s \subseteq S, NEW r, r \subseteq s
  PROVE  g[r] <= g[s]
<1> DEFINE N == Cardinality(s)
           B == {n \in Nat : \A q \in SUBSET s : Cardinality(q) <= n /\ r \subseteq q => g[r] <= g[q]}
<1>1. IsFiniteSet(s) /\ N \in Nat
  BY FS_Subset, FS_CardinalityType
<1>2. \A q \in SUBSET s : g[q] \in Nat /\ \A x \in q : g[q] = w[x] + g[q \ {x}] /\ w[x] \in Nat
  BY TotalsTake
<1>3. 0 \in B
  <2>1. ASSUME NEW q \in SUBSET s, Cardinality(q) <= 0, r \subseteq q PROVE g[r] <= g[q]
    <3>1. q = {}
      BY <1>1, <2>1, PartSmaller
    <3>2. r = q
      BY <2>1, <3>1
    <3> QED BY <1>2, <3>2
  <2> QED BY <2>1
<1>4. ASSUME NEW n \in 1..N, n - 1 \in B PROVE n \in B
  <2>0. n \in Nat /\ n - 1 \in Nat
    BY <1>1
  <2>1. ASSUME NEW q \in SUBSET s, Cardinality(q) <= n, r \subseteq q PROVE g[r] <= g[q]
    <3>1. CASE r = q
      BY <1>2, <3>1
    <3>2. CASE r # q
      <4>1. PICK x \in q : x \notin r
        BY <2>1, <3>2
      <4>2. q \ {x} \in SUBSET s /\ Cardinality(q \ {x}) <= n - 1 /\ r \subseteq q \ {x}
        BY <1>1, <2>1, <4>1, PartSmaller
      <4>3. g[r] <= g[q \ {x}]
        BY <1>4, <4>2
      <4>4. g[q] = w[x] + g[q \ {x}] /\ w[x] \in Nat /\ g[q \ {x}] \in Nat /\ g[r] \in Nat
        BY <1>2, <2>1, <4>2
      <4> QED BY <4>3, <4>4
    <3> QED BY <3>1, <3>2
  <2> QED BY <2>0, <2>1
<1>5. N \in B
  <2> HIDE DEF B
  <2> QED BY <1>1, <1>3, <1>4, UpTo
<1> QED BY <1>1, <1>5
-----------------------------------------------------------------------------
(***************************************************************************)
(* What a fold over a sequence is, step by step.                           *)
(***************************************************************************)
LEMMA LeastIs == ASSUME NEW K, K \in SUBSET Nat, K # {} PROVE \E k \in K : \A j \in K : k <= j
<1> DEFINE R == OpToRel(<, Nat)
<1>1. IsWellFoundedOn(R, Nat)
  BY NatLessThanWellFounded
<1>2. PICK k \in K : \A j \in K : ~(<<j, k>> \in R)
  <2> HIDE DEF R
  <2> QED BY <1>1, WFMin
<1>3. \A j \in K : ~(j < k)
  BY <1>2 DEF OpToRel
<1>4. \A j \in K : k <= j
  BY <1>3
<1> QED BY <1>4

\* it is the fold of the definition, op being o[its second operand][its first].
Folding(it, n, base, o) ==
  it = [s \in SUBSET (1..n) |-> IF s = {} THEN base ELSE o[Max(s)][it[s \ {Max(s)}]]]

LEMMA MaxIs ==
  ASSUME NEW n \in Nat, NEW s \in SUBSET (1..n), s # {}
  PROVE  Max(s) \in s /\ \A y \in s : y <= Max(s)
<1> DEFINE K == {k \in Nat : n - k \in s}
           m == CHOOSE k \in K : \A j \in K : k <= j
<1>1. K # {} /\ K \in SUBSET Nat
  <2>1. PICK x \in s : x \in 1..n
    OBVIOUS
  <2>2. n - x \in Nat /\ n - (n - x) = x
    BY <2>1
  <2> QED BY <2>1, <2>2
<1>2. PICK k : k \in K /\ \A j \in K : k <= j
  <2> HIDE DEF K
  <2>1. \E k \in K : \A j \in K : k <= j
    BY <1>1, LeastIs
  <2> QED BY <2>1
<1>3. n - k \in s /\ \A y \in s : n - k >= y
  <2> SUFFICES ASSUME NEW y \in s PROVE n - k >= y
    BY <1>2
  <2>1. n - y \in Nat /\ n - (n - y) = y /\ y \in Nat /\ k \in Nat
    BY <1>2
  <2>2. k <= n - y
    BY <1>2, <2>1
  <2> QED BY <2>1, <2>2
<1> HIDE DEF K
<1>4. \E x \in s : \A y \in s : x >= y
  BY <1>3
<1>5. Max(s) \in s /\ \A y \in s : Max(s) >= y
  BY <1>4 DEF Max
<1> QED BY <1>5

LEMMA FoldExists ==
  ASSUME NEW n \in Nat, NEW base, NEW o
  PROVE  \E it : Folding(it, n, base, o)
<1> DEFINE C == {m \in 0..n : \E it : Folding(it, m, base, o)}
<1>1. 0 \in C
  <2> DEFINE it == [s \in SUBSET (1..0) |-> base]
  <2>1. \A s \in SUBSET (1..0) : s = {}
    OBVIOUS
  <2>2. Folding(it, 0, base, o)
    <3>1. \A s \in SUBSET (1..0) :
            (IF s = {} THEN base ELSE o[Max(s)][it[s \ {Max(s)}]]) = base
      BY <2>1
    <3> QED BY <3>1 DEF Folding
  <2> QED BY <2>2
<1>2. ASSUME NEW m \in 1..n, m - 1 \in C PROVE m \in C
  <2>1. PICK g : Folding(g, m - 1, base, o)
    BY <1>2
  <2> DEFINE h == [s \in SUBSET (1..m) |->
                     IF m \in s THEN o[m][g[s \ {m}]] ELSE g[s]]
  <2>2. ASSUME NEW s \in SUBSET (1..m)
        PROVE  h[s] = IF s = {} THEN base ELSE o[Max(s)][h[s \ {Max(s)}]]
    <3>1. m \in Nat /\ m - 1 \in Nat
      OBVIOUS
    <3>2. CASE m \in s
      <4>1. Max(s) = m
        <5>1. Max(s) \in s /\ m <= Max(s)
          BY <3>1, <3>2, MaxIs
        <5>2. PICK x \in 1..m : x = Max(s)
          BY <5>1
        <5>3. x = m
          BY <5>1, <5>2
        <5> QED BY <5>2, <5>3
      <4>2. s \ {m} \in SUBSET (1..m) /\ m \notin s \ {m}
        OBVIOUS
      <4>3. h[s \ {m}] = g[s \ {m}] /\ h[s] = o[m][g[s \ {m}]]
        BY <3>2, <4>2
      <4> HIDE DEF h
      <4> QED BY <3>2, <4>1, <4>3
    <3>3. CASE m \notin s
      <4>1. s \in SUBSET (1..(m - 1))
        BY <3>3
      <4>2. h[s] = g[s]
        BY <3>3
      <4>3. s # {} => /\ s \ {Max(s)} \in SUBSET (1..m) /\ m \notin s \ {Max(s)}
                      /\ h[s \ {Max(s)}] = g[s \ {Max(s)}]
        BY <3>3
      <4> HIDE DEF h
      <4>4. g[s] = IF s = {} THEN base ELSE o[Max(s)][g[s \ {Max(s)}]]
        BY <2>1, <4>1 DEF Folding
      <4> QED BY <4>2, <4>3, <4>4
    <3> QED BY <3>2, <3>3
  <2>3. Folding(h, m, base, o)
    <3>1. h = [s \in SUBSET (1..m) |-> h[s]]
      OBVIOUS
    <3> HIDE DEF h
    <3> QED BY <2>2, <3>1 DEF Folding
  <2> HIDE DEF h
  <2> QED BY <2>3
<1>3. n \in C
  <2> HIDE DEF C
  <2> QED BY <1>1, <1>2, UpTo
<1> QED BY <1>3

\* it is a fold wherever op has its operands in V.
FoldsWith(it, n, V, base, o) ==
  /\ it[{}] = base
  /\ \A s \in SUBSET (1..n) : s # {} /\ it[s \ {Max(s)}] \in V
                               => it[s] = o[Max(s)][it[s \ {Max(s)}]]

LEMMA FoldingFolds ==
  ASSUME NEW n, NEW V, NEW base, NEW o, NEW it, Folding(it, n, base, o)
  PROVE  FoldsWith(it, n, V, base, o)
BY DEF Folding, FoldsWith

\* The values of a fold over the first 0, 1, ... n elements.
Partials(it, n) == [j \in 0..n |-> it[1..j]]

\* The values f of a fold go from one to the next.
Proceeds(f, n, V, base, o) ==
  /\ f \in [0..n -> V]
  /\ f[0] = base
  /\ \A j \in 1..n : f[j] = o[j][f[j - 1]]

LEMMA FoldIs ==
  ASSUME NEW n \in Nat, NEW V, NEW base, base \in V, NEW o, o \in [1..n -> [V -> V]],
         NEW it, FoldsWith(it, n, V, base, o), NEW f, f = Partials(it, n)
  PROVE  /\ \A s \in SUBSET (1..n) : it[s] \in V
         /\ Proceeds(f, n, V, base, o)
         /\ f[n] = it[1..n]
<1> DEFINE C == {m \in 0..n : \A s \in SUBSET (1..m) : it[s] \in V}
<1>0. ASSUME NEW s \in SUBSET (1..n), s # {}, it[s \ {Max(s)}] \in V
      PROVE  it[s] = o[Max(s)][it[s \ {Max(s)}]]
  BY <1>0 DEF FoldsWith
<1>1. it[{}] = base
  BY DEF FoldsWith
<1>2. 0 \in C
  <2>1. \A s \in SUBSET (1..0) : s = {}
    OBVIOUS
  <2>2. \A s \in SUBSET (1..0) : it[s] \in V
    BY <1>1, <2>1
  <2> QED BY <2>2
<1>3. ASSUME NEW m \in 1..n, m - 1 \in C PROVE m \in C
  <2>0. m \in 0..n /\ \A s \in SUBSET (1..(m - 1)) : it[s] \in V
    BY <1>3
  <2> SUFFICES \A s \in SUBSET (1..m) : it[s] \in V
    BY <2>0
  <2> SUFFICES ASSUME NEW s \in SUBSET (1..m) PROVE it[s] \in V
    OBVIOUS
  <2>1. CASE s = {}
    BY <1>1, <2>1
  <2>2. CASE s # {}
    <3>1. s \in SUBSET (1..n) /\ m \in Nat
      OBVIOUS
    <3>2. Max(s) \in s /\ \A y \in s : y <= Max(s)
      BY <2>2, <3>1, MaxIs
    <3>3. s \ {Max(s)} \in SUBSET (1..(m - 1))
      <4> SUFFICES ASSUME NEW y \in s, y # Max(s) PROVE y \in 1..(m - 1)
        OBVIOUS
      <4>1. y <= Max(s) /\ Max(s) \in 1..m /\ y \in 1..m
        BY <3>2
      <4> QED BY <4>1
    <3>4. it[s \ {Max(s)}] \in V /\ Max(s) \in 1..n
      BY <2>0, <3>1, <3>2, <3>3
    <3> QED BY <1>0, <2>2, <3>1, <3>4
  <2> QED BY <2>1, <2>2
<1>4. \A m \in 0..n : m \in C
  <2> HIDE DEF C
  <2> QED BY <1>2, <1>3, UpTo
<1>5. \A s \in SUBSET (1..n) : it[s] \in V
  <2>1. n \in C
    <3> HIDE DEF C
    <3> QED BY <1>4
  <2> QED BY <2>1
<1>6. ASSUME NEW j \in 1..n PROVE it[1..j] = o[j][it[1..(j - 1)]]
  <2> DEFINE s == 1..j
  <2>0. j \in Nat /\ 1 <= j /\ j <= n
    OBVIOUS
  <2>1. s \in SUBSET (1..n) /\ s # {} /\ j \in s /\ \A y \in s : y <= j
    <3>1. j \in s /\ \A y \in s : y <= j
      BY <2>0
    <3>2. s \in SUBSET (1..n)
      BY <2>0
    <3> QED BY <3>1, <3>2
  <2>2. Max(s) = j
    <3>1. Max(s) \in s /\ j <= Max(s)
      BY <2>1, MaxIs
    <3> QED BY <3>1
  <2>3. s \ {j} = 1..(j - 1)
    OBVIOUS
  <2>4. it[s \ {Max(s)}] \in V
    BY <1>5, <2>1
  <2> HIDE DEF s
  <2> QED BY <1>0, <2>1, <2>2, <2>3, <2>4 DEF s
<1>7. it[1..0] = base
  <2>1. 1..0 = {}
    OBVIOUS
  <2> QED BY <1>1, <2>1
<1>8. \A j \in 1..n : j - 1 \in 0..n /\ j \in 0..n
  OBVIOUS
<1>9. \A j \in 0..n : it[1..j] \in V
  BY <1>5
<1> QED BY <1>5, <1>6, <1>7, <1>8, <1>9 DEF Partials, Proceeds
=============================================================================
