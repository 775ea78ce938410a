---------------------------- MODULE MqJoin_proofs ----------------------------
(***************************************************************************)
(* For any number of sources, any joins between them and any rows: the     *)
(* nested loop starts and finishes every driver in pairs; and what it      *)
(* returns of inner joins is what they mean.                               *)
(***************************************************************************)
EXTENDS MqJoin, Lines_proofs, FiniteSetTheorems

States == {"notstarted", "started", "outer", "finished"}
Source == [st : States, pos : Nat, cnt : Nat, open : BOOLEAN, row : Values \cup {Null}]

Types ==
  /\ N \in Nat \ {0} /\ \A i \in 1..N : plan[i].id \in Sources
  /\ rows \in [Sources -> Seq(Values)]
  /\ src \in [1..N -> Source]
  /\ at \in 0..N
  /\ step \in {"enter", "loop", "back"}
  /\ rval \in {-1, 0, 1}
  /\ ended \in {"no", "end", "cancel"}

\* A source and its driver.
Paired(s) == s.open = (s.st = "started") /\ (s.row # Null => s.st = "started")

\* Where the nested loop is: it has a row, or a null row, of each source above
\* the one it is at, and comes back with one of the source below.
OnPath ==
  /\ \A k \in 1..N : k < at => InLoop(src[k])
  /\ step = "enter" /\ at # 0 => src[at].st # "finished"
  /\ step \in {"loop", "back"} /\ at # 0 => InLoop(src[at])
  /\ step = "back" /\ rval = 1 /\ at < N => InLoop(src[at + 1])
  /\ step = "loop" => at # 0

\* A join that is asked for a row has not come to the end of its first source.
Asked ==
  /\ at = 0 /\ step = "enter" /\ ended = "no" => src[1].st # "finished"
  /\ ended # "no" => at = 0 /\ step = "enter" /\ \A i \in 1..N : src[i].st # "started"

IInv == Types /\ (\A i \in 1..N : Paired(src[i])) /\ OnPath /\ Asked

-----------------------------------------------------------------------------
LEMMA NotStartedIs ==
  /\ NotStarted \in Source /\ Paired(NotStarted) /\ NotStarted.st = "notstarted"
  /\ [NotStarted EXCEPT !.st = "outer"] \in Source
  /\ Paired([NotStarted EXCEPT !.st = "outer"])
  /\ [NotStarted EXCEPT !.st = "outer"].st = "outer"
  /\ [NotStarted EXCEPT !.st = "started", !.open = TRUE] \in Source
  /\ Paired([NotStarted EXCEPT !.st = "started", !.open = TRUE])
  /\ [NotStarted EXCEPT !.st = "started", !.open = TRUE].st = "started"
BY DEF NotStarted, Source, States, Paired

LEMMA FinishedIs ==
  ASSUME NEW s \in Source, Paired(s)
  PROVE  /\ Finished(s) \in Source /\ Paired(Finished(s)) /\ Finished(s).st = "finished"
         /\ Finished(s).cnt = s.cnt
         /\ FinishedIfStarted(s) \in Source /\ Paired(FinishedIfStarted(s))
         /\ FinishedIfStarted(s).st = "finished"
BY DEF Source, States, Paired, Finished, FinishedIfStarted

LEMMA WithCount ==
  ASSUME NEW s \in Source, Paired(s), NEW n \in Nat
  PROVE  /\ [s EXCEPT !.cnt = n] \in Source /\ Paired([s EXCEPT !.cnt = n])
         /\ [s EXCEPT !.cnt = n].st = s.st
BY DEF Source, Paired

LEMMA WithState ==
  ASSUME NEW s \in Source, Paired(s), s.st # "started", NEW x \in States, x # "started"
  PROVE  /\ [s EXCEPT !.st = x] \in Source /\ Paired([s EXCEPT !.st = x])
         /\ [s EXCEPT !.st = x].st = x /\ [s EXCEPT !.st = x].cnt = s.cnt
BY DEF Source, States, Paired

LEMMA LeastOf ==
  ASSUME NEW n \in Nat, NEW K \in SUBSET (1..n), K # {}
  PROVE  \E k \in K : \A l \in K : k <= l
<1> DEFINE B == {i \in 0..n : \A k \in K : k > i}
<1>1. ASSUME \A k \in K : \E l \in K : l < k
      PROVE  FALSE
  <2>1. 0 \in B
    OBVIOUS
  <2>2. ASSUME NEW i \in 1..n, i - 1 \in B
        PROVE  i \in B
    <3>1. \A k \in K : k > i - 1 /\ k \in 1..n
      BY <2>2
    <3>2. \A k \in K : k # i
      BY <1>1, <3>1
    <3> QED BY <3>1, <3>2
  <2> HIDE DEF B
  <2>3. n \in B
    BY <2>1, <2>2, UpTo
  <2>4. PICK k \in K : TRUE
    OBVIOUS
  <2>5. k > n /\ k \in 1..n
    BY <2>3, <2>4 DEF B
  <2> QED BY <2>5
<1> QED BY <1>1

LEMMA NextRowIs ==
  ASSUME Types, NEW i \in 1..N
  PROVE  NextRow(i) # 0 => NextRow(i) \in Nat /\ rows[plan[i].id][NextRow(i)] \in Values
<1> DEFINE r == rows[plan[i].id]
           ok == {k \in (src[i].pos + 1)..Len(r) : Matches(i, r[k])}
<1>1. r \in Seq(Values) /\ src[i].pos \in Nat
  BY DEF Types, Source
<1>2. Len(r) \in Nat /\ \A k \in 1..Len(r) : r[k] \in Values
  BY <1>1
<1>3. ok \in SUBSET (1..Len(r))
  BY <1>1, <1>2
<1>4. NextRow(i) = IF ok = {} THEN 0 ELSE CHOOSE k \in ok : \A l \in ok : k <= l
  BY DEF NextRow
<1> HIDE DEF ok
<1>5. ok # {} => NextRow(i) \in ok
  <2> SUFFICES ASSUME ok # {} PROVE NextRow(i) \in ok
    OBVIOUS
  <2>1. \E k \in ok : \A l \in ok : k <= l
    BY <1>2, <1>3, LeastOf
  <2> QED BY <1>4, <2>1
<1> HIDE DEF r
<1>6. NextRow(i) # 0 => NextRow(i) \in 1..Len(r)
  BY <1>3, <1>4, <1>5
<1> QED BY <1>2, <1>6 DEF r

LEMMA TakenIs ==
  ASSUME Types, NEW i \in 1..N, Paired(src[i]), InLoop(src[i])
  PROVE  Taken(i) \in Source /\ Paired(Taken(i)) /\ Taken(i).st # "notstarted"
<1> DEFINE k == NextRow(i)
           s == src[i]
           t == IF s.st # "started" THEN s
                ELSE IF k = 0 THEN Finished(s)
                ELSE [s EXCEPT !.pos = k, !.row = rows[plan[i].id][k]]
           u == IF t.st = "finished" /\ t.cnt = 0 /\ plan[i].canBeOuter
                THEN [t EXCEPT !.st = "outer"] ELSE t
<1>1. s \in Source /\ s.st \in {"started", "outer"}
  BY DEF Types, InLoop
<1>2. t \in Source /\ Paired(t) /\ t.st # "notstarted"
  <2>1. CASE s.st = "outer"
    BY <1>1, <2>1
  <2>2. CASE s.st = "started" /\ k = 0
    BY <1>1, <2>2, FinishedIs
  <2>3. CASE s.st = "started" /\ k # 0
    <3>1. k \in Nat /\ rows[plan[i].id][k] \in Values
      BY <2>3, NextRowIs
    <3> HIDE DEF k
    <3> QED BY <1>1, <2>3, <3>1 DEF Source, Paired
  <2> QED BY <1>1, <2>1, <2>2, <2>3
<1> HIDE DEF t
<1>3. u \in Source /\ Paired(u) /\ u.st # "notstarted"
  <2>1. "outer" \in States
    BY DEF States
  <2> QED BY <1>2, <2>1, WithState
<1> HIDE DEF u
<1>4. Taken(i) = IF u.st = "outer" /\ u.cnt >= 1 THEN [u EXCEPT !.st = "finished"] ELSE u
  BY DEF Taken, t, u
<1>5. "finished" \in States
  BY DEF States
<1> QED BY <1>3, <1>4, <1>5, WithState

-----------------------------------------------------------------------------
(***************************************************************************)
(* The steps.                                                              *)
(***************************************************************************)
\* Source i changes and the next one returns, or the loop goes on.
LEMMA ReturnKeeps ==
  ASSUME IInv, NEW i \in 1..N, at = i, NEW s \in Source, Paired(s),
         src' = [src EXCEPT ![i] = s], NEW v \in {-1, 0, 1}, v = 1 => InLoop(s),
         Return(v), Unchanged
  PROVE  IInv'
<1>1. /\ N' = N /\ at' = i - 1 /\ step' = "back" /\ rval' = v /\ ended' = ended /\ ended = "no"
      /\ plan' = plan /\ rows' = rows
  BY DEF Unchanged, Return, IInv, Asked, N
<1>2. N \in Nat /\ i - 1 \in 0..N /\ (i - 1) + 1 = i /\ i - 1 < i /\ src \in [1..N -> Source]
  BY DEF IInv, Types
<1>3. src' \in [1..N -> Source] /\ src'[i] = s /\ \A k \in 1..N : k # i => src'[k] = src[k]
  BY <1>2
<1>4. Types'
  BY <1>1, <1>2, <1>3 DEF IInv, Types
<1>5. \A k \in 1..N : Paired(src'[k])
  BY <1>3 DEF IInv
<1>6. \A k \in 1..N : k < i => InLoop(src'[k])
  BY <1>3 DEF IInv, OnPath
<1>7. OnPath'
  <2>1. \A k \in 1..N : k < i - 1 => InLoop(src'[k])
    BY <1>2, <1>6
  <2>2. i - 1 # 0 => InLoop(src'[i - 1])
    BY <1>2, <1>6
  <2> QED BY <1>1, <1>2, <1>3, <2>1, <2>2 DEF OnPath, InLoop
<1>8. Asked'
  BY <1>1 DEF Asked
<1> QED BY <1>1, <1>4, <1>5, <1>7, <1>8 DEF IInv, Paired

LEMMA NextItemKeeps ==
  ASSUME IInv, NextItem
  PROVE  IInv'
<1>1. /\ N' = N /\ src' = src /\ at' = 1 /\ step' = "enter" /\ rval' = rval /\ ended' = ended
      /\ plan' = plan /\ rows' = rows /\ at = 0 /\ ended = "no" /\ step = "enter"
  BY DEF NextItem, GoOn, Unchanged, N
<1>2. N \in Nat \ {0} /\ 1 \in 0..N
  BY DEF IInv, Types
<1>3. Types' /\ Asked' /\ \A k \in 1..N : Paired(src'[k])
  BY <1>1, <1>2 DEF IInv, Types, Asked
<1>4. OnPath'
  BY <1>1, <1>2 DEF IInv, OnPath, Asked
<1> QED BY <1>1, <1>3, <1>4 DEF IInv, Paired

LEMMA EnterKeeps ==
  ASSUME IInv, NEW i \in 1..N, Enter(i)
  PROVE  IInv'
<1>1. /\ N' = N /\ at' = i /\ step' = "loop" /\ rval' = rval /\ ended' = ended
      /\ plan' = plan /\ rows' = rows /\ at = i /\ step = "enter" /\ ended = "no"
  BY DEF Enter, At, GoOn, Unchanged, N, IInv, Asked
<1>2. N \in Nat /\ i # 0 /\ src \in [1..N -> Source] /\ src[i].st \in States
      /\ src[i].st # "finished"
  BY <1>1 DEF IInv, Types, OnPath, Source
<1>3. PICK s : /\ src' = [src EXCEPT ![i] = s] /\ s \in Source /\ Paired(s) /\ InLoop(s)
  <2>1. CASE src[i].st # "notstarted"
    <3>1. src' = [src EXCEPT ![i] = src[i]]
      BY <1>2, <2>1 DEF Enter
    <3> QED BY <1>2, <2>1, <3>1 DEF IInv, InLoop, States
  <2>2. CASE src[i].st = "notstarted"
    BY <2>2, NotStartedIs DEF Enter, InLoop
  <2> QED BY <2>1, <2>2
<1>4. src' \in [1..N -> Source] /\ src'[i] = s /\ \A k \in 1..N : k # i => src'[k] = src[k]
  BY <1>2, <1>3
<1>5. Types' /\ Asked'
  BY <1>1, <1>2, <1>4 DEF IInv, Types, Asked
<1>6. \A k \in 1..N : Paired(src'[k])
  BY <1>3, <1>4 DEF IInv
<1>7. OnPath'
  BY <1>1, <1>2, <1>3, <1>4 DEF IInv, OnPath
<1> QED BY <1>1, <1>5, <1>6, <1>7 DEF IInv, Paired

LEMMA EnterNullKeeps ==
  ASSUME IInv, NEW i \in 1..N, EnterNull(i)
  PROVE  IInv'
<1>1. at = i /\ src' = [src EXCEPT ![i] = FinishedIfStarted(src[i])] /\ Return(0) /\ Unchanged
  BY DEF EnterNull, At
<1>2. src[i] \in Source /\ Paired(src[i])
  BY DEF IInv, Types
<1>3. PICK s : s = FinishedIfStarted(src[i])
  OBVIOUS
<1>4. s \in Source /\ Paired(s)
  BY <1>2, <1>3, FinishedIs
<1>5. src' = [src EXCEPT ![i] = s] /\ 0 \in {-1, 0, 1} /\ 0 # 1
  BY <1>1, <1>3
<1> QED BY <1>1, <1>4, <1>5, ReturnKeeps

LEMMA StartFailsKeeps ==
  ASSUME IInv, NEW i \in 1..N, StartFails(i)
  PROVE  IInv'
<1>1. at = i /\ src' = [src EXCEPT ![i].cnt = 0] /\ Return(-1) /\ Unchanged
  BY DEF StartFails, At
<1>2. src[i] \in Source /\ Paired(src[i])
  BY DEF IInv, Types
<1> DEFINE s == [src[i] EXCEPT !.cnt = 0]
<1>3. s \in Source /\ Paired(s)
  BY <1>2, WithCount
<1>4. src' = [src EXCEPT ![i] = s] /\ -1 \in {-1, 0, 1} /\ -1 # 1
  BY <1>1
<1> HIDE DEF s
<1>5. PICK z : z = s
  OBVIOUS
<1> QED BY <1>1, <1>3, <1>4, <1>5, ReturnKeeps

LEMMA LoopKeeps ==
  ASSUME IInv, NEW i \in 1..N, Loop(i)
  PROVE  IInv'
<1> DEFINE s == IF Takes(i) THEN Taken(i) ELSE src[i]
<1>1. at = i /\ step = "loop" /\ InLoop(src[i]) /\ Unchanged /\ ended = "no"
  BY DEF Loop, At, IInv, Asked
<1>2. N \in Nat /\ src \in [1..N -> Source] /\ src[i] \in Source /\ Paired(src[i])
  BY DEF IInv, Types
<1>3. s \in Source /\ Paired(s)
  BY <1>1, <1>2, TakenIs DEF IInv
<1>4. CASE InLoop(s) /\ i = N
  <2> DEFINE z == [s EXCEPT !.cnt = s.cnt + 1]
  <2>1. src' = [src EXCEPT ![i] = z] /\ Return(1)
    BY <1>4 DEF Loop
  <2>2. z \in Source /\ Paired(z) /\ z.st = s.st
    <3>1. s.cnt + 1 \in Nat
      BY <1>3 DEF Source
    <3> HIDE DEF s
    <3> QED BY <1>3, <3>1, WithCount
  <2>3. InLoop(z)
    BY <1>4, <2>2 DEF InLoop
  <2> HIDE DEF z, s
  <2> QED BY <1>1, <2>1, <2>2, <2>3, ReturnKeeps
<1>5. CASE ~InLoop(s)
  <2>1. src' = [src EXCEPT ![i] = s] /\ Return(0) /\ 0 \in {-1, 0, 1} /\ 0 # 1
    BY <1>5 DEF Loop
  <2> HIDE DEF s
  <2>2. PICK z : z = s
    OBVIOUS
  <2> QED BY <1>1, <1>3, <2>1, <2>2, ReturnKeeps
<1>6. CASE InLoop(s) /\ i # N
  <2>1. /\ src' = [src EXCEPT ![i] = s,
                              ![i + 1] = IF Takes(i) THEN [@ EXCEPT !.st = "notstarted"] ELSE @]
        /\ GoOn(i + 1, "enter")
    BY <1>6 DEF Loop
  <2>2. /\ N' = N /\ at' = i + 1 /\ step' = "enter" /\ rval' = rval /\ ended' = ended
        /\ plan' = plan /\ rows' = rows
    BY <1>1, <2>1 DEF GoOn, Unchanged, N
  <2>3. i + 1 \in 1..N /\ i + 1 # i /\ src[i + 1] \in Source /\ Paired(src[i + 1])
        /\ i + 1 \in 0..N /\ i + 1 # 0
    BY <1>2, <1>6 DEF IInv
  <2> DEFINE z == IF Takes(i) THEN [src[i + 1] EXCEPT !.st = "notstarted"] ELSE src[i + 1]
  <2>4. src' = [[src EXCEPT ![i] = s] EXCEPT ![i + 1] = z]
    BY <1>2, <2>1, <2>3
  <2>5. z \in Source /\ Paired(z) /\ z.st # "finished"
    <3>1. CASE Takes(i)
      <4>1. src[i + 1].st \in {"notstarted", "finished"} /\ "notstarted" \in States
        BY <1>6, <3>1 DEF Takes, States
      <4> QED BY <2>3, <3>1, <4>1, WithState
    <3>2. CASE ~Takes(i)
      BY <2>3, <3>2 DEF Takes
    <3> QED BY <3>1, <3>2
  <2> HIDE DEF z, s
  <2>6. /\ src' \in [1..N -> Source] /\ src'[i] = s /\ src'[i + 1] = z
        /\ \A k \in 1..N : k # i /\ k # i + 1 => src'[k] = src[k]
    BY <1>2, <1>3, <2>3, <2>4, <2>5
  <2>7. Types' /\ Asked'
    BY <1>1, <1>2, <2>2, <2>3, <2>6 DEF IInv, Types, Asked
  <2>8. \A k \in 1..N : Paired(src'[k])
    BY <1>3, <2>5, <2>6 DEF IInv
  <2>9. \A k \in 1..N : k < i + 1 => InLoop(src'[k])
    <3> SUFFICES ASSUME NEW k \in 1..N, k < i + 1 PROVE InLoop(src'[k])
      OBVIOUS
    <3>1. k = i \/ k < i
      BY <1>2
    <3> QED BY <1>1, <1>2, <1>6, <2>6, <3>1 DEF IInv, OnPath
  <2>10. OnPath'
    BY <2>2, <2>3, <2>5, <2>6, <2>9 DEF OnPath
  <2> QED BY <2>2, <2>7, <2>8, <2>10 DEF IInv, Paired
<1> QED BY <1>4, <1>5, <1>6

LEMMA BackKeeps ==
  ASSUME IInv, NEW i \in 1..N, BackError(i) \/ BackRow(i) \/ BackNone(i)
  PROVE  IInv'
<1>1. at = i /\ step = "back" /\ Unchanged /\ i # 0
  BY DEF BackError, BackRow, BackNone, At
<1>2. N \in Nat /\ src \in [1..N -> Source] /\ src[i] \in Source /\ Paired(src[i]) /\ InLoop(src[i])
  BY <1>1 DEF IInv, Types, OnPath
<1>3. CASE BackError(i)
  <2>1. src' = [src EXCEPT ![i] = FinishedIfStarted(src[i])] /\ Return(-1)
    BY <1>3 DEF BackError
  <2>2. PICK s : s = FinishedIfStarted(src[i])
    OBVIOUS
  <2>3. s \in Source /\ Paired(s)
    BY <1>2, <2>2, FinishedIs
  <2>4. src' = [src EXCEPT ![i] = s] /\ -1 \in {-1, 0, 1} /\ -1 # 1
    BY <2>1, <2>2
  <2> QED BY <1>1, <2>1, <2>3, <2>4, ReturnKeeps
<1>4. CASE src' = [src EXCEPT ![i].cnt = @ + 1] /\ Return(1)
  <2> DEFINE z == [src[i] EXCEPT !.cnt = src[i].cnt + 1]
  <2>1. z \in Source /\ Paired(z) /\ z.st = src[i].st
    <3>1. src[i].cnt + 1 \in Nat
      BY <1>2 DEF Source
    <3> QED BY <1>2, <3>1, WithCount
  <2>2. src' = [src EXCEPT ![i] = z]
    BY <1>4
  <2>3. InLoop(z)
    BY <1>2, <2>1 DEF InLoop
  <2> HIDE DEF z
  <2> QED BY <1>1, <1>4, <2>1, <2>2, <2>3, ReturnKeeps
<1>5. CASE BackNone(i) /\ GoOn(i, "loop") /\ UNCHANGED src
  <2>1. /\ N' = N /\ src' = src /\ at' = i /\ step' = "loop" /\ rval' = rval /\ ended' = ended
        /\ plan' = plan /\ rows' = rows /\ ended = "no"
    BY <1>1, <1>5 DEF GoOn, Unchanged, N, IInv, Asked
  <2>2. Types' /\ Asked' /\ \A k \in 1..N : Paired(src'[k])
    BY <1>1, <2>1 DEF IInv, Types, Asked
  <2>3. OnPath'
    BY <1>1, <1>2, <2>1 DEF IInv, OnPath
  <2> QED BY <2>1, <2>2, <2>3 DEF IInv, Paired
<1> QED BY <1>3, <1>4, <1>5 DEF BackRow, BackNone

LEMMA BackUnfulfilledKeeps ==
  ASSUME IInv, NEW i \in 1..N, BackUnfulfilled(i)
  PROVE  IInv'
<1>1. /\ N' = N /\ at' = i /\ step' = "loop" /\ rval' = rval /\ ended' = ended
      /\ plan' = plan /\ rows' = rows /\ at = i /\ step = "back" /\ ended = "no" /\ i # 0
  BY DEF BackUnfulfilled, At, GoOn, Unchanged, N, IInv, Asked
<1>2. N \in Nat /\ src \in [1..N -> Source] /\ \A k \in 1..N : src[k] \in Source /\ Paired(src[k])
  BY DEF IInv, Types
<1>3. \A k \in 1..N : FinishedIfStarted(src[k]) \in Source /\ Paired(FinishedIfStarted(src[k]))
  BY <1>2, FinishedIs
<1>4. /\ src' = [k \in 1..N |-> src'[k]]
      /\ \A k \in 1..N : src'[k] = src[k] \/ (k > i /\ src'[k] = FinishedIfStarted(src[k]))
  BY DEF BackUnfulfilled
<1>5. src' \in [1..N -> Source] /\ \A k \in 1..N : Paired(src'[k])
  <2>1. \A k \in 1..N : src'[k] \in Source /\ Paired(src'[k])
    BY <1>2, <1>3, <1>4
  <2> QED BY <1>4, <2>1
<1>6. Types' /\ Asked'
  BY <1>1, <1>5 DEF IInv, Types, Asked
<1>7. \A k \in 1..N : k <= i => src'[k] = src[k]
  BY <1>2, <1>4
<1>8. OnPath'
  BY <1>1, <1>2, <1>7 DEF IInv, OnPath
<1> QED BY <1>1, <1>5, <1>6, <1>8 DEF IInv, Paired

LEMMA EndKeeps ==
  ASSUME IInv, Returned \/ Cancel
  PROVE  IInv'
<1>1. /\ N' = N /\ plan' = plan /\ rows' = rows /\ at' = at /\ at = 0 /\ step' = "enter"
      /\ rval' = rval /\ ended' \in {"no", "end", "cancel"}
  BY DEF Returned, Cancel, N, IInv, Types
<1>2. N \in Nat \ {0} /\ src \in [1..N -> Source] /\ \A k \in 1..N : src[k] \in Source /\ Paired(src[k])
  BY DEF IInv, Types
<1>3. CASE src' = src /\ ended' = "no"
  <2>1. Returned /\ rval = 1 /\ step = "back"
    BY <1>3 DEF Returned, Cancel
  <2>2. InLoop(src[1])
    <3>1. at < N /\ at + 1 = 1
      BY <1>1, <1>2
    <3> QED BY <2>1, <3>1 DEF IInv, OnPath
  <2>3. Types' /\ Asked' /\ OnPath'
    BY <1>1, <1>2, <1>3, <2>2 DEF IInv, Types, Asked, OnPath, InLoop
  <2> QED BY <1>1, <1>2, <1>3, <2>3 DEF IInv, Paired
<1>4. CASE src' = [i \in 1..N |-> IF src[i].st = "started" THEN Finished(src[i]) ELSE src[i]]
  <2>1. \A k \in 1..N : src'[k] \in Source /\ Paired(src'[k]) /\ src'[k].st # "started"
    BY <1>2, <1>4, FinishedIs
  <2>2. src' \in [1..N -> Source]
    BY <1>4, <2>1
  <2>3. ended' # "no" \/ (src' = src /\ ended' = "no")
    BY DEF Returned, Cancel
  <2>4. CASE ended' # "no"
    <3>1. Types' /\ Asked' /\ OnPath'
      BY <1>1, <1>2, <2>1, <2>2, <2>4 DEF IInv, Types, Asked, OnPath
    <3> QED BY <1>1, <2>1, <3>1 DEF IInv, Paired
  <2> QED BY <1>3, <2>3, <2>4
<1> QED BY <1>3, <1>4 DEF Returned, Cancel

-----------------------------------------------------------------------------
\* What a case of the queries starts with.
LEMMA CaseIs ==
  ASSUME Init
  PROVE  /\ plan = Plan(query) /\ plan # <<>>
         /\ query.joins \in Seq(Joins)
         /\ rows \in [Sources -> Seq(Values)] /\ \A s \in Sources : Once(rows[s])
<1>1. PICK c \in Cases :
        /\ query = [joins |-> c.joins, clear |-> HasMeaning(Range(c.joins))]
        /\ plan = Plan(query) /\ plan # <<>> /\ rows \in c.rows
  BY DEF Init
<1>2. /\ c.joins \in Seq(Joins) /\ c.rows \subseteq [Sources -> Seq(Values)]
      /\ \A r \in c.rows, s \in Sources : Once(r[s])
  BY JoinAssumption
<1>3. query.joins = c.joins
  BY <1>1
<1> QED BY <1>1, <1>2, <1>3

\* A query with an order has a plan for each source.
LEMMA PlanIs ==
  ASSUME NEW q, Plan(q) # <<>>
  PROVE  /\ Len(Plan(q)) \in Nat \ {0}
         /\ \A i \in 1..Len(Plan(q)) : Plan(q)[i].id \in Sources
<1> DEFINE first == FirstOrders(q.joins, JoinOrders(q.joins, GlobalInner(q.joins)))
           o == CHOOSE o \in first : TRUE
<1>1. first # {} /\ Plan(q) = PlanOf(q.joins, o)
  BY DEF Plan
<1>2. o \in first
  BY <1>1
<1>3. o \in SetToSeqs(Sources)
  BY <1>2 DEF FirstOrders, JoinOrders
<1> HIDE DEF o, first
<1>4. Cardinality(Sources) \in Nat
  BY JoinAssumption, FS_CardinalityType
<1>5. o \in [1..Cardinality(Sources) -> Sources]
  BY <1>3 DEF SetToSeqs, IsInjective
<1> DEFINE n == Cardinality(Sources)
<1> HIDE DEF n
<1>6. o \in [1..n -> Sources] /\ n \in Nat
  BY <1>4, <1>5 DEF n
<1>7. /\ DOMAIN Plan(q) = 1..n
      /\ \A i \in 1..n : Plan(q)[i].id = o[i]
      /\ \E f : Plan(q) = [i \in 1..n |-> f[i]]
  BY <1>1, <1>6 DEF PlanOf
<1>8. Len(Plan(q)) = n
  BY <1>6, <1>7
<1>9. n # 0
  <2>1. SUFFICES ASSUME n = 0 PROVE FALSE
    OBVIOUS
  <2>2. Plan(q) = <<>>
    BY <1>7, <2>1
  <2> QED BY <2>2
<1> QED BY <1>6, <1>7, <1>8, <1>9

LEMMA InitHolds ==
  ASSUME Init
  PROVE  IInv
<1>1. /\ N = Len(Plan(query)) /\ plan = Plan(query) /\ plan # <<>>
      /\ src = [i \in 1..N |-> NotStarted]
      /\ at = 0 /\ step = "enter" /\ rval = 1 /\ ended = "no"
  BY CaseIs DEF Init, N
<1>2. N \in Nat \ {0} /\ \A i \in 1..N : plan[i].id \in Sources
  BY <1>1, PlanIs
<1>3. rows \in [Sources -> Seq(Values)]
  BY CaseIs
<1>4. \A i \in 1..N : src[i] \in Source /\ Paired(src[i]) /\ src[i].st = "notstarted"
  BY <1>1, NotStartedIs
<1>5. src \in [1..N -> Source]
  BY <1>1, NotStartedIs
<1>6. Types
  BY <1>1, <1>2, <1>3, <1>5 DEF Types
<1>7. OnPath /\ Asked
  BY <1>1, <1>2, <1>4 DEF OnPath, Asked
<1> QED BY <1>4, <1>6, <1>7 DEF IInv

LEMMA StepKeeps ==
  ASSUME IInv, [Next]_vars
  PROVE  IInv'
<1>1. CASE NextItem
  BY <1>1, NextItemKeeps
<1>2. CASE Returned \/ Cancel
  BY <1>2, EndKeeps
<1>3. ASSUME NEW i \in 1..N, Step(i)
      PROVE  IInv'
  <2>1. CASE EnterNull(i)
    BY <2>1, EnterNullKeeps
  <2>2. CASE Enter(i)
    BY <2>2, EnterKeeps
  <2>3. CASE StartFails(i)
    BY <2>3, StartFailsKeeps
  <2>4. CASE Loop(i)
    BY <2>4, LoopKeeps
  <2>5. CASE BackError(i) \/ BackRow(i) \/ BackNone(i)
    BY <2>5, BackKeeps
  <2>6. CASE BackUnfulfilled(i)
    BY <2>6, BackUnfulfilledKeeps
  <2> QED BY <1>3, <2>1, <2>2, <2>3, <2>4, <2>5, <2>6 DEF Step
<1>4. CASE UNCHANGED vars
  BY <1>4 DEF vars, IInv, Types, Paired, OnPath, InLoop, Asked, N
<1> QED BY <1>1, <1>2, <1>3, <1>4 DEF Next

LEMMA Invariance == Spec => []IInv
<1>1. Init => IInv
  BY InitHolds
<1>2. IInv /\ [Next]_vars => IInv'
  BY StepKeeps
<1> QED BY <1>1, <1>2, PTL DEF Spec

(* A driver is started and finished in pairs: CursorsPaired of MqJoin, for any
   query, plan, rows and failures of the drivers. *)
THEOREM CursorsArePaired == Spec => []CursorsPaired
<1>1. IInv => CursorsPaired
  <2> SUFFICES ASSUME IInv PROVE CursorsPaired
    OBVIOUS
  <2>1. \A i \in 1..N : At("enter", i) => src[i].st # "finished"
    BY DEF IInv, Types, OnPath, At
  <2>2. \A i \in 1..N : src[i].open = (src[i].st = "started")
    BY DEF IInv, Paired
  <2>3. ended # "no" => \A i \in 1..N : ~src[i].open
    BY <2>2 DEF IInv, Asked
  <2> QED BY <2>1, <2>2, <2>3 DEF CursorsPaired
<1> QED BY <1>1, Invariance, PTL

(* The types of the join, and that no row of a source which is not started stays
   in the object list: TypeOK of MqJoin. *)
THEOREM TypeCorrect == Spec => []TypeOK
<1>1. IInv => TypeOK
  BY DEF IInv, Types, Source, States, Paired, TypeOK
<1> QED BY <1>1, Invariance, PTL

-----------------------------------------------------------------------------
(***************************************************************************)
(* The plan of a query of inner joins.                                     *)
(***************************************************************************)
\* o is an order of the sources.
Order(o, n) ==
  /\ n \in Nat /\ o \in [1..n -> Sources]
  /\ \A i, k \in 1..n : o[i] = o[k] => i = k
  /\ \A s \in Sources : \E i \in 1..n : o[i] = s

\* Inner joins, each of two sources.
InnerJoins(joins, m) ==
  /\ m \in Nat /\ DOMAIN joins = 1..m /\ Len(joins) = m
  /\ \A j \in 1..m : /\ joins[j].outer = {}
                     /\ joins[j].mask \subseteq Sources
                     /\ \E a, b \in Sources : a # b /\ joins[j].mask = {a, b}

\* dep has the first source of each join in the order.
FirstOnes(joins, o, n, m, dep) ==
  /\ DOMAIN dep = 1..m
  /\ \A j \in 1..m : \E k, l \in 1..n :
       k < l /\ joins[j].mask = {o[k], o[l]} /\ dep[j] = {o[k]}

LEMMA DependsOnIs ==
  ASSUME NEW o, NEW n, Order(o, n), NEW joins, NEW m, InnerJoins(joins, m)
  PROVE  FirstOnes(joins, o, n, m, DependsOn(joins, o))
<1>0. n \in Nat /\ DOMAIN o = 1..n /\ DOMAIN joins = 1..m
  BY DEF Order, InnerJoins
<1>1. ASSUME NEW j \in 1..m
      PROVE  \E k, l \in 1..n : /\ k < l /\ joins[j].mask = {o[k], o[l]}
                                /\ DependsOn(joins, o)[j] = {o[k]}
  <2>1. PICK a, b \in Sources : a # b /\ joins[j].mask = {a, b}
    BY DEF InnerJoins
  <2>2. PICK p \in 1..n, q \in 1..n : o[p] = a /\ o[q] = b
    BY DEF Order
  <2> DEFINE K == {k \in 1..n : o[k] \in joins[j].mask}
  <2>3. K = {p, q} /\ p # q
    BY <2>1, <2>2 DEF Order
  <2>4. DependsOn(joins, o)[j] = joins[j].mask \ {o[Max(K)]}
    BY <1>0 DEF DependsOn
  <2>5. Max(K) \in K /\ \A y \in K : y <= Max(K)
    <3>1. K \in SUBSET (1..n) /\ K # {}
      BY <2>3
    <3> HIDE DEF K
    <3> QED BY <1>0, <3>1, MaxIs
  <2> HIDE DEF K
  <2>6. CASE Max(K) = q
    <3>1. p < q
      BY <2>3, <2>5, <2>6
    <3>2. joins[j].mask \ {o[Max(K)]} = {o[p]}
      BY <2>1, <2>2, <2>6
    <3> QED BY <2>1, <2>2, <2>4, <3>1, <3>2
  <2>7. CASE Max(K) = p
    <3>1. q < p
      BY <2>3, <2>5, <2>7
    <3>2. joins[j].mask \ {o[Max(K)]} = {o[q]} /\ joins[j].mask = {o[q], o[p]}
      BY <2>1, <2>2, <2>7
    <3> QED BY <2>4, <3>1, <3>2
  <2> QED BY <2>3, <2>5, <2>6, <2>7
<1>2. DOMAIN DependsOn(joins, o) = 1..m
  BY <1>0 DEF DependsOn
<1> QED BY <1>1, <1>2 DEF FirstOnes

\* The pairs of joins, in the order in which they are looked at.
PairsOf(n) == [k \in 1..(n * n) |-> <<1 + ((k - 1) \div n), 1 + ((k - 1) % n)>>]

\* One pair: what join q[2] depends on is added to what q[1] does.
Widened(joins, dep, g, q) ==
  IF q[1] # q[2] /\ joins[q[2]].mask \cap g[q[1]] # {} /\ dep[q[2]] \cap g[q[1]] = {}
  THEN [g EXCEPT ![q[1]] = @ \cup dep[q[2]]] ELSE g

LEMMA GlobalDependsOnUnfolds ==
  ASSUME NEW joins, NEW dep
  PROVE  GlobalDependsOn(joins, dep) =
           (CHOOSE it : it = [d \in SUBSET (DOMAIN PairsOf(Len(joins))) |->
              IF d = {} THEN dep
              ELSE Widened(joins, dep, it[d \ {Max(d)}], PairsOf(Len(joins))[Max(d)])]
           )[DOMAIN PairsOf(Len(joins))]
BY Zenon DEF GlobalDependsOn, FoldLeft, MapThenFoldSet, PairsOf, Widened

Places(o) == [i \in DOMAIN o |-> i]

LEMMA CanBeOuterUnfolds ==
  ASSUME NEW joins, NEW o
  PROVE  CanBeOuter(joins, o) =
           (CHOOSE it : it = [d \in SUBSET (DOMAIN Places(o)) |->
              IF d = {} THEN {}
              ELSE IF Outer(joins, o, Places(o)[Max(d)])
                      \/ (Dep(joins, o, Places(o)[Max(d)]) # {}
                          /\ Dep(joins, o, Places(o)[Max(d)]) \subseteq it[d \ {Max(d)}])
                   THEN it[d \ {Max(d)}] \cup {o[Places(o)[Max(d)]]}
                   ELSE it[d \ {Max(d)}]])[DOMAIN Places(o)]
BY Zenon DEF CanBeOuter, FoldLeft, MapThenFoldSet, Places
\* What a join depends on, first hand and then with the other joins, is before
\* its last source in the order.
Early(o, n, joins, m, dep) ==
  {g \in [1..m -> SUBSET Sources] :
     \A j \in 1..m : /\ dep[j] \subseteq g[j]
                     /\ \A k, l \in 1..n :
                          o[k] \in g[j] /\ o[l] \in joins[j].mask \ dep[j] => k < l}

LEMMA EarlyStarts ==
  ASSUME NEW o, NEW n, Order(o, n), NEW joins, NEW m, InnerJoins(joins, m),
         NEW dep, FirstOnes(joins, o, n, m, dep), dep \in [1..m -> SUBSET Sources]
  PROVE  dep \in Early(o, n, joins, m, dep)
<1>1. ASSUME NEW j \in 1..m, NEW k \in 1..n, NEW l \in 1..n,
             o[k] \in dep[j], o[l] \in joins[j].mask \ dep[j]
      PROVE  k < l
  <2>1. PICK a, b \in 1..n : a < b /\ joins[j].mask = {o[a], o[b]} /\ dep[j] = {o[a]}
    BY DEF FirstOnes
  <2>2. k = a /\ l = b
    BY <1>1, <2>1 DEF Order
  <2> QED BY <2>1, <2>2
<1> QED BY <1>1 DEF Early

LEMMA EarlyWidens ==
  ASSUME NEW o, NEW n, Order(o, n), NEW joins, NEW m, InnerJoins(joins, m),
         NEW dep, FirstOnes(joins, o, n, m, dep), dep \in [1..m -> SUBSET Sources],
         NEW g \in Early(o, n, joins, m, dep), NEW q, q[2] \in 1..m
  PROVE  Widened(joins, dep, g, q) \in Early(o, n, joins, m, dep)
<1>1. g \in [1..m -> SUBSET Sources]
  BY DEF Early
<1>2. CASE Widened(joins, dep, g, q) = g
  BY <1>2
<1>3. CASE /\ q[1] \in 1..m
           /\ joins[q[2]].mask \cap g[q[1]] # {} /\ dep[q[2]] \cap g[q[1]] = {}
           /\ Widened(joins, dep, g, q) = [g EXCEPT ![q[1]] = @ \cup dep[q[2]]]
  <2> DEFINE h == [g EXCEPT ![q[1]] = @ \cup dep[q[2]]]
  <2>1. h \in [1..m -> SUBSET Sources]
    BY <1>1, <1>3
  <2>2. \A j \in 1..m : h[j] = IF j = q[1] THEN g[j] \cup dep[q[2]] ELSE g[j]
    BY <1>1
  <2>3. PICK a, b \in 1..n :
          a < b /\ joins[q[2]].mask = {o[a], o[b]} /\ dep[q[2]] = {o[a]}
    BY DEF FirstOnes
  <2>4. o[b] \in g[q[1]]
    BY <1>3, <2>3
  <2>5. ASSUME NEW j \in 1..m, NEW k \in 1..n, NEW l \in 1..n,
               o[k] \in h[j], o[l] \in joins[j].mask \ dep[j]
        PROVE  k < l
    <3>1. CASE o[k] \in g[j]
      BY <2>5, <3>1 DEF Early
    <3>2. CASE o[k] \notin g[j]
      <4>1. j = q[1] /\ o[k] = o[a]
        BY <2>2, <2>3, <2>5, <3>2
      <4>2. k = a
        BY <4>1 DEF Order
      <4>3. b < l
        BY <2>4, <2>5, <4>1 DEF Early
      <4>4. n \in Nat
        BY DEF Order
      <4> QED BY <2>3, <4>2, <4>3, <4>4
    <3> QED BY <3>1, <3>2
  <2>6. \A j \in 1..m : dep[j] \subseteq h[j]
    BY <2>2 DEF Early
  <2> HIDE DEF h
  <2>7. h \in Early(o, n, joins, m, dep)
    BY <2>1, <2>5, <2>6 DEF Early
  <2> QED BY <1>3, <2>7 DEF h
<1>4. CASE q[1] \notin 1..m
  <2>1. [g EXCEPT ![q[1]] = @ \cup dep[q[2]]] = g
    BY <1>1, <1>4
  <2> QED BY <1>2, <2>1 DEF Widened
<1> QED BY <1>2, <1>3, <1>4 DEF Widened

LEMMA GlobalDependsOnIs ==
  ASSUME NEW o, NEW n, Order(o, n), NEW joins, NEW m, InnerJoins(joins, m),
         NEW dep, FirstOnes(joins, o, n, m, dep), dep \in [1..m -> SUBSET Sources]
  PROVE  GlobalDependsOn(joins, dep) \in Early(o, n, joins, m, dep)
<1> DEFINE V == Early(o, n, joins, m, dep)
           z == m * m
           p == PairsOf(m)
           w == [c \in 1..z |-> [v \in V |-> Widened(joins, dep, v, p[c])]]
           Eq(it) == it = [d \in SUBSET (1..z) |->
                       IF d = {} THEN dep ELSE Widened(joins, dep, it[d \ {Max(d)}], p[Max(d)])]
           e == CHOOSE it : Eq(it)
<1>1. m \in Nat /\ z \in Nat /\ Len(joins) = m /\ DOMAIN p = 1..z
  BY DEF InnerJoins, PairsOf
<1>2. \A c \in 1..z : p[c][2] \in 1..m
  <2> SUFFICES ASSUME NEW c \in 1..z PROVE p[c][2] \in 1..m
    OBVIOUS
  <2>1. m > 0
    BY <1>1
  <2>2. p[c][2] = 1 + ((c - 1) % m)
    BY DEF PairsOf
  <2>3. c - 1 \in Nat
    BY <1>1
  <2>4. (c - 1) % m \in 0..(m - 1)
    BY <1>1, <2>1, <2>3
  <2> QED BY <1>1, <2>2, <2>4
<1>3. dep \in V /\ \A c \in 1..z, v \in V : Widened(joins, dep, v, p[c]) \in V
  BY <1>2, EarlyStarts, EarlyWidens
<1> HIDE DEF V, p, z
<1>4. w \in [1..z -> [V -> V]]
  BY <1>3
<1>5. PICK it : Folding(it, z, dep, w)
  BY <1>1, FoldExists
<1>6. \A d \in SUBSET (1..z) : it[d] \in V
  <2>1. PICK f : f = Partials(it, z)
    OBVIOUS
  <2> HIDE DEF w
  <2>2. FoldsWith(it, z, V, dep, w)
    BY <1>5, FoldingFolds
  <2> QED BY <1>1, <1>3, <1>4, <2>1, <2>2, FoldIs
<1>7. \A d \in SUBSET (1..z), c \in 1..z, v \in V :
        w[c][v] = Widened(joins, dep, v, p[c])
  OBVIOUS
<1>8. \A d \in SUBSET (1..z) : d # {} => Max(d) \in 1..z /\ d \ {Max(d)} \in SUBSET (1..z)
  BY <1>1, MaxIs
<1> HIDE DEF w
<1>9. Eq(it)
  <2>1. \A d \in SUBSET (1..z) : d # {} =>
          w[Max(d)][it[d \ {Max(d)}]] = Widened(joins, dep, it[d \ {Max(d)}], p[Max(d)])
    BY <1>6, <1>7, <1>8
  <2> QED BY <1>5, <2>1 DEF Folding
<1>10. Eq(e)
  <2> HIDE DEF Eq
  <2> QED BY <1>9
<1>11. GlobalDependsOn(joins, dep) = e[1..z]
  BY <1>1, GlobalDependsOnUnfolds DEF p
<1> HIDE DEF e
<1>12. \A d \in SUBSET (1..z) :
         e[d] = IF d = {} THEN dep ELSE Widened(joins, dep, e[d \ {Max(d)}], p[Max(d)])
  BY <1>10
<1> HIDE DEF Eq
<1>13. FoldsWith(e, z, V, dep, w)
  <2>1. e[{}] = dep
    BY <1>12
  <2>2. ASSUME NEW d \in SUBSET (1..z), d # {}, e[d \ {Max(d)}] \in V
        PROVE  e[d] = w[Max(d)][e[d \ {Max(d)}]]
    BY <1>7, <1>8, <1>12, <2>2
  <2> QED BY <2>1, <2>2 DEF FoldsWith
<1>14. PICK f : f = Partials(e, z)
  OBVIOUS
<1>15. \A d \in SUBSET (1..z) : e[d] \in V
  BY <1>1, <1>3, <1>4, <1>13, <1>14, FoldIs
<1> QED BY <1>11, <1>15 DEF V

LEMMA NoneCanBeOuter ==
  ASSUME NEW o, NEW n, n \in Nat, DOMAIN o = 1..n, NEW joins,
         \A j \in DOMAIN joins : joins[j].outer = {}
  PROVE  /\ CanBeOuter(joins, o) = {}
         /\ \A i \in 1..n : ~Outer(joins, o, i)
<1> DEFINE p == Places(o)
           Eq(it) == it = [d \in SUBSET (1..n) |->
              IF d = {} THEN {}
              ELSE IF Outer(joins, o, p[Max(d)])
                      \/ (Dep(joins, o, p[Max(d)]) # {}
                          /\ Dep(joins, o, p[Max(d)]) \subseteq it[d \ {Max(d)}])
                   THEN it[d \ {Max(d)}] \cup {o[p[Max(d)]]}
                   ELSE it[d \ {Max(d)}]]
           none == [d \in SUBSET (1..n) |-> {}]
           e == CHOOSE it : Eq(it)
           w == [c \in 1..n |-> [v \in {{}} |-> {}]]
<1>1. \A i : ~Outer(joins, o, i)
  BY DEF Outer
<1>2. \A d \in SUBSET (1..n) : d # {} => Max(d) \in 1..n /\ d \ {Max(d)} \in SUBSET (1..n)
  BY MaxIs
<1>3. Eq(none)
  <2>1. \A d \in SUBSET (1..n) : d # {} => none[d \ {Max(d)}] = {}
    BY <1>2
  <2> QED BY <1>1, <2>1
<1> HIDE DEF none
<1>4. Eq(e)
  <2> HIDE DEF Eq
  <2> QED BY <1>3
<1>5. CanBeOuter(joins, o) = e[1..n]
  <2>1. DOMAIN p = 1..n
    BY DEF Places
  <2> QED BY <2>1, CanBeOuterUnfolds
<1> HIDE DEF e
<1>6. /\ e[{}] = {}
      /\ \A d \in SUBSET (1..n) : d # {} /\ e[d \ {Max(d)}] = {} => e[d] = {}
  <2>1. ASSUME NEW d \in SUBSET (1..n)
        PROVE  e[d] = IF d = {} THEN {}
                      ELSE IF Outer(joins, o, p[Max(d)])
                              \/ (Dep(joins, o, p[Max(d)]) # {}
                                  /\ Dep(joins, o, p[Max(d)]) \subseteq e[d \ {Max(d)}])
                           THEN e[d \ {Max(d)}] \cup {o[p[Max(d)]]}
                           ELSE e[d \ {Max(d)}]
    <3> HIDE DEF p
    <3> QED BY <1>4
  <2> HIDE DEF Eq, p
  <2>2. e[{}] = {}
    BY <2>1
  <2>3. ASSUME NEW d \in SUBSET (1..n), d # {}, e[d \ {Max(d)}] = {}
        PROVE  e[d] = {}
    <3>1. ~Outer(joins, o, p[Max(d)])
      BY <1>1
    <3>2. ~(Dep(joins, o, p[Max(d)]) # {} /\ Dep(joins, o, p[Max(d)]) \subseteq {})
      OBVIOUS
    <3> QED BY <2>1, <2>3, <3>1, <3>2
  <2> QED BY <2>2, <2>3
<1>7. FoldsWith(e, n, {{}}, {}, w)
  <2>1. \A d \in SUBSET (1..n) : d # {} => w[Max(d)] = [v \in {{}} |-> {}]
    BY <1>2
  <2> HIDE DEF w, Eq
  <2> QED BY <1>6, <2>1 DEF FoldsWith
<1>8. w \in [1..n -> [{{}} -> {{}}]]
  OBVIOUS
<1> HIDE DEF w
<1>9. PICK f, b : f = Partials(e, n) /\ b = {}
  OBVIOUS
<1>10. \A d \in SUBSET (1..n) : e[d] \in {{}}
  BY <1>7, <1>8, <1>9, FoldIs
<1> QED BY <1>1, <1>5, <1>10
\* The plan of inner joins: a source depends on sources before it, nothing can be a
\* null row, and each join is checked at the later one of its two sources.
InnerPlan(p, n, joins, m) ==
  /\ n \in Nat /\ m \in Nat
  /\ \A i \in 1..n : p[i].id \in Sources
  /\ \A i, k \in 1..n : p[i].id = p[k].id => i = k
  /\ \A s \in Sources : \E i \in 1..n : p[i].id = s
  /\ \A i \in 1..n :
       /\ ~p[i].canBeOuter
       /\ p[i].dep \subseteq {p[k].id : k \in 1..(i - 1)}
       /\ p[i].rdep \subseteq {p[k].id : k \in (i + 1)..n}
       /\ p[i].joins \subseteq 1..m
       /\ \A j \in p[i].joins : \E k \in 1..(i - 1) : joins[j].mask = {p[k].id, p[i].id}
  /\ \A j \in 1..m : \E i \in 1..n : j \in p[i].joins

LEMMA DepIs ==
  ASSUME NEW o, NEW n, Order(o, n), NEW joins, NEW m, InnerJoins(joins, m)
  PROVE  /\ \A i \in 1..n : Dep(joins, o, i) \subseteq {o[k] : k \in 1..(i - 1)}
         /\ \A j \in 1..m : \E i \in 1..n : \E k \in 1..(i - 1) :
              joins[j].mask = {o[k], o[i]} /\ o[k] \in Dep(joins, o, i)
<1> DEFINE dep == DependsOn(joins, o)
           gdep == GlobalDependsOn(joins, dep)
<1>1. FirstOnes(joins, o, n, m, dep)
  BY DependsOnIs
<1>2. dep \in [1..m -> SUBSET Sources]
  <2>1. dep = [j \in 1..m |-> dep[j]]
    BY DEF DependsOn, InnerJoins
  <2> HIDE DEF dep
  <2>2. \A j \in 1..m : dep[j] \subseteq Sources
    BY <1>1 DEF FirstOnes, Order
  <2> QED BY <2>1, <2>2
<1>3. gdep \in Early(o, n, joins, m, dep)
  <2> HIDE DEF dep
  <2> QED BY <1>1, <1>2, GlobalDependsOnIs
<1>4. n \in Nat /\ DOMAIN joins = 1..m /\ DOMAIN o = 1..n
  BY DEF Order, InnerJoins
<1>5. \A i \in 1..n :
        Dep(joins, o, i) = UNION {dep[j] : j \in {j \in 1..m : o[i] \in joins[j].mask \ gdep[j]}}
  BY <1>4 DEF Dep
<1> HIDE DEF gdep, dep
<1>6. ASSUME NEW i \in 1..n, NEW x \in Dep(joins, o, i)
      PROVE  x \in {o[k] : k \in 1..(i - 1)}
  <2>1. PICK j \in 1..m : o[i] \in joins[j].mask \ gdep[j] /\ x \in dep[j]
    BY <1>5, <1>6
  <2>2. PICK k, l \in 1..n : k < l /\ joins[j].mask = {o[k], o[l]} /\ dep[j] = {o[k]}
    BY <1>1 DEF FirstOnes
  <2>3. o[i] # o[k]
    BY <1>3, <2>1, <2>2 DEF Early
  <2>4. i = l
    BY <2>1, <2>2, <2>3 DEF Order
  <2>5. k \in 1..(i - 1)
    BY <1>4, <2>2, <2>4
  <2> QED BY <2>1, <2>2, <2>5
<1>7. ASSUME NEW j \in 1..m
      PROVE  \E i \in 1..n : \E k \in 1..(i - 1) :
               joins[j].mask = {o[k], o[i]} /\ o[k] \in Dep(joins, o, i)
  <2>1. PICK k, l \in 1..n : k < l /\ joins[j].mask = {o[k], o[l]} /\ dep[j] = {o[k]}
    BY <1>1 DEF FirstOnes
  <2>2. o[l] # o[k]
    BY <1>4, <2>1 DEF Order
  <2>3. o[l] \notin gdep[j]
    <3>1. SUFFICES ASSUME o[l] \in gdep[j] PROVE FALSE
      OBVIOUS
    <3>2. o[l] \in joins[j].mask \ dep[j]
      BY <2>1, <2>2
    <3>3. l < l
      BY <1>3, <3>1, <3>2 DEF Early
    <3> QED BY <1>4, <3>3
  <2>4. o[k] \in Dep(joins, o, l)
    BY <1>5, <2>1, <2>3
  <2>5. k \in 1..(l - 1)
    BY <1>4, <2>1
  <2> QED BY <2>1, <2>4, <2>5
<1> QED BY <1>6, <1>7

LEMMA InnerPlanIs ==
  ASSUME NEW o, NEW n, Order(o, n), NEW joins, NEW m, InnerJoins(joins, m),
         NEW p, p = PlanOf(joins, o)
  PROVE  InnerPlan(p, n, joins, m) /\ Len(p) = n
<1>1. /\ n \in Nat /\ m \in Nat /\ DOMAIN o = 1..n /\ DOMAIN joins = 1..m
      /\ \A i \in 1..n : o[i] \in Sources
      /\ \A j \in DOMAIN joins : joins[j].outer = {}
  BY DEF Order, InnerJoins
<1>2. CanBeOuter(joins, o) = {} /\ \A i \in 1..n : ~Outer(joins, o, i)
  BY <1>1, NoneCanBeOuter
<1>3. /\ \A i \in 1..n : Dep(joins, o, i) \subseteq {o[k] : k \in 1..(i - 1)}
      /\ \A j \in 1..m : \E i \in 1..n : \E k \in 1..(i - 1) :
           joins[j].mask = {o[k], o[i]} /\ o[k] \in Dep(joins, o, i)
  BY DepIs
<1>4. /\ p = [i \in 1..n |-> p[i]]
      /\ \A i \in 1..n : /\ p[i].id = o[i] /\ p[i].dep = Dep(joins, o, i)
                         /\ p[i].canBeOuter = (o[i] \in CanBeOuter(joins, o))
                         /\ p[i].rdep = ReverseDep(joins, o, i)
                         /\ p[i].joins = JoinsOf(joins, o, i)
  BY <1>1 DEF PlanOf
<1>5. Len(p) = n
  BY <1>1, <1>4
<1> DEFINE Covered(k) == {j \in 1..m : /\ o[k] \in joins[j].mask
                                       /\ joins[j].mask \subseteq Dep(joins, o, k) \cup {o[k]}}
<1>6. \A i \in 1..n : JoinsOf(joins, o, i) = Covered(i) \ UNION {Covered(k) : k \in 1..(i - 1)}
  BY <1>1 DEF JoinsOf
<1>7. ASSUME NEW i \in 1..n, NEW j \in Covered(i)
      PROVE  \E k \in 1..(i - 1) : joins[j].mask = {o[k], o[i]}
  <2>1. PICK a, b \in Sources : a # b /\ joins[j].mask = {a, b}
    BY DEF InnerJoins
  <2>2. PICK c : joins[j].mask = {c, o[i]} /\ c # o[i]
    BY <2>1
  <2>3. c \in Dep(joins, o, i)
    BY <2>2
  <2>4. PICK k \in 1..(i - 1) : c = o[k]
    BY <1>3, <2>3
  <2> QED BY <2>2, <2>4
<1>8. ASSUME NEW j \in 1..m PROVE \E i \in 1..n : j \in JoinsOf(joins, o, i)
  <2>1. PICK i \in 1..n : \E k \in 1..(i - 1) :
          joins[j].mask = {o[k], o[i]} /\ o[k] \in Dep(joins, o, i)
    BY <1>3
  <2>2. j \in Covered(i)
    BY <2>1
  <2>3. ASSUME NEW l \in 1..(i - 1), j \in Covered(l) PROVE FALSE
    <3>1. l \in 1..n /\ l < i
      BY <1>1
    <3>2. PICK x \in 1..(l - 1) : joins[j].mask = {o[x], o[l]}
      BY <1>7, <2>3, <3>1
    <3>3. o[i] = o[x] \/ o[i] = o[l]
      BY <2>1, <3>2
    <3>4. x \in 1..n /\ x # i /\ l # i
      BY <1>1, <3>1
    <3> QED BY <3>1, <3>3, <3>4 DEF Order
  <2> HIDE DEF Covered
  <2> QED BY <1>6, <2>2, <2>3
<1>9. \A i \in 1..n : p[i].joins \subseteq 1..m /\ p[i].joins \subseteq Covered(i)
  BY <1>4, <1>6
<1> HIDE DEF Covered
<1>10. ASSUME NEW i \in 1..n
       PROVE  /\ ~p[i].canBeOuter
              /\ p[i].dep \subseteq {p[k].id : k \in 1..(i - 1)}
              /\ p[i].rdep \subseteq {p[k].id : k \in (i + 1)..n}
              /\ p[i].joins \subseteq 1..m
              /\ \A j \in p[i].joins : \E k \in 1..(i - 1) : joins[j].mask = {p[k].id, p[i].id}
  <2>1. \A k \in 1..(i - 1) : k \in 1..n
    BY <1>1
  <2>2. \A k \in (i + 1)..n : k \in 1..n
    BY <1>1
  <2>3. p[i].dep \subseteq {p[k].id : k \in 1..(i - 1)}
    BY <1>3, <1>4, <2>1
  <2>4. p[i].rdep \subseteq {p[k].id : k \in (i + 1)..n}
    BY <1>1, <1>4, <2>2 DEF ReverseDep
  <2>5. \A j \in p[i].joins : \E k \in 1..(i - 1) : joins[j].mask = {p[k].id, p[i].id}
    BY <1>4, <1>7, <1>9, <2>1
  <2> QED BY <1>2, <1>4, <1>9, <2>3, <2>4, <2>5
<1>11. \A j \in 1..m : \E i \in 1..n : j \in p[i].joins
  BY <1>4, <1>8
<1>12. /\ \A i \in 1..n : p[i].id \in Sources
       /\ \A i, k \in 1..n : p[i].id = p[k].id => i = k
       /\ \A s \in Sources : \E i \in 1..n : p[i].id = s
  BY <1>1, <1>4 DEF Order
<1>13. n \in Nat /\ m \in Nat
  BY <1>1
<1> QED BY ONLY <1>5, <1>10, <1>11, <1>12, <1>13 DEF InnerPlan

LEMMA PlanOfInner ==
  ASSUME NEW q, NEW m, InnerJoins(q.joins, m), Plan(q) # <<>>
  PROVE  InnerPlan(Plan(q), Len(Plan(q)), q.joins, m)
<1> DEFINE first == FirstOrders(q.joins, JoinOrders(q.joins, GlobalInner(q.joins)))
           o == CHOOSE o \in first : TRUE
           n == Cardinality(Sources)
<1>1. first # {} /\ Plan(q) = PlanOf(q.joins, o)
  BY DEF Plan
<1>2. o \in SetToSeqs(Sources)
  <2>1. o \in first
    BY <1>1
  <2> QED BY <2>1 DEF FirstOrders, JoinOrders
<1> HIDE DEF o, first
<1>3. IsFiniteSet(Sources) /\ n \in Nat
  BY JoinAssumption, FS_CardinalityType
<1>4. o \in [1..n -> Sources] /\ \A i, k \in 1..n : o[i] = o[k] => i = k
  BY <1>2 DEF SetToSeqs
<1>5. \A s \in Sources : \E i \in 1..n : o[i] = s
  <2>1. o \in Injection(1..n, Sources)
    BY <1>4 DEF Injection, IsInjective
  <2>2. Cardinality(1..n) = n
    BY <1>3, FS_Interval
  <2>3. o \in Surjection(1..n, Sources)
    BY <1>3, <2>1, <2>2, FS_Injection
  <2> QED BY <2>3 DEF Surjection
<1> HIDE DEF n
<1>6. Order(o, n)
  BY <1>3, <1>4, <1>5 DEF Order
<1>7. PICK j, p : j = q.joins /\ p = Plan(q)
  OBVIOUS
<1>8. InnerPlan(p, n, j, m) /\ Len(p) = n
  BY <1>1, <1>6, <1>7, InnerPlanIs
<1> QED BY <1>7, <1>8

-----------------------------------------------------------------------------
(***************************************************************************)
(* The walk over the rows of inner joins.  What does not change in it is   *)
(* put together in w: the joins, the rows, the plan and its length.  A     *)
(* choice e has the place of a row of each source, in the order of the     *)
(* plan.                                                                   *)
(***************************************************************************)
RowsAt(w, k) == w.rows[w.plan[k].id]

\* The joins checked at the k-th source hold for its row of e.
Fits(w, e, k) ==
  \A j \in w.plan[k].joins, l \in 1..(k - 1) :
    w.plan[l].id \in w.joins[j].mask => RowsAt(w, l)[e[l]] # RowsAt(w, k)[e[k]]

Fitting(w) ==
  {e \in [1..w.n -> Nat] : \A k \in 1..w.n : e[k] \in 1..Len(RowsAt(w, k)) /\ Fits(w, e, k)}

\* The row that a choice makes.
Chosen(w, e) ==
  [s \in Sources |-> w.rows[s][e[CHOOSE i \in 1..w.n : w.plan[i].id = s]]]

\* e is at p, or before it, in the first d sources.
Same(e, p, d) == \A l \in 1..d : e[l] = p[l]
Below(e, p, d) == \E k \in 1..d : Same(e, p, k - 1) /\ e[k] < p[k]

\* The rows that come before p, without and with those that begin like p.
RowsBelow(w, p, d) == {Chosen(w, e) : e \in {e \in Fitting(w) : Below(e, p, d)}}
RowsUpTo(w, p, d) ==
  {Chosen(w, e) : e \in {e \in Fitting(w) : Below(e, p, d) \/ Same(e, p, d)}}

\* What w is for inner joins.
Laid(w) ==
  /\ InnerPlan(w.plan, w.n, w.joins, Len(w.joins))
  /\ w.rows \in [Sources -> Seq(Values)]
  /\ \A s \in Sources : Once(w.rows[s])

LEMMA SourceAt ==
  ASSUME NEW w, Laid(w), NEW k \in 1..w.n
  PROVE  /\ w.n \in Nat
         /\ (CHOOSE i \in 1..w.n : w.plan[i].id = w.plan[k].id) = k
         /\ w.plan[k].id \in Sources
         /\ RowsAt(w, k) \in Seq(Values) /\ Once(RowsAt(w, k))
         /\ \A e : Chosen(w, e)[w.plan[k].id] = RowsAt(w, k)[e[k]]
<1>1. /\ w.n \in Nat /\ w.plan[k].id \in Sources
      /\ \A i, l \in 1..w.n : w.plan[i].id = w.plan[l].id => i = l
  BY DEF Laid, InnerPlan
<1> DEFINE c == CHOOSE i \in 1..w.n : w.plan[i].id = w.plan[k].id
<1>2. c \in 1..w.n /\ w.plan[c].id = w.plan[k].id
  OBVIOUS
<1>3. c = k
  <2> HIDE DEF c
  <2> QED BY <1>1, <1>2
<1>4. RowsAt(w, k) \in Seq(Values) /\ Once(RowsAt(w, k))
  BY <1>1 DEF Laid, RowsAt
<1>5. \A e : Chosen(w, e)[w.plan[k].id] = RowsAt(w, k)[e[k]]
  BY <1>1, <1>3 DEF Chosen, RowsAt
<1> QED BY <1>1, <1>3, <1>4, <1>5

\* Two choices make two rows.
LEMMA ChosenOnce ==
  ASSUME NEW w, Laid(w), NEW e \in Fitting(w), NEW f \in Fitting(w),
         Chosen(w, e) = Chosen(w, f)
  PROVE  e = f
<1>1. ASSUME NEW k \in 1..w.n PROVE e[k] = f[k]
  <2>1. RowsAt(w, k)[e[k]] = RowsAt(w, k)[f[k]]
    BY SourceAt
  <2>2. e[k] \in 1..Len(RowsAt(w, k)) /\ f[k] \in 1..Len(RowsAt(w, k))
    BY DEF Fitting
  <2>3. Once(RowsAt(w, k)) /\ RowsAt(w, k) \in Seq(Values)
    BY SourceAt
  <2> QED BY <2>1, <2>2, <2>3 DEF Once
<1>2. e \in [1..w.n -> Nat] /\ f \in [1..w.n -> Nat]
  BY DEF Fitting
<1>3. e = [k \in 1..w.n |-> e[k]] /\ f = [k \in 1..w.n |-> f[k]]
  BY <1>2
<1> QED BY <1>1, <1>3

LEMMA FitsAlike ==
  ASSUME NEW w, NEW e, NEW f, NEW k \in Nat, Same(e, f, k), k # 0
  PROVE  Fits(w, e, k) <=> Fits(w, f, k)
<1>1. e[k] = f[k] /\ \A l \in 1..(k - 1) : e[l] = f[l]
  BY DEF Same
<1> QED BY <1>1 DEF Fits

LEMMA BelowAlike ==
  ASSUME NEW d \in Nat, NEW p, NEW q, Same(p, q, d), NEW e
  PROVE  (Below(e, p, d) <=> Below(e, q, d)) /\ (Same(e, p, d) <=> Same(e, q, d))
<1>1. \A k \in 1..d : p[k] = q[k] /\ \A l \in 1..(k - 1) : l \in 1..d /\ p[l] = q[l]
  BY DEF Same
<1>2. \A k \in 1..d : Same(e, p, k - 1) <=> Same(e, q, k - 1)
  BY <1>1 DEF Same
<1> QED BY <1>1, <1>2 DEF Below, Same

LEMMA RowsAlike ==
  ASSUME NEW w, NEW d \in Nat, NEW p, NEW q, Same(p, q, d)
  PROVE  RowsBelow(w, p, d) = RowsBelow(w, q, d) /\ RowsUpTo(w, p, d) = RowsUpTo(w, q, d)
<1>1. \A e : (Below(e, p, d) <=> Below(e, q, d)) /\ (Same(e, p, d) <=> Same(e, q, d))
  BY BelowAlike
<1> QED BY <1>1 DEF RowsBelow, RowsUpTo

\* The d-th source goes on to its next row that fits.
LEMMA RowsTaken ==
  ASSUME NEW w, NEW d \in 1..w.n, w.n \in Nat, NEW p \in [1..w.n -> Nat],
         NEW q \in [1..w.n -> Nat], Same(p, q, d - 1), p[d] < q[d],
         \A e \in Fitting(w) : Same(e, p, d - 1) /\ p[d] < e[d] => q[d] <= e[d]
  PROVE  RowsBelow(w, q, d) = RowsUpTo(w, p, d)
<1>1. ASSUME NEW e \in Fitting(w)
      PROVE  Below(e, q, d) <=> Below(e, p, d) \/ Same(e, p, d)
  <2>0. e \in [1..w.n -> Nat]
    BY DEF Fitting
  <2>1. e[d] \in Nat /\ p[d] \in Nat /\ q[d] \in Nat /\ d \in Nat
    BY <2>0
  <2>2. \A k \in 1..d : k # d => /\ p[k] = q[k]
                                 /\ Same(e, p, k - 1) <=> Same(e, q, k - 1)
    BY <2>1 DEF Same
  <2>3. Same(e, p, d - 1) <=> Same(e, q, d - 1)
    BY DEF Same
  <2>4. Same(e, p, d) <=> Same(e, p, d - 1) /\ e[d] = p[d]
    BY <2>1 DEF Same
  <2>5. ASSUME Below(e, q, d) PROVE Below(e, p, d) \/ Same(e, p, d)
    <3>1. PICK k \in 1..d : Same(e, q, k - 1) /\ e[k] < q[k]
      BY <2>5 DEF Below
    <3>2. CASE k # d
      BY <2>2, <3>1, <3>2 DEF Below
    <3>3. CASE k = d
      <4>1. Same(e, p, d - 1) /\ e[d] < q[d]
        BY <2>3, <3>1, <3>3
      <4>2. e[d] <= p[d]
        BY <2>1, <4>1
      <4>3. d \in 1..d
        BY <2>1
      <4>4. CASE e[d] < p[d]
        BY <4>1, <4>3, <4>4 DEF Below
      <4> QED BY <2>1, <2>4, <4>1, <4>2, <4>4
    <3> QED BY <3>2, <3>3
  <2>6. ASSUME Below(e, p, d) PROVE Below(e, q, d)
    <3>1. PICK k \in 1..d : Same(e, p, k - 1) /\ e[k] < p[k]
      BY <2>6 DEF Below
    <3>2. CASE k # d
      BY <2>2, <3>1, <3>2 DEF Below
    <3>3. CASE k = d
      <4>1. Same(e, q, d - 1) /\ e[d] < q[d]
        BY <2>1, <2>3, <3>1, <3>3
      <4> QED BY <3>3, <4>1 DEF Below
    <3> QED BY <3>2, <3>3
  <2>7. ASSUME Same(e, p, d) PROVE Below(e, q, d)
    <3>1. Same(e, q, d - 1) /\ e[d] < q[d] /\ d \in 1..d
      BY <2>1, <2>3, <2>4, <2>7
    <3> QED BY <3>1 DEF Below
  <2> QED BY <2>5, <2>6, <2>7
<1> QED BY <1>1 DEF RowsBelow, RowsUpTo

\* No row of the d-th source behind p fits.
LEMMA RowsDone ==
  ASSUME NEW w, NEW d \in 1..w.n, w.n \in Nat, NEW p \in [1..w.n -> Nat],
         \A e \in Fitting(w) : Same(e, p, d - 1) => e[d] <= p[d]
  PROVE  RowsUpTo(w, p, d) = RowsUpTo(w, p, d - 1)
<1>1. ASSUME NEW e \in Fitting(w)
      PROVE  Below(e, p, d) \/ Same(e, p, d) <=> Below(e, p, d - 1) \/ Same(e, p, d - 1)
  <2>0. e \in [1..w.n -> Nat]
    BY DEF Fitting
  <2>1. e[d] \in Nat /\ p[d] \in Nat /\ d \in Nat /\ d \in 1..d
    BY <2>0
  <2>2. Same(e, p, d) <=> Same(e, p, d - 1) /\ e[d] = p[d]
    BY <2>1 DEF Same
  <2>3. \A k \in 1..d : k # d => k \in 1..(d - 1)
    BY <2>1
  <2>4. \A k \in 1..(d - 1) : k \in 1..d
    BY <2>1
  <2>5. Below(e, p, d) <=> Below(e, p, d - 1) \/ (Same(e, p, d - 1) /\ e[d] < p[d])
    BY <2>1, <2>3, <2>4 DEF Below
  <2> QED BY <2>1, <2>2, <2>5
<1> QED BY <1>1 DEF RowsUpTo

\* The next source is started, before its first row.
LEMMA RowsStarted ==
  ASSUME NEW w, Laid(w), NEW d \in Nat, d < w.n, NEW p \in [1..w.n -> Nat],
         NEW q \in [1..w.n -> Nat], Same(p, q, d), q[d + 1] = 0
  PROVE  RowsUpTo(w, q, d + 1) = RowsBelow(w, p, d)
<1>1. ASSUME NEW e \in Fitting(w)
      PROVE  Below(e, q, d + 1) \/ Same(e, q, d + 1) <=> Below(e, p, d)
  <2>1. w.n \in Nat /\ d + 1 \in 1..w.n
    BY DEF Laid, InnerPlan
  <2>2. e[d + 1] \in 1..Len(RowsAt(w, d + 1))
    BY <2>1 DEF Fitting
  <2>3. e[d + 1] \in Nat /\ e[d + 1] > 0
    <3>1. RowsAt(w, d + 1) \in Seq(Values)
      BY <2>1, SourceAt
    <3> QED BY <2>2, <3>1
  <2>4. ~Same(e, q, d + 1)
    BY <2>1, <2>3 DEF Same
  <2>5. Below(e, q, d + 1) <=> Below(e, q, d)
    <3>1. \A k \in 1..(d + 1) : k # d + 1 => k \in 1..d
      OBVIOUS
    <3>2. \A k \in 1..d : k \in 1..(d + 1)
      OBVIOUS
    <3>3. ~(e[d + 1] < q[d + 1])
      BY <2>3
    <3> QED BY <3>1, <3>2, <3>3 DEF Below
  <2>6. Below(e, p, d) <=> Below(e, q, d)
    BY BelowAlike
  <2> QED BY <2>4, <2>5, <2>6
<1> QED BY <1>1 DEF RowsBelow, RowsUpTo

\* No row comes before the first, and all come before the end.
LEMMA RowsAtEnds ==
  ASSUME NEW w, NEW p
  PROVE  /\ RowsBelow(w, p, 0) = {}
         /\ RowsUpTo(w, p, 0) = {Chosen(w, e) : e \in Fitting(w)}
<1>1. \A e : Same(e, p, 0) /\ ~Below(e, p, 0)
  BY DEF Same, Below
<1> QED BY <1>1 DEF RowsBelow, RowsUpTo

\* p is the row that comes next.
LEMMA RowsReturned ==
  ASSUME NEW w, Laid(w), NEW p \in Fitting(w)
  PROVE  /\ RowsUpTo(w, p, w.n) = RowsBelow(w, p, w.n) \cup {Chosen(w, p)}
         /\ Chosen(w, p) \notin RowsBelow(w, p, w.n)
<1>1. w.n \in Nat
  BY DEF Laid, InnerPlan
<1>2. p \in [1..w.n -> Nat]
  BY DEF Fitting
<1>3. ASSUME NEW e \in Fitting(w) PROVE Same(e, p, w.n) <=> e = p
  <2>1. e \in [1..w.n -> Nat]
    BY DEF Fitting
  <2>2. e = [k \in 1..w.n |-> e[k]] /\ p = [k \in 1..w.n |-> p[k]]
    BY <1>2, <2>1
  <2>3. Same(e, p, w.n) => e = p
    BY <2>2 DEF Same
  <2>4. e = p => Same(e, p, w.n)
    BY DEF Same
  <2> QED BY <2>3, <2>4
<1>4. ~Below(p, p, w.n)
  BY <1>2 DEF Below
<1>5. Chosen(w, p) \notin RowsBelow(w, p, w.n)
  <2>1. SUFFICES ASSUME NEW e \in Fitting(w), Below(e, p, w.n), Chosen(w, e) = Chosen(w, p)
                 PROVE  FALSE
    BY DEF RowsBelow
  <2>2. e = p
    BY <2>1, ChosenOnce
  <2> QED BY <1>4, <2>1, <2>2
<1> QED BY <1>3, <1>5 DEF RowsUpTo, RowsBelow

-----------------------------------------------------------------------------
(***************************************************************************)
(* What a query of inner joins means.                                      *)
(***************************************************************************)
InnerOnly == \A j \in DOMAIN query.joins : query.joins[j].outer = {}

\* The joins hold for the row env.
Apart(env) ==
  \A j \in DOMAIN query.joins : \A s, t \in query.joins[j].mask : s # t => env[s] # env[t]

LEMMA HoldsIs ==
  ASSUME InnerOnly, NEW G \in SUBSET Sources, NEW env, NEW g, g = [t \in G |-> env[t]],
         \A j \in DOMAIN query.joins : query.joins[j].mask \subseteq Sources
  PROVE  Holds(env, g) <=>
           \A j \in DOMAIN query.joins :
             query.joins[j].mask \subseteq G =>
               \A s, t \in query.joins[j].mask : s # t => env[s] # env[t]
<1> DEFINE row == [s \in Sources |-> IF s \in DOMAIN g THEN g[s] ELSE env[s]]
<1>1. DOMAIN g = G /\ \A s \in Sources : row[s] = env[s]
  OBVIOUS
<1>2. Holds(env, g) <=>
        \A j \in Range(query.joins) :
          (Inner(j) \subseteq DOMAIN g) => \A s, t \in j.mask : s # t => row[s] # row[t]
  BY DEF Holds
<1> HIDE DEF row
<1>3. \A j \in DOMAIN query.joins : Inner(query.joins[j]) = query.joins[j].mask
  BY DEF InnerOnly, Inner
<1>4. Holds(env, g) <=>
        \A j \in DOMAIN query.joins :
          (Inner(query.joins[j]) \subseteq DOMAIN g) =>
             \A s, t \in query.joins[j].mask : s # t => row[s] # row[t]
  BY <1>2 DEF Range
<1>5. \A j \in DOMAIN query.joins : \A s, t \in query.joins[j].mask :
        row[s] = env[s] /\ row[t] = env[t]
  BY <1>1
<1> QED BY <1>1, <1>3, <1>4, <1>5

LEMMA GroupsAre ==
  ASSUME NEW J
  PROVE  /\ \A s \in Sources : Group(J, s) \subseteq Sources /\ s \in Group(J, s)
         /\ \A j \in J : \A s \in j.mask :
              j.outer = {} /\ j.mask \subseteq Sources => j.mask \subseteq Group(J, s)
BY DEF Group

LEMMA IsResultIs ==
  ASSUME InnerOnly, NEW env \in [Sources -> Values \cup {Null}],
         rows \in [Sources -> Seq(Values)],
         \A j \in DOMAIN query.joins : query.joins[j].mask \subseteq Sources
  PROVE  IsResult(env) <=> (\A s \in Sources : env[s] \in Range(rows[s])) /\ Apart(env)
<1> DEFINE J == Range(query.joins)
           Part(s) == [t \in Group(J, s) |-> env[t]]
<1>1. \A s \in Sources : Above(J, s) = {}
  <2>1. \A j \in J : j.outer = {}
    BY DEF InnerOnly, Range
  <2> QED BY <2>1 DEF Above
<1>2. IsResult(env) <=>
        /\ \A s \in Sources : env[s] = Null \/ env[s] \in Range(rows[s])
        /\ \A s \in Sources : Part(s) \in {c \in RowsOf(Group(J, s)) : Holds(env, c)}
  <2> HIDE DEF J
  <2> QED BY <1>1 DEF IsResult, J
<1>3. /\ \A s \in Sources : Group(J, s) \subseteq Sources /\ s \in Group(J, s)
      /\ \A j \in DOMAIN query.joins : \A s \in query.joins[j].mask :
           query.joins[j].mask \subseteq Group(J, s)
  <2>1. \A j \in DOMAIN query.joins : query.joins[j] \in J /\ query.joins[j].outer = {}
    BY DEF InnerOnly, Range
  <2> HIDE DEF J
  <2> QED BY <2>1, GroupsAre
<1> HIDE DEF J
<1>4. \A s \in Sources :
        Holds(env, Part(s)) <=>
          \A j \in DOMAIN query.joins :
             query.joins[j].mask \subseteq Group(J, s) =>
               \A t, u \in query.joins[j].mask : t # u => env[t] # env[u]
  <2> SUFFICES ASSUME NEW s \in Sources
               PROVE  Holds(env, Part(s)) <=>
                        \A j \in DOMAIN query.joins :
                           query.joins[j].mask \subseteq Group(J, s) =>
                             \A t, u \in query.joins[j].mask : t # u => env[t] # env[u]
    OBVIOUS
  <2>1. PICK G, g : G = Group(J, s) /\ g = Part(s)
    OBVIOUS
  <2>2. G \in SUBSET Sources /\ g = [t \in G |-> env[t]]
    BY <1>3, <2>1
  <2>3. Holds(env, g) <=>
          \A j \in DOMAIN query.joins :
             query.joins[j].mask \subseteq G =>
               \A t, u \in query.joins[j].mask : t # u => env[t] # env[u]
    BY <2>2, HoldsIs
  <2> QED BY <2>1, <2>3
<1>5. ASSUME NEW s \in Sources
      PROVE  Part(s) \in RowsOf(Group(J, s)) <=>
               \A t \in Group(J, s) : env[t] \in Range(rows[t])
  <2>1. \A t \in Sources : Range(rows[t]) \subseteq Values
    <3> SUFFICES ASSUME NEW t \in Sources, NEW x \in DOMAIN rows[t] PROVE rows[t][x] \in Values
      BY DEF Range
    <3>1. rows[t] \in Seq(Values)
      OBVIOUS
    <3> QED BY <3>1
  <2>2. Part(s) \in RowsOf(Group(J, s)) <=>
          /\ Part(s) \in [Group(J, s) -> Values]
          /\ \A t \in Group(J, s) : Part(s)[t] \in Range(rows[t])
    <3> HIDE DEF Part
    <3> QED BY DEF RowsOf
  <2>3. \A t \in Group(J, s) : t \in Sources
    BY <1>3
  <2> QED BY <2>1, <2>2, <2>3
<1> HIDE DEF Part
<1>6. IsResult(env) => (\A s \in Sources : env[s] \in Range(rows[s])) /\ Apart(env)
  <2> SUFFICES ASSUME IsResult(env)
               PROVE  (\A s \in Sources : env[s] \in Range(rows[s])) /\ Apart(env)
    OBVIOUS
  <2>1. \A s \in Sources : Part(s) \in RowsOf(Group(J, s)) /\ Holds(env, Part(s))
    BY <1>2
  <2>2. \A s \in Sources : env[s] \in Range(rows[s])
    BY <1>3, <1>5, <2>1
  <2>3. ASSUME NEW j \in DOMAIN query.joins, NEW s \in query.joins[j].mask,
               NEW t \in query.joins[j].mask, s # t
        PROVE  env[s] # env[t]
    <3>1. s \in Sources /\ query.joins[j].mask \subseteq Group(J, s)
      BY <1>3
    <3> QED BY <1>4, <2>1, <2>3, <3>1
  <2> QED BY <2>2, <2>3 DEF Apart
<1>7. (\A s \in Sources : env[s] \in Range(rows[s])) /\ Apart(env) => IsResult(env)
  <2> SUFFICES ASSUME \A s \in Sources : env[s] \in Range(rows[s]), Apart(env)
               PROVE  IsResult(env)
    OBVIOUS
  <2>1. \A s \in Sources : Part(s) \in RowsOf(Group(J, s))
    BY <1>3, <1>5
  <2>2. \A s \in Sources : Holds(env, Part(s))
    BY <1>4 DEF Apart
  <2> QED BY <1>2, <2>1, <2>2
<1> QED BY <1>6, <1>7

\* The joins, the rows and the plan, which no step changes.
World == [joins |-> query.joins, rows |-> rows, plan |-> plan, n |-> N]

\* The joins have two sources, and the plan is that of inner joins.
Planned == InnerJoins(query.joins, Len(query.joins)) /\ Laid(World)

LEMMA ResultsAre ==
  ASSUME InnerOnly, Planned
  PROVE  Results = {Chosen(World, e) : e \in Fitting(World)}
<1> DEFINE w == World
<1>1. /\ w.joins = query.joins /\ w.rows = rows /\ w.plan = plan /\ w.n = N
  BY DEF World
<1> HIDE DEF w
<1>2. Laid(w)
  BY DEF Planned, w
<1>3. /\ N \in Nat /\ Len(query.joins) \in Nat /\ DOMAIN query.joins = 1..Len(query.joins)
      /\ \A s \in Sources : \E i \in 1..N : plan[i].id = s
      /\ \A i, k \in 1..N : plan[i].id = plan[k].id => i = k
      /\ \A i \in 1..N : plan[i].id \in Sources
      /\ \A i \in 1..N : plan[i].joins \subseteq DOMAIN query.joins
      /\ \A i \in 1..N : \A j \in plan[i].joins :
           \E k \in 1..(i - 1) : query.joins[j].mask = {plan[k].id, plan[i].id}
      /\ \A j \in DOMAIN query.joins : \E i \in 1..N : j \in plan[i].joins
  <2>1. InnerPlan(plan, N, query.joins, Len(query.joins))
    BY <1>1, <1>2 DEF Laid
  <2>2. Len(query.joins) \in Nat /\ DOMAIN query.joins = 1..Len(query.joins)
    BY DEF Planned, InnerJoins
  <2> QED BY ONLY <2>1, <2>2 DEF InnerPlan
<1>4. rows \in [Sources -> Seq(Values)]
  BY <1>1, <1>2 DEF Laid
<1>5. \A j \in DOMAIN query.joins : query.joins[j].mask \subseteq Sources
  BY <1>3 DEF Planned, InnerJoins
<1>6. \A k \in 1..N : RowsAt(w, k) = rows[plan[k].id] /\ RowsAt(w, k) \in Seq(Values)
  BY <1>1, <1>3, <1>4 DEF RowsAt
<1>7. \A k \in 1..N : \A e : Chosen(w, e)[plan[k].id] = rows[plan[k].id][e[k]]
  BY <1>1, <1>2, <1>6, SourceAt
<1>8. \A e, k : Fits(w, e, k) <=>
        \A j \in plan[k].joins, l \in 1..(k - 1) :
          plan[l].id \in query.joins[j].mask =>
            rows[plan[l].id][e[l]] # rows[plan[k].id][e[k]]
  BY <1>1 DEF Fits, RowsAt
<1>9. ASSUME NEW e \in Fitting(w)
      PROVE  Chosen(w, e) \in Results
  <2>1. \A k \in 1..N : e[k] \in 1..Len(rows[plan[k].id]) /\ Fits(w, e, k)
    BY <1>1, <1>6 DEF Fitting
  <2> DEFINE env == Chosen(w, e)
  <2>2. ASSUME NEW s \in Sources PROVE env[s] \in Range(rows[s]) /\ env[s] \in Values
    <3>1. PICK k \in 1..N : plan[k].id = s
      BY <1>3
    <3>2. env[s] = rows[s][e[k]] /\ e[k] \in 1..Len(rows[s]) /\ rows[s] \in Seq(Values)
      BY <1>4, <1>7, <2>1, <3>1
    <3> QED BY <3>2 DEF Range
  <2>3. env = [s \in Sources |-> env[s]]
    BY DEF Chosen
  <2> HIDE DEF env
  <2>4. env \in [Sources -> Values \cup {Null}]
    BY <2>2, <2>3
  <2>5. ASSUME NEW j \in DOMAIN query.joins, NEW s \in query.joins[j].mask,
               NEW t \in query.joins[j].mask, s # t
        PROVE  env[s] # env[t]
    <3>1. PICK i \in 1..N : j \in plan[i].joins
      BY <1>3
    <3>2. PICK k \in 1..(i - 1) : query.joins[j].mask = {plan[k].id, plan[i].id}
      BY <1>3, <3>1
    <3>3. k \in 1..N
      BY <1>3
    <3>4. rows[plan[k].id][e[k]] # rows[plan[i].id][e[i]]
      BY <1>8, <2>1, <3>1, <3>2
    <3>5. env[plan[k].id] # env[plan[i].id]
      BY <1>7, <3>3, <3>4 DEF env
    <3> QED BY <2>5, <3>2, <3>5
  <2>6. Apart(env)
    BY <2>5 DEF Apart
  <2>7. IsResult(env)
    BY <1>4, <1>5, <2>2, <2>4, <2>6, IsResultIs
  <2> QED BY <2>4, <2>7 DEF Results, env
<1>10. ASSUME NEW env \in Results
       PROVE  \E e \in Fitting(w) : env = Chosen(w, e)
  <2>1. env \in [Sources -> Values \cup {Null}] /\ IsResult(env)
    BY DEF Results
  <2>2. (\A s \in Sources : env[s] \in Range(rows[s])) /\ Apart(env)
    BY <1>4, <1>5, <2>1, IsResultIs
  <2> DEFINE Has(k, x) == x \in 1..Len(rows[plan[k].id]) /\ rows[plan[k].id][x] = env[plan[k].id]
             e == [k \in 1..N |-> CHOOSE x \in Nat : Has(k, x)]
  <2>3. ASSUME NEW k \in 1..N PROVE e[k] \in Nat /\ Has(k, e[k])
    <3>1. rows[plan[k].id] \in Seq(Values) /\ plan[k].id \in Sources
      BY <1>3, <1>4
    <3>2. \E x \in DOMAIN rows[plan[k].id] : rows[plan[k].id][x] = env[plan[k].id]
      BY <2>2, <3>1 DEF Range
    <3>3. \E x \in Nat : Has(k, x)
      BY <3>1, <3>2
    <3> HIDE DEF Has
    <3> QED BY <3>3
  <2>4. e \in [1..N -> Nat]
    <3>1. e = [k \in 1..N |-> e[k]]
      OBVIOUS
    <3> HIDE DEF e
    <3> QED BY <2>3, <3>1
  <2> HIDE DEF e
  <2>5. ASSUME NEW k \in 1..N PROVE Fits(w, e, k)
    <3> SUFFICES ASSUME NEW j \in plan[k].joins, NEW l \in 1..(k - 1),
                        plan[l].id \in query.joins[j].mask
                 PROVE  rows[plan[l].id][e[l]] # rows[plan[k].id][e[k]]
      BY <1>8
    <3>1. l \in 1..N /\ l # k /\ j \in DOMAIN query.joins
      BY <1>3
    <3>2. plan[l].id # plan[k].id /\ plan[k].id \in query.joins[j].mask
      BY <1>3, <3>1
    <3>3. env[plan[l].id] # env[plan[k].id]
      BY <2>2, <3>1, <3>2 DEF Apart
    <3> QED BY <2>3, <3>1, <3>3
  <2>6. e \in Fitting(w)
    BY <1>1, <1>6, <2>3, <2>4, <2>5 DEF Fitting
  <2>7. ASSUME NEW s \in Sources PROVE env[s] = Chosen(w, e)[s]
    <3>1. PICK k \in 1..N : plan[k].id = s
      BY <1>3
    <3> QED BY <1>7, <2>3, <3>1
  <2>8. Chosen(w, e) = [s \in Sources |-> Chosen(w, e)[s]] /\ env = [s \in Sources |-> env[s]]
    BY <2>1 DEF Chosen
  <2> QED BY <2>6, <2>7, <2>8
<1> QED BY <1>9, <1>10 DEF w

-----------------------------------------------------------------------------
(***************************************************************************)
(* The nested loop over inner joins: the first d sources of the plan have  *)
(* a row, and what was returned are the rows up to there.                  *)
(***************************************************************************)
Cursors(s) == [k \in DOMAIN s |-> s[k].pos]

Deep(n, s, d) ==
  \A k \in 1..n : IF k <= d THEN s[k].st = "started" ELSE s[k].st \in {"notstarted", "finished"}

\* The k-th source has a row, which fits those of the sources before it.
OnRow(w, s, k) ==
  /\ s[k].pos \in 1..Len(RowsAt(w, k)) /\ s[k].row = RowsAt(w, k)[s[k].pos]
  /\ Fits(w, Cursors(s), k)

Placed(w, s, d) == \A k \in 1..d : OnRow(w, s, k)

\* The d-th source was just started; the row of the d sources is not returned yet.
Fresh(d) == step = "loop" /\ at = d /\ src[d].pos = 0
Pending(d) == (step = "enter" /\ d < N /\ ended = "no") \/ (step = "back" /\ rval = 1)

Way(d) ==
  /\ step = "enter" => IF at = 0 THEN d \in {0, N} ELSE d \in {at - 1, N}
  /\ step = "loop" => d \in {at, N}
  /\ step = "back" => (rval = 0 /\ d = at) \/ (rval = 1 /\ d = N)
  /\ ended = "end" => d = 0

Listed(d) ==
  /\ out \in Seq([Sources -> Values]) /\ Once(out)
  /\ In(out) = IF Pending(d) THEN RowsBelow(World, Cursors(src), d)
                             ELSE RowsUpTo(World, Cursors(src), d)

Good(d) ==
  /\ d \in 0..N /\ Deep(N, src, d) /\ Way(d)
  /\ Placed(World, src, IF Fresh(d) THEN d - 1 ELSE d)
  /\ Listed(d)

-----------------------------------------------------------------------------
LEMMA PlannedIs ==
  ASSUME Planned
  PROVE  /\ World.joins = query.joins /\ World.rows = rows /\ World.plan = plan /\ World.n = N
         /\ Laid(World) /\ N \in Nat
         /\ \A i \in 1..N : plan[i].id \in Sources
         /\ \A i, k \in 1..N : plan[i].id = plan[k].id => i = k
         /\ \A s \in Sources : \E i \in 1..N : plan[i].id = s
         /\ \A i \in 1..N :
              /\ ~plan[i].canBeOuter
              /\ plan[i].dep \subseteq {plan[k].id : k \in 1..(i - 1)}
              /\ plan[i].rdep \subseteq {plan[k].id : k \in (i + 1)..N}
              /\ \A j \in plan[i].joins :
                   \E k \in 1..(i - 1) : query.joins[j].mask = {plan[k].id, plan[i].id}
         /\ \A k \in 1..N : RowsAt(World, k) = rows[plan[k].id] /\ RowsAt(World, k) \in Seq(Values)
<1>1. World.joins = query.joins /\ World.rows = rows /\ World.plan = plan /\ World.n = N
  BY DEF World
<1>2. Laid(World)
  BY DEF Planned
<1>3. InnerPlan(plan, N, query.joins, Len(query.joins))
  BY <1>1, <1>2 DEF Laid
<1>4. /\ N \in Nat
      /\ \A i \in 1..N : plan[i].id \in Sources
      /\ \A i, k \in 1..N : plan[i].id = plan[k].id => i = k
      /\ \A s \in Sources : \E i \in 1..N : plan[i].id = s
      /\ \A i \in 1..N :
           /\ ~plan[i].canBeOuter
           /\ plan[i].dep \subseteq {plan[k].id : k \in 1..(i - 1)}
           /\ plan[i].rdep \subseteq {plan[k].id : k \in (i + 1)..N}
           /\ \A j \in plan[i].joins :
                \E k \in 1..(i - 1) : query.joins[j].mask = {plan[k].id, plan[i].id}
  BY ONLY <1>3 DEF InnerPlan
<1>5. \A k \in 1..N : RowsAt(World, k) = rows[plan[k].id] /\ RowsAt(World, k) \in Seq(Values)
  <2>1. \A k \in 1..N : RowsAt(World, k) = rows[plan[k].id]
    BY <1>1 DEF RowsAt
  <2> QED BY <1>1, <1>2, <2>1, SourceAt
<1> QED BY <1>1, <1>2, <1>4, <1>5

LEMMA PlannedKept ==
  ASSUME Planned, Unchanged \/ UNCHANGED <<query, rows, plan>>
  PROVE  Planned' /\ World' = World /\ N' = N
<1>1. query' = query /\ rows' = rows /\ plan' = plan
  BY DEF Unchanged
<1>2. N' = N
  BY <1>1 DEF N
<1>3. World' = World
  BY <1>1, <1>2 DEF World
<1> QED BY <1>1, <1>2, <1>3 DEF Planned

LEMMA RowOfIs ==
  ASSUME Planned, NEW k \in 1..N
  PROVE  RowOf(plan[k].id) = src[k].row
<1>1. (CHOOSE i \in 1..N : plan[i].id = plan[k].id) = k
  <2> DEFINE c == CHOOSE i \in 1..N : plan[i].id = plan[k].id
  <2>1. c \in 1..N /\ plan[c].id = plan[k].id
    OBVIOUS
  <2> HIDE DEF c
  <2> QED BY <2>1, PlannedIs DEF c
<1> QED BY <1>1 DEF RowOf

\* Nothing that the first sources have to be there for is missing.
LEMMA StartedIs ==
  ASSUME Planned, NEW d \in 0..N, Deep(N, src, d)
  PROVE  /\ \A k \in 1..d : plan[k].id \in Started
         /\ \A i \in 1..N : i - 1 <= d => ~IsNull(i)
         /\ d = N => \A i \in 1..N : plan[i].rdep \subseteq Started
<1>1. N \in Nat /\ d \in Nat /\ d <= N
  BY PlannedIs
<1>2. ASSUME NEW k \in 1..d PROVE plan[k].id \in Started
  <2>1. k \in 1..N /\ k <= d
    BY <1>1
  <2> QED BY <2>1 DEF Deep, Started
<1>3. ASSUME NEW i \in 1..N, i - 1 <= d PROVE ~IsNull(i)
  <2>1. \A k \in 1..(i - 1) : k \in 1..d
    BY <1>1, <1>3
  <2>2. plan[i].dep \subseteq {plan[k].id : k \in 1..(i - 1)}
    BY PlannedIs
  <2> QED BY <1>2, <2>1, <2>2 DEF IsNull
<1>4. ASSUME d = N, NEW i \in 1..N PROVE plan[i].rdep \subseteq Started
  <2>1. \A k \in (i + 1)..N : k \in 1..d
    BY <1>1, <1>4
  <2>2. plan[i].rdep \subseteq {plan[k].id : k \in (i + 1)..N}
    BY PlannedIs
  <2> QED BY <1>2, <2>1, <2>2
<1> QED BY <1>2, <1>3, <1>4

LEMMA MatchesIs ==
  ASSUME Planned, src \in [1..N -> Source], NEW i \in 1..N, Placed(World, src, i - 1),
         NEW q, Same(q, Cursors(src), i - 1)
  PROVE  Matches(i, RowsAt(World, i)[q[i]]) <=> Fits(World, q, i)
<1> DEFINE v == RowsAt(World, i)[q[i]]
<1>1. /\ World.joins = query.joins /\ World.plan = plan /\ N \in Nat
      /\ \A k, l \in 1..N : plan[k].id = plan[l].id => k = l
      /\ \A j \in plan[i].joins :
           \E k \in 1..(i - 1) : query.joins[j].mask = {plan[k].id, plan[i].id}
  BY PlannedIs
<1>2. ASSUME NEW k \in 1..(i - 1)
      PROVE  k \in 1..N /\ k # i /\ RowOf(plan[k].id) = RowsAt(World, k)[q[k]]
  <2>1. k \in 1..N /\ k # i
    BY <1>1
  <2>2. Cursors(src)[k] = src[k].pos
    BY <2>1 DEF Cursors
  <2>3. q[k] = src[k].pos
    BY <2>2 DEF Same
  <2>4. src[k].row = RowsAt(World, k)[src[k].pos]
    BY DEF Placed, OnRow
  <2> QED BY <2>1, <2>3, <2>4, RowOfIs
<1>3. Matches(i, v) <=>
        \A j \in plan[i].joins : \A s \in query.joins[j].mask \ {plan[i].id} : RowOf(s) # v
  BY DEF Matches
<1>4. Fits(World, q, i) <=>
        \A j \in plan[i].joins, l \in 1..(i - 1) :
          plan[l].id \in query.joins[j].mask => RowsAt(World, l)[q[l]] # v
  BY <1>1 DEF Fits
<1> HIDE DEF v
<1>5. ASSUME NEW j \in plan[i].joins
      PROVE  (\A s \in query.joins[j].mask \ {plan[i].id} : RowOf(s) # v) <=>
             (\A l \in 1..(i - 1) :
                plan[l].id \in query.joins[j].mask => RowsAt(World, l)[q[l]] # v)
  <2>1. PICK k \in 1..(i - 1) : query.joins[j].mask = {plan[k].id, plan[i].id}
    BY <1>1
  <2>2. plan[k].id # plan[i].id
    BY <1>1, <1>2
  <2>3. query.joins[j].mask \ {plan[i].id} = {plan[k].id}
    BY <2>1, <2>2
  <2>4. \A l \in 1..(i - 1) : plan[l].id \in query.joins[j].mask <=> l = k
    BY <1>1, <1>2, <2>1
  <2> QED BY <1>2, <2>3, <2>4
<1> QED BY <1>3, <1>4, <1>5 DEF v

LEMMA NextRowLeast ==
  ASSUME Planned, src \in [1..N -> Source], NEW i \in 1..N, NEW x, x = NextRow(i)
  PROVE  /\ x # 0 => /\ x \in (src[i].pos + 1)..Len(RowsAt(World, i))
                     /\ Matches(i, RowsAt(World, i)[x])
         /\ \A y \in (src[i].pos + 1)..Len(RowsAt(World, i)) :
              Matches(i, RowsAt(World, i)[y]) => x # 0 /\ x <= y
<1> DEFINE r == RowsAt(World, i)
           ok == {k \in (src[i].pos + 1)..Len(r) : Matches(i, r[k])}
<1>1. r = rows[plan[i].id] /\ Len(r) \in Nat /\ src[i].pos \in Nat
  BY PlannedIs DEF Source
<1>2. x = IF ok = {} THEN 0 ELSE CHOOSE k \in ok : \A l \in ok : k <= l
  BY <1>1 DEF NextRow
<1> HIDE DEF r
<1>3. ok \in SUBSET (1..Len(r))
  BY <1>1
<1>4. ASSUME ok # {} PROVE x \in ok /\ \A l \in ok : x <= l
  <2> HIDE DEF ok
  <2>1. \E k \in ok : \A l \in ok : k <= l
    BY <1>1, <1>3, <1>4, LeastOf
  <2> QED BY <1>2, <1>4, <2>1
<1>5. x # 0 => x \in ok
  BY <1>2, <1>4
<1>6. ASSUME NEW y \in ok PROVE x # 0 /\ x <= y
  <2>1. x \in ok /\ x <= y
    BY <1>4, <1>6
  <2>2. x \in 1..Len(r)
    BY <1>3, <2>1
  <2> QED BY <1>1, <2>1, <2>2
<1> QED BY <1>5, <1>6 DEF r

\* Rows of the first sources that were left alone stay.
LEMMA PlacedStays ==
  ASSUME NEW w, NEW n \in Nat, NEW s, DOMAIN s = 1..n, NEW t, DOMAIN t = 1..n,
         NEW d \in 0..n, \A k \in 1..d : t[k].pos = s[k].pos /\ t[k].row = s[k].row
  PROVE  /\ Same(Cursors(s), Cursors(t), d)
         /\ Placed(w, s, d) => Placed(w, t, d)
<1>1. \A k \in 1..d : k \in 1..n /\ k \in Nat /\ k # 0
  OBVIOUS
<1>2. \A k \in 1..d : Cursors(s)[k] = Cursors(t)[k]
  BY <1>1 DEF Cursors
<1>3. ASSUME NEW k \in 1..d, OnRow(w, s, k) PROVE OnRow(w, t, k)
  <2>1. Same(Cursors(s), Cursors(t), k)
    <3>1. \A l \in 1..k : l \in 1..d
      BY <1>1
    <3> QED BY <1>2, <3>1 DEF Same
  <2>2. Fits(w, Cursors(t), k)
    BY <1>1, <1>3, <2>1, FitsAlike DEF OnRow
  <2> QED BY <1>3, <2>2 DEF OnRow
<1> QED BY <1>2, <1>3 DEF Same, Placed

-----------------------------------------------------------------------------
(***************************************************************************)
(* The steps of the walk.                                                  *)
(***************************************************************************)
LEMMA GoodIs ==
  ASSUME IInv, Planned, NEW d, Good(d)
  PROVE  /\ d \in 0..N /\ d \in Nat /\ N \in Nat \ {0} /\ d <= N
         /\ src \in [1..N -> Source] /\ DOMAIN src = 1..N
         /\ Cursors(src) \in [1..N -> Nat]
         /\ \A k \in 1..N : Cursors(src)[k] = src[k].pos
         /\ \A k \in 1..d : k \in 1..N /\ src[k].st = "started"
         /\ \A k \in (d + 1)..N : k \in 1..N /\ src[k].st \in {"notstarted", "finished"}
         /\ ~Fresh(d) => \A k \in 1..d : src[k].pos # 0
<1>1. N \in Nat \ {0} /\ src \in [1..N -> Source] /\ d \in 0..N
  BY DEF IInv, Types, Good
<1>2. DOMAIN src = 1..N /\ d \in Nat /\ d <= N
  BY <1>1
<1>3. \A k \in 1..N : Cursors(src)[k] = src[k].pos /\ src[k].pos \in Nat
  BY <1>1, <1>2 DEF Cursors, Source
<1>4. Cursors(src) \in [1..N -> Nat]
  <2>1. Cursors(src) = [k \in 1..N |-> Cursors(src)[k]]
    BY <1>2 DEF Cursors
  <2> QED BY <1>3, <2>1
<1>5. \A k \in 1..d : k \in 1..N /\ k <= d
  BY <1>1
<1>6. \A k \in (d + 1)..N : k \in 1..N /\ ~(k <= d)
  BY <1>1
<1>7. Deep(N, src, d)
  BY DEF Good
<1>8. \A k \in 1..d : src[k].st = "started"
  BY <1>5, <1>7 DEF Deep
<1>9. \A k \in (d + 1)..N : src[k].st \in {"notstarted", "finished"}
  BY <1>6, <1>7 DEF Deep
<1>10. ~Fresh(d) => \A k \in 1..d : src[k].pos # 0
  <2> SUFFICES ASSUME ~Fresh(d), NEW k \in 1..d PROVE src[k].pos # 0
    OBVIOUS
  <2>1. OnRow(World, src, k)
    BY DEF Good, Placed
  <2>2. Len(RowsAt(World, k)) \in Nat
    BY <1>5, PlannedIs
  <2> QED BY <2>1, <2>2 DEF OnRow
<1> QED BY <1>1, <1>2, <1>3, <1>4, <1>5, <1>6, <1>8, <1>9, <1>10

\* The loop goes on with the sources as they are.
LEMMA GoesOn ==
  ASSUME IInv, Planned, NEW d, Good(d), ~Fresh(d), Planned', World' = World, N' = N,
         src' = src, out' = out, Way(d)', Pending(d)' <=> Pending(d)
  PROVE  Good(d)'
<1>1. \A k \in 1..d : src[k].pos # 0
  BY GoodIs
<1>2. d \in 0..N /\ N \in Nat
  BY GoodIs
<1>3. d # 0 => ~Fresh(d)'
  <2>1. d # 0 => d \in 1..d
    BY <1>2
  <2> QED BY <1>1, <2>1 DEF Fresh
<1>4. Placed(World, src, d)
  BY DEF Good
<1>5. (Placed(World, src, IF Fresh(d) THEN d - 1 ELSE d))'
  <2>1. CASE d # 0
    BY <1>3, <1>4, <2>1
  <2>2. CASE d = 0
    BY <2>2 DEF Placed
  <2> QED BY <2>1, <2>2
<1>6. Listed(d)'
  <2>1. Listed(d)
    BY DEF Good
  <2>2. CASE Pending(d)
    BY <2>1, <2>2 DEF Listed
  <2>3. CASE ~Pending(d)
    BY <2>1, <2>3 DEF Listed
  <2> QED BY <2>2, <2>3
<1>7. Deep(N, src, d)'
  <2>1. Deep(N, src, d)
    BY DEF Good
  <2> QED BY <2>1
<1> QED BY <1>2, <1>5, <1>6, <1>7 DEF Good

LEMMA NextItemGood ==
  ASSUME IInv, Planned, NEW d, Good(d), NextItem
  PROVE  Good(d)'
<1>1. /\ at = 0 /\ ended = "no" /\ step = "enter" /\ at' = 1 /\ step' = "enter"
      /\ src' = src /\ out' = out /\ Unchanged /\ ended' = ended /\ rval' = rval
  BY DEF NextItem, GoOn, Unchanged
<1>2. Planned' /\ World' = World /\ N' = N
  BY <1>1, PlannedKept
<1>3. ~Fresh(d)
  BY <1>1 DEF Fresh
<1>4. Way(d)'
  BY <1>1, <1>2 DEF Good, Way
<1>5. Pending(d)' <=> Pending(d)
  BY <1>1, <1>2 DEF Pending
<1> QED BY <1>1, <1>2, <1>3, <1>4, <1>5, GoesOn

\* The joins of Good let no source be a null row.
LEMMA NothingIsNull ==
  ASSUME IInv, Planned, NEW d, Good(d), NEW i \in 1..N
  PROVE  ~EnterNull(i) /\ ~BackError(i) /\ ~BackUnfulfilled(i)
<1>1. d \in 0..N /\ N \in Nat
  BY GoodIs
<1>2. Deep(N, src, d) /\ Way(d)
  BY DEF Good
<1>3. ASSUME EnterNull(i) PROVE FALSE
  <2>1. step = "enter" /\ at = i /\ i # 0 /\ IsNull(i)
    BY <1>3 DEF EnterNull, At
  <2>2. i - 1 <= d
    BY <1>1, <1>2, <2>1 DEF Way
  <2> QED BY <1>1, <1>2, <2>1, <2>2, StartedIs
<1>4. ASSUME BackError(i) PROVE FALSE
  BY <1>2, <1>4 DEF BackError, At, Way
<1>5. ASSUME BackUnfulfilled(i) PROVE FALSE
  <2>1. step = "back" /\ rval = 1 /\ ~(plan[i].rdep \subseteq Started)
    BY <1>5 DEF BackUnfulfilled, At
  <2>2. d = N
    BY <1>2, <2>1 DEF Way
  <2> QED BY <1>1, <1>2, <2>1, <2>2, StartedIs
<1> QED BY <1>3, <1>4, <1>5

LEMMA EnterGood ==
  ASSUME IInv, Planned, NEW d, Good(d), NEW i \in 1..N, Enter(i)
  PROVE  \E c : Good(c)'
<1>1. /\ at = i /\ ended = "no" /\ step = "enter" /\ at' = i /\ step' = "loop"
      /\ out' = out /\ Unchanged /\ ended' = ended /\ rval' = rval /\ i # 0
  BY DEF Enter, At, GoOn, Unchanged, IInv, Asked
<1>2. Planned' /\ World' = World /\ N' = N
  BY <1>1, PlannedKept
<1>3. d \in 0..N /\ N \in Nat /\ ~Fresh(d) /\ d \in {i - 1, N} /\ DOMAIN src = 1..N
  <2>1. ~Fresh(d) /\ d \in {i - 1, N}
    BY <1>1 DEF Fresh, Good, Way
  <2> QED BY <2>1, GoodIs
<1>4. CASE d = N
  <2>1. i \in 1..d
    BY <1>4
  <2>2. src[i].st = "started"
    BY <2>1, GoodIs
  <2>3. src' = src
    BY <2>2 DEF Enter
  <2>4. Way(d)'
    BY <1>1, <1>2, <1>4 DEF Way
  <2>5. Pending(d)' <=> Pending(d)
    BY <1>1, <1>2, <1>3, <1>4 DEF Pending
  <2> QED BY <1>1, <1>2, <1>3, <2>3, <2>4, <2>5, GoesOn
<1>5. CASE d = i - 1 /\ d # N
  <2> DEFINE z == [NotStarted EXCEPT !.st = "started", !.open = TRUE]
  <2>1. src[i].st = "notstarted" /\ ~IsNull(i)
    <3>1. i \in (d + 1)..N
      BY <1>3, <1>5
    <3>2. src[i].st \in {"notstarted", "finished"}
      BY <3>1, GoodIs
    <3>3. src[i].st # "finished"
      BY <1>1 DEF IInv, OnPath
    <3>4. Deep(N, src, d)
      BY DEF Good
    <3> QED BY <1>3, <1>5, <3>2, <3>3, <3>4, StartedIs
  <2>2. src' = [src EXCEPT ![i] = z]
    BY <2>1 DEF Enter
  <2>3. z.st = "started" /\ z.pos = 0 /\ z.row = Null
    BY DEF NotStarted
  <2> HIDE DEF z
  <2>4. /\ DOMAIN src' = 1..N /\ src'[i] = z
        /\ \A k \in 1..N : k # i => src'[k] = src[k]
    BY <1>3, <2>2
  <2>5. /\ Same(Cursors(src), Cursors(src'), d)
        /\ Placed(World, src, d) => Placed(World, src', d)
    <3>1. \A k \in 1..d : k \in 1..N /\ k # i
      BY <1>3, <1>5
    <3>2. \A k \in 1..d : src'[k].pos = src[k].pos /\ src'[k].row = src[k].row
      BY <2>4, <3>1
    <3>3. PICK s, t : s = src /\ t = src'
      OBVIOUS
    <3> QED BY <1>3, <2>4, <3>2, <3>3, PlacedStays
  <2>6. Placed(World, src, d) /\ Deep(N, src, d)
    BY <1>3 DEF Good
  <2>7. Placed(World', src', i - 1)
    BY <1>2, <1>5, <2>5, <2>6
  <2>8. Fresh(i)'
    BY <1>1, <2>3, <2>4 DEF Fresh
  <2>9. Deep(N, src', i)
    BY <1>3, <1>5, <2>3, <2>4, <2>6 DEF Deep
  <2>10. Way(i)' /\ ~Pending(i)'
    BY <1>1, <1>2 DEF Way, Pending
  <2>11. Pending(d)
    BY <1>1, <1>3, <1>5 DEF Pending
  <2>12. RowsUpTo(World, Cursors(src'), i) = RowsBelow(World, Cursors(src), d)
    <3>1. PICK w, p, q : w = World /\ p = Cursors(src) /\ q = Cursors(src')
      OBVIOUS
    <3>2. Laid(w) /\ w.n = N
      BY <3>1, PlannedIs
    <3>3. p \in [1..N -> Nat]
      BY <3>1, GoodIs
    <3>4. q[i] = 0
      BY <2>3, <2>4, <3>1 DEF Cursors
    <3>5. q \in [1..N -> Nat]
      <4>1. \A k \in 1..N : q[k] = IF k = i THEN 0 ELSE p[k]
        BY <1>3, <2>4, <3>1, <3>4 DEF Cursors
      <4>2. q = [k \in 1..N |-> q[k]]
        BY <2>4, <3>1 DEF Cursors
      <4> QED BY <3>3, <4>1, <4>2
    <3>6. d \in Nat /\ d < w.n /\ d + 1 = i
      BY <1>3, <1>5, <3>2
    <3>7. Same(p, q, d)
      BY <2>5, <3>1
    <3>8. RowsUpTo(w, q, d + 1) = RowsBelow(w, p, d)
      BY <3>2, <3>3, <3>4, <3>5, <3>6, <3>7, RowsStarted
    <3> QED BY <3>1, <3>6, <3>8
  <2>13. Listed(i)'
    <3>1. Listed(d)
      BY DEF Good
    <3> QED BY <1>1, <1>2, <2>10, <2>11, <2>12, <3>1 DEF Listed
  <2>14. i \in 0..N'
    BY <1>2, <1>3
  <2>15. Good(i)'
    BY <1>2, <2>7, <2>8, <2>9, <2>10, <2>13, <2>14 DEF Good
  <2> QED BY <2>15
<1> QED BY <1>3, <1>4, <1>5

\* The loop takes a row only of the last source that has one.
LEMMA TakesIs ==
  ASSUME IInv, Planned, NEW d, Good(d), NEW i \in 1..N, Loop(i)
  PROVE  /\ d \in {i, N} /\ (Takes(i) <=> d = i) /\ src[i].st = "started"
<1>1. step = "loop" /\ at = i
  BY DEF Loop, At
<1>2. d \in {i, N} /\ N \in Nat /\ d \in 0..N
  <2>1. d \in {i, N}
    BY <1>1 DEF Good, Way
  <2> QED BY <2>1, GoodIs
<1>3. i \in 1..d
  BY <1>2
<1>4. src[i].st = "started"
  BY <1>3, GoodIs
<1>5. CASE d = i /\ i # N
  <2>1. i + 1 \in (d + 1)..N
    BY <1>2, <1>5
  <2>2. src[i + 1].st \in {"notstarted", "finished"}
    BY <2>1, GoodIs
  <2> QED BY <1>2, <1>4, <1>5, <2>2 DEF Takes
<1>6. CASE d # i
  <2>1. i + 1 \in 1..d /\ i # N
    BY <1>2, <1>6
  <2>2. src[i + 1].st = "started"
    BY <2>1, GoodIs
  <2> QED BY <1>2, <1>4, <1>6, <2>1, <2>2 DEF Takes
<1> QED BY <1>2, <1>4, <1>5, <1>6 DEF Takes

\* What the loop makes of a source of inner joins.
LEMMA TakenOfInner ==
  ASSUME IInv, Planned, NEW i \in 1..N, src[i].st = "started"
  PROVE  /\ NextRow(i) = 0 => Taken(i) = Finished(src[i])
         /\ NextRow(i) # 0 =>
              Taken(i) = [src[i] EXCEPT !.pos = NextRow(i), !.row = RowsAt(World, i)[NextRow(i)]]
<1> DEFINE k == NextRow(i)
           s == src[i]
           t == IF s.st # "started" THEN s
                ELSE IF k = 0 THEN Finished(s)
                ELSE [s EXCEPT !.pos = k, !.row = rows[plan[i].id][k]]
           u == IF t.st = "finished" /\ t.cnt = 0 /\ plan[i].canBeOuter
                THEN [t EXCEPT !.st = "outer"] ELSE t
<1>1. ~plan[i].canBeOuter /\ RowsAt(World, i) = rows[plan[i].id]
  BY PlannedIs
<1>2. s \in Source /\ Paired(s)
  BY DEF IInv, Types
<1>3. Taken(i) = IF u.st = "outer" /\ u.cnt >= 1 THEN [u EXCEPT !.st = "finished"] ELSE u
  BY DEF Taken
<1> HIDE DEF k
<1>4. u = t
  BY <1>1
<1>5. k = 0 => t = Finished(s)
  OBVIOUS
<1>6. k # 0 => t = [s EXCEPT !.pos = k, !.row = RowsAt(World, i)[k]] /\ t.st = "started"
  BY <1>1, <1>2 DEF Source
<1>7. t.st # "outer"
  BY <1>2, <1>5, <1>6, FinishedIs
<1> HIDE DEF t, u
<1>8. Taken(i) = t
  BY <1>3, <1>4, <1>7
<1> QED BY <1>5, <1>6, <1>8 DEF k

\* The places of the sources when the i-th goes on to x.
GoesTo(i, x) ==
  /\ DOMAIN src' = 1..N
  /\ \A k \in 1..N : src'[k].pos = IF k = i THEN x ELSE src[k].pos
  /\ \A k \in 1..(i - 1) : src'[k].row = src[k].row
  /\ src'[i].row = RowsAt(World, i)[x]

LEMMA RowTaken ==
  ASSUME IInv, Planned, NEW d, Good(d), d # 0, d \in {at, N}, step = "loop",
         NEW x, x = NextRow(d), x # 0, GoesTo(d, x)
  PROVE  /\ Placed(World, src', d)
         /\ RowsBelow(World, Cursors(src'), d) = RowsUpTo(World, Cursors(src), d)
<1> DEFINE p == Cursors(src)
           q == Cursors(src')
           w == World
<1>1. /\ d \in 1..N /\ N \in Nat /\ src \in [1..N -> Source] /\ DOMAIN src = 1..N
      /\ p \in [1..N -> Nat] /\ \A k \in 1..N : p[k] = src[k].pos
  BY GoodIs
<1>2. Laid(w) /\ w.n = N /\ w.plan = plan /\ w.joins = query.joins
      /\ \A k \in 1..N : RowsAt(w, k) \in Seq(Values)
  BY PlannedIs
<1>3. Placed(w, src, d - 1)
  <2>1. \A k \in 1..(d - 1) : k \in 1..d
    BY <1>1
  <2> QED BY <2>1 DEF Good, Placed
<1>4. /\ x \in (src[d].pos + 1)..Len(RowsAt(w, d))
      /\ Matches(d, RowsAt(w, d)[x])
      /\ \A y \in (src[d].pos + 1)..Len(RowsAt(w, d)) : Matches(d, RowsAt(w, d)[y]) => x <= y
  BY <1>1, NextRowLeast
<1>5. /\ DOMAIN src' = 1..N
      /\ \A k \in 1..N : q[k] = IF k = d THEN x ELSE p[k]
      /\ \A k \in 1..N : q[k] = src'[k].pos
      /\ q = [k \in 1..N |-> q[k]]
  BY <1>1 DEF GoesTo, Cursors
<1>6. x \in Nat /\ x > p[d] /\ p[d] \in Nat /\ x \in 1..Len(RowsAt(w, d)) /\ Len(RowsAt(w, d)) \in Nat
  BY <1>1, <1>2, <1>4
<1>7. q \in [1..N -> Nat] /\ q[d] = x
  BY <1>1, <1>5, <1>6
<1>8. Same(p, q, d - 1) /\ Same(q, p, d - 1) /\ Placed(w, src', d - 1)
  <2>1. \A k \in 1..(d - 1) : k \in 1..N /\ k # d
    BY <1>1
  <2>2. \A k \in 1..(d - 1) : src'[k].pos = src[k].pos /\ src'[k].row = src[k].row
    BY <2>1 DEF GoesTo
  <2>3. d - 1 \in 0..N
    BY <1>1
  <2>4. PICK s, t : s = src /\ t = src'
    OBVIOUS
  <2>5. Same(p, q, d - 1) /\ Placed(w, src', d - 1)
    BY <1>1, <1>3, <1>5, <2>2, <2>3, <2>4, PlacedStays
  <2> QED BY <2>5 DEF Same
<1> HIDE DEF p, q, w
<1>9. Fits(w, q, d)
  BY <1>1, <1>3, <1>4, <1>7, <1>8, MatchesIs DEF p, w
<1>10. OnRow(w, src', d)
  BY <1>1, <1>5, <1>6, <1>7, <1>9 DEF OnRow, GoesTo, q, w
<1>11. Placed(w, src', d)
  <2>1. \A k \in 1..d : k # d => k \in 1..(d - 1)
    BY <1>1
  <2> QED BY <1>8, <1>10, <2>1 DEF Placed
<1>12. ASSUME NEW e \in Fitting(w), Same(e, p, d - 1), p[d] < e[d]
       PROVE  q[d] <= e[d]
  <2>1. e[d] \in 1..Len(RowsAt(w, d)) /\ Fits(w, e, d)
    BY <1>1, <1>2 DEF Fitting
  <2>2. Matches(d, RowsAt(w, d)[e[d]])
    BY <1>1, <1>3, <1>12, <2>1, MatchesIs DEF p, w
  <2>3. e[d] \in (src[d].pos + 1)..Len(RowsAt(w, d))
    BY <1>1, <1>6, <1>12, <2>1
  <2> QED BY <1>4, <1>7, <2>2, <2>3
<1>13. RowsBelow(w, q, d) = RowsUpTo(w, p, d)
  BY <1>1, <1>2, <1>6, <1>7, <1>8, <1>12, RowsTaken
<1> QED BY <1>11, <1>13 DEF p, q, w

LEMMA RowsEnd ==
  ASSUME IInv, Planned, NEW d, Good(d), d # 0, d \in {at, N}, step = "loop", NextRow(d) = 0
  PROVE  RowsUpTo(World, Cursors(src), d) = RowsUpTo(World, Cursors(src), d - 1)
<1> DEFINE p == Cursors(src)
           w == World
<1>1. /\ d \in 1..N /\ N \in Nat /\ src \in [1..N -> Source]
      /\ p \in [1..N -> Nat] /\ \A k \in 1..N : p[k] = src[k].pos
  BY GoodIs
<1>2. Laid(w) /\ w.n = N /\ \A k \in 1..N : RowsAt(w, k) \in Seq(Values)
  BY PlannedIs
<1>3. Placed(w, src, d - 1)
  <2>1. \A k \in 1..(d - 1) : k \in 1..d
    BY <1>1
  <2> QED BY <2>1 DEF Good, Placed
<1>4. \A y \in (src[d].pos + 1)..Len(RowsAt(w, d)) : ~Matches(d, RowsAt(w, d)[y])
  BY <1>1, NextRowLeast
<1> HIDE DEF p, w
<1>5. ASSUME NEW e \in Fitting(w), Same(e, p, d - 1)
      PROVE  e[d] <= p[d]
  <2>1. e[d] \in 1..Len(RowsAt(w, d)) /\ Fits(w, e, d)
    BY <1>1, <1>2 DEF Fitting
  <2>2. Matches(d, RowsAt(w, d)[e[d]])
    BY <1>1, <1>3, <1>5, <2>1, MatchesIs DEF p, w
  <2>3. ~(e[d] \in (src[d].pos + 1)..Len(RowsAt(w, d)))
    BY <1>4, <2>2
  <2>4. Len(RowsAt(w, d)) \in Nat /\ src[d].pos = p[d] /\ p[d] \in Nat
    BY <1>1, <1>2
  <2> QED BY <2>1, <2>3, <2>4
<1> QED BY <1>1, <1>2, <1>5, RowsDone DEF p, w

LEMMA LoopGood ==
  ASSUME IInv, Planned, NEW d, Good(d), NEW i \in 1..N, Loop(i)
  PROVE  \E c : Good(c)'
<1> DEFINE s == IF Takes(i) THEN Taken(i) ELSE src[i]
           x == NextRow(i)
<1>1. step = "loop" /\ at = i /\ Unchanged /\ ended = "no" /\ ended' = "no" /\ out' = out /\ i # 0
  BY DEF Loop, At, IInv, Asked, Unchanged
<1>2. Planned' /\ World' = World /\ N' = N
  BY <1>1, PlannedKept
<1>3. /\ d \in {i, N} /\ d \in 0..N /\ N \in Nat /\ (Takes(i) <=> d = i) /\ src[i].st = "started"
      /\ DOMAIN src = 1..N /\ src[i] \in Source /\ Paired(src[i]) /\ d # 0
      /\ src \in [1..N -> Source]
  <2>1. d \in {i, N} /\ (Takes(i) <=> d = i) /\ src[i].st = "started"
    BY TakesIs
  <2>2. d \in 0..N /\ N \in Nat /\ DOMAIN src = 1..N /\ src \in [1..N -> Source]
    BY GoodIs
  <2> QED BY <2>1, <2>2 DEF IInv
<1>4. Listed(d) /\ Deep(N, src, d) /\ ~Pending(d)
  BY <1>1 DEF Good, Pending
<1>5. \/ /\ InLoop(s) /\ i < N
         /\ src' = [src EXCEPT ![i] = s,
                               ![i + 1] = IF Takes(i) THEN [@ EXCEPT !.st = "notstarted"] ELSE @]
         /\ GoOn(i + 1, "enter")
      \/ /\ InLoop(s) /\ i = N
         /\ src' = [src EXCEPT ![i] = [s EXCEPT !.cnt = s.cnt + 1]]
         /\ Return(1)
      \/ /\ ~InLoop(s)
         /\ src' = [src EXCEPT ![i] = s]
         /\ Return(0)
  BY DEF Loop
<1>6. CASE d = i /\ x # 0
  <2>1. s = [src[i] EXCEPT !.pos = x, !.row = RowsAt(World, i)[x]]
    BY <1>3, <1>6, TakenOfInner
  <2> HIDE DEF s, x
  <2>2. s.pos = x /\ s.row = RowsAt(World, i)[x] /\ s.st = "started" /\ InLoop(s)
    BY <1>3, <2>1 DEF Source, InLoop
  <2>3. /\ DOMAIN src' = 1..N /\ src'[i].pos = x /\ src'[i].row = s.row /\ src'[i].st = "started"
        /\ \A k \in 1..N : k # i => src'[k].pos = src[k].pos
        /\ \A k \in 1..N : k < i => src'[k] = src[k]
        /\ \A k \in 1..N : k > i => src'[k].st \in {"notstarted", "finished"}
        /\ (GoOn(i + 1, "enter") /\ i < N) \/ (Return(1) /\ i = N)
    <3>1. \A k \in 1..N : k > i => src[k].st \in {"notstarted", "finished"}
      BY <1>3, <1>4, <1>6 DEF Deep
    <3>2. CASE i < N
      <4> DEFINE z == [src[i + 1] EXCEPT !.st = "notstarted"]
      <4>1. src' = [[src EXCEPT ![i] = s] EXCEPT ![i + 1] = z] /\ GoOn(i + 1, "enter")
        BY <1>3, <1>5, <1>6, <2>2, <3>2
      <4>2. i + 1 \in 1..N /\ i + 1 # i /\ src[i + 1] \in Source
        BY <1>3, <3>2
      <4>3. z.pos = src[i + 1].pos /\ z.st = "notstarted"
        BY <4>2 DEF Source
      <4> HIDE DEF z
      <4>4. /\ DOMAIN src' = 1..N /\ src'[i] = s /\ src'[i + 1] = z
            /\ \A k \in 1..N : k # i /\ k # i + 1 => src'[k] = src[k]
        BY <1>3, <4>1, <4>2
      <4> QED BY <1>3, <2>2, <3>1, <3>2, <4>1, <4>2, <4>3, <4>4
    <3>3. CASE i = N
      <4> DEFINE z == [s EXCEPT !.cnt = s.cnt + 1]
      <4>1. src' = [src EXCEPT ![i] = z] /\ Return(1)
        BY <1>5, <2>2, <3>3
      <4>2. z.pos = x /\ z.row = s.row /\ z.st = "started"
        BY <2>1, <2>2
      <4> HIDE DEF z
      <4> QED BY <1>3, <3>3, <4>1, <4>2
    <3> QED BY <1>3, <3>2, <3>3
  <2>4. GoesTo(i, x)
    <3>1. \A k \in 1..(i - 1) : k \in 1..N /\ k < i
      BY <1>3
    <3> QED BY <2>2, <2>3, <3>1 DEF GoesTo
  <2>5. /\ Placed(World, src', i)
        /\ RowsBelow(World, Cursors(src'), i) = RowsUpTo(World, Cursors(src), i)
    BY <1>1, <1>3, <1>6, <2>4, RowTaken DEF x
  <2>6. Deep(N, src', i)
    <3>1. \A k \in 1..N : k < i => src'[k].st = "started"
      BY <1>3, <1>4, <1>6, <2>3 DEF Deep
    <3> QED BY <1>3, <2>3, <3>1 DEF Deep
  <2>7. Way(i)' /\ Pending(i)' /\ ~Fresh(i)'
    BY <1>1, <1>2, <1>3, <2>3 DEF Way, Pending, Fresh, GoOn, Return
  <2>8. Listed(i)'
    BY <1>1, <1>2, <1>4, <1>6, <2>5, <2>7 DEF Listed
  <2>9. Good(i)'
    BY <1>2, <1>3, <2>5, <2>6, <2>7, <2>8 DEF Good
  <2> QED BY <2>9
<1>7. CASE d = i /\ x = 0
  <2>1. s = Finished(src[i])
    BY <1>3, <1>7, TakenOfInner
  <2> HIDE DEF s
  <2>2. s.st = "finished" /\ ~InLoop(s)
    BY <1>3, <2>1, FinishedIs DEF InLoop
  <2>3. src' = [src EXCEPT ![i] = s] /\ Return(0)
    BY <1>5, <2>2
  <2>4. DOMAIN src' = 1..N /\ src'[i] = s /\ \A k \in 1..N : k # i => src'[k] = src[k]
    BY <1>3, <2>3
  <2>5. Deep(N, src', i - 1)
    BY <1>3, <1>4, <1>7, <2>2, <2>4 DEF Deep
  <2>6. Same(Cursors(src), Cursors(src'), i - 1) /\ Placed(World, src', i - 1)
    <3>1. Placed(World, src, i - 1)
      <4>1. \A k \in 1..(i - 1) : k \in 1..i
        BY <1>3
      <4> QED BY <1>7, <4>1 DEF Good, Placed
    <3>2. \A k \in 1..(i - 1) : src'[k].pos = src[k].pos /\ src'[k].row = src[k].row
      <4>1. \A k \in 1..(i - 1) : k \in 1..N /\ k # i
        BY <1>3
      <4> QED BY <2>4, <4>1
    <3>3. i - 1 \in 0..N
      BY <1>3
    <3>4. PICK a, b, w : a = src /\ b = src' /\ w = World
      OBVIOUS
    <3> QED BY <1>3, <2>4, <3>1, <3>2, <3>3, <3>4, PlacedStays
  <2>7. RowsUpTo(World, Cursors(src'), i - 1) = RowsUpTo(World, Cursors(src), i)
    <3>1. i - 1 \in Nat
      BY <1>3
    <3>2. PICK p, q, w : p = Cursors(src) /\ q = Cursors(src') /\ w = World
      OBVIOUS
    <3>3. RowsUpTo(w, p, i - 1) = RowsUpTo(w, q, i - 1)
      BY <2>6, <3>1, <3>2, RowsAlike
    <3> QED BY <1>1, <1>3, <1>7, <3>2, <3>3, RowsEnd
  <2>8. Way(i - 1)' /\ ~Pending(i - 1)' /\ ~Fresh(i - 1)'
    BY <1>1, <1>2, <1>3, <2>3 DEF Way, Pending, Fresh, Return
  <2>9. Listed(i - 1)'
    BY <1>1, <1>2, <1>4, <1>7, <2>7, <2>8 DEF Listed
  <2>10. Good(i - 1)'
    <3>1. i - 1 \in 0..N'
      BY <1>2, <1>3
    <3> QED BY <1>2, <2>5, <2>6, <2>8, <2>9, <3>1 DEF Good
  <2> QED BY <2>10
<1>8. CASE d # i
  <2>1. d = N /\ i # N /\ ~Takes(i) /\ i < N
    BY <1>3, <1>8
  <2>2. InLoop(s)
    BY <1>3, <2>1 DEF InLoop
  <2>3. src' = src /\ GoOn(i + 1, "enter")
    BY <1>3, <1>5, <2>1, <2>2
  <2>4. ~Fresh(d)
    BY <1>1, <2>1 DEF Fresh
  <2>5. Way(d)'
    BY <1>1, <1>2, <1>3, <2>1, <2>3 DEF Way, GoOn
  <2>6. Pending(d)' <=> Pending(d)
    BY <1>1, <1>2, <1>3, <2>1, <2>3 DEF Pending, GoOn
  <2>7. Good(d)'
    BY <1>1, <1>2, <2>3, <2>4, <2>5, <2>6, GoesOn
  <2> QED BY <2>7
<1> QED BY <1>6, <1>7, <1>8

LEMMA BackGood ==
  ASSUME IInv, Planned, NEW d, Good(d), NEW i \in 1..N, BackRow(i) \/ BackNone(i)
  PROVE  Good(d)'
<1>1. /\ step = "back" /\ at = i /\ Unchanged /\ ended = "no" /\ ended' = "no" /\ out' = out
      /\ i # 0
  BY DEF BackRow, BackNone, At, IInv, Asked, Unchanged
<1>2. Planned' /\ World' = World /\ N' = N
  BY <1>1, PlannedKept
<1>3. /\ d \in 0..N /\ N \in Nat /\ DOMAIN src = 1..N /\ src \in [1..N -> Source]
  BY GoodIs
<1>4. ~Fresh(d) /\ Listed(d) /\ Deep(N, src, d) /\ Placed(World, src, d) /\ Way(d)
  <2>1. ~Fresh(d)
    BY <1>1 DEF Fresh
  <2> QED BY <2>1 DEF Good
<1>5. CASE BackNone(i)
  <2>1. rval = 0 /\ d = i
    BY <1>1, <1>4, <1>5 DEF BackNone, Way
  <2>2. i \in 1..d
    BY <1>3, <2>1
  <2>3. src[i].st = "started"
    BY <2>2, GoodIs
  <2>4. GoOn(i, "loop") /\ src' = src
    BY <1>5, <2>3 DEF BackNone
  <2>5. Way(d)'
    BY <1>1, <1>2, <2>1, <2>4 DEF Way, GoOn
  <2>6. Pending(d)' <=> Pending(d)
    BY <1>1, <1>2, <2>1, <2>4 DEF Pending, GoOn
  <2> QED BY <1>1, <1>2, <1>4, <2>4, <2>5, <2>6, GoesOn
<1>6. CASE BackRow(i)
  <2> DEFINE z == [src[i] EXCEPT !.cnt = src[i].cnt + 1]
  <2>1. src' = [src EXCEPT ![i] = z] /\ Return(1) /\ rval = 1 /\ d = N
    BY <1>1, <1>4, <1>6 DEF BackRow, Way
  <2>2. z.st = src[i].st /\ z.pos = src[i].pos /\ z.row = src[i].row
    BY <1>3 DEF Source
  <2> HIDE DEF z
  <2>3. DOMAIN src' = 1..N /\ \A k \in 1..N : /\ src'[k].st = src[k].st
                                              /\ src'[k].pos = src[k].pos
                                              /\ src'[k].row = src[k].row
    BY <1>3, <2>1, <2>2
  <2>4. Cursors(src') = Cursors(src)
    BY <1>3, <2>3 DEF Cursors
  <2>5. Placed(World, src', d) /\ Deep(N, src', d)
    <3>1. \A k \in 1..d : k \in 1..N
      BY <1>3
    <3>2. Deep(N, src', d)
      BY <1>4, <2>3 DEF Deep
    <3>3. \A k \in 1..d : OnRow(World, src', k)
      BY <1>4, <2>3, <2>4, <3>1 DEF Placed, OnRow
    <3> QED BY <3>2, <3>3 DEF Placed
  <2>6. Way(d)' /\ Pending(d)' /\ ~Fresh(d)' /\ Pending(d)
    BY <1>1, <1>2, <2>1 DEF Way, Pending, Fresh, Return
  <2>7. Listed(d)'
    BY <1>1, <1>2, <1>4, <2>4, <2>6 DEF Listed
  <2> QED BY <1>2, <1>3, <2>5, <2>6, <2>7 DEF Good
<1> QED BY <1>5, <1>6

\* One row more is in the list.
LEMMA AppendIs ==
  ASSUME NEW S, NEW o \in Seq(S), Once(o), NEW x \in S, x \notin In(o)
  PROVE  /\ Append(o, x) \in Seq(S) /\ Once(Append(o, x))
         /\ In(Append(o, x)) = In(o) \cup {x}
<1>1. Append(o, x) \in Seq(S) /\ Once(Append(o, x))
  BY AskAppends
<1>2. /\ Len(o) \in Nat /\ DOMAIN o = 1..Len(o) /\ DOMAIN Append(o, x) = 1..(Len(o) + 1)
      /\ \A k \in 1..(Len(o) + 1) :
           Append(o, x)[k] = IF k = Len(o) + 1 THEN x ELSE o[k]
  OBVIOUS
<1>3. \A k \in 1..(Len(o) + 1) : k = Len(o) + 1 \/ k \in 1..Len(o)
  BY <1>2
<1>4. \A k \in 1..Len(o) : k \in 1..(Len(o) + 1) /\ k # Len(o) + 1
  BY <1>2
<1>5. Len(o) + 1 \in 1..(Len(o) + 1)
  BY <1>2
<1> QED BY <1>1, <1>2, <1>3, <1>4, <1>5 DEF In

LEMMA ReturnedGood ==
  ASSUME IInv, Planned, NEW d, Good(d), Returned
  PROVE  Good(d)'
<1> DEFINE p == Cursors(src)
           w == World
<1>1. /\ at = 0 /\ step = "back" /\ ended = "no" /\ at' = 0 /\ step' = "enter"
      /\ UNCHANGED <<query, rows, plan>>
  BY DEF Returned
<1>2. Planned' /\ World' = World /\ N' = N
  BY <1>1, PlannedKept
<1>3. /\ d \in 0..N /\ N \in Nat \ {0} /\ DOMAIN src = 1..N /\ src \in [1..N -> Source]
      /\ p \in [1..N -> Nat] /\ \A k \in 1..N : p[k] = src[k].pos
  BY GoodIs
<1>4. ~Fresh(d) /\ Listed(d) /\ Deep(N, src, d) /\ Placed(World, src, d) /\ Way(d)
  <2>1. ~Fresh(d)
    BY <1>1 DEF Fresh
  <2> QED BY <2>1 DEF Good
<1>5. (rval = 1 /\ d = N) \/ (rval = 0 /\ d = 0)
  BY <1>1, <1>4 DEF Way
<1>6. CASE rval = 0
  <2>1. d = 0 /\ ended' = "end" /\ out' = out
    BY <1>5, <1>6 DEF Returned
  <2>2. \A k \in 1..N : src[k].st # "started"
    BY <1>3, <1>4, <2>1 DEF Deep
  <2>3. src' = [i \in 1..N |-> src[i]]
    BY <1>6, <2>2 DEF Returned
  <2>4. src' = src
    BY <1>3, <2>3
  <2>5. Way(d)'
    BY <1>1, <1>2, <2>1 DEF Way
  <2>6. Pending(d)' <=> Pending(d)
    BY <1>1, <1>2, <1>6, <2>1 DEF Pending
  <2> QED BY <1>2, <1>4, <2>1, <2>4, <2>5, <2>6, GoesOn
<1>7. CASE rval = 1
  <2>1. d = N /\ ended' = "no" /\ src' = src /\ out' = Append(out, [s \in Sources |-> RowOf(s)])
    BY <1>5, <1>7 DEF Returned
  <2>2. /\ w.n = N /\ Laid(w) /\ w.rows = rows /\ w.plan = plan
        /\ \A s \in Sources : \E i \in 1..N : plan[i].id = s
        /\ \A k \in 1..N : RowsAt(w, k) \in Seq(Values) /\ plan[k].id \in Sources
    BY PlannedIs
  <2>3. \A k \in 1..N : /\ p[k] \in 1..Len(RowsAt(w, k)) /\ Fits(w, p, k)
                        /\ src[k].row = RowsAt(w, k)[p[k]]
    BY <1>3, <1>4, <2>1 DEF Placed, OnRow
  <2> HIDE DEF p, w
  <2>4. p \in Fitting(w)
    BY <1>3, <2>2, <2>3 DEF Fitting
  <2>5. ASSUME NEW s \in Sources PROVE RowOf(s) = Chosen(w, p)[s] /\ RowOf(s) \in Values
    <3>1. PICK k \in 1..N : plan[k].id = s
      BY <2>2
    <3>2. RowOf(s) = src[k].row
      BY <3>1, RowOfIs
    <3>3. Chosen(w, p)[s] = RowsAt(w, k)[p[k]]
      BY <2>2, <3>1, SourceAt
    <3>4. RowsAt(w, k)[p[k]] \in Values
      BY <2>2, <2>3
    <3> QED BY <2>3, <3>2, <3>3, <3>4
  <2>6. /\ [s \in Sources |-> RowOf(s)] = Chosen(w, p)
        /\ Chosen(w, p) \in [Sources -> Values]
    <3>1. Chosen(w, p) = [s \in Sources |-> Chosen(w, p)[s]]
      BY DEF Chosen
    <3> QED BY <2>5, <3>1
  <2>7. /\ RowsUpTo(w, p, N) = RowsBelow(w, p, N) \cup {Chosen(w, p)}
        /\ Chosen(w, p) \notin RowsBelow(w, p, N)
    BY <2>2, <2>4, RowsReturned
  <2>8. Pending(d) /\ ~Pending(d)'
    BY <1>1, <1>2, <1>3, <1>7, <2>1 DEF Pending
  <2>9. out \in Seq([Sources -> Values]) /\ Once(out) /\ In(out) = RowsBelow(w, p, N)
    BY <1>4, <2>1, <2>8 DEF Listed, p, w
  <2>10. /\ out' \in Seq([Sources -> Values]) /\ Once(out') /\ In(out') = RowsUpTo(w, p, N)
    <3>1. PICK o, x, S : o = out /\ x = Chosen(w, p) /\ S = [Sources -> Values]
      OBVIOUS
    <3>2. o \in Seq(S) /\ Once(o) /\ x \in S /\ x \notin In(o)
      BY <2>6, <2>7, <2>9, <3>1
    <3>3. /\ Append(o, x) \in Seq(S) /\ Once(Append(o, x))
          /\ In(Append(o, x)) = In(o) \cup {x}
      BY ONLY <3>2, AppendIs
    <3>4. out' = Append(o, x)
      BY <2>1, <2>6, <3>1
    <3> QED BY <2>7, <2>9, <3>1, <3>3, <3>4
  <2>11. Listed(d)'
    BY <1>2, <2>1, <2>8, <2>10 DEF Listed, p, w
  <2>12. Way(d)' /\ ~Fresh(d)'
    BY <1>1, <1>2, <2>1 DEF Way, Fresh
  <2>13. (Deep(N, src, d) /\ Placed(World, src, d))'
    BY <1>2, <1>4, <2>1
  <2> QED BY <1>2, <1>3, <2>11, <2>12, <2>13 DEF Good
<1> QED BY <1>5, <1>6, <1>7

-----------------------------------------------------------------------------
\* The joins of a query are a sequence, each of two sources.
LEMMA PairIs ==
  ASSUME NEW p, p \in Pairs
  PROVE  p \subseteq Sources /\ \E a, b \in Sources : a # b /\ p = {a, b}
<1>1. p \subseteq Sources /\ Cardinality(p) = 2
  BY DEF Pairs
<1>2. IsFiniteSet(p)
  BY <1>1, JoinAssumption, FS_Subset
<1>3. p # {}
  BY <1>1, <1>2, FS_EmptySet
<1>4. PICK a : a \in p
  BY <1>3
<1>5. IsFiniteSet(p \ {a}) /\ Cardinality(p \ {a}) = 1
  <2>1. IsFiniteSet(p \ {a}) /\ Cardinality(p \ {a}) = Cardinality(p) - 1
    BY <1>2, <1>4, FS_RemoveElement
  <2> QED BY <1>1, <2>1
<1>6. PICK b : p \ {a} = {b}
  BY <1>5, FS_Singleton
<1>7. p = {a, b} /\ a # b /\ a \in Sources /\ b \in Sources
  BY <1>1, <1>4, <1>6
<1> QED BY <1>1, <1>7

LEMMA JoinsOfQuery ==
  ASSUME NEW q \in Seq(Joins), \A j \in DOMAIN q : q[j].outer = {}
  PROVE  InnerJoins(q, Len(q))
<1>1. Len(q) \in Nat /\ DOMAIN q = 1..Len(q) /\ \A j \in 1..Len(q) : q[j] \in Joins
  OBVIOUS
<1>2. ASSUME NEW j \in 1..Len(q)
      PROVE  /\ q[j].mask \subseteq Sources
             /\ \E a, b \in Sources : a # b /\ q[j].mask = {a, b}
  <2>1. q[j].mask \in Pairs
    BY <1>1 DEF Joins
  <2> QED BY <2>1, PairIs
<1> QED BY <1>1, <1>2 DEF InnerJoins

LEMMA PlannedAtFirst ==
  ASSUME Init, InnerOnly
  PROVE  Planned
<1>1. query.joins \in Seq(Joins) /\ plan = Plan(query) /\ plan # <<>>
  BY CaseIs
<1>3. InnerJoins(query.joins, Len(query.joins))
  BY <1>1, JoinsOfQuery DEF InnerOnly
<1>5. InnerPlan(plan, N, query.joins, Len(query.joins))
  <2>1. PICK q, m : q = query /\ m = Len(query.joins)
    OBVIOUS
  <2>2. InnerJoins(q.joins, m) /\ Plan(q) # <<>>
    BY <1>1, <1>3, <2>1
  <2>3. InnerPlan(Plan(q), Len(Plan(q)), q.joins, m)
    BY ONLY <2>2, PlanOfInner
  <2> QED BY <1>1, <2>1, <2>3 DEF N
<1>6. rows \in [Sources -> Seq(Values)] /\ \A s \in Sources : Once(rows[s])
  BY CaseIs
<1>7. World.plan = plan /\ World.n = N /\ World.joins = query.joins /\ World.rows = rows
  BY DEF World
<1>8. Laid(World)
  BY <1>5, <1>6, <1>7 DEF Laid
<1> QED BY <1>3, <1>8 DEF Planned

LEMMA GoodAtFirst ==
  ASSUME Init, Planned
  PROVE  Good(0)
<1>1. /\ src = [i \in 1..N |-> NotStarted] /\ at = 0 /\ step = "enter" /\ rval = 1
      /\ out = <<>> /\ ended = "no"
  BY DEF Init, N
<1>2. N \in Nat \ {0}
  BY InitHolds DEF IInv, Types
<1>3. Deep(N, src, 0)
  BY <1>1 DEF Deep, NotStarted
<1>4. Way(0) /\ Pending(0) /\ ~Fresh(0)
  BY <1>1, <1>2 DEF Way, Pending, Fresh
<1>5. Placed(World, src, 0)
  BY DEF Placed
<1>6. Listed(0)
  <2>1. RowsBelow(World, Cursors(src), 0) = {}
    <3>1. PICK w, p : w = World /\ p = Cursors(src)
      OBVIOUS
    <3>2. RowsBelow(w, p, 0) = {}
      BY RowsAtEnds
    <3> QED BY <3>1, <3>2
  <2>2. In(<<>>) = {} /\ Once(<<>>)
    BY DEF In, Once
  <2>3. <<>> \in Seq([Sources -> Values])
    OBVIOUS
  <2>4. In(out) = RowsBelow(World, Cursors(src), 0) /\ Once(out)
    BY <1>1, <2>1, <2>2
  <2>5. out \in Seq([Sources -> Values])
    BY <1>1, <2>3
  <2> QED BY <1>4, <2>4, <2>5 DEF Listed
<1> QED BY <1>2, <1>3, <1>4, <1>5, <1>6 DEF Good

\* Unless a driver has failed or the caller has given up, the walk is on its way.
Walks == InnerOnly => Planned /\ (~failed /\ ended # "cancel" => \E d : Good(d))

LEMMA WalkStarts ==
  ASSUME Init
  PROVE  Walks
BY PlannedAtFirst, GoodAtFirst DEF Walks

LEMMA WalkSteps ==
  ASSUME IInv, Walks, [Next]_vars
  PROVE  Walks'
<1>1. query' = query /\ rows' = rows /\ plan' = plan
  BY DEF Next, NextItem, Returned, Cancel, Step, EnterNull, Enter, StartFails, Loop,
         BackError, BackUnfulfilled, BackRow, BackNone, Unchanged, vars
<1>2. InnerOnly' <=> InnerOnly
  BY <1>1 DEF InnerOnly
<1>3. SUFFICES ASSUME InnerOnly PROVE Walks'
  BY <1>2 DEF Walks
<1>4. Planned /\ Planned'
  BY <1>1, <1>3, PlannedKept DEF Walks
<1>5. SUFFICES ASSUME ~failed', ended' # "cancel" PROVE \E d : Good(d)'
  BY <1>4 DEF Walks
<1>6. CASE UNCHANGED vars
  <2>1. PICK d : Good(d)
    BY <1>3, <1>5, <1>6 DEF Walks, vars
  <2>2. N' = N /\ World' = World
    BY <1>4, <1>6, PlannedKept DEF vars
  <2>3. src' = src /\ at' = at /\ step' = step /\ rval' = rval /\ out' = out /\ ended' = ended
    BY <1>6 DEF vars
  <2>4. Good(d)'
    BY <2>1, <2>2, <2>3 DEF Good, Way, Fresh, Pending, Listed
  <2> QED BY <2>4
<1>7. CASE NextItem \/ Returned
  <2>1. ~failed /\ ended = "no"
    BY <1>5, <1>7 DEF NextItem, Returned
  <2>2. PICK d : Good(d)
    BY <1>3, <2>1 DEF Walks
  <2>3. Good(d)'
    BY <1>4, <1>7, <2>2, NextItemGood, ReturnedGood
  <2> QED BY <2>3
<1>8. CASE Cancel
  BY <1>5, <1>8 DEF Cancel
<1>9. ASSUME NEW i \in 1..N, Step(i) PROVE \E d : Good(d)'
  <2>1. ~StartFails(i)
    BY <1>5 DEF StartFails
  <2>2. ~failed /\ ended = "no"
    <3>1. ~failed
      BY <1>5, <1>9, <2>1 DEF Step, EnterNull, Enter, Loop, BackError, BackUnfulfilled,
                              BackRow, BackNone
    <3>2. at = i /\ i # 0
      BY <1>9 DEF Step, EnterNull, Enter, StartFails, Loop, BackError, BackUnfulfilled,
                  BackRow, BackNone, At
    <3> QED BY <3>1, <3>2 DEF IInv, Asked
  <2>3. PICK d : Good(d)
    BY <1>3, <2>2 DEF Walks
  <2>4. ~EnterNull(i) /\ ~BackError(i) /\ ~BackUnfulfilled(i)
    BY <1>4, <2>3, NothingIsNull
  <2>5. CASE Enter(i)
    BY <1>4, <2>3, <2>5, EnterGood
  <2>6. CASE Loop(i)
    BY <1>4, <2>3, <2>6, LoopGood
  <2>7. CASE BackRow(i) \/ BackNone(i)
    <3>1. Good(d)'
      BY <1>4, <2>3, <2>7, BackGood
    <3> QED BY <3>1
  <2> QED BY <1>9, <2>1, <2>4, <2>5, <2>6, <2>7 DEF Step
<1> QED BY <1>6, <1>7, <1>8, <1>9 DEF Next

LEMMA WalkIs == Spec => []Walks
<1>1. Init => Walks
  BY WalkStarts
<1>2. IInv /\ Walks /\ [Next]_vars => Walks'
  BY WalkSteps
<1> QED BY <1>1, <1>2, Invariance, PTL DEF Spec

LEMMA WalkIsEnough ==
  ASSUME IInv, Walks, InnerOnly, ended = "end", ~failed
  PROVE  Joined
<1>1. PICK d : Good(d)
  BY DEF Walks
<1>2. Planned
  BY DEF Walks
<1>3. d = 0 /\ Listed(d) /\ ~Pending(d)
  <2>1. step = "enter" /\ d = 0 /\ Listed(d)
    BY <1>1 DEF Good, Way, IInv, Asked
  <2> QED BY <2>1 DEF Pending
<1>4. In(out) = Results
  <2>1. In(out) = RowsUpTo(World, Cursors(src), 0)
    BY <1>3 DEF Listed
  <2>2. PICK w, p : w = World /\ p = Cursors(src)
    OBVIOUS
  <2>3. RowsUpTo(w, p, 0) = {Chosen(w, e) : e \in Fitting(w)}
    BY RowsAtEnds
  <2>4. Results = {Chosen(World, e) : e \in Fitting(World)}
    BY <1>2, ResultsAre
  <2> QED BY <2>1, <2>2, <2>3, <2>4
<1>5. Range(out) = Results
  BY <1>4 DEF In, Range
<1>6. out \in Seq([Sources -> Values]) /\ Once(out)
  BY <1>3 DEF Listed
<1>7. Len(out) \in Nat /\ DOMAIN out = 1..Len(out)
  BY <1>6
<1>8. out \in Bijection(1..Len(out), Results)
  <2>1. \A t \in Results : \E s \in 1..Len(out) : out[s] = t
    BY <1>4, <1>7 DEF In
  <2>2. out = [k \in 1..Len(out) |-> out[k]] /\ \A k \in 1..Len(out) : out[k] \in Results
    BY <1>4, <1>6, <1>7 DEF In
  <2>3. out \in [1..Len(out) -> Results]
    BY <2>2
  <2>4. IsInjective(out)
    BY <1>6 DEF Once, IsInjective
  <2> HIDE DEF Results
  <2> QED BY <2>1, <2>3, <2>4 DEF Bijection, Injection, Surjection
<1>9. IsFiniteSet(1..Len(out)) /\ Cardinality(1..Len(out)) = Len(out)
  <2>1. PICK m : m = Len(out)
    OBVIOUS
  <2>2. m \in Nat
    BY <1>7, <2>1
  <2>3. IsFiniteSet(1..m) /\ Cardinality(1..m) = m
    BY <2>2, FS_Interval
  <2> QED BY <2>1, <2>3
<1>10. Cardinality(Results) = Len(out)
  <2>1. ExistsBijection(1..Len(out), Results)
    BY <1>8 DEF ExistsBijection
  <2> QED BY <1>9, <2>1, FS_Bijection
<1> QED BY <1>5, <1>10 DEF Joined

(* The rows the nested loop returns are those the joins mean, each once, in
   whatever order mqjAnalyze has put the sources: ResultIsJoin of MqJoin for the
   queries of inner joins, with any sources, rows and number of joins, and no kind
   of them left out. *)
THEOREM InnerResultIsJoin ==
  Spec => []((\A j \in DOMAIN query.joins : query.joins[j].outer = {}) =>
               ResultIsJoin /\ (ended = "end" /\ ~failed => Joined))
<1>1. IInv /\ Walks =>
        ((\A j \in DOMAIN query.joins : query.joins[j].outer = {}) =>
           ResultIsJoin /\ (ended = "end" /\ ~failed => Joined))
  BY WalkIsEnough DEF ResultIsJoin, InnerOnly
<1> QED BY <1>1, Invariance, WalkIs, PTL
=============================================================================
