-------------------------- MODULE NhtSession_proofs --------------------------
(***************************************************************************)
(* For any number of connections and sessions: the link count of a session *)
(* is exact and bounded, a session is alive while someone has it, and a    *)
(* timer is removed, reset and freed by whom it belongs to.                *)
(***************************************************************************)
EXTENDS NhtSession, Lines_proofs, FiniteSetTheorems

Session == [state : {"unused", "live", "freed"}, cnt : Int,
            closed : BOOLEAN, cookie : BOOLEAN,
            w : Handles \cup {None}, i : Handles \cup {None}]

TimerRef == (Timers \cup {None}) \X (Handles \cup {None})
TimerOf == Timers \X Handles

Local == [pc : Labels, own : Sessions \cup {None},
          w_timer : Handles \cup {None}, i_timer : Handles \cup {None},
          at : Sessions \cup {None}, ret : Labels, work : TimerRef, then : Labels, fired : TimerRef,
          search : Sessions \cup {None}, before : Nat]

Types ==
  /\ sess \in [Sessions -> Session]
  /\ listed \in Seq(Sessions)
  /\ timer \in [Timers -> Handles \cup {None}]
  /\ handle \in [Handles -> Timers \cup {None}]
  /\ list \subseteq Timers
  /\ mutex \in Seq(Threads)
  /\ me \in [Threads -> Local]

Owning == {"adding", "added", "addi", "linked", "linkedw", "resetting", "held",
           "done", "all", "alldone"}
Retiring == {"retire", "rmw", "rmi", "removing", "rmfree", "delisted", "unlink", "close"}
InLine == {"adding", "removing", "resetting", "pick"}

Placed(r) ==
  /\ r.pc \in Owning => r.own # None /\ r.at = None
  /\ r.pc \in {"idle", "create", "scan", "pick", "fire", "wfree"} => r.own = None /\ r.at = None
  /\ r.pc \in Retiring =>
       /\ r.at # None
       /\ \/ r.own = None /\ r.ret \in {"idle", "create", "wfree"}
          \/ r.own # None /\ r.ret \in {"done", "alldone"}
       /\ r.ret = "wfree" => r.fired # NoTimer
  /\ r.pc \in {"fire", "wfree"} => r.fired # NoTimer
  /\ r.fired # NoTimer => r.fired \in TimerOf
  /\ r.pc \in {"adding", "added", "resetting", "removing", "rmfree"} => r.work \in TimerOf
  /\ r.pc \in {"adding", "added"} => r.work[2][1] = r.own
  /\ r.pc \in {"removing", "rmfree"} => r.then \in {"rmi", "delisted"}
  /\ r.pc = "resetting" => r.then \in {"linkedw", "held"}

Known ==
  /\ \A t \in Threads : me[t].at # None => sess[me[t].at].state # "unused"
  /\ \A t \in Threads : me[t].fired # NoTimer => sess[me[t].fired[2][1]].state # "unused"
  /\ \A a \in Timers : timer[a] # None => sess[timer[a][1]].state # "unused"

Published == Once(listed) /\ \A s \in In(listed) : sess[s].state = "live" /\ ~sess[s].closed

Closing ==
  /\ \A t \in Threads : me[t].pc = "close" =>
       /\ sess[me[t].at].state = "live" /\ sess[me[t].at].cnt = 0 /\ sess[me[t].at].closed
  /\ \A t, u \in Threads : me[t].pc = "close" /\ me[u].pc = "close" /\ me[t].at = me[u].at => t = u

RefInv == (\A t \in Threads : Placed(me[t])) /\ Known /\ Published /\ Closing /\ LinkCount /\ HeldAlive

Lined == Once(mutex) /\ In(mutex) = {t \in Threads : me[t].pc \in InLine}

\* The timers a thread with the variables r has to itself: one it adds or is
\* about to free, and the one it fires.
Work(r) == r.pc \in {"adding", "rmfree"}
Fires(r) == r.fired # NoTimer
Has(r, a) == (Work(r) /\ r.work[1] = a) \/ (Fires(r) /\ r.fired[1] = a)

\* f is allocated under its handle, and not in the list.
Taken(f, timer_, list_) == timer_[f[1]] = f[2] /\ f[1] \notin list_

Timed ==
  /\ \A a \in Timers, h \in Handles : timer[a] = h <=> handle[h] = a
  /\ \A a \in list : timer[a] # None
  /\ \A t \in Threads : Work(me[t]) => Taken(me[t].work, timer, list)
  /\ \A t \in Threads : Fires(me[t]) => Taken(me[t].fired, timer, list)
  /\ \A t, u \in Threads, a \in Timers : Has(me[t], a) /\ Has(me[u], a) => t = u
  /\ \A t \in Threads : Work(me[t]) /\ Fires(me[t]) => me[t].work[1] # me[t].fired[1]

Fresh == \A s \in Sessions : sess[s].state = "unused" =>
            handle[<<s, "w">>] = None /\ handle[<<s, "i">>] = None

Creating(r) == r.pc = "addi" \/ (r.pc \in {"adding", "added"} /\ r.work[2][2] = "w")

Creators ==
  /\ \A t \in Threads : Creating(me[t]) => handle[<<me[t].own, "i">>] = None
  /\ \A t, u \in Threads : Creating(me[t]) /\ Creating(me[u]) /\ me[t].own = me[u].own => t = u

Behind ==
  \A t \in Threads : me[t].pc \in {"removing", "resetting"} =>
    \/ timer[me[t].work[1]] = me[t].work[2]
    \/ /\ me[t].work[1] \notin list
       /\ \A u \in Threads : me[u].pc = "adding" /\ me[u].work[1] = me[t].work[1]
                               => Before(mutex, t, u)

TimerInv == Lined /\ Timed /\ Fresh /\ Creators /\ Behind

IInv == Types /\ RefInv /\ TimerInv

-----------------------------------------------------------------------------
(***************************************************************************)
(* Thread t goes on with other variables.                                  *)
(***************************************************************************)
LEMMA Updated ==
  ASSUME Types, NEW t \in Threads, NEW r \in Local, me' = [me EXCEPT ![t] = r]
  PROVE  me' \in [Threads -> Local] /\ me'[t] = r /\ \A u \in Threads : u # t => me'[u] = me[u]
BY DEF Types

(***************************************************************************)
(* Thread and session are not None, nor is a handle or a timer.            *)
(***************************************************************************)
LEMMA NotNone ==
  /\ None \notin Threads /\ None \notin Sessions /\ None \notin Timers /\ None \notin Handles
  /\ NoTimer \notin TimerOf /\ NoTimer \in TimerRef /\ IsFiniteSet(Threads)
<1>1. None \notin Threads /\ None \notin Sessions /\ None \notin Timers /\ None \notin Handles
  BY NhtAssumption DEF Threads, Handles
<1>2. IsFiniteSet(Threads)
  BY NhtAssumption, FS_Singleton, FS_Union DEF Threads
<1>3. NoTimer \notin TimerOf /\ NoTimer \in TimerRef
  BY <1>1 DEF NoTimer, TimerOf, TimerRef
<1> QED BY <1>1, <1>2, <1>3

(***************************************************************************)
(* A handle is of a session, and is one of its two.                        *)
(***************************************************************************)
LEMMA HandleIs ==
  /\ \A h \in Handles : h[1] \in Sessions /\ h[2] \in {"w", "i"} /\ h = <<h[1], h[2]>>
  /\ \A s \in Sessions, x \in {"w", "i"} : <<s, x>> \in Handles
  /\ \A f \in TimerOf : f[1] \in Timers /\ f[2] \in Handles /\ f = <<f[1], f[2]>>
  /\ \A a \in Timers, h \in Handles : <<a, h>> \in TimerOf /\ <<a, h>> \in TimerRef
BY DEF Handles, TimerOf, TimerRef

-----------------------------------------------------------------------------
(***************************************************************************)
(* The references of sessions.                                             *)
(***************************************************************************)
Owners(s) == {u \in Threads : me[u].own = s}
Releasers(s) == {u \in Threads : Releasing(u, s)}
Refs(r) == r.pc \in {"rmw", "rmi", "removing", "rmfree", "delisted", "unlink"}

LEMMA Finite == \A s : IsFiniteSet(Owners(s)) /\ IsFiniteSet(Releasers(s))
BY NotNone, FS_Subset DEF Owners, Releasers

LEMMA CountIs ==
  LinkCount <=>
    \A s \in Sessions : sess[s].state = "live" =>
      sess[s].cnt = Cardinality(Owners(s)) + Cardinality(Releasers(s))
                    + (IF sess[s].closed THEN 0 ELSE 1)
BY DEF LinkCount, Owners, Releasers

LEMMA CountNext ==
  ASSUME \A s \in Sessions : sess'[s].state = "live" =>
           sess'[s].cnt = Cardinality(Owners(s)') + Cardinality(Releasers(s)')
                          + (IF sess'[s].closed THEN 0 ELSE 1)
  PROVE  LinkCount'
BY DEF LinkCount, Owners, Releasers

(***************************************************************************)
(* No reference changes hands.                                             *)
(***************************************************************************)
LEMMA SameRefs ==
  ASSUME Types, NEW t \in Threads, NEW r \in Local, me' = [me EXCEPT ![t] = r],
         r.own = me[t].own, Refs(r) <=> Refs(me[t]), Refs(r) => r.at = me[t].at
  PROVE  /\ \A s : Owners(s)' = Owners(s) /\ Releasers(s)' = Releasers(s)
         /\ \A u \in Threads, s \in Sessions :
              (me'[u].own = s \/ Releasing(u, s)') <=> (me[u].own = s \/ Releasing(u, s))
<1>1. me'[t] = r /\ \A u \in Threads : u # t => me'[u] = me[u]
  BY Updated
<1>2. \A u \in Threads : \A s : Releasing(u, s)' <=> Releasing(u, s)
  BY <1>1 DEF Releasing, Refs
<1>3. \A u \in Threads : me'[u].own = me[u].own
  BY <1>1
<1>4. \A s : Owners(s)' = Owners(s)
  BY <1>3 DEF Owners
<1>5. \A s : Releasers(s)' = Releasers(s)
  BY <1>2 DEF Releasers
<1> QED BY <1>2, <1>3, <1>4, <1>5

(***************************************************************************)
(* A step that moves no reference and publishes nothing.                   *)
(***************************************************************************)
LEMMA QuietRefs ==
  ASSUME Types, RefInv, NEW t \in Threads, NEW r \in Local, me' = [me EXCEPT ![t] = r], Placed(r),
         r.own = me[t].own, Refs(r) <=> Refs(me[t]), Refs(r) => r.at = me[t].at, r.pc # "close",
         r.at # None => sess[r.at].state # "unused",
         r.fired # NoTimer => sess[r.fired[2][1]].state # "unused",
         \A s \in Sessions : /\ sess'[s].state = sess[s].state /\ sess'[s].cnt = sess[s].cnt
                             /\ sess'[s].closed = sess[s].closed,
         \A a \in Timers : timer'[a] # None =>
            timer'[a] \in Handles /\ sess[timer'[a][1]].state # "unused",
         listed' = listed
  PROVE  RefInv'
<1>1. me' \in [Threads -> Local] /\ me'[t] = r /\ \A u \in Threads : u # t => me'[u] = me[u]
  BY Updated
<1>2. \A u \in Threads : Placed(me[u])'
  BY <1>1 DEF RefInv, Placed
<1>3. Known'
  <2>1. ASSUME NEW u \in Threads, me'[u].at # None PROVE sess'[me'[u].at].state # "unused"
    <3>1. me'[u].at \in Sessions /\ sess[me'[u].at].state # "unused"
      BY <1>1, <2>1 DEF RefInv, Known, Local
    <3> QED BY <3>1
  <2>2. ASSUME NEW u \in Threads, me'[u].fired # NoTimer
        PROVE  sess'[me'[u].fired[2][1]].state # "unused"
    <3>1. me'[u].fired \in TimerOf
      BY <1>1, <2>2 DEF RefInv, Placed
    <3>2. me'[u].fired[2][1] \in Sessions
      BY <3>1, HandleIs
    <3>3. sess[me'[u].fired[2][1]].state # "unused"
      BY <1>1, <2>2 DEF RefInv, Known
    <3> QED BY <3>2, <3>3
  <2>3. \A a \in Timers : timer'[a] # None => sess'[timer'[a][1]].state # "unused"
    BY HandleIs
  <2> QED BY <2>1, <2>2, <2>3 DEF Known
<1>4. Published'
  BY DEF RefInv, Published, Types, In
<1>5. Closing'
  <2>1. \A u \in Threads : me'[u].pc = "close" => u # t /\ me'[u] = me[u] /\ me[u].at \in Sessions
    BY <1>1 DEF RefInv, Placed, Types, Local, Retiring
  <2> QED BY <2>1 DEF RefInv, Closing
<1>6. LinkCount'
  <2>1. \A s : Owners(s)' = Owners(s) /\ Releasers(s)' = Releasers(s)
    BY SameRefs
  <2> QED BY <2>1, CountIs, CountNext DEF RefInv
<1>7. HeldAlive'
  <2>1. \A u \in Threads, s \in Sessions :
          (me'[u].own = s \/ Releasing(u, s)') => (me[u].own = s \/ Releasing(u, s))
    BY SameRefs
  <2>2. \A u \in Threads, s \in Sessions :
          me[u].own = s \/ Releasing(u, s) => sess[s].state = "live"
    BY DEF RefInv, HeldAlive
  <2> QED BY <2>1, <2>2 DEF HeldAlive
<1> QED BY <1>2, <1>3, <1>4, <1>5, <1>6, <1>7 DEF RefInv

-----------------------------------------------------------------------------
(***************************************************************************)
(* The line of TimerDataMutex.                                             *)
(***************************************************************************)
LEMMA LineSame ==
  ASSUME Types, Lined, NEW t \in Threads, NEW r \in Local, me' = [me EXCEPT ![t] = r],
         mutex' = mutex, r.pc \notin InLine, me[t].pc \notin InLine
  PROVE  Lined'
BY Updated DEF Lined

LEMMA LineAsk ==
  ASSUME Types, Lined, NEW t \in Threads, NEW r \in Local, me' = [me EXCEPT ![t] = r],
         Acquire(t), r.pc \in InLine, me[t].pc \notin InLine
  PROVE  /\ mutex' \in Seq(Threads) /\ Lined'
         /\ \A u \in Threads : me[u].pc \in InLine => Before(mutex', u, t)
         /\ \A u, v \in Threads : Before(mutex, u, v) => Before(mutex', u, v)
<1>1. mutex \in Seq(Threads) /\ Once(mutex) /\ t \notin In(mutex) /\ mutex' = Append(mutex, t)
  BY DEF Types, Lined, Acquire, Lock!Ask
<1>2. mutex' \in Seq(Threads) /\ Once(mutex') /\ In(mutex') = In(mutex) \cup {t}
  BY <1>1, AskAppends
<1>3. In(mutex') = {u \in Threads : me'[u].pc \in InLine}
  <2>1. me'[t] = r /\ \A u \in Threads : u # t => me'[u] = me[u]
    BY Updated
  <2>2. In(mutex) = {u \in Threads : me[u].pc \in InLine}
    BY DEF Lined
  <2> QED BY <1>1, <1>2, <2>1, <2>2
<1>4. \A u \in Threads : me[u].pc \in InLine => u \in In(mutex)
  BY DEF Lined
<1> QED BY <1>1, <1>2, <1>3, <1>4, BehindAll DEF Lined

LEMMA LineLeave ==
  ASSUME Types, Lined, NEW t \in Threads, NEW r \in Local, me' = [me EXCEPT ![t] = r],
         Holds(t), Release, r.pc \notin InLine
  PROVE  /\ mutex' \in Seq(Threads) /\ Lined'
         /\ \A u \in Threads : ~Before(mutex, u, t)
         /\ \A u, v \in Threads : Before(mutex, u, v) /\ u # t => Before(mutex', u, v)
<1>1. mutex \in Seq(Threads) /\ Once(mutex) /\ mutex # <<>> /\ Head(mutex) = t /\ mutex' = Tail(mutex)
  BY DEF Types, Lined, Holds, Release, Lock!Release, Lock!Holds
<1>2. mutex' \in Seq(Threads) /\ Once(mutex') /\ In(mutex') = In(mutex) \ {t}
  BY <1>1, ReleaseTakes
<1>3. In(mutex') = {u \in Threads : me'[u].pc \in InLine}
  <2>1. me'[t] = r /\ \A u \in Threads : u # t => me'[u] = me[u]
    BY Updated
  <2>2. In(mutex) = {u \in Threads : me[u].pc \in InLine}
    BY DEF Lined
  <2> QED BY <1>1, <1>2, <2>1, <2>2
<1> QED BY <1>1, <1>2, <1>3, OrderKept DEF Lined

-----------------------------------------------------------------------------
(***************************************************************************)
(* The timers that threads have stay theirs when one thread lets go of     *)
(* some that it has.                                                       *)
(***************************************************************************)
Behinds(r) == r.pc \in {"removing", "resetting"}

LEMMA HandsKept ==
  ASSUME Types, Timed, NEW t \in Threads, NEW r \in Local, me' = [me EXCEPT ![t] = r],
         Work(r) => Work(me[t]) /\ r.work = me[t].work,
         Fires(r) => r.fired = me[t].fired,
         \A a \in Timers, h \in Handles : timer'[a] = h <=> handle'[h] = a,
         \A a \in list' : timer'[a] # None,
         \A u \in Threads : Work(me'[u]) => Taken(me'[u].work, timer', list'),
         \A u \in Threads : Fires(me'[u]) => Taken(me'[u].fired, timer', list')
  PROVE  Timed'
<1>1. \A u \in Threads :
        /\ Work(me'[u]) => Work(me[u]) /\ me'[u].work = me[u].work
        /\ Fires(me'[u]) => Fires(me[u]) /\ me'[u].fired = me[u].fired
  BY Updated DEF Fires
<1>2. \A u \in Threads, a \in Timers : Has(me'[u], a) => Has(me[u], a)
  BY <1>1 DEF Has
<1>3. \A u, v \in Threads, a \in Timers : Has(me'[u], a) /\ Has(me'[v], a) => u = v
  BY <1>2 DEF Timed
<1>4. \A u \in Threads : Work(me'[u]) /\ Fires(me'[u]) => me'[u].work[1] # me'[u].fired[1]
  BY <1>1 DEF Timed
<1> QED BY <1>3, <1>4 DEF Timed

LEMMA CreatorsKept ==
  ASSUME Types, Creators, NEW t \in Threads, NEW r \in Local, me' = [me EXCEPT ![t] = r],
         Creating(r) => Creating(me[t]) /\ r.own = me[t].own,
         \A h \in Handles : handle[h] = None => handle'[h] = None,
         \A u \in Threads : Creating(me[u]) => me[u].own \in Sessions
  PROVE  Creators'
<1>1. me'[t] = r /\ \A u \in Threads : u # t => me'[u] = me[u]
  BY Updated
<1>2. \A u \in Threads : Creating(me'[u]) => Creating(me[u]) /\ me'[u].own = me[u].own
  BY <1>1
<1>3. \A u \in Threads : Creating(me'[u]) => handle'[<<me'[u].own, "i">>] = None
  BY <1>2, HandleIs DEF Creators
<1> QED BY <1>2, <1>3 DEF Creators

LEMMA FreshKept ==
  ASSUME Fresh, \A s \in Sessions : sess'[s].state = "unused" => sess[s].state = "unused",
         \A h \in Handles : handle[h] = None => handle'[h] = None
  PROVE  Fresh'
BY HandleIs DEF Fresh

(***************************************************************************)
(* A step that neither takes, posts nor waits for the mutex.               *)
(***************************************************************************)
LEMMA QuietTimers ==
  ASSUME Types, TimerInv, NEW t \in Threads, NEW r \in Local, me' = [me EXCEPT ![t] = r],
         UNCHANGED timers,
         me[t].pc \notin InLine, r.pc \notin InLine, r.pc # "rmfree",
         r.fired \in {me[t].fired, NoTimer},
         Creating(r) => Creating(me[t]) /\ r.own = me[t].own,
         \A u \in Threads : Creating(me[u]) => me[u].own \in Sessions,
         \A s \in Sessions : sess'[s].state = "unused" => sess[s].state = "unused"
  PROVE  TimerInv'
<1>1. timer' = timer /\ handle' = handle /\ list' = list /\ mutex' = mutex
  BY DEF timers
<1>2. me'[t] = r /\ \A u \in Threads : u # t => me'[u] = me[u]
  BY Updated
<1>3. Lined'
  BY <1>1, LineSame DEF TimerInv
<1>4. ~Work(r)
  BY DEF Work, InLine
<1>5. Timed'
  <2>1. \A u \in Threads : /\ Work(me'[u]) => Taken(me'[u].work, timer', list')
                           /\ Fires(me'[u]) => Taken(me'[u].fired, timer', list')
    <3>1. \A u \in Threads : /\ Work(me[u]) => Taken(me[u].work, timer, list)
                             /\ Fires(me[u]) => Taken(me[u].fired, timer, list)
      BY DEF TimerInv, Timed
    <3> QED BY <1>1, <1>2, <1>4, <3>1 DEF Taken, Fires
  <2>2. Fires(r) => r.fired = me[t].fired
    BY DEF Fires
  <2>3. /\ \A a \in Timers, h \in Handles : timer'[a] = h <=> handle'[h] = a
        /\ \A a \in list' : timer'[a] # None
    BY <1>1 DEF TimerInv, Timed
  <2> QED BY <1>4, <2>1, <2>2, <2>3, HandsKept DEF TimerInv
<1>6. Fresh' /\ Creators'
  BY <1>1, FreshKept, CreatorsKept DEF TimerInv
<1>7. Behind'
  <2>1. \A u \in Threads : me'[u].pc \in {"removing", "resetting", "adding"} => me'[u] = me[u]
    BY <1>2 DEF InLine
  <2> QED BY <1>1, <2>1 DEF TimerInv, Behind
<1> QED BY <1>3, <1>5, <1>6, <1>7 DEF TimerInv

(***************************************************************************)
(* A thread waits for the mutex, with a timer that it looked up or none.   *)
(***************************************************************************)
LEMMA AskTimers ==
  ASSUME Types, TimerInv, NEW t \in Threads, NEW r \in Local, me' = [me EXCEPT ![t] = r],
         Acquire(t), UNCHANGED <<timer, handle, list>>,
         me[t].pc \notin InLine, me[t].pc # "rmfree", r.pc \in InLine \ {"adding"},
         r.fired = me[t].fired,
         Behinds(r) => timer[r.work[1]] = r.work[2],
         \A u \in Threads : Creating(me[u]) => me[u].own \in Sessions,
         \A s \in Sessions : sess'[s].state = "unused" => sess[s].state = "unused"
  PROVE  mutex' \in Seq(Threads) /\ TimerInv'
<1>1. timer' = timer /\ handle' = handle /\ list' = list
  OBVIOUS
<1>2. me'[t] = r /\ \A u \in Threads : u # t => me'[u] = me[u]
  BY Updated
<1>3. /\ mutex' \in Seq(Threads) /\ Lined'
      /\ \A u, v \in Threads : Before(mutex, u, v) => Before(mutex', u, v)
  <2>1. r.pc \in InLine
    OBVIOUS
  <2> QED BY <2>1, LineAsk DEF TimerInv
<1>4. ~Work(r) /\ ~Creating(r)
  BY DEF Work, InLine, Creating
<1>5. Timed'
  <2>1. \A u \in Threads : /\ Work(me'[u]) => Taken(me'[u].work, timer', list')
                           /\ Fires(me'[u]) => Taken(me'[u].fired, timer', list')
    <3>1. \A u \in Threads : /\ Work(me[u]) => Taken(me[u].work, timer, list)
                             /\ Fires(me[u]) => Taken(me[u].fired, timer, list)
      BY DEF TimerInv, Timed
    <3> QED BY <1>1, <1>2, <1>4, <3>1 DEF Taken, Fires
  <2>2. Fires(r) => r.fired = me[t].fired
    BY DEF Fires
  <2>3. /\ \A a \in Timers, h \in Handles : timer'[a] = h <=> handle'[h] = a
        /\ \A a \in list' : timer'[a] # None
    BY <1>1 DEF TimerInv, Timed
  <2> QED BY <1>4, <2>1, <2>2, <2>3, HandsKept DEF TimerInv
<1>6. Fresh' /\ Creators'
  BY <1>1, <1>4, FreshKept, CreatorsKept DEF TimerInv
<1>7. Behind'
  <2>1. \A u \in Threads : me'[u].pc = "adding" => me'[u] = me[u]
    BY <1>2
  <2>2. ASSUME NEW u \in Threads, u # t, me[u].pc \in {"removing", "resetting"},
               timer[me[u].work[1]] # me[u].work[2]
        PROVE  /\ me[u].work[1] \notin list
               /\ \A v \in Threads : me'[v].pc = "adding" /\ me'[v].work[1] = me[u].work[1]
                                       => Before(mutex', u, v)
    BY <1>3, <2>1, <2>2 DEF TimerInv, Behind
  <2> QED BY <1>1, <1>2, <2>2 DEF Behind, Behinds
<1> QED BY <1>3, <1>5, <1>6, <1>7 DEF TimerInv

(***************************************************************************)
(* A timer that a thread has is allocated, and not in the list.            *)
(***************************************************************************)
LEMMA HandIs ==
  ASSUME Types, Timed, \A u \in Threads : Placed(me[u])
  PROVE  /\ \A u \in Threads, a \in Timers :
              Has(me[u], a) => timer[a] \in Handles /\ a \notin list
         /\ \A u \in Threads : Work(me[u]) => me[u].work \in TimerOf
         /\ \A u \in Threads : Fires(me[u]) => me[u].fired \in TimerOf
<1>1. \A u \in Threads : Work(me[u]) => me[u].work \in TimerOf
  BY DEF Work, Placed
<1>2. \A u \in Threads : Fires(me[u]) => me[u].fired \in TimerOf
  BY DEF Fires, Placed
<1>3. ASSUME NEW u \in Threads, NEW a \in Timers, Has(me[u], a)
      PROVE  timer[a] \in Handles /\ a \notin list
  <2>1. CASE Work(me[u]) /\ me[u].work[1] = a
    BY <1>1, <2>1, HandleIs DEF Timed, Taken
  <2>2. CASE Fires(me[u]) /\ me[u].fired[1] = a
    BY <1>2, <2>2, HandleIs DEF Timed, Taken
  <2> QED BY <1>3, <2>1, <2>2 DEF Has
<1> QED BY <1>1, <1>2, <1>3

(***************************************************************************)
(* nht_i_AddWatchdog: a timer is made and its thread waits for the mutex.  *)
(***************************************************************************)
LEMMA AddTimers ==
  ASSUME Types, TimerInv, \A u \in Threads : Placed(me[u]),
         NEW t \in Threads, NEW r \in Local, me' = [me EXCEPT ![t] = r],
         NEW a \in Timers, NEW h \in Handles, timer[a] = None, handle[h] = None,
         timer' = [timer EXCEPT ![a] = h], handle' = [handle EXCEPT ![h] = a],
         list' = list, Acquire(t),
         me[t].pc \notin InLine, me[t].pc # "rmfree",
         r.pc = "adding", r.work = <<a, h>>, r.own = h[1], r.fired = me[t].fired,
         \A u \in Threads \ {t} : Creating(me[u]) => me[u].own # r.own,
         \A u \in Threads : Creating(me[u]) => me[u].own \in Sessions,
         h[2] = "w" => handle[<<r.own, "i">>] = None,
         sess'[h[1]].state # "unused",
         \A s \in Sessions : sess'[s].state = "unused" => sess[s].state = "unused"
  PROVE  mutex' \in Seq(Threads) /\ TimerInv'
<1>1. me'[t] = r /\ \A u \in Threads : u # t => me'[u] = me[u]
  BY Updated
<1>2. /\ mutex' \in Seq(Threads) /\ Lined'
      /\ \A u \in Threads : me[u].pc \in InLine => Before(mutex', u, t)
      /\ \A u, v \in Threads : Before(mutex, u, v) => Before(mutex', u, v)
  <2>1. r.pc \in InLine
    BY DEF InLine
  <2> QED BY <2>1, LineAsk DEF TimerInv
<1>3. /\ timer'[a] = h /\ \A b \in Timers \ {a} : timer'[b] = timer[b]
      /\ handle'[h] = a /\ \A g \in Handles \ {h} : handle'[g] = handle[g]
  BY DEF Types
<1>4. None \notin Handles /\ None \notin Timers /\ r.work[1] = a /\ r.work[2] = h
  BY NotNone
<1>5. a \notin list /\ \A u \in Threads : ~Has(me[u], a)
  <2>1. \A u \in Threads : ~Has(me[u], a)
    BY <1>4, HandIs DEF TimerInv
  <2>2. a \notin list
    BY DEF TimerInv, Timed
  <2> QED BY <2>1, <2>2
<1>6. Timed'
  <2>1. ASSUME NEW b \in Timers, NEW g \in Handles PROVE timer'[b] = g <=> handle'[g] = b
    <3>1. timer[b] = g <=> handle[g] = b
      BY DEF TimerInv, Timed
    <3>2. CASE b = a /\ g = h
      BY <1>3, <3>2
    <3>3. CASE b = a /\ g # h
      BY <1>3, <1>4, <3>1, <3>3
    <3>4. CASE b # a /\ g = h
      BY <1>3, <1>4, <3>1, <3>4
    <3>5. CASE b # a /\ g # h
      BY <1>3, <3>1, <3>5
    <3> QED BY <3>2, <3>3, <3>4, <3>5
  <2>2. \A b \in list' : timer'[b] # None
    BY <1>3, <1>5 DEF TimerInv, Timed, Types
  <2>3. ASSUME NEW f \in TimerOf, Taken(f, timer, list), f[1] # a PROVE Taken(f, timer', list')
    BY <1>3, <2>3, HandleIs DEF Taken
  <2>4. \A u \in Threads : Work(me'[u]) => Taken(me'[u].work, timer', list')
    <3>1. Taken(r.work, timer', list')
      BY <1>3, <1>4, <1>5 DEF Taken
    <3>2. ASSUME NEW u \in Threads \ {t}, Work(me[u]) PROVE Taken(me[u].work, timer', list')
      <4>1. me[u].work \in TimerOf /\ Taken(me[u].work, timer, list) /\ me[u].work[1] # a
        BY <1>5, <3>2, HandIs DEF TimerInv, Timed, Has
      <4> QED BY <4>1, <2>3
    <3> QED BY <1>1, <3>1, <3>2
  <2>5. \A u \in Threads : Fires(me'[u]) => Taken(me'[u].fired, timer', list')
    <3>1. ASSUME NEW u \in Threads, Fires(me[u]) PROVE Taken(me[u].fired, timer', list')
      <4>1. me[u].fired \in TimerOf /\ Taken(me[u].fired, timer, list) /\ me[u].fired[1] # a
        BY <1>5, <3>1, HandIs DEF TimerInv, Timed, Has
      <4> QED BY <4>1, <2>3
    <3>2. \A u \in Threads : me'[u].fired = me[u].fired
      BY <1>1
    <3> QED BY <3>1, <3>2 DEF Fires
  <2>6. \A u \in Threads, b \in Timers : Has(me'[u], b) => Has(me[u], b) \/ (u = t /\ b = a)
    BY <1>1, <1>4 DEF Has, Fires
  <2>7. \A u, v \in Threads, b \in Timers : Has(me'[u], b) /\ Has(me'[v], b) => u = v
    BY <1>5, <2>6 DEF TimerInv, Timed
  <2>8. \A u \in Threads : Work(me'[u]) /\ Fires(me'[u]) => me'[u].work[1] # me'[u].fired[1]
    <3>1. Fires(r) => r.fired[1] # a
      BY <1>5 DEF Has, Fires
    <3> QED BY <1>1, <1>4, <3>1 DEF TimerInv, Timed
  <2> QED BY <2>1, <2>2, <2>4, <2>5, <2>7, <2>8 DEF Timed
<1>7. Fresh'
  <2>1. ASSUME NEW s \in Sessions, sess'[s].state = "unused", NEW x \in {"w", "i"}
        PROVE  handle'[<<s, x>>] = None
    <3>1. <<s, x>> \in Handles
      BY HandleIs
    <3>2. <<s, x>> # h
      <4>1. s # h[1] /\ <<s, x>>[1] = s
        BY <2>1
      <4> QED BY <4>1
    <3>3. handle[<<s, x>>] = None
      BY <2>1 DEF TimerInv, Fresh
    <3> QED BY <1>3, <3>1, <3>2, <3>3
  <2> QED BY <2>1 DEF Fresh
<1>8. Creators'
  <2>1. \A u \in Threads \ {t} : Creating(me[u]) =>
          <<me[u].own, "i">> \in Handles \ {h} /\ handle[<<me[u].own, "i">>] = None
    <3> SUFFICES ASSUME NEW u \in Threads \ {t}, Creating(me[u])
                 PROVE  <<me[u].own, "i">> \in Handles \ {h} /\ handle[<<me[u].own, "i">>] = None
      OBVIOUS
    <3>1. me[u].own # h[1] /\ <<me[u].own, "i">>[1] = me[u].own
      OBVIOUS
    <3>2. <<me[u].own, "i">> \in Handles
      BY HandleIs
    <3>3. handle[<<me[u].own, "i">>] = None
      BY DEF TimerInv, Creators
    <3> QED BY <3>1, <3>2, <3>3
  <2>2. Creating(r) => handle'[<<r.own, "i">>] = None
    <3>1. Creating(r) => h[2] = "w" /\ <<r.own, "i">> \in Handles \ {h}
      BY <1>4, HandleIs DEF Creating
    <3> QED BY <1>3, <3>1
  <2> QED BY <1>1, <1>3, <2>1, <2>2 DEF TimerInv, Creators
<1>9. Behind'
  <2> SUFFICES ASSUME NEW u \in Threads, me'[u].pc \in {"removing", "resetting"},
                      timer'[me'[u].work[1]] # me'[u].work[2]
               PROVE  /\ me'[u].work[1] \notin list'
                      /\ \A v \in Threads : me'[v].pc = "adding" /\ me'[v].work[1] = me'[u].work[1]
                                              => Before(mutex', u, v)
    BY DEF Behind
  <2>1. u # t /\ me'[u] = me[u] /\ me[u].work \in TimerOf
    BY <1>1 DEF Placed
  <2>2. timer[me[u].work[1]] # me[u].work[2]
    BY <1>3, <1>4, <2>1, HandleIs
  <2>3. /\ me[u].work[1] \notin list
        /\ \A v \in Threads : me[v].pc = "adding" /\ me[v].work[1] = me[u].work[1] => Before(mutex, u, v)
    BY <2>1, <2>2 DEF TimerInv, Behind
  <2>4. Before(mutex', u, t)
    BY <1>2, <2>1 DEF InLine
  <2> QED BY <1>1, <1>2, <2>1, <2>3, <2>4
<1> QED BY <1>2, <1>6, <1>7, <1>8, <1>9 DEF TimerInv

(***************************************************************************)
(* Who posts the mutex was the first in its line: no one who looks for a   *)
(* timer that is not there any more waits before it.                       *)
(***************************************************************************)
LEMMA BehindKept ==
  ASSUME Types, TimerInv, NEW t \in Threads, NEW r \in Local, me' = [me EXCEPT ![t] = r],
         Holds(t), Release, UNCHANGED <<timer, handle>>,
         r.pc \notin InLine,
         \A a \in list' : a \in list \/ (me[t].pc = "adding" /\ a = me[t].work[1])
  PROVE  mutex' \in Seq(Threads) /\ Lined' /\ Behind'
<1>1. me'[t] = r /\ \A u \in Threads : u # t => me'[u] = me[u]
  BY Updated
<1>2. /\ mutex' \in Seq(Threads) /\ Lined'
      /\ \A u \in Threads : ~Before(mutex, u, t)
      /\ \A u, v \in Threads : Before(mutex, u, v) /\ u # t => Before(mutex', u, v)
  BY LineLeave DEF TimerInv
<1>3. Behind'
  <2> SUFFICES ASSUME NEW u \in Threads, me'[u].pc \in {"removing", "resetting"},
                      timer'[me'[u].work[1]] # me'[u].work[2]
               PROVE  /\ me'[u].work[1] \notin list'
                      /\ \A v \in Threads : me'[v].pc = "adding" /\ me'[v].work[1] = me'[u].work[1]
                                              => Before(mutex', u, v)
    BY DEF Behind
  <2>1. u # t /\ me'[u] = me[u]
    BY <1>1 DEF InLine
  <2>2. /\ me[u].work[1] \notin list
        /\ \A v \in Threads : me[v].pc = "adding" /\ me[v].work[1] = me[u].work[1] => Before(mutex, u, v)
    BY <2>1 DEF TimerInv, Behind
  <2>3. me[u].work[1] \notin list'
    BY <1>2, <2>2
  <2>4. \A v \in Threads : me'[v].pc = "adding" => me'[v] = me[v]
    BY <1>1 DEF InLine
  <2> QED BY <1>2, <2>1, <2>2, <2>3, <2>4
<1> QED BY <1>2, <1>3

(***************************************************************************)
(* A timer added is in the list.                                           *)
(***************************************************************************)
LEMMA AddedTimers ==
  ASSUME Types, TimerInv, \A u \in Threads : Placed(me[u]),
         NEW t \in Threads, NEW r \in Local, me' = [me EXCEPT ![t] = r],
         Holds(t), Release, UNCHANGED <<timer, handle>>, list' = list \cup {me[t].work[1]},
         me[t].pc = "adding", r.pc = "added", r.work = me[t].work, r.own = me[t].own,
         r.fired = me[t].fired,
         \A u \in Threads : Creating(me[u]) => me[u].own \in Sessions,
         sess' = sess
  PROVE  mutex' \in Seq(Threads) /\ TimerInv'
<1> DEFINE a == me[t].work[1]
<1>1. me'[t] = r /\ \A u \in Threads : u # t => me'[u] = me[u]
  BY Updated
<1>2. mutex' \in Seq(Threads) /\ Lined' /\ Behind'
  <2>1. \A b \in list' : b \in list \/ (me[t].pc = "adding" /\ b = me[t].work[1])
    OBVIOUS
  <2> QED BY <2>1, BehindKept DEF InLine
<1>3. ~Work(r) /\ Work(me[t]) /\ Has(me[t], a) /\ a \in Timers /\ timer[a] \in Handles
  <2>1. ~Work(r) /\ Work(me[t]) /\ Has(me[t], a)
    BY DEF Work, Has
  <2>2. a \in Timers
    BY <2>1, HandIs, HandleIs DEF TimerInv
  <2> QED BY <2>1, <2>2, HandIs DEF TimerInv
<1> HIDE DEF a
<1>4. timer' = timer /\ handle' = handle /\ list' = list \cup {a}
  BY DEF a
<1>5. Timed'
  <2>1. \A b \in list' : timer'[b] # None
    BY <1>3, <1>4, NotNone DEF TimerInv, Timed
  <2>2. \A u \in Threads \ {t} : ~Has(me[u], a)
    BY <1>3 DEF TimerInv, Timed
  <2>3. \A u \in Threads : Work(me'[u]) => Taken(me'[u].work, timer', list')
    <3>1. \A u \in Threads \ {t} : Work(me[u]) => me[u].work[1] # a /\ Taken(me[u].work, timer, list)
      BY <2>2 DEF TimerInv, Timed, Has
    <3> QED BY <1>1, <1>3, <1>4, <3>1 DEF Taken
  <2>4. \A u \in Threads : Fires(me'[u]) => Taken(me'[u].fired, timer', list')
    <3>1. \A u \in Threads : Fires(me[u]) => me[u].fired[1] # a /\ Taken(me[u].fired, timer, list)
      <4>1. Fires(me[t]) => me[t].fired[1] # a
        BY <1>3 DEF TimerInv, Timed, a
      <4> QED BY <2>2, <4>1 DEF TimerInv, Timed, Has
    <3> QED BY <1>1, <1>4, <3>1 DEF Taken, Fires
  <2>5. \A b \in Timers, h \in Handles : timer'[b] = h <=> handle'[h] = b
    BY <1>4 DEF TimerInv, Timed
  <2> QED BY <1>3, <2>1, <2>3, <2>4, <2>5, HandsKept DEF TimerInv, Fires
<1>6. Fresh'
  BY <1>4, FreshKept DEF TimerInv
<1>7. Creators'
  <2>1. Creating(r) => Creating(me[t])
    BY DEF Creating
  <2> QED BY <1>4, <2>1, CreatorsKept DEF TimerInv
<1> QED BY <1>2, <1>5, <1>6, <1>7 DEF TimerInv

(***************************************************************************)
(* The mutex is posted and the list is as it was.                          *)
(***************************************************************************)
LEMMA LeftTimers ==
  ASSUME Types, TimerInv, NEW t \in Threads, NEW r \in Local, me' = [me EXCEPT ![t] = r],
         Holds(t), Release, UNCHANGED <<timer, handle, list>>,
         me[t].pc # "adding", r.pc \notin InLine, r.pc # "rmfree", ~Creating(r),
         r.fired = me[t].fired,
         \A u \in Threads : Creating(me[u]) => me[u].own \in Sessions,
         sess' = sess
  PROVE  mutex' \in Seq(Threads) /\ TimerInv'
<1>1. me'[t] = r /\ \A u \in Threads : u # t => me'[u] = me[u]
  BY Updated
<1>2. mutex' \in Seq(Threads) /\ Lined' /\ Behind'
  BY BehindKept
<1>3. ~Work(r)
  BY DEF Work, InLine
<1>4. timer' = timer /\ handle' = handle /\ list' = list
  OBVIOUS
<1>5. Timed'
  <2>1. \A u \in Threads : /\ Work(me'[u]) => Taken(me'[u].work, timer', list')
                           /\ Fires(me'[u]) => Taken(me'[u].fired, timer', list')
    <3>1. \A u \in Threads : /\ Work(me[u]) => Taken(me[u].work, timer, list)
                             /\ Fires(me[u]) => Taken(me[u].fired, timer, list)
      BY DEF TimerInv, Timed
    <3> QED BY <1>1, <1>3, <1>4, <3>1 DEF Taken, Fires
  <2>2. /\ \A a \in Timers, h \in Handles : timer'[a] = h <=> handle'[h] = a
        /\ \A a \in list' : timer'[a] # None
    BY <1>4 DEF TimerInv, Timed
  <2> QED BY <1>3, <2>1, <2>2, HandsKept DEF TimerInv
<1>6. Fresh' /\ Creators'
  BY <1>4, FreshKept, CreatorsKept DEF TimerInv
<1> QED BY <1>2, <1>5, <1>6 DEF TimerInv

(***************************************************************************)
(* A timer is taken from the list, to be freed or fired by who took it.    *)
(***************************************************************************)
LEMMA TakesTimer ==
  ASSUME Types, TimerInv, \A u \in Threads : Placed(me[u]),
         NEW t \in Threads, NEW r \in Local, me' = [me EXCEPT ![t] = r],
         Holds(t), Release, UNCHANGED <<timer, handle>>,
         NEW a \in list, list' = list \ {a},
         ~Work(me[t]), r.pc \notin InLine, ~Creating(r),
         \/ r.pc = "rmfree" /\ r.work = <<a, timer[a]>> /\ r.fired = me[t].fired
         \/ ~Work(r) /\ r.fired = <<a, timer[a]>>,
         \A u \in Threads : Creating(me[u]) => me[u].own \in Sessions,
         sess' = sess
  PROVE  mutex' \in Seq(Threads) /\ TimerInv'
<1>1. me'[t] = r /\ \A u \in Threads : u # t => me'[u] = me[u]
  BY Updated
<1>2. mutex' \in Seq(Threads) /\ Lined' /\ Behind'
  BY BehindKept
<1>3. timer' = timer /\ handle' = handle /\ list' = list \ {a} /\ a \in Timers
  BY DEF Types
<1>4. \A u \in Threads : ~Has(me[u], a)
  BY <1>3, HandIs DEF TimerInv
<1>5. \A f : Taken(f, timer, list) => Taken(f, timer', list')
  BY <1>3 DEF Taken
<1>6. Taken(<<a, timer[a]>>, timer', list')
  BY <1>3 DEF Taken
<1>7. Timed'
  <2>1. \A b \in list' : timer'[b] # None
    BY <1>3 DEF TimerInv, Timed
  <2>2. \A u \in Threads : Work(me'[u]) => Taken(me'[u].work, timer', list')
    <3>1. Work(r) => Taken(r.work, timer', list')
      BY <1>6
    <3>2. \A u \in Threads : Work(me[u]) => Taken(me[u].work, timer', list')
      BY <1>5 DEF TimerInv, Timed
    <3> QED BY <1>1, <3>1, <3>2
  <2>3. \A u \in Threads : Fires(me'[u]) => Taken(me'[u].fired, timer', list')
    <3>1. \A u \in Threads : Fires(me[u]) => Taken(me[u].fired, timer', list')
      BY <1>5 DEF TimerInv, Timed
    <3>2. Fires(r) => Taken(r.fired, timer', list')
      BY <1>6, <3>1 DEF Fires
    <3> QED BY <1>1, <3>1, <3>2
  <2>4. \A b \in Timers : Has(r, b) => Has(me[t], b) \/ b = a
    BY DEF Has, Fires
  <2>5. \A u, v \in Threads, b \in Timers : Has(me'[u], b) /\ Has(me'[v], b) => u = v
    BY <1>1, <1>4, <2>4 DEF TimerInv, Timed
  <2>6. Work(r) /\ Fires(r) => r.work[1] # r.fired[1]
    <3>1. Work(r) => r.work[1] = a /\ r.fired = me[t].fired
      OBVIOUS
    <3>2. Fires(me[t]) => me[t].fired[1] # a
      BY <1>4 DEF Has
    <3> QED BY <3>1, <3>2 DEF Fires
  <2>7. \A u \in Threads : Work(me'[u]) /\ Fires(me'[u]) => me'[u].work[1] # me'[u].fired[1]
    BY <1>1, <2>6 DEF TimerInv, Timed
  <2>8. \A b \in Timers, h \in Handles : timer'[b] = h <=> handle'[h] = b
    BY <1>3 DEF TimerInv, Timed
  <2> QED BY <2>1, <2>2, <2>3, <2>5, <2>7, <2>8 DEF Timed
<1>8. Fresh' /\ Creators'
  BY <1>3, FreshKept, CreatorsKept DEF TimerInv
<1> QED BY <1>2, <1>7, <1>8 DEF TimerInv

(***************************************************************************)
(* A thread frees a timer that it has.                                     *)
(***************************************************************************)
LEMMA FreesTimer ==
  ASSUME Types, TimerInv, \A u \in Threads : Placed(me[u]),
         NEW t \in Threads, NEW r \in Local, me' = [me EXCEPT ![t] = r],
         NEW f \in TimerOf, Has(me[t], f[1]), Taken(f, timer, list),
         timer' = [timer EXCEPT ![f[1]] = None], handle' = [handle EXCEPT ![f[2]] = None],
         UNCHANGED <<list, mutex>>,
         me[t].pc \notin InLine, r.pc \notin InLine, ~Work(r), ~Creating(r),
         Fires(r) => r.fired = me[t].fired /\ r.fired[1] # f[1],
         \A u \in Threads : Creating(me[u]) => me[u].own \in Sessions,
         sess' = sess
  PROVE  TimerInv'
<1>1. me'[t] = r /\ \A u \in Threads : u # t => me'[u] = me[u]
  BY Updated
<1>2. Lined'
  BY LineSame DEF TimerInv
<1>3. /\ f[1] \in Timers /\ f[2] \in Handles /\ list' = list /\ mutex' = mutex
      /\ timer'[f[1]] = None /\ \A b \in Timers \ {f[1]} : timer'[b] = timer[b]
      /\ handle'[f[2]] = None /\ \A g \in Handles \ {f[2]} : handle'[g] = handle[g]
  BY HandleIs DEF Types
<1>4. timer[f[1]] = f[2] /\ handle[f[2]] = f[1] /\ f[1] \notin list
  BY <1>3 DEF TimerInv, Timed, Taken
<1>5. \A u \in Threads \ {t} : ~Has(me[u], f[1])
  BY <1>3 DEF TimerInv, Timed
<1>6. \A g \in TimerOf : Taken(g, timer, list) /\ g[1] # f[1] => Taken(g, timer', list')
  BY <1>3, HandleIs DEF Taken
<1>7. Timed'
  <2>1. ASSUME NEW b \in Timers, NEW g \in Handles PROVE timer'[b] = g <=> handle'[g] = b
    <3>1. timer[b] = g <=> handle[g] = b
      BY DEF TimerInv, Timed
    <3>2. CASE b = f[1] \/ g = f[2]
      BY <1>3, <1>4, <3>1, <3>2, NotNone
    <3>3. CASE b # f[1] /\ g # f[2]
      BY <1>3, <3>1, <3>3
    <3> QED BY <3>2, <3>3
  <2>2. \A b \in list' : timer'[b] # None
    BY <1>3, <1>4 DEF TimerInv, Timed, Types
  <2>3. \A u \in Threads : Work(me'[u]) => Taken(me'[u].work, timer', list')
    <3>1. \A u \in Threads \ {t} : Work(me[u]) =>
             me[u].work \in TimerOf /\ Taken(me[u].work, timer, list) /\ me[u].work[1] # f[1]
      BY <1>5, HandIs DEF TimerInv, Timed, Has
    <3> QED BY <1>1, <1>6, <3>1
  <2>4. \A u \in Threads : Fires(me'[u]) => Taken(me'[u].fired, timer', list')
    <3>1. \A u \in Threads \ {t} : Fires(me[u]) =>
             me[u].fired \in TimerOf /\ Taken(me[u].fired, timer, list) /\ me[u].fired[1] # f[1]
      BY <1>5, HandIs DEF TimerInv, Timed, Has
    <3>2. Fires(r) => r.fired \in TimerOf /\ Taken(r.fired, timer, list) /\ r.fired[1] # f[1]
      BY HandIs DEF TimerInv, Timed, Fires
    <3>3. \A u \in Threads \ {t} : Fires(me[u]) => Taken(me[u].fired, timer', list')
      BY <1>6, <3>1
    <3>4. Fires(r) => Taken(r.fired, timer', list')
      BY <1>6, <3>2
    <3> QED BY <1>1, <3>3, <3>4
  <2> QED BY <2>1, <2>2, <2>3, <2>4, HandsKept DEF TimerInv
<1>8. Fresh' /\ Creators'
  <2>1. \A g \in Handles : handle[g] = None => handle'[g] = None
    BY <1>3
  <2> QED BY <2>1, FreshKept, CreatorsKept DEF TimerInv
<1>9. Behind'
  <2> SUFFICES ASSUME NEW u \in Threads, me'[u].pc \in {"removing", "resetting"},
                      timer'[me'[u].work[1]] # me'[u].work[2]
               PROVE  /\ me'[u].work[1] \notin list'
                      /\ \A v \in Threads : me'[v].pc = "adding" /\ me'[v].work[1] = me'[u].work[1]
                                              => Before(mutex', u, v)
    BY DEF Behind
  <2>1. u # t /\ me'[u] = me[u] /\ me[u].work \in TimerOf
    BY <1>1 DEF InLine, Placed
  <2>2. \A v \in Threads : me'[v].pc = "adding" => v # t /\ me'[v] = me[v]
    BY <1>1 DEF InLine
  <2>3. CASE me[u].work[1] = f[1]
    <3>1. \A v \in Threads : ~(me'[v].pc = "adding" /\ me'[v].work[1] = f[1])
      BY <1>5, <2>2 DEF Has, Work
    <3> QED BY <1>3, <1>4, <2>1, <2>3, <3>1
  <2>4. CASE me[u].work[1] # f[1]
    <3>1. timer[me[u].work[1]] # me[u].work[2]
      BY <1>3, <2>1, <2>4, HandleIs
    <3> QED BY <1>3, <2>1, <2>2, <3>1 DEF TimerInv, Behind
  <2> QED BY <2>3, <2>4
<1> QED BY <1>2, <1>7, <1>8, <1>9 DEF TimerInv

-----------------------------------------------------------------------------
(***************************************************************************)
(* The variables of a thread that goes on.                                 *)
(***************************************************************************)
LEMMA ToIs ==
  ASSUME NEW t, me[t] \in Local, NEW l \in Labels
  PROVE  /\ To(t, l) \in Local /\ To(t, l).pc = l /\ To(t, l).own = me[t].own
         /\ To(t, l).at = me[t].at /\ To(t, l).ret = me[t].ret /\ To(t, l).work = me[t].work
         /\ To(t, l).then = me[t].then /\ To(t, l).fired = me[t].fired
BY DEF To, Local

LEMMA ToRetireIs ==
  ASSUME NEW t, me[t] \in Local, NEW s \in Sessions, NEW l \in Labels
  PROVE  /\ ToRetire(t, s, l) \in Local /\ ToRetire(t, s, l).pc = "retire"
         /\ ToRetire(t, s, l).own = me[t].own /\ ToRetire(t, s, l).at = s
         /\ ToRetire(t, s, l).ret = l /\ ToRetire(t, s, l).fired = me[t].fired
<1>1. "retire" \in Labels /\ s \in Sessions \cup {None}
  BY DEF Labels
<1> QED BY <1>1 DEF ToRetire, Local

LEMMA ReturnedIs ==
  ASSUME NEW t, me[t] \in Local
  PROVE  /\ Returned(t) \in Local /\ Returned(t).pc = me[t].ret /\ Returned(t).own = me[t].own
         /\ Returned(t).at = None /\ Returned(t).ret = "idle" /\ Returned(t).fired = me[t].fired
<1>1. "idle" \in Labels /\ None \in Sessions \cup {None} /\ me[t].ret \in Labels
  BY DEF Labels, Local
<1> QED BY <1>1 DEF Returned, Local

LEMMA AfterIs ==
  ASSUME NEW t, me[t] \in Local, NEW l \in Labels
  PROVE  /\ After(t, l) \in Local /\ After(t, l).pc = l /\ After(t, l).own = me[t].own
         /\ After(t, l).at = me[t].at /\ After(t, l).ret = me[t].ret
         /\ After(t, l).fired = me[t].fired
<1>1. "idle" \in Labels /\ NoTimer \in TimerRef
  BY NotNone DEF Labels
<1> QED BY <1>1 DEF After, Local

LEMMA IdleIs ==
  ASSUME NEW l \in Labels
  PROVE  LET r == [Idle EXCEPT !.pc = l] IN
         /\ r \in Local /\ r.pc = l /\ r.own = None /\ r.at = None /\ r.fired = NoTimer
         /\ Idle \in Local /\ Idle.pc = "idle" /\ Idle.own = None /\ Idle.at = None
         /\ Idle.fired = NoTimer
<1>1. /\ "idle" \in Labels /\ NoTimer \in TimerRef /\ None \in Sessions \cup {None} /\ 0 \in Nat
  BY NotNone DEF Labels
<1> QED BY <1>1 DEF Idle, Local

LEMMA PlacedReturned ==
  ASSUME NEW t \in Threads, me[t] \in Local, Placed(me[t]), me[t].pc \in Retiring
  PROVE  Placed(Returned(t)) /\ Returned(t).pc \in {"idle", "create", "done", "alldone", "wfree"}
BY ReturnedIs DEF Placed, Owning, Retiring

(***************************************************************************)
(* What holds of the thread that takes a step.                             *)
(***************************************************************************)
LEMMA Mine ==
  ASSUME IInv, NEW t \in Threads
  PROVE  /\ me[t] \in Local /\ Placed(me[t])
         /\ me[t].own # None => me[t].own \in Sessions /\ sess[me[t].own].state = "live"
         /\ me[t].at # None => me[t].at \in Sessions /\ sess[me[t].at].state # "unused"
         /\ Refs(me[t]) => me[t].at \in Sessions /\ sess[me[t].at].state = "live"
         /\ me[t].fired # NoTimer => sess[me[t].fired[2][1]].state # "unused"
         /\ Creating(me[t]) => me[t].own \in Sessions
<1>1. me[t] \in Local /\ Placed(me[t])
  BY DEF IInv, Types, RefInv
<1>2. me[t].own # None => me[t].own \in Sessions /\ sess[me[t].own].state = "live"
  BY <1>1 DEF IInv, RefInv, HeldAlive, Local
<1>3. me[t].at # None => me[t].at \in Sessions /\ sess[me[t].at].state # "unused"
  BY <1>1 DEF IInv, RefInv, Known, Local
<1>4. Refs(me[t]) => me[t].at \in Sessions /\ sess[me[t].at].state = "live"
  <2>1. Refs(me[t]) => me[t].at # None
    BY <1>1 DEF Refs, Placed, Retiring
  <2>2. Refs(me[t]) => Releasing(t, me[t].at)
    BY DEF Refs, Releasing
  <2> QED BY <1>3, <2>1, <2>2 DEF IInv, RefInv, HeldAlive
<1>5. me[t].fired # NoTimer => sess[me[t].fired[2][1]].state # "unused"
  BY DEF IInv, RefInv, Known
<1>6. Creating(me[t]) => me[t].own \in Sessions
  BY <1>1, <1>2 DEF Creating, Placed, Owning
<1> QED BY <1>1, <1>2, <1>3, <1>4, <1>5, <1>6

(***************************************************************************)
(* A step that only one thread notices.                                    *)
(***************************************************************************)
LEMMA Quiet ==
  ASSUME IInv, NEW t \in Threads, NEW r \in Local, me' = [me EXCEPT ![t] = r], Placed(r),
         r.own = me[t].own, Refs(r) <=> Refs(me[t]), Refs(r) => r.at = me[t].at,
         r.pc \notin InLine, r.pc \notin {"close", "rmfree"}, me[t].pc \notin InLine,
         r.at # None => sess[r.at].state # "unused",
         r.fired \in {me[t].fired, NoTimer}, Creating(r) => Creating(me[t]),
         sess' \in [Sessions -> Session],
         \A s \in Sessions : /\ sess'[s].state = sess[s].state /\ sess'[s].cnt = sess[s].cnt
                             /\ sess'[s].closed = sess[s].closed,
         listed' = listed, UNCHANGED timers
  PROVE  IInv'
<1>1. Types /\ RefInv /\ TimerInv /\ \A u \in Threads : Creating(me[u]) => me[u].own \in Sessions
  BY Mine DEF IInv
<1>2. Types'
  BY <1>1, Updated DEF Types, timers
<1>3. RefInv'
  <2>1. r.fired # NoTimer => sess[r.fired[2][1]].state # "unused"
    BY Mine
  <2>2. \A a \in Timers : timer'[a] # None =>
            timer'[a] \in Handles /\ sess[timer'[a][1]].state # "unused"
    BY <1>1 DEF timers, RefInv, Known, Types
  <2> QED BY <1>1, <2>1, <2>2, QuietRefs
<1>4. TimerInv'
  BY <1>1, QuietTimers
<1> QED BY <1>2, <1>3, <1>4 DEF IInv

-----------------------------------------------------------------------------
(***************************************************************************)
(* The steps of a request that neither move a reference nor use the mutex. *)
(***************************************************************************)
LEMMA SessSame ==
  ASSUME IInv, sess' = sess
  PROVE  /\ sess' \in [Sessions -> Session]
         /\ \A s \in Sessions : /\ sess'[s].state = sess[s].state /\ sess'[s].cnt = sess[s].cnt
                                /\ sess'[s].closed = sess[s].closed
BY DEF IInv, Types

LEMMA ListedKnown ==
  ASSUME IInv, NEW s \in In(listed)
  PROVE  s \in Sessions /\ sess[s].state = "live" /\ ~sess[s].closed
<1>1. s \in Sessions
  BY DEF IInv, Types, In
<1> QED BY <1>1 DEF IInv, RefInv, Published

(***************************************************************************)
(* A thread moves on to another label where it owns what it owned.         *)
(***************************************************************************)
LEMMA QuietTo ==
  ASSUME IInv, NEW t \in Threads, NEW r \in Local, me' = [me EXCEPT ![t] = r],
         r.own = me[t].own, r.at = me[t].at, r.fired = me[t].fired,
         \/ me[t].pc \in Owning /\ r.pc \in Owning \ (InLine \cup {"added", "addi"})
         \/ me[t].pc = "idle" /\ r.pc = "create",
         me[t].pc \notin InLine,
         UNCHANGED <<sess, listed, timers>>
  PROVE  IInv'
<1>1. me[t] \in Local /\ Placed(me[t])
  BY Mine
<1>2. me[t].at = None
  BY <1>1 DEF Placed
<1>3. Placed(r)
  BY <1>1, <1>2 DEF Placed, Owning, Retiring, InLine
<1>4. ~Refs(r) /\ ~Refs(me[t]) /\ ~Creating(r) /\ r.pc \notin InLine /\ r.pc \notin {"close", "rmfree"}
  BY DEF Refs, Owning, InLine, Creating
<1> QED BY <1>2, <1>3, <1>4, SessSame, Quiet

LEMMA QuietGo ==
  ASSUME IInv, NEW t \in Threads, NEW l \in Labels, me' = [me EXCEPT ![t] = To(t, l)],
         \/ me[t].pc \in Owning /\ l \in Owning \ (InLine \cup {"added", "addi"})
         \/ me[t].pc = "idle" /\ l = "create",
         me[t].pc \notin InLine,
         UNCHANGED <<sess, listed, timers>>
  PROVE  IInv'
<1> DEFINE r == To(t, l)
<1>1. /\ r \in Local /\ r.pc = l /\ r.own = me[t].own /\ r.at = me[t].at
      /\ r.fired = me[t].fired /\ me' = [me EXCEPT ![t] = r]
  BY Mine, ToIs
<1> HIDE DEF r
<1> QED BY <1>1, QuietTo

(***************************************************************************)
(* A thread is going to retire a session.                                  *)
(***************************************************************************)
LEMMA QuietRetire ==
  ASSUME IInv, NEW t \in Threads, NEW s \in Sessions, sess[s].state # "unused", NEW r \in Local,
         me' = [me EXCEPT ![t] = r], r.pc = "retire", r.at = s, r.own = me[t].own,
         r.fired = me[t].fired,
         \/ me[t].pc = "idle" /\ r.ret = "create"
         \/ me[t].pc = "held" /\ r.ret = "done"
         \/ me[t].pc = "all" /\ r.ret = "alldone"
         \/ me[t].pc = "fire" /\ r.ret = "wfree",
         UNCHANGED <<sess, listed, timers>>
  PROVE  IInv'
<1>1. me[t] \in Local /\ Placed(me[t])
  BY Mine
<1>2. Placed(r)
  <2>1. s # None
    BY NotNone
  <2>2. CASE me[t].pc = "idle" /\ r.ret = "create"
    BY <1>1, <2>1, <2>2 DEF Placed, Owning, Retiring
  <2>3. CASE me[t].pc \in {"held", "all"} /\ r.ret \in {"done", "alldone"}
    BY <1>1, <2>1, <2>3 DEF Placed, Owning, Retiring
  <2>4. CASE me[t].pc = "fire" /\ r.ret = "wfree"
    BY <1>1, <2>1, <2>4 DEF Placed, Owning, Retiring
  <2> QED BY <2>2, <2>3, <2>4
<1>3. /\ ~Refs(r) /\ ~Refs(me[t]) /\ ~Creating(r) /\ r.pc \notin InLine
      /\ r.pc \notin {"close", "rmfree"} /\ me[t].pc \notin InLine
  BY DEF Refs, InLine, Creating
<1> QED BY <1>2, <1>3, SessSame, Quiet

LEMMA AllocSessionKeeps ==
  ASSUME IInv, NEW t \in Threads, AllocSession(t)
  PROVE  IInv'
<1>1. me[t] \in Local /\ me[t].pc = "idle" /\ UNCHANGED <<sess, listed, timers>>
  BY Mine DEF AllocSession, Turn
<1>2. CASE \E s \in Listed : Stay(t, ToRetire(t, s, "create"))
  <2>1. PICK s \in In(listed) : me' = [me EXCEPT ![t] = ToRetire(t, s, "create")]
    BY <1>2 DEF Stay, Go, Listed
  <2>2. s \in Sessions /\ sess[s].state # "unused"
    BY ListedKnown
  <2> DEFINE r == ToRetire(t, s, "create")
  <2>3. /\ r \in Local /\ r.pc = "retire" /\ r.own = me[t].own /\ r.at = s /\ r.ret = "create"
        /\ r.fired = me[t].fired
    <3>1. "create" \in Labels
      BY DEF Labels
    <3> QED BY <1>1, <2>2, <3>1, ToRetireIs
  <2> HIDE DEF r
  <2>4. me' = [me EXCEPT ![t] = r]
    BY <2>1 DEF r
  <2> QED BY <1>1, <2>2, <2>3, <2>4, QuietRetire
<1>3. CASE Stay(t, To(t, "create"))
  <2>1. me' = [me EXCEPT ![t] = To(t, "create")] /\ "create" \in Labels
    BY <1>3 DEF Stay, Go, Labels
  <2> QED BY <1>1, <2>1, QuietGo DEF InLine
<1> QED BY <1>2, <1>3 DEF AllocSession

LEMMA CreateFailsKeeps ==
  ASSUME IInv, NEW t \in Threads, CreateFails(t)
  PROVE  IInv'
<1>1. me[t] \in Local /\ Placed(me[t]) /\ me[t].pc = "create" /\ UNCHANGED <<sess, listed, timers>>
  BY Mine DEF CreateFails, Turn
<1>2. me' = [me EXCEPT ![t] = Idle]
  BY DEF CreateFails, Goto, Go
<1>3. /\ Idle \in Local /\ Idle.pc = "idle" /\ Idle.own = None /\ Idle.at = None
      /\ Idle.fired = NoTimer
  BY IdleIs DEF Labels
<1>4. Placed(Idle)
  BY <1>3 DEF Placed, Owning, Retiring
<1>5. /\ me[t].own = None /\ ~Refs(me[t]) /\ ~Refs(Idle) /\ ~Creating(Idle)
      /\ me[t].pc \notin InLine /\ Idle.pc \notin InLine
  BY <1>1, <1>3 DEF Placed, Refs, Creating, InLine
<1> QED BY <1>1, <1>2, <1>3, <1>4, <1>5, SessSame, Quiet

LEMMA AddDoneKeeps ==
  ASSUME IInv, NEW t \in Threads, AddDone(t)
  PROVE  IInv'
<1> DEFINE s == me[t].own
           h == timer[me[t].work[1]]
<1>1. me[t] \in Local /\ Placed(me[t]) /\ me[t].pc = "added" /\ h # None
  BY Mine DEF AddDone, Turn
<1>2. s \in Sessions /\ me[t].at = None /\ me[t].work \in TimerOf
  BY <1>1, Mine DEF Placed, Owning
<1>3. h \in Handles
  BY <1>1, <1>2, HandleIs DEF IInv, Types
<1>4. listed' = listed /\ UNCHANGED timers
  BY DEF AddDone
<1>5. PICK l \in {"addi", "held"} :
        /\ me' = [me EXCEPT ![t] = After(t, l)]
        /\ l = "addi" => me[t].work[2][2] = "w"
        /\ \/ sess' = [sess EXCEPT ![s].w = h]
           \/ sess' = [sess EXCEPT ![s].w = h, ![s].cookie = TRUE]
           \/ sess' = [sess EXCEPT ![s].i = h, ![s].cookie = TRUE]
  BY DEF AddDone, Goto, Stay, Go
<1> HIDE DEF s, h
<1>6. /\ sess' \in [Sessions -> Session]
      /\ \A x \in Sessions : /\ sess'[x].state = sess[x].state /\ sess'[x].cnt = sess[x].cnt
                             /\ sess'[x].closed = sess[x].closed
  <2>1. sess \in [Sessions -> Session] /\ sess[s] \in Session
    BY <1>2 DEF IInv, Types
  <2>2. PICK n \in Session :
          /\ n.state = sess[s].state /\ n.cnt = sess[s].cnt /\ n.closed = sess[s].closed
          /\ sess' = [sess EXCEPT ![s] = n]
    <3>1. CASE sess' = [sess EXCEPT ![s].w = h]
      <4> DEFINE n == [sess[s] EXCEPT !.w = h]
      <4>1. n \in Session /\ n.state = sess[s].state /\ n.cnt = sess[s].cnt /\ n.closed = sess[s].closed
        BY <1>3, <2>1 DEF Session
      <4>2. sess' = [sess EXCEPT ![s] = n]
        BY <3>1
      <4> QED BY <4>1, <4>2
    <3>2. CASE sess' = [sess EXCEPT ![s].w = h, ![s].cookie = TRUE]
      <4> DEFINE n == [sess[s] EXCEPT !.w = h, !.cookie = TRUE]
      <4>1. n \in Session /\ n.state = sess[s].state /\ n.cnt = sess[s].cnt /\ n.closed = sess[s].closed
        BY <1>3, <2>1 DEF Session
      <4>2. sess' = [sess EXCEPT ![s] = n]
        BY <2>1, <3>2 DEF Session
      <4> QED BY <4>1, <4>2
    <3>3. CASE sess' = [sess EXCEPT ![s].i = h, ![s].cookie = TRUE]
      <4> DEFINE n == [sess[s] EXCEPT !.i = h, !.cookie = TRUE]
      <4>1. n \in Session /\ n.state = sess[s].state /\ n.cnt = sess[s].cnt /\ n.closed = sess[s].closed
        BY <1>3, <2>1 DEF Session
      <4>2. sess' = [sess EXCEPT ![s] = n]
        BY <2>1, <3>3 DEF Session
      <4> QED BY <4>1, <4>2
    <3> QED BY <1>5, <3>1, <3>2, <3>3
  <2> QED BY <1>2, <2>1, <2>2
<1> DEFINE r == After(t, l)
<1>7. /\ r \in Local /\ r.pc = l /\ r.own = me[t].own /\ r.at = None /\ r.fired = me[t].fired
  BY <1>1, <1>2, AfterIs DEF Labels
<1>8. me' = [me EXCEPT ![t] = r]
  BY <1>5
<1> HIDE DEF r
<1>9. Placed(r)
  BY <1>1, <1>7 DEF Placed, Owning, Retiring
<1>10. /\ ~Refs(r) /\ ~Refs(me[t]) /\ (Creating(r) => Creating(me[t]))
       /\ r.pc \notin InLine /\ me[t].pc \notin InLine /\ r.pc \notin {"close", "rmfree"}
  BY <1>1, <1>5, <1>7 DEF Refs, Creating, InLine
<1> QED BY <1>4, <1>6, <1>7, <1>8, <1>9, <1>10, Quiet

LEMMA RefuseKeeps ==
  ASSUME IInv, NEW t \in Threads, Refuse(t)
  PROVE  IInv'
BY QuietGo DEF Refuse, Turn, Goto, Go, Owning, InLine, Labels

LEMMA AnswerKeeps ==
  ASSUME IInv, NEW t \in Threads, Answer(t)
  PROVE  IInv'
<1>1. me[t].pc = "held" /\ UNCHANGED <<sess, listed, timers>>
  BY DEF Answer, Turn
<1>2. CASE \E l \in {"done", "all"} : me' = [me EXCEPT ![t] = To(t, l)]
  BY <1>1, <1>2, QuietGo DEF Owning, InLine, Labels
<1>3. CASE me' = [me EXCEPT ![t] = ToRetire(t, me[t].own, "done")]
  <2>1. me[t] \in Local /\ me[t].own \in Sessions /\ sess[me[t].own].state # "unused"
    BY <1>1, Mine DEF Placed, Owning
  <2> DEFINE r == ToRetire(t, me[t].own, "done")
  <2>2. /\ r \in Local /\ r.pc = "retire" /\ r.own = me[t].own /\ r.at = me[t].own
        /\ r.ret = "done" /\ r.fired = me[t].fired
    BY <2>1, ToRetireIs DEF Labels
  <2>3. me' = [me EXCEPT ![t] = r]
    BY <1>3
  <2> HIDE DEF r
  <2> QED BY <1>1, <2>1, <2>2, <2>3, QuietRetire
<1> QED BY <1>2, <1>3 DEF Answer, Goto, Stay, Go

LEMMA LogoutUserKeeps ==
  ASSUME IInv, NEW t \in Threads, LogoutUser(t)
  PROVE  IInv'
<1>1. me[t].pc = "all" /\ UNCHANGED <<sess, listed, timers>> /\ me[t] \in Local
  BY Mine DEF LogoutUser, Turn
<1>2. CASE me' = [me EXCEPT ![t] = To(t, "done")]
  BY <1>1, <1>2, QuietGo DEF Owning, InLine, Labels
<1>3. CASE /\ listed # <<>>
           /\ me' = [me EXCEPT ![t] = [ToRetire(t, Head(listed), "alldone") EXCEPT
                                         !.search = Head(listed), !.before = Len(listed)]]
  <2>1. listed \in Seq(Sessions) /\ Head(listed) \in In(listed) /\ Len(listed) \in Nat
    <3>1. listed \in Seq(Sessions)
      BY DEF IInv, Types
    <3>2. 1 \in DOMAIN listed /\ Head(listed) = listed[1]
      BY <1>3, <3>1
    <3> QED BY <3>1, <3>2 DEF In
  <2>2. Head(listed) \in Sessions /\ sess[Head(listed)].state # "unused"
    BY <2>1, ListedKnown
  <2> DEFINE q == ToRetire(t, Head(listed), "alldone")
             r == [q EXCEPT !.search = Head(listed), !.before = Len(listed)]
  <2>3. /\ q \in Local /\ q.pc = "retire" /\ q.own = me[t].own /\ q.at = Head(listed)
        /\ q.ret = "alldone" /\ q.fired = me[t].fired
    BY <1>1, <2>2, ToRetireIs DEF Labels
  <2> HIDE DEF q
  <2>4. /\ r \in Local /\ r.pc = "retire" /\ r.own = me[t].own /\ r.at = Head(listed)
        /\ r.ret = "alldone" /\ r.fired = me[t].fired
    BY <2>1, <2>2, <2>3 DEF Local
  <2>5. me' = [me EXCEPT ![t] = r]
    BY <1>3 DEF q
  <2> HIDE DEF r
  <2> QED BY <1>1, <2>2, <2>4, <2>5, QuietRetire
<1> QED BY <1>2, <1>3 DEF LogoutUser, Goto, Stay, Go

LEMMA LogoutCheckedKeeps ==
  ASSUME IInv, NEW t \in Threads, LogoutChecked(t)
  PROVE  IInv'
<1>1. me[t].pc = "alldone" /\ UNCHANGED <<sess, listed, timers>> /\ me[t] \in Local
  BY Mine DEF LogoutChecked, Turn
<1>2. PICK l \in {"all", "done"} :
        me' = [me EXCEPT ![t] = [me[t] EXCEPT !.search = None, !.before = 0, !.pc = l]]
  <2>1. \A l : [[me[t] EXCEPT !.search = None, !.before = 0] EXCEPT !.pc = l]
              = [me[t] EXCEPT !.search = None, !.before = 0, !.pc = l]
    BY <1>1 DEF Local
  <2> QED BY <2>1 DEF LogoutChecked, Goto, Stay, Go
<1> DEFINE r == [me[t] EXCEPT !.search = None, !.before = 0, !.pc = l]
<1>3. /\ r \in Local /\ r.pc = l /\ r.own = me[t].own /\ r.at = me[t].at /\ r.fired = me[t].fired
  <2>1. l \in Labels /\ 0 \in Nat /\ None \in Sessions \cup {None}
    BY DEF Labels
  <2> QED BY <1>1, <2>1 DEF Local
<1>4. me' = [me EXCEPT ![t] = r]
  BY <1>2
<1> HIDE DEF r
<1>5. me[t].pc \in Owning /\ r.pc \in Owning \ (InLine \cup {"added", "addi"}) /\ me[t].pc \notin InLine
  BY <1>1, <1>3 DEF Owning, InLine
<1> QED BY <1>1, <1>3, <1>4, <1>5, QuietTo

LEMMA WatchdogFireKeeps ==
  ASSUME IInv, Watchdog \in Threads, WatchdogFire
  PROVE  IInv'
<1>1. me[Watchdog].pc = "fire" /\ UNCHANGED <<sess, listed, timers>>
  BY DEF WatchdogFire, Turn
<1>2. me[Watchdog] \in Local /\ me[Watchdog].fired \in TimerOf /\ me[Watchdog].fired # NoTimer
  BY <1>1, Mine DEF Placed
<1> DEFINE s == me[Watchdog].fired[2][1]
           r == ToRetire(Watchdog, s, "wfree")
<1>3. s \in Sessions /\ sess[s].state # "unused"
  BY <1>2, HandleIs, Mine
<1>4. me' = [me EXCEPT ![Watchdog] = r]
  BY DEF WatchdogFire, Stay, Go
<1> HIDE DEF s
<1>5. /\ r \in Local /\ r.pc = "retire" /\ r.own = me[Watchdog].own /\ r.at = s
      /\ r.ret = "wfree" /\ r.fired = me[Watchdog].fired
  BY <1>2, <1>3, ToRetireIs DEF Labels
<1> HIDE DEF r
<1> QED BY <1>1, <1>3, <1>4, <1>5, QuietRetire

-----------------------------------------------------------------------------
(***************************************************************************)
(* The steps that wait for the mutex or post it, and those that free a     *)
(* timer: no reference of a session is moved.                              *)
(***************************************************************************)
LEMMA Lining ==
  ASSUME IInv, NEW t \in Threads, NEW r \in Local, me' = [me EXCEPT ![t] = r], Placed(r),
         r.own = me[t].own, Refs(r) <=> Refs(me[t]), r.at = me[t].at, r.pc # "close",
         r.fired # NoTimer => sess[r.fired[2][1]].state # "unused",
         UNCHANGED <<sess, listed>>,
         timer' \in [Timers -> Handles \cup {None}], handle' \in [Handles -> Timers \cup {None}],
         list' \subseteq Timers, mutex' \in Seq(Threads),
         \A a \in Timers : timer'[a] # None => sess[timer'[a][1]].state # "unused",
         TimerInv'
  PROVE  IInv'
<1>1. Types'
  BY Updated DEF IInv, Types
<1>2. RefInv'
  <2>1. r.at # None => sess[r.at].state # "unused"
    BY Mine
  <2>2. \A a \in Timers : timer'[a] # None => timer'[a] \in Handles
    OBVIOUS
  <2> QED BY <2>1, <2>2, QuietRefs DEF IInv
<1> QED BY <1>1, <1>2 DEF IInv

(***************************************************************************)
(* Nothing but the mutex changes.                                          *)
(***************************************************************************)
LEMMA LiningOnly ==
  ASSUME IInv, NEW t \in Threads, NEW r \in Local, me' = [me EXCEPT ![t] = r], Placed(r),
         r.own = me[t].own, Refs(r) <=> Refs(me[t]), r.at = me[t].at, r.pc # "close",
         r.fired = me[t].fired,
         UNCHANGED <<sess, listed, timer, handle, list>>,
         mutex' \in Seq(Threads), TimerInv'
  PROVE  IInv'
<1>1. /\ timer' \in [Timers -> Handles \cup {None}] /\ handle' \in [Handles -> Timers \cup {None}]
      /\ list' \subseteq Timers
      /\ \A a \in Timers : timer'[a] # None => sess[timer'[a][1]].state # "unused"
  BY DEF IInv, Types, RefInv, Known
<1>2. r.fired # NoTimer => sess[r.fired[2][1]].state # "unused"
  BY Mine
<1> QED BY <1>1, <1>2, Lining

(***************************************************************************)
(* A thread looks a handle up and waits for the mutex.                     *)
(***************************************************************************)
LEMMA LooksUp ==
  ASSUME IInv, NEW t \in Threads, NEW h \in Handles, handle[h] # None, NEW l \in Labels,
         NEW k \in {"resetting", "removing"},
         me' = [me EXCEPT ![t] = [me[t] EXCEPT !.pc = k, !.then = l, !.work = <<handle[h], h>>]],
         Acquire(t), UNCHANGED <<sess, listed, timer, handle, list>>,
         \/ k = "resetting" /\ me[t].pc \in {"linked", "linkedw"} /\ l \in {"linkedw", "held"}
         \/ k = "removing" /\ me[t].pc \in {"rmw", "rmi"} /\ l \in {"rmi", "delisted"}
  PROVE  IInv'
<1> DEFINE w == <<handle[h], h>>
           r == [me[t] EXCEPT !.pc = k, !.then = l, !.work = w]
<1>1. me[t] \in Local /\ Placed(me[t])
  BY Mine
<1>2. handle[h] \in Timers /\ w \in TimerOf /\ w \in TimerRef /\ w[1] = handle[h] /\ w[2] = h
  BY HandleIs DEF IInv, Types
<1>3. timer[w[1]] = w[2]
  BY <1>2 DEF IInv, TimerInv, Timed
<1> HIDE DEF w
<1>4. /\ r \in Local /\ r.pc = k /\ r.then = l /\ r.work = w /\ r.own = me[t].own
      /\ r.at = me[t].at /\ r.ret = me[t].ret /\ r.fired = me[t].fired
  <2>1. k \in Labels
    BY DEF Labels
  <2> QED BY <1>1, <1>2, <2>1 DEF Local
<1>5. me' = [me EXCEPT ![t] = r]
  BY DEF w
<1> HIDE DEF r
<1>6. Placed(r)
  <2>1. CASE k = "resetting" /\ me[t].pc \in {"linked", "linkedw"} /\ l \in {"linkedw", "held"}
    BY <1>1, <1>2, <1>4, <2>1 DEF Placed, Owning, Retiring
  <2>2. CASE k = "removing" /\ me[t].pc \in {"rmw", "rmi"} /\ l \in {"rmi", "delisted"}
    BY <1>1, <1>2, <1>4, <2>2 DEF Placed, Owning, Retiring
  <2> QED BY <2>1, <2>2
<1>7. /\ me[t].pc \notin InLine /\ me[t].pc # "rmfree" /\ r.pc \in InLine \ {"adding"}
      /\ (Refs(r) <=> Refs(me[t])) /\ r.pc # "close"
  BY <1>4 DEF InLine, Refs
<1>8. mutex' \in Seq(Threads) /\ TimerInv'
  <2>1. Behinds(r) => timer[r.work[1]] = r.work[2]
    BY <1>3, <1>4
  <2>2. \A u \in Threads : Creating(me[u]) => me[u].own \in Sessions
    BY Mine
  <2> QED BY <1>4, <1>5, <1>7, <2>1, <2>2, AskTimers DEF IInv
<1> QED BY <1>4, <1>5, <1>6, <1>7, <1>8, LiningOnly

LEMMA ResetTimersKeeps ==
  ASSUME IInv, NEW t \in Threads, ResetTimers(t)
  PROVE  IInv'
<1>1. PICK h \in {me[t].w_timer, me[t].i_timer}, l \in {"linkedw", "held"} :
        me[t].pc \in {"linked", "linkedw"} /\ ResetWatchdog(t, h, l)
  BY DEF ResetTimers, Turn
<1>2. h \in Handles \cup {None}
  BY Mine DEF Local
<1>3. UNCHANGED <<sess, listed, timer, handle, list>>
  BY <1>1 DEF ResetWatchdog
<1>4. CASE HandlePtr(h) = None
  <2>1. me' = [me EXCEPT ![t] = To(t, "done")] /\ UNCHANGED <<sess, listed, timers>>
    BY <1>1, <1>3, <1>4 DEF ResetWatchdog, Goto, Go, timers
  <2> QED BY <1>1, <2>1, QuietGo DEF Owning, InLine, Labels
<1>5. CASE HandlePtr(h) # None
  <2>1. h \in Handles /\ handle[h] # None
    BY <1>2, <1>5 DEF HandlePtr
  <2>2. /\ me' = [me EXCEPT ![t] = [me[t] EXCEPT !.pc = "resetting", !.then = l,
                                                 !.work = <<handle[h], h>>]]
        /\ Acquire(t)
    BY <1>1, <1>5 DEF ResetWatchdog, Goto, Go
  <2>3. l \in Labels
    BY DEF Labels
  <2> QED BY <1>1, <1>3, <2>1, <2>2, <2>3, LooksUp
<1> QED BY <1>4, <1>5

LEMMA RemoveTimersKeeps ==
  ASSUME IInv, NEW t \in Threads, RemoveTimers(t)
  PROVE  IInv'
<1>1. PICK h \in {sess[me[t].at].w, sess[me[t].at].i}, l \in {"rmi", "delisted"} :
        me[t].pc \in {"rmw", "rmi"} /\ RemoveWatchdog(t, h, l)
  BY DEF RemoveTimers, Turn
<1>2. me[t] \in Local /\ Placed(me[t]) /\ me[t].at \in Sessions /\ sess[me[t].at].state # "unused"
  BY <1>1, Mine DEF Placed, Retiring
<1>3. h \in Handles \cup {None} /\ UNCHANGED <<sess, listed, timer, handle, list>>
  BY <1>1, <1>2 DEF IInv, Types, Session, RemoveWatchdog
<1>4. l \in Labels
  BY DEF Labels
<1>5. CASE HandlePtr(h) = None
  <2>1. me' = [me EXCEPT ![t] = To(t, l)] /\ UNCHANGED <<sess, listed, timers>>
    BY <1>1, <1>3, <1>5 DEF RemoveWatchdog, Stay, Go, timers
  <2> DEFINE r == To(t, l)
  <2>2. /\ r \in Local /\ r.pc = l /\ r.own = me[t].own /\ r.at = me[t].at /\ r.ret = me[t].ret
        /\ r.fired = me[t].fired /\ me' = [me EXCEPT ![t] = r]
    BY <1>2, <1>4, <2>1, ToIs
  <2> HIDE DEF r
  <2>3. Placed(r)
    BY <1>1, <1>2, <2>2 DEF Placed, Owning, Retiring
  <2>4. /\ Refs(r) /\ Refs(me[t]) /\ ~Creating(r) /\ r.pc \notin InLine /\ me[t].pc \notin InLine
        /\ r.pc \notin {"close", "rmfree"}
    BY <1>1, <2>2 DEF Refs, Creating, InLine
  <2> QED BY <1>2, <2>1, <2>2, <2>3, <2>4, SessSame, Quiet
<1>6. CASE HandlePtr(h) # None
  <2>1. h \in Handles /\ handle[h] # None
    BY <1>3, <1>6 DEF HandlePtr
  <2>2. /\ me' = [me EXCEPT ![t] = [me[t] EXCEPT !.pc = "removing", !.then = l,
                                                 !.work = <<handle[h], h>>]]
        /\ Acquire(t)
    BY <1>1, <1>6 DEF RemoveWatchdog, Goto, Go
  <2> QED BY <1>1, <1>3, <1>4, <2>1, <2>2, LooksUp
<1> QED BY <1>5, <1>6

LEMMA WatchdogLockKeeps ==
  ASSUME IInv, Watchdog \in Threads, WatchdogLock
  PROVE  IInv'
<1> DEFINE t == Watchdog
           r == To(t, "pick")
<1>1. me[t] \in Local /\ Placed(me[t]) /\ me[t].pc = "scan"
  BY Mine DEF WatchdogLock, Turn
<1>2. Acquire(t) /\ me' = [me EXCEPT ![t] = r] /\ UNCHANGED <<sess, listed, timer, handle, list>>
  BY DEF WatchdogLock, Goto, Go
<1>3. /\ r \in Local /\ r.pc = "pick" /\ r.own = me[t].own /\ r.at = me[t].at /\ r.fired = me[t].fired
  BY <1>1, ToIs DEF Labels
<1> HIDE DEF r
<1>4. Placed(r)
  BY <1>1, <1>3 DEF Placed, Owning, Retiring
<1>5. /\ me[t].pc \notin InLine /\ me[t].pc # "rmfree" /\ r.pc \in InLine \ {"adding"} /\ ~Behinds(r)
      /\ ~Refs(r) /\ ~Refs(me[t]) /\ r.pc # "close"
  BY <1>1, <1>3 DEF InLine, Refs, Behinds
<1>6. mutex' \in Seq(Threads) /\ TimerInv'
  <2>1. \A u \in Threads : Creating(me[u]) => me[u].own \in Sessions
    BY Mine
  <2> QED BY <1>2, <1>3, <1>5, <2>1, AskTimers DEF IInv
<1> QED BY <1>2, <1>3, <1>4, <1>5, <1>6, LiningOnly

LEMMA AddLockedKeeps ==
  ASSUME IInv, NEW t \in Threads, AddLocked(t)
  PROVE  IInv'
<1> DEFINE r == To(t, "added")
<1>1. me[t] \in Local /\ Placed(me[t]) /\ me[t].pc = "adding"
  BY Mine DEF AddLocked, Turn
<1>2. /\ Holds(t) /\ Release /\ list' = list \cup {me[t].work[1]} /\ me' = [me EXCEPT ![t] = r]
      /\ UNCHANGED <<sess, listed, timer, handle>>
  BY DEF AddLocked, Goto, Go
<1>3. /\ r \in Local /\ r.pc = "added" /\ r.own = me[t].own /\ r.at = me[t].at
      /\ r.work = me[t].work /\ r.fired = me[t].fired
  BY <1>1, ToIs DEF Labels
<1> HIDE DEF r
<1>4. Placed(r)
  BY <1>1, <1>3 DEF Placed, Owning, Retiring
<1>5. mutex' \in Seq(Threads) /\ TimerInv'
  <2>1. \A u \in Threads : Creating(me[u]) => me[u].own \in Sessions
    BY Mine
  <2>2. sess' = sess
    BY <1>2
  <2> QED BY <1>1, <1>2, <1>3, <2>1, <2>2, AddedTimers DEF IInv, RefInv
<1>6. ~Refs(r) /\ ~Refs(me[t]) /\ me[t].work[1] \in Timers
  BY <1>1, <1>3, HandleIs DEF Refs, Placed
<1>7. /\ timer' \in [Timers -> Handles \cup {None}] /\ handle' \in [Handles -> Timers \cup {None}]
      /\ list' \subseteq Timers
      /\ \A a \in Timers : timer'[a] # None => sess[timer'[a][1]].state # "unused"
  BY <1>2, <1>6 DEF IInv, Types, RefInv, Known
<1>8. r.fired # NoTimer => sess[r.fired[2][1]].state # "unused"
  BY <1>3, Mine
<1> QED BY <1>2, <1>3, <1>4, <1>5, <1>6, <1>7, <1>8, Lining

LEMMA ResetLockedKeeps ==
  ASSUME IInv, NEW t \in Threads, ResetLocked(t)
  PROVE  IInv'
<1>1. me[t] \in Local /\ Placed(me[t]) /\ me[t].pc = "resetting"
  BY Mine DEF ResetLocked, Turn
<1>2. PICK l \in {"linkedw", "held", "done"} :
        /\ Holds(t) /\ Release /\ me' = [me EXCEPT ![t] = After(t, l)]
        /\ UNCHANGED <<sess, listed, timer, handle, list>>
  BY <1>1 DEF ResetLocked, Goto, Go, Placed
<1> DEFINE r == After(t, l)
<1>3. /\ r \in Local /\ r.pc = l /\ r.own = me[t].own /\ r.at = me[t].at /\ r.fired = me[t].fired
  BY <1>1, AfterIs DEF Labels
<1>4. me' = [me EXCEPT ![t] = r]
  BY <1>2
<1> HIDE DEF r
<1>5. Placed(r)
  BY <1>1, <1>3 DEF Placed, Owning, Retiring
<1>6. /\ ~Refs(r) /\ ~Refs(me[t]) /\ ~Creating(r) /\ me[t].pc # "adding" /\ r.pc \notin InLine
      /\ r.pc # "rmfree" /\ r.pc # "close"
  BY <1>1, <1>3 DEF Refs, Creating, InLine
<1>7. mutex' \in Seq(Threads) /\ TimerInv'
  <2>1. \A u \in Threads : Creating(me[u]) => me[u].own \in Sessions
    BY Mine
  <2>2. sess' = sess
    BY <1>2
  <2> QED BY <1>2, <1>3, <1>4, <1>6, <2>1, <2>2, LeftTimers DEF IInv
<1> QED BY <1>2, <1>3, <1>4, <1>5, <1>6, <1>7, LiningOnly

LEMMA RemoveLockedKeeps ==
  ASSUME IInv, NEW t \in Threads, RemoveLocked(t)
  PROVE  IInv'
<1> DEFINE a == me[t].work[1]
<1>1. me[t] \in Local /\ Placed(me[t]) /\ me[t].pc = "removing"
  BY Mine DEF RemoveLocked, Turn
<1>2. /\ Holds(t) /\ Release /\ list' = list \ {a} /\ UNCHANGED <<sess, listed, timer, handle>>
      /\ sess' = sess
  BY DEF RemoveLocked
<1>3. me[t].at # None /\ me[t].work \in TimerOf /\ me[t].then \in {"rmi", "delisted"} /\ a \in Timers
  BY <1>1, HandleIs DEF Placed, Retiring
<1>4. \A u \in Threads : Creating(me[u]) => me[u].own \in Sessions
  BY Mine
<1>5. CASE a \in list
  <2> DEFINE r == To(t, "rmfree")
  <2>1. me' = [me EXCEPT ![t] = r]
    BY <1>5 DEF RemoveLocked, Goto, Go
  <2>2. /\ r \in Local /\ r.pc = "rmfree" /\ r.own = me[t].own /\ r.at = me[t].at
        /\ r.ret = me[t].ret /\ r.work = me[t].work /\ r.then = me[t].then /\ r.fired = me[t].fired
    BY <1>1, ToIs DEF Labels
  <2> HIDE DEF r
  <2>3. Placed(r)
    BY <1>1, <2>2 DEF Placed, Owning, Retiring
  <2>4. me[t].work = <<a, timer[a]>>
    <3>1. timer[a] = me[t].work[2]
      BY <1>1, <1>5 DEF IInv, TimerInv, Behind
    <3> QED BY <1>3, <3>1, HandleIs
  <2> HIDE DEF a
  <2>5. /\ Refs(r) /\ Refs(me[t]) /\ ~Creating(r) /\ ~Work(me[t]) /\ r.pc \notin InLine
        /\ r.pc # "close"
    BY <1>1, <2>2 DEF Refs, Creating, InLine, Work
  <2>6. mutex' \in Seq(Threads) /\ TimerInv'
    BY <1>2, <1>4, <1>5, <2>1, <2>2, <2>4, <2>5, TakesTimer DEF IInv, RefInv
  <2>7. /\ timer' \in [Timers -> Handles \cup {None}] /\ handle' \in [Handles -> Timers \cup {None}]
        /\ list' \subseteq Timers
        /\ \A b \in Timers : timer'[b] # None => sess[timer'[b][1]].state # "unused"
    BY <1>2 DEF IInv, Types, RefInv, Known
  <2>8. r.fired # NoTimer => sess[r.fired[2][1]].state # "unused"
    BY <2>2, Mine
  <2> QED BY <1>2, <2>1, <2>2, <2>3, <2>5, <2>6, <2>7, <2>8, Lining
<1>6. CASE a \notin list
  <2> DEFINE r == After(t, me[t].then)
  <2>1. me' = [me EXCEPT ![t] = r] /\ list' = list
    BY <1>2, <1>6 DEF RemoveLocked, Goto, Go
  <2>2. /\ r \in Local /\ r.pc = me[t].then /\ r.own = me[t].own /\ r.at = me[t].at
        /\ r.ret = me[t].ret /\ r.fired = me[t].fired
    BY <1>1, <1>3, AfterIs DEF Labels
  <2> HIDE DEF r
  <2>3. Placed(r)
    BY <1>1, <1>3, <2>2 DEF Placed, Owning, Retiring
  <2>4. /\ Refs(r) /\ Refs(me[t]) /\ ~Creating(r) /\ me[t].pc # "adding" /\ r.pc \notin InLine
        /\ r.pc # "rmfree" /\ r.pc # "close"
    BY <1>1, <1>3, <2>2 DEF Refs, Creating, InLine
  <2>5. mutex' \in Seq(Threads) /\ TimerInv'
    BY <1>2, <1>4, <2>1, <2>2, <2>4, LeftTimers DEF IInv
  <2> QED BY <1>2, <2>1, <2>2, <2>3, <2>4, <2>5, LiningOnly
<1> QED BY <1>5, <1>6

LEMMA WatchdogPickKeeps ==
  ASSUME IInv, Watchdog \in Threads, WatchdogPick
  PROVE  IInv'
<1> DEFINE t == Watchdog
<1>1. me[t] \in Local /\ Placed(me[t]) /\ me[t].pc = "pick"
  BY Mine DEF WatchdogPick, Turn
<1>2. Holds(t) /\ Release /\ UNCHANGED <<sess, listed, timer, handle>> /\ sess' = sess
  BY DEF WatchdogPick
<1>3. me[t].own = None /\ me[t].at = None
  BY <1>1 DEF Placed
<1>4. \A u \in Threads : Creating(me[u]) => me[u].own \in Sessions
  BY Mine
<1>5. ASSUME NEW a \in list, list' = list \ {a},
             me' = [me EXCEPT ![t] = [me[t] EXCEPT !.pc = "fire", !.fired = <<a, timer[a]>>]]
      PROVE  IInv'
  <2> DEFINE f == <<a, timer[a]>>
             r == [me[t] EXCEPT !.pc = "fire", !.fired = f]
  <2>1. a \in Timers /\ timer[a] \in Handles
    BY DEF IInv, Types, TimerInv, Timed
  <2>2. f \in TimerOf /\ f \in TimerRef /\ f # NoTimer /\ sess[f[2][1]].state # "unused"
    <3>1. sess[timer[a][1]].state # "unused"
      BY <2>1, NotNone DEF IInv, RefInv, Known
    <3>2. f \in TimerOf /\ f \in TimerRef
      BY <2>1, HandleIs
    <3> QED BY <3>1, <3>2, NotNone
  <2>3. me' = [me EXCEPT ![t] = r]
    BY <1>5
  <2> HIDE DEF f
  <2>4. r \in Local /\ r.pc = "fire" /\ r.own = None /\ r.at = None /\ r.fired = f
    <3>1. "fire" \in Labels
      BY DEF Labels
    <3> QED BY <1>1, <1>3, <2>2, <3>1 DEF Local
  <2> HIDE DEF r
  <2>5. Placed(r)
    BY <2>2, <2>4 DEF Placed, Owning, Retiring
  <2>6. /\ ~Refs(r) /\ ~Refs(me[t]) /\ ~Creating(r) /\ ~Work(me[t]) /\ ~Work(r)
        /\ r.pc \notin InLine /\ r.pc # "close"
    BY <1>1, <2>4 DEF Refs, Creating, InLine, Work
  <2>7. mutex' \in Seq(Threads) /\ TimerInv'
    <3>1. r.fired = <<a, timer[a]>>
      BY <2>4 DEF f
    <3> QED BY <1>2, <1>4, <1>5, <2>3, <2>4, <2>6, <3>1, TakesTimer DEF IInv, RefInv
  <2>8. /\ timer' \in [Timers -> Handles \cup {None}] /\ handle' \in [Handles -> Timers \cup {None}]
        /\ list' \subseteq Timers
        /\ \A b \in Timers : timer'[b] # None => sess[timer'[b][1]].state # "unused"
    BY <1>2, <1>5 DEF IInv, Types, RefInv, Known
  <2> QED BY <1>2, <1>3, <2>2, <2>3, <2>4, <2>5, <2>6, <2>7, <2>8, Lining
<1>6. ASSUME UNCHANGED list, me' = [me EXCEPT ![t] = To(t, "scan")]
      PROVE  IInv'
  <2> DEFINE r == To(t, "scan")
  <2>1. me' = [me EXCEPT ![t] = r]
    BY <1>6
  <2>2. r \in Local /\ r.pc = "scan" /\ r.own = me[t].own /\ r.at = me[t].at /\ r.fired = me[t].fired
    BY <1>1, ToIs DEF Labels
  <2> HIDE DEF r
  <2>3. Placed(r)
    BY <1>1, <1>3, <2>2 DEF Placed, Owning, Retiring
  <2>4. /\ ~Refs(r) /\ ~Refs(me[t]) /\ ~Creating(r) /\ me[t].pc # "adding" /\ r.pc \notin InLine
        /\ r.pc # "rmfree" /\ r.pc # "close"
    BY <1>1, <2>2 DEF Refs, Creating, InLine
  <2>5. mutex' \in Seq(Threads) /\ TimerInv'
    BY <1>2, <1>4, <1>6, <2>1, <2>2, <2>4, LeftTimers DEF IInv
  <2> QED BY <1>2, <1>6, <2>1, <2>2, <2>3, <2>4, <2>5, LiningOnly
<1> QED BY <1>5, <1>6 DEF WatchdogPick, Goto, Go

(***************************************************************************)
(* Two threads free timers: the one that removed it and the one that fired *)
(* it.                                                                     *)
(***************************************************************************)
LEMMA RemoveFreeKeeps ==
  ASSUME IInv, NEW t \in Threads, RemoveFree(t)
  PROVE  IInv'
<1> DEFINE f == me[t].work
           r == After(t, me[t].then)
<1>1. me[t] \in Local /\ Placed(me[t]) /\ me[t].pc = "rmfree"
  BY Mine DEF RemoveFree, Turn
<1>2. /\ me' = [me EXCEPT ![t] = r] /\ UNCHANGED <<sess, listed, list, mutex>> /\ sess' = sess
      /\ handle' = [handle EXCEPT ![f[2]] = None] /\ timer' = [timer EXCEPT ![f[1]] = None]
  BY DEF RemoveFree, Goto, Go
<1>3. me[t].at # None /\ f \in TimerOf /\ me[t].then \in {"rmi", "delisted"}
  BY <1>1 DEF Placed, Retiring
<1>4. /\ r \in Local /\ r.pc = me[t].then /\ r.own = me[t].own /\ r.at = me[t].at
      /\ r.ret = me[t].ret /\ r.fired = me[t].fired
  BY <1>1, <1>3, AfterIs DEF Labels
<1> HIDE DEF r
<1>5. Placed(r)
  BY <1>1, <1>3, <1>4 DEF Placed, Owning, Retiring
<1>6. /\ Refs(r) /\ Refs(me[t]) /\ ~Creating(r) /\ ~Work(r) /\ Work(me[t]) /\ r.pc \notin InLine
      /\ me[t].pc \notin InLine /\ r.pc # "close"
  BY <1>1, <1>3, <1>4 DEF Refs, Creating, InLine, Work
<1>7. /\ Has(me[t], f[1]) /\ Taken(f, timer, list)
      /\ Fires(r) => r.fired = me[t].fired /\ r.fired[1] # f[1]
  BY <1>4, <1>6 DEF Has, IInv, TimerInv, Timed, Fires
<1>8. /\ timer' \in [Timers -> Handles \cup {None}] /\ handle' \in [Handles -> Timers \cup {None}]
      /\ list' \subseteq Timers
      /\ \A a \in Timers : timer'[a] # None => sess[timer'[a][1]].state # "unused"
  BY <1>2 DEF IInv, Types, RefInv, Known
<1>9. r.fired # NoTimer => sess[r.fired[2][1]].state # "unused"
  BY <1>4, Mine
<1> HIDE DEF f
<1>10. TimerInv'
  <2>1. \A u \in Threads : Creating(me[u]) => me[u].own \in Sessions
    BY Mine
  <2> QED BY <1>2, <1>3, <1>4, <1>6, <1>7, <2>1, FreesTimer DEF IInv, RefInv
<1>11. mutex' \in Seq(Threads)
  BY <1>2 DEF IInv, Types
<1> QED BY <1>2, <1>4, <1>5, <1>6, <1>8, <1>9, <1>10, <1>11, Lining

LEMMA WatchdogFreeKeeps ==
  ASSUME IInv, Watchdog \in Threads, WatchdogFree
  PROVE  IInv'
<1> DEFINE t == Watchdog
           f == me[t].fired
           r == [Idle EXCEPT !.pc = "scan"]
<1>1. me[t] \in Local /\ Placed(me[t]) /\ me[t].pc = "wfree"
  BY Mine DEF WatchdogFree, Turn
<1>2. /\ me' = [me EXCEPT ![t] = r] /\ UNCHANGED <<sess, listed, list, mutex>> /\ sess' = sess
      /\ handle' = [handle EXCEPT ![f[2]] = None] /\ timer' = [timer EXCEPT ![f[1]] = None]
  BY DEF WatchdogFree, Goto, Go
<1>3. me[t].at = None /\ me[t].own = None /\ f \in TimerOf /\ f # NoTimer
  BY <1>1 DEF Placed
<1>4. r \in Local /\ r.pc = "scan" /\ r.own = None /\ r.at = None /\ r.fired = NoTimer
  BY IdleIs DEF Labels
<1> HIDE DEF r
<1>5. Placed(r)
  BY <1>4 DEF Placed, Owning, Retiring
<1>6. /\ ~Refs(r) /\ ~Refs(me[t]) /\ ~Creating(r) /\ ~Work(r) /\ ~Fires(r) /\ r.pc \notin InLine
      /\ me[t].pc \notin InLine /\ r.pc # "close"
  BY <1>1, <1>4 DEF Refs, Creating, InLine, Work, Fires
<1>7. Has(me[t], f[1]) /\ Taken(f, timer, list)
  BY <1>3 DEF Has, IInv, TimerInv, Timed, Fires
<1>8. /\ timer' \in [Timers -> Handles \cup {None}] /\ handle' \in [Handles -> Timers \cup {None}]
      /\ list' \subseteq Timers
      /\ \A a \in Timers : timer'[a] # None => sess[timer'[a][1]].state # "unused"
  BY <1>2 DEF IInv, Types, RefInv, Known
<1> HIDE DEF f
<1>9. TimerInv'
  <2>1. \A u \in Threads : Creating(me[u]) => me[u].own \in Sessions
    BY Mine
  <2> QED BY <1>2, <1>3, <1>4, <1>6, <1>7, <2>1, FreesTimer DEF IInv, RefInv
<1>10. mutex' \in Seq(Threads)
  BY <1>2 DEF IInv, Types
<1> QED BY <1>2, <1>3, <1>4, <1>5, <1>6, <1>8, <1>9, <1>10, Lining

-----------------------------------------------------------------------------
(***************************************************************************)
(* The number of the owners of a session, and of those that release it,    *)
(* when one thread goes on.                                                *)
(***************************************************************************)
One(b) == IF b THEN 1 ELSE 0
Owned(r, s) == IF r.own = s THEN 1 ELSE 0
Released(r, s) == IF Refs(r) /\ r.at = s THEN 1 ELSE 0
Managed(n) == IF n.closed THEN 0 ELSE 1

LEMMA CardWith ==
  ASSUME NEW S, NEW R, NEW x, IsFiniteSet(S), \A y : y # x => (y \in R <=> y \in S)
  PROVE  /\ Cardinality(S) \in Nat /\ Cardinality(R) \in Nat
         /\ Cardinality(R) = Cardinality(S) + One(x \in R) - One(x \in S)
<1>1. Cardinality(S) \in Nat
  BY FS_CardinalityType
<1>2. CASE x \in R
  <2>1. R = S \cup {x}
    BY <1>2
  <2>2. Cardinality(R) = IF x \in S THEN Cardinality(S) ELSE Cardinality(S) + 1
    BY <2>1, FS_AddElement
  <2> QED BY <1>1, <1>2, <2>2 DEF One
<1>3. CASE x \notin R
  <2>1. R = S \ {x}
    BY <1>3
  <2>2. Cardinality(R) = (IF x \in S THEN Cardinality(S) - 1 ELSE Cardinality(S)) /\ IsFiniteSet(R)
    BY <2>1, FS_RemoveElement
  <2>3. Cardinality(R) \in Nat
    BY <2>2, FS_CardinalityType
  <2> QED BY <1>1, <1>3, <2>2, <2>3 DEF One
<1> QED BY <1>2, <1>3

LEMMA Counts ==
  ASSUME Types, NEW t \in Threads, NEW r \in Local, me' = [me EXCEPT ![t] = r], NEW s \in Sessions
  PROVE  /\ Cardinality(Owners(s)) \in Nat /\ Cardinality(Releasers(s)) \in Nat
         /\ Cardinality(Owners(s)') \in Nat /\ Cardinality(Releasers(s)') \in Nat
         /\ Cardinality(Owners(s)') = Cardinality(Owners(s)) + Owned(r, s) - Owned(me[t], s)
         /\ Cardinality(Releasers(s)') = Cardinality(Releasers(s)) + Released(r, s)
                                           - Released(me[t], s)
<1>1. me'[t] = r /\ \A u \in Threads : u # t => me'[u] = me[u]
  BY Updated
<1>2. IsFiniteSet(Owners(s)) /\ IsFiniteSet(Releasers(s))
  BY Finite
<1>3. /\ \A y : y # t => (y \in Owners(s)' <=> y \in Owners(s))
      /\ t \in Owners(s)' <=> r.own = s
      /\ t \in Owners(s) <=> me[t].own = s
  BY <1>1 DEF Owners
<1>4. /\ \A y : y # t => (y \in Releasers(s)' <=> y \in Releasers(s))
      /\ t \in Releasers(s)' <=> (Refs(r) /\ r.at = s)
      /\ t \in Releasers(s) <=> (Refs(me[t]) /\ me[t].at = s)
  BY <1>1 DEF Releasers, Releasing, Refs
<1> DEFINE S == Owners(s)
           R == Owners(s)'
           V == Releasers(s)
           W == Releasers(s)'
<1>5. IsFiniteSet(S) /\ (\A y : y # t => (y \in R <=> y \in S)) /\ IsFiniteSet(V)
      /\ (\A y : y # t => (y \in W <=> y \in V))
  BY <1>2, <1>3, <1>4
<1> HIDE DEF S, R, V, W
<1>6. /\ Cardinality(S) \in Nat /\ Cardinality(R) \in Nat
      /\ Cardinality(R) = Cardinality(S) + One(t \in R) - One(t \in S)
  BY <1>5, CardWith DEF One
<1>7. /\ Cardinality(V) \in Nat /\ Cardinality(W) \in Nat
      /\ Cardinality(W) = Cardinality(V) + One(t \in W) - One(t \in V)
  BY <1>5, CardWith DEF One
<1>8. /\ One(t \in R) = Owned(r, s) /\ One(t \in S) = Owned(me[t], s)
      /\ One(t \in W) = Released(r, s)
      /\ One(t \in V) = Released(me[t], s)
  BY <1>3, <1>4 DEF One, Owned, Released, S, R, V, W
<1> QED BY <1>6, <1>7, <1>8 DEF S, R, V, W

(***************************************************************************)
(* The references of a live session are as many as its count says.         *)
(***************************************************************************)
LEMMA CountOf ==
  ASSUME IInv, NEW s \in Sessions
  PROVE  /\ Cardinality(Owners(s)) \in Nat /\ Cardinality(Releasers(s)) \in Nat
         /\ sess[s] \in Session
         /\ sess[s].state = "live" =>
              sess[s].cnt = Cardinality(Owners(s)) + Cardinality(Releasers(s)) + Managed(sess[s])
         /\ sess[s].state # "live" => Owners(s) = {} /\ Releasers(s) = {}
         /\ \A u \in Threads : /\ me[u].own = s => Cardinality(Owners(s)) > 0
                               /\ Refs(me[u]) /\ me[u].at = s => Cardinality(Releasers(s)) > 0
<1>1. Cardinality(Owners(s)) \in Nat /\ Cardinality(Releasers(s)) \in Nat
  BY Finite, FS_CardinalityType
<1>2. sess[s] \in Session
  BY DEF IInv, Types
<1>3. sess[s].state = "live" =>
        sess[s].cnt = Cardinality(Owners(s)) + Cardinality(Releasers(s)) + Managed(sess[s])
  BY <1>2, CountIs DEF IInv, RefInv, Managed, Session
<1>4. sess[s].state # "live" => Owners(s) = {} /\ Releasers(s) = {}
  BY DEF IInv, RefInv, HeldAlive, Owners, Releasers
<1>5. ASSUME NEW u \in Threads
      PROVE  /\ me[u].own = s => Cardinality(Owners(s)) > 0
             /\ Refs(me[u]) /\ me[u].at = s => Cardinality(Releasers(s)) > 0
  <2>1. me[u].own = s => Owners(s) # {}
    BY DEF Owners
  <2>2. Refs(me[u]) /\ me[u].at = s => Releasers(s) # {}
    BY DEF Releasers, Releasing, Refs
  <2>3. /\ Cardinality(Owners(s)) = 0 => Owners(s) = {}
        /\ Cardinality(Releasers(s)) = 0 => Releasers(s) = {}
    BY Finite, FS_EmptySet
  <2> QED BY <1>1, <2>1, <2>2, <2>3
<1> QED BY <1>1, <1>2, <1>3, <1>4, <1>5

(***************************************************************************)
(* A step of thread t that moves references of session s alone.            *)
(***************************************************************************)
OfNo(t, r, s) == \A x \in Sessions \ {s} :
                   /\ r.own = x <=> me[t].own = x
                   /\ (Refs(r) /\ r.at = x) <=> (Refs(me[t]) /\ me[t].at = x)

Exact(t, r, s, n) ==
  n.cnt = Cardinality(Owners(s)) + Owned(r, s) - Owned(me[t], s)
          + Cardinality(Releasers(s)) + Released(r, s)
          - Released(me[t], s)
          + Managed(n)

LEMMA MovesRefs ==
  ASSUME IInv, NEW t \in Threads, NEW r \in Local, me' = [me EXCEPT ![t] = r], Placed(r),
         NEW s \in Sessions, NEW n \in Session, sess' = [sess EXCEPT ![s] = n],
         n.state # "unused", OfNo(t, r, s),
         n.state = "live" => Exact(t, r, s, n),
         n.state # "live" => /\ Owners(s) = {} /\ Releasers(s) = {}
                             /\ r.own # s /\ ~(Refs(r) /\ r.at = s),
         r.at # None => r.at \in {me[t].at, s},
         r.fired = me[t].fired,
         \A a \in Timers : timer'[a] # None =>
            timer'[a] \in Handles /\ (timer'[a][1] = s \/ sess[timer'[a][1]].state # "unused"),
         Published',
         \A u \in Threads \ {t} : ~(me[u].pc = "close" /\ me[u].at = s),
         r.pc = "close" => r.at = s /\ n.state = "live" /\ n.cnt = 0 /\ n.closed
  PROVE  RefInv'
<1>1. me' \in [Threads -> Local] /\ me'[t] = r /\ \A u \in Threads : u # t => me'[u] = me[u]
  BY Updated DEF IInv
<1>2. sess'[s] = n /\ \A x \in Sessions \ {s} : sess'[x] = sess[x]
  BY DEF IInv, Types
<1>3. \A u \in Threads : Placed(me[u])'
  BY <1>1 DEF IInv, RefInv, Placed
<1>4. \A x \in Sessions : sess[x].state # "unused" => sess'[x].state # "unused"
  BY <1>2
<1>5. Known'
  <2>1. ASSUME NEW u \in Threads, me'[u].at # None PROVE sess'[me'[u].at].state # "unused"
    <3>1. me'[u].at \in Sessions /\ (me'[u].at = s \/ sess[me'[u].at].state # "unused")
      BY <1>1, <2>1 DEF IInv, RefInv, Known, Local
    <3> QED BY <1>2, <1>4, <3>1
  <2>2. ASSUME NEW u \in Threads, me'[u].fired # NoTimer
        PROVE  sess'[me'[u].fired[2][1]].state # "unused"
    <3>1. me'[u].fired = me[u].fired /\ me[u].fired \in TimerOf
      BY <1>1, <2>2 DEF IInv, RefInv, Placed
    <3>2. me[u].fired[2][1] \in Sessions /\ sess[me[u].fired[2][1]].state # "unused"
      BY <2>2, <3>1, HandleIs DEF IInv, RefInv, Known
    <3> QED BY <1>4, <3>1, <3>2
  <2>3. ASSUME NEW a \in Timers, timer'[a] # None PROVE sess'[timer'[a][1]].state # "unused"
    BY <1>2, <1>4, <2>3, HandleIs
  <2> QED BY <2>1, <2>2, <2>3 DEF Known
<1>6. Closing'
  <2>1. ASSUME NEW u \in Threads, u # t, me'[u].pc = "close"
        PROVE  me'[u] = me[u] /\ me[u].at \in Sessions \ {s} /\ sess'[me[u].at] = sess[me[u].at]
    <3>1. me'[u] = me[u] /\ me[u].at # s
      BY <1>1, <2>1
    <3>2. me[u].at \in Sessions
      BY <2>1, <3>1, Mine DEF Placed, Retiring
    <3> QED BY <1>2, <3>1, <3>2
  <2>2. \A u \in Threads : me'[u].pc = "close" =>
          /\ sess'[me'[u].at].state = "live" /\ sess'[me'[u].at].cnt = 0 /\ sess'[me'[u].at].closed
    BY <1>1, <1>2, <2>1 DEF IInv, RefInv, Closing
  <2>3. \A u, v \in Threads :
          me'[u].pc = "close" /\ me'[v].pc = "close" /\ me'[u].at = me'[v].at => u = v
    BY <1>1, <2>1 DEF IInv, RefInv, Closing
  <2> QED BY <2>2, <2>3 DEF Closing
<1>7. LinkCount'
  <2> SUFFICES ASSUME NEW x \in Sessions, sess'[x].state = "live"
               PROVE  sess'[x].cnt = Cardinality(Owners(x)') + Cardinality(Releasers(x)')
                                     + (IF sess'[x].closed THEN 0 ELSE 1)
    BY CountNext
  <2>1. /\ Cardinality(Owners(x)) \in Nat /\ Cardinality(Releasers(x)) \in Nat
        /\ Cardinality(Owners(x)') \in Nat /\ Cardinality(Releasers(x)') \in Nat
        /\ Cardinality(Owners(x)') = Cardinality(Owners(x)) + Owned(r, x) - Owned(me[t], x)
        /\ Cardinality(Releasers(x)') = Cardinality(Releasers(x)) + Released(r, x)
                                          - Released(me[t], x)
    BY Counts DEF IInv
  <2>2. CASE x = s
    <3>1. Exact(t, r, x, n) /\ sess'[x] = n
      BY <1>2, <2>2
    <3>2. n.cnt = Cardinality(Owners(x)') + Cardinality(Releasers(x)') + Managed(n)
      BY <2>1, <3>1 DEF Exact, Owned, Released, Managed, Session
    <3> QED BY <3>1, <3>2 DEF Managed, Session
  <2>3. CASE x # s
    <3>1. sess'[x] = sess[x]
      BY <1>2, <2>3
    <3>2. /\ r.own = x <=> me[t].own = x
          /\ (Refs(r) /\ r.at = x) <=> (Refs(me[t]) /\ me[t].at = x)
      BY <2>3 DEF OfNo
    <3>3. /\ Cardinality(Owners(x)') = Cardinality(Owners(x))
          /\ Cardinality(Releasers(x)') = Cardinality(Releasers(x))
      BY <2>1, <3>2 DEF Owned, Released
    <3> QED BY <3>1, <3>3, CountIs DEF IInv, RefInv
  <2> QED BY <2>2, <2>3
<1>8. HeldAlive'
  <2> SUFFICES ASSUME NEW u \in Threads, NEW x \in Sessions,
                      me'[u].own = x \/ (Refs(me'[u]) /\ me'[u].at = x)
               PROVE  sess'[x].state = "live"
    BY DEF HeldAlive, Releasing, Refs
  <2>1. CASE x = s
    <3>1. n.state # "live" => ~(me'[u].own = s \/ (Refs(me'[u]) /\ me'[u].at = s))
      BY <1>1 DEF Owners, Releasers, Releasing, Refs
    <3> QED BY <1>2, <2>1, <3>1
  <2>2. CASE x # s
    <3>1. me[u].own = x \/ (Refs(me[u]) /\ me[u].at = x)
      BY <1>1, <2>2 DEF OfNo
    <3>2. sess[x].state = "live"
      BY <3>1 DEF IInv, RefInv, HeldAlive, Releasing, Refs
    <3> QED BY <1>2, <2>2, <3>2
  <2> QED BY <2>1, <2>2
<1> QED BY <1>3, <1>5, <1>6, <1>7, <1>8 DEF RefInv

(***************************************************************************)
(* The same, of a step that neither uses the mutex nor the timers.         *)
(***************************************************************************)
LEMMA Moves ==
  ASSUME IInv, NEW t \in Threads, NEW r \in Local, me' = [me EXCEPT ![t] = r], Placed(r),
         NEW s \in Sessions, NEW n \in Session, sess' = [sess EXCEPT ![s] = n],
         n.state # "unused", OfNo(t, r, s),
         n.state = "live" => Exact(t, r, s, n),
         n.state # "live" => /\ Owners(s) = {} /\ Releasers(s) = {}
                             /\ r.own # s /\ ~(Refs(r) /\ r.at = s),
         r.at # None => r.at \in {me[t].at, s},
         r.fired = me[t].fired,
         listed' \in Seq(Sessions), Published',
         \A u \in Threads \ {t} : ~(me[u].pc = "close" /\ me[u].at = s),
         r.pc = "close" => r.at = s /\ n.state = "live" /\ n.cnt = 0 /\ n.closed,
         UNCHANGED timers,
         me[t].pc \notin InLine, r.pc \notin InLine, r.pc # "rmfree", ~Creating(r)
  PROVE  IInv'
<1>1. timer' = timer /\ handle' = handle /\ list' = list /\ mutex' = mutex
  BY DEF timers
<1>2. Types'
  <2>1. sess' \in [Sessions -> Session]
    BY DEF IInv, Types
  <2> QED BY <1>1, <2>1, Updated DEF IInv, Types
<1>3. RefInv'
  <2>1. \A a \in Timers : timer'[a] # None =>
            timer'[a] \in Handles /\ (timer'[a][1] = s \/ sess[timer'[a][1]].state # "unused")
    BY <1>1 DEF IInv, Types, RefInv, Known
  <2> QED BY <2>1, MovesRefs
<1>4. TimerInv'
  <2>1. \A x \in Sessions : sess'[x].state = "unused" => sess[x].state = "unused"
    BY DEF IInv, Types
  <2>2. \A u \in Threads : Creating(me[u]) => me[u].own \in Sessions
    BY Mine
  <2> QED BY <2>1, <2>2, QuietTimers DEF IInv
<1> QED BY <1>2, <1>3, <1>4 DEF IInv

-----------------------------------------------------------------------------
(***************************************************************************)
(* The steps that add a timer.                                             *)
(***************************************************************************)
LEMMA AddInactivityKeeps ==
  ASSUME IInv, NEW t \in Threads, AddInactivity(t)
  PROVE  IInv'
<1> DEFINE s == me[t].own
           h == <<s, "i">>
<1>1. me[t] \in Local /\ Placed(me[t]) /\ me[t].pc = "addi" /\ UNCHANGED <<sess, listed, list>>
  BY Mine DEF AddInactivity, Turn
<1>2. s \in Sessions /\ sess[s].state = "live" /\ me[t].at = None
  BY <1>1, Mine DEF Placed, Owning
<1>3. h \in Handles /\ h[1] = s /\ h[2] = "i"
  BY <1>2, HandleIs
<1>4. Creating(me[t]) /\ handle[h] = None
  BY <1>1 DEF IInv, TimerInv, Creators, Creating
<1>5. \A u \in Threads \ {t} : Creating(me[u]) => me[u].own # s
  BY <1>4 DEF IInv, TimerInv, Creators
<1>6. PICK a \in Timers :
        /\ timer[a] = None /\ timer' = [timer EXCEPT ![a] = h] /\ handle' = [handle EXCEPT ![h] = a]
        /\ Acquire(t) /\ me' = [me EXCEPT ![t] = [me[t] EXCEPT !.pc = "adding", !.work = <<a, h>>]]
  BY DEF AddInactivity, AddWatchdog, Goto, Go
<1> HIDE DEF h
<1> DEFINE w == <<a, h>>
           r == [me[t] EXCEPT !.pc = "adding", !.work = w]
<1>7. w \in TimerRef /\ w \in TimerOf /\ w[2] = h
  BY <1>3, HandleIs
<1> HIDE DEF w
<1>8. /\ r \in Local /\ r.pc = "adding" /\ r.own = s /\ r.at = None /\ r.work = w
      /\ r.fired = me[t].fired
  <2>1. "adding" \in Labels
    BY DEF Labels
  <2> QED BY <1>1, <1>2, <1>7, <2>1 DEF Local
<1>9. me' = [me EXCEPT ![t] = r]
  BY <1>6 DEF w
<1> HIDE DEF r, s
<1>10. Placed(r)
  <2>1. s # None
    BY <1>2, NotNone
  <2> QED BY <1>1, <1>3, <1>7, <1>8, <2>1 DEF Placed, Owning, Retiring
<1>11. ~Refs(r) /\ ~Refs(me[t]) /\ me[t].pc \notin InLine
  BY <1>1, <1>8 DEF Refs, InLine
<1>12. mutex' \in Seq(Threads) /\ TimerInv'
  <2>1. \A u \in Threads : Creating(me[u]) => me[u].own \in Sessions
    BY Mine
  <2>2. sess'[h[1]].state # "unused" /\ sess' = sess /\ list' = list
    BY <1>1, <1>2, <1>3
  <2>3. r.work = <<a, h>>
    BY <1>8 DEF w
  <2>4. Types /\ TimerInv /\ \A u \in Threads : Placed(me[u])
    BY DEF IInv, RefInv
  <2>5. /\ timer[a] = None /\ timer' = [timer EXCEPT ![a] = h] /\ handle' = [handle EXCEPT ![h] = a]
        /\ Acquire(t)
    BY <1>6
  <2>6. /\ me[t].pc # "rmfree" /\ r.own = h[1] /\ h[2] # "w"
        /\ \A u \in Threads \ {t} : Creating(me[u]) => me[u].own # r.own
        /\ \A x \in Sessions : sess'[x].state = "unused" => sess[x].state = "unused"
    BY <1>1, <1>3, <1>5, <1>8
  <2> QED BY <1>3, <1>4, <1>8, <1>9, <1>11, <2>1, <2>2, <2>3, <2>4, <2>5, <2>6, AddTimers
<1>13. /\ timer' \in [Timers -> Handles \cup {None}] /\ handle' \in [Handles -> Timers \cup {None}]
       /\ list' \subseteq Timers
  BY <1>1, <1>3, <1>6 DEF IInv, Types
<1>14. \A b \in Timers : timer'[b] # None => sess[timer'[b][1]].state # "unused"
  BY <1>2, <1>3, <1>6 DEF IInv, Types, RefInv, Known
<1>15. r.fired # NoTimer => sess[r.fired[2][1]].state # "unused"
  BY <1>8, Mine
<1> QED BY <1>1, <1>2, <1>8, <1>9, <1>10, <1>11, <1>12, <1>13, <1>14, <1>15, Lining DEF s

LEMMA CreateSessionKeeps ==
  ASSUME IInv, NEW t \in Threads, CreateSession(t)
  PROVE  IInv'
<1>1. me[t] \in Local /\ Placed(me[t]) /\ me[t].pc = "create" /\ list' = list
  BY Mine DEF CreateSession, Turn
<1>2. me[t].own = None /\ me[t].at = None
  BY <1>1 DEF Placed
<1> DEFINE n == [Unused EXCEPT !.state = "live", !.cnt = 2]
<1>3. PICK s \in Sessions :
        /\ sess[s].state = "unused" /\ sess' = [sess EXCEPT ![s] = n]
        /\ listed' = Append(listed, s) /\ AddWatchdog(t, [me[t] EXCEPT !.own = s], <<s, "w">>)
  BY DEF CreateSession
<1>4. n \in Session /\ n.state = "live" /\ n.cnt = 2 /\ ~n.closed
  <2>1. None \in Handles \cup {None} /\ 2 \in Int
    OBVIOUS
  <2> QED BY <2>1 DEF Unused, Session
<1> HIDE DEF n
<1> DEFINE h == <<s, "w">>
<1>5. h \in Handles /\ h[1] = s /\ h[2] = "w" /\ handle[h] = None /\ handle[<<s, "i">>] = None
  BY <1>3, HandleIs DEF IInv, TimerInv, Fresh
<1>6. s # None /\ Owners(s) = {} /\ Releasers(s) = {}
  BY <1>3, NotNone, CountOf
<1>7. \A u \in Threads : me[u].own # s
  BY <1>6 DEF Owners
<1>8. PICK a \in Timers :
        /\ timer[a] = None /\ timer' = [timer EXCEPT ![a] = h] /\ handle' = [handle EXCEPT ![h] = a]
        /\ Acquire(t)
        /\ me' = [me EXCEPT ![t] = [[me[t] EXCEPT !.own = s] EXCEPT !.pc = "adding", !.work = <<a, h>>]]
  BY <1>3 DEF AddWatchdog, Goto, Go
<1> HIDE DEF h
<1> DEFINE w == <<a, h>>
           q == [me[t] EXCEPT !.own = s]
           r == [q EXCEPT !.pc = "adding", !.work = w]
<1>9. w \in TimerRef /\ w \in TimerOf /\ w[2] = h
  BY <1>5, HandleIs
<1> HIDE DEF w
<1>10. q \in Local /\ q.own = s /\ q.at = None /\ q.fired = me[t].fired
  BY <1>1, <1>2 DEF Local
<1>11. me' = [me EXCEPT ![t] = r]
  BY <1>8 DEF w
<1> HIDE DEF q
<1>12. /\ r \in Local /\ r.pc = "adding" /\ r.own = s /\ r.at = None /\ r.work = w
       /\ r.fired = me[t].fired
  <2>1. "adding" \in Labels
    BY DEF Labels
  <2> QED BY <1>9, <1>10, <2>1 DEF Local
<1> HIDE DEF r
<1>13. Placed(r)
  BY <1>1, <1>5, <1>6, <1>9, <1>12 DEF Placed, Owning, Retiring
<1>14. ~Refs(r) /\ ~Refs(me[t]) /\ me[t].pc \notin InLine
  BY <1>1, <1>12 DEF Refs, InLine
<1>15. listed' \in Seq(Sessions) /\ Published'
  <2>1. listed \in Seq(Sessions) /\ Once(listed) /\ s \notin In(listed)
    <3>1. \A x \in In(listed) : sess[x].state = "live"
      BY DEF IInv, RefInv, Published
    <3> QED BY <1>3, <3>1 DEF IInv, Types, RefInv, Published
  <2>2. listed' \in Seq(Sessions) /\ Once(listed') /\ In(listed') = In(listed) \cup {s}
    BY <1>3, <2>1, AskAppends
  <2>3. \A x \in In(listed) : x \in Sessions /\ x # s /\ sess[x].state = "live" /\ ~sess[x].closed
    BY <2>1, ListedKnown
  <2>4. \A x \in In(listed') : sess'[x].state = "live" /\ ~sess'[x].closed
    BY <1>3, <1>4, <2>2, <2>3 DEF IInv, Types
  <2> QED BY <2>2, <2>4 DEF Published
<1>16. mutex' \in Seq(Threads) /\ TimerInv'
  <2>1. \A u \in Threads : Creating(me[u]) => me[u].own \in Sessions
    BY Mine
  <2>2. /\ sess'[h[1]].state # "unused"
        /\ \A x \in Sessions : sess'[x].state = "unused" => sess[x].state = "unused"
    BY <1>3, <1>4, <1>5 DEF IInv, Types
  <2>3. r.work = <<a, h>>
    BY <1>12 DEF w
  <2>4. \A u \in Threads \ {t} : Creating(me[u]) => me[u].own # r.own
    BY <1>7, <1>12
  <2>5. h[2] = "w" => handle[<<r.own, "i">>] = None
    BY <1>5, <1>12
  <2>6. Types /\ TimerInv /\ \A u \in Threads : Placed(me[u])
    BY DEF IInv, RefInv
  <2>7. /\ timer[a] = None /\ timer' = [timer EXCEPT ![a] = h] /\ handle' = [handle EXCEPT ![h] = a]
        /\ Acquire(t)
    BY <1>8
  <2>8. me[t].pc # "rmfree" /\ r.own = h[1]
    BY <1>1, <1>5, <1>12
  <2> QED BY <1>1, <1>5, <1>11, <1>12, <1>14, <2>1, <2>2, <2>3, <2>4, <2>5, <2>6, <2>7, <2>8,
             AddTimers
<1>17. RefInv'
  <2>1. OfNo(t, r, s)
    BY <1>2, <1>12, <1>14, NotNone DEF OfNo
  <2>2. Exact(t, r, s, n)
    <3>1. Cardinality(Owners(s)) = 0 /\ Cardinality(Releasers(s)) = 0
      BY <1>6, FS_EmptySet
    <3>2. Owned(r, s) = 1 /\ Owned(me[t], s) = 0 /\ Released(r, s) = 0 /\ Released(me[t], s) = 0
      BY <1>7, <1>12, <1>14 DEF Owned, Released
    <3> QED BY <1>4, <3>1, <3>2 DEF Exact, Managed
  <2>3. \A b \in Timers : timer'[b] # None =>
          timer'[b] \in Handles /\ (timer'[b][1] = s \/ sess[timer'[b][1]].state # "unused")
    BY <1>5, <1>8 DEF IInv, Types, RefInv, Known
  <2>4. \A u \in Threads \ {t} : ~(me[u].pc = "close" /\ me[u].at = s)
    BY <1>3 DEF IInv, RefInv, Closing
  <2> QED BY <1>3, <1>4, <1>11, <1>12, <1>13, <1>15, <2>1, <2>2, <2>3, <2>4, MovesRefs
<1>18. Types'
  <2>1. /\ timer' \in [Timers -> Handles \cup {None}] /\ handle' \in [Handles -> Timers \cup {None}]
        /\ list' \subseteq Timers /\ sess' \in [Sessions -> Session]
    BY <1>1, <1>3, <1>4, <1>5, <1>8 DEF IInv, Types
  <2>2. me' \in [Threads -> Local]
    BY <1>11, <1>12, Updated DEF IInv
  <2> QED BY <1>15, <1>16, <2>1, <2>2 DEF Types
<1> QED BY <1>16, <1>17, <1>18 DEF IInv

-----------------------------------------------------------------------------
(***************************************************************************)
(* The steps that take a reference, hand it over or release it.            *)
(***************************************************************************)
LEMMA SameSess ==
  ASSUME IInv, NEW s \in Sessions, sess' = sess, listed' = listed
  PROVE  /\ sess[s] \in Session /\ sess' = [sess EXCEPT ![s] = sess[s]]
         /\ listed' \in Seq(Sessions) /\ Published'
BY DEF IInv, Types, RefInv, Published

LEMMA FindSessionKeeps ==
  ASSUME IInv, NEW t \in Threads, FindSession(t)
  PROVE  IInv'
<1>1. me[t] \in Local /\ Placed(me[t]) /\ me[t].pc = "idle" /\ listed' = listed /\ UNCHANGED timers
  BY Mine DEF FindSession, Turn
<1>2. me[t].own = None /\ me[t].at = None
  BY <1>1 DEF Placed
<1>3. PICK s \in In(listed) :
        /\ sess' = [sess EXCEPT ![s].cnt = @ + 1]
        /\ me' = [me EXCEPT ![t] = Found(t, s)]
  BY DEF FindSession, Goto, Go, Listed
<1>4. s \in Sessions /\ s # None /\ sess[s].state = "live" /\ ~sess[s].closed /\ sess[s] \in Session
  BY ListedKnown, NotNone, CountOf
<1> DEFINE n == [sess[s] EXCEPT !.cnt = @ + 1]
           r == Found(t, s)
<1>5. n \in Session /\ n.state = "live" /\ n.cnt = sess[s].cnt + 1 /\ ~n.closed
  BY <1>4 DEF Session
<1>6. sess' = [sess EXCEPT ![s] = n]
  BY <1>3
<1>7. r \in Local /\ r.pc = "linked" /\ r.own = s /\ r.at = None /\ r.fired = me[t].fired
  <2>1. "linked" \in Labels
    BY DEF Labels
  <2>2. sess[s].w \in Handles \cup {None} /\ sess[s].i \in Handles \cup {None}
    BY <1>4 DEF Session
  <2> QED BY <1>1, <1>2, <1>4, <2>1, <2>2 DEF Found, Local
<1>8. me' = [me EXCEPT ![t] = r]
  BY <1>3
<1> HIDE DEF n, r
<1>9. Placed(r)
  BY <1>1, <1>4, <1>7 DEF Placed, Owning, Retiring
<1>10. /\ ~Refs(r) /\ ~Refs(me[t]) /\ ~Creating(r) /\ me[t].pc \notin InLine /\ r.pc \notin InLine
       /\ r.pc # "rmfree" /\ r.pc # "close"
  BY <1>1, <1>7 DEF Refs, Creating, InLine
<1>11. OfNo(t, r, s)
  BY <1>2, <1>7, <1>10, NotNone DEF OfNo
<1>12. Exact(t, r, s, n)
  <2>1. Owned(r, s) = 1 /\ Owned(me[t], s) = 0 /\ Released(r, s) = 0 /\ Released(me[t], s) = 0
    BY <1>2, <1>4, <1>7, <1>10 DEF Owned, Released
  <2>2. Managed(n) = 1 /\ Managed(sess[s]) = 1
    BY <1>4, <1>5 DEF Managed
  <2> QED BY <1>4, <1>5, <2>1, <2>2, CountOf DEF Exact
<1>13. listed' \in Seq(Sessions) /\ Published'
  BY <1>1, <1>4, <1>5, <1>6 DEF IInv, Types, RefInv, Published
<1>14. \A u \in Threads \ {t} : ~(me[u].pc = "close" /\ me[u].at = s)
  BY <1>4 DEF IInv, RefInv, Closing
<1> QED BY <1>1, <1>4, <1>5, <1>6, <1>7, <1>8, <1>9, <1>10, <1>11, <1>12, <1>13, <1>14, Moves

LEMMA FreeConnKeeps ==
  ASSUME IInv, NEW t \in Threads, FreeConn(t)
  PROVE  IInv'
<1> DEFINE s == me[t].own
           r == [ToUnlink(t, s, "idle") EXCEPT !.own = None, !.w_timer = None, !.i_timer = None]
<1>1. me[t] \in Local /\ Placed(me[t]) /\ me[t].pc = "done" /\ UNCHANGED <<sess, listed, timers>>
  BY Mine DEF FreeConn, Turn
<1>2. s \in Sessions /\ s # None /\ me[t].at = None /\ sess[s].state = "live"
  BY <1>1, Mine DEF Placed, Owning
<1>3. me' = [me EXCEPT ![t] = r]
  BY DEF FreeConn, Stay, Go
<1>4. /\ r \in Local /\ r.pc = "unlink" /\ r.own = None /\ r.at = s /\ r.ret = "idle"
      /\ r.fired = me[t].fired
  <2>1. {"idle", "unlink"} \subseteq Labels /\ s \in Sessions \cup {None} /\ None \in Sessions \cup {None}
    BY <1>2 DEF Labels
  <2> QED BY <1>1, <2>1 DEF ToUnlink, Local
<1>5. me[t].own = s
  OBVIOUS
<1> HIDE DEF r, s
<1>6. Placed(r)
  BY <1>1, <1>2, <1>4 DEF Placed, Owning, Retiring
<1>7. /\ Refs(r) /\ ~Refs(me[t]) /\ ~Creating(r) /\ me[t].pc \notin InLine /\ r.pc \notin InLine
      /\ r.pc # "rmfree" /\ r.pc # "close"
  BY <1>1, <1>4 DEF Refs, Creating, InLine
<1>8. OfNo(t, r, s)
  BY <1>4, <1>5, <1>7, NotNone DEF OfNo
<1>9. Exact(t, r, s, sess[s])
  <2>1. Owned(r, s) = 0 /\ Owned(me[t], s) = 1 /\ Released(r, s) = 1 /\ Released(me[t], s) = 0
    BY <1>2, <1>4, <1>5, <1>7 DEF Owned, Released
  <2> QED BY <1>2, <2>1, CountOf DEF Exact, Managed
<1>10. \A u \in Threads \ {t} : ~(me[u].pc = "close" /\ me[u].at = s)
  <2>1. Cardinality(Owners(s)) > 0
    BY <1>2, <1>5, CountOf
  <2>2. sess[s].cnt # 0
    BY <1>2, <2>1, CountOf DEF Managed
  <2> QED BY <2>2 DEF IInv, RefInv, Closing
<1> QED BY <1>1, <1>2, <1>3, <1>4, <1>6, <1>7, <1>8, <1>9, <1>10, SameSess, Moves

LEMMA RetireSessKeeps ==
  ASSUME IInv, NEW t \in Threads, RetireSess(t)
  PROVE  IInv'
<1> DEFINE s == me[t].at
<1>1. me[t] \in Local /\ Placed(me[t]) /\ me[t].pc = "retire" /\ ~Freed(s) /\ UNCHANGED timers
  BY Mine DEF RetireSess, Turn
<1>2. s \in Sessions /\ s # None /\ sess[s].state = "live" /\ sess[s] \in Session
  <2>1. s # None
    BY <1>1 DEF Placed, Retiring
  <2>2. s \in Sessions /\ sess[s].state # "unused"
    BY <2>1, Mine
  <2> QED BY <1>1, <2>1, <2>2, CountOf DEF Freed, Session
<1>3. CASE sess[s].closed
  <2> DEFINE r == Returned(t)
  <2>1. me' = [me EXCEPT ![t] = r] /\ sess' = sess /\ listed' = listed
    BY <1>3 DEF RetireSess, Stay, Go
  <2>2. Placed(r) /\ r.pc \in {"idle", "create", "done", "alldone", "wfree"}
    BY <1>1, PlacedReturned DEF Retiring
  <2>3. r \in Local /\ r.own = me[t].own /\ r.at = None /\ r.fired = me[t].fired
    BY <1>1, ReturnedIs
  <2> HIDE DEF r
  <2>4. /\ ~Refs(r) /\ ~Refs(me[t]) /\ ~Creating(r) /\ me[t].pc \notin InLine /\ r.pc \notin InLine
        /\ r.pc \notin {"close", "rmfree"}
    BY <1>1, <2>2 DEF Refs, Creating, InLine
  <2> QED BY <1>1, <2>1, <2>2, <2>3, <2>4, SessSame, Quiet
<1>4. CASE ~sess[s].closed
  <2> DEFINE r == To(t, "rmw")
             n == [sess[s] EXCEPT !.closed = TRUE]
  <2>1. me' = [me EXCEPT ![t] = r] /\ sess' = [sess EXCEPT ![s] = n] /\ listed' = TakenOut(listed, s)
    BY <1>4 DEF RetireSess, Stay, Go
  <2>2. n \in Session /\ n.state = "live" /\ n.cnt = sess[s].cnt /\ n.closed
    BY <1>2 DEF Session
  <2>3. /\ r \in Local /\ r.pc = "rmw" /\ r.own = me[t].own /\ r.at = s /\ r.ret = me[t].ret
        /\ r.fired = me[t].fired
    BY <1>1, ToIs DEF Labels
  <2>4. me[t].at = s
    OBVIOUS
  <2> HIDE DEF r, n, s
  <2>5. Placed(r)
    BY <1>1, <1>2, <2>3, <2>4 DEF Placed, Owning, Retiring
  <2>6. /\ Refs(r) /\ ~Refs(me[t]) /\ ~Creating(r) /\ me[t].pc \notin InLine /\ r.pc \notin InLine
        /\ r.pc # "close" /\ r.pc # "rmfree"
    BY <1>1, <2>3 DEF Refs, Creating, InLine
  <2>7. OfNo(t, r, s)
    BY <2>3, <2>6 DEF OfNo
  <2>8. Exact(t, r, s, n)
    <3>1. Owned(r, s) = Owned(me[t], s) /\ Owned(me[t], s) \in Int /\ Released(r, s) = 1 /\ Released(me[t], s) = 0
      BY <2>3, <2>6 DEF Owned, Released
    <3>2. Managed(n) = 0 /\ Managed(sess[s]) = 1
      BY <1>4, <2>2 DEF Managed
    <3> QED BY <1>2, <2>2, <3>1, <3>2, CountOf DEF Exact
  <2>9. listed' \in Seq(Sessions) /\ Published'
    <3>1. listed \in Seq(Sessions) /\ Once(listed)
      BY DEF IInv, Types, RefInv, Published
    <3>2. listed' \in Seq(Sessions) /\ Once(listed') /\ In(listed') = In(listed) \ {s}
      BY <2>1, <3>1, TakenOutIs
    <3>3. \A x \in In(listed) : x \in Sessions /\ sess[x].state = "live" /\ ~sess[x].closed
      BY ListedKnown
    <3>4. \A x \in In(listed') : sess'[x].state = "live" /\ ~sess'[x].closed
      BY <2>1, <3>2, <3>3 DEF IInv, Types
    <3> QED BY <3>2, <3>4 DEF Published
  <2>10. \A u \in Threads \ {t} : ~(me[u].pc = "close" /\ me[u].at = s)
    BY <1>4 DEF IInv, RefInv, Closing
  <2> QED BY <1>1, <1>2, <2>1, <2>2, <2>3, <2>5, <2>6, <2>7, <2>8, <2>9, <2>10, Moves
<1> QED BY <1>3, <1>4

LEMMA DelistedKeeps ==
  ASSUME IInv, NEW t \in Threads, Delisted(t)
  PROVE  IInv'
<1> DEFINE s == me[t].at
           r == To(t, "unlink")
           n == [sess[s] EXCEPT !.w = None, !.i = None]
<1>1. /\ me[t] \in Local /\ Placed(me[t]) /\ me[t].pc = "delisted" /\ UNCHANGED timers
      /\ listed' = listed
  BY Mine DEF Delisted, Turn
<1>2. s \in Sessions /\ sess[s].state = "live" /\ sess[s] \in Session
  BY <1>1, Mine, CountOf DEF Refs
<1>3. me' = [me EXCEPT ![t] = r]
  BY DEF Delisted, Stay, Go
<1>4. n \in Session /\ n.state = sess[s].state /\ n.cnt = sess[s].cnt /\ n.closed = sess[s].closed
  BY <1>2 DEF Session
<1>5. sess' = [sess EXCEPT ![s] = n]
  BY <1>2 DEF Delisted, IInv, Types, Session
<1>6. /\ r \in Local /\ r.pc = "unlink" /\ r.own = me[t].own /\ r.at = me[t].at
      /\ r.ret = me[t].ret /\ r.fired = me[t].fired
  BY <1>1, ToIs DEF Labels
<1> HIDE DEF r, n
<1>7. Placed(r)
  BY <1>1, <1>6 DEF Placed, Owning, Retiring
<1>8. /\ Refs(r) /\ Refs(me[t]) /\ ~Creating(r) /\ me[t].pc \notin InLine /\ r.pc \notin InLine
      /\ r.pc \notin {"close", "rmfree"}
  BY <1>1, <1>6 DEF Refs, Creating, InLine
<1>9. /\ sess' \in [Sessions -> Session]
      /\ \A x \in Sessions : /\ sess'[x].state = sess[x].state /\ sess'[x].cnt = sess[x].cnt
                             /\ sess'[x].closed = sess[x].closed
  BY <1>2, <1>4, <1>5 DEF IInv, Types
<1>10. sess[r.at].state # "unused"
  BY <1>2, <1>6
<1> QED BY <1>1, <1>3, <1>6, <1>7, <1>8, <1>9, <1>10, Quiet

LEMMA UnlinkSessKeeps ==
  ASSUME IInv, NEW t \in Threads, UnlinkSess(t)
  PROVE  IInv'
<1> DEFINE s == me[t].at
           n == [sess[s] EXCEPT !.cnt = @ - 1]
<1>1. /\ me[t] \in Local /\ Placed(me[t]) /\ me[t].pc = "unlink" /\ UNCHANGED timers
      /\ listed' = listed /\ Refs(me[t])
  BY Mine DEF UnlinkSess, Turn, Refs
<1>2. s \in Sessions /\ s # None /\ sess[s].state = "live" /\ sess[s] \in Session
  BY <1>1, Mine, CountOf, NotNone
<1>3. n \in Session /\ n.state = "live" /\ n.cnt = sess[s].cnt - 1 /\ n.closed = sess[s].closed
  BY <1>2 DEF Session
<1>4. sess' = [sess EXCEPT ![s] = n]
  BY DEF UnlinkSess
<1>5. me[t].at = s
  OBVIOUS
<1>6. PICK r \in Local :
        /\ me' = [me EXCEPT ![t] = r] /\ Placed(r) /\ r.own = me[t].own /\ r.fired = me[t].fired
        /\ r.at \in {None, s} /\ r.pc \in {"idle", "create", "done", "alldone", "wfree", "close"}
        /\ r.pc = "close" => r.at = s /\ sess[s].cnt = 1
  <2>1. CASE sess[s].cnt = 1
    <3> DEFINE q == To(t, "close")
    <3>1. me' = [me EXCEPT ![t] = q]
      BY <2>1 DEF UnlinkSess, Goto, Go
    <3>2. /\ q \in Local /\ q.pc = "close" /\ q.own = me[t].own /\ q.at = me[t].at
          /\ q.ret = me[t].ret /\ q.fired = me[t].fired
      BY <1>1, ToIs DEF Labels
    <3> HIDE DEF q
    <3>3. Placed(q)
      BY <1>1, <3>2 DEF Placed, Owning, Retiring
    <3> QED BY <2>1, <3>1, <3>2, <3>3
  <2>2. CASE sess[s].cnt # 1
    <3> DEFINE q == Returned(t)
    <3>1. me' = [me EXCEPT ![t] = q]
      BY <2>2 DEF UnlinkSess, Stay, Go
    <3>2. Placed(q) /\ q.pc \in {"idle", "create", "done", "alldone", "wfree"}
      BY <1>1, PlacedReturned DEF Retiring
    <3>3. q \in Local /\ q.own = me[t].own /\ q.at = None /\ q.fired = me[t].fired
      BY <1>1, ReturnedIs
    <3> HIDE DEF q
    <3> QED BY <3>1, <3>2, <3>3
  <2> QED BY <2>1, <2>2
<1> HIDE DEF n, s
<1>7. /\ ~Refs(r) /\ ~Creating(r) /\ me[t].pc \notin InLine /\ r.pc \notin InLine /\ r.pc # "rmfree"
  BY <1>1, <1>6 DEF Refs, Creating, InLine
<1>8. Cardinality(Releasers(s)) > 0
  BY <1>1, <1>2, <1>5, CountOf
<1>9. OfNo(t, r, s)
  BY <1>5, <1>6, <1>7 DEF OfNo
<1>10. Exact(t, r, s, n)
  <2>1. Owned(r, s) = Owned(me[t], s) /\ Owned(me[t], s) \in Int /\ Released(r, s) = 0 /\ Released(me[t], s) = 1
    BY <1>1, <1>5, <1>6, <1>7 DEF Owned, Released
  <2>2. Managed(n) = Managed(sess[s]) /\ Managed(n) \in Int
    BY <1>3 DEF Managed
  <2> QED BY <1>2, <1>3, <2>1, <2>2, CountOf DEF Exact
<1>11. r.pc = "close" => r.at = s /\ n.cnt = 0 /\ n.closed
  <2>1. sess[s].cnt = 1 => sess[s].closed
    BY <1>2, <1>8, CountOf DEF Managed
  <2> QED BY <1>3, <1>6, <2>1
<1>12. \A u \in Threads \ {t} : ~(me[u].pc = "close" /\ me[u].at = s)
  <2>1. sess[s].cnt # 0
    BY <1>2, <1>8, CountOf DEF Managed
  <2> QED BY <2>1 DEF IInv, RefInv, Closing
<1>13. listed' \in Seq(Sessions) /\ Published'
  <2>1. \A x \in In(listed) : x \in Sessions /\ sess'[x].state = "live" /\ ~sess'[x].closed
    BY <1>2, <1>3, <1>4, ListedKnown DEF IInv, Types
  <2> QED BY <1>1, <2>1 DEF IInv, Types, RefInv, Published
<1>14. r.at # None => r.at \in {me[t].at, s}
  BY <1>6
<1> QED BY <1>1, <1>2, <1>3, <1>4, <1>6, <1>7, <1>9, <1>10, <1>11, <1>12, <1>13, <1>14, Moves

LEMMA CloseSessionKeeps ==
  ASSUME IInv, NEW t \in Threads, CloseSession(t)
  PROVE  IInv'
<1> DEFINE s == me[t].at
           n == [Unused EXCEPT !.state = "freed"]
           r == Returned(t)
<1>1. /\ me[t] \in Local /\ Placed(me[t]) /\ me[t].pc = "close" /\ UNCHANGED timers
      /\ listed' = listed /\ sess' = [sess EXCEPT ![s] = n] /\ me' = [me EXCEPT ![t] = r]
  BY Mine DEF CloseSession, Turn, Stay, Go
<1>2. s \in Sessions /\ s # None
  <2>1. s # None
    BY <1>1 DEF Placed, Retiring
  <2> QED BY <2>1, Mine
<1>3. sess[s].state = "live" /\ sess[s].cnt = 0 /\ sess[s].closed
  BY <1>1 DEF IInv, RefInv, Closing
<1>4. Owners(s) = {} /\ Releasers(s) = {}
  <2>1. Cardinality(Owners(s)) = 0 /\ Cardinality(Releasers(s)) = 0
    BY <1>2, <1>3, CountOf DEF Managed
  <2> QED BY <2>1, Finite, FS_EmptySet
<1>5. n \in Session /\ n.state = "freed"
  <2>1. None \in Handles \cup {None} /\ 0 \in Int
    OBVIOUS
  <2> QED BY <2>1 DEF Unused, Session
<1>6. Placed(r) /\ r.pc \in {"idle", "create", "done", "alldone", "wfree"}
  BY <1>1, PlacedReturned DEF Retiring
<1>7. r \in Local /\ r.own = me[t].own /\ r.at = None /\ r.fired = me[t].fired
  BY <1>1, ReturnedIs
<1> HIDE DEF n, r
<1>8. /\ ~Refs(r) /\ ~Refs(me[t]) /\ ~Creating(r) /\ me[t].pc \notin InLine /\ r.pc \notin InLine
      /\ r.pc # "close" /\ r.pc # "rmfree"
  BY <1>1, <1>6 DEF Refs, Creating, InLine
<1>9. me[t].own # s
  BY <1>4 DEF Owners
<1>10. OfNo(t, r, s)
  BY <1>7, <1>8 DEF OfNo
<1>11. \A u \in Threads \ {t} : ~(me[u].pc = "close" /\ me[u].at = s)
  BY <1>1 DEF IInv, RefInv, Closing
<1>12. listed' \in Seq(Sessions) /\ Published'
  <2>1. \A x \in In(listed) : x \in Sessions /\ sess'[x].state = "live" /\ ~sess'[x].closed
    BY <1>1, <1>2, <1>3, ListedKnown DEF IInv, Types
  <2> QED BY <1>1, <2>1 DEF IInv, Types, RefInv, Published
<1> QED BY <1>1, <1>2, <1>4, <1>5, <1>6, <1>7, <1>8, <1>9, <1>10, <1>11, <1>12, Moves

(***************************************************************************)
(* Nothing of this changes when freed memory is read, or when no one does  *)
(* anything.                                                               *)
(***************************************************************************)
LEMMA SameKeeps ==
  ASSUME IInv, UNCHANGED <<sess, listed, timer, handle, list, mutex, me>>
  PROVE  IInv'
<1>1. Types'
  BY DEF IInv, Types
<1>2. RefInv'
  <2>1. \A u \in Threads : \A s : Releasing(u, s)' <=> Releasing(u, s)
    BY DEF Releasing
  <2>2. \A s : Owners(s)' = Owners(s) /\ Releasers(s)' = Releasers(s)
    BY <2>1 DEF Owners, Releasers
  <2>3. LinkCount'
    BY <2>2, CountIs, CountNext DEF IInv, RefInv
  <2>4. HeldAlive'
    BY <2>1 DEF IInv, RefInv, HeldAlive
  <2>5. \A u \in Threads : Placed(me'[u])
    BY DEF IInv, RefInv
  <2>6. Known' /\ Published' /\ Closing'
    BY DEF IInv, RefInv, Known, Published, Closing
  <2> QED BY <2>3, <2>4, <2>5, <2>6 DEF RefInv
<1>3. TimerInv'
  BY DEF IInv, TimerInv, Lined, Timed, Fresh, Creators, Behind
<1> QED BY <1>1, <1>2, <1>3 DEF IInv

LEMMA UseFreedKeeps ==
  ASSUME IInv, NEW t \in Threads, UseFreed(t)
  PROVE  IInv'
<1>1. UNCHANGED <<sess, listed, timer, handle, list, mutex, me>>
  BY DEF UseFreed, timers
<1> QED BY <1>1, SameKeeps

-----------------------------------------------------------------------------
(***************************************************************************)
(* The invariant holds at first, and every step keeps it.                  *)
(***************************************************************************)
LEMMA InitHolds == Init => IInv
<1> SUFFICES ASSUME Init PROVE IInv
  OBVIOUS
<1>1. /\ sess = [s \in Sessions |-> Unused] /\ listed = <<>> /\ timer = [a \in Timers |-> None]
      /\ handle = [h \in Handles |-> None] /\ list = {} /\ mutex = <<>>
      /\ me = [t \in Threads |-> IF t = Watchdog THEN [Idle EXCEPT !.pc = "scan"] ELSE Idle]
  BY DEF Init
<1>2. /\ Unused \in Session /\ Unused.state = "unused"
  <2>1. None \in Handles \cup {None} /\ 0 \in Int
    OBVIOUS
  <2> QED BY <2>1 DEF Unused, Session
<1>3. \A t \in Threads : /\ me[t] \in Local /\ me[t].pc \in {"idle", "scan"} /\ me[t].own = None
                         /\ me[t].at = None /\ me[t].fired = NoTimer
  <2> DEFINE r == [Idle EXCEPT !.pc = "scan"]
  <2>1. /\ r \in Local /\ r.pc = "scan" /\ r.own = None /\ r.at = None /\ r.fired = NoTimer
        /\ Idle \in Local /\ Idle.pc = "idle" /\ Idle.own = None /\ Idle.at = None
        /\ Idle.fired = NoTimer
    BY IdleIs DEF Labels
  <2>2. \A t \in Threads : me[t] = r \/ me[t] = Idle
    BY <1>1
  <2> HIDE DEF r
  <2> QED BY <2>1, <2>2
<1>4. \A s \in Sessions : sess[s] = Unused /\ sess[s].state = "unused"
  BY <1>1, <1>2
<1>5. Types
  <2>1. /\ sess \in [Sessions -> Session] /\ timer \in [Timers -> Handles \cup {None}]
        /\ handle \in [Handles -> Timers \cup {None}]
    BY <1>1, <1>2
  <2>2. listed \in Seq(Sessions) /\ mutex \in Seq(Threads) /\ list \subseteq Timers
    BY <1>1
  <2>3. me \in [Threads -> Local]
    BY <1>1, <1>3
  <2> QED BY <2>1, <2>2, <2>3 DEF Types
<1>6. RefInv
  <2>1. \A t \in Threads : Placed(me[t])
    BY <1>3 DEF Placed, Owning, Retiring
  <2>2. Known
    BY <1>1, <1>3 DEF Known
  <2>3. Published
    <3>1. Once(listed) /\ In(listed) = {}
      BY <1>1 DEF Once, In
    <3> QED BY <3>1 DEF Published
  <2>4. Closing
    BY <1>3 DEF Closing
  <2>5. LinkCount
    BY <1>4 DEF LinkCount
  <2>6. HeldAlive
    BY <1>3, NotNone DEF HeldAlive, Releasing
  <2> QED BY <2>1, <2>2, <2>3, <2>4, <2>5, <2>6 DEF RefInv
<1>7. TimerInv
  <2>1. Lined
    <3>1. Once(mutex) /\ In(mutex) = {}
      BY <1>1 DEF Once, In
    <3> QED BY <1>3, <3>1 DEF Lined, InLine
  <2>2. \A t \in Threads : ~Work(me[t]) /\ ~Fires(me[t]) /\ ~Creating(me[t])
    BY <1>3 DEF Work, Fires, Creating
  <2>3. Timed
    BY <1>1, <2>2, NotNone DEF Timed, Has
  <2>4. Fresh
    BY <1>1, HandleIs DEF Fresh
  <2>5. Creators
    BY <2>2 DEF Creators
  <2>6. Behind
    BY <1>3 DEF Behind
  <2> QED BY <2>1, <2>3, <2>4, <2>5, <2>6 DEF TimerInv
<1> QED BY <1>5, <1>6, <1>7 DEF IInv

LEMMA StepKeeps == IInv /\ [Next]_vars => IInv'
<1> SUFFICES ASSUME IInv, [Next]_vars PROVE IInv'
  OBVIOUS
<1>1. CASE UNCHANGED vars
  BY <1>1, SameKeeps DEF vars, timers
<1>2. ASSUME NEW t \in Threads, Request(t) PROVE IInv'
  BY <1>2, AllocSessionKeeps, CreateSessionKeeps, CreateFailsKeeps, AddLockedKeeps, AddDoneKeeps,
     AddInactivityKeeps, FindSessionKeeps, RefuseKeeps, ResetTimersKeeps, ResetLockedKeeps,
     AnswerKeeps, LogoutUserKeeps, LogoutCheckedKeeps, FreeConnKeeps DEF Request
<1>3. ASSUME Watchdog \in Threads, WatchdogStep PROVE IInv'
  BY <1>3, WatchdogLockKeeps, WatchdogPickKeeps, WatchdogFireKeeps, WatchdogFreeKeeps
     DEF WatchdogStep
<1>4. ASSUME NEW t \in Threads, Retirement(t) PROVE IInv'
  BY <1>4, RetireSessKeeps, RemoveTimersKeeps, RemoveLockedKeeps, RemoveFreeKeeps, DelistedKeeps,
     UnlinkSessKeeps, CloseSessionKeeps, UseFreedKeeps DEF Retirement
<1> QED BY <1>1, <1>2, <1>3, <1>4 DEF Next, Step

(***************************************************************************)
(* In every behaviour: the references of the sessions and the timers are   *)
(* as RefInv and TimerInv say.                                             *)
(***************************************************************************)
THEOREM Invariance == Spec => []IInv
BY InitHolds, StepKeeps, PTL DEF Spec

(***************************************************************************)
(* The link count of a session is exact: one for each connection that      *)
(* holds it and each thread about to release it, and one for the watchdog  *)
(* manager until the session is retired (nht_i_AllocSession,               *)
(* nht_i_RetireSess, nht_i_UnlinkSess, nht_i_FreeConn).                     *)
(***************************************************************************)
THEOREM CountExact == Spec => []LinkCount
<1>1. IInv => LinkCount
  BY DEF IInv, RefInv
<1> QED BY <1>1, Invariance, PTL

(***************************************************************************)
(* A session is not freed under a connection that holds it, nor under a    *)
(* thread that retires it.                                                 *)
(***************************************************************************)
THEOREM HoldersSafe == Spec => []HeldAlive
<1>1. IInv => HeldAlive
  BY DEF IInv, RefInv
<1> QED BY <1>1, Invariance, PTL

(***************************************************************************)
(* The address that nht_i_RemoveWatchdog or nht_i_ResetWatchdog looked up  *)
(* before it waited for TimerDataMutex is, if the list has it, that of its *)
(* timer still: who might have used the memory again waits behind it.      *)
(***************************************************************************)
THEOREM TimerIsOwn == Spec => []OwnTimer
<1>1. IInv => OwnTimer
  <2> SUFFICES ASSUME IInv, NEW t \in Threads, me[t].pc \in {"removing", "resetting"},
                      me[t].work[1] \in list
               PROVE  timer[me[t].work[1]] = me[t].work[2]
    BY DEF OwnTimer
  <2> QED BY DEF IInv, TimerInv, Behind
<1> QED BY <1>1, Invariance, PTL

(***************************************************************************)
(* A timer is freed by the watchdog that fires it or by the thread that    *)
(* removes it, never by both, and is still the same timer by then.         *)
(***************************************************************************)
THEOREM FreeOnce == Spec => []FreedOnce
<1>1. IInv => FreedOnce
  <2> SUFFICES ASSUME IInv, NEW t \in Threads, NEW f \in ToFree(t)
               PROVE  /\ timer[f[1]] = f[2] /\ handle[f[2]] = f[1] /\ f[1] \notin list
                      /\ \A u \in Threads \ {t} : f \notin ToFree(u)
    BY DEF FreedOnce
  <2>1. ASSUME NEW u \in Threads, NEW g \in ToFree(u)
        PROVE  g \in TimerOf /\ Has(me[u], g[1]) /\ Taken(g, timer, list)
    <3>1. CASE me[u].pc = "rmfree"
      <4>1. g = me[u].work /\ Work(me[u])
        BY <2>1, <3>1 DEF ToFree, Work
      <4>2. g \in TimerOf
        BY <4>1, HandIs DEF IInv, TimerInv, RefInv
      <4> QED BY <4>1, <4>2 DEF Has, IInv, TimerInv, Timed
    <3>2. CASE me[u].pc # "rmfree"
      <4>1. g = me[u].fired /\ Fires(me[u])
        BY <2>1, <3>2 DEF ToFree, Fires
      <4>2. g \in TimerOf
        BY <4>1, HandIs DEF IInv, TimerInv, RefInv
      <4> QED BY <4>1, <4>2 DEF Has, IInv, TimerInv, Timed
    <3> QED BY <3>1, <3>2
  <2>2. f[1] \in Timers /\ f[2] \in Handles /\ timer[f[1]] = f[2] /\ f[1] \notin list
    BY <2>1, HandleIs DEF Taken
  <2>3. handle[f[2]] = f[1]
    BY <2>2 DEF IInv, TimerInv, Timed
  <2>4. \A u \in Threads \ {t} : f \notin ToFree(u)
    BY <2>1, <2>2 DEF IInv, TimerInv, Timed
  <2> QED BY <2>2, <2>3, <2>4
<1> QED BY <1>1, Invariance, PTL

-----------------------------------------------------------------------------
(***************************************************************************)
(* A session that a request can find can time out.                         *)
(***************************************************************************)

Open(s, sess_) == sess_[s].state = "live" /\ ~sess_[s].closed

\* The handle that the session of handle h has in its place.
Held(h, sess_) == IF h[2] = "w" THEN sess_[h[1]].w ELSE sess_[h[1]].i

Adding(r)   == r.pc \in {"adding", "added"}
Building(r) == Adding(r) \/ r.pc = "addi"
AddsSecond(r) == r.pc = "addi" \/ (Adding(r) /\ r.work[2][2] = "i")

\* What a thread with the variables r knows: a session whose timers it adds
\* is found by no request yet and has those it has added; what it removes is a
\* closed session's; what it fires is open until it is retired.
Arms(r, sess_, handle_, misread_) ==
  /\ Building(r) /\ Open(r.own, sess_) => ~sess_[r.own].cookie
  /\ Adding(r) /\ Open(r.own, sess_) /\ r.work[2] \notin misread_ =>
       handle_[r.work[2]] = r.work[1]
  /\ AddsSecond(r) /\ Open(r.own, sess_) /\ <<r.own, "w">> \notin misread_ =>
       sess_[r.own].w = <<r.own, "w">> /\ handle_[<<r.own, "w">>] # None
  /\ r.pc \in {"removing", "rmfree"} => r.work[2] \in misread_ \/ r.work[2][1] = r.at
  /\ r.pc \in {"rmw", "rmi", "removing", "rmfree", "delisted"} => ~Open(r.at, sess_)
  /\ r.fired # NoTimer /\ r.pc \in Retiring => r.at = r.fired[2][1]
  /\ r.fired # NoTimer /\ r.pc \notin {"fire", "retire"} => ~Open(r.fired[2][1], sess_)

Builders ==
  \A t, u \in Threads : Building(me[t]) /\ Building(me[u]) /\ me[t].own = me[u].own => t = u

OnlyFires == \A t \in Threads : me[t].fired # NoTimer => t = Watchdog

Waits(h) == \E t \in Threads : me[t].pc = "adding" /\ me[t].work[2] = h

Ticking ==
  \A h \in Handles : Open(h[1], sess) /\ h \notin misread /\ handle[h] # None =>
    handle[h] \in list \/ Firing(h) \/ Waits(h)

Has2 ==
  \A h \in Handles : Open(h[1], sess) /\ sess[h[1]].cookie /\ h \notin misread =>
    Held(h, sess) = h /\ handle[h] # None

HoldsOwn == \A h \in Handles : Held(h, sess) \in {None, h} \cup misread

ArmInv ==
  /\ \A t \in Threads : Arms(me[t], sess, handle, misread)
  /\ Builders /\ OnlyFires /\ Ticking /\ Has2 /\ HoldsOwn /\ misread \subseteq Handles

-----------------------------------------------------------------------------
(***************************************************************************)
(* What a step of thread t may do to the sessions and timers of others: no *)
(* session is opened but an unused one; an open session changes only under *)
(* the thread that adds its timers; and an open session's timer stays,     *)
(* unless another session has its handle.                                  *)
(***************************************************************************)
Steady(t) ==
  /\ \A s \in Sessions : Open(s, sess') => Open(s, sess) \/ sess[s].state = "unused"
  /\ \A s \in Sessions :
       Open(s, sess') /\ Open(s, sess) /\ ~(Building(me[t]) /\ me[t].own = s) =>
         /\ sess'[s].w = sess[s].w /\ sess'[s].i = sess[s].i
         /\ sess'[s].cookie = sess[s].cookie
  /\ \A h \in Handles :
       Open(h[1], sess') /\ h \notin misread' /\ handle[h] # None => handle'[h] = handle[h]
  /\ misread \subseteq misread'

LEMMA Others ==
  ASSUME IInv, ArmInv, NEW t \in Threads, NEW u \in Threads, u # t, Steady(t)
  PROVE  Arms(me[u], sess', handle', misread')
<1> DEFINE r == me[u]
<1>1. r \in Local /\ Placed(r) /\ Arms(r, sess, handle, misread)
  BY Mine DEF ArmInv
<1>2. \A s \in Sessions : sess[s].state # "unused" /\ Open(s, sess') => Open(s, sess)
  BY DEF Steady
<1>3. Building(r) => r.own \in Sessions /\ (Open(r.own, sess') => Open(r.own, sess))
  <2>1. Building(r) => r.own # None
    BY <1>1 DEF Building, Adding, Placed, Owning
  <2>2. Building(r) => r.own \in Sessions /\ sess[r.own].state = "live"
    BY <2>1, Mine
  <2> QED BY <1>2, <2>2
<1>4. Building(r) /\ Open(r.own, sess') =>
        /\ sess'[r.own].w = sess[r.own].w /\ sess'[r.own].cookie = sess[r.own].cookie
  <2>1. Building(r) /\ Building(me[t]) => r.own # me[t].own
    BY DEF ArmInv, Builders
  <2> QED BY <1>3, <2>1 DEF Steady
<1>5. r.at # None => r.at \in Sessions /\ (Open(r.at, sess') => Open(r.at, sess))
  BY <1>2, Mine
<1>6. r.fired # NoTimer => r.fired[2][1] \in Sessions
                           /\ (Open(r.fired[2][1], sess') => Open(r.fired[2][1], sess))
  <2>1. r.fired # NoTimer => r.fired[2][1] \in Sessions /\ sess[r.fired[2][1]].state # "unused"
    BY <1>1, Mine, HandleIs DEF Placed
  <2> QED BY <1>2, <2>1
<1>7. \A h \in Handles : h \notin misread' => h \notin misread
  BY DEF Steady
<1>8. Adding(r) => r.work[2] \in Handles /\ r.work[2][1] = r.own /\ r.work[1] # None
  BY <1>1, HandleIs, NotNone DEF Adding, Placed
<1> HIDE DEF r
<1>9. Building(r) /\ Open(r.own, sess') => ~sess'[r.own].cookie
  BY <1>1, <1>3, <1>4 DEF Arms
<1>10. Adding(r) /\ Open(r.own, sess') /\ r.work[2] \notin misread' =>
         handle'[r.work[2]] = r.work[1]
  <2> SUFFICES ASSUME Adding(r), Open(r.own, sess'), r.work[2] \notin misread'
               PROVE  handle'[r.work[2]] = r.work[1]
    OBVIOUS
  <2>1. Building(r) /\ Open(r.own, sess)
    BY <1>3 DEF Building
  <2>2. handle[r.work[2]] = r.work[1]
    BY <1>1, <1>7, <1>8, <2>1 DEF Arms
  <2> QED BY <1>8, <2>2 DEF Steady
<1>11. AddsSecond(r) /\ Open(r.own, sess') /\ <<r.own, "w">> \notin misread' =>
         sess'[r.own].w = <<r.own, "w">> /\ handle'[<<r.own, "w">>] # None
  <2> SUFFICES ASSUME AddsSecond(r), Open(r.own, sess'), <<r.own, "w">> \notin misread'
               PROVE  sess'[r.own].w = <<r.own, "w">> /\ handle'[<<r.own, "w">>] # None
    OBVIOUS
  <2>1. Building(r) /\ r.own \in Sessions /\ Open(r.own, sess)
    BY <1>3 DEF Building, AddsSecond
  <2>2. PICK h \in Handles : h = <<r.own, "w">> /\ h[1] = r.own
    BY <2>1, HandleIs
  <2>3. sess[r.own].w = <<r.own, "w">> /\ handle[h] # None
    BY <1>1, <1>7, <2>1, <2>2 DEF Arms
  <2>4. handle'[h] = handle[h]
    BY <2>2, <2>3 DEF Steady
  <2> QED BY <1>4, <2>1, <2>2, <2>3, <2>4
<1>12. r.pc \in {"removing", "rmfree"} => r.work[2] \in misread' \/ r.work[2][1] = r.at
  BY <1>1 DEF Arms, Steady
<1>13. r.pc \in {"rmw", "rmi", "removing", "rmfree", "delisted"} => ~Open(r.at, sess')
  <2>1. r.pc \in {"rmw", "rmi", "removing", "rmfree", "delisted"} => r.at # None
    BY <1>1 DEF Placed, Retiring, r
  <2> QED BY <1>1, <1>5, <2>1 DEF Arms, r
<1>14. r.fired # NoTimer /\ r.pc \in Retiring => r.at = r.fired[2][1]
  BY <1>1 DEF Arms
<1>15. r.fired # NoTimer /\ r.pc \notin {"fire", "retire"} => ~Open(r.fired[2][1], sess')
  BY <1>1, <1>6 DEF Arms, r
<1> QED BY <1>9, <1>10, <1>11, <1>12, <1>13, <1>14, <1>15 DEF Arms, r

(***************************************************************************)
(* A step of thread t that is steady, and that takes no timer of an open   *)
(* session out of the list but to fire it.                                 *)
(***************************************************************************)
Listing(t, r) ==
  /\ \A h \in Handles : handle[h] \in list /\ Open(h[1], sess') /\ h \notin misread' =>
       handle'[h] \in list' \/ Firing(h)'
  /\ \A h \in Handles : Firing(h) /\ Open(h[1], sess') => Firing(h)'
  /\ me[t].pc = "adding" => (r.pc = "adding" /\ r.work = me[t].work)
                            \/ handle'[me[t].work[2]] \in list'
  /\ \A h \in Handles : handle[h] = None /\ handle'[h] # None => r.pc = "adding" /\ r.work[2] = h

LEMMA KeepsTicking ==
  ASSUME IInv, ArmInv, NEW t \in Threads, NEW r \in Local, me' = [me EXCEPT ![t] = r],
         Steady(t), Listing(t, r)
  PROVE  Ticking'
<1> SUFFICES ASSUME NEW h \in Handles, Open(h[1], sess'), h \notin misread', handle'[h] # None
             PROVE  handle'[h] \in list' \/ Firing(h)' \/ Waits(h)'
  BY DEF Ticking, Open
<1>1. me'[t] = r /\ \A u \in Threads : u # t => me'[u] = me[u]
  BY Updated DEF IInv
<1>2. CASE handle[h] = None
  <2>1. r.pc = "adding" /\ r.work[2] = h
    BY <1>2 DEF Listing
  <2> QED BY <1>1, <2>1 DEF Waits
<1>3. CASE handle[h] # None
  <2>1. h = <<h[1], "w">> \/ h = <<h[1], "i">>
    BY HandleIs
  <2>2. h[1] \in Sessions
    BY HandleIs
  <2>3. sess[h[1]].state # "unused"
    BY <1>3, <2>1, <2>2 DEF IInv, TimerInv, Fresh
  <2>4. Open(h[1], sess) /\ h \notin misread
    BY <2>2, <2>3 DEF Steady
  <2>5. handle[h] \in list \/ Firing(h) \/ Waits(h)
    BY <1>3, <2>4 DEF ArmInv, Ticking
  <2>6. CASE handle[h] \in list
    BY <2>6 DEF Listing
  <2>7. CASE Firing(h)
    BY <2>7 DEF Listing
  <2>8. CASE Waits(h)
    <3>1. PICK u \in Threads : me[u].pc = "adding" /\ me[u].work[2] = h
      BY <2>8 DEF Waits
    <3>2. CASE u = t
      <4>1. (r.pc = "adding" /\ r.work = me[t].work) \/ handle'[h] \in list'
        BY <3>1, <3>2 DEF Listing
      <4> QED BY <1>1, <3>1, <3>2, <4>1 DEF Waits
    <3>3. CASE u # t
      BY <1>1, <3>1, <3>3 DEF Waits
    <3> QED BY <3>2, <3>3
  <2> QED BY <2>5, <2>6, <2>7, <2>8
<1> QED BY <1>2, <1>3

(***************************************************************************)
(* What t itself does to the session whose timers it adds.                 *)
(***************************************************************************)
Builds(t, r) ==
  /\ Building(r) => \/ Building(me[t]) /\ r.own = me[t].own
                    \/ r.own \in Sessions /\ sess[r.own].state = "unused"
  /\ \A h \in Handles :
       /\ Building(me[t]) /\ me[t].own = h[1]
       /\ Open(h[1], sess') /\ sess'[h[1]].cookie /\ h \notin misread'
       => Held(h, sess') = h /\ handle'[h] # None
  /\ \A h \in Handles : Held(h, sess') \in {None, h, Held(h, sess)} \cup misread'
  /\ \A s \in Sessions : sess[s].state = "unused" /\ Open(s, sess') => ~sess'[s].cookie

LEMMA Armed1 ==
  ASSUME IInv, ArmInv, NEW t \in Threads, NEW r \in Local, me' = [me EXCEPT ![t] = r],
         Steady(t), Listing(t, r), Builds(t, r), Arms(r, sess', handle', misread'),
         r.fired # NoTimer => t = Watchdog, misread' \subseteq Handles
  PROVE  ArmInv'
<1>1. me'[t] = r /\ \A u \in Threads : u # t => me'[u] = me[u]
  BY Updated DEF IInv
<1>2. \A u \in Threads : Arms(me'[u], sess', handle', misread')
  BY <1>1, Others
<1>3. Builders'
  <2>1. \A u \in Threads : Building(me[u]) => me[u].own \in Sessions /\ sess[me[u].own].state = "live"
    <3>1. \A u \in Threads : Building(me[u]) => me[u].own # None
      BY Mine DEF Building, Adding, Placed, Owning
    <3> QED BY <3>1, Mine
  <2>2. \A u \in Threads : u # t /\ Building(r) /\ Building(me[u]) => r.own # me[u].own
    BY <2>1 DEF Builds, ArmInv, Builders
  <2> SUFFICES ASSUME NEW u \in Threads, NEW v \in Threads, Building(me'[u]), Building(me'[v]),
                      me'[u].own = me'[v].own
               PROVE  u = v
    BY DEF Builders, Building, Adding
  <2>3. CASE u # t /\ v # t
    BY <1>1, <2>3 DEF ArmInv, Builders
  <2>4. CASE u = t \/ v = t
    BY <1>1, <2>2, <2>4
  <2> QED BY <2>3, <2>4
<1>4. OnlyFires'
  BY <1>1 DEF ArmInv, OnlyFires
<1>5. Ticking'
  BY KeepsTicking
<1>6. Has2'
  <2> SUFFICES ASSUME NEW h \in Handles, Open(h[1], sess'), sess'[h[1]].cookie, h \notin misread'
               PROVE  Held(h, sess') = h /\ handle'[h] # None
    BY DEF Has2, Open, Held
  <2>1. h[1] \in Sessions
    BY HandleIs
  <2>2. CASE Building(me[t]) /\ me[t].own = h[1]
    BY <2>2 DEF Builds
  <2>3. CASE ~(Building(me[t]) /\ me[t].own = h[1])
    <3>1. Open(h[1], sess)
      BY <2>1 DEF Steady, Builds
    <3>2. sess[h[1]].cookie /\ Held(h, sess') = Held(h, sess)
      BY <2>1, <2>3, <3>1 DEF Steady, Held
    <3>3. Held(h, sess) = h /\ handle[h] # None
      BY <3>1, <3>2 DEF Steady, ArmInv, Has2
    <3> QED BY <3>2, <3>3 DEF Steady
  <2> QED BY <2>2, <2>3
<1>7. HoldsOwn'
  <2>1. \A h \in Handles : Held(h, sess') \in {None, h} \cup misread'
    BY DEF Builds, Steady, ArmInv, HoldsOwn
  <2> QED BY <2>1 DEF HoldsOwn, Held
<1> QED BY <1>2, <1>3, <1>4, <1>5, <1>6, <1>7 DEF ArmInv

(***************************************************************************)
(* A step that adds or takes no timer.                                     *)
(***************************************************************************)
LEMMA Idling ==
  ASSUME IInv, ArmInv, NEW t \in Threads, NEW r \in Local, me' = [me EXCEPT ![t] = r],
         ~Building(r), ~Building(me[t]), UNCHANGED <<handle, list, misread>>,
         \A s \in Sessions : Open(s, sess') =>
            /\ Open(s, sess) /\ sess'[s].cookie = sess[s].cookie
            /\ sess'[s].w = sess[s].w /\ sess'[s].i = sess[s].i,
         \A h \in Handles : Held(h, sess') \in {None, Held(h, sess)},
         r.fired = me[t].fired,
         r.fired # NoTimer /\ me[t].pc \in {"fire", "retire"} =>
            r.pc \in {"fire", "retire"} \/ ~Open(r.fired[2][1], sess'),
         Arms(r, sess', handle, misread)
  PROVE  ArmInv'
<1>1. Steady(t)
  BY DEF Steady
<1>2. Listing(t, r)
  <2>1. \A h \in Handles : Firing(h) /\ Open(h[1], sess') => Firing(h)'
    <3> SUFFICES ASSUME NEW h \in Handles, Firing(h), Open(h[1], sess') PROVE Firing(h)'
      OBVIOUS
    <3>1. CASE t = Watchdog
      <4>1. me[t].fired # NoTimer /\ r.fired[2] = h
        BY <3>1, NotNone DEF Firing, NoTimer
      <4> QED BY <3>1, <4>1, Updated DEF Firing, IInv
    <3>2. CASE t # Watchdog
      BY <3>2, Updated DEF Firing, IInv, Types
    <3> QED BY <3>1, <3>2
  <2> QED BY <2>1 DEF Listing, Building, Adding
<1>3. Builds(t, r)
  <2>1. \A s \in Sessions : Open(s, sess') => sess[s].state # "unused"
    BY DEF Open
  <2> QED BY <2>1 DEF Builds
<1>4. r.fired # NoTimer => t = Watchdog
  BY DEF ArmInv, OnlyFires
<1>5. misread' \subseteq Handles /\ Arms(r, sess', handle', misread')
  BY DEF ArmInv
<1> QED BY <1>1, <1>2, <1>3, <1>4, <1>5, Armed1

-----------------------------------------------------------------------------
(***************************************************************************)
(* The steps of a connection that add and remove no timer.                 *)
(***************************************************************************)
Busy == {"adding", "added", "addi", "rmw", "rmi", "removing", "rmfree", "delisted"}

LEMMA OnlyConns == ASSUME ArmInv, NEW t \in Conns PROVE t \in Threads /\ me[t].fired = NoTimer
<1>1. t \in Threads /\ t # Watchdog
  BY NhtAssumption DEF Threads
<1> QED BY <1>1 DEF ArmInv, OnlyFires

LEMMA Passing ==
  ASSUME IInv, ArmInv, NEW t \in Conns, NEW r \in Local, me' = [me EXCEPT ![t] = r],
         r.fired = NoTimer, r.pc \notin Busy, me[t].pc \notin {"adding", "added", "addi"},
         UNCHANGED <<handle, list, misread>>,
         \A s \in Sessions :
            /\ sess'[s].state = sess[s].state /\ sess'[s].closed = sess[s].closed
            /\ sess'[s].cookie = sess[s].cookie
            /\ sess'[s].w = sess[s].w /\ sess'[s].i = sess[s].i
  PROVE  ArmInv'
<1>1. t \in Threads /\ me[t].fired = NoTimer
  BY OnlyConns
<1>2. ~Building(r) /\ ~Building(me[t]) /\ ~Adding(r) /\ ~AddsSecond(r)
  BY DEF Building, Adding, AddsSecond, Busy
<1>3. \A s \in Sessions : Open(s, sess') => Open(s, sess)
  BY DEF Open
<1>4. \A h \in Handles : Held(h, sess') \in {None, Held(h, sess)}
  BY HandleIs DEF Held
<1>5. Arms(r, sess', handle, misread)
  BY <1>2 DEF Arms, Busy
<1> QED BY <1>1, <1>2, <1>3, <1>4, <1>5, Idling

LEMMA PassingSame ==
  ASSUME IInv, ArmInv, NEW t \in Conns, NEW r \in Local, me' = [me EXCEPT ![t] = r],
         r.fired = NoTimer, r.pc \notin Busy, me[t].pc \notin {"adding", "added", "addi"},
         UNCHANGED <<sess, handle, list, misread>>
  PROVE  ArmInv'
BY Passing

LEMMA PassingTo ==
  ASSUME IInv, ArmInv, NEW t \in Conns, NEW l \in Labels \ Busy, me' = [me EXCEPT ![t] = To(t, l)],
         me[t].pc \notin {"adding", "added", "addi"}, UNCHANGED <<sess, handle, list, misread>>
  PROVE  ArmInv'
<1> DEFINE r == To(t, l)
<1>1. r \in Local /\ r.pc = l /\ r.fired = NoTimer /\ me' = [me EXCEPT ![t] = r]
  BY Mine, OnlyConns, ToIs
<1> HIDE DEF r
<1> QED BY <1>1, PassingSame

LEMMA PassingRetire ==
  ASSUME IInv, ArmInv, NEW t \in Conns, NEW s \in Sessions, NEW l \in Labels,
         me' = [me EXCEPT ![t] = ToRetire(t, s, l)],
         me[t].pc \notin {"adding", "added", "addi"}, UNCHANGED <<sess, handle, list, misread>>
  PROVE  ArmInv'
<1> DEFINE r == ToRetire(t, s, l)
<1>1. r \in Local /\ r.pc = "retire" /\ r.fired = NoTimer /\ me' = [me EXCEPT ![t] = r]
  BY Mine, OnlyConns, ToRetireIs
<1> HIDE DEF r
<1>2. r.pc \notin Busy
  BY <1>1 DEF Busy
<1> QED BY <1>1, <1>2, PassingSame

LEMMA AllocSessionArms ==
  ASSUME IInv, ArmInv, NEW t \in Conns, AllocSession(t)
  PROVE  ArmInv'
<1>1. me[t].pc = "idle" /\ UNCHANGED <<sess, handle, list>> /\ {"create"} \subseteq Labels \ Busy
  BY DEF AllocSession, Turn, timers, Labels, Busy
<1>2. \/ \E s \in In(listed) : me' = [me EXCEPT ![t] = ToRetire(t, s, "create")]
      \/ me' = [me EXCEPT ![t] = To(t, "create")]
  BY DEF AllocSession, Stay, Go, Listed
<1>3. UNCHANGED misread
  BY DEF AllocSession, Stay
<1>4. \A s \in In(listed) : s \in Sessions
  BY ListedKnown
<1> QED BY <1>1, <1>2, <1>3, <1>4, PassingRetire, PassingTo

LEMMA CreateFailsArms ==
  ASSUME IInv, ArmInv, NEW t \in Conns, CreateFails(t)
  PROVE  ArmInv'
<1>1. me[t].pc = "create" /\ UNCHANGED <<sess, handle, list, misread>>
  BY DEF CreateFails, Goto, Turn, timers
<1>2. me' = [me EXCEPT ![t] = Idle]
  BY DEF CreateFails, Goto, Go
<1>3. Idle \in Local /\ Idle.pc = "idle" /\ Idle.fired = NoTimer
  BY IdleIs DEF Labels
<1> QED BY <1>1, <1>2, <1>3, PassingSame DEF Busy

LEMMA FindSessionArms ==
  ASSUME IInv, ArmInv, NEW t \in Conns, FindSession(t)
  PROVE  ArmInv'
<1>1. me[t].pc = "idle" /\ UNCHANGED <<handle, list>> /\ me[t] \in Local /\ t \in Threads
  BY Mine, OnlyConns DEF FindSession, Turn, timers
<1>2. PICK s \in In(listed) :
        /\ sess' = [sess EXCEPT ![s].cnt = @ + 1]
        /\ me' = [me EXCEPT ![t] = Found(t, s)] /\ UNCHANGED misread
  BY DEF FindSession, Goto, Go, Listed
<1>3. s \in Sessions /\ sess[s] \in Session
  BY ListedKnown DEF IInv, Types
<1> DEFINE r == Found(t, s)
<1>4. r \in Local /\ r.pc = "linked" /\ r.fired = NoTimer
  <2>1. "linked" \in Labels /\ me[t].fired = NoTimer
    BY OnlyConns DEF Labels
  <2>2. sess[s].w \in Handles \cup {None} /\ sess[s].i \in Handles \cup {None}
    BY <1>3 DEF Session
  <2> QED BY <1>1, <1>3, <2>1, <2>2 DEF Found, Local
<1>5. me' = [me EXCEPT ![t] = r]
  BY <1>2
<1>6. \A x \in Sessions :
        /\ sess'[x].state = sess[x].state /\ sess'[x].closed = sess[x].closed
        /\ sess'[x].cookie = sess[x].cookie
        /\ sess'[x].w = sess[x].w /\ sess'[x].i = sess[x].i
  BY <1>2, <1>3 DEF IInv, Types, Session
<1> HIDE DEF r
<1>7. r.pc \notin Busy
  BY <1>4 DEF Busy
<1> QED BY <1>1, <1>2, <1>4, <1>5, <1>6, <1>7, Passing

LEMMA ResetTimersArms ==
  ASSUME IInv, ArmInv, NEW t \in Conns, ResetTimers(t)
  PROVE  ArmInv'
<1>1. PICK h \in {me[t].w_timer, me[t].i_timer}, l \in {"linkedw", "held"} :
        me[t].pc \in {"linked", "linkedw"} /\ ResetWatchdog(t, h, l)
  BY DEF ResetTimers, Turn
<1>2. me[t] \in Local /\ t \in Threads /\ h \in Handles \cup {None} /\ me[t].fired = NoTimer
  BY Mine, OnlyConns DEF Local
<1>3. UNCHANGED <<sess, handle, list, misread>>
  BY <1>1 DEF ResetWatchdog, Goto
<1>4. CASE HandlePtr(h) = None
  <2>1. me' = [me EXCEPT ![t] = To(t, "done")] /\ "done" \in Labels \ Busy
    BY <1>1, <1>4 DEF ResetWatchdog, Goto, Go, Labels, Busy
  <2> QED BY <1>1, <1>3, <2>1, PassingTo
<1>5. CASE HandlePtr(h) # None
  <2>1. h \in Handles /\ handle[h] # None
    BY <1>2, <1>5 DEF HandlePtr
  <2>2. <<handle[h], h>> \in TimerRef /\ l \in Labels /\ "resetting" \in Labels
    BY <2>1, HandleIs DEF IInv, Types, Labels
  <2> DEFINE w == <<handle[h], h>>
             r == [me[t] EXCEPT !.pc = "resetting", !.then = l, !.work = w]
  <2>3. me' = [me EXCEPT ![t] = r]
    BY <1>1, <1>5 DEF ResetWatchdog, Goto, Go
  <2> HIDE DEF w
  <2>4. r \in Local /\ r.pc = "resetting" /\ r.fired = NoTimer
    BY <1>2, <2>2 DEF Local, w
  <2> HIDE DEF r
  <2>5. r.pc \notin Busy
    BY <2>4 DEF Busy
  <2> QED BY <1>1, <1>3, <2>3, <2>4, <2>5, PassingSame
<1> QED BY <1>4, <1>5

LEMMA ResetLockedArms ==
  ASSUME IInv, ArmInv, NEW t \in Conns, ResetLocked(t)
  PROVE  ArmInv'
<1>1. /\ me[t] \in Local /\ Placed(me[t]) /\ me[t].pc = "resetting" /\ me[t].fired = NoTimer
      /\ UNCHANGED <<sess, handle, list, misread>>
  BY Mine, OnlyConns DEF ResetLocked, Turn, Goto
<1>2. PICK l \in {"linkedw", "held", "done"} : me' = [me EXCEPT ![t] = After(t, l)]
  BY <1>1 DEF ResetLocked, Goto, Go, Placed
<1> DEFINE r == After(t, l)
<1>3. r \in Local /\ r.pc = l /\ r.fired = NoTimer
  BY <1>1, AfterIs DEF Labels
<1>4. me' = [me EXCEPT ![t] = r]
  BY <1>2
<1> HIDE DEF r
<1>5. r.pc \notin Busy
  BY <1>3 DEF Busy
<1> QED BY <1>1, <1>3, <1>4, <1>5, PassingSame

LEMMA AnswerArms ==
  ASSUME IInv, ArmInv, NEW t \in Conns, Answer(t)
  PROVE  ArmInv'
<1>1. /\ me[t].pc = "held" /\ UNCHANGED <<sess, handle, list, misread>>
      /\ {"done", "all"} \subseteq Labels \ Busy
  BY DEF Answer, Turn, timers, Goto, Stay, Labels, Busy
<1>2. me[t].own \in Sessions
  BY <1>1, OnlyConns, Mine DEF Placed, Owning
<1>3. \/ \E l \in {"done", "all"} : me' = [me EXCEPT ![t] = To(t, l)]
      \/ me' = [me EXCEPT ![t] = ToRetire(t, me[t].own, "done")]
  BY DEF Answer, Goto, Stay, Go
<1> QED BY <1>1, <1>2, <1>3, PassingTo, PassingRetire

LEMMA LogoutUserArms ==
  ASSUME IInv, ArmInv, NEW t \in Conns, LogoutUser(t)
  PROVE  ArmInv'
<1>1. /\ me[t].pc = "all" /\ UNCHANGED <<sess, handle, list, misread>> /\ me[t] \in Local
      /\ me[t].fired = NoTimer
  BY Mine, OnlyConns DEF LogoutUser, Turn, timers, Goto, Stay
<1>2. CASE me' = [me EXCEPT ![t] = To(t, "done")]
  <2>1. "done" \in Labels \ Busy
    BY DEF Labels, Busy
  <2> QED BY <1>1, <1>2, <2>1, PassingTo
<1>3. CASE /\ listed # <<>>
           /\ me' = [me EXCEPT ![t] = [ToRetire(t, Head(listed), "alldone") EXCEPT
                                         !.search = Head(listed), !.before = Len(listed)]]
  <2>1. Head(listed) \in Sessions /\ Len(listed) \in Nat /\ "alldone" \in Labels
    BY <1>3 DEF IInv, Types, Labels
  <2> DEFINE q == ToRetire(t, Head(listed), "alldone")
             r == [q EXCEPT !.search = Head(listed), !.before = Len(listed)]
  <2>2. q \in Local /\ q.pc = "retire" /\ q.fired = NoTimer
    BY <1>1, <2>1, ToRetireIs
  <2> HIDE DEF q
  <2>3. r \in Local /\ r.pc = "retire" /\ r.fired = NoTimer
    BY <2>1, <2>2 DEF Local
  <2>4. me' = [me EXCEPT ![t] = r]
    BY <1>3 DEF q
  <2> HIDE DEF r
  <2>5. r.pc \notin Busy
    BY <2>3 DEF Busy
  <2> QED BY <1>1, <2>3, <2>4, <2>5, PassingSame
<1> QED BY <1>2, <1>3 DEF LogoutUser, Goto, Stay, Go

LEMMA LogoutCheckedArms ==
  ASSUME IInv, ArmInv, NEW t \in Conns, LogoutChecked(t)
  PROVE  ArmInv'
<1>1. /\ me[t].pc = "alldone" /\ UNCHANGED <<sess, handle, list, misread>> /\ me[t] \in Local
      /\ me[t].fired = NoTimer
  BY Mine, OnlyConns DEF LogoutChecked, Turn, timers, Goto, Stay
<1>2. PICK l \in {"all", "done"} :
        me' = [me EXCEPT ![t] = [me[t] EXCEPT !.search = None, !.before = 0, !.pc = l]]
  <2>1. \A l : [[me[t] EXCEPT !.search = None, !.before = 0] EXCEPT !.pc = l]
              = [me[t] EXCEPT !.search = None, !.before = 0, !.pc = l]
    BY <1>1 DEF Local
  <2> QED BY <2>1 DEF LogoutChecked, Goto, Stay, Go
<1> DEFINE r == [me[t] EXCEPT !.search = None, !.before = 0, !.pc = l]
<1>3. r \in Local /\ r.pc = l /\ r.fired = NoTimer
  <2>1. l \in Labels /\ 0 \in Nat /\ None \in Sessions \cup {None}
    BY DEF Labels
  <2> QED BY <1>1, <2>1 DEF Local
<1>4. me' = [me EXCEPT ![t] = r]
  BY <1>2
<1> HIDE DEF r
<1>5. r.pc \notin Busy
  BY <1>3 DEF Busy
<1> QED BY <1>1, <1>3, <1>4, <1>5, PassingSame

LEMMA FreeConnArms ==
  ASSUME IInv, ArmInv, NEW t \in Conns, FreeConn(t)
  PROVE  ArmInv'
<1>1. /\ me[t].pc = "done" /\ UNCHANGED <<sess, handle, list, misread>> /\ me[t] \in Local
      /\ me[t].fired = NoTimer
  BY Mine, OnlyConns DEF FreeConn, Turn, timers, Stay
<1> DEFINE s == me[t].own
           r == [ToUnlink(t, s, "idle") EXCEPT !.own = None, !.w_timer = None, !.i_timer = None]
<1>2. me' = [me EXCEPT ![t] = r]
  BY DEF FreeConn, Stay, Go
<1>3. r \in Local /\ r.pc = "unlink" /\ r.fired = NoTimer
  <2>1. {"idle", "unlink"} \subseteq Labels /\ s \in Sessions \cup {None} /\ None \in Sessions \cup {None}
    BY <1>1 DEF Labels, Local
  <2> QED BY <1>1, <2>1 DEF ToUnlink, Local
<1> HIDE DEF r
<1>4. r.pc \notin Busy
  BY <1>3 DEF Busy
<1> QED BY <1>1, <1>2, <1>3, <1>4, PassingSame

LEMMA RefuseArms ==
  ASSUME IInv, ArmInv, NEW t \in Conns, Refuse(t)
  PROVE  ArmInv'
<1>1. /\ me[t].pc = "linked" /\ UNCHANGED <<sess, handle, list, misread>> /\ "done" \in Labels \ Busy
      /\ me' = [me EXCEPT ![t] = To(t, "done")]
  BY DEF Refuse, Turn, timers, Goto, Go, Labels, Busy
<1> QED BY <1>1, PassingTo

-----------------------------------------------------------------------------
(***************************************************************************)
(* The retirement of a session.                                            *)
(***************************************************************************)
LEMMA ClosedStays ==
  ASSUME NEW s \in Sessions, NEW S, ~Open(s, sess), \A x \in Sessions : Open(x, S) => Open(x, sess)
  PROVE  ~Open(s, S)
OBVIOUS

(***************************************************************************)
(* A thread that retires a session moves on where it knows the same.       *)
(***************************************************************************)
LEMMA Retires ==
  ASSUME IInv, ArmInv, NEW t \in Threads, NEW r \in Local, me' = [me EXCEPT ![t] = r],
         me[t].pc \in Retiring \ {"retire"}, r.pc \notin {"adding", "added", "addi", "removing", "rmfree"},
         r.pc \in Retiring => r.at = me[t].at, r.pc # "retire", r.pc # "fire",
         r.pc \in {"rmw", "rmi", "delisted"} => me[t].pc \in {"rmw", "rmi", "removing", "rmfree"},
         r.fired = me[t].fired, UNCHANGED <<handle, list, misread>>,
         \A s \in Sessions : Open(s, sess') =>
            /\ Open(s, sess) /\ sess'[s].cookie = sess[s].cookie
            /\ sess'[s].w = sess[s].w /\ sess'[s].i = sess[s].i,
         \A h \in Handles : Held(h, sess') \in {None, Held(h, sess)}
  PROVE  ArmInv'
<1>1. ~Building(r) /\ ~Building(me[t]) /\ ~Adding(r) /\ ~AddsSecond(r)
  BY DEF Building, Adding, AddsSecond, Retiring
<1>2. me[t] \in Local /\ Placed(me[t]) /\ Arms(me[t], sess, handle, misread)
  BY Mine DEF ArmInv
<1>3. me[t].at \in Sessions
  <2>1. me[t].at # None
    BY <1>2 DEF Placed
  <2> QED BY <2>1, Mine
<1>4. me[t].fired # NoTimer => me[t].fired[2][1] \in Sessions /\ me[t].at = me[t].fired[2][1]
  <2>1. me[t].fired # NoTimer => me[t].fired[2][1] \in Sessions
    BY <1>2, HandleIs DEF Placed
  <2> QED BY <1>2, <2>1 DEF Arms
<1>5. r.pc \in {"rmw", "rmi", "delisted"} => ~Open(r.at, sess')
  <2>1. r.pc \in {"rmw", "rmi", "delisted"} => r.at = me[t].at /\ ~Open(me[t].at, sess)
    BY <1>2 DEF Arms, Retiring
  <2> QED BY <1>3, <2>1
<1>6. r.fired # NoTimer => ~Open(r.fired[2][1], sess')
  <2>1. r.fired # NoTimer => ~Open(r.fired[2][1], sess)
    BY <1>2 DEF Arms, Retiring
  <2> QED BY <1>4, <2>1
<1>7. r.fired # NoTimer /\ r.pc \in Retiring => r.at = r.fired[2][1]
  BY <1>4
<1>8. Arms(r, sess', handle, misread)
  BY <1>1, <1>5, <1>6, <1>7 DEF Arms
<1>9. r.fired # NoTimer /\ me[t].pc \in {"fire", "retire"} =>
            r.pc \in {"fire", "retire"} \/ ~Open(r.fired[2][1], sess')
  BY <1>6
<1> QED BY <1>1, <1>8, <1>9, Idling

LEMMA RetireSessArms ==
  ASSUME IInv, ArmInv, NEW t \in Threads, RetireSess(t)
  PROVE  ArmInv'
<1> DEFINE s == me[t].at
<1>1. /\ me[t] \in Local /\ Placed(me[t]) /\ me[t].pc = "retire" /\ ~Freed(s)
      /\ UNCHANGED <<handle, list, misread>> /\ Arms(me[t], sess, handle, misread)
  BY Mine DEF RetireSess, Turn, timers, Stay, ArmInv
<1>2. s \in Sessions /\ sess[s] \in Session
  <2>1. s # None
    BY <1>1 DEF Placed, Retiring
  <2> QED BY <2>1, Mine DEF IInv, Types
<1>3. me[t].fired # NoTimer => s = me[t].fired[2][1]
  BY <1>1 DEF Arms, Retiring
<1>4. PICK r \in Local :
        /\ me' = [me EXCEPT ![t] = r] /\ r.fired = me[t].fired
        /\ \/ r.pc = "rmw" /\ r.at = s
           \/ r.pc \in {"idle", "create", "done", "alldone", "wfree"}
  <2>1. CASE sess[s].closed
    <3>1. me' = [me EXCEPT ![t] = Returned(t)]
      BY <2>1 DEF RetireSess, Stay, Go
    <3> QED BY <1>1, <3>1, ReturnedIs, PlacedReturned DEF Retiring
  <2>2. CASE ~sess[s].closed
    <3>1. me' = [me EXCEPT ![t] = To(t, "rmw")]
      BY <2>2 DEF RetireSess, Stay, Go
    <3>2. "rmw" \in Labels
      BY DEF Labels
    <3> QED BY <1>1, <3>1, <3>2, ToIs
  <2> QED BY <2>1, <2>2
<1>5. \A x \in Sessions :
        /\ sess'[x].state = sess[x].state /\ sess'[x].cookie = sess[x].cookie
        /\ sess'[x].w = sess[x].w /\ sess'[x].i = sess[x].i
        /\ sess'[x].closed <=> (sess[x].closed \/ x = s)
  <2>1. CASE sess[s].closed
    <3>1. sess' = sess
      BY <2>1 DEF RetireSess
    <3> QED BY <2>1, <3>1
  <2>2. CASE ~sess[s].closed
    <3>1. sess' = [sess EXCEPT ![s].closed = TRUE]
      BY <2>2 DEF RetireSess
    <3> QED BY <1>2, <3>1 DEF IInv, Types, Session
  <2> QED BY <2>1, <2>2
<1> HIDE DEF s
<1>6. \A x \in Sessions : Open(x, sess') => Open(x, sess) /\ x # s
  BY <1>5 DEF Open
<1>7. ~Building(r) /\ ~Building(me[t]) /\ ~Adding(r) /\ ~AddsSecond(r)
  BY <1>1, <1>4 DEF Building, Adding, AddsSecond
<1>8. Arms(r, sess', handle, misread)
  BY <1>2, <1>3, <1>4, <1>6, <1>7 DEF Arms, Retiring
<1>9. \A h \in Handles : Held(h, sess') \in {None, Held(h, sess)}
  BY <1>5, HandleIs DEF Held
<1>10. r.fired # NoTimer /\ me[t].pc \in {"fire", "retire"} =>
            r.pc \in {"fire", "retire"} \/ ~Open(r.fired[2][1], sess')
  BY <1>2, <1>3, <1>4, <1>6
<1> QED BY <1>1, <1>4, <1>5, <1>6, <1>7, <1>8, <1>9, <1>10, Idling

LEMMA RemoveTimersArms ==
  ASSUME IInv, ArmInv, NEW t \in Threads, RemoveTimers(t)
  PROVE  ArmInv'
<1>1. PICK h \in {sess[me[t].at].w, sess[me[t].at].i}, l \in {"rmi", "delisted"} :
        me[t].pc \in {"rmw", "rmi"} /\ RemoveWatchdog(t, h, l)
  BY DEF RemoveTimers, Turn
<1>2. /\ me[t] \in Local /\ Placed(me[t]) /\ me[t].at \in Sessions
      /\ Arms(me[t], sess, handle, misread)
  BY <1>1, Mine DEF Placed, Retiring, ArmInv
<1>3. /\ UNCHANGED <<sess, handle, list, misread>> /\ h \in Handles \cup {None}
      /\ l \in Labels /\ "removing" \in Labels
  BY <1>1, <1>2 DEF RemoveWatchdog, Stay, Goto, IInv, Types, Session, Labels
<1>4. CASE HandlePtr(h) = None
  <2>1. me' = [me EXCEPT ![t] = To(t, l)]
    BY <1>1, <1>4 DEF RemoveWatchdog, Stay, Go
  <2> DEFINE r == To(t, l)
  <2>2. r \in Local /\ r.pc = l /\ r.at = me[t].at /\ r.fired = me[t].fired /\ me' = [me EXCEPT ![t] = r]
    BY <1>2, <1>3, <2>1, ToIs
  <2> HIDE DEF r
  <2>3. me[t].pc \in Retiring \ {"retire"}
    BY <1>1 DEF Retiring
  <2> QED BY <1>1, <1>3, <2>2, <2>3, Retires
<1>5. CASE HandlePtr(h) # None
  <2>1. h \in Handles /\ handle[h] # None
    BY <1>3, <1>5 DEF HandlePtr
  <2>2. <<handle[h], h>> \in TimerRef
    BY <2>1, HandleIs DEF IInv, Types
  <2> DEFINE w == <<handle[h], h>>
             r == [me[t] EXCEPT !.pc = "removing", !.then = l, !.work = w]
  <2>3. me' = [me EXCEPT ![t] = r]
    BY <1>1, <1>5 DEF RemoveWatchdog, Goto, Go
  <2>4. w[2] = h
    OBVIOUS
  <2> HIDE DEF w
  <2>5. /\ r \in Local /\ r.pc = "removing" /\ r.fired = me[t].fired /\ r.work = w
        /\ r.at = me[t].at
    BY <1>2, <1>3, <2>2 DEF Local, w
  <2> HIDE DEF r
  <2>6. h \in misread \/ h[1] = me[t].at
    <3>1. ASSUME NEW k \in Handles, h = Held(k, sess), k[1] = me[t].at
          PROVE  h \in misread \/ h[1] = me[t].at
      BY <2>1, <3>1, NotNone DEF ArmInv, HoldsOwn
    <3>2. /\ <<me[t].at, "w">> \in Handles /\ Held(<<me[t].at, "w">>, sess) = sess[me[t].at].w
          /\ <<me[t].at, "i">> \in Handles /\ Held(<<me[t].at, "i">>, sess) = sess[me[t].at].i
      BY <1>2, HandleIs DEF Held
    <3> QED BY <1>1, <3>1, <3>2
  <2>7. ~Building(r) /\ ~Building(me[t]) /\ ~Adding(r) /\ ~AddsSecond(r)
    BY <1>1, <2>5 DEF Building, Adding, AddsSecond
  <2>8. ~Open(me[t].at, sess) /\ (me[t].fired # NoTimer => me[t].at = me[t].fired[2][1])
    BY <1>1, <1>2 DEF Arms, Retiring
  <2>9. Arms(r, sess', handle, misread)
    BY <1>3, <2>4, <2>5, <2>6, <2>7, <2>8 DEF Arms
  <2>10. r.fired # NoTimer /\ me[t].pc \in {"fire", "retire"} =>
            r.pc \in {"fire", "retire"} \/ ~Open(r.fired[2][1], sess')
    BY <1>1
  <2> QED BY <1>3, <2>3, <2>5, <2>7, <2>9, <2>10, Idling
<1> QED BY <1>4, <1>5

LEMMA DelistedArms ==
  ASSUME IInv, ArmInv, NEW t \in Threads, Delisted(t)
  PROVE  ArmInv'
<1> DEFINE s == me[t].at
           r == To(t, "unlink")
<1>1. /\ me[t] \in Local /\ Placed(me[t]) /\ me[t].pc = "delisted"
      /\ UNCHANGED <<handle, list, misread>> /\ Arms(me[t], sess, handle, misread)
  BY Mine DEF Delisted, Turn, timers, Stay, ArmInv
<1>2. s \in Sessions /\ sess[s] \in Session /\ ~Open(s, sess)
  BY <1>1, Mine DEF Refs, IInv, Types, Arms
<1>3. me' = [me EXCEPT ![t] = r] /\ sess' = [sess EXCEPT ![s].w = None, ![s].i = None]
  BY DEF Delisted, Stay, Go
<1>4. /\ r \in Local /\ r.pc = "unlink" /\ r.at = s /\ r.fired = me[t].fired
  BY <1>1, ToIs DEF Labels
<1>5. \A x \in Sessions :
        /\ sess'[x].state = sess[x].state /\ sess'[x].cookie = sess[x].cookie
        /\ sess'[x].closed = sess[x].closed
        /\ IF x = s THEN sess'[x].w = None /\ sess'[x].i = None
                    ELSE sess'[x].w = sess[x].w /\ sess'[x].i = sess[x].i
  BY <1>2, <1>3 DEF IInv, Types, Session
<1> HIDE DEF r
<1>6. \A x \in Sessions : Open(x, sess') => Open(x, sess) /\ x # s
  BY <1>2, <1>5 DEF Open
<1>7. \A h \in Handles : Held(h, sess') \in {None, Held(h, sess)}
  BY <1>5, HandleIs DEF Held
<1>8. me[t].pc \in Retiring \ {"retire"}
  BY <1>1 DEF Retiring
<1> QED BY <1>1, <1>3, <1>4, <1>5, <1>6, <1>7, <1>8, Retires

LEMMA UnlinkSessArms ==
  ASSUME IInv, ArmInv, NEW t \in Threads, UnlinkSess(t)
  PROVE  ArmInv'
<1> DEFINE s == me[t].at
<1>1. /\ me[t] \in Local /\ Placed(me[t]) /\ me[t].pc = "unlink" /\ UNCHANGED <<handle, list, misread>>
  BY Mine DEF UnlinkSess, Turn, timers, Goto, Stay
<1>2. s \in Sessions /\ sess[s] \in Session
  BY <1>1, Mine DEF Refs, IInv, Types
<1>3. sess' = [sess EXCEPT ![s].cnt = @ - 1]
  BY DEF UnlinkSess
<1>4. \A x \in Sessions :
        /\ sess'[x].state = sess[x].state /\ sess'[x].cookie = sess[x].cookie
        /\ sess'[x].closed = sess[x].closed
        /\ sess'[x].w = sess[x].w /\ sess'[x].i = sess[x].i
  BY <1>2, <1>3 DEF IInv, Types, Session
<1>5. PICK r \in Local :
        /\ me' = [me EXCEPT ![t] = r] /\ r.fired = me[t].fired
        /\ \/ r.pc = "close" /\ r.at = s
           \/ r.pc \in {"idle", "create", "done", "alldone", "wfree"}
  <2>1. CASE sess[s].cnt = 1
    <3>1. me' = [me EXCEPT ![t] = To(t, "close")]
      BY <2>1 DEF UnlinkSess, Goto, Go
    <3>2. "close" \in Labels
      BY DEF Labels
    <3> QED BY <1>1, <3>1, <3>2, ToIs
  <2>2. CASE sess[s].cnt # 1
    <3>1. me' = [me EXCEPT ![t] = Returned(t)]
      BY <2>2 DEF UnlinkSess, Stay, Go
    <3> QED BY <1>1, <3>1, ReturnedIs, PlacedReturned DEF Retiring
  <2> QED BY <2>1, <2>2
<1>6. \A x \in Sessions : Open(x, sess') => Open(x, sess)
  BY <1>4 DEF Open
<1>7. \A h \in Handles : Held(h, sess') \in {None, Held(h, sess)}
  BY <1>4, HandleIs DEF Held
<1>8. /\ me[t].pc \in Retiring \ {"retire"}
      /\ r.pc \in Retiring => r.at = s
      /\ r.pc \notin {"adding", "added", "addi", "removing", "rmfree", "retire", "fire", "rmw", "rmi", "delisted"}
  BY <1>1, <1>5 DEF Retiring
<1> QED BY <1>1, <1>4, <1>5, <1>6, <1>7, <1>8, Retires

LEMMA CloseSessionArms ==
  ASSUME IInv, ArmInv, NEW t \in Threads, CloseSession(t)
  PROVE  ArmInv'
<1> DEFINE s == me[t].at
           n == [Unused EXCEPT !.state = "freed"]
           r == Returned(t)
<1>1. /\ me[t] \in Local /\ Placed(me[t]) /\ me[t].pc = "close" /\ UNCHANGED <<handle, list, misread>>
      /\ sess' = [sess EXCEPT ![s] = n] /\ me' = [me EXCEPT ![t] = r]
  BY Mine DEF CloseSession, Turn, timers, Stay, Go
<1>2. n.state = "freed" /\ n.w = None /\ n.i = None
  BY DEF Unused
<1>3. r \in Local /\ r.fired = me[t].fired /\ r.pc \in {"idle", "create", "done", "alldone", "wfree"}
  BY <1>1, ReturnedIs, PlacedReturned DEF Retiring
<1> HIDE DEF n, r
<1>4. \A x \in Sessions : sess'[x] = n \/ sess'[x] = sess[x]
  BY <1>1 DEF IInv, Types
<1>5. \A x \in Sessions : Open(x, sess') => sess'[x] = sess[x] /\ Open(x, sess)
  BY <1>2, <1>4 DEF Open
<1>6. \A h \in Handles : Held(h, sess') \in {None, Held(h, sess)}
  BY <1>2, <1>4, HandleIs DEF Held
<1>7. /\ me[t].pc \in Retiring \ {"retire"} /\ r.pc \notin Retiring
      /\ r.pc \notin {"adding", "added", "addi", "removing", "rmfree", "retire", "fire", "rmw", "rmi", "delisted"}
  BY <1>1, <1>3 DEF Retiring
<1> QED BY <1>1, <1>3, <1>5, <1>6, <1>7, Retires

(***************************************************************************)
(* The watchdog thread waits for the mutex, and retires a session.         *)
(***************************************************************************)
LEMMA WatchdogLockArms ==
  ASSUME IInv, ArmInv, Watchdog \in Threads, NEW k \in {"scan", "pick"}, NEW l \in {"scan", "pick"},
         me[Watchdog].pc = k, me' = [me EXCEPT ![Watchdog] = To(Watchdog, l)],
         UNCHANGED <<sess, handle, list, misread>>
  PROVE  ArmInv'
<1> DEFINE r == To(Watchdog, l)
<1>1. /\ me[Watchdog] \in Local /\ Placed(me[Watchdog])
      /\ Arms(me[Watchdog], sess, handle, misread)
  BY Mine DEF ArmInv
<1>2. r \in Local /\ r.pc = l /\ r.fired = me[Watchdog].fired /\ me' = [me EXCEPT ![Watchdog] = r]
  BY <1>1, ToIs DEF Labels
<1> HIDE DEF r
<1>3. ~Building(r) /\ ~Building(me[Watchdog]) /\ ~Adding(r) /\ ~AddsSecond(r)
  BY <1>2 DEF Building, Adding, AddsSecond
<1>4. Arms(r, sess', handle, misread)
  BY <1>1, <1>2, <1>3 DEF Arms, Retiring
<1> QED BY <1>2, <1>3, <1>4, Idling

LEMMA WatchdogFireArms ==
  ASSUME IInv, ArmInv, Watchdog \in Threads, WatchdogFire
  PROVE  ArmInv'
<1> DEFINE s == me[Watchdog].fired[2][1]
           r == ToRetire(Watchdog, s, "wfree")
<1>1. /\ me[Watchdog] \in Local /\ Placed(me[Watchdog]) /\ me[Watchdog].pc = "fire"
      /\ UNCHANGED <<sess, handle, list, misread>>
  BY Mine DEF WatchdogFire, Turn, timers, Stay
<1>2. s \in Sessions
  BY <1>1, HandleIs DEF Placed
<1>3. me' = [me EXCEPT ![Watchdog] = r]
  BY DEF WatchdogFire, Stay, Go
<1>4. r.fired[2][1] = s /\ r \in Local /\ r.pc = "retire" /\ r.at = s /\ r.fired = me[Watchdog].fired
  <2>1. "wfree" \in Labels
    BY DEF Labels
  <2> QED BY <1>1, <1>2, <2>1, ToRetireIs
<1> HIDE DEF r, s
<1>5. ~Building(r) /\ ~Building(me[Watchdog]) /\ ~Adding(r) /\ ~AddsSecond(r)
  BY <1>1, <1>4 DEF Building, Adding, AddsSecond
<1>6. Arms(r, sess', handle, misread)
  BY <1>4, <1>5 DEF Arms
<1> QED BY <1>1, <1>3, <1>4, <1>5, <1>6, Idling

-----------------------------------------------------------------------------
(***************************************************************************)
(* A timer goes to the list, or comes out of it.                           *)
(***************************************************************************)
LEMMA FiringStays ==
  ASSUME IInv, NEW t \in Threads, NEW r \in Local, me' = [me EXCEPT ![t] = r],
         me[t].pc \notin {"fire", "retire"}
  PROVE  \A h \in Handles : Firing(h) => Firing(h)'
BY Updated DEF Firing, IInv, Types

LEMMA AddLockedArms ==
  ASSUME IInv, ArmInv, NEW t \in Conns, AddLocked(t)
  PROVE  ArmInv'
<1> DEFINE r == To(t, "added")
<1>1. /\ t \in Threads /\ me[t] \in Local /\ Placed(me[t]) /\ me[t].pc = "adding"
      /\ Arms(me[t], sess, handle, misread) /\ me[t].fired = NoTimer
  BY Mine, OnlyConns DEF AddLocked, Turn, ArmInv
<1>2. /\ list' = list \cup {me[t].work[1]} /\ me' = [me EXCEPT ![t] = r]
      /\ UNCHANGED <<sess, handle, misread>>
  BY DEF AddLocked, Goto, Go
<1>3. /\ r \in Local /\ r.pc = "added" /\ r.own = me[t].own /\ r.work = me[t].work
      /\ r.fired = me[t].fired
  BY <1>1, ToIs DEF Labels
<1> HIDE DEF r
<1>4. me[t].work \in TimerOf /\ handle[me[t].work[2]] = me[t].work[1]
  <2>1. me[t].work \in TimerOf /\ Taken(me[t].work, timer, list)
    BY <1>1 DEF Placed, IInv, TimerInv, Timed, Work
  <2> QED BY <2>1, HandleIs DEF Taken, IInv, TimerInv, Timed
<1>5. Steady(t)
  BY <1>2 DEF Steady
<1>6. Listing(t, r)
  <2>1. \A h \in Handles : Firing(h) => Firing(h)'
    BY <1>1, <1>2, <1>3, FiringStays
  <2> QED BY <1>2, <1>4, <2>1 DEF Listing
<1>7. Building(me[t]) /\ Building(r) /\ Adding(me[t]) /\ Adding(r) /\ (AddsSecond(r) <=> AddsSecond(me[t]))
  BY <1>1, <1>3 DEF Building, Adding, AddsSecond
<1>8. Builds(t, r)
  <2>1. \A h \in Handles : me[t].own = h[1] /\ Open(h[1], sess) => ~sess[h[1]].cookie
    BY <1>1, <1>7 DEF Arms
  <2>2. \A s \in Sessions : sess[s].state = "unused" => ~Open(s, sess)
    BY DEF Open
  <2> QED BY <1>2, <1>3, <1>7, <2>1, <2>2 DEF Builds
<1>9. Arms(r, sess', handle', misread')
  BY <1>1, <1>2, <1>3, <1>7 DEF Arms
<1> QED BY <1>1, <1>2, <1>3, <1>5, <1>6, <1>8, <1>9, Armed1 DEF ArmInv

(***************************************************************************)
(* A step that frees nothing and builds nothing.                           *)
(***************************************************************************)
LEMMA Unbuilt ==
  ASSUME NEW t \in Threads, NEW r \in Local, ~Building(r), ~Building(me[t]),
         sess' = sess
  PROVE  Builds(t, r)
<1>1. \A s \in Sessions : sess[s].state = "unused" => ~Open(s, sess)
  BY DEF Open
<1> QED BY <1>1 DEF Builds

LEMMA RemoveLockedArms ==
  ASSUME IInv, ArmInv, NEW t \in Threads, RemoveLocked(t)
  PROVE  ArmInv'
<1> DEFINE a == me[t].work[1]
           k == me[t].work[2]
<1>1. /\ me[t] \in Local /\ Placed(me[t]) /\ me[t].pc = "removing"
      /\ Arms(me[t], sess, handle, misread)
  BY Mine DEF RemoveLocked, Turn, ArmInv
<1>2. list' = list \ {a} /\ UNCHANGED <<sess, handle, misread>>
  BY DEF RemoveLocked, Goto
<1>3. me[t].work \in TimerOf /\ me[t].then \in {"rmi", "delisted"} /\ a \in Timers /\ k \in Handles
  BY <1>1, HandleIs DEF Placed
<1>4. /\ k \in misread \/ ~Open(k[1], sess)
      /\ ~Open(me[t].at, sess) /\ (me[t].fired # NoTimer => me[t].at = me[t].fired[2][1])
  BY <1>1 DEF Arms, Retiring
<1>5. PICK r \in Local :
        /\ me' = [me EXCEPT ![t] = r] /\ r.at = me[t].at /\ r.fired = me[t].fired
        /\ r.pc \in {"rmfree", "rmi", "delisted"} /\ (r.pc = "rmfree" => r.work = me[t].work)
  <2>1. CASE a \in list
    <3>1. me' = [me EXCEPT ![t] = To(t, "rmfree")]
      BY <2>1 DEF RemoveLocked, Goto, Go
    <3>2. "rmfree" \in Labels
      BY DEF Labels
    <3> QED BY <1>1, <3>1, <3>2, ToIs
  <2>2. CASE a \notin list
    <3>1. me' = [me EXCEPT ![t] = After(t, me[t].then)]
      BY <2>2 DEF RemoveLocked, Goto, Go
    <3>2. me[t].then \in Labels
      BY <1>3 DEF Labels
    <3> DEFINE r == After(t, me[t].then)
    <3>3. /\ r \in Local /\ r.pc = me[t].then /\ r.at = me[t].at /\ r.fired = me[t].fired
          /\ me' = [me EXCEPT ![t] = r]
      BY <1>1, <3>1, <3>2, AfterIs
    <3> HIDE DEF r
    <3> QED BY <1>3, <3>3
  <2> QED BY <2>1, <2>2
<1>6. a \in list => handle[k] = a /\ timer[a] = k
  BY <1>1, <1>3 DEF IInv, TimerInv, Behind, Timed
<1> HIDE DEF a, k
<1>7. ~Building(r) /\ ~Building(me[t]) /\ ~Adding(r) /\ ~AddsSecond(r)
  BY <1>1, <1>5 DEF Building, Adding, AddsSecond
<1>8. Listing(t, r)
  <2>1. \A h \in Handles : handle[h] = a /\ a \in list => h = k
    BY <1>3, <1>6 DEF IInv, TimerInv, Timed
  <2>2. \A h \in Handles : Firing(h) => Firing(h)'
    BY <1>1, <1>5, FiringStays
  <2>3. \A h \in Handles : handle[h] \in list /\ Open(h[1], sess') /\ h \notin misread' => handle'[h] \in list'
    BY <1>2, <1>4, <2>1
  <2> QED BY <1>1, <1>2, <2>2, <2>3 DEF Listing
<1>9. Steady(t)
  BY <1>2 DEF Steady
<1>10. Arms(r, sess', handle', misread')
  <2>1. r.pc = "rmfree" => r.work[2] \in misread \/ r.work[2][1] = r.at
    BY <1>1, <1>5 DEF Arms
  <2> QED BY <1>2, <1>4, <1>5, <1>7, <2>1 DEF Arms
<1>11. r.fired # NoTimer => t = Watchdog
  BY <1>5 DEF ArmInv, OnlyFires
<1>12. Builds(t, r) /\ misread' \subseteq Handles
  BY <1>2, <1>7, Unbuilt DEF ArmInv
<1> QED BY <1>5, <1>8, <1>9, <1>10, <1>11, <1>12, Armed1

LEMMA WatchdogPickArms ==
  ASSUME IInv, ArmInv, Watchdog \in Threads, WatchdogPick
  PROVE  ArmInv'
<1> DEFINE t == Watchdog
<1>1. /\ me[t] \in Local /\ Placed(me[t]) /\ me[t].pc = "pick"
  BY Mine DEF WatchdogPick, Turn
<1>2. UNCHANGED <<sess, handle, misread>>
  BY DEF WatchdogPick, Goto
<1>3. ASSUME NEW a \in list, list' = list \ {a},
             me' = [me EXCEPT ![t] = [me[t] EXCEPT !.pc = "fire", !.fired = <<a, timer[a]>>]]
      PROVE  ArmInv'
  <2> DEFINE f == <<a, timer[a]>>
             r == [me[t] EXCEPT !.pc = "fire", !.fired = f]
  <2>1. a \in Timers /\ timer[a] \in Handles /\ handle[timer[a]] = a
    BY DEF IInv, Types, TimerInv, Timed
  <2>2. f \in TimerRef /\ f[2] = timer[a]
    BY <2>1, HandleIs
  <2>3. me' = [me EXCEPT ![t] = r]
    BY <1>3
  <2> HIDE DEF f
  <2>4. r \in Local /\ r.pc = "fire" /\ r.fired = f
    <3>1. "fire" \in Labels
      BY DEF Labels
    <3> QED BY <1>1, <2>2, <3>1 DEF Local
  <2> HIDE DEF r
  <2>5. ~Building(r) /\ ~Building(me[t]) /\ ~Adding(r) /\ ~AddsSecond(r)
    BY <1>1, <2>4 DEF Building, Adding, AddsSecond
  <2>6. Listing(t, r)
    <3>1. \A h \in Handles : handle[h] = a => h = timer[a]
      BY <2>1 DEF IInv, TimerInv, Timed
    <3>2. \A h \in Handles : h = timer[a] => Firing(h)'
      BY <2>2, <2>3, <2>4, Updated DEF Firing, IInv
    <3>3. \A h \in Handles : Firing(h) => Firing(h)'
      BY <1>1 DEF Firing
    <3>4. \A h \in Handles : handle[h] \in list => handle'[h] \in list' \/ Firing(h)'
      BY <1>2, <1>3, <3>1, <3>2
    <3> QED BY <1>1, <1>2, <3>3, <3>4 DEF Listing
  <2>7. Steady(t)
    BY <1>2 DEF Steady
  <2>8. Arms(r, sess', handle', misread')
    BY <2>4, <2>5 DEF Arms, Retiring
  <2>9. Builds(t, r)
    <3>1. sess' = sess
      BY <1>2
    <3> QED BY <2>4, <2>5, <3>1, Unbuilt
  <2>10. misread' \subseteq Handles
    BY <1>2 DEF ArmInv
  <2> QED BY <2>3, <2>4, <2>6, <2>7, <2>8, <2>9, <2>10, Armed1
<1>4. ASSUME UNCHANGED list, me' = [me EXCEPT ![t] = To(t, "scan")]
      PROVE  ArmInv'
  BY <1>1, <1>2, <1>4, WatchdogLockArms
<1> QED BY <1>3, <1>4 DEF WatchdogPick, Goto, Go

(***************************************************************************)
(* A timer is freed: it is none of an open session, unless another has its *)
(* handle.                                                                 *)
(***************************************************************************)
LEMMA Frees ==
  ASSUME IInv, ArmInv, NEW t \in Threads, NEW r \in Local, me' = [me EXCEPT ![t] = r],
         NEW k \in Handles, k \in misread \/ ~Open(k[1], sess),
         handle' = [handle EXCEPT ![k] = None], UNCHANGED <<sess, list, misread>>,
         ~Building(r), ~Building(me[t]), me[t].pc \notin {"fire", "retire"},
         r.fired # NoTimer => t = Watchdog, Arms(r, sess', handle', misread')
  PROVE  ArmInv'
<1>1. \A h \in Handles : Open(h[1], sess') /\ h \notin misread' => handle'[h] = handle[h]
  BY DEF IInv, Types
<1>2. Steady(t)
  BY <1>1 DEF Steady
<1>3. Listing(t, r)
  <2>1. \A h \in Handles : Firing(h) => Firing(h)'
    BY FiringStays
  <2>2. \A h \in Handles : handle'[h] # None => handle'[h] = handle[h]
    BY DEF IInv, Types
  <2>3. me[t].pc # "adding"
    BY DEF Building, Adding
  <2> QED BY <1>1, <2>1, <2>2, <2>3 DEF Listing
<1>4. Builds(t, r) /\ misread' \subseteq Handles
  BY Unbuilt DEF ArmInv
<1> QED BY <1>2, <1>3, <1>4, Armed1

LEMMA RemoveFreeArms ==
  ASSUME IInv, ArmInv, NEW t \in Threads, RemoveFree(t)
  PROVE  ArmInv'
<1> DEFINE k == me[t].work[2]
           r == After(t, me[t].then)
<1>1. /\ me[t] \in Local /\ Placed(me[t]) /\ me[t].pc = "rmfree"
      /\ Arms(me[t], sess, handle, misread)
  BY Mine DEF RemoveFree, Turn, ArmInv
<1>2. /\ me' = [me EXCEPT ![t] = r] /\ UNCHANGED <<sess, list, misread>>
      /\ handle' = [handle EXCEPT ![k] = None]
  BY DEF RemoveFree, Goto, Go
<1>3. k \in Handles /\ me[t].then \in {"rmi", "delisted"}
  BY <1>1, HandleIs DEF Placed
<1>4. r \in Local /\ r.pc = me[t].then /\ r.at = me[t].at /\ r.fired = me[t].fired
  <2>1. me[t].then \in Labels
    BY <1>3 DEF Labels
  <2> QED BY <1>1, <2>1, AfterIs
<1>5. /\ k \in misread \/ ~Open(k[1], sess)
      /\ ~Open(me[t].at, sess) /\ (me[t].fired # NoTimer => me[t].at = me[t].fired[2][1])
  BY <1>1 DEF Arms, Retiring
<1> HIDE DEF r, k
<1>6. ~Building(r) /\ ~Building(me[t]) /\ ~Adding(r) /\ ~AddsSecond(r)
  BY <1>1, <1>3, <1>4 DEF Building, Adding, AddsSecond
<1>7. Arms(r, sess', handle', misread')
  BY <1>2, <1>3, <1>4, <1>5, <1>6 DEF Arms
<1>8. r.fired # NoTimer => t = Watchdog
  BY <1>4 DEF ArmInv, OnlyFires
<1> QED BY <1>1, <1>2, <1>3, <1>4, <1>5, <1>6, <1>7, <1>8, Frees

LEMMA WatchdogFreeArms ==
  ASSUME IInv, ArmInv, Watchdog \in Threads, WatchdogFree
  PROVE  ArmInv'
<1> DEFINE k == me[Watchdog].fired[2]
           r == [Idle EXCEPT !.pc = "scan"]
<1>1. /\ me[Watchdog] \in Local /\ Placed(me[Watchdog]) /\ me[Watchdog].pc = "wfree"
      /\ Arms(me[Watchdog], sess, handle, misread)
  BY Mine DEF WatchdogFree, Turn, ArmInv
<1>2. /\ me' = [me EXCEPT ![Watchdog] = r] /\ UNCHANGED <<sess, list, misread>>
      /\ handle' = [handle EXCEPT ![k] = None]
  BY DEF WatchdogFree, Goto, Go
<1>3. k \in Handles /\ ~Open(k[1], sess)
  BY <1>1, HandleIs DEF Placed, Arms
<1>4. r \in Local /\ r.pc = "scan" /\ r.fired = NoTimer
  BY IdleIs DEF Labels
<1> HIDE DEF r, k
<1>5. ~Building(r) /\ ~Building(me[Watchdog]) /\ ~Adding(r) /\ ~AddsSecond(r)
  BY <1>1, <1>4 DEF Building, Adding, AddsSecond
<1>6. Arms(r, sess', handle', misread')
  BY <1>4, <1>5 DEF Arms
<1> QED BY <1>1, <1>2, <1>3, <1>4, <1>5, <1>6, Frees

-----------------------------------------------------------------------------
(***************************************************************************)
(* The timers of a new session.                                            *)
(***************************************************************************)
LEMMA InList == ASSUME IInv, NEW h \in Handles, handle[h] \in list PROVE handle[h] # None
BY NotNone DEF IInv, Types

LEMMA AddInactivityArms ==
  ASSUME IInv, ArmInv, NEW t \in Conns, AddInactivity(t)
  PROVE  ArmInv'
<1> DEFINE s == me[t].own
           h == <<s, "i">>
<1>1. /\ t \in Threads /\ me[t] \in Local /\ Placed(me[t]) /\ me[t].pc = "addi"
      /\ UNCHANGED <<sess, list>> /\ Arms(me[t], sess, handle, misread) /\ me[t].fired = NoTimer
  BY Mine, OnlyConns DEF AddInactivity, Turn, ArmInv
<1>2. s \in Sessions /\ sess[s].state = "live"
  BY <1>1, Mine DEF Placed, Owning
<1>3. h \in Handles /\ h[1] = s /\ h[2] = "i" /\ h # <<s, "w">>
  BY <1>2, HandleIs
<1>4. handle[h] = None
  BY <1>1 DEF IInv, TimerInv, Creators, Creating
<1>5. PICK a \in Timers :
        /\ timer[a] = None /\ handle' = [handle EXCEPT ![h] = a] /\ UNCHANGED misread
        /\ me' = [me EXCEPT ![t] = [me[t] EXCEPT !.pc = "adding", !.work = <<a, h>>]]
  BY DEF AddInactivity, AddWatchdog, Goto, Go
<1> HIDE DEF h
<1> DEFINE w == <<a, h>>
           r == [me[t] EXCEPT !.pc = "adding", !.work = w]
<1>6. w \in TimerRef /\ w[1] = a /\ w[2] = h
  BY <1>3, HandleIs
<1> HIDE DEF w
<1>7. r \in Local /\ r.pc = "adding" /\ r.own = s /\ r.work = w /\ r.fired = me[t].fired
  <2>1. "adding" \in Labels
    BY DEF Labels
  <2> QED BY <1>1, <1>6, <2>1 DEF Local
<1>8. me' = [me EXCEPT ![t] = r]
  BY <1>5 DEF w
<1>9. me[t].own = s
  OBVIOUS
<1> HIDE DEF r, s
<1>10. /\ handle'[h] = a /\ a # None
       /\ \A g \in Handles : handle[g] # None => g # h /\ handle'[g] = handle[g]
       /\ \A g \in Handles : g # h => handle'[g] = handle[g]
  BY <1>3, <1>4, <1>5, NotNone DEF IInv, Types
<1>11. Building(me[t]) /\ Building(r) /\ Adding(r) /\ AddsSecond(me[t]) /\ ~Adding(me[t])
  BY <1>1, <1>7 DEF Building, Adding, AddsSecond
<1>12. Open(s, sess) => ~sess[s].cookie
  BY <1>1, <1>9, <1>11 DEF Arms
<1>13. Steady(t)
  BY <1>1, <1>5, <1>10 DEF Steady
<1>14. Listing(t, r)
  <2>1. \A g \in Handles : Firing(g) => Firing(g)'
    BY <1>1, <1>7, <1>8, FiringStays
  <2>2. \A g \in Handles : handle[g] \in list => handle'[g] \in list'
    BY <1>1, <1>10, InList
  <2>3. \A g \in Handles : handle[g] = None /\ handle'[g] # None => r.pc = "adding" /\ r.work[2] = g
    BY <1>6, <1>7, <1>10
  <2>4. me[t].pc # "adding"
    BY <1>1
  <2> QED BY <2>1, <2>2, <2>3, <2>4 DEF Listing
<1>15. Builds(t, r)
  <2>1. \A x \in Sessions : sess[x].state = "unused" => ~Open(x, sess)
    BY DEF Open
  <2>2. sess' = sess
    BY <1>1
  <2> QED BY <1>7, <1>9, <1>11, <1>12, <2>1, <2>2 DEF Builds
<1>16. Arms(r, sess', handle', misread')
  <2>1. Open(s, sess) /\ <<s, "w">> \notin misread =>
          sess[s].w = <<s, "w">> /\ handle[<<s, "w">>] # None
    BY <1>1, <1>9, <1>11 DEF Arms
  <2>2. <<s, "w">> \in Handles
    BY <1>2, HandleIs
  <2>3. Open(s, sess') /\ <<s, "w">> \notin misread' =>
          sess'[s].w = <<s, "w">> /\ handle'[<<s, "w">>] # None
    BY <1>1, <1>5, <1>10, <2>1, <2>2
  <2>4. r.work[2] = h /\ r.work[1] = a
    BY <1>6, <1>7
  <2>5. r.fired = NoTimer
    BY <1>1, <1>7
  <2>6. Building(r) /\ Open(r.own, sess') => ~sess'[r.own].cookie
    BY <1>1, <1>7, <1>12
  <2>7. handle'[r.work[2]] = r.work[1]
    BY <1>10, <2>4
  <2> QED BY <1>7, <2>3, <2>5, <2>6, <2>7 DEF Arms
<1>17. r.fired # NoTimer => t = Watchdog
  BY <1>1, <1>7
<1>18. misread' \subseteq Handles
  BY <1>5 DEF ArmInv
<1> QED BY <1>1, <1>7, <1>8, <1>13, <1>14, <1>15, <1>16, <1>17, <1>18, Armed1

LEMMA CreateSessionArms ==
  ASSUME IInv, ArmInv, NEW t \in Conns, CreateSession(t)
  PROVE  ArmInv'
<1>1. /\ t \in Threads /\ me[t] \in Local /\ me[t].pc = "create" /\ list' = list
      /\ me[t].fired = NoTimer
  BY Mine, OnlyConns DEF CreateSession, Turn
<1> DEFINE n == [Unused EXCEPT !.state = "live", !.cnt = 2]
<1>2. PICK s \in Sessions :
        /\ sess[s].state = "unused" /\ sess' = [sess EXCEPT ![s] = n]
        /\ AddWatchdog(t, [me[t] EXCEPT !.own = s], <<s, "w">>)
  BY DEF CreateSession
<1>3. ~n.cookie /\ n.w = None /\ n.i = None
  BY DEF Unused
<1> HIDE DEF n
<1> DEFINE h == <<s, "w">>
<1>4. h \in Handles /\ h[1] = s /\ h[2] = "w" /\ handle[h] = None
  BY <1>2, HandleIs DEF IInv, TimerInv, Fresh
<1>5. PICK a \in Timers :
        /\ handle' = [handle EXCEPT ![h] = a] /\ UNCHANGED misread
        /\ me' = [me EXCEPT ![t] = [[me[t] EXCEPT !.own = s] EXCEPT !.pc = "adding", !.work = <<a, h>>]]
  BY <1>2 DEF AddWatchdog, Goto, Go
<1> HIDE DEF h
<1> DEFINE w == <<a, h>>
           q == [me[t] EXCEPT !.own = s]
           r == [q EXCEPT !.pc = "adding", !.work = w]
<1>6. w \in TimerRef /\ w[1] = a /\ w[2] = h
  BY <1>4, HandleIs
<1> HIDE DEF w
<1>7. q \in Local /\ q.own = s /\ q.fired = NoTimer
  BY <1>1 DEF Local
<1>8. me' = [me EXCEPT ![t] = r]
  BY <1>5 DEF w
<1> HIDE DEF q
<1>9. r \in Local /\ r.pc = "adding" /\ r.own = s /\ r.work = w /\ r.fired = NoTimer
  <2>1. "adding" \in Labels
    BY DEF Labels
  <2> QED BY <1>6, <1>7, <2>1 DEF Local
<1> HIDE DEF r
<1>10. /\ handle'[h] = a /\ a # None
       /\ \A g \in Handles : handle[g] # None => g # h /\ handle'[g] = handle[g]
       /\ \A g \in Handles : g # h => handle'[g] = handle[g]
  BY <1>4, <1>5, NotNone DEF IInv, Types
<1>11. ~Building(me[t]) /\ Building(r) /\ Adding(r) /\ ~AddsSecond(r)
  BY <1>1, <1>4, <1>6, <1>9 DEF Building, Adding, AddsSecond
<1>12. sess'[s] = n /\ \A x \in Sessions : x # s => sess'[x] = sess[x]
  BY <1>2 DEF IInv, Types
<1>13. ~Open(s, sess)
  BY <1>2 DEF Open
<1>14. \A x \in Sessions : x # s => (Open(x, sess') <=> Open(x, sess))
  BY <1>12 DEF Open
<1>15. Steady(t)
  BY <1>2, <1>5, <1>10, <1>12, <1>13, <1>14 DEF Steady
<1>16. Listing(t, r)
  <2>1. \A g \in Handles : Firing(g) => Firing(g)'
    BY <1>1, <1>8, <1>9, FiringStays
  <2>2. \A g \in Handles : handle[g] \in list => handle'[g] \in list'
    BY <1>1, <1>10, InList
  <2>3. \A g \in Handles : handle[g] = None /\ handle'[g] # None => r.pc = "adding" /\ r.work[2] = g
    BY <1>6, <1>9, <1>10
  <2>4. me[t].pc # "adding"
    BY <1>1
  <2> QED BY <2>1, <2>2, <2>3, <2>4 DEF Listing
<1>17. Builds(t, r)
  <2>1. \A x \in Sessions : sess[x].state = "unused" /\ Open(x, sess') => ~sess'[x].cookie
    BY <1>3, <1>12, <1>14 DEF Open
  <2>2. \A g \in Handles : Held(g, sess') \in {None, g, Held(g, sess)} \cup misread'
    BY <1>3, <1>12, HandleIs DEF Held
  <2> QED BY <1>2, <1>9, <1>11, <2>1, <2>2 DEF Builds
<1>18. Arms(r, sess', handle', misread')
  BY <1>3, <1>6, <1>9, <1>10, <1>11, <1>12 DEF Arms
<1>19. r.fired # NoTimer => t = Watchdog
  BY <1>9
<1>20. misread' \subseteq Handles
  BY <1>5 DEF ArmInv
<1> QED BY <1>1, <1>8, <1>9, <1>15, <1>16, <1>17, <1>18, <1>19, <1>20, Armed1

(***************************************************************************)
(* Where the handle of the timer is read, it is the right one, unless the  *)
(* session is closed or has lost that timer to another.                    *)
(***************************************************************************)
LEMMA AddDoneArms ==
  ASSUME IInv, ArmInv, NEW t \in Conns, AddDone(t)
  PROVE  ArmInv'
<1> DEFINE s == me[t].own
           a == me[t].work[1]
           k == me[t].work[2]
           h == timer[a]
<1>1. /\ t \in Threads /\ me[t] \in Local /\ Placed(me[t]) /\ me[t].pc = "added"
      /\ Arms(me[t], sess, handle, misread) /\ me[t].fired = NoTimer
  BY Mine, OnlyConns DEF AddDone, Turn, ArmInv
<1>2. s \in Sessions /\ sess[s].state = "live" /\ sess[s] \in Session
  BY <1>1, Mine DEF Placed, Owning, IInv, Types
<1>3. a \in Timers /\ k \in Handles /\ k[1] = s /\ k[2] \in {"w", "i"} /\ k = <<s, k[2]>>
  BY <1>1, HandleIs DEF Placed
<1>4. h \in Handles
  BY <1>1, <1>3 DEF AddDone, IInv, Types
<1>5. /\ UNCHANGED <<timer, handle, list>> /\ misread' = misread \cup ({h} \ {k})
  BY DEF AddDone, timers
<1>6. PICK l \in {"addi", "held"} :
        /\ me' = [me EXCEPT ![t] = After(t, l)]
        /\ \/ k[2] = "w" /\ l = "addi" /\ sess' = [sess EXCEPT ![s].w = h]
           \/ k[2] = "w" /\ l = "held" /\ sess[s].cnt <= 1
              /\ sess' = [sess EXCEPT ![s].w = h, ![s].cookie = TRUE]
           \/ k[2] = "i" /\ l = "held" /\ sess' = [sess EXCEPT ![s].i = h, ![s].cookie = TRUE]
  BY DEF AddDone, Go
<1>7. Open(s, sess) /\ k \notin misread => h = k /\ handle[k] = a
  <2>1. Open(s, sess) /\ k \notin misread => handle[k] = a
    BY <1>1 DEF Arms, Adding
  <2> QED BY <1>3, <2>1 DEF IInv, TimerInv, Timed
<1>8. Open(s, sess) => ~sess[s].cookie
  BY <1>1 DEF Arms, Adding, Building
<1>9. Open(s, sess) /\ k[2] = "i" /\ <<s, "w">> \notin misread =>
        sess[s].w = <<s, "w">> /\ handle[<<s, "w">>] # None
  BY <1>1 DEF Arms, Adding, AddsSecond
<1>10. Open(s, sess) => ~(sess[s].cnt <= 1)
  <2> SUFFICES ASSUME Open(s, sess) PROVE ~(sess[s].cnt <= 1)
    OBVIOUS
  <2> DEFINE o == Cardinality(Owners(s))
             p == Cardinality(Releasers(s))
  <2>1. o \in Nat /\ p \in Nat /\ o > 0
    BY <1>1, <1>2, CountOf
  <2>2. sess[s].cnt = o + p + Managed(sess[s])
    BY <1>2, CountOf
  <2>3. Managed(sess[s]) = 1
    BY DEF Managed, Open
  <2> HIDE DEF o, p
  <2> QED BY <2>1, <2>2, <2>3
<1> DEFINE r == After(t, l)
<1>11. r \in Local /\ r.pc = l /\ r.own = s /\ r.fired = NoTimer
  <2>1. l \in Labels
    BY DEF Labels
  <2> QED BY <1>1, <2>1, AfterIs
<1>12. me' = [me EXCEPT ![t] = r] /\ me[t].own = s
  BY <1>6
<1>13. /\ \A x \in Sessions : x # s => sess'[x] = sess[x]
       /\ sess'[s].state = sess[s].state /\ sess'[s].closed = sess[s].closed
       /\ l = "addi" => sess'[s].cookie = sess[s].cookie
       /\ sess'[s].w = IF k[2] = "w" THEN h ELSE sess[s].w
       /\ sess'[s].i = IF k[2] = "i" THEN h ELSE sess[s].i
  BY SMTT(30), <1>2, <1>6 DEF IInv, Types, Session
<1>14. \/ l = "addi" /\ k[2] = "w"
       \/ l = "held" /\ (k[2] = "i" \/ ~Open(s, sess))
  BY <1>6, <1>10
<1> HIDE DEF r, s, a, k, h
<1>15. \A x \in Sessions : Open(x, sess') <=> Open(x, sess)
  BY <1>13 DEF Open
<1>16. Building(me[t]) /\ (Building(r) <=> l = "addi") /\ (AddsSecond(r) <=> l = "addi") /\ ~Adding(r)
  BY <1>1, <1>11 DEF Building, Adding, AddsSecond
<1>17. misread \subseteq misread' /\ misread' \subseteq Handles /\ (h = k \/ h \in misread')
  BY <1>4, <1>5 DEF ArmInv
<1>18. Steady(t)
  BY <1>5, <1>12, <1>13, <1>15, <1>16, <1>17 DEF Steady
<1>19. Listing(t, r)
  <2>1. \A g \in Handles : Firing(g) => Firing(g)'
    BY <1>1, <1>11, <1>12, FiringStays
  <2> QED BY <1>1, <1>5, <2>1 DEF Listing
<1>20. \A g \in Handles : Held(g, sess') \in {None, g, Held(g, sess)} \cup misread'
  <2> SUFFICES ASSUME NEW g \in Handles
               PROVE  Held(g, sess') \in {None, g, Held(g, sess)} \cup misread'
    OBVIOUS
  <2>1. g[1] \in Sessions /\ g[2] \in {"w", "i"} /\ g = <<g[1], g[2]>>
    BY HandleIs
  <2>2. CASE g = k
    BY <1>3, <1>13, <1>17, <2>2 DEF Held
  <2>3. CASE g # k
    <3>1. g[1] # s \/ g[2] # k[2]
      BY <1>3, <2>1, <2>3
    <3> QED BY <1>3, <1>13, <2>1, <3>1 DEF Held
  <2> QED BY <2>2, <2>3
<1>21. Builds(t, r)
  <2>1. ASSUME NEW g \in Handles, s = g[1], Open(s, sess'), sess'[s].cookie, g \notin misread'
        PROVE  Held(g, sess') = g /\ handle'[g] # None
    <3>1. Open(s, sess)
      BY <1>2, <1>15, <2>1
    <3>2. l = "held" /\ k[2] = "i"
      BY <1>8, <1>13, <1>14, <2>1, <3>1
    <3>3. g \notin misread /\ g = <<s, g[2]>> /\ g[2] \in {"w", "i"}
      BY <1>17, <2>1, HandleIs
    <3>4. CASE g[2] = "i"
      <4>1. g = k /\ h = k /\ handle[k] = a
        BY <1>3, <1>7, <3>1, <3>2, <3>3, <3>4
      <4> QED BY <1>3, <1>5, <1>13, <2>1, <3>2, <4>1, NotNone DEF Held
    <3>5. CASE g[2] = "w"
      BY <1>5, <1>9, <1>13, <2>1, <3>1, <3>2, <3>3, <3>5 DEF Held
    <3> QED BY <3>3, <3>4, <3>5
  <2>2. \A x \in Sessions : sess[x].state = "unused" => ~Open(x, sess')
    BY <1>15 DEF Open
  <2> QED BY <1>11, <1>12, <1>16, <1>20, <2>1, <2>2 DEF Builds
<1>22. Arms(r, sess', handle', misread')
  <2>1. Building(r) /\ Open(r.own, sess') => ~sess'[r.own].cookie
    BY <1>2, <1>8, <1>11, <1>13, <1>15, <1>16
  <2>2. AddsSecond(r) /\ Open(r.own, sess') /\ <<r.own, "w">> \notin misread' =>
          sess'[r.own].w = <<r.own, "w">> /\ handle'[<<r.own, "w">>] # None
    <3> SUFFICES ASSUME AddsSecond(r), Open(s, sess'), <<s, "w">> \notin misread'
                 PROVE  sess'[s].w = <<s, "w">> /\ handle'[<<s, "w">>] # None
      BY <1>11
    <3>1. k = <<s, "w">> /\ Open(s, sess) /\ k \notin misread
      BY <1>2, <1>3, <1>14, <1>15, <1>16, <1>17
    <3>2. h = k /\ handle[k] = a
      BY <1>7, <3>1
    <3> QED BY <1>3, <1>5, <1>13, <3>1, <3>2, NotNone
  <2>3. r.pc \in {"addi", "held"}
    BY <1>11
  <2> QED BY <1>11, <1>16, <2>1, <2>2, <2>3 DEF Arms
<1> QED BY <1>1, <1>11, <1>12, <1>17, <1>18, <1>19, <1>21, <1>22, Armed1

-----------------------------------------------------------------------------
(***************************************************************************)
(* The invariant holds at first, and every step keeps it.                  *)
(***************************************************************************)
LEMMA UnchangedArms ==
  ASSUME IInv, ArmInv, UNCHANGED <<sess, handle, list, me, misread>>
  PROVE  ArmInv'
<1>1. \A h : Firing(h)' <=> Firing(h)
  BY DEF Firing
<1>2. \A h : Waits(h)' <=> Waits(h)
  BY DEF Waits
<1>3. Ticking'
  BY <1>1, <1>2 DEF ArmInv, Ticking
<1>4. Builders' /\ OnlyFires' /\ Has2' /\ HoldsOwn'
  BY DEF ArmInv, Builders, OnlyFires, Has2, HoldsOwn
<1>5. \A t \in Threads : Arms(me'[t], sess', handle', misread')
  BY DEF ArmInv
<1> QED BY <1>3, <1>4, <1>5 DEF ArmInv

LEMMA InitArms == Init => ArmInv
<1> SUFFICES ASSUME Init PROVE ArmInv
  OBVIOUS
<1>1. /\ sess = [s \in Sessions |-> Unused] /\ handle = [h \in Handles |-> None] /\ misread = {}
      /\ me = [t \in Threads |-> IF t = Watchdog THEN [Idle EXCEPT !.pc = "scan"] ELSE Idle]
  BY DEF Init
<1>2. Unused.state = "unused" /\ Unused.w = None /\ Unused.i = None
  BY DEF Unused
<1>3. \A t \in Threads : me[t].pc \in {"idle", "scan"} /\ me[t].fired = NoTimer
  <2> DEFINE r == [Idle EXCEPT !.pc = "scan"]
  <2>1. r.pc = "scan" /\ r.fired = NoTimer /\ Idle.pc = "idle" /\ Idle.fired = NoTimer
    BY IdleIs DEF Labels
  <2>2. \A t \in Threads : me[t] = r \/ me[t] = Idle
    BY <1>1
  <2> HIDE DEF r
  <2> QED BY <2>1, <2>2
<1>4. \A s \in Sessions : sess[s] = Unused /\ ~Open(s, sess)
  BY <1>1, <1>2 DEF Open
<1>5. \A t \in Threads : ~Building(me[t]) /\ ~Adding(me[t]) /\ ~AddsSecond(me[t])
  BY <1>3 DEF Building, Adding, AddsSecond
<1>6. \A t \in Threads : Arms(me[t], sess, handle, misread)
  BY <1>3, <1>5 DEF Arms
<1>7. Builders /\ OnlyFires
  BY <1>3, <1>5 DEF Builders, OnlyFires
<1>8. Ticking /\ Has2
  BY <1>4, HandleIs DEF Ticking, Has2
<1>9. HoldsOwn
  BY <1>2, <1>4, HandleIs DEF HoldsOwn, Held
<1>10. misread \subseteq Handles
  BY <1>1
<1> QED BY <1>6, <1>7, <1>8, <1>9, <1>10 DEF ArmInv

LEMMA StepArms == IInv /\ ArmInv /\ [Next]_vars => ArmInv'
<1> SUFFICES ASSUME IInv, ArmInv, [Next]_vars PROVE ArmInv'
  OBVIOUS
<1>1. CASE UNCHANGED vars
  BY <1>1, UnchangedArms DEF vars, timers
<1>2. ASSUME NEW t \in Conns, Request(t) PROVE ArmInv'
  BY <1>2, AllocSessionArms, CreateSessionArms, CreateFailsArms, AddLockedArms, AddDoneArms,
     AddInactivityArms, FindSessionArms, RefuseArms, ResetTimersArms, ResetLockedArms,
     AnswerArms, LogoutUserArms, LogoutCheckedArms, FreeConnArms DEF Request
<1>3. ASSUME Watchdog \in Threads, WatchdogStep PROVE ArmInv'
  <2>1. CASE WatchdogLock
    <3>1. /\ me[Watchdog].pc = "scan" /\ me' = [me EXCEPT ![Watchdog] = To(Watchdog, "pick")]
          /\ UNCHANGED <<sess, handle, list, misread>>
      BY <2>1 DEF WatchdogLock, Turn, Goto, Go
    <3> QED BY <1>3, <3>1, WatchdogLockArms
  <2> QED BY <1>3, <2>1, WatchdogPickArms, WatchdogFireArms, WatchdogFreeArms DEF WatchdogStep
<1>4. ASSUME NEW t \in Threads, Retirement(t) PROVE ArmInv'
  <2>1. CASE UseFreed(t)
    BY <2>1, UnchangedArms DEF UseFreed, timers
  <2> QED BY <1>4, <2>1, RetireSessArms, RemoveTimersArms, RemoveLockedArms, RemoveFreeArms,
             DelistedArms, UnlinkSessArms, CloseSessionArms DEF Retirement
<1> QED BY <1>1, <1>2, <1>3, <1>4 DEF Next, Step

(***************************************************************************)
(* In every behaviour: every timer of an open session ticks, unless        *)
(* another session has its handle.                                         *)
(***************************************************************************)
THEOREM ArmInvariance == Spec => []ArmInv
<1>1. IInv /\ ArmInv /\ [Next]_vars => ArmInv'
  BY StepArms
<1> QED BY <1>1, InitArms, Invariance, PTL DEF Spec

(***************************************************************************)
(* A session that a request can find has both its timers in the watchdog's *)
(* list, or being fired, and under the handles it has of them: it can time *)
(* out (nht_i_AllocSession, nht_i_AddWatchdog, nht_i_Watchdog).            *)
(***************************************************************************)
THEOREM FoundIsArmed == Spec => []FoundArmed
<1>1. IInv /\ ArmInv => FoundArmed
  <2> SUFFICES ASSUME IInv, ArmInv, NEW s \in In(listed)
               PROVE  /\ sess[s].state = "live" /\ ~sess[s].closed
                      /\ sess[s].cookie => /\ Armed(<<s, "w">>, sess[s].w)
                                           /\ Armed(<<s, "i">>, sess[s].i)
    BY DEF FoundArmed, Listed
  <2>1. s \in Sessions /\ sess[s].state = "live" /\ ~sess[s].closed /\ Open(s, sess)
    BY ListedKnown DEF Open
  <2>2. ASSUME sess[s].cookie, NEW h \in Handles, h[1] = s, h \notin misread
        PROVE  Held(h, sess) = h /\ (handle[h] \in list \/ Firing(h))
    <3>1. Held(h, sess) = h /\ handle[h] # None
      BY <2>1, <2>2 DEF ArmInv, Has2
    <3>2. ~Waits(h)
      <4> SUFFICES ASSUME NEW t \in Threads, me[t].pc = "adding", me[t].work[2] = h PROVE FALSE
        BY DEF Waits
      <4>1. me[t].own = s /\ Building(me[t]) /\ Arms(me[t], sess, handle, misread)
        BY <2>2, Mine DEF Placed, Building, Adding, ArmInv
      <4> QED BY <2>1, <2>2, <4>1 DEF Arms
    <3> QED BY <2>1, <2>2, <3>1, <3>2 DEF ArmInv, Ticking
  <2>3. /\ <<s, "w">> \in Handles /\ Held(<<s, "w">>, sess) = sess[s].w
        /\ <<s, "i">> \in Handles /\ Held(<<s, "i">>, sess) = sess[s].i
    BY <2>1, HandleIs DEF Held
  <2>4. ASSUME sess[s].cookie PROVE Armed(<<s, "w">>, sess[s].w) /\ Armed(<<s, "i">>, sess[s].i)
    BY <2>2, <2>3, <2>4 DEF Armed
  <2> QED BY <2>1, <2>4
<1> QED BY <1>1, Invariance, ArmInvariance, PTL

-----------------------------------------------------------------------------
(***************************************************************************)
(* The bounds of the counts.  Of those who release a session, one at most  *)
(* retires it, and gives back the reference of the watchdog manager; the   *)
(* others are connections that held it.                                    *)
(***************************************************************************)
Retires1(r) == Refs(r) /\ r.ret # "idle"

Bounded ==
  /\ cpu \in Threads \cup {None} /\ misread \subseteq Handles /\ fault \in BOOLEAN
  /\ \A t \in Threads : me[t].before <= Cardinality(Sessions)
  /\ \A s \in Sessions : sess[s].state # "live" => sess[s].cnt = 0
  /\ \A t \in Threads \ Conns : /\ me[t].own = None
                                /\ me[t].pc \in Retiring => me[t].ret # "idle"
  /\ \A t \in Threads : Retires1(me[t]) => sess[me[t].at].closed
  /\ \A t, u \in Threads :
       Retires1(me[t]) /\ Retires1(me[u]) /\ me[t].at = me[u].at => t = u

\* Thread t goes on with the variables r: it retires a session only if it was
\* retiring it, or marks it closed in this step.
Acts(t, r) ==
  /\ r \in Local /\ me' = [me EXCEPT ![t] = r]
  /\ r.before \in {0, me[t].before, Len(listed)}
  /\ t \notin Conns => r.own = None /\ (r.pc \in Retiring => r.ret # "idle")
  /\ Retires1(r) => \/ Retires1(me[t]) /\ r.at = me[t].at
                    \/ sess'[r.at].closed /\ ~sess[r.at].closed
  /\ cpu' \in {None, t} /\ misread' \subseteq Handles /\ fault' \in BOOLEAN

\* A session that is closed stays so while it is live, and one that is not
\* live has no references.
CountsStay ==
  \A s \in Sessions : /\ sess[s].state = "live" /\ sess[s].closed =>
                           sess'[s].closed \/ sess'[s].state # "live"
                      /\ sess'[s].state # "live" => sess'[s].cnt = 0

\* The list has no more entries than there are sessions.
LEMMA SessionsFew ==
  ASSUME IInv
  PROVE  Len(listed) \in Nat /\ Cardinality(Sessions) \in Nat /\ Len(listed) <= Cardinality(Sessions)
<1>1. listed \in Seq(Sessions) /\ Once(listed) /\ IsFiniteSet(Sessions)
  BY NhtAssumption DEF IInv, Types, RefInv, Published
<1> DEFINE n == Len(listed)
<1>2. n \in Nat /\ DOMAIN listed = 1..n
  BY <1>1
<1>3. listed \in [1..n -> Sessions] /\ \A i, j \in 1..n : listed[i] = listed[j] => i = j
  BY <1>1, <1>2 DEF Once
<1>4. listed \in Injection(1..n, Sessions)
  BY <1>3 DEF Injection, IsInjective
<1>5. IsFiniteSet(1..n) /\ Cardinality(1..n) = n
  <2> HIDE DEF n
  <2>1. 1 \in Int /\ n \in Int
    BY <1>2
  <2>2. IsFiniteSet(1..n) /\ Cardinality(1..n) = IF 1 > n THEN 0 ELSE n - 1 + 1
    BY ONLY <2>1, FS_Interval, ZenonT(40)
  <2> QED BY <1>2, <2>2
<1>6. Cardinality(1..n) <= Cardinality(Sessions)
  BY <1>1, <1>4, FS_Injection
<1> QED BY <1>1, <1>2, <1>5, <1>6, FS_CardinalityType

\* What a step of one thread may do keeps the bounds.
LEMMA ActsKeeps ==
  ASSUME IInv, IInv', Bounded, NEW t \in Threads, NEW r, Acts(t, r), CountsStay
  PROVE  Bounded'
<1>1. /\ me' \in [Threads -> Local] /\ me'[t] = r /\ \A u \in Threads : u # t => me'[u] = me[u]
  BY Updated DEF IInv, Acts
<1>2. /\ cpu' \in Threads \cup {None} /\ misread' \subseteq Handles /\ fault' \in BOOLEAN
  BY DEF Acts
<1>3. \A u \in Threads : me'[u].before <= Cardinality(Sessions)
  <2>1. me[t].before <= Cardinality(Sessions)
    BY DEF Bounded
  <2>2. r.before <= Cardinality(Sessions)
    BY <2>1, SessionsFew DEF Acts
  <2> QED BY <1>1, <2>2 DEF Bounded
<1>4. \A s \in Sessions : sess'[s].state # "live" => sess'[s].cnt = 0
  BY DEF CountsStay
<1>5. \A u \in Threads \ Conns : /\ me'[u].own = None
                                 /\ me'[u].pc \in Retiring => me'[u].ret # "idle"
  BY <1>1 DEF Acts, Bounded
<1>6. \A u \in Threads : Refs(me'[u]) => me'[u].at \in Sessions /\ sess'[me'[u].at].state = "live"
  <2> SUFFICES ASSUME NEW u \in Threads, Refs(me'[u])
               PROVE  me'[u].at \in Sessions /\ sess'[me'[u].at].state = "live"
    OBVIOUS
  <2>1. Placed(me'[u]) /\ me'[u] \in Local
    BY <1>1 DEF IInv, RefInv, Placed
  <2>2. me'[u].at \in Sessions
    BY <2>1 DEF Refs, Placed, Retiring, Local
  <2>3. PICK s \in Sessions : s = me'[u].at
    BY <2>2
  <2>4. Releasing(u, s)'
    BY <2>3 DEF Releasing, Refs
  <2> QED BY <2>3, <2>4 DEF IInv, RefInv, HeldAlive
<1>7. \A u \in Threads : Refs(me[u]) => me[u].at \in Sessions /\ sess[me[u].at].state = "live"
  BY Mine
<1>8. \A u \in Threads : u # t /\ Retires1(me'[u]) => sess'[me'[u].at].closed /\ Retires1(me[u])
  <2> SUFFICES ASSUME NEW u \in Threads, u # t, Retires1(me[u]), Refs(me'[u]), me'[u] = me[u]
               PROVE  sess'[me'[u].at].closed
    BY <1>1 DEF Retires1
  <2>1. me[u].at \in Sessions /\ sess'[me[u].at].state = "live"
    BY <1>6
  <2>2. sess[me[u].at].closed /\ sess[me[u].at].state = "live"
    BY <1>7 DEF Bounded, Retires1
  <2> QED BY <2>1, <2>2 DEF CountsStay
<1>9. Retires1(r) => sess'[r.at].closed
  <2> SUFFICES ASSUME Retires1(r), Retires1(me[t]), r.at = me[t].at
               PROVE  sess'[r.at].closed
    BY DEF Acts
  <2>1. r.at \in Sessions /\ sess'[r.at].state = "live"
    BY <1>1, <1>6 DEF Retires1
  <2>2. sess[r.at].closed /\ sess[r.at].state = "live"
    BY <1>7 DEF Bounded, Retires1
  <2> QED BY <2>1, <2>2 DEF CountsStay
<1>10. \A u \in Threads : Retires1(me'[u]) => sess'[me'[u].at].closed
  BY <1>1, <1>8, <1>9
<1>11. ASSUME NEW u \in Threads, u # t, Retires1(r), Retires1(me'[u]) PROVE r.at # me'[u].at
  <2>1. Retires1(me[u]) /\ me'[u] = me[u] /\ sess[me[u].at].closed
    BY <1>1, <1>8, <1>11 DEF Bounded
  <2>2. CASE Retires1(me[t]) /\ r.at = me[t].at
    BY <1>11, <2>1, <2>2 DEF Bounded
  <2>3. CASE ~sess[r.at].closed
    BY <2>1, <2>3
  <2> QED BY <1>11, <2>2, <2>3 DEF Acts
<1>12. \A u, v \in Threads :
         Retires1(me'[u]) /\ Retires1(me'[v]) /\ me'[u].at = me'[v].at => u = v
  <2> SUFFICES ASSUME NEW u \in Threads, NEW v \in Threads, Retires1(me'[u]), Retires1(me'[v]),
                      me'[u].at = me'[v].at, u # v
               PROVE  FALSE
    OBVIOUS
  <2>1. CASE u = t
    BY <1>1, <1>11, <2>1
  <2>2. CASE v = t
    BY <1>1, <1>11, <2>2
  <2>3. CASE u # t /\ v # t
    BY <1>1, <1>8, <2>3 DEF Bounded
  <2> QED BY <2>1, <2>2, <2>3
<1> QED BY <1>2, <1>3, <1>4, <1>5, <1>10, <1>12 DEF Bounded, Retires1, Refs

\* Only the scan of nht_i_LogoutUser sets its count.
LEMMA SameBefore ==
  ASSUME NEW t, me[t] \in Local, NEW l, NEW s
  PROVE  /\ To(t, l).before = me[t].before /\ After(t, l).before = me[t].before
         /\ ToRetire(t, s, l).before = me[t].before /\ Returned(t).before = me[t].before
         /\ Idle.before = 0 /\ [Idle EXCEPT !.pc = l].before = 0
BY DEF To, After, ToRetire, Returned, Idle, Local

\* The session of a step that changes none, and of one without links.
LEMMA NoneCounts ==
  ASSUME IInv, Bounded, sess' = sess
  PROVE  CountsStay
BY DEF Bounded, CountsStay

LEMMA LiveCounts ==
  ASSUME IInv, Bounded, NEW s \in Sessions, NEW n, sess' = [sess EXCEPT ![s] = n],
         sess[s].state = "live" /\ sess[s].closed => n.closed \/ n.state # "live",
         n.state # "live" => n.cnt = 0
  PROVE  CountsStay
BY DEF Bounded, CountsStay, IInv, Types

\* A thread moves on to l.
LEMMA ToActs ==
  ASSUME IInv, Bounded, NEW t \in Threads, NEW l \in Labels, NEW c \in {t, None},
         l \in Retiring => me[t].pc \in Retiring,
         l \in Retiring /\ l # "close" =>
           Refs(me[t]) \/ (me[t].pc = "retire" /\ sess'[me[t].at].closed /\ ~sess[me[t].at].closed),
         Go(t, To(t, l), c), UNCHANGED <<misread, fault>>
  PROVE  Acts(t, To(t, l))
<1> DEFINE r == To(t, l)
<1>1. me[t] \in Local /\ Placed(me[t])
  BY Mine
<1>2. /\ r \in Local /\ r.pc = l /\ r.own = me[t].own /\ r.at = me[t].at /\ r.ret = me[t].ret
      /\ r.before = me[t].before
  <2>1. r \in Local /\ r.pc = l /\ r.own = me[t].own /\ r.at = me[t].at /\ r.ret = me[t].ret
    BY <1>1, ToIs
  <2>2. r.before = me[t].before
    BY <1>1, SameBefore
  <2> QED BY <2>1, <2>2
<1>3. me' = [me EXCEPT ![t] = r] /\ cpu' = c
  BY DEF Go
<1> HIDE DEF r
<1>4. misread' \subseteq Handles /\ fault' \in BOOLEAN
  BY DEF Bounded
<1>5. t \notin Conns => me[t].own = None /\ (me[t].pc \in Retiring => me[t].ret # "idle")
  BY DEF Bounded
<1>6. Retires1(r) => \/ Retires1(me[t]) /\ r.at = me[t].at
                     \/ sess'[r.at].closed /\ ~sess[r.at].closed
  <2>1. Refs(r) => l \in Retiring /\ l # "close"
    BY <1>2 DEF Refs, Retiring
  <2> QED BY <1>2, <2>1 DEF Retires1
<1>7. t \notin Conns => r.own = None /\ (r.pc \in Retiring => r.ret # "idle")
  BY <1>2, <1>5
<1>8. Acts(t, r)
  BY <1>2, <1>3, <1>4, <1>6, <1>7 DEF Acts
<1> QED BY <1>8 DEF r

\* A thread that is done with its timer.
LEMMA AfterActs ==
  ASSUME IInv, Bounded, NEW t \in Threads, NEW l \in Labels, NEW c \in {t, None},
         l \in Retiring => Refs(me[t]) /\ l # "close",
         Go(t, After(t, l), c), misread' \subseteq Handles, UNCHANGED fault
  PROVE  Acts(t, After(t, l))
<1> DEFINE r == After(t, l)
<1>1. me[t] \in Local /\ Placed(me[t])
  BY Mine
<1>2. /\ r \in Local /\ r.pc = l /\ r.own = me[t].own /\ r.at = me[t].at /\ r.ret = me[t].ret
      /\ r.before = me[t].before
  <2>1. r \in Local /\ r.pc = l /\ r.own = me[t].own /\ r.at = me[t].at /\ r.ret = me[t].ret
    BY <1>1, AfterIs
  <2>2. r.before = me[t].before
    BY <1>1, SameBefore
  <2> QED BY <2>1, <2>2
<1>3. me' = [me EXCEPT ![t] = r] /\ cpu' = c
  BY DEF Go
<1> HIDE DEF r
<1>4. fault' \in BOOLEAN
  BY DEF Bounded
<1>5. t \notin Conns => me[t].own = None /\ (me[t].pc \in Retiring => me[t].ret # "idle")
  BY DEF Bounded
<1>6. Retires1(r) => Retires1(me[t]) /\ r.at = me[t].at
  <2>1. Refs(r) => l \in Retiring
    BY <1>2 DEF Refs, Retiring
  <2> QED BY <1>2, <2>1 DEF Retires1
<1>7. t \notin Conns => r.own = None /\ (r.pc \in Retiring => r.ret # "idle")
  <2>1. Refs(me[t]) => me[t].pc \in Retiring
    BY DEF Refs, Retiring
  <2> QED BY <1>2, <1>5, <2>1
<1>8. Acts(t, r)
  BY <1>2, <1>3, <1>4, <1>6, <1>7 DEF Acts
<1> QED BY <1>8 DEF r

\* A thread that releases nothing, or is about to retire a session or return.
LEMMA PlainActs ==
  ASSUME IInv, Bounded, NEW t \in Threads, NEW r \in Local, me' = [me EXCEPT ![t] = r],
         r.before \in {0, me[t].before, Len(listed)}, t \in Conns \/ r.own \in {None, me[t].own},
         ~Refs(r), t \in Conns \/ r.ret # "idle" \/ r.pc \notin Retiring, cpu' \in {None, t},
         UNCHANGED <<misread, fault>>
  PROVE  Acts(t, r)
BY DEF Bounded, Acts, Retires1

\* A thread that starts to retire a session, and one that has let go of it.
LEMMA RetireActs ==
  ASSUME IInv, Bounded, NEW t \in Threads, NEW s \in Sessions,
         NEW l \in {"create", "done", "alldone", "wfree"}, Stay(t, ToRetire(t, s, l))
  PROVE  Acts(t, ToRetire(t, s, l))
<1> DEFINE r == ToRetire(t, s, l)
<1>1. me[t] \in Local /\ l \in Labels
  BY Mine DEF Labels
<1>2. r \in Local /\ r.pc = "retire" /\ r.own = me[t].own /\ r.ret = l /\ r.before = me[t].before
  BY <1>1, ToRetireIs, SameBefore
<1>3. me' = [me EXCEPT ![t] = r] /\ cpu' = t /\ UNCHANGED <<misread, fault>>
  BY DEF Stay, Go
<1> HIDE DEF r
<1>4. ~Refs(r)
  BY <1>2 DEF Refs
<1>5. Acts(t, r)
  BY <1>2, <1>3, <1>4, PlainActs
<1> QED BY <1>5 DEF r

LEMMA ReturnActs ==
  ASSUME IInv, Bounded, NEW t \in Threads, me[t].pc \in Retiring, Stay(t, Returned(t))
  PROVE  Acts(t, Returned(t))
<1> DEFINE r == Returned(t)
<1>1. me[t] \in Local /\ Placed(me[t])
  BY Mine
<1>2. r \in Local /\ r.pc = me[t].ret /\ r.own = me[t].own /\ r.before = me[t].before
  BY <1>1, ReturnedIs, SameBefore
<1>3. me' = [me EXCEPT ![t] = r] /\ cpu' = t /\ UNCHANGED <<misread, fault>>
  BY DEF Stay, Go
<1> HIDE DEF r
<1>4. r.pc \notin Retiring /\ ~Refs(r)
  BY <1>1, <1>2 DEF Placed, Refs, Retiring
<1>5. Acts(t, r)
  BY <1>2, <1>3, <1>4, PlainActs
<1> QED BY <1>5 DEF r

\* A connection adds a timer.
LEMMA AddActs ==
  ASSUME IInv, Bounded, NEW t \in Conns, NEW q \in Local, NEW h \in Handles,
         q.before = me[t].before, AddWatchdog(t, q, h)
  PROVE  \E r : Acts(t, r)
<1>1. PICK a \in Timers : Goto(t, [q EXCEPT !.pc = "adding", !.work = <<a, h>>])
  BY DEF AddWatchdog
<1> DEFINE r == [q EXCEPT !.pc = "adding", !.work = <<a, h>>]
<1>2. me' = [me EXCEPT ![t] = r] /\ cpu' = None /\ UNCHANGED <<misread, fault>>
  BY <1>1 DEF Goto, Go
<1>3. r \in Local /\ r.pc = "adding" /\ r.before = me[t].before
  <2>1. <<a, h>> \in TimerRef /\ "adding" \in Labels
    BY HandleIs DEF Labels
  <2> QED BY <2>1 DEF Local
<1> HIDE DEF r
<1>4. ~Refs(r) /\ t \in Threads
  BY <1>3 DEF Refs, Threads
<1> QED BY <1>2, <1>3, <1>4, PlainActs

\* The steps of a request, of the watchdog and of a retirement.
LEMMA RequestActs ==
  ASSUME IInv, Bounded, NEW t \in Conns, Request(t)
  PROVE  \E r : Acts(t, r)
<1>0. t \in Threads
  BY DEF Threads
<1>1. me[t] \in Local /\ Placed(me[t])
  BY <1>0, Mine
<1>2. {"create", "idle", "done", "held", "all", "added", "addi", "linkedw"} \subseteq Labels \ Retiring
  BY DEF Labels, Retiring
<1>3. CASE AllocSession(t)
  <2>1. CASE \E s \in Listed : Stay(t, ToRetire(t, s, "create"))
    <3>1. PICK s \in In(listed) : Stay(t, ToRetire(t, s, "create"))
      BY <2>1 DEF Listed
    <3> QED BY <1>0, <3>1, ListedKnown, RetireActs
  <2>2. CASE Stay(t, To(t, "create"))
    BY <1>0, <1>2, <2>2, ToActs DEF Stay
  <2> QED BY <1>3, <2>1, <2>2 DEF AllocSession
<1>4. CASE CreateFails(t)
  <2>1. me' = [me EXCEPT ![t] = Idle] /\ cpu' = None /\ UNCHANGED <<misread, fault>>
    BY <1>4 DEF CreateFails, Goto, Go
  <2>2. Idle \in Local /\ Idle.pc = "idle" /\ Idle.own = None /\ Idle.before = 0
    BY <1>1, <1>2, IdleIs, SameBefore
  <2> QED BY <1>0, <2>1, <2>2, PlainActs DEF Refs
<1>5. CASE AddLocked(t)
  BY <1>0, <1>2, <1>5, ToActs DEF AddLocked, Goto
<1>6. CASE Refuse(t)
  BY <1>0, <1>2, <1>6, ToActs DEF Refuse, Goto
<1>7. CASE ResetLocked(t)
  <2>1. PICK l \in {"linkedw", "held", "done"} : Goto(t, After(t, l))
    BY <1>1, <1>7 DEF ResetLocked, Turn, Placed
  <2>2. misread' \subseteq Handles
    BY <2>1 DEF Goto, Bounded
  <2> QED BY <1>0, <1>2, <2>1, <2>2, AfterActs DEF Goto
<1>8. CASE Answer(t)
  <2>1. CASE Goto(t, To(t, "done"))
    BY <1>0, <1>2, <2>1, ToActs DEF Goto
  <2>2. CASE Stay(t, ToRetire(t, me[t].own, "done"))
    <3>1. me[t].own \in Sessions
      BY <1>0, <1>8, Mine DEF Answer, Turn, Placed, Owning
    <3> QED BY <1>0, <2>2, <3>1, RetireActs
  <2>3. CASE Stay(t, To(t, "all"))
    BY <1>0, <1>2, <2>3, ToActs DEF Stay
  <2> QED BY <1>8, <2>1, <2>2, <2>3 DEF Answer
<1>9. CASE LogoutUser(t)
  <2>1. CASE Goto(t, To(t, "done"))
    BY <1>0, <1>2, <2>1, ToActs DEF Goto
  <2>2. CASE /\ listed # <<>>
             /\ Stay(t, [ToRetire(t, Head(listed), "alldone") EXCEPT
                           !.search = Head(listed), !.before = Len(listed)])
    <3>1. Head(listed) \in Sessions /\ Len(listed) \in Nat /\ "alldone" \in Labels
      BY <2>2 DEF IInv, Types, Labels
    <3> DEFINE q == ToRetire(t, Head(listed), "alldone")
               r == [q EXCEPT !.search = Head(listed), !.before = Len(listed)]
    <3>2. q \in Local /\ q.pc = "retire" /\ q.own = me[t].own
      BY <1>1, <3>1, ToRetireIs
    <3>3. me' = [me EXCEPT ![t] = r] /\ cpu' = t /\ UNCHANGED <<misread, fault>>
      BY <2>2 DEF Stay, Go
    <3> HIDE DEF q
    <3>4. r \in Local /\ r.pc = "retire" /\ r.own = me[t].own /\ r.before = Len(listed)
      BY <3>1, <3>2 DEF Local
    <3> HIDE DEF r
    <3>5. ~Refs(r)
      BY <3>4 DEF Refs
    <3> QED BY <1>0, <3>3, <3>4, <3>5, PlainActs
  <2> QED BY <1>9, <2>1, <2>2 DEF LogoutUser
<1>10. CASE LogoutChecked(t)
  <2>1. PICK l \in {"all", "done"}, c \in {t, None} :
          Go(t, [[me[t] EXCEPT !.search = None, !.before = 0] EXCEPT !.pc = l], c)
          /\ UNCHANGED <<misread, fault>>
    BY <1>10 DEF LogoutChecked, Goto, Stay
  <2> DEFINE r == [[me[t] EXCEPT !.search = None, !.before = 0] EXCEPT !.pc = l]
  <2>2. r \in Local /\ r.pc = l /\ r.own = me[t].own /\ r.before = 0
    <3>1. l \in Labels /\ 0 \in Nat /\ None \in Sessions \cup {None}
      BY <1>2
    <3> QED BY <1>1, <3>1 DEF Local
  <2>3. me' = [me EXCEPT ![t] = r] /\ cpu' = c
    BY <2>1 DEF Go
  <2> HIDE DEF r
  <2>4. ~Refs(r)
    BY <2>2 DEF Refs
  <2> QED BY <1>0, <2>1, <2>2, <2>3, <2>4, PlainActs
<1>11. CASE FreeConn(t)
  <2> DEFINE s == me[t].own
             r == [ToUnlink(t, s, "idle") EXCEPT !.own = None, !.w_timer = None, !.i_timer = None]
  <2>1. me' = [me EXCEPT ![t] = r] /\ cpu' = t /\ UNCHANGED <<misread, fault>>
    BY <1>11 DEF FreeConn, Stay, Go
  <2>2. r \in Local /\ r.ret = "idle" /\ r.before = me[t].before
    <3>1. {"idle", "unlink"} \subseteq Labels /\ s \in Sessions \cup {None} /\ None \in Sessions \cup {None}
      BY <1>1 DEF Labels, Local
    <3> QED BY <1>1, <3>1 DEF ToUnlink, Local
  <2> HIDE DEF r
  <2>3. ~Retires1(r)
    BY <2>2 DEF Retires1
  <2> QED BY <2>1, <2>2, <2>3 DEF Acts, Bounded
<1>12. CASE ResetTimers(t)
  <2>1. PICK h \in {me[t].w_timer, me[t].i_timer}, l \in {"linkedw", "held"} :
          me[t].pc \in {"linked", "linkedw"} /\ ResetWatchdog(t, h, l)
    BY <1>12 DEF ResetTimers, Turn
  <2>2. CASE HandlePtr(h) = None
    BY <1>0, <1>2, <2>1, <2>2, ToActs DEF ResetWatchdog, Goto
  <2>3. CASE HandlePtr(h) # None
    <3>1. h \in Handles /\ handle[h] # None
      BY <1>1, <2>3 DEF HandlePtr, Local
    <3>2. <<handle[h], h>> \in TimerRef /\ l \in Labels /\ "resetting" \in Labels
      BY <3>1, HandleIs DEF IInv, Types, Labels
    <3> DEFINE w == <<handle[h], h>>
               r == [me[t] EXCEPT !.pc = "resetting", !.then = l, !.work = w]
    <3>3. me' = [me EXCEPT ![t] = r] /\ cpu' = None /\ UNCHANGED <<misread, fault>>
      BY <2>1, <2>3 DEF ResetWatchdog, Goto, Go
    <3> HIDE DEF w
    <3>4. r \in Local /\ r.pc = "resetting" /\ r.own = me[t].own /\ r.before = me[t].before
      BY <1>1, <3>2 DEF Local, w
    <3> HIDE DEF r
    <3>5. ~Refs(r)
      BY <3>4 DEF Refs
    <3> QED BY <1>0, <3>3, <3>4, <3>5, PlainActs
  <2> QED BY <2>2, <2>3
<1>13. CASE AddInactivity(t)
  <2>1. AddWatchdog(t, me[t], <<me[t].own, "i">>)
    BY <1>13 DEF AddInactivity
  <2>2. <<me[t].own, "i">> \in Handles
    <3>1. me[t].own \in Sessions
      BY <1>0, <1>13, Mine DEF AddInactivity, Turn, Creating
    <3> QED BY <3>1, HandleIs
  <2> QED BY <1>1, <2>1, <2>2, AddActs
<1>14. CASE CreateSession(t)
  <2>1. PICK s \in Sessions : AddWatchdog(t, [me[t] EXCEPT !.own = s], <<s, "w">>)
    BY <1>14 DEF CreateSession
  <2> DEFINE q == [me[t] EXCEPT !.own = s]
  <2>2. q \in Local /\ q.before = me[t].before
    BY <1>1 DEF Local
  <2>3. AddWatchdog(t, q, <<s, "w">>)
    BY <2>1
  <2> HIDE DEF q
  <2> QED BY <2>2, <2>3, HandleIs, AddActs
<1>15. CASE FindSession(t)
  <2>1. PICK s \in In(listed) : Goto(t, Found(t, s))
    BY <1>15 DEF FindSession, Listed
  <2>2. s \in Sessions /\ sess[s] \in Session
    BY ListedKnown DEF IInv, Types
  <2> DEFINE r == Found(t, s)
  <2>3. me' = [me EXCEPT ![t] = r] /\ cpu' = None /\ UNCHANGED <<misread, fault>>
    BY <2>1 DEF Goto, Go
  <2>4. r \in Local /\ r.pc = "linked" /\ r.before = me[t].before
    <3>1. sess[s].w \in Handles \cup {None} /\ sess[s].i \in Handles \cup {None}
      BY <2>2 DEF Session
    <3> QED BY <1>1, <2>2, <3>1 DEF Found, Local, Labels
  <2> HIDE DEF r
  <2>5. ~Refs(r)
    BY <2>4 DEF Refs
  <2> QED BY <1>0, <2>3, <2>4, <2>5, PlainActs
<1>16. CASE AddDone(t)
  <2> DEFINE h == timer[me[t].work[1]]
  <2>1. PICK l \in {"addi", "held"}, c \in {t, None} : Go(t, After(t, l), c)
    BY <1>16 DEF AddDone
  <2>2. UNCHANGED fault /\ misread' = misread \cup ({h} \ {me[t].work[2]}) /\ h # None
    BY <1>16 DEF AddDone
  <2>3. h \in Handles
    <3>1. me[t].work \in TimerOf
      BY <1>1, <1>16 DEF AddDone, Turn, Placed
    <3> QED BY <2>2, <3>1, HandleIs DEF IInv, Types
  <2> HIDE DEF h
  <2>4. misread' \subseteq Handles
    BY <2>2, <2>3 DEF Bounded
  <2> QED BY <1>0, <1>2, <2>1, <2>2, <2>4, AfterActs
<1> QED BY <1>3, <1>4, <1>5, <1>6, <1>7, <1>8, <1>9, <1>10, <1>11, <1>12, <1>13, <1>14, <1>15,
           <1>16 DEF Request

LEMMA WatchdogActs ==
  ASSUME IInv, Bounded, Watchdog \in Threads, WatchdogStep
  PROVE  \E r : Acts(Watchdog, r)
<1>1. me[Watchdog] \in Local /\ Placed(me[Watchdog])
  BY Mine
<1>2. {"pick", "scan"} \subseteq Labels \ Retiring
  BY DEF Labels, Retiring
<1>3. CASE WatchdogLock
  BY <1>2, <1>3, ToActs DEF WatchdogLock, Goto
<1>4. CASE WatchdogPick
  <2>1. CASE Goto(Watchdog, To(Watchdog, "scan"))
    BY <1>2, <2>1, ToActs DEF Goto
  <2>2. CASE \E a \in list : Goto(Watchdog, [me[Watchdog] EXCEPT !.pc = "fire",
                                                               !.fired = <<a, timer[a]>>])
    <3>1. PICK a \in list : Goto(Watchdog, [me[Watchdog] EXCEPT !.pc = "fire",
                                                               !.fired = <<a, timer[a]>>])
      BY <2>2
    <3> DEFINE w == <<a, timer[a]>>
               r == [me[Watchdog] EXCEPT !.pc = "fire", !.fired = w]
    <3>2. me' = [me EXCEPT ![Watchdog] = r] /\ cpu' = None /\ UNCHANGED <<misread, fault>>
      BY <3>1 DEF Goto, Go
    <3>3. w \in TimerRef /\ "fire" \in Labels
      BY DEF IInv, Types, TimerRef, Labels
    <3> HIDE DEF w
    <3>4. r \in Local /\ r.pc = "fire" /\ r.own = me[Watchdog].own
          /\ r.before = me[Watchdog].before
      BY <1>1, <3>3 DEF Local
    <3> HIDE DEF r
    <3>5. ~Refs(r) /\ r.pc \notin Retiring
      BY <3>4 DEF Refs, Retiring
    <3> QED BY <3>2, <3>4, <3>5, PlainActs
  <2> QED BY <1>4, <2>1, <2>2 DEF WatchdogPick
<1>5. CASE WatchdogFire
  <2>1. me[Watchdog].fired \in TimerOf
    BY <1>1, <1>5 DEF WatchdogFire, Turn, Placed
  <2>2. PICK s \in Sessions : s = me[Watchdog].fired[2][1]
    BY <2>1, HandleIs
  <2> QED BY <1>5, <2>2, RetireActs DEF WatchdogFire
<1>6. CASE WatchdogFree
  <2> DEFINE r == [Idle EXCEPT !.pc = "scan"]
  <2>1. me' = [me EXCEPT ![Watchdog] = r] /\ cpu' = None /\ UNCHANGED <<misread, fault>>
    BY <1>6 DEF WatchdogFree, Goto, Go
  <2>2. r \in Local /\ r.pc = "scan" /\ r.own = None /\ r.before = 0
    BY <1>1, <1>2, IdleIs, SameBefore
  <2> HIDE DEF r
  <2>3. ~Refs(r) /\ r.pc \notin Retiring
    BY <2>2 DEF Refs, Retiring
  <2> QED BY <2>1, <2>2, <2>3, PlainActs
<1> QED BY <1>3, <1>4, <1>5, <1>6 DEF WatchdogStep

LEMMA RetirementActs ==
  ASSUME IInv, Bounded, NEW t \in Threads, Retirement(t)
  PROVE  \E r : Acts(t, r)
<1>1. me[t] \in Local /\ Placed(me[t])
  BY Mine
<1>2. {"rmw", "rmi", "delisted", "rmfree", "unlink", "close"} \subseteq Labels \cap Retiring
  BY DEF Labels, Retiring
<1>3. CASE RetireSess(t)
  <2>1. me[t].pc = "retire" /\ me[t].pc \in Retiring
    BY <1>3 DEF RetireSess, Turn, Retiring
  <2>2. CASE sess[me[t].at].closed
    BY <1>3, <2>1, <2>2, ReturnActs DEF RetireSess
  <2>3. CASE ~sess[me[t].at].closed
    <3>1. PICK s \in Sessions : s = me[t].at
      BY <1>1, <2>1, Mine DEF Placed
    <3>2. sess' = [sess EXCEPT ![s].closed = TRUE] /\ Stay(t, To(t, "rmw"))
      BY <1>3, <2>3, <3>1 DEF RetireSess
    <3>3. sess'[s].closed
      BY <3>2 DEF IInv, Types, Session
    <3> QED BY <1>2, <2>1, <2>3, <3>1, <3>2, <3>3, ToActs DEF Stay
  <2> QED BY <2>2, <2>3
<1>4. CASE RemoveTimers(t)
  <2>0. me[t].pc \in {"rmw", "rmi"} /\ me[t].at \in Sessions
    BY <1>4, Mine DEF RemoveTimers, Turn, Refs
  <2>1. PICK h \in Handles \cup {None}, l \in {"rmi", "delisted"} : RemoveWatchdog(t, h, l)
    <3>1. sess[me[t].at].w \in Handles \cup {None} /\ sess[me[t].at].i \in Handles \cup {None}
      BY <2>0 DEF IInv, Types, Session
    <3> QED BY <1>4, <3>1 DEF RemoveTimers
  <2>2. Refs(me[t]) /\ me[t].pc \in Retiring /\ l # "close"
    BY <2>0 DEF Refs, Retiring
  <2>3. CASE HandlePtr(h) = None
    BY <1>2, <2>1, <2>2, <2>3, ToActs DEF RemoveWatchdog, Stay
  <2>4. CASE HandlePtr(h) # None
    <3>1. h \in Handles /\ handle[h] # None
      BY <2>4 DEF HandlePtr
    <3> DEFINE w == <<handle[h], h>>
               r == [me[t] EXCEPT !.pc = "removing", !.then = l, !.work = w]
    <3>2. w \in TimerRef /\ {"removing", l} \subseteq Labels
      BY <3>1 DEF IInv, Types, TimerRef, Labels
    <3>3. me' = [me EXCEPT ![t] = r] /\ cpu' = None /\ UNCHANGED <<misread, fault>>
      BY <2>1, <2>4 DEF RemoveWatchdog, Goto, Go
    <3> HIDE DEF w
    <3>4. r \in Local /\ r.pc = "removing" /\ r.own = me[t].own /\ r.at = me[t].at
          /\ r.ret = me[t].ret /\ r.before = me[t].before
      BY <1>1, <3>2 DEF Local
    <3> HIDE DEF r
    <3>5. t \notin Conns => me[t].own = None /\ me[t].ret # "idle"
      BY <2>2 DEF Bounded
    <3>6. Retires1(r) => Retires1(me[t])
      BY <2>2, <3>4 DEF Retires1
    <3> QED BY <3>3, <3>4, <3>5, <3>6 DEF Acts, Bounded
  <2> QED BY <2>3, <2>4
<1>5. CASE RemoveLocked(t)
  <2>0. me[t].pc = "removing" /\ me[t].then \in {"rmi", "delisted"}
    BY <1>1, <1>5 DEF RemoveLocked, Turn, Placed
  <2>1. Refs(me[t]) /\ me[t].pc \in Retiring
    BY <2>0 DEF Refs, Retiring
  <2>2. CASE Goto(t, To(t, "rmfree"))
    BY <1>2, <2>1, <2>2, ToActs DEF Goto
  <2>3. CASE Goto(t, After(t, me[t].then))
    <3>1. misread' \subseteq Handles
      BY <2>3 DEF Goto, Bounded
    <3> QED BY <1>2, <2>0, <2>1, <2>3, <3>1, AfterActs DEF Goto
  <2> QED BY <1>5, <2>2, <2>3 DEF RemoveLocked
<1>6. CASE RemoveFree(t)
  <2>0. me[t].pc = "rmfree" /\ me[t].then \in {"rmi", "delisted"}
    BY <1>1, <1>6 DEF RemoveFree, Turn, Placed
  <2>1. Refs(me[t]) /\ me[t].pc \in Retiring /\ Goto(t, After(t, me[t].then))
    BY <1>6, <2>0 DEF Refs, Retiring, RemoveFree
  <2>2. misread' \subseteq Handles
    BY <2>1 DEF Goto, Bounded
  <2> QED BY <1>2, <2>0, <2>1, <2>2, AfterActs DEF Goto
<1>7. CASE Delisted(t)
  <2>1. me[t].pc = "delisted" /\ Stay(t, To(t, "unlink"))
    BY <1>7 DEF Delisted, Turn
  <2>2. Refs(me[t]) /\ me[t].pc \in Retiring
    BY <2>1 DEF Refs, Retiring
  <2> QED BY <1>2, <2>1, <2>2, ToActs DEF Stay
<1>8. CASE UnlinkSess(t)
  <2>1. me[t].pc = "unlink"
    BY <1>8 DEF UnlinkSess, Turn
  <2>2. me[t].pc \in Retiring
    BY <2>1 DEF Retiring
  <2>3. CASE Goto(t, To(t, "close"))
    BY <1>2, <2>2, <2>3, ToActs DEF Goto
  <2>4. CASE Stay(t, Returned(t))
    BY <2>2, <2>4, ReturnActs
  <2> QED BY <1>8, <2>3, <2>4 DEF UnlinkSess
<1>9. CASE CloseSession(t)
  BY <1>9, ReturnActs DEF CloseSession, Turn, Retiring
<1>10. CASE UseFreed(t)
  <2>1. UNCHANGED <<me, cpu, misread>> /\ fault' = TRUE /\ me' = [me EXCEPT ![t] = me[t]]
    BY <1>10 DEF UseFreed, IInv, Types
  <2>2. cpu \in {None, t}
    BY <1>10 DEF UseFreed, Turn
  <2> QED BY <1>1, <2>1, <2>2 DEF Acts, Bounded
<1> QED BY <1>3, <1>4, <1>5, <1>6, <1>7, <1>8, <1>9, <1>10 DEF Retirement

-----------------------------------------------------------------------------
\* What the steps do to the count and the mark of a session.
LEMMA StepCounts ==
  ASSUME IInv, Bounded, NEW t \in Threads, Step(t)
  PROVE  CountsStay
<1>1. me[t] \in Local /\ Placed(me[t]) /\ sess \in [Sessions -> Session]
  BY Mine DEF IInv, Types
<1>2. ASSUME NEW s \in Sessions PROVE sess[s].closed \in BOOLEAN /\ sess[s].cnt \in Int
  BY <1>1 DEF Session
<1>3. CASE CreateSession(t)
  <2>1. PICK s \in Sessions :
          sess[s].state = "unused" /\ sess' = [sess EXCEPT ![s] = [Unused EXCEPT !.state = "live", !.cnt = 2]]
    BY <1>3 DEF CreateSession
  <2> DEFINE n == [Unused EXCEPT !.state = "live", !.cnt = 2]
  <2>2. n.state = "live"
    BY DEF Unused
  <2>3. sess' = [sess EXCEPT ![s] = n]
    BY <2>1
  <2> HIDE DEF n
  <2> QED BY <2>1, <2>2, <2>3, LiveCounts
<1>4. CASE AddDone(t)
  <2>1. me[t].own \in Sessions /\ sess[me[t].own].state = "live"
    BY <1>1, <1>4, Mine DEF AddDone, Turn, Placed, Owning
  <2>2. \A x \in Sessions : /\ sess'[x].state = sess[x].state /\ sess'[x].cnt = sess[x].cnt
                            /\ sess'[x].closed = sess[x].closed
    BY <1>1, <1>4, <2>1 DEF AddDone, Session
  <2> QED BY <2>2 DEF CountsStay, Bounded
<1>5. CASE FindSession(t)
  <2>1. PICK s \in In(listed) : sess' = [sess EXCEPT ![s].cnt = @ + 1]
    BY <1>5 DEF FindSession, Listed
  <2>2. s \in Sessions /\ sess[s].state = "live" /\ ~sess[s].closed
    BY ListedKnown
  <2>3. \A x \in Sessions : /\ sess'[x].state = sess[x].state /\ sess'[x].closed = sess[x].closed
                            /\ sess[x].state # "live" => sess'[x].cnt = sess[x].cnt
    BY <1>1, <2>1, <2>2 DEF Session
  <2> QED BY <2>3 DEF CountsStay, Bounded
<1>6. CASE RetireSess(t)
  <2>1. CASE sess' = sess
    BY <2>1, NoneCounts
  <2>2. CASE sess' = [sess EXCEPT ![me[t].at].closed = TRUE]
    <3>1. me[t].at \in Sessions
      BY <1>1, <1>6, Mine DEF RetireSess, Turn, Placed, Retiring
    <3>2. \A x \in Sessions : /\ sess'[x].state = sess[x].state /\ sess'[x].cnt = sess[x].cnt
                              /\ sess[x].closed => sess'[x].closed
      BY <1>1, <2>2, <3>1 DEF Session
    <3> QED BY <3>2 DEF CountsStay, Bounded
  <2> QED BY <1>6, <2>1, <2>2 DEF RetireSess
<1>7. CASE Delisted(t)
  <2>1. me[t].at \in Sessions
    BY <1>1, <1>7, Mine DEF Delisted, Turn, Placed, Retiring
  <2>2. \A x \in Sessions : /\ sess'[x].state = sess[x].state /\ sess'[x].cnt = sess[x].cnt
                            /\ sess'[x].closed = sess[x].closed
    BY <1>1, <1>7, <2>1 DEF Delisted, Session
  <2> QED BY <2>2 DEF CountsStay, Bounded
<1>8. CASE UnlinkSess(t)
  <2>1. me[t].at \in Sessions /\ sess[me[t].at].state = "live"
    BY <1>8, Mine DEF UnlinkSess, Turn, Refs
  <2>2. \A x \in Sessions : /\ sess'[x].state = sess[x].state /\ sess'[x].closed = sess[x].closed
                            /\ sess[x].state # "live" => sess'[x].cnt = sess[x].cnt
    BY <1>1, <1>8, <2>1 DEF UnlinkSess, Session
  <2> QED BY <2>2 DEF CountsStay, Bounded
<1>9. CASE CloseSession(t)
  <2> DEFINE n == [Unused EXCEPT !.state = "freed"]
  <2>1. n.state = "freed" /\ n.cnt = 0
    BY DEF Unused
  <2>2. sess' = [sess EXCEPT ![me[t].at] = n] /\ me[t].at \in Sessions
    BY <1>1, <1>9, Mine DEF CloseSession, Turn, Placed, Retiring
  <2> HIDE DEF n
  <2> QED BY <2>1, <2>2, LiveCounts
<1>10. CASE sess' = sess
  BY <1>10, NoneCounts
<1>11. \/ CreateSession(t) \/ AddDone(t) \/ FindSession(t) \/ RetireSess(t) \/ Delisted(t)
       \/ UnlinkSess(t) \/ CloseSession(t) \/ sess' = sess
  BY DEF Step, Request, WatchdogStep, Retirement, AllocSession, CreateFails, AddLocked, AddInactivity,
     Refuse, ResetTimers, ResetWatchdog, ResetLocked, Answer, LogoutUser, LogoutChecked, FreeConn,
     WatchdogLock, WatchdogPick, WatchdogFire, WatchdogFree, RemoveTimers, RemoveWatchdog,
     RemoveLocked, RemoveFree, UseFreed
<1> QED BY <1>3, <1>4, <1>5, <1>6, <1>7, <1>8, <1>9, <1>10, <1>11

\* The bounds are kept by every step, and hold at first.
LEMMA StepBounded == IInv /\ Bounded /\ [Next]_vars => Bounded'
<1> SUFFICES ASSUME IInv, Bounded, [Next]_vars PROVE Bounded'
  OBVIOUS
<1>1. IInv'
  BY StepKeeps
<1>2. CASE UNCHANGED vars
  BY <1>2 DEF vars, timers, Bounded
<1>3. ASSUME NEW t \in Threads, Step(t) PROVE Bounded'
  <2>1. CountsStay
    BY <1>3, StepCounts
  <2>2. \E r : Acts(t, r)
    BY <1>3, RequestActs, WatchdogActs, RetirementActs DEF Step
  <2>3. PICK r : Acts(t, r)
    BY <2>2
  <2> QED BY <1>1, <2>1, <2>3, ActsKeeps
<1> QED BY <1>2, <1>3 DEF Next

LEMMA InitBounded == Init => Bounded
<1> SUFFICES ASSUME Init PROVE Bounded
  OBVIOUS
<1>1. /\ sess = [s \in Sessions |-> Unused] /\ cpu = None /\ misread = {} /\ fault = FALSE
      /\ me = [t \in Threads |-> IF t = Watchdog THEN [Idle EXCEPT !.pc = "scan"] ELSE Idle]
  BY DEF Init
<1>2. \A t \in Threads : me[t].pc \in {"idle", "scan"} /\ me[t].own = None /\ me[t].before = 0
  <2> DEFINE r == [Idle EXCEPT !.pc = "scan"]
  <2>1. /\ r.pc = "scan" /\ r.own = None /\ r.before = 0
        /\ Idle.pc = "idle" /\ Idle.own = None /\ Idle.before = 0
    BY DEF Idle
  <2>2. \A t \in Threads : me[t] = r \/ me[t] = Idle
    BY <1>1
  <2> HIDE DEF r
  <2> QED BY <2>1, <2>2
<1>3. \A t \in Threads : me[t].pc \notin Retiring /\ ~Retires1(me[t])
  BY <1>2 DEF Retiring, Retires1, Refs
<1>4. 0 <= Cardinality(Sessions)
  BY NhtAssumption, FS_CardinalityType
<1>5. \A s \in Sessions : sess[s].cnt = 0
  BY <1>1 DEF Unused
<1> QED BY <1>1, <1>2, <1>3, <1>4, <1>5 DEF Bounded

(***************************************************************************)
(* Two disjoint sets have together as many elements as they have apart.    *)
(***************************************************************************)
LEMMA CardDisjoint ==
  ASSUME NEW A, NEW B, IsFiniteSet(A), IsFiniteSet(B), A \cap B = {}
  PROVE  Cardinality(A \cup B) = Cardinality(A) + Cardinality(B)
<1>1. Cardinality(A \cup B)
        = Cardinality(A) + Cardinality(B) - Cardinality(A \cap B)
  BY FS_Union
<1>2. Cardinality(A \cap B) = 0
  BY FS_EmptySet
<1>3. Cardinality(A) \in Nat /\ Cardinality(B) \in Nat
  BY FS_CardinalityType
<1> QED BY <1>1, <1>2, <1>3

(***************************************************************************)
(* The count of a live session.                                            *)
(***************************************************************************)
LEMMA CountBounded ==
  ASSUME IInv, Bounded, NEW s \in Sessions, sess[s].state = "live"
  PROVE  sess[s].cnt \in 0..(Cardinality(Conns) + 1)
<1> DEFINE C == {u \in Releasers(s) : me[u].ret # "idle"}
           F == {u \in Releasers(s) : me[u].ret = "idle"}
           m == IF sess[s].closed THEN 0 ELSE 1
<1>1. IsFiniteSet(Owners(s)) /\ IsFiniteSet(Releasers(s)) /\ IsFiniteSet(C) /\ IsFiniteSet(F)
  BY Finite, FS_Subset
<1>2. sess[s].cnt = Cardinality(Owners(s)) + Cardinality(Releasers(s)) + m
  BY CountIs DEF IInv, RefInv
<1>3. Cardinality(Releasers(s)) = Cardinality(C) + Cardinality(F)
  <2>1. C \cup F = Releasers(s) /\ C \cap F = {}
    OBVIOUS
  <2> HIDE DEF C, F
  <2> QED BY <1>1, <2>1, CardDisjoint
<1>4. Cardinality(Owners(s)) + Cardinality(F) <= Cardinality(Conns)
  <2>1. Owners(s) \cup F \subseteq Conns
    BY NotNone DEF Owners, Releasers, Releasing, Bounded, Retiring
  <2>2. Owners(s) \cap F = {}
    <3> SUFFICES ASSUME NEW u \in Threads, me[u].own = s, Releasing(u, s), me[u].ret = "idle"
                 PROVE  FALSE
      BY DEF Owners, Releasers
    <3>1. me[u].pc \in Retiring /\ me[u].own # None
      BY NotNone DEF Releasing, Retiring
    <3> QED BY <3>1, Mine DEF Placed
  <2> HIDE DEF F
  <2>3. Cardinality(Owners(s) \cup F) = Cardinality(Owners(s)) + Cardinality(F)
    BY <1>1, <2>2, CardDisjoint
  <2>4. Cardinality(Owners(s) \cup F) <= Cardinality(Conns)
    BY <2>1, NhtAssumption, FS_Subset
  <2> QED BY <2>3, <2>4
<1>5. Cardinality(C) + m <= 1
  <2>1. \A u \in C : Retires1(me[u]) /\ me[u].at = s /\ u \in Threads
    BY DEF Releasers, Releasing, Retires1, Refs
  <2>2. m = 0 \/ m = 1
    OBVIOUS
  <2>3. CASE C = {}
    <3> HIDE DEF C, m
    <3>1. Cardinality(C) = 0
      BY <2>3, FS_EmptySet
    <3> QED BY <3>1, <2>2
  <2>4. CASE C # {}
    <3>1. PICK u : u \in C
      BY <2>4
    <3>2. C = {u} /\ sess[s].closed
      BY <2>1, <3>1 DEF Bounded
    <3>3. m = 0
      BY <3>2
    <3> HIDE DEF C, m
    <3>4. Cardinality({u}) = 1
      BY FS_Singleton
    <3> QED BY <3>2, <3>3, <3>4
  <2> QED BY <2>3, <2>4
<1>6. /\ Cardinality(Owners(s)) \in Nat /\ Cardinality(F) \in Nat /\ Cardinality(C) \in Nat
      /\ Cardinality(Conns) \in Nat /\ m \in {0, 1}
  BY <1>1, NhtAssumption, FS_CardinalityType
<1> HIDE DEF C, F, m
<1> QED BY <1>2, <1>3, <1>4, <1>5, <1>6

(***************************************************************************)
(* All variables keep their types, and no session has more references than *)
(* connections and the watchdog manager can have: what several of them     *)
(* release at once is not counted twice (nht_i_RetireSess, nht_i_FreeConn).*)
(***************************************************************************)
THEOREM TypeCorrect == Spec => []TypeOK
<1>1. IInv /\ Bounded => TypeOK
  <2> SUFFICES ASSUME IInv, Bounded PROVE TypeOK
    OBVIOUS
  <2>1. \A s \in Sessions : sess[s].cnt \in 0..(Cardinality(Conns) + 1)
    <3> SUFFICES ASSUME NEW s \in Sessions PROVE sess[s].cnt \in 0..(Cardinality(Conns) + 1)
      OBVIOUS
    <3>1. CASE sess[s].state # "live"
      <4>1. Cardinality(Conns) \in Nat
        BY NhtAssumption, FS_CardinalityType
      <4> QED BY <3>1, <4>1 DEF Bounded
    <3> QED BY <3>1, CountBounded
  <2> DEFINE S == [state : {"unused", "live", "freed"}, cnt : 0..(Cardinality(Conns) + 1),
                   closed : BOOLEAN, cookie : BOOLEAN,
                   w : Handles \cup {None}, i : Handles \cup {None}]
             L == [pc : Labels, own : Sessions \cup {None}, w_timer : Handles \cup {None},
                   i_timer : Handles \cup {None}, at : Sessions \cup {None}, ret : Labels,
                   work : TimerRef, then : Labels, fired : TimerRef,
                   search : Sessions \cup {None}, before : 0..Cardinality(Sessions)]
  <2>2. sess \in [Sessions -> S]
    <3>1. sess \in [Sessions -> Session]
      BY DEF IInv, Types
    <3>2. \A s \in Sessions : sess[s] \in S
      <4> SUFFICES ASSUME NEW s \in Sessions PROVE sess[s] \in S
        OBVIOUS
      <4>1. sess[s] \in Session /\ sess[s].cnt \in 0..(Cardinality(Conns) + 1)
        BY <2>1, <3>1
      <4> QED BY <4>1 DEF Session
    <3> HIDE DEF S
    <3> QED BY <3>1, <3>2
  <2>3. me \in [Threads -> L]
    <3>1. me \in [Threads -> Local]
      BY DEF IInv, Types
    <3>2. \A t \in Threads : me[t] \in L
      <4> SUFFICES ASSUME NEW t \in Threads PROVE me[t] \in L
        OBVIOUS
      <4>1. me[t] \in Local /\ me[t].before <= Cardinality(Sessions)
            /\ Cardinality(Sessions) \in Nat
        BY <3>1, NhtAssumption, FS_CardinalityType DEF Bounded
      <4>2. me[t].before \in 0..Cardinality(Sessions)
        BY <4>1 DEF Local
      <4> QED BY <4>1, <4>2 DEF Local
    <3> HIDE DEF L
    <3> QED BY <3>1, <3>2
  <2> QED BY <2>2, <2>3 DEF TypeOK, TimerRef, IInv, Types, Bounded
<1>2. Spec => []Bounded
  BY InitBounded, StepBounded, Invariance, PTL DEF Spec
<1> QED BY <1>1, <1>2, Invariance, PTL
=============================================================================
