------------------------------- MODULE MqJoin -------------------------------
(***************************************************************************)
(* The join of the multi-query engine (multiq_equijoin.c): mqjAnalyze puts *)
(* the sources of a query in an order and finds what each depends on, and  *)
(* mqjNextItem is a nested loop over them that keeps its place in a state  *)
(* per source and goes on from there at the next call.                     *)
(*                                                                         *)
(* A query is its joins in the order of the text, one at most for each two *)
(* sources, inner or with one of them as the outer member.  A source is a  *)
(* sequence of values; the expression of a join is that the values differ, *)
(* which is not transitive, so that no join is implied by others.  A bit   *)
(* mask is a set of sources.  No object is provided to the query from      *)
(* outside, and no source is marked NONEMPTY.                              *)
(***************************************************************************)
EXTENDS Lines, SequencesExt

CONSTANTS
  Sources,     \* numbers, by their score in the choice of an order (Score)
  Values,
  Null,        \* no object
  Cases        \* queries: the joins in the order of the text, the rows that the
               \* sources may have, and which drivers may fail

\* The joins of two sources.
Pairs == {p \in SUBSET Sources : Cardinality(p) = 2}
Joins == {j \in [mask : Pairs, outer : SUBSET Sources] :
            j.outer \subseteq j.mask /\ j.outer # j.mask}

ASSUME JoinAssumption ==
  /\ Sources \subseteq Nat /\ IsFiniteSet(Sources)
  /\ IsFiniteSet(Values) /\ Null \notin Values
  /\ \A c \in Cases :
       /\ c.joins \in Seq(Joins)
       /\ Once([j \in DOMAIN c.joins |-> c.joins[j].mask])
       /\ c.rows \subseteq [Sources -> Seq(Values)]
       /\ \A r \in c.rows, s \in Sources : Once(r[s])
       /\ c.fails \subseteq SUBSET Sources

VARIABLES
  query,   \* the joins, and whether it is clear what they mean together
  rows,    \* the rows of each source
  fails,   \* the sources whose driver fails after its last row
  plan,    \* what mqjAnalyze finds out
  src,     \* the sources, in the order of the plan: MqjJoinExec
  at,      \* which source mqj_internal_NextItem_r is at, 0 when it has returned
  step,    \* where it is: "enter", "loop" or "back", from the next source
  rval,    \* what it returned
  out,     \* the rows the join has returned
  ended,   \* how the caller has ended it with mqjFinish: "no", "end" or "cancel"
  failed   \* a driver has failed (no variable of the code)

vars == <<query, rows, fails, plan, src, at, step, rval, out, ended, failed>>

-----------------------------------------------------------------------------
(***************************************************************************)
(* mqjAnalyze.                                                             *)
(***************************************************************************)
Inner(j) == j.mask \ j.outer

\* The objects that are inner because of each outer join, query-wide.
GlobalInner(joins) ==
  LET n == Len(joins)
      Sweep == [k \in 1..(n * n) |-> <<n - ((k - 1) \div n), 1 + ((k - 1) % n)>>]
      Widen(g, p) ==
        IF p[1] # p[2] /\ joins[p[1]].outer # {} /\ joins[p[2]].mask \cap g[p[1]] # {}
        THEN [g EXCEPT ![p[1]] = @ \cup g[p[2]]] ELSE g
  IN FoldLeft(Widen, [i \in 1..n |-> Inner(joins[i])], Sweep)

\* Mutant: an inner member may come before the outer ones.
MayBeNextAnyhow(joins, inner, used, s) ==
  LET Tied(j) == s \in joins[j].mask /\ joins[j].mask \cap used # {} IN
  (\E j \in DOMAIN joins : Tied(j)) =>
    \E j \in DOMAIN joins : Tied(j) /\ joins[j].mask \subseteq used \cup {s}

\* Criteria 1 and 2 of mqj_internal_DetermineJoinOrder.
MayBeNext(joins, inner, used, s) ==
  LET Tied(j) == s \in joins[j].mask /\ joins[j].mask \cap used # {} IN
  /\ \A j \in DOMAIN joins : s \in inner[j] => joins[j].outer \subseteq used
  /\ (\E j \in DOMAIN joins : Tied(j)) =>
       \E j \in DOMAIN joins : Tied(j) /\ joins[j].mask \subseteq used \cup {s}

\* The orders in which every source may be next.
JoinOrders(joins, inner) ==
  {o \in SetToSeqs(Sources) :
     \A k \in DOMAIN o : MayBeNext(joins, inner, Range(SubSeq(o, 1, k - 1)), o[k])}

\* Criteria 3 and 4: of two sources that may be next, is s tried before t?
TriedBefore(joins, used, s, t) ==
  LET Tied(x) == \E j \in DOMAIN joins : x \in joins[j].mask /\ joins[j].mask \cap used # {} IN
  IF Tied(s) = Tied(t) THEN s > t ELSE Tied(s)

\* The order that mqj_internal_DetermineJoinOrder finds first: at the first place
\* where another one differs, that has a source which is tried later.
FirstOrders(joins, orders) ==
  {o \in orders :
     \A p \in orders, k \in 1..Len(o) :
       LET before == SubSeq(o, 1, k - 1) IN
       before = SubSeq(p, 1, k - 1) /\ o[k] # p[k] =>
         TriedBefore(joins, Range(before), o[k], p[k])}

\* What each join depends on: all its sources but the last in the order.
DependsOn(joins, order) ==
  [j \in DOMAIN joins |->
     joins[j].mask \ {order[Max({k \in DOMAIN order : order[k] \in joins[j].mask})]}]

GlobalDependsOn(joins, dep) ==
  LET n == Len(joins)
      Sweep == [k \in 1..(n * n) |-> <<1 + ((k - 1) \div n), 1 + ((k - 1) % n)>>]
      Widen(g, p) ==
        IF p[1] # p[2] /\ joins[p[2]].mask \cap g[p[1]] # {}
           /\ dep[p[2]] \cap g[p[1]] = {}
        THEN [g EXCEPT ![p[1]] = @ \cup dep[p[2]]] ELSE g
  IN FoldLeft(Widen, dep, Sweep)

\* What the i-th source of an order depends on.
Dep(joins, order, i) ==
  LET dep == DependsOn(joins, order)
      gdep == GlobalDependsOn(joins, dep)
  IN UNION {dep[j] : j \in {j \in DOMAIN joins : order[i] \in joins[j].mask \ gdep[j]}}

\* Is it an inner member of an outer join?
Outer(joins, order, i) ==
  \E j \in DOMAIN joins : /\ joins[j].outer # {}
                          /\ joins[j].outer \subseteq Dep(joins, order, i)
                          /\ order[i] \in Inner(joins[j])

\* The sources that can be a null row.
CanBeOuter(joins, order) ==
  FoldLeft(LAMBDA o, i : IF Outer(joins, order, i)
                            \/ (Dep(joins, order, i) # {} /\ Dep(joins, order, i) \subseteq o)
                         THEN o \cup {order[i]} ELSE o,
           {}, [i \in DOMAIN order |-> i])

\* What must follow a row of the i-th source.
ReverseDep(joins, order, i) ==
  {order[k] : k \in {k \in (i + 1)..Len(order) :
                       order[i] \in Dep(joins, order, k) /\ ~Outer(joins, order, k)}}

\* The joins that are checked when the i-th source is started.
JoinsOf(joins, order, i) ==
  LET Covered(k) == {j \in DOMAIN joins :
                       /\ order[k] \in joins[j].mask
                       /\ joins[j].mask \subseteq Dep(joins, order, k) \cup {order[k]}}
  IN Covered(i) \ UNION {Covered(k) : k \in 1..(i - 1)}

\* The plan of a query: a MqjSource for each source, in the order.
PlanOf(joins, order) ==
  [i \in DOMAIN order |->
     [id |-> order[i], dep |-> Dep(joins, order, i),
      canBeOuter |-> order[i] \in CanBeOuter(joins, order),
      rdep |-> ReverseDep(joins, order, i), joins |-> JoinsOf(joins, order, i)]]

\* A query whose sources have no order has none.
Plan(q) ==
  LET first == FirstOrders(q.joins, JoinOrders(q.joins, GlobalInner(q.joins))) IN
  IF first = {} THEN <<>> ELSE PlanOf(q.joins, CHOOSE o \in first : TRUE)

-----------------------------------------------------------------------------
(***************************************************************************)
(* The execution: st, pos (how many rows of it were looked at), cnt        *)
(* (ReturnIterCnt), open (its driver is started) and row (its object in    *)
(* the object list).                                                       *)
(***************************************************************************)
NotStarted == [st |-> "notstarted", pos |-> 0, cnt |-> 0, open |-> FALSE, row |-> Null]

\* Mutant: the row stays in the object list.
FinishedKeepsRow(s) == [s EXCEPT !.st = "finished", !.open = FALSE]

Finished(s) == [s EXCEPT !.st = "finished", !.open = FALSE, !.row = Null]
FinishedIfStarted(s) == IF s.st = "started" THEN Finished(s) ELSE [s EXCEPT !.st = "finished"]

N == Len(plan)
Started == {plan[i].id : i \in {i \in 1..N : src[i].st = "started"}}
IsNull(i) == ~(plan[i].dep \subseteq Started)
InLoop(s) == s.st \in {"started", "outer"}

RowOf(s) == src[CHOOSE i \in 1..N : plan[i].id = s].row

\* The joins of the source hold for its row v and the rows of those it depends on.
Matches(i, v) ==
  \A j \in plan[i].joins :
    \A s \in query.joins[j].mask \ {plan[i].id} : RowOf(s) # v

At(l, i) == step = l /\ at = i /\ i \in 1..N
GoOn(i, l) == at' = i /\ step' = l /\ UNCHANGED rval
Return(v) == at' = at - 1 /\ step' = "back" /\ rval' = v

Unchanged == UNCHANGED <<query, rows, fails, plan, ended>>

NextItem ==
  /\ at = 0 /\ ended = "no" /\ step = "enter"
  /\ GoOn(1, "enter")
  /\ UNCHANGED <<src, out, failed>> /\ Unchanged

\* What it depends on is a null row.
EnterNull(i) ==
  /\ At("enter", i) /\ IsNull(i) /\ ~plan[i].canBeOuter
  /\ src' = [src EXCEPT ![i] = FinishedIfStarted(@)]
  /\ Return(0)
  /\ UNCHANGED <<out, failed>> /\ Unchanged

Enter(i) ==
  /\ At("enter", i) /\ (IsNull(i) => plan[i].canBeOuter)
  /\ src' = IF src[i].st # "notstarted" THEN src
            ELSE [src EXCEPT ![i] = IF IsNull(i)
                                    THEN [NotStarted EXCEPT !.st = "outer"]
                                    ELSE [NotStarted EXCEPT !.st = "started", !.open = TRUE]]
  /\ GoOn(i, "loop")
  /\ UNCHANGED <<out, failed>> /\ Unchanged

\* The driver of the source cannot be started.
StartFails(i) ==
  /\ At("enter", i) /\ src[i].st = "notstarted" /\ ~IsNull(i) /\ plan[i].id \in fails
  /\ rows[plan[i].id] = <<>>
  /\ src' = [src EXCEPT ![i].cnt = 0]
  /\ failed' = TRUE
  /\ Return(-1)
  /\ UNCHANGED out /\ Unchanged

\* Does the loop take a row, or is there more behind the one it has?
Takes(i) == i = N \/ src[i + 1].st \in {"notstarted", "finished"}

\* The next row of the source that its joins let through, 0 when there is none.
NextRow(i) ==
  LET r == rows[plan[i].id]
      ok == {k \in (src[i].pos + 1)..Len(r) : Matches(i, r[k])}
  IN IF ok = {} THEN 0 ELSE CHOOSE k \in ok : \A l \in ok : k <= l

\* Mutant: a null row is returned even after rows that matched.
TakenAlwaysOuter(i) ==
  LET k == NextRow(i)
      s == src[i]
      t == IF s.st # "started" THEN s
           ELSE IF k = 0 THEN Finished(s)
           ELSE [s EXCEPT !.pos = k, !.row = rows[plan[i].id][k]]
      u == IF t.st = "finished" /\ plan[i].canBeOuter
           THEN [t EXCEPT !.st = "outer"] ELSE t
  IN IF s.st = "outer" /\ u.cnt >= 1 THEN [u EXCEPT !.st = "finished"] ELSE u

\* Mutant: at the end of its rows the driver is not finished.
TakenStaysOpen(i) ==
  LET k == NextRow(i)
      s == src[i]
      t == IF s.st # "started" THEN s
           ELSE IF k = 0 THEN [s EXCEPT !.st = "finished", !.row = Null]
           ELSE [s EXCEPT !.pos = k, !.row = rows[plan[i].id][k]]
      u == IF t.st = "finished" /\ t.cnt = 0 /\ plan[i].canBeOuter
           THEN [t EXCEPT !.st = "outer"] ELSE t
  IN IF u.st = "outer" /\ u.cnt >= 1 THEN [u EXCEPT !.st = "finished"] ELSE u

\* The source after a row was taken of it: the end of its rows, and an error,
\* finish it; with none returned it becomes a null row, once.
Taken(i) ==
  LET k == NextRow(i)
      s == src[i]
      t == IF s.st # "started" THEN s
           ELSE IF k = 0 THEN Finished(s)
           ELSE [s EXCEPT !.pos = k, !.row = rows[plan[i].id][k]]
      u == IF t.st = "finished" /\ t.cnt = 0 /\ plan[i].canBeOuter
           THEN [t EXCEPT !.st = "outer"] ELSE t
  IN IF u.st = "outer" /\ u.cnt >= 1 THEN [u EXCEPT !.st = "finished"] ELSE u

Loop(i) ==
  LET s == IF Takes(i) THEN Taken(i) ELSE src[i] IN
  /\ At("loop", i) /\ InLoop(src[i])
  /\ \/ /\ InLoop(s) /\ i < N
        /\ src' = [src EXCEPT ![i] = s,
                              ![i + 1] = IF Takes(i) THEN [@ EXCEPT !.st = "notstarted"] ELSE @]
        /\ GoOn(i + 1, "enter")
     \/ /\ InLoop(s) /\ i = N
        /\ src' = [src EXCEPT ![i] = [s EXCEPT !.cnt = @ + 1]]
        /\ Return(1)
     \/ /\ ~InLoop(s)
        /\ src' = [src EXCEPT ![i] = s]
        /\ Return(0)
  /\ failed' = (failed \/ /\ Takes(i) /\ src[i].st = "started" /\ NextRow(i) = 0
                           /\ plan[i].id \in fails)
  /\ UNCHANGED out /\ Unchanged

\* The next source has returned.
BackError(i) ==
  /\ At("back", i) /\ rval = -1
  /\ src' = [src EXCEPT ![i] = FinishedIfStarted(@)]
  /\ Return(-1)
  /\ UNCHANGED <<out, failed>> /\ Unchanged

\* What depends on this row came out null: the row is not a result.
BackUnfulfilled(i) ==
  /\ At("back", i) /\ rval = 1
  /\ src[i].st = "started" /\ ~(plan[i].rdep \subseteq Started)
  /\ src' = [k \in 1..N |->
               IF k > i /\ plan[k].id \in plan[i].rdep /\ InLoop(src[k])
               THEN FinishedIfStarted(src[k]) ELSE src[k]]
  /\ GoOn(i, "loop")
  /\ UNCHANGED <<out, failed>> /\ Unchanged

\* Mutant: a row is a result though what depends on it came out null.
BackRowAnyhow(i) ==
  /\ At("back", i) /\ rval = 1
  /\ src' = [src EXCEPT ![i].cnt = @ + 1]
  /\ Return(1)
  /\ UNCHANGED <<out, failed>> /\ Unchanged

BackRow(i) ==
  /\ At("back", i) /\ rval = 1
  /\ src[i].st = "started" => plan[i].rdep \subseteq Started
  /\ src' = [src EXCEPT ![i].cnt = @ + 1]
  /\ Return(1)
  /\ UNCHANGED <<out, failed>> /\ Unchanged

BackNone(i) ==
  /\ At("back", i) /\ rval = 0
  /\ IF src[i].st = "outer" /\ src[i + 1].cnt = 0
     THEN src' = [src EXCEPT ![i].cnt = @ + 1] /\ Return(1)
     ELSE GoOn(i, "loop") /\ UNCHANGED src
  /\ UNCHANGED <<out, failed>> /\ Unchanged

\* mqjNextItem returns to its caller.
Returned ==
  /\ at = 0 /\ step = "back" /\ ended = "no"
  /\ step' = "enter"
  /\ out' = IF rval = 1 THEN Append(out, [s \in Sources |-> RowOf(s)]) ELSE out
  /\ ended' = IF rval = 1 THEN "no" ELSE "end"
  /\ src' = IF rval = 1 THEN src
            ELSE [i \in 1..N |-> IF src[i].st = "started" THEN Finished(src[i]) ELSE src[i]]
  /\ UNCHANGED <<query, rows, fails, plan, at, rval, failed>>

\* mqjFinish, before the last row was asked for.
Cancel ==
  /\ at = 0 /\ step = "enter" /\ ended = "no"
  /\ ended' = "cancel"
  /\ src' = [i \in 1..N |-> IF src[i].st = "started" THEN Finished(src[i]) ELSE src[i]]
  /\ UNCHANGED <<query, rows, fails, plan, at, step, rval, out, failed>>

-----------------------------------------------------------------------------
\* The sources that inner joins tie together: they match together or not at all.
Group(J, s) ==
  {t \in Sources :
     \A S \in SUBSET Sources :
       (s \in S /\ \A j \in J : j.outer = {} /\ j.mask \cap S # {} => j.mask \subseteq S)
       => t \in S}

\* The groups an outer join makes s and its group depend on.
Above(J, s) == {Group(J, t) : t \in UNION {j.outer : j \in {j \in J :
                                              Inner(j) # {} /\ j.outer # {}
                                              /\ Inner(j) \subseteq Group(J, s)}}}

Roots(J) == {Group(J, s) : s \in {s \in Sources : Above(J, s) = {}}}

\* The outer joins put the groups in a tree, each below another by one of its
\* sources: else the query has no one meaning.  A source that no join ties to the
\* others, beside an outer join, is left out too: it comes out null with a null
\* row before it in the order.
HasMeaning(J) ==
  /\ (\E j \in J : j.outer # {}) => Cardinality(Roots(J)) = 1
  /\ \A s \in Sources : Cardinality(Above(J, s)) <= 1
  /\ \A s \in Sources : Group(J, s) \notin Above(J, s)
  /\ \A s \in Sources :
       Cardinality(Group(J, s) \cap UNION {Inner(j) : j \in {j \in J : j.outer # {}}}) <= 1
  /\ \A s, t \in Sources : Group(J, t) \in Above(J, s) => Group(J, s) \notin Above(J, t)

Init ==
  /\ \E c \in Cases :
       /\ query = [joins |-> c.joins, clear |-> HasMeaning(Range(c.joins))]
       /\ plan = Plan(query) /\ plan # <<>>
       /\ rows \in c.rows
       /\ fails \in c.fails
  /\ src = [i \in 1..Len(plan) |-> NotStarted]
  /\ at = 0 /\ step = "enter" /\ rval = 1
  /\ out = <<>> /\ ended = "no" /\ failed = FALSE

Step(i) ==
  \/ EnterNull(i) \/ Enter(i) \/ StartFails(i) \/ Loop(i)
  \/ BackError(i) \/ BackUnfulfilled(i) \/ BackRow(i) \/ BackNone(i)

Next == NextItem \/ Returned \/ Cancel \/ \E i \in 1..N : Step(i)

Spec == Init /\ [][Next]_vars

-----------------------------------------------------------------------------
(***************************************************************************)
(* What the query means.                                                   *)
(***************************************************************************)

(* Types; and no row of a source that is not started stays in the object list. *)
TypeOK ==
  /\ at \in 0..N
  /\ step \in {"enter", "loop", "back"}
  /\ rval \in {-1, 0, 1}
  /\ ended \in {"no", "end", "cancel"}
  /\ \A i \in 1..N : /\ src[i].st \in {"notstarted", "started", "outer", "finished"}
                     /\ src[i].row \in Values \cup {Null}
                     /\ src[i].row # Null => src[i].st = "started"

\* The joins of the group of s hold when its sources have the rows of g and the
\* sources above it those of env.
Holds(env, g) ==
  \A j \in Range(query.joins) :
    LET row == [s \in Sources |-> IF s \in DOMAIN g THEN g[s] ELSE env[s]] IN
    (Inner(j) \subseteq DOMAIN g) => \A s, t \in j.mask : s # t => row[s] # row[t]

RowsOf(G) == {g \in [G -> Values] : \A s \in G : g[s] \in Range(rows[s])}

\* env is a row of the result: a group whose group above is there has rows that
\* match, or, when none do and it is not a root, is null.
IsResult(env) ==
  /\ \A s \in Sources : env[s] = Null \/ env[s] \in Range(rows[s])
  /\ \A s \in Sources :
       LET J == Range(query.joins)
           G == Group(J, s)
           g == [t \in G |-> env[t]]
           root == Above(J, s) = {}
           aboveNull == \E A \in Above(J, s) : \E t \in A : env[t] = Null
           match == {c \in RowsOf(G) : Holds(env, c)}
       IN IF ~root /\ (aboveNull \/ match = {}) THEN \A t \in G : g[t] = Null
          ELSE g \in match

Results == {env \in [Sources -> Values \cup {Null}] : IsResult(env)}

Joined == Range(out) = Results /\ Len(out) = Cardinality(Results)

(* Two kinds of queries whose rows the code gets wrong (README, section 3).

   After a row of source i must follow one of source j, and behind j stands a
   source k that needs neither.  When j comes out null, BackUnfulfilled leaves k
   started, and with the next row of i no row of j is taken. *)
LeftStarted(p) ==
  \E i, j, k \in DOMAIN p :
    /\ i < j /\ j < k
    /\ p[j].id \in p[i].rdep /\ p[j].canBeOuter
    /\ p[k].id \notin p[i].rdep /\ p[j].id \notin p[k].dep

(* The sweep of GlobalInner ends with a join that still widens what an outer join
   makes inner. *)
Unswept(joins) ==
  LET inner == GlobalInner(joins) IN
  \E i, j \in DOMAIN joins :
    /\ joins[i].outer # {}
    /\ joins[j].mask \cap inner[i] # {} /\ ~(Inner(joins[j]) \subseteq inner[i])

(* The rows the nested loop returns are those the joins mean, inner and outer,
   each once, whatever the order mqjAnalyze has put the sources in. *)
ResultIsJoin ==
  ended = "end" /\ ~failed /\ query.clear
  /\ ~LeftStarted(plan) /\ ~Unswept(query.joins) => Joined

(* The same of every query that has one meaning: the code violates it, in
   MqJoin_left.cfg and in MqJoin_sweep.cfg, for the two kinds above. *)
EveryResultIsJoin == ended = "end" /\ ~failed /\ query.clear => Joined

(* A driver that is started is finished once, at the end of its rows, when what
   it depends on is null or when the caller is done, and is not asked for a row
   otherwise: the state of a source and that of its driver go together.  A source
   that is finished is started anew before it is entered. *)
CursorsPaired ==
  /\ \A i \in 1..N : At("enter", i) => src[i].st # "finished"
  /\ \A i \in 1..N : src[i].open = (src[i].st = "started")
  /\ ended # "no" => \A i \in 1..N : ~src[i].open
=============================================================================
