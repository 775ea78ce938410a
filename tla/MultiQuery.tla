----------------------------- MODULE MultiQuery -----------------------------
(***************************************************************************)
(* A running multi-query (multiquery.c) and the grouping of its rows       *)
(* (multiq_tablegen.c): the statements of the text run one after the       *)
(* other, each fetch returns a row as an object of its own that outlives   *)
(* the next fetch, the statement and the query, and GROUP BY reads a row   *)
(* ahead.  The caller closes rows and the query in any order.              *)
(*                                                                         *)
(* A statement has one source, whose rows are objects: <<statement, n>> is *)
(* its n-th row (MqJoin models several).  An object is freed when its link *)
(* count falls to 0.                                                       *)
(***************************************************************************)
EXTENDS Integers, Sequences, FiniteSets, SequencesExt

CONSTANTS
  Texts,      \* the queries: sequences of statements
  Handles,    \* the rows the caller can hold at a time
  Values      \* the values of GROUP BY items

None == <<>>                               \* no object
NoStmt == 0

\* level is that of the highest aggregate; error says when the source fails.
QueryStatement ==
  [kind : {"select", "assign", "immediate", "bad"},
   rows : Seq([g : Values, ok : BOOLEAN]),
   by : BOOLEAN, level : 0..2, having : Nat, start : Nat, cnt : Nat,
   error : {"no", "open", "late"}]

ASSUME QueryAssumption ==
  /\ IsFiniteSet(Handles)
  /\ Texts \subseteq Seq(QueryStatement)

VARIABLES
  text,       \* the statements
  qy,         \* MultiQuery: links, cur, ended (MQ_F_ENDOFSQL), open (the caller's)
  stmt,       \* QueryStatement of each statement, with its tree
  objlist,    \* the object in the object list of the query
  links,      \* link counts of the objects
  pseudo,     \* PseudoObject: the rows the caller has
  pc,         \* where mqQueryFetch is: "idle" when it has returned
  out         \* what the rows of each statement were when they were returned

vars == <<text, qy, stmt, objlist, links, pseudo, pc, out>>

Stmts == DOMAIN text
Cur == qy.cur
S == stmt[Cur]
T == text[Cur]
Objs == UNION {{i} \X DOMAIN text[i].rows : i \in Stmts}

NewStmt == [alive |-> FALSE, links |-> 0, finished |-> TRUE, finishes |-> 0, started |-> 0,
            iter |-> -1, user |-> 0,
            pos |-> 0,              \* how many rows the source has returned
            saved |-> None,         \* SavedObjList
            saving |-> FALSE,       \* nObjects # 0
            last |-> FALSE,         \* IsLastRow
            key |-> None,           \* the values of the GROUP BY items, GroupByPtr
            begun |-> FALSE,        \* IterCnt of the tablegen element is above 0
            agg |-> <<>>,           \* the rows counted in the aggregates of level 1
            agg2 |-> <<>>]          \* and of level 2

Linked(l, o) == IF o = None THEN l ELSE [l EXCEPT ![o] = @ + 1]
Closed(l, o) == IF o = None THEN l ELSE [l EXCEPT ![o] = @ - 1]

-----------------------------------------------------------------------------
(***************************************************************************)
(* The life of a statement.                                                *)
(***************************************************************************)
\* Mutant: the saved row is forgotten.
TreeForgets(s, o, l) ==
  [stmt |-> [s EXCEPT !.saving = FALSE, !.finishes = @ + 1], links |-> Closed(l, o)]

\* mqtFinish: the saved row is put back first, so that the driver below closes
\* the row it knows and the one read ahead is closed here.
TreeFinished(s, o, l) ==
  LET back == s.saving /\ s.begun
  IN [stmt |-> [s EXCEPT !.saved = IF back THEN None ELSE @,
                         !.saving = IF back THEN FALSE ELSE @,
                         !.finishes = @ + 1],
      links |-> Closed(Closed(l, o), IF back THEN s.saved ELSE None)]

\* Mutant: the tree is finished again.
FinishAgain(s, o, l) ==
  LET f == TreeFinished(s, o, l) IN
  [stmt |-> [f.stmt EXCEPT !.finished = TRUE], objlist |-> None, links |-> f.links]

\* mq_internal_FinishStatement.
FinishStatement(s, o, l) ==
  LET f == TreeFinished(s, o, l) IN
  IF s.finished THEN [stmt |-> s, objlist |-> o, links |-> l]
  ELSE [stmt |-> [f.stmt EXCEPT !.finished = TRUE], objlist |-> None, links |-> f.links]

\* Mutant: the statement is freed under the rows that need it.
CloseStatementNow(s, o, l) ==
  LET f == FinishStatement([s EXCEPT !.links = @ - 1], o, l) IN
  [f EXCEPT !.stmt.alive = FALSE]

\* mq_internal_CloseStatement.
CloseStatement(s, o, l) ==
  LET t == [s EXCEPT !.links = @ - 1]
      f == FinishStatement(t, o, l)
  IN IF t.links > 0 THEN [stmt |-> t, objlist |-> o, links |-> l]
     ELSE [f EXCEPT !.stmt.alive = FALSE]

\* Mutant: the text is not read on.
NextStatementAgain(q, i) ==
  LET more == {k \in Stmts : k >= i /\ text[k].kind # "immediate"}
      k == CHOOSE k \in more : \A j \in more : k <= j
  IN IF more = {} THEN [q EXCEPT !.cur = NoStmt, !.ended = TRUE]
     ELSE IF text[k].kind = "bad" THEN [q EXCEPT !.cur = NoStmt, !.ended = (k = Len(text))]
     ELSE [q EXCEPT !.cur = k, !.ended = (k = Len(text))]

\* mq_internal_NextStatement: the statement after i becomes the current one, and
\* none does when it cannot be parsed or started.  Declarations and the like run
\* at once and go on to the next.
NextStatement(q, i) ==
  LET more == {k \in Stmts : k > i /\ text[k].kind # "immediate"}
      k == CHOOSE k \in more : \A j \in more : k <= j
  IN IF more = {} THEN [q EXCEPT !.cur = NoStmt, !.ended = TRUE]
     ELSE IF text[k].kind = "bad" THEN [q EXCEPT !.cur = NoStmt, !.ended = (k = Len(text))]
     ELSE [q EXCEPT !.cur = k, !.ended = (k = Len(text))]

\* A statement as NextStatement leaves it.
StartedStmt(st, k) ==
  IF k = NoStmt THEN st
  ELSE [st EXCEPT ![k] = [NewStmt EXCEPT !.alive = TRUE, !.links = 1, !.finished = FALSE,
                                         !.started = 1]]

\* mq_internal_QueryClose: the last link closes the current statement.
Unlinked(q, st, o, l) ==
  LET n == [q EXCEPT !.links = @ - 1]
      c == CloseStatement(st[q.cur], o, l)
  IN IF n.links > 0 \/ q.cur = NoStmt THEN [qy |-> n, stmt |-> st, objlist |-> o, links |-> l]
     ELSE [qy |-> [n EXCEPT !.cur = NoStmt], stmt |-> [st EXCEPT ![q.cur] = c.stmt],
           objlist |-> c.objlist, links |-> c.links]

-----------------------------------------------------------------------------
(***************************************************************************)
(* The rows of the statement.                                              *)
(***************************************************************************)
\* The source closes its last row and opens the next.  One that cannot be opened is
\* an error once and then has no rows (mqpNextItem); a join may fail after some, and
\* goes on to.  The tablegen element takes the first row its constraint lets through.
ChildItem(s, o, l) ==
  LET n == Len(T.rows)
      ok == {k \in (s.pos + 1)..n : T.rows[k].ok}
      k == CHOOSE k \in ok : \A j \in ok : k <= j
      shut == Closed(l, o)
      fails == T.error = "late" \/ (T.error = "open" /\ s.pos = 0)
  IN IF ok = {} THEN [rval |-> IF fails THEN -1 ELSE 0, pos |-> Len(T.rows) + 1, row |-> None,
                      links |-> shut]
     ELSE [rval |-> 1, pos |-> k, row |-> <<Cur, k>>, links |-> Linked(shut, <<Cur, k>>)]

\* The values of the GROUP BY items for a row, those of no row included.
KeyOf(o) == IF ~T.by THEN <<"all">> ELSE IF o = None THEN <<"null">> ELSE <<T.rows[o[2]].g>>

At(p) == pc = p /\ Cur # NoStmt
Set(s) == stmt' = [stmt EXCEPT ![Cur] = s]

\* mqQueryFetch; with no current statement it returns at once.
Fetch ==
  /\ pc = "idle" /\ qy.open /\ Cur # NoStmt
  /\ \E h \in Handles : pseudo[h] = None
  /\ pc' = "next"
  /\ UNCHANGED <<text, qy, stmt, objlist, links, pseudo, out>>

\* The statement is at its end or its LIMIT: on to the next one.
EndOfStatement(s, o, l) ==
  LET f == FinishStatement(s, o, l)
      c == CloseStatement(f.stmt, f.objlist, f.links)
      q == NextStatement(qy, Cur)
  IN /\ qy' = q
     /\ stmt' = StartedStmt([stmt EXCEPT ![Cur] = c.stmt], q.cur)
     /\ objlist' = c.objlist /\ links' = c.links
     /\ pc' = IF q.cur = NoStmt THEN "idle" ELSE "next"

LimitReached ==
  /\ At("next") /\ S.user >= T.cnt
  /\ EndOfStatement(S, objlist, links)
  /\ UNCHANGED <<text, pseudo, out>>

Grouped == T.by \/ T.level > 0

\* mqtNextItem without grouping.
NextPlain ==
  LET c == ChildItem(S, objlist, links)
      s == [S EXCEPT !.pos = c.pos, !.begun = TRUE]
  IN
  /\ At("next") /\ S.user < T.cnt /\ ~Grouped
  /\ IF c.rval = 0 THEN EndOfStatement(s, None, c.links)
     ELSE /\ Set(s) /\ objlist' = c.row /\ links' = c.links
          /\ pc' = IF c.rval = 1 THEN "row" ELSE "idle"
          /\ UNCHANGED qy
  /\ UNCHANGED <<text, pseudo, out>>

\* Mutant: the row read ahead is not put back.
GroupAsItIs(s, o, l) ==
  [stmt |-> [s EXCEPT !.begun = TRUE, !.agg = <<>>], objlist |-> o, links |-> l]

\* mqtNextItem with grouping: the aggregates are reset, the row read ahead is put
\* back and the one of the last group closed.
GroupEntered(s, o, l) ==
  LET back == s.saving /\ s.begun
      t == [s EXCEPT !.begun = TRUE, !.agg = <<>>]
  IN IF back THEN [stmt |-> [t EXCEPT !.saved = None, !.saving = FALSE],
                   objlist |-> s.saved, links |-> Closed(l, o)]
     ELSE [stmt |-> t, objlist |-> o, links |-> l]

NextGroup ==
  LET e == GroupEntered(S, objlist, links) IN
  /\ At("next") /\ S.user < T.cnt /\ Grouped
  /\ IF S.last THEN EndOfStatement(e.stmt, e.objlist, e.links)
     ELSE /\ Set(e.stmt) /\ objlist' = e.objlist /\ links' = e.links
          /\ pc' = IF ~S.begun THEN "prime" ELSE "group"
          /\ UNCHANGED qy
  /\ UNCHANGED <<text, pseudo, out>>

\* The first row; only the end of the rows is told apart, not an error.
Prime ==
  LET c == ChildItem(S, objlist, links)
      s == [S EXCEPT !.pos = c.pos]
  IN
  /\ At("prime")
  /\ IF c.rval = 0 /\ T.level = 0 THEN EndOfStatement(s, None, c.links)
     ELSE /\ Set(IF c.rval = 0 THEN [s EXCEPT !.last = TRUE]
                 ELSE [s EXCEPT !.key = KeyOf(c.row)])
          /\ objlist' = c.row /\ links' = c.links
          /\ pc' = IF c.rval = 0 THEN "row" ELSE "group"
          /\ UNCHANGED qy
  /\ UNCHANGED <<text, pseudo, out>>

\* One turn of the group-by loop: the row is counted and saved, and the next one
\* tells whether the group ends.
Group ==
  LET s == [S EXCEPT !.agg = Append(@, objlist), !.saved = objlist, !.saving = TRUE]
      c == ChildItem(S, objlist, Linked(links, objlist))
      same == c.rval = 1 /\ KeyOf(c.row) = S.key
  IN
  /\ At("group")
  /\ \/ /\ c.rval = -1
        /\ Set([s EXCEPT !.pos = c.pos])
        /\ objlist' = c.row /\ links' = c.links /\ pc' = "idle"
     \/ /\ same
        /\ Set([s EXCEPT !.pos = c.pos, !.saved = None, !.saving = FALSE])
        /\ objlist' = c.row /\ links' = Closed(c.links, s.saved) /\ UNCHANGED pc
     \/ /\ c.rval # -1 /\ ~same
        /\ Set([s EXCEPT !.pos = c.pos, !.saved = c.row,
                         !.last = (c.rval = 0),
                         !.key = IF c.rval = 0 THEN @ ELSE KeyOf(c.row)])
        /\ objlist' = s.saved /\ links' = c.links
        /\ pc' = IF T.level = 2 THEN "regroup" ELSE "row"
  /\ UNCHANGED <<text, qy, pseudo, out>>

\* A group of the first level is counted in the second.
Regroup ==
  LET s == [S EXCEPT !.agg2 = Append(@, S.agg)]
      back == [s EXCEPT !.saved = None, !.saving = FALSE, !.agg = <<>>]
  IN
  /\ At("regroup")
  /\ IF S.last THEN Set(s) /\ pc' = "row" /\ UNCHANGED <<objlist, links>>
     ELSE Set(back) /\ pc' = "group" /\ objlist' = S.saved /\ links' = Closed(links, objlist)
  /\ UNCHANGED <<text, qy, pseudo, out>>

-----------------------------------------------------------------------------
(***************************************************************************)
(* The row becomes an object of its own.                                   *)
(***************************************************************************)
\* What the row shows: its object and the aggregates of its statement.
Shown(s, o) == [row |-> o, agg |-> s.agg, agg2 |-> s.agg2]

Having(s) == Len(s.agg) >= T.having

\* Mutant: LIMIT counts from the row after.
LimitFromNext(s) == s.iter > T.start /\ s.user < T.cnt

\* mq_internal_EvalLimitClause.
Limit(s) == s.iter >= T.start /\ s.user < T.cnt

\* The row meets HAVING and LIMIT: the statement, the query and its object are
\* linked for it.
Row ==
  LET s == [S EXCEPT !.iter = @ + 1] IN
  /\ At("row") /\ Having(S) /\ Limit(s) /\ T.kind # "assign"
  /\ \E h \in Handles :
       /\ pseudo[h] = None
       /\ pseudo' = [pseudo EXCEPT ![h] = [stmt |-> Cur, row |-> objlist]]
  /\ qy' = [qy EXCEPT !.links = @ + 1]
  /\ Set([s EXCEPT !.links = @ + 1, !.user = @ + 1])
  /\ links' = Linked(links, objlist)
  /\ out' = [out EXCEPT ![Cur] = Append(@, Shown(S, objlist))]
  /\ pc' = "idle"
  /\ UNCHANGED <<text, objlist>>

\* It does not, or is only assigned: its links are dropped again and the next
\* row is read.
NoRow ==
  LET s == [S EXCEPT !.iter = @ + 1] IN
  /\ At("row")
  /\ \/ ~Having(S) /\ UNCHANGED stmt
     \/ Having(S) /\ ~Limit(s) /\ Set(s)
     \/ Having(S) /\ Limit(s) /\ T.kind = "assign" /\ Set([s EXCEPT !.user = @ + 1])
  /\ pc' = "next"
  /\ UNCHANGED <<text, qy, objlist, links, pseudo, out>>

\* An assignment to what is not declared: the fetch fails.
AssignFails ==
  LET s == [S EXCEPT !.iter = @ + 1] IN
  /\ At("row") /\ Having(S) /\ Limit(s) /\ T.kind = "assign"
  /\ Set(s)
  /\ pc' = "idle"
  /\ UNCHANGED <<text, qy, objlist, links, pseudo, out>>

\* mqClose: the statement, the query and then the object lose their links.
Close(h) ==
  LET p == pseudo[h]
      c == CloseStatement(stmt[p.stmt], objlist, links)
      u == Unlinked(qy, [stmt EXCEPT ![p.stmt] = c.stmt], c.objlist, c.links)
  IN
  /\ p # None
  /\ qy' = u.qy /\ stmt' = u.stmt /\ objlist' = u.objlist
  /\ links' = Closed(u.links, p.row)
  /\ pseudo' = [pseudo EXCEPT ![h] = None]
  /\ UNCHANGED <<text, pc, out>>

\* mqQueryClose: nothing more can be fetched.
QueryClose ==
  LET f == IF Cur = NoStmt THEN [stmt |-> NewStmt, objlist |-> objlist, links |-> links]
           ELSE FinishStatement(S, objlist, links)
      u == Unlinked(qy, IF Cur = NoStmt THEN stmt ELSE [stmt EXCEPT ![Cur] = f.stmt],
                    f.objlist, f.links)
  IN
  /\ pc = "idle" /\ qy.open
  /\ qy' = [u.qy EXCEPT !.open = FALSE]
  /\ stmt' = u.stmt /\ objlist' = u.objlist /\ links' = u.links
  /\ UNCHANGED <<text, pseudo, pc, out>>

-----------------------------------------------------------------------------
NewLinks == [o \in Objs |-> 0]

\* mqStartQuery: a query whose first statement does not start is not opened.
Init ==
  /\ text \in Texts
  /\ qy = NextStatement([links |-> 1, cur |-> NoStmt, ended |-> FALSE, open |-> TRUE], 0)
  /\ qy.cur # NoStmt
  /\ stmt = StartedStmt([i \in Stmts |-> NewStmt], qy.cur)
  /\ objlist = None /\ links = NewLinks
  /\ pseudo = [h \in Handles |-> None]
  /\ pc = "idle"
  /\ out = [i \in Stmts |-> <<>>]

FetchStep ==
  \/ LimitReached \/ NextPlain \/ NextGroup \/ Prime \/ Group \/ Regroup
  \/ Row \/ NoRow \/ AssignFails

Next == Fetch \/ FetchStep \/ QueryClose \/ \E h \in Handles : Close(h)

\* The thread that fetches goes on with it.
Spec == Init /\ [][Next]_vars
FairSpec == Spec /\ WF_vars(FetchStep)

-----------------------------------------------------------------------------
(***************************************************************************)
(* What the rows of a statement should be: the runs of the rows that pass  *)
(* its constraint and have the same key, those that meet HAVING, from the  *)
(* LIMIT on.                                                               *)
(***************************************************************************)
\* The elements of s that are in A, in their order.
Picked(s, A) == FoldLeft(LAMBDA r, x : IF x \in A THEN Append(r, x) ELSE r, <<>>, s)

Kept(t) == LET all == [n \in DOMAIN t.rows |-> n]
           IN Picked(all, {n \in DOMAIN t.rows : t.rows[n].ok})

GroupKey(t, n) == IF t.by THEN t.rows[n].g ELSE 0

\* The row n ends the last run or begins one.
WithRow(t, runs, n) ==
  IF runs # <<>> /\ GroupKey(t, Head(Last(runs))) = GroupKey(t, n)
  THEN [runs EXCEPT ![Len(runs)] = Append(@, n)] ELSE Append(runs, <<n>>)

Runs(t) == FoldLeft(LAMBDA runs, n : WithRow(t, runs, n), <<>>, Kept(t))

\* The objects of the rows s of the statement i.
Seqs(i, s) == [k \in DOMAIN s |-> <<i, s[k]>>]

Groups(i, t) ==
  LET runs == [k \in DOMAIN Runs(t) |-> Seqs(i, Runs(t)[k])]
      plain == [k \in DOMAIN Kept(t) |-> [row |-> <<i, Kept(t)[k]>>, agg |-> <<>>, agg2 |-> <<>>]]
      group == [k \in DOMAIN runs |-> [row |-> Last(runs[k]), agg |-> runs[k], agg2 |-> <<>>]]
  IN IF ~t.by /\ t.level = 0 THEN plain
     ELSE IF Kept(t) = <<>>
          THEN IF t.level = 0 THEN <<>> ELSE <<[row |-> None, agg |-> <<>>, agg2 |-> <<>>]>>
     ELSE IF t.level = 2 THEN <<[Last(group) EXCEPT !.agg2 = runs]>> ELSE group

\* The groups that meet HAVING.
Met(i, t) == Picked(Groups(i, t), {r \in Range(Groups(i, t)) : Len(r.agg) >= t.having})

Expected(i, t) ==
  LET n == Len(Met(i, t)) - t.start
      k == IF n < t.cnt THEN n ELSE t.cnt
  IN IF k <= 0 \/ t.kind # "select" THEN <<>>
     ELSE SubSeq(Met(i, t), t.start + 1, t.start + k)

TypeOK ==
  /\ Cur \in Stmts \cup {NoStmt}
  /\ pc \in {"idle", "next", "prime", "group", "regroup", "row"}
  /\ objlist \in Objs \cup {None}
  /\ \A h \in Handles : pseudo[h] = None \/ pseudo[h].row \in Objs \cup {None}
  /\ \A i \in Stmts : stmt[i].saved # None => stmt[i].saving

(* The rows a caller gets are the groups of the statement, each once and in
   order, with the aggregates of exactly their rows, although a group is only
   known to be complete when a row of the next one has been read. *)
RowsAreGroups ==
  \A i \in Stmts : text[i].error = "no" =>
    /\ IsPrefix(out[i], Expected(i, text[i]))
    /\ (stmt[i].started = 1 /\ Cur # i /\ qy.open) => out[i] = Expected(i, text[i])

(* The row the source has, the row saved and the rows the caller has are the
   links of an object, no more and no fewer: none is freed under a row the
   caller can still read, and none stays open when everything is closed. *)
ObjectsHeld ==
  \A o \in Objs :
    links[o] = Cardinality({h \in Handles : pseudo[h] # None /\ pseudo[h].row = o})
               + (IF objlist = o THEN 1 ELSE 0)
               + Cardinality({i \in Stmts : stmt[i].saved = o})

(* The query and a statement live as long as a row of them does, and no longer;
   the tree of a statement is finished once, before the next one starts, and no
   statement is freed with its tree running. *)
StatementsHeld ==
  LET rows(i) == Cardinality({h \in Handles : pseudo[h] # None /\ pseudo[h].stmt = i})
      all == Cardinality({h \in Handles : pseudo[h] # None})
  IN /\ qy.links = all + (IF qy.open THEN 1 ELSE 0)
     /\ \A i \in Stmts :
          /\ stmt[i].links = rows(i) + (IF Cur = i THEN 1 ELSE 0)
          /\ stmt[i].alive = (stmt[i].links > 0)
          /\ stmt[i].finishes <= stmt[i].started
          /\ stmt[i].started = 1 /\ (Cur # i \/ ~qy.open) => stmt[i].finishes = 1

(* A row the caller has keeps what it shows: its object, its statement and the
   query stand until the last row of them is closed, in whatever order rows,
   query and fetches come, and then each goes once. *)
RowsKept == ObjectsHeld /\ StatementsHeld

(* A fetch comes to an end, through the statements that have no rows. *)
FetchReturns == pc # "idle" ~> pc = "idle"

=============================================================================
