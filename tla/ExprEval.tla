------------------------------ MODULE ExprEval ------------------------------
(***************************************************************************)
(* How an expression is evaluated again (exp_evaluate.c, exp_params.c).    *)
(*                                                                         *)
(* A tree is evaluated on a list of objects, over and over, while the      *)
(* objects of the list are replaced.  Each node keeps its value and is     *)
(* evaluated only when it depends on an object that was replaced since:    *)
(* a list has a version of each slot, and the tree remembers those it was  *)
(* last evaluated with.  A node that a short circuit passes over notes in  *)
(* ObjDelayChangeMask what it has missed.  Aggregates are evaluated        *)
(* whatever is short-circuited, and count a row only when they were        *)
(* unlocked for it.                                                        *)
(*                                                                         *)
(* A tree is used with several lists: the query engine evaluates it on the *)
(* list of the query, and on a copy of that list for each row that it gave *)
(* out (multiq_tablegen.c, multiquery.c).                                  *)
(*                                                                         *)
(* The version of a slot is PSeqID and SeqIDs[i] together: a list that has *)
(* a new PSeqID has a new version of every slot.  All that is ever done    *)
(* with versions is to compare them, so that of each slot the model keeps  *)
(* who has the same one.                                                   *)
(***************************************************************************)
EXTENDS Integers, Sequences, FiniteSets, SequencesExt

CONSTANTS
  Trees,     \* a sequence of trees: sequences of nodes, the first is the root
  Slots,     \* of the object lists
  Lists,     \* Query and the lists of the rows
  Query,     \* the list of the query
  Control,   \* the tree, as one that has versions
  Contents,  \* for each tree and slot, what may be read of an object there
  Null,      \* the attribute is null
  Err,       \* to read the attribute fails
  MaxRows    \* bound: the rows of a group that count, up to a miscount

ASSUME ExprAssumption ==
  /\ IsFiniteSet(Slots) /\ IsFiniteSet(Lists)
  /\ Query \in Lists /\ Control \notin Lists
  /\ Contents \in [DOMAIN Trees -> [Slots -> SUBSET (Int \cup {Null, Err})]] /\ Null # Err
  /\ MaxRows \in Nat

VARIABLES
  tree,      \* which of the trees is evaluated
  node,      \* what its nodes keep between evaluations
  obj,       \* the objects of each list
  same,      \* for each slot, who of the lists and Control have the same version
  due,       \* for each aggregate, the rows since the last reset with a value
  shown,     \* the list the tree was just evaluated on, or Null
  failed,    \* an evaluation failed and left wrong values, which are still there
  miscount   \* a row was not counted as it should since the last reset

vars == <<tree, node, obj, same, due, shown, failed, miscount>>

\* exp_internal_SetCoverageMask: the slots that node n of tree T depends on.
RECURSIVE CoverageMask(_, _)
CoverageMask(T, n) ==
  IF T[n].op = "prop" THEN {T[n].slot}
  ELSE UNION {CoverageMask(T, T[n].kids[i]) : i \in DOMAIN T[n].kids}

\* exp_internal_SetAggLevel: whether there is an aggregate function in it.
RECURSIVE HasAggregate(_, _)
HasAggregate(T, n) ==
  T[n].op = "count" \/ \E i \in DOMAIN T[n].kids : HasAggregate(T, T[n].kids[i])

\* What the compiler makes of a tree.
Compiled(T) ==
  [n \in DOMAIN T |-> [op |-> T[n].op, kids |-> T[n].kids, slot |-> T[n].slot,
                       value |-> T[n].value, cover |-> CoverageMask(T, n),
                       agg |-> HasAggregate(T, n)]]

Code == [i \in DOMAIN Trees |-> Compiled(Trees[i])]

Nodes == DOMAIN Code[tree]
Root == 1
Op(n) == Code[tree][n].op
Kids(n) == Code[tree][n].kids
Slot(n) == Code[tree][n].slot
Constant(n) == Code[tree][n].value
Cover(n) == Code[tree][n].cover
Agg(n) == Code[tree][n].agg

Counts == {n \in Nodes : Op(n) = "count"}

\* The objects of a list, as what is read of them.
ObjectsOf ==
  [t \in DOMAIN Trees |-> {o \in [Slots -> UNION {Contents[t][i] : i \in Slots}] :
                             \A i \in Slots : o[i] \in Contents[t][i]}]
Objects == ObjectsOf[tree]

Holders == Lists \cup {Control}
IsPartition(P) == UNION P = Holders /\ \A c, d \in P : c # {} /\ (c = d \/ c \cap d = {})

TypeOK ==
  /\ tree \in DOMAIN Trees
  /\ node \in [Nodes -> [new : BOOLEAN, value : 0..(MaxRows + 1) \cup {Null},
                         delay : SUBSET Slots, locked : BOOLEAN, made : BOOLEAN]]
  /\ obj \in [Lists -> Objects]
  /\ DOMAIN same = Slots /\ \A i \in Slots : IsPartition(same[i])
  /\ due \in [Counts -> 0..MaxRows]
  /\ shown \in Lists \cup {Null}
  /\ failed \in BOOLEAN /\ miscount \in BOOLEAN

-----------------------------------------------------------------------------
(***************************************************************************)
(* exp_internal_EvalTree.  m is ModCoverageMask, o the objects; the result *)
(* is the nodes as they are then and whether the evaluation succeeded.     *)
(* What is left in a node beside its null flag is not kept.                *)
(***************************************************************************)
Ok(s) == [ok |-> TRUE, node |-> s]
Fail(s) == [ok |-> FALSE, node |-> s]
Then(r, F(_)) == IF r.ok THEN F(r.node) ELSE r

Put(s, n, v) == [s EXCEPT ![n].value = v]

\* Mutant: what changed is not noted.
NoDelay(n, m, s) == s

\* A node is passed over: what changed is noted.
Delay(n, m, s) == [s EXCEPT ![n].delay = @ \cup (m \cap Cover(n))]

RECURSIVE Eval(_, _, _, _)

\* exp_internal_EvalAggregates: only the aggregates in a subtree.
RECURSIVE EvalAggregates(_, _, _, _)
EvalAggregates(n, m, o, s) ==
  IF Op(n) = "count" THEN Eval(n, m, o, s)
  ELSE FoldLeft(LAMBDA r, k : Then(r, LAMBDA t : EvalAggregates(k, m, o, t)),
                Ok(Delay(n, m, s)), Kids(n))

\* Mutant: the aggregates in it are passed over too.
PassOverAll(n, m, o, s) == Ok(Delay(n, m, s))

\* What AND, OR and condition() do with an operand they do not need.
PassOver(n, m, o, s) ==
  IF Agg(n) THEN EvalAggregates(n, m, o, s) ELSE Ok(Delay(n, m, s))

EvalAll(ks, m, o, s) ==
  FoldLeft(LAMBDA r, k : Then(r, LAMBDA t : Eval(k, m, o, t)), Ok(s), ks)

\* expEvalProperty.
EvalProperty(n, o, s) ==
  LET v == o[Slot(n)] IN IF v = Err THEN Fail(s) ELSE Ok(Put(s, n, v))

\* expEvalAnd (unit is 1) and expEvalOr (unit is 0): the first operand that is
\* not the unit decides.
EvalJunction(n, unit, m, o, s) ==
  LET Decides(v) == v # Null /\ (v = 0) = (unit = 1)
      Operand(r, k) ==
        Then(r, LAMBDA t :
          IF t[n].value # unit THEN PassOver(k, m, o, t)
          ELSE Then(Eval(k, m, o, t), LAMBDA u :
                    Ok(IF Decides(u[k].value) THEN Put(u, n, 1 - unit) ELSE u)))
      HasNull(t) == \E i \in DOMAIN Kids(n) : t[Kids(n)[i]].value = Null
  IN Then(FoldLeft(Operand, Ok(Put(s, n, unit)), Kids(n)), LAMBDA t :
          Ok(IF t[n].value = unit /\ HasNull(t) THEN Put(t, n, Null) ELSE t))

\* expEvalCompare, for equality: null is equal to nothing.
EvalCompare(n, m, o, s) ==
  Then(EvalAll(Kids(n), m, o, s), LAMBDA t :
    LET a == t[Kids(n)[1]].value IN
    Ok(Put(t, n, IF a # Null /\ a = t[Kids(n)[2]].value THEN 1 ELSE 0)))

\* expEvalIsNull.
EvalIsNull(n, m, o, s) ==
  Then(EvalAll(Kids(n), m, o, s), LAMBDA t :
    Ok(Put(t, n, IF t[Kids(n)[1]].value = Null THEN 1 ELSE 0)))

\* exp_fn_condition: operands that a null one leaves open are not searched for
\* aggregates.
EvalCondition(n, m, o, s) ==
  LET a == Kids(n)[1]  b == Kids(n)[2]  c == Kids(n)[3] IN
  Then(Eval(a, m, o, s), LAMBDA t :
    IF t[a].value = Null THEN Ok(Put(Delay(b, m, Delay(c, m, t)), n, Null))
    ELSE IF t[a].value # 0
    THEN Then(Then(Eval(b, m, o, t), LAMBDA u : PassOver(c, m, o, u)),
              LAMBDA u : Ok(Put(u, n, u[b].value)))
    ELSE Then(Then(PassOver(b, m, o, t), LAMBDA u : Eval(c, m, o, u)),
              LAMBDA u : Ok(Put(u, n, u[c].value))))

\* Mutant: a row is counted whether or not it was counted before.
EvalCountUnlocked(n, m, o, s) ==
  Then(EvalAll(Kids(n), m, o, s), LAMBDA t :
    Ok([t EXCEPT ![n].made = TRUE, ![n].locked = TRUE,
                 ![n].value = IF t[Kids(n)[1]].value = Null THEN @ ELSE @ + 1]))

\* expEvalFunction and exp_fn_count; made says that there is an AggExp.
EvalCount(n, m, o, s) ==
  Then(EvalAll(Kids(n), m, o, s), LAMBDA t :
    Ok([t EXCEPT ![n].made = TRUE, ![n].locked = TRUE,
                 ![n].value = IF t[n].locked \/ t[Kids(n)[1]].value = Null
                              THEN @ ELSE @ + 1]))

EvalNode(n, m, o, s) ==
  CASE Op(n) = "const" -> Ok(s)
    [] Op(n) = "prop" -> EvalProperty(n, o, s)
    [] Op(n) = "and" -> EvalJunction(n, 1, m, o, s)
    [] Op(n) = "or" -> EvalJunction(n, 0, m, o, s)
    [] Op(n) = "equal" -> EvalCompare(n, m, o, s)
    [] Op(n) = "isnull" -> EvalIsNull(n, m, o, s)
    [] Op(n) = "condition" -> EvalCondition(n, m, o, s)
    [] Op(n) = "count" -> EvalCount(n, m, o, s)

\* A node is new until it was evaluated; what it missed is forgotten then,
\* whether that succeeded or not.
Eval(n, mask, o, s) ==
  LET m == mask \cup s[n].delay IN
  IF ~s[n].new /\ Cover(n) \cap m = {} /\ ~Agg(n) THEN Ok(s)
  ELSE LET r == EvalNode(n, m, o, s) IN
       [r EXCEPT !.node[n].new = @ /\ ~r.ok, !.node[n].delay = {}]

-----------------------------------------------------------------------------
(***************************************************************************)
(* The reference: the value of a node on the objects o.  An operand that   *)
(* is not needed is not looked at.                                         *)
(***************************************************************************)
RECURSIVE ValueOf(_, _)
ValueOf(n, o) ==
  LET V(i) == ValueOf(Kids(n)[i], o)
      Operands == {V(i) : i \in DOMAIN Kids(n)}
      Deciding(unit) ==
        {i \in DOMAIN Kids(n) : V(i) # Null /\ (V(i) = Err \/ (V(i) = 0) = (unit = 1))}
      Junction(unit) ==
        LET D == Deciding(unit) IN
        IF D # {} THEN IF V(CHOOSE i \in D : \A j \in D : i <= j) = Err THEN Err ELSE 1 - unit
        ELSE IF Null \in Operands THEN Null ELSE unit
      Strict(b) == IF Err \in Operands THEN Err ELSE IF b THEN 1 ELSE 0
  IN CASE Op(n) = "const" -> Constant(n)
       [] Op(n) = "prop" -> o[Slot(n)]
       [] Op(n) = "and" -> Junction(1)
       [] Op(n) = "or" -> Junction(0)
       [] Op(n) = "equal" -> Strict(V(1) # Null /\ V(1) = V(2))
       [] Op(n) = "isnull" -> Strict(V(1) = Null)
       [] Op(n) = "condition" -> IF V(1) \in {Null, Err} THEN V(1)
                                      ELSE IF V(1) # 0 THEN V(2) ELSE V(3)
       [] Op(n) = "count" -> due[n]

-----------------------------------------------------------------------------
(***************************************************************************)
(* Versions.                                                               *)
(***************************************************************************)
\* Holder x gets a version of its own, or that of y.
Apart(P, x) == ({c \ {x} : c \in P} \ {{}}) \cup {{x}}
Like(P, x, y) == {IF y \in c THEN c \cup {x} ELSE c \ {x} : c \in P} \ {{}}

\* The slots that expEvalTree finds changed.
Changed(L) == {i \in Slots : ~\E c \in same[i] : {L, Control} \subseteq c}

\* Mutant: the versions are recorded though the evaluation failed.
RecordAlways(L, ok) == [i \in Slots |-> Like(same[i], Control, L)]

\* "Don't update sequence ID's if evaluation failed."
Record(L, ok) == IF ok THEN [i \in Slots |-> Like(same[i], Control, L)] ELSE same

\* A failed evaluation leaves values behind that nothing marks as wrong: what a
\* node had missed is forgotten, and a list that still has the versions of the
\* tree finds values of L.
LeavesWrong(L, s, t) ==
  \/ \E n \in Nodes : s[n].delay # t[n].delay
  \/ \E M \in Lists \ {L}, i \in Changed(L) : i \notin Changed(M)

\* expEvalTree on the list L, from the nodes s.
EvalTree(L, s) ==
  LET r == Eval(Root, Changed(L), obj[L], s) IN
  /\ node' = r.node
  /\ same' = Record(L, r.ok)
  /\ shown' = IF r.ok THEN L ELSE Null
  /\ failed' = ((failed /\ ~(r.ok /\ Changed(L) = Slots))
                 \/ (~r.ok /\ LeavesWrong(L, s, r.node)))
  /\ UNCHANGED <<tree, obj>>

-----------------------------------------------------------------------------
\* expModifyParamByID, and expObjChanged for an object that itself changed.
Modify(L) ==
  /\ \E i \in Slots :
       /\ same' = [same EXCEPT ![i] = Apart(@, L)]
       /\ \E x \in Contents[tree][i] : obj' = [obj EXCEPT ![L][i] = x]
  /\ shown' = Null
  /\ UNCHANGED <<tree, node, due, failed, miscount>>

\* Mutant: expAllObjChanged is not called.
SwapQuietly ==
  /\ \E x \in Objects : obj' = [obj EXCEPT ![Query] = x]
  /\ shown' = Null
  /\ UNCHANGED <<tree, node, same, due, failed, miscount>>

\* mqt_internal_SwapObjList and expAllObjChanged: other objects take the place
\* of all those of the query.
Swap ==
  /\ same' = [i \in Slots |-> Apart(same[i], Query)]
  /\ \E x \in Objects : obj' = [obj EXCEPT ![Query] = x]
  /\ shown' = Null
  /\ UNCHANGED <<tree, node, due, failed, miscount>>

\* expCopyList: a row is given out with the list of the query as it is
\* (mq_internal_CreatePseudoObject), or sorted rows are put back, with their
\* aggregates frozen (mqobNextItem).
CopyList(L, M) ==
  /\ L # M /\ (M = Query => Counts = {})
  /\ obj' = [obj EXCEPT ![M] = obj[L]]
  /\ same' = [i \in Slots |-> Like(same[i], M, L)]
  /\ shown' = Null
  /\ UNCHANGED <<tree, node, due, failed, miscount>>

\* expEvalTree: of the query (mqt_internal_CheckConstraint), or of a row
\* (mqGetAttrType, mqGetAttrValue).
Read(L) == EvalTree(L, node) /\ UNCHANGED <<due, miscount>>

\* expUnlockAggregates.
Unlocked(s) == [n \in Nodes |-> [s[n] EXCEPT !.locked = FALSE]]

\* A condition() with a null first operand does not look for the aggregates in
\* the others.
OpenBranch ==
  \E n \in Nodes : /\ Op(n) = "condition"
                    /\ \E i \in {2, 3} : Agg(Kids(n)[i])
                    /\ ValueOf(Kids(n)[1], obj[Query]) = Null

\* mqt_internal_UpdateAggregates: the row in the list of the query is counted.
Row ==
  /\ Counts # {} /\ ~miscount /\ \A n \in Counts : due[n] < MaxRows
  /\ EvalTree(Query, Unlocked(node))
  /\ due' = [n \in Counts |->
               IF ValueOf(Kids(n)[1], obj[Query]) = Null THEN due[n] ELSE due[n] + 1]
  /\ miscount' = (miscount \/ failed' \/ shown' = Null \/ OpenBranch)

\* expResetAggregates: an aggregate that never was evaluated is not locked.
Reset ==
  /\ Counts # {}
  /\ node' = [n \in Nodes |->
                IF n \in Counts
                THEN [node[n] EXCEPT !.value = 0, !.locked = @ \/ node[n].made]
                ELSE node[n]]
  /\ due' = [n \in Counts |-> 0]
  /\ miscount' = \E n \in Counts : ~node'[n].locked
  /\ shown' = Null
  /\ UNCHANGED <<tree, obj, same, failed>>

\* The compiler locks aggregates; no list agrees with the tree yet.
Init ==
  /\ tree \in DOMAIN Trees
  /\ node = [n \in Nodes |->
               [new |-> TRUE, value |-> Constant(n), delay |-> {},
                locked |-> n \in Counts, made |-> FALSE]]
  /\ \E x \in Objects : obj = [L \in Lists |-> x]
  /\ same = [i \in Slots |-> {{x} : x \in Holders}]
  /\ due = [n \in Counts |-> 0]
  /\ shown = Null
  /\ failed = FALSE
  /\ miscount = FALSE

Next ==
  \/ \E L \in Lists : Modify(L) \/ Read(L)
  \/ \E L, M \in Lists : CopyList(L, M)
  \/ Swap \/ Row \/ Reset

Spec == Init /\ [][Next]_vars

-----------------------------------------------------------------------------
(***************************************************************************)
(* An evaluation that succeeds gives the value the tree has on the objects *)
(* of the list it was given, whatever was evaluated, short-circuited and   *)
(* replaced before, in this list and in others.  (Not so after one that    *)
(* failed, see failed, and where a row was not counted, see miscount.)     *)
(***************************************************************************)
EvalIsFresh ==
  shown # Null /\ ~failed /\ ~miscount => node[Root].value = ValueOf(Root, obj[shown])

(***************************************************************************)
(* Each aggregate has counted the rows since the last reset that have a    *)
(* value, each once, though it is in a branch that AND, OR or condition()  *)
(* do not need and the tree is evaluated between the rows on other lists.  *)
(***************************************************************************)
CountsEveryRow == ~miscount => \A n \in Counts : node[n].value = due[n]
=============================================================================
