----------------------------- MODULE MCExprEval -----------------------------
(***************************************************************************)
(* Expressions for TLC: trees in which each operator that short-circuits   *)
(* is above, and below, another, and above an aggregate.                   *)
(***************************************************************************)
EXTENDS ExprEval

Node(op, kids) == [op |-> op, kids |-> kids, slot |-> 0, value |-> 0]
Prop(s) == [op |-> "prop", kids |-> <<>>, slot |-> s, value |-> 0]
Const(i) == [op |-> "const", kids |-> <<>>, slot |-> 0, value |-> i]

\* :a:x AND (:b:x OR :a:x IS NULL)
AndOr == <<Node("and", <<2, 3>>), Prop(1), Node("or", <<4, 5>>), Prop(2), Node("isnull", <<6>>), Prop(1)>>

\* condition(:a:x, :b:x = 1, :b:x)
Branches == <<Node("condition", <<2, 3, 6>>), Prop(1), Node("equal", <<4, 5>>), Prop(2), Const(1), Prop(2)>>

\* :a:x OR count(:b:x)
OrCount == <<Node("or", <<2, 3>>), Prop(1), Node("count", <<4>>), Prop(2)>>

\* condition(:a:x, 0, count(:b:x))
CountInBranch == <<Node("condition", <<2, 3, 4>>), Prop(1), Const(0), Node("count", <<5>>), Prop(2)>>

MCTrees == <<AndOr, Branches, OrCount, CountInBranch>>

\* In all but the last one, the second object cannot be read at times.
MCContents == [i \in DOMAIN MCTrees |->
                 <<{0, 1, Null}, IF i = 4 THEN {1, Null} ELSE {1, Null, Err}>>]
=============================================================================
