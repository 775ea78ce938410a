------------------------------ MODULE MCMqJoin ------------------------------
(***************************************************************************)
(* The queries for TLC: four sources, all of which a query names.          *)
(***************************************************************************)
EXTENDS MqJoin

Join(s, t, o) == [mask |-> {s, t}, outer |-> o]

\* The sets of joins over the pairs P, each inner or outer.
JoinsOver(P) ==
  {{[mask |-> p, outer |-> f[p]] : p \in P} :
     f \in {f \in [P -> {{}} \cup {{s} : s \in Sources}] : \A p \in P : f[p] \subseteq p}}

IsOuter(J) == \E j \in J : j.outer # {}

-----------------------------------------------------------------------------
(***************************************************************************)
(* Three sources, with a join or none for each two of them, conditions in  *)
(* any order, no row to all of them, and a driver that may fail.  The      *)
(* fourth has one row and is joined to the highest that no outer join      *)
(* makes inner.                                                            *)
(***************************************************************************)
Three == {1, 2, 3}

\* The sources of Three that no outer join of J makes inner.
Uppers(J) ==
  {s \in Three : \A q \in SetToSeqs(J) : \A i \in DOMAIN q :
                   q[i].outer # {} => s \notin GlobalInner(q)[i]}

ThreeCases ==
  {[joins |-> Append(q, Join(4, Max(Uppers(Range(q))), {})),
    rows  |-> {r \in [Sources -> {<<>>, <<1>>, <<2>>, <<1, 2>>, <<3>>}] :
                 \A s \in Sources : s = 4 <=> r[s] = <<3>>},
    fails |-> SUBSET {2}] :
   q \in UNION {SetToSeqs(J) :
                  J \in {J \in UNION {JoinsOver(P) : P \in SUBSET {p \in Pairs : 4 \notin p}} :
                           Uppers(J) # {}}}}

-----------------------------------------------------------------------------
(***************************************************************************)
(* Four sources: every tree of joins with an outer one, and rows that      *)
(* differ in what they match.                                              *)
(***************************************************************************)
Connected(J) ==
  \A S \in (SUBSET Sources) \ {{}, Sources} : \E j \in J : j.mask \cap S # {} /\ j.mask \ S # {}

Trees == {J \in UNION {JoinsOver(P) : P \in kSubset(3, Pairs)} :
            Connected(J) /\ IsOuter(J) /\ HasMeaning(J)}

Contents == {<<1>>, <<3>>, <<1, 2>>}

TreeCases ==
  {[joins |-> SetToSeq(J),
    rows  |-> {r \in [Sources -> Contents] : Range(r) = Contents},
    fails |-> {{}}] : J \in Trees}

MCCases == ThreeCases \cup TreeCases

-----------------------------------------------------------------------------
(***************************************************************************)
(* The two kinds of queries that ResultIsJoin leaves out, one of each:     *)
(* sources named by their places in FROM are 4, 3, 2, 1.                   *)
(***************************************************************************)
\* 4 *= 3, 3 = 2, 4 *= 1, where 2 matches the second row of 3 only.
LeftCase ==
  {[joins |-> <<Join(4, 3, {4}), Join(3, 2, {}), Join(4, 1, {4})>>,
    rows  |-> [Sources -> {<<1>>, <<2>>, <<3>>, <<1, 2>>, <<2, 3>>}],
    fails |-> {{}}]}

\* 2 = 4, 3 = 4, 1 *= 3.
SweepCase ==
  {[joins |-> <<Join(2, 4, {}), Join(3, 4, {}), Join(1, 3, {1})>>,
    rows  |-> [Sources -> {<<1>>, <<2>>}],
    fails |-> {{}}]}
=============================================================================
