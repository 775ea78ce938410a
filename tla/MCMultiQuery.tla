---------------------------- MODULE MCMultiQuery ----------------------------
(* Instances of MultiQuery for TLC. *)
EXTENDS MultiQuery

Statement(kind, rows, by, level, having, start, cnt, error) ==
  [kind |-> kind, rows |-> rows, by |-> by, level |-> level, having |-> having,
   start |-> start, cnt |-> cnt, error |-> error]

Many == 9
Row1(g, ok) == [g |-> g, ok |-> ok]
Three == {<<Row1(1, TRUE), Row1(a, b), Row1(c, TRUE)>> : a, c \in {1, 2}, b \in BOOLEAN}
Few == {<<>>, <<Row1(1, TRUE)>>, <<Row1(1, FALSE)>>, <<Row1(1, TRUE), Row1(2, TRUE)>>}

Groupings == {<<FALSE, 0>>, <<TRUE, 0>>, <<FALSE, 1>>, <<TRUE, 1>>, <<TRUE, 2>>}

\* One statement: every grouping, HAVING and LIMIT, and sources that fail.
One == {<<Statement("select", r, g[1], g[2], h, l[1], l[2], e)>> :
          r \in Three \cup Few, g \in Groupings, h \in {0, 2},
          l \in {<<0, Many>>, <<1, 1>>}, e \in {"no", "late"}}
       \cup {<<Statement("select", <<>>, g[1], g[2], 0, 0, Many, "open")>> :
               g \in {<<FALSE, 0>>}}

\* Two: one after a select, and after statements that return no rows.
Simple == {Statement(k, <<Row1(1, TRUE), Row1(2, TRUE)>>, b, 0, 0, 0, n, "no") :
             k \in {"select", "assign"}, b \in BOOLEAN, n \in {0, 1, Many}}
Other == {Statement(k, <<>>, FALSE, 0, 0, 0, Many, "no") : k \in {"immediate", "bad"}}
Two == {<<s, t>> : s \in Simple, t \in Simple \cup Other}
       \cup {<<t, s>> : s \in Simple, t \in Other}

MCTexts == One \cup Two
=============================================================================
