-------------------------- MODULE MCEngineCommand --------------------------
\* check: one column whose cells are blank, numbers on both sides of a bound,
\* and text.  profile: the same cells, and NaN.  analyze: single statements
\* over all queries of a depth of two, and pairs of statements over plain ones,
\* with a table written in two ways.
EXTENDS EngineCommand, TLC

MCCells == {" ", "1", "2", "x"}
MCBlank == {" "}
MCNumber == [x \in {"1", "2"} |-> IF x = "1" THEN 1 ELSE 2]
MCMatching == {"1", "x"}

Absent == "absent"   \* Option::None

Raw(h, w, o, s, col, k) ==
  [head |-> h, words |-> w, operands |-> h \in {"value", "count"}, op |-> o, rhs |-> 1,
   slashed |-> s, column |-> col, key |-> k]

NotNull == Raw("not_null", 1, "==", FALSE, "a", Absent)
Compare(o) == Raw("value", 3, o, FALSE, "a", Absent)
Unique(o) == Raw("count", 3, o, FALSE, Absent, "a")
Matches(w) == Raw("matches", w, "==", TRUE, "a", Absent)

\* Rules that compile.
GoodRules == {NotNull, Compare(">"), Compare("!="), Unique("<="), Unique("=="), Matches(2)}

\* Rules that do not: no column, a column that is not there, no pattern, a
\* pattern with a blank in it (three words), no number.
WrongRules == {[NotNull EXCEPT !.column = Absent], [Unique("<=") EXCEPT !.key = "b"],
               [Matches(2) EXCEPT !.slashed = FALSE],
               [Matches(3) EXCEPT !.operands = FALSE], [Compare(">") EXCEPT !.operands = FALSE]}

AllRules == GoodRules \cup WrongRules

MCLower == "Orders" :> "orders" @@ "orders" :> "orders" @@ "items" :> "items" @@ "o" :> "o"
Names == {"Orders", "orders", "items"}

Upto(S, n) == UNION {[1..k -> S] : k \in 0..n}

TableFactors == {[node |-> "table", name |-> n] : n \in Names} \cup {[node |-> "function"]}
Joined(Factors, n) ==
  {[node |-> "joined", relation |-> f, joins |-> js] : f \in Factors, js \in Upto(Factors, n)}
Select(from) == [node |-> "select", from |-> from]

Plain == {Select(from) : from \in Upto(Joined(TableFactors, 1), 1) \cup Upto(Joined(TableFactors, 0), 2)}
Query(body) == [node |-> "query", body |-> body]
DeepFactors == {[node |-> "derived", subquery |-> Query(b)] : b \in Plain}
               \cup {[node |-> "nested", table |-> j] : j \in Joined(TableFactors, 1)}
Deep == Plain \cup {[node |-> "values"]}
        \cup {[node |-> "setop", left |-> a, right |-> b] : a, b \in Plain}
        \cup {Query(b) : b \in Plain}
        \cup {Select(<<j>>) : j \in Joined(DeepFactors, 0)}

MCNode == TableFactors \cup Joined(TableFactors, 1) \cup DeepFactors \cup Joined(DeepFactors, 0) \cup Deep

MCHeight == [n \in MCNode |-> CASE n \in TableFactors -> 0
                                [] n \in Joined(TableFactors, 1) -> 1
                                [] n \in Plain -> 2
                                [] n \in DeepFactors -> 3
                                [] n \in Joined(DeepFactors, 0) -> 4
                                [] OTHER -> 5]

Statements(queries, names) ==
  {[node |-> "query", query |-> q] : q \in queries}
  \cup {[node |-> kind, name |-> n, query |-> q] : kind \in {"create", "insert"}, n \in names, q \in queries}
  \cup {[node |-> "insertdefault", name |-> n] : n \in names} \cup {[node |-> "other"]}

DeepQueries == {Query(b) : b \in Deep}
FewQueries == {Query(Select(from)) : from \in Upto(Joined({[node |-> "table", name |-> n] : n \in Names}, 0), 2)}

MCScripts == {<<s>> : s \in Statements(DeepQueries, {"orders"})}
             \cup {<<s, t>> : s, t \in Statements(FewQueries, {"Orders", "items"})}
MCGarbage == Upto({1, 2, 3, 4}, 4) \ {<<>>}

MCProfileCells == MCCells \cup {"NaN"}
MCValue == MCNumber @@ ("NaN" :> NaN)
=============================================================================
