------------------------------ MODULE Lineage ------------------------------
(***************************************************************************)
(* The lineage of an SQL text (rust-engine/src/lineage.rs).  sqlparser     *)
(* turns the text into statements, whose syntax is kept here as far as     *)
(* analyze looks at it: records with a field `node` that names the         *)
(* production.  A text that does not parse is the sequence of the widths,  *)
(* in bytes, of its characters.  The columns of a statement, which the     *)
(* graph does not depend on, are left out.                                 *)
(***************************************************************************)
EXTENDS Integers, Sequences, FiniteSets, SequencesExt

CONSTANTS Node,    \* the syntax that the queries of a text are made of: trees
          Height,  \* of a node: it is above those of its children
          Script,  \* the texts that parse: sequences of statements
          Garbage, \* the texts that do not: sequences of widths
          Quoted,  \* the bytes of the text that an error message quotes (120)
          Lower    \* to_lowercase, on the names of tables

VARIABLES text,       \* the argument of analyze: its statements, if it parses,
          widths,     \* and the widths of its characters, if it does not
          phase,      \* where analyze is
          tables,     \* the nodes of the graph, in the order of their creation
          edges,      \* the edges of the graph, in the order of their creation
          statements, \* what was found out of each statement
          excerpt     \* the bytes of the text that the error quotes

vars == <<text, widths, phase, tables, edges, statements, excerpt>>
graph == <<tables, edges, statements>>

\* What analyze has when it is called.
Fresh ==
  /\ phase = "parse"
  /\ tables = <<>> /\ edges = <<>> /\ statements = <<>>
  /\ excerpt = 0

Init ==
  /\ \/ text \in Script /\ widths = <<>>
     \/ text = <<>> /\ widths \in Garbage
  /\ Fresh

-----------------------------------------------------------------------------
(* The tables of a query                                                   *)

\* A variant that forgets the joined tables.
Relations_NoJoins(twj) == <<twj.relation>>

\* What collect_table_with_joins looks at.
Relations(twj) == <<twj.relation>> \o twj.joins

\* The nodes that the collectors go on to from a node, in order:
\* collect_set_expr_sources, collect_select_sources, extract_table_factor.
Visited(n) ==
  CASE n.node = "select" -> n.from
    [] n.node = "setop" -> <<n.left, n.right>>
    [] n.node = "query" -> <<n.body>>
    [] n.node = "joined" -> Relations(n)
    [] n.node = "derived" -> <<n.subquery.body>>
    [] n.node = "nested" -> <<n.table>>
    [] OTHER -> <<>>

\* The tables they push for a node.
Sources[n \in Node] ==
  IF n.node = "table" THEN <<n.name>>
  ELSE FlattenSeq([k \in DOMAIN Visited(n) |-> Sources[Visited(n)[k]]])

\* Vec::dedup: of equal neighbours the first.
Dedup(s) ==
  LET kept[k \in 0..Len(s)] ==
        IF k = 0 THEN <<>>
        ELSE IF k > 1 /\ s[k] = s[k - 1] THEN kept[k - 1] ELSE Append(kept[k - 1], s[k])
  IN kept[Len(s)]

\* collect_query_sources
QuerySources(q) == Dedup(Sources[q.body])

\* The statements with a query: SELECT, CREATE TABLE AS, and INSERT unless it is
\* "insertdefault", an INSERT without a source (DEFAULT VALUES).
HasQuery(s) == s.node \in {"query", "create", "insert"}

\* analyze_statement; target is <<>> or <<name>>.
AnalyzeStatement(s) ==
  [target |-> IF s.node \in {"create", "insert", "insertdefault"} THEN <<s.name>> ELSE <<>>,
   sources |-> IF HasQuery(s) THEN QuerySources(s.query) ELSE <<>>]

-----------------------------------------------------------------------------
(* analyze                                                                 *)

\* The byte at which each character ends, and the length of the text.
Ends(ws) == LET end[k \in 0..Len(ws)] == IF k = 0 THEN 0 ELSE end[k - 1] + ws[k] IN end
Bytes(ws) == Ends(ws)[Len(ws)]
Boundaries(ws) == {Ends(ws)[k] : k \in 0..Len(ws)}

\* A variant that cuts at the limit.
SafePrefix_Cuts(ws) == IF Bytes(ws) <= Quoted THEN Bytes(ws) ELSE Quoted

\* safe_prefix: back from the limit to a boundary between two characters.
SafePrefix(ws) ==
  IF Bytes(ws) <= Quoted THEN Bytes(ws)
  ELSE LET back[end \in 0..Quoted] == IF end \in Boundaries(ws) THEN end ELSE back[end - 1]
       IN back[Quoted]

\* Parser::parse_sql
Parse ==
  /\ phase = "parse"
  /\ \/ widths = <<>> /\ phase' = "analyze" /\ UNCHANGED excerpt
     \/ widths # <<>> /\ phase' = "error" /\ excerpt' = SafePrefix(widths)
  /\ UNCHANGED <<text, widths, graph>>

\* Appends what the sequence does not hold yet: node_index, contains_edge.
AddNew(s, new) ==
  LET added[k \in 0..Len(new)] ==
        IF k = 0 THEN s
        ELSE IF Contains(added[k - 1], new[k]) THEN added[k - 1] ELSE Append(added[k - 1], new[k])
  IN added[Len(new)]

\* The edges from the sources of a statement to its target, if it has one.
EdgesOf(sl) ==
  [k \in DOMAIN (IF sl.target = <<>> THEN <<>> ELSE sl.sources) |->
     <<Lower[sl.sources[k]], Lower[sl.target[1]]>>]

\* A variant that adds an edge each time.
Edges_Always(sl) == edges \o EdgesOf(sl)

Edges(sl) == AddNew(edges, EdgesOf(sl))

\* The nodes of the sources of a statement and of its target.
Nodes(sl) == LET names == sl.sources \o sl.target
             IN AddNew(tables, [k \in DOMAIN names |-> Lower[names[k]]])

NextStatement ==
  /\ phase = "analyze" /\ Len(statements) < Len(text)
  /\ LET sl == AnalyzeStatement(text[Len(statements) + 1])
     IN /\ tables' = Nodes(sl)
        /\ edges' = Edges(sl)
        /\ statements' = Append(statements, sl)
  /\ UNCHANGED <<text, widths, phase, excerpt>>

Finish ==
  /\ phase = "analyze" /\ Len(statements) = Len(text)
  /\ phase' = "ok"
  /\ UNCHANGED <<text, widths, graph, excerpt>>

Next == Parse \/ NextStatement \/ Finish

Spec == Init /\ [][Next]_vars

-----------------------------------------------------------------------------
(* Properties                                                              *)

\* A second definition of the tables in the FROM and JOIN clauses of a query:
\* the names of all nodes below it, found level by level.
Children(n) ==
  CASE n.node = "select" -> Range(n.from)
    [] n.node = "setop" -> {n.left, n.right}
    [] n.node = "query" -> {n.body}
    [] n.node = "derived" -> {n.subquery.body}
    [] n.node = "nested" -> {n.table}
    [] n.node = "joined" -> {n.relation} \cup Range(n.joins)
    [] OTHER -> {}

Below(n) ==
  LET level[k \in 0..Height[n]] ==
        IF k = 0 THEN {n} ELSE UNION {Children(m) : m \in level[k - 1]}
  IN UNION {level[k] : k \in 0..Height[n]}

TablesBelow(q) == {n.name : n \in {m \in Below(q.body) : m.node = "table"}}
QueryOf(s) == IF HasQuery(s) THEN TablesBelow(s.query) ELSE {}

\* Every table in the FROM and JOIN clauses of a statement, at any depth of
\* set operations, subqueries and nested joins, is one of its sources, and
\* nothing else is (collect_query_sources).
SourcesExact ==
  \A k \in DOMAIN statements : Range(statements[k].sources) = QueryOf(text[k])

\* The tables of the report are those of its statements, and the edges are
\* the pairs of a source and the target of one statement: without regard to
\* case, and each once, however many statements and spellings give it.
GraphExact ==
  LET sources(k) == {Lower[n] : n \in Range(statements[k].sources)}
      targets(k) == {Lower[n] : n \in Range(statements[k].target)}
  IN /\ Range(tables) = UNION {sources(k) \cup targets(k) : k \in DOMAIN statements}
     /\ Range(edges) = UNION {sources(k) \X targets(k) : k \in DOMAIN statements}
     /\ IsInjective(tables) /\ IsInjective(edges)

\* The quoted part of a text that does not parse ends between two characters
\* and leaves out less than one of them (safe_prefix must not panic).
ExcerptWhole ==
  phase = "error" =>
    /\ excerpt \in Boundaries(widths)
    /\ \A b \in Boundaries(widths) : b <= Quoted => b <= excerpt
=============================================================================
