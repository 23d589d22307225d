---------------------------- MODULE MCIngester -----------------------------
\* Every file and every result set of up to MaxRows + 1 rows over two
\* columns, with blank, bad and overlong lines between them; the records of a
\* CSV file have one to three cells.
EXTENDS Ingester

Row(keys, values) == [kind |-> "row", keys |-> keys, values |-> values]
Other(kind) == [kind |-> kind, keys |-> <<>>, values |-> <<>>]

Upto(S, n) == UNION {[1..k -> S] : k \in 0..n}

CsvRows ==
  {Row([k \in DOMAIN v |-> ""], v) : v \in (Upto({"", "x"}, 2) \ {<<>>}) \cup {<<"x", "x", "x">>}}
JsonRows == UNION {{Row(ks, vs) : vs \in [DOMAIN ks -> {"x", Null}]} : ks \in Upto({"a", "b"}, 2)}
QueryRows(w) == {Row([k \in 1..w |-> ""], vs) : vs \in [1..w -> {"x", Null}]}

Files(type, lines, fields, n) ==
  {[type |-> type, fields |-> fields, lines |-> ls] : ls \in Upto(lines, n)}

CsvFiles == Files("csv", CsvRows \cup {Other("blank"), Other("bad")}, <<>>, MaxRows + 2)
JsonFiles == Files("jsonl", JsonRows \cup {Other("blank"), Other("bad"), Other("long")}, <<>>, MaxRows + 1)
Queries(fields) ==
  Files("postgres", QueryRows(Len(fields)) \cup {Other("bad")}, fields, MaxRows + 1)

Sources == CsvFiles \cup JsonFiles \cup Queries(<<"a", "b">>) \cup Queries(<<"a">>)
OneColumnQueries == Queries(<<"a">>)
=============================================================================
