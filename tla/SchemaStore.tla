---------------------------- MODULE SchemaStore ----------------------------
(***************************************************************************)
(* The schema snapshots (go-ingestion/internal/store/schema.go) and the    *)
(* handler of GET /api/schema-diff (internal/server/schema.go).            *)
(*                                                                         *)
(* A snapshot is stored under the key schema:<table>:<captured_at>.  A     *)
(* table's name is a sequence of characters, which may be colons; one that *)
(* goes on into another table's captured_at is left out.  captured_at is   *)
(* an RFC 3339 text: a local time in whole units and an offset, the offset *)
(* 0 written Z and any other with its sign first.                          *)
(*                                                                         *)
(* Nothing in the program calls SaveSnapshot yet: it may be called here at *)
(* any time, as its tests do, also between two transactions of ListDiffs.  *)
(***************************************************************************)
EXTENDS Integers, Sequences, FiniteSets, SequencesExt

CONSTANTS Char,         \* the characters of names
          Colon,        \* the one that separates the parts of a key
          Table,        \* the names of tables
          Time,         \* the values of captured_at
          Schema,       \* the schemas: each a function from some columns to their definition
          MaxSaves      \* bound on the calls of SaveSnapshot

ASSUME TableAssumption == Colon \in Char /\ Table \subseteq Seq(Char)
ASSUME TimeAssumption == Time \subseteq [local : Int, offset : Int]

VARIABLES db,    \* the stored snapshots
          saves, \* the calls of SaveSnapshot
          call   \* the request: its state, its table, and in ListDiffs the tables
                 \* still to be read; its answer, and history: what was stored when it came

schemaVars == <<db, saves, call>>

All == <<>>   \* no table parameter

Snapshot == [table : Table, at : Time, columns : Schema]

\* The signs of the offsets in the order of the texts: "+" < "-" < "Z".
Sign(offset) == IF offset > 0 THEN 0 ELSE IF offset < 0 THEN 1 ELSE 2

\* The order of two texts of offsets: the sign first, then the digits.
OffsetBefore(a, b) ==
  \/ Sign(a) < Sign(b)
  \/ Sign(a) = Sign(b) /\ (IF a > 0 THEN a < b ELSE b < a)

\* The order of the texts, which ListSnapshots sorts by: the local time first.
Before(a, b) == a.local < b.local \/ (a.local = b.local /\ OffsetBefore(a.offset, b.offset))

SameKey(r, s) == r.table = s.table /\ r.at = s.at

SchemaInit ==
  /\ db = {} /\ saves = 0
  /\ call = [phase |-> "idle", table |-> All, todo |-> {}, diffs |-> {}, alerted |-> FALSE,
             before |-> {}]

-----------------------------------------------------------------------------
(* The store                                                               *)

\* SaveSnapshot: one transaction; an equal key is overwritten.
SaveSnapshot(s) ==
  /\ saves < MaxSaves /\ saves' = saves + 1
  /\ db' = {r \in db : ~SameKey(r, s)} \cup {s}
  /\ UNCHANGED call

\* A variant whose prefix does not end with the colon.
ListSnapshots_AnyPrefix(t) == {s \in db : IsPrefix(t, s.table)}

\* ListSnapshots: the keys that begin with schema:<table>:
ListSnapshots(t) == {s \in db : IsPrefix(Append(t, Colon), Append(s.table, Colon))}

\* A variant that takes the two first.
LatestTwo_First(ss) ==
  {w \in ss \X ss : /\ w[1] # w[2] /\ ~Before(w[2].at, w[1].at)
                    /\ \A s \in ss \ {w[1], w[2]} : ~Before(s.at, w[2].at)}

\* The two last snapshots of the sorted list; the sort is not stable.
LatestTwo(ss) ==
  {w \in ss \X ss : /\ w[1] # w[2] /\ ~Before(w[2].at, w[1].at)
                    /\ \A s \in ss \ {w[1], w[2]} : ~Before(w[1].at, s.at)}

\* diffSnapshots.  prev and curr are kept for the properties; the definition
\* of an added column and the types of a changed one are those of curr.
DiffSnapshots(p, c) ==
  [table |-> c.table, prev |-> p, curr |-> c, detected_at |-> c.at,
   added |-> DOMAIN c.columns \ DOMAIN p.columns,
   dropped |-> DOMAIN p.columns \ DOMAIN c.columns,
   changed |-> {n \in DOMAIN c.columns \cap DOMAIN p.columns :
                  p.columns[n].type # c.columns[n].type}]

Empty(d) == d.added \cup d.dropped \cup d.changed = {}

\* LatestDiff: the possible answers, each no difference or one.
LatestDiff(t) ==
  IF \A r, s \in ListSnapshots(t) : r = s THEN {{}}
  ELSE {{DiffSnapshots(w[1], w[2])} : w \in LatestTwo(ListSnapshots(t))}

HasColon(n) == \E k \in DOMAIN n : n[k] = Colon

\* A key's table as ListDiffs reads it: up to the first colon.
TableOf(n) ==
  IF HasColon(n)
    THEN SubSeq(n, 1, (CHOOSE k \in DOMAIN n : n[k] = Colon /\ ~HasColon(SubSeq(n, 1, k - 1))) - 1)
    ELSE n

-----------------------------------------------------------------------------
(* handleSchemaDiff                                                        *)

Ask(t) ==
  /\ call.phase \notin {"scan", "list"}
  /\ call' = [phase |-> "scan", table |-> t, todo |-> {}, diffs |-> {}, alerted |-> FALSE,
              before |-> db]
  /\ UNCHANGED <<db, saves>>

\* With a table: LatestDiff, an alert if there is a difference, the answer.
\* A failing notifier is only logged.
AnswerOne ==
  /\ call.phase = "scan" /\ call.table # All
  /\ \E d \in LatestDiff(call.table) :
       call' = [call EXCEPT !.phase = IF d = {} THEN "few" ELSE "ok", !.diffs = d,
                            !.alerted = \E x \in d : ~Empty(x)]
  /\ UNCHANGED <<db, saves>>

\* Without a table: ListDiffs collects the tables of all keys.
ScanTables ==
  /\ call.phase = "scan" /\ call.table = All
  /\ call' = [call EXCEPT !.phase = "list", !.todo = {TableOf(s.table) : s \in db}]
  /\ UNCHANGED <<db, saves>>

\* A variant that stops at the first table without two snapshots.
Rest_Breaks(t, d) == IF d = {} THEN {} ELSE call.todo \ {t}

\* The tables left when t's answer was d.
Rest(t, d) == call.todo \ {t}

\* The loop over the map of tables, in any order: one transaction for each.
NextTable ==
  /\ call.phase = "list"
  /\ \E t \in call.todo : \E d \in LatestDiff(t) :
       call' = [call EXCEPT !.diffs = call.diffs \cup d, !.todo = Rest(t, d)]
  /\ UNCHANGED <<db, saves>>

AnswerAll ==
  /\ call.phase = "list" /\ call.todo = {}
  /\ call' = [call EXCEPT !.phase = "ok"]
  /\ UNCHANGED <<db, saves>>

\* A transaction fails: the answer is an error.
ReadFails ==
  /\ call.phase = "scan" \/ (call.phase = "list" /\ call.todo # {})
  /\ call' = [call EXCEPT !.phase = "error", !.todo = {}, !.diffs = {}]
  /\ UNCHANGED <<db, saves>>

SchemaNext ==
  \/ \E s \in Snapshot : SaveSnapshot(s)
  \/ \E t \in Table \cup {All} : Ask(t)
  \/ AnswerOne \/ ScanTables \/ NextTable \/ AnswerAll \/ ReadFails

SchemaSpec == SchemaInit /\ [][SchemaNext]_schemaVars

-----------------------------------------------------------------------------
(* Properties                                                              *)

\* No name that is stored or asked for has a colon.
PlainNames == ~HasColon(call.table) /\ \A s \in db : ~HasColon(s.table)

\* While no name has a colon, a difference is one between two snapshots of the
\* same table, of that one that was asked for: no key of a table whose name
\* begins with another's is taken for one of that other (schema.go:61).
DiffsOfOneTable ==
  PlainNames =>
    \A d \in call.diffs :
      d.prev.table = d.table /\ d.curr.table = d.table /\ call.table \in {All, d.table}

\* While no name has a colon, an answer without a table covers every table
\* that had two snapshots when the request came, although each is read in a
\* transaction of its own and a table without an answer does not end the loop
\* (ListDiffs).
AnswerComplete ==
  PlainNames /\ call.phase = "ok" /\ call.table = All =>
    \A r, s \in call.before :
      r.table = s.table /\ r # s => \E d \in call.diffs : d.table = s.table

\* The point in time that a captured_at names.
Instant(at) == at.local - at.offset

\* The two snapshots that are compared are the table's newest: of those that
\* were stored when the request came and were taken with the same offset as
\* one of the two, none was taken after it, but for the newer of the two
\* itself (LatestDiff).
ComparesNewest ==
  \A d \in call.diffs : \A s \in call.before :
    s.table = d.table =>
      /\ s.at.offset = d.curr.at.offset => Instant(s.at) <= Instant(d.curr.at)
      /\ s.at # d.curr.at /\ s.at.offset = d.prev.at.offset => Instant(s.at) <= Instant(d.prev.at)

\* The comments of ListSnapshots (schema.go:59, 84): the order of the texts is
\* the order in time, so that a difference leads from an earlier snapshot to a
\* later one.
ListedInTimeOrder == \A d \in call.diffs : Instant(d.prev.at) <= Instant(d.curr.at)

\* The comment of ListDiffs (schema.go:103): tables without a difference are
\* not in the answer.
OnlyChangedTables ==
  call.phase = "ok" /\ call.table = All => \A d \in call.diffs : ~Empty(d)
=============================================================================
