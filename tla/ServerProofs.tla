---------------------------- MODULE ServerProofs ----------------------------
(* Proofs about the schema differences (SchemaStore), about who reaches a   *)
(* handler (Server) and about the pages of the violations (ViolationApi),   *)
(* for every set of tables, instants and schemas, any number of snapshots,  *)
(* any violations and any parameters.                                       *)
EXTENDS Server, FiniteSetTheorems, WellFoundedInduction, TLAPS

Difference == {DiffSnapshots(p, c) : p, c \in Snapshot}

SchemaTypeOK ==
  /\ db \subseteq Snapshot
  /\ call \in [phase : {"idle", "scan", "list", "error", "few", "ok"},
               table : Table \cup {All}, todo : SUBSET {TableOf(n) : n \in Table},
               diffs : SUBSET Difference, alerted : BOOLEAN, before : SUBSET Snapshot]

\* No two snapshots have the same key.
KeysDiffer(ss) == \A r, s \in ss : SameKey(r, s) => r = s

\* A key is never removed.
BeforeKept == \A s \in call.before : \E r \in db : SameKey(r, s)

\* What ListDiffs still has to read or has already.
Accounted ==
  PlainNames /\ call.phase \in {"list", "ok"} /\ call.table = All =>
    \A r, s \in call.before :
      r.table = s.table /\ r # s =>
        s.table \in call.todo \/ \E d \in call.diffs : d.table = s.table

\* Where there are tables still to be read, and which they are.
TodoInv ==
  /\ call.phase # "list" => call.todo = {}
  /\ call.phase = "list" => call.table = All
  /\ \A t \in call.todo : \E s \in db : t = TableOf(s.table)

\* An answer is never older than its request, in the order of the texts: of the
\* snapshots that were stored when it came, none is later than the newer one
\* compared, and none but that one is later than the other.
TextFresh ==
  \A d \in call.diffs : \A s \in call.before :
    s.table = d.table =>
      /\ ~Before(d.curr.at, s.at)
      /\ s.at # d.curr.at => ~Before(d.prev.at, s.at)

\* The inductive invariant: what was stored when a request came still has its
\* keys, and its tables are still to be read or already in the answer.
SchemaInv ==
  /\ SchemaTypeOK
  /\ KeysDiffer(db) /\ KeysDiffer(call.before)
  /\ BeforeKept
  /\ Accounted
  /\ TodoInv
  /\ DiffsOfOneTable
  /\ TextFresh

-----------------------------------------------------------------------------
(* Names, keys and instants                                                 *)

LEMMA Names == Colon \in Char /\ All \in Seq(Char) /\ \A t \in Table \cup {All} : t \in Seq(Char)
<1>1. All \in Seq(Char)
  BY DEF All
<1>2. QED
  BY <1>1, TableAssumption

\* Of two names without a colon, the key's prefix tells them apart.
LEMMA PlainPrefix ==
  ASSUME NEW t \in Seq(Char), NEW n \in Seq(Char), ~HasColon(t), ~HasColon(n),
         IsPrefix(Append(t, Colon), Append(n, Colon))
  PROVE  t = n
<1> DEFINE a == Append(t, Colon)
           b == Append(n, Colon)
<1>1. /\ a \in Seq(Char) /\ Len(a) = Len(t) + 1 /\ a[Len(t) + 1] = Colon
      /\ \A k \in 1..Len(t) : a[k] = t[k]
  BY Names
<1>2. /\ b \in Seq(Char) /\ Len(b) = Len(n) + 1 /\ b[Len(n) + 1] = Colon
      /\ \A k \in 1..Len(n) : b[k] = n[k]
  BY Names
<1>3. Len(t) \in Nat /\ Len(n) \in Nat /\ DOMAIN t = 1..Len(t) /\ DOMAIN n = 1..Len(n)
  OBVIOUS
<1>4. Len(a) <= Len(b) /\ SubSeq(a, 1, Len(a)) = SubSeq(b, 1, Len(a))
  BY DEF IsPrefix
<1> HIDE DEF a, b
<1>5. \A k \in 1..Len(a) : SubSeq(a, 1, Len(a))[k] = a[k] /\ SubSeq(b, 1, Len(a))[k] = b[k]
  BY <1>1, <1>2, <1>3, <1>4
<1>6. \A k \in 1..(Len(t) + 1) : a[k] = b[k]
  <2>1. TAKE k \in 1..(Len(t) + 1)
  <2>2. SubSeq(a, 1, Len(a))[k] = a[k] /\ SubSeq(b, 1, Len(a))[k] = b[k]
    BY <1>1, <1>5
  <2>3. QED
    BY <1>4, <2>2, Zenon
<1>7. Len(t) = Len(n)
  <2>1. ~(Len(t) < Len(n))
    <3>1. SUFFICES ASSUME Len(t) < Len(n) PROVE FALSE
      OBVIOUS
    <3>2. Len(t) + 1 \in DOMAIN n
      BY <1>3, <3>1
    <3>3. n[Len(t) + 1] = Colon
      BY <1>1, <1>2, <1>3, <1>6, <3>1, <3>2
    <3>4. QED
      BY <3>2, <3>3 DEF HasColon
  <2>2. Len(t) + 1 <= Len(n) + 1
    BY <1>1, <1>2, <1>4
  <2>3. \A j, k \in Nat : ~(j < k) /\ j + 1 <= k + 1 => j = k
    OBVIOUS
  <2>4. Len(t) \in Nat /\ Len(n) \in Nat
    OBVIOUS
  <2>5. QED
    BY <2>1, <2>2, <2>3, <2>4
<1>8. \A k \in 1..Len(t) : t[k] = n[k]
  BY <1>1, <1>2, <1>3, <1>6, <1>7
<1>9. QED
  BY <1>3, <1>7, <1>8

LEMMA OwnPrefix ==
  ASSUME NEW t \in Seq(Char)
  PROVE  IsPrefix(Append(t, Colon), Append(t, Colon))
  BY Names DEF IsPrefix

LEMMA Instants ==
  ASSUME NEW a \in Time, NEW b \in Time, NEW c \in Time
  PROVE  /\ ~Before(a, a)
         /\ ~Before(b, a) /\ ~Before(a, c) => ~Before(b, c)
<1>1. /\ a.local \in Int /\ b.local \in Int /\ c.local \in Int
      /\ a.offset \in Int /\ b.offset \in Int /\ c.offset \in Int
  BY TimeAssumption
<1>2. \A x, y, z \in Int : /\ ~OffsetBefore(x, x)
                          /\ ~OffsetBefore(y, x) /\ ~OffsetBefore(x, z) => ~OffsetBefore(y, z)
  BY DEF OffsetBefore, Sign
<1>3. \A x, y \in Int : OffsetBefore(x, y) => ~OffsetBefore(y, x)
  BY DEF OffsetBefore, Sign
<1> HIDE DEF OffsetBefore
<1>4. QED
  BY <1>1, <1>2, <1>3 DEF Before

\* Of two texts with the same offset, the later one names the later instant.
LEMMA SameOffset ==
  ASSUME NEW a \in Time, NEW b \in Time, a.offset = b.offset, ~Before(a, b)
  PROVE  Instant(b) <= Instant(a)
<1>1. a.local \in Int /\ b.local \in Int /\ a.offset \in Int /\ b.offset \in Int
  BY TimeAssumption
<1>2. b.local <= a.local
  BY <1>1 DEF Before
<1>3. QED
  BY <1>1, <1>2 DEF Instant

\* What a difference is made of.
LEMMA LatestParts ==
  ASSUME NEW t, db \subseteq Snapshot, NEW d \in LatestDiff(t)
  PROVE  /\ d \subseteq Difference
         /\ (\E r, s \in ListSnapshots(t) : r # s) => d # {}
         /\ \A x \in d : /\ x.prev \in ListSnapshots(t) /\ x.curr \in ListSnapshots(t)
                         /\ x.table = x.curr.table
                         /\ ~Before(x.curr.at, x.prev.at)
                         /\ \A s \in ListSnapshots(t) \ {x.prev, x.curr} : ~Before(x.prev.at, s.at)
<1>1. ListSnapshots(t) \subseteq Snapshot
  BY DEF ListSnapshots
<1>2. CASE \A r, s \in ListSnapshots(t) : r = s
  BY <1>2 DEF LatestDiff
<1>3. CASE ~(\A r, s \in ListSnapshots(t) : r = s)
  <2>1. PICK w \in LatestTwo(ListSnapshots(t)) : d = {DiffSnapshots(w[1], w[2])}
    BY <1>3 DEF LatestDiff
  <2>2. /\ w[1] \in ListSnapshots(t) /\ w[2] \in ListSnapshots(t)
        /\ ~Before(w[2].at, w[1].at)
        /\ \A s \in ListSnapshots(t) \ {w[1], w[2]} : ~Before(w[1].at, s.at)
    BY <2>1 DEF LatestTwo
  <2>3. w[1] \in Snapshot /\ w[2] \in Snapshot
    BY <1>1, <2>2
  <2>4. d \subseteq Difference
    BY <2>1, <2>3 DEF Difference
  <2>5. QED
    BY <2>1, <2>2, <2>4 DEF DiffSnapshots
<1>4. QED
  BY <1>2, <1>3

\* A difference is between the last two of what is stored for its table.
LEMMA LatestIsFresh ==
  ASSUME NEW t, db \subseteq Snapshot, NEW d \in LatestDiff(t),
         NEW x \in d, NEW s \in db, s.table = x.table
  PROVE  ~Before(x.curr.at, s.at) /\ (s.at # x.curr.at => ~Before(x.prev.at, s.at))
<1>1. /\ x.prev \in ListSnapshots(t) /\ x.curr \in ListSnapshots(t) /\ x.table = x.curr.table
      /\ ~Before(x.curr.at, x.prev.at)
      /\ \A r \in ListSnapshots(t) \ {x.prev, x.curr} : ~Before(x.prev.at, r.at)
  BY LatestParts
<1>2. s \in ListSnapshots(t)
  BY <1>1 DEF ListSnapshots
<1>3. x.prev.at \in Time /\ x.curr.at \in Time /\ s.at \in Time
  BY <1>1 DEF ListSnapshots, Snapshot
<1>4. CASE s = x.prev \/ s = x.curr
  BY <1>1, <1>3, <1>4, Instants
<1>5. CASE s # x.prev /\ s # x.curr
  <2>1. ~Before(x.prev.at, s.at)
    BY <1>1, <1>2, <1>5
  <2>2. QED
    BY <1>1, <1>3, <2>1, Instants
<1>6. QED
  BY <1>4, <1>5

\* While no name has a colon, a difference is one of the table asked for.
LEMMA LatestOfTable ==
  ASSUME NEW t \in Table, db \subseteq Snapshot, NEW d \in LatestDiff(t), NEW x \in d,
         ~HasColon(t), \A s \in db : ~HasColon(s.table)
  PROVE  x.prev.table = t /\ x.curr.table = t /\ x.table = t
<1>1. x.prev \in ListSnapshots(t) /\ x.curr \in ListSnapshots(t) /\ x.table = x.curr.table
  BY LatestParts
<1>2. \A s \in ListSnapshots(t) : s.table = t
  <2>1. TAKE s \in ListSnapshots(t)
  <2>2. s \in db /\ IsPrefix(Append(t, Colon), Append(s.table, Colon)) /\ s.table \in Table
    BY DEF ListSnapshots, Snapshot
  <2>3. QED
    BY <2>2, PlainPrefix, Names
<1>3. QED
  BY <1>1, <1>2

LEMMA PlainTable ==
  ASSUME NEW n, ~HasColon(n)
  PROVE  TableOf(n) = n
  BY DEF TableOf

-----------------------------------------------------------------------------
(* The invariant                                                            *)

LEMMA InitSchemaInv == SchemaInit => SchemaInv
<1> SUFFICES ASSUME SchemaInit PROVE SchemaInv
  OBVIOUS
<1> USE DEF SchemaInit
<1>1. SchemaTypeOK
  BY DEF SchemaTypeOK
<1>2. KeysDiffer(db) /\ KeysDiffer(call.before) /\ BeforeKept
  BY DEF KeysDiffer, BeforeKept
<1>3. Accounted /\ TodoInv /\ DiffsOfOneTable /\ TextFresh
  BY DEF Accounted, TodoInv, DiffsOfOneTable, TextFresh
<1>4. QED
  BY <1>1, <1>2, <1>3 DEF SchemaInv

\* Names are only added.
LEMMA SavesInv ==
  ASSUME SchemaInv, NEW s \in Snapshot, SaveSnapshot(s)
  PROVE  SchemaInv'
<1> USE DEF SchemaInv
<1>1. call' = call /\ db' = {r \in db : ~SameKey(r, s)} \cup {s}
  BY DEF SaveSnapshot
<1>2. SchemaTypeOK'
  BY <1>1 DEF SchemaTypeOK
<1>3. KeysDiffer(db)' /\ KeysDiffer(call.before)'
  BY <1>1 DEF KeysDiffer, SameKey
<1>4. BeforeKept'
  BY <1>1 DEF BeforeKept, SameKey
<1>5. PlainNames' => PlainNames
  BY <1>1 DEF PlainNames, SameKey
<1>6. Accounted'
  BY <1>1, <1>5 DEF Accounted
<1>6a. TodoInv'
  <2>1. SUFFICES ASSUME NEW t \in call.todo PROVE \E r \in db' : t = TableOf(r.table)
    BY <1>1 DEF TodoInv
  <2>2. PICK r \in db : t = TableOf(r.table)
    BY DEF TodoInv
  <2>3. r \in db' \/ (s \in db' /\ s.table = r.table)
    BY <1>1 DEF SameKey
  <2>4. QED
    BY <2>2, <2>3
<1>7. DiffsOfOneTable' /\ TextFresh'
  BY <1>1, <1>5 DEF DiffsOfOneTable, TextFresh
<1>8. QED
  BY <1>2, <1>3, <1>4, <1>6, <1>6a, <1>7

LEMMA AskInv ==
  ASSUME SchemaInv, NEW t \in Table \cup {All}, Ask(t)
  PROVE  SchemaInv'
<1> USE DEF SchemaInv
<1>1. /\ db' = db /\ call'.before = db /\ call'.diffs = {} /\ call'.phase = "scan"
      /\ call'.table = t /\ call'.todo = {} /\ call'.alerted = FALSE
      /\ call' \in [phase : {"scan"}, table : Table \cup {All}, todo : SUBSET {TableOf(n) : n \in Table},
                    diffs : SUBSET Difference, alerted : BOOLEAN, before : {db}]
  BY DEF Ask
<1>2. SchemaTypeOK'
  BY <1>1 DEF SchemaTypeOK
<1>3. KeysDiffer(db)' /\ KeysDiffer(call.before)' /\ BeforeKept'
  BY <1>1 DEF KeysDiffer, BeforeKept, SameKey
<1>4. Accounted' /\ TodoInv' /\ DiffsOfOneTable' /\ TextFresh'
  BY <1>1 DEF Accounted, TodoInv, DiffsOfOneTable, TextFresh
<1>5. QED
  BY <1>2, <1>3, <1>4

\* What a step that reads leaves alone.
LEMMA ReadStep ==
  ASSUME SchemaInv, db' = db, call'.before = call.before, call'.table = call.table
  PROVE  /\ KeysDiffer(db)' /\ KeysDiffer(call.before)' /\ BeforeKept'
         /\ PlainNames' <=> PlainNames
  BY DEF SchemaInv, KeysDiffer, BeforeKept, PlainNames

\* A difference that is read now is as fresh as the request.
LEMMA ReadIsFresh ==
  ASSUME SchemaInv, NEW t, NEW d \in LatestDiff(t), NEW x \in d,
         NEW s \in call.before, s.table = x.table
  PROVE  ~Before(x.curr.at, s.at) /\ (s.at # x.curr.at => ~Before(x.prev.at, s.at))
<1>1. PICK r \in db : SameKey(r, s)
  BY DEF SchemaInv, BeforeKept
<1>2. db \subseteq Snapshot
  BY DEF SchemaInv, SchemaTypeOK
<1>3. r.table = x.table /\ r.at = s.at
  BY <1>1, ZenonT(40) DEF SameKey
<1>4. QED
  BY <1>2, <1>3, LatestIsFresh

LEMMA AnswerOneInv ==
  ASSUME SchemaInv, AnswerOne
  PROVE  SchemaInv'
<1>1. PICK d \in LatestDiff(call.table) :
        call' = [call EXCEPT !.phase = IF d = {} THEN "few" ELSE "ok", !.diffs = d,
                             !.alerted = \E x \in d : ~Empty(x)]
  BY DEF AnswerOne
<1>2. db' = db /\ call.phase = "scan" /\ call.table # All
  BY DEF AnswerOne
<1>3. SchemaTypeOK
  BY DEF SchemaInv
<1>4. call.table \in Table \cup {All} /\ db \subseteq Snapshot
  BY <1>3 DEF SchemaTypeOK
<1>5. d \subseteq Difference
  BY <1>4, LatestParts
<1>6. /\ call'.phase \in {"few", "ok"} /\ call'.table = call.table /\ call'.todo = call.todo
      /\ call'.diffs = d /\ call'.before = call.before
  BY <1>1, <1>3 DEF SchemaTypeOK
<1>7. SchemaTypeOK'
  BY <1>1, <1>2, <1>3, <1>5 DEF SchemaTypeOK
<1>8. /\ KeysDiffer(db)' /\ KeysDiffer(call.before)' /\ BeforeKept'
      /\ PlainNames' <=> PlainNames
  BY <1>2, <1>6, ReadStep
<1>9. DiffsOfOneTable'
  BY <1>2, <1>4, <1>6, <1>8, LatestOfTable DEF DiffsOfOneTable, PlainNames
<1>10. TextFresh'
  BY <1>4, <1>6, ReadIsFresh DEF TextFresh
<1>11. Accounted' /\ TodoInv'
  BY <1>2, <1>6 DEF SchemaInv, Accounted, TodoInv
<1>12. QED
  BY <1>7, <1>8, <1>9, <1>10, <1>11, ZenonT(40) DEF SchemaInv

LEMMA ScanTablesInv ==
  ASSUME SchemaInv, ScanTables
  PROVE  SchemaInv'
<1>1. /\ db' = db /\ call.phase = "scan" /\ call.table = All
      /\ call' = [call EXCEPT !.phase = "list", !.todo = {TableOf(s.table) : s \in db}]
  BY DEF ScanTables
<1>2. SchemaTypeOK
  BY DEF SchemaInv
<1>3. /\ call'.phase = "list" /\ call'.table = All /\ call'.diffs = call.diffs
      /\ call'.todo = {TableOf(s.table) : s \in db} /\ call'.before = call.before
  BY <1>1, <1>2 DEF SchemaTypeOK
<1>4. {TableOf(s.table) : s \in db} \subseteq {TableOf(n) : n \in Table}
  BY <1>2 DEF SchemaTypeOK, Snapshot
<1>5. SchemaTypeOK'
  BY <1>1, <1>2, <1>4 DEF SchemaTypeOK
<1>6. /\ KeysDiffer(db)' /\ KeysDiffer(call.before)' /\ BeforeKept'
      /\ PlainNames' <=> PlainNames
  BY <1>1, <1>3, ReadStep
<1>7. DiffsOfOneTable' /\ TextFresh' /\ TodoInv'
  BY <1>1, <1>3, <1>6 DEF SchemaInv, DiffsOfOneTable, TextFresh, TodoInv
<1>8. Accounted'
  <2>1. SUFFICES ASSUME PlainNames, NEW s \in call.before PROVE s.table \in call'.todo
    BY <1>3, <1>6 DEF Accounted
  <2>2. PICK r \in db : SameKey(r, s)
    BY DEF SchemaInv, BeforeKept
  <2>3. TableOf(r.table) = s.table
    BY <2>1, <2>2, PlainTable DEF PlainNames, SameKey
  <2>4. QED
    BY <1>3, <2>3
<1>9. QED
  BY <1>5, <1>6, <1>7, <1>8 DEF SchemaInv

LEMMA NextTableInv ==
  ASSUME SchemaInv, NextTable
  PROVE  SchemaInv'
<1>0. PICK t \in call.todo :
        \E d \in LatestDiff(t) :
          call' = [call EXCEPT !.diffs = call.diffs \cup d, !.todo = Rest(t, d)]
  BY DEF NextTable
<1>1. PICK d \in LatestDiff(t) :
        call' = [call EXCEPT !.diffs = call.diffs \cup d, !.todo = Rest(t, d)]
  BY <1>0
<1>2. db' = db /\ call.phase = "list"
  BY DEF NextTable
<1>3. SchemaTypeOK
  BY DEF SchemaInv
<1>4. db \subseteq Snapshot
  BY <1>3 DEF SchemaTypeOK
<1>5. /\ call'.phase = "list" /\ call'.table = call.table /\ call'.todo = call.todo \ {t}
      /\ call'.diffs = call.diffs \cup d /\ call'.before = call.before
  BY <1>1, <1>2, <1>3 DEF SchemaTypeOK, Rest
<1>6. SchemaTypeOK'
  <2>1. d \subseteq Difference
    BY <1>4, LatestParts
  <2>2. QED
    BY <1>1, <1>2, <1>3, <2>1 DEF SchemaTypeOK, Rest
<1>7. /\ KeysDiffer(db)' /\ KeysDiffer(call.before)' /\ BeforeKept'
      /\ PlainNames' <=> PlainNames
  BY <1>2, <1>5, ReadStep
<1>8. TextFresh'
  BY <1>4, <1>5, ReadIsFresh DEF SchemaInv, TextFresh
<1>9. TodoInv'
  BY <1>2, <1>5 DEF SchemaInv, TodoInv
<1>10. ASSUME PlainNames
       PROVE  /\ t \in Table
              /\ \A x \in d : x.prev.table = t /\ x.curr.table = t /\ x.table = t
  <2>1. PICK s \in db : t = TableOf(s.table)
    BY DEF SchemaInv, TodoInv
  <2>2. t = s.table /\ ~HasColon(t) /\ \A r \in db : ~HasColon(r.table)
    BY <1>10, <2>1, PlainTable DEF PlainNames
  <2>3. t \in Table
    BY <1>4, <2>2 DEF Snapshot
  <2>4. QED
    BY <1>4, <2>2, <2>3, LatestOfTable
<1>11. DiffsOfOneTable'
  BY <1>2, <1>5, <1>7, <1>10 DEF SchemaInv, TodoInv, DiffsOfOneTable
<1>12. Accounted'
  <2>1. SUFFICES ASSUME PlainNames, call.table = All, NEW r \in call.before, NEW s \in call.before,
                        r.table = s.table, r # s
                 PROVE  s.table \in call'.todo \/ \E x \in call'.diffs : x.table = s.table
    BY <1>5, <1>7 DEF Accounted
  <2>2. s.table \in call.todo \/ \E x \in call.diffs : x.table = s.table
    BY <1>2, <2>1 DEF SchemaInv, Accounted
  <2>3. CASE s.table # t \/ \E x \in call.diffs : x.table = s.table
    BY <1>5, <2>2, <2>3
  <2>4. CASE s.table = t
    <3>1. PICK rr \in db, ss \in db : SameKey(rr, r) /\ SameKey(ss, s)
      BY DEF SchemaInv, BeforeKept
    <3>2. rr # ss /\ rr.table = t /\ ss.table = t
      BY <2>1, <2>4, <3>1 DEF SchemaInv, KeysDiffer, SameKey
    <3>3. t \in Seq(Char)
      BY <1>10, <2>1, Names
    <3>4. rr \in ListSnapshots(t) /\ ss \in ListSnapshots(t)
      BY <3>2, <3>3, OwnPrefix DEF ListSnapshots
    <3>5. d # {}
      BY <1>4, <3>2, <3>4, LatestParts
    <3>6. QED
      BY <1>5, <1>10, <2>1, <2>4, <3>5
  <2>5. QED
    BY <2>3, <2>4
<1>13. QED
  BY <1>6, <1>7, <1>8, <1>9, <1>11, <1>12 DEF SchemaInv

LEMMA AnswerEndsInv ==
  ASSUME SchemaInv, AnswerAll \/ ReadFails
  PROVE  SchemaInv'
<1>1. SchemaTypeOK
  BY DEF SchemaInv
<1>2. CASE AnswerAll
  <2>1. /\ db' = db /\ call.phase = "list" /\ call.todo = {}
        /\ call' = [call EXCEPT !.phase = "ok"]
    BY <1>2 DEF AnswerAll
  <2>2. /\ call'.phase = "ok" /\ call'.table = call.table /\ call'.diffs = call.diffs
        /\ call'.todo = {} /\ call'.before = call.before
    BY <1>1, <2>1 DEF SchemaTypeOK
  <2>3. SchemaTypeOK'
    BY <1>1, <2>1 DEF SchemaTypeOK
  <2>4. /\ KeysDiffer(db)' /\ KeysDiffer(call.before)' /\ BeforeKept'
        /\ PlainNames' <=> PlainNames
    BY <2>1, <2>2, ReadStep
  <2>5. Accounted' /\ TodoInv' /\ DiffsOfOneTable' /\ TextFresh'
    BY <2>1, <2>2, <2>4 DEF SchemaInv, Accounted, TodoInv, DiffsOfOneTable, TextFresh
  <2>6. QED
    BY <2>3, <2>4, <2>5 DEF SchemaInv
<1>3. CASE ReadFails
  <2>1. db' = db /\ call' = [call EXCEPT !.phase = "error", !.todo = {}, !.diffs = {}]
    BY <1>3 DEF ReadFails
  <2>2. /\ call'.phase = "error" /\ call'.table = call.table /\ call'.diffs = {}
        /\ call'.todo = {} /\ call'.before = call.before
    BY <1>1, <2>1 DEF SchemaTypeOK
  <2>3. SchemaTypeOK'
    BY <1>1, <2>1 DEF SchemaTypeOK
  <2>4. KeysDiffer(db)' /\ KeysDiffer(call.before)' /\ BeforeKept'
    BY <2>1, <2>2, ReadStep
  <2>5. Accounted' /\ TodoInv' /\ DiffsOfOneTable' /\ TextFresh'
    BY <2>2 DEF Accounted, TodoInv, DiffsOfOneTable, TextFresh
  <2>6. QED
    BY <2>3, <2>4, <2>5 DEF SchemaInv
<1>4. QED
  BY <1>2, <1>3

LEMMA SchemaNextInv == SchemaInv /\ [SchemaNext]_schemaVars => SchemaInv'
<1>1. ASSUME SchemaInv, SchemaNext PROVE SchemaInv'
  BY <1>1, SavesInv, AskInv, AnswerOneInv, ScanTablesInv, NextTableInv, AnswerEndsInv
     DEF SchemaNext
<1>2. ASSUME SchemaInv, UNCHANGED schemaVars PROVE SchemaInv'
  BY <1>2 DEF schemaVars, SchemaInv, SchemaTypeOK, KeysDiffer, BeforeKept, Accounted, TodoInv,
              DiffsOfOneTable, TextFresh, PlainNames
<1>3. QED
  BY <1>1, <1>2

LEMMA SchemaInvUse == SchemaInv => DiffsOfOneTable /\ AnswerComplete /\ ComparesNewest
<1> SUFFICES ASSUME SchemaInv PROVE DiffsOfOneTable /\ AnswerComplete /\ ComparesNewest
  OBVIOUS
<1>1. AnswerComplete
  BY DEF SchemaInv, Accounted, TodoInv, AnswerComplete
<1>2. ComparesNewest
  <2>1. SUFFICES ASSUME NEW d \in call.diffs, NEW s \in call.before, s.table = d.table
                 PROVE  /\ s.at.offset = d.curr.at.offset => Instant(s.at) <= Instant(d.curr.at)
                        /\ s.at # d.curr.at /\ s.at.offset = d.prev.at.offset
                             => Instant(s.at) <= Instant(d.prev.at)
    BY DEF ComparesNewest
  <2>2. s \in Snapshot /\ d \in Difference
    BY DEF SchemaInv, SchemaTypeOK
  <2>3. PICK p \in Snapshot, c \in Snapshot : d = DiffSnapshots(p, c)
    BY <2>2 DEF Difference
  <2>4. d.prev \in Snapshot /\ d.curr \in Snapshot
    BY <2>3 DEF DiffSnapshots
  <2>5. s.at \in Time /\ d.prev.at \in Time /\ d.curr.at \in Time
    BY <2>2, <2>4 DEF Snapshot
  <2>6. ~Before(d.curr.at, s.at) /\ (s.at # d.curr.at => ~Before(d.prev.at, s.at))
    BY <2>1 DEF SchemaInv, TextFresh
  <2>7. QED
    BY <2>5, <2>6, SameOffset
<1>3. QED
  BY <1>1, <1>2 DEF SchemaInv

\* A step of the server is one of the schema differences or leaves them alone.
LEMMA SchemaSteps == [Next]_vars => [SchemaNext]_schemaVars
<1> SUFFICES ASSUME [Next]_vars PROVE SchemaNext \/ schemaVars' = schemaVars
  OBVIOUS
<1> USE DEF vars, others
<1>1. CASE SchemaDiff
  BY <1>1 DEF SchemaDiff
<1>2. CASE Start \/ Arrive \/ HandleLineage \/ AnalyzeReturns \/ DashboardRefused
          \/ DashboardShows
  BY <1>2 DEF Start, Arrive, HandleLineage, AnalyzeReturns, DashboardRefused, DashboardShows
<1>3. CASE AskViolations \/ HandleViolations \/ PagerStarts \/ PagerNext \/ DashboardAsks
  BY <1>3, Zenon DEF AskViolations, HandleViolations, PagerStarts, PagerNext, DashboardAsks, ApiStep
<1>4. QED
  BY <1>1, <1>2, <1>3 DEF Next

\* The invariant of the schema differences holds while the server runs.
THEOREM SchemaInvariance == Spec => []SchemaInv
<1>1. Init => SchemaInv
  BY InitSchemaInv DEF Init
<1>2. SchemaInv /\ [Next]_vars => SchemaInv'
  BY SchemaNextInv, SchemaSteps
<1>3. QED
  BY <1>1, <1>2, PTL DEF Spec

\* No key of one table is taken for a key of another (schema.go:61).
THEOREM DiffsOfOneTableAlways == Spec => []DiffsOfOneTable
  BY SchemaInvariance, SchemaInvUse, PTL

\* An answer without a table leaves no table out that could be compared when
\* the request came (ListDiffs).
THEOREM AnswerCompleteAlways == Spec => []AnswerComplete
  BY SchemaInvariance, SchemaInvUse, PTL

\* The two snapshots that are compared are the newest of those taken with the
\* same offset that were stored when the request came (ListDiffs, LatestDiff).
THEOREM ComparesNewestAlways == Spec => []ComparesNewest
  BY SchemaInvariance, SchemaInvUse, PTL

-----------------------------------------------------------------------------
(* The key                                                                  *)

Status == {"none", "ok", "handled", "unauthorized", "analyzing", "bad", "error", "shown", "broken"}

\* Who was admitted, and how the server came to listen.
KeyInv ==
  /\ server \in [state : {"starting", "listening", "refused"}, apiKey : {"", Key},
                 allowInsecure : BOOLEAN]
  /\ client \in [route : Route, header : DOMAIN Token, status : Status]
  /\ server.state = "listening" => KeyRequirementMet
  /\ client.status # "none" => server.state = "listening"
  /\ client.status \notin {"none", "unauthorized"} /\ client.route # "health" => Admitted

LEMMA KeyStep == KeyInv /\ [Next]_vars => KeyInv'
<1> SUFFICES ASSUME KeyInv, [Next]_vars PROVE KeyInv'
  OBVIOUS
<1> USE DEF KeyInv, KeyRequirementMet, Admitted, SetStatus, Handled, Status
<1>1. CASE Start
  BY <1>1 DEF Start
<1>2. CASE Arrive
  BY <1>2 DEF Arrive, others
<1>3. CASE HandleLineage
  BY <1>3 DEF HandleLineage, others
<1>4. CASE AnalyzeReturns
  BY <1>4 DEF AnalyzeReturns, others
<1>5. CASE DashboardRefused \/ DashboardShows
  BY <1>5 DEF DashboardRefused, DashboardShows, others
<1>6. CASE PagerNext
  BY <1>6 DEF PagerNext
<1>7. CASE SchemaDiff \/ AskViolations \/ HandleViolations \/ PagerStarts \/ DashboardAsks
  <2>1. server' = server /\ client' = client
    BY <1>7, Zenon DEF SchemaDiff, AskViolations, HandleViolations, PagerStarts, DashboardAsks, ApiStep
  <2>2. QED
    BY <2>1
<1>8. CASE UNCHANGED vars
  BY <1>8 DEF vars
<1>9. QED
  BY <1>1, <1>2, <1>3, <1>4, <1>5, <1>6, <1>7, <1>8 DEF Next

\* Who was admitted is invariant.
THEOREM KeyInvariance == Spec => []KeyInv
<1>1. Init => KeyInv
  BY DEF Init, KeyInv, Status
<1>2. QED
  BY <1>1, KeyStep, PTL DEF Spec

\* Without the key nobody reaches a protected handler, unless the operator
\* asked for that when the server was started.
THEOREM KeyGuardsDataAlways == Spec => []KeyGuardsData
<1>1. KeyInv => KeyGuardsData
  BY DEF KeyInv, KeyGuardsData, KeyRequirementMet, Admitted
<1>2. QED
  BY <1>1, KeyInvariance, PTL

-----------------------------------------------------------------------------
(* The pages of the violations                                              *)

\* The first violation that matches, or the end.
Lo == Min(Api!Matching \cup {Len(violations) + 1})

ApiPhase == {"idle", "parse", "bad", "count", "scan", "ok", "error"}

ApiQuery == [table : ViolationTable \cup {Api!All}, limit : Seq(Int), offset : Seq(Int)]

ReqType == [phase : ApiPhase, query : ApiQuery, total : Nat, item : Nat, skipped : Nat, out : Seq(Nat)]

ApiTypeOK ==
  /\ violations \in Seq(ViolationTable)
  /\ \A j, k \in DOMAIN violations : j < k => violations[j] <= violations[k]
  /\ req \in ReqType
  /\ pages \in Seq(Nat)

\* How far the scan is: what it skipped and what it put out are the matching
\* violations before its item, in their order; why it stopped.
ScanInv ==
  /\ req.phase \in {"count", "scan", "ok"} => Api!ValidQuery
  /\ req.phase \in {"parse", "count"} => req.skipped = 0 /\ req.out = <<>>
  /\ req.phase \in {"scan", "ok"} =>
       /\ req.total = Cardinality(Api!Matching)
       /\ req.item = Lo + req.skipped + Len(req.out)
       /\ Lo..(req.item - 1) \subseteq Api!Matching
       /\ req.skipped <= Api!Offset
       /\ req.out # <<>> => req.skipped = Api!Offset
       /\ Api!Limit > 0 => Len(req.out) <= Api!Limit
       /\ \A j \in DOMAIN req.out : req.out[j] = Lo + req.skipped + j - 1
  /\ req.phase = "ok" =>
       \/ req.item \notin Api!Matching
       \/ req.skipped = Api!Offset /\ Api!Limit > 0 /\ Len(req.out) = Api!Limit

\* What the pager has are the first matching violations, as many as the offset
\* of the page it waits for.
PagerInv ==
  /\ client.status = "analyzing" => client.route = "lineage"
  /\ client.route = "pager" =>
       /\ client.status = "ok" => req.phase = "ok"
       /\ req.phase # "bad"
       /\ client.status \in {"none", "unauthorized"} => req.phase = "idle"
       /\ req.phase = "idle" => pages = <<>>
       /\ req.phase # "idle" =>
            /\ Api!Limit \in 1..MaxLimit /\ Api!Offset >= 0
            /\ \A j \in DOMAIN pages : pages[j] = Lo + j - 1
            /\ Lo..(Lo + Len(pages) - 1) \subseteq Api!Matching
            /\ client.status = "handled" => Len(pages) = Api!Offset
            /\ client.status = "ok" => Lo + Len(pages) \notin Api!Matching

\* The operators of the libraries are the same in the instance.
LEMMA ApiOperators ==
  ASSUME NEW S
  PROVE  Api!Min(S) = Min(S) /\ Api!Cardinality(S) = Cardinality(S)
<1>1. Api!Min(S) = Min(S)
  BY Zenon DEF Min, Api!Min
<1>2. Api!Cardinality(S) = Cardinality(S)
  BY Zenon DEF Cardinality, Api!Cardinality
<1>3. QED
  BY <1>1, <1>2

\* Every set of naturals that has an element has a least one.
LEMMA Least ==
  ASSUME NEW S, S \subseteq Nat, S # {}
  PROVE  \E x \in S : \A y \in S : x <= y
<1>1. PICK x \in S : \A y \in S : ~(<<y, x>> \in OpToRel(<, Nat))
  <2>1. IsWellFoundedOn(OpToRel(<, Nat), Nat)
    BY NatLessThanWellFounded
  <2>2. QED
    BY <2>1, WFMin
<1>2. \A y \in S : x <= y
  <2>1. TAKE y \in S
  <2>2. x \in Nat /\ y \in Nat
    OBVIOUS
  <2>3. y < x => <<y, x>> \in OpToRel(<, Nat)
    BY <2>2 DEF OpToRel
  <2>4. ~(y < x)
    BY <1>1, <2>3, Zenon
  <2>5. QED
    BY <2>2, <2>4
<1>3. QED
  BY <1>2

LEMMA MinIsLeast ==
  ASSUME NEW S, S \subseteq Nat, S # {}
  PROVE  Min(S) \in S /\ \A y \in S : Min(S) <= y
  BY Least, Zenon DEF Min

\* What a scan yields is a gapless part of the keys, which begins at Lo.
LEMMA MatchingInterval ==
  ASSUME ApiTypeOK
  PROVE  /\ Api!Matching \subseteq 1..Len(violations)
         /\ Lo \in Nat \ {0}
         /\ \A k \in Api!Matching : Lo <= k
         /\ Api!Matching # {} => Lo \in Api!Matching
         /\ \A h, k \in Api!Matching, m \in Nat : h <= m /\ m <= k => m \in Api!Matching
<1> DEFINE n == Len(violations)
           M == Api!Matching
<1>1. n \in Nat /\ DOMAIN violations = 1..n /\ violations \in [1..n -> ViolationTable]
  BY DEF ApiTypeOK, ReqType
<1>2. M \subseteq 1..n
  BY <1>1 DEF Api!Matching
<1>3. \A h, k \in M : \A m \in 1..n : h <= m /\ m <= k => m \in M
  <2>1. SUFFICES ASSUME NEW h \in M, NEW k \in M, NEW m \in 1..n, h <= m, m <= k
                 PROVE  req.query.table \in {Api!All, violations[m]}
    BY <1>1 DEF Api!Matching
  <2>2. h \in 1..n /\ k \in 1..n
    BY <1>2
  <2>3. /\ violations[h] \in Nat /\ violations[m] \in Nat /\ violations[k] \in Nat
    BY <1>1, <2>2, ViolationTableAssumption
  <2>4. violations[h] <= violations[m] /\ violations[m] <= violations[k]
    <3>1. \A i, j \in 1..n : i < j => violations[i] <= violations[j]
      BY <1>1 DEF ApiTypeOK, ReqType
    <3>2. (h = m \/ h < m) /\ (m = k \/ m < k)
      BY <1>1, <2>1, <2>2
    <3>3. QED
      BY <2>2, <2>3, <3>1, <3>2
  <2>5. req.query.table \in {Api!All, violations[h]} /\ req.query.table \in {Api!All, violations[k]}
    BY DEF Api!Matching
  <2>6. QED
    BY <2>3, <2>4, <2>5
<1>4. Lo \in M \cup {n + 1} /\ \A k \in M \cup {n + 1} : Lo <= k
  <2> DEFINE S == M \cup {n + 1}
  <2>1. S \subseteq Nat /\ S # {}
    <3> HIDE DEF M, n
    <3>1. QED
      BY <1>1, <1>2
  <2>2. Min(S) \in S /\ \A y \in S : Min(S) <= y
    <3> HIDE DEF S
    <3>1. QED
      BY <2>1, MinIsLeast
  <2>3. QED
    BY <2>2 DEF Lo
<1> HIDE DEF n, M
<1>5. Lo \in Nat \ {0} /\ (M # {} => Lo \in M)
  <2>1. M \cup {n + 1} \subseteq Nat \ {0}
    BY <1>1, <1>2
  <2>2. ASSUME NEW k \in M PROVE Lo # n + 1
    BY <1>1, <1>2, <1>4, <2>1
  <2>3. QED
    BY <1>4, <2>1, <2>2
<1>6. \A h, k \in M, m \in Nat : h <= m /\ m <= k => m \in M
  BY <1>1, <1>2, <1>3
<1>7. QED
  BY <1>2, <1>4, <1>5, <1>6 DEF n, M

\* An element that begins a gap ends what matches.
LEMMA BeforeGap ==
  ASSUME ApiTypeOK, NEW m \in Nat, m >= Lo, m \notin Api!Matching
  PROVE  \A k \in Api!Matching : k < m
<1>1. SUFFICES ASSUME NEW k \in Api!Matching PROVE k < m
  OBVIOUS
<1>2. Lo \in Api!Matching /\ k \in Nat /\ Lo \in Nat
  BY MatchingInterval
<1>3. k >= m => m \in Api!Matching
  BY <1>2, MatchingInterval
<1>4. QED
  BY <1>2, <1>3

\* The k-th key is at the position k - Lo of what matches.
LEMMA PositionOf ==
  ASSUME ApiTypeOK, NEW k \in Api!Matching
  PROVE  Cardinality({h \in Api!Matching : h < k}) = k - Lo
<1>1. k \in Nat /\ Lo \in Nat /\ Lo <= k /\ Lo \in Api!Matching
  BY MatchingInterval
<1>2. {h \in Api!Matching : h < k} = Lo..(k - 1)
  <2>1. ASSUME NEW h \in Api!Matching, h < k PROVE h \in Lo..(k - 1)
    BY <1>1, <2>1, MatchingInterval
  <2>2. ASSUME NEW h \in Lo..(k - 1) PROVE h \in Api!Matching /\ h < k
    BY <1>1, <2>2, MatchingInterval
  <2>3. QED
    BY <2>1, <2>2
<1>3. Cardinality(Lo..(k - 1)) = k - Lo
  <2>1. \A a, b \in Int : Cardinality(a..b) = IF a > b THEN 0 ELSE b - a + 1
    BY FS_Interval
  <2>2. Cardinality(Lo..(k - 1)) = IF Lo > k - 1 THEN 0 ELSE (k - 1) - Lo + 1
    BY <1>1, <2>1
  <2>3. QED
    BY <1>1, <2>2
<1>4. QED
  BY <1>2, <1>3

\* The numbers of a query.
LEMMA QueryNumbers ==
  ASSUME ApiTypeOK
  PROVE  Api!Limit \in Int /\ Api!Offset \in Int
<1>1. req.query.limit \in Seq(Int) /\ req.query.offset \in Seq(Int)
  BY DEF ApiTypeOK, ReqType, ApiQuery
<1>2. \A p \in Seq(Int) : p # <<>> => p[1] \in Int
  OBVIOUS
<1>3. DefaultLimit \in Int
  BY LimitAssumption
<1>4. QED
  BY <1>1, <1>2, <1>3 DEF Api!Limit, Api!Offset, Api!Or

\* An answer is the page that was asked for.
LEMMA PageFromScan == ApiTypeOK /\ ScanInv => PageIsSlice
<1> SUFFICES ASSUME ApiTypeOK, ScanInv, req.phase = "ok"
             PROVE  PageIsSlice
  BY DEF PageIsSlice
<1> DEFINE n == Len(req.out)
           s == req.skipped
           M == Api!Matching
           due == {k \in M : k - Lo >= Api!Offset /\ (Api!Limit > 0 => k - Lo < Api!Offset + Api!Limit)}
<1>1. /\ Lo \in Nat /\ s \in Nat /\ req.item \in Nat /\ n \in Nat
      /\ Api!Limit \in Int /\ Api!Offset \in Int
      /\ req.out \in Seq(Nat) /\ DOMAIN req.out = 1..n /\ M \subseteq Nat
  BY MatchingInterval, QueryNumbers DEF ApiTypeOK, ReqType
<1>2. /\ req.item = Lo + s + n
      /\ Lo..(req.item - 1) \subseteq M
      /\ s <= Api!Offset
      /\ n # 0 => s = Api!Offset
      /\ Api!Limit > 0 => n <= Api!Limit
      /\ \A j \in 1..n : req.out[j] = Lo + s + j - 1
      /\ req.item \notin M \/ (s = Api!Offset /\ Api!Limit > 0 /\ n = Api!Limit)
  <2>1. n # 0 => req.out # <<>>
    OBVIOUS
  <2>2. QED
    BY <1>1, <2>1 DEF ScanInv
<1>3. \A k \in M : Lo <= k /\ (req.item \notin M => k < req.item)
  BY <1>1, <1>2, MatchingInterval, BeforeGap, SMTT(30)
<1> HIDE DEF n, s, M
<1>4. Ascending(req.out)
  BY <1>1, <1>2, SMTT(30) DEF Ascending
<1>5. due = {Lo + s + j - 1 : j \in 1..n}
  <2>1. ASSUME NEW j \in 1..n PROVE Lo + s + j - 1 \in due
    <3>1. s = Api!Offset /\ Lo + s + j - 1 \in Lo..(req.item - 1)
      BY <1>1, <1>2
    <3>2. QED
      BY <1>1, <1>2, <3>1
  <2>2. ASSUME NEW k \in due PROVE k - Lo - s + 1 \in 1..n /\ k = Lo + s + (k - Lo - s + 1) - 1
    <3>1. k \in Nat /\ k - Lo >= s
      BY <1>1, <1>2
    <3>2. k < Lo + s + n
      BY <1>1, <1>2, <1>3, <3>1
    <3>3. QED
      BY <1>1, <3>1, <3>2
  <2>3. QED
    BY <2>1, <2>2
<1>6. Range(req.out) = {Lo + s + j - 1 : j \in 1..n}
  BY <1>1, <1>2 DEF Range
<1>7. \A k \in Api!Matching : Cardinality({h \in Api!Matching : h < k}) = k - Lo
  BY PositionOf
<1>8. due = {k \in Api!Matching :
               Cardinality({h \in Api!Matching : h < k}) >= Api!Offset
                 /\ (Api!Limit > 0 => Cardinality({h \in Api!Matching : h < k}) < Api!Offset + Api!Limit)}
  BY <1>7 DEF M
<1> HIDE DEF due
<1>9. QED
  BY <1>4, <1>5, <1>6, <1>8 DEF PageIsSlice

\* What a pager has at the end is all that matches.
LEMMA PagerHasAll == ApiTypeOK /\ ScanInv /\ PagerInv => PagerComplete
<1> SUFFICES ASSUME ApiTypeOK, ScanInv, PagerInv, client.route = "pager", client.status = "ok"
             PROVE  Ascending(pages) /\ Range(pages) = Api!Matching /\ req.total = Len(pages)
  BY DEF PagerComplete
<1> DEFINE n == Len(pages)
           M == Api!Matching
<1>1. Lo \in Nat /\ n \in Nat /\ DOMAIN pages = 1..n /\ M \subseteq Nat
  BY MatchingInterval DEF ApiTypeOK, ReqType
<1>2. /\ req.total = Cardinality(M)
      /\ \A j \in 1..n : pages[j] = Lo + j - 1
      /\ Lo..(Lo + n - 1) \subseteq M
      /\ Lo + n \notin M
  BY <1>1 DEF ScanInv, PagerInv
<1>3. \A k \in M : Lo <= k /\ k < Lo + n
  <2>1. Lo + n \in Nat /\ Lo + n >= Lo
    BY <1>1
  <2>2. QED
    BY <1>1, <1>2, <2>1, MatchingInterval, BeforeGap
<1> HIDE DEF n, M
<1>4. M = Lo..(Lo + n - 1)
  <2>1. ASSUME NEW k \in M PROVE k \in Lo..(Lo + n - 1)
    <3>1. k \in Nat /\ Lo <= k /\ k < Lo + n
      BY <1>1, <1>3
    <3>2. QED
      BY <1>1, <3>1
  <2>2. QED
    BY <1>2, <2>1
<1>5. Cardinality(Lo..(Lo + n - 1)) = n
  <2>1. \A a, b \in Int : Cardinality(a..b) = IF a > b THEN 0 ELSE b - a + 1
    BY FS_Interval
  <2>2. Cardinality(Lo..(Lo + n - 1)) = IF Lo > Lo + n - 1 THEN 0 ELSE (Lo + n - 1) - Lo + 1
    BY <1>1, <2>1
  <2>3. QED
    BY <1>1, <2>2
<1>6. Ascending(pages)
  BY <1>1, <1>2 DEF Ascending
<1>7. Range(pages) = {Lo + j - 1 : j \in 1..n}
  BY <1>1, <1>2 DEF Range
<1>8. {Lo + j - 1 : j \in 1..n} = Lo..(Lo + n - 1)
  <2>1. ASSUME NEW k \in Lo..(Lo + n - 1) PROVE k - Lo + 1 \in 1..n /\ k = Lo + (k - Lo + 1) - 1
    BY <1>1
  <2>2. ASSUME NEW j \in 1..n PROVE Lo + j - 1 \in Lo..(Lo + n - 1)
    BY <1>1
  <2>3. QED
    BY <2>1, <2>2
<1>9. QED
  BY <1>2, <1>4, <1>5, <1>6, <1>7, <1>8 DEF n, M

\* What a step does that leaves the violations and the query alone.
LEMMA SameQuery ==
  ASSUME violations' = violations, req'.query = req.query
  PROVE  /\ Api!Matching' = Api!Matching /\ Lo' = Lo
         /\ Api!Limit' = Api!Limit /\ Api!Offset' = Api!Offset
         /\ Api!ValidQuery' <=> Api!ValidQuery
  BY DEF Lo, Api!Matching, Api!Limit, Api!Offset, Api!ValidQuery

\* A step that leaves the handler alone.
LEMMA ApiSame ==
  ASSUME ApiTypeOK, ScanInv, UNCHANGED <<violations, req, pages>>
  PROVE  ApiTypeOK' /\ ScanInv'
<1>1. ApiTypeOK'
  BY DEF ApiTypeOK, ReqType
<1>2. /\ Api!Matching' = Api!Matching /\ Lo' = Lo
      /\ Api!Limit' = Api!Limit /\ Api!Offset' = Api!Offset
      /\ Api!ValidQuery' <=> Api!ValidQuery
  BY SameQuery
<1>3. ScanInv'
  BY <1>2 DEF ScanInv
<1>4. QED
  BY <1>1, <1>3

\* A request begins with nothing scanned.
LEMMA RequestInv ==
  ASSUME ApiTypeOK, violations' = violations, pages' \in Seq(Nat),
         NEW q \in ApiQuery,
         Api!Request(q)
  PROVE  ApiTypeOK' /\ ScanInv' /\ req'.phase = "parse" /\ req'.query = q
<1>1. /\ req' \in [phase : {"parse"}, query : {q}, total : {0}, item : {1}, skipped : {0}, out : {<<>>}]
      /\ req'.phase = "parse" /\ req'.query = q /\ req'.skipped = 0 /\ req'.out = <<>>
  BY DEF Api!Request, Api!Idle
<1>2. ApiTypeOK'
  <2>1. req' = [phase |-> "parse", query |-> q, total |-> 0, item |-> 1, skipped |-> 0, out |-> <<>>]
    BY DEF Api!Request, Api!Idle
  <2>2. <<>> \in Seq(Nat) /\ "parse" \in ApiPhase
    BY DEF ApiPhase
  <2>3. req' \in ReqType
    BY <2>1, <2>2 DEF ReqType
  <2>4. QED
    BY <2>3 DEF ApiTypeOK
<1>3. ScanInv'
  BY <1>1 DEF ScanInv
<1>4. QED
  BY <1>1, <1>2, <1>3

LEMMA ParseInv ==
  ASSUME ApiTypeOK, ScanInv, Api!ParsePagination, UNCHANGED <<violations, pages>>
  PROVE  /\ ApiTypeOK' /\ ScanInv'
         /\ req'.query = req.query /\ req.phase = "parse"
         /\ req'.phase = IF Api!ValidQuery THEN "count" ELSE "bad"
<1>1. /\ req.phase = "parse"
      /\ req' = [req EXCEPT !.phase = IF Api!ValidQuery THEN "count" ELSE "bad"]
  BY DEF Api!ParsePagination
<1>2. /\ req'.phase = IF Api!ValidQuery THEN "count" ELSE "bad"
      /\ req'.query = req.query /\ req'.skipped = req.skipped /\ req'.out = req.out
  BY <1>1 DEF ApiTypeOK, ReqType
<1>3. ApiTypeOK'
  <2>1. req \in ReqType
    BY DEF ApiTypeOK
  <2>2. req' \in ReqType
    BY <1>1, <2>1 DEF ReqType, ApiPhase
  <2>3. QED
    BY <2>2 DEF ApiTypeOK
<1>4. ScanInv'
  BY <1>1, <1>2, SameQuery DEF ScanInv
<1>5. QED
  BY <1>1, <1>2, <1>3, <1>4

\* The scan seeks the first violation that matches.
LEMMA CountInv ==
  ASSUME ApiTypeOK, ScanInv, Api!Count, UNCHANGED <<violations, pages>>
  PROVE  /\ ApiTypeOK' /\ ScanInv'
         /\ req'.query = req.query /\ req.phase = "count" /\ req'.phase = "scan"
<1>1. /\ req.phase = "count"
      /\ req' = [req EXCEPT !.phase = "scan", !.total = Cardinality(Api!Matching), !.item = Lo]
  BY ApiOperators DEF Api!Count, Lo
<1>2. /\ req'.phase = "scan" /\ req'.query = req.query /\ req'.skipped = req.skipped
      /\ req'.out = req.out /\ req'.item = Lo /\ req'.total = Cardinality(Api!Matching)
  BY <1>1 DEF ApiTypeOK, ReqType
<1>3. Cardinality(Api!Matching) \in Nat
  <2>1. IsFiniteSet(1..Len(violations)) /\ Len(violations) \in Nat
    BY FS_Interval DEF ApiTypeOK, ReqType
  <2>2. Api!Matching \subseteq 1..Len(violations)
    BY MatchingInterval
  <2>3. IsFiniteSet(Api!Matching)
    BY <2>1, <2>2, FS_Subset
  <2>4. QED
    BY <2>3, FS_CardinalityType
<1>4. Lo \in Nat /\ Lo..(Lo - 1) = {}
  BY MatchingInterval
<1>5. ApiTypeOK'
  <2>1. req \in ReqType
    BY DEF ApiTypeOK
  <2>2. req' \in ReqType
    BY <1>1, <1>3, <1>4, <2>1 DEF ReqType, ApiPhase
  <2>3. QED
    BY <2>2 DEF ApiTypeOK
<1>6. /\ Api!ValidQuery /\ req.skipped = 0 /\ req.out = <<>> /\ Len(req.out) = 0 /\ DOMAIN req.out = {}
      /\ Api!Limit \in Int /\ Api!Offset \in Int /\ Api!Offset >= 0
  BY <1>1, QueryNumbers DEF ScanInv, Api!ValidQuery
<1>7. ScanInv'
  BY <1>2, <1>4, <1>6, SameQuery DEF ScanInv
<1>8. QED
  BY <1>1, <1>2, <1>5, <1>7

LEMMA SkipInv ==
  ASSUME ApiTypeOK, ScanInv, Api!Skip, UNCHANGED <<violations, pages>>
  PROVE  /\ ApiTypeOK' /\ ScanInv'
         /\ req'.query = req.query /\ req.phase = "scan" /\ req'.phase = "scan"
<1>1. /\ req.phase = "scan" /\ req.item \in Api!Matching /\ req.skipped < Api!Offset
      /\ req' = [req EXCEPT !.skipped = req.skipped + 1, !.item = req.item + 1]
  BY DEF Api!Skip, Api!Valid
<1>2. /\ req'.phase = "scan" /\ req'.query = req.query /\ req'.skipped = req.skipped + 1
      /\ req'.out = req.out /\ req'.item = req.item + 1 /\ req'.total = req.total
  BY <1>1 DEF ApiTypeOK, ReqType
<1>3. ApiTypeOK'
  <2>1. req \in ReqType
    BY DEF ApiTypeOK
  <2>1a. req.skipped + 1 \in Nat /\ req.item + 1 \in Nat
    BY <2>1 DEF ReqType
  <2>2. req' \in ReqType
    BY <1>1, <2>1, <2>1a DEF ReqType
  <2>3. QED
    BY <2>2 DEF ApiTypeOK
<1>4. /\ req.item \in Nat /\ req.skipped \in Nat /\ Lo \in Nat /\ Api!Offset \in Int /\ Api!Limit \in Int
      /\ req.out = <<>> /\ Len(req.out) = 0 /\ DOMAIN req.out = {}
  BY <1>1, QueryNumbers, MatchingInterval DEF ApiTypeOK, ReqType, ScanInv
<1>5. /\ req.item = Lo + req.skipped
      /\ Lo..(req.item - 1) \subseteq Api!Matching
      /\ req.total = Cardinality(Api!Matching) /\ Api!ValidQuery
  BY <1>1, <1>4 DEF ScanInv
<1>6. Lo..((req.item + 1) - 1) \subseteq Api!Matching
  <2>1. SUFFICES ASSUME NEW k \in Lo..((req.item + 1) - 1) PROVE k \in Api!Matching
    OBVIOUS
  <2>2. k = req.item \/ k \in Lo..(req.item - 1)
    BY <1>4
  <2>3. QED
    BY <1>1, <1>5, <2>2
<1>7. ScanInv'
  BY <1>1, <1>2, <1>4, <1>5, <1>6, SameQuery DEF ScanInv
<1>8. QED
  BY <1>1, <1>2, <1>3, <1>7

LEMMA TakeInv ==
  ASSUME ApiTypeOK, ScanInv, Api!Take, UNCHANGED <<violations, pages>>
  PROVE  /\ ApiTypeOK' /\ ScanInv'
         /\ req'.query = req.query /\ req.phase = "scan" /\ req'.phase = "scan"
<1> DEFINE n == Len(req.out)
<1>1. /\ req.phase = "scan" /\ req.item \in Api!Matching /\ req.skipped >= Api!Offset
      /\ ~(Api!Limit > 0 /\ n >= Api!Limit)
      /\ req' = [req EXCEPT !.out = Append(req.out, req.item), !.item = req.item + 1]
  BY DEF Api!Take, Api!Valid, Api!PageFull
<1>2. /\ req'.phase = "scan" /\ req'.query = req.query /\ req'.skipped = req.skipped
      /\ req'.out = Append(req.out, req.item) /\ req'.item = req.item + 1 /\ req'.total = req.total
  BY <1>1 DEF ApiTypeOK, ReqType
<1>3. req.item \in Nat /\ req.out \in Seq(Nat) /\ n \in Nat /\ req.skipped \in Nat
  BY DEF ApiTypeOK, ReqType
<1>4. ApiTypeOK'
  <2>1. req \in ReqType
    BY DEF ApiTypeOK
  <2>1a. Append(req.out, req.item) \in Seq(Nat) /\ req.item + 1 \in Nat
    BY <1>3
  <2>2. req' \in ReqType
    BY <1>1, <2>1, <2>1a DEF ReqType
  <2>3. QED
    BY <2>2 DEF ApiTypeOK
<1>5. /\ Len(req'.out) = n + 1 /\ DOMAIN req'.out = 1..(n + 1) /\ DOMAIN req.out = 1..n
      /\ \A j \in 1..n : req'.out[j] = req.out[j]
      /\ req'.out[n + 1] = req.item
  BY <1>2, <1>3
<1>6. /\ req.item = Lo + req.skipped + n
      /\ Lo..(req.item - 1) \subseteq Api!Matching
      /\ req.skipped <= Api!Offset
      /\ \A j \in 1..n : req.out[j] = Lo + req.skipped + j - 1
      /\ req.total = Cardinality(Api!Matching) /\ Api!ValidQuery
  BY <1>1, <1>5 DEF ScanInv
<1>7. Lo \in Nat /\ Api!Offset \in Int /\ Api!Limit \in Int
  BY QueryNumbers, MatchingInterval
<1> HIDE DEF n
<1>8. Lo..((req.item + 1) - 1) \subseteq Api!Matching
  <2>1. SUFFICES ASSUME NEW k \in Lo..((req.item + 1) - 1) PROVE k \in Api!Matching
    OBVIOUS
  <2>2. k = req.item \/ k \in Lo..(req.item - 1)
    BY <1>3, <1>7
  <2>3. QED
    BY <1>1, <1>6, <2>2
<1>9. \A j \in 1..(n + 1) : req'.out[j] = Lo + req.skipped + j - 1
  <2>1. TAKE j \in 1..(n + 1)
  <2>2. j \in 1..n \/ j = n + 1
    BY <1>3
  <2>3. QED
    BY <1>3, <1>5, <1>6, <1>7, <2>2, SMTT(30)
<1>10. /\ req.item + 1 = Lo + req.skipped + (n + 1)
       /\ req.skipped = Api!Offset /\ (Api!Limit > 0 => n + 1 <= Api!Limit)
  <2>1. req.skipped >= Api!Offset /\ req.skipped <= Api!Offset /\ ~(Api!Limit > 0 /\ n >= Api!Limit)
    BY <1>1, <1>6 DEF n
  <2>2. QED
    BY <1>3, <1>6, <1>7, <2>1
<1>11. ScanInv'
  BY <1>2, <1>5, <1>6, <1>8, <1>9, <1>10, SameQuery DEF ScanInv
<1>12. QED
  BY <1>1, <1>2, <1>4, <1>11

LEMMA ScanEndsInv ==
  ASSUME ApiTypeOK, ScanInv, Api!ScanEnds, UNCHANGED <<violations, pages>>
  PROVE  /\ ApiTypeOK' /\ ScanInv'
         /\ req'.query = req.query /\ req.phase = "scan" /\ req'.phase = "ok"
<1>1. /\ req.phase = "scan" /\ req' = [req EXCEPT !.phase = "ok"]
      /\ \/ req.item \notin Api!Matching
         \/ req.skipped >= Api!Offset /\ Api!Limit > 0 /\ Len(req.out) >= Api!Limit
  BY DEF Api!ScanEnds, Api!Valid, Api!PageFull
<1>2. /\ req'.phase = "ok" /\ req'.query = req.query /\ req'.skipped = req.skipped
      /\ req'.out = req.out /\ req'.item = req.item /\ req'.total = req.total
  BY <1>1 DEF ApiTypeOK, ReqType
<1>3. ApiTypeOK'
  <2>1. req \in ReqType
    BY DEF ApiTypeOK
  <2>2. req' \in ReqType
    BY <1>1, <2>1 DEF ReqType, ApiPhase
  <2>3. QED
    BY <2>2 DEF ApiTypeOK
<1>4. /\ req.skipped \in Nat /\ Len(req.out) \in Nat /\ Api!Offset \in Int /\ Api!Limit \in Int
      /\ req.skipped <= Api!Offset /\ (Api!Limit > 0 => Len(req.out) <= Api!Limit)
  BY <1>1, QueryNumbers DEF ApiTypeOK, ReqType, ScanInv
<1>5. \/ req.item \notin Api!Matching
      \/ req.skipped = Api!Offset /\ Api!Limit > 0 /\ Len(req.out) = Api!Limit
  BY <1>1, <1>4
<1>6. ScanInv'
  BY <1>1, <1>2, <1>5, SameQuery DEF ScanInv
<1>7. QED
  BY <1>1, <1>2, <1>3, <1>6

LEMMA ApiFailsInv ==
  ASSUME ApiTypeOK, ScanInv, Api!ReadFails, UNCHANGED <<violations, pages>>
  PROVE  /\ ApiTypeOK' /\ ScanInv'
         /\ req'.query = req.query /\ req.phase \in {"count", "scan"} /\ req'.phase = "error"
<1>1. req.phase \in {"count", "scan"} /\ req' = [req EXCEPT !.phase = "error", !.out = <<>>]
  BY DEF Api!ReadFails
<1>2. req'.phase = "error" /\ req'.query = req.query
  BY <1>1 DEF ApiTypeOK, ReqType
<1>3. ApiTypeOK'
  <2>1. req \in ReqType
    BY DEF ApiTypeOK
  <2>1a. <<>> \in Seq(Nat) /\ "error" \in ApiPhase
    BY DEF ApiPhase
  <2>2. req' \in ReqType
    BY <1>1, <2>1, <2>1a DEF ReqType
  <2>3. QED
    BY <2>2 DEF ApiTypeOK
<1>4. ScanInv'
  BY <1>2 DEF ScanInv
<1>5. QED
  BY <1>1, <1>2, <1>3, <1>4

\* An iteration, or another step, of the handler.
LEMMA HandleInv ==
  ASSUME ApiTypeOK, ScanInv, Api!Handle, UNCHANGED <<violations, pages>>
  PROVE  /\ ApiTypeOK' /\ ScanInv' /\ req'.query = req.query
         /\ req.phase \notin {"idle", "ok"} /\ req'.phase # "idle"
         /\ req'.phase = "bad" => ~Api!ValidQuery
<1>1. CASE Api!ParsePagination
  BY <1>1, ParseInv
<1>2. CASE Api!Count
  BY <1>2, CountInv
<1>3. CASE Api!Skip
  BY <1>3, SkipInv
<1>4. CASE Api!Take
  BY <1>4, TakeInv
<1>5. CASE Api!ScanEnds
  BY <1>5, ScanEndsInv
<1>6. CASE Api!ReadFails
  BY <1>6, ApiFailsInv
<1>7. QED
  BY <1>1, <1>2, <1>3, <1>4, <1>5, <1>6 DEF Api!Handle

\* A step of the client while nothing of the handler changes.
LEMMA ClientSteps ==
  ASSUME KeyInv, ApiTypeOK, ScanInv, PagerInv, UNCHANGED <<violations, req, pages>>,
         \/ client' = client \/ Arrive \/ HandleLineage \/ AnalyzeReturns
         \/ DashboardRefused \/ DashboardShows
  PROVE  PagerInv'
<1>1. /\ Api!Matching' = Api!Matching /\ Lo' = Lo
      /\ Api!Limit' = Api!Limit /\ Api!Offset' = Api!Offset
  BY SameQuery
<1>2. client \in [route : Route, header : DOMAIN Token, status : Status]
  BY DEF KeyInv
<1>3. CASE client' = client
  BY <1>1, <1>3 DEF PagerInv
<1>4. CASE Arrive
  <2>1. /\ client'.route = client.route /\ client.status = "none"
        /\ client'.status \in {"handled", "unauthorized"} \/ client.route = "health"
        /\ client'.status # "analyzing"
    BY <1>2, <1>4 DEF Arrive, SetStatus
  <2>2. client.route = "pager" => req.phase = "idle" /\ pages = <<>>
    BY <2>1 DEF PagerInv
  <2>3. QED
    BY <1>1, <2>1, <2>2 DEF PagerInv
<1>5. CASE HandleLineage \/ AnalyzeReturns
  <2>1. client'.route = client.route /\ client.route = "lineage"
    BY <1>2, <1>5 DEF HandleLineage, AnalyzeReturns, SetStatus, Handled, PagerInv
  <2>2. QED
    BY <2>1 DEF PagerInv
<1>6. CASE DashboardRefused \/ DashboardShows
  <2>1. client'.route = client.route /\ client.route = "dashboard" /\ client'.status # "analyzing"
    BY <1>2, <1>6 DEF DashboardRefused, DashboardShows, SetStatus, Handled
  <2>2. QED
    BY <2>1 DEF PagerInv
<1>7. QED
  BY <1>3, <1>4, <1>5, <1>6

\* A step of the handler leaves what the pager has.
LEMMA PagerHandled ==
  ASSUME ApiTypeOK, ScanInv, PagerInv, HandleViolations
  PROVE  ApiTypeOK' /\ ScanInv' /\ PagerInv'
<1>1. Api!Handle /\ UNCHANGED <<violations, pages>> /\ client' = client
  BY DEF HandleViolations, ApiStep
<1>2. /\ ApiTypeOK' /\ ScanInv' /\ req'.query = req.query
      /\ req.phase \notin {"idle", "ok"} /\ req'.phase # "idle"
      /\ req'.phase = "bad" => ~Api!ValidQuery
  BY <1>1, HandleInv
<1>3. /\ Api!Matching' = Api!Matching /\ Lo' = Lo
      /\ Api!Limit' = Api!Limit /\ Api!Offset' = Api!Offset
  BY <1>1, <1>2, SameQuery
<1>4. client.route = "pager" => Api!ValidQuery
  BY <1>2, LimitAssumption DEF PagerInv, Api!ValidQuery
<1>5. PagerInv'
  BY <1>1, <1>2, <1>3, <1>4 DEF PagerInv
<1>6. QED
  BY <1>2, <1>5

\* Another client's request.
LEMMA OtherAsks ==
  ASSUME ApiTypeOK, PagerInv, AskViolations \/ DashboardAsks
  PROVE  ApiTypeOK' /\ ScanInv' /\ PagerInv'
<1>1. /\ violations' = violations /\ client' = client /\ pages' = pages
      /\ client.route # "pager" /\ client.status = "handled"
  BY DEF AskViolations, DashboardAsks, ApiStep, Handled
<1>2. PICK q \in Api!Query : Api!Request(q)
  <2>1. Api!NoQuery \in Api!Query
    BY DEF Api!NoQuery, Api!Query, Api!Optional
  <2>2. CASE AskViolations
    BY <2>2, Zenon DEF AskViolations, ApiStep
  <2>3. CASE DashboardAsks
    BY <2>1, <2>3, Zenon DEF DashboardAsks, ApiStep
  <2>4. QED
    BY <2>2, <2>3
<1>3. q \in ApiQuery
  <2>1. Api!Optional \subseteq Seq(Int)
    <3>1. \A p \in Int : <<p>> \in Seq(Int)
      OBVIOUS
    <3>2. \A p \in Parameter : <<p>> \in Seq(Int)
      BY <3>1, ParameterAssumption
    <3>3. <<>> \in Seq(Int)
      OBVIOUS
    <3>4. QED
      BY <3>2, <3>3, Zenon DEF Api!Optional
  <2>2. QED
    BY <2>1 DEF Api!Query, ApiQuery
<1>4. pages' \in Seq(Nat)
  BY <1>1 DEF ApiTypeOK
<1>5. ApiTypeOK' /\ ScanInv'
  BY <1>1, <1>2, <1>3, <1>4, RequestInv
<1>6. PagerInv'
  BY <1>1 DEF PagerInv
<1>7. QED
  BY <1>5, <1>6

LoTypeOK == Lo \in Nat

LEMMA LoTypeNext == ApiTypeOK' => LoTypeOK'
<1>1. ApiTypeOK => LoTypeOK
  BY MatchingInterval DEF LoTypeOK
<1>2. QED
  BY <1>1, PTL

\* A pager's first request.
LEMMA PagerStartsInv ==
  ASSUME ApiTypeOK, PagerInv, PagerStarts
  PROVE  ApiTypeOK' /\ ScanInv' /\ PagerInv'
<1>1. /\ violations' = violations /\ client' = client /\ pages' = pages
      /\ client.route = "pager" /\ client.status = "handled" /\ req.phase = "idle"
  BY DEF PagerStarts, ApiStep, Handled
<1>2. PICK t \in ViolationTable \cup {Api!All}, l \in 1..MaxLimit :
        Api!Request([table |-> t, limit |-> <<l>>, offset |-> <<0>>])
  BY DEF PagerStarts, ApiStep
<1> DEFINE q == [table |-> t, limit |-> <<l>>, offset |-> <<0>>]
<1>3. q \in ApiQuery
  BY LimitAssumption DEF ApiQuery
<1>4. pages' \in Seq(Nat)
  BY <1>1 DEF ApiTypeOK
<1>5. ApiTypeOK' /\ ScanInv' /\ req'.phase = "parse" /\ req'.query = q
  BY <1>1, <1>2, <1>3, <1>4, RequestInv
<1>6. Api!Limit' = l /\ Api!Offset' = 0
  BY <1>5 DEF Api!Limit, Api!Offset, Api!Or
<1>7. pages' = <<>> /\ Len(pages') = 0 /\ DOMAIN pages' = {}
  BY <1>1 DEF PagerInv
<1>8. Lo' \in Nat
  BY <1>5, LoTypeNext DEF LoTypeOK
<1>9. PagerInv'
  <2>1. \A x \in Nat : x..(x + 0 - 1) = {}
    OBVIOUS
  <2>2. Lo'..(Lo' + 0 - 1) = {}
    BY <1>8, <2>1, Zenon
  <2>3. QED
    BY <1>1, <1>5, <1>6, <1>7, <2>2 DEF PagerInv
<1>10. QED
  BY <1>5, <1>9

\* A page that is full: the pager asks for the next one.
LEMMA PagerGoesOn ==
  ASSUME KeyInv, ApiTypeOK, ScanInv, PagerInv, PagerNext, ~(Len(req.out) < Api!Limit)
  PROVE  ApiTypeOK' /\ ScanInv' /\ PagerInv'
<1> DEFINE n == Len(pages)
           m == Len(req.out)
           q == [req.query EXCEPT !.offset = <<Api!Offset + Api!Limit>>]
<1>1. /\ violations' = violations /\ client' = client /\ pages' = pages \o req.out
      /\ client.route = "pager" /\ client.status = "handled" /\ req.phase = "ok"
      /\ Api!Request(q)
  BY DEF PagerNext, Handled
<1>2. /\ req.out \in Seq(Nat) /\ pages \in Seq(Nat) /\ m \in Nat /\ n \in Nat
      /\ Api!Limit \in Int /\ Api!Offset \in Int /\ Lo \in Nat /\ req.skipped \in Nat
      /\ req.query \in ApiQuery
  BY QueryNumbers, MatchingInterval DEF ApiTypeOK, ReqType
<1>3. q \in ApiQuery /\ q.table = req.query.table /\ q.limit = req.query.limit
      /\ q.offset = <<Api!Offset + Api!Limit>>
  <2>1. <<Api!Offset + Api!Limit>> \in Seq(Int)
    BY <1>2
  <2>2. QED
    BY <1>2, <2>1 DEF ApiQuery
<1>4. pages' \in Seq(Nat)
  BY <1>1, <1>2
<1> HIDE DEF q
<1>5. ApiTypeOK' /\ ScanInv' /\ req'.phase = "parse" /\ req'.query = q
  BY <1>1, <1>3, <1>4, RequestInv
<1>6. /\ Api!Limit' = Api!Limit /\ Api!Offset' = Api!Offset + Api!Limit
      /\ Api!Matching' = Api!Matching /\ Lo' = Lo
  <2>1. Api!Matching' = Api!Matching
    BY <1>1, <1>3, <1>5 DEF Api!Matching
  <2>2. Lo' = Lo
    BY <1>1, <2>1 DEF Lo
  <2>3. Api!Limit' = Api!Limit
    BY <1>3, <1>5 DEF Api!Limit
  <2>4. <<Api!Offset + Api!Limit>> # <<>> /\ <<Api!Offset + Api!Limit>>[1] = Api!Offset + Api!Limit
    OBVIOUS
  <2>5. Api!Offset' = Api!Offset + Api!Limit
    <3>1. Api!Offset' = IF q.offset = <<>> THEN 0 ELSE q.offset[1]
      BY <1>5 DEF Api!Offset, Api!Or
    <3>2. QED
      BY <1>3, <2>4, <3>1
  <2>6. QED
    BY <2>1, <2>2, <2>3, <2>5
<1>7. /\ Api!Limit \in 1..MaxLimit /\ Api!Offset >= 0
      /\ \A j \in DOMAIN pages : pages[j] = Lo + j - 1
      /\ Lo..(Lo + n - 1) \subseteq Api!Matching
      /\ n = Api!Offset
  BY <1>1 DEF PagerInv
<1>8. /\ m = Api!Limit /\ req.skipped = Api!Offset
      /\ req.item = Lo + req.skipped + m
      /\ Lo..(req.item - 1) \subseteq Api!Matching
      /\ \A j \in DOMAIN req.out : req.out[j] = Lo + req.skipped + j - 1
  <2>1. /\ Api!Limit > 0 /\ m <= Api!Limit /\ m >= Api!Limit
    BY <1>1, <1>2, <1>7 DEF ScanInv
  <2>2. m = Api!Limit /\ m > 0
    BY <1>2, <2>1
  <2>3. req.out # <<>>
    BY <2>2
  <2>4. QED
    BY <1>1, <2>2, <2>3 DEF ScanInv
<1>9. /\ Len(pages') = n + m /\ DOMAIN pages' = 1..(n + m)
      /\ \A j \in 1..n : pages'[j] = pages[j]
      /\ \A j \in (n + 1)..(n + m) : pages'[j] = req.out[j - n]
      /\ DOMAIN pages = 1..n /\ DOMAIN req.out = 1..m
  BY <1>1, <1>2
<1> HIDE DEF n, m
<1>10. \A j \in DOMAIN pages' : pages'[j] = Lo + j - 1
  <2>1. SUFFICES ASSUME NEW j \in 1..(n + m) PROVE pages'[j] = Lo + j - 1
    BY <1>9
  <2>2. CASE j \in 1..n
    BY <1>7, <1>9, <2>2
  <2>3. CASE j \notin 1..n
    <3>1. j \in (n + 1)..(n + m) /\ j - n \in 1..m
      BY <1>2, <2>3
    <3>2. pages'[j] = Lo + req.skipped + (j - n) - 1
      BY <1>8, <1>9, <3>1
    <3>3. QED
      BY <1>2, <1>7, <1>8, <3>2
  <2>4. QED
    BY <2>2, <2>3
<1>11. Lo + (n + m) - 1 = req.item - 1 /\ n + m = Api!Offset + Api!Limit
  BY <1>2, <1>7, <1>8
<1>12. Api!Offset + Api!Limit >= 0
  BY <1>2, <1>7
<1>13. PagerInv'
  <2>1. Lo..(Lo + Len(pages') - 1) \subseteq Api!Matching /\ Len(pages') = Api!Offset'
    BY <1>6, <1>8, <1>9, <1>11
  <2>2. QED
    BY <1>1, <1>5, <1>6, <1>7, <1>10, <1>12, <2>1 DEF PagerInv
<1>14. QED
  BY <1>5, <1>13

\* A page that is not full is the last one.
LEMMA PagerEnds ==
  ASSUME KeyInv, ApiTypeOK, ScanInv, PagerInv, PagerNext, Len(req.out) < Api!Limit
  PROVE  ApiTypeOK' /\ ScanInv' /\ PagerInv'
<1> DEFINE n == Len(pages)
           m == Len(req.out)
<1>1. /\ violations' = violations /\ req' = req /\ pages' = pages \o req.out
      /\ client.route = "pager" /\ client.status = "handled" /\ req.phase = "ok"
      /\ SetStatus("ok")
  BY DEF PagerNext, Handled
<1>2. /\ req.out \in Seq(Nat) /\ pages \in Seq(Nat) /\ m \in Nat /\ n \in Nat
      /\ Api!Limit \in Int /\ Api!Offset \in Int /\ Lo \in Nat /\ req.skipped \in Nat
      /\ Api!Matching \subseteq Nat
  BY QueryNumbers, MatchingInterval DEF ApiTypeOK, ReqType
<1>3. client'.route = "pager" /\ client'.status = "ok"
  BY <1>1 DEF SetStatus, KeyInv
<1>4. pages' \in Seq(Nat)
  BY <1>1, <1>2
<1>5. ApiTypeOK'
  BY <1>1, <1>4 DEF ApiTypeOK
<1>6. /\ Api!Limit' = Api!Limit /\ Api!Offset' = Api!Offset
      /\ Api!Matching' = Api!Matching /\ Lo' = Lo
      /\ Api!ValidQuery' <=> Api!ValidQuery
  BY <1>1, SameQuery
<1>7. ScanInv'
  BY <1>1, <1>6 DEF ScanInv
<1>8. /\ Api!Limit \in 1..MaxLimit /\ Api!Offset >= 0
      /\ \A j \in DOMAIN pages : pages[j] = Lo + j - 1
      /\ Lo..(Lo + n - 1) \subseteq Api!Matching
      /\ n = Api!Offset
  BY <1>1 DEF PagerInv
<1>9. /\ req.item = Lo + req.skipped + m
      /\ Lo..(req.item - 1) \subseteq Api!Matching
      /\ m # 0 => req.skipped = Api!Offset
      /\ req.skipped <= Api!Offset
      /\ \A j \in DOMAIN req.out : req.out[j] = Lo + req.skipped + j - 1
      /\ req.item \notin Api!Matching
  <2>1. req.out # <<>> <=> m # 0
    BY <1>2
  <2>2. m # Api!Limit
    BY <1>2
  <2>3. QED
    BY <1>1, <2>1, <2>2 DEF ScanInv
<1>10. /\ Len(pages') = n + m /\ DOMAIN pages' = 1..(n + m)
       /\ \A j \in 1..n : pages'[j] = pages[j]
       /\ \A j \in (n + 1)..(n + m) : pages'[j] = req.out[j - n]
       /\ DOMAIN pages = 1..n /\ DOMAIN req.out = 1..m
  BY <1>1, <1>2
<1> HIDE DEF n, m
<1>11. \A j \in DOMAIN pages' : pages'[j] = Lo + j - 1
  <2>1. SUFFICES ASSUME NEW j \in 1..(n + m) PROVE pages'[j] = Lo + j - 1
    BY <1>10
  <2>2. CASE j \in 1..n
    BY <1>8, <1>10, <2>2
  <2>3. CASE j \notin 1..n
    <3>1. j \in (n + 1)..(n + m) /\ j - n \in 1..m /\ m # 0
      BY <1>2, <2>3
    <3>2. pages'[j] = Lo + req.skipped + (j - n) - 1 /\ req.skipped = n
      BY <1>8, <1>9, <1>10, <3>1
    <3>3. QED
      BY <1>2, <3>2
  <2>4. QED
    BY <2>2, <2>3
\* The scan ended at its item; if it put out nothing, that is not after the pages.
<1>12. Lo..(Lo + (n + m) - 1) \subseteq Api!Matching /\ Lo + (n + m) \notin Api!Matching
  <2>1. CASE m # 0
    <3>1. req.item = Lo + (n + m) /\ req.item - 1 = Lo + (n + m) - 1
      BY <1>2, <1>8, <1>9, <2>1
    <3>2. QED
      BY <1>9, <3>1
  <2>2. CASE m = 0
    <3>1. req.item \in Nat /\ req.item >= Lo /\ req.item <= Lo + n
      BY <1>2, <1>8, <1>9, <2>2
    <3>2. \A k \in Api!Matching : k < req.item
      BY <1>9, <3>1, BeforeGap
    <3>3. Lo + (n + m) \notin Api!Matching
      BY <1>2, <2>2, <3>1, <3>2
    <3>4. QED
      BY <1>2, <1>8, <2>2, <3>3
  <2>3. QED
    BY <2>1, <2>2
<1>13. PagerInv'
  BY <1>1, <1>3, <1>6, <1>8, <1>10, <1>11, <1>12 DEF PagerInv
<1>14. QED
  BY <1>5, <1>7, <1>13

ApiInv == ApiTypeOK /\ ScanInv /\ PagerInv

LEMMA ApiInit == Init => ApiInv
<1> SUFFICES ASSUME Init PROVE ApiInv
  OBVIOUS
<1>1. violations \in Api!Stored \/ violations = <<>>
  BY DEF Init
<1>2. /\ violations \in Seq(ViolationTable)
      /\ \A j, k \in DOMAIN violations : j < k => violations[j] <= violations[k]
  <2>1. CASE violations = <<>>
    BY <2>1
  <2>2. CASE violations \in Api!Stored
    <3>1. PICK n \in 0..MaxItems : violations \in [1..n -> ViolationTable]
      BY <2>2 DEF Api!Stored
    <3>2. n \in Nat
      OBVIOUS
    <3>3. violations \in Seq(ViolationTable)
      BY <3>1, <3>2
    <3>4. QED
      BY <2>2, <3>3 DEF Api!Stored
  <2>3. QED
    BY <1>1, <2>1, <2>2
<1>3. req = [phase |-> "idle", query |-> Api!NoQuery, total |-> 0, item |-> 1, skipped |-> 0, out |-> <<>>]
  BY DEF Init, Api!Idle
<1>4. Api!NoQuery \in ApiQuery
  BY DEF Api!NoQuery, ApiQuery
<1>5. req \in ReqType
  BY <1>3, <1>4 DEF ReqType, ApiPhase
<1>6. pages \in Seq(Nat)
  <2>1. pages = <<>>
    BY DEF Init
  <2>2. QED
    BY <2>1
<1>7. ApiTypeOK
  BY <1>2, <1>5, <1>6 DEF ApiTypeOK
<1>8. req.phase = "idle"
  BY <1>3
<1>9. ScanInv
  BY <1>8 DEF ScanInv
<1>10. PagerInv
  BY <1>8 DEF Init, PagerInv
<1>11. QED
  BY <1>7, <1>9, <1>10 DEF ApiInv

LEMMA ApiNext == KeyInv /\ ApiInv /\ [Next]_vars => ApiInv'
<1> SUFFICES ASSUME KeyInv, ApiTypeOK, ScanInv, PagerInv, [Next]_vars
             PROVE  ApiTypeOK' /\ ScanInv' /\ PagerInv'
  BY DEF ApiInv
<1>1. CASE Start \/ Arrive \/ HandleLineage \/ AnalyzeReturns \/ SchemaDiff
           \/ DashboardRefused \/ DashboardShows \/ UNCHANGED vars
  <2>1. /\ UNCHANGED <<violations, req, pages>>
        /\ \/ client' = client \/ Arrive \/ HandleLineage \/ AnalyzeReturns
           \/ DashboardRefused \/ DashboardShows
    BY <1>1 DEF Start, Arrive, HandleLineage, AnalyzeReturns, SchemaDiff, DashboardRefused,
                DashboardShows, vars, others
  <2>2. QED
    BY <2>1, ApiSame, ClientSteps
<1>2. CASE HandleViolations
  BY <1>2, PagerHandled
<1>3. CASE AskViolations \/ DashboardAsks
  BY <1>3, OtherAsks
<1>4. CASE PagerStarts
  BY <1>4, PagerStartsInv
<1>5. CASE PagerNext
  BY <1>5, PagerGoesOn, PagerEnds
<1>6. QED
  BY <1>1, <1>2, <1>3, <1>4, <1>5 DEF Next

THEOREM ApiInvariance == Spec => []ApiInv
<1>1. ApiInv /\ KeyInv /\ [Next]_vars => ApiInv'
  BY ApiNext
<1>2. QED
  BY <1>1, ApiInit, KeyInvariance, PTL DEF Spec

\* An answer is the page that was asked for, in key order, whatever is stored
\* and whatever the limit and the offset are.
THEOREM PageIsSliceAlways == Spec => []PageIsSlice
<1>1. ApiInv => PageIsSlice
  BY PageFromScan DEF ApiInv
<1>2. QED
  BY <1>1, ApiInvariance, PTL

\* A client that pages through a table gets everything once, in order, and as
\* much as X-Total-Count says.
THEOREM PagerCompleteAlways == Spec => []PagerComplete
<1>1. ApiInv => PagerComplete
  BY PagerHasAll DEF ApiInv
<1>2. QED
  BY <1>1, ApiInvariance, PTL
=============================================================================
