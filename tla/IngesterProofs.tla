--------------------------- MODULE IngesterProofs ---------------------------
(***************************************************************************)
(* The safety properties of Ingester, for any sources, of any length, and  *)
(* any limit.  The invariant relates the rows to the data lines read so    *)
(* far (Taken): there is one row for each, RowOf finds it by counting the  *)
(* data lines up to it, and it holds what the line says.                   *)
(***************************************************************************)
EXTENDS Ingester, FiniteSetTheorems, WellFoundedInduction, TLAPS

Phase == {"open", "read", "loaded", "written", "full", "failed"}

Types ==
  /\ source \in Source
  /\ phase \in Phase
  /\ next \in 1..(Len(source.lines) + 1)
  /\ rows \in Seq(Range(rows))

\* The data lines read so far.
Taken == {k \in DataLines : k < next}

\* The row of a data line holds what the line says.
RowIsRight(k) ==
  LET line == source.lines[k]
  IN  IF source.type = "jsonl"
        THEN \A c \in DOMAIN RowOf(k) : c \in DOMAIN headers /\ RowOf(k)[c] = ValueOf(line, headers[c])
        ELSE RowOf(k) = [c \in DOMAIN line.values |-> Text(line.values[c])]

RowInv ==
  /\ Len(rows) = Cardinality(Taken)
  /\ Len(rows) <= MaxRows
  /\ \A k \in Taken : RowIsRight(k)

\* A CSV file has columns as soon as a record was read.
HeaderInv ==
  source.type = "csv" => (headers = <<>> <=> \A k \in RowLines : next <= k)

PhaseInv ==
  /\ phase = "open" => next = 1
  /\ \A k \in DOMAIN source.lines : k < next => source.lines[k].kind \in {"row", "blank"}
  /\ Loaded => next = Len(source.lines) + 1
  /\ phase = "full" => Line.kind \in {"row", "bad"} /\ Len(rows) >= MaxRows
  /\ phase = "written" => temp = [k \in 1..Len(TempLines) |-> CsvLine(TempLines[k])]

IInv == Types /\ RowInv /\ HeaderInv /\ PhaseInv

-----------------------------------------------------------------------------
(* Sequences of any values.                                                *)

LEMMA EmptySeq == <<>> \in Seq(Range(<<>>))
  OBVIOUS

LEMMA AppendSeq ==
  ASSUME NEW s, s \in Seq(Range(s)), NEW e
  PROVE  /\ Append(s, e) \in Seq(Range(Append(s, e)))
         /\ Len(Append(s, e)) = Len(s) + 1
         /\ \A i \in 1..Len(s) : Append(s, e)[i] = s[i]
         /\ Append(s, e)[Len(s) + 1] = e
<1> DEFINE S == Range(s) \cup {e}
           t == Append(s, e)
<1>1. s \in Seq(S) /\ e \in S
  OBVIOUS
<1>2. t \in Seq(S) /\ Len(t) = Len(s) + 1
      /\ (\A i \in 1..Len(s) : t[i] = s[i]) /\ t[Len(s) + 1] = e
  BY <1>1
<1>3. t \in Seq(Range(t))
  <2>1. DOMAIN t = 1..Len(t) /\ \A i \in 1..Len(t) : t[i] \in Range(t)
    BY <1>2 DEF Range
  <2> HIDE DEF t, S
  <2>2. Len(t) \in Nat /\ t = [i \in 1..Len(t) |-> t[i]]
    BY <1>2, <2>1
  <2> QED BY <2>1, <2>2
<1> QED BY <1>2, <1>3

-----------------------------------------------------------------------------
(* The data lines.                                                         *)

LEMMA LineFacts ==
  ASSUME Types
  PROVE  /\ Len(source.lines) \in Nat /\ DOMAIN source.lines = 1..Len(source.lines)
         /\ source.type \in {"csv", "jsonl", "postgres"}
         /\ DataLines \subseteq RowLines /\ RowLines \subseteq 1..Len(source.lines)
         /\ \A k \in RowLines : source.type = "csv" => source.lines[k].values # <<>>
<1>1. source.lines \in Seq(Range(source.lines))
  BY SourceAssumption DEF Types
<1>2. Len(source.lines) \in Nat /\ DOMAIN source.lines = 1..Len(source.lines)
  BY <1>1
<1>3. /\ source.type \in {"csv", "jsonl", "postgres"}
      /\ \A k \in DOMAIN source.lines :
           source.type = "csv" /\ source.lines[k].kind = "row" => source.lines[k].values # <<>>
  BY SourceAssumption DEF Types
<1> QED BY <1>2, <1>3 DEF DataLines, RowLines

\* Taken is finite, and so is every part of it.
LEMMA CountBounds ==
  ASSUME Types
  PROVE  /\ IsFiniteSet(Taken) /\ Cardinality(Taken) \in Nat
         /\ \A k \in Taken : Cardinality({j \in DataLines : j <= k}) \in 1..Cardinality(Taken)
<1>1. IsFiniteSet(1..Len(source.lines))
  BY LineFacts, FS_Interval
<1>2. Taken \subseteq 1..Len(source.lines)
  BY LineFacts DEF Taken
<1>3. IsFiniteSet(Taken) /\ Cardinality(Taken) \in Nat
  BY <1>1, <1>2, FS_Subset, FS_CardinalityType
<1>4. ASSUME NEW k \in Taken
      PROVE  Cardinality({j \in DataLines : j <= k}) \in 1..Cardinality(Taken)
  <2> DEFINE B == {j \in DataLines : j <= k}
  <2>1. B \subseteq Taken /\ k \in B
    BY <1>2, LineFacts DEF Taken, Types
  <2> HIDE DEF B
  <2>2. IsFiniteSet(B) /\ Cardinality(B) <= Cardinality(Taken)
    BY <1>3, <2>1, FS_Subset
  <2>3. Cardinality(B) \in Nat /\ Cardinality(B) # 0
    BY <2>1, <2>2, FS_CardinalityType, FS_EmptySet
  <2>4. Cardinality(B) \in 1..Cardinality(Taken)
    BY <1>3, <2>2, <2>3
  <2> QED BY <2>4 DEF B
<1> QED BY <1>3, <1>4

\* A line that is no data leaves Taken alone; a data line joins it.
LEMMA TakenGrows ==
  ASSUME Types, UNCHANGED source, next <= Len(source.lines), next' = next + 1
  PROVE  /\ DataLines' = DataLines /\ RowLines' = RowLines
         /\ next \notin DataLines => Taken' = Taken
         /\ next \in DataLines =>
              /\ Taken' = Taken \cup {next}
              /\ Taken' = {j \in DataLines : j <= next}
              /\ Cardinality(Taken') = Cardinality(Taken) + 1
<1>1. DataLines' = DataLines /\ RowLines' = RowLines
  BY DEF DataLines, RowLines
<1>2. DataLines \subseteq 1..Len(source.lines) /\ Len(source.lines) \in Nat /\ next \in Nat
  BY LineFacts DEF Types
<1>3. /\ Taken' = {k \in DataLines : k < next + 1}
      /\ \A k \in DataLines : (k < next + 1 <=> k <= next) /\ (k < next + 1 <=> k < next \/ k = next)
  BY <1>1, <1>2 DEF Taken
<1>4. next \notin DataLines => Taken' = Taken
  BY <1>3 DEF Taken
<1>5. ASSUME next \in DataLines
      PROVE  Taken' = Taken \cup {next} /\ Taken' = {j \in DataLines : j <= next}
  BY <1>5, <1>3 DEF Taken
<1>6. next \notin Taken
  BY <1>2 DEF Taken
<1>7. Cardinality(Taken \cup {next}) = Cardinality(Taken) + 1
  BY <1>6, CountBounds, FS_AddElement
<1> QED BY <1>1, <1>4, <1>5, <1>7

\* The rows of lines that were read keep their places and their cells.
LEMMA RowsStayRight ==
  ASSUME Types, RowInv, UNCHANGED source,
         headers' = headers \/ headers = <<>>,
         \A i \in 1..Len(rows) : rows'[i] = rows[i],
         NEW k \in Taken
  PROVE  RowIsRight(k)'
<1>1. DataLines' = DataLines
  BY DEF DataLines, RowLines
<1>2. RowOf(k)' = RowOf(k)
  <2>1. Cardinality({j \in DataLines : j <= k}) \in 1..Len(rows)
    BY CountBounds, SMTT(30) DEF RowInv
  <2> QED BY <1>1, <2>1 DEF RowOf
<1>3. RowIsRight(k)
  BY SMTT(30) DEF RowInv
<1>4. CASE source.type = "jsonl"
  <2>1. \A c \in DOMAIN RowOf(k) : /\ c \in DOMAIN headers
                                   /\ RowOf(k)[c] = ValueOf(source.lines[k], headers[c])
    BY <1>3, <1>4 DEF RowIsRight
  <2>2. headers = <<>> => DOMAIN headers = {}
    OBVIOUS
  <2>3. \A c \in DOMAIN RowOf(k)' : /\ c \in DOMAIN headers'
                                    /\ RowOf(k)'[c] = ValueOf(source.lines[k], headers'[c])
    BY <1>2, <2>1, <2>2
  <2> QED BY <1>4, <2>3, ZenonT(40) DEF RowIsRight, ValueOf, Uses, Text
<1>5. CASE source.type # "jsonl"
  <2>1. RowOf(k) = [c \in DOMAIN source.lines[k].values |-> Text(source.lines[k].values[c])]
    BY <1>3, <1>5 DEF RowIsRight
  <2> QED BY <1>2, <1>5, <2>1 DEF RowIsRight, Text
<1> QED BY <1>4, <1>5

-----------------------------------------------------------------------------
(* The steps                                                               *)

\* What Take leaves as it is.
LEMMA TakeKeeps ==
  ASSUME IInv, phase = "read", next <= Len(source.lines), Line.kind \in {"row", "blank"},
         NEW hs, NEW rs, rs \in Seq(Range(rs)), Take(hs, rs)
  PROVE  Types' /\ PhaseInv' /\ UNCHANGED source
<1>1. /\ next' = next + 1 /\ rows' = rs /\ source' = source /\ phase' = phase
      /\ next \in Nat \ {0} /\ Len(source.lines) \in Nat
  BY LineFacts DEF Take, IInv, Types
<1>2. Types'
  BY <1>1 DEF IInv, Types
<1>3. \A k \in DOMAIN source.lines : k < next + 1 => source.lines[k].kind \in {"row", "blank"}
  <2>1. \A k \in DOMAIN source.lines : k < next + 1 => k < next \/ k = next
    BY <1>1, LineFacts DEF IInv
  <2> QED BY <2>1 DEF IInv, PhaseInv, Line
<1>4. PhaseInv'
  BY <1>1, <1>3 DEF PhaseInv, Loaded
<1> QED BY <1>1, <1>2, <1>4

\* A line that yields no row.
LEMMA PassesLine ==
  ASSUME IInv, phase = "read", next <= Len(source.lines), Line.kind \in {"row", "blank"},
         next \notin DataLines, NEW hs, Take(hs, rows), hs = headers \/ headers = <<>>,
         HeaderInv'
  PROVE  IInv'
<1>1. Types' /\ PhaseInv' /\ UNCHANGED source
  BY TakeKeeps DEF IInv, Types
<1>2. next' = next + 1 /\ rows' = rows /\ headers' = hs
  BY DEF Take
<1>3. Taken' = Taken
  BY <1>1, <1>2, TakenGrows DEF IInv
<1>4. \A k \in Taken : RowIsRight(k)'
  BY <1>1, <1>2, RowsStayRight DEF IInv
<1>5. RowInv'
  BY <1>2, <1>3, <1>4 DEF IInv, RowInv
<1> QED BY <1>1, <1>5 DEF IInv

\* A data line: its cells are appended.
LEMMA AddsRow ==
  ASSUME IInv, AtLine("row"), ~IsHeader, ~Full, NEW hs, NEW cells,
         Take(hs, Append(rows, cells)),
         IF source.type = "jsonl"
           THEN /\ headers # <<>> => hs = headers
                /\ cells = [c \in DOMAIN hs |-> ValueOf(Line, hs[c])]
           ELSE hs = headers /\ cells = [c \in DOMAIN Line.values |-> Text(Line.values[c])]
  PROVE  IInv'
<1>1. /\ phase = "read" /\ next <= Len(source.lines) /\ Line.kind = "row"
      /\ next \in RowLines /\ next \in Nat /\ Len(rows) \in Nat
  BY LineFacts DEF AtLine, Line, RowLines, IInv, Types
<1>2. Types' /\ PhaseInv' /\ UNCHANGED source
  BY <1>1, AppendSeq, TakeKeeps DEF IInv, Types
<1>3. next' = next + 1 /\ rows' = Append(rows, cells) /\ headers' = hs
  BY DEF Take
<1>4. next \in DataLines
  <2>1. source.type = "csv" => \E h \in RowLines : h < next
    <3>1. source.type = "csv" => \E h \in RowLines : ~(next <= h)
      BY DEF IsHeader, IInv, HeaderInv
    <3> QED BY <1>1, <3>1, LineFacts DEF IInv
  <2> QED BY <1>1, <2>1 DEF DataLines
<1>5. /\ DataLines' = DataLines /\ Taken' = Taken \cup {next}
      /\ {j \in DataLines : j <= next} = Taken' /\ Cardinality(Taken') = Cardinality(Taken) + 1
  BY <1>1, <1>2, <1>3, <1>4, TakenGrows DEF IInv
<1>6. /\ Len(rows') = Len(rows) + 1 /\ \A i \in 1..Len(rows) : rows'[i] = rows[i]
      /\ rows'[Len(rows) + 1] = cells
  BY <1>3, AppendSeq DEF IInv, Types
<1>7. \A k \in Taken : RowIsRight(k)'
  BY <1>2, <1>3, <1>6, RowsStayRight DEF IInv
<1>8. ASSUME NEW n, n = next PROVE RowIsRight(n)'
  <2>1. Cardinality({j \in DataLines' : j <= n}) = Len(rows) + 1
    BY <1>5, <1>8 DEF IInv, RowInv
  <2>2. RowOf(n)' = cells
    BY <1>6, <2>1, SMTT(30) DEF RowOf
  <2>3. CASE source.type = "jsonl"
    <3>1. cells = [c \in DOMAIN hs |-> ValueOf(source.lines[n], hs[c])]
      BY <1>8, <2>3 DEF Line
    <3>2. \A c \in DOMAIN RowOf(n)' : /\ c \in DOMAIN headers'
                                      /\ RowOf(n)'[c] = ValueOf(source.lines[n], headers'[c])
      BY <1>3, <2>2, <3>1
    <3> QED BY <1>2, <2>3, <3>2, ZenonT(40) DEF RowIsRight, ValueOf, Uses, Text
  <2>4. CASE source.type # "jsonl"
    BY <1>2, <1>8, <2>2, <2>4 DEF RowIsRight, Line, Text
  <2> QED BY <2>3, <2>4
<1>9. RowInv'
  <2>1. Len(rows) + 1 <= MaxRows
    BY <1>1, MaxRowsAssumption DEF Full
  <2>2. \A k \in Taken' : RowIsRight(k)'
    BY <1>5, <1>7, <1>8
  <2> QED BY <1>5, <1>6, <2>1, <2>2 DEF IInv, RowInv
<1>10. HeaderInv'
  <2> SUFFICES ASSUME source.type = "csv"
               PROVE  headers # <<>> /\ headers' = headers /\ ~\A k \in RowLines' : next' <= k
    BY <1>2 DEF HeaderInv
  <2>1. headers # <<>> /\ headers' = headers
    BY <1>3 DEF IsHeader
  <2>2. next \in RowLines' /\ ~(next' <= next)
    BY <1>1, <1>2, <1>3 DEF RowLines
  <2> QED BY <2>1, <2>2
<1> QED BY <1>2, <1>9, <1>10 DEF IInv

\* A step that leaves the loading as it is, but for the phase and the columns
\* at the start.
LEMMA PhaseMoves ==
  ASSUME IInv, UNCHANGED <<source, next, rows>>, phase' \in Phase,
         headers' = headers \/ next = 1, HeaderInv', PhaseInv'
  PROVE  IInv'
<1>1. DataLines' = DataLines /\ Taken' = Taken
  BY DEF DataLines, RowLines, Taken
<1>2. \A k \in Taken : RowIsRight(k)'
  <2>1. CASE headers' = headers
    BY <2>1, RowsStayRight DEF IInv
  <2>2. CASE next = 1
    <3>1. Taken = {}
      BY <2>2, LineFacts DEF Taken, IInv
    <3> QED BY <3>1
  <2> QED BY <2>1, <2>2
<1>3. RowInv'
  BY <1>1, <1>2 DEF IInv, RowInv
<1> QED BY <1>3 DEF IInv, Types

LEMMA InitEstablishes == ASSUME Init PROVE IInv
<1>1. /\ source \in Source /\ phase = "open" /\ next = 1 /\ headers = <<>> /\ rows = <<>>
  BY DEF Init
<1>2. Types
  BY <1>1, SourceAssumption, EmptySeq DEF Types, Phase
<1>3. Taken = {}
  BY <1>1, <1>2, LineFacts DEF Taken
<1>4. RowInv
  BY <1>1, <1>3, MaxRowsAssumption, FS_EmptySet DEF RowInv
<1>5. HeaderInv /\ PhaseInv
  BY <1>1, <1>2, LineFacts DEF HeaderInv, PhaseInv, Loaded
<1> QED BY <1>2, <1>4, <1>5 DEF IInv

LEMMA StepKeeps == ASSUME IInv, [Next]_vars PROVE IInv'
<1> USE DEF Goto, Take
<1>0. HeaderInv /\ PhaseInv /\ Types
  BY DEF IInv
<1>1. CASE OpenSource
  <2>1. /\ phase' = "read" /\ next = 1 /\ UNCHANGED <<source, next, rows>>
        /\ source.type = "csv" => headers' = <<>>
    BY <1>0, <1>1 DEF OpenSource, PhaseInv
  <2>2. HeaderInv' /\ PhaseInv'
    BY <1>0, <2>1, LineFacts DEF HeaderInv, PhaseInv, Loaded, RowLines
  <2> QED BY <2>1, <2>2, PhaseMoves DEF Phase
<1>2a. CASE TooManyRows
  <2>1. /\ phase' = "full" /\ UNCHANGED <<source, next, rows, headers, temp>>
        /\ Line.kind \in {"row", "bad"} /\ Len(rows) >= MaxRows
    BY <1>2a DEF TooManyRows, AtLine, Full
  <2>2. HeaderInv' /\ PhaseInv'
    BY <1>0, <2>1 DEF HeaderInv, PhaseInv, Loaded, RowLines, Line
  <2> QED BY <2>1, <2>2, PhaseMoves DEF Phase
<1>2. CASE OpenFails \/ BadLine \/ WriteFails
  <2>1. phase' = "failed" /\ UNCHANGED <<source, next, rows, headers, temp>>
    BY <1>2 DEF OpenFails, BadLine, WriteFails
  <2>2. HeaderInv' /\ PhaseInv'
    BY <1>0, <2>1 DEF HeaderInv, PhaseInv, Loaded, RowLines
  <2> QED BY <2>1, <2>2, PhaseMoves DEF Phase
<1>3. CASE EndLoad
  <2>1. /\ phase' \in {"failed", "loaded"} /\ UNCHANGED <<source, next, rows, headers, temp>>
        /\ next = Len(source.lines) + 1
    BY <1>0, <1>3, LineFacts DEF EndLoad, AtEnd, Types
  <2>2. HeaderInv' /\ PhaseInv'
    BY <1>0, <2>1 DEF HeaderInv, PhaseInv, Loaded, RowLines
  <2> QED BY <2>1, <2>2, PhaseMoves DEF Phase
<1>4. CASE WriteTempCSV
  <2>1. /\ phase = "loaded" /\ phase' = "written" /\ UNCHANGED <<source, next, rows, headers>>
        /\ temp' = [k \in 1..Len(TempLines) |-> CsvLine(TempLines[k])]
    BY <1>4 DEF WriteTempCSV
  <2>2. HeaderInv' /\ PhaseInv'
    BY <1>0, <2>1 DEF HeaderInv, PhaseInv, Loaded, RowLines, CsvLine, TempLines
  <2> QED BY <2>1, <2>2, PhaseMoves DEF Phase
<1>5. CASE SkipBlank
  <2>1. /\ phase = "read" /\ next <= Len(source.lines) /\ Line.kind = "blank"
        /\ Take(headers, rows) /\ next \notin RowLines
    BY <1>5 DEF SkipBlank, AtLine, RowLines, Line
  <2>2. HeaderInv'
    <3>1. next \in Nat /\ \A k \in RowLines : k \in Nat /\ k # next
      BY <1>0, <2>1, LineFacts DEF Types
    <3>2. \A k \in RowLines : next <= k <=> next + 1 <= k
      BY <3>1
    <3>3. RowLines' = RowLines /\ headers' = headers /\ source' = source /\ next' = next + 1
      BY <2>1 DEF RowLines
    <3> QED BY <1>0, <3>2, <3>3 DEF HeaderInv
  <2> QED BY <1>0, <2>1, <2>2, PassesLine, LineFacts
<1>6. CASE CsvHeader
  <2>1. /\ phase = "read" /\ next <= Len(source.lines) /\ Line.kind = "row" /\ IsHeader
        /\ Take(Line.values, rows)
    BY <1>6 DEF CsvHeader, AtLine
  <2>2. next \in RowLines /\ next \in Nat /\ source.type = "csv" /\ headers = <<>>
    BY <1>0, <2>1, LineFacts DEF RowLines, Line, Types, IsHeader
  <2>3. \A k \in RowLines : next <= k /\ k \in Nat
    BY <1>0, <2>2, LineFacts DEF HeaderInv
  <2>4. next \notin DataLines
    BY <2>2, <2>3 DEF DataLines
  <2>5. HeaderInv'
    <3>1. headers' # <<>> /\ source' = source /\ next' = next + 1 /\ RowLines' = RowLines
      BY <1>0, <2>1, <2>2, LineFacts DEF Line, RowLines
    <3> QED BY <2>2, <3>1 DEF HeaderInv
  <2> QED BY <2>1, <2>2, <2>4, <2>5, PassesLine
<1>7. CASE AddRecord
  <2>1. /\ AtLine("row") /\ ~IsHeader /\ ~Full /\ source.type # "jsonl"
        /\ Take(headers, Append(rows, [k \in DOMAIN Line.values |-> Text(Line.values[k])]))
    BY <1>7 DEF AddRecord
  <2> QED BY <2>1, AddsRow
<1>8. CASE AddObject
  <2> DEFINE hs == IF headers = <<>> THEN JsonlHeaders(Line.keys) ELSE headers
  <2>1. /\ AtLine("row") /\ ~IsHeader /\ ~Full /\ source.type = "jsonl"
        /\ Take(hs, Append(rows, [k \in DOMAIN hs |-> ValueOf(Line, hs[k])]))
    BY <1>8 DEF AddObject, IsHeader
  <2>2. headers # <<>> => hs = headers
    OBVIOUS
  <2> HIDE DEF hs
  <2> QED BY <2>1, <2>2, AddsRow
<1>9. CASE UNCHANGED vars
  <2>1. UNCHANGED <<source, next, rows, headers, temp, phase>>
    BY <1>9 DEF vars
  <2>2. HeaderInv' /\ PhaseInv'
    BY <1>0, <2>1 DEF HeaderInv, PhaseInv, Loaded, RowLines, CsvLine, TempLines, Line
  <2> QED BY <1>0, <2>1, <2>2, PhaseMoves DEF Types
<1> QED BY <1>1, <1>2, <1>2a, <1>3, <1>4, <1>5, <1>6, <1>7, <1>8, <1>9 DEF Next

\* Every reachable state of the loader satisfies the invariant.
THEOREM Invariance == Spec => []IInv
<1>1. Init => IInv
  BY InitEstablishes
<1>2. IInv /\ [Next]_vars => IInv'
  BY StepKeeps
<1> QED BY <1>1, <1>2, PTL DEF Spec

LEMMA AllTaken == ASSUME IInv, Loaded PROVE Taken = DataLines
<1>1. next = Len(source.lines) + 1 /\ DataLines \subseteq 1..Len(source.lines)
      /\ Len(source.lines) \in Nat
  BY LineFacts DEF IInv, PhaseInv
<1>2. \A k \in DataLines : k < next
  BY <1>1
<1> QED BY <1>2 DEF Taken

\* For any source and limit: in full, in order and within the limit, or not at
\* all, and not for its length if it is within the limit.
THEOREM LoadsAllOrNothingAlways == Spec => []LoadsAllOrNothing
<1>1. IInv => LoadsAllOrNothing
  <2> SUFFICES ASSUME IInv PROVE LoadsAllOrNothing
    OBVIOUS
  <2>0. ASSUME Loaded PROVE Taken = DataLines
    BY <2>0, AllTaken
  <2>2. Loaded => Len(rows) = Cardinality(DataLines) /\ Len(rows) <= MaxRows
    BY <2>0 DEF IInv, RowInv
  <2>3. Loaded => \A k \in DOMAIN source.lines : source.lines[k].kind \in {"row", "blank"}
    BY LineFacts DEF IInv, PhaseInv
  <2>4. ASSUME Loaded, source.type # "jsonl", NEW k \in DataLines
        PROVE  RowOf(k) = [c \in DOMAIN source.lines[k].values |-> Text(source.lines[k].values[c])]
    BY <2>0, <2>4 DEF IInv, RowInv, RowIsRight
  <2>5. phase = "full" => /\ Line.kind \in {"row", "bad"}
                          /\ Cardinality({k \in DataLines : k < next}) >= MaxRows
    BY DEF IInv, PhaseInv, RowInv, Taken
  <2> QED BY <2>2, <2>3, <2>4, <2>5 DEF LoadsAllOrNothing
<1> QED BY <1>1, Invariance, PTL

\* The largest element of a set of positions is unique.
LEMMA MaxIsLast ==
  ASSUME NEW S, S \subseteq Int, NEW j \in S, \A i \in S : i <= j
  PROVE  Max(S) = j
<1>1. \A i \in S : j >= i
  OBVIOUS
<1>2. Max(S) \in S /\ \A i \in S : Max(S) >= i
  BY <1>1, Zenon DEF Max
<1>3. PICK m \in S : m = Max(S) /\ m >= j /\ m <= j
  BY <1>2
<1> QED BY <1>3

\* For any objects: a cell is its row's last value of the column's key,
\* if that is not null.
THEOREM CellsUnderTheirKeysAlways == Spec => []CellsUnderTheirKeys
<1>1. IInv => CellsUnderTheirKeys
  <2> SUFFICES ASSUME IInv, source.type = "jsonl", Loaded, NEW k \in DataLines,
                      NEW c \in DOMAIN RowOf(k), NEW j \in Uses(source.lines[k], headers[c]),
                      \A i \in Uses(source.lines[k], headers[c]) : i <= j,
                      source.lines[k].values[j] # Null
               PROVE  RowOf(k)[c] = source.lines[k].values[j]
    BY DEF CellsUnderTheirKeys
  <2>1. RowIsRight(k)
    BY AllTaken DEF IInv, RowInv
  <2>2. RowOf(k)[c] = ValueOf(source.lines[k], headers[c])
    BY <2>1 DEF RowIsRight
  <2>3. source.lines[k].keys \in Seq(Range(source.lines[k].keys))
    BY LineFacts, SourceAssumption DEF IInv, Types
  <2>4. Uses(source.lines[k], headers[c]) \subseteq Int
    BY <2>3 DEF Uses
  <2>5. Max(Uses(source.lines[k], headers[c])) = j
    BY <2>4, MaxIsLast
  <2> QED BY <2>2, <2>5 DEF ValueOf, Text
<1> QED BY <1>1, Invariance, PTL

-----------------------------------------------------------------------------
(* The engine's reading of the temporary CSV                               *)

\* Induction, over a set instead of a predicate.
LEMMA NatInduct ==
  ASSUME NEW T, 0 \in T, \A n \in Nat : n \in T => n + 1 \in T
  PROVE  Nat \subseteq T
<1> SUFFICES ASSUME Nat \ T # {} PROVE FALSE
  OBVIOUS
<1>1. PICK x \in Nat \ T : \A y \in Nat \ T : ~(<<y, x>> \in OpToRel(<, Nat))
  <2>1. IsWellFoundedOn(OpToRel(<, Nat), Nat) /\ Nat \ T \subseteq Nat
    BY NatLessThanWellFounded
  <2> QED BY <2>1, WFMin
<1>2. x - 1 \in Nat /\ x - 1 + 1 = x
  <2>1. x # 0 /\ x \in Nat
    OBVIOUS
  <2> QED BY <2>1
<1>3. x - 1 \notin Nat \ T
  <2>1. <<x - 1, x>> \in OpToRel(<, Nat)
    BY <1>1, <1>2 DEF OpToRel
  <2> QED BY <1>1, <2>1
<1> QED BY <1>1, <1>2, <1>3

\* A reader that passes over blank lines sees all of a file without one.
LEMMA SeesAll ==
  ASSUME NEW S, temp \in Seq(S), \A k \in 1..Len(temp) : temp[k] # <<>>
  PROVE  Records = temp
<1> DEFINE Reads(f) ==
             f = [k \in 0..Len(temp) |->
                    IF k = 0 THEN <<>>
                    ELSE IF temp[k] = <<>> THEN f[k - 1] ELSE Append(f[k - 1], temp[k])]
           g == [k \in 0..Len(temp) |-> SubSeq(temp, 1, k)]
<1>1. Reads(g)
  <2>1. ASSUME NEW k \in 1..Len(temp) PROVE SubSeq(temp, 1, k) = Append(SubSeq(temp, 1, k - 1), temp[k])
    OBVIOUS
  <2>2. SubSeq(temp, 1, 0) = <<>>
    OBVIOUS
  <2>3. ASSUME NEW k \in 0..Len(temp)
        PROVE  g[k] = IF k = 0 THEN <<>>
                      ELSE IF temp[k] = <<>> THEN g[k - 1] ELSE Append(g[k - 1], temp[k])
    BY <2>1, <2>2
  <2> QED BY <2>3
<1>2. ASSUME NEW f, Reads(f) PROVE f[Len(temp)] = temp
  <2> DEFINE T == {n \in Nat : n <= Len(temp) => f[n] = SubSeq(temp, 1, n)}
  <2>1. \A k \in 0..Len(temp) :
          f[k] = IF k = 0 THEN <<>>
                 ELSE IF temp[k] = <<>> THEN f[k - 1] ELSE Append(f[k - 1], temp[k])
    BY <1>2, Zenon
  <2> HIDE DEF Reads
  <2>2. ASSUME NEW k \in 1..Len(temp) PROVE f[k] = Append(f[k - 1], temp[k])
    <3>1. k \in 0..Len(temp) /\ k # 0 /\ temp[k] # <<>>
      OBVIOUS
    <3>2. f[k] = IF k = 0 THEN <<>>
                 ELSE IF temp[k] = <<>> THEN f[k - 1] ELSE Append(f[k - 1], temp[k])
      BY <2>1, <3>1, Zenon
    <3> QED BY <3>1, <3>2, Zenon
  <2>3. 0 \in T
    <3>1. 0 \in 0..Len(temp)
      OBVIOUS
    <3>2. f[0] = <<>>
      BY <2>1, <3>1, Zenon
    <3>3. SubSeq(temp, 1, 0) = <<>>
      OBVIOUS
    <3> QED BY <3>2, <3>3
  <2>4. ASSUME NEW n \in Nat, n \in T PROVE n + 1 \in T
    <3> SUFFICES ASSUME n + 1 <= Len(temp) PROVE f[n + 1] = SubSeq(temp, 1, n + 1)
      OBVIOUS
    <3>1. f[n + 1] = Append(f[n], temp[n + 1])
      <4>1. n + 1 \in 1..Len(temp) /\ n + 1 - 1 = n
        OBVIOUS
      <4> QED BY <2>2, <4>1
    <3>2. f[n] = SubSeq(temp, 1, n)
      BY <2>4
    <3> QED BY <3>1, <3>2
  <2>5. Nat \subseteq T
    <3> HIDE DEF T
    <3> QED BY <2>3, <2>4, NatInduct
  <2>6. f[Len(temp)] = SubSeq(temp, 1, Len(temp))
    BY <2>5
  <2> QED BY <2>6
<1> HIDE DEF g
<1>3. Records = (CHOOSE f : Reads(f))[Len(temp)]
  BY DEF Records
<1> HIDE DEF Reads
<1> QED BY <1>1, <1>2, <1>3

\* For any rows over two columns or more, of which none is a blank line: the
\* engine reads them all, and fails exactly on those of another length.
THEOREM WideRowsReachEngineAlways == Spec => []WideRowsReachEngine
<1>1. IInv => WideRowsReachEngine
  <2>0. SUFFICES ASSUME IInv, phase = "written", Len(headers) >= 2,
                      Range(rows) \cap {<<>>, <<"">>} = {}
               PROVE  /\ Records = <<headers>> \o rows
                      /\ EngineFails <=> \E cells \in Range(rows) : Len(cells) # Len(headers)
    BY DEF WideRowsReachEngine
  <2> DEFINE file == <<headers>> \o rows
             S == Range(rows) \cup {headers}
  <2>1. /\ file \in Seq(S) /\ Len(file) = Len(rows) + 1 /\ Len(rows) \in Nat
        /\ file[1] = headers /\ \A k \in 1..Len(rows) : file[k + 1] = rows[k]
    <3>1. rows \in Seq(Range(rows))
      BY <2>0 DEF IInv, Types
    <3> QED BY <3>1
  <2>2. \A k \in 1..Len(file) : file[k] \in S
    BY <2>1
  <2>3. temp = [k \in 1..Len(file) |-> CsvLine(file[k])]
    BY <2>0 DEF IInv, PhaseInv, TempLines
  <2> HIDE DEF file
  <2>4. \A cells \in S : CsvLine(cells) = cells /\ cells # <<>>
    <3>1. Len(<<"">>) = 1 /\ Len(<<>>) = 0
      OBVIOUS
    <3>2. headers # <<"">> /\ headers # <<>>
      <4>1. ~(1 >= 2) /\ ~(0 >= 2)
        OBVIOUS
      <4> QED BY <2>0, <3>1, <4>1, Zenon
    <3>3. \A cells \in Range(rows) : cells # <<"">> /\ cells # <<>>
      BY <2>0, Zenon
    <3> QED BY <3>2, <3>3 DEF CsvLine
  <2>5. temp = file
    BY <2>1, <2>2, <2>3, <2>4
  <2>6. \A k \in 1..Len(temp) : temp[k] # <<>>
    BY <2>2, <2>4, <2>5
  <2> HIDE DEF S
  <2>7. Records = file
    BY <2>1, <2>5, <2>6, SeesAll
  <2>8. EngineFails <=> \E k \in 1..Len(file) : Len(file[k]) # Len(headers)
    BY <2>1, <2>7 DEF EngineFails
  <2>9. ASSUME NEW cells \in Range(rows), Len(cells) # Len(headers)
        PROVE  \E k \in 1..Len(file) : Len(file[k]) # Len(headers)
    <3>1. PICK k \in DOMAIN rows : rows[k] = cells
      BY DEF Range
    <3>2. rows \in Seq(Range(rows))
      BY <2>0 DEF IInv, Types
    <3>3. k \in 1..Len(rows)
      BY <3>2
    <3>4. k + 1 \in 1..Len(file)
      BY <2>1, <3>3
    <3> QED BY <2>1, <2>9, <3>1, <3>3, <3>4
  <2>10. ASSUME NEW k \in 1..Len(file), Len(file[k]) # Len(headers)
         PROVE  \E cells \in Range(rows) : Len(cells) # Len(headers)
    <3>1. file[k] \in Range(rows)
      BY <2>1, <2>2, <2>10 DEF S
    <3> QED BY <2>10, <3>1
  <2> QED BY <2>7, <2>8, <2>9, <2>10 DEF file
<1> QED BY <1>1, Invariance, PTL
=============================================================================
