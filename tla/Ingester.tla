----------------------------- MODULE Ingester ------------------------------
(***************************************************************************)
(* From a data source to the CSV that the engine reads                     *)
(* (go-ingestion/internal/ingester): LoadCSV and LoadJSONL, which read a   *)
(* file line by line, rowsToDataset, which reads the rows of a query, and  *)
(* WriteTempCSV, whose file the engine parses again.                       *)
(*                                                                         *)
(* A line is what the reader makes of it: a row of keys and values, a      *)
(* blank line, one it cannot parse, or one that is too long.  Only the     *)
(* rows of JSON have keys; only they and those of a query have Null.       *)
(***************************************************************************)
EXTENDS Integers, Sequences, FiniteSets, SequencesExt

CONSTANTS Source,   \* the sources: [type, fields, lines]
          MaxRows,  \* MaxCSVRows, MaxJSONLRows, MaxPostgresRows
          Null      \* JSON's null, SQL's NULL

ASSUME MaxRowsAssumption == MaxRows \in Nat
ASSUME SourceAssumption ==
  \A s \in Source :
    /\ s.type \in {"csv", "jsonl", "postgres"}
    /\ s.lines \in Seq(Range(s.lines))
    /\ \A k \in DOMAIN s.lines :
         /\ s.lines[k].kind \in {"row", "blank", "bad", "long"}
         /\ s.lines[k].keys \in Seq(Range(s.lines[k].keys))
         /\ Len(s.lines[k].keys) = Len(s.lines[k].values)
         /\ s.type = "csv" /\ s.lines[k].kind = "row" => s.lines[k].values # <<>>

VARIABLES source,  \* what is loaded
          phase,   \* where the loader is: open, read, loaded, written, full or failed
          next,    \* the next line
          headers, \* local variable: the columns; <<>> stands for nil
          rows,    \* local variable: the rows
          temp     \* the lines of the temporary CSV

vars == <<source, phase, next, headers, rows, temp>>

Init ==
  /\ source \in Source
  /\ phase = "open"
  /\ next = 1
  /\ headers = <<>> /\ rows = <<>> /\ temp = <<>>

Line == source.lines[next]
AtLine(kind) == phase = "read" /\ next <= Len(source.lines) /\ Line.kind = kind
AtEnd == phase = "read" /\ next > Len(source.lines)

Goto(p) == phase' = p /\ UNCHANGED <<source, next, headers, rows, temp>>

\* The line is read, and these are the columns and the rows with it.
Take(hs, rs) ==
  /\ next' = next + 1
  /\ headers' = hs
  /\ rows' = rs
  /\ UNCHANGED <<source, phase, temp>>

\* The text of a value: null is the empty text, for JSON because Unmarshal
\* leaves a string alone on null, for a query by cellToString.
Text(v) == IF v = Null THEN "" ELSE v

-----------------------------------------------------------------------------
(* Loading                                                                 *)

\* The file is opened, or the query sent, which gives the columns.
OpenSource ==
  /\ phase = "open"
  /\ phase' = "read"
  /\ headers' = IF source.type = "postgres" THEN source.fields ELSE <<>>
  /\ UNCHANGED <<source, next, rows, temp>>

OpenFails == phase = "open" /\ Goto("failed")

\* Both readers of files pass over blank lines.
SkipBlank == AtLine("blank") /\ Take(headers, rows)

\* The first record of a CSV file is its header.
IsHeader == source.type = "csv" /\ headers = <<>>

CsvHeader == AtLine("row") /\ IsHeader /\ Take(Line.values, rows)

\* A variant with the limit off by one.
Full_OneMore == Len(rows) > MaxRows

Full == Len(rows) >= MaxRows

\* A line of JSON is counted before it is parsed, but the first one, which
\* jsonlHeaders goes through for its keys; a row of a query is counted before
\* its values are read.
TooManyRows ==
  /\ AtLine("row") \/ (source.type # "csv" /\ AtLine("bad"))
  /\ ~IsHeader /\ Full
  /\ Goto("full")

\* A line that does not parse or that exceeds the scanner's buffer, or a
\* row the connection could not deliver.
BadLine ==
  /\ AtLine("long") \/ AtLine("bad")
  /\ ~(AtLine("bad") /\ source.type = "jsonl" /\ headers # <<>> /\ Full)
  /\ Goto("failed")

\* A record of a CSV file or a row of a query: its cells in their order.
AddRecord ==
  /\ source.type # "jsonl" /\ AtLine("row") /\ ~IsHeader /\ ~Full
  /\ Take(headers, Append(rows, [k \in DOMAIN Line.values |-> Text(Line.values[k])]))

\* jsonlHeaders: the keys of an object in their order, each once.
JsonlHeaders(keys) ==
  FoldLeft(LAMBDA hs, k : IF k \in Range(hs) THEN hs ELSE Append(hs, k), <<>>, keys)

Uses(line, key) == {k \in DOMAIN line.keys : line.keys[k] = key}

\* A variant that keeps the first value of a key.
ValueOf_First(line, key) ==
  IF Uses(line, key) = {} THEN "" ELSE Text(line.values[Min(Uses(line, key))])

\* The value of a key: of several the last; of an unknown key the empty text.
ValueOf(line, key) ==
  IF Uses(line, key) = {} THEN "" ELSE Text(line.values[Max(Uses(line, key))])

\* A line of JSON: the columns are those of the first line that has keys.
AddObject ==
  /\ source.type = "jsonl" /\ AtLine("row") /\ ~Full
  /\ LET hs == IF headers = <<>> THEN JsonlHeaders(Line.keys) ELSE headers
     IN  Take(hs, Append(rows, [k \in DOMAIN hs |-> ValueOf(Line, hs[k])]))

\* The end of the source: a file without columns is an error.
EndLoad ==
  /\ AtEnd
  /\ Goto(IF headers = <<>> /\ source.type # "postgres" THEN "failed" ELSE "loaded")

-----------------------------------------------------------------------------
(* WriteTempCSV, and the engine's reading of its file                      *)

\* A record of one empty cell, or of none, is written as a blank line.
CsvLine(cells) == IF cells = <<"">> THEN <<>> ELSE cells

\* A variant whose last record stays in the buffer.
TempLines_Unflushed == Front(<<headers>> \o rows)

\* What is written: the columns and the rows.
TempLines == <<headers>> \o rows

WriteTempCSV ==
  /\ phase = "loaded"
  /\ phase' = "written"
  /\ temp' = [k \in 1..Len(TempLines) |-> CsvLine(TempLines[k])]
  /\ UNCHANGED <<source, next, headers, rows>>

\* Any step of the writing fails; Pipeline has the file that this removes.
WriteFails == phase = "loaded" /\ Goto("failed")

\* The records of the file: the engine's reader passes over blank lines.
Records ==
  LET seen[k \in 0..Len(temp)] ==
        IF k = 0 THEN <<>>
        ELSE IF temp[k] = <<>> THEN seen[k - 1] ELSE Append(seen[k - 1], temp[k])
  IN  seen[Len(temp)]

\* The first record is the engine's header; the reader is not flexible, so that
\* a record of another length ends the check with an error.
EngineFails == \E k \in DOMAIN Records : Len(Records[k]) # Len(Records[1])

Next ==
  \/ OpenSource \/ OpenFails \/ SkipBlank \/ BadLine \/ CsvHeader \/ TooManyRows
  \/ AddRecord \/ AddObject \/ EndLoad \/ WriteTempCSV \/ WriteFails

Spec == Init /\ [][Next]_vars

-----------------------------------------------------------------------------
(* Properties                                                              *)

RowLines == {k \in DOMAIN source.lines : source.lines[k].kind = "row"}

\* The lines of the source that are data: those of a CSV file but the first.
DataLines ==
  {k \in RowLines : source.type # "csv" \/ \E h \in RowLines : h < k}

\* The row that a data line becomes, in the order of the lines.
RowOf(k) == rows[Cardinality({j \in DataLines : j <= k})]

Loaded == phase \in {"loaded", "written"}

\* A source is loaded in full or not at all: one row for each data line, in
\* the order of the lines and with their cells, never a part of a source with
\* a bad line, and never more rows than the limit.  And it is refused for its
\* length only at a line beyond as many data lines as the limit.
LoadsAllOrNothing ==
  /\ Loaded =>
       /\ Len(rows) = Cardinality(DataLines)
       /\ Len(rows) <= MaxRows
       /\ \A k \in DOMAIN source.lines : source.lines[k].kind \in {"row", "blank"}
       /\ source.type # "jsonl" =>
            \A k \in DataLines :
              LET values == source.lines[k].values
              IN  RowOf(k) = [c \in DOMAIN values |-> Text(values[c])]
  /\ phase = "full" =>
       /\ Line.kind \in {"row", "bad"}
       /\ Cardinality({k \in DataLines : k < next}) >= MaxRows

\* The cell of a JSON row under a column is the row's value of that key,
\* whatever the order of its keys: of a repeated key the last.  Nothing is said
\* of null: its cell is empty, and the comment (ingester.go:125) has its text.
CellsUnderTheirKeys ==
  source.type = "jsonl" /\ Loaded =>
    \A k \in DataLines : \A c \in DOMAIN RowOf(k) :
      LET uses == Uses(source.lines[k], headers[c])
      IN  \A j \in uses : (\A i \in uses : i <= j) =>
            LET value == source.lines[k].values[j]
            IN  value # Null => RowOf(k)[c] = value

\* With two columns or more, and no row that is written as a blank line (one of
\* a single empty cell or of none), the engine reads the columns and every
\* row, and ends in an error exactly when a row has not as many cells as there
\* are columns: LoadCSV lets such rows pass, and leaves them to the engine
\* (ingester.go:46).
WideRowsReachEngine ==
  phase = "written" /\ Len(headers) >= 2 /\ Range(rows) \cap {<<>>, <<"">>} = {} =>
    /\ Records = <<headers>> \o rows
    /\ EngineFails <=> \E cells \in Range(rows) : Len(cells) # Len(headers)

\* The package's comment, ingester.go:1: records are turned into CSV the
\* engine can be given.  Every row, that of one empty cell included.
EveryRowReachesEngine == phase = "written" => Len(Records) = 1 + Len(rows)
=============================================================================
