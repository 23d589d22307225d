------------------------------ MODULE CheckFile ------------------------------
(***************************************************************************)
(* check_file (rust-engine/src/check.rs): the quality rules are compiled   *)
(* against the header of a CSV and evaluated in one streaming pass over    *)
(* its rows; if there is a `count` rule, a pass over a second handle of    *)
(* the same file counts the keys first.  The Go side can remove the file   *)
(* meanwhile (its deadline passed and the deferred cleanup of process      *)
(* ran): a handle that is open goes on reading, one that is opened later   *)
(* fails.                                                                  *)
(*                                                                         *)
(* A cell is an opaque value; what the rules see of it are the constants   *)
(* Blank, Number and Matching.  NaN and text are both outside of Number's  *)
(* domain: they violate every comparison, `!=` too.                        *)
(***************************************************************************)
EXTENDS Integers, Sequences, FiniteSets

CONSTANTS Column,    \* the columns of the CSV
          Cell,      \* the contents of a cell
          Blank,     \* the cells that trim to nothing
          Number,    \* the value of a cell that parses as a number
          Matching,  \* the cells that the pattern of a `matches` rule matches
          RawRule,   \* the rules that rules.yaml may have
          MaxRows,   \* bound on the rows of a CSV
          MaxRules   \* bound on the rules

(***************************************************************************)
(* What Check::compile sees of a rule: the first word of its expression,   *)
(* the number of its words, whether its second word is an operator and its *)
(* third a number (and then which), and whether what follows `matches ` is *)
(* a valid pattern between slashes.                                        *)
(***************************************************************************)
ASSUME RuleAssumption ==
  RawRule \subseteq [head : {"not_null", "value", "count", "matches", "other"}, words : 1..5,
                     operands : BOOLEAN, op : {">", ">=", "<", "<=", "==", "!="}, rhs : Int,
                     slashed : BOOLEAN, column : STRING, key : STRING]
ASSUME BoundAssumption == MaxRows \in Nat /\ MaxRules \in Nat

VARIABLES at,         \* where the call is
          csv,        \* the rows of its file
          bad,        \* the first row that is no record of the header's length (0: none)
          rules,      \* its RuleSet
          present,    \* whether the file still has its name
          counted,    \* the rows the count pass has read
          counts,     \* counts[pos][cell], for the `count` rules
          row, pos,   \* the rows that are evaluated; the next rule for the row after them
          violations  \* the vector of that name

given == <<csv, bad, rules>>
counting == <<counted, counts>>
evaluation == <<row, pos, violations>>
checkVars == <<at, given, present, counting, evaluation>>

Row == [Column -> Cell]
SeqUpTo(S, n) == UNION {[1..m -> S] : m \in 0..n}

\* seq is the number in the id `viol-{run_ms}-{seq}`, run_ms being read once;
\* pos stands for the name of the rule.
Violation == [seq : Nat, row : Nat \ {0}, pos : Nat, value : Cell]

TypeOK ==
  /\ at \in {"open", "compile", "reopen", "count", "eval", "ok",
             "nofile", "norule", "nocount", "badrow"}
  /\ csv \in Seq(Row) /\ rules \in Seq(RawRule)
  /\ bad \in 0..Len(csv)
  /\ present \in BOOLEAN
  /\ counted \in 0..Len(csv)
  /\ counts \in [1..Len(rules) -> [Cell -> 0..MaxRows]]
  /\ row \in 0..Len(csv)
  /\ pos \in 1..(Len(rules) + 1)
  /\ violations \in Seq(Violation)

CheckInit ==
  /\ at = "open"
  /\ csv \in SeqUpTo(Row, MaxRows)
  /\ rules \in SeqUpTo(RawRule, MaxRules)
  /\ bad \in 0..Len(csv)
  /\ present = TRUE
  /\ counted = 0
  /\ counts = [p \in 1..Len(rules) |-> [x \in Cell |-> 0]]
  /\ row = 0 /\ pos = 1 /\ violations = <<>>

-----------------------------------------------------------------------------
(* The rules                                                               *)

\* Op::eval.
Holds(op, l, r) ==
  \/ op = ">"  /\ l > r
  \/ op = ">=" /\ l >= r
  \/ op = "<"  /\ l < r
  \/ op = "<=" /\ l <= r
  \/ op = "==" /\ l = r
  \/ op = "!=" /\ l # r

\* check_label: the column a rule reads.
Label(raw) == IF raw.head = "count" THEN raw.key ELSE raw.column

\* A rule compiles, and its column is in the header.  Any expression of three
\* words needs an operator and a number, whatever its first word is.
Compiles(raw) ==
  /\ \/ raw.head = "not_null" /\ raw.words = 1
     \/ /\ raw.words = 3 => raw.operands
        /\ \/ raw.head \in {"value", "count"} /\ raw.words = 3
           \/ raw.head = "matches" /\ raw.slashed
  /\ Label(raw) \in Column

\* is_row_violation, and the verdict of a `count` rule for n occurrences.
Violated(raw, cell, n) ==
  \/ raw.head = "not_null" /\ cell \in Blank
  \/ /\ raw.head = "value"
     /\ ~(cell \in DOMAIN Number /\ Holds(raw.op, Number[cell], raw.rhs))
  \/ raw.head = "count" /\ ~Holds(raw.op, n, raw.rhs)
  \/ raw.head = "matches" /\ cell \notin Matching

CountPositions == {p \in DOMAIN rules : rules[p].head = "count"}
CellOf(k, p) == csv[k][Label(rules[p])]

-----------------------------------------------------------------------------
(* check_file                                                              *)

\* The rules are read and the first handle is opened.
OpenFile ==
  /\ at = "open"
  /\ at' = IF present THEN "compile" ELSE "nofile"
  /\ UNCHANGED <<given, present, counting, evaluation>>

CompileRules ==
  /\ at = "compile"
  /\ at' = IF \E p \in DOMAIN rules : ~Compiles(rules[p]) THEN "norule"
           ELSE IF CountPositions # {} THEN "reopen" ELSE "eval"
  /\ UNCHANGED <<given, present, counting, evaluation>>

\* A variant that counts nothing when the second handle cannot be opened.
Reopened_Ignored == IF present THEN "count" ELSE "eval"

Reopened == IF present THEN "count" ELSE "nocount"

\* The count pass opens the file again.
ReopenFile ==
  /\ at = "reopen"
  /\ at' = Reopened
  /\ UNCHANGED <<given, present, counting, evaluation>>

\* A record of the count pass; a row that is none ends the call.
CountRow ==
  /\ at = "count"
  /\ counted < Len(csv)
  /\ \/ counted + 1 = bad /\ at' = "badrow" /\ UNCHANGED counting
     \/ /\ counted + 1 # bad
        /\ counted' = counted + 1
        /\ counts' = [p \in DOMAIN counts |-> [x \in Cell |->
             IF p \in CountPositions /\ x = CellOf(counted + 1, p)
               THEN counts[p][x] + 1 ELSE counts[p][x]]]
        /\ UNCHANGED at
  /\ UNCHANGED <<given, present, evaluation>>

CountsReady ==
  /\ at = "count"
  /\ counted = Len(csv)
  /\ at' = "eval"
  /\ UNCHANGED <<given, present, counting, evaluation>>

\* A variant that numbers the rows from zero.
RowNumber_FromZero == row

RowNumber == row + 1

\* A rule meets the row.
EvalRule ==
  /\ at = "eval"
  /\ row < Len(csv) /\ row + 1 # bad
  /\ pos <= Len(rules)
  /\ LET cell == CellOf(row + 1, pos) IN
       violations' = IF Violated(rules[pos], cell, counts[pos][cell])
         THEN Append(violations, [seq |-> Len(violations) + 1, row |-> RowNumber,
                                  pos |-> pos, value |-> cell])
         ELSE violations
  /\ pos' = pos + 1
  /\ UNCHANGED <<at, given, present, counting, row>>

NextRow ==
  /\ at = "eval"
  /\ row < Len(csv) /\ row + 1 # bad
  /\ pos > Len(rules)
  /\ row' = row + 1 /\ pos' = 1
  /\ UNCHANGED <<at, given, present, counting, violations>>

\* The evaluation ends: at a row that is no record, or after the last one.
EndEval ==
  /\ at = "eval"
  /\ \/ row < Len(csv) /\ row + 1 = bad /\ at' = "badrow"
     \/ row = Len(csv) /\ at' = "ok"
  /\ UNCHANGED <<given, present, counting, evaluation>>

\* The Go side removes the temporary CSV.
Remove ==
  /\ present
  /\ present' = FALSE
  /\ UNCHANGED <<at, given, counting, evaluation>>

CheckNext ==
  \/ OpenFile \/ CompileRules \/ ReopenFile \/ CountRow \/ CountsReady
  \/ EvalRule \/ NextRow \/ EndEval \/ Remove

CheckSpec == CheckInit /\ [][CheckNext]_checkVars

-----------------------------------------------------------------------------
(* Properties                                                              *)

\* How often the key of row k occurs in the whole file.
Occurrences(k, p) == Cardinality({h \in DOMAIN csv : CellOf(h, p) = CellOf(k, p)})

\* Rule p is violated by row k, by the definition over the whole file.
Due(k, p) == Violated(rules[p], CellOf(k, p), Occurrences(k, p))

\* A violation comes before row k and rule p.
Precedes(v, k, p) == v.row < k \/ (v.row = k /\ v.pos < p)

\* A call that succeeds found exactly the violations that the rules define
\* over the whole file (the in-memory `evaluate` of check.rs:289), although
\* the file was read twice and may have been removed in between: a row is
\* reported by a rule if and only if it violates it, once, row by row and rule
\* by rule, with its own cell and an id of its own; and no row was no record.
FindsAllViolations ==
  at = "ok" =>
    /\ bad = 0
    /\ \A k \in DOMAIN csv, p \in DOMAIN rules :
         Due(k, p) <=> \E h \in DOMAIN violations :
                         violations[h].row = k /\ violations[h].pos = p
    /\ \A h \in DOMAIN violations :
         LET v == violations[h] IN
           /\ v.seq = h
           /\ v.row \in DOMAIN csv /\ v.pos \in DOMAIN rules
           /\ v.value = CellOf(v.row, v.pos)
           /\ \A g \in 1..(h - 1) : Precedes(violations[g], v.row, v.pos)
=============================================================================
