------------------------------ MODULE Profile ------------------------------
(***************************************************************************)
(* profile_file (rust-engine/src/profile.rs): the statistics of the        *)
(* columns of a CSV, accumulated in one pass over its rows.  Each column   *)
(* has an accumulator of its own, so that one column stands for all.  Its  *)
(* numbers are integers and NaN, which the text "NaN" parses as.           *)
(***************************************************************************)
EXTENDS Integers, Sequences, FiniteSetsExt

CONSTANTS Cell,     \* the contents of a cell
          Blank,    \* the cells that trim to nothing
          Value,    \* the value of a cell that parses as f64: an integer or NaN
          NaN,
          MaxRows   \* bound on the rows

VARIABLES column,   \* the cells of the column, row by row
          broken,   \* the first row that is no record of the header's length (0: none)
          row_count,
          acc,      \* the ColumnAcc; uniques is a set
          report    \* the ColumnProfile, <<"error">>, or <<>> as long as there is none

vars == <<column, broken, row_count, acc, report>>

Init ==
  /\ column \in UNION {[1..n -> Cell] : n \in 0..MaxRows}
  /\ broken \in 0..Len(column)
  /\ row_count = 0
  /\ acc = [null_count |-> 0, uniques |-> {}, numeric_count |-> 0, non_null_count |-> 0,
            min |-> 0, max |-> 0, sum |-> 0]
  /\ report = <<>>

\* f64::min and f64::max return the other one if one is NaN; NaN absorbs a sum.
Least(x, y) == IF x = NaN THEN y ELSE IF y = NaN \/ x <= y THEN x ELSE y
Greatest(x, y) == IF x = NaN THEN y ELSE IF y = NaN \/ x >= y THEN x ELSE y
Plus(x, y) == IF NaN \in {x, y} THEN NaN ELSE x + y

\* A variant that takes the defaults of the accumulator for values of the column.
Widen_FromZero(a, v) == [a EXCEPT !.min = Least(@, v), !.max = Greatest(@, v)]

Widen(a, v) ==
  IF a.numeric_count = 0 THEN [a EXCEPT !.min = v, !.max = v]
  ELSE [a EXCEPT !.min = Least(@, v), !.max = Greatest(@, v)]

\* ColumnAcc::update
Update(cell) ==
  IF cell \in Blank THEN [acc EXCEPT !.null_count = @ + 1]
  ELSE LET seen == [acc EXCEPT !.non_null_count = @ + 1, !.uniques = @ \cup {cell}]
       IN IF cell \notin DOMAIN Value THEN seen
          ELSE [Widen(seen, Value[cell]) EXCEPT !.sum = Plus(@, Value[cell]),
                                                !.numeric_count = @ + 1]

\* The body of the loop; a row that is no record ends the call.
ReadRow ==
  /\ report = <<>> /\ row_count < Len(column)
  /\ \/ /\ row_count + 1 = broken
        /\ report' = <<"error">>
        /\ UNCHANGED <<row_count, acc>>
     \/ /\ row_count + 1 # broken
        /\ row_count' = row_count + 1
        /\ acc' = Update(column[row_count + 1])
        /\ UNCHANGED report
  /\ UNCHANGED <<column, broken>>

\* ColumnAcc::finish; null_rate and mean are quotients of what is here.
Finish ==
  /\ report = <<>> /\ row_count = Len(column)
  /\ report' = <<[null_count |-> acc.null_count, unique_count |-> Cardinality(acc.uniques),
                  numbers |-> IF acc.non_null_count > 0 /\ acc.numeric_count = acc.non_null_count
                              THEN <<acc.min, acc.max, acc.sum, acc.numeric_count>> ELSE <<>>]>>
  /\ UNCHANGED <<column, broken, row_count, acc>>

Next == ReadRow \/ Finish

Spec == Init /\ [][Next]_vars

-----------------------------------------------------------------------------

\* The report of a column, by definition over the whole of it: NaN makes the
\* sum NaN wherever it stands, and the least and the greatest are those of the
\* other numbers.
Expected ==
  LET filled == {k \in DOMAIN column : column[k] \notin Blank}
      proper == {column[k] : k \in filled}
      known == {Value[x] : x \in proper} \ {NaN}
      sum[k \in 0..Len(column)] ==
        IF k = 0 THEN 0 ELSE sum[k - 1] + (IF k \in filled THEN Value[column[k]] ELSE 0)
  IN [null_count |-> Len(column) - Cardinality(filled),
      unique_count |-> Cardinality(proper),
      numbers |->
        IF filled = {} \/ ~(proper \subseteq DOMAIN Value) THEN <<>>
        ELSE <<IF known = {} THEN NaN ELSE Min(known), IF known = {} THEN NaN ELSE Max(known),
               IF \E x \in proper : Value[x] = NaN THEN NaN ELSE sum[Len(column)],
               Cardinality(filled)>>]

\* One pass over the rows reports what the definitions of the statistics say
\* of the whole column, in whatever order its cells stand, and reports nothing
\* of a file that has a broken row (profile_file, finish).
ProfileExact ==
  report # <<>> => report = (IF broken # 0 THEN <<"error">> ELSE <<Expected>>)
=============================================================================
