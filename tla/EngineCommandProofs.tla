------------------------ MODULE EngineCommandProofs ------------------------
(***************************************************************************)
(* Proofs about the engine's three functions, for files, rules, columns    *)
(* and texts of any size:                                                  *)
(*   - check_file finds what the rules define over the whole file (CInv:   *)
(*     after the first pass the count of a key is the cardinality of its   *)
(*     rows, and the second pass has reported exactly what is due up to    *)
(*     the row and the rule it has come to);                               *)
(*   - analyze_sql finds the tables of a statement and builds their graph  *)
(*     (LInv), the walk over the syntax tree being compared with the nodes *)
(*     below its root by induction over their heights;                     *)
(*   - profile_file reports the statistics of the column (PInv: the        *)
(*     accumulator has those of the cells read so far).                    *)
(* What a recursive function computes is shown with NatInduct, which       *)
(* speaks of a set instead of a predicate.                                 *)
(***************************************************************************)
EXTENDS EngineCommand, FiniteSetTheorems, TLAPS

-----------------------------------------------------------------------------
(* A call of check_file                                                    *)

\* The rows of the count pass that hold cell x under rule p.
Holding(p, x, n) == {h \in 1..n : CellOf(h, p) = x}

Compiled == at \in {"reopen", "count", "eval", "ok"} => \A p \in DOMAIN rules : Compiles(rules[p])

Counted ==
  /\ \A p \in CountPositions, x \in Cell : counts[p][x] = Cardinality(Holding(p, x, counted))
  /\ \A p \in DOMAIN rules, x \in Cell : counts[p][x] <= counted
  /\ at \in {"eval", "ok"} /\ CountPositions # {} => counted = Len(csv)

Passed(k, p) == k <= row \/ (k = row + 1 /\ p < pos)
Found(k, p) == \E h \in DOMAIN violations : violations[h].row = k /\ violations[h].pos = p

Reported == \A k \in DOMAIN csv, p \in DOMAIN rules : Found(k, p) <=> Due(k, p) /\ Passed(k, p)

Own(h) ==
  LET v == violations[h] IN
    /\ v.seq = h
    /\ v.row \in DOMAIN csv /\ v.pos \in DOMAIN rules
    /\ v.value = CellOf(v.row, v.pos)
    /\ \A g \in 1..(h - 1) : Precedes(violations[g], v.row, v.pos)

InOrder == \A h \in DOMAIN violations : Own(h) /\ Precedes(violations[h], row + 1, pos)

Clean ==
  /\ bad = 0 \/ row < bad
  /\ at = "ok" => row = Len(csv)

CInv == TypeOK /\ Len(csv) <= MaxRows /\ Compiled /\ Counted /\ Reported /\ InOrder /\ Clean

\* A sequence of a bounded length is a sequence.
LEMMA SeqUpToIsSeq ==
  ASSUME NEW S, NEW n \in Nat, NEW s \in SeqUpTo(S, n)
  PROVE  s \in Seq(S) /\ Len(s) <= n
<1>1. PICK m \in 0..n : s \in [1..m -> S]
  BY DEF SeqUpTo
<1> QED BY <1>1

\* One row more: the rows that hold a cell are one more if it does.
LEMMA HoldingGrows ==
  ASSUME NEW p, NEW x, NEW n \in Nat
  PROVE  /\ Cardinality(Holding(p, x, n)) \in Nat
         /\ CellOf(n + 1, p) = x =>
              Cardinality(Holding(p, x, n + 1)) = Cardinality(Holding(p, x, n)) + 1
         /\ CellOf(n + 1, p) # x => Holding(p, x, n + 1) = Holding(p, x, n)
<1>1. IsFiniteSet(Holding(p, x, n))
  <2>1. IsFiniteSet(1..n)
    BY FS_Interval
  <2> QED BY <2>1, FS_Subset DEF Holding
<1>2. Cardinality(Holding(p, x, n)) \in Nat
  BY <1>1, FS_CardinalityType
<1>3. CASE CellOf(n + 1, p) = x
  <2>1. Holding(p, x, n + 1) = Holding(p, x, n) \cup {n + 1}
    BY <1>3 DEF Holding
  <2>2. n + 1 \notin Holding(p, x, n)
    BY DEF Holding
  <2> QED BY <1>1, <1>2, <1>3, <2>1, <2>2, FS_AddElement
<1>4. CASE CellOf(n + 1, p) # x
  BY <1>2, <1>4 DEF Holding
<1> QED BY <1>3, <1>4

\* A rule that compiles reads a column of the header.
LEMMA CellTyped ==
  ASSUME TypeOK, NEW k \in DOMAIN csv, NEW p \in DOMAIN rules, Compiles(rules[p])
  PROVE  CellOf(k, p) \in Cell
BY DEF TypeOK, Compiles, CellOf, Row

\* A call begins with nothing counted and nothing reported.
LEMMA CheckBegins == CheckInit => CInv
<1> SUFFICES ASSUME CheckInit PROVE CInv
  OBVIOUS
<1> USE BoundAssumption
<1>1. csv \in Seq(Row) /\ Len(csv) <= MaxRows /\ rules \in Seq(RawRule)
  BY SeqUpToIsSeq DEF CheckInit
<1>2. TypeOK
  BY <1>1 DEF CheckInit, TypeOK
<1>3. Counted
  <2>1. \A p, x : Holding(p, x, 0) = {}
    BY DEF Holding
  <2>2. \A p, x : Cardinality(Holding(p, x, 0)) = 0
    BY <2>1, FS_EmptySet
  <2> QED BY <1>1, <2>2 DEF CheckInit, Counted, CountPositions
<1>4. Reported /\ InOrder /\ Clean /\ Compiled
  BY <1>1 DEF CheckInit, Reported, InOrder, Clean, Compiled, Found, Passed
<1> QED BY <1>1, <1>2, <1>3, <1>4 DEF CInv

\* What the steps that only move `at`, or remove the file, keep.
LEMMA MovesKeep ==
  ASSUME CInv, UNCHANGED <<given, counting, evaluation>>,
         present' \in BOOLEAN,
         at' \in {"open", "compile", "reopen", "count", "eval", "ok",
                  "nofile", "norule", "nocount", "badrow"},
         at' \in {"reopen", "count", "eval", "ok"} => \A p \in DOMAIN rules : Compiles(rules[p]),
         at' \in {"eval", "ok"} /\ CountPositions # {} => counted = Len(csv),
         at' = "ok" => row = Len(csv)
  PROVE  CInv'
<1> USE DEF given, counting, evaluation
<1>1. TypeOK' BY DEF CInv, TypeOK
<1>2. Compiled' BY DEF Compiled
<1>3. Counted' BY DEF CInv, Counted, CountPositions, Holding, CellOf
<1>4. Reported' BY DEF CInv, Reported, Found, Passed, Due, Occurrences, CellOf
<1>5. InOrder' BY DEF CInv, InOrder, Own, Precedes, CellOf
<1>6. Clean' BY DEF CInv, Clean
<1> QED BY <1>1, <1>2, <1>3, <1>4, <1>5, <1>6 DEF CInv

\* A record of the count pass: the rows that hold a cell, up to it.
LEMMA CountRowKeeps == CInv /\ CountRow => CInv'
<1> SUFFICES ASSUME CInv, CountRow PROVE CInv'
  OBVIOUS
<1> USE DEF given, counting, evaluation, CountRow
<1>1. CASE counted + 1 = bad /\ at' = "badrow" /\ UNCHANGED counting
  BY <1>1, MovesKeep DEF CInv, TypeOK
<1>2. CASE counted + 1 # bad /\ UNCHANGED at
  <2> DEFINE grows(p, x) == p \in CountPositions /\ x = CellOf(counted + 1, p)
  <2>1. /\ counted' = counted + 1
        /\ counts' = [p \in DOMAIN counts |-> [x \in Cell |->
             IF grows(p, x) THEN counts[p][x] + 1 ELSE counts[p][x]]]
        /\ counted \in Nat /\ counted + 1 <= Len(csv) /\ Len(csv) <= MaxRows
        /\ DOMAIN counts = DOMAIN rules
    BY <1>2 DEF CInv, TypeOK
  <2>2. \A p \in DOMAIN rules, x \in Cell :
           counts[p][x] \in Nat /\ counts[p][x] <= counted
    BY DEF CInv, TypeOK, Counted
  <2>3. \A p \in DOMAIN rules, x \in Cell :
           /\ counts'[p][x] = IF grows(p, x) THEN counts[p][x] + 1 ELSE counts[p][x]
           /\ counts'[p][x] \in 0..MaxRows
           /\ counts'[p][x] <= counted'
    BY <2>1, <2>2, BoundAssumption
  <2>4. TypeOK'
    <3>1. counts' \in [1..Len(rules) -> [Cell -> 0..MaxRows]]
      BY <2>1, <2>3 DEF CInv, TypeOK
    <3> QED BY <1>2, <2>1, <3>1 DEF CInv, TypeOK
  <2>5. Counted'
    <3>1. ASSUME NEW p \in CountPositions, NEW x \in Cell
          PROVE  counts'[p][x] = Cardinality(Holding(p, x, counted + 1))
      <4>1. p \in DOMAIN rules
        BY DEF CountPositions
      <4>2. counts[p][x] = Cardinality(Holding(p, x, counted))
        BY DEF CInv, Counted
      <4>3. CASE CellOf(counted + 1, p) = x
        BY <2>1, <2>3, <4>1, <4>2, <4>3, HoldingGrows
      <4>4. CASE CellOf(counted + 1, p) # x
        BY <2>1, <2>3, <4>1, <4>2, <4>4, HoldingGrows
      <4> QED BY <4>3, <4>4
    <3>2. CountPositions' = CountPositions /\ DOMAIN rules' = DOMAIN rules
      BY DEF CountPositions
    <3>3. ASSUME NEW p \in CountPositions', NEW x \in Cell
          PROVE  (counts[p][x] = Cardinality(Holding(p, x, counted)))'
      <4>1. csv' = csv /\ rules' = rules /\ counted' = counted + 1
        BY <2>1
      <4>2. Holding(p, x, counted)' = Holding(p, x, counted + 1)
        BY <4>1 DEF Holding, CellOf
      <4>3. counts'[p][x] = Cardinality(Holding(p, x, counted + 1))
        BY <3>1, <3>2
      <4> QED BY <4>2, <4>3
    <3>4. \A p \in DOMAIN rules', x \in Cell : counts'[p][x] <= counted'
      BY <2>3, <3>2
    <3>5. at' = "count"
      BY <1>2
    <3> HIDE DEF CountRow
    <3> QED BY <3>3, <3>4, <3>5 DEF Counted
  <2>6. Reported'
    BY <1>2 DEF CInv, Reported, Found, Passed, Due, Occurrences, CellOf
  <2>7. InOrder'
    BY <1>2 DEF CInv, InOrder, Own, Precedes, CellOf
  <2>8. Compiled' /\ Clean' /\ Len(csv)' <= MaxRows
    BY <1>2 DEF CInv, Compiled, Clean
  <2> QED BY <2>4, <2>5, <2>6, <2>7, <2>8 DEF CInv
<1> QED BY <1>1, <1>2

\* The verdict on a row takes the count of its key from the first pass, which
\* has read the whole file.
LEMMA VerdictIsDue ==
  ASSUME CInv, at = "eval", NEW k \in DOMAIN csv, NEW p \in DOMAIN rules
  PROVE  Violated(rules[p], CellOf(k, p), counts[p][CellOf(k, p)]) <=> Due(k, p)
<1>1. CASE rules[p].head = "count"
  <2>1. p \in CountPositions /\ counted = Len(csv)
    BY <1>1 DEF CInv, Counted, CountPositions
  <2>2. CellOf(k, p) \in Cell
    BY CellTyped DEF CInv, Compiled
  <2>3. Holding(p, CellOf(k, p), counted) = {h \in DOMAIN csv : CellOf(h, p) = CellOf(k, p)}
    BY <2>1 DEF Holding, CInv, TypeOK
  <2>4. counts[p][CellOf(k, p)] = Occurrences(k, p)
    BY <2>1, <2>2, <2>3 DEF CInv, Counted, Occurrences
  <2> QED BY <2>4 DEF Due
<1>2. CASE rules[p].head # "count"
  BY <1>2 DEF Due, Violated
<1> QED BY <1>1, <1>2

\* A rule meets a row: its violation is reported last, if it is due.
LEMMA EvalRuleKeeps == CInv /\ EvalRule => CInv'
<1> SUFFICES ASSUME CInv, EvalRule PROVE CInv'
  OBVIOUS
<1> USE DEF given, counting, evaluation
<1> DEFINE k == row + 1
           v == [seq |-> Len(violations) + 1, row |-> k, pos |-> pos, value |-> CellOf(k, pos)]
<1>1. /\ at = "eval" /\ k # bad /\ k \in DOMAIN csv /\ pos \in DOMAIN rules
      /\ row \in Nat /\ pos \in Nat /\ pos' = pos + 1
      /\ UNCHANGED <<at, csv, bad, rules, present, counted, counts, row>>
  BY DEF EvalRule, CInv, TypeOK
<1>2. violations' = IF Due(k, pos) THEN Append(violations, v) ELSE violations
  <2>1. Violated(rules[pos], CellOf(k, pos), counts[pos][CellOf(k, pos)]) <=> Due(k, pos)
    BY <1>1, VerdictIsDue
  <2> QED BY <2>1 DEF EvalRule, RowNumber
<1>3. v \in Violation /\ violations \in Seq(Violation)
  <2>1. CellOf(k, pos) \in Cell
    BY <1>1, CellTyped DEF CInv, Compiled
  <2> QED BY <1>1, <2>1, SMTT(30) DEF CInv, TypeOK, Violation
<1>4. violations' \in Seq(Violation)
  BY <1>2, <1>3
<1>5. /\ Len(violations) \in Nat /\ Len(violations') \in Nat
      /\ DOMAIN violations' = IF Due(k, pos) THEN 1..(Len(violations) + 1) ELSE 1..Len(violations)
      /\ DOMAIN violations = 1..Len(violations)
      /\ \A h \in DOMAIN violations : violations'[h] = violations[h]
      /\ Due(k, pos) => violations'[Len(violations) + 1] = v
  BY <1>2, <1>3
<1>6. TypeOK'
  BY <1>1, <1>4, SMTT(30) DEF CInv, TypeOK
<1>7. Reported'
  <2> SUFFICES ASSUME NEW m \in DOMAIN csv, NEW p \in DOMAIN rules
               PROVE  Found(m, p)' <=> Due(m, p) /\ Passed(m, p)'
    BY <1>1 DEF Reported, Due, Occurrences, CellOf
  <2>1. Found(m, p) <=> Due(m, p) /\ Passed(m, p)
    BY DEF CInv, Reported
  <2>2. Passed(m, p)' <=> Passed(m, p) \/ (m = k /\ p = pos)
    BY <1>1, SMTT(30) DEF Passed, CInv, TypeOK
  <2>3. Found(m, p)' <=> Found(m, p) \/ (Due(k, pos) /\ m = k /\ p = pos)
    BY <1>5 DEF Found
  <2> QED BY <2>1, <2>2, <2>3
<1>8. InOrder'
  <2> SUFFICES ASSUME NEW h \in DOMAIN violations'
               PROVE  Own(h)' /\ Precedes(violations'[h], k, pos + 1)
    BY <1>1 DEF InOrder, Precedes
  <2>1. CASE h \in DOMAIN violations
    <3>1. Own(h) /\ Precedes(violations[h], k, pos)
      BY <2>1 DEF CInv, InOrder
    <3>2. \A g \in 1..(h - 1) : g \in DOMAIN violations
      BY <1>5, <2>1
    <3>3. violations[h] \in Violation
      BY <1>3, <2>1
    <3>4. violations'[h] = violations[h] /\ \A g \in 1..(h - 1) : violations'[g] = violations[g]
      BY <1>5, <2>1, <3>2
    <3>5. Own(h)'
      BY <1>1, <3>1, <3>4 DEF Own, Precedes, CellOf
    <3>6. Precedes(violations[h], k, pos + 1)
      BY <1>1, <3>1, <3>3 DEF Precedes, Violation
    <3> QED BY <3>4, <3>5, <3>6
  <2>2. CASE Due(k, pos) /\ h = Len(violations) + 1
    <3>1. violations'[h] = v
      BY <1>5, <2>2
    <3>2. \A g \in 1..(h - 1) : g \in DOMAIN violations /\ Precedes(violations'[g], k, pos)
      BY <1>5, <2>2 DEF CInv, InOrder
    <3> QED BY <1>1, <2>2, <3>1, <3>2 DEF Own, Precedes, CellOf
  <2> QED BY <1>5, <2>1, <2>2
<1>9. Compiled' /\ Counted' /\ Clean' /\ Len(csv)' <= MaxRows
  BY <1>1 DEF CInv, Compiled, Counted, Clean, CountPositions, Holding, CellOf
<1> QED BY <1>6, <1>7, <1>8, <1>9 DEF CInv

\* The next row begins with the first rule.
LEMMA NextRowKeeps == CInv /\ NextRow => CInv'
<1> SUFFICES ASSUME CInv, NextRow PROVE CInv'
  OBVIOUS
<1> USE DEF given, counting, evaluation
<1>1. /\ at = "eval" /\ row + 1 # bad /\ row + 1 \in DOMAIN csv /\ pos = Len(rules) + 1
      /\ row \in Nat /\ row' = row + 1 /\ pos' = 1 /\ bad \in Nat
      /\ UNCHANGED <<at, csv, bad, rules, present, counted, counts, violations>>
  BY DEF NextRow, CInv, TypeOK
<1>2. TypeOK'
  BY <1>1 DEF CInv, TypeOK
<1>3. Reported'
  <2>1. \A m \in DOMAIN csv, p \in DOMAIN rules : Passed(m, p)' <=> Passed(m, p)
    BY <1>1 DEF Passed, CInv, TypeOK
  <2> QED BY <1>1, <2>1 DEF CInv, Reported, Found, Due, Occurrences, CellOf
<1>4. InOrder'
  <2>1. \A h \in DOMAIN violations : violations[h] \in Violation
    BY DEF CInv, TypeOK
  <2>2. \A h \in DOMAIN violations : Precedes(violations[h], row + 2, 1)
    BY <1>1, <2>1 DEF CInv, InOrder, Precedes, Violation
  <2> QED BY <1>1, <2>2 DEF CInv, InOrder, Own, Precedes, CellOf
<1>5. Compiled' /\ Counted' /\ Clean' /\ Len(csv)' <= MaxRows
  BY <1>1 DEF CInv, Compiled, Counted, Clean, CountPositions, Holding, CellOf
<1> QED BY <1>2, <1>3, <1>4, <1>5 DEF CInv

\* Every step of check_file keeps the invariant.
LEMMA StepKeeps == CInv /\ [CheckNext]_checkVars => CInv'
<1> SUFFICES ASSUME CInv, [CheckNext]_checkVars PROVE CInv'
  OBVIOUS
<1>1. CASE OpenFile
  BY <1>1, MovesKeep DEF OpenFile, CInv, TypeOK
<1>2. CASE CompileRules
  <2>1. at' \in {"norule", "reopen", "eval"}
    BY <1>2 DEF CompileRules
  <2>2. at' # "norule" => \A p \in DOMAIN rules : Compiles(rules[p])
    BY <1>2 DEF CompileRules
  <2>3. at' = "eval" => CountPositions = {}
    BY <1>2 DEF CompileRules
  <2> QED BY <1>2, <2>1, <2>2, <2>3, MovesKeep DEF CompileRules, CInv, TypeOK
<1>3. CASE ReopenFile
  <2>1. \A p \in DOMAIN rules : Compiles(rules[p])
    BY <1>3 DEF ReopenFile, CInv, Compiled
  <2>2. at' \in {"count", "nocount"}
    BY <1>3 DEF ReopenFile, Reopened
  <2> QED BY <1>3, <2>1, <2>2, MovesKeep DEF ReopenFile, CInv, TypeOK
<1>4. CASE CountRow
  BY <1>4, CountRowKeeps
<1>5. CASE CountsReady
  <2>1. \A p \in DOMAIN rules : Compiles(rules[p])
    BY <1>5 DEF CountsReady, CInv, Compiled
  <2> QED BY <1>5, <2>1, MovesKeep DEF CountsReady, CInv, TypeOK
<1>6. CASE EvalRule
  BY <1>6, EvalRuleKeeps
<1>7. CASE NextRow
  BY <1>7, NextRowKeeps
<1>8. CASE EndEval
  <2>1. /\ \A p \in DOMAIN rules : Compiles(rules[p])
        /\ CountPositions # {} => counted = Len(csv)
        /\ at' \in {"badrow", "ok"}
        /\ at' = "ok" => row = Len(csv)
    BY <1>8 DEF EndEval, CInv, Compiled, Counted
  <2> QED BY <1>8, <2>1, MovesKeep DEF EndEval, CInv, TypeOK
<1>9. CASE Remove
  <2>1. /\ at \in {"reopen", "count", "eval", "ok"} => \A p \in DOMAIN rules : Compiles(rules[p])
        /\ at \in {"eval", "ok"} /\ CountPositions # {} => counted = Len(csv)
        /\ at = "ok" => row = Len(csv)
    BY DEF CInv, Compiled, Counted, Clean
  <2> QED BY <1>9, <2>1, MovesKeep DEF Remove, CInv, TypeOK
<1>10. CASE UNCHANGED checkVars
  <2>1. /\ at \in {"reopen", "count", "eval", "ok"} => \A p \in DOMAIN rules : Compiles(rules[p])
        /\ at \in {"eval", "ok"} /\ CountPositions # {} => counted = Len(csv)
        /\ at = "ok" => row = Len(csv)
    BY DEF CInv, Compiled, Counted, Clean
  <2> QED BY <1>10, <2>1, MovesKeep DEF checkVars, CInv, TypeOK
<1> QED BY <1>1, <1>2, <1>3, <1>4, <1>5, <1>6, <1>7, <1>8, <1>9, <1>10 DEF CheckNext

\* Every step of the engine is a step of check_file or leaves it alone.
LEMMA CheckStep == CInv /\ [Next]_allVars => CInv'
<1>1. [Next]_allVars => [CheckNext]_checkVars
  BY DEF Next, allVars
<1> QED BY <1>1, StepKeeps

\* CInv holds in every state of the engine, whatever its command is.
LEMMA CheckInvariance == Spec => []CInv
<1>1. Init => CheckInit
  BY DEF Init
<1> QED BY <1>1, CheckBegins, CheckStep, PTL DEF Spec

\* The variables of check_file have their types, for files and rules of any
\* length: counts do not exceed the rows, the row and the rule of a violation
\* are positions.
THEOREM TypeCorrect == Spec => []TypeOK
<1>1. CInv => TypeOK
  BY DEF CInv
<1> QED BY <1>1, CheckInvariance, PTL

\* A call that succeeds reports exactly the rows and rules that are in
\* violation by the definition over the whole file, each once and in order.
THEOREM FindsAllViolationsAlways == Spec => []FindsAllViolations
<1>1. CInv => FindsAllViolations
  <2> SUFFICES ASSUME CInv, at = "ok" PROVE
        /\ bad = 0
        /\ \A k \in DOMAIN csv, p \in DOMAIN rules : Due(k, p) <=> Found(k, p)
        /\ \A h \in DOMAIN violations : Own(h)
    BY DEF FindsAllViolations, Found, Own
  <2>1. row = Len(csv) /\ bad = 0
    BY DEF CInv, TypeOK, Clean
  <2>2. \A k \in DOMAIN csv, p \in DOMAIN rules : Passed(k, p)
    BY <2>1 DEF Passed, CInv, TypeOK
  <2> QED BY <2>1, <2>2 DEF CInv, Reported, InOrder
<1> QED BY <1>1, CheckInvariance, PTL

-----------------------------------------------------------------------------
(* Sequences built element by element                                      *)

\* Induction, over a set instead of a predicate.
LEMMA NatInduct ==
  ASSUME NEW T, 0 \in T, \A n \in Nat : n \in T => n + 1 \in T
  PROVE  Nat \subseteq T
<1> SUFFICES ASSUME Nat \ T # {} PROVE FALSE
  OBVIOUS
<1>1. PICK x \in Nat \ T : \A y \in Nat \ T : ~(<<y, x>> \in OpToRel(<, Nat))
  <2>1. IsWellFoundedOn(OpToRel(<, Nat), Nat) /\ Nat \ T \subseteq Nat
    BY NatLessThanWellFounded
  <2> QED BY <2>1, WFMin
<1>2. x - 1 \in Nat /\ x - 1 + 1 = x
  <2>1. x # 0 /\ x \in Nat
    OBVIOUS
  <2> QED BY <2>1
<1>3. x - 1 \notin Nat \ T
  <2>1. <<x - 1, x>> \in OpToRel(<, Nat)
    BY <1>1, <1>2 DEF OpToRel
  <2> QED BY <1>1, <2>1
<1> QED BY <1>1, <1>2, <1>3

\* Two runs over positions that agree on each next step agree everywhere.
LEMMA RunsAgree ==
  ASSUME NEW n \in Nat, NEW f, NEW g, f[0] = g[0],
         \A k \in 0..(n - 1) : f[k] = g[k] => f[k + 1] = g[k + 1]
  PROVE  \A k \in 0..n : f[k] = g[k]
<1> DEFINE T == {k \in Nat : k <= n => f[k] = g[k]}
<1>1. 0 \in T
  OBVIOUS
<1>2. ASSUME NEW k \in Nat, k \in T PROVE k + 1 \in T
  <2>1. CASE k + 1 <= n
    <3>1. k \in 0..(n - 1) /\ f[k] = g[k]
      BY <1>2, <2>1
    <3> QED BY <3>1
  <2>2. CASE ~(k + 1 <= n)
    BY <2>2
  <2> QED BY <2>1, <2>2
<1>3. Nat \subseteq T
  <2> HIDE DEF T
  <2> QED BY <1>1, <1>2, NatInduct
<1> QED BY <1>3

IsRun(f, T, first, step) ==
  f \in [Nat -> T] /\ f[0] = first /\ \A k \in Nat : f[k + 1] = step[k][f[k]]

\* A value and the steps that lead from one to the next define a run.
LEMMA RunExists ==
  ASSUME NEW T, NEW first, first \in T, NEW step, step \in [Nat -> [T -> T]]
  PROVE  \E f : IsRun(f, T, first, step)
<1> DEFINE Part(f, n) == /\ f \in [0..n -> T] /\ f[0] = first
                         /\ \A k \in 0..(n - 1) : f[k + 1] = step[k][f[k]]
           N == {n \in Nat : \E f : Part(f, n)}
<1>1. 0 \in N
  <2>1. Part([k \in 0..0 |-> first], 0)
    OBVIOUS
  <2> HIDE DEF Part
  <2> QED BY <2>1
<1>2. ASSUME NEW n \in Nat, n \in N PROVE n + 1 \in N
  <2>1. PICK f : Part(f, n)
    BY <1>2
  <2> DEFINE g == [k \in 0..(n + 1) |-> IF k = n + 1 THEN step[n][f[n]] ELSE f[k]]
  <2>2. f[n] \in T /\ n \in Nat
    BY <2>1
  <2>3. step[n][f[n]] \in T
    BY <2>2
  <2>4. g \in [0..(n + 1) -> T] /\ g[0] = first
    BY <2>1, <2>3
  <2>5. ASSUME NEW k \in 0..n PROVE g[k + 1] = step[k][g[k]]
    <3>1. CASE k = n
      <4>1. n + 1 \in 0..(n + 1) /\ n \in 0..(n + 1) /\ n # n + 1
        OBVIOUS
      <4> QED BY <3>1, <4>1
    <3>2. CASE k # n
      <4>1. k \in 0..(n - 1) /\ k \in 0..(n + 1) /\ k + 1 \in 0..(n + 1) /\ k + 1 # n + 1 /\ k # n + 1
        BY <3>2
      <4>2. g[k + 1] = f[k + 1] /\ g[k] = f[k]
        BY <4>1
      <4>3. f[k + 1] = step[k][f[k]]
        BY <2>1, <4>1
      <4> QED BY <4>2, <4>3
    <3> QED BY <3>1, <3>2
  <2>6. Part(g, n + 1)
    <3>1. n + 1 - 1 = n
      OBVIOUS
    <3> HIDE DEF g
    <3> QED BY <2>4, <2>5, <3>1
  <2> HIDE DEF Part, g
  <2> QED BY <2>6
<1>3. Nat \subseteq N
  <2> HIDE DEF N
  <2> QED BY <1>1, <1>2, NatInduct
<1> DEFINE part == [n \in Nat |-> CHOOSE f : Part(f, n)]
           run == [n \in Nat |-> part[n][n]]
<1>4. ASSUME NEW n \in Nat PROVE Part(part[n], n)
  <2> HIDE DEF Part
  <2>1. \E f : Part(f, n)
    BY <1>3
  <2> QED BY <2>1
<1>5. run \in [Nat -> T]
  <2>1. ASSUME NEW n \in Nat PROVE part[n][n] \in T
    <3>1. part[n] \in [0..n -> T]
      BY <1>4
    <3> HIDE DEF part
    <3> QED BY <3>1
  <2> HIDE DEF part
  <2> QED BY <2>1
<1>6. run[0] = first
  <2>1. part[0][0] = first
    BY <1>4
  <2> HIDE DEF part
  <2> QED BY <2>1
<1>7. ASSUME NEW k \in Nat PROVE run[k + 1] = step[k][run[k]]
  <2>1. Part(part[k], k) /\ Part(part[k + 1], k + 1) /\ k + 1 - 1 = k
    <3> HIDE DEF Part, part
    <3> QED BY <1>4
  <2> HIDE DEF part
  <2>2. part[k][0] = part[k + 1][0]
    BY <2>1
  <2>3. ASSUME NEW j \in 0..(k - 1), part[k][j] = part[k + 1][j]
        PROVE  part[k][j + 1] = part[k + 1][j + 1]
    <3>1. j \in 0..k
      OBVIOUS
    <3>2. part[k][j + 1] = step[j][part[k][j]]
      BY <2>1
    <3>3. part[k + 1][j + 1] = step[j][part[k + 1][j]]
      BY <2>1, <3>1
    <3> QED BY <2>3, <3>2, <3>3
  <2>4. part[k][k] = part[k + 1][k]
    <3> DEFINE p == part[k]
               q == part[k + 1]
    <3>1. p[0] = q[0] /\ \A j \in 0..(k - 1) : p[j] = q[j] => p[j + 1] = q[j + 1]
      BY <2>2, <2>3
    <3> HIDE DEF p, q
    <3>2. \A j \in 0..k : p[j] = q[j]
      BY <3>1, RunsAgree
    <3> QED BY <3>2 DEF p, q
  <2>5. part[k + 1][k + 1] = step[k][part[k + 1][k]]
    BY <2>1
  <2>6. run[k] = part[k][k] /\ run[k + 1] = part[k + 1][k + 1]
    BY k + 1 \in Nat
  <2> HIDE DEF run
  <2> QED BY <2>4, <2>5, <2>6
<1> HIDE DEF run
<1> QED BY <1>5, <1>6, <1>7 DEF IsRun

\* The elements of a sequence that grows.
LEMMA RangeAppend ==
  ASSUME NEW S, NEW s \in Seq(S), NEW x \in S
  PROVE  Append(s, x) \in Seq(S) /\ Range(Append(s, x)) = Range(s) \cup {x}
<1>1. /\ Append(s, x) \in Seq(S) /\ Len(Append(s, x)) = Len(s) + 1 /\ Len(s) \in Nat
      /\ \A k \in 1..Len(s) : Append(s, x)[k] = s[k]
      /\ Append(s, x)[Len(s) + 1] = x
  OBVIOUS
<1>2. DOMAIN s = 1..Len(s) /\ DOMAIN Append(s, x) = 1..(Len(s) + 1)
  BY <1>1
<1>3. \A k \in 1..(Len(s) + 1) : k \in 1..Len(s) \/ k = Len(s) + 1
  BY <1>1
<1>4. 1..Len(s) \subseteq 1..(Len(s) + 1) /\ Len(s) + 1 \in 1..(Len(s) + 1)
  BY <1>1
<1> QED BY <1>1, <1>2, <1>3, <1>4 DEF Range

\* The elements of two sequences in a row.
LEMMA RangeConcat ==
  ASSUME NEW S, NEW s \in Seq(S), NEW t \in Seq(S)
  PROVE  s \o t \in Seq(S) /\ Range(s \o t) = Range(s) \cup Range(t)
<1>1. /\ s \o t \in Seq(S) /\ Len(s \o t) = Len(s) + Len(t) /\ Len(s) \in Nat /\ Len(t) \in Nat
      /\ \A k \in 1..(Len(s) + Len(t)) :
           (s \o t)[k] = IF k <= Len(s) THEN s[k] ELSE t[k - Len(s)]
  OBVIOUS
<1>2. DOMAIN s = 1..Len(s) /\ DOMAIN t = 1..Len(t) /\ DOMAIN (s \o t) = 1..(Len(s) + Len(t))
  BY <1>1
<1>3. Range(s \o t) \subseteq Range(s) \cup Range(t)
  <2> SUFFICES ASSUME NEW k \in 1..(Len(s) + Len(t)) PROVE (s \o t)[k] \in Range(s) \cup Range(t)
    BY <1>2 DEF Range
  <2>1. CASE k <= Len(s)
    <3>1. k \in DOMAIN s
      BY <1>1, <1>2, <2>1
    <3> QED BY <1>1, <2>1, <3>1 DEF Range
  <2>2. CASE ~(k <= Len(s))
    <3>1. k - Len(s) \in DOMAIN t
      BY <1>1, <1>2, <2>2
    <3> QED BY <1>1, <2>2, <3>1 DEF Range
  <2> QED BY <2>1, <2>2
<1>4. Range(s) \subseteq Range(s \o t)
  <2> SUFFICES ASSUME NEW k \in 1..Len(s) PROVE s[k] \in Range(s \o t)
    BY <1>2 DEF Range
  <2>1. k \in DOMAIN (s \o t) /\ (s \o t)[k] = s[k]
    BY <1>1, <1>2
  <2> QED BY <2>1 DEF Range
<1>5. Range(t) \subseteq Range(s \o t)
  <2> SUFFICES ASSUME NEW k \in 1..Len(t) PROVE t[k] \in Range(s \o t)
    BY <1>2 DEF Range
  <2>1. /\ Len(s) + k \in DOMAIN (s \o t) /\ (s \o t)[Len(s) + k] = t[Len(s) + k - Len(s)]
        /\ Len(s) + k - Len(s) = k
    BY <1>1, <1>2
  <2> QED BY <2>1 DEF Range
<1> QED BY <1>1, <1>3, <1>4, <1>5

-----------------------------------------------------------------------------
(* The operators of Lineage                                                *)

EndsAre(end, ws) == end = [k \in 0..Len(ws) |-> IF k = 0 THEN 0 ELSE end[k - 1] + ws[k]]

\* Each character ends as many bytes after the one before as it is wide.
LEMMA EndsRise ==
  ASSUME NEW ws \in Seq(1..4)
  PROVE  /\ L!Ends(ws) \in [0..Len(ws) -> Nat]
         /\ L!Ends(ws)[0] = 0
         /\ \A k \in 0..(Len(ws) - 1) : L!Ends(ws)[k + 1] = L!Ends(ws)[k] + ws[k + 1]
<1> DEFINE e == L!Ends(ws)
           step == [k \in Nat |-> [x \in Nat |-> IF k + 1 \in 1..Len(ws) THEN x + ws[k + 1] ELSE 0]]
<1>1. step \in [Nat -> [Nat -> Nat]]
  OBVIOUS
<1>2. PICK f : IsRun(f, Nat, 0, step)
  <2>1. 0 \in Nat
    OBVIOUS
  <2> HIDE DEF step
  <2> QED BY <1>1, <2>1, RunExists, Zenon
<1>3. ASSUME NEW k \in 0..(Len(ws) - 1)
      PROVE  f[k + 1] = f[k] + ws[k + 1]
  <2>1. k \in Nat /\ k + 1 \in 1..Len(ws)
    BY Len(ws) \in Nat
  <2>2. f[k] \in Nat /\ f[k + 1] = step[k][f[k]]
    BY <1>2, <2>1 DEF IsRun
  <2> QED BY <2>1, <2>2
<1>4. \E end : EndsAre(end, ws)
  <2> DEFINE g == [k \in 0..Len(ws) |-> f[k]]
  <2>1. ASSUME NEW k \in 0..Len(ws) PROVE f[k] = IF k = 0 THEN 0 ELSE g[k - 1] + ws[k]
    <3>1. CASE k = 0
      BY <1>2, <3>1 DEF IsRun
    <3>2. CASE k # 0
      <4>1. k - 1 \in 0..(Len(ws) - 1) /\ k - 1 + 1 = k /\ k - 1 \in 0..Len(ws)
        BY <3>2
      <4> QED BY <1>3, <3>2, <4>1
    <3> QED BY <3>1, <3>2
  <2>2. g = [k \in 0..Len(ws) |-> IF k = 0 THEN 0 ELSE g[k - 1] + ws[k]]
    BY <2>1
  <2> HIDE DEF g
  <2> QED BY <2>2 DEF EndsAre
<1>5. EndsAre(e, ws)
  <2>1. L!Ends(ws) = CHOOSE end : EndsAre(end, ws)
    BY DEF L!Ends, EndsAre
  <2> QED BY <1>4, <2>1
<1>6. /\ e = [k \in 0..Len(ws) |-> e[k]]
      /\ \A k \in 0..Len(ws) : e[k] = IF k = 0 THEN 0 ELSE e[k - 1] + ws[k]
  <2> HIDE DEF e
  <2> QED BY <1>5, Zenon DEF EndsAre
<1>7. e[0] = 0
  <2>1. 0 \in 0..Len(ws)
    OBVIOUS
  <2> HIDE DEF e
  <2> QED BY <1>6, <2>1
<1>8. ASSUME NEW k \in 0..(Len(ws) - 1) PROVE e[k + 1] = e[k] + ws[k + 1]
  <2>1. k + 1 \in 0..Len(ws) /\ k + 1 # 0 /\ k + 1 - 1 = k
    BY Len(ws) \in Nat
  <2> HIDE DEF e
  <2> QED BY <1>6, <2>1
<1>9. \A k \in 0..Len(ws) : e[k] = f[k]
  <2>1. \A k \in 0..(Len(ws) - 1) : e[k] = f[k] => e[k + 1] = f[k + 1]
    BY <1>3, <1>8
  <2>2. Len(ws) \in Nat /\ e[0] = f[0]
    BY <1>2, <1>7 DEF IsRun
  <2> HIDE DEF e
  <2> QED BY <2>1, <2>2, RunsAgree, Zenon
<1>10. e \in [0..Len(ws) -> Nat]
  <2> HIDE DEF e
  <2> QED BY <1>2, <1>6, <1>9 DEF IsRun
<1> QED BY <1>7, <1>8, <1>10

\* No boundary is behind the end of the text.
LEMMA BoundariesEnd ==
  ASSUME NEW ws \in Seq(1..4)
  PROVE  /\ L!Boundaries(ws) \subseteq Nat
         /\ 0 \in L!Boundaries(ws)
         /\ L!Bytes(ws) \in L!Boundaries(ws)
         /\ \A b \in L!Boundaries(ws) : b <= L!Bytes(ws)
<1> DEFINE e == L!Ends(ws)
           n == Len(ws)
<1>1. /\ e \in [0..n -> Nat] /\ e[0] = 0
      /\ \A k \in 0..(n - 1) : e[k + 1] = e[k] + ws[k + 1]
      /\ n \in Nat
  BY EndsRise
<1>2. L!Boundaries(ws) = {e[k] : k \in 0..n} /\ L!Bytes(ws) = e[n]
  BY DEF L!Boundaries, L!Bytes
<1> DEFINE T == {j \in Nat : j <= n => \A k \in 0..j : e[k] <= e[j]}
<1>3. 0 \in T
  <2> HIDE DEF e
  <2> QED BY <1>1
<1>4. ASSUME NEW j \in Nat, j \in T PROVE j + 1 \in T
  <2> HIDE DEF e
  <2> SUFFICES ASSUME j + 1 <= n, NEW k \in 0..(j + 1) PROVE e[k] <= e[j + 1]
    OBVIOUS
  <2>1. /\ j \in 0..(n - 1) /\ j \in 0..n /\ j + 1 \in 0..n /\ k \in 0..n /\ j + 1 \in 1..n
    BY <1>1
  <2>2. e[j + 1] = e[j] + ws[j + 1] /\ ws[j + 1] \in 1..4
    BY <1>1, <2>1
  <2>3. k = j + 1 \/ (k \in 0..j /\ e[k] <= e[j])
    BY <1>4, <2>1
  <2>4. e[k] \in Nat /\ e[j] \in Nat /\ e[j + 1] \in Nat
    BY <1>1, <2>1
  <2> QED BY <2>2, <2>3, <2>4
<1>5. Nat \subseteq T
  <2> HIDE DEF T
  <2> QED BY <1>3, <1>4, NatInduct
<1>6. \A k \in 0..n : e[k] <= e[n]
  <2> HIDE DEF e
  <2> QED BY <1>1, <1>5
<1>7. 0 \in 0..n /\ n \in 0..n
  BY <1>1
<1> HIDE DEF e, n
<1> QED BY <1>1, <1>2, <1>6, <1>7

BackIs(back, ws) ==
  back = [end \in 0..Quoted |-> IF end \in L!Boundaries(ws) THEN end ELSE back[end - 1]]

\* The quoted part ends at the last boundary that is not behind the limit.
LEMMA SafePrefixGreatest ==
  ASSUME NEW ws \in Seq(1..4)
  PROVE  /\ L!SafePrefix(ws) \in L!Boundaries(ws)
         /\ \A b \in L!Boundaries(ws) : b <= Quoted => b <= L!SafePrefix(ws)
<1> DEFINE B == L!Boundaries(ws)
<1>1. B \subseteq Nat /\ 0 \in B /\ L!Bytes(ws) \in B /\ \A b \in B : b <= L!Bytes(ws)
  BY BoundariesEnd
<1>2. CASE L!Bytes(ws) <= Quoted
  BY <1>1, <1>2 DEF L!SafePrefix
<1>3. CASE ~(L!Bytes(ws) <= Quoted)
  <2> DEFINE Last(b, n) == b \in B /\ b <= n /\ \A c \in B : c <= n => c <= b
             step == [k \in Nat |-> [x \in Nat |-> IF k + 1 \in B THEN k + 1 ELSE x]]
             back == CHOOSE g : BackIs(g, ws)
  <2>0. Quoted \in Nat
    BY LineageAssumption
  <2>1. step \in [Nat -> [Nat -> Nat]]
    <3> HIDE DEF B
    <3> QED OBVIOUS
  <2>2. PICK f : IsRun(f, Nat, 0, step)
    <3>1. 0 \in Nat
      OBVIOUS
    <3> HIDE DEF step
    <3> QED BY <2>1, <3>1, RunExists, Zenon
  <2>3. ASSUME NEW k \in Nat PROVE f[k + 1] = IF k + 1 \in B THEN k + 1 ELSE f[k]
    <3>1. f[k] \in Nat /\ f[k + 1] = step[k][f[k]]
      BY <2>2 DEF IsRun
    <3> HIDE DEF B
    <3> QED BY <3>1
  <2>4. \E g : BackIs(g, ws)
    <3> DEFINE g == [k \in 0..Quoted |-> f[k]]
    <3>1. ASSUME NEW k \in 0..Quoted PROVE f[k] = IF k \in B THEN k ELSE g[k - 1]
      <4> HIDE DEF B
      <4>1. CASE k = 0
        BY <1>1, <2>2, <4>1 DEF IsRun
      <4>2. CASE k # 0
        <5>1. k - 1 \in Nat /\ k - 1 + 1 = k /\ k - 1 \in 0..Quoted
          BY <2>0, <4>2
        <5> QED BY <2>3, <5>1
      <4> QED BY <4>1, <4>2
    <3>2. g = [k \in 0..Quoted |-> IF k \in B THEN k ELSE g[k - 1]]
      BY <3>1
    <3> HIDE DEF g
    <3> QED BY <3>2 DEF BackIs
  <2>5. BackIs(back, ws)
    BY <2>4
  <2>6. L!SafePrefix(ws) = back[Quoted]
    BY <1>3 DEF L!SafePrefix, BackIs
  <2> HIDE DEF back, B
  <2>7. \A k \in 0..Quoted : back[k] = IF k \in B THEN k ELSE back[k - 1]
    BY <2>5, Zenon DEF BackIs, B
  <2> DEFINE T == {k \in Nat : k <= Quoted => Last(back[k], k)}
  <2>8. 0 \in T
    <3>1. back[0] = 0
      BY <1>1, <2>0, <2>7
    <3>2. \A c \in B : c \in Nat
      BY <1>1
    <3> QED BY <1>1, <3>1, <3>2
  <2>9. ASSUME NEW k \in Nat, k \in T PROVE k + 1 \in T
    <3> SUFFICES ASSUME k + 1 <= Quoted PROVE Last(back[k + 1], k + 1)
      OBVIOUS
    <3>1. Last(back[k], k) /\ k + 1 \in 0..Quoted /\ k + 1 - 1 = k
      BY <2>0, <2>9
    <3>2. back[k + 1] = IF k + 1 \in B THEN k + 1 ELSE back[k]
      BY <2>7, <3>1
    <3>3. ASSUME NEW c \in B PROVE c \in Nat /\ (c <= k + 1 <=> (c <= k \/ c = k + 1))
      <4>1. c \in Nat
        BY <1>1
      <4> QED BY <4>1
    <3>4. CASE k + 1 \in B
      BY <3>2, <3>3, <3>4, k + 1 \in Nat
    <3>5. CASE k + 1 \notin B
      <4>1. back[k] \in Nat
        BY <1>1, <3>1
      <4> QED BY <3>1, <3>2, <3>3, <3>5, <4>1
    <3> QED BY <3>4, <3>5
  <2>10. Nat \subseteq T
    <3> HIDE DEF T
    <3> QED BY <2>8, <2>9, NatInduct
  <2>11. Last(back[Quoted], Quoted)
    BY <2>0, <2>10
  <2> QED BY <2>6, <2>11 DEF B
<1> QED BY <1>2, <1>3

FlatIs(flat, ss) == flat = [i \in 1..Len(ss) |-> IF i = 1 THEN ss[i] ELSE flat[i - 1] \o ss[i]]

\* Flattening keeps the elements.
LEMMA FlattenRange ==
  ASSUME NEW S, NEW ss \in Seq(Seq(S))
  PROVE  /\ L!FlattenSeq(ss) \in Seq(S)
         /\ Range(L!FlattenSeq(ss)) = UNION {Range(ss[k]) : k \in DOMAIN ss}
<1> DEFINE n == Len(ss)
           step == [k \in Nat |-> [t \in Seq(S) |-> IF k + 1 \in 1..n THEN t \o ss[k + 1] ELSE t]]
<1>0. n \in Nat /\ DOMAIN ss = 1..n /\ \A k \in 1..n : ss[k] \in Seq(S)
  OBVIOUS
<1> HIDE DEF n
<1>1. step \in [Nat -> [Seq(S) -> Seq(S)]]
  <2>1. ASSUME NEW k \in Nat, NEW t \in Seq(S)
        PROVE  (IF k + 1 \in 1..n THEN t \o ss[k + 1] ELSE t) \in Seq(S)
    <3>1. CASE k + 1 \in 1..n
      BY <1>0, <3>1, RangeConcat
    <3>2. CASE k + 1 \notin 1..n
      BY <3>2
    <3> QED BY <3>1, <3>2
  <2> QED BY <2>1
<1>2. PICK f : IsRun(f, Seq(S), <<>>, step)
  <2>1. <<>> \in Seq(S)
    OBVIOUS
  <2> HIDE DEF step
  <2> QED BY <1>1, <2>1, RunExists, Zenon
<1>3. f \in [Nat -> Seq(S)] /\ f[0] = <<>>
  BY <1>2 DEF IsRun
<1>4. ASSUME NEW k \in Nat, k + 1 <= n
      PROVE  f[k + 1] = f[k] \o ss[k + 1]
  <2>1. k + 1 \in 1..n
    BY <1>0, <1>4
  <2>2. f[k] \in Seq(S) /\ f[k + 1] = step[k][f[k]]
    BY <1>2 DEF IsRun
  <2> QED BY <2>1, <2>2
<1> HIDE DEF step
<1> DEFINE T == {k \in Nat : k <= n => Range(f[k]) = UNION {Range(ss[j]) : j \in 1..k}}
<1>5. 0 \in T
  BY <1>3 DEF Range
<1>6. ASSUME NEW k \in Nat, k \in T PROVE k + 1 \in T
  <2> SUFFICES ASSUME k + 1 <= n PROVE Range(f[k + 1]) = UNION {Range(ss[j]) : j \in 1..(k + 1)}
    OBVIOUS
  <2>1. Range(f[k]) = UNION {Range(ss[j]) : j \in 1..k} /\ k + 1 \in 1..n
    BY <1>0, <1>6
  <2>2. f[k] \in Seq(S) /\ ss[k + 1] \in Seq(S) /\ f[k + 1] = f[k] \o ss[k + 1]
    BY <1>0, <1>3, <1>4, <2>1
  <2>3. Range(f[k + 1]) = Range(f[k]) \cup Range(ss[k + 1])
    BY <2>2, RangeConcat
  <2>4. 1..(k + 1) = 1..k \cup {k + 1}
    OBVIOUS
  <2> QED BY <2>1, <2>3, <2>4
<1>7. Nat \subseteq T
  <2> HIDE DEF T
  <2> QED BY <1>5, <1>6, NatInduct
<1>8. Range(f[n]) = UNION {Range(ss[k]) : k \in DOMAIN ss}
  BY <1>0, <1>7
<1>9. CASE n = 0
  <2>1. L!FlattenSeq(ss) = <<>>
    BY <1>0, <1>9 DEF L!FlattenSeq, n
  <2>2. DOMAIN ss = {}
    BY <1>0, <1>9
  <2> QED BY <2>1, <2>2 DEF Range
<1>10. CASE n # 0
  <2> DEFINE flat == CHOOSE g : FlatIs(g, ss)
  <2>1. \E g : FlatIs(g, ss)
    <3> DEFINE g == [i \in 1..n |-> f[i]]
    <3>1. ASSUME NEW i \in 1..n PROVE f[i] = IF i = 1 THEN ss[i] ELSE g[i - 1] \o ss[i]
      <4>1. i - 1 \in Nat /\ i - 1 + 1 = i /\ i <= n
        BY <1>0
      <4>2. f[i] = f[i - 1] \o ss[i]
        BY <1>4, <4>1
      <4>3. CASE i = 1
        <5>1. f[i - 1] = <<>> /\ ss[i] \in Seq(S)
          BY <1>0, <1>3, <4>3
        <5>2. <<>> \o ss[i] = ss[i]
          BY <5>1
        <5> QED BY <4>2, <4>3, <5>1, <5>2
      <4>4. CASE i # 1
        <5>1. i - 1 \in 1..n
          BY <1>0, <4>4
        <5> QED BY <4>2, <4>4, <5>1
      <4> QED BY <4>3, <4>4
    <3>2. g = [i \in 1..n |-> IF i = 1 THEN ss[i] ELSE g[i - 1] \o ss[i]]
      BY <3>1
    <3> HIDE DEF g
    <3> QED BY <3>2 DEF FlatIs, n
  <2>2. FlatIs(flat, ss)
    BY <2>1
  <2>3. L!FlattenSeq(ss) = flat[n]
    BY <1>10 DEF L!FlattenSeq, FlatIs, n
  <2> HIDE DEF flat
  <2>4. \A i \in 1..n : flat[i] = IF i = 1 THEN ss[i] ELSE flat[i - 1] \o ss[i]
    BY <2>2, Zenon DEF FlatIs, n
  <2> DEFINE U == {k \in Nat : k \in 1..n => flat[k] = f[k]}
  <2>5. 0 \in U
    OBVIOUS
  <2>6. ASSUME NEW k \in Nat, k \in U PROVE k + 1 \in U
    <3> SUFFICES ASSUME k + 1 \in 1..n PROVE flat[k + 1] = f[k + 1]
      OBVIOUS
    <3>1. PICK j \in 1..n : j = k + 1
      OBVIOUS
    <3>2. k + 1 <= n /\ j - 1 = k
      BY <1>0, <3>1
    <3>3. f[j] = f[k] \o ss[j]
      BY <1>4, <3>1, <3>2
    <3>4. flat[j] = IF j = 1 THEN ss[j] ELSE flat[j - 1] \o ss[j]
      BY <2>4
    <3>5. CASE k = 0
      <4>1. ss[j] \in Seq(S) /\ f[k] = <<>>
        BY <1>0, <1>3, <3>5
      <4>2. <<>> \o ss[j] = ss[j]
        BY <4>1
      <4> QED BY <3>1, <3>3, <3>4, <3>5, <4>1, <4>2
    <3>6. CASE k # 0
      <4>1. flat[k] = f[k] /\ j # 1
        BY <1>0, <2>6, <3>1, <3>2, <3>6
      <4> QED BY <3>1, <3>2, <3>3, <3>4, <4>1
    <3> QED BY <3>5, <3>6
  <2>7. Nat \subseteq U
    <3> HIDE DEF U
    <3> QED BY <2>5, <2>6, NatInduct
  <2>8. flat[n] = f[n]
    <3>1. n \in U /\ n \in 1..n
      BY <1>0, <1>10, <2>7
    <3> QED BY <3>1
  <2> QED BY <1>0, <1>3, <1>8, <2>3, <2>8
<1> QED BY <1>9, <1>10

KeptIs(kept, s) ==
  kept = [k \in 0..Len(s) |->
            IF k = 0 THEN <<>>
            ELSE IF k > 1 /\ s[k] = s[k - 1] THEN kept[k - 1] ELSE Append(kept[k - 1], s[k])]

\* Of equal neighbours one stays, so that no element is lost.
LEMMA DedupRange ==
  ASSUME NEW S, NEW s \in Seq(S)
  PROVE  L!Dedup(s) \in Seq(S) /\ Range(L!Dedup(s)) = Range(s)
<1> DEFINE n == Len(s)
           Repeats(k) == k > 1 /\ s[k] = s[k - 1]
           step == [k \in Nat |-> [t \in Seq(S) |->
                      IF k + 1 \notin 1..n \/ Repeats(k + 1) THEN t ELSE Append(t, s[k + 1])]]
           kept == CHOOSE g : KeptIs(g, s)
<1>0. n \in Nat /\ DOMAIN s = 1..n /\ \A k \in 1..n : s[k] \in S
  OBVIOUS
<1>1. L!Dedup(s) = kept[n]
  BY DEF L!Dedup, KeptIs
<1> HIDE DEF n, Repeats
<1>2. step \in [Nat -> [Seq(S) -> Seq(S)]]
  <2>1. ASSUME NEW k \in Nat, NEW t \in Seq(S), k + 1 \in 1..n PROVE Append(t, s[k + 1]) \in Seq(S)
    BY <1>0, <2>1
  <2> QED BY <2>1
<1>3. PICK f : IsRun(f, Seq(S), <<>>, step)
  <2>1. <<>> \in Seq(S)
    OBVIOUS
  <2> HIDE DEF step
  <2> QED BY <1>2, <2>1, RunExists, Zenon
<1>4. f \in [Nat -> Seq(S)] /\ f[0] = <<>>
  BY <1>3 DEF IsRun
<1>5. ASSUME NEW k \in Nat, k + 1 <= n
      PROVE  f[k + 1] = IF Repeats(k + 1) THEN f[k] ELSE Append(f[k], s[k + 1])
  <2>1. k + 1 \in 1..n
    BY <1>0, <1>5
  <2>2. f[k] \in Seq(S) /\ f[k + 1] = step[k][f[k]]
    BY <1>3 DEF IsRun
  <2> QED BY <2>1, <2>2
<1> HIDE DEF step
<1>6. \E g : KeptIs(g, s)
  <2> DEFINE g == [k \in 0..n |-> f[k]]
  <2>1. ASSUME NEW k \in 0..n
        PROVE  f[k] = IF k = 0 THEN <<>> ELSE IF Repeats(k) THEN g[k - 1] ELSE Append(g[k - 1], s[k])
    <3>1. CASE k = 0
      BY <1>4, <3>1
    <3>2. CASE k # 0
      <4>1. PICK j \in Nat : j + 1 = k
        <5>1. k - 1 \in Nat /\ k - 1 + 1 = k
          BY <1>0, <3>2
        <5> QED BY <5>1
      <4>2. j + 1 <= n /\ k - 1 = j /\ j \in 0..n
        BY <1>0, <4>1
      <4> QED BY <1>5, <3>2, <4>1, <4>2
    <3> QED BY <3>1, <3>2
  <2>2. g = [k \in 0..n |-> IF k = 0 THEN <<>>
                            ELSE IF Repeats(k) THEN g[k - 1] ELSE Append(g[k - 1], s[k])]
    BY <2>1
  <2> HIDE DEF g
  <2> QED BY <2>2 DEF KeptIs, n, Repeats
<1>7. KeptIs(kept, s)
  BY <1>6
<1> HIDE DEF kept
<1>8. \A k \in 0..n : kept[k] = IF k = 0 THEN <<>>
                                ELSE IF Repeats(k) THEN kept[k - 1] ELSE Append(kept[k - 1], s[k])
  BY <1>7, Zenon DEF KeptIs, n, Repeats
<1> DEFINE T == {k \in Nat : k <= n => kept[k] \in Seq(S) /\ Range(kept[k]) = {s[j] : j \in 1..k}}
<1>9. 0 \in T
  <2>1. kept[0] = <<>>
    BY <1>0, <1>8
  <2>2. <<>> \in Seq(S) /\ Range(<<>>) = {} /\ 1..0 = {}
    BY DEF Range
  <2> QED BY <2>1, <2>2
<1>10. ASSUME NEW k \in Nat, k \in T PROVE k + 1 \in T
  <2> SUFFICES ASSUME k + 1 <= n
               PROVE  kept[k + 1] \in Seq(S) /\ Range(kept[k + 1]) = {s[j] : j \in 1..(k + 1)}
    OBVIOUS
  <2>1. PICK i \in 0..n : i = k + 1
    BY <1>0
  <2>2. i # 0 /\ i - 1 = k /\ i \in 1..n /\ k <= n
    BY <1>0, <2>1
  <2>3. kept[i] = IF Repeats(i) THEN kept[k] ELSE Append(kept[k], s[i])
    BY <1>8, <2>2
  <2>4. kept[k] \in Seq(S) /\ Range(kept[k]) = {s[j] : j \in 1..k} /\ s[i] \in S
    BY <1>0, <1>10, <2>2
  <2>5. 1..i = 1..k \cup {i}
    BY <2>1
  <2>6. CASE Repeats(i)
    <3>1. k \in 1..k /\ s[i] = s[k]
      BY <2>1, <2>2, <2>6 DEF Repeats
    <3> QED BY <2>1, <2>3, <2>4, <2>5, <2>6, <3>1
  <2>7. CASE ~Repeats(i)
    <3>1. kept[i] \in Seq(S) /\ Range(kept[i]) = Range(kept[k]) \cup {s[i]}
      BY <2>3, <2>4, <2>7, RangeAppend
    <3> QED BY <2>1, <2>4, <2>5, <3>1
  <2> QED BY <2>6, <2>7
<1>11. Nat \subseteq T
  <2> HIDE DEF T
  <2> QED BY <1>9, <1>10, NatInduct
<1>12. n \in T
  <2> HIDE DEF T
  <2> QED BY <1>0, <1>11
<1>13. kept[n] \in Seq(S) /\ Range(kept[n]) = {s[j] : j \in 1..n}
  BY <1>0, <1>12
<1>14. Range(s) = {s[j] : j \in 1..n}
  BY <1>0 DEF Range
<1> HIDE DEF T
<1> QED BY <1>1, <1>13, <1>14

AddedIs(added, s, new) ==
  added = [k \in 0..Len(new) |->
             IF k = 0 THEN s
             ELSE IF L!Contains(added[k - 1], new[k]) THEN added[k - 1] ELSE Append(added[k - 1], new[k])]

\* What a search through the positions finds is an element.
LEMMA ContainsIsInRange ==
  ASSUME NEW S, NEW s \in Seq(S), NEW x
  PROVE  L!Contains(s, x) <=> x \in Range(s)
BY DEF L!Contains, Range

\* What is appended only if it is not there is there once.
LEMMA AddNewOnce ==
  ASSUME NEW S, NEW s \in Seq(S), NEW new \in Seq(S)
  PROVE  /\ L!AddNew(s, new) \in Seq(S)
         /\ Range(L!AddNew(s, new)) = Range(s) \cup Range(new)
         /\ IsInjective(s) => IsInjective(L!AddNew(s, new))
<1> DEFINE n == Len(new)
           Add(t, x) == IF L!Contains(t, x) THEN t ELSE Append(t, x)
           step == [k \in Nat |-> [t \in Seq(S) |-> IF k + 1 \notin 1..n THEN t ELSE Add(t, new[k + 1])]]
           added == CHOOSE g : AddedIs(g, s, new)
<1>0. n \in Nat /\ DOMAIN new = 1..n /\ \A k \in 1..n : new[k] \in S
  OBVIOUS
<1>1. L!AddNew(s, new) = added[n]
  BY DEF L!AddNew, AddedIs
<1>2. ASSUME NEW t \in Seq(S), NEW x \in S
      PROVE  /\ Add(t, x) \in Seq(S)
             /\ Range(Add(t, x)) = Range(t) \cup {x}
             /\ IsInjective(t) => IsInjective(Add(t, x))
  <2>1. CASE L!Contains(t, x)
    BY <2>1, ContainsIsInRange
  <2>2. CASE ~L!Contains(t, x)
    <3>1. x \notin Range(t)
      BY <2>2, ContainsIsInRange
    <3>2. /\ Len(t) \in Nat /\ DOMAIN t = 1..Len(t) /\ DOMAIN Append(t, x) = 1..(Len(t) + 1)
          /\ \A k \in 1..Len(t) : Append(t, x)[k] = t[k]
          /\ Append(t, x)[Len(t) + 1] = x
      OBVIOUS
    <3>3. \A k \in 1..(Len(t) + 1) : k \in 1..Len(t) \/ k = Len(t) + 1
      BY <3>2
    <3>4. \A k \in 1..Len(t) : t[k] # x
      BY <3>1, <3>2 DEF Range
    <3>5. IsInjective(t) => IsInjective(Append(t, x))
      BY <3>2, <3>3, <3>4 DEF IsInjective
    <3> QED BY <2>2, <3>5, RangeAppend
  <2> QED BY <2>1, <2>2
<1> HIDE DEF n, Add
<1>3. step \in [Nat -> [Seq(S) -> Seq(S)]]
  BY <1>0, <1>2
<1>4. PICK f : IsRun(f, Seq(S), s, step)
  <2> HIDE DEF step
  <2> QED BY <1>3, RunExists, Zenon
<1>5. f \in [Nat -> Seq(S)] /\ f[0] = s
  BY <1>4 DEF IsRun
<1>6. ASSUME NEW k \in Nat, k + 1 <= n PROVE f[k + 1] = Add(f[k], new[k + 1])
  <2>1. k + 1 \in 1..n
    BY <1>0, <1>6
  <2>2. f[k] \in Seq(S) /\ f[k + 1] = step[k][f[k]]
    BY <1>4 DEF IsRun
  <2> QED BY <2>1, <2>2
<1> HIDE DEF step
<1>7. \E g : AddedIs(g, s, new)
  <2> DEFINE g == [k \in 0..n |-> f[k]]
  <2>1. ASSUME NEW k \in 0..n PROVE f[k] = IF k = 0 THEN s ELSE Add(g[k - 1], new[k])
    <3>1. CASE k = 0
      BY <1>5, <3>1
    <3>2. CASE k # 0
      <4>1. PICK j \in Nat : j + 1 = k
        <5>1. k - 1 \in Nat /\ k - 1 + 1 = k
          BY <1>0, <3>2
        <5> QED BY <5>1
      <4>2. j + 1 <= n /\ k - 1 = j /\ j \in 0..n
        BY <1>0, <4>1
      <4> QED BY <1>6, <3>2, <4>1, <4>2
    <3> QED BY <3>1, <3>2
  <2>2. g = [k \in 0..n |-> IF k = 0 THEN s ELSE Add(g[k - 1], new[k])]
    BY <2>1
  <2> HIDE DEF g
  <2> QED BY <2>2 DEF AddedIs, n, Add
<1>8. AddedIs(added, s, new)
  BY <1>7
<1> HIDE DEF added
<1>9. \A k \in 0..n : added[k] = IF k = 0 THEN s ELSE Add(added[k - 1], new[k])
  BY <1>8, Zenon DEF AddedIs, n, Add
<1> DEFINE T == {k \in Nat : k <= n => /\ added[k] \in Seq(S)
                                       /\ Range(added[k]) = Range(s) \cup {new[j] : j \in 1..k}
                                       /\ IsInjective(s) => IsInjective(added[k])}
<1>10. 0 \in T
  <2>1. added[0] = s
    BY <1>0, <1>9
  <2> QED BY <2>1
<1>11. ASSUME NEW k \in Nat, k \in T PROVE k + 1 \in T
  <2> SUFFICES ASSUME k + 1 <= n
               PROVE  /\ added[k + 1] \in Seq(S)
                      /\ Range(added[k + 1]) = Range(s) \cup {new[j] : j \in 1..(k + 1)}
                      /\ IsInjective(s) => IsInjective(added[k + 1])
    OBVIOUS
  <2>1. PICK i \in 0..n : i = k + 1
    BY <1>0
  <2>2. i # 0 /\ i - 1 = k /\ i \in 1..n /\ k <= n
    BY <1>0, <2>1
  <2>3. added[i] = Add(added[k], new[i]) /\ new[i] \in S
    BY <1>0, <1>9, <2>2
  <2>4. /\ added[k] \in Seq(S) /\ Range(added[k]) = Range(s) \cup {new[j] : j \in 1..k}
        /\ IsInjective(s) => IsInjective(added[k])
    BY <1>11, <2>2
  <2>5. 1..i = 1..k \cup {i}
    BY <2>1
  <2>6. /\ added[i] \in Seq(S) /\ Range(added[i]) = Range(added[k]) \cup {new[i]}
        /\ IsInjective(added[k]) => IsInjective(added[i])
    BY <1>2, <2>3, <2>4
  <2> QED BY <2>1, <2>4, <2>5, <2>6
<1>12. Nat \subseteq T
  <2> HIDE DEF T
  <2> QED BY <1>10, <1>11, NatInduct
<1>13. n \in T
  BY <1>0, <1>12
<1>14. Range(new) = {new[j] : j \in 1..n}
  BY <1>0 DEF Range
<1>15. /\ added[n] \in Seq(S) /\ Range(added[n]) = Range(s) \cup {new[j] : j \in 1..n}
       /\ IsInjective(s) => IsInjective(added[n])
  BY <1>0, <1>13
<1> HIDE DEF T
<1> QED BY <1>1, <1>14, <1>15

-----------------------------------------------------------------------------
(* The tables of a query                                                   *)

Names == {n.name : n \in Node}

Body(f, n) ==
  IF n.node = "table" THEN <<n.name>>
  ELSE L!FlattenSeq([k \in DOMAIN L!Visited(n) |-> f[L!Visited(n)[k]]])

\* What is visited from a node are its children, and these are lower.
LEMMA VisitedAreChildren ==
  ASSUME NEW n \in Node
  PROVE  /\ L!Visited(n) \in Seq(Node) /\ Range(L!Visited(n)) = L!Children(n)
         /\ Height[n] \in Nat
         /\ \A c \in L!Children(n) : c \in Node /\ Height[c] \in Nat /\ Height[c] < Height[n]
<1>1. /\ Height[n] \in Nat
      /\ \A c \in L!Children(n) : c \in Node /\ Height[c] \in Nat /\ Height[c] < Height[n]
  BY SyntaxAssumption
<1>2. CASE n.node = "select"
  BY <1>1, <1>2, SyntaxAssumption DEF L!Visited, L!Children, L!Range, Range
<1>3. CASE n.node = "setop"
  <2>1. n.left \in Node /\ n.right \in Node
    BY <1>1, <1>3 DEF L!Children
  <2>2. L!Visited(n) = <<n.left, n.right>> /\ L!Children(n) = {n.left, n.right}
    BY <1>3 DEF L!Visited, L!Children
  <2>3. Range(<<n.left, n.right>>) = {n.left, n.right}
    BY DEF Range
  <2> QED BY <1>1, <2>1, <2>2, <2>3
<1>4. CASE n.node \in {"query", "derived", "nested"}
  <2>1. PICK c : L!Visited(n) = <<c>> /\ L!Children(n) = {c}
    BY <1>4 DEF L!Visited, L!Children
  <2>2. c \in Node /\ Range(<<c>>) = {c}
    BY <1>1, <2>1 DEF Range
  <2> QED BY <1>1, <2>1, <2>2
<1>5. CASE n.node = "joined"
  <2>1. n.joins \in Seq(Node) /\ L!Children(n) = {n.relation} \cup Range(n.joins)
    BY <1>5, SyntaxAssumption DEF L!Children, L!Range, Range
  <2>2. n.relation \in Node
    BY <1>1, <2>1
  <2> DEFINE r == <<n.relation>>
             j == n.joins
  <2>3. r \in Seq(Node) /\ Range(r) = {n.relation} /\ j \in Seq(Node)
    BY <2>1, <2>2 DEF Range
  <2>4. L!Visited(n) = r \o j
    BY <1>5 DEF L!Visited, L!Relations
  <2>5. r \o j \in Seq(Node) /\ Range(r \o j) = Range(r) \cup Range(j)
    <3> HIDE DEF r, j
    <3> QED BY <2>3, RangeConcat
  <2> QED BY <1>1, <2>1, <2>3, <2>4, <2>5
<1>6. CASE n.node \notin {"select", "setop", "query", "derived", "nested", "joined"}
  <2>1. L!Visited(n) = <<>> /\ L!Children(n) = {}
    BY <1>6 DEF L!Visited, L!Children
  <2>2. <<>> \in Seq(Node) /\ Range(<<>>) = {}
    BY DEF Range
  <2> QED BY <1>1, <2>1, <2>2
<1> QED BY <1>2, <1>3, <1>4, <1>5, <1>6

\* The tables of a node are its name, if it is a table, and else those of its
\* children.
LEMMA BodyRange ==
  ASSUME NEW n \in Node, NEW f, \A c \in L!Children(n) : f[c] \in Seq(Names)
  PROVE  /\ Body(f, n) \in Seq(Names)
         /\ Range(Body(f, n)) = IF n.node = "table" THEN {n.name}
                                ELSE UNION {Range(f[c]) : c \in L!Children(n)}
<1>1. CASE n.node = "table"
  <2>1. Body(f, n) = <<n.name>> /\ n.name \in Names
    BY <1>1 DEF Body, Names
  <2> QED BY <1>1, <2>1 DEF Range
<1>2. CASE n.node # "table"
  <2> DEFINE v == L!Visited(n)
             ss == [k \in DOMAIN v |-> f[v[k]]]
  <2>1. v \in Seq(Node) /\ Range(v) = L!Children(n)
    BY VisitedAreChildren
  <2> HIDE DEF v
  <2>2. DOMAIN v = 1..Len(v) /\ Len(v) \in Nat
    BY <2>1
  <2>3. \A k \in DOMAIN v : f[v[k]] \in Seq(Names)
    BY <2>1 DEF Range
  <2>4. ss \in Seq(Seq(Names))
    BY <2>2, <2>3
  <2>5. UNION {Range(ss[k]) : k \in DOMAIN ss} = UNION {Range(f[c]) : c \in L!Children(n)}
    <3>1. \A k \in DOMAIN v : ss[k] = f[v[k]] /\ v[k] \in L!Children(n)
      BY <2>1 DEF Range
    <3>2. \A c \in L!Children(n) : \E k \in DOMAIN v : c = v[k]
      BY <2>1 DEF Range
    <3>3. DOMAIN ss = DOMAIN v
      OBVIOUS
    <3> HIDE DEF ss
    <3> QED BY <3>1, <3>2, <3>3
  <2>6. Body(f, n) = L!FlattenSeq(ss)
    BY <1>2 DEF Body, v
  <2> HIDE DEF ss
  <2> QED BY <1>2, <2>4, <2>5, <2>6, FlattenRange
<1> QED BY <1>1, <1>2

\* They do not depend on anything else.
LEMMA BodyLocal ==
  ASSUME NEW n \in Node, NEW f, NEW g, \A c \in L!Children(n) : f[c] = g[c]
  PROVE  Body(f, n) = Body(g, n)
<1>1. \A k \in DOMAIN L!Visited(n) : L!Visited(n)[k] \in L!Children(n)
  BY VisitedAreChildren DEF Range
<1>2. [k \in DOMAIN L!Visited(n) |-> f[L!Visited(n)[k]]]
        = [k \in DOMAIN L!Visited(n) |-> g[L!Visited(n)[k]]]
  BY <1>1
<1> QED BY <1>2 DEF Body

\* The function exists: a node of height h has its value after h + 1 rounds.
LEMMA SourcesDefined == \A n \in Node : L!Sources[n] = Body(L!Sources, n)
<1> DEFINE T == [Node -> Seq(Names)]
           first == [n \in Node |-> <<>>]
           step == [k \in Nat |-> [f \in T |-> [n \in Node |-> Body(f, n)]]]
<1>1. first \in T
  OBVIOUS
<1>2. step \in [Nat -> [T -> T]]
  <2>1. ASSUME NEW f \in T, NEW n \in Node PROVE Body(f, n) \in Seq(Names)
    <3>1. \A c \in L!Children(n) : f[c] \in Seq(Names)
      BY VisitedAreChildren
    <3> QED BY <3>1, BodyRange
  <2>2. ASSUME NEW f \in T PROVE [n \in Node |-> Body(f, n)] \in T
    BY <2>1
  <2> HIDE DEF T
  <2> QED BY <2>2
<1>3. PICK G : IsRun(G, T, first, step)
  <2> HIDE DEF T, first, step
  <2> QED BY <1>1, <1>2, RunExists, Zenon
<1>4. ASSUME NEW k \in Nat, NEW n \in Node PROVE G[k + 1][n] = Body(G[k], n)
  <2>1. G[k] \in T /\ G[k + 1] = step[k][G[k]]
    BY <1>3 DEF IsRun
  <2>2. step[k][G[k]] = [m \in Node |-> Body(G[k], m)]
    <3> HIDE DEF T
    <3> QED BY <2>1
  <2> QED BY <2>1, <2>2
<1> HIDE DEF T, first, step
<1> DEFINE Stable == {d \in Nat : \A n \in Node : Height[n] < d => G[d + 1][n] = G[d][n]}
<1>5. 0 \in Stable
  <2>1. \A n \in Node : ~(Height[n] < 0)
    BY VisitedAreChildren
  <2> QED BY <2>1
<1>6. ASSUME NEW d \in Nat, d \in Stable PROVE d + 1 \in Stable
  <2> SUFFICES ASSUME NEW n \in Node, Height[n] < d + 1 PROVE G[d + 1 + 1][n] = G[d + 1][n]
    OBVIOUS
  <2>1. ASSUME NEW c \in L!Children(n) PROVE G[d + 1][c] = G[d][c]
    <3>1. c \in Node /\ Height[c] < d
      BY VisitedAreChildren
    <3> QED BY <1>6, <3>1
  <2>2. Body(G[d + 1], n) = Body(G[d], n)
    BY <2>1, BodyLocal
  <2> QED BY <1>4, <2>2, d + 1 \in Nat
<1>7. Nat \subseteq Stable
  <2> HIDE DEF Stable
  <2> QED BY <1>5, <1>6, NatInduct
<1>8. ASSUME NEW n \in Node, NEW d \in Nat, Height[n] < d PROVE G[d][n] = G[Height[n] + 1][n]
  <2> DEFINE h == Height[n] + 1
             U == {j \in Nat : G[h + j][n] = G[h][n]}
  <2>0. h \in Nat /\ Height[n] \in Nat
    BY VisitedAreChildren
  <2>1. 0 \in U
    BY <2>0
  <2>2. ASSUME NEW j \in Nat, j \in U PROVE j + 1 \in U
    <3>1. h + j \in Stable /\ Height[n] < h + j /\ h + j + 1 = h + (j + 1)
      BY <1>7, <2>0
    <3>2. G[h + j + 1][n] = G[h + j][n]
      BY <3>1
    <3> QED BY <2>2, <3>1, <3>2
  <2>3. Nat \subseteq U
    <3> HIDE DEF U
    <3> QED BY <2>1, <2>2, NatInduct
  <2>4. d - h \in U /\ h + (d - h) = d
    BY <1>8, <2>0, <2>3
  <2> QED BY <2>4
<1> HIDE DEF Stable
<1> DEFINE F == [n \in Node |-> G[Height[n] + 1][n]]
<1>9. ASSUME NEW n \in Node PROVE G[Height[n] + 1][n] = Body(F, n)
  <2>1. ASSUME NEW c \in L!Children(n) PROVE G[Height[n]][c] = F[c]
    BY <1>8, VisitedAreChildren
  <2>2. Body(G[Height[n]], n) = Body(F, n)
    <3> HIDE DEF F
    <3> QED BY <2>1, BodyLocal
  <2>3. Height[n] \in Nat
    BY VisitedAreChildren
  <2> QED BY <1>4, <2>2, <2>3
<1>10. F = [n \in Node |-> Body(F, n)]
  BY <1>9
<1> HIDE DEF F
<1> DEFINE Is(f) == f = [n \in Node |-> Body(f, n)]
<1>11. \E f : Is(f)
  BY <1>10
<1>12. L!Sources = CHOOSE f : Is(f)
  BY DEF L!Sources, Body
<1>13. Is(L!Sources)
  BY <1>11, <1>12
<1> QED BY <1>13, Zenon

LevelIs(level, n) ==
  level = [k \in 0..Height[n] |->
             IF k = 0 THEN {n} ELSE UNION {L!Children(m) : m \in level[k - 1]}]

\* The nodes below a node are the node itself and those below its children:
\* the levels are empty before they run out.
LEMMA BelowByChildren ==
  ASSUME NEW n \in Node
  PROVE  L!Below(n) = {n} \cup UNION {L!Below(c) : c \in L!Children(n)}
<1> DEFINE T == SUBSET Node
           step == [k \in Nat |-> [X \in T |-> UNION {L!Children(m) : m \in X}]]
           Levels(f, m) == IsRun(f, T, {m}, step)
           D == [m \in Node |-> CHOOSE f : Levels(f, m)]
<1>1. ASSUME NEW X \in T PROVE UNION {L!Children(m) : m \in X} \in T
  BY VisitedAreChildren
<1>2. step \in [Nat -> [T -> T]]
  <2> HIDE DEF T
  <2> QED BY <1>1
<1>3. ASSUME NEW m \in Node PROVE Levels(D[m], m)
  <2>1. {m} \in T
    OBVIOUS
  <2>2. \E f : Levels(f, m)
    <3> HIDE DEF T, step
    <3> QED BY <1>2, <2>1, RunExists, Zenon
  <2>3. D[m] = CHOOSE f : Levels(f, m)
    OBVIOUS
  <2> HIDE DEF Levels, D
  <2> QED BY <2>2, <2>3
<1> HIDE DEF D
<1>4. ASSUME NEW m \in Node
      PROVE  /\ D[m][0] = {m}
             /\ \A k \in Nat : /\ D[m][k] \subseteq Node
                               /\ D[m][k + 1] = UNION {L!Children(x) : x \in D[m][k]}
  <2>1. IsRun(D[m], T, {m}, step)
    BY <1>3
  <2>2. D[m][0] = {m}
    BY <2>1 DEF IsRun
  <2>3. ASSUME NEW k \in Nat
        PROVE  D[m][k] \subseteq Node /\ D[m][k + 1] = UNION {L!Children(x) : x \in D[m][k]}
    <3>1. D[m][k] \in T /\ D[m][k + 1] = step[k][D[m][k]]
      BY <2>1 DEF IsRun
    <3>2. step[k][D[m][k]] = UNION {L!Children(x) : x \in D[m][k]}
      <4> HIDE DEF T
      <4> QED BY <3>1
    <3> QED BY <3>1, <3>2
  <2> QED BY <2>2, <2>3
<1> HIDE DEF step
<1>5. ASSUME NEW m \in Node, NEW k \in Nat, NEW x \in D[m][k]
      PROVE  Height[x] \in Nat /\ Height[x] + k <= Height[m]
  <2> DEFINE U == {j \in Nat : \A y \in D[m][j] : Height[y] + j <= Height[m]}
  <2>1. 0 \in U
    <3>1. D[m][0] = {m} /\ Height[m] \in Nat
      BY <1>4, VisitedAreChildren
    <3> QED BY <3>1
  <2>2. ASSUME NEW j \in Nat, j \in U PROVE j + 1 \in U
    <3> SUFFICES ASSUME NEW y \in D[m][j + 1] PROVE Height[y] + (j + 1) <= Height[m]
      OBVIOUS
    <3>1. PICK z \in D[m][j] : y \in L!Children(z)
      BY <1>4
    <3>2. z \in Node
      BY <1>4
    <3>3. Height[y] \in Nat /\ Height[z] \in Nat /\ Height[y] < Height[z] /\ Height[m] \in Nat
      BY <3>1, <3>2, VisitedAreChildren
    <3>4. Height[z] + j <= Height[m]
      BY <2>2
    <3> QED BY <3>3, <3>4
  <2>3. Nat \subseteq U
    <3> HIDE DEF U
    <3> QED BY <2>1, <2>2, NatInduct
  <2>4. x \in Node
    BY <1>4
  <2>5. k \in U /\ Height[x] \in Nat
    BY <2>3, <2>4, VisitedAreChildren
  <2> QED BY <2>5
<1>6. ASSUME NEW m \in Node PROVE L!Below(m) = UNION {D[m][k] : k \in Nat}
  <2> DEFINE level == CHOOSE f : LevelIs(f, m)
             h == Height[m]
  <2>0. h \in Nat
    BY VisitedAreChildren
  <2>1. L!Below(m) = UNION {level[k] : k \in 0..h}
    BY DEF L!Below, LevelIs
  <2> HIDE DEF h
  <2>2. \E f : LevelIs(f, m)
    <3> DEFINE g == [k \in 0..h |-> D[m][k]]
    <3>1. ASSUME NEW k \in 0..h
          PROVE  D[m][k] = IF k = 0 THEN {m} ELSE UNION {L!Children(x) : x \in g[k - 1]}
      <4>1. CASE k = 0
        BY <1>4, <4>1
      <4>2. CASE k # 0
        <5>1. PICK j \in Nat : j + 1 = k
          <6>1. k - 1 \in Nat /\ k - 1 + 1 = k
            BY <2>0, <4>2
          <6> QED BY <6>1
        <5>2. k - 1 = j /\ j \in 0..h
          BY <2>0, <5>1
        <5>3. D[m][j + 1] = UNION {L!Children(x) : x \in D[m][j]}
          BY <1>4
        <5> QED BY <4>2, <5>1, <5>2, <5>3
      <4> QED BY <4>1, <4>2
    <3>2. g = [k \in 0..h |-> IF k = 0 THEN {m} ELSE UNION {L!Children(x) : x \in g[k - 1]}]
      BY <3>1
    <3> HIDE DEF g
    <3> QED BY <3>2 DEF LevelIs, h
  <2>3. LevelIs(level, m)
    BY <2>2
  <2> HIDE DEF level
  <2>4. \A k \in 0..h : level[k] = IF k = 0 THEN {m} ELSE UNION {L!Children(x) : x \in level[k - 1]}
    BY <2>3, Zenon DEF LevelIs, h
  <2>5. \A k \in 0..h : level[k] = D[m][k]
    <3> DEFINE d == D[m]
    <3>1. level[0] = d[0]
      <4>1. 0 \in 0..h /\ d[0] = {m}
        BY <1>4, <2>0
      <4> QED BY <2>4, <4>1
    <3>2. ASSUME NEW k \in 0..(h - 1), level[k] = d[k] PROVE level[k + 1] = d[k + 1]
      <4>1. PICK j \in 0..h : j = k + 1
        BY <2>0
      <4>2. j # 0 /\ j - 1 = k /\ k \in Nat
        BY <2>0, <4>1
      <4>3. level[j] = UNION {L!Children(x) : x \in level[k]}
        BY <2>4, <4>2
      <4>4. d[k + 1] = UNION {L!Children(x) : x \in d[k]}
        BY <1>4, <4>2
      <4> QED BY <3>2, <4>1, <4>3, <4>4
    <3> HIDE DEF d
    <3>3. \A k \in 0..h : level[k] = d[k]
      BY <2>0, <3>1, <3>2, RunsAgree
    <3> QED BY <3>3 DEF d
  <2>6. UNION {D[m][k] : k \in Nat} \subseteq UNION {D[m][k] : k \in 0..h}
    <3> SUFFICES ASSUME NEW k \in Nat, NEW x \in D[m][k] PROVE k \in 0..h
      OBVIOUS
    <3> QED BY <1>5, <2>0 DEF h
  <2>7. 0..h \subseteq Nat
    BY <2>0
  <2> QED BY <2>1, <2>5, <2>6, <2>7
<1>7. ASSUME NEW k \in Nat PROVE D[n][k + 1] = UNION {D[c][k] : c \in L!Children(n)}
  <2> DEFINE U == {j \in Nat : D[n][j + 1] = UNION {D[c][j] : c \in L!Children(n)}}
  <2>0. \A c \in L!Children(n) : c \in Node
    BY VisitedAreChildren
  <2>1. 0 \in U
    <3>1. \A c \in L!Children(n) : D[c][0] = {c}
      BY <1>4, <2>0
    <3>2. D[n][0] = {n} /\ D[n][0 + 1] = UNION {L!Children(x) : x \in D[n][0]}
      BY <1>4
    <3> QED BY <3>1, <3>2
  <2>2. ASSUME NEW j \in Nat, j \in U PROVE j + 1 \in U
    <3>1. D[n][j + 1 + 1] = UNION {L!Children(x) : x \in D[n][j + 1]}
      BY <1>4, j + 1 \in Nat
    <3>2. D[n][j + 1] = UNION {D[c][j] : c \in L!Children(n)}
      BY <2>2
    <3>3. \A c \in L!Children(n) : D[c][j + 1] = UNION {L!Children(x) : x \in D[c][j]}
      BY <1>4, <2>0
    <3>4. D[n][j + 1 + 1] = UNION {D[c][j + 1] : c \in L!Children(n)}
      BY <3>1, <3>2, <3>3
    <3> QED BY <3>4
  <2>3. Nat \subseteq U
    <3> HIDE DEF U
    <3> QED BY <2>1, <2>2, NatInduct
  <2> QED BY <2>3
<1>8. UNION {D[n][k] : k \in Nat} = {n} \cup UNION {UNION {D[c][k] : k \in Nat} : c \in L!Children(n)}
  <2>1. ASSUME NEW k \in Nat, NEW x \in D[n][k]
        PROVE  x \in {n} \cup UNION {UNION {D[c][j] : j \in Nat} : c \in L!Children(n)}
    <3>1. CASE k = 0
      BY <1>4, <2>1, <3>1
    <3>2. CASE k # 0
      <4>1. PICK j \in Nat : j + 1 = k
        <5>1. k - 1 \in Nat /\ k - 1 + 1 = k
          BY <3>2
        <5> QED BY <5>1
      <4>2. D[n][k] = UNION {D[c][j] : c \in L!Children(n)}
        BY <1>7, <4>1
      <4> QED BY <2>1, <4>2
    <3> QED BY <3>1, <3>2
  <2>2. ASSUME NEW c \in L!Children(n), NEW k \in Nat, NEW x \in D[c][k]
        PROVE  x \in UNION {D[n][j] : j \in Nat}
    <3>1. x \in D[n][k + 1] /\ k + 1 \in Nat
      BY <1>7, <2>2
    <3> QED BY <3>1
  <2>3. n \in D[n][0] /\ 0 \in Nat
    BY <1>4
  <2> QED BY <2>1, <2>2, <2>3
<1>9. \A c \in L!Children(n) : L!Below(c) = UNION {D[c][k] : k \in Nat}
  BY <1>6, VisitedAreChildren
<1>10. L!Below(n) = UNION {D[n][k] : k \in Nat}
  BY <1>6
<1>11. UNION {L!Below(c) : c \in L!Children(n)}
         = UNION {UNION {D[c][k] : k \in Nat} : c \in L!Children(n)}
  BY <1>9
<1> QED BY <1>8, <1>10, <1>11

\* The collectors find the tables of the node and of all nodes below it.
LEMMA SourcesBelow ==
  ASSUME NEW n \in Node
  PROVE  /\ L!Sources[n] \in Seq(Names)
         /\ Range(L!Sources[n]) = {m.name : m \in {x \in L!Below(n) : x.node = "table"}}
<1> DEFINE Tables(m) == {x.name : x \in {y \in L!Below(m) : y.node = "table"}}
           Right(m) == L!Sources[m] \in Seq(Names) /\ Range(L!Sources[m]) = Tables(m)
           T == {h \in Nat : \A m \in Node : Height[m] < h => Right(m)}
<1>1. 0 \in T
  <2>1. \A m \in Node : ~(Height[m] < 0)
    BY VisitedAreChildren
  <2> QED BY <2>1
<1>2. ASSUME NEW h \in Nat, h \in T PROVE h + 1 \in T
  <2> SUFFICES ASSUME NEW m \in Node, Height[m] < h + 1 PROVE Right(m)
    OBVIOUS
  <2>1. ASSUME NEW c \in L!Children(m) PROVE Right(c)
    <3>1. c \in Node /\ Height[c] < h
      BY VisitedAreChildren
    <3> QED BY <1>2, <3>1
  <2>2. L!Sources[m] = Body(L!Sources, m)
    BY SourcesDefined
  <2>3. /\ L!Sources[m] \in Seq(Names)
        /\ Range(L!Sources[m]) = IF m.node = "table" THEN {m.name}
                                 ELSE UNION {Range(L!Sources[c]) : c \in L!Children(m)}
    BY <2>1, <2>2, BodyRange
  <2>4. L!Below(m) = {m} \cup UNION {L!Below(c) : c \in L!Children(m)}
    BY BelowByChildren
  <2>5. CASE m.node = "table"
    <3>1. L!Children(m) = {}
      BY <2>5 DEF L!Children
    <3>2. Tables(m) = {m.name}
      BY <2>4, <2>5, <3>1
    <3> QED BY <2>3, <2>5, <3>2
  <2>6. CASE m.node # "table"
    <3>1. Tables(m) = UNION {Tables(c) : c \in L!Children(m)}
      BY <2>4, <2>6
    <3>2. \A c \in L!Children(m) : Range(L!Sources[c]) = Tables(c)
      BY <2>1
    <3> HIDE DEF Tables
    <3> QED BY <2>3, <2>6, <3>1, <3>2
  <2> QED BY <2>5, <2>6
<1>3. Nat \subseteq T
  <2> HIDE DEF T
  <2> QED BY <1>1, <1>2, NatInduct
<1>4. Height[n] + 1 \in T /\ Height[n] < Height[n] + 1
  <2>1. Height[n] \in Nat /\ Height[n] < Height[n] + 1
    BY VisitedAreChildren
  <2> HIDE DEF T
  <2> QED BY <1>3, <2>1
<1> QED BY <1>4

-----------------------------------------------------------------------------
(* The lineage of a text                                                   *)

StatementNames == UNION {{s[k].name : k \in DOMAIN s} : s \in Script}
Lowered == {Lower[x] : x \in Names \cup StatementNames}

LowerSources(k) == {Lower[x] : x \in Range(statements[k].sources)}
LowerTargets(k) == {Lower[x] : x \in Range(statements[k].target)}

LTyped ==
  /\ text \in Script \cup {<<>>}
  /\ widths \in Garbage \cup {<<>>}
  /\ tables \in Seq(Lowered) /\ edges \in Seq(Lowered \X Lowered)

LAnalyzed ==
  /\ statements \in Seq({L!AnalyzeStatement(text[k]) : k \in DOMAIN text})
  /\ Len(statements) <= Len(text)
  /\ \A k \in DOMAIN statements : statements[k] = L!AnalyzeStatement(text[k])

LInv == LTyped /\ LAnalyzed /\ GraphExact /\ ExcerptWhole

\* What is found out of a statement has the names of the text.
LEMMA AnalyzedTyped ==
  ASSUME NEW s \in Script, NEW k \in DOMAIN s
  PROVE  LET sl == L!AnalyzeStatement(s[k])
         IN /\ sl.sources \in Seq(Names)
            /\ Range(sl.sources) = L!QueryOf(s[k])
            /\ sl.target = <<>> \/ \E x \in StatementNames : sl.target = <<x>>
<1> DEFINE st == s[k]
           sl == L!AnalyzeStatement(st)
<1>1. sl.target = <<>> \/ \E x \in StatementNames : sl.target = <<x>>
  BY DEF L!AnalyzeStatement, StatementNames
<1>2. CASE ~L!HasQuery(st)
  <2>1. sl.sources = <<>> /\ L!QueryOf(st) = {}
    BY <1>2 DEF L!AnalyzeStatement, L!QueryOf
  <2>2. <<>> \in Seq(Names) /\ Range(<<>>) = {}
    BY DEF Range
  <2> QED BY <1>1, <2>1, <2>2
<1>3. CASE L!HasQuery(st)
  <2> DEFINE b == st.query.body
  <2>1. b \in Node
    <3>1. b \in Bodies(s)
      BY <1>3 DEF Bodies
    <3> QED BY <3>1, SyntaxAssumption
  <2>2. sl.sources = L!Dedup(L!Sources[b])
    BY <1>3 DEF L!AnalyzeStatement, L!QuerySources
  <2>3. L!QueryOf(st) = {m.name : m \in {x \in L!Below(b) : x.node = "table"}}
    BY <1>3 DEF L!QueryOf, L!TablesBelow
  <2>4. L!Sources[b] \in Seq(Names) /\ Range(L!Sources[b]) = L!QueryOf(st)
    BY <2>1, <2>3, SourcesBelow
  <2> HIDE DEF b
  <2>5. L!Dedup(L!Sources[b]) \in Seq(Names) /\ Range(L!Dedup(L!Sources[b])) = Range(L!Sources[b])
    BY <2>4, DedupRange
  <2> QED BY <1>1, <2>2, <2>4, <2>5
<1> QED BY <1>2, <1>3

\* The names of a sequence, in lower case.
LEMMA LowerRange ==
  ASSUME NEW names \in Seq(Names \cup StatementNames)
  PROVE  /\ [k \in DOMAIN names |-> Lower[names[k]]] \in Seq(Lowered)
         /\ Range([k \in DOMAIN names |-> Lower[names[k]]]) = {Lower[x] : x \in Range(names)}
<1> DEFINE low == [k \in DOMAIN names |-> Lower[names[k]]]
<1>1. DOMAIN names = 1..Len(names) /\ Len(names) \in Nat
  OBVIOUS
<1>2. \A k \in DOMAIN names : Lower[names[k]] \in Lowered
  BY DEF Lowered
<1>3. low \in Seq(Lowered)
  BY <1>1, <1>2
<1>4. Range(low) = {Lower[x] : x \in Range(names)}
  BY DEF Range
<1> QED BY <1>3, <1>4

\* An invocation begins without a statement, a table or an edge.
LEMMA LineageInit == Init => LInv
<1> SUFFICES ASSUME Init PROVE LInv
  OBVIOUS
<1>1. /\ text \in Script \cup {<<>>} /\ widths \in Garbage \cup {<<>>}
      /\ tables = <<>> /\ edges = <<>> /\ statements = <<>> /\ phase = "parse"
  BY DEF Init, L!Init, L!Fresh
<1>2. LTyped
  BY <1>1 DEF LTyped
<1>3. Len(text) \in Nat
  <2>1. ASSUME text \in Script PROVE Len(text) \in Nat
    <3>1. text \in Seq({text[k] : k \in DOMAIN text})
      BY <2>1, SyntaxAssumption
    <3> QED BY <3>1
  <2> QED BY <1>1, <2>1
<1>4. LAnalyzed
  BY <1>1, <1>3 DEF LAnalyzed
<1>5. GraphExact
  BY <1>1 DEF GraphExact, L!GraphExact, L!Range, L!IsInjective
<1>6. ExcerptWhole
  BY <1>1 DEF ExcerptWhole, L!ExcerptWhole
<1> QED BY <1>2, <1>4, <1>5, <1>6 DEF LInv

\* One more statement adds its tables and its edges to those of the others.
LEMMA StatementKeeps ==
  ASSUME LInv, L!NextStatement
  PROVE  LInv'
<1> DEFINE n == Len(statements) + 1
           st == text[n]
           sl == L!AnalyzeStatement(st)
<1>1. /\ phase = "analyze" /\ Len(statements) < Len(text)
      /\ tables' = L!Nodes(sl) /\ edges' = L!Edges(sl) /\ statements' = Append(statements, sl)
      /\ text' = text /\ widths' = widths /\ phase' = phase /\ excerpt' = excerpt
  BY DEF L!NextStatement
<1>2. /\ tables \in Seq(Lowered) /\ edges \in Seq(Lowered \X Lowered)
      /\ statements \in Seq({L!AnalyzeStatement(text[k]) : k \in DOMAIN text})
      /\ \A k \in DOMAIN statements : statements[k] = L!AnalyzeStatement(text[k])
  BY DEF LInv, LTyped, LAnalyzed
<1>3. text \in Script
  <2>1. Len(<<>>) = 0 /\ Len(statements) \in Nat
    BY <1>2
  <2> QED BY <1>1, <2>1 DEF LInv, LTyped
<1>4. n \in DOMAIN text /\ Len(text) \in Nat /\ DOMAIN statements = 1..Len(statements)
      /\ Len(statements) \in Nat
  <2>1. text \in Seq({text[k] : k \in DOMAIN text})
    BY <1>3, SyntaxAssumption
  <2> QED BY <1>1, <1>2, <2>1
<1>5. /\ sl.sources \in Seq(Names)
      /\ sl.target = <<>> \/ \E x \in StatementNames : sl.target = <<x>>
  BY <1>3, <1>4, AnalyzedTyped
<1> HIDE DEF sl
<1>6. /\ DOMAIN statements' = 1..n /\ n \in Nat
      /\ \A k \in DOMAIN statements : k \in DOMAIN statements' /\ statements'[k] = statements[k]
      /\ n \in DOMAIN statements' /\ statements'[n] = sl
      /\ \A k \in DOMAIN statements' : k \in DOMAIN statements \/ k = n
      /\ Len(statements') = n /\ n <= Len(text)
  BY <1>1, <1>2, <1>4
<1>7. LAnalyzed'
  <2>1. statements' \in Seq({L!AnalyzeStatement(text[k]) : k \in DOMAIN text})
    <3>1. sl \in {L!AnalyzeStatement(text[k]) : k \in DOMAIN text}
      BY <1>4 DEF sl
    <3> QED BY <1>1, <1>2, <3>1
  <2>2. \A k \in DOMAIN statements' : statements'[k] = L!AnalyzeStatement(text[k])
    BY <1>2, <1>6 DEF sl
  <2>3. \A k : L!AnalyzeStatement(text[k])' = L!AnalyzeStatement(text[k])
    BY <1>1 DEF L!AnalyzeStatement, L!QuerySources, L!Dedup
  <2> QED BY <1>1, <1>6, <2>1, <2>2, <2>3 DEF LAnalyzed
<1> DEFINE low == {Lower[x] : x \in Range(sl.sources)}
           lowTarget == {Lower[x] : x \in Range(sl.target)}
<1>8. /\ tables' \in Seq(Lowered)
      /\ Range(tables') = Range(tables) \cup low \cup lowTarget
      /\ IsInjective(tables) => IsInjective(tables')
  <2> DEFINE names == sl.sources \o sl.target
             new == [k \in DOMAIN names |-> Lower[names[k]]]
             src == sl.sources
             tgt == sl.target
             S == Names \cup StatementNames
  <2>1. src \in Seq(S) /\ tgt \in Seq(S)
    <3>1. /\ Len(src) \in Nat /\ src = [k \in 1..Len(src) |-> src[k]]
          /\ \A k \in 1..Len(src) : src[k] \in S
      BY <1>5
    <3>2. src \in Seq(S)
      <4> HIDE DEF src, S
      <4> QED BY <3>1
    <3>3. \A x \in StatementNames : <<x>> \in Seq(S)
      OBVIOUS
    <3>4. <<>> \in Seq(S)
      OBVIOUS
    <3> QED BY <1>5, <3>2, <3>3, <3>4
  <2>2. src \o tgt \in Seq(S) /\ Range(src \o tgt) = Range(src) \cup Range(tgt)
    <3> HIDE DEF src, tgt, S
    <3> QED BY <2>1, RangeConcat
  <2>3. names \in Seq(S) /\ Range(names) = Range(sl.sources) \cup Range(sl.target)
    BY <2>2
  <2> HIDE DEF names
  <2>4. new \in Seq(Lowered) /\ Range(new) = {Lower[x] : x \in Range(names)}
    BY <2>3, LowerRange
  <2>5. tables' = L!AddNew(tables, new)
    BY <1>1 DEF L!Nodes, names
  <2> HIDE DEF new
  <2>6. /\ L!AddNew(tables, new) \in Seq(Lowered)
        /\ Range(L!AddNew(tables, new)) = Range(tables) \cup Range(new)
        /\ IsInjective(tables) => IsInjective(L!AddNew(tables, new))
    BY <1>2, <2>4, AddNewOnce
  <2> QED BY <2>3, <2>4, <2>5, <2>6
<1>9. /\ edges' \in Seq(Lowered \X Lowered)
      /\ Range(edges') = Range(edges) \cup (low \X lowTarget)
      /\ IsInjective(edges) => IsInjective(edges')
  <2> DEFINE new == L!EdgesOf(sl)
             E == Lowered \X Lowered
  <2>1. new \in Seq(E) /\ Range(new) = low \X lowTarget
    <3>1. CASE sl.target = <<>>
      <4>1. new = [k \in {} |-> <<Lower[sl.sources[k]], Lower[sl.target[1]]>>]
        BY <3>1 DEF L!EdgesOf
      <4>2. new = <<>> /\ lowTarget = {}
        BY <3>1, <4>1 DEF Range
      <4>3. <<>> \in Seq(E) /\ Range(<<>>) = {}
        BY DEF Range
      <4>4. low \X {} = {}
        OBVIOUS
      <4> HIDE DEF new, low, lowTarget, E
      <4> QED BY <4>2, <4>3, <4>4
    <3>2. ASSUME NEW x \in StatementNames, sl.target = <<x>> PROVE new \in Seq(E) /\ Range(new) = low \X lowTarget
      <4>1. new = [k \in DOMAIN sl.sources |-> <<Lower[sl.sources[k]], Lower[x]>>]
        BY <3>2 DEF L!EdgesOf
      <4>2. lowTarget = {Lower[x]} /\ Lower[x] \in Lowered
        BY <3>2 DEF Range, Lowered
      <4>3. /\ DOMAIN sl.sources = 1..Len(sl.sources) /\ Len(sl.sources) \in Nat
            /\ \A k \in DOMAIN sl.sources : Lower[sl.sources[k]] \in Lowered
        BY <1>5 DEF Lowered
      <4>4. \A k \in DOMAIN sl.sources : <<Lower[sl.sources[k]], Lower[x]>> \in E
        BY <4>2, <4>3
      <4>5. new \in Seq(E)
        BY <4>1, <4>3, <4>4
      <4>6. Range(new) = {<<Lower[sl.sources[k]], Lower[x]>> : k \in DOMAIN sl.sources}
        BY <4>1 DEF Range
      <4>7. low = {Lower[sl.sources[k]] : k \in DOMAIN sl.sources}
        BY DEF Range
      <4>8. {<<Lower[sl.sources[k]], Lower[x]>> : k \in DOMAIN sl.sources}
              = {Lower[sl.sources[k]] : k \in DOMAIN sl.sources} \X {Lower[x]}
        OBVIOUS
      <4> HIDE DEF new, low, lowTarget
      <4> QED BY <4>2, <4>5, <4>6, <4>7, <4>8
    <3> QED BY <1>5, <3>1, <3>2
  <2>2. edges' = L!AddNew(edges, new) /\ edges \in Seq(E)
    BY <1>1, <1>2 DEF L!Edges
  <2> HIDE DEF new, E
  <2>3. /\ L!AddNew(edges, new) \in Seq(E)
        /\ Range(L!AddNew(edges, new)) = Range(edges) \cup Range(new)
        /\ IsInjective(edges) => IsInjective(L!AddNew(edges, new))
    BY <2>1, <2>2, AddNewOnce
  <2> QED BY <2>1, <2>2, <2>3 DEF E
<1>10. LTyped'
  BY <1>1, <1>8, <1>9 DEF LInv, LTyped
<1>11. /\ Range(tables) = UNION {LowerSources(k) \cup LowerTargets(k) : k \in DOMAIN statements}
       /\ Range(edges) = UNION {LowerSources(k) \X LowerTargets(k) : k \in DOMAIN statements}
       /\ IsInjective(tables) /\ IsInjective(edges)
  BY DEF LInv, GraphExact, L!GraphExact, LowerSources, LowerTargets, Range, L!Range,
         IsInjective, L!IsInjective
<1>12. GraphExact'
  <2> DEFINE src(k) == LowerSources(k)'
             tgt(k) == LowerTargets(k)'
             old(k) == LowerSources(k) \X LowerTargets(k)
             pairs(k) == src(k) \X tgt(k)
  <2>1. PICK m \in Nat : m = n
    BY <1>6
  <2>2. /\ \A k \in DOMAIN statements : statements'[k] = statements[k]
        /\ DOMAIN statements' = DOMAIN statements \cup {m}
        /\ statements'[m] = sl
    BY <1>6, <2>1
  <2>3. \A k \in DOMAIN statements : src(k) = LowerSources(k) /\ tgt(k) = LowerTargets(k)
    BY <2>2 DEF LowerSources, LowerTargets
  <2>4. src(m) = low /\ tgt(m) = lowTarget
    BY <2>2 DEF LowerSources, LowerTargets
  <2> HIDE DEF src, tgt, low, lowTarget
  <2>5. Range(tables') = UNION {src(k) \cup tgt(k) : k \in DOMAIN statements'}
    BY <1>8, <1>11, <2>2, <2>3, <2>4
  <2>6. (\A k \in DOMAIN statements : pairs(k) = old(k)) /\ pairs(m) = low \X lowTarget
    BY <2>3, <2>4
  <2>7. Range(edges) = UNION {old(k) : k \in DOMAIN statements}
    BY <1>11
  <2>8. Range(edges') = UNION {pairs(k) : k \in DOMAIN statements'}
    <3>1. Range(edges') = Range(edges) \cup pairs(m)
      BY <1>9, <2>6
    <3> HIDE DEF pairs, old
    <3>2. UNION {pairs(k) : k \in DOMAIN statements} = UNION {old(k) : k \in DOMAIN statements}
      BY <2>6
    <3>3. UNION {pairs(k) : k \in DOMAIN statements'}
            = pairs(m) \cup UNION {pairs(k) : k \in DOMAIN statements}
      BY <2>2
    <3> QED BY <2>7, <3>1, <3>2, <3>3
  <2>9. IsInjective(tables') /\ IsInjective(edges')
    BY <1>8, <1>9, <1>11
  <2> QED BY <2>5, <2>8, <2>9
          DEF GraphExact, L!GraphExact, src, tgt, LowerSources, LowerTargets, Range, L!Range,
              IsInjective, L!IsInjective
<1>13. ExcerptWhole'
  BY <1>1 DEF ExcerptWhole, L!ExcerptWhole
<1> QED BY <1>7, <1>10, <1>12, <1>13 DEF LInv

\* Every step of the engine keeps the invariant of analyze_sql.
LEMMA LineageStep == LInv /\ [Next]_allVars => LInv'
<1> SUFFICES ASSUME LInv, [Next]_allVars PROVE LInv'
  OBVIOUS
<1>1. ASSUME UNCHANGED <<text, widths, tables, edges, statements>>, ExcerptWhole' PROVE LInv'
  <2>1. LTyped'
    BY <1>1 DEF LInv, LTyped
  <2>2. LAnalyzed'
    <3>1. \A k : L!AnalyzeStatement(text[k])' = L!AnalyzeStatement(text[k])
      BY <1>1 DEF L!AnalyzeStatement, L!QuerySources, L!Dedup
    <3>2. LAnalyzed
      BY DEF LInv
    <3> QED BY <1>1, <3>1, <3>2 DEF LAnalyzed
  <2>3. GraphExact'
    <3>1. GraphExact
      BY DEF LInv
    <3>2. /\ Range(tables) = UNION {LowerSources(k) \cup LowerTargets(k) : k \in DOMAIN statements}
          /\ Range(edges) = UNION {LowerSources(k) \X LowerTargets(k) : k \in DOMAIN statements}
          /\ IsInjective(tables) /\ IsInjective(edges)
      BY <3>1 DEF GraphExact, L!GraphExact, LowerSources, LowerTargets, Range, L!Range,
                  IsInjective, L!IsInjective
    <3>3. /\ \A k : LowerSources(k)' = LowerSources(k) /\ LowerTargets(k)' = LowerTargets(k)
          /\ Range(tables)' = Range(tables) /\ Range(edges)' = Range(edges)
          /\ IsInjective(tables)' = IsInjective(tables) /\ IsInjective(edges)' = IsInjective(edges)
      BY <1>1 DEF LowerSources, LowerTargets, Range, IsInjective
    <3>4. DOMAIN statements' = DOMAIN statements
      BY <1>1
    <3>5. (/\ Range(tables) = UNION {LowerSources(k) \cup LowerTargets(k) : k \in DOMAIN statements}
           /\ Range(edges) = UNION {LowerSources(k) \X LowerTargets(k) : k \in DOMAIN statements}
           /\ IsInjective(tables) /\ IsInjective(edges))'
      BY <3>2, <3>3, <3>4
    <3> QED BY <3>5 DEF GraphExact, L!GraphExact, LowerSources, LowerTargets, Range, L!Range,
                        IsInjective, L!IsInjective
  <2> QED BY <1>1, <2>1, <2>2, <2>3 DEF LInv
<1>2. CASE UNCHANGED lineageVars
  <2>1. ExcerptWhole'
    <3>1. L!Boundaries(widths)' = L!Boundaries(widths)
      BY <1>2 DEF L!Boundaries, L!Ends, lineageVars
    <3> QED BY <1>2, <3>1 DEF LInv, ExcerptWhole, L!ExcerptWhole, lineageVars
  <2> QED BY <1>1, <1>2, <2>1 DEF lineageVars
<1>3. CASE L!Parse
  <2>1. UNCHANGED <<text, widths, tables, edges, statements>>
    BY <1>3 DEF L!Parse, L!graph
  <2>2. ExcerptWhole'
    <3>1. CASE widths = <<>> /\ phase' = "analyze"
      BY <3>1 DEF ExcerptWhole, L!ExcerptWhole
    <3>2. CASE widths # <<>> /\ excerpt' = L!SafePrefix(widths)
      <4>1. widths \in Seq(1..4)
        BY <3>2, LineageAssumption DEF LInv, LTyped
      <4>2. /\ L!SafePrefix(widths) \in L!Boundaries(widths)
            /\ \A b \in L!Boundaries(widths) : b <= Quoted => b <= L!SafePrefix(widths)
        BY <4>1, SafePrefixGreatest
      <4>3. L!Boundaries(widths)' = L!Boundaries(widths)
        BY <2>1 DEF L!Boundaries, L!Ends
      <4> QED BY <3>2, <4>2, <4>3 DEF ExcerptWhole, L!ExcerptWhole
    <3> QED BY <1>3, <3>1, <3>2 DEF L!Parse
  <2> QED BY <1>1, <2>1, <2>2
<1>4. CASE L!NextStatement
  BY <1>4, StatementKeeps
<1>5. CASE L!Finish
  <2>1. ExcerptWhole'
    BY <1>5 DEF L!Finish, ExcerptWhole, L!ExcerptWhole
  <2> QED BY <1>1, <1>5, <2>1 DEF L!Finish, L!graph
<1> QED BY <1>2, <1>3, <1>4, <1>5 DEF Next, L!Next, allVars

\* LInv holds in every state of the engine.
LEMMA LineageInvariance == Spec => []LInv
BY LineageInit, LineageStep, PTL DEF Spec

\* The sources of a statement are the tables of its FROM and JOIN clauses, at
\* any depth, and nothing else: for queries of any size and nesting.
THEOREM SourcesExactAlways == Spec => []SourcesExact
<1>1. LInv => SourcesExact
  <2> SUFFICES ASSUME LInv, NEW k \in DOMAIN statements
               PROVE  Range(statements[k].sources) = L!QueryOf(text[k])
    BY DEF SourcesExact, L!SourcesExact, Range, L!Range
  <2>1. statements[k] = L!AnalyzeStatement(text[k])
    BY DEF LInv, LAnalyzed
  <2>2. text \in Script /\ k \in DOMAIN text
    <3>1. text = <<>> \/ text \in Seq({text[j] : j \in DOMAIN text})
      BY SyntaxAssumption DEF LInv, LTyped
    <3>2. Len(text) \in Nat /\ DOMAIN text = 1..Len(text)
      BY <3>1
    <3>3. k \in 1..Len(statements) /\ Len(statements) \in Nat /\ Len(statements) <= Len(text)
      BY DEF LInv, LAnalyzed
    <3>4. k \in DOMAIN text
      BY <3>2, <3>3
    <3> QED BY <3>4 DEF LInv, LTyped
  <2> QED BY <2>1, <2>2, AnalyzedTyped
<1> QED BY <1>1, LineageInvariance, PTL

\* The graph has the tables and the edges of the statements, each once,
\* however many statements and spellings give it.
THEOREM GraphExactAlways == Spec => []GraphExact
<1>1. LInv => GraphExact
  BY DEF LInv
<1> QED BY <1>1, LineageInvariance, PTL

\* The quoted part of a text that does not parse ends between two of its
\* characters, wherever the limit falls.
THEOREM ExcerptWholeAlways == Spec => []ExcerptWhole
<1>1. LInv => ExcerptWhole
  BY DEF LInv
<1> QED BY <1>1, LineageInvariance, PTL

-----------------------------------------------------------------------------
(* The statistics of a column                                              *)

\* Of the first n cells: those that are not blank, those that are numbers, and
\* the numbers that are not NaN.
Filled(n) == {k \in 1..n : column[k] \notin Blank}
Numeric(n) == {k \in Filled(n) : column[k] \in DOMAIN Value}
Known(n) == {Value[column[k]] : k \in Numeric(n)} \ {NaN}
HasNaN(n) == \E k \in Numeric(n) : Value[column[k]] = NaN

Addend(k) == IF k \in Numeric(k) /\ Value[column[k]] # NaN THEN Value[column[k]] ELSE 0

\* What accumulator a has after n cells; sum[n] is the sum of the numbers.
IsLeast(x, S) == IF S = {} THEN x = NaN ELSE x \in S /\ \A y \in S : x <= y
IsGreatest(x, S) == IF S = {} THEN x = NaN ELSE x \in S /\ \A y \in S : x >= y

Accumulated(a, n, sum) ==
  /\ a.null_count = n - Cardinality(Filled(n))
  /\ a.uniques = {column[k] : k \in Filled(n)}
  /\ a.non_null_count = Cardinality(Filled(n))
  /\ a.numeric_count = Cardinality(Numeric(n))
  /\ Numeric(n) # {} => IsLeast(a.min, Known(n)) /\ IsGreatest(a.max, Known(n))
  /\ a.sum = IF HasNaN(n) THEN NaN ELSE sum[n]

SumIs(sum) ==
  /\ sum \in [0..Len(column) -> Int] /\ sum[0] = 0
  /\ \A k \in 0..(Len(column) - 1) : sum[k + 1] = sum[k] + Addend(k + 1)

AccType == [null_count : Int, uniques : SUBSET ProfileCell, numeric_count : Int,
            non_null_count : Int, min : Int \cup {NaN}, max : Int \cup {NaN}, sum : Int \cup {NaN}]

PInv ==
  /\ column \in Seq(ProfileCell)
  /\ broken \in 0..Len(column) /\ row_count \in 0..Len(column)
  /\ broken = 0 \/ row_count < broken
  /\ acc \in AccType
  /\ \E sum : SumIs(sum) /\ Accumulated(acc, row_count, sum)
  /\ ProfileExact

\* A number of the column.
LEMMA NumberTyped ==
  ASSUME NEW n, NEW k \in Numeric(n)
  PROVE  Value[column[k]] \in Int \cup {NaN}
BY ProfileAssumption DEF Numeric

\* What a cell adds to the sum is a number.
LEMMA AddendTyped == ASSUME NEW k PROVE Addend(k) \in Int
BY NumberTyped DEF Addend

\* The sums of the first cells, for every number of cells.
LEMMA SumExists ==
  ASSUME Len(column) \in Nat
  PROVE  \E sum : SumIs(sum)
<1> DEFINE n == Len(column)
           step == [k \in Nat |-> [x \in Int |-> x + Addend(k + 1)]]
<1>1. step \in [Nat -> [Int -> Int]]
  BY AddendTyped
<1>2. PICK f : IsRun(f, Int, 0, step)
  <2>1. 0 \in Int
    OBVIOUS
  <2> HIDE DEF step
  <2> QED BY <1>1, <2>1, RunExists, Zenon
<1>3. ASSUME NEW k \in Nat PROVE f[k] \in Int /\ f[k + 1] = f[k] + Addend(k + 1)
  <2>1. f[k] \in Int /\ f[k + 1] = step[k][f[k]]
    BY <1>2 DEF IsRun
  <2> QED BY <2>1
<1>4. f[0] = 0
  BY <1>2 DEF IsRun
<1> DEFINE g == [k \in 0..n |-> f[k]]
<1>5. ASSUME NEW k \in 0..(n - 1) PROVE g[k + 1] = g[k] + Addend(k + 1)
  <2>1. k \in Nat /\ k \in 0..n /\ k + 1 \in 0..n
    OBVIOUS
  <2> QED BY <1>3, <2>1
<1>6. g \in [0..n -> Int] /\ g[0] = 0
  <2>1. n \in Nat
    OBVIOUS
  <2> HIDE DEF n
  <2>2. 0 \in 0..n /\ \A k \in 0..n : k \in Nat
    BY <2>1
  <2> QED BY <2>2, <1>3, <1>4
<1> HIDE DEF g
<1> QED BY <1>5, <1>6 DEF SumIs

\* An accumulator begins with the statistics of no cell.
LEMMA ProfileInit == Init => PInv
<1> SUFFICES ASSUME Init PROVE PInv
  OBVIOUS
<1>1. P!Init
  BY DEF Init
<1>2. column \in Seq(ProfileCell) /\ Len(column) \in Nat
  BY <1>1 DEF P!Init
<1>3. PICK sum : SumIs(sum)
  BY <1>2, SumExists
<1>4. Filled(0) = {} /\ Numeric(0) = {} /\ Cardinality({}) = 0
  BY FS_EmptySet DEF Filled, Numeric
<1>5. Accumulated(acc, row_count, sum)
  <2>1. /\ acc.null_count = 0 /\ acc.uniques = {} /\ acc.non_null_count = 0
        /\ acc.numeric_count = 0 /\ acc.sum = 0 /\ row_count = 0
    BY <1>1 DEF P!Init
  <2>2. ~HasNaN(0) /\ sum[0] = 0 /\ {column[k] : k \in Filled(0)} = {}
    BY <1>3, <1>4 DEF HasNaN, SumIs
  <2> QED BY <2>1, <2>2, <1>4 DEF Accumulated
<1>6. acc \in AccType
  BY <1>1 DEF P!Init, AccType
<1>7. ProfileExact
  BY <1>1 DEF P!Init, ProfileExact, P!ProfileExact
<1> QED BY <1>1, <1>2, <1>3, <1>5, <1>6, <1>7 DEF P!Init, PInv

\* One cell more.
LEMMA CellsGrow ==
  ASSUME PInv, NEW n \in 0..(Len(column) - 1)
  PROVE  /\ IsFiniteSet(Filled(n)) /\ IsFiniteSet(Numeric(n))
         /\ Cardinality(Filled(n)) \in Nat /\ Cardinality(Numeric(n)) \in Nat
         /\ IF column[n + 1] \in Blank
            THEN Filled(n + 1) = Filled(n) /\ Cardinality(Filled(n + 1)) = Cardinality(Filled(n))
            ELSE /\ Filled(n + 1) = Filled(n) \cup {n + 1}
                 /\ Cardinality(Filled(n + 1)) = Cardinality(Filled(n)) + 1
         /\ IF column[n + 1] \in Blank \/ column[n + 1] \notin DOMAIN Value
            THEN Numeric(n + 1) = Numeric(n)
            ELSE /\ Numeric(n + 1) = Numeric(n) \cup {n + 1}
                 /\ Cardinality(Numeric(n + 1)) = Cardinality(Numeric(n)) + 1
<1>1. n \in Nat /\ 1..(n + 1) = 1..n \cup {n + 1} /\ n + 1 \notin 1..n
  OBVIOUS
<1>2. IsFiniteSet(1..n)
  BY <1>1, FS_Interval
<1>3. IsFiniteSet(Filled(n)) /\ IsFiniteSet(Numeric(n))
  BY <1>2, FS_Subset DEF Filled, Numeric
<1>4. Cardinality(Filled(n)) \in Nat /\ Cardinality(Numeric(n)) \in Nat
  BY <1>3, FS_CardinalityType
<1>5. n + 1 \notin Filled(n) /\ n + 1 \notin Numeric(n)
  BY <1>1 DEF Filled, Numeric
<1>6. IF column[n + 1] \in Blank THEN Filled(n + 1) = Filled(n) ELSE Filled(n + 1) = Filled(n) \cup {n + 1}
  BY <1>1 DEF Filled
<1>7. IF column[n + 1] \in Blank \/ column[n + 1] \notin DOMAIN Value
      THEN Numeric(n + 1) = Numeric(n) ELSE Numeric(n + 1) = Numeric(n) \cup {n + 1}
  BY <1>6, <1>5 DEF Numeric
<1>8. /\ Cardinality(Filled(n) \cup {n + 1}) = Cardinality(Filled(n)) + 1
      /\ Cardinality(Numeric(n) \cup {n + 1}) = Cardinality(Numeric(n)) + 1
  BY <1>3, <1>5, FS_AddElement
<1> QED BY <1>3, <1>4, <1>6, <1>7, <1>8

\* The least of the numbers stays the least when it is compared with one more.
LEMMA Widened ==
  ASSUME NEW S \in SUBSET Int, NEW x \in Int \cup {NaN}, NEW v \in Int \cup {NaN}
  PROVE  LET T == (S \cup {v}) \ {NaN}
         IN /\ P!Least(x, v) \in Int \cup {NaN} /\ P!Greatest(x, v) \in Int \cup {NaN}
            /\ IsLeast(x, S) => IsLeast(P!Least(x, v), T)
            /\ IsGreatest(x, S) => IsGreatest(P!Greatest(x, v), T)
<1> USE ProfileAssumption
<1>1. CASE v = NaN
  <2>1. (S \cup {v}) \ {NaN} = S
    BY <1>1
  <2>2. IsLeast(x, S) => P!Least(x, v) = x
    BY <1>1 DEF P!Least, IsLeast
  <2>3. IsGreatest(x, S) => P!Greatest(x, v) = x
    BY <1>1 DEF P!Greatest, IsGreatest
  <2>4. P!Least(x, v) \in Int \cup {NaN} /\ P!Greatest(x, v) \in Int \cup {NaN}
    BY DEF P!Least, P!Greatest
  <2> QED BY <2>1, <2>2, <2>3, <2>4
<1>2. CASE v # NaN /\ S = {}
  <2>1. (S \cup {v}) \ {NaN} = {v}
    BY <1>2
  <2>2. x = NaN => P!Least(x, v) = v /\ P!Greatest(x, v) = v
    BY DEF P!Least, P!Greatest
  <2>3. P!Least(x, v) \in Int \cup {NaN} /\ P!Greatest(x, v) \in Int \cup {NaN}
    BY DEF P!Least, P!Greatest
  <2> QED BY <1>2, <2>1, <2>2, <2>3 DEF IsLeast, IsGreatest
<1>3. CASE v # NaN /\ S # {}
  <2> DEFINE T == S \cup {v}
  <2>1. (S \cup {v}) \ {NaN} = T /\ v \in Int /\ T # {} /\ \A y \in T : y \in Int
    BY <1>3
  <2>2. ASSUME IsLeast(x, S) PROVE IsLeast(P!Least(x, v), T)
    <3>1. x \in S /\ x \in Int /\ x # NaN /\ \A y \in S : x <= y
      BY <1>3, <2>2 DEF IsLeast
    <3>2. P!Least(x, v) = IF x <= v THEN x ELSE v
      BY <1>3, <3>1 DEF P!Least
    <3> QED BY <2>1, <3>1, <3>2 DEF IsLeast
  <2>3. ASSUME IsGreatest(x, S) PROVE IsGreatest(P!Greatest(x, v), T)
    <3>1. x \in S /\ x \in Int /\ x # NaN /\ \A y \in S : x >= y
      BY <1>3, <2>3 DEF IsGreatest
    <3>2. P!Greatest(x, v) = IF x >= v THEN x ELSE v
      BY <1>3, <3>1 DEF P!Greatest
    <3> QED BY <2>1, <3>1, <3>2 DEF IsGreatest
  <2>4. P!Least(x, v) \in Int \cup {NaN} /\ P!Greatest(x, v) \in Int \cup {NaN}
    BY DEF P!Least, P!Greatest
  <2> QED BY <2>1, <2>2, <2>3, <2>4
<1> QED BY <1>1, <1>2, <1>3

\* One row read: the accumulator has what it should have of one cell more.
LEMMA UpdateAccumulates ==
  ASSUME PInv, NEW n \in 0..(Len(column) - 1), NEW sum, SumIs(sum), Accumulated(acc, n, sum),
         NEW a, a = P!Update(column[n + 1])
  PROVE  a \in AccType /\ Accumulated(a, n + 1, sum)
<1> DEFINE cell == column[n + 1]
           v == Value[cell]
           seen == [acc EXCEPT !.non_null_count = @ + 1, !.uniques = @ \cup {cell}]
<1> USE ProfileAssumption
<1>1. /\ n \in Nat /\ n + 1 \in 1..Len(column) /\ cell \in ProfileCell
      /\ n \in 0..Len(column) /\ n + 1 \in 1..(n + 1) /\ n + 1 \notin 1..n
  BY DEF PInv
<1>2. sum[n + 1] = sum[n] + Addend(n + 1) /\ sum[n] \in Int /\ Addend(n + 1) \in Int
  BY <1>1, AddendTyped DEF SumIs
<1>3. acc \in AccType
  BY DEF PInv
<1>4. /\ Cardinality(Filled(n)) \in Nat /\ Cardinality(Numeric(n)) \in Nat
      /\ IsFiniteSet(Numeric(n))
  BY CellsGrow
<1>5. n + 1 \in Numeric(n + 1) <=> cell \notin Blank /\ cell \in DOMAIN Value
  BY <1>1 DEF Numeric, Filled
<1>6. CASE cell \in Blank
  <2>1. a = [acc EXCEPT !.null_count = @ + 1]
    BY <1>6 DEF P!Update
  <2>2. /\ a.null_count = acc.null_count + 1 /\ a.uniques = acc.uniques
        /\ a.non_null_count = acc.non_null_count /\ a.numeric_count = acc.numeric_count
        /\ a.min = acc.min /\ a.max = acc.max /\ a.sum = acc.sum /\ a \in AccType
    BY <2>1, <1>3 DEF AccType
  <2>3. Filled(n + 1) = Filled(n) /\ Numeric(n + 1) = Numeric(n)
    BY <1>6, CellsGrow
  <2>4. Addend(n + 1) = 0
    BY <1>5, <1>6 DEF Addend
  <2>5. Known(n + 1) = Known(n) /\ (HasNaN(n + 1) <=> HasNaN(n)) /\ sum[n + 1] = sum[n]
    BY <1>2, <2>3, <2>4 DEF Known, HasNaN
  <2> HIDE DEF cell
  <2>6. Accumulated(a, n + 1, sum)
    BY <1>1, <1>4, <2>2, <2>3, <2>5 DEF Accumulated
  <2> QED BY <2>2, <2>6
<1>7. ASSUME cell \notin Blank
      PROVE  /\ Filled(n + 1) = Filled(n) \cup {n + 1}
             /\ Cardinality(Filled(n + 1)) = Cardinality(Filled(n)) + 1
             /\ {column[k] : k \in Filled(n + 1)} = {column[k] : k \in Filled(n)} \cup {cell}
  <2>1. Filled(n + 1) = Filled(n) \cup {n + 1}
        /\ Cardinality(Filled(n + 1)) = Cardinality(Filled(n)) + 1
    BY <1>7, CellsGrow
  <2>2. {column[k] : k \in Filled(n + 1)} = {column[k] : k \in Filled(n)} \cup {cell}
    BY <2>1
  <2> QED BY <2>1, <2>2
<1>8. CASE cell \notin Blank /\ cell \notin DOMAIN Value
  <2>1. a = seen
    BY <1>8 DEF P!Update
  <2>2. /\ a.null_count = acc.null_count /\ a.uniques = acc.uniques \cup {cell}
        /\ a.non_null_count = acc.non_null_count + 1 /\ a.numeric_count = acc.numeric_count
        /\ a.min = acc.min /\ a.max = acc.max /\ a.sum = acc.sum /\ a \in AccType
    <3>1. acc.uniques \cup {cell} \in SUBSET ProfileCell /\ acc.non_null_count + 1 \in Int
      BY <1>1, <1>3 DEF AccType
    <3> HIDE DEF cell
    <3> QED BY <2>1, <3>1, <1>3 DEF AccType
  <2>3. Numeric(n + 1) = Numeric(n) /\ Addend(n + 1) = 0
    BY <1>5, <1>8, CellsGrow DEF Addend
  <2>4. Known(n + 1) = Known(n) /\ (HasNaN(n + 1) <=> HasNaN(n)) /\ sum[n + 1] = sum[n]
    BY <1>2, <2>3 DEF Known, HasNaN
  <2> DEFINE cells == {column[k] : k \in Filled(n)}
             grown == {column[k] : k \in Filled(n + 1)}
  <2>5. grown = cells \cup {cell} /\ Cardinality(Filled(n + 1)) = Cardinality(Filled(n)) + 1
    BY <1>7, <1>8
  <2>6. acc.uniques = cells
    BY DEF Accumulated
  <2>7. a.uniques = grown
    BY <2>2, <2>5, <2>6
  <2> HIDE DEF cell
  <2>8. Accumulated(a, n + 1, sum)
    <3>1. a.null_count = (n + 1) - Cardinality(Filled(n + 1))
      BY <1>1, <1>4, <2>2, <2>5 DEF Accumulated
    <3>2. /\ a.non_null_count = Cardinality(Filled(n + 1))
          /\ a.numeric_count = Cardinality(Numeric(n + 1))
          /\ Numeric(n + 1) # {} => IsLeast(a.min, Known(n + 1)) /\ IsGreatest(a.max, Known(n + 1))
          /\ a.sum = IF HasNaN(n + 1) THEN NaN ELSE sum[n + 1]
      BY <2>2, <2>3, <2>4, <2>5 DEF Accumulated
    <3>3. a.uniques = {column[k] : k \in Filled(n + 1)}
      BY <2>7
    <3> QED BY <3>1, <3>2, <3>3, Zenon DEF Accumulated
  <2> QED BY <2>2, <2>8
<1>9. CASE cell \notin Blank /\ cell \in DOMAIN Value
  <2>1. a = [P!Widen(seen, v) EXCEPT !.sum = P!Plus(@, v), !.numeric_count = @ + 1]
    BY <1>9 DEF P!Update
  <2>2. v \in Int \cup {NaN}
    BY <1>9
  <2> DEFINE least == IF Numeric(n) = {} THEN v ELSE P!Least(acc.min, v)
             greatest == IF Numeric(n) = {} THEN v ELSE P!Greatest(acc.max, v)
  <2>3. acc.numeric_count = 0 <=> Numeric(n) = {}
    BY <1>4, FS_EmptySet DEF Accumulated
  <2>4. /\ a.null_count = acc.null_count /\ a.uniques = acc.uniques \cup {cell}
        /\ a.non_null_count = acc.non_null_count + 1 /\ a.numeric_count = acc.numeric_count + 1
        /\ a.min = least /\ a.max = greatest /\ a.sum = P!Plus(acc.sum, v)
        /\ DOMAIN a = DOMAIN acc
    BY <2>1, <2>3, <1>3 DEF AccType, P!Widen
  <2>5. /\ Numeric(n + 1) = Numeric(n) \cup {n + 1}
        /\ Cardinality(Numeric(n + 1)) = Cardinality(Numeric(n)) + 1
    BY <1>9, CellsGrow
  <2>6. Known(n + 1) = (Known(n) \cup {v}) \ {NaN} /\ Known(n) \in SUBSET Int
    BY <2>5, NumberTyped DEF Known
  <2>7. HasNaN(n + 1) <=> HasNaN(n) \/ v = NaN
    BY <2>5 DEF HasNaN
  <2>8. acc.min \in Int \cup {NaN} /\ acc.max \in Int \cup {NaN} /\ acc.sum \in Int \cup {NaN}
    BY <1>3 DEF AccType
  <2>9. least \in Int \cup {NaN} /\ greatest \in Int \cup {NaN}
        /\ IsLeast(least, Known(n + 1)) /\ IsGreatest(greatest, Known(n + 1))
    <3>1. CASE Numeric(n) = {}
      <4>1. Known(n) = {}
        BY <3>1 DEF Known
      <4>2. Known(n + 1) = IF v = NaN THEN {} ELSE {v}
        BY <2>6, <4>1
      <4> HIDE DEF v
      <4> QED BY <2>2, <3>1, <4>2 DEF IsLeast, IsGreatest
    <3>2. CASE Numeric(n) # {}
      <4>1. IsLeast(acc.min, Known(n)) /\ IsGreatest(acc.max, Known(n))
        BY <3>2 DEF Accumulated
      <4> DEFINE T == (Known(n) \cup {v}) \ {NaN}
      <4> HIDE DEF v
      <4>2. /\ P!Least(acc.min, v) \in Int \cup {NaN} /\ P!Greatest(acc.max, v) \in Int \cup {NaN}
            /\ IsLeast(P!Least(acc.min, v), T) /\ IsGreatest(P!Greatest(acc.max, v), T)
        BY <2>2, <2>6, <2>8, <4>1, Widened
      <4>3. least = P!Least(acc.min, v) /\ greatest = P!Greatest(acc.max, v)
        BY <3>2
      <4> QED BY <2>6, <4>2, <4>3
    <3> QED BY <3>1, <3>2
  <2>10. a.sum = (IF HasNaN(n + 1) THEN NaN ELSE sum[n + 1]) /\ a.sum \in Int \cup {NaN}
    <3>1. acc.sum = IF HasNaN(n) THEN NaN ELSE sum[n]
      BY DEF Accumulated
    <3>2. Addend(n + 1) = IF v = NaN THEN 0 ELSE v
      BY <1>5, <1>9 DEF Addend
    <3> HIDE DEF v
    <3> QED BY <1>2, <2>2, <2>4, <2>7, <3>1, <3>2 DEF P!Plus
  <2>11. a \in AccType
    <3>1. acc.null_count \in Int /\ acc.uniques \cup {cell} \in SUBSET ProfileCell
          /\ acc.non_null_count + 1 \in Int /\ acc.numeric_count + 1 \in Int
      BY <1>1, <1>3 DEF AccType
    <3>2. a = [null_count |-> a.null_count, uniques |-> a.uniques, numeric_count |-> a.numeric_count,
               non_null_count |-> a.non_null_count, min |-> a.min, max |-> a.max, sum |-> a.sum]
      BY <1>3, <2>1, <2>3 DEF AccType, P!Widen
    <3> HIDE DEF least, greatest, cell
    <3> QED BY <2>4, <2>9, <2>10, <3>1, <3>2 DEF AccType
  <2> DEFINE cells == {column[k] : k \in Filled(n)}
             grown == {column[k] : k \in Filled(n + 1)}
  <2>12. grown = cells \cup {cell} /\ Cardinality(Filled(n + 1)) = Cardinality(Filled(n)) + 1
    BY <1>7, <1>9
  <2>13. a.uniques = grown
    <3>1. acc.uniques = cells
      BY DEF Accumulated
    <3> QED BY <2>4, <2>12, <3>1
  <2> HIDE DEF cell, v, least, greatest
  <2>14. Accumulated(a, n + 1, sum)
    <3>1. a.null_count = (n + 1) - Cardinality(Filled(n + 1))
      BY <1>1, <1>4, <2>4, <2>12 DEF Accumulated
    <3>2. /\ a.non_null_count = Cardinality(Filled(n + 1))
          /\ a.numeric_count = Cardinality(Numeric(n + 1))
      BY <2>4, <2>5, <2>12 DEF Accumulated
    <3>3. IsLeast(a.min, Known(n + 1)) /\ IsGreatest(a.max, Known(n + 1))
      BY <2>4, <2>9
    <3>4. a.uniques = {column[k] : k \in Filled(n + 1)}
      BY <2>13
    <3> QED BY <2>10, <3>1, <3>2, <3>3, <3>4, Zenon DEF Accumulated
  <2> QED BY <2>11, <2>14
<1> QED BY <1>6, <1>8, <1>9

\* What depends on the column alone stays when the column does.
LEMMA SameColumn ==
  ASSUME column' = column, UNCHANGED broken
  PROVE  /\ \A sum : SumIs(sum)' <=> SumIs(sum)
         /\ \A a, n, sum : Accumulated(a, n, sum)' <=> Accumulated(a, n, sum)
<1>1. \A n : Filled(n)' = Filled(n) /\ Numeric(n)' = Numeric(n) /\ Known(n)' = Known(n)
             /\ (HasNaN(n)' <=> HasNaN(n))
  BY DEF Filled, Numeric, Known, HasNaN
<1>2. \A k : Addend(k)' = Addend(k)
  BY DEF Addend, Numeric, Filled
<1>3. \A sum : SumIs(sum)' <=> SumIs(sum)
  BY <1>2 DEF SumIs
<1>4. \A a, n, sum : Accumulated(a, n, sum)' <=> Accumulated(a, n, sum)
  BY <1>1 DEF Accumulated
<1> QED BY <1>3, <1>4

\* Profile's cardinality is that of FiniteSets.
LEMMA SameCardinality == \A S : P!Cardinality(S) = Cardinality(S)
BY DEF P!Cardinality, Cardinality

\* What Expected takes for the sum, filled being the cells that are not blank.
SumFrom(filled, s) ==
  s = [k \in 0..Len(column) |->
         IF k = 0 THEN 0 ELSE s[k - 1] + (IF k \in filled THEN Value[column[k]] ELSE 0)]

\* The report of a column whose cells that are not blank are filled.
ExpectedOf(filled) ==
  LET proper == {column[k] : k \in filled}
      known == {Value[x] : x \in proper} \ {NaN}
  IN [null_count |-> Len(column) - P!Cardinality(filled), unique_count |-> P!Cardinality(proper),
      numbers |->
        IF filled = {} \/ ~(proper \subseteq DOMAIN Value) THEN <<>>
        ELSE <<IF known = {} THEN NaN ELSE P!Min(known), IF known = {} THEN NaN ELSE P!Max(known),
               IF \E x \in proper : Value[x] = NaN THEN NaN
               ELSE (CHOOSE s : SumFrom(filled, s))[Len(column)],
               P!Cardinality(filled)>>]

\* Without NaN, and with nothing but numbers, it is the sum of the numbers.
LEMMA SumFromIsSum ==
  ASSUME NEW sum, SumIs(sum), Len(column) \in Nat,
         Numeric(Len(column)) = Filled(Len(column)), ~HasNaN(Len(column))
  PROVE  (CHOOSE s : SumFrom(Filled(Len(column)), s))[Len(column)] = sum[Len(column)]
<1> DEFINE n == Len(column)
           add(k) == IF k \in Filled(n) THEN Value[column[k]] ELSE 0
           chosen == CHOOSE s : SumFrom(Filled(n), s)
<1>1. ASSUME NEW k \in 1..n PROVE add(k) = Addend(k)
  <2>1. k \in Numeric(k) <=> k \in Filled(n)
    BY DEF Numeric, Filled
  <2>2. k \in Filled(n) => Value[column[k]] # NaN
    BY DEF HasNaN
  <2> QED BY <2>1, <2>2 DEF Addend
<1>0. n \in Nat
  OBVIOUS
<1>2. sum \in [0..n -> Int] /\ sum[0] = 0 /\ \A k \in 0..(n - 1) : sum[k + 1] = sum[k] + Addend(k + 1)
  BY DEF SumIs
<1>3. SumFrom(Filled(n), sum)
  <2>1. ASSUME NEW k \in 0..n PROVE sum[k] = IF k = 0 THEN 0 ELSE sum[k - 1] + add(k)
    <3>1. CASE k = 0
      BY <1>2, <3>1
    <3>2. CASE k # 0
      <4>1. PICK j \in 0..(n - 1) : k = j + 1
        <5>1. k - 1 \in 0..(n - 1) /\ k = (k - 1) + 1
          BY <3>2
        <5> QED BY <5>1
      <4>2. k \in 1..n /\ k - 1 = j
        BY <3>2, <4>1
      <4> HIDE DEF add
      <4> QED BY <1>1, <1>2, <3>2, <4>1, <4>2
    <3> QED BY <3>1, <3>2
  <2> QED BY <1>2, <2>1 DEF SumFrom
<1>4. SumFrom(Filled(n), chosen)
  BY <1>3
<1>5. ASSUME NEW k \in 0..n PROVE chosen[k] = IF k = 0 THEN 0 ELSE chosen[k - 1] + add(k)
  <2> HIDE DEF chosen
  <2> QED BY <1>4, Zenon DEF SumFrom
<1>6. chosen[0] = sum[0]
  <2>1. 0 \in 0..n
    OBVIOUS
  <2> HIDE DEF chosen, add
  <2> QED BY <1>2, <1>5, <2>1
<1>7. ASSUME NEW k \in 0..(n - 1), chosen[k] = sum[k] PROVE chosen[k + 1] = sum[k + 1]
  <2>1. PICK j \in 1..n : j = k + 1
    OBVIOUS
  <2>2. j \in 0..n /\ j # 0 /\ j - 1 = k
    BY <2>1
  <2> HIDE DEF chosen, add
  <2>3. chosen[j] = chosen[k] + add(j)
    BY <1>5, <2>2
  <2>4. sum[j] = sum[k] + Addend(j)
    BY <1>2, <2>1
  <2> QED BY <1>1, <1>7, <2>1, <2>3, <2>4
<1>8. \A k \in 0..n : chosen[k] = sum[k]
  <2>1. PICK f : f = chosen
    OBVIOUS
  <2>2. f[0] = sum[0] /\ \A k \in 0..(n - 1) : f[k] = sum[k] => f[k + 1] = sum[k + 1]
    <3> HIDE DEF chosen
    <3> QED BY <1>6, <1>7, <2>1
  <2>3. \A k \in 0..n : f[k] = sum[k]
    <3> HIDE DEF chosen, n, add
    <3> QED BY <1>0, <2>2, RunsAgree, Zenon
  <2> QED BY <2>1, <2>3
<1>9. n \in 0..n
  OBVIOUS
<1> HIDE DEF chosen
<1> QED BY <1>8, <1>9 DEF chosen

\* The least of a set of numbers is its minimum.
LEMMA LeastIsMin ==
  ASSUME NEW S \in SUBSET Int, S # {}, NEW x, NEW y, IsLeast(x, S), IsGreatest(y, S)
  PROVE  x = P!Min(S) /\ y = P!Max(S)
<1>1. x \in S /\ \A z \in S : x <= z
  BY DEF IsLeast
<1>2. y \in S /\ \A z \in S : y >= z
  BY DEF IsGreatest
<1>3. P!Min(S) \in S /\ \A z \in S : P!Min(S) <= z
  BY <1>1 DEF P!Min
<1>4. P!Max(S) \in S /\ \A z \in S : P!Max(S) >= z
  BY <1>2 DEF P!Max
<1>5. x <= P!Min(S) /\ P!Min(S) <= x /\ x \in Int /\ P!Min(S) \in Int
  BY <1>1, <1>3
<1>6. y <= P!Max(S) /\ P!Max(S) <= y /\ y \in Int /\ P!Max(S) \in Int
  BY <1>2, <1>4
<1> QED BY <1>5, <1>6

\* The report of the whole column is the one that is expected of it.
LEMMA FinishExact ==
  ASSUME PInv, P!Finish
  PROVE  broken = 0 /\ report' = <<P!Expected>>
<1> DEFINE n == Len(column)
<1>1. n \in Nat /\ row_count = n
  BY DEF PInv, P!Finish
<1>2. broken = 0
  BY <1>1 DEF PInv
<1>3. PICK sum : SumIs(sum) /\ Accumulated(acc, n, sum)
  BY <1>1 DEF PInv
<1>4. Filled(n) = {k \in DOMAIN column : column[k] \notin Blank}
  <2>1. DOMAIN column = 1..n
    BY DEF PInv
  <2> QED BY <2>1 DEF Filled
<1> DEFINE filled == Filled(n)
           proper == {column[k] : k \in filled}
           known == {Value[x] : x \in proper} \ {NaN}
           total == (CHOOSE s : SumFrom(filled, s))[n]
           numbers == <<IF known = {} THEN NaN ELSE P!Min(known), IF known = {} THEN NaN ELSE P!Max(known),
                        IF \E x \in proper : Value[x] = NaN THEN NaN ELSE total, Cardinality(filled)>>
<1>5. P!Expected = [null_count |-> n - Cardinality(filled), unique_count |-> Cardinality(proper),
                    numbers |-> IF filled = {} \/ ~(proper \subseteq DOMAIN Value) THEN <<>> ELSE numbers]
  <2>1. P!Expected = ExpectedOf({k \in DOMAIN column : column[k] \notin Blank})
    BY Zenon DEF P!Expected, ExpectedOf, SumFrom
  <2>2. P!Expected = ExpectedOf(Filled(n))
    BY <1>4, <2>1
  <2> DEFINE least == IF known = {} THEN NaN ELSE P!Min(known)
             greatest == IF known = {} THEN NaN ELSE P!Max(known)
             added == IF \E x \in proper : Value[x] = NaN THEN NaN ELSE total
  <2>3. P!Expected = [null_count |-> n - P!Cardinality(filled), unique_count |-> P!Cardinality(proper),
                      numbers |-> IF filled = {} \/ ~(proper \subseteq DOMAIN Value) THEN <<>>
                                  ELSE <<least, greatest, added, P!Cardinality(filled)>>]
    BY <2>2, Zenon DEF ExpectedOf
  <2>4. P!Cardinality(filled) = Cardinality(filled) /\ P!Cardinality(proper) = Cardinality(proper)
    BY SameCardinality
  <2>5. numbers = <<least, greatest, added, Cardinality(filled)>>
    OBVIOUS
  <2> HIDE DEF n, filled, proper, known, total, least, greatest, added, numbers
  <2> QED BY <2>3, <2>4, <2>5
<1>6. /\ IsFiniteSet(Filled(n)) /\ Numeric(n) \subseteq Filled(n)
      /\ Cardinality(Filled(n)) \in Nat
  <2>1. IsFiniteSet(1..n)
    BY <1>1, FS_Interval
  <2>2. IsFiniteSet(Filled(n))
    BY <2>1, FS_Subset DEF Filled
  <2> QED BY <2>2, FS_CardinalityType DEF Numeric
<1>7. /\ acc.null_count = n - Cardinality(filled) /\ acc.uniques = proper
      /\ acc.non_null_count = Cardinality(filled) /\ acc.numeric_count = Cardinality(Numeric(n))
  BY <1>3 DEF Accumulated
<1>8. acc.non_null_count > 0 <=> filled # {}
  <2>1. Cardinality(filled) = 0 <=> filled = {}
    BY <1>6, FS_EmptySet
  <2> HIDE DEF filled
  <2> QED BY <1>6, <1>7, <2>1 DEF filled
<1>9. acc.numeric_count = acc.non_null_count <=> Numeric(n) = filled
  BY <1>6, <1>7, FS_Subset
<1>10. Numeric(n) = filled <=> proper \subseteq DOMAIN Value
  BY DEF Numeric
<1>11. ASSUME filled # {}, Numeric(n) = filled
       PROVE  <<acc.min, acc.max, acc.sum, acc.numeric_count>> = numbers
  <2>1. known = Known(n) /\ Known(n) \in SUBSET Int
    BY <1>11, NumberTyped DEF Known
  <2>2. IsLeast(acc.min, Known(n)) /\ IsGreatest(acc.max, Known(n))
    BY <1>3, <1>11 DEF Accumulated
  <2>3. acc.min = (IF known = {} THEN NaN ELSE P!Min(known))
        /\ acc.max = IF known = {} THEN NaN ELSE P!Max(known)
    <3> HIDE DEF known
    <3>1. CASE known = {}
      BY <2>1, <2>2, <3>1 DEF IsLeast, IsGreatest
    <3>2. CASE known # {}
      BY <2>1, <2>2, <3>2, LeastIsMin
    <3> QED BY <3>1, <3>2
  <2>4. HasNaN(n) <=> \E x \in proper : Value[x] = NaN
    BY <1>11 DEF HasNaN
  <2>5. ~HasNaN(n) => total = sum[n]
    BY <1>1, <1>3, <1>11, SumFromIsSum
  <2>6. acc.sum = IF HasNaN(n) THEN NaN ELSE sum[n]
    BY <1>3 DEF Accumulated
  <2>7. acc.sum = IF \E x \in proper : Value[x] = NaN THEN NaN ELSE total
    <3> HIDE DEF total, proper
    <3> QED BY <2>4, <2>5, <2>6
  <2> HIDE DEF total, proper, known, filled
  <2> QED BY <1>7, <1>11, <2>3, <2>7
<1>12. report' = <<[null_count |-> acc.null_count, unique_count |-> Cardinality(acc.uniques),
                    numbers |-> IF acc.non_null_count > 0 /\ acc.numeric_count = acc.non_null_count
                                THEN <<acc.min, acc.max, acc.sum, acc.numeric_count>> ELSE <<>>]>>
  BY SameCardinality DEF P!Finish
<1> HIDE DEF n, filled, proper, numbers
<1>13. (IF acc.non_null_count > 0 /\ acc.numeric_count = acc.non_null_count
        THEN <<acc.min, acc.max, acc.sum, acc.numeric_count>> ELSE <<>>)
       = IF filled = {} \/ ~(proper \subseteq DOMAIN Value) THEN <<>> ELSE numbers
  BY <1>8, <1>9, <1>10, <1>11
<1> QED BY <1>2, <1>5, <1>7, <1>12, <1>13

\* Every step of the engine keeps the invariant of profile_file.
LEMMA ProfileStep == PInv /\ [Next]_allVars => PInv'
<1> SUFFICES ASSUME PInv, [Next]_allVars PROVE PInv'
  OBVIOUS
<1>1. CASE UNCHANGED profileVars
  <2>1. column' = column /\ UNCHANGED <<broken, row_count, acc, report>>
    BY <1>1 DEF profileVars
  <2>2. ProfileExact'
    <3>1. P!Expected' = P!Expected
      BY <2>1 DEF P!Expected
    <3> QED BY <2>1, <3>1 DEF PInv, ProfileExact, P!ProfileExact
  <2>3. PICK sum : SumIs(sum) /\ Accumulated(acc, row_count, sum)
    BY DEF PInv
  <2>4. SumIs(sum)' /\ Accumulated(acc, row_count, sum)'
    BY <2>1, <2>3, SameColumn
  <2> QED BY <2>1, <2>2, <2>4 DEF PInv, AccType
<1>2. CASE P!ReadRow
  <2>1. column' = column /\ UNCHANGED broken /\ report = <<>> /\ row_count < Len(column)
    BY <1>2 DEF P!ReadRow
  <2>2. PICK sum : SumIs(sum) /\ Accumulated(acc, row_count, sum)
    BY DEF PInv
  <2>3. CASE row_count + 1 = broken /\ report' = <<"error">> /\ UNCHANGED <<row_count, acc>>
    <3>1. ProfileExact'
      BY <2>1, <2>3 DEF PInv, ProfileExact, P!ProfileExact
    <3> QED BY <2>1, <2>2, <2>3, <3>1, SameColumn DEF PInv, AccType
  <2>4. CASE /\ row_count + 1 # broken /\ row_count' = row_count + 1
             /\ acc' = P!Update(column[row_count + 1]) /\ UNCHANGED report
    <3>1. PICK n \in 0..(Len(column) - 1) : n = row_count
      BY <2>1 DEF PInv
    <3>2. PICK a : a = P!Update(column[n + 1])
      OBVIOUS
    <3>3. a \in AccType /\ Accumulated(a, n + 1, sum)
      BY <2>2, <3>1, <3>2, UpdateAccumulates
    <3>4. acc' = a /\ row_count' = n + 1
      BY <2>4, <3>1, <3>2
    <3>5. SumIs(sum)' /\ Accumulated(acc, row_count, sum)'
      BY <2>1, <2>2, <3>3, <3>4, SameColumn
    <3>6. ProfileExact'
      BY <2>1, <2>4 DEF ProfileExact, P!ProfileExact
    <3> QED BY <2>1, <2>4, <3>1, <3>3, <3>4, <3>5, <3>6 DEF PInv, AccType
  <2> QED BY <1>2, <2>3, <2>4 DEF P!ReadRow
<1>3. CASE P!Finish
  <2>1. column' = column /\ UNCHANGED <<broken, row_count, acc>>
    BY <1>3 DEF P!Finish
  <2>2. broken' = 0 /\ report' = <<P!Expected>>
    BY <1>3, <2>1, FinishExact
  <2>3. P!Expected' = P!Expected
    BY <2>1 DEF P!Expected
  <2>4. ProfileExact'
    BY <2>2, <2>3 DEF ProfileExact, P!ProfileExact
  <2>5. PICK sum : SumIs(sum) /\ Accumulated(acc, row_count, sum)
    BY DEF PInv
  <2>6. SumIs(sum)' /\ Accumulated(acc, row_count, sum)'
    BY <2>1, <2>5, SameColumn
  <2> QED BY <2>1, <2>4, <2>6 DEF PInv, AccType
<1> QED BY <1>1, <1>2, <1>3 DEF Next, P!Next, allVars, profileVars

\* A profile is exact: the one pass over the rows, which keeps only counts, the
\* set of the cells, the extremes and the sum, reports what the definitions of
\* the statistics say of the whole column, NaN among its numbers or not
\* (profile_file, ColumnAcc).
THEOREM ProfileExactAlways == Spec => []ProfileExact
<1>1. PInv => ProfileExact
  BY DEF PInv
<1> QED BY <1>1, ProfileInit, ProfileStep, PTL DEF Spec
=============================================================================
