------------------------ MODULE ViolationStoreProofs ------------------------
(* Proofs about ViolationStore, for every set of calls, every batch size    *)
(* and every slice length.                                                  *)
EXTENDS ViolationStore, FiniteSetTheorems, TLAPS

\* Names for parts of the actions, expanded in every proof.
USE DEF HasItem, NewTxn, Retry, Early, Verdict

-----------------------------------------------------------------------------
(***************************************************************************)
(* The inductive invariant.  CommittedIsDurable and VerdictExact are       *)
(* not inductive by themselves: what a commit adds to the disk is txn[c],  *)
(* and nothing in them ties it to i[c] and committed[c].  Window does: the *)
(* open transaction holds exactly the indices from `committed` up to the   *)
(* loop index (inclusive, when a full batch is about to be committed).     *)
(***************************************************************************)
Window(c) ==
  /\ committed[c] <= i[c]
  /\ i[c] <= len[c]
  /\ pc[c] \in {"put", "toobig"} => txn[c] = {k \in Index : committed[c] <= k /\ k < i[c]}
  /\ pc[c] \in {"batch", "toobig"} => i[c] < len[c]
  /\ pc[c] = "batch" => txn[c] = {k \in Index : committed[c] <= k /\ k <= i[c]}

\* What holds of one call.
CallInv(c) ==
  /\ pc[c] = "idle" => i[c] = 0 /\ committed[c] = 0
  /\ pc[c] \notin Running => txn[c] = {}
  /\ pc[c] \in Running => Window(c)
  /\ pc[c] # "ok" => \A k \in Index : <<c, k>> \in db <=> k < committed[c]
  /\ pc[c] = "ok" => \A k \in Index : <<c, k>> \in db <=> k < len[c]
  /\ pc[c] = "failed" => committed[c] < len[c]

IInv == TypeOK /\ \A c \in Call : CallInv(c)

\* The initial state satisfies the invariant.
LEMMA InitIInv == Init => IInv
  BY LenAssumption DEF Init, IInv, TypeOK, CallInv, Index, Running, Returned

\* A step of call c leaves what is true of another call d alone.
Frame(c) ==
  \A d \in Call \ {c} :
    /\ pc'[d] = pc[d]
    /\ len'[d] = len[d]
    /\ i'[d] = i[d]
    /\ txn'[d] = txn[d]
    /\ committed'[d] = committed[d]
    /\ \A k \in Index : <<d, k>> \in db' <=> <<d, k>> \in db

LEMMA FrameInv ==
  ASSUME NEW c \in Call, IInv, Frame(c), CallInv(c)'
  PROVE  \A d \in Call : CallInv(d)'
<1> SUFFICES ASSUME NEW d \in Call, d # c PROVE CallInv(d)'
  OBVIOUS
<1>1. CallInv(d)
  BY DEF IInv
<1>2. QED
  BY <1>1 DEF Frame, CallInv, Window, Index

\* Each step of a call preserves the invariant.
LEMMA BeginInv == ASSUME NEW c \in Call, IInv, Begin(c) PROVE IInv'
<1> USE LenAssumption
<1>1. TypeOK'
  BY DEF IInv, TypeOK, Begin, Index, Running, Returned
<1>2. CallInv(c)'
  BY DEF IInv, TypeOK, CallInv, Window, Begin, Index, Running, Returned
<1>3. Frame(c)
  BY DEF IInv, TypeOK, Frame, Begin
<1>4. QED
  BY <1>1, <1>2, <1>3, FrameInv DEF IInv

LEMMA PutInv == ASSUME NEW c \in Call, IInv, Put(c) PROVE IInv'
<1> USE LenAssumption
<1>1. Window(c) /\ TypeOK /\ CallInv(c)
  BY DEF IInv, CallInv, Put, Running
<1>2. i[c] \in Nat /\ len[c] \in 0..MaxLen /\ i[c] < len[c] /\ committed[c] \in Nat
  BY <1>1 DEF TypeOK, Put, Index
<1>3. TypeOK'
  BY <1>1, <1>2 DEF TypeOK, Put, Index, Running, Returned
<1>4. txn'[c] = {k \in Index : committed[c] <= k /\ k <= i[c]}
  BY <1>1, <1>2 DEF TypeOK, Window, Put, Index
<1>5. CallInv(c)'
  <2>1. CASE BatchFull(i[c])
    BY <1>1, <1>2, <1>3, <1>4, <2>1 DEF TypeOK, CallInv, Window, Put, Index, Running
  <2>2. CASE ~BatchFull(i[c])
    <3>1. txn'[c] = {k \in Index : committed[c] <= k /\ k < i'[c]}
      BY <1>1, <1>2, <1>4, <2>2 DEF TypeOK, Put, Index
    <3>2. QED
      BY <1>1, <1>2, <1>3, <3>1, <2>2 DEF TypeOK, CallInv, Window, Put, Index, Running
  <2>3. QED
    BY <2>1, <2>2
<1>6. Frame(c)
  BY <1>1 DEF TypeOK, Frame, Put
<1>7. QED
  BY <1>3, <1>5, <1>6, FrameInv DEF IInv

LEMMA PutTooBigInv == ASSUME NEW c \in Call, IInv, PutTooBig(c) PROVE IInv'
<1>1. TypeOK'
  BY DEF IInv, TypeOK, PutTooBig, Running
<1>2. CallInv(c)'
  BY DEF IInv, TypeOK, CallInv, Window, PutTooBig, Running, Index
<1>3. Frame(c)
  BY DEF IInv, TypeOK, Frame, PutTooBig
<1>4. QED
  BY <1>1, <1>2, <1>3, FrameInv DEF IInv

LEMMA PutFailsInv == ASSUME NEW c \in Call, IInv, PutFails(c) PROVE IInv'
<1>1. TypeOK'
  BY DEF IInv, TypeOK, PutFails, Returned
<1>2. CallInv(c)'
  BY DEF IInv, TypeOK, CallInv, Window, PutFails, Running, Index
<1>3. Frame(c)
  BY DEF IInv, TypeOK, Frame, PutFails
<1>4. QED
  BY <1>1, <1>2, <1>3, FrameInv DEF IInv

LEMMA CommitTooBigInv == ASSUME NEW c \in Call, IInv, CommitTooBig(c) PROVE IInv'
<1> USE LenAssumption DEF CommitTooBig, CommitOk
<1>1. Window(c) /\ TypeOK /\ CallInv(c)
  BY DEF IInv, CallInv, Running
<1>2. TypeOK'
  BY <1>1 DEF TypeOK, Index, Running, Returned
<1>3. CallInv(c)'
  BY <1>1, <1>2 DEF TypeOK, CallInv, Window, Index, Running
<1>4. Frame(c)
  BY <1>1 DEF TypeOK, Frame
<1>5. QED
  BY <1>2, <1>3, <1>4, FrameInv DEF IInv

LEMMA CommitBatchInv == ASSUME NEW c \in Call, IInv, CommitBatch(c) PROVE IInv'
<1> USE LenAssumption DEF CommitBatch, CommitOk
<1>1. Window(c) /\ TypeOK /\ CallInv(c)
  BY DEF IInv, CallInv, Running
<1>2. i[c] < len[c] /\ i[c] + 1 \in Index
  BY <1>1 DEF TypeOK, Window, Index
<1>3. TypeOK'
  BY <1>1, <1>2 DEF TypeOK, Index, Running, Returned
<1>4. CallInv(c)'
  BY <1>1, <1>2, <1>3 DEF TypeOK, CallInv, Window, Index, Running
<1>5. Frame(c)
  BY <1>1 DEF TypeOK, Frame
<1>6. QED
  BY <1>3, <1>4, <1>5, FrameInv DEF IInv

LEMMA CommitLastInv == ASSUME NEW c \in Call, IInv, CommitLast(c) PROVE IInv'
<1> USE LenAssumption DEF CommitLast, CommitOk
<1>1. Window(c) /\ TypeOK /\ CallInv(c)
  BY DEF IInv, CallInv, Running
<1>2. TypeOK'
  BY <1>1 DEF TypeOK, Index, Running, Returned
<1>3. CallInv(c)'
  BY <1>1, <1>2 DEF TypeOK, CallInv, Window, Index, Running
<1>4. Frame(c)
  BY <1>1 DEF TypeOK, Frame
<1>5. QED
  BY <1>2, <1>3, <1>4, FrameInv DEF IInv

LEMMA CommitErrorInv == ASSUME NEW c \in Call, IInv, CommitError(c) PROVE IInv'
<1> USE DEF CommitError, CommitFails
<1>1. TypeOK'
  BY DEF IInv, TypeOK, Returned
<1>2. CallInv(c)'
  BY DEF IInv, TypeOK, CallInv, Window, Running, Index
<1>3. Frame(c)
  BY DEF IInv, TypeOK, Frame
<1>4. QED
  BY <1>1, <1>2, <1>3, FrameInv DEF IInv

LEMMA ProcessInv == ASSUME IInv, Close \/ Open \/ Exit PROVE IInv'
<1>1. CASE Close \/ Open
  <2>1. TypeOK'
    BY <1>1 DEF IInv, TypeOK, Close, Open
  <2>2. ASSUME NEW c \in Call PROVE CallInv(c)'
    BY <1>1 DEF IInv, CallInv, Window, Close, Open
  <2>3. QED
    BY <2>1, <2>2 DEF IInv
<1>2. CASE Exit
  <2>1. TypeOK'
    BY <1>2 DEF IInv, TypeOK, Exit, Returned
  <2>2. ASSUME NEW c \in Call PROVE CallInv(c)'
    BY <1>2 DEF IInv, TypeOK, CallInv, Window, Exit, Running, Index
  <2>3. QED
    BY <2>1, <2>2 DEF IInv
<1>3. QED
  BY <1>1, <1>2

LEMMA NextIInv == IInv /\ [Next]_vars => IInv'
<1> SUFFICES ASSUME IInv, [Next]_vars PROVE IInv'
  OBVIOUS
<1>1. ASSUME NEW c \in Call, Begin(c) \/ Step(c) PROVE IInv'
  BY <1>1, BeginInv, PutInv, PutTooBigInv, PutFailsInv, CommitTooBigInv,
     CommitBatchInv, CommitLastInv, CommitErrorInv DEF Step
<1>2. CASE Close \/ Open \/ Exit
  BY <1>2, ProcessInv
<1>3. CASE UNCHANGED vars
  BY <1>3 DEF vars, IInv, TypeOK, CallInv, Window
<1>4. QED
  BY <1>1, <1>2, <1>3 DEF Next

\* Every reachable state satisfies the invariant.
THEOREM Invariance == Spec => []IInv
  BY InitIInv, NextIInv, PTL DEF Spec

\* Every variable keeps its type; with MaxLen a bound on the slice, this says
\* that the loop index never leaves the slice.
THEOREM TypeCorrect == Spec => []TypeOK
  BY Invariance, PTL DEF IInv

\* The violations on disk of a call that has not succeeded are exactly the
\* first `committed` ones, whatever commits, closes and crashes happened.
THEOREM CommittedIsDurableAlways == Spec => []CommittedIsDurable
<1>1. IInv => CommittedIsDurable
  BY DEF IInv, TypeOK, CallInv, CommittedIsDurable, Durable
<1>2. QED
  BY <1>1, Invariance, PTL

\* A call that returned nil has its whole slice on disk, and one that returned
\* an error has not.
THEOREM VerdictExactAlways == Spec => []VerdictExact
<1>1. ASSUME IInv, NEW c \in Call, pc[c] = "ok"
      PROVE  Durable(c) = {k \in Index : k < len[c]}
  BY <1>1 DEF IInv, TypeOK, CallInv, Durable
<1>2. ASSUME IInv, NEW c \in Call, pc[c] = "failed"
      PROVE  Durable(c) # {k \in Index : k < len[c]}
  <2>1. committed[c] \in Index /\ committed[c] < len[c] /\ <<c, committed[c]>> \notin db
    BY <1>2 DEF IInv, TypeOK, CallInv, Index
  <2>2. QED
    BY <2>1 DEF Durable
<1>3. IInv => VerdictExact
  BY <1>1, <1>2 DEF VerdictExact
<1>4. QED
  BY <1>3, Invariance, PTL

-----------------------------------------------------------------------------
(***************************************************************************)
(* The size of a transaction.  The code never counts what it put into the  *)
(* open transaction; it only looks at the loop index.  The bound holds     *)
(* because the transaction starts no earlier than the last multiple of     *)
(* txnBatchSize, which an early commit can only move forward.              *)
(***************************************************************************)
Block(q, c) ==
  /\ q * TxnBatchSize <= committed[c]
  /\ i[c] < (q + 1) * TxnBatchSize
  /\ pc[c] = "batch" => BatchFull(i[c])

Aligned == \A c \in Call : pc[c] \in Running => \E q \in Nat : Block(q, c)

\* Multiples of the batch size grow with the factor by at least the batch size.
LEMMA NextMultiple ==
  ASSUME NEW q \in Nat
  PROVE  /\ q * TxnBatchSize \in Nat
         /\ (q + 1) * TxnBatchSize = q * TxnBatchSize + TxnBatchSize
         /\ q <= q * TxnBatchSize
  BY BatchAssumption

\* Entering the call, an early commit, and the next item of the same block.
LEMMA AlignedStep == IInv /\ Aligned /\ [Next]_vars => Aligned'
<1> SUFFICES ASSUME IInv, Aligned, [Next]_vars, NEW d \in Call, pc'[d] \in Running
             PROVE  \E q \in Nat : Block(q, d)'
  BY DEF Aligned
<1>1. TypeOK /\ CallInv(d) /\ i[d] \in Nat /\ committed[d] \in Nat
  BY DEF IInv, TypeOK, Index
<1>2. ASSUME NEW c \in Call, Begin(c) \/ Step(c), c # d
      PROVE  \E q \in Nat : Block(q, d)'
  <2>1. /\ pc'[d] = pc[d]
        /\ i'[d] = i[d]
        /\ committed'[d] = committed[d]
    BY <1>1, <1>2 DEF TypeOK, Begin, Step, Put, PutTooBig, PutFails, CommitTooBig,
       CommitBatch, CommitLast, CommitError, CommitFails
  <2>2. PICK q \in Nat : Block(q, d)
    BY <2>1 DEF Aligned
  <2>3. QED
    BY <2>1, <2>2 DEF Block, BatchFull
<1>3. CASE Begin(d)
  <2>1. pc'[d] = "put" /\ i'[d] = 0 /\ committed'[d] = 0
    BY <1>1, <1>3 DEF Begin, TypeOK, CallInv
  <2>2. Block(0, d)'
    BY <2>1, BatchAssumption DEF Block
  <2>3. QED
    BY <2>2
<1>4. CASE Put(d)
  <2>1. PICK q \in Nat : Block(q, d)
    BY <1>4 DEF Aligned, Put, Running
  <2>2. CASE BatchFull(i[d])
    BY <1>1, <1>4, <2>1, <2>2 DEF Block, Put, TypeOK, BatchFull
  <2>3. CASE ~BatchFull(i[d])
    <3>1. i[d] + 1 # (q + 1) * TxnBatchSize
      <4>1. SUFFICES ASSUME i[d] + 1 = (q + 1) * TxnBatchSize PROVE q + 1 \in 1..(i[d] + 1)
        BY <2>3, <4>1 DEF BatchFull
      <4>2. q + 1 <= (q + 1) * TxnBatchSize
        BY NextMultiple
      <4>3. QED
        BY <1>1, <4>1, <4>2
    <3>2. /\ i'[d] = i[d] + 1
          /\ pc'[d] = "put"
          /\ committed'[d] = committed[d]
      BY <1>1, <1>4, <2>3 DEF Put, TypeOK
    <3>3. Block(q, d)'
      BY <1>1, <2>1, <3>1, <3>2, NextMultiple, BatchAssumption DEF Block
    <3>4. QED
      BY <3>3
  <2>4. QED
    BY <2>2, <2>3
<1>5. CASE PutTooBig(d)
  <2>1. PICK q \in Nat : Block(q, d)
    BY <1>5 DEF Aligned, PutTooBig, Running
  <2>2. QED
    BY <1>1, <1>5, <2>1 DEF Block, PutTooBig, TypeOK
<1>6. CASE PutFails(d) \/ CommitLast(d) \/ CommitError(d)
  BY <1>1, <1>6 DEF PutFails, CommitLast, CommitError, CommitFails, TypeOK, Running
<1>7. CASE CommitTooBig(d)
  <2>1. PICK q \in Nat : Block(q, d)
    BY <1>7 DEF Aligned, CommitTooBig, Running
  <2>2. pc'[d] = "put" /\ i'[d] = i[d] /\ committed'[d] = i[d]
    BY <1>1, <1>7 DEF CommitTooBig, TypeOK
  <2>3. committed[d] <= i[d]
    BY <1>1, <1>7 DEF CallInv, Window, Running, CommitTooBig
  <2>4. Block(q, d)'
    BY <1>1, <2>1, <2>2, <2>3, NextMultiple DEF Block
  <2>5. QED
    BY <2>4
<1>8. CASE CommitBatch(d)
  <2>1. BatchFull(i[d])
    BY <1>8 DEF Aligned, Block, CommitBatch, Running
  <2>2. PICK q \in 1..(i[d] + 1) : i[d] + 1 = q * TxnBatchSize
    BY <2>1 DEF BatchFull
  <2>3. pc'[d] = "put" /\ i'[d] = i[d] + 1 /\ committed'[d] = i[d] + 1
    BY <1>1, <1>8 DEF CommitBatch, TypeOK
  <2>4. Block(q, d)'
    BY <1>1, <2>2, <2>3, NextMultiple, BatchAssumption DEF Block
  <2>5. QED
    BY <2>4
<1>9. CASE Close \/ Open \/ Exit \/ UNCHANGED vars
  <2>1. pc[d] \in Running /\ pc'[d] = pc[d] /\ i'[d] = i[d] /\ committed'[d] = committed[d]
    BY <1>1, <1>9 DEF Close, Open, Exit, vars, TypeOK, Running
  <2>2. PICK q \in Nat : Block(q, d)
    BY <2>1 DEF Aligned
  <2>3. QED
    BY <2>1, <2>2 DEF Block, BatchFull
<1>10. QED
  BY <1>2, <1>3, <1>4, <1>5, <1>6, <1>7, <1>8, <1>9 DEF Next, Step

LEMMA IntervalSize ==
  ASSUME NEW a \in Nat, NEW b \in Nat, a <= b + 1
  PROVE  IsFiniteSet(a..b) /\ Cardinality(a..b) = b + 1 - a
<1>1. IsFiniteSet(a..b) /\ Cardinality(a..b) = IF a > b THEN 0 ELSE b - a + 1
  BY FS_Interval
<1>2. QED
  BY <1>1

LEMMA AlignedBounds == IInv /\ Aligned => BatchBounded
<1> SUFFICES ASSUME IInv, Aligned, NEW c \in Call
             PROVE  Cardinality(txn[c]) <= TxnBatchSize
  BY DEF BatchBounded
<1>1. TypeOK /\ CallInv(c) /\ i[c] \in Nat /\ committed[c] \in Nat
      /\ len[c] \in Nat /\ len[c] <= MaxLen
  BY DEF IInv, TypeOK, Index
<1>2. CASE pc[c] \notin Running
  BY <1>1, <1>2, FS_EmptySet, BatchAssumption DEF CallInv
<1>3. CASE pc[c] \in Running
  <2>1. Window(c)
    BY <1>1, <1>3 DEF CallInv
  <2>2. PICK q \in Nat : Block(q, c)
    BY <1>3 DEF Aligned
  <2>3. i[c] + 1 - committed[c] <= TxnBatchSize
    BY <1>1, <2>2, NextMultiple, BatchAssumption DEF Block
  <2>4. IsFiniteSet(committed[c]..i[c])
        /\ Cardinality(committed[c]..i[c]) = i[c] + 1 - committed[c]
    <3>1. committed[c] \in Nat /\ i[c] \in Nat /\ committed[c] <= i[c] + 1
      BY <1>1, <2>1 DEF Window
    <3>2. QED
      BY <3>1, IntervalSize
  <2>5. txn[c] \subseteq committed[c]..i[c]
    BY <1>1, <1>3, <2>1, LenAssumption DEF Window, Running, Index
  <2>6. Cardinality(txn[c]) \in Nat /\ Cardinality(txn[c]) <= Cardinality(committed[c]..i[c])
    BY <2>4, <2>5, FS_Subset, FS_CardinalityType
  <2>7. QED
    BY <1>1, <2>3, <2>4, <2>6, BatchAssumption
<1>4. QED
  BY <1>2, <1>3

\* No transaction of SaveViolations ever holds more than txnBatchSize entries.
THEOREM BatchBoundedAlways == Spec => []BatchBounded
<1>1. Init => Aligned
  BY DEF Init, Aligned, Running
<1>2. QED
  BY <1>1, AlignedStep, AlignedBounds, Invariance, PTL DEF Spec

-----------------------------------------------------------------------------
(* SaveViolations implements ViolationLog.                                  *)

LEMMA InitRefines == Init => Log!Init
  BY DEF Init, Log!Init, Phase, Running

LEMMA StepRefines == IInv /\ [Next]_vars => [Log!Next]_(Log!vars)
<1> SUFFICES ASSUME IInv, [Next]_vars PROVE [Log!Next]_(Log!vars)
  OBVIOUS
<1> DEFINE phase == [c \in Call |-> Phase(c)]
<1>0. TypeOK /\ \A c \in Call : CallInv(c)
  BY DEF IInv
<1>1. ASSUME NEW c \in Call, Begin(c) PROVE Log!Begin(c)
  <2>1. phase' = [phase EXCEPT ![c] = "saving"] /\ phase[c] = "idle"
    BY <1>0, <1>1 DEF Begin, Phase, TypeOK, Running
  <2>2. QED
    BY <1>1, <2>1 DEF Begin, Log!Begin, Index
<1>2. ASSUME NEW c \in Call, Put(c) \/ PutTooBig(c) PROVE UNCHANGED Log!vars
  <2>1. phase' = phase
    BY <1>0, <1>2 DEF Put, PutTooBig, Phase, TypeOK, Running
  <2>2. QED
    BY <1>2, <2>1 DEF Put, PutTooBig, Log!vars
<1>3. ASSUME NEW c \in Call, PutFails(c) \/ CommitError(c) PROVE Log!Fail(c)
  <2>1. phase' = [phase EXCEPT ![c] = "failed"] /\ phase[c] = "saving"
    BY <1>0, <1>3 DEF PutFails, CommitError, CommitFails, Phase, TypeOK, Running
  <2>2. committed[c] < len[c] /\ committed[c] \in 0..MaxLen /\ <<c, committed[c]>> \notin db
    BY <1>0, <1>3 DEF PutFails, CommitError, CommitFails, TypeOK, CallInv, Window, Running, Index
  <2>3. QED
    BY <1>3, <2>1, <2>2 DEF PutFails, CommitError, CommitFails, Log!Fail
<1>4. ASSUME NEW c \in Call, CommitTooBig(c) PROVE Log!Extend(c)
  <2>1. phase' = phase /\ phase[c] = "saving"
    BY <1>0, <1>4 DEF CommitTooBig, Phase, TypeOK, Running
  <2>2. i[c] \in 0..len[c]
    BY <1>0, <1>4 DEF CommitTooBig, TypeOK, CallInv, Window, Running, Index
  <2>3. db \cup ({c} \X txn[c]) = db \cup Log!Prefix(c, i[c])
    BY <1>0, <1>4 DEF CommitTooBig, TypeOK, CallInv, Window, Running, Index, Log!Prefix
  <2>4. QED
    BY <1>4, <2>1, <2>2, <2>3 DEF CommitTooBig, CommitOk, Log!Extend
<1>5. ASSUME NEW c \in Call, CommitBatch(c) PROVE Log!Extend(c)
  <2>1. phase' = phase /\ phase[c] = "saving"
    BY <1>0, <1>5 DEF CommitBatch, Phase, TypeOK, Running
  <2>2. i[c] + 1 \in 0..len[c]
    BY <1>0, <1>5 DEF CommitBatch, TypeOK, CallInv, Window, Running, Index
  <2>3. db \cup ({c} \X txn[c]) = db \cup Log!Prefix(c, i[c] + 1)
    BY <1>0, <1>5 DEF CommitBatch, TypeOK, CallInv, Window, Running, Index, Log!Prefix
  <2>4. QED
    BY <1>5, <2>1, <2>2, <2>3 DEF CommitBatch, CommitOk, Log!Extend
<1>6. ASSUME NEW c \in Call, CommitLast(c) PROVE Log!Succeed(c)
  <2>1. phase' = [phase EXCEPT ![c] = "ok"] /\ phase[c] = "saving"
    BY <1>0, <1>6 DEF CommitLast, Phase, TypeOK, Running
  <2>2. db \cup ({c} \X txn[c]) = db \cup Log!Prefix(c, len[c])
    BY <1>0, <1>6 DEF CommitLast, TypeOK, CallInv, Window, Running, Index, Log!Prefix
  <2>3. QED
    BY <1>6, <2>1, <2>2 DEF CommitLast, CommitOk, Log!Succeed
<1>7. CASE Close \/ Open
  BY <1>7 DEF Close, Open, Log!vars, Phase
<1>8. CASE Exit
  <2>1. ASSUME NEW c \in Call
        PROVE  Phase(c)' = IF Phase(c) = "saving" THEN "gone" ELSE Phase(c)
    BY <1>0, <1>8 DEF Exit, Phase, TypeOK, Running, Returned
  <2>2. phase' = [c \in Call |-> IF phase[c] = "saving" THEN "gone" ELSE phase[c]]
    BY <2>1
  <2>3. UNCHANGED <<len, db>>
    BY <1>8 DEF Exit
  <2>4. QED
    BY <2>2, <2>3 DEF Log!Vanish, Log!Next
<1>9. CASE UNCHANGED vars
  BY <1>9 DEF vars, Log!vars, Phase
<1>10. QED
  BY <1>1, <1>2, <1>3, <1>4, <1>5, <1>6, <1>7, <1>8, <1>9 DEF Next, Step, Log!Next

\* SaveViolations keeps the promise stated in ViolationLog: growing prefixes,
\* completeness on success, nothing taken back.
THEOREM Refinement == Spec => LogSpec
<1>1. QED
  BY InitRefines, StepRefines, Invariance, PTL DEF Spec, LogSpec, Log!Spec
=============================================================================
