--------------------------- MODULE ViolationStore ---------------------------
(***************************************************************************)
(* Store.SaveViolations (go-ingestion/internal/store/store.go): a slice of *)
(* violations is written through a sequence of BadgerDB transactions.  The *)
(* loop commits after every txnBatchSize-th item, and also whenever Badger *)
(* answers ErrTxnTooBig, in which case the same item is tried again in a   *)
(* new transaction.  Several calls run at once (the jobs of different      *)
(* sources share one store), and the handle can be closed, or the process  *)
(* die, between any two steps of a call.                                   *)
(*                                                                         *)
(* BadgerDB is external.  What is assumed of it: a commit is atomic, and   *)
(* one that returns an error has written nothing; write-only transactions  *)
(* never conflict; a transaction with no writes commits with no error;     *)
(* after Close every commit that has writes fails (ErrBlockedWrites).      *)
(***************************************************************************)
EXTENDS Integers, FiniteSets

CONSTANTS Call,          \* the calls of SaveViolations made on one database directory
          TxnBatchSize,  \* txnBatchSize (1000 in the code)
          MaxLen         \* bound on the length of the slice a call is given

ASSUME BatchAssumption == TxnBatchSize \in Nat \ {0}
ASSUME LenAssumption == MaxLen \in Nat

VARIABLES pc,         \* pc[c]: the statement call c is at
          len,        \* len[c]: len(violations)
          i,          \* i[c]: the loop index
          txn,        \* txn[c]: the indices set in the open transaction
          committed,  \* committed[c]: the local variable of that name
          db,         \* the violations on disk: pairs of a call and an index
          attached,   \* the calls whose handle is the one open now
          open        \* whether a process has the database open

vars == <<pc, len, i, txn, committed, db, attached, open>>

Running  == {"put", "batch", "toobig"}
Returned == {"ok", "failed", "gone"}
Index    == 0..MaxLen

Durable(c) == {k \in Index : <<c, k>> \in db}

TypeOK ==
  /\ pc \in [Call -> {"idle"} \cup Running \cup Returned]
  /\ len \in [Call -> Index]
  /\ i \in [Call -> Index]
  /\ txn \in [Call -> SUBSET Index]
  /\ committed \in [Call -> Index]
  /\ db \subseteq Call \X Index
  /\ attached \subseteq Call
  /\ open \in BOOLEAN

Init ==
  /\ pc = [c \in Call |-> "idle"]
  /\ len = [c \in Call |-> 0]
  /\ i = [c \in Call |-> 0]
  /\ txn = [c \in Call |-> {}]
  /\ committed = [c \in Call |-> 0]
  /\ db = {}
  /\ attached = {}
  /\ open = TRUE

-----------------------------------------------------------------------------
(* The call.                                                               *)

\* SaveViolations is entered: the first transaction is opened.  A job that
\* outlived the handle can still make the call.
Begin(c) ==
  /\ pc[c] = "idle"
  /\ \E m \in Index : len' = [len EXCEPT ![c] = m]
  /\ pc' = [pc EXCEPT ![c] = "put"]
  /\ attached' = IF open THEN attached \cup {c} ELSE attached
  /\ UNCHANGED <<i, txn, committed, db, open>>

\* A variant that goes on with the transaction it has committed.
NewTxn_Same(c) == UNCHANGED txn

NewTxn(c) == txn' = [txn EXCEPT ![c] = {}]

\* What Commit does when it succeeds and when it fails.
CommitOk(c) ==
  /\ txn[c] # {} => c \in attached
  /\ db' = db \cup ({c} \X txn[c])
  /\ NewTxn(c)

CommitFails(c) ==
  /\ txn[c] # {}
  /\ txn' = [txn EXCEPT ![c] = {}]
  /\ pc' = [pc EXCEPT ![c] = "failed"]
  /\ UNCHANGED <<len, i, committed, db, attached, open>>

\* (k+1) % txnBatchSize == 0, as a statement about multiples.
BatchFull(k) == \E q \in 1..(k + 1) : k + 1 = q * TxnBatchSize

HasItem(c) == pc[c] = "put" /\ i[c] < len[c]

\* txn.Set succeeds.
Put(c) ==
  /\ HasItem(c)
  /\ txn' = [txn EXCEPT ![c] = @ \cup {i[c]}]
  /\ IF BatchFull(i[c])
       THEN pc' = [pc EXCEPT ![c] = "batch"] /\ UNCHANGED i
       ELSE i' = [i EXCEPT ![c] = @ + 1] /\ UNCHANGED pc
  /\ UNCHANGED <<len, committed, db, attached, open>>

\* txn.Set answers ErrTxnTooBig, to an empty transaction as well.
PutTooBig(c) ==
  /\ HasItem(c)
  /\ pc' = [pc EXCEPT ![c] = "toobig"]
  /\ UNCHANGED <<len, i, txn, committed, db, attached, open>>

\* txn.Set answers another error: the transaction is discarded.
PutFails(c) ==
  /\ HasItem(c)
  /\ txn' = [txn EXCEPT ![c] = {}]
  /\ pc' = [pc EXCEPT ![c] = "failed"]
  /\ UNCHANGED <<len, i, committed, db, attached, open>>

\* A variant that goes on with the next item.
Retry_Not(c) == i' = [i EXCEPT ![c] = @ + 1]

\* goto retry
Retry(c) == UNCHANGED i

\* A variant that counts the item that did not fit.
Early_CountsItem(c) == i[c] + 1

\* The number of items that an early commit saves.
Early(c) == i[c]

\* The commit ErrTxnTooBig asks for; the same item is then tried again.
CommitTooBig(c) ==
  /\ pc[c] = "toobig"
  /\ CommitOk(c)
  /\ committed' = [committed EXCEPT ![c] = Early(c)]
  /\ pc' = [pc EXCEPT ![c] = "put"]
  /\ Retry(c)
  /\ UNCHANGED <<len, attached, open>>

\* The commit of a full batch.
CommitBatch(c) ==
  /\ pc[c] = "batch"
  /\ CommitOk(c)
  /\ committed' = [committed EXCEPT ![c] = i[c] + 1]
  /\ i' = [i EXCEPT ![c] = @ + 1]
  /\ pc' = [pc EXCEPT ![c] = "put"]
  /\ UNCHANGED <<len, attached, open>>

\* A variant that takes a last transaction without writes for a failure.
Verdict_EmptyIsError(c) == IF txn[c] = {} THEN "failed" ELSE "ok"

Verdict(c) == "ok"

\* return txn.Commit()
CommitLast(c) ==
  /\ pc[c] = "put"
  /\ i[c] = len[c]
  /\ CommitOk(c)
  /\ pc' = [pc EXCEPT ![c] = Verdict(c)]
  /\ UNCHANGED <<len, i, committed, attached, open>>

CommitError(c) ==
  /\ \/ pc[c] \in {"batch", "toobig"}
     \/ pc[c] = "put" /\ i[c] = len[c]
  /\ CommitFails(c)

Step(c) ==
  \/ Put(c) \/ PutTooBig(c) \/ PutFails(c)
  \/ CommitTooBig(c) \/ CommitBatch(c) \/ CommitLast(c) \/ CommitError(c)

-----------------------------------------------------------------------------
(* The handle and the process.                                             *)

\* Store.Close: calls that run on the handle go on, and find it closed.
Close ==
  /\ open
  /\ open' = FALSE
  /\ attached' = {}
  /\ UNCHANGED <<pc, len, i, txn, committed, db>>

\* Store.Open by a new process: BadgerDB's directory lock is free.
Open ==
  /\ ~open
  /\ open' = TRUE
  /\ UNCHANGED <<pc, len, i, txn, committed, db, attached>>

\* The process that made the calls ends; open transactions are lost.
Exit ==
  /\ \E c \in Call : pc[c] \in Running
  /\ pc' = [c \in Call |-> IF pc[c] \in Running THEN "gone" ELSE pc[c]]
  /\ txn' = [c \in Call |-> {}]
  /\ attached' = {}
  /\ open' = FALSE
  /\ UNCHANGED <<len, i, committed, db>>

Next ==
  \/ \E c \in Call : Begin(c) \/ Step(c)
  \/ Close \/ Open \/ Exit

Spec == Init /\ [][Next]_vars

\* A goroutine that can take a step takes one.
FairSpec == Spec /\ \A c \in Call : WF_vars(Step(c))

-----------------------------------------------------------------------------
(* Properties.                                                             *)

\* While a call runs, and after it failed or its process ended, exactly the
\* first `committed` violations are on disk: batch commits and ErrTxnTooBig
\* commits leave no gap and lose nothing (store.go:107, 120).
CommittedIsDurable ==
  \A c \in Call : pc[c] # "ok" => Durable(c) = {k \in Index : k < committed[c]}

\* A nil error means that the whole slice is on disk, whatever mixture of
\* full batches, early commits, closes and restarts came before; an error
\* means that something is missing, and is never the verdict on a slice that
\* was saved in full.
VerdictExact ==
  \A c \in Call :
    /\ pc[c] = "ok" => Durable(c) = {k \in Index : k < len[c]}
    /\ pc[c] = "failed" => Durable(c) # {k \in Index : k < len[c]}

\* No transaction ever holds more than txnBatchSize entries (the comment at
\* store.go:86), although an early commit shifts where the next one starts.
BatchBounded ==
  \A c \in Call : Cardinality(txn[c]) <= TxnBatchSize

\* A call returns unless its process ends: trying the same item again after
\* ErrTxnTooBig is no endless loop, for as long as an item fits into an empty
\* transaction.  The code has no other bound on it (store.go:101-109).
EveryCallReturns ==
  \A c \in Call :
    pc[c] \in Running ~> pc[c] \in Returned \/ (pc[c] = "toobig" /\ txn[c] = {})

\* The calls implement the transaction-free promise of ViolationLog.
Phase(c) == IF pc[c] \in Running THEN "saving" ELSE pc[c]

Log == INSTANCE ViolationLog WITH phase <- [c \in Call |-> Phase(c)]

LogSpec == Log!Spec
=============================================================================
