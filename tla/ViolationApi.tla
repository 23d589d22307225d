---------------------------- MODULE ViolationApi ----------------------------
(***************************************************************************)
(* GET /api/violations (go-ingestion/internal/server/violations.go) and    *)
(* the counting and paging scans of the store behind it                    *)
(* (internal/store/store.go).                                              *)
(*                                                                         *)
(* `serve` holds BadgerDB's directory lock, so that the violations do not  *)
(* change while it answers.  db is what a scan of the prefix `violation:`  *)
(* yields, in key order: the violations of one table are adjacent.         *)
(***************************************************************************)
EXTENDS Integers, Sequences, FiniteSets, FiniteSetsExt

CONSTANTS Table,         \* the tables, as numbers in the order of their names
          MaxItems,      \* bound on the stored violations
          Parameter,     \* the numbers a query may have as limit or offset
          DefaultLimit,  \* defaultLimit (100 in the code)
          MaxLimit       \* maxLimit (1000 in the code)

VARIABLES db,   \* db[k]: the k-th violation; only its table matters
          req   \* the request and the local variables of its handler: the iterator's
                \* item, how many were skipped, and the positions in db that are put out

All == 0   \* no table filter

Stored == {s \in UNION {[1..n -> Table] : n \in 0..MaxItems} :
             \A j, k \in DOMAIN s : j < k => s[j] <= s[k]}

\* A parameter of a query may be missing (<<>>).
Optional == {<<>>} \cup {<<p>> : p \in Parameter}
Query == [table : Table \cup {All}, limit : Optional, offset : Optional]
NoQuery == [table |-> All, limit |-> <<>>, offset |-> <<>>]

Or(parameter, default) == IF parameter = <<>> THEN default ELSE parameter[1]
Limit == Or(req.query.limit, DefaultLimit)
Offset == Or(req.query.offset, 0)

\* The positions that a scan of the table's prefix, or of all, yields.
Matching == {k \in DOMAIN db : req.query.table \in {All, db[k]}}

Idle == [phase |-> "idle", query |-> NoQuery, total |-> 0, item |-> 1, skipped |-> 0, out |-> <<>>]

Request(q) == req' = [Idle EXCEPT !.phase = "parse", !.query = q]

\* parsePagination
ValidQuery == Limit \in 0..MaxLimit /\ Offset >= 0

ParsePagination ==
  /\ req.phase = "parse"
  /\ req' = [req EXCEPT !.phase = IF ValidQuery THEN "count" ELSE "bad"]

\* CountViolations or CountViolationsByTable; the listing scan then seeks.
Count ==
  /\ req.phase = "count"
  /\ req' = [req EXCEPT !.phase = "scan", !.total = Cardinality(Matching),
                        !.item = Min(Matching \cup {Len(db) + 1})]

\* The iterator is on a key with the prefix.
Valid == req.item \in Matching

\* A variant whose limit lets one more through.
PageFull_OneMore == Limit > 0 /\ Len(req.out) > Limit

\* A variant that counts the skipped ones against the limit.
PageFull_CountsSkipped == Limit > 0 /\ req.skipped + Len(req.out) >= Limit

PageFull == Limit > 0 /\ Len(req.out) >= Limit

\* One iteration of ListViolationsPaged or ListViolationsByTablePaged.
Skip ==
  /\ req.phase = "scan" /\ Valid /\ req.skipped < Offset
  /\ req' = [req EXCEPT !.skipped = @ + 1, !.item = @ + 1]

Take ==
  /\ req.phase = "scan" /\ Valid /\ req.skipped >= Offset /\ ~PageFull
  /\ req' = [req EXCEPT !.out = Append(@, req.item), !.item = @ + 1]

ScanEnds ==
  /\ req.phase = "scan"
  /\ ~Valid \/ (req.skipped >= Offset /\ PageFull)
  /\ req' = [req EXCEPT !.phase = "ok"]

\* A transaction fails: the answer is an error.
ReadFails ==
  /\ req.phase \in {"count", "scan"}
  /\ req' = [req EXCEPT !.phase = "error", !.out = <<>>]

Handle == ParsePagination \/ Count \/ Skip \/ Take \/ ScanEnds \/ ReadFails
=============================================================================
