------------------------------ MODULE Pipeline ------------------------------
(***************************************************************************)
(* pipeline.Run (go-ingestion/internal/pipeline/pipeline.go): the sources  *)
(* of a configuration are ingested one after the other.  For each source   *)
(* process loads the data, writes a temporary CSV, has the engine check    *)
(* it, saves the violations and removes the CSV; Run then records the      *)
(* count, alerts, and appends a Result, or appends the error and goes on.  *)
(* Any step can fail; several Runs are active at once in daemon mode.      *)
(*                                                                         *)
(* SaveViolations appears as ViolationLog describes it: a growing number   *)
(* of the violations is on disk, all of them when it succeeds, not all of  *)
(* them when it fails.  Loading, the engine and Slack are external.        *)
(***************************************************************************)
EXTENDS Integers, Sequences

CONSTANTS Run,           \* the calls of pipeline.Run
          MaxSources,    \* bound on len(cfg.Sources)
          MaxFound       \* bound on the violations a check reports

ASSUME SourcesAssumption == MaxSources \in Nat
ASSUME FoundAssumption == MaxFound \in Nat

VARIABLES pc,         \* pc[r]: the statement Run r is at
          sources,    \* sources[r]: len(cfg.Sources)
          at,         \* at[r]: the source being processed, from 1
          found,      \* found[r]: len(violations) of that source
          failed,     \* failed[r]: err # nil of that source
          files,      \* temporary CSVs on disk: pairs of a Run and a source
          saved,      \* saved[r][k]: violations of source k on disk
          results,    \* results[r]: the Results appended so far
          recorded,   \* recorded[r]: what Run r added to the violation counter
          alerts,     \* alerts[r]: messages posted to Slack, <<source, count>>
          cancelled,  \* whether the context of the Runs is cancelled
          lastLive,   \* lastLive[r]: the last source whose check began before that (history)
          storeOpen   \* whether the store's handle is still open

current  == <<at, found, failed>>
disk     == <<files, saved>>
reported == <<results, recorded, alerts>>
around   == <<cancelled, lastLive, storeOpen>>

vars == <<pc, sources, at, found, failed, files, saved, results, recorded,
          alerts, cancelled, lastLive, storeOpen>>

SourceIndex == 1..MaxSources
Count  == 0..MaxFound

InProcess == {"load", "temp", "write", "check", "checking", "save", "cleanup"}
Active    == InProcess \cup {"report", "notify"}
HasFile   == {"write", "check", "checking", "save", "cleanup"}
Ended     == {"done", "gone"}

\* Where the check of the current source has begun.
CheckBegun == {"checking", "save", "cleanup", "report", "notify"}

Result == [source : SourceIndex, violations : Count, err : BOOLEAN]

TypeOK ==
  /\ pc \in [Run -> {"idle"} \cup Active \cup Ended]
  /\ sources \in [Run -> 0..MaxSources]
  /\ at \in [Run -> 1..(MaxSources + 1)]
  /\ found \in [Run -> Count]
  /\ failed \in [Run -> BOOLEAN]
  /\ files \subseteq Run \X SourceIndex
  /\ saved \in [Run -> [SourceIndex -> Count]]
  /\ results \in [Run -> Seq(Result)]
  /\ recorded \in [Run -> Nat]
  /\ alerts \in [Run -> Seq(SourceIndex \X Count)]
  /\ cancelled \in BOOLEAN
  /\ lastLive \in [Run -> 0..MaxSources]
  /\ storeOpen \in BOOLEAN

Init ==
  /\ pc = [r \in Run |-> "idle"]
  /\ sources = [r \in Run |-> 0]
  /\ at = [r \in Run |-> 1]
  /\ found = [r \in Run |-> 0]
  /\ failed = [r \in Run |-> FALSE]
  /\ files = {}
  /\ saved = [r \in Run |-> [k \in SourceIndex |-> 0]]
  /\ results = [r \in Run |-> <<>>]
  /\ recorded = [r \in Run |-> 0]
  /\ alerts = [r \in Run |-> <<>>]
  /\ lastLive = [r \in Run |-> MaxSources]
  /\ cancelled = FALSE
  /\ storeOpen = TRUE

Goto(r, p) == pc' = [pc EXCEPT ![r] = p]

\* process returns err to Run, with no temporary file to remove.
FailNow(r) ==
  /\ failed' = [failed EXCEPT ![r] = TRUE]
  /\ Goto(r, "report")

\* A variant that drops the error.
FailAndClean_Drops(r) == UNCHANGED failed /\ Goto(r, "cleanup")

\* process returns err, and its deferred cleanup runs.
FailAndClean(r) ==
  /\ failed' = [failed EXCEPT ![r] = TRUE]
  /\ Goto(r, "cleanup")

\* A variant that forgets the file.
Removed_Not(r) == files

Removed(r) == files \ {<<r, at[r]>>}

-----------------------------------------------------------------------------
(* process                                                                 *)

\* Run is entered with n sources.
Start(r, n) ==
  /\ pc[r] = "idle"
  /\ sources' = [sources EXCEPT ![r] = n]
  /\ Goto(r, IF n = 0 THEN "done" ELSE "load")
  /\ UNCHANGED <<current, disk, reported, around>>

\* A local file is loaded whether or not the context is cancelled; a query
\* is not.
Load(r) ==
  /\ pc[r] = "load"
  /\ \/ Goto(r, "temp") /\ UNCHANGED failed
     \/ FailNow(r)
  /\ UNCHANGED <<sources, at, found, disk, reported, around>>

\* os.CreateTemp
CreateTemp(r) ==
  /\ pc[r] = "temp"
  /\ \/ /\ files' = files \cup {<<r, at[r]>>}
        /\ Goto(r, "write")
        /\ UNCHANGED failed
     \/ FailNow(r) /\ UNCHANGED files
  /\ UNCHANGED <<sources, at, found, saved, reported, around>>

\* The rows are written and the file closed; on an error it is removed.
WriteTemp(r) ==
  /\ pc[r] = "write"
  /\ \/ Goto(r, "check") /\ UNCHANGED <<failed, files>>
     \/ FailNow(r) /\ files' = Removed(r)
  /\ UNCHANGED <<sources, at, found, saved, reported, around>>

\* A variant that hands the engine a context of its own.
CtxDone_Never == FALSE

CtxDone == cancelled

\* chk.Check is called: with a cancelled context neither a subprocess nor an
\* RPC is started.
CheckBegin(r) ==
  /\ pc[r] = "check"
  /\ IF CtxDone THEN FailAndClean(r) ELSE Goto(r, "checking") /\ UNCHANGED failed
  /\ UNCHANGED <<sources, at, found, disk, reported, around>>

\* The engine answers, fails, is killed by the cancelled context or times out.
CheckReturn(r) ==
  /\ pc[r] = "checking"
  /\ \/ \E n \in Count :
          /\ found' = [found EXCEPT ![r] = n]
          /\ Goto(r, "save")
          /\ UNCHANGED failed
     \/ FailAndClean(r) /\ UNCHANGED found
  /\ UNCHANGED <<sources, at, disk, reported, around>>

OnDisk(r) == saved[r][at[r]]

SetSaved(r, n) == saved' = [saved EXCEPT ![r][at[r]] = n]

\* SaveViolations commits some of the violations.
SaveSome(r) ==
  /\ pc[r] = "save"
  /\ storeOpen
  /\ \E n \in OnDisk(r)..found[r] : n > OnDisk(r) /\ SetSaved(r, n)
  /\ UNCHANGED <<pc, sources, current, files, reported, around>>

\* SaveViolations returns nil.
SaveOk(r) ==
  /\ pc[r] = "save"
  /\ storeOpen \/ OnDisk(r) = found[r]
  /\ SetSaved(r, found[r])
  /\ Goto(r, "cleanup")
  /\ UNCHANGED <<sources, current, files, reported, around>>

\* SaveViolations returns an error.
SaveFails(r) ==
  /\ pc[r] = "save"
  /\ OnDisk(r) < found[r]
  /\ FailAndClean(r)
  /\ UNCHANGED <<sources, at, found, disk, reported, around>>

\* defer cleanup()
Cleanup(r) ==
  /\ pc[r] = "cleanup"
  /\ files' = Removed(r)
  /\ Goto(r, "report")
  /\ UNCHANGED <<sources, current, saved, reported, around>>

-----------------------------------------------------------------------------
(* Run                                                                     *)

Last(r) == at[r] = sources[r]

\* The Result is appended and the loop goes on with the next source.
NextSource(r, n) ==
  /\ results' = [results EXCEPT ![r] =
                   Append(@, [source |-> at[r], violations |-> n, err |-> failed[r]])]
  /\ at' = [at EXCEPT ![r] = @ + 1]
  /\ Goto(r, IF Last(r) THEN "done" ELSE "load")
  /\ failed' = [failed EXCEPT ![r] = FALSE]
  /\ found' = [found EXCEPT ![r] = 0]

\* A variant that tries a source that failed again, without end.
SkipSource_Retries(r) ==
  /\ failed' = [failed EXCEPT ![r] = FALSE]
  /\ found' = [found EXCEPT ![r] = 0]
  /\ Goto(r, "load")
  /\ UNCHANGED <<at, results>>

SkipSource(r) == NextSource(r, 0)

\* process failed: the error becomes the source's Result.
ReportError(r) ==
  /\ pc[r] = "report"
  /\ failed[r]
  /\ SkipSource(r)
  /\ UNCHANGED <<sources, disk, recorded, alerts, around>>

\* A variant that adds the sum so far.
Record_Sum(r) == recorded' = [recorded EXCEPT ![r] = @ + @ + found[r]]

Record(r) == recorded' = [recorded EXCEPT ![r] = @ + found[r]]

\* process succeeded: RecordIngest, and Notify unless nothing was found.
ReportOk(r) ==
  /\ pc[r] = "report"
  /\ ~failed[r]
  /\ Record(r)
  /\ IF found[r] > 0 THEN Goto(r, "notify") /\ UNCHANGED <<current, results>>
                     ELSE NextSource(r, 0)
  /\ UNCHANGED <<sources, disk, alerts, around>>

\* A variant that posts again when the answer is late.
Post_Again(r) ==
  alerts' = [alerts EXCEPT ![r] = @ \o <<<<at[r], found[r]>>, <<at[r], found[r]>>>>]

Post(r) == alerts' = [alerts EXCEPT ![r] = Append(@, <<at[r], found[r]>>)]

\* notifier.Notify: the message may arrive or not, an error is only logged;
\* with a cancelled context nothing is posted.
Notify(r) ==
  /\ pc[r] = "notify"
  /\ \/ ~cancelled /\ Post(r)
     \/ UNCHANGED alerts
  /\ NextSource(r, found[r])
  /\ UNCHANGED <<sources, disk, recorded, around>>

Step(r) ==
  \/ Load(r) \/ CreateTemp(r) \/ WriteTemp(r)
  \/ CheckBegin(r) \/ CheckReturn(r)
  \/ SaveSome(r) \/ SaveOk(r) \/ SaveFails(r) \/ Cleanup(r)
  \/ ReportError(r) \/ ReportOk(r) \/ Notify(r)

-----------------------------------------------------------------------------
(* The surroundings.                                                       *)

\* The context the Runs share is cancelled.
Cancel ==
  /\ ~cancelled
  /\ cancelled' = TRUE
  /\ lastLive' = [r \in Run |-> CASE pc[r] \in Ended      -> lastLive[r]
                                 [] pc[r] \in CheckBegun -> at[r]
                                 [] OTHER                -> at[r] - 1]
  /\ UNCHANGED <<pc, sources, current, disk, reported, storeOpen>>

\* Store.Close, which does not wait for the Runs.
CloseStore ==
  /\ storeOpen
  /\ storeOpen' = FALSE
  /\ UNCHANGED <<pc, sources, current, disk, reported, cancelled, lastLive>>

\* The process ends: no deferred function of a Run is executed.  Runs that
\* are not entered yet belong to the next process.
Exit ==
  /\ \E r \in Run : pc[r] \in Active
  /\ pc' = [r \in Run |-> IF pc[r] \in Active THEN "gone" ELSE pc[r]]
  /\ cancelled' = FALSE
  /\ lastLive' = [r \in Run |-> IF pc[r] = "idle" THEN MaxSources ELSE lastLive[r]]
  /\ storeOpen' = TRUE
  /\ UNCHANGED <<sources, current, disk, reported>>

\* Every Run has returned or its process has ended.
Finished ==
  /\ \A r \in Run : pc[r] \in Ended
  /\ UNCHANGED vars

Next ==
  \/ \E r \in Run : (\E n \in 0..MaxSources : Start(r, n)) \/ Step(r)
  \/ Cancel \/ CloseStore \/ Exit
  \/ Finished

Spec == Init /\ [][Next]_vars

\* Whatever its engine, a check is sure to return only when its context is
\* cancelled: a subprocess has no deadline.
CheckAnswers(r) == CheckReturn(r) /\ cancelled

\* Loading (a file, or a query with a timeout), Slack (ten seconds) and the
\* store answer; a goroutine that can go on does.
Proceed(r) ==
  \/ Load(r) \/ CreateTemp(r) \/ WriteTemp(r) \/ CheckBegin(r) \/ CheckAnswers(r)
  \/ SaveOk(r) \/ SaveFails(r) \/ Cleanup(r)
  \/ ReportError(r) \/ ReportOk(r) \/ Notify(r)

FairSpec == Spec /\ \A r \in Run : WF_vars(Proceed(r))

-----------------------------------------------------------------------------
(* Properties.                                                             *)

\* Results are in the order of the sources; one without an error counts
\* exactly the violations on disk, one with an error counts none although a
\* part may be on disk (pipeline.go:51).  A source that fails does not stop the
\* others: a Run that returns has one Result for each (pipeline.go:62).
ResultsTruthful ==
  \A r \in Run :
    /\ \A k \in DOMAIN results[r] :
         LET res == results[r][k] IN
           /\ res.source = k
           /\ res.violations = IF res.err THEN 0 ELSE saved[r][k]
    /\ pc[r] = "done" => Len(results[r]) = sources[r]

\* A temporary CSV exists exactly while process works on its source, from its
\* writing to the deferred cleanup: whatever step fails, none is left when the
\* Run goes on, unless the process ended, and none is missing before its check
\* has returned.  A task of the gRPC server may outlive the check, and then
\* finds no file (grpc.rs:88; CheckerSpec of Engine).
TempFileLifetime ==
  /\ \A f \in files :
       LET r == f[1] IN f[2] = at[r] /\ pc[r] \in HasFile \cup {"gone"}
  /\ \A r \in Run : pc[r] \in HasFile => <<r, at[r]>> \in files

\* An alert is posted at most once for a source, never for a source that
\* failed, and states the number of violations that are on disk.
AlertsBacked ==
  \A r \in Run : \A j \in DOMAIN alerts[r] :
    LET k == alerts[r][j][1]
        n == alerts[r][j][2]
    IN  /\ n > 0 /\ n = saved[r][k]
        /\ k \in DOMAIN results[r] /\ ~results[r][k].err
        /\ \A h \in DOMAIN alerts[r] : h < j => alerts[r][h][1] < k

\* The violations that these Results count.
Counted(rs) ==
  LET sum[k \in 0..Len(rs)] == IF k = 0 THEN 0 ELSE sum[k - 1] + rs[k].violations
  IN  sum[Len(rs)]

\* The violation counter agrees with the Results: a source that failed after
\* saving a part is in neither, and the one being alerted is in the counter.
RecordedAgrees ==
  \A r \in Run : pc[r] # "gone" =>
    recorded[r] = Counted(results[r]) + IF pc[r] = "notify" THEN found[r] ELSE 0

\* Cancellation stops the ingest at a source boundary: of a source whose check
\* had not begun by then, nothing is saved and nothing is alerted.
CancelStopsIngest ==
  \A r \in Run :
    /\ \A k \in SourceIndex : k > lastLive[r] => saved[r][k] = 0
    /\ \A j \in DOMAIN alerts[r] : alerts[r][j][1] <= lastLive[r]

\* A cancelled Run ends even when its engine hangs.
CancelledRunEnds ==
  \A r \in Run : cancelled /\ pc[r] \in Active ~> pc[r] \in Ended
=============================================================================
