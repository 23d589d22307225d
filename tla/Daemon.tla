------------------------------- MODULE Daemon -------------------------------
(***************************************************************************)
(* `dataguard ingest --daemon` (runDaemon in cmd/dataguard/main.go): one   *)
(* process that ingests the sources without a schedule at once, then runs  *)
(* the scheduler until a signal cancels its context, stops the scheduler   *)
(* and closes the store.  It composes                                      *)
(*   - Scheduler, whose jobs are                                           *)
(*   - Runs of Pipeline, one for each job, with one source each            *)
(*     (BuildRunner), and one for the sources without a schedule, and      *)
(*   - the value log GC goroutine Store.RunGC.                             *)
(* The signal's context is the parent of the jobs' context, so that both   *)
(* are cancelled at the signal.  The process can die at any point.         *)
(***************************************************************************)
EXTENDS Scheduler, Sequences

CONSTANTS OnDemand,  \* bound on the sources without a schedule
          MaxFound   \* bound on the violations a check reports

ASSUME OnDemandAssumption == OnDemand \in Nat
ASSUME FoundAssumption == MaxFound \in Nat

VARIABLES
  \* Pipeline; its context is the signal's
  pc, sources, at, found, failed, files, saved, results, recorded, alerts,
  cancelled, lastLive, storeOpen,
  \* runDaemon and RunGC
  entries, onDemand, main, gc

config    == <<entries, onDemand>>   \* the sources with and without a schedule
pipeVars  == <<pc, sources, at, found, failed, files, saved, results, recorded,
               alerts, cancelled, lastLive, storeOpen>>
\* A Run but for its statement.
runVars == <<sources, at, found, failed, files, saved, results, recorded, alerts, cancelled,
             lastLive, storeOpen>>
vars == <<schedVars, pipeVars, config, main, gc>>

Immediate == <<"on demand", 0>>
Run == Job \cup {Immediate}

P == INSTANCE Pipeline WITH MaxSources <- IF OnDemand > 1 THEN OnDemand ELSE 1

MainState == {"load", "boot", "immediate", "register", "serving", "stopping", "closing",
              "exited", "killed"}
GcState   == {"off", "select", "next", "round", "ended"}
Over      == {"exited", "killed"}

TypeOK ==
  /\ SchedTypeOK
  /\ P!TypeOK
  /\ entries \subseteq Source
  /\ onDemand \in 0..OnDemand
  /\ main \in MainState
  /\ gc \in GcState

Init ==
  /\ SchedInit
  /\ P!Init
  /\ entries \in SUBSET Source
  /\ onDemand \in 0..OnDemand
  /\ main = "load"
  /\ gc = "off"

-----------------------------------------------------------------------------
(* runDaemon                                                               *)

\* A variant without the check of HasJobs.
HasJobs_Always == TRUE

\* sched.HasJobs()
HasJobs == entries # {}

\* A variant that does not wait for Stop.
Stopped_AtOnce == TRUE

\* sched.Stop() has returned.
Stopped == stop \in {"drained", "timedout"}

MainGoes(from, to) == main = from /\ main' = to

\* config.Load: a configuration without a source is refused, and so is one
\* that cannot be read or has a source that validate rejects.
LoadConfig == MainGoes("load", "boot") /\ (onDemand > 0 \/ entries # {})

LoadFails == MainGoes("load", "exited")

\* TempDir or Open fails.
OpenFails == MainGoes("boot", "exited")

ImmediateReturns == MainGoes("immediate", "register") /\ pc[Immediate] = "done"

\* Without an entry the daemon returns; its context is not cancelled then.
NothingScheduled == MainGoes("register", "closing") /\ ~HasJobs

StopReturns == MainGoes("stopping", "closing") /\ Stopped

MainMove ==
  /\ \/ LoadConfig \/ LoadFails \/ OpenFails \/ ImmediateReturns \/ NothingScheduled
     \/ StopReturns
  /\ UNCHANGED <<schedVars, pipeVars, config, gc>>

\* The store is open and RunGC started; the gRPC connection can fail.
Boot ==
  /\ main = "boot"
  /\ gc' = "select"
  /\ main' \in {"immediate", "closing"}
  /\ UNCHANGED <<schedVars, pipeVars, config>>

\* pipeline.Run over the sources without a schedule, in this goroutine; with
\* none the call is skipped, which is a Run that is over at once.
RunImmediate ==
  /\ main = "immediate"
  /\ P!Start(Immediate, onDemand)
  /\ UNCHANGED <<schedVars, config, main, gc>>

Serve ==
  /\ MainGoes("register", "serving") /\ HasJobs
  /\ StartCron
  /\ UNCHANGED <<pipeVars, config, gc>>

\* SIGINT or SIGTERM.
Signal ==
  /\ main \notin Over
  /\ P!Cancel
  /\ UNCHANGED <<schedVars, config, main, gc>>

\* <-ctx.Done(), and Stop is called.
BeginStop ==
  /\ MainGoes("serving", "stopping") /\ cancelled
  /\ StopCancel
  /\ UNCHANGED <<pipeVars, config, gc>>

\* The deferred st.Close(), which waits for a GC round that is under way.
CloseStore ==
  /\ main = "closing"
  /\ gc # "round"
  /\ P!CloseStore
  /\ UNCHANGED <<schedVars, config, main, gc>>

\* The process ends: Runs that are under way end where they are.
Vanish == pc' = [r \in Run |-> IF pc[r] \in P!Active THEN "gone" ELSE pc[r]]

\* main returns.
Exit ==
  /\ MainGoes("closing", "exited") /\ ~storeOpen
  /\ Vanish
  /\ UNCHANGED <<schedVars, runVars, config, gc>>

\* The process dies.
Kill ==
  /\ main \notin Over
  /\ main' = "killed"
  /\ Vanish
  /\ UNCHANGED <<schedVars, runVars, config, gc>>

-----------------------------------------------------------------------------
(* The jobs.                                                               *)

\* A firing takes its token and enters pipeline.Run with its one source.
JobBegins(j) ==
  /\ Take(j)
  /\ P!Start(j, 1)

\* pipeline.Run returns to the job, and the job to its wrapper.
JobReturns(j) ==
  /\ pc[j] = "done"
  /\ Return(j)
  /\ UNCHANGED pipeVars

JobStep(j) ==
  /\ main \notin Over
  /\ \/ JobBegins(j)
     \/ JobReturns(j)
     \/ (Fire(j) \/ Skip(j)) /\ j[1] \in entries /\ UNCHANGED pipeVars
  /\ UNCHANGED <<config, main, gc>>

RunStep(r) ==
  /\ main \notin Over
  /\ P!Step(r)
  /\ UNCHANGED <<schedVars, config, main, gc>>

SchedulerStep ==
  /\ main = "stopping"
  /\ StopStep
  /\ UNCHANGED <<pipeVars, config, main, gc>>

-----------------------------------------------------------------------------
(* Store.RunGC                                                             *)

GcGoes(from, to) == gc = from /\ gc' = to

\* case <-ctx.Done()
GcStops == GcGoes("select", "ended") /\ cancelled

\* case <-ticker.C
GcTick == GcGoes("select", "next")

\* RunValueLogGC is called; after Close it is rejected.
GcCall == GcGoes("next", IF storeOpen THEN "round" ELSE "select")

\* It rewrote a file and is called again, or nothing is left to rewrite.
GcRoundEnds == \E to \in {"next", "select"} : GcGoes("round", to)

GcStep ==
  /\ main \notin Over
  /\ GcStops \/ GcTick \/ GcCall \/ GcRoundEnds
  /\ UNCHANGED <<schedVars, pipeVars, config, main>>

MainStep ==
  \/ MainMove \/ Boot \/ RunImmediate \/ Serve \/ BeginStop \/ SchedulerStep \/ Exit

Next ==
  \/ MainStep \/ CloseStore
  \/ Signal \/ Kill
  \/ \E j \in Job : JobStep(j)
  \/ \E r \in Run : RunStep(r)
  \/ GcStep

Spec == Init /\ [][Next]_vars

(***************************************************************************)
(* main and the GC goroutine go on when they can; a call of the external   *)
(* engine ends as Pipeline says.  A Close that waits for the GC slot gets  *)
(* it when the round ends, before the GC goroutine can ask again, which    *)
(* is strong fairness.                                                     *)
(***************************************************************************)
FairSpec ==
  /\ Spec
  /\ WF_vars(MainStep)
  /\ SF_vars(CloseStore)
  /\ WF_vars(GcStep)
  /\ WF_vars(main \notin Over /\ P!Proceed(Immediate) /\ UNCHANGED <<schedVars, config, main, gc>>)

-----------------------------------------------------------------------------
(* Properties.                                                             *)

\* The store is closed under a Run only when Stop gave up waiting.
ClosedAfterJobs ==
  ~storeOpen /\ stop # "timedout" => \A r \in Run : pc[r] \notin P!Active

\* After a shutdown in which Stop did not give up, nothing is left behind: no
\* temporary CSV, and of every source that was begun a Result was reported.
CleanShutdown ==
  main = "exited" /\ stop # "timedout" =>
    /\ files = {}
    /\ \A r \in Run : pc[r] # "gone" /\ Len(results[r]) = sources[r]

\* The daemon follows the signal and exits, whatever its engine, its jobs and
\* the value log GC do.
SignalEndsDaemon == cancelled ~> main \in Over

\* A daemon without an entry ends by itself, without a signal: its context is
\* never cancelled, so that the GC goroutine still runs while the store closes.
EndsWithoutSchedule == main = "register" /\ entries = {} ~> main \in Over
=============================================================================
