----------------------------- MODULE Scheduler -----------------------------
(***************************************************************************)
(* The Scheduler of go-ingestion/internal/scheduler: one cron entry per    *)
(* source that has a schedule, wrapped in SkipIfStillRunning, and Stop,    *)
(* which cancels the jobs' context, stops the cron loop and waits for the  *)
(* running jobs, but not longer than StopTimeout.                          *)
(*                                                                         *)
(* robfig/cron is external.  As the code uses it: every firing of an entry *)
(* runs in a goroutine of its own, counted by the wait group that Stop     *)
(* waits on; the wrapper of an entry owns a channel that holds one token,  *)
(* and a firing that finds it empty returns at once.                       *)
(***************************************************************************)
EXTENDS Integers

CONSTANTS Source,    \* the sources with a schedule
          MaxFires   \* bound on the firings of an entry

ASSUME FiresAssumption == MaxFires \in Nat

\* A firing of a source's entry.
Job == Source \X (1..MaxFires)

VARIABLES cronOn,   \* whether the cron loop runs
          job,      \* job[j]: the state of a firing
          token,    \* the sources whose channel holds its token
          jobCtx,   \* whether the jobs' context is live
          stop      \* where Stop is

schedVars == <<cronOn, job, token, jobCtx, stop>>

JobState  == {"none", "spawned", "running", "returned", "skipped"}
StopState == {"no", "cancelled", "waiting", "drained", "timedout"}

Waiting(j) == job[j] \in {"spawned", "running"}   \* counted by the wait group

SchedTypeOK ==
  /\ cronOn \in BOOLEAN
  /\ job \in [Job -> JobState]
  /\ token \subseteq Source
  /\ jobCtx \in BOOLEAN
  /\ stop \in StopState

SchedInit ==
  /\ cronOn = FALSE
  /\ job = [j \in Job |-> "none"]
  /\ token = Source
  /\ jobCtx = TRUE
  /\ stop = "no"

\* s.c.Start()
StartCron ==
  /\ ~cronOn
  /\ stop = "no"
  /\ cronOn' = TRUE
  /\ UNCHANGED <<job, token, jobCtx, stop>>

\* The entry of a source fires: the cron loop starts a goroutine.
Fire(j) ==
  /\ cronOn
  /\ job[j] = "none"
  /\ \A k \in 1..(j[2] - 1) : job[<<j[1], k>>] # "none"
  /\ job' = [job EXCEPT ![j] = "spawned"]
  /\ UNCHANGED <<cronOn, token, jobCtx, stop>>

\* A variant without SkipIfStillRunning.
Admitted_Always(j) == TRUE

\* The entry's channel has its token.
Admitted(j) == j[1] \in token

\* The goroutine takes the entry's token and runs the job.
Take(j) ==
  /\ job[j] = "spawned"
  /\ Admitted(j)
  /\ job' = [job EXCEPT ![j] = "running"]
  /\ token' = token \ {j[1]}
  /\ UNCHANGED <<cronOn, jobCtx, stop>>

\* The previous job of the entry still runs: this firing does nothing.
Skip(j) ==
  /\ job[j] = "spawned"
  /\ ~Admitted(j)
  /\ job' = [job EXCEPT ![j] = "skipped"]
  /\ UNCHANGED <<cronOn, token, jobCtx, stop>>

\* A variant that puts back a token of its own.
PutBack_Own(j) == token \cup {j}

PutBack(j) == token \cup {j[1]}

\* The job returns and puts the token back.
Return(j) ==
  /\ job[j] = "running"
  /\ job' = [job EXCEPT ![j] = "returned"]
  /\ token' = PutBack(j)
  /\ UNCHANGED <<cronOn, jobCtx, stop>>

\* Stop is called: s.cancel()
StopCancel ==
  /\ stop = "no"
  /\ jobCtx' = FALSE
  /\ stop' = "cancelled"
  /\ UNCHANGED <<cronOn, job, token>>

\* A variant that waits without stopping the cron loop.
StopLoop_Not == UNCHANGED cronOn

StopLoop == cronOn' = FALSE

\* s.c.Stop()
StopCron ==
  /\ stop = "cancelled"
  /\ StopLoop
  /\ stop' = "waiting"
  /\ UNCHANGED <<job, token, jobCtx>>

\* case <-done
StopDrained ==
  /\ stop = "waiting"
  /\ \A j \in Job : ~Waiting(j)
  /\ stop' = "drained"
  /\ UNCHANGED <<cronOn, job, token, jobCtx>>

\* A variant of the select without its time.After branch.
StopTimeout_Never == FALSE

\* case <-time.After(StopTimeout)
StopTimeout ==
  /\ stop = "waiting"
  /\ stop' = "timedout"
  /\ UNCHANGED <<cronOn, job, token, jobCtx>>

StopStep == StopCron \/ StopDrained \/ StopTimeout

SchedNext ==
  \/ StartCron
  \/ \E j \in Job : Fire(j) \/ Take(j) \/ Skip(j) \/ Return(j)
  \/ StopCancel \/ StopStep

SchedSpec == SchedInit /\ [][SchedNext]_schedVars

-----------------------------------------------------------------------------
(* Properties.                                                             *)

\* At most one job of a source runs at a time, however slow it is and however
\* often its entry fires (scheduler.go:41).
NoOverlap ==
  \A j, h \in Job : job[j] = "running" /\ job[h] = "running" /\ j[1] = h[1] => j = h

\* A firing is dropped only while a job of the same source runs: a source
\* whose jobs all returned never loses a firing.
SkipOnlyWhileRunning ==
  [][\A j \in Job : job[j] = "spawned" /\ job'[j] = "skipped" =>
       \E h \in Job : h[1] = j[1] /\ job[h] = "running"]_schedVars

\* When Stop returns without a timeout no job runs, and none will.
DrainedForGood ==
  stop = "drained" => ~cronOn /\ \A j \in Job : ~Waiting(j)
=============================================================================
