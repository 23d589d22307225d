---------------------------- MODULE DaemonProofs ----------------------------
(***************************************************************************)
(* The safety properties of Scheduler and Daemon, for any number of        *)
(* sources, firings and violations, and the daemon as an implementation of *)
(* Scheduler.  The daemon's invariant says, while the process lives, how   *)
(* far each Run is (RunInv), where its temporary CSV may be (FileInv), how *)
(* the Run of a job follows the job (JobInv), and what runDaemon may rely  *)
(* on at each of its statements (PhaseInv): no job before the scheduler    *)
(* starts, and none when Stop has returned in time.                        *)
(* What is proved of the scheduler and of the Runs by themselves is then   *)
(* carried over to the daemon, whose steps are theirs.                     *)
(***************************************************************************)
EXTENDS Daemon, TLAPS

USE DEF P!current, P!disk, P!reported, P!around, P!FailAndClean, P!Removed, P!CtxDone, P!Last,
        P!SkipSource, P!Record, P!Post, P!Goto, P!FailNow, Admitted, PutBack, StopLoop

Res == [source : Nat, violations : Nat, err : BOOLEAN]
Alive == {"idle", "done"} \cup P!Active

Types ==
  /\ pc \in [Run -> Alive] /\ job \in [Job -> JobState]
  /\ sources \in [Run -> Nat] /\ at \in [Run -> Nat]
  /\ found \in [Run -> Nat] /\ failed \in [Run -> BOOLEAN]
  /\ results \in [Run -> Seq(Res)]
  /\ onDemand \in Nat

RunInv(r) ==
  /\ at[r] = Len(results[r]) + 1
  /\ pc[r] = "idle" => at[r] = 1 /\ sources[r] = 0
  /\ pc[r] \in P!Active => at[r] <= sources[r]
  /\ pc[r] = "done" => at[r] = sources[r] + 1

FileInv == \A f \in files : \E r \in Run : f = <<r, at[r]>> /\ pc[r] \in P!HasFile

JobInv(j) ==
  /\ job[j] \in {"none", "spawned", "skipped"} => pc[j] = "idle"
  /\ job[j] = "running" => pc[j] # "idle"
  /\ job[j] = "returned" => pc[j] = "done"

NoJobs == ~cronOn /\ \A j \in Job : job[j] \notin {"spawned", "running"}

PhaseInv ==
  /\ stop \in {"waiting", "drained"} => ~cronOn
  /\ stop = "drained" => NoJobs
  /\ main \in {"load", "boot", "immediate", "register"} => NoJobs
  /\ main = "closing" => NoJobs \/ stop = "timedout"
  /\ main \in {"load", "boot"} => pc[Immediate] = "idle"
  /\ main \in {"register", "serving", "stopping"} => pc[Immediate] = "done"
  /\ main = "closing" => pc[Immediate] \in {"idle", "done"}
  /\ ~storeOpen => main = "closing"

Live ==
  /\ Types /\ FileInv /\ PhaseInv
  /\ \A r \in Run : RunInv(r)
  /\ \A j \in Job : JobInv(j)

Dead == CleanShutdown /\ \A r \in Run : pc[r] \notin P!Active

IInv == IF main \in Over THEN Dead ELSE Live

-----------------------------------------------------------------------------
LEMMA RunParts == /\ Immediate \in Run /\ Job \subseteq Run
                  /\ \A j \in Job : Waiting(j) <=> job[j] \in {"spawned", "running"}
  BY DEF Run, Waiting, Job

\* What a step of one Run's process does, short of the end of a source.
Moved(r) ==
  /\ pc[r] \in P!Active
  /\ \E p \in P!Active : /\ pc' = [pc EXCEPT ![r] = p]
                         /\ p \in P!HasFile \/ <<r, at[r]>> \notin files'
  /\ files' \subseteq files \cup {<<r, at[r]>>}
  /\ found' \in [Run -> Nat] /\ failed' \in [Run -> BOOLEAN]
  /\ UNCHANGED <<at, results>>

\* The end of a source: its Result is appended.
Advanced(r) ==
  /\ pc[r] \in {"report", "notify"}
  /\ pc' = [pc EXCEPT ![r] = IF at[r] = sources[r] THEN "done" ELSE "load"]
  /\ \E e \in Res : results' = [results EXCEPT ![r] = Append(@, e)]
  /\ at' = [at EXCEPT ![r] = @ + 1]
  /\ found' \in [Run -> Nat] /\ failed' \in [Run -> BOOLEAN]
  /\ UNCHANGED files

LEMMA Advances ==
  ASSUME Types, NEW r \in Run, NEW n \in Nat, pc[r] \in {"report", "notify"},
         P!NextSource(r, n), UNCHANGED files
  PROVE  Advanced(r)
<1>1. DEFINE e == [source |-> at[r], violations |-> n, err |-> failed[r]]
<1>2. e \in Res /\ results' = [results EXCEPT ![r] = Append(@, e)]
  BY DEF P!NextSource, Types, Res
<1>3. /\ pc' = [pc EXCEPT ![r] = IF at[r] = sources[r] THEN "done" ELSE "load"]
      /\ at' = [at EXCEPT ![r] = @ + 1]
      /\ failed' = [failed EXCEPT ![r] = FALSE] /\ found' = [found EXCEPT ![r] = 0]
  BY DEF P!NextSource
<1>4. found' \in [Run -> Nat] /\ failed' \in [Run -> BOOLEAN]
  BY <1>3 DEF Types
<1> QED BY <1>2, <1>3, <1>4 DEF Advanced

LEMMA StepMoves ==
  ASSUME Types, FileInv, NEW r \in Run, P!Step(r)
  PROVE  /\ Moved(r) \/ Advanced(r)
         /\ UNCHANGED <<sources, storeOpen>>
<1>1. UNCHANGED <<sources, storeOpen>>
  BY DEF P!Step, P!Load, P!CreateTemp, P!WriteTemp, P!CheckBegin, P!CheckReturn, P!SaveSome,
         P!SaveOk, P!SaveFails, P!Cleanup, P!ReportError, P!ReportOk, P!Notify
<1>2. pc[r] \notin P!HasFile => <<r, at[r]>> \notin files
  BY DEF FileInv
<1>3. \A n \in P!Count : n \in Nat
  BY DEF P!Count
<1> USE DEF Types, P!Active, P!InProcess, P!HasFile
<1>4. CASE P!Load(r)
  BY <1>2, <1>4 DEF P!Load, Moved
<1>5. CASE P!CreateTemp(r)
  BY <1>2, <1>5 DEF P!CreateTemp, Moved
<1>6. CASE P!WriteTemp(r)
  BY <1>6 DEF P!WriteTemp, Moved
<1>7. CASE P!CheckBegin(r)
  BY <1>7 DEF P!CheckBegin, Moved
<1>8. CASE P!CheckReturn(r)
  <2>1. found' \in [Run -> Nat]
    BY <1>3, <1>8 DEF P!CheckReturn
  <2> QED BY <1>8, <2>1 DEF P!CheckReturn, Moved
<1>9. CASE P!SaveSome(r)
  <2>1. pc[r] = "save" /\ UNCHANGED <<pc, at, found, failed, files, results>>
    BY <1>9 DEF P!SaveSome
  <2>2. pc' = [pc EXCEPT ![r] = "save"]
    BY <2>1
  <2> QED BY <2>1, <2>2 DEF Moved
<1>10. CASE P!SaveOk(r)
  BY <1>10 DEF P!SaveOk, Moved
<1>11. CASE P!SaveFails(r)
  BY <1>11 DEF P!SaveFails, Moved
<1>12. CASE P!Cleanup(r)
  BY <1>12 DEF P!Cleanup, Moved
<1>13. CASE P!ReportError(r)
  BY <1>13, Advances DEF P!ReportError
<1>14. CASE P!ReportOk(r)
  <2>1. CASE found[r] > 0
    <3>1. /\ pc[r] = "report" /\ pc' = [pc EXCEPT ![r] = "notify"]
          /\ UNCHANGED <<files, at, found, failed, results>>
      BY <1>14, <2>1 DEF P!ReportOk
    <3>2. <<r, at[r]>> \notin files'
      BY <1>2, <3>1
    <3>3. \E p \in P!Active : /\ pc' = [pc EXCEPT ![r] = p]
                              /\ p \in P!HasFile \/ <<r, at[r]>> \notin files'
      BY <3>1, <3>2
    <3>4. /\ pc[r] \in P!Active /\ files' \subseteq files \cup {<<r, at[r]>>}
          /\ found' \in [Run -> Nat] /\ failed' \in [Run -> BOOLEAN]
          /\ UNCHANGED <<at, results>>
      BY <3>1
    <3>5. Moved(r)
      BY <3>3, <3>4, Zenon DEF Moved
    <3> QED BY <1>1, <3>5
  <2>2. CASE ~(found[r] > 0)
    <3>1. P!NextSource(r, 0) /\ pc[r] = "report" /\ files' = files
      BY <1>14, <2>2 DEF P!ReportOk
    <3> QED BY <1>1, <3>1, Advances
  <2> QED BY <2>1, <2>2
<1>15. CASE P!Notify(r)
  <2>1. found[r] \in Nat
    OBVIOUS
  <2>2. P!NextSource(r, found[r]) /\ pc[r] = "notify" /\ files' = files
    BY <1>15 DEF P!Notify
  <2> QED BY <1>1, <2>1, <2>2, Advances
<1> QED BY <1>1, <1>4, <1>5, <1>6, <1>7, <1>8, <1>9, <1>10, <1>11, <1>12, <1>13, <1>14, <1>15
        DEF P!Step

\* A step of one Run, as the other parts of the state see it.
LEMMA RunKeeps ==
  ASSUME Live, NEW r \in Run, Moved(r) \/ Advanced(r), UNCHANGED <<sources, onDemand, job>>
  PROVE  /\ Types' /\ FileInv' /\ \A q \in Run : RunInv(q)'
         /\ pc[r] \in P!Active /\ pc'[r] \in P!Active \cup {"done"}
         /\ \A q \in Run : q # r => pc'[q] = pc[q]
<1> USE DEF Live
<1>1. PICK p \in P!Active \cup {"done"} : pc' = [pc EXCEPT ![r] = p]
  BY DEF Moved, Advanced, P!Active, P!InProcess
<1>2. /\ pc' \in [Run -> Alive] /\ pc'[r] = p
      /\ \A q \in Run : q # r => pc'[q] = pc[q]
  BY <1>1 DEF Types, Alive
<1>3. pc[r] \in P!Active
  BY DEF Moved, Advanced, P!Active, P!InProcess
<1>4. CASE Moved(r)
  <2>1. at' = at /\ results' = results /\ p \in P!Active
    BY <1>1, <1>2, <1>4 DEF Moved, Types
  <2>2. Types'
    BY <1>2, <1>4, <2>1 DEF Types, Moved
  <2>3. ASSUME NEW q \in Run PROVE RunInv(q)'
    <3>1. RunInv(q) /\ (q = r \/ pc'[q] = pc[q])
      BY <1>2
    <3>2. CASE q # r
      BY <1>2, <2>1, <3>1, <3>2 DEF RunInv
    <3>3. CASE q = r
      <4>1. pc'[q] \in P!Active /\ pc'[q] # "idle" /\ pc'[q] # "done"
        BY <1>2, <2>1, <3>3 DEF P!Active, P!InProcess
      <4>2. at[q] <= sources[q] /\ at[q] = Len(results[q]) + 1
        BY <1>3, <3>1, <3>3 DEF RunInv
      <4> QED BY <2>1, <4>1, <4>2 DEF RunInv
    <3> QED BY <3>2, <3>3
  <2>4. FileInv'
    <3> SUFFICES ASSUME NEW f \in files'
                 PROVE  \E q \in Run : f = <<q, at[q]>> /\ pc'[q] \in P!HasFile
      BY <2>1 DEF FileInv
    <3>1. f \in files \/ f = <<r, at[r]>>
      BY <1>4 DEF Moved
    <3>2. p \in P!HasFile \/ <<r, at[r]>> \notin files'
      <4>1. PICK a \in P!Active : /\ pc' = [pc EXCEPT ![r] = a]
                                  /\ a \in P!HasFile \/ <<r, at[r]>> \notin files'
        BY <1>4 DEF Moved
      <4>2. a = p
        BY <1>2, <4>1 DEF Types
      <4> QED BY <4>1, <4>2
    <3>3. CASE f = <<r, at[r]>>
      BY <1>2, <3>2, <3>3
    <3>4. CASE f \in files /\ f # <<r, at[r]>>
      <4>1. PICK q \in Run : f = <<q, at[q]>> /\ pc[q] \in P!HasFile
        BY <3>4 DEF FileInv
      <4> QED BY <1>2, <3>4, <4>1
    <3> QED BY <3>1, <3>3, <3>4
  <2> QED BY <1>2, <1>3, <2>2, <2>3, <2>4
<1>5. CASE Advanced(r)
  <2>1. PICK e \in Res : results' = [results EXCEPT ![r] = Append(@, e)]
    BY <1>5 DEF Advanced
  <2>2. /\ results' \in [Run -> Seq(Res)] /\ Len(results'[r]) = Len(results[r]) + 1
        /\ \A q \in Run : q # r => results'[q] = results[q]
    BY <2>1 DEF Types
  <2>3. /\ at' \in [Run -> Nat] /\ at'[r] = at[r] + 1
        /\ \A q \in Run : q # r => at'[q] = at[q]
        /\ files' = files
    BY <1>5 DEF Advanced, Types
  <2>4. p = IF at[r] = sources[r] THEN "done" ELSE "load"
    BY <1>2, <1>5 DEF Advanced, Types
  <2>5. Types'
    BY <1>2, <1>5, <2>2, <2>3 DEF Types, Advanced
  <2>6. ASSUME NEW q \in Run PROVE RunInv(q)'
    <3>1. RunInv(q)
      OBVIOUS
    <3>2. CASE q # r
      BY <1>2, <2>2, <2>3, <3>1, <3>2 DEF RunInv
    <3>3. CASE q = r
      <4>1. /\ at[r] <= sources[r] /\ at[r] = Len(results[r]) + 1
            /\ at[r] \in Nat /\ sources[r] \in Nat /\ Len(results[r]) \in Nat
        BY <1>3, <3>1, <3>3 DEF RunInv, Types
      <4>2. at'[r] = Len(results'[r]) + 1
        BY <2>2, <2>3, <4>1
      <4>3. CASE at[r] = sources[r]
        BY <1>2, <2>3, <2>4, <3>3, <4>1, <4>2, <4>3 DEF RunInv, P!Active, P!InProcess
      <4>4. CASE at[r] # sources[r]
        <5>1. at[r] + 1 <= sources[r]
          BY <4>1, <4>4
        <5> QED BY <1>2, <2>3, <2>4, <3>3, <4>1, <4>2, <4>4, <5>1 DEF RunInv
      <4> QED BY <4>3, <4>4
    <3> QED BY <3>2, <3>3
  <2>7. FileInv'
    <3> SUFFICES ASSUME NEW f \in files
                 PROVE  \E q \in Run : f = <<q, at'[q]>> /\ pc'[q] \in P!HasFile
      BY <2>3 DEF FileInv
    <3>1. PICK q \in Run : f = <<q, at[q]>> /\ pc[q] \in P!HasFile
      BY DEF FileInv
    <3>2. q # r
      BY <1>5, <3>1 DEF Advanced, P!HasFile
    <3> QED BY <1>2, <2>3, <3>1, <3>2
  <2> QED BY <1>2, <1>3, <2>5, <2>6, <2>7
<1> QED BY <1>4, <1>5

\* A step that leaves the Runs alone.
LEMMA RunsStay ==
  ASSUME Live, UNCHANGED <<pc, sources, at, found, failed, files, results, onDemand>>,
         job' \in [Job -> JobState]
  PROVE  Types' /\ FileInv' /\ \A r \in Run : RunInv(r)'
<1>1. Types'
  BY DEF Live, Types
<1>2. FileInv'
  BY DEF Live, FileInv
<1>3. ASSUME NEW r \in Run PROVE RunInv(r)'
  <2>1. RunInv(r)
    BY DEF Live
  <2> QED BY <2>1 DEF RunInv
<1> QED BY <1>1, <1>2, <1>3

\* pipeline.Run is entered.
LEMMA StartKeeps ==
  ASSUME Live, NEW r \in Run, NEW n \in Nat, P!Start(r, n), UNCHANGED onDemand,
         job' \in [Job -> JobState]
  PROVE  /\ Types' /\ FileInv' /\ \A q \in Run : RunInv(q)'
         /\ pc[r] = "idle" /\ pc'[r] # "idle" /\ UNCHANGED storeOpen
         /\ \A q \in Run : q # r => pc'[q] = pc[q]
<1>1. /\ pc[r] = "idle" /\ pc' = [pc EXCEPT ![r] = IF n = 0 THEN "done" ELSE "load"]
      /\ sources' = [sources EXCEPT ![r] = n]
      /\ at' = at /\ found' = found /\ failed' = failed /\ files' = files /\ results' = results
      /\ storeOpen' = storeOpen
  BY DEF P!Start
<1>2. /\ pc' \in [Run -> Alive] /\ pc'[r] = IF n = 0 THEN "done" ELSE "load"
      /\ sources' \in [Run -> Nat] /\ sources'[r] = n
      /\ \A q \in Run : q # r => pc'[q] = pc[q] /\ sources'[q] = sources[q]
  BY <1>1 DEF Live, Types, Alive, P!Active, P!InProcess
<1>3. Types'
  BY <1>1, <1>2 DEF Live, Types
<1>4. FileInv'
  <2> SUFFICES ASSUME NEW f \in files PROVE \E q \in Run : f = <<q, at[q]>> /\ pc'[q] \in P!HasFile
    BY <1>1 DEF FileInv
  <2>1. PICK q \in Run : f = <<q, at[q]>> /\ pc[q] \in P!HasFile
    BY DEF Live, FileInv
  <2>2. q # r
    BY <1>1, <2>1 DEF P!HasFile
  <2> QED BY <1>2, <2>1, <2>2
<1>5. ASSUME NEW q \in Run PROVE RunInv(q)'
  <2>1. RunInv(q)
    BY DEF Live
  <2>2. CASE q # r
    BY <1>1, <1>2, <2>1, <2>2 DEF RunInv
  <2>3. CASE q = r
    <3>1. at[r] = 1 /\ Len(results[r]) = 0
      BY <1>1, <2>1, <2>3 DEF RunInv, Live, Types
    <3>2. CASE n = 0
      BY <1>1, <1>2, <2>3, <3>1, <3>2 DEF RunInv, P!Active, P!InProcess
    <3>3. CASE n # 0
      <4>1. 1 <= n
        BY <3>3
      <4> QED BY <1>1, <1>2, <2>3, <3>1, <3>3, <4>1 DEF RunInv
    <3> QED BY <3>2, <3>3
  <2> QED BY <2>2, <2>3
<1> QED BY <1>1, <1>2, <1>3, <1>4, <1>5

\* With no job and no Run of the main goroutine under way, nothing is left open.
LEMMA Quiescent ==
  ASSUME Live, NoJobs, pc[Immediate] \in {"idle", "done"}
  PROVE  /\ \A r \in Run : pc[r] \in {"idle", "done"} /\ Len(results[r]) = sources[r]
         /\ files = {}
<1>1. ASSUME NEW r \in Run PROVE pc[r] \in {"idle", "done"}
  <2>1. CASE r = Immediate
    BY <2>1
  <2>2. CASE r \in Job
    BY <2>2 DEF Live, JobInv, NoJobs, Types, JobState
  <2> QED BY <2>1, <2>2 DEF Run
<1>2. ASSUME NEW r \in Run PROVE Len(results[r]) = sources[r]
  <2>1. RunInv(r) /\ Len(results[r]) \in Nat /\ sources[r] \in Nat
    BY DEF Live, Types
  <2> QED BY <1>1, <2>1 DEF RunInv
<1>3. files = {}
  BY <1>1 DEF Live, FileInv, P!HasFile
<1> QED BY <1>1, <1>2, <1>3

LEMMA Inactive == \A p : p \in {"idle", "done", "gone"} => p \notin P!Active
  BY DEF P!Active, P!InProcess

LEMMA VanishEnds ==
  ASSUME Types, Vanish
  PROVE  \A r \in Run : pc'[r] \notin P!Active
BY Inactive DEF Types, Vanish

\* main returns: early, at the end, or after Stop gave up.
LEMMA ExitEnds ==
  ASSUME Live, main' = "exited", UNCHANGED <<stop, sources, files, results>>,
         Vanish \/ UNCHANGED pc,
         \/ NoJobs /\ pc[Immediate] \in {"idle", "done"}
         \/ Vanish /\ stop = "timedout"
  PROVE  IInv'
<1>1. CASE NoJobs /\ pc[Immediate] \in {"idle", "done"}
  <2>1. /\ \A r \in Run : pc[r] \in {"idle", "done"} /\ Len(results[r]) = sources[r]
        /\ files = {}
    BY <1>1, Quiescent
  <2>2. \A r \in Run : pc'[r] = pc[r]
    BY <2>1, Inactive DEF Vanish
  <2>3. \A r \in Run : pc'[r] \notin P!Active /\ pc'[r] # "gone"
    BY <2>1, <2>2, Inactive
  <2>4. CleanShutdown'
    BY <2>1, <2>3 DEF CleanShutdown
  <2> QED BY <2>3, <2>4 DEF IInv, Dead, Over
<1>2. CASE Vanish /\ stop = "timedout"
  <2>1. Types
    BY DEF Live
  <2>2. \A r \in Run : pc'[r] \notin P!Active
    BY <1>2, <2>1, VanishEnds
  <2>3. CleanShutdown'
    BY <1>2 DEF CleanShutdown
  <2> QED BY <2>2, <2>3 DEF IInv, Dead, Over
<1> QED BY <1>1, <1>2

LEMMA KillEnds == ASSUME Live, main' = "killed", Vanish PROVE IInv'
<1>1. \A r \in Run : pc'[r] \notin P!Active
  BY VanishEnds DEF Live
<1>2. CleanShutdown'
  BY DEF CleanShutdown
<1> QED BY <1>1, <1>2 DEF IInv, Dead, Over

-----------------------------------------------------------------------------
(* The actions, while the process lives.                                   *)

LEMMA MainKeeps == ASSUME Live, main \notin Over, MainStep \/ CloseStore PROVE IInv'
<1> USE DEF Live
<1>1. CASE MainMove
  <2>1. UNCHANGED <<cronOn, job, stop, pc, sources, at, found, failed, files, results, storeOpen,
                    onDemand>>
    BY <1>1 DEF MainMove, schedVars, pipeVars, config
  <2>2. Types' /\ FileInv' /\ \A r \in Run : RunInv(r)'
    BY <2>1, RunsStay DEF Types
  <2>3. \A j \in Job : JobInv(j)'
    BY <2>1 DEF JobInv
  <2>4. CASE LoadFails \/ OpenFails
    BY <2>1, <2>4, ExitEnds DEF LoadFails, OpenFails, MainGoes, PhaseInv
  <2>5. CASE LoadConfig \/ ImmediateReturns \/ NothingScheduled \/ StopReturns
    <3>1. PhaseInv' /\ main' \notin Over
      BY <2>1, <2>5 DEF LoadConfig, ImmediateReturns, NothingScheduled, StopReturns, Stopped,
                        MainGoes, PhaseInv, NoJobs, Over
    <3> QED BY <2>2, <2>3, <3>1 DEF IInv
  <2> QED BY <1>1, <2>4, <2>5 DEF MainMove
<1>2. CASE Boot
  <2>1. /\ main = "boot" /\ main' \in {"immediate", "closing"}
        /\ UNCHANGED <<cronOn, job, stop, pc, sources, at, found, failed, files, results, storeOpen,
                       onDemand>>
    BY <1>2 DEF Boot, schedVars, pipeVars, config
  <2>2. Types' /\ FileInv' /\ \A r \in Run : RunInv(r)'
    BY <2>1, RunsStay DEF Types
  <2>3. \A j \in Job : JobInv(j)'
    BY <2>1 DEF JobInv
  <2>4. PhaseInv' /\ main' \notin Over
    BY <2>1 DEF PhaseInv, NoJobs, Over
  <2> QED BY <2>2, <2>3, <2>4 DEF IInv
<1>3. CASE RunImmediate
  <2>1. main = "immediate" /\ UNCHANGED <<cronOn, job, stop, main, onDemand>>
        /\ P!Start(Immediate, onDemand) /\ onDemand \in Nat
    BY <1>3 DEF RunImmediate, schedVars, config, Types
  <2>2. /\ Types' /\ FileInv' /\ \A r \in Run : RunInv(r)'
        /\ storeOpen' = storeOpen
        /\ \A q \in Run : q # Immediate => pc'[q] = pc[q]
    BY <2>1, RunParts, StartKeeps DEF Types
  <2>3. ASSUME NEW j \in Job PROVE JobInv(j)'
    <3>1. j # Immediate
      <4>1. j[2] \in 1..MaxFires /\ Immediate[2] = 0
        BY DEF Job, Immediate
      <4>2. j[2] # 0
        BY <4>1
      <4> QED BY <4>1, <4>2
    <3> QED BY <2>1, <2>2, <3>1, RunParts DEF JobInv
  <2>4. PhaseInv' /\ main' \notin Over
    BY <2>1, <2>2 DEF PhaseInv, NoJobs, Over
  <2> QED BY <2>2, <2>3, <2>4 DEF IInv
<1>4. CASE Serve \/ BeginStop \/ SchedulerStep
  <2>1. /\ UNCHANGED <<job, pc, sources, at, found, failed, files, results, storeOpen, onDemand>>
        /\ main \in {"register", "serving", "stopping"} /\ main' \in {"serving", "stopping"}
    BY <1>4 DEF Serve, BeginStop, SchedulerStep, MainGoes, pipeVars, config, StartCron, StopCancel,
                StopStep, StopCron, StopDrained, StopTimeout
  <2>2. Types' /\ FileInv' /\ \A r \in Run : RunInv(r)'
    BY <2>1, RunsStay DEF Types
  <2>3. \A j \in Job : JobInv(j)'
    BY <2>1 DEF JobInv
  <2>4. /\ stop' \in {"waiting", "drained"} => ~cronOn'
        /\ stop' = "drained" => NoJobs'
    <3>1. CASE Serve
      BY <3>1 DEF Serve, StartCron
    <3>2. CASE BeginStop
      BY <3>2 DEF BeginStop, StopCancel
    <3>3. CASE StopCron
      BY <3>3 DEF StopCron
    <3>4. CASE StopDrained
      <4>1. /\ stop = "waiting" /\ cronOn' = cronOn /\ stop' = "drained"
            /\ \A j \in Job : ~Waiting(j)
        BY <3>4 DEF StopDrained
      <4>2. \A j \in Job : job'[j] \notin {"spawned", "running"}
        BY <2>1, <4>1, RunParts
      <4> QED BY <4>1, <4>2 DEF PhaseInv, NoJobs
    <3>5. CASE StopTimeout
      BY <3>5 DEF StopTimeout
    <3> QED BY <1>4, <3>1, <3>2, <3>3, <3>4, <3>5 DEF SchedulerStep, StopStep
  <2>5. PhaseInv' /\ main' \notin Over
    BY <2>1, <2>4 DEF PhaseInv, Over
  <2> QED BY <2>2, <2>3, <2>5 DEF IInv
<1>5. CASE Exit
  <2>1. /\ main = "closing" /\ main' = "exited" /\ Vanish
        /\ UNCHANGED <<stop, sources, files, results>>
    BY <1>5 DEF Exit, MainGoes, schedVars, runVars
  <2> QED BY <2>1, ExitEnds DEF PhaseInv
<1>6. CASE CloseStore
  <2>1. /\ UNCHANGED <<cronOn, job, stop, pc, sources, at, found, failed, files, results, onDemand,
                       main>>
        /\ main = "closing"
    BY <1>6 DEF CloseStore, P!CloseStore, schedVars, config
  <2>2. Types' /\ FileInv' /\ \A r \in Run : RunInv(r)'
    BY <2>1, RunsStay DEF Types
  <2>3. \A j \in Job : JobInv(j)'
    BY <2>1 DEF JobInv
  <2>4. PhaseInv' /\ main' \notin Over
    BY <2>1 DEF PhaseInv, NoJobs, Over
  <2> QED BY <2>2, <2>3, <2>4 DEF IInv
<1> QED BY <1>1, <1>2, <1>3, <1>4, <1>5, <1>6 DEF MainStep

LEMMA JobKeeps == ASSUME Live, main \notin Over, NEW j \in Job, JobStep(j) PROVE IInv'
<1> USE DEF Live
<1>1. /\ j \in Run /\ UNCHANGED <<main, onDemand>> /\ j # Immediate /\ job[j] \in JobState
  <2>1. j[2] \in 1..MaxFires /\ Immediate[2] = 0
    BY DEF Job, Immediate
  <2>2. j[2] # 0
    BY <2>1
  <2> QED BY <2>1, <2>2, RunParts DEF JobStep, config, Types
<1>2. CASE JobBegins(j)
  <2>1. /\ job[j] = "spawned" /\ job' = [job EXCEPT ![j] = "running"]
        /\ UNCHANGED <<cronOn, stop>> /\ P!Start(j, 1)
    BY <1>2 DEF JobBegins, Take
  <2>2. /\ job' \in [Job -> JobState] /\ job'[j] = "running"
        /\ \A h \in Job : h # j => job'[h] = job[h]
    BY <2>1 DEF Types, JobState
  <2>3. /\ Types' /\ FileInv' /\ \A r \in Run : RunInv(r)'
        /\ pc'[j] # "idle" /\ storeOpen' = storeOpen
        /\ \A q \in Run : q # j => pc'[q] = pc[q]
    BY <1>1, <2>1, <2>2, StartKeeps
  <2>4. ASSUME NEW h \in Job PROVE JobInv(h)'
    <3>1. h \in Run /\ JobInv(h)
      BY RunParts
    <3>2. CASE h = j
      BY <2>2, <2>3, <3>2 DEF JobInv
    <3>3. CASE h # j
      BY <2>2, <2>3, <3>1, <3>3 DEF JobInv
    <3> QED BY <3>2, <3>3
  <2>5. ~NoJobs /\ pc'[Immediate] = pc[Immediate]
    BY <1>1, <2>1, <2>3, RunParts DEF NoJobs
  <2>6. PhaseInv'
    BY <1>1, <2>1, <2>3, <2>5 DEF PhaseInv
  <2> QED BY <1>1, <2>3, <2>4, <2>6 DEF IInv
<1>3. CASE JobReturns(j)
  <2>1. /\ pc[j] = "done" /\ job[j] = "running" /\ job' = [job EXCEPT ![j] = "returned"]
        /\ UNCHANGED <<cronOn, stop, pc, sources, at, found, failed, files, results, storeOpen>>
    BY <1>3 DEF JobReturns, Return, pipeVars
  <2>2. /\ job' \in [Job -> JobState] /\ job'[j] = "returned"
        /\ \A h \in Job : h # j => job'[h] = job[h]
    BY <2>1 DEF Types, JobState
  <2>3. Types' /\ FileInv' /\ \A r \in Run : RunInv(r)'
    BY <1>1, <2>1, <2>2, RunsStay
  <2>4. ASSUME NEW h \in Job PROVE JobInv(h)'
    BY <2>1, <2>2 DEF JobInv
  <2>5. ~NoJobs
    BY <2>1 DEF NoJobs
  <2>6. PhaseInv'
    BY <1>1, <2>1, <2>5 DEF PhaseInv
  <2> QED BY <1>1, <2>3, <2>4, <2>6 DEF IInv
<1>4. CASE (Fire(j) \/ Skip(j)) /\ UNCHANGED pipeVars
  <2>1. UNCHANGED <<cronOn, stop, pc, sources, at, found, failed, files, results, storeOpen>>
    BY <1>4 DEF Fire, Skip, pipeVars
  <2>2. PICK s \in {"spawned", "skipped"} : job' = [job EXCEPT ![j] = s]
    BY <1>4 DEF Fire, Skip
  <2>3. job[j] \in {"none", "spawned"} /\ (cronOn \/ job[j] = "spawned")
    BY <1>4 DEF Fire, Skip
  <2>4. /\ job' \in [Job -> JobState] /\ job'[j] = s
        /\ \A h \in Job : h # j => job'[h] = job[h]
    BY <2>2 DEF Types, JobState
  <2>5. Types' /\ FileInv' /\ \A r \in Run : RunInv(r)'
    BY <1>1, <2>1, <2>4, RunsStay
  <2>6. ASSUME NEW h \in Job PROVE JobInv(h)'
    <3>1. JobInv(h)
      OBVIOUS
    <3>2. CASE h = j
      BY <2>1, <2>3, <2>4, <3>1, <3>2 DEF JobInv
    <3>3. CASE h # j
      BY <2>1, <2>4, <3>1, <3>3 DEF JobInv
    <3> QED BY <3>2, <3>3
  <2>7. ~NoJobs
    BY <2>3 DEF NoJobs
  <2>8. PhaseInv'
    BY <1>1, <2>1, <2>7 DEF PhaseInv
  <2> QED BY <1>1, <2>5, <2>6, <2>8 DEF IInv
<1> QED BY <1>2, <1>3, <1>4 DEF JobStep

LEMMA RunStepKeeps == ASSUME Live, main \notin Over, NEW r \in Run, RunStep(r) PROVE IInv'
<1> USE DEF Live
<1>1. /\ P!Step(r) /\ UNCHANGED <<cronOn, job, stop, main, onDemand>>
  BY DEF RunStep, schedVars, config
<1>2. (Moved(r) \/ Advanced(r)) /\ UNCHANGED <<sources, storeOpen>>
  BY <1>1, StepMoves
<1>3. /\ Types' /\ FileInv' /\ \A q \in Run : RunInv(q)'
      /\ pc[r] \in P!Active /\ pc'[r] \in P!Active \cup {"done"}
      /\ \A q \in Run : q # r => pc'[q] = pc[q]
  BY <1>1, <1>2, RunKeeps
<1>4. pc[r] # "idle" /\ pc[r] # "done" /\ pc'[r] # "idle"
  BY <1>3 DEF P!Active, P!InProcess
<1>5. ASSUME NEW j \in Job PROVE JobInv(j)'
  <2>1. j \in Run /\ JobInv(j)
    BY RunParts
  <2>2. CASE j = r
    BY <1>1, <1>4, <2>1, <2>2 DEF JobInv
  <2>3. CASE j # r
    BY <1>1, <1>3, <2>1, <2>3 DEF JobInv
  <2> QED BY <2>2, <2>3
<1>6. PhaseInv'
  <2>1. CASE r = Immediate
    BY <1>1, <1>2, <1>4, <2>1 DEF PhaseInv, NoJobs
  <2>2. CASE r # Immediate
    BY <1>1, <1>2, <1>3, <2>2, RunParts DEF PhaseInv, NoJobs
  <2> QED BY <2>1, <2>2
<1> QED BY <1>1, <1>3, <1>5, <1>6 DEF IInv

\* The signal, and the GC goroutine.
LEMMA OthersKeep == ASSUME Live, main \notin Over, Signal \/ GcStep PROVE IInv'
<1> USE DEF Live
<1>1. UNCHANGED <<cronOn, job, stop, pc, sources, at, found, failed, files, results, storeOpen,
                  main, onDemand>>
  BY DEF Signal, P!Cancel, GcStep, schedVars, pipeVars, config
<1>2. Types' /\ FileInv' /\ \A r \in Run : RunInv(r)'
  BY <1>1, RunsStay DEF Types
<1>3. \A j \in Job : JobInv(j)'
  BY <1>1 DEF JobInv
<1>4. PhaseInv'
  BY <1>1 DEF PhaseInv, NoJobs
<1> QED BY <1>1, <1>2, <1>3, <1>4 DEF IInv

-----------------------------------------------------------------------------
LEMMA InitEstablishes == ASSUME Init PROVE IInv
<1>1. /\ \A r \in Run : pc[r] = "idle" /\ at[r] = 1 /\ sources[r] = 0 /\ results[r] = <<>>
      /\ files = {} /\ storeOpen = TRUE
  BY DEF Init, P!Init
<1>2. /\ \A j \in Job : job[j] = "none"
      /\ cronOn = FALSE /\ stop = "no" /\ main = "load"
  BY RunParts DEF Init, SchedInit
<1>3. Types
  <2>1. onDemand \in Nat
    BY OnDemandAssumption DEF Init
  <2>2. job \in [Job -> JobState]
    BY RunParts DEF Init, SchedInit, JobState
  <2>3. <<>> \in Seq(Res)
    OBVIOUS
  <2> QED BY <2>1, <2>2, <2>3 DEF Init, P!Init, Types, Alive
<1>4. FileInv /\ PhaseInv /\ \A j \in Job : JobInv(j)
  BY <1>1, <1>2, RunParts DEF FileInv, PhaseInv, NoJobs, JobInv
<1>5. \A r \in Run : RunInv(r)
  BY <1>1 DEF RunInv, P!Active, P!InProcess
<1> QED BY <1>2, <1>3, <1>4, <1>5 DEF IInv, Live, Over

LEMMA StepKeeps == ASSUME IInv, [Next]_vars PROVE IInv'
<1>1. CASE main \in Over
  <2>1. UNCHANGED vars
    BY <1>1 DEF Next, MainStep, MainMove, LoadConfig, LoadFails, OpenFails, ImmediateReturns,
                NothingScheduled, StopReturns, Boot, RunImmediate, Serve, BeginStop, SchedulerStep,
                Exit, CloseStore, Signal, Kill, JobStep, RunStep, GcStep, MainGoes, Over
  <2>2. /\ main' = main /\ pc' = pc /\ sources' = sources /\ files' = files /\ stop' = stop
        /\ results' = results
    BY <2>1 DEF vars, schedVars, pipeVars
  <2> QED BY <1>1, <2>2 DEF IInv, Dead, CleanShutdown
<1>2. CASE main \notin Over
  <2>1. Live
    BY <1>2 DEF IInv
  <2>2. CASE UNCHANGED vars
    <3>1. UNCHANGED <<cronOn, job, stop, pc, sources, at, found, failed, files, results, storeOpen,
                      main, onDemand>>
      BY <2>2 DEF vars, schedVars, pipeVars, config
    <3>2. Types' /\ FileInv' /\ \A r \in Run : RunInv(r)'
      BY <2>1, <3>1, RunsStay DEF Live, Types
    <3>3. \A j \in Job : JobInv(j)'
      BY <2>1, <3>1 DEF Live, JobInv
    <3>4. PhaseInv'
      BY <2>1, <3>1 DEF Live, PhaseInv, NoJobs
    <3> QED BY <1>2, <3>1, <3>2, <3>3, <3>4 DEF IInv, Live
  <2>3. CASE Kill
    BY <2>1, <2>3, KillEnds DEF Kill
  <2>4. CASE Next /\ ~Kill
    BY <1>2, <2>1, <2>4, MainKeeps, OthersKeep, JobKeeps, RunStepKeeps DEF Next
  <2> QED BY <2>2, <2>3, <2>4
<1> QED BY <1>1, <1>2

\* The parts of the daemon stay in step as long as it lives.
THEOREM Invariance == Spec => []IInv
<1>1. Init => IInv
  BY InitEstablishes
<1>2. IInv /\ [Next]_vars => IInv'
  BY StepKeeps
<1> QED BY <1>1, <1>2, PTL DEF Spec

\* Any number of sources, firings and violations: the store is never closed
\* under a Run unless Stop gave up waiting.
THEOREM ClosedAfterJobsAlways == Spec => []ClosedAfterJobs
<1>1. IInv => ClosedAfterJobs
  <2> SUFFICES ASSUME IInv, ~storeOpen, stop # "timedout", NEW r \in Run
               PROVE  pc[r] \notin P!Active
    BY DEF ClosedAfterJobs
  <2>1. CASE main \in Over
    BY <2>1 DEF IInv, Dead
  <2>2. CASE main \notin Over
    <3>1. Live /\ NoJobs /\ pc[Immediate] \in {"idle", "done"}
      BY <2>2 DEF IInv, Live, PhaseInv
    <3> QED BY <3>1, Quiescent, Inactive
  <2> QED BY <2>1, <2>2
<1> QED BY <1>1, Invariance, PTL

\* An orderly shutdown leaves no temporary CSV and no source without a Result.
THEOREM CleanShutdownAlways == Spec => []CleanShutdown
<1>1. IInv => CleanShutdown
  BY DEF IInv, Dead, CleanShutdown, Over
<1> QED BY <1>1, Invariance, PTL

-----------------------------------------------------------------------------
(* The scheduler, by itself and in the daemon                               *)

(***************************************************************************)
(* The inductive invariant of Scheduler: the token of a source is in its   *)
(* channel exactly when no job of the source runs, and at most one does.   *)
(***************************************************************************)
TokenInv == \A s \in Source : s \in token <=> \A j \in Job : j[1] = s => job[j] # "running"

StopInv ==
  /\ stop \in {"waiting", "drained", "timedout"} => ~cronOn
  /\ stop = "drained" => \A j \in Job : ~Waiting(j)

SchedInv == SchedTypeOK /\ TokenInv /\ NoOverlap /\ StopInv

LEMMA JobOfSource == \A j \in Job : j[1] \in Source
  BY DEF Job

LEMMA InitSchedInv == SchedInit => SchedInv
  BY DEF SchedInit, SchedInv, SchedTypeOK, TokenInv, NoOverlap, StopInv, Job, JobState, StopState

LEMMA NextSchedInv == SchedInv /\ [SchedNext]_schedVars => SchedInv'
<1> SUFFICES ASSUME SchedInv, [SchedNext]_schedVars PROVE SchedInv'
  OBVIOUS
<1> USE JobOfSource DEF SchedInv, SchedTypeOK, TokenInv, NoOverlap, StopInv, Waiting, JobState, StopState
<1>1. CASE StartCron
  BY <1>1 DEF StartCron
<1>2. ASSUME NEW j \in Job, Fire(j) PROVE SchedInv'
  BY <1>2 DEF Fire
<1>3. ASSUME NEW j \in Job, Take(j) PROVE SchedInv'
  <2>1. SchedTypeOK' /\ StopInv'
    BY <1>3 DEF Take
  <2>2. TokenInv'
    BY <1>3 DEF Take
  <2>3. NoOverlap'
    BY <1>3 DEF Take
  <2>4. QED
    BY <2>1, <2>2, <2>3
<1>4. ASSUME NEW j \in Job, Skip(j) PROVE SchedInv'
  BY <1>4 DEF Skip
<1>5. ASSUME NEW j \in Job, Return(j) PROVE SchedInv'
  <2>1. SchedTypeOK' /\ StopInv'
    BY <1>5 DEF Return
  <2>2. TokenInv'
    BY <1>5 DEF Return
  <2>3. NoOverlap'
    BY <1>5 DEF Return
  <2>4. QED
    BY <2>1, <2>2, <2>3
<1>6. CASE StopCancel
  BY <1>6 DEF StopCancel
<1>7. CASE StopStep
  <2>1. /\ job' = job /\ token' = token /\ jobCtx' = jobCtx
        /\ stop' \in StopState
        /\ cronOn' = FALSE \/ cronOn' = cronOn
    BY <1>7, Zenon DEF StopStep, StopCron, StopDrained, StopTimeout
  <2>2. SchedTypeOK' /\ TokenInv' /\ NoOverlap'
    BY <2>1
  <2>3. StopInv'
    BY <1>7 DEF StopStep, StopCron, StopDrained, StopTimeout
  <2>4. QED
    BY <2>2, <2>3
<1>8. CASE UNCHANGED schedVars
  BY <1>8 DEF schedVars
<1>9. QED
  BY <1>1, <1>2, <1>3, <1>4, <1>5, <1>6, <1>7, <1>8 DEF SchedNext

\* Every reachable state of the scheduler satisfies the invariant.
THEOREM SchedulerInvariance == SchedSpec => []SchedInv
  BY InitSchedInv, NextSchedInv, PTL DEF SchedSpec

\* Two jobs of one source never run at once.
THEOREM NoOverlapAlways == SchedSpec => []NoOverlap
  BY SchedulerInvariance, PTL DEF SchedInv

\* Once Stop has returned without a timeout, no job runs and none will.
THEOREM DrainedForGoodAlways == SchedSpec => []DrainedForGood
<1>1. SchedInv => DrainedForGood
  BY JobOfSource DEF SchedInv, StopInv, DrainedForGood
<1>2. QED
  BY <1>1, SchedulerInvariance, PTL

\* A firing is dropped only while a job of the same source runs.
THEOREM SkipsAreJustified == SchedSpec => SkipOnlyWhileRunning
<1>1. ASSUME SchedInv, [SchedNext]_schedVars,
             NEW j \in Job, job[j] = "spawned", job'[j] = "skipped"
      PROVE  \E h \in Job : h[1] = j[1] /\ job[h] = "running"
  <2>1. \E h \in Job : Skip(h) /\ h = j
    BY <1>1 DEF SchedInv, SchedTypeOK, SchedNext, schedVars, StartCron, Fire, Take, Skip, Return,
       StopCancel, StopStep, StopCron, StopDrained, StopTimeout
  <2>2. j[1] \notin token
    BY <2>1 DEF Skip
  <2>3. QED
    BY <1>1, <2>2, JobOfSource DEF SchedInv, TokenInv
<1>2. SchedInv /\ [SchedNext]_schedVars =>
        [\A j \in Job : job[j] = "spawned" /\ job'[j] = "skipped" =>
           \E h \in Job : h[1] = j[1] /\ job[h] = "running"]_schedVars
  BY <1>1
<1>3. QED
  BY <1>2, SchedulerInvariance, PTL DEF SchedSpec, SkipOnlyWhileRunning

\* A step of the daemon is a step of its scheduler or leaves it alone.
LEMMA SchedulerSteps == [Next]_vars => [SchedNext]_schedVars
<1> SUFFICES ASSUME [Next]_vars PROVE SchedNext \/ UNCHANGED schedVars
  BY DEF schedVars
<1>1. CASE MainMove \/ Boot \/ RunImmediate \/ Exit \/ CloseStore \/ Signal \/ Kill \/ GcStep
  BY <1>1, Zenon DEF MainMove, Boot, RunImmediate, Exit, CloseStore, Signal, Kill, GcStep
<1>2. CASE Serve
  BY <1>2 DEF Serve, SchedNext
<1>3. CASE BeginStop
  BY <1>3 DEF BeginStop, SchedNext
<1>4. CASE SchedulerStep
  BY <1>4 DEF SchedulerStep, SchedNext
<1>5. ASSUME NEW j \in Job, JobStep(j) PROVE SchedNext
  <2>1. Fire(j) \/ Take(j) \/ Skip(j) \/ Return(j)
    BY <1>5, Zenon DEF JobStep, JobBegins, JobReturns
  <2>2. QED
    BY <2>1, JobOfSource DEF SchedNext
<1>6. ASSUME NEW r \in Run, RunStep(r) PROVE UNCHANGED schedVars
  BY <1>6 DEF RunStep
<1>7. CASE UNCHANGED vars
  BY <1>7 DEF vars
<1>8. QED
  BY <1>1, <1>2, <1>3, <1>4, <1>5, <1>6, <1>7 DEF Next, MainStep

\* The daemon implements the scheduler's specification: what runDaemon does
\* with it is a call the scheduler allows, so that what is proved of the
\* scheduler holds in the daemon.
THEOREM ImplementsScheduler == Spec => SchedSpec
<1>1. Init => SchedInit
  BY DEF Init
<1>2. QED
  BY <1>1, SchedulerSteps, PTL DEF Spec, SchedSpec

\* In the daemon, too, two jobs of one source never run at once, and none runs
\* after a Stop that was drained.
THEOREM DaemonSchedules == Spec => [](NoOverlap /\ DrainedForGood) /\ SkipOnlyWhileRunning
  BY ImplementsScheduler, NoOverlapAlways, DrainedForGoodAlways, SkipsAreJustified, PTL

-----------------------------------------------------------------------------
(***************************************************************************)
(* The daemon's Runs.  PP is the instance P of Pipeline again, with what   *)
(* is proved about it; the lemmas Same... say so.  Every step of the       *)
(* daemon is one that Pipeline allows, except that its process ends with   *)
(* the context and the store as they are (PP!Vanish).  The history that    *)
(* PipelineLog adds plays no part here and is given any value.             *)
(***************************************************************************)
PP == INSTANCE PipelineProofs WITH MaxSources <- IF OnDemand > 1 THEN OnDemand ELSE 1,
                                   asked <- <<>>, fate <- <<>>

USE DEF PP!current, PP!disk, PP!reported, PP!around, PP!FailAndClean, PP!Removed, PP!CtxDone,
        PP!Last, PP!SkipSource, PP!Record, PP!Post, PP!Goto, PP!FailNow

\* What Pipeline assumes of its constants holds of the instance.
LEMMA PipelineConstants == PP!SourcesAssumption /\ PP!FoundAssumption
  BY OnDemandAssumption, FoundAssumption DEF PP!SourcesAssumption, PP!FoundAssumption

LEMMA SameInit == P!Init => PP!Init
  BY DEF P!Init, PP!Init, P!SourceIndex, PP!SourceIndex

LEMMA SameStart == ASSUME NEW r, NEW n, P!Start(r, n) PROVE PP!Start(r, n)
  BY DEF P!Start, PP!Start

LEMMA SameSurroundings == (P!Cancel => PP!Cancel) /\ (P!CloseStore => PP!CloseStore)
  BY DEF P!Cancel, PP!Cancel, P!CloseStore, PP!CloseStore, P!CheckBegun, PP!CheckBegun,
         P!Ended, PP!Ended

LEMMA SameStep == ASSUME NEW r, P!Step(r) PROVE PP!Step(r)
  BY DEF P!Step, P!Load, P!CreateTemp, P!WriteTemp, P!CheckBegin, P!CheckReturn, P!SaveSome,
         P!SaveOk, P!SaveFails, P!Cleanup, P!ReportError, P!ReportOk, P!Notify, P!NextSource,
         P!Count, P!OnDisk, P!SetSaved,
         PP!Step, PP!Load, PP!CreateTemp, PP!WriteTemp, PP!CheckBegin, PP!CheckReturn,
         PP!SaveSome, PP!SaveOk, PP!SaveFails, PP!Cleanup, PP!ReportError, PP!ReportOk,
         PP!Notify, PP!NextSource, PP!Count, PP!OnDisk, PP!SetSaved

\* The properties of Pipeline, of the daemon's Runs.
RunPromises ==
  /\ P!ResultsTruthful /\ P!TempFileLifetime /\ P!AlertsBacked /\ P!CancelStopsIngest
  /\ P!RecordedAgrees

LEMMA SamePromises == PP!Promises => RunPromises
  BY DEF PP!Promises, PP!ResultsTruthful, PP!TempFileLifetime, PP!AlertsBacked,
         PP!CancelStopsIngest, PP!RecordedAgrees, PP!HasFile, PP!SourceIndex, PP!Counted,
         RunPromises, P!ResultsTruthful, P!TempFileLifetime, P!AlertsBacked,
         P!CancelStopsIngest, P!RecordedAgrees, P!HasFile, P!SourceIndex, P!Counted

\* How many sources a Run is given is within Pipeline's bound.
LEMMA OnDemandStays == /\ Init => onDemand \in 0..OnDemand
                       /\ onDemand \in 0..OnDemand /\ [Next]_vars => onDemand' \in 0..OnDemand
<1>1. [Next]_vars => onDemand' = onDemand
  BY Zenon DEF Next, vars, config, MainStep, MainMove, Boot, RunImmediate, Serve, BeginStop,
     SchedulerStep, Exit, CloseStore, Signal, Kill, JobStep, RunStep, GcStep
<1>2. QED
  BY <1>1 DEF Init

\* What a step of the daemon is to its Runs.
RunsGoOn == PP!Next \/ PP!Vanish \/ UNCHANGED PP!vars

LEMMA RunsSteps == onDemand \in 0..OnDemand /\ [Next]_vars => RunsGoOn
<1> SUFFICES ASSUME onDemand \in 0..OnDemand, [Next]_vars PROVE RunsGoOn
  OBVIOUS
<1>1. \A n : n \in {1, onDemand} => n \in 0..(IF OnDemand > 1 THEN OnDemand ELSE 1)
  BY OnDemandAssumption
<1>2. CASE UNCHANGED pipeVars
  BY <1>2 DEF pipeVars, RunsGoOn, PP!vars
<1>3. CASE Exit \/ Kill
  BY <1>3, Zenon DEF Exit, Kill, Vanish, runVars, RunsGoOn, PP!Vanish, P!Active, PP!Active,
     P!InProcess, PP!InProcess
<1>4. CASE RunImmediate
  BY <1>1, <1>4, SameStart, RunParts DEF RunImmediate, RunsGoOn, PP!Next
<1>5. CASE CloseStore \/ Signal
  BY <1>5, SameSurroundings DEF CloseStore, Signal, RunsGoOn, PP!Next
<1>6. ASSUME NEW r \in Run, RunStep(r) PROVE RunsGoOn
  BY <1>6, SameStep DEF RunStep, RunsGoOn, PP!Next
<1>7. ASSUME NEW j \in Job, JobStep(j) PROVE RunsGoOn
  <2>1. CASE UNCHANGED pipeVars
    BY <1>2, <2>1
  <2>2. CASE JobBegins(j)
    BY <1>1, <2>2, SameStart, RunParts DEF JobBegins, RunsGoOn, PP!Next
  <2>3. QED
    BY <1>7, <2>1, <2>2 DEF JobStep, JobReturns
<1>8. MainMove \/ Boot \/ Serve \/ BeginStop \/ SchedulerStep \/ GcStep \/ UNCHANGED vars
        => UNCHANGED pipeVars
  BY Zenon DEF MainMove, Boot, Serve, BeginStop, SchedulerStep, GcStep, vars
<1>9. QED
  BY <1>2, <1>3, <1>4, <1>5, <1>6, <1>7, <1>8 DEF Next, MainStep

\* What is proved of pipeline.Run holds of every Run of the daemon, scheduled
\* or not: whatever the scheduler, the signal, the closing of the store, the
\* GC and the death of the process do, Results, counter and alerts agree with
\* the disk, and a cancelled context stops the ingest at a source boundary.
THEOREM DaemonIngests == Spec => []RunPromises
<1> DEFINE Inv == PP!Kept /\ onDemand \in 0..OnDemand
<1>1. Init => Inv
  BY SameInit, OnDemandStays, PipelineConstants, PP!KeptInit DEF Init, PP!KeptInit
<1>2. Inv /\ [Next]_vars => Inv'
  BY OnDemandStays, RunsSteps, PipelineConstants, PP!KeptNext DEF RunsGoOn, PP!KeptNext
<1>3. Inv => RunPromises
  BY SamePromises, PipelineConstants, PP!KeptPromises DEF PP!KeptPromises
<1>4. QED
  BY <1>1, <1>2, <1>3, PTL DEF Spec
=============================================================================
