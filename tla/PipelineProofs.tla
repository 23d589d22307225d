--------------------------- MODULE PipelineProofs ---------------------------
(* Proofs about Pipeline and PipelineLog, for every set of Runs, any number *)
(* of sources and any number of violations.                                 *)
EXTENDS PipelineLog, WellFoundedInduction, TLAPS

\* Names for parts of the state and of the actions, expanded in every proof.
USE DEF current, disk, reported, around, FailAndClean, Removed, CtxDone, Last, SkipSource,
        Record, Post

-----------------------------------------------------------------------------
(***************************************************************************)
(* The inductive invariant, one part for each question.  The properties    *)
(* speak of the sources a Run is through with; what makes them inductive   *)
(* is what holds of the source it is working on (Progress), which becomes  *)
(* a Result when NextSource moves on.                                      *)
(***************************************************************************)
BeforeSave == {"idle", "load", "temp", "write", "check", "checking"}

Position(r) ==
  /\ pc[r] = "idle" => at[r] = 1
  /\ pc[r] \in Active => at[r] \in 1..sources[r]
  /\ pc[r] = "done" => at[r] = sources[r] + 1
  /\ Len(results[r]) = at[r] - 1

Progress(r) ==
  /\ \A k \in SourceIndex : k > at[r] => saved[r][k] = 0
  /\ pc[r] \in BeforeSave /\ at[r] \in SourceIndex => saved[r][at[r]] = 0
  /\ pc[r] \in BeforeSave \cup {"save", "notify"} => failed[r] = FALSE
  /\ pc[r] = "save" => saved[r][at[r]] <= found[r]
  /\ pc[r] \in {"cleanup", "report", "notify"} /\ failed[r] = FALSE => saved[r][at[r]] = found[r]
  /\ pc[r] = "notify" => found[r] > 0

Truth(r) ==
  \A k \in 1..(at[r] - 1) :
    /\ results[r][k].source = k
    /\ results[r][k].violations = IF results[r][k].err THEN 0 ELSE saved[r][k]

Alerted(r) ==
  \A j \in 1..Len(alerts[r]) :
    /\ alerts[r][j][1] \in 1..(at[r] - 1)
    /\ alerts[r][j][2] > 0
    /\ alerts[r][j][2] = saved[r][alerts[r][j][1]]
    /\ results[r][alerts[r][j][1]].err = FALSE
    /\ \A h \in 1..Len(alerts[r]) : h < j => alerts[r][h][1] < alerts[r][j][1]

Live(r) ==
  /\ cancelled = FALSE /\ pc[r] \notin Ended => lastLive[r] = MaxSources
  /\ pc[r] \in {"checking", "save"} => at[r] <= lastLive[r]
  /\ \A k \in SourceIndex : k > lastLive[r] => saved[r][k] = 0

OwnFile(r) ==
  /\ pc[r] \in HasFile => <<r, at[r]>> \in files
  /\ \A k \in SourceIndex : <<r, k>> \in files => k = at[r] /\ pc[r] \in HasFile \cup {"gone"}

RunInv(r) == Position(r) /\ Progress(r) /\ Truth(r) /\ Alerted(r) /\ Live(r) /\ OwnFile(r)

IInv == TypeOK /\ \A r \in Run : RunInv(r)

\* The initial state satisfies the invariant.
LEMMA InitIInv == Init => IInv
<1> SUFFICES ASSUME Init PROVE IInv
  OBVIOUS
<1> USE SourcesAssumption, FoundAssumption DEF Init, SourceIndex, Count, Active, InProcess, Ended
<1>1. TypeOK
  <2>1. <<>> \in Seq(Result) /\ <<>> \in Seq(SourceIndex \X Count)
    OBVIOUS
  <2>2. /\ pc \in [Run -> {"idle"} \cup Active \cup Ended]
        /\ sources \in [Run -> 0..MaxSources]
        /\ at \in [Run -> 1..(MaxSources + 1)]
        /\ found \in [Run -> Count]
        /\ saved \in [Run -> [SourceIndex -> Count]]
        /\ recorded \in [Run -> Nat]
        /\ lastLive \in [Run -> 0..MaxSources]
    OBVIOUS
  <2>3. files \subseteq Run \X SourceIndex /\ failed \in [Run -> BOOLEAN]
        /\ cancelled \in BOOLEAN /\ storeOpen \in BOOLEAN
    OBVIOUS
  <2>4. results \in [Run -> Seq(Result)]
    BY <2>1
  <2>5. alerts \in [Run -> Seq(SourceIndex \X Count)]
    BY <2>1
  <2>6. QED
    BY <2>2, <2>3, <2>4, <2>5 DEF TypeOK
<1>2. ASSUME NEW r \in Run PROVE RunInv(r)
  <2>1. Position(r) /\ Truth(r) /\ Alerted(r) /\ OwnFile(r)
    BY DEF Position, Truth, Alerted, OwnFile, HasFile
  <2>2. Progress(r)
    BY DEF Progress, BeforeSave
  <2>3. Live(r)
    BY DEF Live
  <2>4. QED
    BY <2>1, <2>2, <2>3 DEF RunInv
<1>3. QED
  BY <1>1, <1>2 DEF IInv

\* A step of Run r leaves what is true of another Run alone.
Frame(r) ==
  \A d \in Run \ {r} :
    /\ pc'[d] = pc[d] /\ sources'[d] = sources[d] /\ at'[d] = at[d]
    /\ found'[d] = found[d] /\ failed'[d] = failed[d] /\ saved'[d] = saved[d]
    /\ results'[d] = results[d] /\ alerts'[d] = alerts[d]
    /\ lastLive'[d] = lastLive[d] /\ (cancelled' = cancelled)
    /\ \A k \in SourceIndex : <<d, k>> \in files' <=> <<d, k>> \in files

LEMMA FrameInv ==
  ASSUME NEW r \in Run, IInv, Frame(r), RunInv(r)', TypeOK'
  PROVE  IInv'
<1> SUFFICES ASSUME NEW d \in Run, d # r PROVE RunInv(d)'
  BY DEF IInv
<1>1. /\ pc'[d] = pc[d] /\ sources'[d] = sources[d] /\ at'[d] = at[d]
      /\ found'[d] = found[d] /\ failed'[d] = failed[d] /\ saved'[d] = saved[d]
      /\ results'[d] = results[d] /\ alerts'[d] = alerts[d]
      /\ lastLive'[d] = lastLive[d] /\ (cancelled' = cancelled)
  BY DEF Frame
<1>2. \A k \in SourceIndex : <<d, k>> \in files' <=> <<d, k>> \in files
  BY DEF Frame
<1>3. RunInv(d) /\ (pc[d] \in HasFile => at[d] \in SourceIndex)
  <2>1. RunInv(d) /\ sources[d] \in 0..MaxSources /\ at[d] \in 1..(MaxSources + 1)
    BY DEF IInv, TypeOK
  <2>2. pc[d] \in HasFile => at[d] \in 1..sources[d]
    BY <2>1 DEF RunInv, Position, HasFile, Active, InProcess
  <2>3. QED
    BY <2>1, <2>2, SourcesAssumption DEF SourceIndex
<1>4. Position(d)' /\ Progress(d)' /\ Live(d)'
  <2>1. Position(d)'
    BY <1>1, <1>3 DEF RunInv, Position
  <2>2. Progress(d)'
    BY <1>1, <1>3 DEF RunInv, Progress
  <2>3. Live(d)'
    BY <1>1, <1>3 DEF RunInv, Live
  <2>4. QED
    BY <2>1, <2>2, <2>3
<1>5. Truth(d)' /\ Alerted(d)'
  <2>1. Truth(d) /\ Alerted(d)
    BY <1>3 DEF RunInv
  <2>2. Truth(d)'
    BY <1>1, <2>1, Zenon DEF Truth
  <2>3. Alerted(d)'
    BY <1>1, <2>1, Zenon DEF Alerted
  <2>4. QED
    BY <2>2, <2>3
<1>6. OwnFile(d)'
  BY <1>1, <1>2, <1>3 DEF RunInv, OwnFile
<1>7. QED
  BY <1>4, <1>5, <1>6 DEF RunInv

-----------------------------------------------------------------------------
(* The steps within a source.  They leave the earlier sources alone, so that *)
(* Position, Truth and Alerted are not at stake.                             *)

\* What the type invariant says of one Run, and where its source is.
LEMMA Types ==
  ASSUME NEW r \in Run, IInv
  PROVE  /\ sources[r] \in 0..MaxSources /\ at[r] \in 1..(MaxSources + 1)
         /\ found[r] \in Count /\ failed[r] \in BOOLEAN
         /\ saved[r] \in [SourceIndex -> Count]
         /\ results[r] \in Seq(Result) /\ alerts[r] \in Seq(SourceIndex \X Count)
         /\ recorded[r] \in Nat /\ lastLive[r] \in 0..MaxSources
         /\ RunInv(r)
         /\ pc[r] \in Active => at[r] \in SourceIndex
<1>1. /\ sources[r] \in 0..MaxSources /\ at[r] \in 1..(MaxSources + 1)
      /\ found[r] \in Count /\ failed[r] \in BOOLEAN
      /\ saved[r] \in [SourceIndex -> Count]
      /\ results[r] \in Seq(Result) /\ alerts[r] \in Seq(SourceIndex \X Count)
      /\ recorded[r] \in Nat /\ lastLive[r] \in 0..MaxSources
      /\ RunInv(r)
  BY DEF IInv, TypeOK
<1>2. pc[r] \in Active => at[r] \in 1..sources[r]
  BY <1>1 DEF RunInv, Position
<1>3. QED
  BY <1>1, <1>2, SourcesAssumption DEF SourceIndex

\* A step of Run r that stays with its source.
Within(r) ==
  /\ pc[r] \in Active /\ pc'[r] \in Active
  /\ at' = at /\ sources' = sources /\ results' = results /\ alerts' = alerts
  /\ lastLive' = lastLive /\ (cancelled' = cancelled)
  /\ \A k \in SourceIndex : k # at[r] => saved'[r][k] = saved[r][k]
  /\ saved'[r][at[r]] # saved[r][at[r]] => at[r] <= lastLive[r]
  /\ pc'[r] \in {"checking", "save"} => at[r] <= lastLive[r]

LEMMA WithinInv ==
  ASSUME NEW r \in Run, IInv, TypeOK', Frame(r), Within(r), Progress(r)', OwnFile(r)'
  PROVE  IInv'
<1>1. at[r] \in SourceIndex /\ RunInv(r) /\ lastLive[r] \in Nat /\ at[r] \in Nat
  BY Types, SourcesAssumption DEF Within, SourceIndex
<1>2. Position(r)'
  BY <1>1 DEF RunInv, Position, Within, Active, InProcess
<1>3. Truth(r)'
  <2>1. ASSUME NEW k \in 1..(at[r] - 1) PROVE k \in SourceIndex /\ k # at[r]
    BY <1>1, SourcesAssumption DEF SourceIndex
  <2>2. QED
    BY <1>1, <2>1 DEF RunInv, Truth, Within
<1>4. Alerted(r)'
  <2>1. ASSUME NEW k \in 1..(at[r] - 1) PROVE k \in SourceIndex /\ k # at[r]
    BY <1>1, SourcesAssumption DEF SourceIndex
  <2>2. QED
    BY <1>1, <2>1 DEF RunInv, Alerted, Within
<1>5. Live(r)'
  <2>1. ASSUME NEW k \in SourceIndex, k > lastLive[r] PROVE saved'[r][k] = 0
    BY <1>1, <2>1, SourcesAssumption DEF RunInv, Live, Within, SourceIndex
  <2>2. QED
    BY <1>1, <2>1 DEF RunInv, Live, Within, Active, InProcess, Ended
<1>6. QED
  BY <1>2, <1>3, <1>4, <1>5, FrameInv DEF RunInv

\* Each of them satisfies the hypotheses of WithinInv.
LEMMA LoadInv == ASSUME NEW r \in Run, IInv, Load(r) PROVE IInv'
<1> USE DEF Load, Goto, FailNow, Active, InProcess
<1>1. RunInv(r) /\ pc[r] = "load" /\ TypeOK
  BY Types DEF IInv
<1>2. TypeOK'
  BY <1>1 DEF TypeOK
<1>3. pc'[r] \in {"temp", "report"} /\ (pc'[r] = "report" => failed'[r] = TRUE)
      /\ (pc'[r] = "temp" => failed'[r] = failed[r])
  BY <1>1 DEF TypeOK
<1>4. Frame(r)
  BY <1>1 DEF TypeOK, Frame
<1>5. Within(r)
  BY <1>1, <1>3 DEF Within
<1>6. Progress(r)'
  BY <1>1, <1>3 DEF RunInv, Progress, BeforeSave
<1>7. OwnFile(r)'
  BY <1>1, <1>3 DEF RunInv, OwnFile, HasFile
<1>8. QED
  BY <1>2, <1>4, <1>5, <1>6, <1>7, WithinInv

LEMMA CreateTempInv == ASSUME NEW r \in Run, IInv, CreateTemp(r) PROVE IInv'
<1> USE DEF CreateTemp, Goto, FailNow, Active, InProcess
<1>1. RunInv(r) /\ pc[r] = "temp" /\ TypeOK /\ at[r] \in SourceIndex
  BY Types DEF IInv
<1>2. TypeOK'
  <2>1. files' \subseteq Run \X SourceIndex
    BY <1>1 DEF TypeOK
  <2>2. QED
    BY <1>1, <2>1 DEF TypeOK
<1>3. pc'[r] \in {"write", "report"} /\ (pc'[r] = "report" => failed'[r] = TRUE /\ files' = files)
      /\ (pc'[r] = "write" => failed'[r] = failed[r] /\ files' = files \cup {<<r, at[r]>>})
  BY <1>1 DEF TypeOK
<1>4. Frame(r)
  BY <1>1 DEF TypeOK, Frame
<1>5. Within(r)
  BY <1>1, <1>3 DEF Within
<1>6. Progress(r)'
  BY <1>1, <1>3 DEF RunInv, Progress, BeforeSave
<1>7. OwnFile(r)'
  BY <1>1, <1>3 DEF RunInv, OwnFile, HasFile
<1>8. QED
  BY <1>2, <1>4, <1>5, <1>6, <1>7, WithinInv

LEMMA WriteTempInv == ASSUME NEW r \in Run, IInv, WriteTemp(r) PROVE IInv'
<1> USE DEF WriteTemp, Goto, FailNow, Active, InProcess
<1>1. RunInv(r) /\ pc[r] = "write" /\ TypeOK /\ at[r] \in SourceIndex
  BY Types DEF IInv
<1>2. TypeOK'
  BY <1>1 DEF TypeOK
<1>3. pc'[r] \in {"check", "report"}
      /\ (pc'[r] = "report" => failed'[r] = TRUE /\ files' = files \ {<<r, at[r]>>})
      /\ (pc'[r] = "check" => failed'[r] = failed[r] /\ files' = files)
  BY <1>1 DEF TypeOK
<1>4. Frame(r)
  BY <1>1 DEF TypeOK, Frame
<1>5. Within(r)
  BY <1>1, <1>3 DEF Within
<1>6. Progress(r)'
  BY <1>1, <1>3 DEF RunInv, Progress, BeforeSave
<1>7. OwnFile(r)'
  BY <1>1, <1>3 DEF RunInv, OwnFile, HasFile
<1>8. QED
  BY <1>2, <1>4, <1>5, <1>6, <1>7, WithinInv

LEMMA CheckBeginInv == ASSUME NEW r \in Run, IInv, CheckBegin(r) PROVE IInv'
<1> USE DEF CheckBegin, Goto, Active, InProcess
<1>1. RunInv(r) /\ pc[r] = "check" /\ TypeOK /\ at[r] \in SourceIndex /\ lastLive[r] \in Nat
  BY Types DEF IInv
<1>2. TypeOK'
  BY <1>1 DEF TypeOK
<1>3. \/ pc'[r] = "cleanup" /\ failed'[r] = TRUE
      \/ pc'[r] = "checking" /\ failed'[r] = failed[r] /\ cancelled = FALSE
  BY <1>1 DEF TypeOK
<1>4. Frame(r)
  BY <1>1 DEF TypeOK, Frame
<1>5. pc'[r] = "checking" => at[r] <= lastLive[r]
  BY <1>1, <1>3, SourcesAssumption DEF RunInv, Live, Ended, SourceIndex
<1>6. Within(r)
  BY <1>1, <1>3, <1>5 DEF Within
<1>7. Progress(r)'
  BY <1>1, <1>3 DEF RunInv, Progress, BeforeSave
<1>8. OwnFile(r)'
  BY <1>1, <1>3 DEF RunInv, OwnFile, HasFile
<1>9. QED
  BY <1>2, <1>4, <1>6, <1>7, <1>8, WithinInv

LEMMA CheckReturnInv == ASSUME NEW r \in Run, IInv, CheckReturn(r) PROVE IInv'
<1> USE DEF CheckReturn, Goto, Active, InProcess
<1>1. RunInv(r) /\ pc[r] = "checking" /\ TypeOK /\ at[r] \in SourceIndex
  BY Types DEF IInv
<1>2. TypeOK'
  BY <1>1, ZenonT(40) DEF TypeOK
<1>3. \/ pc'[r] = "cleanup" /\ failed'[r] = TRUE
      \/ pc'[r] = "save" /\ failed'[r] = failed[r] /\ found'[r] \in Count
  BY <1>1 DEF TypeOK
<1>4. Frame(r)
  BY <1>1 DEF TypeOK, Frame
<1>5. at[r] <= lastLive[r]
  BY <1>1 DEF RunInv, Live
<1>6. Within(r)
  BY <1>1, <1>3, <1>5 DEF Within
<1>7. Progress(r)'
  BY <1>1, <1>3 DEF RunInv, Progress, BeforeSave, Count
<1>8. OwnFile(r)'
  BY <1>1, <1>3 DEF RunInv, OwnFile, HasFile
<1>9. QED
  BY <1>2, <1>4, <1>6, <1>7, <1>8, WithinInv

\* SaveViolations: saved[r][at[r]] grows towards found[r].
LEMMA SaveSomeInv == ASSUME NEW r \in Run, IInv, SaveSome(r) PROVE IInv'
<1> USE DEF SaveSome, SetSaved, OnDisk, Active, InProcess
<1>1. RunInv(r) /\ pc[r] = "save" /\ TypeOK /\ at[r] \in SourceIndex
      /\ found[r] \in Count /\ saved[r] \in [SourceIndex -> Count]
  BY Types DEF IInv
<1>2. PICK n \in OnDisk(r)..found[r] : SetSaved(r, n)
  OBVIOUS
<1>3. n \in Count
  BY <1>1, <1>2, FoundAssumption DEF Count
<1>4. TypeOK'
  <2>1. saved' \in [Run -> [SourceIndex -> Count]]
    BY <1>1, <1>2, <1>3 DEF TypeOK
  <2>2. QED
    BY <1>1, <2>1 DEF TypeOK
<1>5. saved'[r][at[r]] = n /\ \A k \in SourceIndex : k # at[r] => saved'[r][k] = saved[r][k]
  BY <1>1, <1>2 DEF TypeOK
<1>6. Frame(r)
  BY <1>1, <1>2 DEF TypeOK, Frame
<1>7. at[r] <= lastLive[r]
  BY <1>1 DEF RunInv, Live
<1>8. Within(r)
  BY <1>1, <1>5, <1>7 DEF Within
<1>9. Progress(r)'
  <2>1. n <= found[r]
    BY <1>1, <1>2, FoundAssumption DEF Count
  <2>2. \A k \in SourceIndex : k > at[r] => saved'[r][k] = 0
    BY <1>1, <1>5, SourcesAssumption DEF RunInv, Progress, SourceIndex
  <2>3. QED
    BY <1>1, <1>5, <2>1, <2>2 DEF RunInv, Progress, BeforeSave
<1>10. OwnFile(r)'
  BY <1>1 DEF RunInv, OwnFile, HasFile
<1>11. QED
  BY <1>4, <1>6, <1>8, <1>9, <1>10, WithinInv

LEMMA SaveOkInv == ASSUME NEW r \in Run, IInv, SaveOk(r) PROVE IInv'
<1> USE DEF SaveOk, SetSaved, Goto, Active, InProcess
<1>1. RunInv(r) /\ pc[r] = "save" /\ TypeOK /\ at[r] \in SourceIndex
      /\ found[r] \in Count /\ saved[r] \in [SourceIndex -> Count]
  BY Types DEF IInv
<1>2. TypeOK'
  <2>1. saved' \in [Run -> [SourceIndex -> Count]]
    BY <1>1 DEF TypeOK
  <2>2. pc' \in [Run -> {"idle"} \cup Active \cup Ended]
    BY <1>1 DEF TypeOK
  <2>3. QED
    BY <1>1, <2>1, <2>2 DEF TypeOK
<1>3. pc'[r] = "cleanup" /\ saved'[r][at[r]] = found[r]
      /\ \A k \in SourceIndex : k # at[r] => saved'[r][k] = saved[r][k]
  BY <1>1 DEF TypeOK
<1>4. Frame(r)
  BY <1>1 DEF TypeOK, Frame
<1>5. at[r] <= lastLive[r]
  BY <1>1 DEF RunInv, Live
<1>6. Within(r)
  BY <1>1, <1>3, <1>5 DEF Within
<1>7. Progress(r)'
  <2>1. \A k \in SourceIndex : k > at[r] => saved'[r][k] = 0
    BY <1>1, <1>3, SourcesAssumption DEF RunInv, Progress, SourceIndex
  <2>2. QED
    BY <1>1, <1>3, <2>1 DEF RunInv, Progress, BeforeSave
<1>8. OwnFile(r)'
  BY <1>1, <1>3 DEF RunInv, OwnFile, HasFile
<1>9. QED
  BY <1>2, <1>4, <1>6, <1>7, <1>8, WithinInv

LEMMA SaveFailsInv == ASSUME NEW r \in Run, IInv, SaveFails(r) PROVE IInv'
<1> USE DEF SaveFails, Goto, Active, InProcess
<1>1. RunInv(r) /\ pc[r] = "save" /\ TypeOK /\ at[r] \in SourceIndex
  BY Types DEF IInv
<1>2. TypeOK'
  BY <1>1 DEF TypeOK
<1>3. pc'[r] = "cleanup" /\ failed'[r] = TRUE
  BY <1>1 DEF TypeOK
<1>4. Frame(r)
  BY <1>1 DEF TypeOK, Frame
<1>5. Within(r)
  BY <1>1, <1>3 DEF Within
<1>6. Progress(r)'
  BY <1>1, <1>3 DEF RunInv, Progress, BeforeSave
<1>7. OwnFile(r)'
  BY <1>1, <1>3 DEF RunInv, OwnFile, HasFile
<1>8. QED
  BY <1>2, <1>4, <1>5, <1>6, <1>7, WithinInv

LEMMA CleanupInv == ASSUME NEW r \in Run, IInv, Cleanup(r) PROVE IInv'
<1> USE DEF Cleanup, Goto, Active, InProcess
<1>1. RunInv(r) /\ pc[r] = "cleanup" /\ TypeOK /\ at[r] \in SourceIndex
  BY Types DEF IInv
<1>2. TypeOK'
  BY <1>1 DEF TypeOK
<1>3. pc'[r] = "report"
  BY <1>1 DEF TypeOK
<1>4. Frame(r)
  BY <1>1 DEF TypeOK, Frame
<1>5. Within(r)
  BY <1>1, <1>3 DEF Within
<1>6. Progress(r)'
  BY <1>1, <1>3 DEF RunInv, Progress, BeforeSave
<1>7. OwnFile(r)'
  BY <1>1, <1>3 DEF RunInv, OwnFile, HasFile
<1>8. QED
  BY <1>2, <1>4, <1>5, <1>6, <1>7, WithinInv

-----------------------------------------------------------------------------
(* Moving on.  The source's Result becomes one of those Truth speaks of.    *)

LEMMA NextSourceInv ==
  ASSUME NEW r \in Run, NEW n \in Count, IInv, NextSource(r, n),
         pc[r] \in {"report", "notify"},
         UNCHANGED <<sources, files, saved, cancelled, lastLive, storeOpen>>,
         recorded' \in [Run -> Nat],
         n = IF failed[r] = TRUE THEN 0 ELSE saved[r][at[r]],
         \/ alerts' = alerts
         \/ /\ n > 0 /\ failed[r] = FALSE
            /\ alerts' = [alerts EXCEPT ![r] = Append(@, <<at[r], n>>)]
  PROVE  IInv'
<1> DEFINE res == [source |-> at[r], violations |-> n, err |-> failed[r]]
<1>1. RunInv(r) /\ TypeOK /\ at[r] \in SourceIndex /\ failed[r] \in BOOLEAN
      /\ sources[r] \in 0..MaxSources
      /\ results[r] \in Seq(Result) /\ alerts[r] \in Seq(SourceIndex \X Count)
  BY Types DEF IInv, Active
<1>2. at[r] \in 1..sources[r] /\ Len(results[r]) = at[r] - 1
  BY <1>1 DEF RunInv, Position, Active
<1>3. res \in Result
  BY <1>1 DEF Result
<1>4. /\ results'[r] = Append(results[r], res)
      /\ at'[r] = at[r] + 1
      /\ pc'[r] = IF at[r] = sources[r] THEN "done" ELSE "load"
      /\ failed'[r] = FALSE
  BY <1>1 DEF NextSource, Goto, TypeOK
<1>5. alerts' \in [Run -> Seq(SourceIndex \X Count)]
  <2>1. Append(alerts[r], <<at[r], n>>) \in Seq(SourceIndex \X Count)
    BY <1>1
  <2>2. QED
    BY <1>1, <2>1 DEF TypeOK
<1>6. TypeOK'
  <2>1. results' \in [Run -> Seq(Result)]
    <3>1. Append(results[r], res) \in Seq(Result)
      BY <1>1, <1>3
    <3>2. QED
      BY <1>1, <3>1 DEF NextSource, TypeOK
  <2>2. at' \in [Run -> 1..(MaxSources + 1)]
    BY <1>1, <1>2, SourcesAssumption, SMTT(30) DEF NextSource, TypeOK
  <2>3. pc' \in [Run -> {"idle"} \cup Active \cup Ended]
    BY <1>1 DEF NextSource, Goto, TypeOK, Active, InProcess, Ended
  <2>4. found' \in [Run -> Count] /\ failed' \in [Run -> BOOLEAN]
    BY <1>1, FoundAssumption, SMTT(30) DEF NextSource, TypeOK, Count
  <2>5. QED
    BY <1>1, <1>5, <2>1, <2>2, <2>3, <2>4 DEF TypeOK
<1>7. Frame(r)
  <2>1. ASSUME NEW d \in Run \ {r}
        PROVE  /\ pc'[d] = pc[d] /\ at'[d] = at[d] /\ found'[d] = found[d]
               /\ failed'[d] = failed[d] /\ results'[d] = results[d]
               /\ alerts'[d] = alerts[d]
    BY <1>1 DEF NextSource, Goto, TypeOK
  <2>2. QED
    BY <2>1 DEF Frame
<1>8. Len(results'[r]) = at[r] /\ results'[r][at[r]] = res
      /\ \A k \in 1..(at[r] - 1) : results'[r][k] = results[r][k]
  BY <1>1, <1>2, <1>3, <1>4, SMTT(30)
<1>9. Position(r)'
  <2>1. at[r] # sources[r] => at[r] + 1 \in 1..sources[r]
    BY <1>1, <1>2
  <2>2. QED
    BY <1>1, <1>2, <1>4, <1>8, <2>1 DEF Position, Active, InProcess
<1>10. Progress(r)'
  <2>1. \A k \in SourceIndex : k > at[r] => saved'[r][k] = 0
    BY <1>1 DEF RunInv, Progress
  <2>2. \A k \in SourceIndex : k > at'[r] => k > at[r]
    BY <1>1, <1>4, SourcesAssumption DEF SourceIndex
  <2>3. at'[r] \in SourceIndex => saved'[r][at'[r]] = 0
    BY <1>1, <1>4, <2>1, SourcesAssumption DEF SourceIndex
  <2>4. QED
    BY <1>4, <2>1, <2>2, <2>3 DEF Progress, BeforeSave
<1>11. Truth(r)'
  <2>0. at'[r] - 1 = at[r] /\ saved' = saved
    BY <1>1, <1>4, SourcesAssumption DEF SourceIndex
  <2>1. SUFFICES ASSUME NEW k \in 1..at[r]
                 PROVE  /\ results'[r][k].source = k
                        /\ results'[r][k].violations = IF results'[r][k].err THEN 0 ELSE saved[r][k]
    BY <2>0 DEF Truth
  <2>2. CASE k = at[r]
    BY <1>1, <1>8, <2>2
  <2>3. CASE k # at[r]
    <3>1. k \in 1..(at[r] - 1)
      BY <1>1, <2>3, SourcesAssumption DEF SourceIndex
    <3>2. QED
      BY <1>1, <1>8, <3>1 DEF RunInv, Truth
  <2>4. QED
    BY <2>2, <2>3
<1>12. Alerted(r)'
  <2>1. CASE alerts' = alerts
    <3>1. \A k \in 1..(at[r] - 1) : k \in 1..(at'[r] - 1)
      BY <1>1, <1>4, SourcesAssumption DEF SourceIndex
    <3>2. QED
      BY <1>1, <1>8, <2>1, <3>1 DEF RunInv, Alerted
  <2>2. CASE n > 0 /\ failed[r] = FALSE /\ alerts' = [alerts EXCEPT ![r] = Append(@, <<at[r], n>>)]
    <3> DEFINE m == Len(alerts[r])
    <3>1. m \in Nat /\ Len(alerts'[r]) = m + 1 /\ alerts'[r][m + 1] = <<at[r], n>>
          /\ \A j \in 1..m : alerts'[r][j] = alerts[r][j]
      BY <1>1, <2>2 DEF TypeOK
    <3>2. n = saved[r][at[r]]
      BY <2>2
    <3>3. at[r] \in Nat /\ at'[r] = at[r] + 1 /\ at[r] >= 1
      BY <1>1, <1>4, SourcesAssumption DEF SourceIndex
    <3>4. ASSUME NEW j \in 1..m
          PROVE  /\ alerts[r][j][1] \in 1..(at[r] - 1)
                 /\ alerts[r][j][2] > 0
                 /\ alerts[r][j][2] = saved[r][alerts[r][j][1]]
                 /\ results'[r][alerts[r][j][1]].err = FALSE
                 /\ \A h \in 1..m : h < j => alerts[r][h][1] < alerts[r][j][1]
      BY <1>1, <1>8 DEF RunInv, Alerted
    <3>5. results'[r][at[r]].err = FALSE
      BY <1>8, <2>2
    <3>6. ASSUME NEW j \in 1..(m + 1)
          PROVE  /\ alerts'[r][j][1] \in 1..(at'[r] - 1)
                 /\ alerts'[r][j][2] > 0
                 /\ alerts'[r][j][2] = saved[r][alerts'[r][j][1]]
                 /\ results'[r][alerts'[r][j][1]].err = FALSE
                 /\ \A h \in 1..(m + 1) : h < j => alerts'[r][h][1] < alerts'[r][j][1]
      <4>1. CASE j = m + 1
        <5>1. alerts'[r][j][1] = at[r] /\ alerts'[r][j][2] = n
          BY <3>1, <4>1
        <5>2. \A h \in 1..(m + 1) : h < j => alerts'[r][h][1] < at[r]
          <6>1. SUFFICES ASSUME NEW h \in 1..(m + 1), h < j PROVE alerts'[r][h][1] < at[r]
            OBVIOUS
          <6>2. h \in 1..m
            BY <3>1, <4>1, <6>1
          <6>3. alerts[r][h][1] \in 1..(at[r] - 1)
            BY <3>4, <6>2
          <6>4. alerts'[r][h] = alerts[r][h]
            BY <3>1, <6>2
          <6>5. alerts[r][h][1] < at[r]
            BY <3>3, <6>3
          <6>6. QED
            BY <6>4, <6>5
        <5>3. at[r] \in 1..(at'[r] - 1)
          BY <3>3
        <5>4. n > 0 /\ n = saved[r][at[r]]
          BY <2>2, <3>2
        <5> HIDE DEF m
        <5>5. alerts'[r][j][2] > 0 /\ alerts'[r][j][2] = saved[r][alerts'[r][j][1]]
          BY <5>1, <5>4
        <5>6. QED
          BY <3>5, <5>1, <5>2, <5>3, <5>5
      <4>2. CASE j # m + 1
        <5>1. j \in 1..m /\ \A h \in 1..(m + 1) : h < j => h \in 1..m
          BY <3>1, <4>2
        <5>2. alerts'[r][j] = alerts[r][j] /\ \A h \in 1..m : alerts'[r][h] = alerts[r][h]
          BY <3>1, <5>1
        <5>3. alerts[r][j][1] \in 1..(at'[r] - 1)
          <6>1. alerts[r][j][1] \in 1..(at[r] - 1)
            BY <3>4, <5>1
          <6>2. at[r] - 1 \in Int /\ at'[r] - 1 = at[r]
            BY <3>3
          <6>3. QED
            BY <3>3, <6>1, <6>2
        <5>4. ASSUME NEW h \in 1..(m + 1), h < j
              PROVE  alerts'[r][h][1] < alerts'[r][j][1]
          <6>1. h \in 1..m
            BY <5>1, <5>4
          <6>2. alerts[r][h][1] < alerts[r][j][1]
            BY <3>4, <5>1, <5>4, <6>1
          <6>3. QED
            BY <5>2, <6>1, <6>2
        <5>5. QED
          BY <3>4, <5>1, <5>2, <5>3, <5>4
      <4>3. QED
        BY <4>1, <4>2
    <3>7. QED
      BY <3>1, <3>6 DEF Alerted
  <2>3. QED
    BY <2>1, <2>2
<1>13. Live(r)'
  BY <1>1, <1>4 DEF RunInv, Live, Ended
<1>14. OwnFile(r)'
  BY <1>1, <1>4 DEF RunInv, OwnFile, HasFile
<1>15. QED
  BY <1>6, <1>7, <1>9, <1>10, <1>11, <1>12, <1>13, <1>14, FrameInv DEF RunInv

LEMMA ReportErrorInv == ASSUME NEW r \in Run, IInv, ReportError(r) PROVE IInv'
<1>1. RunInv(r) /\ pc[r] = "report" /\ failed[r] \in BOOLEAN /\ recorded \in [Run -> Nat]
  BY Types DEF IInv, TypeOK, ReportError
<1>2. failed[r] = TRUE
  BY <1>1 DEF ReportError
<1>3. 0 \in Count
  BY FoundAssumption DEF Count
<1>4. QED
  BY <1>1, <1>2, <1>3, NextSourceInv DEF ReportError

LEMMA NotifyInv == ASSUME NEW r \in Run, IInv, Notify(r) PROVE IInv'
<1>1. RunInv(r) /\ pc[r] = "notify" /\ found[r] \in Count /\ recorded \in [Run -> Nat]
  BY Types DEF IInv, TypeOK, Notify
<1>2. failed[r] = FALSE /\ found[r] = saved[r][at[r]] /\ found[r] > 0
  BY <1>1 DEF RunInv, Progress
<1>3. \/ alerts' = alerts
      \/ alerts' = [alerts EXCEPT ![r] = Append(@, <<at[r], found[r]>>)]
  BY DEF Notify
<1>4. /\ NextSource(r, found[r])
      /\ UNCHANGED <<sources, files, saved, recorded, cancelled, lastLive, storeOpen>>
  BY DEF Notify
<1>5. QED
  BY <1>1, <1>2, <1>3, <1>4, NextSourceInv

LEMMA ReportOkInv == ASSUME NEW r \in Run, IInv, ReportOk(r) PROVE IInv'
<1>1. RunInv(r) /\ pc[r] = "report" /\ TypeOK /\ at[r] \in SourceIndex
      /\ found[r] \in Count /\ failed[r] \in BOOLEAN
  BY Types DEF IInv, ReportOk, Active
<1>2. failed[r] = FALSE /\ found[r] = saved[r][at[r]]
  BY <1>1 DEF ReportOk, RunInv, Progress
<1>3. recorded' \in [Run -> Nat]
  BY <1>1, FoundAssumption DEF ReportOk, TypeOK, Count
<1>4. CASE found[r] > 0
  <2>1. /\ pc' = [pc EXCEPT ![r] = "notify"]
        /\ UNCHANGED <<at, found, failed, results>>
        /\ UNCHANGED <<sources, files, saved, alerts, cancelled, lastLive, storeOpen>>
    BY <1>4 DEF ReportOk, Goto
  <2>2. pc'[r] = "notify" /\ pc' \in [Run -> {"idle"} \cup Active \cup Ended]
    BY <1>1, <2>1 DEF TypeOK, Active
  <2>3. TypeOK'
    BY <1>1, <1>3, <2>1, <2>2 DEF TypeOK
  <2>4. Frame(r)
    BY <1>1, <2>1 DEF TypeOK, Frame
  <2>5. Within(r)
    BY <1>1, <2>1, <2>2 DEF Within, Active
  <2>6. Progress(r)'
    BY <1>1, <1>2, <1>4, <2>1, <2>2 DEF RunInv, Progress, BeforeSave
  <2>7. OwnFile(r)'
    BY <1>1, <2>1, <2>2 DEF RunInv, OwnFile, HasFile
  <2>8. QED
    BY <2>3, <2>4, <2>5, <2>6, <2>7, WithinInv
<1>5. CASE ~(found[r] > 0)
  <2>1. found[r] = 0
    BY <1>1, <1>5, FoundAssumption DEF Count
  <2>2. /\ NextSource(r, 0)
        /\ UNCHANGED <<sources, files, saved, alerts, cancelled, lastLive, storeOpen>>
    BY <1>5 DEF ReportOk
  <2>3. 0 \in Count
    BY FoundAssumption DEF Count
  <2>4. QED
    BY <1>1, <1>2, <1>3, <2>1, <2>2, <2>3, NextSourceInv
<1>6. QED
  BY <1>4, <1>5

-----------------------------------------------------------------------------
(* Entering a Run, and the surroundings.                                    *)

LEMMA StartInv == ASSUME NEW r \in Run, NEW n \in 0..MaxSources, IInv, Start(r, n) PROVE IInv'
<1> USE SourcesAssumption DEF Start, Goto
<1>1. RunInv(r) /\ pc[r] = "idle" /\ TypeOK /\ at[r] = 1 /\ Len(results[r]) = 0
  BY Types DEF IInv, RunInv, Position
<1>2. TypeOK'
  BY <1>1 DEF TypeOK, Active, InProcess, Ended
<1>3. pc'[r] = (IF n = 0 THEN "done" ELSE "load") /\ sources'[r] = n
  BY <1>1 DEF TypeOK
<1>4. Frame(r)
  BY <1>1 DEF TypeOK, Frame
<1>5. Position(r)'
  BY <1>1, <1>3 DEF Position, Active, InProcess
<1>6. Progress(r)'
  BY <1>1, <1>3 DEF RunInv, Progress, BeforeSave
<1>7. Truth(r)' /\ Alerted(r)'
  BY <1>1 DEF RunInv, Truth, Alerted
<1>8. Live(r)'
  BY <1>1, <1>3 DEF RunInv, Live, Ended
<1>9. OwnFile(r)'
  BY <1>1, <1>3 DEF RunInv, OwnFile, HasFile
<1>10. QED
  BY <1>2, <1>4, <1>5, <1>6, <1>7, <1>8, <1>9, FrameInv DEF RunInv

LEMMA CancelInv == ASSUME IInv, Cancel PROVE IInv'
<1> USE SourcesAssumption DEF Cancel
<1>1. TypeOK /\ \A r \in Run : RunInv(r)
  BY DEF IInv
<1>2. ASSUME NEW r \in Run
      PROVE  /\ lastLive'[r] = CASE pc[r] \in Ended      -> lastLive[r]
                                [] pc[r] \in CheckBegun -> at[r]
                                [] OTHER                -> at[r] - 1
             /\ lastLive'[r] \in 0..MaxSources
  <2>1. lastLive'[r] = CASE pc[r] \in Ended      -> lastLive[r]
                         [] pc[r] \in CheckBegun -> at[r]
                         [] OTHER                -> at[r] - 1
    OBVIOUS
  <2>2. /\ lastLive[r] \in 0..MaxSources
        /\ at[r] \in 1..(MaxSources + 1)
        /\ pc[r] \in CheckBegun => at[r] \in 1..MaxSources
    BY Types DEF CheckBegun, Active, InProcess, SourceIndex
  <2>3. at[r] - 1 \in 0..MaxSources
    BY <2>2
  <2>4. QED
    BY <2>1, <2>2, <2>3
<1>3. TypeOK'
  <2>1. lastLive' \in [Run -> 0..MaxSources]
    BY <1>2
  <2>2. QED
    BY <1>1, <2>1 DEF TypeOK
<1>4. ASSUME NEW r \in Run PROVE RunInv(r)'
  <2>1. RunInv(r) /\ at[r] \in 1..(MaxSources + 1) /\ lastLive[r] \in 0..MaxSources
        /\ (pc[r] \in Active => at[r] \in SourceIndex)
    BY Types
  <2>2. Position(r)' /\ Progress(r)' /\ Truth(r)' /\ Alerted(r)' /\ OwnFile(r)'
    BY <2>1 DEF RunInv, Position, Progress, Truth, Alerted, OwnFile
  <2>3. ASSUME NEW k \in SourceIndex, k > lastLive'[r] PROVE saved'[r][k] = 0
    <3>1. k \in Nat /\ at[r] \in Nat
      BY <2>1 DEF SourceIndex
    <3>2. CASE pc[r] \in Ended
      <4>1. lastLive'[r] = lastLive[r]
        BY <1>2, <3>2 DEF CheckBegun, Ended
      <4>2. Live(r) /\ k > lastLive[r]
        BY <2>1, <2>3, <4>1 DEF RunInv
      <4>3. QED
        BY <2>3, <4>2 DEF Live
    <3>3. CASE pc[r] \in CheckBegun
      <4>1. lastLive'[r] = at[r]
        BY <1>2, <3>3 DEF CheckBegun, Ended
      <4>2. QED
        BY <2>1, <2>3, <4>1 DEF RunInv, Progress
    <3>4. CASE pc[r] \notin Ended /\ pc[r] \notin CheckBegun
      <4>1. lastLive'[r] = at[r] - 1
        BY <1>2, <3>4
      <4>2. pc[r] \in BeforeSave
        BY <1>1, <3>4 DEF TypeOK, BeforeSave, CheckBegun, Ended, Active, InProcess
      <4>3. k > at[r] \/ k = at[r]
        BY <2>3, <3>1, <4>1
      <4>4. QED
        BY <2>1, <4>2, <4>3 DEF RunInv, Progress
    <3>5. QED
      BY <3>2, <3>3, <3>4
  <2>4. pc[r] \in {"checking", "save"} => at[r] <= lastLive'[r]
    BY <1>2, <2>1 DEF CheckBegun, Ended
  <2>5. Live(r)'
    BY <2>3, <2>4 DEF Live
  <2>6. QED
    BY <2>2, <2>5 DEF RunInv
<1>5. QED
  BY <1>3, <1>4 DEF IInv

LEMMA CloseStoreInv == ASSUME IInv, CloseStore PROVE IInv'
<1>1. TypeOK'
  BY DEF IInv, TypeOK, CloseStore
<1>2. ASSUME NEW r \in Run PROVE RunInv(r)'
  <2>1. RunInv(r)
    BY DEF IInv
  <2>2. QED
    BY <2>1 DEF RunInv, Position, Progress, Truth, Alerted, Live, OwnFile, CloseStore
<1>3. QED
  BY <1>1, <1>2 DEF IInv

LEMMA ExitInv == ASSUME IInv, Exit PROVE IInv'
<1> USE SourcesAssumption DEF Exit
<1>1. TypeOK /\ \A r \in Run : RunInv(r)
  BY DEF IInv
<1>2. TypeOK'
  <2>1. pc' \in [Run -> {"idle"} \cup Active \cup Ended]
    BY <1>1 DEF TypeOK, Ended
  <2>2. lastLive' \in [Run -> 0..MaxSources]
    BY <1>1 DEF TypeOK
  <2>3. QED
    BY <1>1, <2>1, <2>2 DEF TypeOK
<1>3. ASSUME NEW r \in Run PROVE RunInv(r)'
  <2>1. RunInv(r) /\ at[r] \in 1..(MaxSources + 1)
    BY Types
  <2>2. \/ pc[r] \in Active /\ pc'[r] = "gone" /\ lastLive'[r] = lastLive[r]
        \/ pc[r] = "idle" /\ pc'[r] = "idle" /\ lastLive'[r] = MaxSources
        \/ pc[r] \in Ended /\ pc'[r] = pc[r] /\ lastLive'[r] = lastLive[r]
    <3>1. pc'[r] = IF pc[r] \in Active THEN "gone" ELSE pc[r]
      OBVIOUS
    <3>2. lastLive'[r] = IF pc[r] = "idle" THEN MaxSources ELSE lastLive[r]
      OBVIOUS
    <3>3. pc[r] \in {"idle"} \cup Active \cup Ended
      BY <1>1 DEF TypeOK
    <3>4. pc[r] \in Active \cup Ended => pc[r] # "idle"
      BY DEF Active, InProcess, Ended
    <3>5. pc[r] \in Ended \cup {"idle"} => pc[r] \notin Active
      BY DEF Active, InProcess, Ended
    <3>6. QED
      BY <3>1, <3>2, <3>3, <3>4, <3>5
  <2>3. Position(r)'
    BY <2>1, <2>2 DEF RunInv, Position, Active, InProcess, Ended
  <2>4. Progress(r)'
    BY <2>1, <2>2 DEF RunInv, Progress, BeforeSave, Active, InProcess, Ended
  <2>5. Truth(r)' /\ Alerted(r)'
    BY <2>1 DEF RunInv, Truth, Alerted
  <2>6. Live(r)'
    <3>1. ASSUME NEW k \in SourceIndex, k > lastLive'[r] PROVE saved'[r][k] = 0
      <4>1. CASE lastLive'[r] = lastLive[r]
        BY <2>1, <3>1, <4>1 DEF RunInv, Live
      <4>2. CASE lastLive'[r] = MaxSources
        BY <3>1, <4>2 DEF SourceIndex
      <4>3. QED
        BY <2>2, <4>1, <4>2
    <3>2. pc'[r] \notin Ended => lastLive'[r] = MaxSources
      BY <2>2 DEF Ended
    <3>3. pc'[r] \notin {"checking", "save"}
      BY <2>2 DEF Ended
    <3>4. QED
      BY <3>1, <3>2, <3>3 DEF Live
  <2>7. OwnFile(r)'
    BY <2>1, <2>2 DEF RunInv, OwnFile, HasFile, Active, InProcess, Ended
  <2>8. QED
    BY <2>3, <2>4, <2>5, <2>6, <2>7 DEF RunInv
<1>4. QED
  BY <1>2, <1>3 DEF IInv

\* The process dies, and nothing else happens: a Run that is under way ends
\* where it is.
Vanish ==
  /\ pc' = [r \in Run |-> IF pc[r] \in Active THEN "gone" ELSE pc[r]]
  /\ UNCHANGED <<sources, current, disk, reported, around>>

LEMMA VanishInv == ASSUME IInv, Vanish PROVE IInv'
<1> USE DEF Vanish
<1>1. TypeOK /\ \A r \in Run : RunInv(r)
  BY DEF IInv
<1>2. TypeOK'
  BY <1>1 DEF TypeOK, Ended
<1>3. ASSUME NEW r \in Run PROVE RunInv(r)'
  <2>1. RunInv(r) /\ pc[r] \in {"idle"} \cup Active \cup Ended
    BY <1>1 DEF TypeOK
  <2>2. \/ pc[r] \in Active /\ pc'[r] = "gone"
        \/ pc[r] \notin Active /\ pc'[r] = pc[r]
    OBVIOUS
  <2>3. Position(r)' /\ Progress(r)' /\ Truth(r)' /\ Alerted(r)'
    BY <2>1, <2>2 DEF RunInv, Position, Progress, Truth, Alerted, BeforeSave, Active, InProcess
  <2>4. Live(r)' /\ OwnFile(r)'
    BY <2>1, <2>2 DEF RunInv, Live, OwnFile, HasFile, Active, InProcess, Ended
  <2>5. QED
    BY <2>3, <2>4 DEF RunInv
<1>4. QED
  BY <1>2, <1>3 DEF IInv

-----------------------------------------------------------------------------
(* The theorems.                                                            *)

LEMMA NextIInv == IInv /\ [Next]_vars => IInv'
<1> SUFFICES ASSUME IInv, [Next]_vars PROVE IInv'
  OBVIOUS
<1>1. ASSUME NEW r \in Run, NEW n \in 0..MaxSources, Start(r, n) PROVE IInv'
  BY <1>1, StartInv
<1>2. ASSUME NEW r \in Run, Step(r) PROVE IInv'
  BY <1>2, LoadInv, CreateTempInv, WriteTempInv, CheckBeginInv, CheckReturnInv,
     SaveSomeInv, SaveOkInv, SaveFailsInv, CleanupInv, ReportErrorInv, ReportOkInv,
     NotifyInv DEF Step
<1>3. CASE Cancel \/ CloseStore \/ Exit
  BY <1>3, CancelInv, CloseStoreInv, ExitInv
<1>4. CASE UNCHANGED vars
  <2>1. TypeOK'
    BY <1>4 DEF vars, IInv, TypeOK
  <2>2. ASSUME NEW r \in Run PROVE RunInv(r)'
    <3>1. RunInv(r)
      BY DEF IInv
    <3>2. QED
      BY <1>4, <3>1 DEF vars, RunInv, Position, Progress, Truth, Alerted, Live, OwnFile
  <2>3. QED
    BY <2>1, <2>2 DEF IInv
<1>5. QED
  BY <1>1, <1>2, <1>3, <1>4 DEF Next, Finished

\* Every reachable state satisfies the invariant.
THEOREM Invariance == Spec => []IInv
  BY InitIInv, NextIInv, PTL DEF Spec

\* Every variable keeps its type.
THEOREM TypeCorrect == Spec => []TypeOK
  BY Invariance, PTL DEF IInv

LEMMA ResultsTruthfulHolds == IInv => ResultsTruthful
<1>1. ASSUME IInv, NEW r \in Run, NEW k \in DOMAIN results[r]
      PROVE  /\ results[r][k].source = k
             /\ results[r][k].violations = IF results[r][k].err THEN 0 ELSE saved[r][k]
  <2>1. results[r] \in Seq(Result) /\ RunInv(r)
    BY <1>1, Types
  <2>2. k \in 1..(at[r] - 1)
    BY <1>1, <2>1 DEF RunInv, Position
  <2>3. QED
    BY <2>1, <2>2 DEF RunInv, Truth
<1>2. ASSUME IInv, NEW r \in Run, pc[r] = "done"
      PROVE  Len(results[r]) = sources[r]
  <2>1. RunInv(r) /\ sources[r] \in 0..MaxSources
    BY <1>2, Types
  <2>2. QED
    BY <1>2, <2>1, SourcesAssumption DEF RunInv, Position
<1>3. QED
  BY <1>1, <1>2 DEF ResultsTruthful

\* A Result without an error counts exactly what is on disk of its source,
\* and a Run that returns has one for every source, failed ones included.
THEOREM ResultsTruthfulAlways == Spec => []ResultsTruthful
  BY ResultsTruthfulHolds, Invariance, PTL

LEMMA TempFileLifetimeHolds == IInv => TempFileLifetime
<1>1. ASSUME IInv, NEW f \in files
      PROVE  f[2] = at[f[1]] /\ pc[f[1]] \in HasFile \cup {"gone"}
  <2>1. f[1] \in Run /\ f[2] \in SourceIndex /\ f = <<f[1], f[2]>>
    BY <1>1 DEF IInv, TypeOK
  <2>2. RunInv(f[1])
    BY <1>1, <2>1 DEF IInv
  <2>3. QED
    BY <1>1, <2>1, <2>2 DEF RunInv, OwnFile
<1>2. ASSUME IInv, NEW r \in Run, pc[r] \in HasFile
      PROVE  <<r, at[r]>> \in files
  BY <1>2 DEF IInv, RunInv, OwnFile
<1>3. QED
  BY <1>1, <1>2 DEF TempFileLifetime

\* A temporary CSV never outlives process, unless the process that runs it
\* dies, and is there for as long as it may be read.
THEOREM TempFileLifetimeAlways == Spec => []TempFileLifetime
  BY TempFileLifetimeHolds, Invariance, PTL

LEMMA AlertsBackedHolds == IInv => AlertsBacked
<1> SUFFICES ASSUME IInv, NEW r \in Run, NEW j \in DOMAIN alerts[r]
             PROVE  /\ alerts[r][j][2] > 0 /\ alerts[r][j][2] = saved[r][alerts[r][j][1]]
                    /\ alerts[r][j][1] \in DOMAIN results[r]
                    /\ ~results[r][alerts[r][j][1]].err
                    /\ \A h \in DOMAIN alerts[r] : h < j => alerts[r][h][1] < alerts[r][j][1]
  BY DEF AlertsBacked
<1>1. results[r] \in Seq(Result) /\ alerts[r] \in Seq(SourceIndex \X Count) /\ RunInv(r)
  BY Types
<1>2. DOMAIN alerts[r] = 1..Len(alerts[r]) /\ DOMAIN results[r] = 1..(at[r] - 1)
  BY <1>1 DEF RunInv, Position
<1>3. QED
  BY <1>1, <1>2 DEF RunInv, Alerted

\* Alerts are unique, and true of what is on disk and reported.
THEOREM AlertsBackedAlways == Spec => []AlertsBacked
  BY AlertsBackedHolds, Invariance, PTL

LEMMA CancelStopsIngestHolds == IInv => CancelStopsIngest
<1> SUFFICES ASSUME IInv, NEW r \in Run
             PROVE  /\ \A k \in SourceIndex : k > lastLive[r] => saved[r][k] = 0
                    /\ \A j \in DOMAIN alerts[r] : alerts[r][j][1] <= lastLive[r]
  BY DEF CancelStopsIngest
<1>1. RunInv(r) /\ alerts[r] \in Seq(SourceIndex \X Count)
      /\ at[r] \in 1..(MaxSources + 1) /\ lastLive[r] \in 0..MaxSources
  BY Types
<1>2. \A k \in SourceIndex : k > lastLive[r] => saved[r][k] = 0
  BY <1>1 DEF RunInv, Live
<1>3. ASSUME NEW j \in DOMAIN alerts[r] PROVE alerts[r][j][1] <= lastLive[r]
  <2>1. j \in 1..Len(alerts[r])
    BY <1>1
  <2>2. /\ alerts[r][j][1] \in 1..(at[r] - 1)
        /\ saved[r][alerts[r][j][1]] # 0
    BY <1>1, <2>1 DEF RunInv, Alerted
  <2>3. alerts[r][j][1] \in SourceIndex
    BY <1>1, <2>2, SourcesAssumption DEF SourceIndex
  <2>4. QED
    BY <1>1, <1>2, <2>2, <2>3, SourcesAssumption DEF SourceIndex
<1>4. QED
  BY <1>2, <1>3

\* Cancellation takes effect at a source boundary.
THEOREM CancelStopsIngestAlways == Spec => []CancelStopsIngest
  BY CancelStopsIngestHolds, Invariance, PTL

-----------------------------------------------------------------------------
(* The violation counter                                                   *)

\* Induction, over a set instead of a predicate.
LEMMA NatInduct ==
  ASSUME NEW T, 0 \in T, \A n \in Nat : n \in T => n + 1 \in T
  PROVE  Nat \subseteq T
<1> SUFFICES ASSUME Nat \ T # {} PROVE FALSE
  OBVIOUS
<1>1. PICK x \in Nat \ T : \A y \in Nat \ T : ~(<<y, x>> \in OpToRel(<, Nat))
  <2>1. IsWellFoundedOn(OpToRel(<, Nat), Nat) /\ Nat \ T \subseteq Nat
    BY NatLessThanWellFounded
  <2>2. QED
    BY <2>1, WFMin
<1>2. x - 1 \in Nat /\ x - 1 + 1 = x
  <2>1. x # 0 /\ x \in Nat
    OBVIOUS
  <2>2. QED
    BY <2>1
<1>3. x - 1 \notin Nat \ T
  <2>1. <<x - 1, x>> \in OpToRel(<, Nat)
    BY <1>1, <1>2 DEF OpToRel
  <2>2. QED
    BY <1>1, <2>1
<1>4. QED
  BY <1>1, <1>2, <1>3

\* f[k] is what the first k Results count.
Sums(f, rs) ==
  f = [k \in 0..Len(rs) |-> IF k = 0 THEN 0 ELSE f[k - 1] + rs[k].violations]

LEMMA SumsExist ==
  ASSUME NEW rs \in Seq(Result)
  PROVE  \E f : Sums(f, rs) /\ f \in [0..Len(rs) -> Nat]
<1> DEFINE Part(f, n) == /\ f \in [0..n -> Nat] /\ f[0] = 0
                         /\ \A k \in 1..n : f[k] = f[k - 1] + rs[k].violations
           T == {n \in Nat : n <= Len(rs) => \E f : Part(f, n)}
<1>1. 0 \in T
  <2>1. Part([k \in 0..0 |-> 0], 0)
    OBVIOUS
  <2>2. QED
    BY <2>1
<1>2. ASSUME NEW n \in Nat, n \in T PROVE n + 1 \in T
  <2> HIDE DEF Part
  <2> SUFFICES ASSUME n + 1 <= Len(rs) PROVE \E f : Part(f, n + 1)
    OBVIOUS
  <2>1. PICK f : Part(f, n)
    BY <1>2
  <2> USE DEF Part
  <2> DEFINE e == f[n] + rs[n + 1].violations
             g == [k \in 0..(n + 1) |-> IF k = n + 1 THEN e ELSE f[k]]
  <2>2. e \in Nat
    <3>1. rs[n + 1] \in Result /\ f[n] \in Nat
      BY <2>1
    <3>2. rs[n + 1].violations \in Nat
      BY <3>1, FoundAssumption DEF Result, Count
    <3>3. QED
      BY <3>1, <3>2
  <2> HIDE DEF e
  <2>3. g \in [0..(n + 1) -> Nat] /\ g[0] = 0
    BY <2>1, <2>2
  <2>4. ASSUME NEW k \in 1..(n + 1) PROVE g[k] = g[k - 1] + rs[k].violations
    <3>1. CASE k = n + 1
      BY <3>1 DEF e
    <3>2. CASE k # n + 1
      BY <2>1, <3>2
    <3>3. QED
      BY <3>1, <3>2
  <2>5. QED
    BY <2>3, <2>4
<1>3. Nat \subseteq T
  <2> HIDE DEF T
  <2>1. QED
    BY <1>1, <1>2, NatInduct
<1>4. PICK f : Part(f, Len(rs))
  <2> HIDE DEF Part
  <2>1. Len(rs) \in T
    BY <1>3
  <2>2. QED
    BY <2>1
<1>5. ASSUME NEW k \in 0..Len(rs)
      PROVE  f[k] = IF k = 0 THEN 0 ELSE f[k - 1] + rs[k].violations
  BY <1>4
<1>6. QED
  BY <1>4, <1>5 DEF Sums

LEMMA SumsUnique ==
  ASSUME NEW rs \in Seq(Result), NEW n \in Nat, n <= Len(rs), NEW f, NEW g,
         \A k \in 0..n : f[k] = IF k = 0 THEN 0 ELSE f[k - 1] + rs[k].violations,
         \A k \in 0..n : g[k] = IF k = 0 THEN 0 ELSE g[k - 1] + rs[k].violations
  PROVE  f[n] = g[n]
<1> DEFINE T == {k \in Nat : k <= n => f[k] = g[k]}
<1>1. 0 \in T
  OBVIOUS
<1>2. ASSUME NEW k \in Nat, k \in T PROVE k + 1 \in T
  <2>1. CASE k + 1 <= n
    <3>1. k + 1 \in 0..n /\ k + 1 # 0 /\ k + 1 - 1 = k /\ f[k] = g[k]
      BY <1>2, <2>1
    <3>2. f[k + 1] = f[k] + rs[k + 1].violations /\ g[k + 1] = g[k] + rs[k + 1].violations
      BY <3>1
    <3>3. QED
      BY <3>1, <3>2
  <2>2. QED
    BY <2>1
<1>3. Nat \subseteq T
  <2> HIDE DEF T
  <2>1. QED
    BY <1>1, <1>2, NatInduct
<1>4. QED
  BY <1>3

LEMMA CountedIsSum ==
  ASSUME NEW rs \in Seq(Result)
  PROVE  \E f : Sums(f, rs) /\ Counted(rs) = f[Len(rs)]
<1>1. Sums(CHOOSE s : Sums(s, rs), rs)
  BY SumsExist
<1>2. Counted(rs) = (CHOOSE s : Sums(s, rs))[Len(rs)]
  BY DEF Counted, Sums
<1>3. QED
  BY <1>1, <1>2

\* No Result counts nothing.
LEMMA NothingCounted == Counted(<<>>) = 0
<1>1. <<>> \in Seq(Result) /\ Len(<<>>) = 0
  OBVIOUS
<1>2. PICK f : Sums(f, <<>>) /\ Counted(<<>>) = f[Len(<<>>)]
  BY <1>1, CountedIsSum
<1>3. ASSUME NEW k \in 0..Len(<<>>)
      PROVE  f[k] = IF k = 0 THEN 0 ELSE f[k - 1] + <<>>[k].violations
  BY <1>2, Zenon DEF Sums
<1>4. QED
  BY <1>1, <1>2, <1>3

\* One more Result adds its count.
LEMMA CountedAppend ==
  ASSUME NEW rs \in Seq(Result), NEW e \in Result
  PROVE  Counted(Append(rs, e)) = Counted(rs) + e.violations
<1> DEFINE es == Append(rs, e)
<1>1. ASSUME NEW qs \in Seq(Result)
      PROVE  \E f : Sums(f, qs) /\ Counted(qs) = f[Len(qs)]
  BY CountedIsSum
<1>2. /\ es \in Seq(Result) /\ Len(es) = Len(rs) + 1 /\ es[Len(rs) + 1] = e
      /\ \A k \in 1..Len(rs) : es[k] = rs[k]
      /\ Len(rs) \in Nat
  OBVIOUS
<1> HIDE DEF es
<1>3. PICK f : Sums(f, rs) /\ Counted(rs) = f[Len(rs)]
  BY <1>1
<1>4. PICK g : Sums(g, es) /\ Counted(es) = g[Len(es)]
  BY <1>1, <1>2
<1>5. ASSUME NEW qs, NEW h, Sums(h, qs), NEW k \in 0..Len(qs)
      PROVE  h[k] = IF k = 0 THEN 0 ELSE h[k - 1] + qs[k].violations
  BY <1>5, Zenon DEF Sums
<1>6. g[Len(rs) + 1] = g[Len(rs)] + e.violations
  <2>1. /\ Len(rs) + 1 \in 0..Len(es) /\ Len(rs) + 1 # 0 /\ Len(rs) + 1 - 1 = Len(rs)
    BY <1>2
  <2>2. g[Len(rs) + 1] = IF Len(rs) + 1 = 0 THEN 0
                         ELSE g[Len(rs) + 1 - 1] + es[Len(rs) + 1].violations
    BY <1>4, <1>5, <2>1
  <2>3. QED
    BY <1>2, <2>1, <2>2
<1>7. g[Len(rs)] = f[Len(rs)]
  <2>1. \A k \in 0..Len(rs) : f[k] = IF k = 0 THEN 0 ELSE f[k - 1] + rs[k].violations
    BY <1>3, <1>5
  <2>2. ASSUME NEW k \in 0..Len(rs)
        PROVE  g[k] = IF k = 0 THEN 0 ELSE g[k - 1] + rs[k].violations
    <3>1. k \in 0..Len(es) /\ (k # 0 => es[k] = rs[k])
      BY <1>2
    <3>2. g[k] = IF k = 0 THEN 0 ELSE g[k - 1] + es[k].violations
      BY <1>4, <1>5, <3>1
    <3>3. QED
      BY <3>1, <3>2
  <2>3. QED
    BY <1>2, <2>1, <2>2, SumsUnique
<1>8. QED
  BY <1>2, <1>3, <1>4, <1>6, <1>7 DEF es

\* The count is a number.
LEMMA CountedNat ==
  ASSUME NEW rs \in Seq(Result)
  PROVE  Counted(rs) \in Nat
<1>1. PICK f : Sums(f, rs) /\ f \in [0..Len(rs) -> Nat]
  BY SumsExist
<1>2. PICK g : Sums(g, rs) /\ Counted(rs) = g[Len(rs)]
  BY CountedIsSum
<1>3. ASSUME NEW h, Sums(h, rs), NEW k \in 0..Len(rs)
      PROVE  h[k] = IF k = 0 THEN 0 ELSE h[k - 1] + rs[k].violations
  BY <1>3, Zenon DEF Sums
<1>4. g[Len(rs)] = f[Len(rs)]
  <2>1. Len(rs) \in Nat
    OBVIOUS
  <2>2. /\ \A k \in 0..Len(rs) : f[k] = IF k = 0 THEN 0 ELSE f[k - 1] + rs[k].violations
        /\ \A k \in 0..Len(rs) : g[k] = IF k = 0 THEN 0 ELSE g[k - 1] + rs[k].violations
    BY <1>1, <1>2, <1>3
  <2>3. QED
    BY <2>1, <2>2, SumsUnique
<1>5. QED
  BY <1>1, <1>2, <1>4

\* What RecordedAgrees says of one Run.
Account(r) ==
  pc[r] # "gone" =>
    recorded[r] = Counted(results[r]) + IF pc[r] = "notify" THEN found[r] ELSE 0

\* A step that neither counts nor reports, and is not at an alert.
Quiet(r) ==
  /\ pc[r] \notin {"notify", "gone"} /\ pc'[r] # "notify"
  /\ recorded' = recorded /\ results' = results

LEMMA QuietAccount ==
  ASSUME NEW r \in Run, Account(r), Quiet(r)
  PROVE  Account(r)'
  BY DEF Account, Quiet

\* A step of another Run leaves the account alone.
Others(r) ==
  \A d \in Run \ {r} :
    /\ pc'[d] = pc[d] /\ found'[d] = found[d]
    /\ recorded'[d] = recorded[d] /\ results'[d] = results[d]

LEMMA OthersAccount ==
  ASSUME NEW r \in Run, NEW d \in Run \ {r}, Others(r), Account(d)
  PROVE  Account(d)'
  BY DEF Account, Others

LEMMA StartAccount ==
  ASSUME IInv, NEW r \in Run, NEW n \in 0..MaxSources, Start(r, n)
  PROVE  Others(r) /\ Quiet(r)
  BY DEF IInv, TypeOK, Start, Goto, Others, Quiet

LEMMA LoadAccount ==
  ASSUME IInv, NEW r \in Run, Load(r) \/ CreateTemp(r) \/ WriteTemp(r)
  PROVE  Others(r) /\ Quiet(r)
<1> USE DEF IInv, TypeOK, Goto, FailNow, Others, Quiet
<1>1. CASE Load(r)
  BY <1>1 DEF Load
<1>2. CASE CreateTemp(r)
  BY <1>2 DEF CreateTemp
<1>3. CASE WriteTemp(r)
  BY <1>3 DEF WriteTemp
<1>4. QED
  BY <1>1, <1>2, <1>3

LEMMA CheckAccount ==
  ASSUME IInv, NEW r \in Run, CheckBegin(r) \/ CheckReturn(r)
  PROVE  Others(r) /\ Quiet(r)
<1> USE DEF IInv, TypeOK, Goto, Others, Quiet
<1>1. CASE CheckBegin(r)
  BY <1>1 DEF CheckBegin
<1>2. CASE CheckReturn(r)
  BY <1>2 DEF CheckReturn
<1>3. QED
  BY <1>1, <1>2

LEMMA SaveAccount ==
  ASSUME IInv, NEW r \in Run, SaveSome(r) \/ SaveOk(r) \/ SaveFails(r) \/ Cleanup(r)
  PROVE  Others(r) /\ Quiet(r)
<1> USE DEF IInv, TypeOK, Goto, Others, Quiet
<1>1. CASE SaveSome(r)
  BY <1>1 DEF SaveSome
<1>2. CASE SaveOk(r)
  BY <1>2 DEF SaveOk
<1>3. CASE SaveFails(r)
  BY <1>3 DEF SaveFails
<1>4. CASE Cleanup(r)
  BY <1>4 DEF Cleanup
<1>5. QED
  BY <1>1, <1>2, <1>3, <1>4

\* The Result NextSource appends adds its count and no other.
LEMMA NextSourceCounts ==
  ASSUME IInv, NEW r \in Run, NEW n \in Count, pc[r] \in Active, NextSource(r, n)
  PROVE  /\ Counted(results'[r]) = Counted(results[r]) + n
         /\ Counted(results[r]) \in Nat
         /\ pc'[r] \notin {"notify", "gone"}
<1> DEFINE e == [source |-> at[r], violations |-> n, err |-> failed[r]]
<1>1. e \in Result /\ e.violations = n /\ results[r] \in Seq(Result)
  BY Types DEF Result
<1>2. results'[r] = Append(results[r], e)
  BY DEF NextSource, IInv, TypeOK
<1>3. pc'[r] \notin {"notify", "gone"}
  BY DEF NextSource, Goto, IInv, TypeOK
<1> HIDE DEF e
<1>4. QED
  BY <1>1, <1>2, <1>3, CountedAppend, CountedNat

LEMMA NextSourceOthers ==
  ASSUME IInv, NEW r \in Run, NEW n, NextSource(r, n),
         \A d \in Run \ {r} : recorded'[d] = recorded[d]
  PROVE  Others(r)
  BY DEF IInv, TypeOK, NextSource, Goto, Others

LEMMA ReportErrorAccount ==
  ASSUME IInv, NEW r \in Run, Account(r), ReportError(r)
  PROVE  Others(r) /\ Account(r)'
<1>1. pc[r] = "report" /\ NextSource(r, 0) /\ recorded' = recorded /\ 0 \in Count
  BY FoundAssumption DEF ReportError, Count
<1>2. Others(r)
  BY <1>1, NextSourceOthers
<1>3. /\ Counted(results'[r]) = Counted(results[r]) + 0
      /\ Counted(results[r]) \in Nat /\ pc'[r] \notin {"notify", "gone"}
  BY <1>1, NextSourceCounts DEF Active, InProcess
<1>4. Account(r)'
  BY <1>1, <1>3 DEF Account
<1>5. QED
  BY <1>2, <1>4

\* The counter is ahead of the Results while the alert is being posted.
LEMMA ReportOkAccount ==
  ASSUME IInv, NEW r \in Run, Account(r), ReportOk(r)
  PROVE  Others(r) /\ Account(r)'
<1>1. /\ pc[r] = "report" /\ recorded'[r] = recorded[r] + found[r]
      /\ \A d \in Run \ {r} : recorded'[d] = recorded[d]
      /\ found[r] \in Nat /\ recorded[r] \in Nat /\ 0 \in Count
  BY FoundAssumption DEF ReportOk, IInv, TypeOK, Count
<1>2. Counted(results[r]) \in Nat
  BY Types, CountedNat
<1>3. CASE found[r] > 0
  <2>1. pc'[r] = "notify" /\ results' = results /\ found' = found
        /\ \A d \in Run \ {r} : pc'[d] = pc[d]
    BY <1>3 DEF ReportOk, Goto, IInv, TypeOK
  <2>2. QED
    BY <1>1, <1>2, <2>1 DEF Account, Others
<1>4. CASE ~(found[r] > 0)
  <2>1. NextSource(r, 0) /\ found[r] = 0
    BY <1>1, <1>4 DEF ReportOk
  <2>2. Others(r)
    BY <1>1, <2>1, NextSourceOthers
  <2>3. /\ Counted(results'[r]) = Counted(results[r]) + 0
        /\ pc'[r] \notin {"notify", "gone"}
    BY <1>1, <2>1, NextSourceCounts DEF Active, InProcess
  <2>4. QED
    BY <1>1, <1>2, <2>1, <2>2, <2>3 DEF Account
<1>5. QED
  BY <1>3, <1>4

LEMMA NotifyAccount ==
  ASSUME IInv, NEW r \in Run, Account(r), Notify(r)
  PROVE  Others(r) /\ Account(r)'
<1>1. /\ pc[r] = "notify" /\ NextSource(r, found[r]) /\ recorded' = recorded
      /\ found[r] \in Count /\ found[r] \in Nat
  BY FoundAssumption DEF Notify, IInv, TypeOK, Count
<1>2. Others(r)
  BY <1>1, NextSourceOthers
<1>3. /\ Counted(results'[r]) = Counted(results[r]) + found[r]
      /\ Counted(results[r]) \in Nat /\ pc'[r] \notin {"notify", "gone"}
  BY <1>1, NextSourceCounts DEF Active, InProcess
<1>4. Account(r)'
  BY <1>1, <1>3 DEF Account
<1>5. QED
  BY <1>2, <1>4

LEMMA AroundAccount ==
  ASSUME IInv, Cancel \/ CloseStore \/ Exit, NEW r \in Run, Account(r)
  PROVE  Account(r)'
<1>1. CASE Cancel \/ CloseStore
  BY <1>1 DEF Cancel, CloseStore, Account
<1>2. CASE Exit
  <2>1. recorded' = recorded /\ results' = results /\ found' = found
        /\ pc'[r] \in {"gone", pc[r]}
    BY <1>2 DEF Exit
  <2>2. QED
    BY <2>1 DEF Account
<1>3. QED
  BY <1>1, <1>2

LEMMA InitRecorded == Init => RecordedAgrees
  BY NothingCounted DEF Init, RecordedAgrees

LEMMA NextRecorded == IInv /\ RecordedAgrees /\ [Next]_vars => RecordedAgrees'
<1> SUFFICES ASSUME IInv, RecordedAgrees, [Next]_vars, NEW d \in Run PROVE Account(d)'
  BY DEF RecordedAgrees, Account
<1>1. \A r \in Run : Account(r)
  BY DEF RecordedAgrees, Account
<1>2. ASSUME NEW r \in Run, Others(r) /\ (Quiet(r) \/ (Account(r) => Account(r)'))
      PROVE  Account(d)'
  BY <1>1, <1>2, OthersAccount, QuietAccount
<1>3. ASSUME NEW r \in Run, NEW n \in 0..MaxSources, Start(r, n) PROVE Account(d)'
  BY <1>2, <1>3, StartAccount
<1>4. ASSUME NEW r \in Run, Step(r) PROVE Account(d)'
  <2>1. CASE ReportError(r) \/ ReportOk(r) \/ Notify(r)
    BY <1>1, <1>2, <2>1, ReportErrorAccount, ReportOkAccount, NotifyAccount
  <2>2. CASE ~(ReportError(r) \/ ReportOk(r) \/ Notify(r))
    BY <1>2, <1>4, <2>2, LoadAccount, CheckAccount, SaveAccount DEF Step
  <2>3. QED
    BY <2>1, <2>2
<1>5. CASE Cancel \/ CloseStore \/ Exit
  BY <1>1, <1>5, AroundAccount
<1>6. CASE UNCHANGED vars
  BY <1>1, <1>6 DEF vars, Account
<1>7. QED
  BY <1>3, <1>4, <1>5, <1>6 DEF Next, Finished

\* The violation counter is the sum of the Results, and of what is being
\* alerted: a source that failed is in neither, and none is counted twice.
THEOREM RecordedAgreesAlways == Spec => []RecordedAgrees
  BY InitRecorded, NextRecorded, Invariance, PTL DEF Spec

-----------------------------------------------------------------------------
(***************************************************************************)
(* The saves of the Runs are calls as ViolationLog allows them.            *)
(***************************************************************************)

\* What the history says of the calls of Run r: one is open exactly while r is
\* in SaveViolations, with what its check found; sources r has not come to
\* have none.
Calls(r) ==
  /\ \A k \in SourceIndex :
       /\ fate[r][k] = "saving" <=> pc[r] = "save" /\ k = at[r]
       /\ k > at[r] \/ (k = at[r] /\ pc[r] \in BeforeSave) => fate[r][k] = "idle"
  /\ pc[r] = "save" => asked[r][at[r]] = found[r]

\* The types of the history.
HistoryOK ==
  /\ asked \in [Run -> [SourceIndex -> Count]]
  /\ fate \in [Run -> [SourceIndex -> Log!Phase]]

LInv == HistoryOK /\ \A r \in Run : Calls(r)

\* Before the Runs start, no call was made.
LEMMA InitLInv == LoggedInit => LInv
<1> SUFFICES ASSUME LoggedInit PROVE LInv
  OBVIOUS
<1>1. 0 \in Count /\ "idle" \in Log!Phase /\ "idle" # "saving"
  BY FoundAssumption DEF Count, Log!Phase
<1>2. HistoryOK
  BY <1>1 DEF LoggedInit, HistoryOK
<1>3. ASSUME NEW r \in Run PROVE Calls(r)
  BY DEF LoggedInit, Init, Calls
<1>4. QED
  BY <1>2, <1>3 DEF LInv

\* Nothing is on disk yet either.
LEMMA InitLog == LoggedInit => Log!Init
<1> SUFFICES ASSUME LoggedInit PROVE Log!Init
  OBVIOUS
<1>1. ASSUME NEW c \in SaveCall PROVE c[1] \in Run /\ c[2] \in SourceIndex
  BY DEF SaveCall
<1>2. /\ [c \in SaveCall |-> fate[c[1]][c[2]]] = [c \in SaveCall |-> "idle"]
      /\ [c \in SaveCall |-> asked[c[1]][c[2]]] = [c \in SaveCall |-> 0]
  BY <1>1 DEF LoggedInit
<1>3. {v \in SaveCall \X Count : v[2] < saved[v[1][1]][v[1][2]]} = {}
  <2> SUFFICES ASSUME NEW v \in SaveCall \X Count, v[2] < saved[v[1][1]][v[1][2]] PROVE FALSE
    OBVIOUS
  <2>1. v[1] \in SaveCall /\ v[2] \in Count
    OBVIOUS
  <2>2. saved[v[1][1]][v[1][2]] = 0
    BY <1>1, <2>1 DEF LoggedInit, Init
  <2>3. QED
    BY <2>1, <2>2, FoundAssumption DEF Count
<1>4. QED
  BY <1>2, <1>3 DEF Log!Init

-----------------------------------------------------------------------------
(* What a step remembers, and what that is to ViolationLog.                 *)

\* Only Run r moves.
Alone(r) == \A d \in Run \ {r} : pc'[d] = pc[d] /\ at'[d] = at[d] /\ found'[d] = found[d]

\* A step that enters and leaves no call remembers nothing.
LEMMA NothingRemembered ==
  ASSUME HistoryOK, Remember, \A r \in Run : ~Enters(r) /\ ~Returns(r) /\ ~Dies(r)
  PROVE  asked' = asked /\ fate' = fate
<1>1. asked' = [r \in Run |-> asked[r]] /\ fate' = [r \in Run |-> fate[r]]
  BY Zenon DEF Remember
<1>2. QED
  BY <1>1 DEF HistoryOK

\* A step of one Run remembers it at most for that Run's call.
LEMMA OneRemembered ==
  ASSUME HistoryOK, Remember, NEW r \in Run, Alone(r)
  PROVE  /\ asked' = IF Enters(r) THEN [asked EXCEPT ![r][at[r]] = found'[r]] ELSE asked
         /\ fate' = IF Enters(r) \/ Returns(r) \/ Dies(r)
                    THEN [fate EXCEPT ![r][at[r]] = FateAfter(r)] ELSE fate
<1>1. ASSUME NEW d \in Run, d # r PROVE ~Enters(d) /\ ~Returns(d) /\ ~Dies(d)
  BY <1>1 DEF Alone, Enters, Returns, Dies
<1>2. asked' = IF Enters(r) THEN [asked EXCEPT ![r] = [asked[r] EXCEPT ![at[r]] = found'[r]]]
                            ELSE asked
  <2>1. ASSUME NEW d \in Run
        PROVE  asked'[d] = IF d = r /\ Enters(r) THEN [asked[r] EXCEPT ![at[r]] = found'[r]]
                           ELSE asked[d]
    BY <1>1 DEF Remember
  <2>2. asked' = [d \in Run |-> asked'[d]] /\ asked = [d \in Run |-> asked[d]]
    BY DEF Remember, HistoryOK
  <2>3. QED
    BY <2>1, <2>2
<1>3. fate' = IF Enters(r) \/ Returns(r) \/ Dies(r)
              THEN [fate EXCEPT ![r] = [fate[r] EXCEPT ![at[r]] = FateAfter(r)]] ELSE fate
  <2>1. ASSUME NEW d \in Run
        PROVE  fate'[d] = IF d = r /\ (Enters(r) \/ Returns(r) \/ Dies(r))
                          THEN [fate[r] EXCEPT ![at[r]] = FateAfter(r)]
                          ELSE fate[d]
    BY <1>1 DEF Remember
  <2>2. fate' = [d \in Run |-> fate'[d]] /\ fate = [d \in Run |-> fate[d]]
    BY DEF Remember, HistoryOK
  <2>3. QED
    BY <2>1, <2>2
<1>4. QED
  BY <1>2, <1>3

\* The call for source k of Run r is an entry of the log's tables.
LEMMA FateEntry ==
  ASSUME HistoryOK, NEW r \in Run, NEW k \in SourceIndex, NEW x,
         fate' = [fate EXCEPT ![r][k] = x]
  PROVE  [c \in SaveCall |-> fate'[c[1]][c[2]]]
           = [[c \in SaveCall |-> fate[c[1]][c[2]]] EXCEPT ![<<r, k>>] = x]
<1>1. ASSUME NEW c \in SaveCall
      PROVE  fate'[c[1]][c[2]] = IF c = <<r, k>> THEN x ELSE fate[c[1]][c[2]]
  <2>1. PICK d \in Run, j \in SourceIndex : c = <<d, j>>
    BY DEF SaveCall
  <2>2. fate'[d][j] = IF d = r /\ j = k THEN x ELSE fate[d][j]
    BY DEF HistoryOK
  <2>3. QED
    BY <2>1, <2>2
<1>2. QED
  BY <1>1

\* So is what it was given.
LEMMA AskedEntry ==
  ASSUME HistoryOK, NEW r \in Run, NEW k \in SourceIndex, NEW x,
         asked' = [asked EXCEPT ![r][k] = x]
  PROVE  [c \in SaveCall |-> asked'[c[1]][c[2]]]
           = [[c \in SaveCall |-> asked[c[1]][c[2]]] EXCEPT ![<<r, k>>] = x]
<1>1. ASSUME NEW c \in SaveCall
      PROVE  asked'[c[1]][c[2]] = IF c = <<r, k>> THEN x ELSE asked[c[1]][c[2]]
  <2>1. PICK d \in Run, j \in SourceIndex : c = <<d, j>>
    BY DEF SaveCall
  <2>2. asked'[d][j] = IF d = r /\ j = k THEN x ELSE asked[d][j]
    BY DEF HistoryOK
  <2>3. QED
    BY <2>1, <2>2
<1>2. QED
  BY <1>1

\* The violations on disk.
Disk == {v \in SaveCall \X Count : v[2] < saved[v[1][1]][v[1][2]]}

\* More of one source is more of its call.
LEMMA DiskGrows ==
  ASSUME saved \in [Run -> [SourceIndex -> Count]], NEW r \in Run, NEW k \in SourceIndex,
         NEW n \in Count, saved[r][k] <= n, saved' = [saved EXCEPT ![r][k] = n]
  PROVE  Disk' = Disk \cup Log!Prefix(<<r, k>>, n)
<1>1. ASSUME NEW d \in Run, NEW j \in SourceIndex
      PROVE  saved'[d][j] = (IF d = r /\ j = k THEN n ELSE saved[d][j]) /\ saved[d][j] \in Count
  OBVIOUS
<1>2. ASSUME NEW v
      PROVE  v \in Disk' <=> v \in Disk \/ v \in Log!Prefix(<<r, k>>, n)
  <2>1. CASE v \in SaveCall \X Count
    <3>1. PICK d \in Run, j \in SourceIndex, m \in Count : v = <<<<d, j>>, m>>
      BY <2>1 DEF SaveCall
    <3>2. v \in Disk' <=> m < saved'[d][j]
      BY <2>1, <3>1 DEF Disk
    <3>3. v \in Disk <=> m < saved[d][j]
      BY <2>1, <3>1 DEF Disk
    <3>4. v \in Log!Prefix(<<r, k>>, n) <=> d = r /\ j = k /\ m < n
      BY <3>1 DEF Log!Prefix, Count
    <3>5. m \in Nat /\ n \in Nat /\ saved[d][j] \in Nat
      BY <1>1 DEF Count
    <3>6. QED
      BY <1>1, <3>2, <3>3, <3>4, <3>5
  <2>2. CASE v \notin SaveCall \X Count
    BY <2>2 DEF Disk, Log!Prefix, SaveCall, Count
  <2>3. QED
    BY <2>1, <2>2
<1>3. QED
  BY <1>2

-----------------------------------------------------------------------------
(* The steps.                                                               *)

\* Once nothing happens to the calls, the log stays as it is.
LEMMA LogUnchanged ==
  ASSUME asked' = asked, fate' = fate, saved' = saved
  PROVE  UNCHANGED Log!vars
  BY DEF Log!vars

\* A step that leaves what the history says of Run r alone.
Outside(r) ==
  \/ /\ pc[r] # "save" /\ pc'[r] # "save"
     /\ at'[r] = at[r] /\ (pc'[r] \in BeforeSave => pc[r] \in BeforeSave)
  \/ pc[r] # "save" /\ pc'[r] # "save" /\ at'[r] = at[r] + 1
  \/ pc'[r] = pc[r] /\ at'[r] = at[r] /\ found'[r] = found[r]

\* The history says the same of it.
LEMMA OutsideCalls ==
  ASSUME IInv, NEW r \in Run, Calls(r), Outside(r), asked'[r] = asked[r], fate'[r] = fate[r]
  PROVE  Calls(r)'
<1>1. at[r] \in Nat
  BY Types, SourcesAssumption
<1>2. CASE pc'[r] = pc[r] /\ at'[r] = at[r] /\ found'[r] = found[r]
  BY <1>2 DEF Calls
<1>3. CASE /\ pc[r] # "save" /\ pc'[r] # "save"
           /\ at'[r] = at[r] /\ (pc'[r] \in BeforeSave => pc[r] \in BeforeSave)
  BY <1>3 DEF Calls
<1>4. CASE pc[r] # "save" /\ pc'[r] # "save" /\ at'[r] = at[r] + 1
  <2>1. \A k \in SourceIndex : k >= at'[r] => k > at[r]
    BY <1>1, <1>4 DEF SourceIndex
  <2>2. \A k \in SourceIndex : (k > at'[r] \/ k = at'[r]) => fate'[r][k] = "idle"
    BY <1>1, <1>4, <2>1 DEF Calls, SourceIndex
  <2>3. \A k \in SourceIndex : fate'[r][k] # "saving"
    BY <1>4 DEF Calls
  <2>4. QED
    BY <1>4, <2>2, <2>3 DEF Calls
<1>5. QED
  BY <1>2, <1>3, <1>4 DEF Outside

\* A step that is outside the calls of every Run and saves nothing.
LEMMA OutsideStep ==
  ASSUME IInv, LInv, Remember, saved' = saved, \A r \in Run : Outside(r)
  PROVE  LInv' /\ UNCHANGED Log!vars
<1>1. \A r \in Run : ~Enters(r) /\ ~Returns(r) /\ ~Dies(r)
  BY DEF Outside, Enters, Returns, Dies
<1>2. asked' = asked /\ fate' = fate
  BY <1>1, NothingRemembered DEF LInv
<1>3. \A r \in Run : Calls(r)'
  BY <1>2, OutsideCalls DEF LInv
<1>4. QED
  BY <1>2, <1>3, LogUnchanged DEF LInv, HistoryOK

\* A Run that stays where it is.
LEMMA Elsewhere ==
  ASSUME IInv, LInv, NEW r \in Run, Alone(r), NEW d \in Run \ {r},
         asked'[d] = asked[d], fate'[d] = fate[d]
  PROVE  Calls(d)'
  BY OutsideCalls DEF LInv, Outside, Alone

\* The check returned: a call begins.
LEMMA CheckReturnLogged ==
  ASSUME IInv, LInv, Remember, NEW r \in Run, CheckReturn(r)
  PROVE  LInv' /\ [Log!Next]_(Log!vars)
<1>1. /\ TypeOK /\ pc[r] = "checking" /\ at[r] \in SourceIndex /\ at' = at /\ saved' = saved
      /\ HistoryOK /\ Calls(r)
  BY Types DEF IInv, LInv, CheckReturn, Active, InProcess
<1>2. Alone(r)
  BY <1>1 DEF TypeOK, CheckReturn, Goto, Alone
<1>3. CASE pc'[r] # "save"
  <2>1. pc'[r] = "cleanup"
    BY <1>1, <1>3 DEF TypeOK, CheckReturn, Goto
  <2>2. \A d \in Run : Outside(d)
    BY <1>1, <1>2, <2>1 DEF Outside, Alone, BeforeSave
  <2>3. QED
    BY <1>1, <2>2, OutsideStep
<1>4. CASE pc'[r] = "save"
  <2>1. PICK n \in Count, k \in SourceIndex : found'[r] = n /\ at[r] = k
    BY <1>1, <1>4 DEF TypeOK, CheckReturn, Goto
  <2>2. Enters(r) /\ FateAfter(r) = "saving"
    BY <1>1, <1>4 DEF Enters, Dies, FateAfter
  <2>3. asked' = [asked EXCEPT ![r][k] = n] /\ fate' = [fate EXCEPT ![r][k] = "saving"]
    BY <1>1, <1>2, <2>1, <2>2, OneRemembered
  <2>4. HistoryOK'
    <3>1. "saving" \in Log!Phase
      BY DEF Log!Phase
    <3>2. QED
      BY <1>1, <2>3, <3>1 DEF HistoryOK
  <2>5. Calls(r)'
    <3>1. /\ fate'[r][k] = "saving" /\ asked'[r][k] = n
          /\ \A j \in SourceIndex : j # k => fate'[r][j] = fate[r][j]
      BY <1>1, <2>3 DEF HistoryOK
    <3>2. QED
      BY <1>1, <1>4, <2>1, <3>1 DEF Calls, BeforeSave, SourceIndex
  <2>6. ASSUME NEW d \in Run, d # r PROVE Calls(d)'
    <3>1. asked'[d] = asked[d] /\ fate'[d] = fate[d]
      BY <1>1, <2>3, <2>6 DEF HistoryOK
    <3>2. QED
      BY <1>2, <2>6, <3>1, Elsewhere
  <2>7. <<r, k>> \in SaveCall /\ fate[r][k] = "idle"
    BY <1>1, <2>1 DEF SaveCall, Calls, BeforeSave
  <2>8. Log!Begin(<<r, k>>)
    <3>1. [c \in SaveCall |-> fate[c[1]][c[2]]][<<r, k>>] = "idle"
      BY <2>7
    <3>2. [c \in SaveCall |-> fate'[c[1]][c[2]]]
            = [[c \in SaveCall |-> fate[c[1]][c[2]]] EXCEPT ![<<r, k>>] = "saving"]
      BY <1>1, <2>3, FateEntry
    <3>3. [c \in SaveCall |-> asked'[c[1]][c[2]]]
            = [[c \in SaveCall |-> asked[c[1]][c[2]]] EXCEPT ![<<r, k>>] = n]
      BY <1>1, <2>3, AskedEntry
    <3>4. QED
      BY <1>1, <3>1, <3>2, <3>3 DEF Log!Begin, Count
  <2>9. LInv'
    BY <2>4, <2>5, <2>6 DEF LInv
  <2>10. QED
    BY <2>7, <2>8, <2>9 DEF Log!Next
<1>5. QED
  BY <1>3, <1>4

\* What is known of the call Run r is in: k is its source, m how many
\* violations it was given.
LEMMA OpenCall ==
  ASSUME IInv, LInv, NEW r \in Run, pc[r] = "save"
  PROVE  \E k \in SourceIndex, m \in Count :
           /\ at[r] = k /\ found[r] = m /\ asked[r][k] = m /\ fate[r][k] = "saving"
           /\ saved \in [Run -> [SourceIndex -> Count]] /\ saved[r][k] <= m
           /\ <<r, k>> \in SaveCall
<1>1. at[r] \in SourceIndex /\ found[r] \in Count
      /\ saved \in [Run -> [SourceIndex -> Count]] /\ saved[r][at[r]] <= found[r]
  BY Types DEF Active, InProcess, RunInv, Progress, IInv, TypeOK
<1>2. fate[r][at[r]] = "saving" /\ asked[r][at[r]] = found[r]
  BY <1>1 DEF LInv, Calls
<1>3. QED
  BY <1>1, <1>2 DEF SaveCall

\* A transaction commits: more of the slice is on disk.
LEMMA SaveSomeLogged ==
  ASSUME IInv, LInv, Remember, NEW r \in Run, SaveSome(r)
  PROVE  LInv' /\ [Log!Next]_(Log!vars)
<1>1. pc[r] = "save" /\ pc' = pc /\ at' = at /\ found' = found
  BY DEF SaveSome
<1>2. PICK k \in SourceIndex, m \in Count :
        /\ at[r] = k /\ found[r] = m /\ asked[r][k] = m /\ fate[r][k] = "saving"
        /\ saved \in [Run -> [SourceIndex -> Count]] /\ saved[r][k] <= m
        /\ <<r, k>> \in SaveCall
  BY <1>1, OpenCall
<1>3. PICK n \in saved[r][k]..m : n > saved[r][k] /\ saved' = [saved EXCEPT ![r][k] = n]
  BY <1>2 DEF SaveSome, OnDisk, SetSaved
<1>4. \A d \in Run : ~Enters(d) /\ ~Returns(d) /\ ~Dies(d)
  BY <1>1 DEF Enters, Returns, Dies
<1>5. asked' = asked /\ fate' = fate
  BY <1>4, NothingRemembered DEF LInv
<1>6. LInv'
  BY <1>1, <1>5 DEF LInv, HistoryOK, Calls
<1>7. n \in Count /\ saved[r][k] <= n /\ n \in 0..m
  <2>1. saved[r][k] \in Nat /\ m \in Nat /\ m <= MaxFound
    BY <1>2, FoundAssumption DEF Count
  <2>2. QED
    BY <1>3, <2>1, FoundAssumption DEF Count
<1>8. Disk' = Disk \cup Log!Prefix(<<r, k>>, n)
  BY <1>2, <1>3, <1>7, DiskGrows
<1>9. /\ [c \in SaveCall |-> fate[c[1]][c[2]]][<<r, k>>] = "saving"
      /\ [c \in SaveCall |-> asked[c[1]][c[2]]][<<r, k>>] = m
  BY <1>2
<1>10. Log!Extend(<<r, k>>)
  BY <1>5, <1>7, <1>8, <1>9 DEF Log!Extend, Disk
<1>11. QED
  BY <1>2, <1>6, <1>10 DEF Log!Next

\* What a step that closes Run r's call does to the history.
LEMMA CallCloses ==
  ASSUME IInv, LInv, Remember, NEW r \in Run, Alone(r), pc[r] = "save", pc'[r] = "cleanup",
         at' = at, NEW k \in SourceIndex, at[r] = k, NEW x \in {"ok", "failed"},
         x = IF failed'[r] THEN "failed" ELSE "ok"
  PROVE  asked' = asked /\ fate' = [fate EXCEPT ![r][k] = x] /\ LInv'
<1>1. ~Enters(r) /\ Returns(r) /\ FateAfter(r) = x
  BY DEF Enters, Returns, Dies, FateAfter
<1>2. asked' = asked /\ fate' = [fate EXCEPT ![r][k] = x]
  BY <1>1, OneRemembered DEF LInv
<1>3. HistoryOK'
  <2>1. x \in Log!Phase
    BY DEF Log!Phase
  <2>2. QED
    BY <1>2, <2>1 DEF LInv, HistoryOK
<1>4. Calls(r)'
  <2>1. /\ fate'[r][k] # "saving"
        /\ \A j \in SourceIndex : j # k => fate'[r][j] = fate[r][j]
    BY <1>2 DEF LInv, HistoryOK
  <2>2. QED
    BY <2>1 DEF LInv, Calls, BeforeSave, SourceIndex
<1>5. ASSUME NEW d \in Run, d # r PROVE Calls(d)'
  <2>1. asked'[d] = asked[d] /\ fate'[d] = fate[d]
    BY <1>2, <1>5 DEF LInv, HistoryOK
  <2>2. QED
    BY <1>5, <2>1, Elsewhere
<1>6. QED
  BY <1>2, <1>3, <1>4, <1>5 DEF LInv

\* It returns nil when the whole slice is on disk.
LEMMA SaveOkLogged ==
  ASSUME IInv, LInv, Remember, NEW r \in Run, SaveOk(r)
  PROVE  LInv' /\ [Log!Next]_(Log!vars)
<1>1. /\ TypeOK /\ pc[r] = "save" /\ at' = at /\ found' = found /\ failed' = failed
      /\ saved' = [saved EXCEPT ![r][at[r]] = found[r]]
  BY DEF IInv, SaveOk, SetSaved
<1>2. pc'[r] = "cleanup" /\ Alone(r)
  BY <1>1 DEF TypeOK, SaveOk, Goto, Alone
<1>3. failed'[r] = FALSE
  BY <1>1, Types DEF RunInv, Progress
<1>4. PICK k \in SourceIndex, m \in Count :
        /\ at[r] = k /\ found[r] = m /\ asked[r][k] = m /\ fate[r][k] = "saving"
        /\ saved \in [Run -> [SourceIndex -> Count]] /\ saved[r][k] <= m
        /\ <<r, k>> \in SaveCall
  BY <1>1, OpenCall
<1>5. asked' = asked /\ fate' = [fate EXCEPT ![r][k] = "ok"] /\ LInv'
  BY <1>1, <1>2, <1>3, <1>4, CallCloses
<1>6. Disk' = Disk \cup Log!Prefix(<<r, k>>, m)
  BY <1>1, <1>4, DiskGrows
<1>7. [c \in SaveCall |-> fate'[c[1]][c[2]]]
        = [[c \in SaveCall |-> fate[c[1]][c[2]]] EXCEPT ![<<r, k>>] = "ok"]
  BY <1>5, FateEntry DEF LInv
<1>8. /\ [c \in SaveCall |-> fate[c[1]][c[2]]][<<r, k>>] = "saving"
      /\ [c \in SaveCall |-> asked[c[1]][c[2]]][<<r, k>>] = m
  BY <1>4
<1>9. Log!Succeed(<<r, k>>)
  BY <1>5, <1>6, <1>7, <1>8 DEF Log!Succeed, Disk
<1>10. QED
  BY <1>4, <1>5, <1>9 DEF Log!Next

\* It returns an error when something is missing.
LEMMA SaveFailsLogged ==
  ASSUME IInv, LInv, Remember, NEW r \in Run, SaveFails(r)
  PROVE  LInv' /\ [Log!Next]_(Log!vars)
<1>1. /\ TypeOK /\ pc[r] = "save" /\ at' = at /\ found' = found /\ saved' = saved
      /\ saved[r][at[r]] < found[r]
  BY DEF IInv, SaveFails, OnDisk
<1>2. pc'[r] = "cleanup" /\ Alone(r) /\ failed'[r] = TRUE
  BY <1>1 DEF TypeOK, SaveFails, Goto, Alone
<1>3. PICK k \in SourceIndex, m \in Count :
        /\ at[r] = k /\ found[r] = m /\ asked[r][k] = m /\ fate[r][k] = "saving"
        /\ saved \in [Run -> [SourceIndex -> Count]] /\ saved[r][k] <= m
        /\ <<r, k>> \in SaveCall
  BY <1>1, OpenCall
<1>4. asked' = asked /\ fate' = [fate EXCEPT ![r][k] = "failed"] /\ LInv'
  BY <1>1, <1>2, <1>3, CallCloses
<1>5. [c \in SaveCall |-> fate'[c[1]][c[2]]]
        = [[c \in SaveCall |-> fate[c[1]][c[2]]] EXCEPT ![<<r, k>>] = "failed"]
  BY <1>4, FateEntry DEF LInv
<1>6. PICK j \in 0..MaxFound : saved[r][k] = j /\ j < m /\ <<<<r, k>>, j>> \notin Disk
  <2>1. saved[r][k] \in 0..MaxFound /\ saved[r][k] < m
    BY <1>1, <1>3 DEF Count
  <2>2. PICK j \in 0..MaxFound : saved[r][k] = j
    BY <2>1
  <2>3. <<<<r, k>>, j>> \notin Disk
    BY <2>2 DEF Disk
  <2>4. QED
    BY <2>1, <2>2, <2>3
<1>7. /\ [c \in SaveCall |-> fate[c[1]][c[2]]][<<r, k>>] = "saving"
      /\ [c \in SaveCall |-> asked[c[1]][c[2]]][<<r, k>>] = m
  BY <1>3
<1>8. Log!Fail(<<r, k>>)
  BY <1>1, <1>4, <1>5, <1>6, <1>7 DEF Log!Fail, Disk
<1>9. QED
  BY <1>3, <1>4, <1>8 DEF Log!Next

\* The process ends with the calls that are open.
LEMMA ExitLogged ==
  ASSUME IInv, LInv, Remember, Exit
  PROVE  LInv' /\ [Log!Next]_(Log!vars)
<1>1. /\ pc' = [r \in Run |-> IF pc[r] \in Active THEN "gone" ELSE pc[r]]
      /\ at' = at /\ saved' = saved
  BY DEF Exit
<1>2. ASSUME NEW r \in Run
      PROVE  /\ ~Enters(r) /\ ~Returns(r) /\ (Dies(r) <=> pc[r] = "save")
             /\ pc'[r] # "save" /\ (pc'[r] \in BeforeSave => pc'[r] = pc[r])
  BY <1>1 DEF Enters, Returns, Dies, Active, InProcess, BeforeSave
<1>3. ASSUME NEW r \in Run, pc[r] = "save" PROVE FateAfter(r) = "gone"
  BY <1>2, <1>3 DEF FateAfter
<1>4. asked' = asked
  <2>1. asked' = [r \in Run |-> asked[r]]
    BY <1>2, Zenon DEF Remember
  <2>2. QED
    BY <2>1 DEF LInv, HistoryOK
<1>5. ASSUME NEW r \in Run
      PROVE  fate'[r] = IF pc[r] = "save" THEN [fate[r] EXCEPT ![at[r]] = "gone"] ELSE fate[r]
  BY <1>2, <1>3 DEF Remember
<1>6. ASSUME NEW r \in Run, NEW k \in SourceIndex
      PROVE  fate'[r][k] = IF fate[r][k] = "saving" THEN "gone" ELSE fate[r][k]
  <2>1. /\ fate[r] \in [SourceIndex -> Log!Phase]
        /\ (fate[r][k] = "saving" <=> pc[r] = "save" /\ k = at[r])
    BY DEF LInv, HistoryOK, Calls
  <2>2. QED
    BY <1>5, <2>1
<1>7. HistoryOK'
  <2>1. ASSUME NEW r \in Run PROVE fate'[r] \in [SourceIndex -> Log!Phase]
    <3>1. "gone" \in Log!Phase /\ fate[r] \in [SourceIndex -> Log!Phase]
      BY DEF Log!Phase, LInv, HistoryOK
    <3>2. QED
      BY <1>5, <3>1
  <2>2. fate' = [r \in Run |-> fate'[r]]
    BY DEF Remember
  <2>3. QED
    BY <1>4, <2>1, <2>2 DEF LInv, HistoryOK
<1>8. ASSUME NEW r \in Run PROVE Calls(r)'
  BY <1>1, <1>2, <1>6 DEF LInv, Calls
<1>9. Log!Vanish
  <2>1. ASSUME NEW c \in SaveCall PROVE c[1] \in Run /\ c[2] \in SourceIndex
    BY DEF SaveCall
  <2>2. [c \in SaveCall |-> fate'[c[1]][c[2]]]
          = [c \in SaveCall |-> IF [e \in SaveCall |-> fate[e[1]][e[2]]][c] = "saving" THEN "gone"
                                ELSE [e \in SaveCall |-> fate[e[1]][e[2]]][c]]
    BY <1>6, <2>1
  <2>3. QED
    BY <1>1, <1>4, <2>2 DEF Log!Vanish
<1>10. QED
  BY <1>7, <1>8, <1>9 DEF LInv, Log!Next

\* The other steps are outside the calls.
LEMMA OtherStepsOutside ==
  ASSUME IInv, NEW r \in Run,
         \/ \E n \in 0..MaxSources : Start(r, n)
         \/ Load(r) \/ CreateTemp(r) \/ WriteTemp(r) \/ CheckBegin(r) \/ Cleanup(r)
         \/ ReportError(r) \/ ReportOk(r) \/ Notify(r)
  PROVE  saved' = saved /\ \A d \in Run : Outside(d)
<1> USE DEF Goto, FailNow, Outside, BeforeSave, NextSource
<1>1. TypeOK
  BY DEF IInv
<1>2. ASSUME NEW n \in 0..MaxSources, Start(r, n) PROVE saved' = saved /\ \A d \in Run : Outside(d)
  BY <1>1, <1>2 DEF TypeOK, Start
<1>3. CASE Load(r)
  BY <1>1, <1>3 DEF TypeOK, Load
<1>4. CASE CreateTemp(r)
  BY <1>1, <1>4 DEF TypeOK, CreateTemp
<1>5. CASE WriteTemp(r)
  BY <1>1, <1>5 DEF TypeOK, WriteTemp
<1>6. CASE CheckBegin(r)
  BY <1>1, <1>6 DEF TypeOK, CheckBegin
<1>7. CASE Cleanup(r)
  BY <1>1, <1>7 DEF TypeOK, Cleanup
<1>8. CASE ReportError(r)
  BY <1>1, <1>8 DEF TypeOK, ReportError
<1>9. CASE ReportOk(r)
  BY <1>1, <1>9 DEF TypeOK, ReportOk
<1>10. CASE Notify(r)
  BY <1>1, <1>10 DEF TypeOK, Notify
<1>11. QED
  BY <1>2, <1>3, <1>4, <1>5, <1>6, <1>7, <1>8, <1>9, <1>10

\* Every step keeps what the history says, and is a step of the log or none.
LEMMA LoggedStep ==
  IInv /\ LInv /\ [Next /\ Remember]_loggedVars => LInv' /\ [Log!Next]_(Log!vars)
<1> SUFFICES ASSUME IInv, LInv, [Next /\ Remember]_loggedVars
             PROVE  LInv' /\ [Log!Next]_(Log!vars)
  OBVIOUS
<1>1. CASE UNCHANGED loggedVars
  <2>1. asked' = asked /\ fate' = fate /\ saved' = saved /\ UNCHANGED vars
    BY <1>1 DEF loggedVars, vars
  <2>2. LInv'
    BY <2>1 DEF vars, LInv, HistoryOK, Calls
  <2>3. QED
    BY <2>1, <2>2, LogUnchanged
<1>2. ASSUME NEW r \in Run, Remember, (\E n \in 0..MaxSources : Start(r, n)) \/ Step(r)
      PROVE  LInv' /\ [Log!Next]_(Log!vars)
  <2>1. CASE CheckReturn(r) \/ SaveSome(r) \/ SaveOk(r) \/ SaveFails(r)
    BY <1>2, <2>1, CheckReturnLogged, SaveSomeLogged, SaveOkLogged, SaveFailsLogged
  <2>2. CASE ~(CheckReturn(r) \/ SaveSome(r) \/ SaveOk(r) \/ SaveFails(r))
    <3>1. saved' = saved /\ \A d \in Run : Outside(d)
      BY <1>2, <2>2, OtherStepsOutside DEF Step
    <3>2. QED
      BY <1>2, <3>1, OutsideStep
  <2>3. QED
    BY <2>1, <2>2
<1>3. CASE Remember /\ Exit
  BY <1>3, ExitLogged
<1>4. CASE Remember /\ (Cancel \/ CloseStore \/ Finished)
  <2>1. saved' = saved /\ pc' = pc /\ at' = at /\ found' = found
    BY <1>4 DEF Cancel, CloseStore, Finished, vars
  <2>2. \A d \in Run : Outside(d)
    BY <2>1 DEF Outside
  <2>3. QED
    BY <1>4, <2>1, <2>2, OutsideStep
<1>5. QED
  BY <1>1, <1>2, <1>3, <1>4 DEF Next

\* Every save of every Run is a call as ViolationLog allows it: handed over
\* once, on disk as a growing prefix, and followed without an error only if
\* all of it is there.
THEOREM RunsSaveAsLogged == LoggedSpec => SavesLogged
<1>1. LoggedInit => Init
  BY DEF LoggedInit
<1>2. [Next /\ Remember]_loggedVars => [Next]_vars
  BY DEF loggedVars
<1>3. QED
  BY <1>1, <1>2, InitIInv, NextIInv, InitLInv, InitLog, LoggedStep, PTL
     DEF LoggedSpec, SavesLogged, Log!Spec

-----------------------------------------------------------------------------
(***************************************************************************)
(* What the Runs promise to whoever starts them.  It survives the death of *)
(* the process, which the daemon ends with.                                *)
(***************************************************************************)
Promises ==
  /\ TypeOK /\ ResultsTruthful /\ TempFileLifetime /\ AlertsBacked /\ CancelStopsIngest
  /\ RecordedAgrees

Kept == IInv /\ RecordedAgrees

LEMMA KeptInit == Init => Kept
  BY InitIInv, InitRecorded DEF Kept

LEMMA KeptNext == Kept /\ (Next \/ Vanish \/ UNCHANGED vars) => Kept'
<1>1. Kept /\ Vanish => Kept'
  <2> SUFFICES ASSUME Kept, Vanish, NEW r \in Run PROVE Account(r)'
    BY VanishInv DEF Kept, RecordedAgrees, Account
  <2>1. recorded' = recorded /\ results' = results /\ found' = found
        /\ pc'[r] \in {"gone", pc[r]}
    BY DEF Vanish
  <2>2. QED
    BY <2>1 DEF Kept, RecordedAgrees, Account
<1>2. QED
  BY <1>1, NextIInv, NextRecorded DEF Kept

LEMMA KeptPromises == Kept => Promises
  BY ResultsTruthfulHolds, TempFileLifetimeHolds, AlertsBackedHolds, CancelStopsIngestHolds
     DEF Kept, Promises, IInv
=============================================================================
