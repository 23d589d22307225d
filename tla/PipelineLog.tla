---------------------------- MODULE PipelineLog ----------------------------
(***************************************************************************)
(* The saves of pipeline.Run, as calls of SaveViolations: one for each     *)
(* source whose check returned.  Pipeline says what a save does step by    *)
(* step and forgets about it when it goes on; two history variables        *)
(* remember what each call was given and what became of it, so that the    *)
(* calls of all Runs can be compared with what ViolationLog allows and     *)
(* ViolationStore implements.                                              *)
(***************************************************************************)
EXTENDS Pipeline

VARIABLES asked,  \* asked[r][k]: len(violations) of the call for source k (history)
          fate    \* fate[r][k]: where that call is, or how it ended (history)

loggedVars == <<vars, asked, fate>>

LoggedInit ==
  /\ Init
  /\ asked = [r \in Run |-> [k \in SourceIndex |-> 0]]
  /\ fate = [r \in Run |-> [k \in SourceIndex |-> "idle"]]

\* The step of Run r enters SaveViolations, or leaves it: with nil, with an
\* error, or because the process ends.
Enters(r) == pc[r] = "checking" /\ pc'[r] = "save"
Returns(r) == pc[r] = "save" /\ pc'[r] = "cleanup"
Dies(r) == pc[r] = "save" /\ pc'[r] = "gone"

FateAfter(r) ==
  CASE Enters(r) -> "saving"
    [] Dies(r) -> "gone"
    [] OTHER -> IF failed'[r] THEN "failed" ELSE "ok"

\* What is remembered of a step.
Remember ==
  /\ asked' = [r \in Run |-> IF Enters(r) THEN [asked[r] EXCEPT ![at[r]] = found'[r]] ELSE asked[r]]
  /\ fate' = [r \in Run |-> IF Enters(r) \/ Returns(r) \/ Dies(r)
                            THEN [fate[r] EXCEPT ![at[r]] = FateAfter(r)] ELSE fate[r]]

LoggedSpec == LoggedInit /\ [][Next /\ Remember]_loggedVars

LoggedFairSpec == LoggedSpec /\ \A r \in Run : WF_vars(Proceed(r))

-----------------------------------------------------------------------------

SaveCall == Run \X SourceIndex

Log == INSTANCE ViolationLog WITH
  Call <- SaveCall, MaxLen <- MaxFound,
  phase <- [c \in SaveCall |-> fate[c[1]][c[2]]],
  len <- [c \in SaveCall |-> asked[c[1]][c[2]]],
  db <- {v \in SaveCall \X Count : v[2] < saved[v[1][1]][v[1][2]]}

\* Every save of every Run, whatever fails, is cancelled or ends with the
\* process, is a call as ViolationLog allows it: a source's violations are
\* handed over once, what is on disk of them is a growing prefix, and process
\* goes on without an error only if it is all of them (pipeline.go, process).
SavesLogged == Log!Spec
=============================================================================
