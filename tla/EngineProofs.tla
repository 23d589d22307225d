---------------------------- MODULE EngineProofs ----------------------------
(***************************************************************************)
(* Theorems about Engine.  Both engines implement Checker: that the result *)
(* of a call is the whole one rests, for the subprocess, on how much of    *)
(* the output is written when it ends with status zero, and, for the gRPC  *)
(* server, on what a reply on the wire says of the task behind it.         *)
(***************************************************************************)
EXTENDS Engine, TLAPS

\* A subprocess ends with status zero only with its whole output written.
OutputWhole == \A c \in Call : proc[c] = "success" => out[c] = due[c] + 1

\* What a reply on the wire says: a handler that still waits has sent none,
\* and a good reply is the result of a task that is done.
ReplyTruthful ==
  \A c \in Call :
    /\ handler[c] \in {"none", "awaiting"} => reply[c] = "none"
    /\ reply[c] = "ok" => task[c] = "done"
    /\ task[c] = "done" => found[c] = due[c]
    /\ req[c] \in {"none", "sent", "lost"} => handler[c] = "none" /\ task[c] = "none"
    /\ call[c] = "idle" => req[c] = "none" /\ proc[c] = "none"

USE DEF callVars, execVars, rpcVars, Exec!vars, Exec!callVars, Rpc!vars, Rpc!callVars,
        Rpc!serverVars, Promise!vars

-----------------------------------------------------------------------------
(* Typing.                                                                 *)

\* The steps of the engines, for one call; a restart is one of any call.
ExecAction(c) ==
  \/ Exec!Check(c) \/ Exec!Analyze(c) \/ Exec!Write(c) \/ Exec!ProcessEnds(c)
  \/ Exec!Kill(c) \/ Exec!Return(c) \/ Exec!Remove(c) \/ Exec!Cancel(c)

RpcAction(c) ==
  \/ Rpc!Check(c) \/ Rpc!Analyze(c) \/ Rpc!Receive(c) \/ Rpc!GiveUp(c) \/ Rpc!Remove(c)
  \/ Rpc!Handle(c) \/ Rpc!Respond(c) \/ Rpc!ServerTimeout(c) \/ Rpc!DropHandler(c)
  \/ Rpc!TaskStep(c) \/ Rpc!LoseRequest(c) \/ Rpc!LoseReply(c) \/ Rpc!Restart

\* The steps that both engines take of the caller.
CallerStep(c) ==
  \/ Promise!Ask(c) \/ Promise!Fail(c) \/ Promise!Remove(c)
  \/ \E n \in 0..MaxFound : Promise!Return(c, n)

LEMMA CallerTyping ==
  ASSUME Promise!TypeOK, NEW c \in Call, CallerStep(c)
  PROVE  Promise!TypeOK'
BY DEF CallerStep, Promise!TypeOK, Promise!CallState, Promise!Ask, Promise!Fail,
       Promise!Remove, Promise!Return

ExecTypes ==
  /\ proc \in [Call -> {"none", "refused", "running", "success", "error", "killed"}]
  /\ out \in [Call -> 0..(MaxFound + 1)]
  /\ cancelled \subseteq Call

RpcTypes ==
  /\ req \in [Call -> {"none", "sent", "lost", "served"}]
  /\ handler \in [Call -> {"none", "refused", "awaiting", "answered", "timedout", "dropped"}]
  /\ reply \in [Call -> {"none", "ok", "error", "lost"}]
  /\ task \in [Call -> {"none", "queued", "done", "failed", "gone", "first", "second", "eval"}]
  /\ threads \subseteq Call
  /\ found \in [Call -> 0..MaxFound]

\* The inductive invariant.
IInv ==
  /\ runner \in {"exec", "grpc"}
  /\ Promise!TypeOK /\ ExecTypes /\ RpcTypes
  /\ OutputWhole /\ ReplyTruthful

LEMMA Types ==
  TypeOK <=> /\ runner \in {"exec", "grpc"} /\ Promise!TypeOK /\ ExecTypes /\ RpcTypes
<1>1. Rpc!TypeOK <=> Promise!TypeOK /\ RpcTypes
  <2>1. {"none", "queued", "done", "failed", "gone"} \cup Rpc!Reading
          = {"none", "queued", "done", "failed", "gone", "first", "second", "eval"}
    BY DEF Rpc!Reading
  <2> QED
    BY <2>1, Zenon DEF Rpc!TypeOK, Rpc!Caller!TypeOK, Rpc!Caller!CallState, Promise!TypeOK, Promise!CallState, RpcTypes
<1>2. Exec!TypeOK <=> Promise!TypeOK /\ ExecTypes
  BY Zenon DEF Exec!TypeOK, Exec!Caller!TypeOK, Exec!Caller!CallState, Promise!TypeOK, Promise!CallState, ExecTypes
<1> QED
  BY <1>1, <1>2, Zenon DEF TypeOK

\* A step of the subprocess engine, by the step of the caller it contains.
LEMMA ExecStepTypes ==
  ASSUME Promise!TypeOK, ExecTypes, NEW c \in Call, ExecAction(c)
  PROVE  ExecTypes'
<1> USE FoundAssumption DEF ExecTypes
<1>1. CASE Exec!Run(c)
  BY <1>1 DEF Exec!Run
<1>2. CASE Exec!Write(c)
  BY <1>2 DEF Exec!Write, Promise!TypeOK
<1>3. CASE Exec!ProcessEnds(c)
  BY <1>3 DEF Exec!ProcessEnds
<1>4. CASE Exec!Kill(c)
  BY <1>4 DEF Exec!Kill
<1>5. CASE Exec!Return(c) \/ Exec!Remove(c)
  BY <1>5 DEF Exec!Return, Exec!Remove
<1>6. CASE Exec!Cancel(c)
  BY <1>6 DEF Exec!Cancel
<1> QED
  BY <1>1, <1>2, <1>3, <1>4, <1>5, <1>6 DEF ExecAction, Exec!Check, Exec!Analyze

LEMMA RpcStepTypes ==
  ASSUME Promise!TypeOK, RpcTypes, NEW c \in Call, RpcAction(c)
  PROVE  RpcTypes'
<1> USE FoundAssumption DEF RpcTypes
<1>1. CASE Rpc!Send(c) \/ Rpc!Receive(c) \/ Rpc!GiveUp(c) \/ Rpc!Remove(c)
  BY <1>1 DEF Rpc!Send, Rpc!Receive, Rpc!GiveUp, Rpc!Remove
<1>2. CASE Rpc!Handle(c)
  BY <1>2 DEF Rpc!Handle
<1>3. CASE Rpc!Respond(c) \/ Rpc!ServerTimeout(c) \/ Rpc!DropHandler(c)
  BY <1>3 DEF Rpc!Respond, Rpc!ServerTimeout, Rpc!DropHandler, Rpc!EndHandler
<1>4. CASE Rpc!StartTask(c)
  BY <1>4 DEF Rpc!StartTask
<1>5. CASE Rpc!OpenFile(c) \/ Rpc!ReopenFile(c)
  BY <1>5 DEF Rpc!OpenFile, Rpc!ReopenFile, Rpc!ReadOn, Rpc!EndTask
<1>6. CASE Rpc!FinishTask(c)
  BY <1>6 DEF Rpc!FinishTask, Rpc!EndTask, Promise!TypeOK
<1>7. CASE Rpc!LoseRequest(c) \/ Rpc!LoseReply(c)
  BY <1>7 DEF Rpc!LoseRequest, Rpc!LoseReply
<1>8. CASE Rpc!Restart
  BY <1>8 DEF Rpc!Restart
<1> QED
  BY <1>1, <1>2, <1>3, <1>4, <1>5, <1>6, <1>7, <1>8
  DEF RpcAction, Rpc!Check, Rpc!Analyze, Rpc!TaskStep

-----------------------------------------------------------------------------
(* The steps of the engines as steps of Checker.                           *)

\* What a step of either engine is to the caller.
PromiseStep(c) ==
  \/ Promise!Ask(c) \/ Promise!Answer(c) \/ Promise!Fail(c) \/ Promise!Remove(c)
  \/ UNCHANGED callVars

LEMMA PromiseTyping ==
  ASSUME Promise!TypeOK, NEW c \in Call, PromiseStep(c)
  PROVE  Promise!TypeOK'
<1>1. Promise!Answer(c) => CallerStep(c)
  BY DEF Promise!Answer, CallerStep, Promise!TypeOK
<1>2. CASE UNCHANGED callVars
  BY <1>2 DEF Promise!TypeOK
<1> QED
  BY <1>1, <1>2, CallerTyping DEF PromiseStep, CallerStep

\* A process that ended well has written its whole output.
LEMMA ExecIsPromise ==
  ASSUME Promise!TypeOK, OutputWhole, NEW c \in Call, ExecAction(c)
  PROVE  PromiseStep(c)
<1> USE DEF PromiseStep
<1>1. CASE Exec!Run(c)
  BY <1>1 DEF Exec!Run, Exec!Caller!Ask, Promise!Ask
<1>2. CASE Exec!Return(c)
  <2>1. CASE Exec!Accepted(c) /\ Exec!Caller!Return(c, out[c] - 1)
    <3>1. out[c] - 1 = due[c]
      BY <2>1 DEF Exec!Accepted, OutputWhole, Promise!TypeOK
    <3> QED
      BY <2>1, <3>1 DEF Exec!Caller!Return, Promise!Answer, Promise!Return
  <2>2. CASE Exec!Caller!Fail(c)
    BY <2>2 DEF Exec!Caller!Fail, Promise!Fail
  <2> QED
    BY <1>2, <2>1, <2>2 DEF Exec!Return
<1>3. CASE Exec!Remove(c)
  BY <1>3 DEF Exec!Remove, Exec!Caller!Remove, Promise!Remove
<1>4. CASE Exec!Write(c) \/ Exec!ProcessEnds(c) \/ Exec!Kill(c) \/ Exec!Cancel(c)
  BY <1>4 DEF Exec!Write, Exec!ProcessEnds, Exec!Kill, Exec!Cancel
<1> QED
  BY <1>1, <1>2, <1>3, <1>4 DEF ExecAction, Exec!Check, Exec!Analyze

\* A good reply is the whole result of a task that is done.
LEMMA RpcIsPromise ==
  ASSUME Promise!TypeOK, ReplyTruthful, NEW c \in Call, RpcAction(c)
  PROVE  PromiseStep(c)
<1> USE DEF PromiseStep
<1>1. CASE Rpc!Send(c)
  BY <1>1 DEF Rpc!Send, Rpc!Caller!Ask, Promise!Ask
<1>2. CASE Rpc!Receive(c)
  <2>1. CASE reply[c] = "ok" /\ Rpc!Caller!Return(c, found[c])
    BY <2>1 DEF Rpc!Caller!Return, Promise!Answer, Promise!Return, ReplyTruthful
  <2>2. CASE Rpc!Caller!Fail(c)
    BY <2>2 DEF Rpc!Caller!Fail, Promise!Fail
  <2> QED
    BY <1>2, <2>1, <2>2 DEF Rpc!Receive
<1>3. CASE Rpc!GiveUp(c)
  BY <1>3 DEF Rpc!GiveUp, Rpc!Caller!Fail, Promise!Fail
<1>4. CASE Rpc!Remove(c)
  BY <1>4 DEF Rpc!Remove, Rpc!Caller!Remove, Promise!Remove
<1>5. CASE Rpc!Handle(c) \/ Rpc!Respond(c) \/ Rpc!ServerTimeout(c) \/ Rpc!DropHandler(c)
  BY <1>5 DEF Rpc!Handle, Rpc!Respond, Rpc!ServerTimeout, Rpc!DropHandler, Rpc!EndHandler
<1>6. CASE Rpc!TaskStep(c)
  BY <1>6 DEF Rpc!TaskStep, Rpc!StartTask, Rpc!OpenFile, Rpc!ReopenFile, Rpc!ReadOn, Rpc!FinishTask
<1>7. CASE Rpc!LoseRequest(c) \/ Rpc!LoseReply(c) \/ Rpc!Restart
  BY <1>7 DEF Rpc!LoseRequest, Rpc!LoseReply, Rpc!Restart
<1> QED
  BY <1>1, <1>2, <1>3, <1>4, <1>5, <1>6, <1>7 DEF RpcAction, Rpc!Check, Rpc!Analyze

-----------------------------------------------------------------------------
(* The invariant is kept.                                                  *)

LEMMA ExecKeepsOutput ==
  ASSUME Promise!TypeOK, ExecTypes, OutputWhole, ReplyTruthful, NEW c \in Call, ExecAction(c)
  PROVE  OutputWhole'
<1> USE DEF OutputWhole, ExecTypes, Promise!TypeOK
<1>1. CASE Exec!Run(c)
  BY <1>1 DEF Exec!Run, Exec!Caller!Ask
<1>2. CASE Exec!Write(c)
  BY <1>2 DEF Exec!Write
<1>3. CASE Exec!ProcessEnds(c)
  BY <1>3 DEF Exec!ProcessEnds
<1>4. CASE Exec!Kill(c) \/ Exec!Cancel(c)
  BY <1>4 DEF Exec!Kill, Exec!Cancel
<1>5. CASE Exec!Return(c) \/ Exec!Remove(c)
  BY <1>5 DEF Exec!Return, Exec!Remove, Exec!Caller!Return, Exec!Caller!Fail, Exec!Caller!Remove
<1> QED
  BY <1>1, <1>2, <1>3, <1>4, <1>5 DEF ExecAction, Exec!Check, Exec!Analyze

\* A call that is asked has no task yet, so that the size of its result is
\* still free.
LEMMA ExecKeepsReply ==
  ASSUME Promise!TypeOK, ExecTypes, RpcTypes, ReplyTruthful, NEW c \in Call, ExecAction(c),
         UNCHANGED rpcVars
  PROVE  ReplyTruthful'
<1> USE DEF ReplyTruthful, ExecTypes, RpcTypes, Promise!TypeOK
<1>1. CASE Exec!Run(c)
  BY <1>1 DEF Exec!Run, Exec!Caller!Ask
<1>2. CASE Exec!Write(c) \/ Exec!ProcessEnds(c) \/ Exec!Kill(c) \/ Exec!Cancel(c)
  BY <1>2 DEF Exec!Write, Exec!ProcessEnds, Exec!Kill, Exec!Cancel
<1>3. CASE Exec!Return(c) \/ Exec!Remove(c)
  BY <1>3 DEF Exec!Return, Exec!Remove, Exec!Caller!Return, Exec!Caller!Fail, Exec!Caller!Remove
<1> QED
  BY <1>1, <1>2, <1>3 DEF ExecAction, Exec!Check, Exec!Analyze
LEMMA RpcKeepsOutput ==
  ASSUME Promise!TypeOK, OutputWhole, ReplyTruthful, NEW c \in Call, PromiseStep(c),
         UNCHANGED execVars
  PROVE  OutputWhole'
BY DEF OutputWhole, ReplyTruthful, Promise!TypeOK, PromiseStep, Promise!Ask, Promise!Answer,
       Promise!Return, Promise!Fail, Promise!Remove

LEMMA RpcKeepsReply ==
  ASSUME Promise!TypeOK, ExecTypes, RpcTypes, ReplyTruthful, NEW c \in Call, RpcAction(c),
         UNCHANGED execVars
  PROVE  ReplyTruthful'
<1> USE DEF ReplyTruthful, RpcTypes, Promise!TypeOK
<1>1. CASE Rpc!Send(c)
  BY <1>1 DEF Rpc!Send, Rpc!Caller!Ask
<1>2. CASE Rpc!Receive(c) \/ Rpc!GiveUp(c) \/ Rpc!Remove(c)
  BY <1>2 DEF Rpc!Receive, Rpc!GiveUp, Rpc!Remove, Rpc!Caller!Return, Rpc!Caller!Fail,
              Rpc!Caller!Remove
<1>3. CASE Rpc!Handle(c)
  BY <1>3 DEF Rpc!Handle
<1>4. CASE Rpc!Respond(c) \/ Rpc!ServerTimeout(c) \/ Rpc!DropHandler(c)
  BY <1>4 DEF Rpc!Respond, Rpc!HasResult, Rpc!ServerTimeout, Rpc!DropHandler, Rpc!EndHandler
<1>5. CASE Rpc!StartTask(c) \/ Rpc!OpenFile(c) \/ Rpc!ReopenFile(c)
  BY <1>5 DEF Rpc!StartTask, Rpc!OpenFile, Rpc!ReopenFile, Rpc!ReadOn, Rpc!EndTask
<1>6. CASE Rpc!FinishTask(c)
  BY <1>6 DEF Rpc!FinishTask, Rpc!EndTask
<1>7. CASE Rpc!LoseRequest(c) \/ Rpc!LoseReply(c)
  BY <1>7 DEF Rpc!LoseRequest, Rpc!LoseReply
<1>8. CASE Rpc!Restart
  BY <1>8 DEF Rpc!Restart, Rpc!Reading
<1> QED
  BY <1>1, <1>2, <1>3, <1>4, <1>5, <1>6, <1>7, <1>8 DEF RpcAction, Rpc!Check, Rpc!Analyze, Rpc!TaskStep

\* A step of the program is one of the engine it has chosen, for some call.
LEMMA StepCases ==
  ASSUME Next
  PROVE  \E c \in Call : \/ ExecAction(c) /\ UNCHANGED <<runner, rpcVars>>
                         \/ RpcAction(c) /\ UNCHANGED <<runner, execVars>>
<1>1. CASE ExecStep(Exec!Next)
  BY <1>1 DEF ExecStep, Exec!Next, ExecAction
<1>2. CASE RpcStep(Rpc!Next)
  BY <1>2 DEF RpcStep, Rpc!Next, Rpc!Restart, RpcAction
<1> QED
  BY <1>1, <1>2 DEF Next

\* The steps of the engines are steps of Checker (engine.go, grpc_client.go
\* and grpc.rs against what pipeline.process relies on).
LEMMA Inductive ==
  ASSUME IInv, [Next]_vars
  PROVE  IInv' /\ [Promise!Next]_(Promise!vars)
<1> USE DEF IInv
<1>1. CASE UNCHANGED vars
  BY <1>1 DEF vars, Promise!TypeOK, ExecTypes, RpcTypes, OutputWhole, ReplyTruthful
<1>2. CASE Next
  <2>1. PICK c \in Call : \/ ExecAction(c) /\ UNCHANGED <<runner, rpcVars>>
                          \/ RpcAction(c) /\ UNCHANGED <<runner, execVars>>
    BY <1>2, StepCases
  <2>2. PromiseStep(c)
    BY <2>1, ExecIsPromise, RpcIsPromise
  <2>3. Promise!TypeOK'
    BY <2>2, PromiseTyping
  <2>4. ExecTypes' /\ RpcTypes' /\ runner' \in {"exec", "grpc"}
    BY <2>1, ExecStepTypes, RpcStepTypes DEF ExecTypes, RpcTypes
  <2>5. OutputWhole' /\ ReplyTruthful'
    BY <2>1, <2>2, ExecKeepsOutput, ExecKeepsReply, RpcKeepsOutput, RpcKeepsReply
  <2> QED
    BY <2>2, <2>3, <2>4, <2>5 DEF PromiseStep, Promise!Next
<1> QED
  BY <1>1, <1>2

\* The invariant holds at every moment.
THEOREM Invariance == Spec => []IInv
<1>1. Init => IInv
  BY FoundAssumption
  DEF Init, Exec!Init, Rpc!Init, Exec!Caller!Init, Rpc!Caller!Init, IInv, Promise!TypeOK,
      Promise!CallState, ExecTypes, RpcTypes, OutputWhole, ReplyTruthful
<1>2. IInv /\ [Next]_vars => IInv'
  BY Inductive
<1> QED
  BY <1>1, <1>2, PTL DEF Spec

\* The variables of both engines have their types.
THEOREM TypeCorrect == Spec => []TypeOK
<1>1. IInv => TypeOK
  BY Types DEF IInv
<1> QED
  BY <1>1, Invariance, PTL

\* Both engines implement Checker: a call returns an error or the whole result
\* (engine.go:44, grpc_client.go:155 and grpc.rs:43).
THEOREM Refinement == Spec => CheckerSpec
<1>1. Init => Promise!Init
  BY DEF Init, Exec!Init, Exec!Caller!Init, Promise!Init
<1>2. IInv /\ [Next]_vars => [Promise!Next]_(Promise!vars)
  BY Inductive
<1> QED
  BY <1>1, <1>2, Invariance, PTL DEF Spec, CheckerSpec, Promise!Spec
=============================================================================
