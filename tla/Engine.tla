------------------------------- MODULE Engine -------------------------------
(***************************************************************************)
(* The engine of a program: --grpc-addr chooses once, at its start         *)
(* (cmd/dataguard/main.go), between the subprocess (EngineExec) and the    *)
(* gRPC server (EngineRpc).  Both answer the same calls.                   *)
(***************************************************************************)
EXTENDS Integers, FiniteSets

CONSTANTS Call, Analyzing, MaxFound, BinIsAbsolute, MaxMsg, PoolSize, CsvPath, RulesPath

ASSUME FoundAssumption == MaxFound \in Nat
ASSUME MsgAssumption == MaxMsg \in Nat
ASSUME PoolAssumption == PoolSize \in Nat \ {0}
ASSUME FlagsAssumption == BinIsAbsolute \in BOOLEAN
ASSUME AnalyzingAssumption == Analyzing \subseteq Call

VARIABLES runner,                   \* the engine that was chosen
          call, due, answer, file,  \* as in Checker
          proc, out, cancelled,     \* as in EngineExec
          req, handler, reply, task, threads, found  \* as in EngineRpc

callVars == <<call, due, answer, file>>
execVars == <<proc, out, cancelled>>
rpcVars == <<req, reply, handler, task, threads, found>>
vars == <<runner, callVars, execVars, rpcVars>>

Exec == INSTANCE EngineExec
Rpc == INSTANCE EngineRpc

TypeOK == runner \in {"exec", "grpc"} /\ Exec!TypeOK /\ Rpc!TypeOK

Init == runner \in {"exec", "grpc"} /\ Exec!Init /\ Rpc!Init

ExecStep(A) == runner = "exec" /\ A /\ UNCHANGED <<runner, rpcVars>>
RpcStep(A) == runner = "grpc" /\ A /\ UNCHANGED <<runner, execVars>>

Next == ExecStep(Exec!Next) \/ RpcStep(Rpc!Next)

Spec == Init /\ [][Next]_vars

(***************************************************************************)
(* The Go side and the kernel go on: a kill takes effect, a subprocess     *)
(* that ended is noticed, and a deadline passes.  Nothing is asked of the  *)
(* engine, which may hang.                                                 *)
(***************************************************************************)
FairSpec ==
  /\ Spec
  /\ \A c \in Call :
       /\ WF_vars(ExecStep(Exec!Kill(c))) /\ WF_vars(ExecStep(Exec!Return(c)))
       /\ WF_vars(RpcStep(Rpc!GiveUp(c)))

-----------------------------------------------------------------------------
(* Properties.                                                             *)

Promise == INSTANCE Checker

\* A call returns an error or the whole result for its file, whichever engine
\* it goes to: although a process is killed or fails with a part of its
\* output written, a request or reply is lost, the server restarts, a timeout
\* races with the answer, or the file is removed under a task that is still
\* reading it; and the file is removed only after the call returned.
CheckerSpec == Promise!Spec

\* Over gRPC every call returns, however the network and the server behave
\* (grpc_client.go:21-24), and a subprocess call whose context is cancelled
\* does, even when the engine hangs (engine.go:68).
EveryCallReturns ==
  \A c \in Call :
    call[c] = "checking" /\ (runner = "grpc" \/ c \in cancelled) ~> call[c] \in {"ok", "failed"}
=============================================================================
