------------------------------ MODULE EngineRpc ------------------------------
(***************************************************************************)
(* The engine behind gRPC: GrpcRunner.Check and Analyze with their         *)
(* deadline (go-ingestion/internal/engine/grpc_client.go) and the handlers *)
(* of the Rust server (rust-engine/src/grpc.rs), which run check_file and  *)
(* lineage::analyze as tasks on the blocking thread pool and wait for them *)
(* no longer than SERVER_SIDE_TIMEOUT.                                     *)
(*                                                                         *)
(* External: the network, which loses requests and replies and breaks      *)
(* connections; tonic, which drops the handler of a call its client gave   *)
(* up; tokio, whose pool has PoolSize threads, queues what exceeds them,   *)
(* and cannot interrupt a task.  CheckFile has the task in detail.         *)
(***************************************************************************)
EXTENDS Integers, FiniteSets

CONSTANTS Call,          \* the calls
          Analyzing,     \* those of Analyze
          MaxFound,      \* bound on the size of a result
          MaxMsg,        \* the size that fits in a message (MaxMsgSize)
          PoolSize,      \* the threads of the blocking pool
          CsvPath,       \* the paths a temporary CSV may have: that of os.TempDir(),
                         \* where it is without --tmp, is absolute
          RulesPath      \* the paths of --rules
                         \* a path: [absolute, parent (it has a ".."), ext]

VARIABLES call, due, answer, file,  \* as in Checker
          req,      \* req[c]: the request on the wire
          handler,  \* handler[c]: the server's handler
          reply,    \* reply[c]: its reply on the wire
          task,     \* task[c]: the blocking task
          threads,  \* the tasks that occupy a thread of the pool
          found     \* found[c]: the size of a task's result

callVars == <<call, due, answer, file>>
serverVars == <<handler, task, threads, found>>
vars == <<callVars, req, reply, serverVars>>

Caller == INSTANCE Checker

Reading == {"first", "second", "eval"}

TypeOK ==
  /\ Caller!TypeOK
  /\ req \in [Call -> {"none", "sent", "lost", "served"}]
  /\ handler \in [Call -> {"none", "refused", "awaiting", "answered", "timedout", "dropped"}]
  /\ reply \in [Call -> {"none", "ok", "error", "lost"}]
  /\ task \in [Call -> {"none", "queued", "done", "failed", "gone"} \cup Reading]
  /\ threads \subseteq Call
  /\ found \in [Call -> 0..MaxFound]

Init ==
  /\ Caller!Init
  /\ req = [c \in Call |-> "none"]
  /\ handler = [c \in Call |-> "none"]
  /\ reply = [c \in Call |-> "none"]
  /\ task = [c \in Call |-> "none"]
  /\ threads = {}
  /\ found = [c \in Call |-> 0]

-----------------------------------------------------------------------------
(* GrpcRunner                                                              *)

Send(c) ==
  /\ Caller!Ask(c)
  /\ req' = [req EXCEPT ![c] = "sent"]
  /\ UNCHANGED <<reply, serverVars>>

Check(c) == c \notin Analyzing /\ Send(c)
Analyze(c) == c \in Analyzing /\ Send(c)

\* The reply arrives: one that is too large is an error.
Receive(c) ==
  /\ \/ reply[c] = "ok" /\ found[c] <= MaxMsg /\ Caller!Return(c, found[c])
     \/ reply[c] = "error" /\ Caller!Fail(c)
     \/ reply[c] = "ok" /\ found[c] > MaxMsg /\ Caller!Fail(c)
  /\ UNCHANGED <<req, reply, serverVars>>

\* A variant without a deadline of its own.
GiveUp_Never(c) == FALSE

\* The deadline passes, the context is cancelled or the connection breaks.  The
\* deadline is DefaultRPCTimeout: no caller has a context with one of its own,
\* which would take its place.
GiveUp(c) ==
  /\ Caller!Fail(c)
  /\ UNCHANGED <<req, reply, serverVars>>

\* The deferred cleanup of process; the SQL file of Analyze stays.
Remove(c) ==
  /\ c \notin Analyzing
  /\ Caller!Remove(c)
  /\ UNCHANGED <<req, reply, serverVars>>

-----------------------------------------------------------------------------
(* DataGuard::check and DataGuard::analyze                                 *)

ValidatePath(p, exts) == ~p.absolute /\ ~p.parent /\ p.ext \in exts

\* The path of Analyze is a relative one of an .sql file (validateSQLPath).
ValidRequest(c, csv, rules) ==
  c \in Analyzing \/ (ValidatePath(csv, {"csv"}) /\ ValidatePath(rules, {"yaml", "yml"}))

\* The task is spawned, or a path refused.
Handle(c) ==
  /\ req[c] = "sent"
  /\ req' = [req EXCEPT ![c] = "served"]
  /\ \E csv \in CsvPath, rules \in RulesPath :
       IF ValidRequest(c, csv, rules)
         THEN /\ handler' = [handler EXCEPT ![c] = "awaiting"]
              /\ task' = [task EXCEPT ![c] = "queued"]
              /\ UNCHANGED reply
         ELSE /\ handler' = [handler EXCEPT ![c] = "refused"]
              /\ reply' = [reply EXCEPT ![c] = "error"]
              /\ UNCHANGED task
  /\ UNCHANGED <<callVars, threads, found>>

\* The handler ends, with or without a reply.
EndHandler(c, how, r) ==
  /\ handler[c] = "awaiting"
  /\ handler' = [handler EXCEPT ![c] = how]
  /\ reply' = [reply EXCEPT ![c] = r]
  /\ UNCHANGED <<callVars, req, task, threads, found>>

\* A variant that answers as soon as the task has opened the file.
HasResult_Early(c) == task[c] \in Reading \cup {"done"}

HasResult(c) == task[c] = "done"

\* The task's result is the handler's.
Respond(c) ==
  \/ HasResult(c) /\ EndHandler(c, "answered", "ok")
  \/ task[c] = "failed" /\ EndHandler(c, "answered", "error")

\* tokio::time::timeout elapses; the task goes on.
ServerTimeout(c) == EndHandler(c, "timedout", "error")

\* The client gave up: tonic drops the handler; the task goes on.
DropHandler(c) == call[c] = "failed" /\ EndHandler(c, "dropped", reply[c])

-----------------------------------------------------------------------------
(* The task.                                                               *)

EndTask(c, end) ==
  /\ task' = [task EXCEPT ![c] = end]
  /\ threads' = threads \ {c}

StartTask(c) ==
  /\ task[c] = "queued"
  /\ Cardinality(threads) < PoolSize
  /\ task' = [task EXCEPT ![c] = "first"]
  /\ threads' = threads \cup {c}
  /\ UNCHANGED <<callVars, req, handler, reply, found>>

\* A handle is opened, and what is read of the file comes next.
ReadOn(c, now, later) ==
  /\ task[c] = now
  /\ \/ c \in file /\ (\E next \in later : task' = [task EXCEPT ![c] = next]) /\ UNCHANGED threads
     \/ c \notin file /\ EndTask(c, "failed")
  /\ UNCHANGED <<callVars, req, handler, reply, found>>

\* check_file opens the file, and again if there is a `count` rule; the SQL
\* file is read at once.
OpenFile(c) == ReadOn(c, "first", IF c \in Analyzing THEN {"eval"} ELSE {"second", "eval"})
ReopenFile(c) == ReadOn(c, "second", {"eval"})

\* The evaluation ends: a result, an error or a panic.
FinishTask(c) ==
  /\ task[c] = "eval"
  /\ \/ EndTask(c, "done") /\ found' = [found EXCEPT ![c] = due[c]]
     \/ EndTask(c, "failed") /\ UNCHANGED found
  /\ UNCHANGED <<callVars, req, handler, reply>>

TaskStep(c) == StartTask(c) \/ OpenFile(c) \/ ReopenFile(c) \/ FinishTask(c)

-----------------------------------------------------------------------------
(* The network and the server's process.                                   *)

LoseRequest(c) ==
  /\ req[c] = "sent"
  /\ req' = [req EXCEPT ![c] = "lost"]
  /\ UNCHANGED <<callVars, reply, serverVars>>

LoseReply(c) ==
  /\ reply[c] \in {"ok", "error"}
  /\ reply' = [reply EXCEPT ![c] = "lost"]
  /\ UNCHANGED <<callVars, req, serverVars>>

\* The server dies with its handlers and tasks, and is started again.
Restart ==
  /\ \E c \in Call : handler[c] = "awaiting" \/ task[c] \in Reading \cup {"queued"}
  /\ handler' = [c \in Call |-> IF handler[c] = "awaiting" THEN "dropped" ELSE handler[c]]
  /\ task' = [c \in Call |-> IF task[c] \in Reading \cup {"queued"} THEN "gone" ELSE task[c]]
  /\ threads' = {}
  /\ UNCHANGED <<callVars, req, reply, found>>

Next ==
  \/ \E c \in Call :
       \/ Check(c) \/ Analyze(c) \/ Receive(c) \/ GiveUp(c) \/ Remove(c)
       \/ Handle(c) \/ Respond(c) \/ ServerTimeout(c) \/ DropHandler(c)
       \/ TaskStep(c) \/ LoseRequest(c) \/ LoseReply(c)
  \/ Restart

Spec == Init /\ [][Next]_vars
=============================================================================
