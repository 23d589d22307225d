----------------------------- MODULE EngineExec -----------------------------
(***************************************************************************)
(* engine.Runner (go-ingestion/internal/engine/engine.go): Check and       *)
(* Analyze start the engine as a subprocess, collect its standard output   *)
(* and take it for the result when the process has ended with status zero. *)
(* The call's context kills the process; there is no deadline.             *)
(*                                                                         *)
(* The subprocess is EngineCommand, of which only the output is kept here: *)
(* it writes the due[c] elements of its result and the closing bracket,    *)
(* and can fail or hang at any point.                                      *)
(***************************************************************************)
EXTENDS Integers

CONSTANTS Call,         \* the calls
          Analyzing,    \* those of Analyze
          MaxFound,     \* bound on the size of a result
          BinIsAbsolute \* whether --engine-bin is an absolute path; its default is not

VARIABLES call, due, answer, file,   \* as in Checker
          proc,                      \* proc[c]: the subprocess
          out,                       \* out[c]: elements, then the bracket, in stdout
          cancelled                  \* the calls whose context is cancelled

callVars == <<call, due, answer, file>>
vars == <<call, due, answer, file, proc, out, cancelled>>

Caller == INSTANCE Checker

TypeOK ==
  /\ Caller!TypeOK
  /\ proc \in [Call -> {"none", "refused", "running", "success", "error", "killed"}]
  /\ out \in [Call -> 0..(MaxFound + 1)]
  /\ cancelled \subseteq Call

Init ==
  /\ Caller!Init
  /\ proc = [c \in Call |-> "none"]
  /\ out = [c \in Call |-> 0]
  /\ cancelled = {}

\* run: a relative Bin is refused, and with a cancelled context no process is
\* started; the start can fail.
Run(c) ==
  /\ Caller!Ask(c)
  /\ \E p \in IF ~BinIsAbsolute THEN {"refused"}
              ELSE IF c \in cancelled THEN {"killed"} ELSE {"running", "error"} :
       proc' = [proc EXCEPT ![c] = p]
  /\ UNCHANGED <<out, cancelled>>

Check(c) == c \notin Analyzing /\ Run(c)
Analyze(c) == c \in Analyzing /\ Run(c)

Write(c) ==
  /\ proc[c] = "running"
  /\ out[c] <= due[c]
  /\ out' = [out EXCEPT ![c] = @ + 1]
  /\ UNCHANGED <<callVars, proc, cancelled>>

\* The subprocess ends by itself: with status zero only after all its output.
ProcessEnds(c) ==
  /\ proc[c] = "running"
  /\ \E p \in {"success", "error"} :
       /\ p = "success" => out[c] = due[c] + 1
       /\ proc' = [proc EXCEPT ![c] = p]
  /\ UNCHANGED <<callVars, out, cancelled>>

\* exec.CommandContext kills the process.
Kill(c) ==
  /\ proc[c] = "running"
  /\ c \in cancelled
  /\ proc' = [proc EXCEPT ![c] = "killed"]
  /\ UNCHANGED <<callVars, out, cancelled>>

\* cmd.Run returned without an error.
Accepted(c) == proc[c] = "success"

\* run returns; the elements of its output are the result.
Return(c) ==
  /\ proc[c] # "running"
  /\ \/ Accepted(c) /\ Caller!Return(c, out[c] - 1)
     \/ ~Accepted(c) /\ Caller!Fail(c)
  /\ UNCHANGED <<proc, out, cancelled>>

\* The deferred cleanup of process; the SQL file of Analyze stays.
Remove(c) ==
  /\ c \notin Analyzing
  /\ Caller!Remove(c)
  /\ UNCHANGED <<proc, out, cancelled>>

\* The context of a call is cancelled.
Cancel(c) ==
  /\ c \notin cancelled
  /\ cancelled' = cancelled \cup {c}
  /\ UNCHANGED <<callVars, proc, out>>

Next ==
  \E c \in Call :
    \/ Check(c) \/ Analyze(c) \/ Write(c) \/ ProcessEnds(c) \/ Kill(c) \/ Return(c)
    \/ Remove(c) \/ Cancel(c)

Spec == Init /\ [][Next]_vars
=============================================================================
