------------------------------- MODULE Checker -------------------------------
(***************************************************************************)
(* What the callers of an engine rely on (pipeline.process for Check, the  *)
(* lineage handler for Analyze): a call returns once, with an error or     *)
(* with the whole result for the file it was given, and the pipeline's     *)
(* temporary CSV is removed only after the call returned.                  *)
(***************************************************************************)
EXTENDS Naturals

CONSTANTS Call,      \* the calls of Check and Analyze
          MaxFound   \* bound on the size of a result

VARIABLES call,      \* call[c]: where the call is
          due,       \* due[c]: the size of the result for its file
          answer,    \* answer[c]: the size of the result it returned
          file       \* the calls whose file exists

vars == <<call, due, answer, file>>

CallState == {"idle", "checking", "ok", "failed"}

TypeOK ==
  /\ call \in [Call -> CallState]
  /\ due \in [Call -> 0..MaxFound]
  /\ answer \in [Call -> 0..MaxFound]
  /\ file \subseteq Call

Init ==
  /\ call = [c \in Call |-> "idle"]
  /\ due = [c \in Call |-> 0]
  /\ answer = [c \in Call |-> 0]
  /\ file = {}

\* The file is there and the engine is called.
Ask(c) ==
  /\ call[c] = "idle"
  /\ call' = [call EXCEPT ![c] = "checking"]
  /\ \E n \in 0..MaxFound : due' = [due EXCEPT ![c] = n]
  /\ file' = file \cup {c}
  /\ UNCHANGED answer

\* The call returns a result of size n.
Return(c, n) ==
  /\ call[c] = "checking"
  /\ call' = [call EXCEPT ![c] = "ok"]
  /\ answer' = [answer EXCEPT ![c] = n]
  /\ UNCHANGED <<due, file>>

Answer(c) == Return(c, due[c])

Fail(c) ==
  /\ call[c] = "checking"
  /\ call' = [call EXCEPT ![c] = "failed"]
  /\ UNCHANGED <<due, answer, file>>

\* The deferred cleanup of process.
Remove(c) ==
  /\ c \in file
  /\ call[c] \in {"ok", "failed"}
  /\ file' = file \ {c}
  /\ UNCHANGED <<call, due, answer>>

Next == \E c \in Call : Ask(c) \/ Answer(c) \/ Fail(c) \/ Remove(c)

Spec == Init /\ [][Next]_vars
=============================================================================
