---------------------------- MODULE ViolationLog ----------------------------
(***************************************************************************)
(* What Store.SaveViolations promises, without its transactions.           *)
(*                                                                         *)
(* A call hands over a slice of len[c] violations; violation k of call c   *)
(* is the pair <<c, k>>, counted from 0 as the Go slice is (the engine     *)
(* gives every violation of a run its own id and every run its own temp    *)
(* file, so no two pairs share a key `violation:<table>:<id>`).  While the *)
(* call runs, what is on disk of it is a prefix of the slice that only     *)
(* grows; a call that reports success has put all of it on disk; a call    *)
(* that reports an error leaves a proper prefix, and one whose process     *)
(* ends leaves any prefix.                                                 *)
(***************************************************************************)
EXTENDS Naturals

CONSTANTS Call,     \* the calls of SaveViolations made on one database directory
          MaxLen    \* bound on the length of a slice

VARIABLES phase,    \* phase[c]: where call c is
          len,      \* len[c]: how many violations it was given
          db        \* the violations on disk

vars == <<phase, len, db>>

Phase == {"idle", "saving", "ok", "failed", "gone"}

\* The first m violations of call c.
Prefix(c, m) == {c} \X {k \in 0..MaxLen : k < m}

LogTypeOK ==
  /\ phase \in [Call -> Phase]
  /\ len \in [Call -> 0..MaxLen]
  /\ db \subseteq Call \X (0..MaxLen)

Init ==
  /\ phase = [c \in Call |-> "idle"]
  /\ len = [c \in Call |-> 0]
  /\ db = {}

Begin(c) ==
  /\ phase[c] = "idle"
  /\ \E m \in 0..MaxLen : len' = [len EXCEPT ![c] = m]
  /\ phase' = [phase EXCEPT ![c] = "saving"]
  /\ UNCHANGED db

\* More of the slice reaches the disk, without a gap.
Extend(c) ==
  /\ phase[c] = "saving"
  /\ \E m \in 0..len[c] : db' = db \cup Prefix(c, m)
  /\ UNCHANGED <<phase, len>>

\* The call returns nil: all of the slice is on disk.
Succeed(c) ==
  /\ phase[c] = "saving"
  /\ db' = db \cup Prefix(c, len[c])
  /\ phase' = [phase EXCEPT ![c] = "ok"]
  /\ UNCHANGED len

\* The call returns an error: what was on disk stays, and something is missing.
Fail(c) ==
  /\ phase[c] = "saving"
  /\ \E k \in 0..MaxLen : k < len[c] /\ <<c, k>> \notin db
  /\ phase' = [phase EXCEPT ![c] = "failed"]
  /\ UNCHANGED <<len, db>>

\* The process ends: its calls never return.
Vanish ==
  /\ phase' = [c \in Call |-> IF phase[c] = "saving" THEN "gone" ELSE phase[c]]
  /\ UNCHANGED <<len, db>>

Next ==
  \/ \E c \in Call : Begin(c) \/ Extend(c) \/ Succeed(c) \/ Fail(c)
  \/ Vanish

Spec == Init /\ [][Next]_vars
=============================================================================
