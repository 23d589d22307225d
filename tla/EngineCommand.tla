---------------------------- MODULE EngineCommand ----------------------------
(***************************************************************************)
(* One invocation of dataguard-engine (rust-engine/src/main.rs): `check`,  *)
(* `analyze` or `profile`, each of which runs its function and prints what *)
(* it returns, or an error.  CheckFile, Lineage and Profile are the three  *)
(* functions.  The text that `analyze` is given is that of the file --sql  *)
(* names, or --sql itself; that the report may not be written is seen from *)
(* the caller's side in EngineExec.                                        *)
(***************************************************************************)
EXTENDS CheckFile

CONSTANTS Node, Height, Script, Garbage, Quoted, Lower,  \* of Lineage
          ProfileCell, Value, NaN                        \* of Profile

VARIABLES command,                                                  \* the subcommand
          text, widths, phase, tables, edges, statements, excerpt,  \* of Lineage
          column, broken, row_count, acc, report                    \* of Profile

L == INSTANCE Lineage
P == INSTANCE Profile WITH Cell <- ProfileCell

\* A node is a finite tree, and the queries of a text are made of nodes.
Bodies(s) == {s[k].query.body : k \in {j \in DOMAIN s : L!HasQuery(s[j])}}
ASSUME SyntaxAssumption ==
  /\ Height \in [Node -> Nat]
  /\ \A n \in Node :
       /\ n.node = "select" => n.from \in Seq(Node)
       /\ n.node = "joined" => n.joins \in Seq(Node)
       /\ \A c \in L!Children(n) : c \in Node /\ Height[c] < Height[n]
  /\ \A s \in Script : s \in Seq({s[k] : k \in DOMAIN s})
  /\ UNION {Bodies(s) : s \in Script} \subseteq Node
ASSUME LineageAssumption ==
  /\ Quoted \in Nat
  /\ \A g \in Garbage : g \in Seq(1..4) /\ g # <<>>
ASSUME ProfileAssumption == NaN \notin Int /\ \A x \in DOMAIN Value : Value[x] \in Int \cup {NaN}

lineageVars == <<text, widths, phase, tables, edges, statements, excerpt>>
profileVars == <<column, broken, row_count, acc, report>>
allVars == <<command, checkVars, lineageVars, profileVars>>

\* Of the functions that are not called, the arguments are empty.
Init ==
  /\ command \in {"check", "analyze", "profile"}
  /\ command # "check" => csv = <<>> /\ rules = <<>>
  /\ command # "profile" => column = <<>>
  /\ CheckInit /\ P!Init
  /\ IF command = "analyze" THEN L!Init ELSE text = <<>> /\ widths = <<>> /\ L!Fresh

Next ==
  \/ command = "check" /\ CheckNext /\ UNCHANGED <<command, lineageVars, profileVars>>
  \/ command = "analyze" /\ L!Next /\ UNCHANGED <<command, checkVars, profileVars>>
  \/ command = "profile" /\ P!Next /\ UNCHANGED <<command, checkVars, lineageVars>>

Spec == Init /\ [][Next]_allVars

\* The properties of the functions, under this command (see the modules).
SourcesExact == L!SourcesExact
GraphExact == L!GraphExact
ExcerptWhole == L!ExcerptWhole
ProfileExact == P!ProfileExact
=============================================================================
