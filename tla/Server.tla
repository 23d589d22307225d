------------------------------- MODULE Server -------------------------------
(***************************************************************************)
(* `dataguard serve`: whether it starts (checkAPIKeyRequirement and        *)
(* runServe, cmd/dataguard/main.go), its routes and their authentication   *)
(* (internal/server/server.go), the lineage handler (lineage.go), and, as  *)
(* instances, the handlers of the violations (ViolationApi) and of the     *)
(* schema differences (SchemaStore).                                       *)
(*                                                                         *)
(* One client uses one route here: a handler keeps nothing between two     *)
(* requests, and the handlers read different keys of the database.  A      *)
(* pager goes through the pages of a table; the dashboard's script is      *)
(* dashboard.go's load(), of which the violations are kept.                *)
(***************************************************************************)
EXTENDS SchemaStore

CONSTANTS ViolationTable, MaxItems, Parameter, DefaultLimit, MaxLimit,  \* as in ViolationApi
          SqlPath   \* the values of the parameter sql: [abs, parts, sql]

ASSUME ViolationTableAssumption == ViolationTable \subseteq Nat \ {0}
ASSUME ParameterAssumption == Parameter \subseteq Int
ASSUME LimitAssumption == DefaultLimit \in 1..MaxLimit

VARIABLES server,           \* [state, apiKey, allowInsecure]
          client,           \* [route, header, status]
          pages,            \* what the pager has collected
          violations, req   \* as in ViolationApi

vars == <<schemaVars, server, client, pages, violations, req>>
others == <<schemaVars, server, pages, violations, req>>

Api == INSTANCE ViolationApi WITH Table <- ViolationTable, db <- violations

Route == {"health", "lineage", "schema-diff", "violations", "pager", "dashboard"}

\* The Authorization header, and the token that authMiddleware takes from it:
\* what is left without the prefix "Bearer ".
Key == "key"
Token == [none |-> "", bearer |-> Key, bare |-> Key, empty |-> "", wrong |-> "other"]

Init ==
  /\ SchemaInit
  /\ server \in [state : {"starting"}, apiKey : {"", Key}, allowInsecure : BOOLEAN]
  /\ client \in [route : Route, header : DOMAIN Token, status : {"none"}]
  /\ pages = <<>>
  /\ violations \in IF client.route = "schema-diff" THEN {<<>>} ELSE Api!Stored
  /\ req = Api!Idle

-----------------------------------------------------------------------------
(* The start and the middleware                                            *)

\* checkAPIKeyRequirement: DATAGUARD_ALLOW_INSECURE=1 is needed without a key.
KeyRequirementMet == server.apiKey # "" \/ server.allowInsecure

Start ==
  /\ server.state = "starting"
  /\ server' = [server EXCEPT !.state = IF KeyRequirementMet THEN "listening" ELSE "refused"]
  /\ UNCHANGED <<schemaVars, client, pages, violations, req>>

\* A variant that lets a request without a token pass.
Admitted_EmptyToken ==
  server.apiKey # "" => Token[client.header] \in {"", server.apiKey}

\* authMiddleware, which registerRoutes adds if there is a key.
Admitted ==
  server.apiKey # "" => Token[client.header] # "" /\ Token[client.header] = server.apiKey

SetStatus(s) == client' = [client EXCEPT !.status = s]

\* A request arrives: /health is not protected.
Arrive ==
  /\ server.state = "listening" /\ client.status = "none"
  /\ SetStatus(IF client.route = "health" THEN "ok"
               ELSE IF Admitted THEN "handled" ELSE "unauthorized")
  /\ UNCHANGED others

Handled(route) == client.status = "handled" /\ client.route = route

-----------------------------------------------------------------------------
(* handleLineage                                                           *)

\* validateSQLPath; what it does after Clean adds nothing to what it did before.
ValidateSQLPath(p) ==
  ~p.abs /\ p.sql /\ \A k \in DOMAIN p.parts : p.parts[k] \notin {"..", "a..b"}

HandleLineage ==
  /\ Handled("lineage")
  /\ \E p \in SqlPath : SetStatus(IF ValidateSQLPath(p) THEN "analyzing" ELSE "bad")
  /\ UNCHANGED others

\* The engine's answer (Engine), or its error, is the response.
AnalyzeReturns ==
  /\ client.status = "analyzing"
  /\ \E s \in {"ok", "error"} : SetStatus(s)
  /\ UNCHANGED others

-----------------------------------------------------------------------------
(* The violations: any query, a pager, and the dashboard                   *)

ApiStep(A) == A /\ UNCHANGED <<schemaVars, server, violations>>

AskViolations ==
  /\ Handled("violations") /\ req.phase = "idle"
  /\ ApiStep(\E q \in Api!Query : Api!Request(q))
  /\ UNCHANGED <<client, pages>>

HandleViolations == ApiStep(Api!Handle) /\ UNCHANGED <<client, pages>>

\* A client that pages through a table with pages of l.
PagerStarts ==
  /\ Handled("pager") /\ req.phase = "idle"
  /\ ApiStep(\E t \in ViolationTable \cup {Api!All}, l \in 1..MaxLimit :
               Api!Request([table |-> t, limit |-> <<l>>, offset |-> <<0>>]))
  /\ UNCHANGED <<client, pages>>

\* It goes on until a page is shorter than it asked for.
PagerNext ==
  /\ Handled("pager") /\ req.phase = "ok"
  /\ pages' = pages \o req.out
  /\ IF Len(req.out) < Api!Limit
       THEN SetStatus("ok") /\ UNCHANGED req
       ELSE Api!Request([req.query EXCEPT !.offset = <<Api!Offset + Api!Limit>>]) /\ UNCHANGED client
  /\ UNCHANGED <<schemaVars, server, violations>>

\* load(): fetch('/api/violations')
DashboardAsks ==
  /\ Handled("dashboard") /\ req.phase = "idle"
  /\ ApiStep(Api!Request(Api!NoQuery))
  /\ UNCHANGED <<client, pages>>

\* The script gives fetch no header of its own: with a key, and unless the
\* browser adds the header, the middleware answers, and load() shows nothing.
DashboardRefused ==
  /\ Handled("dashboard") /\ req.phase = "idle" /\ server.apiKey # ""
  /\ SetStatus("shown")
  /\ UNCHANGED others

\* load() shows the answer, or nothing after an error.  A scan that found
\* nothing leaves out = nil, which is written as `null`: null.map throws, and
\* load() ends before it shows anything.
DashboardShows ==
  /\ Handled("dashboard") /\ req.phase \in {"ok", "error"}
  /\ SetStatus(IF req.phase = "ok" /\ req.out = <<>> THEN "broken" ELSE "shown")
  /\ UNCHANGED others

-----------------------------------------------------------------------------

SchemaDiff == Handled("schema-diff") /\ SchemaNext /\ UNCHANGED <<server, client, pages, violations, req>>

Next ==
  \/ Start \/ Arrive \/ HandleLineage \/ AnalyzeReturns \/ SchemaDiff
  \/ AskViolations \/ HandleViolations \/ PagerStarts \/ PagerNext
  \/ DashboardAsks \/ DashboardRefused \/ DashboardShows

Spec == Init /\ [][Next]_vars

-----------------------------------------------------------------------------
(* Properties.                                                             *)

\* Without the key nobody reaches the database or the engine, unless the
\* operator gave no key and set DATAGUARD_ALLOW_INSECURE=1 (main.go:235): what
\* the start, the routes and the middleware do together.
KeyGuardsData ==
  client.status \notin {"none", "unauthorized"} /\ client.route # "health" =>
    Token[client.header] = Key \/ (server.apiKey = "" /\ server.allowInsecure)

Ascending(s) == \A j, k \in DOMAIN s : j < k => s[j] < s[k]

\* An answer is the page that was asked for: in key order, nothing but the
\* table's violations, those after the first `offset` ones, and as many as
\* there are up to the limit (ListViolationsPaged).
PageIsSlice ==
  req.phase = "ok" =>
    LET position(k) == Cardinality({h \in Api!Matching : h < k})
        due == {k \in Api!Matching :
                  position(k) >= Api!Offset
                    /\ (Api!Limit > 0 => position(k) < Api!Offset + Api!Limit)}
    IN  Ascending(req.out) /\ Range(req.out) = due

\* A client that pages through a table, or through all of them, gets every
\* violation once and in order, also when the last page is full or empty; and
\* when it asked for no table it gets as many as X-Total-Count says.  With a
\* table nothing is said of X-Total-Count: the comment (violations.go:18) has it
\* before the filter, the code after it.
PagerComplete ==
  client.route = "pager" /\ client.status = "ok" =>
    /\ Ascending(pages) /\ Range(pages) = Api!Matching
    /\ req.query.table = Api!All => req.total = Len(pages)
=============================================================================
