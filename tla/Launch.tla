------------------------------- MODULE Launch -------------------------------
(***************************************************************************)
(* How the programs start and end (cmd/dataguard/main.go, config.go,       *)
(* grpc_client.go, run_serve in rust-engine/src/main.rs): several dataguard*)
(* commands over one database directory, and one gRPC server of the        *)
(* engine.  A command checks its flags and its configuration, opens the    *)
(* database, which takes the lock of the directory, chooses its engine,    *)
(* works and closes what it opened; every error on the way runs the        *)
(* deferred calls that are registered by then.  What the work does is      *)
(* Pipeline, Daemon and Server.  telemetry.Init and a missing webhook do   *)
(* not stop a command and have no step.                                    *)
(***************************************************************************)
EXTENDS Integers, Sequences, FiniteSets

CONSTANTS Proc,        \* the processes that run dataguard commands
          Flags,       \* the command lines of dataguard (see CommandLines)
          EngineFlags, \* the command lines of `dataguard-engine serve`
          File         \* sources.yaml: its sources, <<>> also for a file that is no YAML

(***************************************************************************)
(* Of a flag with a path it matters whether it is given, and whether the   *)
(* file is good; "remote" is an address of another machine.                *)
(***************************************************************************)
Pem == {"", "good", "bad"}
CommandLines ==
  [command : {"ingest", "daemon", "serve"}, apiKey : BOOLEAN, allowInsecure : BOOLEAN,
   tmp : {"", "relative", "absolute", "blocked"}, bin : {"dataguard-engine", "absolute"},
   grpcAddr : {"", "loopback", "remote"}, ca : Pem, cert : Pem, key : Pem,
   insecure : BOOLEAN]
EngineCommandLines ==
  [addr : {"loopback", "any", "hostname"}, cert : Pem, key : Pem, clientCa : Pem,
   insecure : BOOLEAN]

\* A source of the file; a field is TRUE if it is set.
DataSource ==
  [name : BOOLEAN, type : {"csv", "jsonl", "postgres", "other"}, path : BOOLEAN, dsn : BOOLEAN,
   query : BOOLEAN, schedule : {"", "good", "bad"}]

ASSUME FileAssumption == File \subseteq Seq(DataSource)
ASSUME FlagsAssumption == Flags \subseteq CommandLines /\ EngineFlags \subseteq EngineCommandLines

VARIABLES at,      \* at[p]: how far the command is, "off" if there is none
          flags,   \* flags[p]: its command line
          cfg,     \* cfg[p]: its Config.Sources
          atOnce,  \* atOnce[p]: the sources that pipeline.Run is called with
          entries, \* entries[p]: the sources that are registered with cron
          lock,    \* the processes that hold the lock of the database directory
          engine,  \* the command line of the gRPC server, <<>> if it does not listen
          call     \* call[p]: the last call of the engine

vars == <<at, flags, cfg, atOnce, entries, lock, engine, call>>

NoCall == [by |-> "none", ok |-> TRUE]
Working == {"run", "register", "serving"}

TypeOK ==
  /\ at \in [Proc -> {"off", "start", "config", "open", "engine", "closing"} \cup Working]
  /\ flags \in [Proc -> Flags \cup {<<>>}]
  /\ \A p \in Proc : at[p] # "off" => flags[p] \in Flags
  /\ lock \subseteq Proc
  /\ engine \in {<<>>} \cup EngineFlags
  /\ call \in [Proc -> [by : {"none", "exec", "plain", "tls"}, ok : BOOLEAN]]

Init ==
  /\ at = [p \in Proc |-> "off"]
  /\ flags = [p \in Proc |-> <<>>] /\ cfg = [p \in Proc |-> <<>>]
  /\ atOnce = [p \in Proc |-> <<>>] /\ entries = [p \in Proc |-> <<>>]
  /\ lock = {}
  /\ engine = <<>>
  /\ call = [p \in Proc |-> NoCall]

Goto(p, a) == at' = [at EXCEPT ![p] = a]

-----------------------------------------------------------------------------
(* The configuration                                                       *)

\* DataSource.validate
Valid(src) ==
  /\ src.name
  /\ \/ src.type \in {"csv", "jsonl"} /\ src.path
     \/ src.type = "postgres" /\ src.dsn /\ src.query
  /\ src.schedule # "bad"

\* config.Load
Loads(file) == file # <<>> /\ \A k \in DOMAIN file : Valid(file[k])

Scheduled(src) == src.schedule # ""

\* The sources of a configuration with a schedule, or those without one.
Those(c, scheduled) ==
  LET these[k \in 0..Len(c)] ==
        IF k = 0 THEN <<>>
        ELSE IF Scheduled(c[k]) = scheduled THEN Append(these[k - 1], c[k]) ELSE these[k - 1]
  IN  these[Len(c)]

\* A variant that runs every source at the start of the daemon.
OnDemand_All(c) == c

\* The sources that runDaemon runs at its start.
OnDemand(c) == Those(c, FALSE)

-----------------------------------------------------------------------------
(* The credentials on both sides                                           *)

IsLoopbackAddr(addr) == addr = "loopback"

\* buildTransportCredentials returns credentials, and no error.
CredentialsBuilt(f) ==
  IF f.ca = "" THEN IsLoopbackAddr(f.grpcAddr) \/ f.insecure
  ELSE /\ f.ca = "good"
       /\ \/ f.cert = "" /\ f.key = ""
          \/ f.cert = "good" /\ f.key = "good"

\* A variant that takes 0.0.0.0 for an address of this machine only.
BindsLocally_Any(f) == f.addr \in {"loopback", "any"}

BindsLocally(f) == f.addr = "loopback"

\* run_serve: the address is one of sockets, not a name; there is a certificate
\* with its key, or neither, and then only loopback unless --insecure is given.
Listens(f) ==
  /\ f.addr # "hostname"
  /\ \/ f.cert = "good" /\ f.key = "good" /\ f.clientCa # "bad"
     \/ f.cert = "" /\ f.key = "" /\ f.clientCa = "" /\ (BindsLocally(f) \/ f.insecure)

\* A connection comes about: the address leads to the server, and either
\* neither side encrypts, or both do and the certificates are good for it.
Connects(f) ==
  /\ engine # <<>>
  /\ f.grpcAddr = "remote" => engine.addr = "any"
  /\ (f.ca = "") <=> (engine.cert = "")
  /\ engine.clientCa # "" => f.cert # ""

\* validate_path: the temporary CSV has a relative path.
PathAccepted(f) == f.command = "serve" \/ f.tmp = "relative"

-----------------------------------------------------------------------------
(* runIngest, runDaemon, runServe                                          *)

Launch(p) ==
  /\ at[p] = "off"
  /\ \E f \in Flags : flags' = [flags EXCEPT ![p] = f]
  /\ Goto(p, "start")
  /\ cfg' = [cfg EXCEPT ![p] = <<>>]
  /\ atOnce' = [atOnce EXCEPT ![p] = <<>>]
  /\ entries' = [entries EXCEPT ![p] = <<>>]
  /\ call' = [call EXCEPT ![p] = NoCall]
  /\ UNCHANGED <<lock, engine>>

\* checkAPIKeyRequirement, and nothing to read, for the server.
Begin(p) ==
  /\ at[p] = "start"
  /\ Goto(p, IF flags[p].command # "serve" THEN "config"
             ELSE IF flags[p].apiKey \/ flags[p].allowInsecure THEN "open" ELSE "off")
  /\ UNCHANGED <<flags, cfg, atOnce, entries, lock, engine, call>>

\* config.Load, then TempDir.
Configure(p) ==
  /\ at[p] = "config"
  /\ \E file \in File :
       IF Loads(file) /\ flags[p].tmp # "blocked"
         THEN Goto(p, "open") /\ cfg' = [cfg EXCEPT ![p] = file]
         ELSE Goto(p, "off") /\ UNCHANGED cfg
  /\ UNCHANGED <<flags, atOnce, entries, lock, engine, call>>

\* store.Open fails if another process holds the directory, or for other reasons.
OpenStore(p) ==
  /\ at[p] = "open"
  /\ \/ lock = {} /\ lock' = {p} /\ Goto(p, "engine")
     \/ UNCHANGED lock /\ Goto(p, "off")
  /\ UNCHANGED <<flags, cfg, atOnce, entries, engine, call>>

\* NewGrpc, which does not connect yet, or engine.New, which does not look at
\* the path; after an error the deferred Close follows.
ChooseEngine(p) ==
  /\ at[p] = "engine"
  /\ Goto(p, IF flags[p].grpcAddr # "" /\ ~CredentialsBuilt(flags[p]) THEN "closing"
             ELSE IF flags[p].command = "serve" THEN "serving" ELSE "run")
  /\ UNCHANGED <<flags, cfg, atOnce, entries, lock, engine, call>>

\* pipeline.Run: of all sources, or of those without a schedule.
RunSources(p) ==
  /\ at[p] = "run"
  /\ atOnce' = [atOnce EXCEPT ![p] =
                  IF flags[p].command = "ingest" THEN cfg[p] ELSE OnDemand(cfg[p])]
  /\ Goto(p, IF flags[p].command = "ingest" THEN "closing" ELSE "register")
  /\ UNCHANGED <<flags, cfg, entries, lock, engine, call>>

\* Register for each source; without an entry the daemon returns (HasJobs).
RegisterSources(p) ==
  /\ at[p] = "register"
  /\ LET registered == Those(cfg[p], TRUE) IN
       /\ entries' = [entries EXCEPT ![p] = registered]
       /\ Goto(p, IF registered # <<>> THEN "serving" ELSE "closing")
  /\ UNCHANGED <<flags, cfg, atOnce, lock, engine, call>>

\* The engine is called: a process, which needs an absolute path (run), or the
\* server; each may fail otherwise, which Engine is about.
CallEngine(p) ==
  /\ at[p] \in Working
  /\ IF flags[p].grpcAddr = ""
       THEN call' = [call EXCEPT ![p] = [by |-> "exec", ok |-> flags[p].bin = "absolute"]]
       ELSE /\ Connects(flags[p])
            /\ call' = [call EXCEPT ![p] = [by |-> IF flags[p].ca = "" THEN "plain" ELSE "tls",
                                            ok |-> PathAccepted(flags[p])]]
  /\ UNCHANGED <<at, flags, cfg, atOnce, entries, lock, engine>>

\* The daemon's signal, or an error of ListenAndServe.
EndServing(p) ==
  /\ at[p] = "serving"
  /\ Goto(p, "closing")
  /\ UNCHANGED <<flags, cfg, atOnce, entries, lock, engine, call>>

\* The deferred st.Close().
CloseStore(p) ==
  /\ at[p] = "closing"
  /\ lock' = lock \ {p}
  /\ Goto(p, "off")
  /\ UNCHANGED <<flags, cfg, atOnce, entries, engine, call>>

\* The process is killed, which is how serve and ingest end on a signal; the
\* operating system releases its lock.
Die(p) ==
  /\ at[p] # "off"
  /\ lock' = lock \ {p}
  /\ Goto(p, "off")
  /\ UNCHANGED <<flags, cfg, atOnce, entries, engine, call>>

\* The gRPC server starts, or is refused, and ends with its connections.
StartEngine ==
  /\ engine = <<>>
  /\ \E f \in EngineFlags : Listens(f) /\ engine' = f
  /\ UNCHANGED <<at, flags, cfg, atOnce, entries, lock, call>>

EndEngine ==
  /\ engine # <<>>
  /\ engine' = <<>>
  /\ call' = [p \in Proc |-> NoCall]
  /\ UNCHANGED <<at, flags, cfg, atOnce, entries, lock>>

Next ==
  \/ \E p \in Proc :
       \/ Launch(p) \/ Begin(p) \/ Configure(p) \/ OpenStore(p) \/ ChooseEngine(p)
       \/ RunSources(p) \/ RegisterSources(p) \/ CallEngine(p) \/ EndServing(p)
       \/ CloseStore(p) \/ Die(p)
  \/ StartEngine \/ EndEngine

Spec == Init /\ [][Next]_vars

-----------------------------------------------------------------------------
(* Properties                                                              *)

\* Sources and violations travel in the clear to another machine only if both
\* programs were told so: the client's check of the address it dials and the
\* server's check of the address it binds leave no gap between them
\* (README.md:98, buildTransportCredentials, run_serve).
PlaintextOptIn ==
  \A p \in Proc :
    at[p] \in Working /\ call[p].by = "plain" /\ flags[p].grpcAddr = "remote" =>
      flags[p].insecure /\ engine.insecure

\* Every source of the configuration is taken care of in one way: by ingest at
\* once, by the daemon at once or by its schedule and not by both, in the order
\* of the file; no source is begun of a configuration that was refused.
SourcesCovered ==
  \A p \in Proc :
    LET c == cfg[p]
        begun(k) == \E h \in DOMAIN atOnce[p] : atOnce[p][h] = c[k]
        timed(k) == \E h \in DOMAIN entries[p] : entries[p][h] = c[k]
        place(k) == Cardinality({j \in 1..k : Scheduled(c[j]) = Scheduled(c[k])})
    IN /\ at[p] = "closing" /\ flags[p].command = "ingest" /\ atOnce[p] # <<>> => atOnce[p] = c
       /\ at[p] = "serving" /\ flags[p].command = "daemon" =>
            /\ \A k \in DOMAIN c :
                 /\ begun(k) # timed(k)
                 /\ c[k] = IF timed(k) THEN entries[p][place(k)] ELSE atOnce[p][place(k)]
            /\ Len(atOnce[p]) + Len(entries[p]) = Len(c)
       /\ \A k \in DOMAIN atOnce[p] : Valid(atOnce[p][k])

\* A documented command line gets its sources checked, where the engine is
\* installed and its server runs as documented (README.md:79, 92).
DocumentedCommandChecks == \A p \in Proc : call[p].ok
=============================================================================
