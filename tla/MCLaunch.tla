------------------------------ MODULE MCLaunch ------------------------------
\* The constants of Launch: command lines that reach every refusal and every
\* way to the engine, with up to three sources of which one is scheduled.
EXTENDS Launch

Plain == [command |-> "ingest", apiKey |-> FALSE, allowInsecure |-> FALSE, tmp |-> "",
          bin |-> "absolute", grpcAddr |-> "", ca |-> "", cert |-> "", key |-> "",
          insecure |-> FALSE]
Remote == [Plain EXCEPT !.grpcAddr = "remote", !.tmp = "relative"]
Mutual == [Remote EXCEPT !.ca = "good", !.cert = "good", !.key = "good"]
MCFlags ==
  {[Remote EXCEPT !.grpcAddr = a, !.ca = c, !.insecure = i] :
     a \in {"loopback", "remote"}, c \in {"", "good"}, i \in BOOLEAN}
    \cup {Plain, [Mutual EXCEPT !.command = "daemon"], [Mutual EXCEPT !.key = ""],
          [Plain EXCEPT !.command = "daemon", !.tmp = "blocked"],
          [Plain EXCEPT !.command = "serve"],
          [Plain EXCEPT !.command = "serve", !.apiKey = TRUE, !.grpcAddr = "remote"]}

Bare == [addr |-> "any", cert |-> "", key |-> "", clientCa |-> "", insecure |-> FALSE]
MCEngineFlags ==
  {[Bare EXCEPT !.addr = a, !.insecure = i] :
     a \in {"loopback", "any", "hostname"}, i \in BOOLEAN}
    \cup {[Bare EXCEPT !.cert = "good", !.key = "good", !.clientCa = c] : c \in {"", "good"}}

Source == [name |-> TRUE, type |-> "csv", path |-> TRUE, dsn |-> FALSE, query |-> FALSE,
           schedule |-> ""]
Timed == [Source EXCEPT !.schedule = "good"]
MCFile ==
  {<<>>, <<Source>>, <<Source, Timed, [Source EXCEPT !.type = "jsonl"]>>,
   <<Source, [Source EXCEPT !.type = "postgres", !.dsn = TRUE]>>}

\* README.md:79 and 92, with the server of README.md:89.
DocumentedFlags ==
  {[Plain EXCEPT !.bin = "dataguard-engine"], [Plain EXCEPT !.grpcAddr = "loopback"]}
DocumentedEngineFlags == {[Bare EXCEPT !.addr = "loopback"]}
=============================================================================
