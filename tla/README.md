# DataGuard Rail in TLA+

DataGuard Rail ingests tables (CSV, JSON Lines, PostgreSQL), has a Rust engine
check them against quality rules, stores the violations in BadgerDB, alerts
Slack, and serves violations, schema differences and SQL lineage over REST and a
dashboard. This directory holds TLA+ models of that program, TLC configurations
that check them on small instances, and TLAPS proofs for every instance.

`PROJECT.json` lists the components, the runs, what each definition stands for
in the source, the hazards of the code, and the theorems. Paths below are
relative to `src/`; `gi/` stands for `go-ingestion/internal/`.

    tlc -workers 2 -config MCPipeline.cfg MCPipeline     # any run, by its cfg
    tlapm PipelineProofs.tla                             # any proof module

## 1. The system

| component | state | operations | talks to |
|---|---|---|---|
| violation store, `gi/store/store.go` | BadgerDB: `violation:<table>:<id>`; an open handle | `Open`, `SaveViolations`, `RunGC`, counts and paged scans, `Close` | pipeline (saves), server (reads), daemon (opens, closes, GC) |
| schema snapshot store, `gi/store/schema.go` | BadgerDB: `schema:<table>:<captured_at>` | `SaveSnapshot`, `ListSnapshots`, `LatestDiff`, `ListDiffs` | server |
| pipeline, `gi/pipeline/pipeline.go` | per Run: the current source, the Results; one temporary CSV | `Run`, `process` | ingester, engine, store, notifier, metrics |
| scheduler, `gi/scheduler/scheduler.go` | cron entries with a one-token channel each; the jobs' context | `Register`, `Start`, `Stop`, `BuildRunner` | cron, pipeline |
| daemon, `runDaemon` in `go-ingestion/cmd/dataguard/main.go` | signal context, scheduler, store, GC goroutine | load, open, immediate run, register, serve, stop, close | all of the above |
| the commands, `main.go` | flags, configuration, the lock of the database directory, a gRPC connection | `runIngest`, `runDaemon`, `runServe` | everything they open |
| exec engine, `gi/engine/engine.go` | one subprocess per call | `Check`, `Analyze`, `Profile` | `dataguard-engine` |
| gRPC client, `gi/engine/grpc_client.go` | one connection | the same, with `DefaultRPCTimeout` and credentials | gRPC server |
| gRPC server, `rust-engine/src/grpc.rs`, `main.rs` | a blocking task per call on a bounded pool | `check`, `analyze`, `profile`, with `SERVER_SIDE_TIMEOUT`; `serve` | check engine, lineage, profiler |
| check engine, `rust-engine/src/check.rs` | compiled rules, counts of keys, violations | `check_file`: compile, count pass, evaluation pass | the temporary CSV |
| ingesters, `gi/ingester/` | a Dataset under construction | `LoadCSV`, `LoadJSONL`, `LoadPostgres`, `WriteTempCSV` | files, PostgreSQL |
| SQL lineage, `rust-engine/src/lineage.rs` | a graph of tables | `analyze` | - |
| profiler, `rust-engine/src/profile.rs` | one accumulator per column | `profile_file` | a CSV |
| REST API, `gi/server/` | none (the store) | routes, API key, violations, schema-diff, lineage | store, engine, notifier |
| dashboard, `gi/server/dashboard.go` | none (in the browser) | `load()` | REST API |
| configuration, `gi/config/config.go` | none | `Load`, `validate` | - |
| alerts, metrics, tracing | a counter | `Notify`, `RecordIngest` | Slack, OTel |
| generated protobuf | none | - | - |

How they interact: within one process by calls (pipeline -> engine -> store), by
goroutines that share the store's handle and a context (daemon, cron jobs, GC),
by a subprocess's standard output or by gRPC messages (Go -> Rust), and through
two pieces of shared storage: the database, whose directory one process locks,
and the temporary CSV that Go writes and removes while Rust may be reading it.

What is hard, and what has to be true of it:

- **Partial saves.** `SaveViolations` spreads a slice over several transactions,
  whose limits move when Badger answers `ErrTxnTooBig`. What is on disk must be a
  prefix of the known length, nil must mean all and an error must mean not all.
- **Failure between steps.** Every step of `process` can fail; the temporary CSV
  must go, the other sources must be processed, Results, alerts and the metric
  must agree with the disk.
- **Shutdown.** A signal cancels contexts while jobs run, cron fires, a job hangs
  and the GC goroutine is in a round; `Stop` waits, but not for ever; the store is
  closed afterwards. The daemon must end, and must not close the store under a
  job unless it gave up waiting.
- **Overlap.** A slow job must not be joined by a second one of its source, and
  nothing but a slow job may make a firing be skipped.
- **Two timeouts and a file.** The client and the server each give up on their
  own, the task behind them cannot be interrupted, and the client removes the
  file, which a task may still be about to read. A call must return, with an error
  or with *all* of the result.
- **Two passes.** A rule on counts reads the file twice through two handles.
- **Starts.** A command is refused at many places, each with other things already
  open; two programs judge separately whether a connection may be in the clear;
  three places treat an empty API key; two loops share out a daemon's sources.
- **Paging and diffs.** Pages must add up to the list; a difference must be one of
  the newest two snapshots of one table, although each table is read in its own
  transaction and keys are prefixes of each other.
- **Boundaries.** Row limits, empty lines, a cut through a character, NaN.

## 2. The modules

Each module holds one component: its constants with named assumptions, its
variables, one action per operation or step, its specification and then its
properties. A definition `X_Y` next to `X` is `X` with a plausible mistake `Y`;
it is not part of the specification and says what the property after it would
catch.

| module | models | extends / instantiates |
|---|---|---|
| `ViolationLog` | what `SaveViolations` promises, without transactions | |
| `ViolationStore` | `SaveViolations` by transactions, `Open`, `Close`, the end of the process | implements `ViolationLog` |
| `Pipeline` | `Run` and `process`, several Runs at once | |
| `PipelineLog` | the saves of the Runs as calls of `SaveViolations` (history of `Pipeline`) | extends `Pipeline`, implements `ViolationLog` |
| `Scheduler` | `Register`, `Start`, `Stop`; cron and its skip wrapper are external | |
| `Daemon` | `runDaemon`, `BuildRunner`, `RunGC` | extends `Scheduler` and composes it with `Pipeline` |
| `Launch` | the three commands from flags to the closing of the store; `dataguard-engine serve`; the credentials of both | |
| `Checker` | what an engine promises to its caller | |
| `EngineExec` | `Runner.Check` and `Analyze` over a subprocess | |
| `EngineRpc` | `GrpcRunner.Check` and `Analyze`, and the server's handlers | |
| `Engine` | one process that uses either of the two | composes `EngineExec` and `EngineRpc`, implements `Checker` |
| `CheckFile` | `check_file`, `Check::compile` | |
| `Lineage` | `analyze` over the syntax of statements | |
| `Profile` | `profile_file`, one column | |
| `EngineCommand` | one invocation of `dataguard-engine` | composes `CheckFile`, `Lineage` and `Profile` |
| `Ingester` | the three loaders and `WriteTempCSV`, line by line | |
| `ViolationApi` | `GET /api/violations` and the scans | |
| `SchemaStore` | the snapshot store and `GET /api/schema-diff` | |
| `Server` | `runServe`, routes and key, `GET /api/lineage`, a paging client, the dashboard | composes `SchemaStore` and `ViolationApi` |
| `...Proofs` | theorems about `ViolationStore`, `Pipeline` (with `PipelineLog`), `Daemon` (with `Scheduler`), `Engine`, `EngineCommand` (with `CheckFile`, `Lineage` and `Profile`), `Ingester`, `Server`, `Launch` | extends the module and `TLAPS`; `DaemonProofs` also uses what is proved in `PipelineProofs` |
| `MC...` | values of the constants for one run | extends the module |

How state and actions correspond to the code:

- **ViolationStore.** `pc[c]` is the statement a call is at: `put` (`txn.Set`),
  `batch` (the commit after every `txnBatchSize`-th item), `toobig` (the commit
  that `ErrTxnTooBig` asks for; the `goto` tries the same item again). `i`, `txn`,
  `committed` are the local variables. `db` is the disk. `attached` says on which
  handle a call runs, so that a call that outlived its handle fails.
- **Pipeline.** `pc[r]` walks through `process`; `cleanup` is its deferred remove.
  `Load`, `CreateTemp`, `WriteTemp`, `CheckReturn` and the save each succeed or
  fail. `saved[r][k]` is what of source k is on disk, also of a save that failed.
  `Exit` ends a process without running deferred functions; other Runs belong to
  the next process. `lastLive` is history: the last source whose check had begun
  when the context was cancelled. `Pipeline` writes a save as `ViolationLog` describes
  it; `PipelineLog` makes that checkable. Its history variables `asked` and `fate` keep
  what each call was given and how it ended, and with them the saves of all Runs are
  behaviours of `ViolationLog` (`SavesLogged`), the same that `ViolationStore` implements.
- **Scheduler.** A firing (`Fire`) is a goroutine of cron's wait group; `Take`
  receives the entry's token and runs the job, `Skip` finds the channel empty.
  `StopCancel`, `StopCron`, `StopDrained`, `StopTimeout` are the four steps of `Stop`.
- **Daemon.** `main` is where `runDaemon` is, from `config.Load` to its return.
  A job is a Run with one source; the sources without a schedule are one more Run.
  `CloseStore` is the deferred `st.Close()`, which waits for a GC round. `Exit`
  ends what still runs, and so does `Kill`, at any point.
- **Launch.** `at[p]` is how far command p is; `lock` is the lock of Badger's
  directory, taken by `OpenStore` and given back by the deferred `CloseStore` or by
  the kernel (`Die`), so that a refused command leaves none behind. That two commands
  exclude each other is Badger's guarantee and not the program's. A flag with a path
  is absent, good or bad. `engine` is the command line of the one gRPC server that
  listens. `atOnce` and `entries` are the sources that `pipeline.Run` and `Register`
  were given, each in the order of the configuration's file. What the work itself does
  is in the other modules.
- **Engine.** `call`, `due`, `answer`, `file` are the caller's side, as in `Checker`;
  the SQL file of an `Analyze` is not removed. The subprocess (`proc`, `out`) writes
  the elements of its output and the closing bracket one by one, and may fail, hang
  or be killed between. Over gRPC, request, handler, reply and blocking task are
  separate; the network loses messages, the server restarts, both sides time out, a
  task queues for one of `PoolSize` threads and goes on after its handler is gone. The
  handler validates both paths of a Check. `file` is the client's temporary CSV: a
  task that opens it after its client has gone finds none and fails.
- **EngineCommand.** `check` opens the file, compiles the rules, opens the file a
  second time if a rule counts, and evaluates; a row may be no record, and the Go
  side may remove the file at any point: an open handle goes on reading. In
  `analyze` a statement is a record whose `node` names its production; a text that
  does not parse is the sequence of the widths of its characters; an INSERT may have
  no query. `Node` is the set
  of the nodes of the syntax trees and `Height` a function that is greater for a node
  than for its children, which says that the trees are finite: the collectors of
  `lineage.rs`, which call each other, are the one recursive function `Sources` over
  it. In `profile` a number is an integer or NaN.
- **Ingester.** A line is a row, blank, bad or too long. A loader reads one line a
  step, and ends `loaded`, `failed`, or `full` if it was refused for its length. The
  temporary CSV is a sequence of lines, and `Records` is what the csv crate makes of
  them (an empty line is none). The engine's reader is not flexible: `EngineFails` says
  when a record of another length than the first ends the check. `LoadCSV` lets such
  records pass.
- **Server.** One client uses one route with one header; `server` is what the
  operator set. The violations handler counts, then scans item by item. `serve`
  holds the directory lock, so the violations do not change meanwhile. A snapshot's
  key is a table's name, as characters, and a time, which is a local time and an
  offset. `Before` is the order of their texts: the local time first, then the sign of
  the offset (`+` before `-` before `Z`) and its digits. `Instant` is the point in time.
  `ListDiffs` is one step per transaction. So far tests alone call `SaveSnapshot`; the
  model lets it happen at any time, also between two transactions of `ListDiffs`, which
  asks more than the program needs today.

Abstracted: contents of cells, SQL expressions and messages (only what a rule,
a map of columns or a count tells apart), formatting, logging, spans, HTTP,
YAML syntax, certificates (good or bad). BadgerDB, cron, tonic/tokio, sqlparser,
csv and the network are external and modelled from how the code uses them; the head
of each module says what is assumed of them.

## 3. The runs

`pass` runs end without error; the four violations are section 5. No run uses
symmetry: bounds are constants that guard the actions, or the sets of inputs in
the `MC` module. One run has a state constraint: in `pipeline` one of the two Runs
has at most one source. The numbers are distinct states.

| run | instance | what it shows |
|---|---|---|
| `violation_store` | 2 calls, batches of 2, up to 5 violations; 57 000 | on disk is the prefix `committed` counts (`CommittedIsDurable`); no transaction exceeds the batch size (`BatchBounded`); nil iff all is on disk (`VerdictExact`); no endless retry, but of an item that does not fit an empty transaction (`EveryCallReturns`); the calls implement `ViolationLog` (`LogSpec`) |
| `pipeline` | 2 Runs, of up to 2 sources and up to 1, up to 2 violations; 560 000 | Results are complete and true (`ResultsTruthful`); the CSV exists while the Run itself writes, checks or saves its source, and is gone when the Run goes on (`TempFileLifetime`); alerts and the metric agree with disk and Results (`AlertsBacked`, `RecordedAgrees`); after cancellation nothing new is checked or saved (`CancelStopsIngest`), and a Run ends even behind a hung engine (`CancelledRunEnds`); the saves are calls of `ViolationLog` (`SavesLogged`) |
| `daemon` | 1 source that may have a schedule, 2 firings, up to 1 source without; 96 000 | one job of a source at a time (`NoOverlap`); a firing is skipped only for a running job (`SkipOnlyWhileRunning`); a drained `Stop` is final (`DrainedForGood`); the store is closed under a Run only after a timeout (`ClosedAfterJobs`); an orderly exit leaves no file and no unreported source (`CleanShutdown`); a signal ends the daemon (`SignalEndsDaemon`), and one without entries ends by itself (`EndsWithoutSchedule`) |
| `engine` | 1 Check, 1 Analyze, either transport, 1 thread, up to 2 elements of which 1 fits a message, paths that are accepted and paths that are not; 59 000 | a partial or oversized result is no answer (`CheckerSpec`); calls return (`EveryCallReturns`) |
| `engine_command` | check: every file of up to 3 rows, every set of up to 2 of 11 rules; analyze: all queries of depth 2, pairs of plain statements, INSERT without a query, texts of up to 4 characters of 1-4 bytes; profile: every column of up to 3 cells with blanks, numbers, text and NaN; 485 000 | both passes find what the definition over the whole file finds, or the call fails (`FindsAllViolations`); sources are the tables below the statement (`SourcesExact`); the graph is complete, without regard to case and without doubles (`GraphExact`); the quoted excerpt ends between two characters (`ExcerptWhole`); the statistics are those of the whole column (`ProfileExact`) |
| `ingester` | all files of up to `MaxRows` + 2 = 4 lines, 2 columns, CSV records of one to three cells; 141 000 | all rows, in their order and with their cells, or a refusal, for the length only beyond the limit (`LoadsAllOrNothing`); JSON values under their keys (`CellsUnderTheirKeys`); with two columns every row that is no blank line reaches the engine, and one of another length is an error there (`WideRowsReachEngine`) |
| `ingester_one_column` | one-column queries | violation, see section 5 |
| `launch` | 2 commands with 14 command lines, 8 of the engine's server, 4 configurations of up to three sources; 199 000 | in the clear to another machine only if both programs were told so (`PlaintextOptIn`); every source is run at once or scheduled, not both, in the order of the file (`SourcesCovered`) |
| `launch_documented` | the README's two ways to ingest | violation, see section 5 |
| `server` | all routes and headers; up to 4 violations, 2 tables, parameters -1..4, default 2, maximum 3; 3 tables (a prefix, a colon), 4 times (two with an offset), 2 schemas, 3 saves; 3 190 000 | no data without the key (`KeyGuardsData`); a page is the slice asked for (`PageIsSlice`); pages add up, without a table filter to `X-Total-Count` (`PagerComplete`); a difference is one of the table it names (`DiffsOfOneTable`); no table is left out (`AnswerComplete`); of snapshots with one offset the two newest are compared, as of the request or later (`ComparesNewest`) |
| `snapshot_order` | the same | violation, see section 5 |
| `listed_diffs` | the same | violation, see section 5 |

Why the bounds are enough for the interesting cases to happen:

- batches of two and slices of five end on, before and after a batch, with an early
  commit at each place; two calls, because calls share only handle and process;
- a Run with two sources has one that fails before one that succeeds, and with two
  violations a save cut short between them; a second Run is at any step of its own at
  the cancellation and at the crash of both; Runs share nothing else, so that a second
  source of the other adds nothing;
- two firings are a slow job and the firing it blocks, or one after the other; what is
  checked of the scheduler with one entry is proved for any entries and firings
  (`DaemonSchedules`);
- one thread for two RPCs makes a task wait behind one that nobody waits for, and its
  file disappear meanwhile;
- three rows hold a duplicate key and another one; two rules interleave their ids;
- a configuration of three sources, the second with a schedule, has sources of both
  kinds on both sides of one of the other;
- two commands are enough to meet at the lock, and the command lines reach each
  refusal of `runIngest`, `runDaemon`, `runServe` and `run_serve`;
- parameters reach below zero, from zero to past the maximum, and past the end;
  three snapshots give one table a newest pair and one more, or two tables one each;
  four times have equal texts but for the offset, and two whose order by text is not
  that of their instants.

`CHECK_DEADLOCK FALSE` stands where the system really stops: the calls are
finite and all have returned (engine, engine_command, ingester, server), or the
daemon has exited. `Pipeline` and `ViolationStore` state their ends, `Launch` starts anew;
they are checked for deadlock.

### Fairness

Weak fairness is given to what a goroutine does by itself when it can go on: the
steps of a store call; of `process` except the return of an engine call; of
`runDaemon`, `Stop` and GC; a firing's token or skip. Cancellations, signals,
crashes, timeouts of the network, firings and requests have none.

- *Subprocesses.* They have no deadline, so `Pipeline`'s fairness promises a
  check's return only once the context is cancelled (`exec.CommandContext` kills
  it). `Engine` promises accordingly little: a kill takes effect, and an ended
  process is noticed.
- *gRPC.* The client's deadline timer fires: fairness of `GiveUp` alone, nothing of
  the network or server. No caller passes a context that has a deadline of its own,
  which would replace the default. That a queued task gets a thread at last is up to
  tokio's pool and is not claimed.
- *Close.* `SF` of `CloseStore`: Badger's GC slot is taken and given back again and
  again, and the waiter in `Close` gets it.

## 4. The proofs

Eight modules hold proofs, for every value of the constants under the assumptions
their modules name. They ask for what the code guarantees: bounds are naturals,
`TxnBatchSize` is positive (a constant, 1000), the default limit is within the
maximum, a table's name is a sequence of characters. `SourceAssumption` gives a
line of a source as many values as it has keys, and a CSV record at least one value
(`encoding/csv` skips empty lines and returns no empty record); `FileAssumption`
says that a configuration is a sequence of `DataSource`s. `SyntaxAssumption` says that
syntax trees are finite, `LineageAssumption` that a character has one to four bytes,
`ProfileAssumption` that NaN is not a number like the others. Nothing is assumed of the
sizes of sets or of the lengths of files.

- **ViolationStoreProofs.** `CommittedIsDurable` and `VerdictExact` are not
  inductive: a commit adds `txn[c]` to the disk, which they do not mention. `IInv`
  adds `Window`: the open transaction holds exactly the indices from `committed[c]`
  to the loop index. `BatchBoundedAlways` (no transaction has more than
  `txnBatchSize` entries, the comment at store.go:86) needs a second invariant,
  because the code never counts a transaction: the transaction starts no earlier
  than the last multiple of the batch size. `Refinement` proves `Spec => LogSpec`,
  action by action.
- **PipelineProofs.** `IInv` is `TypeOK` and for each Run `Position` (Results and
  source agree), `Progress` (what is known of the source in work at each step),
  `Truth`, `Alerted`, `Live` (relates `lastLive` to the step a Run is at) and
  `OwnFile`. `Progress` is what makes the statements about finished sources
  inductive: it becomes `Truth` when `NextSource` moves on. `RecordedAgreesAlways`
  is about a sum: `CountedAppend` says what one more Result adds to it, and `Account`
  says of one Run that its counter is the sum plus the source whose alert is being
  posted, the one moment when the two differ. `RunsSaveAsLogged` proves
  `LoggedSpec => SavesLogged`, action by action: `LInv` ties the history to `pc` (one
  call of a Run is open exactly while it is in `save`, and it was given `found`), and
  `DiskGrows` turns a larger `saved[r][k]` into a longer prefix on disk. Together with
  `Refinement` it says that what `Pipeline` expects of a save is what
  `ViolationStore`'s transactions deliver.
- **DaemonProofs**, in three parts. *The daemon itself*: while the process lives,
  `JobInv` ties a job of the scheduler to its Run (not begun, in work, done),
  `FileInv` ties each temporary CSV to a Run that is at a step which has one, and
  `PhaseInv` says what `runDaemon` may rely on at each statement: in `closing`, no
  job is left *or* `stop` is `timedout`. `ClosedAfterJobsAlways` and
  `CleanShutdownAlways` follow; once the process is over nothing changes. *The
  scheduler*: `SchedInv` adds to its properties that a source's token is in its
  channel exactly when none of its jobs runs; from it `NoOverlapAlways`,
  `DrainedForGoodAlways` and the action property `SkipsAreJustified`, for whoever
  calls it. *The composition*: `ImplementsScheduler` (`Spec => SchedSpec`) shows that
  `runDaemon` uses the scheduler as the scheduler allows, and `DaemonIngests` that
  every step of the daemon is one that `Pipeline` allows, or the death of the
  process, which keeps its invariant. So the properties of both hold in it.
- **EngineProofs.** Both transports implement `Checker` (`Refinement`). A subprocess
  that ended with status zero wrote its whole output (`OutputWhole`); a good reply on
  the wire is the result of a finished task, and a finished task found all of its
  file (`ReplyTruthful`). Both say nothing of the file: they hold although it may be
  removed under a task.
- **EngineCommandProofs**, about the three functions of the engine.
  *check_file* (`CInv`). `Counted`: the count of a key is the cardinality of the rows
  of the first pass that hold it, which by the time of the evaluation are all rows.
  `Reported`: what is reported is exactly what is due up to the current row and rule.
  At the end these give `FindsAllViolationsAlways`.
  *analyze* (`LInv`). Each statement found is the one of its place in the text, and
  the graph has exactly what the statements say so far. The walk of the collectors and
  the reference, which goes down the tree level by level, are both shown to satisfy
  one equation (the tables of a node are its own name and those of its children:
  `VisitedAreChildren`, `BelowByChildren`), from which `SourcesBelow` follows by
  induction over the heights. `DedupRange` and `AddNewOnce` say what removing equal
  neighbours and adding the missing elements do to a sequence. `SafePrefixGreatest`
  says that the walk back from the limit ends, at the greatest boundary within it.
  *profile_file* (`PInv`). `Accumulated`: the accumulator has the counts, the set, the
  extremes and the sum of the cells read so far. `ProfileExact` says nothing before
  the report exists; this is its strengthening, and `UpdateAccumulates` its step.
- **IngesterProofs.** `RowInv`: there is one row for each data line read so far, it is
  found by counting the data lines up to its own, and it holds what the line says.
  That a line's position among the data lines is the number of rows is what
  `Cardinality` lemmas give at each step. `LoadsAllOrNothingAlways` and
  `CellsUnderTheirKeysAlways` follow, for files of any length. `WideRowsReachEngineAlways`
  is an induction over the temporary CSV (`SeesAll`): no line with a cell in it is skipped,
  so that the records are the columns and the rows, and the engine's error about lengths
  is one about the rows.
- **ServerProofs.** `SchemaInv`: what was stored when a request came still has its
  keys (they may be overwritten, never removed), each of its tables is still to be
  read or already in the answer, and no snapshot of then is later, as text, than the
  two in a difference but for these (`TextFresh`). From it `DiffsOfOneTableAlways`,
  `AnswerCompleteAlways` and `ComparesNewestAlways`: of two times with one offset the
  order of the texts is that of the instants (`SameOffset`). That a name without the separator
  cannot be a proper prefix of another key's name is a lemma about sequences.
  `KeyInv` is about the start, the routes and the middleware together and gives
  `KeyGuardsDataAlways`. `ApiInv` says where the scan is among the keys that match
  (`ScanInv`) and that the pager holds the matching keys before its offset
  (`PagerInv`); the least matching key that is still due is what each step of the scan
  takes. From it `PageIsSliceAlways` and `PagerCompleteAlways`, for any limits,
  offsets and number of violations.
- **LaunchProofs.** `PlaintextOptIn` needs what each side had checked when it began (`ServerChecked`, `ClientChecked`)
  and that a call in the clear still belongs to the server that listens
  (`CallConnected`). `SourcesCoveredAlways` rests on `ThosePicked`, an induction over
  the sources: the loop that picks those with a schedule and the one that picks those
  without share out the configuration, each keeping its order.

*Induction.* The library's induction theorems take an operator as a parameter, which
the installed provers cannot instantiate. `NatInduct` states induction with a *set* of
naturals in the place of the operator and is proved from the least element of a set
(`WFMin`). Recursion over data is written as a recursive function; `RunExists` builds
the run of a sequence of steps, `RunsAgree` shows it unique, and both together give a
recursive function the equation it was defined by. Recursive operators stay out of
reach, and so does `SelectSeq`, whose definition is one; no module with a theorem, nor
any it uses, needs one.

*Only model-checked.* Every liveness property: `CancelledRunEnds`, `SignalEndsDaemon`,
`EndsWithoutSchedule`, `EveryCallReturns` (fairness and `ENABLED`
are out of the prover's reach). Every invariant and every action property that a passing
run checks is proved, and so are the refinements (`LogSpec`, `SavesLogged`, `CheckerSpec`,
and the daemon's `SchedSpec`). The `TypeOK` of modules whose run does
not list it is part of their inductive invariant or documents their variables.

## 5. What the checks found

**One-column sources** (run `ingester_one_column`). `WriteTempCSV` writes a row of
one empty cell, such as a NULL of a one-column query, as an empty line, and the
engine's CSV reader skips empty lines (`gi/ingester/ingester.go:190`, against the
package's purpose at lines 1-2). `not_null` finds nothing there and later rows get
wrong numbers. `WideRowsReachEngine` shows that
with two columns only a row of one empty cell, in a CSV file with rows of several
lengths, or of none is lost like this.

**Differences without a change** (run `listed_diffs`). `ListDiffs` answers an empty
difference for a table whose newest two snapshots agree (`gi/store/schema.go:131`),
although its comment leaves such tables out (`schema.go:103`).

**The order of snapshots** (run `snapshot_order`). `ListSnapshots` sorts by the text of
`captured_at` and calls that the order of time (`gi/store/schema.go:84`, 59). With two
offsets it is not: 01:00Z is sorted before 02:00+02:00, which is an hour older, and the
difference then leads from the later schema to the earlier one. `ComparesNewest` claims
the order of the instants only for snapshots of one offset.

**The documented command** (run `launch_documented`). `dataguard ingest` without
`--engine-bin`, as in `README.md:78-83`, takes the relative `dataguard-engine`, which
`Runner.run` refuses (`gi/engine/engine.go:70`) for every source, after it was loaded
and written; `New` does not refuse it, against `engine.go:14`. Its model also has the
gRPC way of `README.md:92`: without `--tmp` the temporary path is absolute, and the
server refuses it (`grpc.rs:31`).

Other places where the code differs from what is written about it. They were met
while reading and modelling, and are described here without a run:

- `dataguard-engine serve --addr engine.internal:50051` (`README.md:127`) is refused,
  because the address is parsed as a socket address (`main.rs:226`);
- ids of two calls in one millisecond are equal (`check.rs:271`; the comment at
  `check.rs:503` calls them unique); in the store they are kept apart by the table,
  which is the name of each call's own temporary file;
- `matches /a b/` has three words and is refused for lack of a number
  (`check.rs:104`, against `check.rs:7`);
- the server's timeout ends the answer and not the task (`grpc.rs:65`, against 62-64);
- `X-Total-Count` is the count under the filter (`violations.go:48`, against 18, which
  has the total before it; `PagerComplete` speaks of the header only without a filter),
  and `limit=0` means no limit (`violations.go:69`, against 73);
- the dashboard fails on the `null` of an empty database (`dashboard.go:108`), shows
  the size of its page as the total (`dashboard.go:109`), and sends no `Authorization`
  header, so that with a key it shows an empty list (`dashboard.go:101`);
- a table name that starts another one's up to a colon shares its scan
  (`schema.go:61`), `nullable` is not
  compared (`schema.go:159`), and nothing calls `SaveSnapshot`
  (`implementation-guide.md:36`);
- JSON `{}` as first line fixes no columns (`ingester.go:103`, against 75), and `null`
  becomes an empty cell (`ingester.go:124`, against 125; `CellsUnderTheirKeys` leaves it
  out);
- a key without the word `Bearer` is admitted (`server.go:84`, against 80-81):
  `TrimPrefix` leaves such a header alone. `KeyGuardsData` asks for the key only;
- names of `WITH` queries are reported as tables (`lineage.rs:168`), a column's
  source may be an alias (`lineage.rs:252`, against `data-model.md:40`), `CREATE VIEW`
  is `OTHER`, and there is no check for cycles (`docs/adr` ADR-002);
- violations are stored under the name of the temporary file (`check.rs:212`, against
  `data-model.md:24`), so that a later run of a source adds to the earlier ones and
  overwrites nothing (against the comment at `main.go:179`).

## 6. Not modelled

- *Generated protobuf code*: it has no behaviour of its own; `EngineRpc` delivers or
  loses its messages.
- *`Profile` as a call, `ListViolations`*: nothing in the program calls them; the first
  is the handler of `Analyze` with another task, the second a scan of its own
  (`store.go:255-286`) that ends in an error above 100 000 violations.
- *HTML, CSS and the text of alerts and tables*: layout and wording.
- *Export of traces and metrics, CORS, HTTP timeouts*: configuration of libraries
  without effect on the program's state.
- *Certificates*: read and handed to libraries; a file is good or bad.
- *Floating point*: cells are abstracted to what a rule says of them, numbers of the
  profiler to integers and NaN; the epsilon of `==` is not modelled.
- *Column lineage* (`collect_select_columns`, `expr_to_col_ref` in `lineage.rs`): one expression at a time
  without state, by pattern matching on syntax that the model abstracts.
