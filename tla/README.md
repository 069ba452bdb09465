# Olopa: TLA+ models, model checking and proofs

This directory holds TLA+ specifications of the parts of Olopa whose
correctness depends on the order in which things happen, or on what several
passes do to the same data: crash-safe files, retries over an unreliable
network, the agent's loop, rules on their way from source text to a verdict, the
correlation windows, and the control plane's tables with their copies on
endpoints and gateways. TLC checks every specification on a small instance;
TLAPS proves the main safety properties of eight of them for instances of any
size: the agent's loop with its telemetry and its statement guard, its spool, its
sender, the ingest server's acceptance log and its flush, the session registry,
the session protocol and the gateway reconciler.

`PROJECT.json` is the index: which definition stands for which lines of the
source, which run checks which property, the mutations that show each property
can fail, the hazards that motivated the properties, and the theorems.

## 1. The system

| Part | Where | What it does |
|---|---|---|
| Agent | `agent/agent` (Rust) | reads kernel events from a ring buffer, stores, scores and schedules them, evaluates rules, ships batches over HTTP; also runs the Secure Connect endpoint |
| eBPF programs | `agent/ebpf` | probes for exec, file, network, DNS, TLS and SQL; tc/xdp filters |
| SQL guard | `agent/sql_guard` | asks the agent for verdicts on SQL statements |
| OIL compiler | `oilc` (Rust) | parses, resolves, checks and lowers rules to runtime IR and Cypher |
| Ingest server | `app/ingest_server` (Rust, axum) | accepts batches durably, evaluates correlation rules, flushes to SurrealDB, ClickHouse or a local file |
| Control plane | `app/control_plane` (Python, FastAPI, SQLite) | tenants, rules, deployments; Secure Connect orchestrator |
| Gateway reconciler | `app/secure_connect_gateway` (Python) | makes a gateway's WireGuard peers those the control plane lists |
| Intel sync | `app/intel_sync` (Python) | publishes threat-intelligence sets to Redis |
| Desktop app | `app/command` (Tauri) | user interface |

They interact in four flows:

- **A, event to row.** ring buffer -> agent loop -> durable spool -> HTTP worker
  -> acceptance log -> partition queue -> correlation -> flush worker -> sink.
- **B, rule to detection.** rule text -> parser -> checks -> lowering -> artifact
  -> the agent and the ingest server load it -> verdicts and alerts, with
  threat-intelligence sets on the server's side.
- **C, laptop to VPN.** enrolment -> `start_session` (gateway, address lease, key)
  -> endpoint applies the profile -> reconciler installs the peer -> heartbeats.
- **D, detection to revocation.** alert -> risk transition -> pending command
  -> next heartbeat; the reconciler removes the peer.

The modules cover flow A from the ring buffer to the sink, flow B from the tokens
of the rule text on, flow C after enrolment, and flow D from the risk transition
on.

## 2. Modules

### Flow A

**`AgentPipeline`** (`agent.rs`, with the adapters of `main.rs`) is the agent's
loop: one step takes one record of the ring buffer or one policy request; the
scheduler and housekeeping ticks, the alert path, shutdown and every error that
ends the loop are steps of their own. It composes three modules:

- `TelemetryWindow` (`relevance_scorer.rs`, `event_store.rs`,
  `metric_aggregator.rs`, `budget_tracker.rs`, `mdkp_scheduler.rs`,
  `batcher_compressor.rs`): scoring with the dead band, the bounded store, the
  digests, the feedback on budgets, the greedy choice and the batches, as
  operators over integers of named precision;
- `EventGraph` (`csr_graph.rs` and the graph's writer in `main.rs`): vertex ids,
  the delta, its merge into the compressed-sparse-row snapshot, dumps;
- `SqlGuard` (`sql_guard/src/lib.rs`, `sql_policy.rs`): client threads and their
  calls, the cache of prepared statements and what the database has prepared under
  the same names, the policy workers with their queue, and the three deadlines that
  race.

The sender is external there: a send succeeds or fails. A request of the guard is
the call and the text as they were written to the socket; the worker passes on
what it read, whatever the client has done since.

**`DurableSpool`** (`transport/durable_spool.rs`) models the record file and the
cursor file as disk state and the two offsets as memory. `pc` is the point that
the one operation under the mutex has reached, so that a crash can fall between
`rename` and `write_cursor` (`"compacted"`), between `set_len` and the cursor
(`"truncated"`), and in the middle of a write (`"written"`). A compaction whose
directory sync or reopen fails after the rename leaves the handle on the replaced
file (`linked`, `atPath`), where later calls go until a restart. The file is a
sequence of cells, with records of two sizes, so an offset that is off points
into a record and is decoded as a length (`GarbageLen`) as the code would.
**`DurableQueue`** is its abstract specification, a FIFO queue;
`ImplementsDurableQueue` is the refinement, with the queue mapped to what a
reader of the spool would get.

**`TelemetrySender`** (`transport/http_sender.rs`) takes the spool at the word of
`DurableQueue` and models the producers (`Emit`, then `Emitted` after the spool's
lock is released), the wake channel, the worker's loop (`WakeUp`, `Peek`,
`PostSucceeds`/`PostFails`, `Acknowledge`, `EndRound`, `Report`), the published
spool size that is read under the lock and stored after it, the housekeeping
drain and restarts. A read or an acknowledgement of the spool may fail. The ingest
server (`durability.rs`) is the payloads it stored and the window of batch ids it
remembers; requests the worker has given up may still reach it (`LateRequest`).

**`DurableAcceptance`** (`ingest_server/src/durability.rs`, `ingest_batch` in
`main.rs`) models the write-ahead log line by line, the dedupe snapshot, what is
synced and what is not, torn lines, lines joined by a missing newline, and a
compaction's two replacements. Every write, sync, rename and reopen may fail
(`Faults`), and a power loss keeps any prefix of what was not synced (`Remains`).

**`IngestFlush`** (`ingest_server/src/telemetry.rs`) models `ack_batch` with its
queue limits, one flush worker per partition, the order of the sinks with
retries and a shared circuit breaker each, commit, graceful shutdown, crash, and
the replay at start. Of the log it keeps the set of uncommitted batches.

### Flow B

**`OilSyntax`** and **`OilParser`** (`oilc/src/parser/mod.rs`) are the parser over
token streams. `OilSyntax` has its functions as operators that return the cursor,
the node and the errors; `OilParser` has its loops, over declarations, clauses and
the items of a clause, as actions, with the error limit and both recoveries.
`MCOilParser` prints trees to tokens (with a precedence table of its own), so that
what the parser reads is compared with what was written.

**`OilChecks`** (`resolver/mod.rs`, `typecheck/mod.rs`) and **`OilLowering`**
(`mid/mod.rs`, `runtime_ir.rs`) are the compiler's passes as operators: names,
types with overloads, lowering, expansion of sets and predicates, validation,
canonical fields, contracts. **`OilCompiler`** is the project driver.

**`RuleEngine`** (`agent/agent/src/runtime_ir.rs`) is the agent's interpreter of
the runtime IR, with the callables that remember what they have seen, and
**`OilRules`** (that file and `ActiveRuleEngine` in `main.rs`) its life: load,
evaluate, reload (fingerprint and read are apart, here and at start-up), rollback,
checkpoint, crash, and callable-state files that are refused.
**`OilMeaning`** says what a rule means from its source alone, without any of the
passes; it is the reference `MeansWhatItSays` compares the verdicts with.

**`CorrelationRules`** and **`Correlation`** (`ingest_server/src/correlation`) are
the server's engine: `CorrelationRules` the compilation into join terms and the
evaluator with its callables; `Correlation` the flush workers that insert into and
probe the shared windows concurrently, prune, evict, raise alerts, repeat a
failed flush and reload the program. **`IntelSync`** (`intel_sync/sync.py`,
`threat_intel.rs`) has one step per Redis command of the publisher and of the
server's poller.

### Flows C and D

**`AccessStates`** holds the session states, their restriction ranks and
`IsRelaxation`, shared by the next two modules.

**`SecureConnectSessions`** (`secure_connect/service.py`, `allocator.py`,
`key_manager.py`, `worker.py`, `router.py`, `models/secure_connect.py`) models the
tables: devices, gateways, sessions, unrevoked key material and address leases.
A handler is one step, because it never awaits between its reads and its commit
and one event loop serves all of them. Two exceptions are modelled as such:
`allocate_address` commits by itself, so a start may be cut short after it, and a
failover pass commits with each lease it takes, so it proceeds session by
session (`todo`, `excluded`).

**`SessionProtocol`** (`session_manager.rs` against `service.py` and
`risk_adapter.py`) is one device's agent and its rows, connected by requests that
may be lost before or after they are handled, or handled after the agent gave
them up. It has the single pending-command slot, nonces, profile versions,
rekeys with a second key held back, policy TTL, reaper, migrations and agent
restarts.

**`GatewayReconciler`** (`secure_connect_gateway/reconciler.py`) polls, observes,
plans, and applies one `wg set` at a time against a peer list that changes under
it. WireGuard itself is external: giving an address to a peer takes it from any
other.

`MC...` modules give constants their values: events, rule projects, streams,
source texts. `...Proofs` modules hold the proofs about the module they are named
after; `SecureConnectProofs` those about `SecureConnectSessions` and
`GatewayReconciler`, the control plane's and the gateway's end of Secure Connect.

## 3. Runs

Run any of them with `tlc -config <cfg> <module>`. `CHECK_DEADLOCK FALSE` is set
throughout because every instance ends when its named bounds are used up or its
input is consumed (and the agent may stop for good, a server may find its log
unreadable).

### Runs that pass

| Run | Properties | What it shows |
|---|---|---|
| `agent_pipeline` | `TelemetryAccounted`, `EveryMatchReported`, `GraphIsLatest`, `ForwardedIsJudged`, `PipelineSettles`, `CallsReturn` | With a failing send, an unreadable `/proc`, a signal, a full store and a full request queue: every event is stored or refused, and transmitted at most once; every match is reported unless the loop ended over it; the snapshot has every vertex and edge of the events merged, with the newest edge properties; a statement forwarded on a verdict is one the main loop let pass for that call, with the text the database runs (for a prepared one, unless its last prepare was refused or too long to remember, see 6); the loop settles and calls return. |
| `spool` | `ReplaysUntilDamaged`, `AcknowledgedStaysGone`, `ImplementsDurableQueue` | With crashes and I/O errors at every point, a record acknowledged through the file at the spool's path is never read again. Until an error or a crash falls between the two files, the spool replays everything unacknowledged and implements `DurableQueue`. |
| `sender` | `StoredInOrder`, `Delivered` | While ids are distinct, no payload is stored before all older ones; a payload is stored again only when the server's window has forgotten it. Every payload, or an older one with its id, is stored in the end, whichever wake-ups, answers and requests are lost; the exception is a spool error in a round that had no deadline (`gaveUp`), after which the worker waits for the next notification. |
| `acceptance` | `SurvivesWhileIntact`, `RestartTransparent`, `AcceptedOnce`, `AcknowledgedIsStored` | Replaying snapshot and log gives what memory held; acknowledged batches survive and keyed ones enter the queue once, until an I/O error or a torn line; what was acknowledged reaches a sink. |
| `ingest_flush` | `CommittedIsPersisted`, `PartitionOrder`, `LogDrains`, `ShutdownEnds` | A batch is committed only when a sink holds it, persisted in order per host across restarts; the log drains; a shutdown ends. |
| `oil_parser` | `ReadsAsWritten`, `DiagnosesBrokenParts` | Some fourteen thousand sources (expressions printed with three ways of breaking lines, every clause before every other but for two pairs, files of mixed declarations, and the same broken, stopping short or cut off): what is well formed is read as written, what is broken gets an error inside it, what stops short no later than at the next token (unless that is `score`), and the parser ends. |
| `oil_rules` | `MeansWhatItSays`, `ShipsWhatCompiled`, `TrackedKeysExact`, `QuietMeansSaved`, `DeployTakesEffect` | From source to verdict: the agent's verdicts and memory are those the sources call for, in rules whose arms match their `from` sources one for one; the artifact holds what compiled and no alias of an arm with a source beside it; the order list and the tables of tracked keys agree; an engine with nothing to save finds the same counts after a crash. A loadable artifact comes into force, unless it is replaced, was itself rolled back, or bears the fingerprint that the last load was given by mistake. |
| `correlation` | `NoMatchMissed`, `AlertsJustified`, `IdsFollowEvents`, `StateBounded`, `IntelConverges` | Two workers in the engine at once, late and unstamped events, a repeated flush and a reload: no join of two sources is missed among the events the windows still hold, the events of a join alert are of its tenant, of the declared families, within the window and under one key or of one host, the same stamped events have one id and events with one id agree in what `identity_key` covers, the indexes stay bounded; the intel snapshot becomes what was last published, save the type of a set whose `HGET` failed. |
| `session_registry` | `OneTunnelPerDevice`, `AddressExclusive`, `KeyFollowsSession` | A device never has two live sessions, two sessions on a gateway never one address, and a live session exactly its own key. |
| `session_protocol` | `CommandsAccepted`, `KeysAgree`, `RevocationTakesEffect`, `ProfileReaches` | The agent never has to reject an answer; agent and server agree on the key outside a rekey; closed sessions end; changed profiles arrive. |
| `gateway_reconciler` | `ConvergedWhenReported`, `Converges` | A round is reported only over a converged interface, and the interface converges. |

Two of these modules have a condition in their properties, and the condition is
where the code is exposed:

- `damaged` in `DurableSpool`: a crash or error between the two files.
- `Intact` in `DurableAcceptance`: no I/O error and no torn line so far. After a
  failed sync or a failed reopen, a batch may be acknowledged into a file that is
  not the log, or be refused and still be replayed.

### The run that finds a disagreement

`score_modifiers` checks a comment of `parse_expr_bp`: "Keep score-clause modifier
prefixes (`+ 10 if ...`) from being absorbed as arithmetic continuation of the
prior line" (`oilc/src/parser/mod.rs:1585`). The flag that
keeps such a line out of the expression above it lives in one activation of the
recursive function. When the right operand of a comparison consumes the line end
in an inner activation, the outer one no longer knows of it, and `- 5` after
`+ 10 if a == b` is read into the condition, without an error.

### Bounds

Every bound is a constant and a conjunct of a guard, or the size of an enumerated
input.

- `agent_pipeline`: 11 worlds (short record streams with what fails in them), 3
  rules, 2 client threads, 1 policy worker, a request queue of 1 and a cache of 1
  prepared statement, a store of 2 events, batches of 2 frames, 4 vertices, a dump
  every 2 periods. Streams of three records fill the store; one name is prepared
  twice, the second time with another text, with one too long to remember, or
  refused. A frame is one event, so the batcher's 4 MB trigger
  (`batcher_compressor.rs:271`) never comes before the 1000 frames and is left out.
- `spool`: 5 records of 2 and 3 cells, capacity 8, compaction threshold 3. The
  file fills, append compacts in line, acknowledge both compacts and resets, and
  a stale cursor lands on a boundary and inside a record. Crashes are unbounded.
- `acceptance`: 2 batches, one with a key and one without, a compaction after
  each commit, 2 crashes and 1 fault. Two crashes are needed to crash, recover,
  write again and crash; the window of remembered keys holds both batches, so
  eviction is not exercised.
- `sender`: 2 producers, a spool of 2, one wake slot, 3 emissions, 1 rejected one
  per producer, 1 restart, 1 failed read or acknowledgement, a window of 1 id. One
  wake slot makes a full channel the common case, one id makes the server forget.
  Late requests have no bound of their own.
- `ingest_flush`: 3 batches over 2 partitions, 2 of one host (so order means
  something), queue limit 2, 2 remote sinks, 2 attempts, threshold 2, 1 shutdown
  or crash. Both breakers open while the other worker flushes.
- `oil_parser`: expressions of nested operators printed with three ways of breaking
  lines (never before an arithmetic operator), pairs and triples of 13 clauses (with
  up to two of 23 broken ones and 11 that stop short among them; conditions of score
  modifiers are names), every clause cut off at every token, triples of 16 declarations. Two pairs
  are left out (see section 6). `MAX_PARSE_ERRORS` is too large to be reached.
- `oil_rules`: 4 projects of up to 6 rules (predicates that call predicates, a local set
  and a local predicate that replace standard ones, derivations, scores, responses,
  lists, patterns, lookups, joins, a predicate without end, a unit that does not
  parse, a callable the agent does not know, an artifact of an older compiler), 4
  kinds of events of which 2 are evaluated, 2 tracked keys, a checkpoint every 2
  changes. A behaviour has 2 events and 1 deployment, with a crash and a fault or
  with a rollback, or 3 deployments, a rollback and a fault: three are enough for an
  artifact to be replaced in the window and to come back. One rule has two arms for
  its one source, so that an alias does survive.
- `correlation`: 4 streams and an early one over 3 hosts and 2 tenants, 4 rules in
  2 programs, a window of 2 ms, 2 events per bucket, 3 buckets, 1 tracked key, 2
  alerts, 1 failed flush, 1 failed command of the poller, 1 feed. The failed flush
  puts events into the windows twice. One stream has three process names, so that
  rare and rate keys are evicted, an event older than the window of the one before
  it, a bucket that is pruned and one that is full, and two connections with the same
  identity.
- `session_registry`: 2 devices of 2 tenants, 2 shared gateways with capacity 2
  and 1, 2 addresses, 2 sessions in all with 1 rekey each; session ids are
  symmetric. Either device may start twice, or each once, so a second start, a
  failover and a leftover lease meet in one state. A third session and gateways
  dedicated to a tenant are not exercised by the run; the theorems hold for every
  `SessionIds` and `Dedicated`.
- `session_protocol`: 2 sessions, 2 events (operator, risk, timer, migration,
  restart), 1 failed heartbeat before the TTL, 1 late request. Lost messages
  are not bounded.
- `gateway_reconciler`: 3 keys, 2 addresses, 6 changes: enough for an address to
  go from one key to another and back while a plan is being applied. Failed
  rounds are unbounded.

### Fairness

- The worker tasks of the agent and the ingest server and their timers are weakly
  fair: tokio runs a ready task, and each loop selects on all its sources. In
  `AgentPipeline` these are the loop's own steps and the passing of time, the
  client threads and the policy workers; nothing makes a client call, the kernel
  emit or a signal arrive.
- What is retried for ever succeeds in the end (strong fairness): the HTTP post,
  the commit to the acceptance log, the local file sink, the reconciler's commands.
  The code has no other way out of these loops; an outage that lasts for ever
  delivers nothing.
- A stopped ingest server is started again. A stopped reconciler is too; the
  repository has no supervisor for it, which is an assumption on the deployment.
- In `SessionProtocol` only the agent's own step is fair: a request is answered or
  given up. No fairness is put on the control plane, on operators, on remote
  sinks, or on given-up requests arriving.
- In `OilRules` a stopped agent is started again and its reload steps are weakly
  fair (every iteration of the agent's loop calls `maybe_reload`), and the evaluation
  of an event ends. In `Correlation` only the intel poller is fair.
- `OilParser` needs none: a bound on the turns of its loops is part of the
  property, so that a parser that stands still violates an invariant.

## 4. Proofs

Each theorem holds for any value of the constants. The only assumptions are the
types of the constants, in the `ASSUME` of the module that declares them, which
TLC evaluates in that module's run. Every proof has the same layout: an inductive
invariant `IInv`, one lemma per action (or group of actions that touch the same
state) that it is kept, and the properties drawn from it.

### Flow A

`AgentPipelineProofs`, with the lemmas about the operators of the window and the
graph and about the steps of the guard in `AgentPipelineLemmas`, for any stream of
records, any calls of any number of threads and workers, any rules, capacities,
budgets, periods and queue lengths,
and whichever send, frame, dump or read of `/proc` fails (`RulesAssumption`,
`WorldsAssumption`, `GraphAssumption`: the types of the rules, of the environments
considered and of the bound on vertices):

| Theorem | Statement |
|---|---|
| `EveryEventAccounted` | `Spec => []TelemetryAccounted` |
| `EveryMatchAlerted` | `Spec => []EveryMatchReported` |
| `ForwardedOnVerdict` | `Spec => []ForwardedIsJudged` |
| `SnapshotIsLatest` | `Spec => []GraphIsLatest` |

The inductive invariants are separate, as the guard and the loop share only the
request queue, and nothing in the loop depends on the graph but a panic.
`GuardInv` follows a text from the client to the verdict: a request in the
backlog, in the queue or at a worker belongs to a call its thread has made, and if
the thread still asks, to the text it asks about (`BacklogInv`, `RequestsInv`,
`WorkerInv`); a verdict is for the text that was asked about (`JudgedInv`); and an
answer a thread holds was given to the call it is in (`AnswerInv`): a late verdict
finds a call that is over and answers nothing. `StatementInv` ties that text to the
one the database runs: what is remembered for a key is what the database has
prepared, unless the key is astray or its thread is still in `PQprepare`
(`CacheInv`, `PrepareInv`); as a key is used by one thread (`OwnKeys`, an assumption
on the worlds: a connection is not shared), a thread asks about the text it would
run (`AskInv`).

`LoopInv` has three parts. `FlowInv` relates the store, the cursor, the window's
counters, the reports, the batcher and what was handed to the sender. For it a
tick must be followed through its loops: `SelectDistinct` and `SolveDistinct` (the
greedy choice takes each waiting id at most once), `PushFlow` and `FlushFlow` (one
push or flush neither loses nor doubles a frame unless it counts it), and
`TickFlow` (nor does a whole tick). `MetricsInv` says that for every program the
summaries sent and the digest held add up to its events; `AlertTypes` that every
event has its sequence of alerts. When the agent has ended, only
`EveryMatchReported` remains of it: the counters of a loop that stopped in the
middle of a tick are not reconciled by anything.

`GraphInv` says of any two vertices that the snapshot has, of the events merged
between them, only such times and the newest (`Newest`), and the delta the times
of all events since. Events whose keys found no room count for nothing, which
stays so because a full index is never added to (`IndexGrows`). `EdgeWritten`
follows one event through the two lookups, the delta and the attempt to dump;
`SnapshotRebuilt` is about `rebuild_csr`: the entries of a row are those of the
snapshot and of the delta (`EntriesOf`), a row lists their targets once and in
order with what `latest_props` leaves (`AscendingEnumerates`, `LatestIsNewest`,
`MergedRowOf`), and cutting the flat arrays at the offsets gives the rows back
(`RowsLaid`, `RowsRead`). That a row has each target once is what makes the time
it shows the maximum.

Selections, matches, pushes and rows are recursive functions of a position. As the
library's induction theorems cannot be instantiated here, `UpwardInduction`
proves from the existence of least elements that what carries over from one
position to the next holds at all of them, and `EvaluateUnfolds`, `SelectUnfolds`,
`PushAllUnfolds`, `LatestUnfolds`, `FlattenedUnfolds` and `OffsetsUnfold` that the
recursive definitions are what they say.

`DurableSpoolProofs`, for any number and order of records, any capacity and
compaction threshold, whatever bytes inside a record decode to, and crashes and
I/O errors at any point (`SpoolAssumption`). Records keep the two sizes of the
model.

| Theorem | Statement |
|---|---|
| `AcknowledgedIsGone` | `Spec => []AcknowledgedStaysGone`, also after the two files have come apart; it excepts what was acknowledged through a handle on a replaced file (`stray`) |
| `ReplaysUnlessDamaged` | `Spec => []ReplaysUntilDamaged` |
| `SpoolIsDurableQueue` | `Spec => ImplementsDurableQueue`: each step is a step of `DurableQueue` or stutters, until the files come apart |
| `StaysInStep` | `Spec => []IInv` |

The properties speak of what a reader gets, which the invariant must reduce to
where cells are. `WrittenOnce` says that no cell is in the file twice (so a
record that was acknowledged has no second copy ahead of the cursor),
`AckedBehind` that acknowledged records are behind both offsets, `Replaced` that the
file at the path, when the handle is on another, has none of those acknowledged
before. `InStep` holds
until the files come apart: up to the write offset the file is whole records
(`Formed`), the read offset is where one starts (`Boundary`), what follows is the
torn record of an append (`TornTail`), and every accepted record that was not
acknowledged starts between the two offsets (`Holds`).
The lemmas the module starts with are about the two scans of a file. `WholeLength` (the scan of
`recover_tail`) and the reader's records are recursive functions of an offset; as
the library's induction theorems cannot be instantiated here, `DownwardInduction`
proves from the existence of least elements that what carries over from all later
offsets to one offset holds at all of them. From it follow what both scans find
in a formed file, and what an append (`ReadsExtended`) and a cut of the
acknowledged prefix (`ReadsDropped`) change of it.

`TelemetrySenderProofs`, for any sets of producers and payloads, any capacity and
number of emissions, failures and restarts (`SenderAssumption`):

| Theorem | Statement |
|---|---|
| `StoresInOrder` | `Spec => []StoredInOrder`; its first half speaks of behaviours where batch ids have told the records apart so far |
| `AcknowledgesOnlyAccepted` | `Spec => []LeavesOnlyAccepted`: of what left the spool the server has the payload, or that of an older record with the same id |

The invariant says that the spool is what was emitted without a prefix
(`SpoolIsRest`), that a request on its way is of a record no younger than the head
of the spool (`LateIsOld`), that the server has stored nothing younger either
(`StoredOld`), and that its window holds the ids of the last payloads it stored
(`Window`). Without `LateIsOld`, a late request could be stored out of turn; without
`Window`, one that is answered as a duplicate might never have been stored.

`DurableAcceptanceProofs`, for any batches with and without keys, any window of
remembered keys (also 0), any compaction threshold, and power losses at any point
(`AcceptanceAssumption`):

| Theorem | Statement |
|---|---|
| `AcknowledgedSurvivesCrashes` | `Spec => []SurvivesWhileIntact`, whether or not keys are evicted |
| `RestartsAreTransparent` | `WindowSuffices => (Spec => []RestartTransparent)` |
| `EnqueuedOnce` | `WindowSuffices => (Spec => []AcceptedOnce)` |

`WindowSuffices` says that `dedupe_max_entries` is at least the number of keys in
use. Beyond it the two properties are false of the model, not only out of reach (two
keys and a window of one show it within a dozen steps): a key that was evicted is
accepted again, and when a compaction has kept the acceptance of a pending batch whose
key was evicted, the next start remembers that key and evicts another. The model
checker's instance satisfies `WindowSuffices`.

`AcknowledgedSurvives` speaks of one crash from the present state. To carry it over
crashes and compactions, the invariant `Sound` (which holds while the log is
`Intact`) says that memory is what a replay of the synced lines gives
(`MemoryIsLog`), that the lines not yet synced are the ones the operation in
progress wrote (`Unsynced`), that sequence numbers increase along the log and the
next one is behind them all (`InSequence`: otherwise a replayed acceptance could
replace another), that a commit line is only of batches a sink has
(`CommitsStored`), and that every key remembered, in memory or in the snapshot, is
of a batch that is in a sink or that a replay finds (`Accounted`: a duplicate is
acknowledged on the strength of its key alone). For the keys, `Keyed` adds that
the snapshot and the log give the window in memory, also when the old log is replayed
over the new snapshot (`ReplayTwice`), and that a batch counted as enqueued is still
remembered. `Reload`, `ReplayLines` and `Compacted` are recursive functions of a
position in the log; `UpwardInduction`, again from the existence of least elements,
gives what they compute.

`IngestFlushProofs`, for any batches, partitions, sinks, limits and number of stops
(`FlushAssumption`):

| Theorem | Statement |
|---|---|
| `CommitsOnlyPersisted` | `Spec => []CommittedIsPersisted` |
| `PersistsInOrder` | `Spec => []PartitionOrder` |
| `NothingStranded` | `Spec => []LogOnItsWay`: a batch in the log is in the replay list, in its partition's queue or in its worker's buffer |

The order needs the whole way to the sink: `WayInOrder` says that buffer, queue and
replay list, in that order, hold the batches of a partition by increasing number;
`LogOnItsWay` that an earlier batch the log still holds cannot be missing from that
way; `OfPartition` that nothing sits with the wrong worker; `SentInOrder` that a new
batch is behind all of them. `OrderedSeq` proves that the replay list a restart
makes of the log is sorted and complete.

### Flows C and D

`SecureConnectProofs`, of `SecureConnectSessions`, for any sets of devices,
gateways, session ids, addresses and tenants, any capacities and any `Dedicated`:

| Theorem | Statement |
|---|---|
| `RegistryTypes` | `Spec => []TypeOK` |
| `OneTunnel` | `Spec => []OneTunnelPerDevice` |
| `ExclusiveAddresses` | `Spec => []AddressExclusive` |
| `KeysFollowSessions` | `Spec => []KeyFollowsSession` |

The only assumption is `RegistryAssumption` in `SecureConnectSessions` (the types
of the constants), which TLC evaluates in `session_registry`.

None of the properties is inductive alone. The inductive invariant `IInv` adds
four facts:

- `LeaseOwned`: an address of a gateway is leased to one device, and a device
  leases one address of a gateway (the first is the unique constraint of the lease
  table; the second is kept by `allocate_address`, which looks for the device's own
  lease before it adds one, in one step here).
- `LiveLeased`: a live session holds the lease of its address. With `LeaseOwned`
  and `OneTunnelPerDevice` this gives `AddressExclusive`.
- `PassLeaves`: the sessions a failover pass has yet to move are on gateways it
  excludes. The lease a migration releases is therefore never the one it took.
- `KeysOfSessions`: key rows belong to sessions that exist, so a new session
  starts without keys.

The proof has one lemma per helper (`SelectGatewayRange`,
`AllocateAddressSound`, `OnlyRelaxingRevives`), one for the steps that only change
session states (`StateChangeKeepsIInv`), and one step per action under the
induction.

`SessionProtocolProofs`, for any number of sessions, events, failed heartbeats, lost
and late requests (`ProtocolAssumption`):

| Theorem | Statement |
|---|---|
| `AnswersAreAcceptable` | `Spec => []CommandsAccepted` |
| `SidesAgreeOnKey` | `Spec => []KeysAgree` |

The invariant relates the agent to the row it talks to while the row moves on. A
row's nonce only grows and its state only becomes more restrictive, but for the way
back from `elevated` to `healthy` (`RowStep`, `MayBecome`, which is transitive).
`InSession` says that the agent is behind its row in that sense, `ResponseOK` that
an answer on its way lies between the two, and `LateOK` that a rekey the agent gave
up is for a session it has left; otherwise a late rekey could change the key
under a tunnel.

`SecureConnectProofs`, of `GatewayReconciler`, for any sets of keys and addresses
and any number of changes (`ReconcilerAssumption`: the bound is a natural number):

| Theorem | Statement |
|---|---|
| `ReportsConverged` | `ReconcilerSpec => []ConvergedWhenReported` |
| `NeverRevokesListed` | `ReconcilerSpec => RemovesOnlyDropped`: a round takes off only peers that were dropped since they were set up |
| `RevokesBeforeItServes` | `ReconcilerSpec => RevokedFirst`: no peer is given an address while a peer the poll did not list is on the interface |

The invariant `ReconcilerInv` says that the list has each address once, also as
last polled (`Distinct`; otherwise setting one peer could take the address of another that is
done), that a peer on the interface is listed still or was dropped (`Accounted`),
and that the rest of the plan is exactly what the interface still lacks
(`PlanIsRest`); when nothing is left of the plan, the interface is the list.

### Only model-checked

- All liveness properties: the prover does not handle fairness.
- Everything about `OilSyntax`, `OilParser`, `OilChecks`, `OilLowering`,
  `OilCompiler`, `OilMeaning`, `RuleEngine`, `OilRules`, `CorrelationRules` and
  `Correlation`: they walk trees with `RECURSIVE` operators, with which the prover
  loses its SMT backend, and their properties are inductions over syntax.

## 5. What is not modelled

`PROJECT.json` lists every component with its status. In short:

- *Text and data:* the lexer (a generated grammar; the parser's model starts from
  tokens), SQL normalisation, decoding payloads into batches, row flattening, Cypher
  and other renderings, posture reports, the wording and spans of diagnostics.
- *I/O without protocol:* attaching probes, running `wg`/`ip`/`nft` (they succeed
  or fail), the requests of the two remote sinks, read-only pages, the desktop
  application, the status files.
- *Kernel side:* the eBPF programs decode arguments and packets; the agent's model
  takes their records as input.
- *Records nobody modelled reads:* the control plane's rule versions and deployment
  states. The agent takes its artifact from a file, which `OilRules` models.
- *Code the agent does not reach:* the gRPC sender, the LP and branch-and-bound
  tiers of the scheduler, `bfs` and `k_hop_subgraph`, the fleet aggregator, sweeps
  nothing calls.
- *Inside modelled parts:* spool
  records that do not decode; several tenants on one gateway's peer list; the
  reconciler's dry-run mode; the threshold matcher used without an artifact
  (`OLOPA_ALLOW_SIMPLE_RULE_FALLBACK`); floating-point rounding; the rate limiter;
  enrolment tokens; how long anything takes.

Known exposures no run covers are in the hazards of `PROJECT.json`, with a note
each.

## 6. What modelling brought up

Behaviours met while translating the code that are no property of a run. The models
contain them; properties are stated so that they hold beside them.

Delivery and storage:

- The spool's compaction renames the shorter file into place before it rewrites the
  cursor: a crash in between leaves a cursor beyond unacknowledged records
  (`damaged`), against `durable_spool.rs:3-5`.
- A torn last line of the acceptance log is skipped but not truncated; the next
  accept is appended to it and the following start refuses the log
  (`durability.rs:361`).
- The sensor's and a handle's batch counters both start at 0; in one millisecond
  they make the same id (`http_sender.rs:342-343`) and the younger payload is lost.
- `stats` reports `spooling` whenever bytes are pending, so the drain of
  `agent.rs:1208` is unreachable: after a read or an acknowledgement that failed with
  no deadline set (`http_sender.rs:512-515`) the worker waits for the next emission.
- When the directory sync or the reopen after a compaction's rename fails
  (`durable_spool.rs:189-195`), the handle stays on the replaced file: what is
  acknowledged through it (`stray`) is read again after a restart.

Agent:

- The event store is never reset (a comment says "Called every 60s") and
  `evict_stale` is never called; unscheduled events are lost at shutdown.
- A ring buffer that never runs empty keeps scheduler and shutdown from running.
- A dump of the graph may ask for vertices that are not in the snapshot yet
  (`csr_graph.rs:143`). A node created and updated within one merge window keeps its
  first risk and time.
- `PQprepare` remembers a text before it forwards and does not look at the result,
  and a text too long to remember leaves an older one under the same name
  (`sql_guard/src/lib.rs:192-194, 387-390`): until the next prepare of that name the
  verdict is about the remembered text, not the one the database runs (`astray`).
- The counters of a pass that ends in an error are not added up (`agent.rs:614-622`);
  the agent ends with it.
- Policy events are stamped with the wall clock, kernel events with the time since
  boot.

Rules:

- `not a == b` is read as `(not a) == b`. A `require` clause takes a `score` line
  after it as its own, and `verify` a `require` line (the two pairs `oil_parser`
  leaves out). A clause that stops short of an operand (`where a ==`, as in the test
  at `parser/mod.rs:2648`) has its errors at the next clause, whose first line may be
  given up; before a `score` line it takes `score` for the operand. `let x =` before
  `b = a` or a `score` line, and whatever follows the expression of a `let` on its
  line, are skipped without an error (`parser/mod.rs:849-854`). A second `where`, `within`, `score` or `respond` replaces the first
  without a word.
- The artifact is written with the units that compiled; rule ids that repeat across
  units are not detected; a rule that compiles may still be refused by the agent
  (a callable it does not know).
- `len(distinct(x))` is Null; `rate(...) between` counts twice; a checkpoint forgets
  the order of eviction.
- A rollback brings back an engine with its older memory, and one in the window
  between fingerprint and read is undone by the next check. An artifact replaced in
  that window is loaded under the other's fingerprint; when the other comes back it
  passes for loaded and stays out until something else is deployed
  (`main.rs:1403` and `1414`, `1299` and `1306`).
- A callable-state file that stays unreadable, or is another host's, keeps the agent
  from starting and every new artifact out (`runtime_ir.rs:208-232`). The run lets
  the file be refused once.
- `lower_rule_sources` pairs arms with `from` sources by position
  (`mid/mod.rs:1050-1056`). The alias of an arm beyond the last source, and the
  variable of `by process as p`, stay in the artifact, where the agent resolves them
  by the end of the path alone; the comment at `oilc/src/runtime_ir.rs:706-709` warns
  of just that. Of the standard rules `write_below_etc.oil` has such a variable. An
  arm beside a source of another entity gets that source's root. `MeansWhatItSays`
  speaks of neither.
- On the server, `unusual_for` and `is_shell` are Null, literal filters of `on` are
  not evaluated, rules with four or more sources never match, and the join of the
  shipped rule `sql_ddl_outside_business_hours` never meets (`engine.rs:590`). A
  reload that changes the joins of a rule id reuses its old buckets.
- An alert id does not cover the user, the attributes (the name a DNS query asks for)
  or the source of a connection (`event.rs:158-192`): two such events of one
  millisecond share an id, where `alerts.rs:39` speaks of "the exact set of events".
- A feed whose fetch fails disappears from the published sets until the next sync.
  When the `HGET` of a set's type fails, `poll_once` takes it for a set of strings and
  remembers the generation (`threat_intel.rs:138-140`): a set of addresses then
  matches none until the next sync.

Secure Connect:

- When an operator takes the safe CIDRs off the profile of a restricted session, every
  answer that needs the profile is refused (`service.py:88-95`): the agent's heartbeats
  fail until the policy TTL ends the tunnel and the agent starts another session.
- A `refresh_profile` staged before the heartbeat overwrites a pending `restrict`
  (`docs/engineering-onboarding.md:147`); the profile it brings does have the
  restricted routes.
- A start the agent had given up, handled late, closes the newer session, and the
  agent takes that for a termination.
