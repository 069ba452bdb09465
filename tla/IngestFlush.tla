----------------------------- MODULE IngestFlush -----------------------------
(***************************************************************************)
(* The ingest runtime (app/ingest_server/src/telemetry.rs): batches that   *)
(* the acceptance log has taken go through bounded partition queues to one *)
(* flush worker per partition, which persists what it has buffered in the  *)
(* first sink that takes it and then commits it in the log.                *)
(*                                                                         *)
(* Of the acceptance log only the set of uncommitted batches is kept;      *)
(* DurableAcceptance models the log itself.  A sink is where rows end up   *)
(* and not what they look like: `persisted' is what some sink holds.  A    *)
(* batch has one row.                                                      *)
(***************************************************************************)
EXTENDS FiniteSetsExt, SequencesExt

CONSTANTS
    Batches,      \* the batches, numbered in the order they are sent
    Workers,      \* the partitions
    PartitionOf,  \* batch -> partition_for its tenant and host
    QueueMax,     \* queue_maxsize
    FlushRows,    \* flush_max_rows
    Remotes,      \* the configured remote sinks, in the order they are tried
    Attempts,     \* sink_retry_max_attempts
    Threshold,    \* circuit_failure_threshold
    MaxStops      \* bound: shutdowns and crashes

ASSUME FlushAssumption ==
    /\ Batches \subseteq Nat /\ PartitionOf \in [Batches -> Workers]
    /\ {QueueMax, FlushRows, Attempts, Threshold} \subseteq Nat \ {0}
    /\ IsInjective(Remotes) /\ MaxStops \in Nat

VARIABLES
    phase,      \* "replaying", "serving", "stopping" or "down"
    log,        \* accepted and not committed
    recovered,  \* what start_worker has still to hand over, oldest first
    channel,    \* worker -> its partition queue
    queued,     \* the counter behind the queue limit
    buffer,     \* worker -> pending_batches
    flush,      \* worker -> where it is in its loop: see Idle
    leaving,    \* the workers that have seen the shutdown signal
    failures,   \* remote -> consecutive_failures
    open,       \* the remotes whose circuit is open
    sent,       \* history: the batches ever sent
    accepted,   \* history: the batches ever accepted
    persisted,  \* history: the batches a sink holds
    stops

vars == <<phase, log, recovered, channel, queued, buffer, flush, leaving,
          failures, open, sent, accepted, persisted, stops>>
queues == <<recovered, channel, queued>>
stage == <<phase, leaving>>
breakers == <<failures, open>>
history == <<sent, accepted, stops>>

\* div_ceil of the queue limit by the number of workers.
PartitionCapacity == (QueueMax + Cardinality(Workers) - 1) \div Cardinality(Workers)

\* A worker that waits in its select; `at' is the step of a flush otherwise, and
\* `permanent' whether a sink has refused the rows for good.
Idle == [at |-> "idle", sink |-> 0, tries |-> 0, permanent |-> FALSE]

At(step, permanent) == [Idle EXCEPT !.at = step, !.permanent = permanent]

\* Mutant: the replay starts with the newest batch.
NewestFirst(S) ==
    [i \in 1 .. Cardinality(S) |-> CHOOSE b \in S : Cardinality({c \in S : c > b}) = i - 1]

\* The order of the log's sequence numbers: the i-th has i - 1 before it.
Ordered(S) ==
    [i \in 1 .. Cardinality(S) |-> CHOOSE b \in S : Cardinality({c \in S : c < b}) = i - 1]

Init ==
    /\ phase = "replaying" /\ log = {} /\ recovered = <<>>
    /\ channel = [w \in Workers |-> <<>>] /\ queued = 0
    /\ buffer = [w \in Workers |-> <<>>] /\ flush = [w \in Workers |-> Idle] /\ leaving = {}
    /\ failures = [s \in ToSet(Remotes) |-> 0] /\ open = {}
    /\ sent = {} /\ accepted = {} /\ persisted = {} /\ stops = 0

-----------------------------------------------------------------------------
(* Acceptance and the queues. *)

Enqueue(b) ==
    /\ channel' = [channel EXCEPT ![PartitionOf[b]] = Append(@, b)]
    /\ queued' = queued + 1

\* start_worker hands over what the log recovered, waiting for room in the
\* partition; then the server is ready to serve.
ReplayRecovered ==
    /\ phase = "replaying"
    /\ IF recovered = <<>>
       THEN phase' = "serving" /\ UNCHANGED queues
       ELSE /\ Len(channel[PartitionOf[Head(recovered)]]) < PartitionCapacity
            /\ Enqueue(Head(recovered))
            /\ recovered' = Tail(recovered)
            /\ UNCHANGED phase
    /\ UNCHANGED <<log, leaving, buffer, flush, breakers, history, persisted>>

HasRoom(b) == queued < QueueMax /\ Len(channel[PartitionOf[b]]) < PartitionCapacity

\* ack_batch, with the acceptance and the queue insertion of DurableAcceptance.
AckBatch(b) ==
    /\ phase = "serving" /\ b \notin sent /\ \A c \in Batches \ sent : b <= c
    /\ sent' = sent \cup {b}
    /\ IF HasRoom(b)
       THEN Enqueue(b) /\ log' = log \cup {b} /\ accepted' = accepted \cup {b}
       ELSE UNCHANGED <<channel, queued, log, accepted>>
    /\ UNCHANGED <<stage, recovered, buffer, flush, breakers, persisted, stops>>

Received == queued - 1

\* The step of a flush after remote number k (0: the first step).
AfterRemote(k, permanent) ==
    IF k < Len(Remotes)
    THEN [at |-> "remote", sink |-> k + 1, tries |-> 0, permanent |-> permanent]
    ELSE At(IF permanent THEN "dead_letter" ELSE "jsonl", permanent)

FlushStart == AfterRemote(0, FALSE)

\* The worker receives a batch, and flushes when it has enough rows.
Receive(w) ==
    /\ flush[w] = Idle /\ channel[w] # <<>>
    /\ channel' = [channel EXCEPT ![w] = Tail(@)]
    /\ queued' = Received
    /\ buffer' = [buffer EXCEPT ![w] = Append(@, Head(channel[w]))]
    /\ flush' = [flush EXCEPT ![w] = IF Len(buffer'[w]) >= FlushRows THEN FlushStart ELSE Idle]
    /\ UNCHANGED <<stage, log, recovered, breakers, history, persisted>>

\* The flush interval.
FlushTick(w) ==
    /\ flush[w] = Idle /\ buffer[w] # <<>>
    /\ flush' = [flush EXCEPT ![w] = FlushStart]
    /\ UNCHANGED <<stage, log, queues, buffer, breakers, history, persisted>>

-----------------------------------------------------------------------------
(* flush_pending and persist_batches.  Two workers may be in here at once and
   share the circuit breakers. *)

Remote(w) == Remotes[flush[w].sink]

Persist(w) == persisted' = persisted \cup ToSet(buffer[w])

\* persist_remote_with_retry finds the circuit open: a transient failure.
RemoteSkipped(w) ==
    /\ flush[w].at = "remote" /\ flush[w].tries = 0 /\ Remote(w) \in open
    /\ flush' = [flush EXCEPT ![w] = AfterRemote(@.sink, @.permanent)]
    /\ UNCHANGED <<stage, log, queues, buffer, breakers, history, persisted>>

Attempting(w) ==
    flush[w].at = "remote" /\ (flush[w].tries > 0 \/ Remote(w) \notin open)

\* Another worker may have opened the circuit meanwhile; success closes it.
RemoteSucceeds(w) ==
    /\ Attempting(w)
    /\ Persist(w)
    /\ failures' = [failures EXCEPT ![Remote(w)] = 0]
    /\ open' = open \ {Remote(w)}
    /\ flush' = [flush EXCEPT ![w] = At("commit", FALSE)]
    /\ UNCHANGED <<stage, log, queues, buffer, history>>

\* CircuitBreaker::failure.
BreakerFailure(s) ==
    IF failures[s] + 1 >= Threshold
    THEN failures' = [failures EXCEPT ![s] = 0] /\ open' = open \cup {s}
    ELSE failures' = [failures EXCEPT ![s] = @ + 1] /\ UNCHANGED open

\* An attempt fails; after a timeout the sink may hold the rows all the same.
RemoteFails(w, permanent) ==
    /\ Attempting(w)
    /\ Persist(w) \/ UNCHANGED persisted
    /\ IF permanent \/ flush[w].tries + 1 = Attempts
       THEN /\ BreakerFailure(Remote(w))
            /\ flush' = [flush EXCEPT ![w] = AfterRemote(@.sink, @.permanent \/ permanent)]
       ELSE flush' = [flush EXCEPT ![w].tries = @ + 1] /\ UNCHANGED breakers
    /\ UNCHANGED <<stage, log, queues, buffer, history>>

CircuitCloses(s) ==
    /\ s \in open
    /\ open' = open \ {s}
    /\ UNCHANGED <<stage, log, queues, buffer, flush, failures, history, persisted>>

\* The JSONL file or the dead-letter file takes the rows.
LocalSucceeds(w) ==
    /\ flush[w].at \in {"jsonl", "dead_letter"}
    /\ Persist(w)
    /\ flush' = [flush EXCEPT ![w] = At("commit", FALSE)]
    /\ UNCHANGED <<stage, log, queues, buffer, breakers, history>>

Gone == At("gone", FALSE)

\* The worker after a flush: back in its loop, or gone if it has left it.
AfterFlush(w) == IF w \in leaving THEN Gone ELSE Idle

\* Mutant: a flush that failed drops what it could not write.
FlushDropsBatches(w) ==
    /\ flush' = [flush EXCEPT ![w] = AfterFlush(w)]
    /\ buffer' = [buffer EXCEPT ![w] = <<>>]

\* The flush failed: the batches stay in the buffer and in the log.
FlushFails(w) ==
    /\ flush' = [flush EXCEPT ![w] = AfterFlush(w)]
    /\ UNCHANGED buffer

\* JSONL is the fallback of the remotes and has the dead letters behind it; as
\* the only sink it has nothing.
LocalFails(w) ==
    /\ \/ /\ flush[w].at = "jsonl" /\ Remotes # <<>>
          /\ flush' = [flush EXCEPT ![w] = At("dead_letter", @.permanent)]
          /\ UNCHANGED <<buffer>>
       \/ /\ flush[w].at = "dead_letter" \/ (flush[w].at = "jsonl" /\ Remotes = <<>>)
          /\ FlushFails(w)
    /\ UNCHANGED <<stage, log, queues, breakers, history, persisted>>

\* Mutant: everything the worker's partition has in the log is committed.
CommittedPartition(w) == {b \in log : PartitionOf[b] = w}

Committed(w) == ToSet(buffer[w])

Commit(w) ==
    /\ flush[w].at = "commit"
    /\ log' = log \ Committed(w)
    /\ buffer' = [buffer EXCEPT ![w] = <<>>]
    /\ flush' = [flush EXCEPT ![w] = AfterFlush(w)]
    /\ UNCHANGED <<stage, queues, breakers, history, persisted>>

CommitFails(w) ==
    /\ flush[w].at = "commit"
    /\ FlushFails(w)
    /\ UNCHANGED <<stage, log, queues, breakers, history, persisted>>

-----------------------------------------------------------------------------
(* Shutdown, crash and restart. *)

\* The listener has stopped serving and the workers are told.
Shutdown ==
    /\ phase = "serving" /\ stops < MaxStops
    /\ phase' = "stopping" /\ stops' = stops + 1
    /\ UNCHANGED <<leaving, log, queues, buffer, flush, breakers, sent, accepted, persisted>>

\* Mutant: only a worker with something to flush looks at the signal.
WorkerStopsWithRows(w) ==
    /\ phase = "stopping" /\ flush[w] = Idle /\ buffer[w] # <<>>
    /\ leaving' = leaving \cup {w}
    /\ flush' = [flush EXCEPT ![w] = FlushStart]
    /\ UNCHANGED <<phase, log, queues, buffer, breakers, history, persisted>>

\* The select sees the signal: a last flush, or nothing is left to do.
WorkerStops(w) ==
    /\ phase = "stopping" /\ flush[w] = Idle
    /\ leaving' = leaving \cup {w}
    /\ flush' = [flush EXCEPT ![w] = IF buffer[w] = <<>> THEN Gone ELSE FlushStart]
    /\ UNCHANGED <<phase, log, queues, buffer, breakers, history, persisted>>

\* The workers are joined and the process ends.
Joined ==
    /\ phase = "stopping" /\ \A w \in Workers : flush[w] = Gone
    /\ phase' = "down"
    /\ UNCHANGED <<leaving, log, queues, buffer, flush, breakers, history, persisted>>

Crash ==
    /\ phase # "down" /\ stops < MaxStops
    /\ phase' = "down" /\ stops' = stops + 1
    /\ UNCHANGED <<leaving, log, queues, buffer, flush, breakers, sent, accepted, persisted>>

\* The next start: nothing but the log survives.
Restart ==
    /\ phase = "down"
    /\ phase' = "replaying"
    /\ recovered' = Ordered(log)
    /\ channel' = [w \in Workers |-> <<>>] /\ queued' = 0
    /\ buffer' = [w \in Workers |-> <<>>] /\ flush' = [w \in Workers |-> Idle] /\ leaving' = {}
    /\ failures' = [s \in ToSet(Remotes) |-> 0] /\ open' = {}
    /\ UNCHANGED <<log, history, persisted>>

-----------------------------------------------------------------------------

FlushStep(w) ==
    \/ RemoteSkipped(w) \/ RemoteSucceeds(w) \/ \E p \in BOOLEAN : RemoteFails(w, p)
    \/ LocalSucceeds(w) \/ LocalFails(w) \/ Commit(w) \/ CommitFails(w)

WorkerStep(w) == Receive(w) \/ FlushTick(w) \/ FlushStep(w) \/ WorkerStops(w)

Next ==
    \/ ReplayRecovered
    \/ \E b \in Batches : AckBatch(b)
    \/ phase # "down" /\ \E w \in Workers : WorkerStep(w)
    \/ \E s \in ToSet(Remotes) : CircuitCloses(s)
    \/ Shutdown \/ Joined \/ Crash \/ Restart

Spec == Init /\ [][Next]_vars

\* A process that is down is started again; a worker's task runs and its select
\* sees what is ready; and a local file or a commit that is tried again and
\* again succeeds in the end.
Fairness ==
    /\ WF_vars(Restart \/ ReplayRecovered \/ Joined)
    /\ \A w \in Workers :
          /\ WF_vars(phase # "down" /\ WorkerStep(w))
          /\ SF_vars(phase # "down" /\ LocalSucceeds(w))
          /\ SF_vars(phase # "down" /\ Commit(w))

FairSpec == Spec /\ Fairness

-----------------------------------------------------------------------------
(* Properties. *)

\* Every variable has the type the code gives it: the queue counter is what the
\* queues hold (it never underflows), and a breaker's count stays below the
\* threshold that opens it.
TypeOK ==
    /\ phase \in {"replaying", "serving", "stopping", "down"}
    /\ log \subseteq accepted /\ accepted \subseteq sent /\ persisted \subseteq accepted
    /\ queued = MapThenSumSet(LAMBDA w : Len(channel[w]), Workers)
    /\ \A w \in Workers : Len(channel[w]) <= PartitionCapacity
    /\ \A s \in ToSet(Remotes) : failures[s] \in 0 .. Threshold - 1

\* "Persist pending batches ... then commit": a batch leaves the log only after
\* a sink holds its rows, whichever sinks fail, skip or time out.
CommittedIsPersisted == accepted \ log \subseteq persisted

\* The batches of one tenant and host reach the sinks in the order they were
\* accepted, replay after a restart included.
PartitionOrder ==
    \A b \in persisted, c \in accepted :
        PartitionOf[b] = PartitionOf[c] /\ c < b => c \in persisted

\* Every accepted batch is persisted and committed in the end, through failing
\* sinks, open circuits, shutdowns and crashes.
LogDrains == []<>(log = {})

\* A shutdown ends: the last flushes give up after their retries.
ShutdownEnds == phase = "stopping" ~> phase = "down"
=============================================================================
