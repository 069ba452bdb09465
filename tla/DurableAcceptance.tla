-------------------------- MODULE DurableAcceptance --------------------------
(***************************************************************************)
(* The acceptance log of the ingest server                                 *)
(* (app/ingest_server/src/durability.rs): a write-ahead log of accepted    *)
(* batches and a snapshot of the idempotency keys already seen.            *)
(*                                                                         *)
(* accept, commit and compact hold one mutex from start to end, so `pc' is *)
(* the point the operation in progress has reached.  The log is a sequence *)
(* of lines; a line that a crash or a failed write cut short is torn, and  *)
(* what is appended to a line without its newline becomes one corrupt line *)
(* with it.  A power loss keeps any prefix of what was not yet synced.     *)
(*                                                                         *)
(* A batch stands for its content and, unless it is in Keyless, for the    *)
(* key (tenant_id, host_id, batch_id) it carries: a client that resends a  *)
(* batch resends the same key.                                             *)
(***************************************************************************)
EXTENDS Sequences, FiniteSetsExt

CONSTANTS
    Batches,
    Keyless,        \* the batches without a batch_id
    MaxEntries,     \* dedupe_max_entries
    CompactAfter,   \* compact_after_commits
    Faults,         \* which I/O errors happen: see FaultKinds
    TornTails,      \* may a crash leave part of a line behind?
    CrashPoints,    \* the values of pc at which the process may die
    MaxSequence,    \* bound: acceptances between two compactions
    MaxCrashes,     \* bound
    MaxFaults       \* bound

FaultKinds == {"accept_write", "accept_sync", "abort", "commit", "snapshot", "replace", "reopen"}

Points == {"closed", "ready", "written", "synced", "aborting", "committing", "compacting",
           "snapshotted"}

ASSUME AcceptanceAssumption ==
    /\ Keyless \subseteq Batches
    /\ MaxEntries \in Nat /\ CompactAfter \in Nat \ {0}
    /\ Faults \subseteq FaultKinds /\ TornTails \in BOOLEAN
    /\ CrashPoints \subseteq Points
    /\ {MaxSequence, MaxCrashes, MaxFaults} \subseteq Nat

VARIABLES
    wal,        \* disk: the lines of the file at wal_path
    onDisk,     \* how many of those lines a power loss cannot take
    snapshot,   \* disk: the dedupe snapshot
    attached,   \* is the open file still the one at wal_path?
    nextSequence,
    pending,    \* accepted and not committed
    order,      \* the remembered keys, oldest first (`seen' is their set)
    commits,    \* commits_since_compaction
    healthy,
    pc,
    job,        \* the acceptance in progress
    inflight,   \* entries in the queues and in the workers' buffers
    flushing,   \* entries a worker has persisted and is about to commit
    acked,      \* history: batches answered accepted
    accepts,    \* history: how often each batch entered the queue (2: more than once)
    stored,     \* history: batches a sink has
    crashes,
    faults,     \* how many I/O errors have happened
    torn        \* history: has a crash left part of a line behind?

disk == <<wal, onDisk, snapshot>>
memory == <<nextSequence, pending, order, commits, healthy, attached>>
workers == <<inflight, flushing>>
outcome == <<acked, accepts, stored, crashes>>
history == <<outcome, faults, torn>>
vars == <<disk, memory, pc, job, workers, history>>

SequenceNumbers == 1 .. MaxSequence

Entries == [seq : SequenceNumbers, batch : Batches]

Entry(q, b) == [seq |-> q, batch |-> b]

NoJob == [entry |-> <<>>, before |-> <<>>]

-----------------------------------------------------------------------------
(* The lines of the log, and the keys. *)

Line(op, entries, b) == [op |-> op, of |-> entries, key |-> b, ended |-> TRUE]

AcceptLine(e) == Line("accept", {e}, e.batch)

Torn == [op |-> "torn", of |-> {}, key |-> <<>>, ended |-> FALSE]

Corrupt == [op |-> "corrupt", of |-> {}, key |-> <<>>, ended |-> TRUE]

\* The last line lacks its newline.
Unfinished(lines) == lines # <<>> /\ ~lines[Len(lines)].ended

\* append_record: what is written after an unfinished line becomes part of it.
AppendLines(lines, new) ==
    IF Unfinished(lines)
    THEN SubSeq(lines, 1, Len(lines) - 1) \o <<IF Head(new).ended THEN Corrupt ELSE Torn>> \o Tail(new)
    ELSE lines \o new

Evicts(keys, b) == b \notin Keyless /\ b \notin Range(keys) /\ Len(keys) = MaxEntries

\* DedupeState::remember, for a batch that may have no key.
Remember(keys, b) ==
    IF MaxEntries = 0 \/ b \in Keyless \/ b \in Range(keys) THEN keys
    ELSE IF Evicts(keys, b) THEN Append(Tail(keys), b)
    ELSE Append(keys, b)

\* DedupeState::forget.  No key is in the window twice.
Forget(keys, b) ==
    IF b \in Range(keys)
    THEN LET i == CHOOSE j \in DOMAIN keys : keys[j] = b
         IN  SubSeq(keys, 1, i - 1) \o SubSeq(keys, i + 1, Len(keys))
    ELSE keys

\* Mutant: an abort leaves the key of the refused batch behind.
ReplayKeepsAborted(state, line) ==
    CASE line.op = "accept" ->
            [pending |-> {e \in state.pending : e.seq \notin {x.seq : x \in line.of}} \cup line.of,
             order |-> Remember(state.order, line.key)]
      [] line.op \in {"commit", "abort"} -> [state EXCEPT !.pending = @ \ line.of]
      [] line.op = "forget" -> [state EXCEPT !.order = Forget(@, line.key)]

\* replay_wal, one line.
ReplayLine(state, line) ==
    CASE line.op = "accept" ->
            [pending |-> {e \in state.pending : e.seq \notin {x.seq : x \in line.of}} \cup line.of,
             order |-> Remember(state.order, line.key)]
      [] line.op = "commit" -> [state EXCEPT !.pending = @ \ line.of]
      [] line.op = "abort" ->
            IF line.of \subseteq state.pending
            THEN [pending |-> state.pending \ line.of, order |-> Forget(state.order, line.key)]
            ELSE state
      [] line.op = "forget" -> [state EXCEPT !.order = Forget(@, line.key)]

\* The lines replay_wal reads: a torn last line is skipped.
Whole(lines) ==
    IF lines # <<>> /\ lines[Len(lines)].op = "torn" THEN SubSeq(lines, 1, Len(lines) - 1) ELSE lines

\* Does replay_wal succeed?
Readable(lines) == \A i \in DOMAIN lines : lines[i].op # "corrupt"

\* load_dedupe_snapshot: the saved keys are remembered one by one.
Reload(keys) ==
    LET at[n \in 0 .. Len(keys)] ==
            IF n = 0 THEN <<>> ELSE Remember(at[n - 1], keys[n])
    IN  at[Len(keys)]

\* replay_wal, with the window of keys it starts from.
ReplayLines(window, lines) ==
    LET at[n \in 0 .. Len(lines)] ==
            IF n = 0 THEN [pending |-> {}, order |-> window] ELSE ReplayLine(at[n - 1], lines[n])
    IN  at[Len(lines)]

\* What open makes of the two files.
Replay(keys, lines) == ReplayLines(Reload(keys), Whole(lines))

Highest(entries) == Max({e.seq : e \in entries} \cup {0})

\* The sequence number after the highest one replay_wal meets.
NextAfter(lines) ==
    1 + Highest(UNION {lines[i].of : i \in {j \in DOMAIN lines : lines[j].op = "accept"}})

-----------------------------------------------------------------------------

Init ==
    /\ wal = <<>> /\ onDisk = 0 /\ snapshot = <<>>
    /\ nextSequence = 1 /\ pending = {} /\ order = <<>> /\ commits = 0
    /\ healthy = TRUE /\ attached = TRUE
    /\ pc = "closed" /\ job = NoJob
    /\ inflight = {} /\ flushing = {}
    /\ acked = {} /\ accepts = [b \in Batches |-> 0] /\ stored = {}
    /\ crashes = 0 /\ faults = 0 /\ torn = FALSE

\* Mutant: the recovered batches are not handed to the workers.
OpenHoldsRecovered ==
    /\ pc = "closed"
    /\ Readable(wal)
    /\ LET state == Replay(snapshot, wal)
       IN  pending' = state.pending /\ order' = state.order /\ inflight' = {}
    /\ nextSequence' = NextAfter(wal)
    /\ commits' = 0 /\ healthy' = TRUE /\ attached' = TRUE
    /\ pc' = "ready"
    /\ UNCHANGED <<disk, job, flushing, history>>

\* open, and the hand-over of the recovered batches to the workers
\* (start_worker), which precedes the first request.
Open ==
    /\ pc = "closed"
    /\ Readable(wal)
    /\ LET state == Replay(snapshot, wal)
       IN  pending' = state.pending /\ order' = state.order /\ inflight' = state.pending
    /\ nextSequence' = NextAfter(wal)
    /\ commits' = 0 /\ healthy' = TRUE /\ attached' = TRUE
    /\ pc' = "ready"
    /\ UNCHANGED <<disk, job, flushing, history>>

\* An I/O error of this kind happens.
Fault(kind) == kind \in Faults /\ faults < MaxFaults /\ faults' = faults + 1

\* Appends reach the file at wal_path only while it is the one open.
WriteLines(lines) ==
    /\ wal' = IF attached THEN AppendLines(wal, lines) ELSE wal
    /\ onDisk' = IF Unfinished(wal) /\ onDisk = Len(wal) THEN onDisk - 1 ELSE onDisk

\* The log when only a part of the line just appended was written.
CutShort == IF attached THEN [wal EXCEPT ![Len(wal)] = Torn] ELSE wal

\* accept, for a key already seen: the batch is acknowledged.
AcceptDuplicate(b) ==
    /\ pc = "ready" /\ b \in Range(order)
    /\ acked' = acked \cup {b}
    /\ UNCHANGED <<disk, memory, pc, job, workers, accepts, stored, crashes, faults, torn>>

\* accept, up to the sync: the accept line and a forget line for the key that
\* remembering this one evicts.
AcceptWrites(b) ==
    LET e == Entry(nextSequence, b)
        evicted == IF MaxEntries > 0 /\ Evicts(order, b) THEN <<Line("forget", {}, Head(order))>> ELSE <<>>
    IN  /\ pc = "ready" /\ b \notin Range(order) /\ nextSequence <= MaxSequence
        /\ WriteLines(<<AcceptLine(e)>> \o evicted)
        /\ nextSequence' = nextSequence + 1
        /\ pending' = pending \cup {e}
        /\ order' = Remember(order, b)
        /\ job' = [entry |-> e, before |-> order]
        /\ pc' = "written"
        /\ UNCHANGED <<snapshot, commits, healthy, attached, workers, history>>

\* accept returns an error: writing the accept line failed half way.
AcceptWriteFails(b) ==
    /\ Fault("accept_write")
    /\ pc = "ready" /\ b \notin Range(order) /\ nextSequence <= MaxSequence
    /\ WriteLines(<<Torn>>)
    /\ nextSequence' = nextSequence + 1
    /\ UNCHANGED <<snapshot, pending, order, commits, healthy, attached, pc, job, workers, outcome, torn>>

AcceptSynced ==
    /\ pc = "written"
    /\ onDisk' = Len(wal)
    /\ pc' = "synced"
    /\ UNCHANGED <<wal, snapshot, memory, job, workers, history>>

AcceptSyncFails ==
    /\ Fault("accept_sync")
    /\ pc = "written"
    /\ healthy' = FALSE
    /\ pc' = "ready" /\ job' = NoJob
    /\ UNCHANGED <<disk, nextSequence, pending, order, commits, attached, workers, outcome, torn>>

Bump(count) == IF count = 2 THEN 2 ELSE count + 1

\* The queue takes the batch and the client is told it is accepted.
Enqueued ==
    /\ pc = "synced"
    /\ inflight' = inflight \cup {job.entry}
    /\ acked' = acked \cup {job.entry.batch}
    /\ accepts' = [accepts EXCEPT ![job.entry.batch] = Bump(@)]
    /\ pc' = "ready" /\ job' = NoJob
    /\ UNCHANGED <<disk, memory, flushing, stored, crashes, faults, torn>>

\* The queue is full or closed: the acceptance is aborted.
EnqueueRefused ==
    /\ pc = "synced"
    /\ WriteLines(<<Line("abort", {job.entry}, job.entry.batch)>>)
    /\ pc' = "aborting"
    /\ UNCHANGED <<snapshot, memory, job, workers, history>>

AbortSynced ==
    /\ pc = "aborting"
    /\ onDisk' = Len(wal)
    /\ pending' = pending \ {job.entry}
    /\ order' = Forget(order, job.entry.batch)
    /\ pc' = "ready" /\ job' = NoJob
    /\ UNCHANGED <<wal, snapshot, nextSequence, commits, healthy, attached, workers, history>>

\* The abort cannot be synced, or only part of it is written; accept returns
\* the error.
AbortFails ==
    /\ Fault("abort")
    /\ pc = "aborting"
    /\ wal' \in {wal, CutShort}
    /\ pc' = "ready" /\ job' = NoJob
    /\ UNCHANGED <<onDisk, snapshot, memory, workers, outcome, torn>>

-----------------------------------------------------------------------------
(* The workers, commit and compaction. *)

\* A worker persists some of what it holds: flush_pending up to the commit.
Persist(S) ==
    /\ pc # "closed" /\ flushing = {} /\ S # {}
    /\ flushing' = S
    /\ stored' = stored \cup {e.batch : e \in S}
    /\ UNCHANGED <<disk, memory, pc, job, inflight, acked, accepts, crashes, faults, torn>>

CommitWrites ==
    /\ pc = "ready" /\ flushing # {}
    /\ WriteLines(<<Line("commit", flushing, <<>>)>>)
    /\ pc' = "committing"
    /\ UNCHANGED <<snapshot, memory, job, workers, history>>

CommitSynced ==
    /\ pc = "committing"
    /\ onDisk' = Len(wal)
    /\ pending' = pending \ flushing
    /\ inflight' = inflight \ flushing
    /\ flushing' = {}
    /\ commits' = commits + Cardinality(flushing)
    /\ pc' = IF commits' >= CompactAfter THEN "compacting" ELSE "ready"
    /\ UNCHANGED <<wal, snapshot, nextSequence, order, healthy, attached, job, history>>

\* The commit cannot be synced, or only part of it is written; the worker
\* keeps its batches and flushes them again.
CommitFails ==
    /\ Fault("commit")
    /\ pc = "committing"
    /\ \/ healthy' = FALSE /\ UNCHANGED wal
       \/ wal' = CutShort /\ UNCHANGED healthy
    /\ flushing' = {}
    /\ pc' = "ready"
    /\ UNCHANGED <<onDisk, snapshot, nextSequence, pending, order, commits, attached, job,
                   inflight, outcome, torn>>

\* Mutant: the log is compacted and the keys are not saved.
CompactWithoutSnapshot ==
    /\ pc = "compacting"
    /\ pc' = "snapshotted"
    /\ UNCHANGED <<disk, memory, job, workers, history>>

\* compact_locked, up to the replacement of the snapshot.
CompactSnapshot ==
    /\ pc = "compacting"
    /\ snapshot' = order
    /\ pc' = "snapshotted"
    /\ UNCHANGED <<wal, onDisk, memory, job, workers, history>>

\* Mutant: the acceptance with the highest sequence is left out.
CompactedAllButLast(entries) ==
    LET at[q \in 0 .. Highest(entries)] ==
            IF q = 0 \/ q = Highest(entries) \/ ~\E e \in entries : e.seq = q
            THEN IF q = 0 THEN <<>> ELSE at[q - 1]
            ELSE Append(at[q - 1], AcceptLine(CHOOSE e \in entries : e.seq = q))
    IN  at[Highest(entries)]

\* The log a compaction leaves: the pending acceptances, in sequence order.
Compacted(entries) ==
    LET at[q \in 0 .. Highest(entries)] ==
            IF q = 0 THEN <<>>
            ELSE IF \E e \in entries : e.seq = q
            THEN Append(at[q - 1], AcceptLine(CHOOSE e \in entries : e.seq = q))
            ELSE at[q - 1]
    IN  at[Highest(entries)]

\* The rest of compact_locked: the new log replaces the old one and is opened.
CompactReplace ==
    /\ pc = "snapshotted"
    /\ wal' = Compacted(pending) /\ onDisk' = Len(wal')
    /\ attached' = TRUE /\ commits' = 0 /\ healthy' = TRUE
    /\ pc' = "ready"
    /\ UNCHANGED <<snapshot, nextSequence, pending, order, job, workers, history>>

\* The snapshot or the new log cannot be written.
CompactFails ==
    /\ \/ pc = "compacting" /\ Fault("snapshot")
       \/ pc = "snapshotted" /\ Fault("replace")
    /\ healthy' = FALSE
    /\ pc' = "ready"
    /\ UNCHANGED <<disk, nextSequence, pending, order, commits, attached, job, workers, outcome, torn>>

\* The new log is in place, but syncing its directory or opening it fails: the
\* file still open is the one just replaced.
ReopenFails ==
    /\ Fault("reopen")
    /\ pc = "snapshotted"
    /\ wal' = Compacted(pending) /\ onDisk' = Len(wal')
    /\ attached' = FALSE /\ healthy' = FALSE
    /\ pc' = "ready"
    /\ UNCHANGED <<snapshot, nextSequence, pending, order, commits, job, workers, outcome, torn>>

\* What a crash may leave of the log: everything synced, any number of whole
\* lines after that, and perhaps a part of the next one: all of it but its
\* newline, or less.
Remains ==
    {SubSeq(wal, 1, n) : n \in onDisk .. Len(wal)}
        \cup (IF TornTails
              THEN {Append(SubSeq(wal, 1, n), Torn) : n \in onDisk .. Len(wal) - 1}
                   \cup {Append(SubSeq(wal, 1, n), [wal[n + 1] EXCEPT !.ended = FALSE]) :
                            n \in {i \in onDisk .. Len(wal) - 1 : wal[i + 1].op # "corrupt"}}
              ELSE {})

Crash ==
    /\ pc \in CrashPoints \ {"closed"} /\ crashes < MaxCrashes
    /\ wal' \in Remains
    /\ onDisk' = Len(wal')
    /\ nextSequence' = 1 /\ pending' = {} /\ order' = <<>> /\ commits' = 0
    /\ healthy' = TRUE /\ attached' = TRUE
    /\ inflight' = {} /\ flushing' = {}
    /\ pc' = "closed" /\ job' = NoJob
    /\ crashes' = crashes + 1
    /\ torn' = (torn \/ wal' # SubSeq(wal, 1, Len(wal')))
    /\ UNCHANGED <<snapshot, acked, accepts, stored, faults>>

-----------------------------------------------------------------------------

AcceptStep ==
    \/ \E b \in Batches : AcceptDuplicate(b) \/ AcceptWrites(b) \/ AcceptWriteFails(b)
    \/ AcceptSynced \/ AcceptSyncFails \/ Enqueued \/ EnqueueRefused \/ AbortSynced \/ AbortFails

CommitStep ==
    \/ CommitWrites \/ CommitSynced \/ CommitFails
    \/ CompactSnapshot \/ CompactReplace \/ CompactFails \/ ReopenFails

Next ==
    \/ Open
    \/ AcceptStep
    \/ \E S \in SUBSET inflight : Persist(S)
    \/ CommitStep
    \/ Crash

Spec == Init /\ [][Next]_vars

\* Startup, an operation that holds the mutex, and the workers' flush tick all
\* go on as long as the process runs.
Fairness ==
    /\ WF_vars(Open)
    /\ WF_vars(AcceptSynced) /\ WF_vars(Enqueued \/ EnqueueRefused) /\ WF_vars(AbortSynced)
    /\ WF_vars(\E S \in {inflight} : Persist(S))
    /\ SF_vars(CommitWrites)
    /\ WF_vars(CommitSynced) /\ WF_vars(CompactSnapshot) /\ WF_vars(CompactReplace)

FairSpec == Spec /\ Fairness

-----------------------------------------------------------------------------
(* Properties. *)

\* Every variable has the type the code gives it; the workers hold pending
\* acceptances only.
TypeOK ==
    /\ onDisk \in 0 .. Len(wal) /\ Range(snapshot) \subseteq Batches
    /\ nextSequence \in 1 .. MaxSequence + 1
    /\ pending \subseteq Entries
    /\ Range(order) \subseteq Batches \ Keyless /\ Len(order) <= MaxEntries
    /\ commits \in Nat /\ {healthy, attached} \subseteq BOOLEAN /\ pc \in Points
    /\ flushing \subseteq inflight /\ inflight \subseteq pending
    /\ acked \subseteq Batches /\ stored \subseteq Batches
    /\ accepts \in [Batches -> 0 .. 2] /\ crashes \in 0 .. MaxCrashes /\ faults \in 0 .. MaxFaults

\* "A batch is acknowledged only after its `accept` record reaches stable
\* storage": whatever a power loss leaves, a batch that was acknowledged is in
\* a sink or is recovered from the log at the next start.
AcknowledgedSurvives ==
    \A lines \in Remains :
        acked \subseteq stored \cup
            (IF Readable(lines) THEN {e.batch : e \in Replay(snapshot, lines).pending} ELSE {})

\* That holds whatever point the power is lost at, as long as no I/O error came
\* before and no earlier crash has left part of a line in the log.
Intact == faults = 0 /\ ~torn

SurvivesWhileIntact == Intact => AcknowledgedSurvives

\* A restart changes nothing: between operations, and while a compaction has
\* replaced the snapshot and not yet the log, replaying the files gives the
\* pending acceptances and the remembered keys that are in memory.
RestartTransparent ==
    Intact /\ pc \in {"ready", "compacting", "snapshotted"} =>
        LET state == Replay(snapshot, wal)
        IN  state.pending = pending /\ Range(state.order) = Range(order)

\* A batch with a batch_id enters the queue once, however often it is resent
\* and the server restarted, while the window of remembered keys is not full.
AcceptedOnce == Intact => \A b \in Batches \ Keyless : accepts[b] <= 1

\* Acknowledged batches reach a sink, restarts or not, unless an I/O error
\* intervenes or the log cannot be read back: the server catches up with what
\* it has acknowledged again and again.
AcknowledgedIsStored == []<>(acked \subseteq stored \/ ~Intact)
=============================================================================
