--------------------------- MODULE TelemetrySender ---------------------------
(***************************************************************************)
(* The agent's HTTP sender (agent/agent/src/transport/http_sender.rs) and  *)
(* what the ingest server makes of its requests: producers append to the   *)
(* durable spool and wake the worker; the worker posts the head of the     *)
(* spool and acknowledges it once the server says it accepted the batch.   *)
(*                                                                         *)
(* The spool is taken at its word (DurableQueue, which DurableSpool        *)
(* implements), except that a read or an acknowledgement may fail; the     *)
(* server remembers the last batch ids it accepted and answers a repeated  *)
(* one as a duplicate.  A request may be refused, its answer may be lost,  *)
(* and the server may act on it long after the worker gave it up.  The     *)
(* deadline next_attempt is "none", "due" or "later".                      *)
(*                                                                         *)
(* The pending size others read (SharedSenderState) is refreshed in two    *)
(* steps, read under the spool's lock and stored after it; of the size     *)
(* only "is there something pending" is kept.                              *)
(***************************************************************************)
EXTENDS Naturals, Sequences, FiniteSets

CONSTANTS
    Sources,    \* the owning sender and the handles it hands out
    Capacity,   \* bound of the spool, in records
    WakeSlots,  \* queue_capacity: the wake channel's
    DedupeMax,  \* dedupe_max_entries: how many ids the server remembers
    MaxErrors,  \* bound: reads and acknowledgements of the spool that fail
    MaxEmits,   \* bound: payloads emitted
    MaxRejects, \* bound: the counter up to which a source is refused
    MaxNow,     \* bound of the clock
    MaxCrashes  \* bound

ASSUME SenderAssumption ==
    /\ {Capacity, DedupeMax, MaxErrors, MaxEmits, MaxRejects, MaxNow, MaxCrashes} \subseteq Nat
    /\ WakeSlots \in Nat \ {0}

VARIABLES
    queue,      \* the spool: records [id, payload], oldest first
    now,        \* the wall clock, in milliseconds
    sequence,   \* source -> its batch_sequence
    wake,       \* notifications in the wake channel
    attempt,    \* next_attempt
    pc,         \* the worker's place in its loop
    report,     \* shared.spool_pending_bytes > 0
    sample,     \* who -> {what it read of the spool and has not stored yet}
    late,       \* requests given up by the worker that the server may still get
    emitted,    \* history: the records that entered the spool, in order
    remembered, \* server: the batch ids it knows, oldest first
    stored,     \* server: the payloads it accepted, in order
    errors,     \* reads and acknowledgements that have failed
    gaveUp,     \* history: the last round ended with such a failure and no deadline
    crashes

vars == <<queue, now, sequence, wake, attempt, pc, report, sample, late, emitted, remembered, stored, errors, gaveUp, crashes>>
shared == <<report, sample>>
counts == <<errors, gaveUp, crashes>>
server == <<remembered, stored>>

Payloads == 1 .. MaxEmits

Ids == [ms : Nat, seq : Nat]

Records == [id : Ids, payload : Payloads]

Worker == "worker"

Idle == {}

Pending(q) == q # <<>>

Spool == INSTANCE DurableQueue

Init ==
    /\ Spool!Init
    /\ now = 0 /\ sequence = [s \in Sources |-> 0]
    /\ wake = 1 /\ attempt = "due" /\ pc = "waiting"
    /\ report = FALSE /\ sample = [w \in Sources \cup {Worker} |-> Idle]
    /\ late = {}
    /\ emitted = <<>> /\ remembered = <<>> /\ stored = <<>>
    /\ errors = 0 /\ gaveUp = FALSE /\ crashes = 0

-----------------------------------------------------------------------------
(* Producers. *)

\* next_batch_id: the millisecond and the source's own counter.
BatchId(s) == [ms |-> now, seq |-> sequence[s]]

Notified == IF wake < WakeSlots THEN wake + 1 ELSE wake

\* update_shared_state, first half: read the size under the lock ...
Sampled(w, q) == [sample EXCEPT ![w] = {Pending(q)}]

\* ... and second half: store it.
Store(w) ==
    /\ report' \in sample[w] /\ sample' = [sample EXCEPT ![w] = Idle]

\* send_or_spool and SenderHandle::emit: append to the spool ...
Emit(s) ==
    LET record == [id |-> BatchId(s), payload |-> Len(emitted) + 1]
    IN  /\ record.payload <= MaxEmits
        /\ sample[s] = Idle /\ Len(queue) < Capacity
        /\ Spool!Enqueue(record)
        /\ sequence' = [sequence EXCEPT ![s] = @ + 1]
        /\ sample' = Sampled(s, queue')
        /\ emitted' = Append(emitted, record)
        /\ UNCHANGED <<now, wake, attempt, pc, report, late, server, counts>>

\* ... then publish the size and notify the worker.
Emitted(s) ==
    /\ Store(s)
    /\ wake' = Notified
    /\ UNCHANGED <<queue, now, sequence, attempt, pc, late, emitted, server, counts>>

\* The spool is full: the counter has moved and the payload is dropped.
EmitRejected(s) ==
    /\ sample[s] = Idle /\ Len(queue) = Capacity /\ sequence[s] < MaxRejects
    /\ sequence' = [sequence EXCEPT ![s] = @ + 1]
    /\ UNCHANGED <<queue, now, wake, attempt, pc, shared, late, emitted, server, counts>>

\* stats: a sender with something pending counts as spooling.
Spooling == report

\* Housekeeping of the agent's loop: "if sender is healthy and spool has
\* pending bytes, replay backlog".
Housekeep ==
    /\ wake' = IF report /\ ~Spooling THEN Notified ELSE wake
    /\ UNCHANGED <<queue, now, sequence, attempt, pc, shared, late, emitted, server, counts>>

ClockTick ==
    /\ now < MaxNow
    /\ now' = now + 1
    /\ UNCHANGED <<queue, sequence, wake, attempt, pc, shared, late, emitted, server, counts>>

-----------------------------------------------------------------------------
(* sender_worker. *)

\* The back-off delay has passed.
DeadlinePasses ==
    /\ attempt = "later"
    /\ attempt' = "due"
    /\ UNCHANGED <<queue, now, sequence, wake, pc, shared, late, emitted, server, counts>>

\* The select returns; a notification that comes before the deadline is
\* consumed and nothing else happens.
WakeUp ==
    /\ pc = "waiting"
    /\ \/ wake > 0 /\ wake' = wake - 1
       \/ attempt = "due" /\ UNCHANGED wake
    /\ pc' = IF attempt = "later" THEN "waiting" ELSE "sending"
    /\ gaveUp' = FALSE
    /\ UNCHANGED <<queue, now, sequence, attempt, shared, late, emitted, server, errors, crashes>>

\* Peek at the spool: post its head, or end the round.
Peek ==
    /\ pc = "sending"
    /\ pc' = IF Pending(queue) THEN "posting" ELSE "checking"
    /\ UNCHANGED <<queue, now, sequence, wake, attempt, shared, late, emitted, server, counts>>

\* A read or an acknowledgement of the spool fails: the round ends, and the
\* deadline stays what it was.
SpoolError ==
    /\ errors < MaxErrors
    /\ pc' = "checking" /\ errors' = errors + 1 /\ gaveUp' = (attempt = "none")
    /\ UNCHANGED <<queue, now, sequence, wake, attempt, shared, late, emitted, server, crashes>>

\* peek returns an error.
PeekFails == pc = "sending" /\ SpoolError

\* The post fails: refused, or no answer within the timeout, in which case the
\* server may still get the request.
PostFails ==
    /\ pc = "posting"
    /\ attempt' = "later" /\ pc' = "checking"
    /\ late' \in {late, late \cup {Head(queue)}}
    /\ UNCHANGED <<queue, now, sequence, wake, shared, emitted, server, counts>>

\* Mutant: the server does not remember the ids it accepted.
AcceptAgain(r) ==
    /\ remembered' = remembered
    /\ stored' = Append(stored, r.payload)

Known(id) == \E i \in DOMAIN remembered : remembered[i] = id

\* remember: a full window forgets its oldest id.
Remember(id) ==
    IF DedupeMax = 0 THEN remembered
    ELSE IF Len(remembered) < DedupeMax THEN Append(remembered, id)
    ELSE Append(Tail(remembered), id)

\* The server accepts the batch, or knows its id already (DurableAcceptance
\* has the whole of that side).
Accept(r) ==
    IF Known(r.id)
    THEN UNCHANGED server
    ELSE remembered' = Remember(r.id) /\ stored' = Append(stored, r.payload)

\* The answer of an accepted batch reaches the worker.
PostSucceeds ==
    /\ pc = "posting" /\ Accept(Head(queue))
    /\ pc' = "acking"
    /\ UNCHANGED <<queue, now, sequence, wake, attempt, shared, late, emitted, counts>>

\* The server gets a request nobody waits for any more.
LateRequest ==
    /\ \E r \in late : Accept(r) /\ late' = late \ {r}
    /\ UNCHANGED <<queue, now, sequence, wake, attempt, pc, shared, emitted, counts>>

\* acknowledge: the record leaves the spool and the next one is due.
Acknowledge ==
    /\ pc = "acking"
    /\ Spool!Acknowledge
    /\ attempt' = "due" /\ pc' = "acked"
    /\ sample' = Sampled(Worker, queue')
    /\ UNCHANGED <<now, sequence, wake, report, late, emitted, server, counts>>

\* The acknowledgement cannot be persisted: the record will be posted again.
AcknowledgeFails == pc = "acking" /\ SpoolError

\* Mutant: the worker drops its deadline whatever the spool holds.
DeadlineDropped == "none"

\* With nothing pending there is nothing to wait for.
NextDeadline == IF Pending(queue) THEN attempt ELSE "none"

\* The end of a round.
EndRound ==
    /\ pc = "checking"
    /\ attempt' = NextDeadline /\ pc' = "reporting"
    /\ sample' = Sampled(Worker, queue)
    /\ UNCHANGED <<queue, now, sequence, wake, report, late, emitted, server, counts>>

\* The worker stores the size it read, after an acknowledgement or a round.
Report ==
    /\ pc \in {"acked", "reporting"} /\ Store(Worker)
    /\ pc' = IF pc = "acked" THEN "sending" ELSE "waiting"
    /\ UNCHANGED <<queue, now, sequence, wake, attempt, late, emitted, server, counts>>

\* The agent stops and starts again: from_env.  The counters restart, the clock
\* has moved on, a request on its way still arrives.
Restart ==
    /\ crashes < MaxCrashes /\ now < MaxNow
    /\ now' = now + 1 /\ crashes' = crashes + 1 /\ gaveUp' = FALSE
    /\ sequence' = [s \in Sources |-> 0]
    /\ wake' = 1 /\ attempt' = "due" /\ pc' = "waiting"
    /\ report' = Pending(queue) /\ sample' = [w \in Sources \cup {Worker} |-> Idle]
    /\ late' \in IF pc = "posting" THEN {late, late \cup {Head(queue)}} ELSE {late}
    /\ UNCHANGED <<queue, emitted, server, errors>>

-----------------------------------------------------------------------------

ProducerStep ==
    \/ \E s \in Sources : Emit(s) \/ Emitted(s) \/ EmitRejected(s)
    \/ Housekeep \/ ClockTick

WorkerStep ==
    \/ DeadlinePasses \/ WakeUp \/ Peek \/ PeekFails \/ PostFails \/ PostSucceeds
    \/ Acknowledge \/ AcknowledgeFails \/ EndRound \/ Report

Next == ProducerStep \/ WorkerStep \/ LateRequest \/ Restart

Spec == Init /\ [][Next]_vars

\* The worker's task and its timer run, a producer that has appended returns,
\* and a server that is posted to again and again answers in the end.  Nothing
\* makes producers emit, or requests that were given up arrive.
Fairness ==
    /\ WF_vars(DeadlinePasses) /\ WF_vars(WakeUp) /\ WF_vars(Peek \/ PeekFails)
    /\ WF_vars(PostFails \/ PostSucceeds) /\ SF_vars(PostSucceeds)
    /\ WF_vars(Acknowledge \/ AcknowledgeFails)
    /\ WF_vars(EndRound) /\ WF_vars(Report)
    /\ WF_vars(Housekeep)
    /\ \A s \in Sources : WF_vars(Emitted(s))

FairSpec == Spec /\ Fairness

-----------------------------------------------------------------------------
(* Properties. *)

\* The worker waits only in a state its loop can wait in: what it posts is the
\* head of the spool, and what it read of the spool is stored before it waits.
TypeOK ==
    /\ queue \in Seq(Records) /\ Len(queue) <= Capacity
    /\ now \in 0 .. MaxNow /\ sequence \in [Sources -> Nat]
    /\ wake \in 0 .. WakeSlots /\ attempt \in {"none", "due", "later"}
    /\ pc \in {"waiting", "sending", "posting", "acking", "acked", "checking", "reporting"}
    /\ report \in BOOLEAN /\ (sample[Worker] # Idle <=> pc \in {"acked", "reporting"})
    /\ (pc \in {"posting", "acking"} => Pending(queue))
    /\ late \subseteq Records /\ remembered \in Seq(Ids) /\ stored \in Seq(Payloads)

\* Batch ids tell the records emitted so far apart.
DistinctSoFar == \A i, j \in DOMAIN emitted : emitted[i].id = emitted[j].id => i = j

\* The server stores the payloads in the order they were emitted: none is
\* stored before all older ones are.  It stores one again only when a late
\* request or a retry comes after as many others as dedupe_max_entries.
StoredInOrder ==
    /\ DistinctSoFar => \A i \in DOMAIN stored : \A p \in 1 .. (stored[i] - 1) :
                            \E j \in 1 .. (i - 1) : stored[j] = p
    /\ \A i, j \in DOMAIN stored : i < j /\ stored[i] = stored[j] => j - i > DedupeMax

\* The server has the payload of the record, or of an older one with its id.
Landed(i) ==
    \E j \in 1 .. i, k \in DOMAIN stored :
        stored[k] = emitted[j].payload /\ emitted[j].id = emitted[i].id

\* Everything emitted is stored in the end, whichever wake-ups, answers and
\* requests are lost, restarts included.  A failed read or acknowledgement of
\* the spool delays it too, except one in a round that a notification started
\* with no deadline set: sender_worker then waits for the next notification,
\* and of a record whose id was taken nothing is stored.
Delivered == []<>(gaveUp \/ \A i \in DOMAIN emitted : Landed(i))
=============================================================================
