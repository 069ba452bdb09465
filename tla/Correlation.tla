---------------------------- MODULE Correlation ----------------------------
(***************************************************************************)
(* The ingest server's correlation engine at work (app/ingest_server/src/  *)
(* correlation/engine.rs, window.rs, alerts.rs, vectorized.rs).  Each      *)
(* flush worker evaluates its batches before it persists them              *)
(* (telemetry.rs, persist_batches), so a flush that fails evaluates them   *)
(* again, and the workers of different hosts of a tenant are in the engine *)
(* at the same time.  They share the window index, the callable state, the *)
(* facts and the alerts; a step ends where a lock is released, except that *)
(* the calls of one event or join are taken together.                      *)
(***************************************************************************)
EXTENDS CorrelationRules, IntelSync

CONSTANTS
    Workers,
    Streams,         \* what the workers may receive: worker -> batches, in order
    EarlyStreams,    \* and before threat intel has been published
    Programs,        \* the programs an operator may load, a sequence
    DefaultWindowMs, \* the window of a rule that declares none
    MAX_EVENTS_PER_BUCKET, MaxBuckets, AlertCapacity,
    MaxNow, MaxFlushFails  \* bounds: the clock, flushes that fail

VARIABLES
    stream,      \* the batches the workers will receive
    programs,    \* the programs, as load_program compiles them
    program,     \* the one in force
    buckets,     \* bucket key -> its events, oldest insertion first
    bucket_lru,  \* the bucket keys in the order they were created
    mem,         \* the callable state and the facts
    ring,        \* the recent alerts
    received,    \* worker -> how much of its stream it has received
    buffer,      \* worker -> pending_batches
    work,        \* worker -> the flush it is in: see Idle
    now,
    flush_fails,
    raised       \* history: every alert ever raised

window_vars == <<buckets, bucket_lru>>
vars == <<intel_vars, stream, programs, program, window_vars, mem, ring, received, buffer, work, now,
          flush_fails, raised>>

----------------------------------------------------------------------------
(* CompiledRule::compile. *)

FamilyOf(domain, event) ==
    CASE domain = "process" \/ <<domain, event>> = <<"endpoint", "process">>
           \/ (domain = "" /\ event \in {"process", "spawn"}) -> "ProcessExec"
      [] domain = "file" \/ <<domain, event>> = <<"endpoint", "file">>
           \/ (domain = "" /\ event \in {"file", "open"}) -> "File"
      [] domain \in {"network", "net", "dns", "ssl"}
           \/ (domain = "" /\ event \in {"network", "connect", "flow", "dns_query", "ssl_event"}) -> "Net"
      [] domain \in {"database", "db"}
           \/ (domain = "" /\ event \in {"db_query", "query", "sql"}) -> "DbQuery"
      [] domain \in {"agent", "heartbeat"} \/ (domain = "" /\ event = "agent_heartbeat") -> "AgentHeartbeat"
      [] OTHER -> "ProcessExec"

effective_alias(s) ==
    CASE s.alias # "" -> <<s.alias>>
      [] s.domain # "" -> <<s.domain, s.event>>
      [] OTHER -> <<s.event>>

SortedPair(l, r) == IF StrBefore(r, l) THEN <<r, l>> ELSE <<l, r>>

RECURSIVE EquiTerms(_)
EquiTerms(on) ==
    CASE on[1] = "And" -> EquiTerms(on[2]) \cup EquiTerms(on[3])
      [] on[1] = "Eq" /\ on[2][1] = "Field" /\ on[3][1] = "Field" /\ on[2] # on[3] ->
           {SortedPair(on[2][2], on[3][2])}
      [] OTHER -> {}

\* The field pairs that `on' equates, each once and in a fixed order.
extract_equi_join_terms(joins) == SetToSeq(UNION {EquiTerms(j.on) : j \in ToSet(joins)})

compile(rule) ==
    LET declared == [i \in DOMAIN rule.sources |->
                       [alias |-> effective_alias(rule.sources[i]),
                        family |-> FamilyOf(rule.sources[i].domain, rule.sources[i].event)]]
    IN [rule |-> rule,
        families |-> IF declared = <<>> THEN <<[alias |-> <<"process">>, family |-> "ProcessExec"]>>
                     ELSE declared,
        terms |-> extract_equi_join_terms(rule.joins),
        window |-> IF rule.window = None THEN DefaultWindowMs ELSE to_millis(rule.window)]

load_program(rules) == [i \in DOMAIN rules |-> compile(rules[i])]

is_multi_source(r) == Len(r.families) > 1 \/ r.rule.joins # <<>>

----------------------------------------------------------------------------
(* The events of a batch, in the order of the families. *)

FamilyOrder == <<"ProcessExec", "File", "Net", "DbQuery", "AgentHeartbeat">>

\* BatchColumnIndex::build.
build(b, arrival) ==
    LET Row(e) == [tenant |-> b.tenant, host |-> b.host, batch |-> b.id,
                   ts |-> resolve_event_ts(e.data.ts_unix_ms, arrival), kind |-> e.kind, data |-> e.data]
        OfFamily(f) == SelectSeq(b.events, LAMBDA e : e.kind = f)
        rows == FlattenSeq([i \in DOMAIN FamilyOrder |-> OfFamily(FamilyOrder[i])])
    IN [i \in DOMAIN rows |-> Row(rows[i])]

mask_for_family(events, family) == {i \in DOMAIN events : events[i].kind = family}

\* The set bits, in ascending order.
iter_indices(mask) == SetToSortSeq(mask, <)

\* What evaluate_batch goes through: the rules in order, the sources of a rule
\* in order, the events of a source in order.
Items(rs, events) ==
    LET OfSource(n, s) == LET at == iter_indices(mask_for_family(events, s.family))
                          IN [i \in DOMAIN at |-> [rule |-> n, alias |-> s.alias, event |-> events[at[i]]]]
        OfRule(n) == IF is_multi_source(rs[n])
                     THEN FlattenSeq([i \in DOMAIN rs[n].families |-> OfSource(n, rs[n].families[i])])
                     ELSE OfSource(n, rs[n].families[1])
    IN FlattenSeq([n \in DOMAIN rs |-> OfRule(n)])

----------------------------------------------------------------------------
(* The sliding windows: one shard of the index. *)

\* The declared equalities, if the event resolves any; otherwise its process
\* on its host.
resolve_event_join_key(e, alias, r) ==
    LET Part(t) == LET left == get_field(e, t[1], alias)
                   IN IF left = Null THEN get_field(e, t[2], alias) ELSE left
        pid == get_field(e, <<"pid">>, <<>>)
    IN CASE \E i \in DOMAIN r.terms : Part(r.terms[i]) # Null ->
              <<"terms", [i \in DOMAIN r.terms |-> to_key_string(Part(r.terms[i]))]>>
         [] pid[1] = "Int" /\ pid[2] > 0 -> <<"pid", e.host, pid[2]>>
         [] OTHER -> <<"host", e.host>>

\* Mutant: the tenant is no part of the key.
SharedBucket(tenant, rule_id, alias, join_key) ==
    [tenant |-> "any", rule |-> rule_id, alias |-> alias, join |-> join_key]

BucketKey(tenant, rule_id, alias, join_key) ==
    [tenant |-> tenant, rule |-> rule_id, alias |-> alias, join |-> join_key]

RECURSIVE PruneFront(_, _)
PruneFront(events, cutoff) ==
    IF events # <<>> /\ Head(events).ts < cutoff THEN PruneFront(Tail(events), cutoff) ELSE events

\* Mutant: an event that is pruned takes its bucket's place in the order along.
InsertReorders(key, e, window) ==
    LET kept == PruneFront(IF key \in DOMAIN buckets THEN buckets[key] ELSE <<>>, e.ts - window)
    IN /\ buckets' = (key :> Append(kept, e)) @@ buckets
       /\ bucket_lru' = Append(bucket_lru, key)

\* The front of the bucket is pruned, a full bucket loses its oldest event, and
\* with too many buckets the one created first goes.
insert_event(key, e, window) ==
    LET old == IF key \in DOMAIN buckets THEN buckets[key] ELSE <<>>
        kept == PruneFront(old, e.ts - window)
        room == IF Len(kept) >= MAX_EVENTS_PER_BUCKET THEN Tail(kept) ELSE kept
        grown == (key :> Append(room, e)) @@ buckets
        lru == IF key \in DOMAIN buckets THEN bucket_lru ELSE Append(bucket_lru, key)
    IN IF Cardinality(DOMAIN grown) > MaxBuckets /\ lru # <<>>
       THEN buckets' = Without(grown, Head(lru)) /\ bucket_lru' = Tail(lru)
       ELSE buckets' = grown /\ bucket_lru' = lru

Near(e, f, window) == e.ts <= f.ts + window /\ f.ts <= e.ts + window

\* Mutant: only what happened before the event is looked for.
OnlyEarlier(key, e, window) ==
    IF key \in DOMAIN buckets
    THEN SelectSeq(buckets[key], LAMBDA x : Near(x, e, window) /\ x.ts <= e.ts) ELSE <<>>

find_candidate_events(key, e, window) ==
    IF key \in DOMAIN buckets THEN SelectSeq(buckets[key], LAMBDA x : Near(x, e, window)) ELSE <<>>
----------------------------------------------------------------------------
(* The workers. *)

Idle == [at |-> "idle", left |-> <<>>, todo |-> <<>>, program |-> 0, arrival |-> 0, found |-> <<>>,
         others |-> <<>>, candidates |-> <<>>]

Init ==
    /\ \/ IntelSettled /\ stream \in Streams
       \/ IntelInit /\ stream \in EarlyStreams
    /\ programs = [n \in DOMAIN Programs |-> load_program(Programs[n])]
    /\ program = 1
    /\ buckets = <<>> /\ bucket_lru = <<>> /\ mem = NoMemory /\ ring = <<>>
    /\ received = [w \in Workers |-> 0] /\ buffer = [w \in Workers |-> <<>>]
    /\ work = [w \in Workers |-> Idle]
    /\ now = 0 /\ flush_fails = 0 /\ raised = {}

queues == <<received, buffer, flush_fails>>
shared == <<window_vars, mem, ring, raised>>
elsewhere == <<intel_vars, stream, programs, program, now>>

Receive(w) ==
    /\ work[w].at = "idle" /\ received[w] < Len(stream[w])
    /\ received' = [received EXCEPT ![w] = @ + 1]
    /\ buffer' = [buffer EXCEPT ![w] = Append(@, stream[w][received'[w]])]
    /\ UNCHANGED <<elsewhere, shared, work, flush_fails>>

\* flush_pending: persist_batches evaluates what is pending first.
StartFlush(w) ==
    /\ work[w].at = "idle" /\ buffer[w] # <<>>
    /\ work' = [work EXCEPT ![w].at = "batch", ![w].left = buffer[w]]
    /\ UNCHANGED <<elsewhere, shared, queues>>

\* evaluate_batch: the rules are a snapshot and the arrival is the clock now.
StartBatch(w) ==
    /\ work[w].at = "batch"
    /\ work' = [work EXCEPT ![w].at = "item", ![w].arrival = now, ![w].program = program,
                            ![w].todo = Items(programs[program], build(Head(work[w].left), now))]
    /\ UNCHANGED <<elsewhere, shared, queues>>

\* The event and the rule it is evaluated by.
Item(w) == LET it == work[w].todo[1]
           IN [r |-> programs[work[w].program][it.rule], alias |-> it.alias, event |-> it.event]
AtItem(w) == work[w].at = "item" /\ work[w].todo # <<>>
Done(w, alerts) == [work EXCEPT ![w].at = "item", ![w].todo = Tail(@), ![w].found = @ \o alerts,
                                ![w].others = <<>>, ![w].candidates = <<>>]

Context(w, env, order) ==
    [env |-> env, order |-> order, tenant |-> Item(w).event.tenant, host |-> Item(w).event.host,
     now |-> work[w].arrival, clock |-> now, intel |-> intel]

\* evaluate_single_source_rule, for one event.
SingleEnd(it, c, holds) ==
    IF holds.v THEN conclude(it.r.rule, <<identity_key(it.event)>>, c, holds.m)
    ELSE [alerts |-> <<>>, m |-> holds.m]
SingleIn(it, c) == SingleEnd(it, c, eval_conjuncts(it.r.rule.predicates, c, <<>>, mem))
Finish(w, end) == mem' = end.m /\ work' = Done(w, end.alerts)
Single(w, it) ==
    /\ ~is_multi_source(it.r)
    /\ Finish(w, SingleIn(it, Context(w, [a \in {it.alias, <<"event">>, <<"e">>} |-> it.event],
                                      <<it.alias, <<"event">>, <<"e">>>>)))
EvaluateSingle(w) ==
    /\ AtItem(w) /\ Single(w, Item(w))
    /\ UNCHANGED <<elsewhere, queues, window_vars, ring, raised>>

Others(it) == SelectSeq([i \in DOMAIN it.r.families |-> it.r.families[i].alias],
                        LAMBDA a : a # it.alias)

JoinKey(it) == resolve_event_join_key(it.event, it.alias, it.r)

\* evaluate_multi_source_rule, for one event: it is put in its window first.
Insert(w, it) ==
    /\ is_multi_source(it.r)
    /\ insert_event(BucketKey(it.event.tenant, it.r.rule.id, it.alias, JoinKey(it)), it.event, it.r.window)
    /\ work' = [work EXCEPT ![w].at = "probe", ![w].others = Others(it)]
InsertIntoWindow(w) ==
    /\ AtItem(w) /\ Insert(w, Item(w))
    /\ UNCHANGED <<elsewhere, queues, mem, ring, raised>>

\* The other sources are looked up one after the other, until one has nothing.
Probed(w, found) ==
    work' = IF found = <<>> THEN Done(w, <<>>) ELSE [work EXCEPT ![w].candidates = Append(@, found)]
Probe(w, it, other) ==
    Probed(w, find_candidate_events(BucketKey(it.event.tenant, it.r.rule.id, other, JoinKey(it)),
                                    it.event, it.r.window))
ProbeWindow(w) ==
    /\ work[w].at = "probe"
    /\ IF Len(work[w].candidates) = Len(work[w].others) THEN work' = [work EXCEPT ![w].at = "join"]
       ELSE Probe(w, Item(w), work[w].others[Len(work[w].candidates) + 1])
    /\ UNCHANGED <<elsewhere, queues, shared>>

\* find_matching_join_tuples builds tuples with one or two other sources; with
\* none, or with more, it builds none.
Tuples(it, others, cands) ==
    CASE Len(others) = 1 ->
           [i \in DOMAIN cands[1] |-> (it.alias :> it.event) @@ (others[1] :> cands[1][i])]
      [] Len(others) = 2 ->
           FlattenSeq([i \in DOMAIN cands[1] |-> [j \in DOMAIN cands[2] |->
             (it.alias :> it.event) @@ (others[1] :> cands[1][i]) @@ (others[2] :> cands[2][j])]])
      [] OTHER -> <<>>

Identities(env, order) == [i \in DOMAIN order |-> identity_key(env[order[i]])]

\* The predicates of every tuple, then what follows for those that hold.  The
\* maps of events are walked in any order.  `cs' are the contexts.
Hold(acc, i, x) == [m |-> x.m, hold |-> IF x.v THEN Append(acc.hold, i) ELSE acc.hold]
Tested(it, cs) ==
    FoldLeft(LAMBDA acc, i : Hold(acc, i, eval_conjuncts(it.r.rule.predicates, cs[i], <<>>, acc.m)),
             [m |-> mem, hold |-> <<>>], [i \in DOMAIN cs |-> i])
Joined(acc, x) == [m |-> x.m, alerts |-> acc.alerts \o x.alerts]
Concluded(it, cs, tested) ==
    FoldLeft(LAMBDA acc, i : Joined(acc, conclude(it.r.rule, Identities(cs[i].env, cs[i].order), cs[i], acc.m)),
             [m |-> tested.m, alerts |-> <<>>], tested.hold)
InContexts(w, it, cs) == Finish(w, Concluded(it, cs, Tested(it, cs)))
JoinIn(w, it, tuples) ==
    \E orders \in [DOMAIN tuples -> SetToSeqs(ToSet(Others(it)) \cup {it.alias})] :
        InContexts(w, it, [i \in DOMAIN tuples |-> Context(w, tuples[i], orders[i])])
JoinTuples(w) ==
    /\ work[w].at = "join"
    /\ JoinIn(w, Item(w), Tuples(Item(w), work[w].others, work[w].candidates))
    /\ UNCHANGED <<elsewhere, queues, window_vars, ring, raised>>

\* AlertRingBuffer::push.
push(r, alert) == Append(IF Len(r) >= AlertCapacity THEN Tail(r) ELSE r, alert.id)

\* The alerts of the batch are published and the next batch is begun.
PublishAlerts(w) ==
    /\ work[w].at = "item" /\ work[w].todo = <<>>
    /\ ring' = FoldLeft(push, ring, work[w].found)
    /\ raised' = raised \cup ToSet(work[w].found)
    /\ work' = [work EXCEPT ![w] = [Idle EXCEPT !.left = Tail(work[w].left),
                                       !.at = IF Len(work[w].left) = 1 THEN "persist" ELSE "batch"]]
    /\ UNCHANGED <<elsewhere, queues, window_vars, mem>>

Persisted(w) ==
    /\ work[w].at = "persist"
    /\ buffer' = [buffer EXCEPT ![w] = <<>>]
    /\ work' = [work EXCEPT ![w] = Idle]
    /\ UNCHANGED <<elsewhere, shared, received, flush_fails>>

\* The batches stay pending, and are evaluated again by the next flush.
PersistFails(w) ==
    /\ work[w].at = "persist" /\ flush_fails < MaxFlushFails
    /\ flush_fails' = flush_fails + 1
    /\ work' = [work EXCEPT ![w] = Idle]
    /\ UNCHANGED <<elsewhere, shared, received, buffer>>

\* Another program is put in force; windows, counters and facts stay.
LoadProgram ==
    /\ program < Len(programs)
    /\ program' = program + 1
    /\ UNCHANGED <<intel_vars, stream, programs, now, shared, queues, work>>

Tick ==
    /\ now < MaxNow /\ now' = now + 1
    /\ UNCHANGED <<intel_vars, stream, programs, program, shared, queues, work>>

Evaluate(w) ==
    \/ StartBatch(w) \/ EvaluateSingle(w) \/ InsertIntoWindow(w) \/ ProbeWindow(w)
    \/ JoinTuples(w) \/ PublishAlerts(w)

Next ==
    \/ \E w \in Workers :
          Receive(w) \/ StartFlush(w) \/ Evaluate(w) \/ Persisted(w) \/ PersistFails(w)
    \/ LoadProgram \/ Tick
    \/ IntelNext /\ UNCHANGED <<stream, programs, program, now, shared, queues, work>>

\* The poller's thread runs.
Spec == Init /\ [][Next]_vars /\ WF_intel_vars(PollStep)

----------------------------------------------------------------------------
(* Properties. *)

AllIdle == \A w \in Workers : work[w].at = "idle"

\* Every rule some program has had, compiled; the ones whose id always meant
\* the same rule; and the joins of two sources whose outcome does not depend on
\* the memory or on threat intel.
Loaded == UNION {ToSet(programs[i]) : i \in 1 .. program}
Lasting == {r \in Loaded : \A s \in Loaded : s.rule.id = r.rule.id => s = r}
Pure(e) == \A n \in Nodes(e) : n[1] # "Call" /\ ~(n[1] = "In" /\ IsExternalSet(n[3]))
PureJoins == {r \in Lasting : Len(r.families) = 2 /\ is_multi_source(r)
                                /\ \A e \in RuleExprs(r.rule) : Pure(e)}

\* A pair satisfies what the rule asks of it, however the map is walked.
Bare(env, order) == [env |-> env, order |-> order, tenant |-> "", host |-> "", now |-> 0, clock |-> 0,
                     intel |-> <<>>]
SatisfiesIn(rule, c) ==
    /\ eval_conjuncts(rule.predicates, c, <<>>, NoMemory).v
    /\ eval_conjuncts(rule.require, c, eval_lets(rule.lets, c, NoMemory).v, NoMemory).v
Satisfies(r, env) == \A order \in SetToSeqs(DOMAIN env) : SatisfiesIn(r.rule, Bare(env, order))

\* An event goes into its window before the other windows are probed, so that
\* of two events evaluated at the same time at least one finds the other: once
\* the workers are done, no two events that are still in the windows and
\* satisfy a rule together have gone unreported.
NoMatchMissed ==
    AllIdle => \A r \in PureJoins, k \in DOMAIN buckets, l \in DOMAIN buckets :
        /\ k.rule = r.rule.id /\ k.alias = r.families[1].alias
        /\ l = [k EXCEPT !.alias = r.families[2].alias]
        => \A x \in ToSet(buckets[k]), y \in ToSet(buckets[l]) :
              LET Reported(env) == Satisfies(r, env) => \E a \in raised : a.rule = r.rule.id /\ a.env = env
              IN Near(x, y, r.window) => Reported((k.alias :> x) @@ (l.alias :> y))

\* The events of a join alert are of the alert's tenant and of the families the
\* rule declares; one of them is within the window of all others; and a value
\* that the rule equates is the same in all of them, or they come from one
\* host: "those keys are host-scoped and cannot collide into one false
\* cross-host match".
AlertsJustified ==
    \A a \in raised, r \in Lasting :
        r.rule.id = a.rule /\ is_multi_source(r) =>
          LET Key(al) == resolve_event_join_key(a.env[al], al, r)
          IN /\ DOMAIN a.env = {s.alias : s \in ToSet(r.families)}
             /\ \A s \in ToSet(r.families) : a.env[s.alias].kind = s.family
             /\ \A al \in DOMAIN a.env : a.env[al].tenant = a.tenant
             /\ \E al \in DOMAIN a.env : \A bl \in DOMAIN a.env : Near(a.env[al], a.env[bl], r.window)
             /\ \A al, bl \in DOMAIN a.env :
                  \/ Key(al)[1] = "terms" /\ Key(al) = Key(bl)
                  \/ a.env[al].host = a.env[bl].host

\* The agent's stamp was believed.
Stamped(e) == e.ts = e.data.ts_unix_ms

\* What the agent saw of an event, as far as an id covers it: not the user, the
\* attributes (a looked up name, say) or where a connection comes from.
Covered(e) == [f \in {"ts_unix_ms"} \cup IdentityFields[e.kind] |-> e.data[f]]

\* "A rule firing on the same events produces the same id in the hot path and
\* on a later replay": alerts on the same stamped events have one id, however
\* often a batch is evaluated and in whatever order the events are joined.  The
\* other way round, alerts with one id are of one tenant, on events of the same
\* hosts and times that agree in what identity_key takes from them; that need
\* not be the same events.
IdsFollowEvents ==
    \A a, b \in raised :
        /\ a.rule = b.rule /\ DOMAIN a.env = DOMAIN b.env
        /\ \A al \in DOMAIN a.env : Stamped(a.env[al]) /\ Stamped(b.env[al])
        => (a.id = b.id <=> /\ a.tenant = b.tenant
                            /\ \A al \in DOMAIN a.env :
                                 /\ a.env[al].host = b.env[al].host
                                 /\ Covered(a.env[al]) = Covered(b.env[al]))

\* The windows and the callable state stay within their limits, and their
\* eviction orders name exactly what they hold, each thing once: what is
\* tracked can be evicted, and what was evicted is forgotten.
StateBounded ==
    /\ IsInjective(bucket_lru) /\ ToSet(bucket_lru) = DOMAIN buckets
    /\ Cardinality(DOMAIN buckets) <= MaxBuckets
    /\ \A k \in DOMAIN buckets : Len(buckets[k]) \in 1 .. MAX_EVENTS_PER_BUCKET
    /\ IsInjective(mem.order)
    /\ ToSet(mem.order) = {<<"Rare", k>> : k \in DOMAIN mem.rare}
                          \cup {<<"Unusual", k>> : k \in mem.unusual}
                          \cup {<<"Rate", k>> : k \in DOMAIN mem.rates}
    /\ Cardinality(DOMAIN mem.rare) + Cardinality(mem.unusual) <= StateCapacity
    /\ Len(ring) <= AlertCapacity
============================================================================
