--------------------------- MODULE AgentPipeline ---------------------------
(***************************************************************************)
(* The agent's main loop (agent/agent/src/agent.rs): it drains the ring    *)
(* buffer of the kernel, answers requests of the statement guard, runs the *)
(* scheduler every period and the housekeeping every few, and ends on a    *)
(* signal or on the first error of a send that is not a guard's alert.     *)
(*                                                                         *)
(* One step of the loop takes one record or one request.  The sender is    *)
(* external: `world.failsAt` is the attempt that fails.  Timers are the    *)
(* periods left until they are due.                                        *)
(***************************************************************************)
EXTENDS SqlGuard, TelemetryWindow, EventGraph

CONSTANTS Worlds,              \* the environments considered
          Rules,               \* the loaded rules, in order
          HousekeepingPeriod,  \* in scheduler periods
          MaxSqlPerPass,       \* requests answered in one pass of the loop
          MaxLag,              \* periods a timer may be overdue
          AgentPid             \* the agent's own process

(* A record of the ring buffer, whatever its kind. *)
KernelRecords ==
  [valid : BOOLEAN, kind : Nat, pid : Nat, dst : Nat, ip : Nat, comm : STRING, ts : Nat,
   class : Nat, write : BOOLEAN, large : BOOLEAN, deny : BOOLEAN]

ASSUME RulesAssumption ==
  Rules \in Seq([name : STRING, kinds : SUBSET Nat, classes : SUBSET Nat, risk : Nat,
                 egress : BOOLEAN, query : BOOLEAN])
ASSUME WorldsAssumption ==
  \A w \in Worlds :
    /\ w.failsAt \in Nat /\ w.enforce \in BOOLEAN
    /\ w.stream \in Seq(KernelRecords)
    /\ \A t \in Threads : w.calls[t] \in Seq([kind : CallKinds, key : Nat, text : Texts])
    /\ \A t, u \in Threads : \A i \in DOMAIN w.calls[t], j \in DOMAIN w.calls[u] :
         "query" \notin {w.calls[t][i].kind, w.calls[u][j].kind}
           /\ w.calls[t][i].key = w.calls[u][j].key => t = u

VARIABLES pc, arrived, drained,  \* control; records written and taken
          sqlLeft,               \* requests this pass may still answer
          schedulerIn, housekeepingIn,
          shutdown, attempts,    \* signal received; sends attempted
          scorer, store, graph, metrics, budget, batcher, cursor,
          window, firewall, killed,
          seen,      \* history: the events processed
          alerts,    \* history: for each of them the alerts sent, by the names of the rules
          handed,    \* history: the ids handed to the sender
          reported,  \* history: what the summaries sent so far add up to
          merged     \* history: how many events the last merge took in

loopVars == <<pc, arrived, drained, sqlLeft, schedulerIn, housekeepingIn, shutdown, attempts>>
dataVars == <<scorer, store, graph, metrics, budget, batcher, cursor, window, firewall, killed>>
historyVars == <<seen, alerts, handed, reported, merged>>
vars == <<world, guardVars, loopVars, dataVars, historyVars>>

Ended == pc \in {"stopped", "failed", "panicked"}
NoCounts == [captured |-> 0, transmitted |-> 0, dropped |-> 0]

Init ==
  /\ world \in Worlds /\ GuardInit
  /\ pc = "select" /\ arrived = 0 /\ drained = 0 /\ sqlLeft = 0
  /\ schedulerIn = 1 /\ housekeepingIn = HousekeepingPeriod
  /\ shutdown = FALSE /\ attempts = 0
  /\ scorer = <<>> /\ store = EmptyStore /\ graph = EmptyGraph /\ metrics = <<>>
  /\ budget = NewBudget /\ batcher = EmptyBatcher /\ cursor = 0
  /\ window = NoCounts /\ firewall = [allow |-> 0, deny |-> 0] /\ killed = {}
  /\ seen = <<>> /\ alerts = <<>> /\ handed = <<>> /\ merged = 0
  /\ reported = [counts |-> NoCounts, metrics |-> <<>>]

----------------------------------------------------------------------------
(* The environment. *)

KernelWrites ==
  /\ arrived < Len(world.stream) /\ arrived' = arrived + 1
  /\ UNCHANGED <<world, guardVars, pc, drained, sqlLeft, schedulerIn, housekeepingIn, shutdown,
                 attempts, dataVars, historyVars>>

Signal ==
  /\ world.signal /\ ~shutdown /\ shutdown' = TRUE
  /\ UNCHANGED <<world, guardVars, pc, arrived, drained, sqlLeft, schedulerIn, housekeepingIn,
                 attempts, dataVars, historyVars>>

(* A scheduler period passes.  It does so between two passes of the loop;  *)
(* one that passes within a pass is counted before it.                     *)
Tick ==
  /\ pc = "select" /\ schedulerIn > -MaxLag
  /\ schedulerIn' = schedulerIn - 1
  /\ housekeepingIn' = housekeepingIn - 1
  /\ scorer' = ScorerAges(scorer) /\ batcher' = BatcherAges(batcher) /\ graph' = GraphAges(graph)
  /\ UNCHANGED <<world, guardVars, pc, arrived, drained, sqlLeft, shutdown, attempts,
                 store, metrics, budget, cursor, window, firewall, killed, historyVars>>

----------------------------------------------------------------------------
(* Sending. *)

Fails(attempt) == attempt = world.failsAt

(* How many of n sends in a row succeed when the first failure ends them. *)
Succeeding(n) ==
  IF world.failsAt \in (attempts + 1)..(attempts + n) THEN world.failsAt - attempts - 1 ELSE n

----------------------------------------------------------------------------
(* One event. *)

base_risk(r) ==
  CASE r.kind = 1 -> 5000
    [] r.kind = 2 -> IF r.write THEN 6000 ELSE 3500
    [] r.kind = 3 -> 7000
    [] r.kind = 4 -> IF r.class = 3 THEN 8500 ELSE IF r.class = 4 THEN 9000 ELSE 4000
    [] r.kind = 5 -> IF r.large THEN 8500 ELSE 5500
    [] r.kind = 6 -> IF r.large THEN 7000 ELSE 4500
    [] OTHER -> IF r.deny THEN 9500 ELSE 5000

(* The normal form of a kernel record; a TLS event has a length for target. *)
decode(r) ==
  [kind |-> r.kind, pid |-> r.pid, dst |-> r.dst, ip |-> IF r.kind \in {3, 7} THEN r.ip ELSE 0,
   comm |-> r.comm, ts |-> r.ts, class |-> IF r.kind = 4 THEN r.class ELSE 0,
   risk |-> base_risk(r), verdict |-> 0]

(* A statement of the guard.  It is stamped with the time of day, kernel   *)
(* records with the time since boot: UnixTime is beyond all of those.      *)
UnixTime == 1000
event_from_request(request) ==
  [kind |-> 4, pid |-> world.pids[request.call[1]], dst |-> request.text.hash, ip |-> 0,
   comm |-> "client", ts |-> UnixTime + Len(seen), class |-> request.text.class,
   risk |-> CASE request.text.class = 3 -> 8500 [] request.text.class = 4 -> 9000 [] OTHER -> 4000,
   verdict |-> 0]

(* A rule is known by the events it matches; RuleEngine has the evaluator. *)
matches(rule, e) == e.kind \in rule.kinds /\ e.risk >= rule.risk /\ e.class \in rule.classes
evaluate(e) ==
  LET at[n \in 0..Len(Rules)] ==
        IF n = 0 THEN <<>>
        ELSE IF matches(Rules[n], e) THEN Append(at[n - 1], Rules[n]) ELSE at[n - 1]
  IN at[Len(Rules)]

(* Store, graph and metrics; the store may refuse the event. *)
Record(e, written) ==
  /\ store' = store_push(store, e)
  /\ graph' = written.graph
  /\ metrics' = record(metrics, e.comm, e.risk)

AlertNames(e) == [i \in DOMAIN evaluate(e) |-> evaluate(e)[i].name]

OnlyFirst(e) ==
  /\ alerts' = Append(alerts, SubSeq(AlertNames(e), 1, Succeeding(Min({1, Len(evaluate(e))}))))
  /\ attempts' = attempts + Min({1, Len(evaluate(e))})

Alerted(e) ==
  /\ alerts' = Append(alerts, SubSeq(AlertNames(e), 1, Succeeding(Len(evaluate(e)))))
  /\ attempts' = attempts + Len(evaluate(e))

(* A connection that a rule forbids ends its process, the agent's own and  *)
(* the first one excepted.                                                 *)
enforce_block_egress_pid(e) == IF e.pid <= 1 \/ e.pid = AgentPid THEN {} ELSE {e.pid}

Egress(e) == e.kind = 3 /\ \E i \in DOMAIN evaluate(e) : evaluate(e)[i].egress

Firewall(e) ==
  IF e.kind # 3 THEN UNCHANGED <<firewall, killed>>
  ELSE IF Egress(e)
  THEN /\ firewall' = [firewall EXCEPT !.deny = @ + 1]
       /\ killed' = killed \cup enforce_block_egress_pid(e)
  ELSE firewall' = [firewall EXCEPT !.allow = @ + 1] /\ UNCHANGED killed

(* Score, store, graph, metrics, rules, and an alert for every match.  The *)
(* counters are added up event by event; those of a pass that ends in an   *)
(* error are lost in the code, and the agent with them.                    *)
Processed(e, written) ==
  /\ seen' = Append(seen, e)
  /\ Record(e, written)
  /\ IF written.panicked
     THEN /\ pc' = "panicked" /\ alerts' = Append(alerts, <<>>)
          /\ UNCHANGED <<attempts, firewall, killed, window>>
     ELSE /\ Firewall(e) /\ Alerted(e)
          /\ pc' = IF Succeeding(Len(evaluate(e))) < Len(evaluate(e)) THEN "failed" ELSE pc
          /\ window' = [window EXCEPT !.captured = @ + 1]

Scored(e, s) ==
  /\ scorer' = s.scorer
  /\ Processed([e EXCEPT !.risk = s.risk], write_edge(graph, [e EXCEPT !.risk = s.risk], world.dump))

process_event(e) == Scored(e, score(scorer, e))

(* One record of the ring buffer; one with an unknown kind or a length     *)
(* that does not fit its kind is skipped.                                  *)
Ingest ==
  /\ pc = "drain" /\ drained < arrived
  /\ drained' = drained + 1
  /\ IF world.stream[drained + 1].valid
     THEN process_event(decode(world.stream[drained + 1]))
     ELSE UNCHANGED <<pc, attempts, scorer, store, graph, metrics, window, firewall, killed,
                      seen, alerts>>
  /\ UNCHANGED <<world, guardVars, arrived, sqlLeft, schedulerIn, housekeepingIn, shutdown,
                 budget, batcher, cursor, handed, reported, merged>>

DrainEnds ==
  /\ pc = "drain" /\ drained = arrived
  /\ pc' = "sql" /\ sqlLeft' = MaxSqlPerPass
  /\ UNCHANGED <<world, guardVars, arrived, drained, schedulerIn, housekeepingIn, shutdown,
                 attempts, dataVars, historyVars>>

----------------------------------------------------------------------------
(* One request of the guard: an alert that cannot be sent is only logged.  *)

Asks(e) == \E i \in DOMAIN evaluate(e) : evaluate(e)[i].query
Blocks(e) == Asks(e) /\ world.enforce

SqlAlerts(e) ==
  IF Succeeding(Len(evaluate(e))) = Len(evaluate(e)) THEN AlertNames(e)
  ELSE SubSeq(AlertNames(e), 1, world.failsAt - attempts - 1)
         \o SubSeq(AlertNames(e), world.failsAt - attempts + 1, Len(evaluate(e)))

Judged(e, written) ==
  /\ seen' = Append(seen, e)
  /\ Record(e, written)
  /\ IF written.panicked
     THEN /\ pc' = "panicked" /\ alerts' = Append(alerts, <<>>)
          /\ UNCHANGED <<attempts, window, guardVars>>
     ELSE /\ alerts' = Append(alerts, SqlAlerts(e))
          /\ attempts' = attempts + Len(evaluate(e))
          /\ window' = [window EXCEPT !.captured = @ + 1]
          /\ reply(Blocks(e))
          /\ UNCHANGED pc

WithVerdict(e) ==
  Judged([e EXCEPT !.verdict = IF Blocks(e) THEN 3 ELSE IF Asks(e) THEN 2 ELSE 1],
         write_edge(graph, e, world.dump))

process_sql_policy_event(e, s) ==
  scorer' = s.scorer /\ WithVerdict([e EXCEPT !.risk = s.risk])

AnswerSql ==
  /\ pc = "sql" /\ requests # <<>> /\ sqlLeft > 0
  /\ sqlLeft' = sqlLeft - 1
  /\ process_sql_policy_event(event_from_request(Head(requests)),
                              score(scorer, event_from_request(Head(requests))))
  /\ UNCHANGED <<world, arrived, drained, schedulerIn, housekeepingIn, shutdown,
                 budget, batcher, cursor, firewall, killed, handed, reported, merged>>

SqlEnds ==
  /\ pc = "sql" /\ (requests = <<>> \/ sqlLeft = 0)
  /\ pc' = "scheduler"
  /\ UNCHANGED <<world, guardVars, arrived, drained, sqlLeft, schedulerIn, housekeepingIn,
                 shutdown, attempts, dataVars, historyVars>>

----------------------------------------------------------------------------
(* The scheduler. *)

(* Every id the scheduler selects is one of the store, so there is an      *)
(* event to serialize.  What a tick has done so far: the batcher, the ids sent, the sends       *)
(* attempted, whether one failed.                                          *)
FlushTo(a) ==
  IF a.batcher.queue = <<>> THEN a
  ELSE [batcher |-> batcher_flush(a.batcher), attempts |-> a.attempts + 1,
        sent |-> IF Fails(a.attempts + 1) THEN a.sent ELSE a.sent \o a.batcher.queue,
        failed |-> Fails(a.attempts + 1)]

Pushed(a, p) ==
  IF p.flush THEN FlushTo([a EXCEPT !.batcher = p.batcher]) ELSE [a EXCEPT !.batcher = p.batcher]

PushNext(a, id) ==
  IF a.failed THEN a ELSE Pushed(a, batcher_push(a.batcher, id, id # world.badFrame))

PushAll(selected, a) ==
  LET at[n \in 0..Len(selected)] == IF n = 0 THEN a ELSE PushNext(at[n - 1], selected[n])
  IN at[Len(selected)]

FlushIfReady(a) == IF ~a.failed /\ should_flush(a.batcher) THEN FlushTo(a) ELSE a

CursorAtLast(from, ids) == IF ids = <<>> THEN from ELSE ids[Len(ids)]
CursorAfter(from, ids) == IF ids = <<>> THEN from ELSE ids[Len(ids)] + 1

Ticked(ids, selected, a) ==
  /\ batcher' = a.batcher /\ handed' = handed \o a.sent /\ attempts' = a.attempts
  /\ cursor' = CursorAfter(cursor, ids)
  /\ IF a.failed
     THEN pc' = "failed" /\ UNCHANGED <<window, schedulerIn>>
     ELSE /\ pc' = "housekeeping"
          /\ window' = [window EXCEPT !.transmitted = @ + Len(selected),
                                      !.dropped = @ + Len(ids) - Len(selected)]
          /\ schedulerIn' = schedulerIn + 1

SchedulerTick ==
  /\ pc = "scheduler" /\ schedulerIn <= 0
  /\ \E selected \in solve(unscheduled_event_ids(store, cursor), budget) :
       Ticked(unscheduled_event_ids(store, cursor), selected,
              FlushIfReady(PushAll(selected, [batcher |-> batcher, attempts |-> attempts,
                                              sent |-> <<>>, failed |-> FALSE])))
  /\ UNCHANGED <<world, guardVars, arrived, drained, sqlLeft, housekeepingIn, shutdown, scorer,
                 store, graph, metrics, budget, firewall, killed, seen, alerts, reported, merged>>

SchedulerNotDue ==
  /\ pc = "scheduler" /\ schedulerIn > 0
  /\ pc' = "housekeeping"
  /\ UNCHANGED <<world, guardVars, arrived, drained, sqlLeft, schedulerIn, housekeepingIn,
                 shutdown, attempts, dataVars, historyVars>>

----------------------------------------------------------------------------
(* Housekeeping. *)

(* The events of a program that the summaries sent so far count, and these. *)
Reported(c) == IF c \in DOMAIN reported.metrics THEN reported.metrics[c] ELSE 0
CountIn(summaries, c) ==
  IF \E s \in summaries : s.comm = c THEN (CHOOSE s \in summaries : s.comm = c).count ELSE 0

Added(a, b) == [captured |-> a.captured + b.captured, transmitted |-> a.transmitted + b.transmitted,
                dropped |-> a.dropped + b.dropped]

(* Summaries are sent in the order of a hash map; after the merge a spool *)
(* with a backlog is replayed, which may fail.                             *)
Kept(f, g) ==
  /\ attempts' = attempts + Cardinality(f.summaries)
  /\ metrics' = f.digests
  /\ IF Succeeding(Cardinality(f.summaries)) < Cardinality(f.summaries)
     THEN pc' = "failed" /\ UNCHANGED <<graph, window, housekeepingIn, reported, merged>>
     ELSE /\ graph' = g.graph /\ merged' = Len(seen)
          /\ IF g.panicked \/ world.replayFails
             THEN /\ pc' = IF g.panicked THEN "panicked" ELSE "failed"
                  /\ UNCHANGED <<window, housekeepingIn, reported>>
             ELSE /\ pc' = "select"
                  /\ reported' = [counts |-> Added(reported.counts, window),
                                  metrics |-> [c \in DOMAIN metrics |->
                                                 Reported(c) + CountIn(f.summaries, c)]]
                  /\ window' = NoCounts
                  /\ housekeepingIn' = housekeepingIn + HousekeepingPeriod

HousekeepingTick ==
  /\ pc = "housekeeping" /\ housekeepingIn <= 0
  /\ \/ /\ world.procReadable
        /\ \E sample \in world.samples : budget' = budget_update(budget, sample)
        /\ Kept(metrics_flush(metrics), merge_deltas(graph, world.dump))
     \/ /\ ~world.procReadable
        /\ pc' = "failed"
        /\ UNCHANGED <<attempts, metrics, graph, budget, window, housekeepingIn, reported, merged>>
  /\ UNCHANGED <<world, guardVars, arrived, drained, sqlLeft, schedulerIn, shutdown,
                 scorer, store, batcher, cursor, firewall, killed, seen, alerts, handed>>

HousekeepingNotDue ==
  /\ pc = "housekeeping" /\ housekeepingIn > 0
  /\ pc' = "select"
  /\ UNCHANGED <<world, guardVars, arrived, drained, sqlLeft, schedulerIn, housekeepingIn,
                 shutdown, attempts, dataVars, historyVars>>

----------------------------------------------------------------------------
StartPass ==
  /\ pc = "select" /\ ~shutdown
  /\ pc' = "drain"
  /\ UNCHANGED <<world, guardVars, arrived, drained, sqlLeft, schedulerIn, housekeepingIn,
                 shutdown, attempts, dataVars, historyVars>>

(* The last batch is sent if that is possible. *)
Shutdown ==
  /\ pc = "select" /\ shutdown
  /\ pc' = "stopped"
  /\ LET a == FlushTo([batcher |-> batcher, attempts |-> attempts, sent |-> <<>>, failed |-> FALSE])
     IN batcher' = a.batcher /\ attempts' = a.attempts /\ handed' = handed \o a.sent
  /\ UNCHANGED <<world, guardVars, arrived, drained, sqlLeft, schedulerIn, housekeepingIn,
                 shutdown, scorer, store, graph, metrics, budget, cursor, window, firewall,
                 killed, seen, alerts, reported, merged>>

MainLoop ==
  StartPass \/ Shutdown \/ Ingest \/ DrainEnds \/ AnswerSql \/ SqlEnds
    \/ SchedulerTick \/ SchedulerNotDue \/ HousekeepingTick \/ HousekeepingNotDue

Outside == UNCHANGED <<world, loopVars, dataVars, historyVars>>
Clients == \E t \in Threads : GuardNext(t, ~Ended) /\ Outside
Service == ~Ended /\ (\E w \in Workers : ServiceNext(w)) /\ Outside

Next == KernelWrites \/ Signal \/ Tick \/ MainLoop \/ Clients \/ Service

(* The loop never waits for anything but its millisecond of sleep, time    *)
(* passes, and threads are scheduled; nothing makes a client call, the     *)
(* kernel write or a signal come.  The first two are weak fairness of      *)
(* MainLoop, which is enabled until the agent ends and alone changes these *)
(* variables, and of Tick.                                                 *)
LoopSteps == <<pc, drained, sqlLeft>>' # <<pc, drained, sqlLeft>>
TimePasses == schedulerIn' < schedulerIn
Fairness ==
  /\ []<>Ended \/ []<><<LoopSteps>>_loopVars
  /\ []<>(Ended \/ schedulerIn <= -MaxLag) \/ []<><<TimePasses>>_loopVars
  /\ \A t \in Threads : WF_guardVars(Answered(t)) /\ WF_guardVars(ReadFails(t, ~Ended))
  /\ \A w \in Workers : WF_guardVars(~Ended /\ ServiceNext(w))

Spec == Init /\ [][Next]_vars /\ Fairness

----------------------------------------------------------------------------
(* Properties. *)

Total(counter) == reported.counts[counter] + window[counter]

(* Every event is accounted for, once: those captured are stored or        *)
(* refused by the full store, those the scheduler has passed are counted   *)
(* as transmitted or dropped, those transmitted have been handed to the    *)
(* sender, wait in the batcher or were dropped there, none of them twice,  *)
(* and every one is counted once for its program: in a summary that was    *)
(* sent or in the digest of the next one.                                  *)
TelemetryAccounted ==
  ~Ended =>
    /\ Total("captured") = Len(seen)
    /\ Len(store.events) + store.total_dropped = Len(seen)
    /\ Total("transmitted") + Total("dropped") = cursor
    /\ Len(handed) + Len(batcher.queue) + batcher.total_dropped = Total("transmitted")
    /\ IsInjective(handed \o batcher.queue)
    /\ \A id \in Range(handed \o batcher.queue) : id < cursor
    /\ \A i \in DOMAIN seen : seen[i].comm \in DOMAIN metrics
    /\ \A c \in DOMAIN metrics :
         Reported(c) + metrics[c].count = Cardinality({i \in DOMAIN seen : seen[i].comm = c})

(* The alerts of an event are those of all the rules it matches, in order, *)
(* whatever the store, the budgets or the batcher do with it.  Only a      *)
(* failed send loses one: a guarded statement's for good, any other's with *)
(* the agent.  The connections denied are those a rule forbids, and a      *)
(* process is ended only for one of them.                                  *)
EveryMatchReported ==
  /\ \A i \in DOMAIN seen :
       \/ alerts[i] = AlertNames(seen[i])
       \/ seen[i].verdict # 0 /\ world.failsAt \in 1..attempts
       \/ i = Len(seen) /\ pc \in {"failed", "panicked"}
  /\ pc # "panicked" => firewall.deny = Cardinality({i \in DOMAIN seen : Egress(seen[i])})
  /\ killed \subseteq {seen[i].pid : i \in {j \in DOMAIN seen : Egress(seen[j])}} \ {1, AgentPid}

(* After a merge the snapshot is the graph of the events merged: every     *)
(* vertex that was given an id, every edge once and in order, with the     *)
(* newest of its events; the ids are dense and belong to one key each.     *)
Known(i) == SourceKey(seen[i]) \in DOMAIN graph.vertex_index
              /\ TargetKey(seen[i]) \in DOMAIN graph.vertex_index
EventsBetween(v, w) ==
  {i \in 1..merged : /\ Known(i)
                     /\ graph.vertex_index[SourceKey(seen[i])] = v
                     /\ graph.vertex_index[TargetKey(seen[i])] = w}
GraphIsLatest ==
  LET s == graph.snapshot
  IN /\ Range(graph.vertex_index) = 0..(graph.next_vertex_id - 1)
     /\ Cardinality(DOMAIN graph.vertex_index) = graph.next_vertex_id
     /\ graph.next_vertex_id <= MaxNodes
     /\ \A i \in 1..merged :
          Known(i) => /\ graph.vertex_index[SourceKey(seen[i])] < s.num_nodes
                      /\ graph.vertex_index[TargetKey(seen[i])] < s.num_nodes
     /\ \A v \in 0..(s.num_nodes - 1) :
          LET row == neighbors(s, v)
          IN /\ \A i, j \in DOMAIN row : i < j => row[i] < row[j]
             /\ Range(row) = {w \in 0..(s.num_nodes - 1) : EventsBetween(v, w) # {}}
             /\ \A i \in DOMAIN row :
                  neighbor_props(s, v)[i].ts = Max({seen[k].ts : k \in EventsBetween(v, row[i])})

(* What the kernel wrote is taken, offered to the scheduler, batched, sent *)
(* and merged, again and again, unless the agent ends; a signal ends it.   *)
Settled == /\ drained = arrived /\ cursor = Len(store.events)
           /\ batcher.queue = <<>> /\ graph.delta = EmptyDelta
PipelineSettles == []<>(Ended \/ Settled) /\ (shutdown ~> Ended)

(* A client that asks is answered, also where sockets have no deadlines    *)
(* and whether or not the agent ends or its queue is full.                 *)
CallsReturn == \A t \in Threads : guard[t].pc = "asking" ~> guard[t].pc # "asking"

=============================================================================
