-------------------------- MODULE TelemetryWindow --------------------------
(***************************************************************************)
(* What the agent does with the events of a window: the relevance scorer   *)
(* (data/relevance_scorer.rs), the event store (data/event_store.rs), the  *)
(* metric digests (data/metric_aggregator.rs), the budgets                 *)
(* (budget_tracker.rs), the choice of the events to transmit               *)
(* (data/mdkp_scheduler.rs, the tier the agent uses) and the batches       *)
(* (data/batcher_compressor.rs), with the adapters of main.rs.             *)
(*                                                                         *)
(* Risks, scores and budgets are numbers of 1/10000, utilisations and      *)
(* gains of 1/100.  Time passes in scheduler periods of 500 ms.            *)
(***************************************************************************)
EXTENDS Integers, Sequences, FiniteSets, Functions

CONSTANTS StoreCapacity,  \* events the store holds
          Compression,    \* a digest holds twice as many centroids
          Baseline,       \* the budget of each resource before any feedback
          MaxFrameCount, QueueCap,  \* frames that trigger a flush; frames held
          MaxAge          \* ages beyond this are not told apart

----------------------------------------------------------------------------
(* The scorer: for every process the risk last let through, the age of the *)
(* last event and the events let through.                                  *)

dead_band_epsilon == 500

(* x to the power 0.7, for steps of 0.05, and 2 to the power -age/10. *)
Novelty(d) == <<1228, 1995, 2650, 3241, 3789, 4305, 4796, 5266, 5719, 6156, 6580, 6994>>[d \div 500]
Recency(age) == <<10000, 9330, 8706, 8123, 7579, 7071>>[age + 1]

Distance(a, b) == IF a > b THEN a - b ELSE b - a
NewProcess == [last_risk |-> 0, age |-> 0, event_count |-> 0]

Relevance(p, risk) ==
  (30 * risk
   + 40 * (IF p.event_count = 0 THEN 10000 ELSE Novelty(Distance(risk, p.last_risk)))
   + 20 * Recency(p.age)) \div 100

Suppressed(p, risk) == p.event_count > 0 /\ Distance(risk, p.last_risk) < dead_band_epsilon

ScoredAs(scorer, v, p, risk) ==
  LET Now(q) == [x \in DOMAIN scorer \cup {v} |-> IF x = v THEN q ELSE scorer[x]]
  IN IF Suppressed(p, risk)
     THEN [scorer |-> Now([p EXCEPT !.age = 0]), risk |-> 0]
     ELSE [scorer |-> Now([last_risk |-> risk, age |-> 0, event_count |-> p.event_count + 1]),
           risk |-> Relevance(p, risk)]

(* An event within the dead band goes on with a risk of zero. *)
score(scorer, e) ==
  ScoredAs(scorer, e.pid, IF e.pid \in DOMAIN scorer THEN scorer[e.pid] ELSE NewProcess, e.risk)

ScorerAges(scorer) ==
  [v \in DOMAIN scorer |-> [scorer[v] EXCEPT !.age = IF @ < MaxAge THEN @ + 1 ELSE @]]

----------------------------------------------------------------------------
(* The store. *)

EmptyStore == [events |-> <<>>, total_dropped |-> 0]

store_push(store, e) ==
  IF Len(store.events) >= StoreCapacity THEN [store EXCEPT !.total_dropped = @ + 1]
  ELSE [store EXCEPT !.events = Append(@, e)]

(* Event ids count from 0. *)
unscheduled_event_ids(store, from) ==
  [i \in 1..(Len(store.events) - from) |-> from + i - 1]

----------------------------------------------------------------------------
(* The digests: centroids with their sum and weight, sorted by mean. *)

EmptyDigest == [centroids |-> <<>>, count |-> 0, min |-> 0, max |-> 0, sum |-> 0]

(* Adjacent centroids are merged as far as the limit for their place in    *)
(* the distribution, 4 * total * q * (1 - q) / compression, allows.        *)
Absorb(a, c, total) ==
  IF (a.current.weight + c.weight) * total * Compression
       <= 4 * a.cumulative * (total - a.cumulative)
  THEN [a EXCEPT !.current = [sum |-> @.sum + c.sum, weight |-> @.weight + c.weight]]
  ELSE [merged |-> Append(a.merged, a.current),
        cumulative |-> a.cumulative + a.current.weight, current |-> c]

TotalWeight(centroids) ==
  LET at[n \in 0..Len(centroids)] == IF n = 0 THEN 0 ELSE at[n - 1] + centroids[n].weight
  IN at[Len(centroids)]

compress(centroids) ==
  LET at[n \in 1..Len(centroids)] ==
        IF n = 1 THEN [merged |-> <<>>, cumulative |-> 0, current |-> centroids[1]]
        ELSE Absorb(at[n - 1], centroids[n], TotalWeight(centroids))
  IN Append(at[Len(centroids)].merged, at[Len(centroids)].current)

Inserted(centroids, value) ==
  LET below == SelectSeq(centroids, LAMBDA c : c.sum < value * c.weight)
  IN below \o <<[sum |-> value, weight |-> 1]>>
       \o SubSeq(centroids, Len(below) + 1, Len(centroids))

Squeezed(centroids) == IF Len(centroids) > 2 * Compression THEN compress(centroids) ELSE centroids

digest_push(d, value) ==
  [centroids |-> Squeezed(Inserted(d.centroids, value)),
   count |-> d.count + 1, sum |-> d.sum + value,
   min |-> IF d.count = 0 \/ value < d.min THEN value ELSE d.min,
   max |-> IF d.count = 0 \/ value > d.max THEN value ELSE d.max]

(* The value at q percent, interpolated towards the next centroid. *)
Interpolate(c, next, behind) ==
  c.sum \div c.weight
    + (behind * (next.sum \div next.weight - c.sum \div c.weight)) \div (100 * c.weight)

AtRank(cs, i, q) ==
  IF i = Len(cs) THEN cs[i].sum \div cs[i].weight
  ELSE Interpolate(cs[i], cs[i + 1],
                   100 * TotalWeight(SubSeq(cs, 1, i)) - q * TotalWeight(cs))

quantile(d, q) ==
  AtRank(d.centroids,
         CHOOSE i \in DOMAIN d.centroids :
           /\ 100 * TotalWeight(SubSeq(d.centroids, 1, i)) >= q * TotalWeight(d.centroids)
           /\ \A j \in 1..(i - 1) :
                100 * TotalWeight(SubSeq(d.centroids, 1, j)) < q * TotalWeight(d.centroids),
         q)

summarize(d, comm) ==
  [comm |-> comm, count |-> d.count, min |-> d.min, max |-> d.max, mean |-> d.sum \div d.count,
   p50 |-> quantile(d, 50), p95 |-> quantile(d, 95), p99 |-> quantile(d, 99)]

record(digests, comm, value) ==
  [c \in DOMAIN digests \cup {comm} |->
     IF c # comm THEN digests[c]
     ELSE digest_push(IF c \in DOMAIN digests THEN digests[c] ELSE EmptyDigest, value)]

(* One summary for each program name with values; the digests start anew. *)
metrics_flush(digests) ==
  [summaries |-> {summarize(digests[c], c) : c \in {x \in DOMAIN digests : digests[x].count > 0}},
   digests |-> [c \in DOMAIN digests |-> EmptyDigest]]

----------------------------------------------------------------------------
(* The budgets. *)

Resources == {"cpu", "mem", "io", "net", "bw"}
target == [cpu |-> 70, mem |-> 70, io |-> 60, net |-> 60, bw |-> 70]
kp == [cpu |-> 35, mem |-> 25, io |-> 20, net |-> 20, bw |-> 25]
ki == [cpu |-> 6, mem |-> 5, io |-> 4, net |-> 4, bw |-> 5]
weights == [cpu |-> 20, mem |-> 15, io |-> 15, net |-> 20, bw |-> 30]

NewBudget == [total |-> [r \in Resources |-> Baseline[r] * 10000],
              remaining |-> [r \in Resources |-> Baseline[r] * 10000],
              integral |-> [r \in Resources |-> 0], warm |-> FALSE]

Clamp(x, lo, hi) == IF x < lo THEN lo ELSE IF x > hi THEN hi ELSE x

WithTotals(b, actual, integral, total) ==
  [total |-> total, integral |-> integral, warm |-> TRUE,
   remaining |-> [r \in Resources |-> (total[r] * (100 - actual[r])) \div 100]]

Adjusted(b, actual, integral) ==
  WithTotals(b, actual, integral,
    [r \in Resources |->
       Clamp(Baseline[r] * (10000 + kp[r] * (target[r] - actual[r]) + ki[r] * integral[r]),
             Baseline[r] * 5000, Baseline[r] * 15000)])

apply_pi(b, actual) ==
  Adjusted(b, actual,
           [r \in Resources |-> Clamp(b.integral[r] + target[r] - actual[r], -100, 100)])

(* The first sample has nothing to be compared with. *)
compute_utilization(b, sample) == IF b.warm THEN sample ELSE [r \in Resources |-> 0]
budget_update(b, sample) == apply_pi(b, compute_utilization(b, sample))

----------------------------------------------------------------------------
(* The scheduler.  Every event is offered with one relevance and one unit  *)
(* of each resource (RealScheduler::enqueue).                              *)

Item(id) == [event_id |-> id, relevance |-> 5000, cost |-> [r \in Resources |-> 1]]

composite_cost_relative(cost, total) ==
  FoldFunction(+, 0, [r \in Resources |-> (cost[r] * weights[r] * 1000000) \div total[r]])

Efficiency(relevance, composite) ==
  IF composite > 0 THEN ((relevance - composite \div 10) * 10000) \div composite ELSE relevance

recompute_efficiency(item, total) ==
  Efficiency(item.relevance, composite_cost_relative(item.cost, total))

fits(remaining, cost) == \A r \in Resources : cost[r] * 10000 <= remaining[r]
consume(remaining, cost) == [r \in Resources |-> remaining[r] - cost[r] * 10000]

SelectNext(a, items, i) ==
  IF fits(a.left, items[i].cost)
  THEN [left |-> consume(a.left, items[i].cost), chosen |-> Append(a.chosen, i)] ELSE a

Select(items, order, total) ==
  LET at[n \in 0..Len(order)] ==
        IF n = 0 THEN [left |-> total, chosen |-> <<>>] ELSE SelectNext(at[n - 1], items, order[n])
  IN at[Len(order)].chosen

(* A heap yields items of equal efficiency in no particular order. *)
HeapOrders(items, efficiency) ==
  LET queued == {i \in DOMAIN items : efficiency[i] > 0}
  IN {s \in Injection(1..Cardinality(queued), queued) :
        \A i, j \in DOMAIN s : i < j => efficiency[s[i]] >= efficiency[s[j]]}

greedy(items, efficiency, total) == {Select(items, s, total) : s \in HeapOrders(items, efficiency)}

(* What one window may select: sequences of event ids.  A window starts    *)
(* with the whole budget.                                                  *)
solve(ids, budget) ==
  LET items == [i \in DOMAIN ids |-> Item(ids[i])]
  IN {[i \in DOMAIN chosen |-> ids[chosen[i]]]
      : chosen \in greedy(items, [i \in DOMAIN ids |-> recompute_efficiency(items[i], budget.total)],
                          budget.total)}

----------------------------------------------------------------------------
(* The batcher: frames waiting, and the age of the last flush.  A frame is *)
(* one event of at most a few hundred bytes: MaxFrameCount of them come    *)
(* before the 4 MB of the size trigger.                                    *)

EmptyBatcher == [queue |-> <<>>, age |-> 0, total_dropped |-> 0]

CountTriggerOnly(b) == Len(b.queue) >= MaxFrameCount
should_flush(b) == Len(b.queue) >= MaxFrameCount \/ b.age >= 1

(* The batcher after a frame is pushed, and whether a flush is called for. *)
PushedTo(b) == [batcher |-> b, flush |-> should_flush(b)]
batcher_push(b, id, compresses) ==
  IF ~compresses THEN [batcher |-> [b EXCEPT !.total_dropped = @ + 1], flush |-> FALSE]
  ELSE IF Len(b.queue) >= QueueCap
       THEN [batcher |-> [b EXCEPT !.total_dropped = @ + 1], flush |-> TRUE]
  ELSE PushedTo([b EXCEPT !.queue = Append(@, id)])

(* A flush of nothing does not count as one. *)
batcher_flush(b) == IF b.queue = <<>> THEN b ELSE [b EXCEPT !.queue = <<>>, !.age = 0]

BatcherAges(b) == [b EXCEPT !.age = 1]
=============================================================================
