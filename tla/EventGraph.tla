----------------------------- MODULE EventGraph -----------------------------
(***************************************************************************)
(* The agent's graph of processes and what they touch: the allocator of    *)
(* compact vertex ids and the writer of edges (RealGraph, main.rs), the    *)
(* delta buffer and the merge into the compressed-sparse-row snapshot      *)
(* (data/csr_graph.rs), and the nodes that a dump of the graph reads.      *)
(*                                                                         *)
(* One thread writes, so there is one delta shard.  Vertices are numbered  *)
(* from 0 and sequences from 1: vertex v has offsets[v + 1] and            *)
(* node_props[v + 1].  Of the properties of an edge its time, kind and     *)
(* risk are kept, of a node its times, risk and label.                     *)
(***************************************************************************)
EXTENDS Integers, Sequences, FiniteSets, FiniteSetsExt, Functions

CONSTANTS MaxNodes,       \* OLOPA_GRAPH_MAX_NODES
          MaxDumpEvents,  \* recent events a dump shows
          DumpInterval    \* scheduler periods between two dumps

ASSUME GraphAssumption == MaxNodes \in Nat

Never == 0 - 1
NoVertex == 0 - 1
EmptySnapshot == [num_nodes |-> 0, offsets |-> <<0>>, adjacency |-> <<>>,
                  edge_props |-> <<>>, node_props |-> <<>>]
EmptyDelta == [new_nodes |-> <<>>, new_edges |-> <<>>, risk_updates |-> <<>>]
EmptyGraph == [snapshot |-> EmptySnapshot, delta |-> EmptyDelta,
               vertex_index |-> <<>>, next_vertex_id |-> 0,
               recent_events |-> <<>>, last_span_by_pid |-> <<>>, next_span_id |-> 1,
               since_dump |-> Never]

----------------------------------------------------------------------------
(* The snapshot. *)

neighbors(s, v) == SubSeq(s.adjacency, s.offsets[v + 1] + 1, s.offsets[v + 2])
neighbor_props(s, v) == SubSeq(s.edge_props, s.offsets[v + 1] + 1, s.offsets[v + 2])

NoProps == [ts |-> Never, kind |-> "none", risk |-> 0]
default_node_props == [first_seen |-> 0, last_seen |-> 0, risk |-> 0, label |-> "Process"]

FirstProps(current, candidate) == IF current = NoProps THEN candidate ELSE current

latest_props(current, candidate) == IF current.ts > candidate.ts THEN current ELSE candidate

(* The edges from which a row is made: those of the snapshot out of v,     *)
(* then all of the delta, of which a row takes those out of v.  The        *)
(* delta is sorted by an unstable sort; edges with equal ends are taken in *)
(* the order of their insertion.                                           *)
RowEntries(base, new_edges, v) ==
  (IF v < base.num_nodes
   THEN [i \in DOMAIN neighbors(base, v) |->
           <<v, neighbors(base, v)[i], neighbor_props(base, v)[i]>>]
   ELSE <<>>) \o new_edges

(* A row of the new snapshot: every target once, in order, with the        *)
(* properties latest_props leaves.                                         *)
Ascending(S) ==
  CHOOSE s \in [1..Cardinality(S) -> S] : \A i, j \in DOMAIN s : i < j => s[i] < s[j]

LatestOf(entries, v, w) ==
  LET at[n \in 0..Len(entries)] ==
        IF n = 0 THEN NoProps
        ELSE IF entries[n][1] = v /\ entries[n][2] = w
        THEN latest_props(at[n - 1], entries[n][3]) ELSE at[n - 1]
  IN at[Len(entries)]

TargetsOf(entries, v) == {entries[i][2] : i \in {k \in DOMAIN entries : entries[k][1] = v}}

MergedRow(entries, v) ==
  LET targets == Ascending(TargetsOf(entries, v))
  IN [i \in DOMAIN targets |-> <<targets[i], LatestOf(entries, v, targets[i])>>]

(* The rows one after the other, and where each of them starts. *)
Flattened(rows) ==
  LET at[n \in 0..Len(rows)] == IF n = 0 THEN <<>> ELSE at[n - 1] \o rows[n] IN at[Len(rows)]
Offsets(rows) ==
  LET at[n \in 0..Len(rows)] == IF n = 0 THEN 0 ELSE at[n - 1] + Len(rows[n])
  IN [i \in 1..(Len(rows) + 1) |-> at[i - 1]]

FromRows(rows, node_props) ==
  [num_nodes |-> Len(rows), offsets |-> Offsets(rows),
   adjacency |-> [k \in DOMAIN Flattened(rows) |-> Flattened(rows)[k][1]],
   edge_props |-> [k \in DOMAIN Flattened(rows) |-> Flattened(rows)[k][2]],
   node_props |-> node_props]

RiskUpdated(ns, u) ==
  [ns EXCEPT ![u[1] + 1].risk = u[2], ![u[1] + 1].last_seen = Max({@, u[3]})]

(* Risk updates first, then the nodes that are new. *)
UpdatedNodes(base, delta, n) ==
  LET resized == [i \in 1..n |-> IF i <= base.num_nodes THEN base.node_props[i]
                                 ELSE default_node_props]
      updated[k \in 0..Len(delta.risk_updates)] ==
        IF k = 0 THEN resized ELSE RiskUpdated(updated[k - 1], delta.risk_updates[k])
      added[k \in 0..Len(delta.new_nodes)] ==
        IF k = 0 THEN updated[Len(delta.risk_updates)]
        ELSE [added[k - 1] EXCEPT ![delta.new_nodes[k][1] + 1] = delta.new_nodes[k][2]]
  IN added[Len(delta.new_nodes)]

DeltaIds(delta) ==
  {u[1] : u \in Range(delta.new_nodes)} \cup {u[1] : u \in Range(delta.risk_updates)}
    \cup UNION {{e[1], e[2]} : e \in Range(delta.new_edges)}

rebuild_csr(base, delta) ==
  LET n == Max({base.num_nodes} \cup {v + 1 : v \in DeltaIds(delta)})
  IN FromRows([i \in 1..n |-> MergedRow(RowEntries(base, delta.new_edges, i - 1), i - 1)],
              UpdatedNodes(base, delta, n))

----------------------------------------------------------------------------
(* The dump. *)

(* Dumped are the edges of the snapshot and the recent events, whether or  *)
(* not those have been merged, and the nodes of both.                      *)
build_graph_dump_payload(g) ==
  LET s == g.snapshot
      sources == {v \in 0..(s.num_nodes - 1) : neighbors(s, v) # <<>>}
  IN [nodes |-> sources \cup Range(s.adjacency)
                  \cup UNION {{e.source, e.target} : e \in Range(g.recent_events)},
      graph_edges |-> Len(s.adjacency), event_edges |-> Len(g.recent_events)]

(* Reading a node the snapshot does not have is an index out of bounds. *)
Panics(g) == \E v \in build_graph_dump_payload(g).nodes : v >= g.snapshot.num_nodes

DumpDue(g) == g.since_dump = Never \/ g.since_dump >= DumpInterval

(* The graph after the attempt to dump it, and whether that panicked.      *)
(* Dumps are "off", or the disk "takes" or "refuses" them; after a refusal *)
(* the next one is due at once.                                            *)
maybe_dump(g, dump) ==
  IF dump = "off" \/ ~DumpDue(g) THEN [graph |-> g, panicked |-> FALSE]
  ELSE [graph |-> IF dump = "refuses" THEN g ELSE [g EXCEPT !.since_dump = 0],
        panicked |-> Panics(g)]

----------------------------------------------------------------------------
(* The writer. *)

target_label(kind) ==
  CASE kind = 1 -> "Process" [] kind = 2 -> "File" [] kind \in {3, 5, 7} -> "NetworkEndpoint"
    [] kind = 6 -> "DomainName" [] OTHER -> "Host"
edge_kind(kind) ==
  CASE kind = 1 -> "Spawned" [] kind = 2 -> "ReadFile" [] kind \in {3, 5} -> "ConnectedTo"
    [] kind = 6 -> "ResolvedDns" [] OTHER -> "DataFlow"

SourceKey(e) == <<"Process", e.pid>>
TargetKey(e) == <<target_label(e.kind), IF e.kind \in {3, 5, 7} /\ e.ip # 0 THEN e.ip ELSE e.dst>>

(* The vertex of a key, new ones while there is room for them. *)
resolve_vertex(g, key, e) ==
  IF key \in DOMAIN g.vertex_index
  THEN [graph |-> [g EXCEPT !.delta.risk_updates =
                     Append(@, <<g.vertex_index[key], e.risk, e.ts>>)],
        id |-> g.vertex_index[key]]
  ELSE IF g.next_vertex_id >= MaxNodes THEN [graph |-> g, id |-> NoVertex]
  ELSE [graph |-> [g EXCEPT !.vertex_index = [k \in DOMAIN @ \cup {key} |->
                                                IF k = key THEN g.next_vertex_id ELSE @[k]],
                            !.next_vertex_id = @ + 1,
                            !.delta.new_nodes =
                              Append(@, <<g.next_vertex_id,
                                          [first_seen |-> e.ts, last_seen |-> e.ts,
                                           risk |-> e.risk, label |-> key[1]]>>)],
        id |-> g.next_vertex_id]

record_event(g, e, source, target) ==
  [g EXCEPT !.recent_events =
              LET all == Append(@, [source |-> source, target |-> target,
                                    span |-> g.next_span_id,
                                    parent |-> IF e.pid \in DOMAIN g.last_span_by_pid
                                               THEN g.last_span_by_pid[e.pid] ELSE 0])
              IN SubSeq(all, Max({1, Len(all) - MaxDumpEvents + 1}), Len(all)),
            !.last_span_by_pid = [p \in DOMAIN @ \cup {e.pid} |->
                                    IF p = e.pid THEN g.next_span_id ELSE @[p]],
            !.next_span_id = @ + 1]

Linked(g, e, source, target) ==
  record_event([g EXCEPT !.delta.new_edges =
                  Append(@, <<source, target,
                              [ts |-> e.ts, kind |-> edge_kind(e.kind), risk |-> e.risk]>>)],
               e, source, target)

WithTarget(r, e, source) ==
  IF source # NoVertex /\ r.id # NoVertex THEN Linked(r.graph, e, source, r.id) ELSE r.graph
WithSource(r, e) == WithTarget(resolve_vertex(r.graph, TargetKey(e), e), e, r.id)

write_edge(g, e, dump) ==
  maybe_dump(WithSource(resolve_vertex(g, SourceKey(e), e), e), dump)

merge_deltas(g, dump) ==
  maybe_dump(IF g.delta = EmptyDelta THEN g
             ELSE [g EXCEPT !.snapshot = rebuild_csr(@, g.delta), !.delta = EmptyDelta],
             dump)

(* A scheduler period has passed since the last dump. *)
GraphAges(g) ==
  [g EXCEPT !.since_dump = IF @ = Never \/ @ >= DumpInterval THEN @ ELSE @ + 1]
=============================================================================
