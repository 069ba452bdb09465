-------------------------- MODULE CorrelationRules --------------------------
(***************************************************************************)
(* What one rule makes of one event, or of one tuple of joined events, in  *)
(* the ingest server's correlation engine (app/ingest_server/src/          *)
(* correlation: value.rs, event.rs, state.rs, intel.rs, ir.rs and the      *)
(* evaluator half of engine.rs).                                           *)
(*                                                                         *)
(* Values and expressions are tuples headed by their variant, as in        *)
(* OilLowering, whose runtime IR is what the engine loads: a string is a   *)
(* sequence of chunks, a path or an alias the sequence of its segments, a  *)
(* float a fraction <<p, q>> with q > 0.  The memory an evaluation reads   *)
(* and updates (counters, facts) is passed along as a record.              *)
(***************************************************************************)
EXTENDS OilLowering, Integers, Sequences, FiniteSetsExt, SequencesExt, TLC

CONSTANTS
    Numerals,       \* the integers a string may spell
    Addresses,      \* the strings that parse as an IP address
    Lower,          \* chunk -> its lower case, where it differs
    Collation,      \* chunk -> its place in byte order
    Regexes,        \* pattern -> the texts it matches; other patterns are invalid
    StateCapacity,  \* max_capacity_per_shard of the callable state
    Baselines       \* host -> [domains, processes], for the hosts that have one

Null == <<"Null">>
Bool(b) == <<"Bool", b>>
Num(n) == <<"Int", n>>
Str(s) == <<"Str", s>>
Ip(a) == <<"Ip", a>>
IsStr(v) == v[1] = "Str"
BothAre(kind, l, r) == l[1] = kind /\ r[1] = kind

----------------------------------------------------------------------------
(* Values. *)

Digits(n) == <<ToString(n)>>
SpellsInt(s) == \E n \in Numerals : Digits(n) = s
ParseInt(s) == CHOOSE n \in Numerals : Digits(n) = s
LowerCase(s) == [i \in DOMAIN s |-> IF s[i] \in DOMAIN Lower THEN Lower[s[i]] ELSE s[i]]

is_truthy(v) ==
    CASE v[1] = "Null" -> FALSE
      [] v[1] = "Bool" -> v[2]
      [] v[1] = "Int" -> v[2] # 0
      [] v[1] = "Float" -> v[2][1] # 0
      [] v[1] = "DurationNs" -> v[2] > 0
      [] v[1] \in {"Str", "List"} -> v[2] # <<>>
      [] OTHER -> TRUE

RECURSIVE to_key_string(_)
to_key_string(v) ==
    CASE v[1] = "Null" -> <<"\\0null">>
      [] v[1] \in {"Int", "DurationNs"} -> Digits(v[2])
      [] v[1] \in {"Bool", "Float"} -> <<ToString(v[2])>>
      [] v[1] = "List" -> FlattenSeq([i \in DOMAIN v[2] |-> to_key_string(v[2][i]) \o <<"\\1e">>])
      [] OTHER -> v[2]

RECURSIVE to_string_lossy(_)
to_string_lossy(v) ==
    CASE v[1] = "Null" -> <<>>
      [] v[1] = "DurationNs" -> Digits(v[2]) \o <<"ns">>
      [] v[1] = "List" ->
           <<"[">> \o FlattenSeq([i \in DOMAIN v[2] |-> to_string_lossy(v[2][i]) \o <<", ">>]) \o <<"]">>
      [] OTHER -> to_key_string(v)

Fraction(v) == IF v[1] = "Int" THEN <<v[2], 1>> ELSE v[2]
Numeric(l, r) == {l[1], r[1]} \subseteq {"Int", "Float"}

\* Division of i64 truncates towards zero.
Truncated(p, q) ==
    LET Abs(n) == IF n < 0 THEN -n ELSE n
    IN (IF (p < 0) = (q < 0) THEN 1 ELSE -1) * (Abs(p) \div Abs(q))

\* as_i64, "none" where it is None.
as_i64(v) ==
    CASE v[1] \in {"Int", "DurationNs"} -> <<"some", v[2]>>
      [] v[1] = "Float" -> <<"some", Truncated(v[2][1], v[2][2])>>
      [] IsStr(v) /\ SpellsInt(v[2]) -> <<"some", ParseInt(v[2])>>
      [] OTHER -> <<"none">>

op_eq(l, r) ==
    LET Cross(a, b) == \/ a[1] = "Ip" /\ IsStr(b) /\ b[2] \in Addresses /\ b[2] = a[2]
                       \/ a[1] = "Int" /\ IsStr(b) /\ SpellsInt(b[2]) /\ ParseInt(b[2]) = a[2]
    IN \/ l[1] = r[1] /\ l[1] # "Float" /\ l = r
       \/ /\ Numeric(l, r)
          /\ Fraction(l)[1] * Fraction(r)[2] = Fraction(r)[1] * Fraction(l)[2]
       \/ Cross(l, r) \/ Cross(r, l)

\* The byte order of strings.
StrBefore(s, t) ==
    \/ s # t /\ IsPrefix(s, t)
    \/ \E i \in DOMAIN s \cap DOMAIN t :
          /\ SubSeq(s, 1, i - 1) = SubSeq(t, 1, i - 1)
          /\ s[i] # t[i] /\ Collation[s[i]] < Collation[t[i]]

op_lt(l, r) ==
    \/ /\ Numeric(l, r)
       /\ Fraction(l)[1] * Fraction(r)[2] < Fraction(r)[1] * Fraction(l)[2]
    \/ BothAre("DurationNs", l, r) /\ l[2] < r[2]
    \/ BothAre("Str", l, r) /\ StrBefore(l[2], r[2])

op_le(l, r) == op_eq(l, r) \/ op_lt(l, r)
op_gt(l, r) == op_lt(r, l)
op_ge(l, r) == op_eq(l, r) \/ op_gt(l, r)

op_compare(op, l, r) ==
    CASE op = "Eq" -> op_eq(l, r)
      [] op = "Ne" -> ~op_eq(l, r)
      [] op = "Lt" -> op_lt(l, r)
      [] op = "Le" -> op_le(l, r)
      [] op = "Gt" -> op_gt(l, r)
      [] op = "Ge" -> op_ge(l, r)

\* Add, sub, mul and div: integers stay integers, a float makes a float, and
\* what has no meaning is Null.
op_arith(op, l, r) ==
    LET a == Fraction(l)
        b == Fraction(r)
        Positive(p, q) == IF q < 0 THEN <<-p, -q>> ELSE <<p, q>>
        floats == CASE op = "Add" -> <<a[1] * b[2] + b[1] * a[2], a[2] * b[2]>>
                    [] op = "Sub" -> <<a[1] * b[2] - b[1] * a[2], a[2] * b[2]>>
                    [] op = "Mul" -> <<a[1] * b[1], a[2] * b[2]>>
                    [] op = "Div" -> Positive(a[1] * b[2], a[2] * b[1])
        ints == IF op = "Div" THEN Truncated(l[2], r[2]) ELSE floats[1]
    IN CASE Numeric(l, r) /\ op = "Div" /\ b[1] = 0 -> Null
         [] BothAre("Int", l, r) -> Num(ints)
         [] Numeric(l, r) -> <<"Float", floats>>
         [] BothAre("DurationNs", l, r) /\ op = "Add" -> <<"DurationNs", l[2] + r[2]>>
         [] BothAre("DurationNs", l, r) /\ op = "Sub" ->
              <<"DurationNs", IF l[2] > r[2] THEN l[2] - r[2] ELSE 0>>
         [] BothAre("Str", l, r) /\ op = "Add" -> Str(l[2] \o r[2])
         [] OTHER -> Null

op_in(v, items) == \E i \in DOMAIN items : op_eq(items[i], v)

Occurs(needle, s) ==
    \E i \in 0 .. Len(s) - Len(needle) : SubSeq(s, i + 1, i + Len(needle)) = needle

op_string(op, l, r) ==
    CASE op = "Contains" /\ l[1] = "List" -> \E i \in DOMAIN l[2] : op_eq(l[2][i], r)
      [] ~BothAre("Str", l, r) -> FALSE
      [] op = "Contains" -> Occurs(r[2], l[2])
      [] op = "StartsWith" -> IsPrefix(r[2], l[2])
      [] op = "EndsWith" -> IsSuffix(r[2], l[2])

\* glob_match, as what it decides: the chunks between the stars occur in order.
RECURSIVE glob_match(_, _)
glob_match(pattern, text) ==
    CASE pattern = <<>> -> text = <<>>
      [] Head(pattern) = "*" ->
           \E i \in 0 .. Len(text) : glob_match(Tail(pattern), SubSeq(text, i + 1, Len(text)))
      [] text = <<>> -> FALSE
      [] OTHER -> Head(pattern) \in {"?", Head(text)} /\ glob_match(Tail(pattern), Tail(text))

op_matches(v, pattern) ==
    IsStr(v) /\
      (\/ {"*", "?"} \cap ToSet(pattern) # {} /\ glob_match(pattern, v[2])
       \/ IF pattern \in DOMAIN Regexes THEN v[2] \in Regexes[pattern] ELSE Occurs(pattern, v[2]))
----------------------------------------------------------------------------
(* Events.  An event is [tenant, host, batch, ts, kind, data]; `data' holds *)
(* the family's fields as values and the agent's attributes.                *)

CONSTANTS MAX_EVENT_TS_LAG_MS, MAX_EVENT_TS_LEAD_MS

NoStamp == -1

\* The agent's stamp, if it sent one and it is near enough to the arrival.
resolve_event_ts(agent_ts, arrival) ==
    IF /\ agent_ts # NoStamp
       /\ agent_ts >= arrival - MAX_EVENT_TS_LAG_MS
       /\ agent_ts <= arrival + MAX_EVENT_TS_LEAD_MS
    THEN agent_ts ELSE arrival

get_attr_or_nested(attrs, path) ==
    CASE path \notin DOMAIN attrs -> Null
      [] SpellsInt(attrs[path]) -> Num(ParseInt(attrs[path]))
      [] attrs[path] \in {<<"true">>, <<"false">>} -> Bool(attrs[path] = <<"true">>)
      [] OTHER -> Str(attrs[path])

\* The first of the keys the attributes have.
get_attr_str(attrs, keys) ==
    LET found == SelectSeq(keys, LAMBDA k : k \in DOMAIN attrs)
    IN IF found = <<>> THEN Null ELSE Str(attrs[found[1]])

get_attr_number(attrs, key, default) ==
    IF key \in DOMAIN attrs /\ SpellsInt(attrs[key]) THEN Num(ParseInt(attrs[key])) ELSE default

\* A table of field names: the paths that name each field.
Names(table, path) == {f \in DOMAIN table : path \in table[f]}
TheName(table, path) == CHOOSE f \in DOMAIN table : path \in table[f]

ProcessFields ==
    [pid |-> {<<"pid">>, <<"process", "pid">>, <<"id">>, <<"process_id">>},
     ppid |-> {<<"ppid">>, <<"process", "ppid">>, <<"parent", "pid">>, <<"parent", "id">>},
     tgid |-> {<<"tgid">>, <<"process", "tgid">>},
     uid |-> {<<"uid">>, <<"process", "uid">>, <<"user", "uid">>},
     gid |-> {<<"gid">>, <<"process", "gid">>},
     comm |-> {<<"name">>, <<"comm">>, <<"process", "name">>, <<"process", "comm">>},
     filename |-> {<<"filename">>, <<"binary", "path">>, <<"binary", "filename">>,
                   <<"process", "binary", "filename">>}]

get_process_field(p, path) ==
    CASE Names(ProcessFields, path) # {} -> p[TheName(ProcessFields, path)]
      [] path = <<"elevated">> -> Bool(p.uid = Num(0))
      [] OTHER -> get_attr_or_nested(p.attrs, path)

ActorFields ==
    [tgid |-> {<<"tgid">>}, uid |-> {<<"uid">>}, gid |-> {<<"gid">>},
     comm |-> {<<"comm">>, <<"process_name">>}]

FileFields ==
    [pid |-> {<<"pid">>, <<"process_id">>, <<"file", "process_id">>},
     path |-> {<<"path">>, <<"file", "path">>},
     operation |-> {<<"mode">>, <<"operation">>, <<"file", "mode">>, <<"file", "operation">>}]
     @@ ActorFields

get_file_field(f, path) ==
    IF Names(FileFields, path) # {} THEN f[TheName(FileFields, path)]
    ELSE get_attr_or_nested(f.attrs, path)

NetFields ==
    [pid |-> {<<"pid">>, <<"process_id">>, <<"network", "process_id">>},
     direction |-> {<<"direction">>, <<"network", "direction">>},
     protocol |-> {<<"protocol">>, <<"proto">>, <<"network", "protocol">>},
     src_ip |-> {<<"src_ip">>, <<"network", "src_ip">>},
     dst_ip |-> {<<"dst_ip">>, <<"dest", "ip">>, <<"dest_ip">>, <<"network", "dest", "ip">>,
                 <<"network", "dst_ip">>},
     src_port |-> {<<"src_port">>, <<"network", "src_port">>},
     dst_port |-> {<<"dst_port">>, <<"dest", "port">>, <<"dest_port">>,
                   <<"network", "dest", "port">>, <<"network", "dst_port">>}]
     @@ ActorFields

\* What a net event carries in its attributes: traffic counters, the peer's
\* name, and the DNS and TLS telemetry that rides on net events.
NetAttributes ==
    [bytes_out |-> {<<"bytes_out">>, <<"network", "bytes_out">>},
     bytes_in |-> {<<"bytes_in">>, <<"network", "bytes_in">>},
     domain |-> {<<"dest", "domain">>, <<"domain">>, <<"network", "dest", "domain">>},
     reputation |-> {<<"dest", "reputation">>, <<"reputation">>, <<"network", "dest", "reputation">>},
     dns_query |-> {<<"domain", "value">>, <<"dns", "domain", "value">>},
     ssl_operation |-> {<<"operation">>, <<"ssl", "operation">>},
     ssl_data_len |-> {<<"data_len">>, <<"ssl", "data_len">>}]

get_net_field(n, path) ==
    LET attribute == TheName(NetAttributes, path)
        op == get_attr_str(n.attrs, <<<<"ssl_operation">>>>)
        Address(v) == IF IsStr(v) /\ v[2] \in Addresses THEN Ip(v[2]) ELSE v
    IN CASE Names(NetFields, path) \cap {"src_ip", "dst_ip"} # {} -> Address(n[TheName(NetFields, path)])
         [] Names(NetFields, path) # {} -> n[TheName(NetFields, path)]
         [] Names(NetAttributes, path) = {} -> get_attr_or_nested(n.attrs, path)
         [] attribute \in {"bytes_out", "bytes_in"} -> get_attr_number(n.attrs, <<attribute>>, Num(0))
         [] attribute \in {"domain", "reputation"} ->
              get_attr_str(n.attrs, <<<<"dest", attribute>>, <<attribute>>>>)
         [] attribute = "dns_query" -> get_attr_str(n.attrs, <<<<"dns_query">>>>)
         [] attribute = "ssl_data_len" -> get_attr_number(n.attrs, <<"ssl_data_len">>, Null)
         [] op = Str(<<"encrypt">>) -> Num(0)
         [] op = Str(<<"decrypt">>) -> Num(1)
         [] OTHER -> Null

DbQueryFields ==
    [pid |-> {<<"pid">>, <<"process_id">>, <<"db", "process_id">>},
     db_engine |-> {<<"db_engine">>, <<"engine">>, <<"db", "engine">>},
     db_server |-> {<<"db_server">>, <<"server">>, <<"db", "server">>},
     database |-> {<<"database">>, <<"db", "database">>},
     operation |-> {<<"operation">>, <<"db", "operation">>},
     statement_fingerprint |-> {<<"statement_fingerprint">>, <<"fingerprint">>, <<"query_hash">>},
     tables |-> {<<"tables">>, <<"db", "tables">>}]
     @@ ActorFields

get_db_query_field(q, path) ==
    IF Names(DbQueryFields, path) # {} THEN q[TheName(DbQueryFields, path)]
    ELSE get_attr_or_nested(q.attrs, path)

HeartbeatFields ==
    [agent_version |-> {<<"agent_version">>, <<"heartbeat", "agent_version">>},
     kernel_version |-> {<<"kernel_version">>, <<"heartbeat", "kernel_version">>},
     events_read_total |-> {<<"events_read_total">>},
     events_dropped_total |-> {<<"events_dropped_total">>},
     queue_depth |-> {<<"queue_depth">>}]

get_heartbeat_field(h, path) ==
    IF Names(HeartbeatFields, path) # {} THEN h[TheName(HeartbeatFields, path)]
    ELSE get_attr_or_nested(h.attrs, path)

FamilyField(e, path) ==
    CASE e.kind = "ProcessExec" -> get_process_field(e.data, path)
      [] e.kind = "File" -> get_file_field(e.data, path)
      [] e.kind = "Net" -> get_net_field(e.data, path)
      [] e.kind = "DbQuery" -> get_db_query_field(e.data, path)
      [] e.kind = "AgentHeartbeat" -> get_heartbeat_field(e.data, path)

\* The field a path names, the alias in front of it removed (<<>>: no alias).
get_field(e, path, alias) ==
    LET clean == IF alias # <<>> /\ IsStrictPrefix(alias, path)
                 THEN SubSeq(path, Len(alias) + 1, Len(path)) ELSE path
    IN CASE clean \in {<<"tenant_id">>, <<"tenant">>} -> Str(<<e.tenant>>)
         [] clean \in {<<"host_id">>, <<"host", "id">>, <<"p", "host_id">>} -> Str(<<e.host>>)
         [] clean = <<"batch_id">> -> IF e.batch = "" THEN Null ELSE Str(<<e.batch>>)
         [] clean \in {<<"ts">>, <<"timestamp">>, <<"ts_unix_ms">>} -> Num(e.ts)
         [] clean \in {<<"event_type">>, <<"event_kind">>, <<"kind">>} -> Str(<<e.kind>>)
         [] OTHER -> FamilyField(e, clean)

\* The fields an event is identified by, next to its kind, host and time.
IdentityFields ==
    [ProcessExec |-> {"pid", "ppid", "comm", "filename"},
     File |-> {"pid", "operation", "path"},
     Net |-> {"pid", "protocol", "direction", "dst_ip", "dst_port"},
     DbQuery |-> {"pid", "db_engine", "operation", "database", "statement_fingerprint"},
     AgentHeartbeat |-> {"agent_version", "kernel_version"}]

identity_key(e) ==
    <<e.kind, e.host, e.ts, [f \in IdentityFields[e.kind] |-> e.data[f]]>>

----------------------------------------------------------------------------
(* What evaluations remember: the counters of rare, unusual and rate, in one *)
(* shard, and the facts rules have emitted.                                  *)

CONSTANTS NsPerUs, DefaultRateMs, RareThreshold

NoMemory == [rare |-> <<>>, unusual |-> {}, rates |-> <<>>, order |-> <<>>, facts |-> <<>>]

UnitMs == [Ms |-> 1, S |-> 1000, M |-> 60000, H |-> 3600000, D |-> 86400000]

to_nanos(d) ==
    CASE d[3] = "Ns" -> d[2]
      [] d[3] = "Us" -> d[2] * NsPerUs
      [] OTHER -> d[2] * UnitMs[d[3]] * 1000 * NsPerUs

to_millis(d) ==
    LET AtLeastOne(n) == IF n < 1 THEN 1 ELSE n
    IN CASE d[3] = "Ns" -> AtLeastOne(d[2] \div (1000 * NsPerUs))
         [] d[3] = "Us" -> AtLeastOne(d[2] \div 1000)
         [] OTHER -> d[2] * UnitMs[d[3]]

Without(f, k) == [x \in DOMAIN f \ {k} |-> f[x]]

\* Only rare and unusual count against the capacity; the oldest key of any
\* kind makes room.
RECURSIVE maybe_evict_shard(_)
maybe_evict_shard(m) ==
    IF Cardinality(DOMAIN m.rare) + Cardinality(m.unusual) <= StateCapacity \/ m.order = <<>>
    THEN m
    ELSE LET key == Head(m.order)[2]
             kind == Head(m.order)[1]
             popped == [m EXCEPT !.order = Tail(@)]
         IN maybe_evict_shard(
              CASE kind = "Rare" -> [popped EXCEPT !.rare = Without(@, key)]
                [] kind = "Unusual" -> [popped EXCEPT !.unusual = @ \ {key}]
                [] kind = "Rate" -> [popped EXCEPT !.rates = Without(@, key)])

\* A new key goes to the end of the order and may push out an old one.
Track(m, kind, key) == maybe_evict_shard([m EXCEPT !.order = Append(@, <<kind, key>>)])

eval_rare(m, tenant, value) ==
    LET key == <<tenant, "default", value>>
        count == IF key \in DOMAIN m.rare THEN m.rare[key] + 1 ELSE 1
        counted == [m EXCEPT !.rare = (key :> count) @@ @]
    IN [v |-> Bool(count <= RareThreshold),
        m |-> IF count = 1 THEN Track(counted, "Rare", key) ELSE counted]

eval_unusual(m, tenant, entity, value) ==
    LET key == <<tenant, "default", entity, value>>
    IN IF key \in m.unusual THEN [v |-> Bool(FALSE), m |-> m]
       ELSE [v |-> Bool(TRUE), m |-> Track([m EXCEPT !.unusual = @ \cup {key}], "Unusual", key)]

RECURSIVE DropBefore(_, _)
DropBefore(times, cutoff) ==
    IF times # <<>> /\ Head(times) < cutoff THEN DropBefore(Tail(times), cutoff) ELSE times

eval_rate(m, tenant, value, window, now) ==
    LET key == <<tenant, "default", value, window>>
        new == key \notin DOMAIN m.rates
        cutoff == IF now > window THEN now - window ELSE 0
        times == Append(IF new THEN <<>> ELSE DropBefore(m.rates[key], cutoff), now)
        counted == [m EXCEPT !.rates = (key :> times) @@ @]
    IN [v |-> Num(Len(times)), m |-> IF new THEN Track(counted, "Rate", key) ELSE counted]

NeverExpires == -1

is_expired(expires, now) == expires # NeverExpires /\ now >= expires

emit_fact(m, tenant, name, args, ttl, now) ==
    LET expires == IF ttl = None THEN NeverExpires ELSE now + to_millis(ttl)
    IN [m EXCEPT !.facts = (<<tenant, name, args>> :> expires) @@ @]

\* `target' is <<>> when the rule names none.
has_fact(m, tenant, name, target, now) ==
    \E f \in DOMAIN m.facts :
        /\ f[1] = tenant /\ f[2] = name /\ ~is_expired(m.facts[f], now)
        /\ target # <<>> => target[1] \in ToSet(f[3])

\* check_host_domain_baseline, check_host_process_baseline.
check_host_baseline(host, part, value) ==
    host \in DOMAIN Baselines => value \in Baselines[host][part]

----------------------------------------------------------------------------
(* Expressions.  `c' is the context: the events by alias, the order in     *)
(* which the map of events is walked, tenant, clock and threat intel.      *)

\* The first event, as the map is walked, that has a value for the path.
HitsOf(path, c) == SelectSeq(c.order, LAMBDA a : get_field(c.env[a], path, a) # Null)
FirstHit(path, c, hits) == IF hits = <<>> THEN Null ELSE get_field(c.env[hits[1]], path, hits[1])

\* A let, the event of the alias in front, or the first event with a value.
eval_field(path, c, lets) ==
    CASE path \in DOMAIN lets -> lets[path]
      [] Len(path) > 1 /\ <<path[1]>> \in DOMAIN c.env -> get_field(c.env[<<path[1]>>], Tail(path), <<>>)
      [] OTHER -> FirstHit(path, c, HitsOf(path, c))

IsExternalSet(rhs) == Len(rhs) = 1 /\ rhs[1][1] = "Field" /\ Len(rhs[1][2]) > 1 /\ rhs[1][2][1] = "org"

\* contains_str and contains_ip.
in_threat_intel(v, name, intel) ==
    /\ name \in DOMAIN intel
    /\ \/ IsStr(v) /\ intel[name].type # "ip" /\ LowerCase(v[2]) \in intel[name].items
       \/ v[1] = "Ip" /\ intel[name].type = "ip" /\ v[2] \in intel[name].items

string_set_items(name, intel) ==
    IF name \in DOMAIN intel /\ intel[name].type # "ip" THEN SetToSeq(intel[name].items) ELSE <<>>

RECURSIVE eval_expr(_, _, _, _)

\* The values of a list of expressions, left to right.
Collect(acc, x) == [v |-> Append(acc.v, x.v), m |-> x.m]
eval_all(es, c, lets, m) ==
    FoldLeft(LAMBDA acc, e : Collect(acc, eval_expr(e, c, lets, acc.m)), [v |-> <<>>, m |-> m], es)

\* A call evaluates the arguments it takes and no more.
Arity == [rare |-> 1, unusual |-> 2, rate |-> 2, has_fact |-> 2, fact |-> 2, len |-> 1, count |-> 1,
          host_domain_baseline |-> 2, host_process_baseline |-> 2] @@ ("intel.domains" :> 1)
Taken(name, args) ==
    IF name \in DOMAIN Arity THEN SubSeq(args, 1, Min({Arity[name], Len(args)})) ELSE <<>>

WindowNs(n) == IF n[1] = "some" THEN n[2] ELSE DefaultRateMs * 1000 * NsPerUs
StrList(items) == <<"List", [i \in DOMAIN items |-> Str(items[i])]>>

\* The calls that count, and those that only look.
Counting(name, text, done, c) ==
    CASE name = "rare" -> eval_rare(done.m, c.tenant, text[1])
      [] name = "unusual" -> eval_unusual(done.m, c.tenant, text[1], text[2])
      [] name = "rate" -> eval_rate(done.m, c.tenant, text[1], WindowNs(as_i64(done.v[2])),
                                    c.now * 1000 * NsPerUs)
Looking(name, text, done, c) ==
    CASE name = "intel.domains" ->
           StrList(string_set_items(<<"org", "threat_intel">> \o text[1], c.intel))
      [] name \in {"has_fact", "fact"} ->
           Bool(has_fact(done.m, c.tenant, text[1], Tail(text), c.clock))
      [] name = "host_domain_baseline" -> Bool(check_host_baseline(text[1], "domains", text[2]))
      [] name = "host_process_baseline" -> Bool(check_host_baseline(text[1], "processes", text[2]))
      [] name \in {"len", "count"} ->
           Num(IF done.v[1][1] \in {"List", "Str"} THEN Len(done.v[1][2]) ELSE 0)
Called(name, text, done, c) ==
    IF name \in {"rare", "unusual", "rate"} THEN Counting(name, text, done, c)
    ELSE [v |-> Looking(name, text, done, c), m |-> done.m]

\* A missing argument is Null; has_fact alone tells one from the other.
Padded(name, done) ==
    [v |-> [i \in 1 .. IF name \in {"has_fact", "fact"} THEN Max({1, Len(done.v)}) ELSE Arity[name] |->
              IF i \in DOMAIN done.v THEN done.v[i] ELSE Null],
     m |-> done.m]
WithTexts(name, done, c) ==
    Called(name, [i \in DOMAIN done.v |-> to_string_lossy(done.v[i])], done, c)

eval_call(name, args, c, lets, m) ==
    IF name \notin DOMAIN Arity THEN [v |-> Null, m |-> m]
    ELSE WithTexts(name, Padded(name, eval_all(Taken(name, args), c, lets, m)), c)

\* A set of the threat intel, a list, or the items.
InItems(target, items) ==
    [v |-> Bool(op_in(target, IF Len(items.v) = 1 /\ items.v[1][1] = "List" THEN items.v[1][2]
                              ELSE items.v)), m |-> items.m]
InTarget(target, rhs, c, lets) ==
    IF IsExternalSet(rhs) THEN [v |-> Bool(in_threat_intel(target.v, rhs[1][2], c.intel)), m |-> target.m]
    ELSE InItems(target.v, eval_all(rhs, c, lets, target.m))
eval_in(e, c, lets, m) == InTarget(eval_expr(e[2], c, lets, m), e[3], c, lets)

\* The second operand of And and Or counts only where the first leaves it open.
AsBool(x) == [v |-> Bool(is_truthy(x.v)), m |-> x.m]
Shortcut(l, open, e, c, lets) ==
    IF is_truthy(l.v) = open THEN AsBool(eval_expr(e, c, lets, l.m)) ELSE AsBool(l)

Operands(e) == CASE e[1] = "List" -> e[2]
                 [] e[1] \in {"Not", "Matches", "Project"} -> <<e[2]>>
                 [] OTHER -> <<e[2], e[3]>>
\* What an operator makes of the values of its operands.
Applied(e, v) ==
    CASE e[1] = "List" -> <<"List", v>>
      [] e[1] = "Not" -> Bool(~is_truthy(v[1]))
      [] e[1] \in Cmps -> Bool(op_compare(e[1], v[1], v[2]))
      [] e[1] \in Ariths -> op_arith(e[1], v[1], v[2])
      [] e[1] \in StringOps -> Bool(op_string(e[1], v[1], v[2]))
      [] e[1] = "Matches" -> Bool(op_matches(v[1], e[3]))
      [] e[1] = "Project" -> IF \/ IsStr(v[1]) /\ e[3] \in {"len", "length"}
                                \/ v[1][1] = "List" /\ e[3] \in {"len", "count"}
                             THEN Num(Len(v[1][2])) ELSE Null
Apply(e, done) == [v |-> Applied(e, done.v), m |-> done.m]

eval_expr(e, c, lets, m) ==
    CASE e[1] \in {"Bool", "Null", "Int", "Float", "Str"} -> [v |-> e, m |-> m]
      [] e[1] = "Duration" -> [v |-> <<"DurationNs", to_nanos(e)>>, m |-> m]
      [] e[1] = "Field" -> [v |-> eval_field(e[2], c, lets), m |-> m]
      [] e[1] \in {"And", "Or"} -> Shortcut(eval_expr(e[2], c, lets, m), e[1] = "And", e[3], c, lets)
      [] e[1] = "In" -> eval_in(e, c, lets, m)
      [] e[1] = "Call" -> eval_call(e[2], e[3], c, lets, m)
      [] e[1] \in {"List", "Not", "Matches", "Project"} \cup Cmps \cup Ariths \cup StringOps ->
           Apply(e, eval_all(Operands(e), c, lets, m))
      [] OTHER -> [v |-> Null, m |-> m]

----------------------------------------------------------------------------
(* Rules. *)

\* The conjuncts hold one after the other; the first that fails ends it.
AsTruth(x) == [v |-> is_truthy(x.v), m |-> x.m]
eval_conjuncts(es, c, lets, m) ==
    FoldLeft(LAMBDA acc, e : IF acc.v THEN AsTruth(eval_expr(e, c, lets, acc.m)) ELSE acc,
             [v |-> TRUE, m |-> m], es)

BindLet(acc, name, x) == [v |-> (<<name>> :> x.v) @@ acc.v, m |-> x.m]
eval_lets(bindings, c, m) ==
    FoldLeft(LAMBDA acc, b : BindLet(acc, b.name, eval_expr(b.value, c, acc.v, acc.m)),
             [v |-> <<>>, m |-> m], bindings)

\* An absent condition holds.
eval_condition(cond, c, lets, m) ==
    IF cond = None THEN [v |-> TRUE, m |-> m] ELSE AsTruth(eval_expr(cond, c, lets, m))

AddDelta(acc, delta, x) == [v |-> IF x.v THEN acc.v + delta ELSE acc.v, m |-> x.m]
eval_score(plan, c, lets, m) ==
    FoldLeft(LAMBDA acc, mod : AddDelta(acc, mod.delta, eval_condition(mod.condition, c, lets, acc.m)),
             [v |-> plan.base, m |-> m], plan.modifiers)

DefaultAlert(score) ==
    <<CASE score >= 80 -> "alert critical" [] score >= 60 -> "alert high" [] OTHER -> "alert medium">>

\* The actions of the first branch that holds, the score bound as a let.
ActionsIf(x, actions) == [v |-> IF x.v THEN <<actions>> ELSE <<>>, m |-> x.m]
FirstBranch(branches, c, lets, m) ==
    FoldLeft(LAMBDA acc, b : IF acc.v # <<>> THEN acc
                             ELSE ActionsIf(eval_condition(b.condition, c, lets, acc.m), b.actions),
             [v |-> <<>>, m |-> m], branches)

OrDefault(chosen, score) ==
    [v |-> IF chosen.v \in {<<>>, <<<<>>>>} THEN DefaultAlert(score) ELSE chosen.v[1], m |-> chosen.m]
resolve_actions(respond, c, lets, score, m) ==
    OrDefault(FirstBranch(respond, c, (<<"score">> :> Num(score)) @@ lets, m), score)

EmitWith(e, args, c) ==
    emit_fact(args.m, c.tenant, <<e.fact>>, [i \in DOMAIN args.v |-> to_string_lossy(args.v[i])],
              e.expires, c.clock)
emit_facts(emits, c, lets, m) ==
    FoldLeft(LAMBDA acc, e : EmitWith(e, eval_all(e.args, c, lets, acc), c), m, emits)

\* Mutant: the identities are taken in the order the map gives them.
UnsortedId(rule_id, tenant, identities) == <<rule_id, tenant, identities>>

\* The identities are sorted before they are hashed: only how often each one
\* occurs matters.  The hash is taken to be injective.
derive_id(rule_id, tenant, identities) ==
    <<rule_id, tenant, [i \in ToSet(identities) |-> Cardinality({n \in DOMAIN identities : identities[n] = i})]>>

\* What follows once the predicates hold: requirements, score, facts, actions
\* and the alert (<<>>: none).
Raise(rule, identities, c, score, actions) ==
    [alerts |-> <<[id |-> derive_id(rule.id, c.tenant, identities), rule |-> rule.id,
                   tenant |-> c.tenant, host |-> c.host, score |-> score, actions |-> actions.v,
                   env |-> c.env]>>, m |-> actions.m]
AfterScore(rule, identities, c, lets, score) ==
    Raise(rule, identities, c, score.v,
          resolve_actions(rule.respond, c, lets, score.v, emit_facts(rule.emit, c, lets, score.m)))
AfterRequire(rule, identities, c, lets, required) ==
    IF required.v THEN AfterScore(rule, identities, c, lets, eval_score(rule.score, c, lets, required.m))
    ELSE [alerts |-> <<>>, m |-> required.m]
AfterLets(rule, identities, c, lets) ==
    AfterRequire(rule, identities, c, lets.v, eval_conjuncts(rule.require, c, lets.v, lets.m))
conclude(rule, identities, c, m) == AfterLets(rule, identities, c, eval_lets(rule.lets, c, m))
============================================================================
