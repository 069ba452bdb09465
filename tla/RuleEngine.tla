----------------------------- MODULE RuleEngine -----------------------------
(***************************************************************************)
(* The agent's interpreter of the runtime IR                               *)
(* (agent/agent/src/runtime_ir.rs): values, field lookup, expressions, the *)
(* callables that remember what they have seen, and the evaluation of the  *)
(* rules of an artifact on one event.                                      *)
(*                                                                         *)
(* A value is <<"null">>, <<"bool", b>>, <<"num", p, q>> (the reduced      *)
(* fraction p/q), <<"str", s>>, <<"ip", n>>, <<"list", items>> or          *)
(* <<"obj", fields>>; a string is a sequence of characters.  The unit of   *)
(* time is one second.  An evaluation yields <<result, state>>.            *)
(***************************************************************************)
EXTENDS OilLowering
LOCAL INSTANCE Integers
LOCAL INSTANCE Sequences
LOCAL INSTANCE FiniteSets
LOCAL INSTANCE FiniteSetsExt
LOCAL INSTANCE SequencesExt
LOCAL INSTANCE Functions
LOCAL INSTANCE TLC

CONSTANTS max_entries,       \* tracked keys kept by the callables
          checkpoint_every,  \* mutations between two checkpoints
          World              \* what the host answers, see MCOilRules

Null == <<"null">>
Bool(b) == <<"bool", b>>
Num(n) == <<"num", n, 1>>
Str(s) == <<"str", s>>
ListOf(items) == <<"list", items>>

RECURSIVE Gcd(_, _)
Gcd(a, b) == IF b = 0 THEN a ELSE Gcd(b, a % b)
Abs(n) == IF n < 0 THEN -n ELSE n
Ratio(p, q) == LET g == Gcd(Abs(p), Abs(q)) * (IF q < 0 THEN -1 ELSE 1)
               IN <<"num", p \div g, q \div g>>

----------------------------------------------------------------------------
(* Conversions. *)

Lower(s) == [i \in DOMAIN s |-> IF s[i] \in DOMAIN World.lower
                                THEN World.lower[s[i]] ELSE s[i]]
RECURSIVE Trim(_)
Trim(s) == CASE s = <<>> -> s
             [] s[1] = " " -> Trim(Tail(s))
             [] s[Len(s)] = " " -> Trim(SubSeq(s, 1, Len(s) - 1))
             [] OTHER -> s

RECURSIVE Digits(_)
Digits(n) == LET d == <<"0", "1", "2", "3", "4", "5", "6", "7", "8", "9">>
             IN IF n < 10 THEN <<d[n + 1]>>
                ELSE Append(Digits(n \div 10), d[(n % 10) + 1])

NumText(p, q) == (IF p < 0 THEN <<"-">> ELSE <<>>) \o Digits(Abs(p))
                   \o (IF q = 1 THEN <<>> ELSE <<"/">> \o Digits(q))

(* A number <<p, q>>, or <<>> for what is none. *)
to_number(v) ==
  CASE v[1] = "num" -> <<v[2], v[3]>>
    [] v[1] = "bool" -> <<IF v[2] THEN 1 ELSE 0, 1>>
    [] v[1] = "ip" -> <<v[2], 1>>
    [] v[1] = "str" /\ v[2] \in DOMAIN World.numbers -> <<World.numbers[v[2]], 1>>
    [] OTHER -> <<>>

RECURSIVE to_string(_)
to_string(v) ==
  CASE v[1] = "str" -> v[2]
    [] v[1] = "num" -> NumText(v[2], v[3])
    [] v[1] = "ip" -> World.ip_text[v[2]]
    [] v[1] = "bool" -> IF v[2] THEN <<"t", "r", "u", "e">>
                        ELSE <<"f", "a", "l", "s", "e">>
    [] v[1] = "list" ->
         LET sep(i) == IF i = 1 THEN <<>> ELSE <<",", " ">>
         IN <<"[">> \o FlattenSeq([i \in DOMAIN v[2] |-> sep(i) \o to_string(v[2][i])])
              \o <<"]">>
    [] OTHER -> <<>>

value_as_bool(v) ==
  CASE v[1] = "bool" -> v[2]
    [] v[1] \in {"num", "ip"} -> v[2] # 0
    [] v[1] \in {"str", "list"} -> v[2] # <<>>
    [] v[1] = "obj" -> DOMAIN v[2] # {}
    [] OTHER -> FALSE

parse_ipv4_literal(s) ==
  IF Trim(s) \in DOMAIN World.ip_literals THEN {World.ip_literals[Trim(s)]} ELSE {}

value_as_ipv4(v) == CASE v[1] = "ip" -> {v[2]}
                      [] v[1] = "str" -> parse_ipv4_literal(v[2])
                      [] OTHER -> {}

looks_like_domain_name(s) == Lower(Trim(s)) \in World.domain_like

(* The A records of a name, as the resolver (or its cache) gives them. *)
domain_matches_ip(domain, ip) ==
  domain \in DOMAIN World.resolved /\ ip \in World.resolved[domain]

values_equal(l, r) ==
  LET a == value_as_ipv4(l)
      b == value_as_ipv4(r)
      text == IF l[1] = "str" THEN l[2] ELSE r[2]
      ip == IF l[1] = "ip" THEN l[2] ELSE r[2]
  IN CASE a # {} /\ b # {} -> a = b
       [] {l[1], r[1]} = {"ip", "str"} ->
            looks_like_domain_name(text) /\ domain_matches_ip(text, ip)
       [] OTHER -> l = r

duration_to_ns(n, unit) ==
  CASE unit = "Ms" -> Ratio(n, 1000) [] unit = "S" -> Num(n)
    [] unit = "M" -> Num(60 * n)     [] unit = "H" -> Num(3600 * n)
    [] unit = "D" -> Num(86400 * n)

----------------------------------------------------------------------------
(* `matches`. *)

(* The parts of `(a|b)`, the escapes of each resolved; <<>> unless there   *)
(* are two or more.                                                        *)
parse_grouped_alternation(pattern) ==
  LET p == Trim(pattern)
      Step(acc, ch) ==
        CASE acc.esc -> [acc EXCEPT !.cur = Append(@, ch), !.esc = FALSE]
          [] ~acc.esc /\ ch = "\\" -> [acc EXCEPT !.esc = TRUE]
          [] ~acc.esc /\ ch = "|" -> [acc EXCEPT !.parts = Append(@, acc.cur),
                                                 !.cur = <<>>]
          [] OTHER -> [acc EXCEPT !.cur = Append(@, ch)]
      end == FoldLeft(Step, [parts |-> <<>>, cur |-> <<>>, esc |-> FALSE],
                      SubSeq(p, 2, Len(p) - 1))
      last == IF end.esc THEN Append(end.cur, "\\") ELSE end.cur
  IN IF p # <<>> /\ p[1] = "(" /\ p[Len(p)] = ")" /\ end.parts # <<>>
     THEN Append(end.parts, last) ELSE <<>>

RECURSIVE unescape_pattern_part(_)
unescape_pattern_part(s) ==
  CASE Len(s) < 2 -> s
    [] s[1] = "\\" -> <<s[2]>> \o unescape_pattern_part(SubSeq(s, 3, Len(s)))
    [] OTHER -> <<s[1]>> \o unescape_pattern_part(Tail(s))

(* One pass with the position after the last star to fall back to.         *)
RECURSIVE WildcardScan(_, _, _, _, _, _)
WildcardScan(c, p, ci, pi, star, mark) ==
  LET at == pi <= Len(p)
  IN CASE ci > Len(c) -> \A k \in pi..Len(p) : p[k] = "*"
       [] at /\ p[pi] = "?" -> WildcardScan(c, p, ci + 1, pi + 1, star, mark)
       [] at /\ p[pi] = "*" -> WildcardScan(c, p, ci, pi + 1, pi, ci)
       [] at /\ p[pi] = "\\" /\ pi < Len(p) /\ p[pi + 1] = c[ci] ->
            WildcardScan(c, p, ci + 1, pi + 2, star, mark)
       [] at /\ p[pi] = c[ci] /\ p[pi] \notin {"?", "*"}
             /\ ~(p[pi] = "\\" /\ pi < Len(p) /\ p[pi + 1] = c[ci]) ->
            WildcardScan(c, p, ci + 1, pi + 1, star, mark)
       [] OTHER -> star # 0 /\ WildcardScan(c, p, mark + 1, star + 1, star, mark + 1)

wildcard_match(c, p) == WildcardScan(c, p, 1, 1, 0, 0)

pattern_matches(c, pattern) ==
  LET parts == parse_grouped_alternation(pattern)
  IN IF parts = <<>> THEN wildcard_match(c, pattern)
     ELSE \E i \in DOMAIN parts : wildcard_match(c, unescape_pattern_part(parts[i]))
----------------------------------------------------------------------------
(* Fields of an event.  Families: 1 process, 2 file, 3 and 7 network,      *)
(* 4 database, 5 TLS, 6 DNS.                                               *)

When(cond, v) == IF cond THEN v ELSE Null
Opt(s) == When(s # None, Str(s))

(* The metadata the cgroup walker has for an id, if any. *)
CgroupMeta(ev) == IF ev.cgroup_id \in DOMAIN World.cgroups
                  THEN World.cgroups[ev.cgroup_id]
                  ELSE [path |-> None, container_id |-> None, pod_uid |-> None]

secure_connect_is_active(state) == state \in {"healthy", "elevated", "restricted"}

is_business_hour(t) == t.wday \in 1..5 /\ t.hour \in 9..16

ProcessFields(ev) ==
  [id |-> Num(ev.pid), pid |-> Num(ev.pid), uid |-> Num(ev.uid),
   ppid |-> When(ev.event_type = 1, Num(ev.dst_vertex_id)),
   name |-> Str(ev.comm), elevated |-> Bool(ev.uid = 0),
   host_id |-> Str(World.host_id), container_id |-> Opt(CgroupMeta(ev).container_id),
   cgroup_id |-> When(ev.cgroup_id # 0, Num(ev.cgroup_id)),
   secure_connect_session_id |-> Opt(World.health.session_id)]

ContainerFields(ev) ==
  LET m == CgroupMeta(ev)
  IN [cgroup_id |-> When(ev.cgroup_id # 0, Num(ev.cgroup_id)),
      container_id |-> Opt(m.container_id), cgroup_path |-> Opt(m.path),
      pod_uid |-> Opt(m.pod_uid), exists |-> Bool(m.container_id # None)]

NetworkFields(ev) ==
  LET net == ev.event_type \in {3, 7}
  IN [process_id |-> When(net, Num(ev.pid)),
      direction |-> When(net, Str(<<"o", "u", "t", "b", "o", "u", "n", "d">>)),
      tunneled |-> When(net, Bool(secure_connect_is_active(World.health.state))),
      secure_connect_session_id |-> Opt(World.health.session_id)]

NetworkDestFields(ev) ==
  LET net == ev.event_type \in {3, 7}
      ip == When(net /\ ev.net_dst_ip # 0, <<"ip", ev.net_dst_ip>>)
  IN [domain |-> ip, ip |-> ip, port |-> When(net, Num(ev.net_dst_port)),
      is_internal |-> When(net /\ ev.net_dst_ip # 0,
                           Bool(ev.net_dst_ip \in World.internal))]

(* What the database, TLS and DNS families share. *)
FamilyFields(ev, family) ==
  LET is == ev.event_type = family
  IN [pid |-> When(is, Num(ev.pid)), uid |-> When(is, Num(ev.uid)),
      process_name |-> When(is, Str(ev.comm))]

SqlFields(ev) ==
  LET is == ev.event_type = 4
  IN [query_hash |-> When(is, Num(ev.query_hash)),
      query_class |-> When(is, Num(ev.query_class)),
      db_port |-> When(is, Num(ev.db_port)),
      tables |-> When(is, ListOf([i \in DOMAIN ev.tables |-> Str(ev.tables[i])])),
      database |-> When(is, Opt(ev.database))]

SslFields(ev) ==
  [data_len |-> When(ev.event_type = 5, Num(ev.data_len)),
   operation |-> When(ev.event_type = 5, Num(ev.operation))]

(* The entropy of the queried name is left uninterpreted. *)
DnsDomainFields(ev) ==
  [value |-> When(ev.event_type = 6, Str(ev.dns_query)),
   entropy |-> When(ev.event_type = 6 /\ ev.dns_query # <<>>,
                    World.entropy[ev.dns_query])]

TimeFields(ev) ==
  LET t == World.local_time[ev.ts]
  IN [weekday |-> Str(t.weekday), hour |-> Num(t.hour), minute |-> Num(t.minute),
      is_business_hour |-> Bool(is_business_hour(t))]

SecureConnectFields ==
  LET h == World.health
  IN [id |-> Opt(h.session_id), active |-> Bool(secure_connect_is_active(h.state)),
      established |-> Bool(secure_connect_is_active(h.state)),
      state |-> When(h.enabled, Str(h.state_text)), host_id |-> Str(World.host_id)]

SecureConnectPeerFields ==
  [latest_handshake_age |-> When(World.health.handshake # 0,
                                 Num(World.now - World.health.handshake)),
   rx_bytes |-> Num(World.health.rx), tx_bytes |-> Num(World.health.tx)]

EventFields(ev) ==
  [ts_ns |-> Num(ev.ts), event_type |-> Num(ev.event_type),
   vertex_id |-> Num(ev.vertex_id), dst_vertex_id |-> Num(ev.dst_vertex_id),
   comm_id |-> Num(ev.comm_id), risk_score |-> Num(ev.risk_score)]

(* The extractors below a path prefix, by the last segment. *)
lookup_field_extractor(prefix, ev) ==
  CASE prefix = <<"process">> -> ProcessFields(ev)
    [] prefix = <<"process", "parent">> ->
         [id |-> ProcessFields(ev).ppid, pid |-> ProcessFields(ev).ppid]
    [] prefix \in {<<"process", "user">>, <<"user">>} -> [uid |-> Num(ev.uid)]
    [] prefix = <<"container">> -> ContainerFields(ev)
    [] prefix = <<"network">> -> NetworkFields(ev)
    [] prefix = <<"network", "dest">> -> NetworkDestFields(ev)
    [] prefix = <<"file">> -> [process_id |-> When(ev.event_type = 2, Num(ev.pid))]
    [] prefix = <<"db">> -> FamilyFields(ev, 4) @@ SqlFields(ev)
    [] prefix = <<"sql">> -> SqlFields(ev)
    [] prefix = <<"ssl">> -> FamilyFields(ev, 5) @@ SslFields(ev)
    [] prefix = <<"dns">> -> FamilyFields(ev, 6) @@
                             [query_hash |-> When(ev.event_type = 6, Num(ev.dns_hash))]
    [] prefix = <<"dns", "domain">> -> DnsDomainFields(ev)
    [] prefix = <<"time">> -> TimeFields(ev)
    [] prefix = <<"host">> ->
         [id |-> Str(World.host_id), hostname |-> Str(World.hostname),
          risk_score |-> Num(ev.risk_score),
          secure_connect_enabled |-> Bool(World.health.enabled)]
    [] prefix = <<"secure_connect">> -> SecureConnectFields
    [] prefix = <<"sc_peer">> -> SecureConnectPeerFields
    [] prefix = <<"event">> -> EventFields(ev)

FieldPrefixes ==
  {<<n>> : n \in {"process", "user", "container", "network", "file", "db", "sql", "ssl", "dns",
                  "time", "host", "secure_connect", "sc_peer", "event"}}
    \cup {<<"process", "parent">>, <<"process", "user">>, <<"network", "dest">>, <<"dns", "domain">>}

(* All that can be read off an event. *)
Extracted(ev) == [prefix \in FieldPrefixes |-> lookup_field_extractor(prefix, ev)]

HasExtractor(fields, path) ==
  Front(path) \in DOMAIN fields /\ Last(path) \in DOMAIN fields[Front(path)]
ReadField(fields, path) == When(HasExtractor(fields, path), fields[Front(path)][Last(path)])

(* String order of two dotted paths, by the host's order of the segments.  *)
RECURSIVE PathLess(_, _)
PathLess(p, q) ==
  CASE p = <<>> -> q # <<>>
    [] q = <<>> -> FALSE
    [] p[1] = q[1] -> PathLess(Tail(p), Tail(q))
    [] OTHER -> World.collation[p[1]] < World.collation[q[1]]

alias_matches_path(alias, path) ==
  /\ Len(alias) <= Len(path)
  /\ SubSeq(path, Len(path) - Len(alias) + 1, Len(path)) = alias

(* The field a path names: the one it spells out, or else the one with the *)
(* longest alias ending the path, those with an extractor first.           *)
lookup_field_spec(c, path) ==
  LET Fits(s) == {a \in s.aliases : alias_matches_path(a, path)}
      Best(s) == Max({Len(a) : a \in Fits(s)})
      Longest(found) == {s \in found : \A t \in found : Best(t) <= Best(s)}
      Live(longest) == {s \in longest : HasExtractor(c.fields, s.canonical)}
      Last1(pool) == {s \in pool : \A t \in pool : ~PathLess(s.canonical, t.canonical)}
      Pool(longest, live) == Last1(IF live = {} THEN longest ELSE live)
      Tied(longest) == Pool(longest, Live(longest))
      Or(exact) == IF exact # {} THEN exact
                   ELSE Tied(Longest({s \in c.specs : Fits(s) # {}}))
  IN Or({s \in c.specs : s.canonical = path})

lookup_field(c, path) ==
  LET Of(spec) == IF spec = {} THEN Null
                  ELSE ReadField(c.fields, (CHOOSE s \in spec : TRUE).canonical)
  IN IF path \in DOMAIN c.env THEN c.env[path] ELSE Of(lookup_field_spec(c, path))

(* The fields assumed of an artifact that describes none. *)
FieldRow(canonical, type, aliases) ==
  [canonical |-> canonical, value_type |-> type, aliases |-> aliases,
   is_time_context |-> canonical[1] = "time"]

FallbackProcessFields ==
  {FieldRow(<<"time", "weekday">>, "String",
       {<<"weekday">>, <<"day_of_week">>, <<"time", "day_of_week">>}),
   FieldRow(<<"time", "hour">>, "Number", {<<"hour">>}),
   FieldRow(<<"time", "minute">>, "Number", {<<"minute">>}),
   FieldRow(<<"time", "is_business_hour">>, "Bool",
       {<<"is_business_hour">>, <<"business_hours">>, <<"time", "business_hours">>}),
   FieldRow(<<"event", "ts_ns">>, "Number", {<<"ts_ns">>}),
   FieldRow(<<"process", "pid">>, "Number",
       {<<"pid">>, <<"process_id">>, <<"process", "id">>}),
   FieldRow(<<"process", "ppid">>, "Number",
       {<<"ppid">>, <<"parent_pid">>, <<"process", "parent", "pid">>,
        <<"process", "parent", "id">>, <<"parent", "pid">>, <<"parent", "id">>}),
   FieldRow(<<"process", "uid">>, "Number",
       {<<"uid">>, <<"user", "uid">>, <<"process", "user", "uid">>}),
   FieldRow(<<"process", "host_id">>, "String", {<<"host_id">>}),
   FieldRow(<<"process", "secure_connect_session_id">>, "String",
       {<<"process", "sc_session_id">>}),
   FieldRow(<<"process", "elevated">>, "Bool",
       {<<"elevated">>, <<"is_root">>, <<"process", "is_root">>}),
   FieldRow(<<"process", "cgroup_id">>, "Number",
       {<<"cgroup_id">>, <<"process", "cgroup", "id">>}),
   FieldRow(<<"container", "cgroup_id">>, "Number", {<<"container", "cgroup", "id">>}),
   FieldRow(<<"container", "container_id">>, "String", {<<"container", "id">>}),
   FieldRow(<<"container", "cgroup_path">>, "String",
       {<<"cgroup_path">>, <<"container", "cgroup", "path">>}),
   FieldRow(<<"container", "pod_uid">>, "String",
       {<<"pod_uid">>, <<"container", "pod", "uid">>}),
   FieldRow(<<"container", "exists">>, "Bool", {<<"in_container">>}),
   FieldRow(<<"event", "event_type">>, "Number", {<<"event_type">>, <<"event", "type">>}),
   FieldRow(<<"event", "vertex_id">>, "Number",
       {<<"vertex_id">>, <<"event", "src_vertex_id">>}),
   FieldRow(<<"event", "dst_vertex_id">>, "Number", {<<"dst_vertex_id">>}),
   FieldRow(<<"process", "name">>, "String",
       {<<"name">>, <<"comm">>, <<"process", "comm">>}),
   FieldRow(<<"event", "comm_id">>, "Number", {<<"comm_id">>, <<"process", "comm_id">>}),
   FieldRow(<<"event", "risk_score">>, "Number", {<<"risk_score">>, <<"score">>})}

FallbackHostFields ==
  {FieldRow(<<"host", "risk_score">>, "Number", {<<"host", "rs">>}),
   FieldRow(<<"host", "id">>, "String", {<<"host_id">>}),
   FieldRow(<<"host", "hostname">>, "String", {<<"hostname">>}),
   FieldRow(<<"host", "secure_connect_enabled">>, "Bool", {<<"secure_connect_enabled">>}),
   FieldRow(<<"network", "process_id">>, "Number",
       {<<"net", "process_id">>, <<"net", "proc_id">>}),
   FieldRow(<<"network", "direction">>, "String", {<<"direction">>}),
   FieldRow(<<"network", "tunneled">>, "Bool", {<<"tunneled">>}),
   FieldRow(<<"network", "secure_connect_session_id">>, "String",
       {<<"network", "sc_session_id">>}),
   FieldRow(<<"network", "dest", "domain">>, "Ip", {<<"domain">>, <<"dest", "domain">>}),
   FieldRow(<<"network", "dest", "ip">>, "Ip", {<<"dst_ip">>, <<"ip">>, <<"dest", "ip">>}),
   FieldRow(<<"network", "dest", "port">>, "Number",
       {<<"dst_port">>, <<"port">>, <<"dest", "port">>}),
   FieldRow(<<"network", "dest", "is_internal">>, "Bool",
       {<<"dest", "is_internal">>, <<"dest", "internal">>, <<"is_internal">>}),
   FieldRow(<<"file", "process_id">>, "Number", {<<"file", "proc_id">>}),
   FieldRow(<<"sql", "query_hash">>, "Number", {<<"sql_query_hash">>}),
   FieldRow(<<"sql", "query_class">>, "Number",
       {<<"sql_query_class">>, <<"sql", "class">>}),
   FieldRow(<<"sql", "db_port">>, "Number", {<<"sql_db_port">>}),
   FieldRow(<<"sql", "tables">>, "List",
       {<<"sql_tables">>, <<"sql", "table">>, <<"db", "tables">>}),
   FieldRow(<<"sql", "database">>, "String",
       {<<"sql_database">>, <<"db", "database">>, <<"sql", "schema">>})}

FallbackProtocolFields ==
  {FieldRow(<<"ssl", "pid">>, "Number", {<<"ssl_pid">>}),
   FieldRow(<<"ssl", "uid">>, "Number", {<<"ssl_uid">>}),
   FieldRow(<<"ssl", "process_name">>, "String", {<<"ssl_process_name">>}),
   FieldRow(<<"ssl", "data_len">>, "Number", {<<"ssl_data_len">>, <<"ssl", "bytes">>}),
   FieldRow(<<"ssl", "operation">>, "Number", {<<"ssl_operation">>}),
   FieldRow(<<"dns", "pid">>, "Number", {<<"dns_pid">>}),
   FieldRow(<<"dns", "uid">>, "Number", {<<"dns_uid">>}),
   FieldRow(<<"dns", "process_name">>, "String", {<<"dns_process_name">>}),
   FieldRow(<<"dns", "domain", "value">>, "String",
       {<<"dns_query">>, <<"dns", "query">>, <<"dns", "name">>}),
   FieldRow(<<"dns", "query_hash">>, "Number", {<<"dns_query_hash">>}),
   FieldRow(<<"dns", "domain", "entropy">>, "Number",
       {<<"dns_entropy">>, <<"dns", "entropy">>}),
   FieldRow(<<"secure_connect", "id">>, "String",
       {<<"sc", "id">>, <<"secure_connect", "session_id">>}),
   FieldRow(<<"secure_connect", "active">>, "Bool", {<<"sc", "active">>}),
   FieldRow(<<"secure_connect", "established">>, "Bool", {<<"sc", "established">>}),
   FieldRow(<<"secure_connect", "state">>, "String", {<<"sc", "state">>}),
   FieldRow(<<"sc_peer", "latest_handshake_age">>, "Number",
       {<<"secure_connect", "peer", "latest_handshake_age">>}),
   FieldRow(<<"sc_peer", "rx_bytes">>, "Number",
       {<<"secure_connect", "peer", "rx_bytes">>}),
   FieldRow(<<"sc_peer", "tx_bytes">>, "Number",
       {<<"secure_connect", "peer", "tx_bytes">>})}

FALLBACK_FIELD_METADATA ==
  FallbackProcessFields \cup FallbackHostFields \cup FallbackProtocolFields

(* The agent represents a destination domain as its address. *)
build_field_specs(fields) ==
  IF fields = {} THEN FALLBACK_FIELD_METADATA
  ELSE {IF f.canonical = <<"network", "dest", "domain">>
        THEN [f EXCEPT !.value_type = "Ip"] ELSE f : f \in fields}
----------------------------------------------------------------------------
(* The callables of the agent. *)

Builtin(arity, params, returns) ==
  [arity |-> arity, params |-> params, returns |-> returns]

(* What a contract may declare of each: the types of the parameters, every *)
(* one with its alternatives, and of the result.  Entity lookups have no   *)
(* contract.                                                               *)
builtin_callable_spec ==
  LET int == <<"Int">>  str == <<"Str">>  bool == <<"Bool">>
      set(t) == <<"Set", t>>
      profile == <<"Entity", "BaselineProfile">>
      numeric == Builtin(1, <<{set(int)}>>, int)
  IN ("count" :> Builtin(1, <<{<<"Any">>}>>, int))
     @@ ("len" :> Builtin(1, <<{str, set(<<"Any">>)}>>, int))
     @@ ("max" :> numeric) @@ ("min" :> numeric) @@ ("sum" :> numeric)
     @@ ("avg" :> [numeric EXCEPT !.returns = <<"Float">>])
     @@ ("distinct" :> Builtin(1, <<{set(str)}>>, set(str)))
     @@ ("rate" :> Builtin(2, <<{str}, {<<"Duration">>}>>, int))
     @@ ("is_shell" :> Builtin(1, <<{<<"Entity", "Process">>}>>, bool))
     @@ ("rare" :> Builtin(1, <<{str}>>, bool))
     @@ ("unusual_for" :> Builtin(2, <<{str}, {str}>>, bool))
     @@ ("intel.domains" :> Builtin(1, <<{str}>>, set(str)))
     @@ ("baseline.image" :> Builtin(1, <<{str}>>, profile))
     @@ ("baseline.workload" :> Builtin(2, <<{str}, {str}>>, profile))
     @@ ("host" :> Builtin(1, <<>>, None)) @@ ("user" :> Builtin(1, <<>>, None))

contract_required(name) == name \notin {"host", "user"}

builtin_param_contract_matches(name, index, type) ==
  LET params == builtin_callable_spec[name].params
  IN index \in DOMAIN params /\ type \in params[index]

builtin_return_contract_matches(name, type) == type = builtin_callable_spec[name].returns

(* An expression is executable when every call in it is one the agent has, *)
(* with its arguments, under contracts it agrees with.                     *)
validate_expr_calls(e, declared) ==
  \A call \in {n \in Nodes(e) : n[1] = "Call"} :
    LET name == call[2]
        spec == builtin_callable_spec[name]
        contracts == {i \in DOMAIN declared : declared[i].name = name}
    IN /\ name \in DOMAIN builtin_callable_spec
       /\ Len(call[3]) = spec.arity
       /\ contract_required(name) /\ declared # <<>> => contracts # {}
       /\ \A i \in contracts :
            /\ Len(declared[i].params) = spec.arity
            /\ \A k \in DOMAIN declared[i].params :
                 builtin_param_contract_matches(name, k, declared[i].params[k].ty)
            /\ builtin_return_contract_matches(name, declared[i].returns)

(* Join predicates and emitted arguments are not evaluated by the agent,   *)
(* and not validated.                                                      *)
validate_runtime_calls(rules, execution, declared) ==
  \A r \in Range(rules) :
    LET x == execution[r.id]
    IN /\ \A e \in Range(r.predicates) \cup Range(x.require)
                      \cup {b.value : b \in Range(x.lets)} :
            validate_expr_calls(e, declared)
       /\ \A b \in Range(x.score.modifiers) \cup Range(r.respond) :
            b.condition # None => validate_expr_calls(b.condition, declared)

runtime_callable_type_specificity(t) ==
  LET RECURSIVE Depth(_)
      Depth(x) == CASE x[1] = "Any" -> 0
                    [] x[1] \in {"Set", "Nullable"} -> 1 + Depth(x[2])
                    [] OTHER -> 4
  IN Depth(t)

(* Whether an expression may have a declared type, judged before it is     *)
(* evaluated; only the contracts of the called name are consulted.         *)
RECURSIVE expr_matches_callable_type(_, _, _, _)
expr_matches_callable_type(e, t, c, contracts) ==
  LET M(x, y) == expr_matches_callable_type(x, y, c, contracts)
      fits == [Bool |-> {"Bool"}, String |-> {"Str", "Path"},
               Number |-> {"Int", "Float", "Duration"}, Ip |-> {"IpAddr"},
               List |-> {"Set"}]
  IN CASE t[1] = "Any" -> TRUE
       [] t[1] = "Nullable" -> e[1] = "Null" \/ M(e, t[2])
       [] e[1] \in {"Null", "Unsupported"} -> FALSE
       [] e[1] = "Str" -> t[1] \in {"Str", "Path", "IpAddr"}
       [] e[1] \in {"Int"} \cup Ariths -> t[1] \in {"Int", "Float", "Duration"}
       [] e[1] \in {"Float", "Duration"} -> t[1] = e[1]
       [] e[1] \in {"Bool", "And", "Or", "Not", "In", "Matches"} \cup Cmps \cup StringOps ->
            t[1] = "Bool"
       [] e[1] = "List" -> t[1] = "Set" /\ \A i \in DOMAIN e[2] : M(e[2][i], t[2])
       [] e[1] = "Field" -> \/ t[1] = "Entity"
                            \/ \E s \in lookup_field_spec(c, e[2]) :
                                 t[1] \in fits[s.value_type]
       [] e[1] = "Call" -> \E i \in DOMAIN contracts :
                             contracts[i].name = e[2] /\ contracts[i].returns = t
       [] OTHER -> TRUE

process_entity_is_available(e, c) ==
  /\ e[1] = "Field"
  /\ LET n == lookup_field(c, Append(e[2], "name"))
     IN n[1] = "str" /\ Trim(n[2]) # <<>>

RECURSIVE value_matches_callable_type(_, _, _, _)
value_matches_callable_type(v, e, t, c) ==
  CASE t[1] = "Any" -> TRUE
    [] t[1] \in {"Str", "Path"} -> v[1] = "str"
    [] t[1] = "Int" -> v[1] = "num" /\ v[3] = 1
    [] t[1] = "Float" -> v[1] = "num"
    [] t[1] = "Bool" -> v[1] = "bool"
    [] t[1] = "Duration" -> v[1] = "num" /\ v[2] >= 0
    [] t[1] = "IpAddr" -> v[1] \in {"ip", "str"} /\ value_as_ipv4(v) # {}
    [] t[1] = "Entity" -> \/ v[1] = "obj"
                          \/ t[2] = "Process" /\ process_entity_is_available(e, c)
    [] t[1] = "Set" -> v[1] = "list" /\ \A i \in DOMAIN v[2] :
                         value_matches_callable_type(v[2][i], None, t[2], c)
    [] t[1] = "Nullable" -> v = Null \/ value_matches_callable_type(v, e, t[2], c)

ContractWeight(contract) ==
  FoldLeft(LAMBDA n, p : n + runtime_callable_type_specificity(p.ty), 0, contract.params)

(* The most specific overload the argument expressions fit, the first of   *)
(* them, or else the first with as many parameters.  A sequence of at most *)
(* one contract.                                                           *)
callable_contract(name, args, c) ==
  LET contracts == SelectSeq(c.contracts, LAMBDA k : k.name = name)
      arity == {i \in DOMAIN contracts : Len(contracts[i].params) = Len(args)}
      Best(fit) == {i \in fit : \A j \in fit :
                      ContractWeight(contracts[j]) <= ContractWeight(contracts[i])}
      First(best) == CASE best # {} -> <<contracts[Min(best)]>>
                       [] arity # {} -> <<contracts[Min(arity)]>>
                       [] OTHER -> <<>>
  IN First(Best({i \in arity : \A k \in DOMAIN args :
                   expr_matches_callable_type(args[k], contracts[i].params[k].ty, c, contracts)}))
----------------------------------------------------------------------------
(* What the callables remember: a count per rare or unusual key, the       *)
(* observation times per rate key, the keys in the order they came, and    *)
(* the mutations since the last checkpoint.                                *)

EmptyState == [counts |-> <<>>, rates |-> <<>>, order |-> <<>>, dirty |-> 0]

state_len(st) == Cardinality(DOMAIN st.counts) + Cardinality(DOMAIN st.rates)

Without(f, k) == [x \in DOMAIN f \ {k} |-> f[x]]
Put(f, k, v) == [x \in DOMAIN f \cup {k} |-> IF x = k THEN v ELSE f[x]]

RECURSIVE EvictOldest(_)
EvictOldest(st) ==
  IF state_len(st) <= max_entries \/ st.order = <<>> THEN st
  ELSE LET k == Head(st.order)
       IN EvictOldest([st EXCEPT !.order = Tail(@), !.counts = Without(@, k),
                                 !.rates = Without(@, k)])

RemembersWithoutEviction(st, key) == [st EXCEPT !.order = Append(@, key)]

remember_state_key(st, key) == EvictOldest([st EXCEPT !.order = Append(@, key)])

mark_mutation(st) == [st EXCEPT !.dirty = @ + 1]

(* Count a sighting of a key; <<whether it was the first, the new state>>. *)
ObserveCount(st, key) ==
  LET new == key \notin DOMAIN st.counts
      prev == IF new THEN 0 ELSE st.counts[key]
      put == [st EXCEPT !.counts = Put(@, key, prev + 1)]
  IN <<Bool(prev = 0),
       mark_mutation(IF new THEN remember_state_key(put, key) ELSE put)>>

(* Add an observation and drop the leading ones before the window. *)
RECURSIVE DropBefore(_, _)
DropBefore(ts, cutoff) ==
  IF ts # <<>> /\ Head(ts) < cutoff THEN DropBefore(Tail(ts), cutoff) ELSE ts

ObserveRate(st, key, now, window) ==
  LET new == key \notin DOMAIN st.rates
      cutoff == IF now < window THEN 0 ELSE now - window
      kept == DropBefore(Append(IF new THEN <<>> ELSE st.rates[key], now), cutoff)
      put == [st EXCEPT !.rates = Put(@, key, kept)]
  IN <<Num(Len(kept)),
       mark_mutation(IF new THEN remember_state_key(put, key) ELSE put)>>

----------------------------------------------------------------------------
(* Expressions.  The context c holds the event, the field specs, the       *)
(* contracts, the bindings of the rule, its id and the callables' state.   *)

With(c, st) == [c EXCEPT !.st = st]

(* An expression as a value (as = "value") or as a condition ("bool"). *)
RECURSIVE Eval(_, _, _)
eval_value(e, c) == Eval("value", e, c)
eval_bool(e, c) == Eval("bool", e, c)

Sequentially(es, c) ==
  LET Next1(acc, r) == <<Append(acc[1], r[1]), r[2]>>
  IN FoldLeft(LAMBDA acc, e : Next1(acc, eval_value(e, With(c, acc[2]))), <<<<>>, c.st>>, es)

Compare(op, l, r) ==
  LET a == to_number(l)
      b == to_number(r)
      less(x, y) == x[1] * y[2] < y[1] * x[2]
  IN CASE op = "Eq" -> values_equal(l, r)
       [] op = "Ne" -> ~values_equal(l, r)
       [] a = <<>> \/ b = <<>> -> FALSE
       [] op = "Lt" -> less(a, b)
       [] op = "Gt" -> less(b, a)
       [] op = "Le" -> ~less(b, a)
       [] op = "Ge" -> ~less(a, b)

StringTest(op, l, r) ==
  LET a == to_string(l)
      b == to_string(r)
      at(i) == i >= 0 /\ i + Len(b) <= Len(a) /\ SubSeq(a, i + 1, i + Len(b)) = b
  IN CASE op = "StartsWith" -> at(0)
       [] op = "EndsWith" -> at(Len(a) - Len(b))
       [] op = "Contains" ->
            IF l[1] = "list" THEN \E i \in DOMAIN l[2] : values_equal(l[2][i], r)
            ELSE \E i \in 0..Len(a) : at(i)

Arith(op, a, b) ==
  CASE op = "Add" -> Ratio(a[1] * b[2] + b[1] * a[2], a[2] * b[2])
    [] op = "Sub" -> Ratio(a[1] * b[2] - b[1] * a[2], a[2] * b[2])
    [] op = "Mul" -> Ratio(a[1] * b[1], a[2] * b[2])
    [] op = "Div" -> IF b[1] = 0 THEN Null ELSE Ratio(a[1] * b[2], a[2] * b[1])

(* The right side is not evaluated when the left side is no number. *)
ArithRight(op, l, r) ==
  <<IF to_number(r[1]) = <<>> THEN Null ELSE Arith(op, to_number(l[1]), to_number(r[1])), r[2]>>
ArithLeft(e, l, c) ==
  IF to_number(l[1]) = <<>> THEN <<Null, l[2]>>
  ELSE ArithRight(e[1], l, eval_value(e[3], With(c, l[2])))
eval_arithmetic(e, c) == ArithLeft(e, eval_value(e[2], c), c)

is_external_set_ref(path) == Len(path) > 1 /\ path[1] \in {"org", "intel"}

intel_store_contains(name, v) ==
  CASE v[1] = "str" -> name \in DOMAIN World.string_sets
                         /\ Lower(v[2]) \in World.string_sets[name]
    [] v[1] \in {"ip", "num"} ->
         name \in DOMAIN World.ip_sets
           /\ (IF v[1] = "ip" THEN v[2] ELSE v[2] \div v[3]) \in World.ip_sets[name]
    [] OTHER -> FALSE

(* Items are evaluated until one equals the left side. *)
Hit(v, r) == <<IF r[1][1] = "list" THEN \E i \in DOMAIN r[1][2] : values_equal(v, r[1][2][i])
               ELSE values_equal(v, r[1]), r[2]>>
InItems(l, items, c) ==
  IF Len(items) = 1 /\ items[1][1] = "Field" /\ is_external_set_ref(items[1][2])
  THEN <<intel_store_contains(items[1][2], l[1]), l[2]>>
  ELSE FoldLeft(LAMBDA acc, item : IF acc[1] THEN acc
                                   ELSE Hit(l[1], eval_value(item, With(c, acc[2]))),
                <<FALSE, l[2]>>, items)
eval_in(e, c) == InItems(eval_value(e[2], c), e[3], c)

(* The second operand of `and` and `or` counts only when the first leaves  *)
(* it open.                                                                *)
Shortcut(l, open, e, c) == IF l[1] = open THEN eval_bool(e, With(c, l[2])) ELSE l

AsTruth(k, e, r) ==
  <<CASE k \in Cmps -> Compare(k, r[1][1], r[1][2])
      [] k \in StringOps -> StringTest(k, r[1][1], r[1][2])
      [] k = "Matches" -> pattern_matches(to_string(r[1][1]), e[3])
      [] k \in Ariths -> r[1][1] = "num" /\ r[1][2] # 0
      [] k = "Not" -> ~r[1]
      [] OTHER -> value_as_bool(r[1]), r[2]>>

Projected(base, field) ==
  <<When(base[1][1] = "obj" /\ field \in DOMAIN base[1][2], base[1][2][field]), base[2]>>

----------------------------------------------------------------------------
(* Calls.  An option is a sequence of at most one element. *)

TypedArg(r, arg, index, contract, c) ==
  <<IF contract # <<>> /\ index <= Len(contract[1].params)
       /\ ~value_matches_callable_type(r[1], arg, contract[1].params[index].ty, With(c, r[2]))
    THEN <<>> ELSE <<r[1]>>, r[2]>>
eval_typed_call_arg(arg, index, contract, c) ==
  TypedArg(eval_value(arg, c), arg, index, contract, c)

normalize_call_key(s) == IF Trim(s) = <<>> THEN <<>> ELSE <<Lower(Trim(s))>>

(* The key an argument stands for; an entity stands for its name. *)
KeyOfName(name) == IF name[1] = "str" THEN normalize_call_key(name[2]) ELSE <<>>
KeyOfArg(r, arg, c) ==
  <<CASE r[1] = <<>> -> <<>>
      [] r[1] # <<>> /\ r[1][1] = Null ->
           IF arg[1] = "Field" THEN KeyOfName(lookup_field(c, Append(arg[2], "name"))) ELSE <<>>
      [] OTHER -> normalize_call_key(to_string(r[1][1])), r[2]>>
eval_call_arg_key(arg, index, contract, c) ==
  KeyOfArg(eval_typed_call_arg(arg, index, contract, c), arg, c)

NumericItems(v) ==
  LET ns == [i \in DOMAIN v[2] |-> to_number(v[2][i])]
  IN CASE v[1] = "list" -> IF <<>> \in Range(ns) THEN <<>> ELSE <<ns>>
       [] v = Null -> <<<<>>>>
       [] OTHER -> IF to_number(v) = <<>> THEN <<>> ELSE <<<<to_number(v)>>>>

Aggregate(name, ns) ==
  LET less(a, b) == a[1] * b[2] < b[1] * a[2]
      pick == IF name = "max"
              THEN CHOOSE n \in Range(ns) : \A m \in Range(ns) : ~less(n, m)
              ELSE CHOOSE n \in Range(ns) : \A m \in Range(ns) : ~less(m, n)
      total == FoldLeft(LAMBDA a, n : Arith("Add", <<a[2], a[3]>>, n), Num(0), ns)
  IN CASE name = "sum" -> total
       [] ns = <<>> -> Null
       [] name = "avg" -> Arith("Div", <<total[2], total[3]>>, <<Len(ns), 1>>)
       [] OTHER -> Ratio(pick[1], pick[2])

eval_call_distinct(v) ==
  LET keep(acc, x) == IF x \in Range(acc) THEN acc ELSE Append(acc, x)
  IN CASE v[1] = "list" -> ListOf(FoldLeft(keep, <<>>, v[2]))
       [] v = Null -> ListOf(<<>>)
       [] OTHER -> ListOf(<<v>>)

eval_shell_candidate(v, arg, c) ==
  LET name == lookup_field(c, Append(arg[2], "name"))
      text == CASE v[1] = "str" -> Lower(v[2])
                [] v # Null /\ Trim(to_string(v)) # <<>> -> Lower(Trim(to_string(v)))
                [] arg[1] = "Field" /\ name[1] = "str" -> Lower(Trim(name[2]))
                [] OTHER -> <<>>
  IN text \in World.shells

(* A feed is looked up as written, then below the two standard prefixes. *)
resolve_intel_domain_feed(feed) ==
  LET f == Trim(feed)
      names == SelectSeq(<<World.feeds[f][1], World.feeds[f][2], World.feeds[f][3]>>,
                         LAMBDA n : n \in DOMAIN World.string_sets)
  IN IF f = <<>> \/ f \notin DOMAIN World.feeds \/ names = <<>> THEN Null
     ELSE ListOf(LET items == SetToSeq(World.string_sets[names[1]])
                 IN [i \in DOMAIN items |-> Str(items[i])])

normalize_lookup_key(s) == Trim(s)

LookUp(table, key) == When(key # <<>> /\ key \in DOMAIN World.lookup[table],
                           World.lookup[table][key])

eval_lookup_key(v) == IF v[1] \in {"str", "num", "ip"}
                      THEN normalize_lookup_key(to_string(v)) ELSE <<>>

(* A result that breaks the contract is Null. *)
CallResult(r, contract, c) ==
  IF contract # <<>> /\ contract[1].returns # None
       /\ ~value_matches_callable_type(r[1], None, contract[1].returns, c)
  THEN <<Null, r[2]>> ELSE r

(* What is computed from the value of the first argument alone, or <<>>    *)
(* where the call gives Null whatever the contract says.                   *)
FromValue(name, v) ==
  CASE name = "count" -> <<CASE v[1] = "list" -> Num(Len(v[2])) [] v = Null -> Num(0) [] OTHER -> Num(1)>>
    [] name = "len" -> <<When(v[1] \in {"str", "list"}, Num(Len(v[2])))>>
    [] name \in {"max", "min", "sum", "avg"} ->
         IF NumericItems(v) = <<>> THEN <<>> ELSE <<Aggregate(name, NumericItems(v)[1])>>
    [] name = "distinct" -> <<eval_call_distinct(v)>>
    [] v[1] # "str" -> <<>>
    [] name = "intel.domains" -> <<resolve_intel_domain_feed(v[2])>>
    [] name = "baseline.image" -> <<LookUp("images", normalize_lookup_key(v[2]))>>

ValueResult(w, st, contract, c) ==
  IF w = <<>> THEN <<Null, st>> ELSE CallResult(<<w[1], st>>, contract, c)
CallOnValue(name, a, contract, c) ==
  IF a[1] = <<>> THEN <<Null, a[2]>> ELSE ValueResult(FromValue(name, a[1][1]), a[2], contract, c)

CallOnPair(a, b, contract, c) ==
  CASE a[1] = <<>> \/ a[1][1][1] # "str" -> <<Null, a[2]>>
    [] a[1] # <<>> /\ (b[1] = <<>> \/ b[1][1][1] # "str") -> <<Null, b[2]>>
    [] OTHER -> CallResult(<<LookUp("workloads", Trim(a[1][1][2]) \o <<"/">> \o Trim(b[1][1][2])), b[2]>>,
                           contract, c)

CallUnusual(k1, k2, contract, c) ==
  CASE k1[1] = <<>> -> <<Bool(FALSE), k1[2]>>
    [] k1[1] # <<>> /\ k2[1] = <<>> -> <<Bool(FALSE), k2[2]>>
    [] OTHER -> CallResult(ObserveCount(k2[2], <<"unusual", c.rule, k2[1][1], k1[1][1]>>), contract, c)

WindowedRate(n, k1, st, contract, c) ==
  IF n = <<>> \/ n[1] <= 0 THEN <<Null, st>>
  ELSE CallResult(ObserveRate(st, <<"rate", c.rule, k1[1][1], n[1] \div n[2]>>, c.ev.ts,
                              n[1] \div n[2]), contract, c)
CallRate(k1, b, contract, c) ==
  IF k1[1] = <<>> THEN <<Num(0), k1[2]>>
  ELSE WindowedRate(IF b[1] = <<>> THEN <<>> ELSE to_number(b[1][1]), k1, b[2], contract, c)

CallOnKey(name, k1, args, contract, c) ==
  CASE name = "rare" /\ k1[1] = <<>> -> <<Bool(FALSE), k1[2]>>
    [] name = "rare" /\ k1[1] # <<>> ->
         CallResult(ObserveCount(k1[2], <<"rare", c.rule, k1[1][1]>>), contract, c)
    [] name = "unusual_for" ->
         CallUnusual(k1, eval_call_arg_key(args[2], 2, contract, With(c, k1[2])), contract, c)
    [] name = "rate" ->
         CallRate(k1, eval_typed_call_arg(args[2], 2, contract, With(c, k1[2])), contract, c)

CallShell(a, args, contract, c) ==
  CallResult(<<Bool(a[1] # <<>> /\ eval_shell_candidate(a[1][1], args[1], c)), a[2]>>, contract, c)
CallEntity(name, r, contract, c) ==
  CallResult(<<LookUp(name, eval_lookup_key(r[1])), r[2]>>, contract, c)
CallOnFirst(name, a, args, contract, c) ==
  CASE name = "is_shell" -> CallShell(a, args, contract, c)
    [] name = "baseline.workload" ->
         CallOnPair(a, eval_typed_call_arg(args[2], 2, contract, With(c, a[2])), contract, c)
    [] OTHER -> CallOnValue(name, a, contract, c)

CallOn(name, args, contract, c) ==
  CASE name \in {"rare", "unusual_for", "rate"} ->
         CallOnKey(name, eval_call_arg_key(args[1], 1, contract, c), args, contract, c)
    [] name \in {"host", "user"} -> CallEntity(name, eval_value(args[1], c), contract, c)
    [] OTHER -> CallOnFirst(name, eval_typed_call_arg(args[1], 1, contract, c), args, contract, c)

eval_call(name, args, c) ==
  IF name \notin DOMAIN builtin_callable_spec \/ Len(args) # builtin_callable_spec[name].arity
  THEN <<Null, c.st>>
  ELSE CallOn(name, args, callable_contract(name, args, c), c)

EvalBool(e, c) ==
  CASE e[1] = "Bool" -> <<e[2], c.st>>
    [] e[1] \in {"And", "Or"} -> Shortcut(eval_bool(e[2], c), e[1] = "And", e[3], c)
    [] e[1] = "Not" -> AsTruth(e[1], e, eval_bool(e[2], c))
    [] e[1] = "In" -> eval_in(e, c)
    [] e[1] \in Cmps \cup StringOps \cup {"Matches"} ->
         AsTruth(e[1], e, Sequentially(IF e[1] = "Matches" THEN <<e[2]>> ELSE <<e[2], e[3]>>, c))
    [] e[1] \in {"Call", "Field", "Project"} \cup Ariths -> AsTruth(e[1], e, eval_value(e, c))
    [] OTHER -> <<FALSE, c.st>>

EvalValue(e, c) ==
  LET k == e[1]
      AsList(r) == <<ListOf(r[1]), r[2]>>
      AsBool(r) == <<Bool(r[1]), r[2]>>
  IN CASE k = "Bool" -> <<Bool(e[2]), c.st>>
       [] k \in {"Null", "Unsupported"} -> <<Null, c.st>>
       [] k = "Int" -> <<Num(e[2]), c.st>>
       [] k = "Float" -> <<Ratio(e[2], e[3]), c.st>>
       [] k = "Duration" -> <<duration_to_ns(e[2], e[3]), c.st>>
       [] k = "Str" -> <<Str(e[2]), c.st>>
       [] k = "List" -> AsList(Sequentially(e[2], c))
       [] k = "Field" -> <<lookup_field(c, e[2]), c.st>>
       [] k = "Project" -> Projected(eval_value(e[2], c), e[3])
       [] k = "Call" -> eval_call(e[2], e[3], c)
       [] k \in Ariths -> eval_arithmetic(e, c)
       [] OTHER -> AsBool(eval_bool(e, c))

Eval(as, e, c) == IF as = "bool" THEN EvalBool(e, c) ELSE EvalValue(e, c)

----------------------------------------------------------------------------
(* An artifact, loaded, on one event. *)

(* The units of an artifact are one program: rules in order, of the fields *)
(* and the contracts the first of a name.                                  *)
parse_runtime_program(units) == FlattenSeq([i \in DOMAIN units |-> units[i].rules])

(* What runs after the predicates, by rule id: the last rule of an id.     *)
parse_runtime_rule_execution(rules) ==
  [id \in {r.id : r \in Range(rules)} |->
     LET r == rules[Max({i \in DOMAIN rules : rules[i].id = id})]
     IN [lets |-> r.lets, require |-> r.require, score |-> r.score]]

AllTrue(es, c) ==
  FoldLeft(LAMBDA acc, e : IF acc[1] THEN eval_bool(e, With(c, acc[2])) ELSE acc,
           <<TRUE, c.st>>, es)

ConditionHolds(condition, c) ==
  IF condition = None THEN <<TRUE, c.st>> ELSE eval_bool(condition, c)

(* `let` values in order, then the score: its base, and each modifier      *)
(* whose condition holds on the score so far.                              *)
Bound(d, name, r) == [d EXCEPT !.env = Put(@, <<name>>, r[1]), !.st = r[2]]
Scored(d, r, delta) ==
  IF r[1] THEN Bound(d, "score", <<Num(d.env[<<"score">>][2] + delta), r[2]>>) ELSE With(d, r[2])
BaseScore(d, score) == Bound(d, "score", <<Num(score.base), d.st>>)

evaluate_rule_derivations(execution, c) ==
  FoldLeft(LAMBDA d, m : Scored(d, ConditionHolds(m.condition, d), m.delta),
           BaseScore(FoldLeft(LAMBDA d, b : Bound(d, b.name, eval_value(b.value, d)),
                              c, execution.lets), execution.score),
           execution.score.modifiers)

(* The actions of the first branch whose condition holds, if any. *)
ActionsIf(b, r) == <<IF r[1] THEN <<Range(b.actions)>> ELSE <<>>, r[2]>>
BlockingOf(found) ==
  <<IF found[1] = <<>> THEN {} ELSE found[1][1] \cap {"block_egress", "block_query"}, found[2]>>

selected_branch_enforcement(branches, c) ==
  BlockingOf(FoldLeft(LAMBDA acc, b :
                        IF acc[1] # <<>> THEN acc
                        ELSE ActionsIf(b, ConditionHolds(b.condition, With(c, acc[2]))),
                      <<<<>>, c.st>>, branches))

Unmatched(r) == [matched |-> FALSE, enforce |-> {}, st |-> r[2]]
MatchedWith(b) == [matched |-> TRUE, enforce |-> b[1], st |-> b[2]]
Respond(q, d, rule) ==
  IF ~q[1] THEN Unmatched(q)
  ELSE MatchedWith(selected_branch_enforcement(rule.respond, With(d, q[2])))
Require(d, rule, execution) == Respond(AllTrue(execution.require, d), d, rule)
Derive(p, c, rule, execution) ==
  IF ~p[1] THEN Unmatched(p)
  ELSE Require(evaluate_rule_derivations(execution, With(c, p[2])), rule, execution)
EvaluateIn(c, rule, execution) == Derive(AllTrue(rule.predicates, c), c, rule, execution)

evaluate_rule(rule, engine, ev, st) ==
  EvaluateIn([ev |-> ev, fields |-> Extracted(ev), specs |-> engine.specs,
              contracts |-> engine.contracts, env |-> <<>>, rule |-> rule.id, st |-> st],
             rule, engine.execution[rule.id])

(* The engine an artifact makes, and whether the agent accepts it.  The    *)
(* callables' state is loaded apart.                                       *)
EngineOf(units, fields, contracts) ==
  LET rules == parse_runtime_program(units)
  IN [rules |-> rules, execution |-> parse_runtime_rule_execution(rules),
      specs |-> build_field_specs(fields), contracts |-> contracts]

Accepts(engine) == validate_runtime_calls(engine.rules, engine.execution, engine.contracts)
============================================================================
