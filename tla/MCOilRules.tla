----------------------------- MODULE MCOilRules -----------------------------
(* A part of the standard library, four artifacts and four events.         *)
EXTENDS OilRules, TLC, Integers

Prim(p) == <<"Prim", p>>
Maybe(t) == <<"Nullable", t>>
MCSchema ==
  [roots |-> [process |-> "Process", network |-> "NetworkFlow", user |-> "User",
              host |-> "Host", db |-> "SqlEvent", time |-> "TimeContext", dns |-> "DnsQuery"],
   entities |->
     [Process |-> [pid |-> Prim("Int"), ppid |-> Prim("Int"), name |-> Prim("Str"),
                   uid |-> Prim("Int"), host_id |-> Prim("Str"), elevated |-> Prim("Bool"),
                   parent |-> Maybe(<<"Entity", "Process">>),
                   user |-> Maybe(<<"Entity", "User">>)],
      NetworkFlow |-> [process_id |-> Maybe(Prim("Int")),
                       dest |-> <<"Entity", "NetworkEndpoint">>],
      NetworkEndpoint |-> [ip |-> Maybe(Prim("IpAddr")), port |-> Maybe(Prim("Int")),
                           domain |-> Maybe(Prim("Str")), is_internal |-> Maybe(Prim("Bool")),
                           reputation |-> Maybe(Prim("Str"))],
      User |-> [uid |-> Maybe(Prim("Int")), name |-> Prim("Str"),
                baseline |-> <<"Entity", "UserBaseline">>],
      UserBaseline |-> [hosts |-> <<"Set", Prim("Str")>>],
      Host |-> [id |-> Prim("Str"), baseline |-> <<"Entity", "HostBaseline">>],
      HostBaseline |-> [processes |-> <<"Set", Prim("Str")>>],
      BaselineProfile |-> [allowed_processes |-> <<"Set", Prim("Str")>>],
      SqlEvent |-> [tables |-> <<"Set", Prim("Str")>>, database |-> Maybe(Prim("Str")),
                    db_port |-> Prim("Int")],
      DnsQuery |-> [pid |-> Prim("Int"), domain |-> <<"Entity", "DnsDomain">>],
      DnsDomain |-> [value |-> Maybe(Prim("Str"))],
      TimeContext |-> [hour |-> Prim("Int"), is_business_hour |-> Prim("Bool")]]]

Sig(params, returns) == [params |-> [i \in DOMAIN params |-> [name |-> "value", ty |-> params[i]]],
                         returns |-> returns]
S == <<"Str">>
MCSignatures ==
  ("count" :> <<Sig(<<<<"Any">>>>, <<"Int">>)>>)
  @@ ("len" :> <<Sig(<<S>>, <<"Int">>), Sig(<<<<"Set", <<"Any">>>>>>, <<"Int">>)>>)
  @@ ("is_shell" :> <<Sig(<<<<"Entity", "Process">>>>, <<"Bool">>)>>)
  @@ ("rare" :> <<Sig(<<S>>, <<"Bool">>)>>)
  @@ ("unusual_for" :> <<Sig(<<S, S>>, <<"Bool">>)>>)
  @@ ("max" :> <<Sig(<<<<"Set", <<"Int">>>>>>, <<"Int">>)>>)
  @@ ("avg" :> <<Sig(<<<<"Set", <<"Int">>>>>>, <<"Float">>)>>)
  @@ ("distinct" :> <<Sig(<<<<"Set", S>>>>, <<"Set", S>>)>>)
  @@ ("rate" :> <<Sig(<<S, <<"Duration">>>>, <<"Int">>)>>)
  @@ ("intel.domains" :> <<Sig(<<S>>, <<"Set", S>>)>>)
  @@ ("baseline.image" :> <<Sig(<<S>>, <<"Entity", "BaselineProfile">>)>>)

Text(s) == <<"Str", s>>
Id(n) == <<"Ident", n>>
At(p) == <<"Path", p>>
Cmp(op, l, r) == <<"Cmp", op, l, r>>
Lit(n) == <<"Int", n>>
And(l, r) == <<"And", l, r>>
sh == <<"s", "h">>
vi == <<"v", "i">>
Sh == <<"S", "h", " ">>
MCPrelude ==
  [sets |-> <<[name |-> "shells", values |-> <<Text(sh), Text(<<"z", "s", "h">>)>>],
              [name |-> "ports", values |-> <<Lit(1), Lit(2)>>]>>,
   predicates |->
     <<[name |-> "is_shell", params |-> <<"proc">>,
        body |-> <<"In", At(<<"proc", "name">>), Id("shells")>>],
       [name |-> "privileged_shell", params |-> <<"proc">>,
        body |-> And(<<"Call", "is_shell", <<Id("proc")>>>>,
                     Cmp("Eq", At(<<"proc", "uid">>), Lit(0)))],
       [name |-> "external_c2", params |-> <<"endpoint", "limit">>,
        body |-> And(Cmp("Eq", At(<<"endpoint", "is_internal">>), <<"Bool", FALSE>>),
                     <<"Or", <<"In", At(<<"endpoint", "port">>), Id("ports")>>,
                       Cmp("Gt", At(<<"endpoint", "port">>), Id("limit"))>>)]>>]

(* The segments of field paths in string order. *)
Segments == <<"baseline", "comm_id", "database", "db", "db_port", "dest", "dns", "domain",
  "dst_vertex_id", "elevated", "event", "event_type", "host", "host_id", "hosts", "hour", "id",
  "ip", "is_business_hour", "is_internal", "name", "network", "parent", "pid", "port", "ppid",
  "process", "process_id", "processes", "reputation", "risk_score", "tables", "time", "ts_ns",
  "uid", "user", "value", "vertex_id">>
Collation == [s \in {Segments[i] : i \in DOMAIN Segments} |->
                CHOOSE i \in DOMAIN Segments : Segments[i] = s]

MCWorld ==
  [lower |-> [S |-> "s"], numbers |-> (<<"2">> :> 2), ip_text |-> (9 :> <<"9">>) @@ (5 :> <<"5">>),
   ip_literals |-> (<<"i", "9">> :> 9), domain_like |-> {<<"e", ".", "c">>},
   resolved |-> (<<"e", ".", "c">> :> {9}), cgroups |-> <<>>, internal |-> {5},
   health |-> [session_id |-> None, state |-> "offline", enabled |-> FALSE,
               state_text |-> <<"o">>, handshake |-> 0, rx |-> 0, tx |-> 0],
   now |-> 0, host_id |-> <<"h">>, hostname |-> <<"h">>, entropy |-> <<>>,
   local_time |-> [t \in 0..9 |-> [weekday |-> <<"m">>, wday |-> 1, hour |-> 8 + t, minute |-> 0]],
   collation |-> Collation, shells |-> {sh},
   string_sets |-> (<<"org", "c2">> :> {<<"e", ".", "c">>}), ip_sets |-> (<<"org", "ips">> :> {9}),
   feeds |-> <<>>,
   lookup |-> [host |-> (<<"h">> :> <<"obj", [baseline |-> <<"obj", [processes |-> ListOf(<<Str(vi)>>)]>>]>>),
               user |-> <<>>,
               images |-> (<<"x">> :> <<"obj", [allowed_processes |-> ListOf(<<Str(vi)>>)]>>),
               workloads |-> <<>>]]

Ev(type, comm, uid, ip, port, tables) ==
  [event_type |-> type, pid |-> 7, uid |-> uid, comm |-> comm, vertex_id |-> 7,
   dst_vertex_id |-> 3, comm_id |-> 1, risk_score |-> 0, cgroup_id |-> 0, net_dst_ip |-> ip,
   net_dst_port |-> port, query_hash |-> 0, query_class |-> 0, db_port |-> 1, tables |-> tables,
   database |-> None, data_len |-> 0, operation |-> 0, dns_query |-> <<>>, dns_hash |-> 0]
MCEvents == {Ev(1, sh, 0, 0, 0, <<>>), Ev(1, Sh, 1, 0, 0, <<>>), Ev(3, vi, 1, 9, 3, <<>>),
             Ev(4, vi, 1, 0, 0, <<sh, vi, sh>>)}
----------------------------------------------------------------------------
From(domain, event) == [domain |-> domain, event |-> event, alias |-> ""]
Arm(domain, event, alias, join) ==
  [domain |-> domain, event |-> event, alias |-> alias, join |-> join]
Proc == [from |-> <<From("endpoint", "process")>>,
         body |-> [kind |-> "Match", arms |-> <<Arm("process", "exec", "p", None)>>]]
Flow == [from |-> <<From("network", "flow")>>,
         body |-> [kind |-> "Match", arms |-> <<Arm("network", "connect", "n", None)>>]]
Query == [from |-> <<>>, body |-> [kind |-> "Match", arms |-> <<Arm("db", "query", "q", None)>>]]
Pair == [from |-> <<From("endpoint", "process"), From("network", "flow")>>,
         body |-> [kind |-> "Correlate",
                   arms |-> <<Arm("process", "exec", "p", None),
                              Arm("network", "connect", "n",
                                  <<"OnPredicate", Cmp("Eq", At(<<"p", "pid">>),
                                                       At(<<"n", "process_id">>))>>)>>]]

(* One source for two arms, and a name that no arm binds. *)
Beside == [from |-> <<From("network", "flow")>>,
           body |-> [kind |-> "Correlate",
                     arms |-> <<Arm("network", "connect", "n", <<"ByVariable", "p">>),
                                Arm("dns", "query", "q", None)>>]]

Act(kind, target) == [kind |-> kind, target |-> target]
Alert == Act("Alert", <<>>)
Egress == Act("BlockEgress", <<"host">>)
Sql == Act("BlockQuery", <<"host">>)
Branch(cond, actions) == [condition |-> cond, actions |-> actions]
Plain == [lets |-> <<>>, score |-> [base |-> 50, modifiers |-> <<>>], require |-> <<>>,
          verify |-> <<>>, emit |-> <<>>, respond |-> <<Branch(None, <<Alert>>)>>]
Rule(name, on, where, rest) ==
  [name |-> name, sources |-> on.from, body |-> on.body, where |-> where, within |-> "",
   require |-> rest.require, lets |-> rest.lets, score |-> rest.score, verify |-> rest.verify,
   emit |-> rest.emit, respond |-> rest.respond]
Unit(id, sets, predicates, rules) ==
  [id |-> id, parses |-> TRUE, imports |-> <<<<"org">>>>, sets |-> sets,
   predicates |-> predicates, facts |-> <<>>, rules |-> rules]

name == At(<<"p", "name">>)
Call(f, args) == <<"Call", f, args>>

(* Predicates, sets, derivations, responses and memory. *)
First == Unit("a", <<[name |-> "ports", values |-> <<Lit(3)>>]>>,
  <<[name |-> "noisy", params |-> <<"e">>, body |-> Cmp("Ge", Call("rate", <<Id("e"), <<"Duration", 2, "S">>>>), Lit(2))]>>,
  <<Rule("privileged", Proc, Call("privileged_shell", <<Id("p")>>),
         [Plain EXCEPT !.respond = <<Branch(Cmp("Gt", At(<<"p", "uid">>), Lit(0)), <<Sql>>),
                                     Branch(None, <<Egress, Alert>>)>>]),
    Rule("c2", Flow, Call("external_c2", <<At(<<"n", "dest">>), Lit(8)>>),
         [Plain EXCEPT !.respond = <<Branch(None, <<Egress>>)>>]),
    Rule("scored", Proc, <<"Between", At(<<"p", "uid">>), Lit(0), <<"BinOp", "Sub", Lit(3), Lit(2)>>>>,
         [Plain EXCEPT !.lets = <<[name |-> "size", value |-> Call("len", <<name>>)],
                                  [name |-> "twice", value |-> <<"BinOp", "Mul", Id("size"), Lit(2)>>]>>,
                       !.score = [base |-> 10, modifiers |->
                          <<[delta |-> 5, condition |-> Cmp("Gt", Id("twice"), Lit(4))],
                            [delta |-> -3, condition |-> Cmp("Eq", Id("score"), Lit(15))]>>],
                       !.require = <<Cmp("Ne", Id("score"), Lit(10))>>,
                       !.respond = <<Branch(Cmp("Lt", Id("score"), Lit(13)), <<Sql>>)>>]),
    Rule("first_seen", Proc, <<"Rare", name>>,
         [Plain EXCEPT !.verify = <<<<"p", "name">>>>,
                       !.emit = <<[fact |-> "seen", args |-> <<name, Id("shells")>>]>>]),
    Rule("bursts", Proc, And(<<"NotIn", name, Id("shells")>>, Call("noisy", <<name>>)), Plain)>>)

Off == <<"Not", <<"Or", Cmp("Le", <<"UnaryMinus", At(<<"p", "ppid">>)>>, Lit(-3)),
                  <<"EndsWith", name, Text(<<"i">>)>>>>>>

(* A later definition of a predicate, lists, patterns, lookups and joins.  *)
Second == Unit("b", <<>>,
  <<[name |-> "is_shell", params |-> <<"proc">>,
     body |-> <<"Matches", At(<<"proc", "name">>), <<"(", "s", "*", "|", "z", "?", "h", ")">>>>]>>,
  <<Rule("shells", Proc, <<"Or", Call("privileged_shell", <<Id("p")>>),
                           <<"Under", name, <<"List", <<Text(<<"z">>), Text(<<"v">>)>>>>>>>>, Plain),
    Rule("tables", Query, And(<<"Contains", At(<<"q", "tables">>), Text(vi)>>,
                              Cmp("Eq", <<"Count", <<"Distinct", At(<<"q", "tables">>)>>>>, Lit(2))), Plain),
    Rule("known_bad", Pair, <<"Or", Cmp("Eq", At(<<"n", "dest", "domain">>), Text(<<"e", ".", "c">>)),
                              <<"In", At(<<"n", "dest", "ip">>), At(<<"org", "ips">>)>>>>,
         [Plain EXCEPT !.respond = <<Branch(<<"Contains", <<"Member", <<"Member", Call("host", <<At(<<"p", "host_id">>)>>),
                                                 "baseline">>, "processes">>, name>>, <<Egress>>)>>]),
    Rule("tamper", Beside, And(And(Cmp("Eq", At(<<"n", "dest", "port">>), Lit(3)),
                                   Cmp("Eq", At(<<"q", "pid">>), Lit(7))),
                               <<"NotIn", At(<<"p", "parent", "name">>), Id("shells")>>), Plain),
    Rule("unlike", Proc, <<"UnusualFor", name, <<"h">>>>, Plain),
    Rule("off", Proc, Off, Plain)>>)

(* Compiled before fields and calls were described. *)
Early == Unit("f", <<>>, <<>>,
  <<Rule("off", Proc, Off, Plain),
    Rule("db", Query, <<"Contains", At(<<"q", "tables">>), Text(sh)>>, Plain),
    Rule("new", Flow, And(Cmp("Eq", At(<<"n", "dest", "port">>), Lit(3)), <<"Rare", At(<<"n", "process_id">>)>>), Plain)>>)

(* A predicate that calls itself: no artifact.  A unit that does not parse. *)
Endless == Unit("c", <<>>, <<[name |-> "again", params |-> <<>>, body |-> Call("again", <<>>)]>>,
                <<Rule("never", Proc, Call("again", <<>>), Plain)>>)
Broken == [Unit("d", <<>>, <<>>, <<>>) EXCEPT !.parses = FALSE]
(* A call the compiler lets pass and the agent does not know. *)
Unheard == Unit("e", <<>>, <<>>, <<Rule("odd", Proc, Call("frob", <<name>>), Plain)>>)

MCProjects == <<<<First, Endless>>, <<Broken, Second>>, <<First, Unheard>>, <<Early>>>>
MCOlder == {4}

(* Two events and a replacement, with a crash and a fault or with a        *)
(* rollback; or three replacements and no event, with a rollback and a     *)
(* fault.                                                                  *)
Budget(events, deploys, crashes, signals, faults) ==
  [events |-> events, deploys |-> deploys, crashes |-> crashes, signals |-> signals,
   faults |-> faults]
MCBudgets == {Budget(2, 1, 1, 0, 1), Budget(2, 1, 0, 1, 0), Budget(0, 3, 0, 1, 1)}
============================================================================
