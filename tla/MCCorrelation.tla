--------------------------- MODULE MCCorrelation ---------------------------
(* Two flush workers, three hosts of two tenants, two programs.            *)
EXTENDS Correlation

At(p) == <<"Path", p>>
Eq(l, r) == <<"Cmp", "Eq", l, r>>
Text(s) == <<"Str", s>>
From(domain, event) == [domain |-> domain, event |-> event, alias |-> ""]
Arm(domain, event, alias, join) == [domain |-> domain, event |-> event, alias |-> alias, join |-> join]
On(e) == <<"OnPredicate", e>>
Within(n) == <<"Duration", n, "Ms">>
Plain == [lets |-> <<>>, score |-> [base |-> 50, modifiers |-> <<>>], require |-> <<>>,
          verify |-> <<>>, emit |-> <<>>, respond |-> <<>>]
Rule(name, sources, kind, arms, where, within, rest) ==
  [name |-> name, sources |-> sources, body |-> [kind |-> kind, arms |-> arms], where |-> where,
   within |-> within] @@ rest

Proc == Arm("process", "exec", "p", None)
Flow(join) == Arm("network", "connect", "n", join)

(* A shell and a connection of the process it runs in. *)
Beacon == Rule("beacon", <<From("endpoint", "process"), From("network", "flow")>>, "Correlate",
  <<Proc, Flow(On(Eq(At(<<"p", "pid">>), At(<<"n", "process_id">>))))>>,
  Eq(At(<<"p", "name">>), Text(<<"sh">>)), Within(2),
  [Plain EXCEPT !.respond = <<[condition |-> <<"Cmp", "Ge", <<"Ident", "score">>, <<"Int", 60>>>>,
                               actions |-> <<[kind |-> "Isolate", target |-> <<>>]>>]>>])

(* A process name that has hardly been seen, remembered as a fact. *)
Rarely == Rule("rarely", <<From("endpoint", "process")>>, "Match", <<Proc>>,
  <<"And", <<"Call", "rare", <<At(<<"p", "name">>)>>>>,
           <<"Cmp", "Le", <<"Call", "rate", <<At(<<"p", "name">>), Within(1)>>>>, <<"Int", 9>>>>>>,
  None, [Plain EXCEPT !.emit = <<[fact |-> "seen", args |-> <<At(<<"host", "id">>)>>, expires |-> Within(1)]>>])

(* A connection to a known address, from a host with a fresh fact. *)
Known == Rule("known", <<From("network", "flow")>>, "Match", <<Flow(None)>>,
  <<"And", <<"In", At(<<"n", "dest", "ip">>), At(<<"org", "c2">>)>>,
           <<"Call", "has_fact", <<Text(<<"seen">>)>>>>>>, None, Plain)

(* Three steps of one process, joined by nothing but where they ran. *)
Chain == Rule("chain", <<From("endpoint", "process"), From("endpoint", "file"), From("network", "flow")>>,
  "Match", <<Proc, Arm("file", "open", "f", None), Flow(None)>>, None, Within(2), Plain)

Compiled(rs) == lower_runtime_program(lower_program([sets |-> <<>>, predicates |-> <<>>, rules |-> rs]))
MCPrograms == <<Compiled(<<Beacon, Rarely>>), Compiled(<<Beacon, Chain, Known>>)>>

Actor == [pid |-> Num(7), tgid |-> Num(7), uid |-> Num(0), gid |-> Num(0), comm |-> Str(<<"sh">>),
          attrs |-> <<>>]
Exec(ts) == [kind |-> "ProcessExec",
             data |-> [ppid |-> Num(1), filename |-> Str(<<"sh">>), ts_unix_ms |-> ts] @@ Actor]
Open(ts) == [kind |-> "File", data |-> [path |-> Str(<<"x">>), operation |-> Str(<<"r">>),
                                        ts_unix_ms |-> ts] @@ Actor]
Connect(ts) == [kind |-> "Net",
                data |-> [direction |-> Str(<<"out">>), protocol |-> Str(<<"tcp">>), src_ip |-> Null,
                          dst_ip |-> Str(<<"10.9">>), src_port |-> Null, dst_port |-> Num(3),
                          ts_unix_ms |-> ts] @@ Actor]
Named(n, e) == [e EXCEPT !.data.comm = Str(n), !.data.filename = Str(n)]
Through(port, ts) == [Connect(ts) EXCEPT !.data.src_port = Num(port)]
Batch(tenant, host, id, events) == [tenant |-> tenant, host |-> host, id |-> id, events |-> events]

Exec1 == Batch("t", "h", "1", <<Exec(1)>>)
MCStreams ==
  {[a |-> <<Exec1>>, b |-> <<Batch("t", "i", "2", <<Connect(3)>>)>>],             \* two hosts
   [a |-> <<Exec1, Batch("t", "h", "2", <<Open(2), Connect(2)>>)>>, b |-> <<>>],  \* a chain
   [a |-> <<Exec1>>, b |-> <<Batch("u", "j", "3", <<Connect(NoStamp)>>)>>],       \* two tenants
   (* Names that push each other out, a late event behind a new one, a full    *)
   (* bucket, and two connections that differ in nothing an id covers.         *)
   [a |-> <<Batch("t", "h", "1", <<Exec(1), Named(<<"vi">>, Exec(1))>>),
            Batch("t", "h", "2", <<Named(<<"ed">>, Exec(5)), Exec(2), Exec(3),
                                   Through(1, 4), Through(2, 4)>>)>>, b |-> <<>>]}
MCEarlyStreams == {[a |-> <<>>, b |-> <<Batch("t", "i", "3", <<Connect(3)>>)>>]}
MCFeeds == (<<"org", "c2">> :> <<{}, {<<"10.9">>}>>)
MCFeedType == (<<"org", "c2">> :> "ip")
MCAddresses == {<<"10.9">>}
MCLower == <<>>
Segments == <<"db", "network", "p", "pid", "process", "process_id">>
MCCollation == [s \in ToSet(Segments) |-> CHOOSE i \in DOMAIN Segments : Segments[i] = s]
MCWorkers == {"a", "b"}
=============================================================================
