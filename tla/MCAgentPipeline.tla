--------------------------- MODULE MCAgentPipeline ---------------------------
(* Instances of AgentPipeline: small streams of kernel records and calls of *)
(* the statement guard, one failure at most in each world.                  *)
EXTENDS AgentPipeline

R(kind, pid, dst, ts) ==
  [valid |-> TRUE, kind |-> kind, pid |-> pid, dst |-> dst, ip |-> dst, comm |-> "p", ts |-> ts,
   class |-> 3, write |-> FALSE, large |-> TRUE, deny |-> TRUE]
Bad == [R(1, 2, 2, 0) EXCEPT !.valid = FALSE]

Drop == [hash |-> 7, class |-> 3, fits |-> TRUE]
Read == [hash |-> 8, class |-> 1, fits |-> TRUE]
Count == [hash |-> 6, class |-> 1, fits |-> TRUE]
Long == [hash |-> 9, class |-> 3, fits |-> FALSE]
Q(text) == [kind |-> "query", key |-> 0, text |-> text]
P(kind, key, text) == [kind |-> kind, key |-> key, text |-> text]

Idle == [r \in Resources |-> 0]
Busy == [r \in Resources |-> 100]
NoCalls == [t \in {1, 2} |-> <<>>]

Quiet == [stream |-> <<>>, calls |-> NoCalls, pids |-> [t \in {1, 2} |-> 20 + t], signal |-> FALSE,
          failsAt |-> 0, badFrame |-> -1, dump |-> "off", enforce |-> TRUE, failClosed |-> TRUE,
          deadlines |-> FALSE, procReadable |-> TRUE, replayFails |-> FALSE,
          samples |-> {Idle}]

MCWorlds ==
  { [Quiet EXCEPT !.stream = <<R(3, 2, 5, 3), R(3, 2, 5, 5), R(3, 2, 5, 4)>>],
    [Quiet EXCEPT !.stream = <<R(2, 2, 5, 1), Bad, R(3, 1, 6, 2), R(3, 2, 6, 3)>>,
                  !.signal = TRUE, !.failsAt = 3],
    [Quiet EXCEPT !.stream = <<R(5, 2, 5, 1), R(6, 2, 6, 2), R(7, 3, 6, 3)>>,
                  !.samples = {Busy}, !.badFrame = 1],
    [Quiet EXCEPT !.calls = <<<<Q(Drop)>>, <<Q(Read)>>>>],
    [Quiet EXCEPT !.calls = <<<<P("pg_prepare", 1, Drop), P("execute", 1, NoText), Q(Read)>>, <<>>>>,
                  !.failClosed = FALSE, !.deadlines = TRUE],
    [Quiet EXCEPT !.calls = <<<<P("mysql_prepare", 2, Drop), P("execute", 2, NoText), Q(Long)>>, <<>>>>,
                  !.enforce = FALSE, !.failsAt = 1, !.signal = TRUE],
    [Quiet EXCEPT !.calls = <<<<P("pg_prepare", 1, Read), P("pg_prepare", 1, Count),
                                P("execute", 1, NoText)>>, <<P("mysql_prepare", 2, Read)>>>>],
    [Quiet EXCEPT !.calls = <<<<P("pg_prepare", 1, Read), P("mysql_prepare", 1, Long),
                                P("execute", 1, NoText)>>, <<>>>>],
    [Quiet EXCEPT !.stream = <<R(1, 2, 3, 1)>>, !.dump = "refuses"],
    [Quiet EXCEPT !.stream = <<R(1, 2, 3, 1)>>, !.dump = "takes", !.replayFails = TRUE,
                  !.calls = <<<<Q(Read)>>, <<>>>>],
    [Quiet EXCEPT !.stream = <<R(1, 2, 3, 1)>>, !.procReadable = FALSE,
                  !.failsAt = 1] }

MCRules ==
  << [name |-> "exfil", kinds |-> {3, 7}, classes |-> {0}, risk |-> 1, egress |-> TRUE, query |-> FALSE],
     [name |-> "noisy", kinds |-> {2, 3}, classes |-> {0}, risk |-> 6000, egress |-> FALSE, query |-> FALSE],
     [name |-> "ddl", kinds |-> {4}, classes |-> {3, 4}, risk |-> 0, egress |-> FALSE, query |-> TRUE] >>

MCBaseline == [r \in Resources |-> IF r = "net" THEN 1 ELSE 4]
MCThreads == {1, 2}
MCWorkers == {1}
=============================================================================
