------------------------ MODULE AgentPipelineProofs ------------------------
(***************************************************************************)
(* The agent's loop for any rules, streams, calls, threads, workers and    *)
(* capacities, and whatever fails: statements are forwarded on their own   *)
(* verdict, events are accounted for at every point of the loop, every     *)
(* match of a rule is alerted unless a send failed, and the snapshot of    *)
(* the graph has the newest of the events merged.  The inductive           *)
(* invariants are GuardInv and StatementInv for the statement guard,       *)
(* LoopInv for the loop and GraphInv for the graph.                        *)
(***************************************************************************)
EXTENDS AgentPipeline, AgentPipelineLemmas

-----------------------------------------------------------------------------
(* The statement guard. *)

\* The agent starts with nothing asked.
LEMMA GuardInitially == Init => GuardInv
  <1> SUFFICES ASSUME Init PROVE GuardInv
    OBVIOUS
  <1>1. NoText \in Texts /\ "none" \in Answers
    BY DEF NoText, Texts, Answers
  <1>2. GuardTypes
    <2>1. \A t \in Threads : world.calls[t] \in Seq(Calls)
      BY WorldsAssumption, Zenon DEF Init, Calls
    <2> QED
      BY <1>1, <2>1 DEF Init, GuardInit, GuardTypes, ThreadStates, IdleWorker
  <1>3. backlog = <<>> /\ requests = <<>> /\ judged = {} /\ forwarded = {}
    BY DEF Init, GuardInit
  <1>4. BacklogInv /\ RequestsInv
    BY <1>3 DEF BacklogInv, RequestsInv
  <1>5. JudgedInv /\ ForwardedIsJudged
    BY <1>3, Zenon DEF JudgedInv, ForwardedIsJudged
  <1>6. WorkerInv
    BY DEF Init, GuardInit, WorkerInv, IdleWorker
  <1>7. AnswerInv
    BY DEF Init, GuardInit, AnswerInv
  <1> QED
    BY <1>2, <1>4, <1>5, <1>6, <1>7, Zenon DEF GuardInv

\* Nor is anything prepared.
LEMMA StatementsInitially == Init => StatementInv
  <1> SUFFICES ASSUME Init PROVE StatementInv
    OBVIOUS
  <1>1. OwnKeys
    BY WorldsAssumption, Zenon DEF Init, OwnKeys
  <1>2. /\ \A t \in Threads : guard[t].pc = "idle"
        /\ DOMAIN prepared = {}
    BY DEF Init, GuardInit
  <1>3. AskInv
    BY <1>2 DEF AskInv
  <1>4. CacheInv /\ PrepareInv
    BY <1>2 DEF CacheInv, PrepareInv, Preparing
  <1> QED
    BY <1>1, <1>3, <1>4 DEF StatementInv

\* Every step of the agent, its clients and its environment.
LEMMA GuardStep == GuardInv /\ StatementInv /\ [Next]_vars => GuardInv' /\ StatementInv'
  <1> SUFFICES ASSUME GuardInv, StatementInv, [Next]_vars PROVE GuardInv' /\ StatementInv'
    OBVIOUS
  <1>1. CASE UNCHANGED vars
    BY <1>1, GuardStutters, StatementStutters DEF vars
  <1>2. CASE KernelWrites \/ Signal \/ Tick
    BY <1>2, GuardStutters, StatementStutters DEF KernelWrites, Signal, Tick
  <1>3. CASE StartPass \/ Shutdown \/ DrainEnds \/ SqlEnds
    BY <1>3, GuardStutters, StatementStutters DEF StartPass, Shutdown, DrainEnds, SqlEnds
  <1>4. CASE Ingest
    BY <1>4, GuardStutters, StatementStutters, Zenon DEF Ingest
  <1>5. CASE AnswerSql
    <2>1. requests # <<>> /\ world' = world
      BY <1>5 DEF AnswerSql
    <2>2. PICK e, s, x, written :
            process_sql_policy_event(x, s) /\ Judged(e, written)
      BY <1>5, Zenon DEF AnswerSql, process_sql_policy_event, WithVerdict
    <2>3. CASE written.panicked
      BY <2>1, <2>2, <2>3, GuardStutters, StatementStutters DEF Judged
    <2>4. CASE ~written.panicked
      <3>1. reply(Blocks(e))
        BY <2>2, <2>4 DEF Judged
      <3>2. Blocks(e) \in BOOLEAN
        BY DEF Blocks
      <3> QED
        <4>1. StatementInv'
          BY <2>1, <3>1, StatementsStay DEF reply
        <4> QED
          BY <2>1, <3>1, <3>2, <4>1, ReplyKeeps
    <2> QED
      BY <2>3, <2>4
  <1>6. CASE SchedulerTick \/ SchedulerNotDue
    BY <1>6, GuardStutters, StatementStutters DEF SchedulerTick, SchedulerNotDue
  <1>7. CASE HousekeepingTick \/ HousekeepingNotDue
    BY <1>7, GuardStutters, StatementStutters, Zenon DEF HousekeepingTick, HousekeepingNotDue
  <1>8. CASE Clients
    BY <1>8, GuardNextKeeps, StatementNextKeeps DEF Clients, Outside, StatementInv
  <1>9. CASE Service
    BY <1>9, ServiceKeeps, ServiceKeepsStatements DEF Service, Outside
  <1> QED
    BY <1>1, <1>2, <1>3, <1>4, <1>5, <1>6, <1>7, <1>8, <1>9 DEF Next, MainLoop

\* Whatever the threads, the workers and the main loop do in whatever order,
\* and however late an answer comes: a statement is forwarded on a verdict
\* only if the main loop let the text the database runs pass for that very
\* call, and a guard that fails closed forwards no other; a prepared one is
\* excepted whose last text only the guard or only the database has taken.
THEOREM ForwardedOnVerdict == Spec => []ForwardedIsJudged
  <1>1. GuardInv => ForwardedIsJudged
    BY DEF GuardInv
  <1> QED
    BY <1>1, GuardInitially, StatementsInitially, GuardStep, PTL DEF Spec

-----------------------------------------------------------------------------
(* The rules. *)

\* The rules are tried one after the other.
EvaluateAt(e) ==
  CHOOSE at : at = [n \in 0 .. Len(Rules) |->
                      IF n = 0 THEN <<>>
                      ELSE IF matches(Rules[n], e) THEN Append(at[n - 1], Rules[n]) ELSE at[n - 1]]

\* What evaluate has after each rule follows from what it had before.
LEMMA EvaluateUnfolds ==
    ASSUME NEW e, Len(Rules) \in Nat
    PROVE  /\ evaluate(e) = EvaluateAt(e)[Len(Rules)]
           /\ EvaluateAt(e)[0] = <<>>
           /\ \A k \in 1 .. Len(Rules) :
                EvaluateAt(e)[k] = IF matches(Rules[k], e) THEN Append(EvaluateAt(e)[k - 1], Rules[k])
                                   ELSE EvaluateAt(e)[k - 1]
  <1> DEFINE m == Len(Rules)
             first == <<>>
             Step(x, k) == IF matches(Rules[k], e) THEN Append(x, Rules[k]) ELSE x
             Run(g, j) == g = [k \in 0 .. j |-> IF k = 0 THEN first ELSE Step(g[k - 1], k)]
             S == {j \in 0 .. m : \E g : Run(g, j)}
             at == EvaluateAt(e)
  <1>1. m \in Nat
    OBVIOUS
  <1>2. evaluate(e) = at[m]
    BY DEF evaluate, EvaluateAt
  <1>3. (\E g : Run(g, m)) => Run(at, m)
    BY Zenon DEF EvaluateAt
  <1> HIDE DEF m, first, Step, at
  <1>4. 0 \in S
    <2> DEFINE g == [k \in 0 .. 0 |-> first]
    <2>1. g = [k \in 0 .. 0 |-> IF k = 0 THEN first ELSE Step(g[k - 1], k)]
      OBVIOUS
    <2>2. Run(g, 0) /\ 0 \in 0 .. m
      BY <1>1, <2>1
    <2> HIDE DEF g
    <2> QED
      BY <2>2
  <1>5. ASSUME NEW j \in 0 .. m, j < m, j \in S PROVE j + 1 \in S
    <2>1. PICK g : Run(g, j)
      BY <1>5
    <2> DEFINE h == [k \in 0 .. j + 1 |-> IF k = j + 1 THEN Step(g[j], j + 1) ELSE g[k]]
    <2>2. ASSUME NEW k \in 0 .. j + 1
          PROVE  h[k] = IF k = 0 THEN first ELSE Step(h[k - 1], k)
      <3>1. CASE k = j + 1
        <4>1. k # 0 /\ k - 1 = j /\ j \in 0 .. j + 1 /\ j # j + 1
          BY <3>1
        <4>2. h[j] = g[j] /\ h[k] = Step(g[j], j + 1)
          BY <3>1, <4>1
        <4> HIDE DEF h
        <4> QED
          BY <3>1, <4>1, <4>2
      <3>2. CASE k # j + 1
        <4>1. k \in 0 .. j /\ (k # 0 => k - 1 \in 0 .. j + 1 /\ k - 1 # j + 1)
          BY <3>2
        <4>2. g[k] = IF k = 0 THEN first ELSE Step(g[k - 1], k)
          BY <2>1, <4>1
        <4>3. h[k] = g[k] /\ (k # 0 => h[k - 1] = g[k - 1])
          BY <3>2, <4>1
        <4> HIDE DEF h
        <4> QED
          BY <4>2, <4>3
      <3> QED
        BY <3>1, <3>2
    <2>3. h = [k \in 0 .. j + 1 |-> h[k]]
      OBVIOUS
    <2> HIDE DEF h
    <2>4. Run(h, j + 1)
      BY <2>2, <2>3
    <2>5. j + 1 \in 0 .. m
      BY <1>1, <1>5
    <2> QED
      BY <2>4, <2>5
  <1>6. m \in S
    <2> HIDE DEF S
    <2>1. \A j \in 0 .. m : j < m /\ j \in S => j + 1 \in S
      BY <1>5
    <2>2. \A j \in 0 .. m : j \in S
      BY <1>1, <1>4, <2>1, UpwardInduction
    <2> QED
      BY <1>1, <2>2
  <1>7. Run(at, m)
    BY <1>3, <1>6
  <1>8. at[0] = first /\ \A k \in 1 .. m : at[k] = Step(at[k - 1], k)
    <2>1. 0 \in 0 .. m /\ \A k \in 1 .. m : k \in 0 .. m /\ k # 0
      BY <1>1
    <2> QED
      BY <1>7, <2>1, Zenon
  <1> QED
    BY <1>2, <1>8 DEF m, first, Step, at

RuleSet == [name : STRING, kinds : SUBSET Nat, classes : SUBSET Nat, risk : Nat,
            egress : BOOLEAN, query : BOOLEAN]

\* The rules an event matches are a sequence of rules, and so are their names.
LEMMA EvaluateTyped ==
    ASSUME NEW e
    PROVE  /\ evaluate(e) \in Seq(RuleSet) /\ Len(evaluate(e)) \in Nat
           /\ AlertNames(e) \in Seq(STRING) /\ Len(AlertNames(e)) = Len(evaluate(e))
  <1> DEFINE n == Len(Rules)
             at == EvaluateAt(e)
             S == {k \in 0 .. n : at[k] \in Seq(RuleSet)}
  <1>1. Rules \in Seq(RuleSet)
    BY RulesAssumption DEF RuleSet
  <1>2. n \in Nat /\ \A k \in 1 .. n : Rules[k] \in RuleSet
    BY <1>1
  <1>3. /\ evaluate(e) = at[n] /\ at[0] = <<>>
        /\ \A k \in 1 .. n : at[k] = IF matches(Rules[k], e) THEN Append(at[k - 1], Rules[k]) ELSE at[k - 1]
    BY <1>2, EvaluateUnfolds
  <1> HIDE DEF n, at
  <1>4. 0 \in S
    <2>1. at[0] \in Seq(RuleSet)
      BY <1>3
    <2> QED
      BY <1>2, <2>1
  <1>5. ASSUME NEW k \in 0 .. n, k < n, k \in S PROVE k + 1 \in S
    <2>1. k + 1 \in 1 .. n /\ k + 1 \in 0 .. n /\ (k + 1) - 1 = k
      BY <1>2, <1>5
    <2>2. at[k + 1] = at[k] \/ at[k + 1] = Append(at[k], Rules[k + 1])
      BY <1>3, <2>1, Zenon
    <2>3. at[k] \in Seq(RuleSet) /\ Rules[k + 1] \in RuleSet
      BY <1>2, <1>5, <2>1
    <2>4. at[k + 1] \in Seq(RuleSet)
      <3>1. CASE at[k + 1] = at[k]
        BY <2>3, <3>1
      <3>2. CASE at[k + 1] = Append(at[k], Rules[k + 1])
        BY <2>3, <3>2
      <3> QED
        BY <2>2, <3>1, <3>2
    <2> QED
      BY <2>1, <2>4
  <1>6. n \in S
    <2> HIDE DEF S
    <2>1. \A k \in 0 .. n : k < n /\ k \in S => k + 1 \in S
      BY <1>5
    <2>2. \A k \in 0 .. n : k \in S
      BY <1>2, <1>4, <2>1, UpwardInduction
    <2> QED
      BY <1>2, <2>2
  <1>7. evaluate(e) \in Seq(RuleSet)
    BY <1>3, <1>6
  <1>8. Len(evaluate(e)) \in Nat /\ DOMAIN evaluate(e) = 1 .. Len(evaluate(e))
    BY <1>7
  <1>9. \A i \in DOMAIN evaluate(e) : evaluate(e)[i].name \in STRING
    <2>1. \A i \in DOMAIN evaluate(e) : evaluate(e)[i] \in RuleSet
      BY <1>7
    <2> QED
      BY <2>1 DEF RuleSet
  <1>10. AlertNames(e) \in Seq(STRING) /\ Len(AlertNames(e)) = Len(evaluate(e))
    BY <1>8, <1>9 DEF AlertNames
  <1> QED
    BY <1>7, <1>8, <1>10

-----------------------------------------------------------------------------
(* The scheduler. *)

\* The selected events are pushed one after the other.
PushAllAt(selected, a) ==
  CHOOSE at : at = [n \in 0 .. Len(selected) |-> IF n = 0 THEN a ELSE PushNext(at[n - 1], selected[n])]

\* Where the batcher is after each event follows from where it was before.
LEMMA PushAllUnfolds ==
    ASSUME NEW selected, Len(selected) \in Nat, NEW a
    PROVE  /\ PushAll(selected, a) = PushAllAt(selected, a)[Len(selected)]
           /\ PushAllAt(selected, a)[0] = a
           /\ \A k \in 1 .. Len(selected) : PushAllAt(selected, a)[k] = PushNext(PushAllAt(selected, a)[k - 1], selected[k])
  <1> DEFINE m == Len(selected)
             first == a
             Step(x, k) == PushNext(x, selected[k])
             Run(g, j) == g = [k \in 0 .. j |-> IF k = 0 THEN first ELSE Step(g[k - 1], k)]
             S == {j \in 0 .. m : \E g : Run(g, j)}
             at == PushAllAt(selected, a)
  <1>1. m \in Nat
    OBVIOUS
  <1>2. PushAll(selected, a) = at[m]
    BY DEF PushAll, PushAllAt
  <1>3. (\E g : Run(g, m)) => Run(at, m)
    BY Zenon DEF PushAllAt
  <1> HIDE DEF m, first, Step, at
  <1>4. 0 \in S
    <2> DEFINE g == [k \in 0 .. 0 |-> first]
    <2>1. g = [k \in 0 .. 0 |-> IF k = 0 THEN first ELSE Step(g[k - 1], k)]
      OBVIOUS
    <2>2. Run(g, 0) /\ 0 \in 0 .. m
      BY <1>1, <2>1
    <2> HIDE DEF g
    <2> QED
      BY <2>2
  <1>5. ASSUME NEW j \in 0 .. m, j < m, j \in S PROVE j + 1 \in S
    <2>1. PICK g : Run(g, j)
      BY <1>5
    <2> DEFINE h == [k \in 0 .. j + 1 |-> IF k = j + 1 THEN Step(g[j], j + 1) ELSE g[k]]
    <2>2. ASSUME NEW k \in 0 .. j + 1
          PROVE  h[k] = IF k = 0 THEN first ELSE Step(h[k - 1], k)
      <3>1. CASE k = j + 1
        <4>1. k # 0 /\ k - 1 = j /\ j \in 0 .. j + 1 /\ j # j + 1
          BY <3>1
        <4>2. h[j] = g[j] /\ h[k] = Step(g[j], j + 1)
          BY <3>1, <4>1
        <4> HIDE DEF h
        <4> QED
          BY <3>1, <4>1, <4>2
      <3>2. CASE k # j + 1
        <4>1. k \in 0 .. j /\ (k # 0 => k - 1 \in 0 .. j + 1 /\ k - 1 # j + 1)
          BY <3>2
        <4>2. g[k] = IF k = 0 THEN first ELSE Step(g[k - 1], k)
          BY <2>1, <4>1
        <4>3. h[k] = g[k] /\ (k # 0 => h[k - 1] = g[k - 1])
          BY <3>2, <4>1
        <4> HIDE DEF h
        <4> QED
          BY <4>2, <4>3
      <3> QED
        BY <3>1, <3>2
    <2>3. h = [k \in 0 .. j + 1 |-> h[k]]
      OBVIOUS
    <2> HIDE DEF h
    <2>4. Run(h, j + 1)
      BY <2>2, <2>3
    <2>5. j + 1 \in 0 .. m
      BY <1>1, <1>5
    <2> QED
      BY <2>4, <2>5
  <1>6. m \in S
    <2> HIDE DEF S
    <2>1. \A j \in 0 .. m : j < m /\ j \in S => j + 1 \in S
      BY <1>5
    <2>2. \A j \in 0 .. m : j \in S
      BY <1>1, <1>4, <2>1, UpwardInduction
    <2> QED
      BY <1>1, <2>2
  <1>7. Run(at, m)
    BY <1>3, <1>6
  <1>8. at[0] = first /\ \A k \in 1 .. m : at[k] = Step(at[k - 1], k)
    <2>1. 0 \in 0 .. m /\ \A k \in 1 .. m : k \in 0 .. m /\ k # 0
      BY <1>1
    <2> QED
      BY <1>7, <2>1, Zenon
  <1> QED
    BY <1>2, <1>8 DEF m, first, Step, at

TickStates == [batcher : Batchers, attempts : Nat, sent : Seq(Nat), failed : BOOLEAN]

\* What was handed over before a tick, what the tick has sent, what it holds.
Flow(h, x) == (h \o x.sent) \o x.batcher.queue

\* The fields of the state of a tick.
LEMMA TickFields ==
    ASSUME NEW x \in TickStates
    PROVE  /\ x.batcher \in Batchers /\ x.attempts \in Nat /\ x.sent \in Seq(Nat)
           /\ x.failed \in BOOLEAN
           /\ \A b \in Batchers, n \in Nat, s \in Seq(Nat), f \in BOOLEAN :
                [batcher |-> b, attempts |-> n, sent |-> s, failed |-> f] \in TickStates
           /\ \A b \in Batchers :
                LET z == [x EXCEPT !.batcher = b]
                IN /\ z \in TickStates /\ z.batcher = b /\ z.sent = x.sent
                   /\ z.attempts = x.attempts /\ z.failed = x.failed
  <1> DEFINE Q == Seq(Nat)
  <1>1. TickStates = [batcher : Batchers, attempts : Nat, sent : Q, failed : BOOLEAN]
    BY DEF TickStates
  <1> HIDE DEF Q
  <1>2. x.batcher \in Batchers /\ x.attempts \in Nat /\ x.sent \in Q /\ x.failed \in BOOLEAN
    BY <1>1
  <1>3. \A b \in Batchers, n \in Nat, s \in Q, f \in BOOLEAN :
          [batcher |-> b, attempts |-> n, sent |-> s, failed |-> f] \in TickStates
    BY <1>1
  <1>4. ASSUME NEW b \in Batchers
        PROVE  LET z == [x EXCEPT !.batcher = b]
               IN /\ z \in TickStates /\ z.batcher = b /\ z.sent = x.sent
                  /\ z.attempts = x.attempts /\ z.failed = x.failed
    BY <1>1
  <1> QED
    BY <1>2, <1>3, <1>4 DEF Q

\* A flush moves the frames it holds, none is added and none is lost.
LEMMA FlushFlow ==
    ASSUME NEW h \in Seq(Nat), NEW x \in TickStates, ~x.failed
    PROVE  /\ FlushTo(x) \in TickStates /\ FlushTo(x).attempts >= x.attempts
           /\ ~FlushTo(x).failed =>
                /\ Flow(h, FlushTo(x)) = Flow(h, x)
                /\ FlushTo(x).batcher.total_dropped = x.batcher.total_dropped
  <1>1. PICK b : b = x.batcher
    OBVIOUS
  <1>2. b \in Batchers /\ x.attempts \in Nat /\ x.sent \in Seq(Nat)
    BY <1>1, TickFields
  <1>3. b.queue \in Seq(Nat) /\ b.total_dropped \in Nat
    BY <1>2, BatcherTypes
  <1>4. CASE b.queue = <<>>
    BY <1>1, <1>2, <1>4 DEF FlushTo
  <1>5. CASE b.queue # <<>>
    <2>1. PICK y : y = FlushTo(x)
      OBVIOUS
    <2>2. PICK c : c = batcher_flush(b)
      OBVIOUS
    <2>3. c \in Batchers /\ c.queue = <<>> /\ c.total_dropped = b.total_dropped
      <3>1. c = [b EXCEPT !.queue = <<>>, !.age = 0]
        BY <1>5, <2>2, Zenon DEF batcher_flush
      <3>2. <<>> \in Seq(Nat)
        OBVIOUS
      <3> QED
        BY <1>2, <3>1, <3>2, BatcherFields, Zenon
    <2>4. PICK f : f = Fails(x.attempts + 1)
      OBVIOUS
    <2>5. f \in BOOLEAN
      BY <2>4 DEF Fails
    <2>6. PICK sent \in Seq(Nat) : sent = IF f THEN x.sent ELSE x.sent \o b.queue
      <3>1. x.sent \o b.queue \in Seq(Nat)
        BY <1>2, <1>3, Concatenation
      <3> QED
        BY <1>2, <3>1, Zenon
    <2>7. y = [batcher |-> c, attempts |-> x.attempts + 1, sent |-> sent, failed |-> f]
      BY <1>1, <1>5, <2>1, <2>2, <2>4, <2>6, Zenon DEF FlushTo
    <2>8. x.attempts + 1 \in Nat /\ x.attempts + 1 >= x.attempts
      BY <1>2
    <2>9. /\ y.batcher = c /\ y.attempts = x.attempts + 1 /\ y.sent = sent
          /\ y.failed = f /\ y \in TickStates
      BY <2>3, <2>5, <2>6, <2>7, <2>8, TickFields, Zenon
    <2>10. ASSUME ~y.failed PROVE Flow(h, y) = Flow(h, x)
      <3>1. y.sent = x.sent \o b.queue /\ y.batcher.queue = <<>>
        BY <2>3, <2>6, <2>9, <2>10, Zenon
      <3>2. ASSUME NEW p \in Seq(Nat), NEW q \in Seq(Nat) PROVE (h \o (p \o q)) \o <<>> = (h \o p) \o q
        OBVIOUS
      <3>3. (h \o (x.sent \o b.queue)) \o <<>> = (h \o x.sent) \o b.queue
        BY <1>2, <1>3, <3>2, Zenon
      <3> QED
        BY <1>1, <3>1, <3>3, Zenon DEF Flow
    <2> QED
      BY <1>1, <2>1, <2>3, <2>8, <2>9, <2>10
  <1> QED
    BY <1>4, <1>5

\* A frame that is pushed is held, sent or counted as dropped.
LEMMA PushFlow ==
    ASSUME NEW h \in Seq(Nat), NEW x \in TickStates, ~x.failed, IsInjective(Flow(h, x)),
           NEW id \in Nat, id \notin Range(Flow(h, x)), NEW y, y = PushNext(x, id)
    PROVE  /\ y \in TickStates /\ y.attempts >= x.attempts
           /\ ~y.failed =>
                /\ IsInjective(Flow(h, y)) /\ Range(Flow(h, y)) \subseteq Range(Flow(h, x)) \cup {id}
                /\ Len(Flow(h, y)) + y.batcher.total_dropped
                     = Len(Flow(h, x)) + x.batcher.total_dropped + 1
  <1>1. PICK b, p, z :
          /\ b = x.batcher /\ p = batcher_push(b, id, id # world.badFrame)
          /\ z = [x EXCEPT !.batcher = p.batcher]
    BY Zenon
  <1>2. b \in Batchers /\ x.attempts \in Nat /\ x.sent \in Seq(Nat)
    BY <1>1, TickFields
  <1>3. b.queue \in Seq(Nat) /\ b.total_dropped \in Nat /\ Append(b.queue, id) \in Seq(Nat)
    BY <1>2, BatcherTypes, Concatenation
  <1>4. /\ p.batcher \in Batchers
        /\ \/ p.batcher.queue = b.queue /\ p.batcher.total_dropped = b.total_dropped + 1
           \/ p.batcher.queue = Append(b.queue, id) /\ p.batcher.total_dropped = b.total_dropped
    <2>1. \/ p.batcher = [b EXCEPT !.total_dropped = @ + 1]
          \/ p.batcher = [b EXCEPT !.queue = Append(b.queue, id)]
      BY <1>1, <1>2 DEF batcher_push, PushedTo
    <2>2. CASE p.batcher = [b EXCEPT !.total_dropped = @ + 1]
      BY <1>2, <1>3, <2>2, BatcherFields, Zenon
    <2>3. CASE p.batcher = [b EXCEPT !.queue = Append(b.queue, id)]
      <3>1. PICK q \in Seq(Nat) : q = Append(b.queue, id)
        BY <1>3, Zenon
      <3>2. p.batcher = [b EXCEPT !.queue = q]
        BY <2>3, <3>1, Zenon
      <3>3. p.batcher \in Batchers /\ p.batcher.queue = q /\ p.batcher.total_dropped = b.total_dropped
        <4>1. b \in Batchers
          BY <1>2
        <4>2. LET c == [b EXCEPT !.queue = q]
              IN c \in Batchers /\ c.queue = q /\ c.total_dropped = b.total_dropped
          BY <4>1, BatcherFields, Zenon
        <4> QED
          BY <3>2, <4>2, Zenon
      <3> QED
        BY <3>1, <3>3, Zenon
    <2> QED
      BY <2>1, <2>2, <2>3
  <1>5. z \in TickStates /\ z.batcher = p.batcher /\ z.sent = x.sent /\ z.attempts = x.attempts /\ ~z.failed
    BY <1>1, <1>4, TickFields
  <1>6. PICK u, v : u = h \o x.sent /\ v = u \o b.queue
    BY Zenon
  <1>7. Flow(h, x) = v /\ u \in Seq(Nat) /\ v \in Seq(Nat) /\ Len(v) \in Nat
    <2>1. u \in Seq(Nat)
      BY <1>2, <1>6, Concatenation
    <2>2. v \in Seq(Nat) /\ Len(v) \in Nat
      BY <1>3, <1>6, <2>1, Concatenation, Zenon
    <2> QED
      BY <1>1, <1>6, <2>1, <2>2, Zenon DEF Flow
  <1>8. Flow(h, z) = u \o p.batcher.queue
    BY <1>5, <1>6 DEF Flow
  <1>9. /\ IsInjective(Flow(h, z)) /\ Range(Flow(h, z)) \subseteq Range(v) \cup {id}
        /\ Len(Flow(h, z)) + z.batcher.total_dropped = Len(v) + b.total_dropped + 1
    <2>1. CASE p.batcher.queue = b.queue /\ p.batcher.total_dropped = b.total_dropped + 1
      <3>1. Flow(h, z) = v
        BY <1>6, <1>8, <2>1
      <3>2. Len(v) + (b.total_dropped + 1) = Len(v) + b.total_dropped + 1
        BY <1>3, <1>7
      <3> QED
        BY <1>5, <1>7, <2>1, <3>1, <3>2, Zenon
    <2>2. CASE p.batcher.queue = Append(b.queue, id) /\ p.batcher.total_dropped = b.total_dropped
      <3>1. u \o Append(b.queue, id) = Append(v, id)
        <4>1. PICK q \in Seq(Nat) : q = b.queue
          BY <1>3, Zenon
        <4>2. u \in Seq(Nat)
          BY <1>7, Zenon
        <4>3. u \o Append(q, id) = Append(u \o q, id)
          BY <4>2
        <4> QED
          BY <1>6, <4>1, <4>3, Zenon
      <3>2. Flow(h, z) = Append(v, id)
        BY <1>8, <2>2, <3>1
      <3>3. Len(Append(v, id)) + b.total_dropped = Len(v) + b.total_dropped + 1
        <4>1. Len(Append(v, id)) = Len(v) + 1
          BY <1>7, Concatenation
        <4>2. ASSUME NEW k \in Nat, NEW l \in Nat, NEW m, m = k + 1 PROVE m + l = k + l + 1
          BY <4>2
        <4> QED
          BY <1>3, <1>7, <4>1, <4>2, Zenon
      <3>4. IsInjective(Append(v, id)) /\ Range(Append(v, id)) = Range(v) \cup {id}
        BY <1>7, AppendDistinct
      <3> QED
        BY <1>5, <2>2, <3>2, <3>3, <3>4
    <2> QED
      BY <1>4, <2>1, <2>2, Zenon
  <1>10. y = FlushTo(z) \/ y = z
    BY <1>1 DEF PushNext, Pushed
  <1>11. x.attempts >= x.attempts
    BY <1>2
  <1>12. /\ y \in TickStates /\ y.attempts >= x.attempts
         /\ ~y.failed =>
              /\ IsInjective(Flow(h, y)) /\ Range(Flow(h, y)) \subseteq Range(Flow(h, x)) \cup {id}
              /\ Len(Flow(h, y)) + y.batcher.total_dropped
                   = Len(Flow(h, x)) + x.batcher.total_dropped + 1
    <2>1. CASE y = z
      BY <1>1, <1>5, <1>7, <1>9, <1>11, <2>1, Zenon
    <2>2. CASE y = FlushTo(z)
      <3>1. /\ y \in TickStates /\ y.attempts >= z.attempts
            /\ ~y.failed => /\ Flow(h, y) = Flow(h, z)
                            /\ y.batcher.total_dropped = z.batcher.total_dropped
        BY <1>5, <2>2, FlushFlow
      <3> QED
        BY <1>1, <1>5, <1>7, <1>9, <3>1, Zenon
    <2> QED
      BY <1>10, <2>1, <2>2, Zenon
  <1> QED
    BY <1>12, Zenon

\* A tick that does not fail has every frame it was given, once, unless it
\* counts it as dropped.
LEMMA TickFlow ==
    ASSUME NEW h \in Seq(Nat), NEW x \in TickStates, ~x.failed, IsInjective(Flow(h, x)),
           NEW selected \in Seq(Nat), IsInjective(selected),
           \A i \in DOMAIN selected : selected[i] \notin Range(Flow(h, x))
    PROVE  LET y == FlushIfReady(PushAll(selected, x))
           IN /\ y \in TickStates /\ y.attempts >= x.attempts
              /\ ~y.failed =>
                   /\ IsInjective(Flow(h, y))
                   /\ Range(Flow(h, y)) \subseteq Range(Flow(h, x)) \cup Range(selected)
                   /\ Len(Flow(h, y)) + y.batcher.total_dropped
                        = Len(Flow(h, x)) + x.batcher.total_dropped + Len(selected)
  <1> DEFINE n == Len(selected)
             at == PushAllAt(selected, x)
             F == Range(Flow(h, x))
             L == Len(Flow(h, x)) + x.batcher.total_dropped
             Good(y, k) == /\ y \in TickStates /\ y.attempts >= x.attempts
                           /\ ~y.failed =>
                                /\ IsInjective(Flow(h, y))
                                /\ Range(Flow(h, y)) \subseteq F \cup {selected[i] : i \in 1 .. k}
                                /\ Len(Flow(h, y)) + y.batcher.total_dropped = L + k
             S == {k \in 0 .. n : Good(at[k], k)}
  <1>1. n \in Nat /\ DOMAIN selected = 1 .. n /\ \A k \in 1 .. n : selected[k] \in Nat
    OBVIOUS
  <1>2. /\ PushAll(selected, x) = at[n] /\ at[0] = x
        /\ \A k \in 1 .. n : at[k] = PushNext(at[k - 1], selected[k])
    <2>1. Len(selected) \in Nat
      OBVIOUS
    <2>2. /\ PushAll(selected, x) = PushAllAt(selected, x)[Len(selected)]
          /\ PushAllAt(selected, x)[0] = x
          /\ \A k \in 1 .. Len(selected) :
               PushAllAt(selected, x)[k] = PushNext(PushAllAt(selected, x)[k - 1], selected[k])
      BY <2>1, PushAllUnfolds
    <2> QED
      BY <2>2, Zenon
  <1>3. \A p, q \in 1 .. n : selected[p] = selected[q] => p = q
    BY <1>1, Zenon DEF IsInjective
  <1>4. \A y \in TickStates : /\ y.attempts \in Nat /\ y.batcher.total_dropped \in Nat
                              /\ Flow(h, y) \in Seq(Nat) /\ Len(Flow(h, y)) \in Nat
    <2> TAKE y \in TickStates
    <2>1. y.batcher \in Batchers /\ y.attempts \in Nat /\ y.sent \in Seq(Nat)
      BY TickFields
    <2>2. y.batcher.queue \in Seq(Nat) /\ y.batcher.total_dropped \in Nat
      BY <2>1, BatcherTypes
    <2>3. ASSUME NEW p \in Seq(Nat), NEW q \in Seq(Nat)
          PROVE  (h \o p) \o q \in Seq(Nat) /\ Len((h \o p) \o q) \in Nat
      OBVIOUS
    <2> QED
      BY <2>1, <2>2, <2>3, Zenon DEF Flow
  <1>5. L \in Nat /\ \A k \in 1 .. n : selected[k] \notin F
    <2>1. L \in Nat
      <3>1. Len(Flow(h, x)) \in Nat /\ x.batcher.total_dropped \in Nat
        BY <1>4, Zenon
      <3> QED
        BY <3>1
    <2> QED
      BY <1>1, <2>1, Zenon
  <1>6. Good(x, 0)
    BY <1>4
  <1> HIDE DEF n, at, F
  <1>14. 0 \in 0 .. n /\ \A k \in 0 .. n : k < n => /\ k + 1 \in 1 .. n /\ k + 1 \in 0 .. n
                                                      /\ (k + 1) - 1 = k /\ k \in Nat
    BY <1>1
  <1>7. 0 \in S
    BY <1>2, <1>6, <1>14, Zenon
  <1>8. ASSUME NEW k \in 0 .. n, k < n, k \in S PROVE k + 1 \in S
    <2>1. k + 1 \in 1 .. n /\ k + 1 \in 0 .. n /\ (k + 1) - 1 = k /\ k \in Nat
      BY <1>8, <1>14, Zenon
    <2>2. PICK y, z, id : y = at[k] /\ z = at[k + 1] /\ id = selected[k + 1]
      OBVIOUS
    <2>3. z = PushNext(y, id) /\ id \in Nat
      BY <1>1, <1>2, <2>1, <2>2
    <2>4. Good(y, k)
      BY <1>8, <2>2, Zenon
    <2>5. CASE y.failed
      <3>1. z = y
        BY <2>3, <2>5 DEF PushNext
      <3> QED
        BY <2>1, <2>2, <2>4, <2>5, <3>1, Zenon
    <2>6. CASE ~y.failed
      <3>1. id \notin F /\ id \notin {selected[i] : i \in 1 .. k}
        <4>1. \A i \in 1 .. k : i \in 1 .. n /\ i # k + 1
          BY <1>1, <2>1
        <4> QED
          BY <1>3, <1>5, <2>1, <2>2, <4>1, Zenon
      <3>2. id \notin Range(Flow(h, y))
        BY <2>4, <2>6, <3>1
      <3>3. /\ z \in TickStates /\ z.attempts >= y.attempts
            /\ ~z.failed =>
                 /\ IsInjective(Flow(h, z)) /\ Range(Flow(h, z)) \subseteq Range(Flow(h, y)) \cup {id}
                 /\ Len(Flow(h, z)) + z.batcher.total_dropped
                      = Len(Flow(h, y)) + y.batcher.total_dropped + 1
        <4>1. h \in Seq(Nat) /\ y \in TickStates /\ IsInjective(Flow(h, y))
          BY <2>4, <2>6, Zenon
        <4> HIDE DEF Good
        <4> QED
          BY <2>3, <2>6, <3>2, <4>1, PushFlow
      <3>4. z.attempts >= x.attempts
        <4>1. x.attempts \in Nat /\ y.attempts \in Nat /\ z.attempts \in Nat
          BY <1>4, <2>4, <3>3, Zenon
        <4>2. z.attempts >= y.attempts /\ y.attempts >= x.attempts
          BY <2>4, <3>3, Zenon
        <4> QED
          BY <4>1, <4>2
      <3>5. ASSUME ~z.failed
            PROVE  /\ Range(Flow(h, z)) \subseteq F \cup {selected[i] : i \in 1 .. k + 1}
                   /\ Len(Flow(h, z)) + z.batcher.total_dropped = L + (k + 1)
        <4>1. \A i \in 1 .. k : i \in 1 .. k + 1
          BY <2>1
        <4>2. id \in {selected[i] : i \in 1 .. k + 1}
          BY <2>1, <2>2
        <4>3. Range(Flow(h, z)) \subseteq F \cup {selected[i] : i \in 1 .. k + 1}
          BY <2>4, <2>6, <3>3, <3>5, <4>1, <4>2, Zenon
        <4>4. Len(Flow(h, z)) + z.batcher.total_dropped = L + k + 1
          BY <2>4, <2>6, <3>3, <3>5, Zenon
        <4> HIDE DEF L
        <4>5. L + k + 1 = L + (k + 1)
          BY <1>5, <2>1
        <4> QED
          BY <4>3, <4>4, <4>5
      <3>6. Good(z, k + 1)
        BY <3>3, <3>4, <3>5, Zenon
      <3> QED
        BY <2>1, <2>2, <3>6, Zenon
    <2> QED
      BY <2>5, <2>6, Zenon
  <1>9. n \in S
    <2> HIDE DEF S
    <2>1. \A k \in 0 .. n : k < n /\ k \in S => k + 1 \in S
      BY <1>8
    <2>2. \A k \in 0 .. n : k \in S
      BY <1>1, <1>7, <2>1, UpwardInduction, Zenon
    <2> QED
      BY <1>1, <2>2
  <1>10. PICK y, z : y = PushAll(selected, x) /\ z = FlushIfReady(y)
    OBVIOUS
  <1>11. Good(y, n)
    BY <1>2, <1>9, <1>10, Zenon
  <1>12. Good(z, n)
    <2>1. CASE z = y
      BY <1>11, <2>1, Zenon
    <2>2. CASE z = FlushTo(y) /\ ~y.failed
      <3>1. /\ z \in TickStates /\ z.attempts >= y.attempts
            /\ ~z.failed => /\ Flow(h, z) = Flow(h, y)
                            /\ z.batcher.total_dropped = y.batcher.total_dropped
        BY <1>11, <2>2, FlushFlow, Zenon
      <3>2. z.attempts >= x.attempts
        <4>1. x.attempts \in Nat /\ y.attempts \in Nat /\ z.attempts \in Nat
          BY <1>4, <1>11, <3>1, Zenon
        <4>2. z.attempts >= y.attempts /\ y.attempts >= x.attempts
          BY <1>11, <3>1, Zenon
        <4> QED
          BY <4>1, <4>2
      <3> QED
        BY <1>11, <2>2, <3>1, <3>2, Zenon
    <2> QED
      BY <1>10, <2>1, <2>2, Zenon DEF FlushIfReady
  <1>13. {selected[i] : i \in 1 .. n} = Range(selected)
    BY <1>1 DEF Range
  <1> QED
    BY <1>10, <1>12, <1>13, Zenon DEF n, F

-----------------------------------------------------------------------------
(* The invariant of the main loop. *)

EventsOf(c) == {i \in DOMAIN seen : seen[i].comm = c}
Denied == {i \in DOMAIN seen : Egress(seen[i])}

\* The summaries sent and the digests held count every event once.
MetricsInv ==
  /\ IsFiniteSet(DOMAIN metrics)
  /\ \A i \in DOMAIN seen : seen[i].comm \in DOMAIN metrics
  /\ \A c \in DOMAIN metrics :
       /\ metrics[c].count \in Nat
       /\ Reported(c) + metrics[c].count = Cardinality(EventsOf(c))
  /\ DOMAIN reported.metrics \subseteq DOMAIN metrics
  /\ \A c \in DOMAIN reported.metrics : reported.metrics[c] \in Nat

CounterSet == [captured : Nat, transmitted : Int, dropped : Int]

\* What the store, the window, the batcher and the sender have.
FlowTypes ==
  /\ cursor \in Nat /\ handed \in Seq(Nat) /\ batcher \in Batchers
  /\ IsSequence(store.events) /\ store.total_dropped \in Nat
  /\ store = [events |-> store.events, total_dropped |-> store.total_dropped]
  /\ window \in CounterSet /\ reported.counts \in CounterSet

FlowInv ==
  /\ FlowTypes
  /\ cursor <= Len(store.events)
  /\ reported.counts.captured + window.captured = Len(seen)
  /\ Len(store.events) + store.total_dropped = Len(seen)
  /\ (reported.counts.transmitted + window.transmitted)
       + (reported.counts.dropped + window.dropped) = cursor
  /\ Len(handed) + Len(batcher.queue) + batcher.total_dropped
       = reported.counts.transmitted + window.transmitted
  /\ IsInjective(handed \o batcher.queue)
  /\ \A id \in Range(handed \o batcher.queue) : id < cursor

\* One sequence of alerts for every event.
AlertTypes ==
  /\ world \in Worlds /\ attempts \in Nat
  /\ IsSequence(seen) /\ IsSequence(alerts) /\ Len(alerts) = Len(seen)
  /\ firewall \in [allow : Nat, deny : Nat]

LoopInv == EveryMatchReported /\ (~Ended => AlertTypes /\ FlowInv /\ MetricsInv)

\* The accounts are those of TelemetryAccounted.
LEMMA AccountsHold == LoopInv => TelemetryAccounted
  <1> SUFFICES ASSUME LoopInv, ~Ended PROVE TelemetryAccounted
    BY DEF TelemetryAccounted
  <1>1. FlowInv /\ MetricsInv
    BY DEF LoopInv
  <1>2. Total("captured") = Len(seen) /\ Len(store.events) + store.total_dropped = Len(seen)
    BY <1>1 DEF Total, FlowInv
  <1>3. /\ Total("transmitted") + Total("dropped") = cursor
        /\ Len(handed) + Len(batcher.queue) + batcher.total_dropped = Total("transmitted")
    BY <1>1 DEF Total, FlowInv
  <1>4. IsInjective(handed \o batcher.queue) /\ \A id \in Range(handed \o batcher.queue) : id < cursor
    BY <1>1 DEF FlowInv
  <1>5. /\ \A i \in DOMAIN seen : seen[i].comm \in DOMAIN metrics
        /\ \A c \in DOMAIN metrics :
             Reported(c) + metrics[c].count = Cardinality({i \in DOMAIN seen : seen[i].comm = c})
    BY <1>1, Zenon DEF MetricsInv, EventsOf
  <1> QED
    BY <1>2, <1>3, <1>4, <1>5 DEF TelemetryAccounted

\* The agent starts with nothing seen.
LEMMA LoopInitially == Init => LoopInv
  <1> SUFFICES ASSUME Init PROVE LoopInv
    OBVIOUS
  <1>1. <<>> \in Seq(Nat) /\ IsSequence(<<>>) /\ Len(<<>>) = 0 /\ DOMAIN <<>> = {}
    BY DEF IsSequence
  <1>2. AlertTypes
    BY <1>1 DEF Init, AlertTypes
  <1>3. IsFiniteSet({}) /\ Cardinality({}) = 0
    BY FS_EmptySet
  <1>4. EveryMatchReported
    <2>1. {i \in DOMAIN seen : Egress(seen[i])} = {}
      BY <1>1 DEF Init
    <2> QED
      BY <1>1, <1>3, <2>1 DEF Init, EveryMatchReported
  <1>5. MetricsInv
    BY <1>1, <1>3 DEF Init, MetricsInv
  <1>6. FlowInv
    <2>1. /\ store.events = <<>> /\ store.total_dropped = 0
          /\ store = [events |-> store.events, total_dropped |-> store.total_dropped]
      BY DEF Init, EmptyStore
    <2>2. EmptyBatcher \in Batchers /\ EmptyBatcher.queue = <<>> /\ EmptyBatcher.total_dropped = 0
      BY <1>1 DEF EmptyBatcher, Batchers
    <2>3. NoCounts \in CounterSet /\ NoCounts.captured = 0 /\ NoCounts.transmitted = 0 /\ NoCounts.dropped = 0
      BY DEF NoCounts, CounterSet
    <2>4. FlowTypes
      BY <1>1, <2>1, <2>2, <2>3 DEF Init, FlowTypes
    <2>5. <<>> \o <<>> = <<>> /\ IsInjective(<<>>) /\ Range(<<>>) = {}
      BY DEF IsInjective, Range
    <2> QED
      BY <1>1, <2>1, <2>2, <2>3, <2>4, <2>5 DEF Init, FlowInv
  <1> QED
    BY <1>2, <1>4, <1>5, <1>6 DEF LoopInv

\* Steps that change neither the accounts nor the alerts.
LEMMA LoopStutters ==
    ASSUME LoopInv, Ended => pc' = pc,
           UNCHANGED <<world, attempts, store, metrics, cursor, window, firewall, killed,
                       seen, alerts, handed, reported>>,
           \/ batcher' = batcher
           \/ /\ batcher \in Batchers => batcher' \in Batchers
              /\ batcher \in Batchers => batcher'.queue = batcher.queue
              /\ batcher \in Batchers => batcher'.total_dropped = batcher.total_dropped
    PROVE  LoopInv'
  <1>1. EveryMatchReported'
    BY Zenon DEF LoopInv, EveryMatchReported, Ended
  <1>2. ASSUME ~Ended' PROVE (AlertTypes /\ FlowInv /\ MetricsInv)'
    <2>1. ~Ended
      BY <1>2 DEF Ended
    <2>2. AlertTypes'
      BY <2>1 DEF LoopInv, AlertTypes
    <2>3. MetricsInv'
      BY <2>1, Zenon DEF LoopInv, MetricsInv, Reported, EventsOf
    <2>4. /\ batcher' \in Batchers /\ batcher'.queue = batcher.queue
          /\ batcher'.total_dropped = batcher.total_dropped
      BY <2>1 DEF LoopInv, FlowInv, FlowTypes
    <2>5. FlowInv'
      BY <2>1, <2>4 DEF LoopInv, FlowInv, FlowTypes
    <2> QED
      BY <2>2, <2>3, <2>5
  <1> QED
    BY <1>1, <1>2 DEF LoopInv

-----------------------------------------------------------------------------
(* Metrics. *)

\* One more place.
LEMMA OneMore ==
    ASSUME NEW n \in Nat, NEW A, A \subseteq 1 .. n
    PROVE  Cardinality(A) \in Nat /\ Cardinality(A \cup {n + 1}) = Cardinality(A) + 1
  <1>1. IsFiniteSet(1 .. n)
    BY FS_Interval
  <1>2. IsFiniteSet(A)
    BY <1>1, FS_Subset, Zenon
  <1>3. n + 1 \notin A
    OBVIOUS
  <1> QED
    BY <1>2, <1>3, FS_CardinalityType, FS_AddElement

\* An event is counted for its program and no other.
LEMMA EventCounted ==
    ASSUME IsSequence(seen), NEW e, seen' = Append(seen, e), NEW c
    PROVE  /\ Cardinality(EventsOf(c)) \in Nat
           /\ Cardinality(EventsOf(c)') = Cardinality(EventsOf(c)) + IF e.comm = c THEN 1 ELSE 0
  <1> DEFINE n == Len(seen)
             A == EventsOf(c)
  <1>1. /\ n \in Nat /\ DOMAIN seen = 1 .. n /\ DOMAIN seen' = 1 .. n + 1
        /\ seen'[n + 1] = e /\ \A i \in 1 .. n : seen'[i] = seen[i]
    BY AppendAny
  <1>2. A \subseteq 1 .. n
    BY <1>1 DEF EventsOf
  <1>3. \A i : i \in 1 .. n + 1 <=> i \in 1 .. n \/ i = n + 1
    BY <1>1
  <1>4. EventsOf(c)' = {i \in DOMAIN seen' : seen'[i].comm = c}
    BY DEF EventsOf
  <1>5. A = {i \in DOMAIN seen : seen[i].comm = c}
    BY DEF EventsOf
  <1> HIDE DEF n, A
  <1>6. EventsOf(c)' = IF e.comm = c THEN A \cup {n + 1} ELSE A
    BY <1>1, <1>3, <1>4, <1>5
  <1>7. Cardinality(A) \in Nat /\ Cardinality(A \cup {n + 1}) = Cardinality(A) + 1
    BY <1>1, <1>2, OneMore, Zenon
  <1>8. CASE e.comm = c
    BY <1>6, <1>7, <1>8 DEF A
  <1>9. CASE e.comm # c
    BY <1>6, <1>7, <1>9 DEF A
  <1> QED
    BY <1>8, <1>9

\* The digest of its program takes an event in.
LEMMA MetricsRecorded ==
    ASSUME IsSequence(seen), MetricsInv, NEW e, seen' = Append(seen, e),
           metrics' = record(metrics, e.comm, e.risk), reported' = reported
    PROVE  MetricsInv'
  <1> DEFINE p == e.comm
  <1>1. /\ Len(seen) \in Nat /\ DOMAIN seen = 1 .. Len(seen) /\ DOMAIN seen' = 1 .. Len(seen) + 1
        /\ seen'[Len(seen) + 1] = e /\ \A i \in 1 .. Len(seen) : seen'[i] = seen[i]
    BY AppendAny
  <1>2. DOMAIN metrics' = DOMAIN metrics \cup {p}
    BY Zenon DEF record
  <1>3. \A c \in DOMAIN metrics : c # p => metrics'[c] = metrics[c]
    BY DEF record
  <1>4. metrics'[p].count = IF p \in DOMAIN metrics THEN metrics[p].count + 1 ELSE 1
    <2>1. metrics'[p] = digest_push(IF p \in DOMAIN metrics THEN metrics[p] ELSE EmptyDigest, e.risk)
      BY DEF record
    <2>2. \A d : digest_push(d, e.risk).count = d.count + 1
      BY DEF digest_push
    <2>3. EmptyDigest.count = 0
      BY DEF EmptyDigest
    <2>4. CASE p \in DOMAIN metrics
      BY <2>1, <2>2, <2>4
    <2>5. CASE p \notin DOMAIN metrics
      BY <2>1, <2>2, <2>3, <2>5
    <2> QED
      BY <2>4, <2>5
  <1>5. \A i \in DOMAIN seen' : seen'[i].comm \in DOMAIN metrics'
    <2>1. \A i \in 1 .. Len(seen) + 1 : i \in 1 .. Len(seen) \/ i = Len(seen) + 1
      BY <1>1
    <2> QED
      BY <1>1, <1>2, <2>1, Zenon DEF MetricsInv
  <1>6. \A c : Reported(c)' = Reported(c) /\ (c \in DOMAIN metrics => Reported(c) \in Nat)
               /\ (c \notin DOMAIN metrics => Reported(c) = 0)
    BY Zenon DEF Reported, MetricsInv
  <1>7. ASSUME NEW c \in DOMAIN metrics'
        PROVE  metrics'[c].count \in Nat /\ Reported(c)' + metrics'[c].count = Cardinality(EventsOf(c)')
    <2>1. /\ Cardinality(EventsOf(c)) \in Nat
          /\ Cardinality(EventsOf(c)') = Cardinality(EventsOf(c)) + IF p = c THEN 1 ELSE 0
      BY EventCounted
    <2>2. c \in DOMAIN metrics => /\ metrics[c].count \in Nat /\ Reported(c) \in Nat
                                  /\ Reported(c) + metrics[c].count = Cardinality(EventsOf(c))
      BY <1>6, Zenon DEF MetricsInv
    <2> HIDE DEF p
    <2>6. PICK k, new, q, all :
            k = metrics[c].count /\ new = metrics'[c].count /\ q = Reported(c) /\ all = Cardinality(EventsOf(c))
      OBVIOUS
    <2>7. Reported(c)' = q /\ all \in Nat
          /\ (c \in DOMAIN metrics => k \in Nat /\ q \in Nat /\ q + k = all)
      BY <1>6, <2>1, <2>2, <2>6, Zenon
    <2>3. CASE c \in DOMAIN metrics /\ c # p
      <3>1. new = k /\ Cardinality(EventsOf(c)') = all + 0
        BY <1>3, <2>1, <2>3, <2>6, Zenon
      <3>2. k \in Nat /\ q + k = all + 0
        BY <2>3, <2>7
      <3> QED
        BY <2>6, <2>7, <3>1, <3>2, Zenon
    <2>4. CASE c \in DOMAIN metrics /\ c = p
      <3>1. new = k + 1 /\ Cardinality(EventsOf(c)') = all + 1
        BY <1>4, <2>1, <2>4, <2>6, Zenon
      <3>2. k + 1 \in Nat /\ q + (k + 1) = all + 1
        BY <2>4, <2>7
      <3> QED
        BY <2>6, <2>7, <3>1, <3>2, Zenon
    <2>5. CASE c \notin DOMAIN metrics
      <3>1. c = p
        BY <1>2, <2>5
      <3>2. EventsOf(c) = {}
        BY <2>5 DEF EventsOf, MetricsInv
      <3>3. Cardinality(EventsOf(c)) = 0
        BY <3>2, FS_EmptySet
      <3>4. new = 1 /\ q = 0 /\ all = 0 /\ Cardinality(EventsOf(c)') = all + 1
        BY <1>4, <1>6, <2>1, <2>5, <2>6, <3>1, <3>3, Zenon
      <3>5. 1 \in Nat /\ 0 + 1 = 0 + 1
        OBVIOUS
      <3> QED
        BY <2>6, <2>7, <3>4, <3>5, Zenon
    <2> QED
      BY <2>3, <2>4, <2>5, Zenon
  <1>8. /\ DOMAIN reported'.metrics \subseteq DOMAIN metrics'
        /\ \A c \in DOMAIN reported'.metrics : reported'.metrics[c] \in Nat
    BY <1>2 DEF MetricsInv
  <1>9. IsFiniteSet(DOMAIN metrics')
    BY <1>2, FS_AddElement DEF MetricsInv
  <1> QED
    BY <1>5, <1>7, <1>8, <1>9, Zenon DEF MetricsInv

\* Every digest is in its summary, and starts anew.
LEMMA MetricsFlushed ==
    ASSUME MetricsInv, seen' = seen, metrics' = metrics_flush(metrics).digests,
           reported'.metrics = [c \in DOMAIN metrics |->
                                  Reported(c) + CountIn(metrics_flush(metrics).summaries, c)]
    PROVE  MetricsInv'
  <1> DEFINE sums == metrics_flush(metrics).summaries
             busy == {x \in DOMAIN metrics : metrics[x].count > 0}
  <1>1. sums = {summarize(metrics[c], c) : c \in busy} /\ metrics' = [c \in DOMAIN metrics |-> EmptyDigest]
    BY Zenon DEF metrics_flush
  <1>2. \A c : summarize(metrics[c], c).comm = c /\ summarize(metrics[c], c).count = metrics[c].count
    BY Zenon DEF summarize
  <1>3. EmptyDigest.count = 0
    BY DEF EmptyDigest
  <1> HIDE DEF sums
  <1>4. ASSUME NEW c \in DOMAIN metrics PROVE CountIn(sums, c) = metrics[c].count
    <2>1. ASSUME NEW s \in sums, s.comm = c
          PROVE  c \in busy /\ s.count = metrics[c].count
      <3>1. PICK d \in busy : s = summarize(metrics[d], d)
        BY <1>1, Zenon
      <3>2. s.comm = d /\ s.count = metrics[d].count
        BY <1>2, <3>1, Zenon
      <3>3. d = c
        BY <2>1, <3>2, Zenon
      <3> QED
        BY <3>1, <3>2, <3>3, Zenon
    <2>2. CASE c \in busy
      <3>1. \E s \in sums : s.comm = c
        BY <1>1, <1>2, <2>2, Zenon
      <3> QED
        BY <2>1, <3>1, Zenon DEF CountIn
    <2>3. CASE c \notin busy
      <3>1. metrics[c].count = 0
        BY <2>3 DEF MetricsInv
      <3>2. ~ \E s \in sums : s.comm = c
        BY <2>1, <2>3
      <3> QED
        BY <3>1, <3>2, Zenon DEF CountIn
    <2> QED
      BY <2>2, <2>3
  <1>5. \A c \in DOMAIN metrics : Reported(c) \in Nat /\ metrics[c].count \in Nat
    BY Zenon DEF MetricsInv, Reported
  <1>6. reported'.metrics = [c \in DOMAIN metrics |-> Reported(c) + metrics[c].count]
    BY <1>4 DEF sums
  <1>7. \A c \in DOMAIN metrics : Reported(c)' = Reported(c) + metrics[c].count
    BY <1>6 DEF Reported
  <1>8. ASSUME NEW c \in DOMAIN metrics'
        PROVE  metrics'[c].count \in Nat /\ Reported(c)' + metrics'[c].count = Cardinality(EventsOf(c)')
    <2>1. c \in DOMAIN metrics /\ metrics'[c].count = 0
      BY <1>1, <1>3, Zenon
    <2>2. EventsOf(c)' = EventsOf(c)
      BY Zenon DEF EventsOf
    <2>3. Reported(c)' + 0 = Reported(c) + metrics[c].count
      BY <1>5, <1>7, <2>1
    <2>4. Reported(c) + metrics[c].count = Cardinality(EventsOf(c)) /\ 0 \in Nat
      BY <2>1, Zenon DEF MetricsInv
    <2> QED
      BY <2>1, <2>2, <2>3, <2>4, Zenon
  <1>9. DOMAIN metrics' = DOMAIN metrics
    BY <1>1
  <1>10. /\ DOMAIN reported'.metrics \subseteq DOMAIN metrics'
         /\ \A c \in DOMAIN reported'.metrics : reported'.metrics[c] \in Nat
    BY <1>5, <1>6, <1>9
  <1> QED
    BY <1>8, <1>9, <1>10, Zenon DEF MetricsInv

-----------------------------------------------------------------------------
(* Events. *)

\* A captured event is stored, or refused by the full store.
LEMMA EventStored ==
    ASSUME FlowInv, IsSequence(seen), NEW e, seen' = Append(seen, e),
           store' = store_push(store, e), window' = [window EXCEPT !.captured = @ + 1],
           UNCHANGED <<cursor, handed, batcher, reported>>
    PROVE  FlowInv'
  <1>1. /\ IsSequence(store.events) /\ store.total_dropped \in Nat /\ cursor \in Nat
        /\ store = [events |-> store.events, total_dropped |-> store.total_dropped]
        /\ window \in CounterSet /\ reported.counts \in CounterSet
    BY DEF FlowInv, FlowTypes
  <1>2. Len(seen) \in Nat /\ Len(seen') = Len(seen) + 1
    BY AppendAny
  <1>3. Len(store.events) \in Nat
    BY <1>1, AppendAny
  <1>4. /\ IsSequence(store'.events) /\ store'.total_dropped \in Nat
        /\ store' = [events |-> store'.events, total_dropped |-> store'.total_dropped]
        /\ Len(store'.events) >= Len(store.events) /\ Len(store'.events) \in Nat
        /\ Len(store'.events) + store'.total_dropped = Len(store.events) + store.total_dropped + 1
    <2>1. CASE Len(store.events) >= StoreCapacity
      <3>1. store' = [events |-> store.events, total_dropped |-> store.total_dropped + 1]
        BY <1>1, <2>1 DEF store_push
      <3>2. PICK s, d : s = store.events /\ d = store.total_dropped
        OBVIOUS
      <3>3. IsSequence(s) /\ d \in Nat /\ Len(s) \in Nat /\ store' = [events |-> s, total_dropped |-> d + 1]
        BY <1>1, <1>3, <3>1, <3>2, Zenon
      <3>4. store'.events = s /\ store'.total_dropped = d + 1
        BY <3>3
      <3>5. Len(s) >= Len(s) /\ d + 1 \in Nat /\ Len(s) + (d + 1) = Len(s) + d + 1
        BY <3>3
      <3> QED
        BY <3>2, <3>3, <3>4, <3>5, Zenon
    <2>2. CASE ~(Len(store.events) >= StoreCapacity)
      <3>1. store' = [events |-> Append(store.events, e), total_dropped |-> store.total_dropped]
        BY <1>1, <2>2, Zenon DEF store_push
      <3>2. PICK s : s = Append(store.events, e)
        BY Zenon
      <3>3. IsSequence(s) /\ Len(s) = Len(store.events) + 1
        BY <1>1, <3>2, AppendAny
      <3>4. store' = [events |-> s, total_dropped |-> store.total_dropped]
        BY <3>1, <3>2
      <3> QED
        BY <1>1, <1>3, <3>3, <3>4
    <2> QED
      BY <2>1, <2>2
  <1>5. /\ window' \in CounterSet /\ window'.captured = window.captured + 1
        /\ window'.transmitted = window.transmitted /\ window'.dropped = window.dropped
        /\ window.captured \in Nat /\ reported.counts.captured \in Nat
    BY <1>1 DEF CounterSet
  <1>6. FlowTypes'
    BY <1>4, <1>5 DEF FlowInv, FlowTypes
  <1>7. cursor' <= Len(store'.events)
    BY <1>1, <1>3, <1>4 DEF FlowInv
  <1>8. reported'.counts.captured + window'.captured = Len(seen')
    <2>1. ASSUME NEW a \in Nat, NEW b \in Nat PROVE a + (b + 1) = (a + b) + 1
      OBVIOUS
    <2>2. reported.counts.captured + (window.captured + 1)
            = (reported.counts.captured + window.captured) + 1
      BY <1>5, <2>1
    <2>3. reported.counts.captured + window.captured = Len(seen)
      BY DEF FlowInv
    <2> QED
      BY <1>2, <1>5, <2>2, <2>3
  <1>9. Len(store'.events) + store'.total_dropped = Len(seen')
    BY <1>2, <1>4 DEF FlowInv
  <1> QED
    BY <1>5, <1>6, <1>7, <1>8, <1>9 DEF FlowInv

\* An event with its alerts, its entry in the firewall's count and the process
\* ended for it.
LEMMA EventReported ==
    ASSUME EveryMatchReported, ~Ended, AlertTypes, NEW e, NEW names,
           seen' = Append(seen, e), alerts' = Append(alerts, names), world' = world,
           attempts' \in Nat, attempts' >= attempts,
           \/ names = AlertNames(e)
           \/ e.verdict # 0 /\ world.failsAt \in 1 .. attempts'
           \/ pc' \in {"failed", "panicked"},
           pc' # "panicked" => firewall'.deny = firewall.deny + IF Egress(e) THEN 1 ELSE 0,
           killed' \subseteq killed \cup (IF Egress(e) THEN {e.pid} \ {1, AgentPid} ELSE {})
    PROVE  /\ EveryMatchReported'
           /\ IsSequence(seen') /\ IsSequence(alerts') /\ Len(alerts') = Len(seen')
  <1> DEFINE n == Len(seen)
  <1>1. /\ n \in Nat /\ DOMAIN seen = 1 .. n /\ DOMAIN seen' = 1 .. n + 1 /\ IsSequence(seen')
        /\ seen'[n + 1] = e /\ (\A i \in 1 .. n : seen'[i] = seen[i]) /\ Len(seen') = n + 1
    BY AppendAny DEF AlertTypes
  <1>2. /\ alerts'[n + 1] = names /\ (\A i \in 1 .. n : alerts'[i] = alerts[i])
        /\ IsSequence(alerts') /\ Len(alerts') = n + 1
    BY AppendAny DEF AlertTypes
  <1>3. attempts \in Nat /\ world.failsAt \in Nat /\ pc \notin {"failed", "panicked"}
        /\ firewall.deny \in Nat
    BY WorldsAssumption DEF AlertTypes, Ended
  <1> HIDE DEF n
  <1>4. \A i \in DOMAIN seen' : i \in 1 .. n \/ i = n + 1
    BY <1>1
  <1>5. ASSUME NEW i \in DOMAIN seen'
        PROVE  \/ alerts'[i] = AlertNames(seen'[i])
               \/ seen'[i].verdict # 0 /\ world'.failsAt \in 1 .. attempts'
               \/ i = Len(seen') /\ pc' \in {"failed", "panicked"}
    <2>1. CASE i \in 1 .. n
      <3>1. \/ alerts[i] = AlertNames(seen[i])
            \/ seen[i].verdict # 0 /\ world.failsAt \in 1 .. attempts
        BY <1>1, <1>3, <2>1, Zenon DEF EveryMatchReported
      <3>2. world.failsAt \in 1 .. attempts => world.failsAt \in 1 .. attempts'
        BY <1>3
      <3> QED
        BY <1>1, <1>2, <2>1, <3>1, <3>2
    <2>2. CASE i = n + 1
      BY <1>1, <1>2, <2>2, Zenon
    <2> QED
      BY <1>4, <2>1, <2>2, Zenon
  <1>6. /\ Denied \subseteq 1 .. n
        /\ Denied' = IF Egress(e) THEN Denied \cup {n + 1} ELSE Denied
    <2>1. Denied = {i \in 1 .. n : Egress(seen[i])} /\ Denied' = {i \in 1 .. n + 1 : Egress(seen'[i])}
      BY <1>1, Zenon DEF Denied, Egress
    <2>2. \A i : i \in 1 .. n + 1 <=> i \in 1 .. n \/ i = n + 1
      BY <1>1
    <2> QED
      BY <1>1, <2>1, <2>2
  <1>7. pc' # "panicked" => firewall'.deny = Cardinality(Denied')
    <2>1. firewall.deny = Cardinality(Denied)
      BY <1>3 DEF EveryMatchReported, Denied
    <2>2. Cardinality(Denied \cup {n + 1}) = Cardinality(Denied) + 1
      BY <1>1, <1>6, OneMore, Zenon
    <2>3. CASE Egress(e)
      BY <1>6, <2>1, <2>2, <2>3
    <2>4. CASE ~Egress(e)
      BY <1>3, <1>6, <2>1, <2>4
    <2> QED
      BY <2>3, <2>4
  <1>8. killed' \subseteq {seen'[i].pid : i \in Denied'} \ {1, AgentPid}
    <2>1. killed \subseteq {seen[i].pid : i \in Denied} \ {1, AgentPid}
      BY DEF EveryMatchReported, Denied
    <2>2. \A i \in Denied : i \in Denied' /\ seen'[i].pid = seen[i].pid
      BY <1>1, <1>6
    <2>3. Egress(e) => n + 1 \in Denied' /\ seen'[n + 1].pid = e.pid
      BY <1>1, <1>6
    <2>4. ASSUME NEW p \in killed' PROVE p \notin {1, AgentPid} /\ \E i \in Denied' : seen'[i].pid = p
      <3>1. CASE p \in killed
        <4>1. PICK i \in Denied : seen[i].pid = p
          BY <2>1, <3>1
        <4>2. p \notin {1, AgentPid}
          BY <2>1, <3>1
        <4> QED
          BY <2>2, <4>1, <4>2, Zenon
      <3>2. CASE p \notin killed
        <4>1. Egress(e) /\ p = e.pid /\ p \notin {1, AgentPid}
          BY <3>2
        <4> QED
          BY <2>3, <4>1, Zenon
      <3> QED
        BY <3>1, <3>2, Zenon
    <2> QED
      BY <2>4, Zenon
  <1>9. EveryMatchReported'
    BY <1>5, <1>7, <1>8, Zenon DEF EveryMatchReported, Denied, Egress
  <1> QED
    BY <1>1, <1>2, <1>9

\* Sends in a row: all succeed unless the one that fails is among them.
LEMMA SendsInARow ==
    ASSUME NEW n \in Nat, AlertTypes
    PROVE  /\ Succeeding(n) = n \/ Succeeding(n) < n
           /\ Succeeding(n) # n => world.failsAt \in 1 .. attempts + n
           /\ attempts + n \in Nat /\ attempts + n >= attempts
  <1>1. world.failsAt \in Nat /\ attempts \in Nat
    BY WorldsAssumption DEF AlertTypes
  <1> QED
    BY <1>1 DEF Succeeding

\* All of a sequence.
LEMMA WholeSequence ==
    ASSUME NEW s \in Seq(STRING)
    PROVE  SubSeq(s, 1, Len(s)) = s
  OBVIOUS

\* What both kinds of events do to the store, the metrics and the counters.
LEMMA EventTaken ==
    ASSUME LoopInv, ~Ended, NEW e, NEW written, seen' = Append(seen, e), Record(e, written),
           UNCHANGED <<cursor, handed, batcher, reported>>,
           world' = world, attempts' \in Nat, firewall' \in [allow : Nat, deny : Nat],
           EveryMatchReported', IsSequence(seen'), IsSequence(alerts'), Len(alerts') = Len(seen'),
           Ended' \/ window' = [window EXCEPT !.captured = @ + 1]
    PROVE  LoopInv'
  <1>1. AlertTypes /\ FlowInv /\ MetricsInv
    BY DEF LoopInv
  <1>2. ASSUME ~Ended' PROVE (AlertTypes /\ FlowInv /\ MetricsInv)'
    <2>1. AlertTypes'
      BY <1>1 DEF AlertTypes
    <2>2. FlowInv'
      BY <1>1, <1>2, EventStored DEF AlertTypes, Record
    <2>3. MetricsInv'
      BY <1>1, MetricsRecorded DEF AlertTypes, Record
    <2> QED
      BY <2>1, <2>2, <2>3
  <1> QED
    BY <1>2 DEF LoopInv

\* A kernel event.
LEMMA EventProcessed ==
    ASSUME LoopInv, ~Ended, NEW e, NEW written, Processed(e, written), world' = world,
           UNCHANGED <<cursor, handed, batcher, reported>>
    PROVE  LoopInv'
  <1>1. AlertTypes /\ EveryMatchReported /\ attempts \in Nat /\ firewall \in [allow : Nat, deny : Nat]
    BY DEF LoopInv, AlertTypes
  <1>2. seen' = Append(seen, e) /\ Record(e, written)
    BY DEF Processed
  <1>3. PICK names : alerts' = Append(alerts, names) /\ (names = AlertNames(e) \/ pc' \in {"failed", "panicked"})
    <2>1. CASE written.panicked
      BY <2>1 DEF Processed
    <2>2. CASE ~written.panicked
      <3>1. Len(evaluate(e)) \in Nat /\ AlertNames(e) \in Seq(STRING) /\ Len(AlertNames(e)) = Len(evaluate(e))
        BY EvaluateTyped
      <3>2. /\ alerts' = Append(alerts, SubSeq(AlertNames(e), 1, Succeeding(Len(evaluate(e)))))
            /\ pc' = IF Succeeding(Len(evaluate(e))) < Len(evaluate(e)) THEN "failed" ELSE pc
        BY <2>2 DEF Processed, Alerted
      <3>3. CASE Succeeding(Len(evaluate(e))) = Len(evaluate(e))
        <4>1. SubSeq(AlertNames(e), 1, Succeeding(Len(evaluate(e)))) = AlertNames(e)
          BY <3>1, <3>3, WholeSequence
        <4> QED
          BY <3>2, <4>1, Zenon
      <3>4. CASE Succeeding(Len(evaluate(e))) < Len(evaluate(e))
        BY <3>2, <3>4
      <3> QED
        BY <1>1, <3>1, <3>3, <3>4, SendsInARow
    <2> QED
      BY <2>1, <2>2
  <1>4. attempts' \in Nat /\ attempts' >= attempts
    <2>1. Len(evaluate(e)) \in Nat
      BY EvaluateTyped
    <2>2. attempts' = attempts \/ attempts' = attempts + Len(evaluate(e))
      BY DEF Processed, Alerted
    <2> QED
      BY <1>1, <2>1, <2>2
  <1>5. /\ firewall' \in [allow : Nat, deny : Nat]
        /\ pc' # "panicked" => firewall'.deny = firewall.deny + IF Egress(e) THEN 1 ELSE 0
        /\ killed' \subseteq killed \cup (IF Egress(e) THEN {e.pid} \ {1, AgentPid} ELSE {})
    <2>1. CASE written.panicked
      BY <1>1, <2>1 DEF Processed
    <2>2. CASE ~written.panicked
      <3>1. Firewall(e)
        BY <2>2 DEF Processed
      <3>2. enforce_block_egress_pid(e) \subseteq {e.pid} \ {1, AgentPid}
        BY DEF enforce_block_egress_pid
      <3>3. CASE Egress(e)
        <4>1. e.kind = 3
          BY <3>3 DEF Egress
        <4> QED
          BY <1>1, <3>1, <3>2, <3>3, <4>1 DEF Firewall
      <3>4. CASE ~Egress(e)
        BY <1>1, <3>1, <3>4 DEF Firewall
      <3> QED
        BY <3>3, <3>4
    <2> QED
      BY <2>1, <2>2
  <1>6. /\ EveryMatchReported'
        /\ IsSequence(seen') /\ IsSequence(alerts') /\ Len(alerts') = Len(seen')
    BY <1>1, <1>2, <1>3, <1>4, <1>5, EventReported
  <1>7. Ended' \/ window' = [window EXCEPT !.captured = @ + 1]
    BY DEF Processed, Ended
  <1> QED
    BY <1>2, <1>4, <1>5, <1>6, <1>7, EventTaken

\* A statement of the guard.
LEMMA StatementProcessed ==
    ASSUME LoopInv, ~Ended, NEW e, NEW written, e.kind = 4, e.verdict # 0, Judged(e, written),
           world' = world, UNCHANGED <<cursor, handed, batcher, reported, firewall, killed>>
    PROVE  LoopInv'
  <1>1. AlertTypes /\ EveryMatchReported /\ attempts \in Nat /\ firewall \in [allow : Nat, deny : Nat]
    BY DEF LoopInv, AlertTypes
  <1>2. seen' = Append(seen, e) /\ Record(e, written) /\ ~Egress(e)
    BY DEF Judged, Egress
  <1>3. Len(evaluate(e)) \in Nat
    BY EvaluateTyped
  <1>4. PICK names : /\ alerts' = Append(alerts, names)
                     /\ \/ names = AlertNames(e)
                        \/ world.failsAt \in 1 .. attempts'
                        \/ pc' \in {"failed", "panicked"}
    <2>1. CASE written.panicked
      BY <2>1 DEF Judged
    <2>2. CASE ~written.panicked
      <3>1. alerts' = Append(alerts, SqlAlerts(e)) /\ attempts' = attempts + Len(evaluate(e))
        BY <2>2 DEF Judged
      <3>2. Succeeding(Len(evaluate(e))) # Len(evaluate(e)) => world.failsAt \in 1 .. attempts + Len(evaluate(e))
        BY <1>1, <1>3, SendsInARow
      <3> QED
        BY <3>1, <3>2, Zenon DEF SqlAlerts
    <2> QED
      BY <2>1, <2>2
  <1>5. attempts' \in Nat /\ attempts' >= attempts
    <2>1. attempts' = attempts \/ attempts' = attempts + Len(evaluate(e))
      BY DEF Judged
    <2> QED
      BY <1>1, <1>3, <2>1
  <1>6. /\ pc' # "panicked" => firewall'.deny = firewall.deny + IF Egress(e) THEN 1 ELSE 0
        /\ killed' \subseteq killed \cup (IF Egress(e) THEN {e.pid} \ {1, AgentPid} ELSE {})
    BY <1>1, <1>2
  <1>7. /\ EveryMatchReported'
        /\ IsSequence(seen') /\ IsSequence(alerts') /\ Len(alerts') = Len(seen')
    BY <1>1, <1>2, <1>4, <1>5, <1>6, EventReported
  <1>8. Ended' \/ window' = [window EXCEPT !.captured = @ + 1]
    BY DEF Judged, Ended
  <1> QED
    BY <1>1, <1>2, <1>5, <1>7, <1>8, EventTaken

-----------------------------------------------------------------------------
(* The scheduler and the housekeeping. *)

\* The events that wait for the scheduler are those from the cursor on.
LEMMA EventsWaiting ==
    ASSUME NEW n \in Nat, NEW c \in Nat, c <= n, NEW ids, ids = [i \in 1 .. (n - c) |-> c + i - 1]
    PROVE  /\ ids \in Seq(Nat) /\ IsInjective(ids) /\ Len(ids) = n - c
           /\ \A id \in Range(ids) : c <= id /\ id < n
           /\ CursorAfter(c, ids) = n
  <1>1. PICK m \in Nat : m = n - c
    OBVIOUS
  <1>2. ids = [i \in 1 .. m |-> c + i - 1] /\ \A i \in 1 .. m : c + i - 1 \in Nat /\ c <= c + i - 1 /\ c + i - 1 < n
    BY <1>1
  <1>3. ids \in Seq(Nat) /\ Len(ids) = m /\ DOMAIN ids = 1 .. m
    BY <1>2
  <1>4. IsInjective(ids)
    BY <1>2, <1>3 DEF IsInjective
  <1>5. \A id \in Range(ids) : c <= id /\ id < n
    BY <1>2, <1>3 DEF Range
  <1>6. CursorAfter(c, ids) = n
    <2>1. CASE m = 0
      <3>1. ids = <<>>
        BY <1>3, <2>1
      <3> QED
        BY <1>1, <2>1, <3>1 DEF CursorAfter
    <2>2. CASE m # 0
      <3>1. ids # <<>> /\ ids[Len(ids)] = c + m - 1
        BY <1>2, <1>3, <2>2
      <3> QED
        BY <1>1, <3>1 DEF CursorAfter
    <2> QED
      BY <2>1, <2>2
  <1> QED
    BY <1>1, <1>3, <1>4, <1>5, <1>6

\* The counters after a tick.
LEMMA CounterFields ==
    ASSUME NEW c \in Nat, NEW i \in Int, NEW j \in Int,
           NEW v, v = [captured |-> c, transmitted |-> i, dropped |-> j]
    PROVE  v \in CounterSet /\ v.captured = c /\ v.transmitted = i /\ v.dropped = j
  BY DEF CounterSet

\* They are those of the window with the events selected and the others.
LEMMA TickCounted ==
    ASSUME NEW w \in CounterSet, NEW s \in Nat, NEW d \in Nat
    PROVE  /\ w.captured \in Nat /\ w.transmitted + s \in Int /\ w.dropped + d - s \in Int
           /\ [w EXCEPT !.transmitted = @ + s, !.dropped = @ + d - s]
                = [captured |-> w.captured, transmitted |-> w.transmitted + s,
                   dropped |-> w.dropped + d - s]
  <1>1. w \in [captured : Nat, transmitted : Int, dropped : Int]
    BY DEF CounterSet
  <1>2. w.captured \in Nat /\ w.transmitted + s \in Int /\ w.dropped + d - s \in Int
    BY <1>1
  <1>3. ASSUME NEW t, NEW u, NEW v, v = [w EXCEPT !.transmitted = t, !.dropped = u]
        PROVE  v = [captured |-> w.captured, transmitted |-> t, dropped |-> u]
    BY <1>1, <1>3, Zenon
  <1> QED
    BY <1>2, <1>3, Zenon

\* What the counters and a tick add up to.
LEMMA PassedAddUp ==
    ASSUME NEW a \in Int, NEW b \in Int, NEW c \in Int, NEW d \in Int, NEW s \in Int,
           NEW n \in Int, NEW m \in Int, NEW l \in Int, (a + b) + (c + d) = m, n = l - m
    PROVE  (a + (b + s)) + (c + (d + n - s)) = l
  OBVIOUS

\* No tick changes the events and their alerts: what they need is that sends are
\* only ever added.
LEMMA AlertsKept ==
    ASSUME EveryMatchReported, ~Ended, AlertTypes, attempts' \in Nat, attempts' >= attempts,
           UNCHANGED <<world, seen, alerts, firewall, killed>>
    PROVE  EveryMatchReported' /\ AlertTypes'
  <1>1. world.failsAt \in Nat /\ attempts \in Nat /\ pc \notin {"failed", "panicked"}
    BY WorldsAssumption DEF AlertTypes, Ended
  <1>2. world.failsAt \in 1 .. attempts => world.failsAt \in 1 .. attempts'
    BY <1>1
  <1>3. \A i \in DOMAIN seen : \/ alerts[i] = AlertNames(seen[i])
                               \/ seen[i].verdict # 0 /\ world.failsAt \in 1 .. attempts'
    BY <1>1, <1>2 DEF EveryMatchReported
  <1>4. /\ firewall.deny = Cardinality({i \in DOMAIN seen : Egress(seen[i])})
        /\ killed \subseteq {seen[i].pid : i \in {j \in DOMAIN seen : Egress(seen[j])}} \ {1, AgentPid}
    BY <1>1 DEF EveryMatchReported
  <1>5. EveryMatchReported'
    BY <1>3, <1>4, Zenon DEF EveryMatchReported
  <1> QED
    BY <1>5 DEF AlertTypes

\* What a tick that ends well has done: it chose from the ids that waited, and has
\* every frame it was given, once, or counted it as dropped.
TickEnds(ids, selected, y) ==
  /\ ids = unscheduled_event_ids(store, cursor) /\ cursor' = CursorAfter(cursor, ids)
  /\ handed' = handed \o y.sent /\ batcher' = y.batcher
  /\ IsInjective(Flow(handed, y))
  /\ Range(Flow(handed, y)) \subseteq Range(handed \o batcher.queue) \cup Range(ids)
  /\ Len(Flow(handed, y)) + y.batcher.total_dropped
       = Len(handed \o batcher.queue) + batcher.total_dropped + Len(selected)
  /\ window' \in CounterSet /\ window'.captured = window.captured
  /\ window'.transmitted = window.transmitted + Len(selected)
  /\ window'.dropped = window.dropped + Len(ids) - Len(selected)
  /\ UNCHANGED <<store, seen, reported>>

\* It has passed the ids that waited.
LEMMA TickPasses ==
    ASSUME FlowInv, NEW ids, NEW selected, NEW y, TickEnds(ids, selected, y)
    PROVE  /\ cursor \in Nat /\ Len(store.events) \in Nat /\ cursor <= Len(store.events)
           /\ Len(ids) = Len(store.events) - cursor /\ cursor' = Len(store.events)
           /\ \A id \in Range(ids) : id < Len(store.events)
  <1>1. IsSequence(store.events) /\ cursor \in Nat /\ cursor <= Len(store.events)
    BY DEF FlowInv, FlowTypes
  <1>2. PICK n : n = Len(store.events)
    BY Zenon
  <1>3. n \in Nat
    BY <1>1, <1>2, AppendAny, Zenon
  <1>4. ids = [i \in 1 .. (n - cursor) |-> cursor + i - 1] /\ cursor' = CursorAfter(cursor, ids)
    BY <1>2, Zenon DEF TickEnds, unscheduled_event_ids
  <1>5. PICK c \in Nat : c = cursor
    BY <1>1, Zenon
  <1>6. /\ Len(ids) = n - c /\ CursorAfter(c, ids) = n
        /\ \A id \in Range(ids) : id < n
    <2>1. c <= n /\ ids = [i \in 1 .. (n - c) |-> c + i - 1]
      BY <1>1, <1>2, <1>4, <1>5, Zenon
    <2> QED
      BY <1>3, <2>1, EventsWaiting, Zenon
  <1> QED
    BY <1>1, <1>2, <1>3, <1>4, <1>5, <1>6, Zenon

\* Its frames, where they are now.
LEMMA TickFrames ==
    ASSUME FlowInv, NEW ids, NEW selected, NEW y \in TickStates, TickEnds(ids, selected, y)
    PROVE  /\ handed' \in Seq(Nat) /\ batcher' \in Batchers
           /\ handed' \o batcher'.queue = Flow(handed, y)
           /\ handed \o batcher.queue \in Seq(Nat)
           /\ Len(handed') + Len(batcher'.queue) + batcher'.total_dropped
                = Len(handed) + Len(batcher.queue) + batcher.total_dropped + Len(selected)
  <1>1. handed \in Seq(Nat) /\ batcher \in Batchers
    BY DEF FlowInv, FlowTypes
  <1>2. handed' = handed \o y.sent /\ batcher' = y.batcher
    BY Zenon DEF TickEnds
  <1>3. y.batcher \in Batchers /\ y.sent \in Seq(Nat)
    BY TickFields
  <1>4. batcher.queue \in Seq(Nat) /\ y.batcher.queue \in Seq(Nat)
    BY <1>1, <1>3, BatcherTypes
  <1>5. \A p, q \in Seq(Nat) : p \o q \in Seq(Nat) /\ Len(p \o q) = Len(p) + Len(q)
    OBVIOUS
  <1>6. handed' \in Seq(Nat)
    BY <1>1, <1>2, <1>3, <1>5, Zenon
  <1>7. handed' \o batcher'.queue = Flow(handed, y)
    BY <1>2, Zenon DEF Flow
  <1>8. PICK p \in Seq(Nat), q \in Seq(Nat) : p = handed' /\ q = y.batcher.queue
    BY <1>4, <1>6, Zenon
  <1>9. Len(p \o q) = Len(p) + Len(q)
    BY <1>5, Zenon
  <1>10. Len(Flow(handed, y)) = Len(handed') + Len(batcher'.queue)
    BY <1>2, <1>7, <1>8, <1>9, Zenon
  <1>11. /\ handed \o batcher.queue \in Seq(Nat)
         /\ Len(handed \o batcher.queue) = Len(handed) + Len(batcher.queue)
    BY <1>1, <1>4, <1>5, Zenon
  <1>12. Len(Flow(handed, y)) + y.batcher.total_dropped
           = Len(handed \o batcher.queue) + batcher.total_dropped + Len(selected)
    BY Zenon DEF TickEnds
  <1>13. Len(handed') + Len(batcher'.queue) + batcher'.total_dropped
           = Len(handed) + Len(batcher.queue) + batcher.total_dropped + Len(selected)
    BY <1>2, <1>10, <1>11, <1>12, Zenon
  <1> QED
    BY <1>2, <1>3, <1>6, <1>7, <1>11, <1>13, Zenon

\* A tick that ends well keeps the accounts.
LEMMA TickAccounted ==
    ASSUME FlowInv, NEW ids, NEW selected \in Seq(Nat), NEW y \in TickStates,
           TickEnds(ids, selected, y)
    PROVE  FlowInv'
  <1>1. /\ cursor \in Nat /\ Len(store.events) \in Nat /\ cursor <= Len(store.events)
        /\ Len(ids) = Len(store.events) - cursor /\ cursor' = Len(store.events)
        /\ \A id \in Range(ids) : id < Len(store.events)
    BY TickPasses
  <1>2. /\ handed' \in Seq(Nat) /\ batcher' \in Batchers
        /\ handed' \o batcher'.queue = Flow(handed, y)
        /\ handed \o batcher.queue \in Seq(Nat)
        /\ Len(handed') + Len(batcher'.queue) + batcher'.total_dropped
             = Len(handed) + Len(batcher.queue) + batcher.total_dropped + Len(selected)
    BY TickFrames
  <1>3. /\ window' \in CounterSet /\ window'.captured = window.captured
        /\ window'.transmitted = window.transmitted + Len(selected)
        /\ window'.dropped = window.dropped + Len(ids) - Len(selected)
        /\ UNCHANGED <<store, seen, reported>>
    BY Zenon DEF TickEnds
  <1>4. FlowTypes'
    BY <1>1, <1>2, <1>3 DEF FlowInv, FlowTypes
  <1>5. PICK a, b, c, d, s, n, m, l :
          /\ a = reported.counts.transmitted /\ b = window.transmitted /\ c = reported.counts.dropped
          /\ d = window.dropped /\ s = Len(selected) /\ n = Len(ids) /\ m = cursor
          /\ l = Len(store.events)
    BY Zenon
  <1>6. a \in Int /\ b \in Int /\ c \in Int /\ d \in Int
    BY <1>5 DEF FlowInv, FlowTypes, CounterSet
  <1>7. s \in Int /\ n \in Int /\ m \in Int /\ l \in Int /\ n = l - m
    BY <1>1, <1>5
  <1>8. (reported'.counts.transmitted + window'.transmitted)
          + (reported'.counts.dropped + window'.dropped) = cursor'
    <2>1. (a + b) + (c + d) = m
      BY <1>5, Zenon DEF FlowInv
    <2>2. (a + (b + s)) + (c + (d + n - s)) = l
      BY <1>6, <1>7, <2>1, PassedAddUp
    <2> QED
      BY <1>1, <1>3, <1>5, <2>2, Zenon
  <1>9. Len(handed') + Len(batcher'.queue) + batcher'.total_dropped
          = reported'.counts.transmitted + window'.transmitted
    <2>1. Len(handed) + Len(batcher.queue) + batcher.total_dropped = a + b
      BY <1>5, Zenon DEF FlowInv
    <2>2. (a + b) + s = a + (b + s)
      BY <1>6, <1>7
    <2> QED
      BY <1>2, <1>3, <1>5, <2>1, <2>2, Zenon
  <1>10. \A id \in Range(handed' \o batcher'.queue) : id < cursor'
    <2>1. ASSUME NEW id \in Range(handed \o batcher.queue) PROVE id < Len(store.events)
      <3>1. id < cursor
        BY Zenon DEF FlowInv
      <3>2. PICK r \in Seq(Nat) : r = handed \o batcher.queue
        BY <1>2, Zenon
      <3>3. id \in Nat
        BY <3>2 DEF Range
      <3> QED
        BY <1>1, <3>1, <3>3
    <2>2. Range(Flow(handed, y)) \subseteq Range(handed \o batcher.queue) \cup Range(ids)
      BY Zenon DEF TickEnds
    <2> QED
      BY <1>1, <1>2, <2>1, <2>2, Zenon
  <1>11. cursor' <= Len(store'.events)
    <2>1. Len(store.events) <= Len(store.events)
      BY <1>1
    <2> QED
      BY <1>1, <1>3, <2>1, Zenon
  <1>12. /\ reported'.counts.captured + window'.captured = Len(seen')
         /\ Len(store'.events) + store'.total_dropped = Len(seen')
    BY <1>3, Zenon DEF FlowInv
  <1>13. IsInjective(handed' \o batcher'.queue)
    BY <1>2, Zenon DEF TickEnds
  <1> QED
    BY <1>4, <1>8, <1>9, <1>10, <1>11, <1>12, <1>13, Zenon DEF FlowInv

\* A tick of the scheduler.
LEMMA TickKeepsAccounts ==
    ASSUME LoopInv, SchedulerTick
    PROVE  LoopInv'
  <1> DEFINE ids == unscheduled_event_ids(store, cursor)
             x == [batcher |-> batcher, attempts |-> attempts, sent |-> <<>>, failed |-> FALSE]
  <1>1. ~Ended /\ EveryMatchReported /\ AlertTypes /\ FlowInv /\ MetricsInv
    BY DEF SchedulerTick, Ended, LoopInv
  <1>2. PICK selected \in solve(ids, budget) : Ticked(ids, selected, FlushIfReady(PushAll(selected, x)))
    BY DEF SchedulerTick
  <1>3. UNCHANGED <<world, store, metrics, firewall, killed, seen, alerts, reported>>
    BY DEF SchedulerTick
  <1>4. PICK y : y = FlushIfReady(PushAll(selected, x))
    OBVIOUS
  <1>5. /\ IsSequence(store.events) /\ cursor \in Nat /\ cursor <= Len(store.events)
        /\ handed \in Seq(Nat) /\ batcher \in Batchers /\ window \in CounterSet /\ attempts \in Nat
    BY <1>1 DEF FlowInv, FlowTypes, AlertTypes
  <1>6. Len(store.events) \in Nat
    BY <1>5, AppendAny
  <1>7. ids = [i \in 1 .. (Len(store.events) - cursor) |-> cursor + i - 1]
    BY DEF unscheduled_event_ids
  <1> HIDE DEF ids
  <1>8. /\ ids \in Seq(Nat) /\ IsInjective(ids) /\ \A id \in Range(ids) : cursor <= id
    BY <1>5, <1>6, <1>7, EventsWaiting, Zenon
  <1>9. selected \in Seq(Nat) /\ IsInjective(selected) /\ Range(selected) \subseteq Range(ids)
    BY <1>2, <1>8, SolveDistinct
  <1>10. x \in TickStates /\ ~x.failed /\ x.batcher = batcher /\ x.attempts = attempts /\ x.sent = <<>>
    <2>1. <<>> \in Seq(Nat) /\ FALSE \in BOOLEAN
      OBVIOUS
    <2> QED
      BY <1>5, <2>1 DEF TickStates
  <1>11. Flow(handed, x) = handed \o batcher.queue
    <2>1. handed \o <<>> = handed
      BY <1>5
    <2> QED
      BY <1>10, <2>1 DEF Flow
  <1> HIDE DEF x
  <1>12. IsInjective(Flow(handed, x)) /\ \A i \in DOMAIN selected : selected[i] \notin Range(Flow(handed, x))
    <2>1. IsInjective(handed \o batcher.queue) /\ \A id \in Range(handed \o batcher.queue) : id < cursor
      BY <1>1 DEF FlowInv
    <2>2. \A i \in DOMAIN selected : selected[i] \in Nat /\ selected[i] \in Range(selected)
      BY <1>9, SequenceOver DEF Range
    <2>3. \A i \in DOMAIN selected : ~(selected[i] < cursor)
      BY <1>5, <1>8, <1>9, <2>2
    <2> QED
      BY <1>11, <2>1, <2>3
  <1>13. /\ y \in TickStates /\ y.attempts >= attempts
         /\ ~y.failed =>
              /\ IsInjective(Flow(handed, y))
              /\ Range(Flow(handed, y)) \subseteq Range(handed \o batcher.queue) \cup Range(selected)
              /\ Len(Flow(handed, y)) + y.batcher.total_dropped
                   = Len(handed \o batcher.queue) + batcher.total_dropped + Len(selected)
    <2>1. /\ y \in TickStates /\ y.attempts >= x.attempts
          /\ ~y.failed =>
               /\ IsInjective(Flow(handed, y))
               /\ Range(Flow(handed, y)) \subseteq Range(Flow(handed, x)) \cup Range(selected)
               /\ Len(Flow(handed, y)) + y.batcher.total_dropped
                    = Len(Flow(handed, x)) + x.batcher.total_dropped + Len(selected)
      BY <1>4, <1>5, <1>9, <1>10, <1>12, TickFlow, Zenon
    <2> QED
      BY <1>10, <1>11, <2>1, Zenon
  <1>14. /\ batcher' = y.batcher /\ handed' = handed \o y.sent /\ attempts' = y.attempts
         /\ cursor' = CursorAfter(cursor, ids)
         /\ y.failed => pc' = "failed"
         /\ ~y.failed => window' = [window EXCEPT !.transmitted = @ + Len(selected),
                                                  !.dropped = @ + Len(ids) - Len(selected)]
    BY <1>2, <1>4 DEF Ticked
  <1>15. attempts' \in Nat /\ attempts' >= attempts
    BY <1>13, <1>14, TickFields
  <1>16. EveryMatchReported' /\ AlertTypes'
    BY <1>1, <1>3, <1>15, AlertsKept
  <1>17. MetricsInv'
    BY <1>1, <1>3 DEF MetricsInv, Reported, EventsOf
  <1>18. ASSUME ~Ended' PROVE FlowInv'
    <2>1. ~y.failed
      BY <1>14, <1>18 DEF Ended
    <2>2. PICK s \in Nat, d \in Nat : s = Len(selected) /\ d = Len(ids)
      <3>1. Len(selected) \in Nat /\ Len(ids) \in Nat
        BY <1>8, <1>9, SequenceOver
      <3> QED
        BY <3>1, Zenon
    <2>3. window' = [window EXCEPT !.transmitted = @ + s, !.dropped = @ + d - s]
      BY <1>14, <2>1, <2>2, Zenon
    <2>4. /\ window.captured \in Nat /\ window.transmitted + s \in Int /\ window.dropped + d - s \in Int
          /\ window' = [captured |-> window.captured, transmitted |-> window.transmitted + s,
                        dropped |-> window.dropped + d - s]
      BY <1>5, <2>3, TickCounted, Zenon
    <2>5. /\ window' \in CounterSet /\ window'.captured = window.captured
          /\ window'.transmitted = window.transmitted + s /\ window'.dropped = window.dropped + d - s
      BY <2>4, CounterFields
    <2>6. Range(Flow(handed, y)) \subseteq Range(handed \o batcher.queue) \cup Range(ids)
      BY <1>9, <1>13, <2>1, Zenon
    <2>7. TickEnds(ids, selected, y)
      BY <1>3, <1>13, <1>14, <2>1, <2>2, <2>5, <2>6, Zenon DEF TickEnds, ids
    <2> QED
      BY <1>1, <1>9, <1>13, <2>7, TickAccounted, Zenon
  <1> QED
    BY <1>16, <1>17, <1>18 DEF LoopInv

\* There are finitely many summaries to send.
LEMMA SummariesFinite ==
    ASSUME MetricsInv
    PROVE  Cardinality(metrics_flush(metrics).summaries) \in Nat
  <1> DEFINE busy == {x \in DOMAIN metrics : metrics[x].count > 0}
             sums == {summarize(metrics[c], c) : c \in busy}
             f == [c \in busy |-> summarize(metrics[c], c)]
  <1>1. IsFiniteSet(busy)
    <2>1. busy \in SUBSET DOMAIN metrics
      OBVIOUS
    <2> QED
      BY <2>1, FS_Subset, Zenon DEF MetricsInv
  <1>2. f \in Surjection(busy, sums)
    <2> HIDE DEF busy
    <2> QED
      BY Zenon DEF Surjection
  <1>3. IsFiniteSet(sums)
    <2> HIDE DEF busy, sums, f
    <2> QED
      BY <1>1, <1>2, FS_Surjection
  <1>4. metrics_flush(metrics).summaries = sums
    BY DEF metrics_flush
  <1> QED
    BY <1>3, <1>4, FS_CardinalityType

\* The counters of the window are added to those reported.
LEMMA CountersReported ==
    ASSUME FlowInv, reported'.counts = Added(reported.counts, window), window' = NoCounts,
           UNCHANGED <<cursor, handed, batcher, store, seen>>
    PROVE  FlowInv'
  <1>1. PICK r \in CounterSet, w \in CounterSet : r = reported.counts /\ w = window
    BY Zenon DEF FlowInv, FlowTypes
  <1>2. /\ r.captured \in Nat /\ r.transmitted \in Int /\ r.dropped \in Int
        /\ w.captured \in Nat /\ w.transmitted \in Int /\ w.dropped \in Int
    BY DEF CounterSet
  <1>3. PICK s : s = reported'.counts
    OBVIOUS
  <1>4. s = [captured |-> r.captured + w.captured, transmitted |-> r.transmitted + w.transmitted,
             dropped |-> r.dropped + w.dropped]
    BY <1>1, <1>3, Zenon DEF Added
  <1>5. /\ r.captured + w.captured \in Nat /\ r.transmitted + w.transmitted \in Int
        /\ r.dropped + w.dropped \in Int
    BY <1>2
  <1>6. /\ s \in CounterSet /\ s.captured = r.captured + w.captured
        /\ s.transmitted = r.transmitted + w.transmitted /\ s.dropped = r.dropped + w.dropped
    BY <1>4, <1>5, CounterFields
  <1>7. window' \in CounterSet /\ window'.captured = 0 /\ window'.transmitted = 0 /\ window'.dropped = 0
    BY CounterFields DEF NoCounts
  <1>8. FlowTypes'
    BY <1>3, <1>6, <1>7, Zenon DEF FlowInv, FlowTypes
  <1>9. /\ s.captured + 0 = r.captured + w.captured
        /\ s.transmitted + 0 = r.transmitted + w.transmitted
        /\ s.dropped + 0 = r.dropped + w.dropped
    BY <1>5, <1>6
  <1>10. /\ r.captured + w.captured = Len(seen)
         /\ (r.transmitted + w.transmitted) + (r.dropped + w.dropped) = cursor
         /\ Len(handed) + Len(batcher.queue) + batcher.total_dropped = r.transmitted + w.transmitted
    BY <1>1, Zenon DEF FlowInv
  <1>11. /\ reported'.counts.captured + window'.captured = Len(seen')
         /\ (reported'.counts.transmitted + window'.transmitted)
              + (reported'.counts.dropped + window'.dropped) = cursor'
         /\ Len(handed') + Len(batcher'.queue) + batcher'.total_dropped
              = reported'.counts.transmitted + window'.transmitted
    BY <1>3, <1>7, <1>9, <1>10, Zenon
  <1>12. /\ cursor' <= Len(store'.events) /\ Len(store'.events) + store'.total_dropped = Len(seen')
         /\ IsInjective(handed' \o batcher'.queue)
         /\ \A id \in Range(handed' \o batcher'.queue) : id < cursor'
    BY Zenon DEF FlowInv
  <1> QED
    BY <1>8, <1>11, <1>12, Zenon DEF FlowInv

\* Housekeeping.
LEMMA HousekeepingKeepsAccounts ==
    ASSUME LoopInv, HousekeepingTick
    PROVE  LoopInv'
  <1>1. ~Ended /\ EveryMatchReported /\ AlertTypes /\ FlowInv /\ MetricsInv
    BY Zenon DEF HousekeepingTick, Ended, LoopInv
  <1>2. UNCHANGED <<world, store, batcher, cursor, firewall, killed, seen, alerts, handed>>
    BY Zenon DEF HousekeepingTick
  <1>3. attempts \in Nat
    BY <1>1 DEF AlertTypes
  <1>4. CASE Kept(metrics_flush(metrics), merge_deltas(graph, world.dump))
    <2>1. attempts' = attempts + Cardinality(metrics_flush(metrics).summaries)
          /\ metrics' = metrics_flush(metrics).digests
      BY <1>4 DEF Kept
    <2>2. attempts' \in Nat /\ attempts' >= attempts
      BY <1>1, <1>3, <2>1, SummariesFinite
    <2>3. EveryMatchReported' /\ AlertTypes'
      BY <1>1, <1>2, <2>2, AlertsKept
    <2>4. ASSUME ~Ended' PROVE FlowInv' /\ MetricsInv'
      <3>1. PICK r : r = [counts |-> Added(reported.counts, window),
                          metrics |-> [c \in DOMAIN metrics |->
                                         Reported(c) + CountIn(metrics_flush(metrics).summaries, c)]]
        BY Zenon
      <3>2. window' = NoCounts /\ reported' = r
        BY <1>4, <2>4, <3>1 DEF Kept, Ended
      <3>3. /\ r.counts = Added(reported.counts, window)
            /\ r.metrics = [c \in DOMAIN metrics |->
                              Reported(c) + CountIn(metrics_flush(metrics).summaries, c)]
        BY <3>1
      <3>4. FlowInv'
        BY <1>1, <1>2, <3>2, <3>3, CountersReported
      <3>5. MetricsInv'
        BY <1>1, <1>2, <2>1, <3>2, <3>3, MetricsFlushed, Zenon
      <3> QED
        BY <3>4, <3>5
    <2> QED
      BY <2>3, <2>4 DEF LoopInv
  <1>5. CASE pc' = "failed" /\ attempts' = attempts
    <2>1. EveryMatchReported'
      BY <1>1, <1>2, <1>3, <1>5, AlertsKept
    <2> QED
      BY <1>5, <2>1 DEF LoopInv, Ended
  <1> QED
    BY <1>4, <1>5, Zenon DEF HousekeepingTick

\* The end of the agent.
LEMMA ShutdownKeepsAlerts ==
    ASSUME LoopInv, Shutdown
    PROVE  LoopInv'
  <1>1. ~Ended /\ EveryMatchReported /\ AlertTypes /\ FlowInv
    BY DEF Shutdown, Ended, LoopInv
  <1>2. PICK x : x = [batcher |-> batcher, attempts |-> attempts, sent |-> <<>>, failed |-> FALSE]
    BY Zenon
  <1>3. /\ attempts' = FlushTo(x).attempts /\ pc' = "stopped"
        /\ UNCHANGED <<world, firewall, killed, seen, alerts>>
    BY <1>2 DEF Shutdown
  <1>4. batcher \in Batchers /\ attempts \in Nat /\ handed \in Seq(Nat) /\ <<>> \in Seq(Nat)
    BY <1>1 DEF FlowInv, FlowTypes, AlertTypes
  <1>5. x \in TickStates /\ ~x.failed /\ x.attempts = attempts
    BY <1>2, <1>4, Zenon DEF TickStates
  <1>6. FlushTo(x) \in TickStates /\ FlushTo(x).attempts >= x.attempts
    BY <1>4, <1>5, FlushFlow
  <1>7. attempts' \in Nat /\ attempts' >= attempts
    BY <1>3, <1>5, <1>6, TickFields
  <1>8. EveryMatchReported'
    BY <1>1, <1>3, <1>7, AlertsKept
  <1> QED
    BY <1>3, <1>8 DEF LoopInv, Ended

\* One record of the ring buffer.
LEMMA IngestKeepsAccounts ==
    ASSUME LoopInv, Ingest
    PROVE  LoopInv'
  <1>1. ~Ended /\ UNCHANGED <<world, cursor, handed, batcher, reported>>
    BY DEF Ingest, Ended
  <1>2. CASE world.stream[drained + 1].valid
    <2>1. PICK e, written : Processed(e, written)
      BY <1>2, Zenon DEF Ingest, process_event, Scored
    <2> QED
      BY <1>1, <2>1, EventProcessed
  <1>3. CASE ~world.stream[drained + 1].valid
    BY <1>1, <1>3, LoopStutters, Zenon DEF Ingest
  <1> QED
    BY <1>2, <1>3

\* One request of the guard.
LEMMA AnswerKeepsAccounts ==
    ASSUME LoopInv, AnswerSql
    PROVE  LoopInv'
  <1>1. ~Ended /\ UNCHANGED <<world, cursor, handed, batcher, reported, firewall, killed>>
    BY DEF AnswerSql, Ended
  <1>2. PICK r : r = event_from_request(Head(requests))
    OBVIOUS
  <1>3. process_sql_policy_event(r, score(scorer, r))
    BY <1>2 DEF AnswerSql
  <1>4. PICK d : d = [r EXCEPT !.risk = score(scorer, r).risk]
    BY Zenon
  <1>5. PICK e, v : /\ v \in {1, 2, 3} /\ e = [d EXCEPT !.verdict = v]
                    /\ Judged(e, write_edge(graph, d, world.dump))
    BY <1>3, <1>4, Zenon DEF process_sql_policy_event, WithVerdict
  <1>6. e.kind = 4 /\ e.verdict # 0
    <2>1. /\ r.kind = 4 /\ "kind" \in DOMAIN r /\ "verdict" \in DOMAIN r
          /\ \A s : DOMAIN [r EXCEPT !.risk = s] = DOMAIN r
      BY <1>2 DEF event_from_request
    <2>2. d.kind = 4 /\ DOMAIN d = DOMAIN r
      BY <1>4, <2>1
    <2> QED
      BY <1>5, <2>1, <2>2
  <1> QED
    BY <1>1, <1>5, <1>6, StatementProcessed, Zenon

\* Every step keeps the accounts.
LEMMA LoopStep == LoopInv /\ [Next]_vars => LoopInv'
  <1> SUFFICES ASSUME LoopInv, [Next]_vars PROVE LoopInv'
    OBVIOUS
  <1>1. CASE KernelWrites
    BY <1>1, LoopStutters DEF KernelWrites, dataVars, historyVars
  <1>2. CASE Signal
    BY <1>2, LoopStutters DEF Signal, dataVars, historyVars
  <1>3. CASE Tick
    <2>1. /\ batcher \in Batchers => batcher' \in Batchers
          /\ batcher \in Batchers => batcher'.queue = batcher.queue
          /\ batcher \in Batchers => batcher'.total_dropped = batcher.total_dropped
      <3>1. SUFFICES ASSUME batcher \in Batchers
            PROVE  /\ batcher' \in Batchers /\ batcher'.queue = batcher.queue
                   /\ batcher'.total_dropped = batcher.total_dropped
        OBVIOUS
      <3>2. batcher' = [batcher EXCEPT !.age = 1]
        BY <1>3 DEF Tick, BatcherAges
      <3> QED
        BY <3>1, <3>2 DEF Batchers
    <2> QED
      BY <1>3, <2>1, LoopStutters DEF Tick, historyVars
  <1>4. CASE StartPass \/ DrainEnds \/ SqlEnds \/ SchedulerNotDue \/ HousekeepingNotDue
    <2>1. ~Ended /\ UNCHANGED <<world, attempts, dataVars, historyVars>>
      BY <1>4 DEF StartPass, DrainEnds, SqlEnds, SchedulerNotDue, HousekeepingNotDue, Ended
    <2> QED
      BY <2>1, LoopStutters DEF dataVars, historyVars
  <1>5. CASE Ingest
    BY <1>5, IngestKeepsAccounts
  <1>6. CASE AnswerSql
    BY <1>6, AnswerKeepsAccounts
  <1>7. CASE SchedulerTick
    BY <1>7, TickKeepsAccounts
  <1>8. CASE HousekeepingTick
    BY <1>8, HousekeepingKeepsAccounts
  <1>9. CASE Shutdown
    BY <1>9, ShutdownKeepsAlerts
  <1>10. CASE Clients \/ Service \/ UNCHANGED vars
    <2>1. UNCHANGED <<world, loopVars, dataVars, historyVars>>
      BY <1>10 DEF Clients, Service, Outside, vars
    <2> QED
      BY <2>1, LoopStutters DEF loopVars, dataVars, historyVars
  <1> QED
    BY <1>1, <1>2, <1>3, <1>4, <1>5, <1>6, <1>7, <1>8, <1>9, <1>10 DEF Next, MainLoop

\* The agent's counters, its store, its batches and its summaries agree on the
\* events they have seen, at every point of the loop (agent.rs), as long as it
\* runs: none is counted twice and none is missing.
THEOREM EveryEventAccounted == Spec => []TelemetryAccounted
  <1>1. Spec => []LoopInv
    BY LoopInitially, LoopStep, PTL DEF Spec
  <1> QED
    BY <1>1, AccountsHold, PTL

\* An event's alerts are those of all the rules it matches, in order, unless a
\* send failed; the connections denied are those a rule forbids, and a process
\* is ended only for one of them (agent.rs process_event and
\* process_sql_policy_event).
THEOREM EveryMatchAlerted == Spec => []EveryMatchReported
  <1>1. Spec => []LoopInv
    BY LoopInitially, LoopStep, PTL DEF Spec
  <1>2. LoopInv => EveryMatchReported
    BY DEF LoopInv
  <1> QED
    BY <1>1, <1>2, PTL

-----------------------------------------------------------------------------
(* The graph and the loop. *)

\* The loop takes records that the kernel has written, the snapshot has the
\* newest of the events merged and the delta those since.
StreamInv == world \in Worlds /\ arrived \in 0 .. Len(world.stream) /\ drained \in 0 .. arrived
GraphInv == StreamInv /\ GraphKept(graph, seen, merged)

\* It says what the snapshot is.
LEMMA GraphHolds == GraphInv => GraphIsLatest
  <1> SUFFICES ASSUME GraphInv PROVE GraphIsLatest
    OBVIOUS
  <1>1. GraphKept(graph, seen, merged) /\ MaxNodes \in Nat
    BY GraphAssumption DEF GraphInv
  <1>2. IndexDense(graph)
    BY <1>1, Zenon DEF GraphKept, GraphTyped
  <1>3. \A v, w : EventsBetween(v, w) = {i \in 1 .. merged : Between(graph, seen[i], v, w)}
    BY DEF EventsBetween, Known, Between, KnownIn
  <1>4. ASSUME NEW i \in 1 .. merged, Known(i)
        PROVE  /\ graph.vertex_index[SourceKey(seen[i])] < graph.snapshot.num_nodes
               /\ graph.vertex_index[TargetKey(seen[i])] < graph.snapshot.num_nodes
    <2>1. PICK v : v = graph.vertex_index[SourceKey(seen[i])]
      OBVIOUS
    <2>2. PICK w : w = graph.vertex_index[TargetKey(seen[i])]
      OBVIOUS
    <2>3. Between(graph, seen[i], v, w)
      BY <1>4, <2>1, <2>2, Zenon DEF Known, Between, KnownIn
    <2>4. v \in Range(graph.vertex_index) /\ w \in Range(graph.vertex_index)
      BY <1>4, <2>1, <2>2, Zenon DEF Known, Range
    <2>5. v \in Nat /\ w \in Nat
      BY <1>2, <2>4 DEF IndexDense
    <2> QED
      BY <1>1, <2>1, <2>2, <2>3, <2>5, Zenon DEF GraphKept
  <1>5. ASSUME NEW v \in 0 .. graph.snapshot.num_nodes - 1
        PROVE  LET row == neighbors(graph.snapshot, v)
               IN  /\ \A i, j \in DOMAIN row : i < j => row[i] < row[j]
                   /\ Range(row) = {w \in 0 .. graph.snapshot.num_nodes - 1 : EventsBetween(v, w) # {}}
                   /\ \A i \in DOMAIN row : neighbor_props(graph.snapshot, v)[i].ts
                                              = Max({seen[k].ts : k \in EventsBetween(v, row[i])})
    <2>1. RowLatest(graph, seen, merged, v)
      BY <1>1, RowIsLatest, Zenon
    <2> QED
      BY <1>3, <2>1, Zenon DEF RowLatest
  <1> QED
    BY <1>2, <1>4, <1>5, Zenon DEF GraphIsLatest, IndexDense

\* The agent starts with nothing.
LEMMA GraphInitially == Init => GraphInv
  <1> SUFFICES ASSUME Init PROVE GraphInv
    OBVIOUS
  <1>1. MaxNodes \in Nat
    BY GraphAssumption
  <1>2. StreamInv
    <2>1. world \in Worlds /\ arrived = 0 /\ drained = 0
      BY DEF Init
    <2>2. Len(world.stream) \in Nat
      BY <2>1, WorldsAssumption
    <2> QED
      BY <2>1, <2>2 DEF StreamInv
  <1>3. graph = EmptyGraph /\ seen = <<>> /\ merged = 0
    BY DEF Init
  <1>4. PICK s : s = EmptySnapshot
    OBVIOUS
  <1>5. s.num_nodes = 0
    BY <1>4 DEF EmptySnapshot
  <1>6. EmptyDelta = DeltaOf(<<>>, <<>>, <<>>)
    BY DEF EmptyDelta, DeltaOf
  <1>7. graph = GraphOf(s, DeltaOf(<<>>, <<>>, <<>>), <<>>, 0, <<>>, <<>>, 1, Never)
    BY <1>3, <1>4, <1>6 DEF EmptyGraph, GraphOf
  <1>8. /\ graph.snapshot = s /\ graph.delta = DeltaOf(<<>>, <<>>, <<>>) /\ graph.vertex_index = <<>>
        /\ graph.next_vertex_id = 0
    <2>1. PICK none, d : none = <<>> /\ d = DeltaOf(<<>>, <<>>, <<>>)
      BY Zenon
    <2>2. PICK g : g = GraphOf(s, d, none, 0, none, none, 1, Never)
      BY Zenon
    <2>3. g.snapshot = s /\ g.delta = d /\ g.vertex_index = none /\ g.next_vertex_id = 0
      BY <2>2 DEF GraphOf
    <2>4. graph = g
      BY <1>7, <2>1, <2>2
    <2> QED
      BY <2>1, <2>3, <2>4, Zenon
  <1>9. /\ graph.delta.new_nodes = <<>> /\ graph.delta.new_edges = <<>> /\ graph.delta.risk_updates = <<>>
    <2>1. PICK none : none = <<>>
      BY Zenon
    <2>2. PICK d : d = DeltaOf(none, none, none)
      BY Zenon
    <2>3. d.new_nodes = none /\ d.new_edges = none /\ d.risk_updates = none
      BY <2>2 DEF DeltaOf
    <2>4. graph.delta = d
      BY <1>8, <2>1, <2>2
    <2> QED
      BY <2>1, <2>3, <2>4, Zenon
  <1>10. IsSequence(<<>>) /\ Len(<<>>) = 0 /\ DOMAIN <<>> = {}
    <2>1. <<>> \in Seq(Nat)
      OBVIOUS
    <2>2. IsSequence(<<>>)
      BY <2>1, SequenceOver, Zenon
    <2> QED
      BY <2>2
  <1>11. Range(<<>>) = {} /\ 0 .. 0 - 1 = {} /\ 1 .. 0 = {} /\ 0 + 1 .. 0 = {}
    BY <1>10 DEF Range
  <1>12. IndexDense(graph)
    <2>1. IsFiniteSet({}) /\ Cardinality({}) = 0
      BY FS_EmptySet
    <2> QED
      BY <1>1, <1>8, <1>10, <1>11, <2>1 DEF IndexDense
  <1>13. IsGraph(graph)
    BY <1>7, GraphOfFields
  <1>14. EdgesBelow(<<>>, 0)
    <2>1. 1 .. Len(<<>>) = {}
      BY <1>10, <1>11
    <2> QED
      BY <1>10, <2>1, Zenon DEF EdgesBelow
  <1>15. DeltaIds(graph.delta) = {}
    BY <1>9, <1>11 DEF DeltaIds
  <1>16. IdsBelow(graph.delta, 0)
    BY <1>15 DEF IdsBelow
  <1>17. GraphTyped(graph)
    BY <1>8, <1>9, <1>10, <1>12, <1>13, <1>14, <1>16, Zenon DEF GraphTyped
  <1>18. SnapshotBelow(s, 0)
    BY <1>5 DEF SnapshotBelow
  <1>19. ASSUME NEW v \in Nat, NEW w \in Nat
         PROVE  /\ Newest(EdgeTimes(s, v, w), TimesIn(graph, <<>>, 1 .. 0, v, w))
                /\ ListedTimes(<<>>, v, w) = TimesIn(graph, <<>>, 0 + 1 .. 0, v, w)
    <2>1. \A I : I = {} => TimesIn(graph, <<>>, I, v, w) = {}
      BY DEF TimesIn
    <2>2. EdgeTimes(s, v, w) = {}
      BY <1>5 DEF EdgeTimes
    <2>3. ListedTimes(<<>>, v, w) = {}
      BY <1>10 DEF ListedTimes
    <2>4. Newest({}, {})
      BY DEF Newest
    <2> QED
      BY <1>11, <2>1, <2>2, <2>3, <2>4, Zenon
  <1>20. 0 \in 0 .. 0
    OBVIOUS
  <1>21. GraphKept(graph, <<>>, 0)
    BY <1>8, <1>9, <1>10, <1>11, <1>17, <1>18, <1>19, <1>20, Zenon DEF GraphKept
  <1> QED
    BY <1>2, <1>3, <1>21, Zenon DEF GraphInv

\* A record of the ring buffer.
LEMMA IngestKeepsGraph ==
    ASSUME GraphInv, Ingest
    PROVE  GraphInv'
  <1>1. MaxNodes \in Nat /\ GraphKept(graph, seen, merged) /\ GraphTyped(graph)
    BY GraphAssumption, Zenon DEF GraphInv, GraphKept
  <1>2. StreamInv' /\ merged' = merged
    <2>1. /\ world' = world /\ arrived' = arrived /\ drained' = drained + 1 /\ drained < arrived
          /\ merged' = merged
      BY Zenon DEF Ingest
    <2>2. world \in Worlds /\ arrived \in 0 .. Len(world.stream) /\ drained \in 0 .. arrived
      BY DEF GraphInv, StreamInv
    <2>3. Len(world.stream) \in Nat
      BY <2>2, WorldsAssumption
    <2>4. drained + 1 \in 0 .. arrived
      BY <2>1, <2>2, <2>3
    <2> QED
      BY <2>1, <2>2, <2>4, Zenon DEF StreamInv
  <1>3. CASE world.stream[drained + 1].valid
    <2>1. PICK r : r = decode(world.stream[drained + 1])
      OBVIOUS
    <2>2. PICK x : x = score(scorer, r).risk
      OBVIOUS
    <2>3. PICK e : e = [r EXCEPT !.risk = x]
      BY Zenon
    <2>4. Processed(e, write_edge(graph, e, world.dump))
      BY <1>3, <2>1, <2>2, <2>3, Zenon DEF Ingest, process_event, Scored
    <2>5. seen' = Append(seen, e) /\ graph' = write_edge(graph, e, world.dump).graph
      BY <2>4, Zenon DEF Processed, Record
    <2>6. e.ts \in Nat
      <3>1. world.stream[drained + 1].ts \in Nat
        <4>1. /\ world \in Worlds /\ arrived \in 0 .. Len(world.stream) /\ drained \in 0 .. arrived
              /\ drained < arrived
          BY Zenon DEF GraphInv, StreamInv, Ingest
        <4>2. PICK S : world.stream \in Seq(S) /\ \A y \in S : y.ts \in Nat
          <5>1. world.stream \in Seq(KernelRecords)
            BY <4>1, WorldsAssumption, Zenon
          <5>2. \A y \in KernelRecords : y.ts \in Nat
            BY DEF KernelRecords
          <5> QED
            BY <5>1, <5>2, Zenon
        <4>3. Len(world.stream) \in Nat
          BY <4>2
        <4>4. drained + 1 \in 1 .. Len(world.stream)
          BY <4>1, <4>3
        <4> QED
          BY <4>2, <4>4
      <3>2. e.ts = r.ts
        BY <2>1, <2>3 DEF decode
      <3>3. r.ts = world.stream[drained + 1].ts
        BY <2>1, Zenon DEF decode
      <3> QED
        BY <3>1, <3>2, <3>3
    <2>7. EdgeTaken(graph, graph', e)
      BY <1>1, <2>5, <2>6, EdgeWritten, Zenon
    <2>8. GraphKept(graph', Append(seen, e), merged)
      BY <1>1, <2>6, <2>7, EventKept, Zenon
    <2> QED
      BY <1>2, <2>5, <2>8, Zenon DEF GraphInv
  <1>4. CASE ~world.stream[drained + 1].valid
    <2>1. seen' = seen /\ graph' = graph
      BY <1>4, Zenon DEF Ingest
    <2> QED
      BY <1>1, <1>2, <2>1, Zenon DEF GraphInv
  <1> QED
    BY <1>3, <1>4

\* A request of the guard: the event recorded has the verdict, the edge not.
LEMMA AnswerKeepsGraph ==
    ASSUME GraphInv, AnswerSql
    PROVE  GraphInv'
  <1>1. MaxNodes \in Nat /\ GraphKept(graph, seen, merged) /\ GraphTyped(graph)
    BY GraphAssumption, Zenon DEF GraphInv, GraphKept
  <1>2. StreamInv' /\ merged' = merged
    BY Zenon DEF AnswerSql, GraphInv, StreamInv
  <1>3. PICK r : r = event_from_request(Head(requests))
    OBVIOUS
  <1>4. process_sql_policy_event(r, score(scorer, r))
    BY <1>3 DEF AnswerSql
  <1>5. PICK x : x = score(scorer, r).risk
    OBVIOUS
  <1>6. PICK e : e = [r EXCEPT !.risk = x]
    BY Zenon
  <1>7. PICK f, v : f = [e EXCEPT !.verdict = v] /\ Judged(f, write_edge(graph, e, world.dump))
    BY <1>4, <1>5, <1>6, Zenon DEF process_sql_policy_event, WithVerdict
  <1>8. seen' = Append(seen, f) /\ graph' = write_edge(graph, e, world.dump).graph
    BY <1>7, Zenon DEF Judged, Record
  <1>9. /\ e.ts \in Nat /\ f.ts = e.ts /\ f.pid = e.pid /\ f.kind = e.kind
        /\ f.ip = e.ip /\ f.dst = e.dst
    <2>1. /\ \A k \in {"kind", "pid", "dst", "ip", "ts", "verdict", "risk"} : k \in DOMAIN r
          /\ r.ts = UnixTime + Len(seen)
      BY <1>3 DEF event_from_request
    <2>2. DOMAIN e = DOMAIN r /\ e.ts = r.ts
      BY <1>6, <2>1
    <2>3. /\ f.ts = e.ts /\ f.pid = e.pid /\ f.kind = e.kind /\ f.ip = e.ip /\ f.dst = e.dst
      BY <1>7, <2>1, <2>2
    <2>4. Len(seen) \in Nat
      BY <1>1, AppendAny, Zenon DEF GraphKept
    <2>5. UnixTime + Len(seen) \in Nat
      BY <2>4 DEF UnixTime
    <2> QED
      BY <2>1, <2>2, <2>3, <2>5, Zenon
  <1>10. SourceKey(f) = SourceKey(e) /\ TargetKey(f) = TargetKey(e)
    BY <1>9, Zenon DEF SourceKey, TargetKey
  <1>11. EdgeTaken(graph, graph', e)
    BY <1>1, <1>8, <1>9, EdgeWritten, Zenon
  <1>12. f.ts \in Nat
    BY <1>9
  <1>13. GraphKept(graph', Append(seen, f), merged)
    BY <1>1, <1>9, <1>10, <1>11, <1>12, EventKept, Zenon
  <1> QED
    BY <1>2, <1>8, <1>13, Zenon DEF GraphInv

\* The housekeeping, which merges unless a summary could not be sent.
LEMMA HousekeepingKeepsGraph ==
    ASSUME GraphInv, HousekeepingTick
    PROVE  GraphInv'
  <1>1. /\ MaxNodes \in Nat /\ GraphKept(graph, seen, merged) /\ GraphTyped(graph)
        /\ SnapshotBelow(graph.snapshot, graph.next_vertex_id)
    BY GraphAssumption, Zenon DEF GraphInv, GraphKept
  <1>2. StreamInv' /\ seen' = seen
    BY Zenon DEF HousekeepingTick, GraphInv, StreamInv
  <1>3. CASE graph' = graph /\ merged' = merged
    BY <1>1, <1>2, <1>3, Zenon DEF GraphInv
  <1>4. CASE graph' = merge_deltas(graph, world.dump).graph /\ merged' = Len(seen)
    <2>1. Merged(graph, graph')
      BY <1>1, <1>4, DeltaMerged, Zenon
    <2>2. GraphKept(graph', seen, Len(seen))
      BY <1>1, <2>1, MergeKept, Zenon
    <2> QED
      BY <1>2, <1>4, <2>2, Zenon DEF GraphInv
  <1> QED
    BY <1>3, <1>4, Zenon DEF HousekeepingTick, Kept

\* Every step keeps the graph.
LEMMA GraphStep == GraphInv /\ [Next]_vars => GraphInv'
  <1> SUFFICES ASSUME GraphInv, [Next]_vars PROVE GraphInv'
    OBVIOUS
  <1>1. ASSUME UNCHANGED <<world, arrived, drained, graph, seen, merged>>
        PROVE  GraphInv'
    BY <1>1, Zenon DEF GraphInv, StreamInv
  <1>2. CASE KernelWrites
    <2>1. /\ UNCHANGED <<world, drained, graph, seen, merged>> /\ arrived' = arrived + 1
          /\ arrived < Len(world.stream)
      BY <1>2 DEF KernelWrites, dataVars, historyVars
    <2>2. world \in Worlds /\ arrived \in 0 .. Len(world.stream) /\ drained \in 0 .. arrived
      BY DEF GraphInv, StreamInv
    <2>3. Len(world.stream) \in Nat
      BY <2>2, WorldsAssumption
    <2>4. arrived + 1 \in 0 .. Len(world.stream) /\ drained \in 0 .. arrived + 1
      BY <2>1, <2>2, <2>3
    <2> QED
      BY <2>1, <2>2, <2>4, Zenon DEF GraphInv, StreamInv
  <1>3. CASE Tick
    <2>1. UNCHANGED <<world, arrived, drained, seen, merged>> /\ graph' = GraphAges(graph)
      BY <1>3 DEF Tick, historyVars
    <2>2. MaxNodes \in Nat /\ GraphKept(graph, seen, merged) /\ IsGraph(graph)
      BY GraphAssumption, Zenon DEF GraphInv, GraphKept, GraphTyped
    <2>3. SameEdges(graph, graph')
      BY <2>1, <2>2, DumpTried, Zenon
    <2>4. GraphKept(graph', seen, merged)
      BY <2>2, <2>3, SameKept, Zenon
    <2> QED
      BY <2>1, <2>4, Zenon DEF GraphInv, StreamInv
  <1>4. CASE Ingest
    BY <1>4, IngestKeepsGraph
  <1>5. CASE AnswerSql
    BY <1>5, AnswerKeepsGraph
  <1>6. CASE HousekeepingTick
    BY <1>6, HousekeepingKeepsGraph
  <1>7. CASE Signal \/ StartPass \/ DrainEnds \/ SqlEnds \/ SchedulerNotDue \/ HousekeepingNotDue
    BY <1>1, <1>7, Zenon DEF Signal, StartPass, DrainEnds, SqlEnds, SchedulerNotDue, HousekeepingNotDue,
                      dataVars, historyVars
  <1>8. CASE SchedulerTick \/ Shutdown
    BY <1>1, <1>8, Zenon DEF SchedulerTick, Shutdown
  <1>9. CASE Clients \/ Service \/ UNCHANGED vars
    BY <1>1, <1>9, Zenon DEF Clients, Service, Outside, vars, loopVars, dataVars, historyVars
  <1> QED
    BY <1>2, <1>3, <1>4, <1>5, <1>6, <1>7, <1>8, <1>9 DEF Next, MainLoop

\* However many events there are and however often they are merged, the
\* snapshot is the graph of the events the last merge took in, every edge once
\* and in order with the newest of its events, the ids are dense and there are
\* no more of them than the bound allows (csr_graph.rs rebuild_csr, main.rs
\* resolve_vertex).
THEOREM SnapshotIsLatest == Spec => []GraphIsLatest
  <1>1. Spec => []GraphInv
    BY GraphInitially, GraphStep, PTL DEF Spec
  <1> QED
    BY <1>1, GraphHolds, PTL
=============================================================================
