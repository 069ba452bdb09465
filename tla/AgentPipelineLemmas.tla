------------------------ MODULE AgentPipelineLemmas ------------------------
(***************************************************************************)
(* What the parts that AgentPipeline is built from do, for every argument: *)
(* the scheduler and the batcher of TelemetryWindow; the graph of          *)
(* EventGraph up to the fact its invariant rests on, that a merge leaves   *)
(* every row of the snapshot with the newest of its edges; and the steps   *)
(* of SqlGuard, which keep the invariant of the statement guard.           *)
(***************************************************************************)
EXTENDS SqlGuard, TelemetryWindow, EventGraph, FiniteSetTheorems, WellFoundedInduction, TLAPS

-----------------------------------------------------------------------------
(* Sequences, and functions defined by recursion. *)

\* What holds at 0 and carries over from each number to the next holds up to n.
LEMMA UpwardInduction ==
    ASSUME NEW n \in Nat, NEW S, 0 \in S, \A k \in 0 .. n : k < n /\ k \in S => k + 1 \in S
    PROVE  \A k \in 0 .. n : k \in S
  <1> DEFINE T == {k \in 0 .. n : k \notin S}
  <1>1. SUFFICES ASSUME T # {} PROVE FALSE
    OBVIOUS
  <1>2. PICK k \in T : \A e \in T : ~(<<e, k>> \in OpToRel(<, Nat))
    <2>1. T \subseteq Nat
      OBVIOUS
    <2> QED
      BY <1>1, <2>1, NatLessThanWellFounded, WFMin, Zenon
  <1>3. \A e \in T : ~(e < k)
    <2>1. \A e \in T : e \in Nat /\ k \in Nat
      OBVIOUS
    <2>2. \A e \in T : e < k => <<e, k>> \in {ss \in Nat \X Nat : ss[1] < ss[2]}
      BY <2>1
    <2>3. OpToRel(<, Nat) = {ss \in Nat \X Nat : ss[1] < ss[2]}
      BY DEF OpToRel
    <2> QED
      BY <1>2, <2>2, <2>3, Zenon
  <1>4. k # 0 /\ k - 1 \in 0 .. n /\ k - 1 < n /\ k - 1 < k /\ (k - 1) + 1 = k
    OBVIOUS
  <1>5. k - 1 \in S
    BY <1>3, <1>4
  <1> QED
    BY <1>4, <1>5

\* A sequence, whatever its elements.
IsSequence(s) == s \in Seq(Range(s))

\* It has the sequences over any set for instances,
LEMMA SequenceOver ==
    ASSUME NEW S, NEW s \in Seq(S)
    PROVE  /\ IsSequence(s) /\ Len(s) \in Nat /\ DOMAIN s = 1 .. Len(s)
           /\ \A i \in DOMAIN s : s[i] \in S
  <1>1. s \in [1 .. Len(s) -> S] /\ Len(s) \in Nat
    OBVIOUS
  <1>2. s \in [1 .. Len(s) -> Range(s)]
    BY <1>1 DEF Range
  <1> QED
    BY <1>1, <1>2 DEF IsSequence

\* and one more element makes another.
LEMMA AppendAny ==
    ASSUME NEW s, IsSequence(s), NEW e
    PROVE  /\ IsSequence(Append(s, e)) /\ Len(s) \in Nat /\ Len(Append(s, e)) = Len(s) + 1
           /\ DOMAIN s = 1 .. Len(s) /\ DOMAIN Append(s, e) = 1 .. Len(s) + 1
           /\ \A i \in 1 .. Len(s) : Append(s, e)[i] = s[i]
           /\ Append(s, e)[Len(s) + 1] = e
  <1> DEFINE S == Range(s) \cup {e}
  <1>1. s \in [1 .. Len(s) -> S] /\ Len(s) \in Nat
    BY DEF IsSequence
  <1>2. s \in Seq(S)
    BY <1>1
  <1> HIDE DEF S
  <1>3. e \in S
    BY DEF S
  <1>4. Append(s, e) \in Seq(S)
    BY <1>2, <1>3
  <1>5. IsSequence(Append(s, e))
    BY <1>4, SequenceOver, Zenon
  <1> QED
    BY <1>2, <1>3, <1>5

-----------------------------------------------------------------------------
(* The scheduler and the batcher. *)

\* The items are tried one after the other.
SelectAt(items, order, total) ==
  CHOOSE at : at = [n \in 0 .. Len(order) |->
                      IF n = 0 THEN [left |-> total, chosen |-> <<>>]
                      ELSE SelectNext(at[n - 1], items, order[n])]

SelectRuns(items, order, total) ==
  /\ Select(items, order, total) = SelectAt(items, order, total)[Len(order)].chosen
  /\ SelectAt(items, order, total)[0] = [left |-> total, chosen |-> <<>>]
  /\ \A k \in 1 .. Len(order) :
       SelectAt(items, order, total)[k] = SelectNext(SelectAt(items, order, total)[k - 1], items, order[k])

\* What is selected after each item follows from what was before.
LEMMA SelectUnfolds ==
    ASSUME NEW items, NEW order, Len(order) \in Nat, NEW total
    PROVE  SelectRuns(items, order, total)
  <1> DEFINE m == Len(order)
             first == [left |-> total, chosen |-> <<>>]
             Step(x, k) == SelectNext(x, items, order[k])
             Run(g, j) == g = [k \in 0 .. j |-> IF k = 0 THEN first ELSE Step(g[k - 1], k)]
             S == {j \in 0 .. m : \E g : Run(g, j)}
             at == SelectAt(items, order, total)
  <1>1. m \in Nat
    OBVIOUS
  <1>2. Select(items, order, total) = at[m].chosen
    BY DEF Select, SelectAt
  <1>3. (\E g : Run(g, m)) => Run(at, m)
    BY Zenon DEF SelectAt
  <1> HIDE DEF m, first, Step, at
  <1>4. 0 \in S
    <2> DEFINE g == [k \in 0 .. 0 |-> first]
    <2>1. g = [k \in 0 .. 0 |-> IF k = 0 THEN first ELSE Step(g[k - 1], k)]
      OBVIOUS
    <2>2. Run(g, 0) /\ 0 \in 0 .. m
      BY <1>1, <2>1
    <2> HIDE DEF g
    <2> QED
      BY <2>2
  <1>5. ASSUME NEW j \in 0 .. m, j < m, j \in S PROVE j + 1 \in S
    <2>1. PICK g : Run(g, j)
      BY <1>5
    <2> DEFINE h == [k \in 0 .. j + 1 |-> IF k = j + 1 THEN Step(g[j], j + 1) ELSE g[k]]
    <2>2. ASSUME NEW k \in 0 .. j + 1
          PROVE  h[k] = IF k = 0 THEN first ELSE Step(h[k - 1], k)
      <3>1. CASE k = j + 1
        <4>1. k # 0 /\ k - 1 = j /\ j \in 0 .. j + 1 /\ j # j + 1
          BY <3>1
        <4>2. h[j] = g[j] /\ h[k] = Step(g[j], j + 1)
          BY <3>1, <4>1
        <4> HIDE DEF h
        <4> QED
          BY <3>1, <4>1, <4>2
      <3>2. CASE k # j + 1
        <4>1. k \in 0 .. j /\ (k # 0 => k - 1 \in 0 .. j + 1 /\ k - 1 # j + 1)
          BY <3>2
        <4>2. g[k] = IF k = 0 THEN first ELSE Step(g[k - 1], k)
          BY <2>1, <4>1
        <4>3. h[k] = g[k] /\ (k # 0 => h[k - 1] = g[k - 1])
          BY <3>2, <4>1
        <4> HIDE DEF h
        <4> QED
          BY <4>2, <4>3
      <3> QED
        BY <3>1, <3>2
    <2>3. h = [k \in 0 .. j + 1 |-> h[k]]
      OBVIOUS
    <2> HIDE DEF h
    <2>4. Run(h, j + 1)
      BY <2>2, <2>3
    <2>5. j + 1 \in 0 .. m
      BY <1>1, <1>5
    <2> QED
      BY <2>4, <2>5
  <1>6. m \in S
    <2> HIDE DEF S
    <2>1. \A j \in 0 .. m : j < m /\ j \in S => j + 1 \in S
      BY <1>5
    <2>2. \A j \in 0 .. m : j \in S
      BY <1>1, <1>4, <2>1, UpwardInduction
    <2> QED
      BY <1>1, <2>2
  <1>7. Run(at, m)
    BY <1>3, <1>6
  <1>8. at[0] = first /\ \A k \in 1 .. m : at[k] = Step(at[k - 1], k)
    <2>1. 0 \in 0 .. m /\ \A k \in 1 .. m : k \in 0 .. m /\ k # 0
      BY <1>1
    <2> QED
      BY <1>7, <2>1, Zenon
  <1> QED
    BY <1>2, <1>8 DEF m, first, Step, at, SelectRuns

\* What is selected comes from the order in which the items are tried, each at
\* most once.
LEMMA SelectDistinct ==
    ASSUME NEW items, NEW I, NEW order \in Seq(I), IsInjective(order), NEW total
    PROVE  Select(items, order, total) \in Seq(I) /\ IsInjective(Select(items, order, total))
  <1> DEFINE n == Len(order)
             at == SelectAt(items, order, total)
             Good(c, k) == /\ c \in Seq(I) /\ \A i \in DOMAIN c : \E p \in 1 .. k : c[i] = order[p]
                           /\ \A i, j \in DOMAIN c : c[i] = c[j] => i = j
             S == {k \in 0 .. n : Good(at[k].chosen, k)}
  <1>1. n \in Nat /\ \A k \in 1 .. n : order[k] \in I
    OBVIOUS
  <1>2. \A p, q \in 1 .. n : order[p] = order[q] => p = q
    BY DEF IsInjective
  <1>3. /\ Select(items, order, total) = at[n].chosen /\ at[0] = [left |-> total, chosen |-> <<>>]
        /\ \A k \in 1 .. n : at[k] = SelectNext(at[k - 1], items, order[k])
    <2>1. Len(order) \in Nat
      OBVIOUS
    <2>2. SelectRuns(items, order, total)
      BY <2>1, SelectUnfolds, Zenon
    <2> QED
      BY <2>2, Zenon DEF SelectRuns
  <1> HIDE DEF n, at
  <1>4. 0 \in S
    <2>1. at[0].chosen = <<>>
      BY <1>3
    <2>2. Good(<<>>, 0)
      OBVIOUS
    <2>3. Good(at[0].chosen, 0)
      BY <2>1, <2>2, Zenon
    <2> QED
      BY <1>1, <2>3
  <1>5. ASSUME NEW k \in 0 .. n, k < n, k \in S PROVE k + 1 \in S
    <2>1. k + 1 \in 1 .. n /\ k + 1 \in 0 .. n /\ (k + 1) - 1 = k /\ k \in Nat
      BY <1>1, <1>5
    <2>2. at[k + 1] = SelectNext(at[k], items, order[k + 1])
      BY <1>3, <2>1
    <2>3. \/ at[k + 1].chosen = at[k].chosen
          \/ at[k + 1].chosen = Append(at[k].chosen, order[k + 1])
      <3>1. ASSUME NEW a, NEW id
            PROVE  \/ SelectNext(a, items, id).chosen = a.chosen
                   \/ SelectNext(a, items, id).chosen = Append(a.chosen, id)
        BY DEF SelectNext
      <3> QED
        BY <2>2, <3>1, Zenon
    <2>4. Good(at[k].chosen, k)
      BY <1>5
    <2>5. ASSUME NEW c, Good(c, k), NEW d, d = c \/ d = Append(c, order[k + 1]) PROVE Good(d, k + 1)
      <3>1. c \in Seq(I) /\ order[k + 1] \in I
        BY <1>1, <2>1, <2>5
      <3>2. d \in Seq(I)
        BY <2>5, <3>1
      <3>3. \A p \in 1 .. k : p \in 1 .. k + 1 /\ p \in 1 .. n /\ p # k + 1
        BY <1>1, <2>1
      <3>4. \A i \in DOMAIN c : c[i] # order[k + 1]
        BY <1>2, <2>1, <2>5, <3>3
      <3>5. CASE d = c
        BY <2>5, <3>2, <3>3, <3>5
      <3>6. CASE d = Append(c, order[k + 1])
        <4>1. /\ Len(c) \in Nat /\ DOMAIN c = 1 .. Len(c) /\ DOMAIN d = 1 .. Len(c) + 1
              /\ d[Len(c) + 1] = order[k + 1] /\ \A i \in 1 .. Len(c) : d[i] = c[i]
          BY <3>1, <3>6
        <4>2. \A i \in DOMAIN d : i = Len(c) + 1 \/ i \in DOMAIN c
          BY <4>1
        <4>3. \A i \in DOMAIN d : \E p \in 1 .. k + 1 : d[i] = order[p]
          BY <2>1, <2>5, <3>3, <4>1, <4>2
        <4>4. \A i, j \in DOMAIN d : d[i] = d[j] => i = j
          BY <2>5, <3>4, <4>1, <4>2
        <4> QED
          BY <3>2, <4>3, <4>4
      <3> QED
        BY <2>5, <3>5, <3>6
    <2> HIDE DEF Good
    <2>6. Good(at[k + 1].chosen, k + 1)
      BY <2>3, <2>4, <2>5, Zenon
    <2> QED
      BY <2>1, <2>6
  <1>6. n \in S
    <2> HIDE DEF S
    <2>1. \A k \in 0 .. n : k < n /\ k \in S => k + 1 \in S
      BY <1>5
    <2>2. \A k \in 0 .. n : k \in S
      BY <1>1, <1>4, <2>1, UpwardInduction
    <2> QED
      BY <1>1, <2>2
  <1> QED
    BY <1>3, <1>6, Zenon DEF IsInjective

\* A window selects some of the events it was offered, none of them twice.
LEMMA SolveDistinct ==
    ASSUME NEW ids \in Seq(Nat), IsInjective(ids), NEW b, NEW selected \in solve(ids, b)
    PROVE  selected \in Seq(Nat) /\ IsInjective(selected) /\ Range(selected) \subseteq Range(ids)
  <1> DEFINE items == [i \in DOMAIN ids |-> Item(ids[i])]
             efficiency == [i \in DOMAIN ids |-> recompute_efficiency(items[i], b.total)]
             queued == {i \in DOMAIN items : efficiency[i] > 0}
  <1>1. PICK chosen \in greedy(items, efficiency, b.total) :
          selected = [i \in DOMAIN chosen |-> ids[chosen[i]]]
    BY Zenon DEF solve
  <1>2. PICK order \in HeapOrders(items, efficiency) : chosen = Select(items, order, b.total)
    BY <1>1, Zenon DEF greedy
  <1>3. queued \subseteq DOMAIN ids
    OBVIOUS
  <1>4. order \in [1 .. Cardinality(queued) -> queued] /\ IsInjective(order)
    BY <1>2, Zenon DEF HeapOrders, Injection
  <1>5. Cardinality(queued) \in Nat
    <2>1. IsFiniteSet(1 .. Len(ids)) /\ DOMAIN ids = 1 .. Len(ids)
      BY FS_Interval
    <2> QED
      BY <1>3, <2>1, FS_Subset, FS_CardinalityType, Zenon
  <1> HIDE DEF queued, items, efficiency
  <1>6. order \in Seq(DOMAIN ids)
    BY <1>3, <1>4, <1>5
  <1>7. chosen \in Seq(DOMAIN ids) /\ IsInjective(chosen)
    BY <1>2, <1>4, <1>6, SelectDistinct
  <1>8. /\ Len(chosen) \in Nat /\ DOMAIN chosen = 1 .. Len(chosen)
        /\ \A i \in DOMAIN chosen : chosen[i] \in DOMAIN ids
    BY <1>7
  <1>9. selected \in Seq(Nat)
    BY <1>1, <1>8
  <1> QED
    BY <1>1, <1>7, <1>8, <1>9 DEF IsInjective, Range

Batchers == [queue : Seq(Nat), age : Nat, total_dropped : Nat]

\* The batcher after one of its operations.
LEMMA BatcherFields ==
    ASSUME NEW b \in Batchers, NEW q \in Seq(Nat)
    PROVE  /\ b.queue \in Seq(Nat) /\ b.total_dropped \in Nat
           /\ LET c == [b EXCEPT !.total_dropped = @ + 1]
              IN c \in Batchers /\ c.queue = b.queue /\ c.total_dropped = b.total_dropped + 1
           /\ LET c == [b EXCEPT !.queue = q]
              IN c \in Batchers /\ c.queue = q /\ c.total_dropped = b.total_dropped
           /\ LET c == [b EXCEPT !.queue = q, !.age = 0]
              IN c \in Batchers /\ c.queue = q /\ c.total_dropped = b.total_dropped
  <1> DEFINE Q == Seq(Nat)
  <1>1. Batchers = [queue : Q, age : Nat, total_dropped : Nat] /\ q \in Q
    BY DEF Batchers
  <1>2. b \in [queue : Q, age : Nat, total_dropped : Nat]
    BY <1>1
  <1> HIDE DEF Q
  <1>3. b.queue \in Q /\ b.age \in Nat /\ b.total_dropped \in Nat
        /\ b = [queue |-> b.queue, age |-> b.age, total_dropped |-> b.total_dropped]
    BY <1>2
  <1>4. LET c == [b EXCEPT !.total_dropped = @ + 1]
        IN c \in Batchers /\ c.queue = b.queue /\ c.total_dropped = b.total_dropped + 1
    BY <1>1, <1>2, <1>3
  <1>5. LET c == [b EXCEPT !.queue = q]
        IN c \in Batchers /\ c.queue = q /\ c.total_dropped = b.total_dropped
    BY <1>1, <1>2, <1>3
  <1>6. LET c == [b EXCEPT !.queue = q, !.age = 0]
        IN c \in Batchers /\ c.queue = q /\ c.total_dropped = b.total_dropped
    BY <1>1, <1>2, <1>3, Zenon
  <1> QED
    BY <1>3, <1>4, <1>5, <1>6 DEF Q

\* The queue and the counter.
LEMMA BatcherTypes ==
    ASSUME NEW b \in Batchers
    PROVE  b.queue \in Seq(Nat) /\ b.total_dropped \in Nat
  <1>1. <<>> \in Seq(Nat)
    OBVIOUS
  <1> QED
    BY <1>1, BatcherFields, Zenon

\* Sequences of ids, put together.
LEMMA Concatenation ==
    ASSUME NEW p \in Seq(Nat), NEW q \in Seq(Nat), NEW id \in Nat
    PROVE  /\ p \o q \in Seq(Nat) /\ Len(p \o q) = Len(p) + Len(q) /\ Len(p) \in Nat
           /\ Append(q, id) \in Seq(Nat) /\ Len(Append(q, id)) = Len(q) + 1
           /\ p \o Append(q, id) = Append(p \o q, id)
           /\ p \o <<>> = p
  OBVIOUS

\* One more frame in a flow without it.
LEMMA AppendDistinct ==
    ASSUME NEW s \in Seq(Nat), IsInjective(s), NEW id \in Nat, id \notin Range(s)
    PROVE  IsInjective(Append(s, id)) /\ Range(Append(s, id)) = Range(s) \cup {id}
  <1> DEFINE n == Len(s)
             g == Append(s, id)
  <1>1. /\ n \in Nat /\ DOMAIN s = 1 .. n /\ DOMAIN g = 1 .. n + 1 /\ g[n + 1] = id
        /\ \A i \in 1 .. n : g[i] = s[i]
    OBVIOUS
  <1> HIDE DEF n, g
  <1>2. \A i \in 1 .. n + 1 : i = n + 1 \/ i \in 1 .. n
    BY <1>1
  <1>3. n + 1 \in 1 .. n + 1 /\ \A i \in 1 .. n : i \in 1 .. n + 1
    BY <1>1
  <1>4. IsInjective(g)
    BY <1>1, <1>2 DEF IsInjective, Range
  <1>5. Range(g) = Range(s) \cup {id}
    BY <1>1, <1>2, <1>3 DEF Range
  <1> QED
    BY <1>4, <1>5 DEF g

-----------------------------------------------------------------------------
(* The rows of the snapshot. *)

\* The maximum of a set is the member that no other exceeds.
LEMMA MaxOf ==
    ASSUME NEW S \in SUBSET Int, NEW m \in S, \A y \in S : m >= y
    PROVE  Max(S) = m
  <1>1. Max(S) \in S /\ \A y \in S : Max(S) >= y
    BY Zenon DEF Max
  <1>2. Max(S) >= m /\ m >= Max(S) /\ m \in Int /\ Max(S) \in Int
    BY <1>1, Zenon
  <1> QED
    BY <1>2

\* Numbers below a bound have one.
LEMMA MaxBelow ==
    ASSUME NEW b \in Nat, NEW S \in SUBSET (0 .. b), S # {}
    PROVE  Max(S) \in S /\ \A y \in S : Max(S) >= y
  <1> DEFINE T == {k \in 0 .. b : \/ \A y \in S : y > k
                                  \/ \E m \in S : \A y \in S : y <= k => m >= y}
  <1>1. 0 \in T
    <2>1. CASE 0 \in S
      BY <2>1
    <2>2. CASE 0 \notin S
      BY <2>2
    <2> QED
      BY <2>1, <2>2
  <1>2. \A k \in 0 .. b : k < b /\ k \in T => k + 1 \in T
    <2> SUFFICES ASSUME NEW k \in 0 .. b, k < b, k \in T PROVE k + 1 \in T
      OBVIOUS
    <2>1. CASE k + 1 \in S
      <3>1. \A y \in S : y <= k + 1 => k + 1 >= y
        OBVIOUS
      <3> QED
        BY <2>1, <3>1
    <2>2. CASE k + 1 \notin S
      <3>1. \A y \in S : y <= k + 1 => y <= k
        BY <2>2
      <3>2. \A y \in S : y > k => y > k + 1
        BY <2>2
      <3> QED
        BY <3>1, <3>2
    <2> QED
      BY <2>1, <2>2
  <1>3. b \in T
    <2> HIDE DEF T
    <2>1. \A k \in 0 .. b : k \in T
      BY <1>1, <1>2, UpwardInduction, Zenon
    <2> QED
      BY <2>1
  <1>4. PICK m \in S : \A y \in S : m >= y
    <2> HIDE DEF T
    <2>3. \A y \in 0 .. b : ~(y > b)
      OBVIOUS
    <2>1. \E y \in S : ~(y > b)
      BY <2>3, Zenon
    <2> USE DEF T
    <2>2. PICK m \in S : \A y \in S : y <= b => m >= y
      BY <1>3, <2>1
    <2> QED
      BY <2>2
  <1> QED
    BY <1>4, Zenon DEF Max

\* A finite set of numbers has an enumeration in ascending order, and every
\* ascending sequence as long as the set is large takes each member.
LEMMA AscendingEnumerates ==
    ASSUME NEW b \in Nat, NEW S \in SUBSET (0 .. b)
    PROVE  LET s == Ascending(S)
           IN  /\ \E n \in Nat : s \in [1 .. n -> S]
               /\ \A i, j \in DOMAIN s : i < j => s[i] < s[j]
               /\ \A x \in S : \E i \in DOMAIN s : s[i] = x
  <1> DEFINE Up(s) == \A i, j \in DOMAIN s : i < j => s[i] < s[j]
             Has(U) == \E s \in [1 .. Cardinality(U) -> U] : Up(s)
             T == {k \in 0 .. b : \A U \in SUBSET (0 .. k) : Has(U)}
  <1>1. \A k \in 0 .. b : \A U \in SUBSET (0 .. k) : IsFiniteSet(U) /\ Cardinality(U) \in Nat
    <2> SUFFICES ASSUME NEW k \in 0 .. b, NEW U \in SUBSET (0 .. k)
                 PROVE  IsFiniteSet(U) /\ Cardinality(U) \in Nat
      OBVIOUS
    <2>1. IsFiniteSet(0 .. k)
      BY FS_Interval
    <2>2. IsFiniteSet(U)
      BY <2>1, FS_Subset, Zenon
    <2> QED
      BY <2>2, FS_CardinalityType, Zenon
  <1>2. ASSUME NEW k \in 0 .. b, NEW U \in SUBSET (0 .. k), NEW s \in [1 .. Cardinality(U) -> U],
               Up(s), NEW x \in Int, x > k
        PROVE  Has(U \cup {x})
    <2>1. x \notin U
      BY <1>2
    <2>2. IsFiniteSet(U) /\ Cardinality(U) \in Nat
      BY <1>1, Zenon
    <2>3. Cardinality(U \cup {x}) = Cardinality(U) + 1
      BY <2>1, <2>2, FS_AddElement, Zenon
    <2>4. PICK n \in Nat : n = Cardinality(U)
      BY <2>2
    <2>7. s \in [1 .. n -> U]
      BY <2>4
    <2> DEFINE r == [i \in 1 .. n + 1 |-> IF i = n + 1 THEN x ELSE s[i]]
    <2>5. r \in [1 .. n + 1 -> U \cup {x}]
      BY <2>4
    <2>6. Up(r)
      <3> SUFFICES ASSUME NEW i \in 1 .. n + 1, NEW j \in 1 .. n + 1, i < j PROVE r[i] < r[j]
        OBVIOUS
      <3>1. i \in 1 .. n /\ r[i] = s[i] /\ s[i] \in 0 .. k
        <4>1. i \in 1 .. n /\ i # n + 1
          OBVIOUS
        <4> QED
          BY <2>7, <4>1, Zenon
      <3>2. CASE j = n + 1
        BY <1>2, <3>1, <3>2
      <3>3. CASE j # n + 1
        BY <1>2, <3>1, <3>3, <2>4
      <3> QED
        BY <3>2, <3>3
    <2> HIDE DEF r, Up
    <2> QED
      BY <2>3, <2>4, <2>5, <2>6, Zenon
  <1>3. Has({})
    <2>1. Cardinality({}) = 0
      BY FS_EmptySet
    <2>2. <<>> \in [1 .. 0 -> {}] /\ Up(<<>>)
      OBVIOUS
    <2> HIDE DEF Up
    <2> QED
      BY <2>1, <2>2, Zenon
  <1>4. 0 \in T
    <2> SUFFICES ASSUME NEW U \in SUBSET (0 .. 0) PROVE Has(U)
      OBVIOUS
    <2>1. CASE U = {}
      BY <1>3, <2>1, Zenon
    <2>2. CASE U # {}
      <3>1. \A y \in U : y = 0
        OBVIOUS
      <3>2. Cardinality({0}) = 1
        BY FS_Singleton
      <3>3. <<0>> \in [1 .. 1 -> {0}] /\ Up(<<0>>)
        OBVIOUS
      <3>4. U = {0}
        BY <2>2, <3>1, Zenon
      <3> HIDE DEF Up
      <3> QED
        BY <3>2, <3>3, <3>4
    <2> QED
      BY <2>1, <2>2
  <1>5. \A k \in 0 .. b : k < b /\ k \in T => k + 1 \in T
    <2>3. \A k \in 0 .. b : k < b => k + 1 \in 0 .. b
      OBVIOUS
    <2> HIDE DEF Has
    <2> SUFFICES ASSUME NEW k \in 0 .. b, k < b, k \in T, NEW U \in SUBSET (0 .. k + 1) PROVE Has(U)
      BY <2>3
    <2> USE DEF Has
    <2>1. CASE U \in SUBSET (0 .. k)
      BY <2>1, Zenon
    <2>2. CASE U \notin SUBSET (0 .. k)
      <3> DEFINE W == U \ {k + 1}
      <3>1. k + 1 \in U /\ W \in SUBSET (0 .. k) /\ U = W \cup {k + 1}
        BY <2>2
      <3> HIDE DEF W
      <3>2. PICK s \in [1 .. Cardinality(W) -> W] : Up(s)
        BY <3>1, Zenon
      <3>3. k + 1 \in Int /\ k + 1 > k
        OBVIOUS
      <3> HIDE DEF Has, Up, T
      <3>4. Has(W \cup {k + 1})
        BY <1>2, <3>1, <3>2, <3>3
      <3> QED
        BY <3>1, <3>4, Zenon
    <2> QED
      BY <2>1, <2>2
  <1>6. Has(S)
    <2>1. b \in 0 .. b
      OBVIOUS
    <2> HIDE DEF Has
    <2>2. \A U \in SUBSET (0 .. b) : Has(U)
      <3>1. \A k \in 0 .. b : k \in T
        <4> HIDE DEF T
        <4> QED
          BY <1>4, <1>5, UpwardInduction, Zenon
      <3> QED
        BY <2>1, <3>1
    <2> QED
      BY <2>2, Zenon
  <1> DEFINE s == Ascending(S)
  <1>7. s \in [1 .. Cardinality(S) -> S] /\ Up(s)
    BY <1>6, Zenon DEF Ascending
  <1> HIDE DEF s
  <1>8. IsFiniteSet(S) /\ Cardinality(S) \in Nat
    <2>1. b \in 0 .. b
      OBVIOUS
    <2> QED
      BY <1>1, <2>1, Zenon
  <1>9. PICK n \in Nat : n = Cardinality(S)
    BY <1>8
  <1>10. s \in Injection(1 .. n, S)
    <2>2. s \in [1 .. n -> S]
      BY <1>7, <1>9
    <2>1. ASSUME NEW i \in 1 .. n, NEW j \in 1 .. n, s[i] = s[j] PROVE i = j
      <3>1. s[i] \in Int
        <4>1. s[i] \in S
          BY <2>2
        <4>2. s[i] \in 0 .. b
          BY <4>1, Zenon
        <4> QED
          BY <4>2
      <3>2. ~(i < j) /\ ~(j < i)
        BY <1>7, <1>9, <2>1, <3>1
      <3> QED
        BY <3>2
    <2> QED
      BY <1>7, <1>9, <2>1 DEF Injection, IsInjective
  <1>11. Cardinality(1 .. n) = n
    BY FS_Interval
  <1>12. s \in Surjection(1 .. n, S)
    BY <1>8, <1>9, <1>10, <1>11, FS_Injection, Zenon
  <1>13. \A x \in S : \E i \in 1 .. n : s[i] = x
    BY <1>12, Zenon DEF Surjection
  <1>14. s \in [1 .. n -> S] /\ DOMAIN s = 1 .. n
    BY <1>7, <1>9
  <1> QED
    BY <1>7, <1>9, <1>13, <1>14 DEF s

\* What is defined by steps within a set, from a member of it, exists.
StepsWithin(U, m) == [U \X (1 .. m) -> U]
Reached(first, F, U, m) ==
  \E g \in [0 .. m -> U] : g[0] = first /\ \A k \in 1 .. m : g[k] = F[<<g[k - 1], k>>]

\* The steps can be run to any length.
LEMMA StepsRun ==
    ASSUME NEW m \in Nat, NEW U, NEW first \in U, NEW F \in StepsWithin(U, m)
    PROVE  Reached(first, F, U, m)
  <1>5. F \in [U \X (1 .. m) -> U]
    BY DEF StepsWithin
  <1> DEFINE Run(g, j) == g[0] = first /\ \A k \in 1 .. j : g[k] = F[<<g[k - 1], k>>]
             S == {j \in 0 .. m : \E g \in [0 .. j -> U] : Run(g, j)}
  <1>1. 0 \in S
    <2> DEFINE g == [k \in 0 .. 0 |-> first]
    <2>1. g \in [0 .. 0 -> U] /\ Run(g, 0)
      OBVIOUS
    <2> HIDE DEF g, Run
    <2> QED
      BY <2>1
  <1>2. ASSUME NEW j \in 0 .. m, j < m, j \in S PROVE j + 1 \in S
    <2>1. PICK g \in [0 .. j -> U] : Run(g, j)
      BY <1>2
    <2> DEFINE h == [k \in 0 .. j + 1 |-> IF k = j + 1 THEN F[<<g[j], j + 1>>] ELSE g[k]]
    <2>2. j + 1 \in 1 .. m /\ j + 1 \in 0 .. m /\ j \in 0 .. j
      BY <1>2
    <2>3. F[<<g[j], j + 1>>] \in U
      BY <1>5, <2>2
    <2>4. h \in [0 .. j + 1 -> U]
      BY <2>3
    <2>5. h[0] = first
      BY <2>1
    <2>6. ASSUME NEW k \in 1 .. j + 1 PROVE h[k] = F[<<h[k - 1], k>>]
      <3>1. k - 1 \in 0 .. j + 1 /\ k - 1 # j + 1 /\ k \in 0 .. j + 1 /\ (k = j + 1 => k - 1 = j)
        OBVIOUS
      <3>2. h[k - 1] = g[k - 1]
        BY <3>1
      <3>3. CASE k = j + 1
        BY <3>1, <3>2, <3>3
      <3>4. CASE k # j + 1
        <4>1. k \in 1 .. j
          BY <3>4
        <4>2. h[k] = g[k]
          BY <3>1, <3>4
        <4> HIDE DEF h
        <4> QED
          BY <2>1, <3>2, <4>1, <4>2
      <3> QED
        BY <3>3, <3>4
    <2> HIDE DEF h
    <2>7. Run(h, j + 1)
      BY <2>5, <2>6
    <2> HIDE DEF Run
    <2> QED
      BY <2>2, <2>4, <2>7
  <1>3. \A j \in 0 .. m : j \in S
    <2> HIDE DEF S
    <2>1. \A j \in 0 .. m : j < m /\ j \in S => j + 1 \in S
      BY <1>2
    <2> QED
      BY <1>1, <2>1, UpwardInduction, Zenon
  <1>4. m \in 0 .. m
    OBVIOUS
  <1> QED
    BY <1>3, <1>4 DEF Reached

\* The entries of a row are taken one after the other.
LatestAt(entries, v, w) ==
  CHOOSE at : at = [n \in 0 .. Len(entries) |-> IF n = 0 THEN NoProps
                                                ELSE IF entries[n][1] = v /\ entries[n][2] = w
                                                THEN latest_props(at[n - 1], entries[n][3]) ELSE at[n - 1]]

\* What latest_props leaves of each entry follows from what it left before.
LEMMA LatestUnfolds ==
    ASSUME NEW entries, IsSequence(entries), NEW v, NEW w
    PROVE  /\ LatestOf(entries, v, w) = LatestAt(entries, v, w)[Len(entries)]
           /\ LatestAt(entries, v, w)[0] = NoProps
           /\ \A k \in 1 .. Len(entries) :
                LatestAt(entries, v, w)[k] = IF entries[k][1] = v /\ entries[k][2] = w
                                             THEN latest_props(LatestAt(entries, v, w)[k - 1], entries[k][3])
                                             ELSE LatestAt(entries, v, w)[k - 1]
  <1> DEFINE m == Len(entries)
             U == {NoProps} \cup {entries[i][3] : i \in 1 .. m}
             Step(x, k) == IF entries[k][1] = v /\ entries[k][2] = w
                           THEN latest_props(x, entries[k][3]) ELSE x
             F == [p \in U \X (1 .. m) |-> Step(p[1], p[2])]
             Run(g) == g = [k \in 0 .. m |-> IF k = 0 THEN NoProps ELSE Step(g[k - 1], k)]
             at == LatestAt(entries, v, w)
  <1>1. m \in Nat
    BY DEF IsSequence
  <1>2. LatestOf(entries, v, w) = at[m]
    BY DEF LatestOf, LatestAt
  <1>3. (\E g : Run(g)) => Run(at)
    BY Zenon DEF LatestAt
  <1>4. \A x \in U, k \in 1 .. m : Step(x, k) \in U
    <2>1. \A x \in U, k \in 1 .. m : Step(x, k) = x \/ Step(x, k) = entries[k][3]
      BY DEF latest_props
    <2> HIDE DEF Step
    <2> QED
      BY <2>1
  <1>5. NoProps \in U
    OBVIOUS
  <1> HIDE DEF m, Step, at, U
  <1>6. F \in [U \X (1 .. m) -> U] /\ \A x \in U, k \in 1 .. m : F[<<x, k>>] = Step(x, k)
    BY <1>4
  <1> HIDE DEF F
  <1>7. PICK g \in [0 .. m -> U] : g[0] = NoProps /\ \A k \in 1 .. m : g[k] = F[<<g[k - 1], k>>]
    <2>1. F \in StepsWithin(U, m)
      BY <1>6 DEF StepsWithin
    <2>2. Reached(NoProps, F, U, m)
      BY <1>1, <1>5, <2>1, StepsRun, Zenon
    <2> QED
      BY <2>2, Zenon DEF Reached
  <1>8. Run(g)
    <2>1. ASSUME NEW k \in 0 .. m PROVE g[k] = IF k = 0 THEN NoProps ELSE Step(g[k - 1], k)
      <3>1. k # 0 => k \in 1 .. m /\ k - 1 \in 0 .. m
        BY <1>1
      <3>2. k # 0 => g[k - 1] \in U
        BY <3>1
      <3> QED
        BY <1>6, <1>7, <3>1, <3>2, Zenon
    <2> QED
      BY <2>1
  <1>9. Run(at)
    BY <1>3, <1>8, Zenon
  <1>10. 0 \in 0 .. m /\ \A k \in 1 .. m : k \in 0 .. m /\ k # 0
    BY <1>1
  <1>11. at[0] = NoProps /\ \A k \in 1 .. m : at[k] = Step(at[k - 1], k)
    BY <1>9, <1>10, Zenon
  <1> QED
    BY <1>2, <1>11 DEF m, Step, at

\* What is left of the entries with the same ends is one that none is newer than.
IsLatest(l, entries, v, w) ==
  /\ \E k \in 1 .. Len(entries) : entries[k][1] = v /\ entries[k][2] = w /\ entries[k][3] = l
  /\ \A k \in 1 .. Len(entries) : entries[k][1] = v /\ entries[k][2] = w => entries[k][3].ts <= l.ts

\* What latest_props leaves of all entries is such a one.
LEMMA LatestIsNewest ==
    ASSUME NEW entries, IsSequence(entries), NEW v, NEW w,
           \A k \in 1 .. Len(entries) : entries[k][3].ts \in Nat,
           NEW j \in 1 .. Len(entries), entries[j][1] = v, entries[j][2] = w
    PROVE  IsLatest(LatestOf(entries, v, w), entries, v, w)
  <1> DEFINE m == Len(entries)
             at == LatestAt(entries, v, w)
             Is(k) == entries[k][1] = v /\ entries[k][2] = w
             Done(n) == \/ at[n] = NoProps /\ \A k \in 1 .. n : ~Is(k)
                        \/ /\ \E k \in 1 .. n : Is(k) /\ entries[k][3] = at[n]
                           /\ \A k \in 1 .. n : Is(k) => entries[k][3].ts <= at[n].ts
             S == {n \in 0 .. m : Done(n)}
  <1>1. m \in Nat
    BY DEF IsSequence
  <1>2. /\ at[0] = NoProps
        /\ \A k \in 1 .. m : at[k] = IF Is(k) THEN latest_props(at[k - 1], entries[k][3]) ELSE at[k - 1]
    BY LatestUnfolds
  <1>3. LatestOf(entries, v, w) = at[m]
    BY LatestUnfolds, Zenon
  <1>4. NoProps.ts = Never /\ \A t \in Nat : ~(Never > t)
    BY DEF NoProps, Never
  <1> HIDE DEF at, Is
  <1>5. 0 \in S
    BY <1>1, <1>2
  <1>6. ASSUME NEW n \in 0 .. m, n < m, n \in S PROVE n + 1 \in S
    <2>1. n + 1 \in 1 .. m /\ n + 1 \in 0 .. m /\ (n + 1) - 1 = n
      BY <1>1, <1>6
    <2>2. at[n + 1] = IF Is(n + 1) THEN latest_props(at[n], entries[n + 1][3]) ELSE at[n]
      BY <1>2, <2>1
    <2>3. \A k \in 1 .. n + 1 : k \in 1 .. n \/ k = n + 1
      OBVIOUS
    <2>4. \A k \in 1 .. n : k \in 1 .. n + 1 /\ k \in 1 .. m
      BY <2>1
    <2>5. CASE ~Is(n + 1)
      <3>1. at[n + 1] = at[n]
        BY <2>2, <2>5
      <3>2. Done(n + 1)
        BY <1>6, <2>3, <2>4, <2>5, <3>1
      <3> QED
        BY <2>1, <3>2
    <2>6. CASE Is(n + 1)
      <3>1. at[n + 1] = latest_props(at[n], entries[n + 1][3])
        BY <2>2, <2>6
      <3>2. PICK c : c = entries[n + 1][3] /\ c.ts \in Nat
        BY <2>1
      <3>3. n + 1 \in 1 .. n + 1
        BY <2>1
      <3>4. CASE at[n] = NoProps /\ \A k \in 1 .. n : ~Is(k)
        <4>1. at[n + 1] = c
          BY <1>4, <3>1, <3>2, <3>4 DEF latest_props
        <4>2. \A k \in 1 .. n + 1 : Is(k) => entries[k][3] = c
          BY <2>3, <3>2, <3>4
        <4>3. c.ts <= c.ts
          BY <3>2
        <4>4. Done(n + 1)
          BY <2>6, <3>2, <3>3, <4>1, <4>2, <4>3
        <4> QED
          BY <2>1, <4>4
      <3>5. CASE ~(at[n] = NoProps /\ \A k \in 1 .. n : ~Is(k))
        <4>1. PICK i \in 1 .. n : Is(i) /\ entries[i][3] = at[n]
          BY <1>6, <3>5
        <4>2. at[n].ts \in Nat
          BY <2>4, <4>1
        <4>3. \A k \in 1 .. n : Is(k) => entries[k][3].ts <= at[n].ts /\ entries[k][3].ts \in Nat
          BY <1>6, <2>4, <3>5
        <4>4. CASE at[n].ts > c.ts
          <5>1. at[n + 1] = at[n]
            BY <3>1, <3>2, <4>4 DEF latest_props
          <5>2. c.ts <= at[n].ts
            BY <3>2, <4>2, <4>4
          <5>3. Done(n + 1)
            BY <2>3, <2>4, <3>2, <4>1, <4>3, <5>1, <5>2, Zenon
          <5> QED
            BY <2>1, <5>3
        <4>5. CASE ~(at[n].ts > c.ts)
          <5>1. at[n + 1] = c
            BY <3>1, <3>2, <4>5 DEF latest_props
          <5>2. \A k \in 1 .. n : Is(k) => entries[k][3].ts <= c.ts
            BY <3>2, <4>2, <4>3, <4>5
          <5>3. c.ts <= c.ts
            BY <3>2
          <5>4. Done(n + 1)
            BY <2>3, <2>6, <3>2, <3>3, <5>1, <5>2, <5>3
          <5> QED
            BY <2>1, <5>4
        <4> QED
          BY <4>4, <4>5
      <3> QED
        BY <3>4, <3>5
    <2> QED
      BY <2>5, <2>6
  <1>7. Done(m)
    <2>1. \A n \in 0 .. m : n \in S
      <3> HIDE DEF S
      <3>1. \A n \in 0 .. m : n < m /\ n \in S => n + 1 \in S
        BY <1>6
      <3> QED
        BY <1>1, <1>5, <3>1, UpwardInduction, Zenon
    <2> QED
      BY <1>1, <2>1
  <1>8. Is(j)
    BY DEF Is
  <1> QED
    BY <1>3, <1>7, <1>8 DEF Is, IsLatest

\* Rows of any length.
IsRows(rows) == IsSequence(rows) /\ \A i \in 1 .. Len(rows) : IsSequence(rows[i])
CellsOf(rows) == UNION {Range(rows[i]) : i \in 1 .. Len(rows)}

\* They are laid one after the other,
FlattenedAt(rows) ==
  CHOOSE at : at = [n \in 0 .. Len(rows) |-> IF n = 0 THEN <<>> ELSE at[n - 1] \o rows[n]]

\* so that what each adds follows what those before it make,
LEMMA FlattenedUnfolds ==
    ASSUME NEW rows, IsRows(rows)
    PROVE  /\ Flattened(rows) = FlattenedAt(rows)[Len(rows)]
           /\ FlattenedAt(rows)[0] = <<>>
           /\ \A k \in 1 .. Len(rows) : /\ FlattenedAt(rows)[k] = FlattenedAt(rows)[k - 1] \o rows[k]
                                       /\ FlattenedAt(rows)[k - 1] \in Seq(CellsOf(rows))
  <1> DEFINE m == Len(rows)
             U == Seq(CellsOf(rows))
             Step(x, k) == x \o rows[k]
             F == [p \in U \X (1 .. m) |-> Step(p[1], p[2])]
             Run(g) == g = [k \in 0 .. m |-> IF k = 0 THEN <<>> ELSE Step(g[k - 1], k)]
             at == FlattenedAt(rows)
  <1>1. m \in Nat
    BY DEF IsRows, IsSequence
  <1>2. Flattened(rows) = at[m]
    BY DEF Flattened, FlattenedAt
  <1>3. (\E g : Run(g)) => Run(at)
    BY Zenon DEF FlattenedAt
  <1>4. \A x \in U, k \in 1 .. m : Step(x, k) \in U
    <2>1. \A k \in 1 .. m : rows[k] \in Seq(CellsOf(rows))
      <3> SUFFICES ASSUME NEW k \in 1 .. m PROVE rows[k] \in Seq(CellsOf(rows))
        OBVIOUS
      <3>1. rows[k] \in Seq(Range(rows[k])) /\ Range(rows[k]) \subseteq CellsOf(rows)
        BY DEF IsRows, IsSequence, CellsOf
      <3> QED
        BY <3>1
    <2> QED
      BY <2>1
  <1>5. <<>> \in U
    OBVIOUS
  <1> HIDE DEF m, Step, at, U
  <1>6. F \in [U \X (1 .. m) -> U] /\ \A x \in U, k \in 1 .. m : F[<<x, k>>] = Step(x, k)
    BY <1>4
  <1> HIDE DEF F
  <1>7. PICK g \in [0 .. m -> U] : g[0] = <<>> /\ \A k \in 1 .. m : g[k] = F[<<g[k - 1], k>>]
    <2>1. F \in StepsWithin(U, m)
      BY <1>6 DEF StepsWithin
    <2>2. Reached(<<>>, F, U, m)
      BY <1>1, <1>5, <2>1, StepsRun, Zenon
    <2> QED
      BY <2>2, Zenon DEF Reached
  <1>8. Run(g)
    <2>1. ASSUME NEW k \in 0 .. m PROVE g[k] = IF k = 0 THEN <<>> ELSE Step(g[k - 1], k)
      <3>1. k # 0 => k \in 1 .. m /\ k - 1 \in 0 .. m
        BY <1>1
      <3>2. k # 0 => g[k - 1] \in U
        BY <3>1
      <3> QED
        BY <1>6, <1>7, <3>1, <3>2, Zenon
    <2> QED
      BY <2>1
  <1>9. Run(at)
    BY <1>3, <1>8, Zenon
  <1>10. 0 \in 0 .. m /\ \A k \in 1 .. m : k \in 0 .. m /\ k # 0 /\ k - 1 \in 0 .. m
    BY <1>1
  <1>11. at[0] = <<>> /\ \A k \in 1 .. m : at[k] = Step(at[k - 1], k)
    BY <1>9, <1>10, Zenon
  <1>12. \A k \in 1 .. m : at[k - 1] \in U
    <2> DEFINE S == {k \in 0 .. m : at[k] \in U}
    <2>1. 0 \in S
      BY <1>5, <1>10, <1>11
    <2>2. \A k \in 0 .. m : k < m /\ k \in S => k + 1 \in S
      <3> SUFFICES ASSUME NEW k \in 0 .. m, k < m, k \in S PROVE k + 1 \in S
        OBVIOUS
      <3>1. k + 1 \in 1 .. m /\ k + 1 \in 0 .. m /\ (k + 1) - 1 = k
        BY <1>1
      <3>2. at[k + 1] = Step(at[k], k + 1)
        BY <1>11, <3>1
      <3>3. at[k] \in U
        OBVIOUS
      <3> QED
        BY <1>4, <3>1, <3>2, <3>3
    <2>3. \A k \in 0 .. m : k \in S
      <3> HIDE DEF S
      <3> QED
        BY <1>1, <2>1, <2>2, UpwardInduction, Zenon
    <2> QED
      BY <1>10, <2>3
  <1> QED
    BY <1>2, <1>11, <1>12, Zenon DEF m, Step, at, U

\* and each starts where those before it end.
OffsetAt(rows) ==
  CHOOSE at : at = [n \in 0 .. Len(rows) |-> IF n = 0 THEN 0 ELSE at[n - 1] + Len(rows[n])]

\* by the lengths of those.
LEMMA OffsetsUnfold ==
    ASSUME NEW rows, IsRows(rows)
    PROVE  /\ Offsets(rows) = [i \in 1 .. Len(rows) + 1 |-> OffsetAt(rows)[i - 1]]
           /\ OffsetAt(rows)[0] = 0
           /\ \A k \in 1 .. Len(rows) : /\ OffsetAt(rows)[k] = OffsetAt(rows)[k - 1] + Len(rows[k])
                                       /\ OffsetAt(rows)[k - 1] \in Nat
  <1> DEFINE m == Len(rows)
             U == Nat
             Step(x, k) == x + Len(rows[k])
             F == [p \in U \X (1 .. m) |-> Step(p[1], p[2])]
             Run(g) == g = [k \in 0 .. m |-> IF k = 0 THEN 0 ELSE Step(g[k - 1], k)]
             at == OffsetAt(rows)
  <1>1. m \in Nat
    BY DEF IsRows, IsSequence
  <1>2. Offsets(rows) = [i \in 1 .. m + 1 |-> at[i - 1]]
    BY DEF Offsets, OffsetAt
  <1>3. (\E g : Run(g)) => Run(at)
    BY Zenon DEF OffsetAt
  <1>4. \A x \in U, k \in 1 .. m : Step(x, k) \in U
    <2>1. \A k \in 1 .. m : Len(rows[k]) \in Nat
      BY DEF IsRows, IsSequence
    <2> QED
      BY <2>1
  <1>5. 0 \in U
    OBVIOUS
  <1> HIDE DEF m, Step, at, U
  <1>6. F \in [U \X (1 .. m) -> U] /\ \A x \in U, k \in 1 .. m : F[<<x, k>>] = Step(x, k)
    BY <1>4
  <1> HIDE DEF F
  <1>7. PICK g \in [0 .. m -> U] : g[0] = 0 /\ \A k \in 1 .. m : g[k] = F[<<g[k - 1], k>>]
    <2>1. F \in StepsWithin(U, m)
      BY <1>6 DEF StepsWithin
    <2>2. Reached(0, F, U, m)
      BY <1>1, <1>5, <2>1, StepsRun, Zenon
    <2> QED
      BY <2>2, Zenon DEF Reached
  <1>8. Run(g)
    <2>1. ASSUME NEW k \in 0 .. m PROVE g[k] = IF k = 0 THEN 0 ELSE Step(g[k - 1], k)
      <3>1. k # 0 => k \in 1 .. m /\ k - 1 \in 0 .. m
        BY <1>1
      <3>2. k # 0 => g[k - 1] \in U
        BY <3>1
      <3> QED
        BY <1>6, <1>7, <3>1, <3>2, Zenon
    <2> QED
      BY <2>1
  <1>9. Run(at)
    BY <1>3, <1>8, Zenon
  <1>10. 0 \in 0 .. m /\ \A k \in 1 .. m : k \in 0 .. m /\ k # 0 /\ k - 1 \in 0 .. m
    BY <1>1
  <1>11. at[0] = 0 /\ \A k \in 1 .. m : at[k] = Step(at[k - 1], k)
    BY <1>9, <1>10, Zenon
  <1>12. \A k \in 1 .. m : at[k - 1] \in U
    <2> DEFINE S == {k \in 0 .. m : at[k] \in U}
    <2>1. 0 \in S
      BY <1>5, <1>10, <1>11
    <2>2. \A k \in 0 .. m : k < m /\ k \in S => k + 1 \in S
      <3> SUFFICES ASSUME NEW k \in 0 .. m, k < m, k \in S PROVE k + 1 \in S
        OBVIOUS
      <3>1. k + 1 \in 1 .. m /\ k + 1 \in 0 .. m /\ (k + 1) - 1 = k
        BY <1>1
      <3>2. at[k + 1] = Step(at[k], k + 1)
        BY <1>11, <3>1
      <3>3. at[k] \in U
        OBVIOUS
      <3> QED
        BY <1>4, <3>1, <3>2, <3>3
    <2>3. \A k \in 0 .. m : k \in S
      <3> HIDE DEF S
      <3> QED
        BY <1>1, <2>1, <2>2, UpwardInduction, Zenon
    <2> QED
      BY <1>10, <2>3
  <1> QED
    BY <1>2, <1>11, <1>12 DEF m, Step, at, U

\* A sequence after another.
LEMMA Joined ==
    ASSUME NEW C, NEW s \in Seq(C), NEW t \in Seq(C)
    PROVE  /\ s \o t \in Seq(C) /\ Len(s \o t) = Len(s) + Len(t) /\ Len(s) \in Nat /\ Len(t) \in Nat
           /\ \A j \in 1 .. Len(s) : (s \o t)[j] = s[j]
           /\ \A k \in 1 .. Len(t) : (s \o t)[Len(s) + k] = t[k]
  OBVIOUS

\* Each row is found where it was laid.
LEMMA RowsLaid ==
    ASSUME NEW rows, IsRows(rows)
    PROVE  LET f == Flattened(rows)
               off == OffsetAt(rows)
           IN  /\ f \in Seq(CellsOf(rows)) /\ Len(f) = off[Len(rows)]
               /\ \A i \in 1 .. Len(rows) :
                    /\ off[i - 1] \in Nat /\ off[i] = off[i - 1] + Len(rows[i]) /\ off[i] <= Len(f)
                    /\ \A k \in 1 .. Len(rows[i]) : f[off[i - 1] + k] = rows[i][k]
  <1> DEFINE m == Len(rows)
             C == CellsOf(rows)
             f == FlattenedAt(rows)
             off == OffsetAt(rows)
             Laid(n) == /\ f[n] \in Seq(C) /\ Len(f[n]) = off[n] /\ off[n] \in Nat
                        /\ \A i \in 1 .. n : /\ off[i] <= off[n]
                                             /\ \A k \in 1 .. Len(rows[i]) : f[n][off[i - 1] + k] = rows[i][k]
             S == {n \in 0 .. m : Laid(n)}
  <1>1. m \in Nat /\ \A i \in 1 .. m : rows[i] \in Seq(C) /\ Len(rows[i]) \in Nat
    <2> SUFFICES ASSUME NEW i \in 1 .. m PROVE rows[i] \in Seq(C) /\ Len(rows[i]) \in Nat
      BY DEF IsRows, IsSequence
    <2>1. rows[i] \in Seq(Range(rows[i])) /\ Range(rows[i]) \subseteq C
      BY DEF IsRows, IsSequence, CellsOf
    <2> QED
      BY <2>1
  <1>2. /\ Flattened(rows) = f[m] /\ f[0] = <<>>
        /\ \A k \in 1 .. m : f[k] = f[k - 1] \o rows[k] /\ f[k - 1] \in Seq(C)
    BY FlattenedUnfolds, Zenon
  <1>3. off[0] = 0 /\ \A k \in 1 .. m : off[k] = off[k - 1] + Len(rows[k]) /\ off[k - 1] \in Nat
    BY OffsetsUnfold
  <1> HIDE DEF m, C, f, off
  <1>4. 0 \in S
    <2>1. f[0] \in Seq(C) /\ Len(f[0]) = 0 /\ off[0] = 0
      BY <1>2, <1>3
    <2>2. Laid(0)
      BY <2>1
    <2> HIDE DEF Laid
    <2> QED
      BY <1>1, <2>2
  <1>5. ASSUME NEW n \in 0 .. m, n < m, n \in S PROVE n + 1 \in S
    <2>1. n + 1 \in 1 .. m /\ n + 1 \in 0 .. m /\ (n + 1) - 1 = n
      BY <1>1, <1>5
    <2>2. f[n + 1] = f[n] \o rows[n + 1] /\ off[n + 1] = off[n] + Len(rows[n + 1])
      BY <1>2, <1>3, <2>1, Zenon
    <2>3. rows[n + 1] \in Seq(C) /\ Len(rows[n + 1]) \in Nat
      BY <1>1, <2>1
    <2>4. f[n] \in Seq(C) /\ Len(f[n]) = off[n] /\ off[n] \in Nat
      BY <1>5
    <2>9. PICK x \in Seq(C), y \in Seq(C) : x = f[n] /\ y = rows[n + 1] /\ f[n + 1] = x \o y
      BY <2>2, <2>3, <2>4, Zenon
    <2>11. PICK z : z = f[n + 1]
      OBVIOUS
    <2>10. z \in Seq(C) /\ Len(z) = Len(x) + Len(y) /\ Len(x) \in Nat /\ Len(y) \in Nat
           /\ (\A j \in 1 .. Len(x) : z[j] = x[j])
           /\ \A k \in 1 .. Len(y) : z[Len(x) + k] = y[k]
      <3>1. z = x \o y
        BY <2>9, <2>11
      <3> QED
        BY <3>1, Joined
    <2>5. f[n + 1] \in Seq(C) /\ Len(f[n + 1]) = off[n + 1] /\ off[n + 1] \in Nat
      <3>1. off[n + 1] = Len(x) + Len(y)
        BY <2>2, <2>4, <2>9, Zenon
      <3>2. Len(x) + Len(y) \in Nat
        BY <2>10
      <3> QED
        BY <2>10, <2>11, <3>1, <3>2, Zenon
    <2>6. \A j \in 1 .. off[n] : f[n + 1][j] = f[n][j]
      BY <2>4, <2>9, <2>10, <2>11, Zenon
    <2>7. \A k \in 1 .. Len(rows[n + 1]) : f[n + 1][off[n] + k] = rows[n + 1][k]
      BY <2>4, <2>9, <2>10, <2>11, Zenon
    <2>8. ASSUME NEW i \in 1 .. n + 1
          PROVE  /\ off[i] <= off[n + 1]
                 /\ \A k \in 1 .. Len(rows[i]) : f[n + 1][off[i - 1] + k] = rows[i][k]
      <3>1. CASE i = n + 1
        BY <2>1, <2>5, <2>7, <3>1
      <3>2. CASE i # n + 1
        <4>1. i \in 1 .. n /\ i \in 1 .. m
          BY <1>1, <2>1, <3>2
        <4>2. off[i] <= off[n] /\ \A k \in 1 .. Len(rows[i]) : f[n][off[i - 1] + k] = rows[i][k]
          BY <1>5, <4>1
        <4>3. off[i] = off[i - 1] + Len(rows[i]) /\ off[i - 1] \in Nat /\ Len(rows[i]) \in Nat
          BY <1>1, <1>3, <4>1
        <4>6. PICK a, b, c, d, e : a = off[i - 1] /\ b = Len(rows[i]) /\ c = off[i] /\ d = off[n] /\ e = off[n + 1]
          BY Zenon
        <4>7. c = a + b /\ a \in Nat /\ b \in Nat /\ c <= d
          BY <4>2, <4>3, <4>6, Zenon
        <4>8. d \in Nat /\ e \in Nat /\ d <= e
          <5>1. PICK l \in Nat : l = Len(rows[n + 1])
            BY <2>3, Zenon
          <5>2. d \in Nat /\ e = d + l
            BY <2>2, <2>4, <4>6, <5>1, Zenon
          <5> QED
            BY <5>2
        <4>4. off[i] <= off[n + 1]
          <5>1. c <= e
            BY <4>7, <4>8
          <5> QED
            BY <4>6, <5>1, Zenon
        <4>5. \A k \in 1 .. Len(rows[i]) : off[i - 1] + k \in 1 .. off[n]
          <5>1. \A k \in 1 .. b : a + k \in 1 .. d
            BY <4>7, <4>8
          <5> QED
            BY <4>6, <5>1, Zenon
        <4> QED
          BY <2>6, <4>2, <4>4, <4>5, Zenon
      <3> QED
        BY <3>1, <3>2
    <2> QED
      BY <2>1, <2>5, <2>8
  <1>6. \A n \in 0 .. m : n \in S
    <2> HIDE DEF S
    <2>1. \A n \in 0 .. m : n < m /\ n \in S => n + 1 \in S
      BY <1>5
    <2> QED
      BY <1>1, <1>4, <2>1, UpwardInduction, Zenon
  <1>7. m \in 0 .. m
    BY <1>1
  <1>8. Laid(m)
    BY <1>6, <1>7
  <1> QED
    BY <1>2, <1>3, <1>8 DEF m, C, f, off

\* What stands there are the targets and the properties of its cells.
LEMMA RowsRead ==
    ASSUME NEW rows, IsRows(rows), NEW node_props, NEW v \in Nat, v < Len(rows)
    PROVE  LET s == FromRows(rows, node_props)
           IN  /\ s.num_nodes = Len(rows)
               /\ neighbors(s, v) = [k \in 1 .. Len(rows[v + 1]) |-> rows[v + 1][k][1]]
               /\ neighbor_props(s, v) = [k \in 1 .. Len(rows[v + 1]) |-> rows[v + 1][k][2]]
  <1> DEFINE m == Len(rows)
             f == Flattened(rows)
             off == OffsetAt(rows)
             adj == [k \in DOMAIN f |-> f[k][1]]
             props == [k \in DOMAIN f |-> f[k][2]]
             s == FromRows(rows, node_props)
             r == rows[v + 1]
  <1>1. m \in Nat /\ v + 1 \in 1 .. m /\ v + 1 \in 1 .. m + 1 /\ v + 2 \in 1 .. m + 1
        /\ (v + 1) - 1 = v /\ (v + 2) - 1 = v + 1
    BY DEF IsRows, IsSequence
  <1>2. s.num_nodes = m /\ s.offsets = Offsets(rows) /\ s.adjacency = adj /\ s.edge_props = props
    BY DEF FromRows
  <1>3. Offsets(rows) = [i \in 1 .. m + 1 |-> off[i - 1]]
    BY OffsetsUnfold
  <1>4. Offsets(rows)[v + 1] = off[v] /\ Offsets(rows)[v + 2] = off[v + 1]
    BY <1>1, <1>3
  <1>5. f \in Seq(CellsOf(rows)) /\ off[v] \in Nat /\ off[v + 1] = off[v] + Len(r)
        /\ off[v + 1] <= Len(f) /\ \A k \in 1 .. Len(r) : f[off[v] + k] = r[k]
    <2>1. /\ f \in Seq(CellsOf(rows))
          /\ \A i \in 1 .. m :
               /\ off[i - 1] \in Nat /\ off[i] = off[i - 1] + Len(rows[i]) /\ off[i] <= Len(f)
               /\ \A k \in 1 .. Len(rows[i]) : f[off[i - 1] + k] = rows[i][k]
      BY RowsLaid
    <2> HIDE DEF f, off, m
    <2> QED
      BY <1>1, <2>1
  <1>6. Len(r) \in Nat
    BY <1>1 DEF IsRows, IsSequence
  <1>7. neighbors(s, v) = SubSeq(adj, off[v] + 1, off[v + 1])
        /\ neighbor_props(s, v) = SubSeq(props, off[v] + 1, off[v + 1])
    BY <1>2, <1>4 DEF neighbors, neighbor_props
  <1> HIDE DEF f, off, r, m, s
  <1>8. PICK a \in Nat : a = off[v] /\ off[v + 1] = a + Len(r)
    BY <1>5
  <1>9. PICK n \in Nat : n = Len(r)
    BY <1>6
  <1>10. f \in [1 .. Len(f) -> CellsOf(rows)] /\ Len(f) \in Nat /\ a + n <= Len(f)
    BY <1>5, <1>8, <1>9
  <1>11. \A k \in 1 .. n : a + k \in 1 .. Len(f) /\ f[a + k] = r[k]
    BY <1>5, <1>8, <1>9, <1>10
  <1>12. ASSUME NEW z, DOMAIN z = 1 .. Len(f), z \in Seq(Range(z))
         PROVE  SubSeq(z, a + 1, a + n) = [k \in 1 .. n |-> z[a + k]]
    <2>1. z \in [1 .. Len(f) -> Range(z)] /\ Len(z) = Len(f)
      BY <1>10, <1>12
    <2>2. SubSeq(z, a + 1, a + n) \in Seq(Range(z)) /\ Len(SubSeq(z, a + 1, a + n)) = n
          /\ \A k \in 1 .. n : SubSeq(z, a + 1, a + n)[k] = z[a + k]
      BY <1>10, <1>12, <2>1
    <2>3. PICK u \in Seq(Range(z)) : u = SubSeq(z, a + 1, a + n)
      BY <2>2, Zenon
    <2>6. Len(u) = n /\ \A k \in 1 .. n : u[k] = z[a + k]
      BY <2>2, <2>3, Zenon
    <2>4. u \in [1 .. n -> Range(z)] /\ \A k \in 1 .. n : u[k] = z[a + k]
      BY <2>6
    <2>5. u = [k \in 1 .. n |-> z[a + k]]
      BY <2>4
    <2> QED
      BY <2>3, <2>5
  <1>13. adj \in Seq(Range(adj)) /\ DOMAIN adj = 1 .. Len(f)
    <2>1. adj \in [1 .. Len(f) -> Range(adj)]
      BY <1>10 DEF Range
    <2> QED
      BY <1>10, <2>1
  <1>14. props \in Seq(Range(props)) /\ DOMAIN props = 1 .. Len(f)
    <2>1. props \in [1 .. Len(f) -> Range(props)]
      BY <1>10 DEF Range
    <2> QED
      BY <1>10, <2>1
  <1>15. \A k \in 1 .. n : adj[a + k] = r[k][1] /\ props[a + k] = r[k][2]
    BY <1>10, <1>11
  <1> HIDE DEF adj, props
  <1>16. neighbors(s, v) = [k \in 1 .. n |-> adj[a + k]]
         /\ neighbor_props(s, v) = [k \in 1 .. n |-> props[a + k]]
    BY <1>7, <1>8, <1>9, <1>12, <1>13, <1>14, Zenon
  <1>17. neighbors(s, v) = [k \in 1 .. n |-> r[k][1]]
         /\ neighbor_props(s, v) = [k \in 1 .. n |-> r[k][2]]
    BY <1>15, <1>16
  <1> QED
    BY <1>2, <1>9, <1>17 DEF s, r, m

-----------------------------------------------------------------------------
(* The merge of the delta into the snapshot. *)

\* The times of the edges between two vertices: in the snapshot,
EdgeTimes(s, v, w) ==
  IF v < s.num_nodes
  THEN {neighbor_props(s, v)[i].ts : i \in {k \in DOMAIN neighbors(s, v) : neighbors(s, v)[k] = w}}
  ELSE {}

\* and in a list of edges.
ListedTimes(edges, v, w) ==
  {edges[j][3].ts : j \in {k \in DOMAIN edges : edges[k][1] = v /\ edges[k][2] = w}}

\* A selection that has the newest, and no other times.
Newest(T, E) == T \subseteq E /\ \A x \in E : \E y \in T : x <= y

\* The edges of a list, and the rows of a snapshot, with vertices below b.
EdgesBelow(edges, b) ==
  IsSequence(edges) /\ \A j \in 1 .. Len(edges) : /\ edges[j][1] \in 0 .. b - 1
                                                  /\ edges[j][2] \in 0 .. b - 1
                                                  /\ edges[j][3].ts \in Nat
RowBelow(row, props, b) ==
  /\ IsSequence(row) /\ IsSequence(props) /\ Len(props) = Len(row)
  /\ \A i \in 1 .. Len(row) : row[i] \in 0 .. b - 1 /\ props[i].ts \in Nat
  /\ \A i, j \in 1 .. Len(row) : i < j => row[i] < row[j]
SnapshotBelow(s, b) ==
  /\ s.num_nodes \in 0 .. b
  /\ \A v \in 0 .. s.num_nodes - 1 : RowBelow(neighbors(s, v), neighbor_props(s, v), s.num_nodes)

\* The entries of a row are the edges of the snapshot and of the delta.
LEMMA EntriesOf ==
    ASSUME NEW b \in Nat, NEW base, SnapshotBelow(base, b), NEW edges, EdgesBelow(edges, b),
           NEW v \in 0 .. b - 1
    PROVE  LET en == RowEntries(base, edges, v)
           IN  /\ EdgesBelow(en, b)
               /\ \A w \in Nat : ListedTimes(en, v, w) = EdgeTimes(base, v, w) \cup ListedTimes(edges, v, w)
  <1> DEFINE row == neighbors(base, v)
             props == neighbor_props(base, v)
             old == IF v < base.num_nodes THEN [i \in DOMAIN row |-> <<v, row[i], props[i]>>] ELSE <<>>
             en == RowEntries(base, edges, v)
  <1>1. en = old \o edges
    BY DEF RowEntries
  <1>2. base.num_nodes \in 0 .. b
    BY DEF SnapshotBelow
  <1>3. v < base.num_nodes => RowBelow(row, props, base.num_nodes)
    <2>1. v < base.num_nodes => v \in 0 .. base.num_nodes - 1
      BY <1>2
    <2> QED
      BY <2>1 DEF SnapshotBelow
  <1> HIDE DEF row, props, en
  <1>4. /\ old \in Seq(Range(old)) /\ EdgesBelow(old, b)
        /\ \A w \in Nat : ListedTimes(old, v, w) = EdgeTimes(base, v, w)
    <2>1. CASE v < base.num_nodes
      <3>1. /\ row \in Seq(Range(row)) /\ Len(row) \in Nat /\ DOMAIN row = 1 .. Len(row)
            /\ \A i \in 1 .. Len(row) : row[i] \in 0 .. base.num_nodes - 1 /\ props[i].ts \in Nat
        BY <1>3, <2>1 DEF RowBelow, IsSequence
      <3>2. old = [i \in 1 .. Len(row) |-> <<v, row[i], props[i]>>]
        BY <2>1, <3>1
      <3> HIDE DEF old
      <3>3. old \in [1 .. Len(row) -> Range(old)]
        BY <3>2 DEF Range
      <3>4. old \in Seq(Range(old)) /\ Len(old) = Len(row) /\ DOMAIN old = 1 .. Len(row)
        BY <3>1, <3>3
      <3>5. \A i \in 1 .. Len(row) : old[i][1] = v /\ old[i][2] = row[i] /\ old[i][3] = props[i]
        BY <3>2
      <3>6. \A i \in 1 .. Len(row) : row[i] \in 0 .. b - 1
        BY <1>2, <3>1
      <3>7. EdgesBelow(old, b)
        BY <3>1, <3>4, <3>5, <3>6, Zenon DEF EdgesBelow, IsSequence
      <3>8. ASSUME NEW w \in Nat PROVE ListedTimes(old, v, w) = EdgeTimes(base, v, w)
        <4>1. EdgeTimes(base, v, w) = {props[i].ts : i \in {k \in 1 .. Len(row) : row[k] = w}}
          BY <2>1, <3>1 DEF EdgeTimes, row, props
        <4>2. ListedTimes(old, v, w) = {old[i][3].ts : i \in {k \in 1 .. Len(row) : old[k][1] = v /\ old[k][2] = w}}
          BY <3>4 DEF ListedTimes
        <4>3. {k \in 1 .. Len(row) : row[k] = w} = {k \in 1 .. Len(row) : old[k][1] = v /\ old[k][2] = w}
          BY <3>5
        <4>4. PICK K \in SUBSET (1 .. Len(row)) : K = {k \in 1 .. Len(row) : row[k] = w}
          BY Zenon
        <4>5. \A i \in K : props[i].ts = old[i][3].ts
          BY <3>5
        <4>6. EdgeTimes(base, v, w) = {props[i].ts : i \in K} /\ ListedTimes(old, v, w) = {old[i][3].ts : i \in K}
          BY <4>1, <4>2, <4>3, <4>4, Zenon
        <4> QED
          BY <4>5, <4>6
      <3> QED
        BY <3>4, <3>7, <3>8
    <2>2. CASE ~(v < base.num_nodes)
      <3>1. old = <<>>
        BY <2>2
      <3>2. \A w \in Nat : EdgeTimes(base, v, w) = {} /\ ListedTimes(<<>>, v, w) = {}
        BY <2>2 DEF EdgeTimes, ListedTimes
      <3>3. <<>> \in Seq(Range(<<>>)) /\ Len(<<>>) = 0
        OBVIOUS
      <3>4. EdgesBelow(<<>>, b)
        BY <3>3 DEF EdgesBelow, IsSequence
      <3> HIDE DEF old
      <3> QED
        BY <3>1, <3>2, <3>3, <3>4, Zenon
    <2> QED
      BY <2>1, <2>2, Zenon
  <1> HIDE DEF old
  <1>5. PICK C : old \in Seq(C) /\ edges \in Seq(C)
    <2> DEFINE C == Range(old) \cup Range(edges)
    <2>1. old \in Seq(C)
      BY <1>4
    <2>2. edges \in Seq(C)
      BY DEF EdgesBelow, IsSequence
    <2> HIDE DEF C
    <2> QED
      BY <2>1, <2>2
  <1>6. PICK p \in Nat, q \in Nat : p = Len(old) /\ q = Len(edges)
    BY <1>5
  <1>7. /\ en \in Seq(C) /\ Len(en) = p + q
        /\ \A j \in 1 .. p : en[j] = old[j]
        /\ \A k \in 1 .. q : en[p + k] = edges[k]
    BY <1>1, <1>5, <1>6, Joined
  <1>8. DOMAIN en = 1 .. p + q /\ DOMAIN old = 1 .. p /\ DOMAIN edges = 1 .. q /\ IsSequence(en)
    <2>1. IsSequence(en)
      BY <1>7, SequenceOver, Zenon
    <2> QED
      BY <1>5, <1>6, <1>7, <2>1
  <1>9. \A i \in 1 .. p + q : i \in 1 .. p \/ (i - p \in 1 .. q /\ p + (i - p) = i)
    OBVIOUS
  <1>10. ASSUME NEW i \in 1 .. p + q
         PROVE  en[i][1] \in 0 .. b - 1 /\ en[i][2] \in 0 .. b - 1 /\ en[i][3].ts \in Nat
    <2>1. CASE i \in 1 .. p
      BY <1>4, <1>6, <1>7, <2>1 DEF EdgesBelow
    <2>2. CASE i \notin 1 .. p
      <3>1. PICK k \in 1 .. q : p + k = i
        BY <1>9, <2>2
      <3>2. en[i] = edges[k]
        BY <1>7, <3>1
      <3> QED
        BY <1>6, <3>2 DEF EdgesBelow
    <2> QED
      BY <2>1, <2>2
  <1>11. EdgesBelow(en, b)
    BY <1>7, <1>8, <1>10, Zenon DEF EdgesBelow
  <1>12. ASSUME NEW w \in Nat
         PROVE  ListedTimes(en, v, w) = ListedTimes(old, v, w) \cup ListedTimes(edges, v, w)
    <2> DEFINE Is(e) == e[1] = v /\ e[2] = w
    <2>1. ListedTimes(en, v, w) = {en[j][3].ts : j \in {k \in 1 .. p + q : Is(en[k])}}
      BY <1>8 DEF ListedTimes
    <2>2. ListedTimes(old, v, w) = {old[j][3].ts : j \in {k \in 1 .. p : Is(old[k])}}
      BY <1>8 DEF ListedTimes
    <2>3. ListedTimes(edges, v, w) = {edges[j][3].ts : j \in {k \in 1 .. q : Is(edges[k])}}
      BY <1>8 DEF ListedTimes
    <2> HIDE DEF Is
    <2>4. ASSUME NEW i \in 1 .. p + q, Is(en[i])
          PROVE  en[i][3].ts \in ListedTimes(old, v, w) \cup ListedTimes(edges, v, w)
      <3>1. CASE i \in 1 .. p
        BY <1>7, <2>2, <2>4, <3>1
      <3>2. CASE i \notin 1 .. p
        <4>1. PICK k \in 1 .. q : p + k = i
          BY <1>9, <3>2
        <4>2. en[i] = edges[k]
          BY <1>7, <4>1
        <4> QED
          BY <2>3, <2>4, <4>2
      <3> QED
        BY <3>1, <3>2
    <2>5. ASSUME NEW i \in 1 .. p, Is(old[i]) PROVE old[i][3].ts \in ListedTimes(en, v, w)
      <3>1. i \in 1 .. p + q /\ en[i] = old[i]
        BY <1>7
      <3> QED
        BY <2>1, <2>5, <3>1
    <2>6. ASSUME NEW i \in 1 .. q, Is(edges[i]) PROVE edges[i][3].ts \in ListedTimes(en, v, w)
      <3>1. PICK k \in 1 .. p + q : k = p + i
        OBVIOUS
      <3>2. en[k] = edges[i]
        BY <1>7, <3>1
      <3> QED
        BY <2>1, <2>6, <3>2
    <2> QED
      BY <2>1, <2>2, <2>3, <2>4, <2>5, <2>6
  <1> QED
    BY <1>4, <1>11, <1>12 DEF en

\* A merged row has every target of its entries once, in order, with the
\* newest of their times.
LEMMA MergedRowOf ==
    ASSUME NEW b \in Nat, NEW en, EdgesBelow(en, b), NEW v
    PROVE  LET r == MergedRow(en, v)
           IN  /\ IsSequence(r)
               /\ \A i \in 1 .. Len(r) : r[i][1] \in 0 .. b - 1 /\ r[i][2].ts \in Nat
               /\ \A i, j \in 1 .. Len(r) : i < j => r[i][1] < r[j][1]
               /\ \A w \in Nat : Newest({r[i][2].ts : i \in {k \in 1 .. Len(r) : r[k][1] = w}},
                                        ListedTimes(en, v, w))
  <1> DEFINE S == TargetsOf(en, v)
             s == Ascending(S)
             r == MergedRow(en, v)
             m == Len(en)
             Is(k, w) == en[k][1] = v /\ en[k][2] = w
  <1>1. /\ IsSequence(en) /\ m \in Nat /\ DOMAIN en = 1 .. m
        /\ \A k \in 1 .. m : en[k][2] \in 0 .. b - 1 /\ en[k][3].ts \in Nat
    BY DEF EdgesBelow, IsSequence
  <1>2. S = {en[i][2] : i \in {k \in 1 .. m : en[k][1] = v}}
    BY <1>1 DEF TargetsOf
  <1>3. r = [i \in DOMAIN s |-> <<s[i], LatestOf(en, v, s[i])>>]
    BY DEF MergedRow
  <1> HIDE DEF S, s, r, m
  <1>4. S \in SUBSET (0 .. b) /\ S \in SUBSET (0 .. b - 1)
    BY <1>1, <1>2
  <1>5. PICK n \in Nat : s \in [1 .. n -> S]
    BY <1>4, AscendingEnumerates DEF s
  <1>6. (\A i, j \in DOMAIN s : i < j => s[i] < s[j]) /\ \A x \in S : \E i \in DOMAIN s : s[i] = x
    BY <1>4, AscendingEnumerates, Zenon DEF s
  <1>7. DOMAIN s = 1 .. n /\ \A i \in 1 .. n : s[i] \in S
    BY <1>5
  <1>8. r = [i \in 1 .. n |-> <<s[i], LatestOf(en, v, s[i])>>]
    BY <1>3, <1>7
  <1>9. r \in Seq(Range(r)) /\ Len(r) = n
    <2>1. r \in [1 .. n -> Range(r)]
      BY <1>8 DEF Range
    <2> QED
      BY <2>1
  <1>10. \A i \in 1 .. n : r[i][1] = s[i] /\ r[i][2] = LatestOf(en, v, s[i])
    BY <1>8
  <1>11. \A i, j \in 1 .. n : i < j => r[i][1] < r[j][1]
    BY <1>6, <1>7, <1>10
  <1>12. ASSUME NEW i \in 1 .. n
         PROVE  /\ s[i] \in 0 .. b - 1
                /\ \E k \in 1 .. m : Is(k, s[i]) /\ en[k][3] = r[i][2]
                /\ \A k \in 1 .. m : Is(k, s[i]) => en[k][3].ts <= r[i][2].ts
    <2>1. s[i] \in S
      BY <1>7
    <2>2. PICK j \in 1 .. m : en[j][1] = v /\ en[j][2] = s[i]
      BY <1>2, <2>1
    <2>3. PICK l : l = LatestOf(en, v, s[i])
      OBVIOUS
    <2>4. /\ \E k \in 1 .. m : en[k][1] = v /\ en[k][2] = s[i] /\ en[k][3] = l
          /\ \A k \in 1 .. m : en[k][1] = v /\ en[k][2] = s[i] => en[k][3].ts <= l.ts
      <3>1. PICK w : w = s[i]
        OBVIOUS
      <3>2. \A k \in 1 .. Len(en) : en[k][3].ts \in Nat
        BY <1>1 DEF m
      <3>3. j \in 1 .. Len(en) /\ en[j][1] = v /\ en[j][2] = w
        BY <2>2, <3>1 DEF m
      <3>4. IsLatest(LatestOf(en, v, w), en, v, w)
        BY <1>1, <3>2, <3>3, LatestIsNewest, Zenon
      <3> QED
        BY <2>3, <3>1, <3>4 DEF m, IsLatest
    <2>5. r[i][2] = l
      BY <1>10, <2>3
    <2> QED
      BY <1>4, <2>1, <2>4, <2>5, Zenon
  <1>13. \A i \in 1 .. n : r[i][1] \in 0 .. b - 1 /\ r[i][2].ts \in Nat
    <2> SUFFICES ASSUME NEW i \in 1 .. n PROVE r[i][1] \in 0 .. b - 1 /\ r[i][2].ts \in Nat
      OBVIOUS
    <2>1. PICK k \in 1 .. m : en[k][3] = r[i][2]
      BY <1>12
    <2> QED
      BY <1>1, <1>10, <1>12, <2>1
  <1>14. ASSUME NEW w \in Nat
         PROVE  Newest({r[i][2].ts : i \in {k \in 1 .. n : r[k][1] = w}}, ListedTimes(en, v, w))
    <2>1. ListedTimes(en, v, w) = {en[j][3].ts : j \in {k \in 1 .. m : Is(k, w)}}
      BY <1>1 DEF ListedTimes
    <2> DEFINE T == {r[i][2].ts : i \in {k \in 1 .. n : r[k][1] = w}}
    <2>2. ASSUME NEW i \in 1 .. n, r[i][1] = w PROVE r[i][2].ts \in ListedTimes(en, v, w)
      <3>1. s[i] = w
        BY <1>10, <2>2
      <3>2. PICK k \in 1 .. m : Is(k, w) /\ en[k][3] = r[i][2]
        BY <1>12, <3>1
      <3> QED
        BY <2>1, <3>2
    <2>3. ASSUME NEW j \in 1 .. m, Is(j, w) PROVE \E y \in T : en[j][3].ts <= y
      <3>1. w \in S
        BY <1>2, <2>3
      <3>2. PICK i \in 1 .. n : s[i] = w
        BY <1>6, <1>7, <3>1
      <3>3. en[j][3].ts <= r[i][2].ts
        BY <1>12, <2>3, <3>2
      <3>4. r[i][1] = w
        BY <1>10, <3>2
      <3> QED
        BY <3>3, <3>4
    <2>4. T \subseteq ListedTimes(en, v, w)
      BY <2>2
    <2>5. \A x \in ListedTimes(en, v, w) : \E y \in T : x <= y
      <3> HIDE DEF T
      <3> QED
        BY <2>1, <2>3
    <2> QED
      BY <2>4, <2>5 DEF Newest
  <1> QED
    BY <1>9, <1>11, <1>13, <1>14 DEF r, IsSequence

\* The ids of the delta, and the vertices of the new snapshot.
IdsBelow(delta, b) == DeltaIds(delta) \subseteq 0 .. b - 1

\* The merged snapshot has, between any two vertices, the newest of the edges
\* of the old one and of the delta, and a row for every vertex of the delta.
LEMMA SnapshotRebuilt ==
    ASSUME NEW b \in Nat, NEW base, SnapshotBelow(base, b),
           NEW delta, EdgesBelow(delta.new_edges, b), IdsBelow(delta, b)
    PROVE  LET s == rebuild_csr(base, delta)
           IN  /\ SnapshotBelow(s, b)
               /\ base.num_nodes <= s.num_nodes /\ \A id \in DeltaIds(delta) : id < s.num_nodes
               /\ \A v, w \in Nat : Newest(EdgeTimes(s, v, w),
                                           EdgeTimes(base, v, w) \cup ListedTimes(delta.new_edges, v, w))
  <1> DEFINE N == {base.num_nodes} \cup {x + 1 : x \in DeltaIds(delta)}
             n == Max(N)
             edges == delta.new_edges
             En(v) == RowEntries(base, edges, v)
             rows == [i \in 1 .. n |-> MergedRow(En(i - 1), i - 1)]
             nodes == UpdatedNodes(base, delta, n)
             s == rebuild_csr(base, delta)
  <1>1. s = FromRows(rows, nodes)
    BY DEF rebuild_csr
  <1>2. base.num_nodes \in 0 .. b
    BY DEF SnapshotBelow
  <1>3. N \in SUBSET (0 .. b) /\ N # {} /\ base.num_nodes \in N /\ \A x \in DeltaIds(delta) : x + 1 \in N
    <2>1. \A x \in DeltaIds(delta) : x + 1 \in 0 .. b
      BY DEF IdsBelow
    <2> QED
      BY <1>2, <2>1
  <1> HIDE DEF N, edges, s, nodes
  <1>4. n \in N /\ \A y \in N : n >= y
    BY <1>3, MaxBelow, Zenon
  <1>5. n \in 0 .. b /\ base.num_nodes <= n /\ \A x \in DeltaIds(delta) : x < n
    <2>1. n \in 0 .. b
      BY <1>3, <1>4, Zenon
    <2>2. \A x \in DeltaIds(delta) : x \in 0 .. b - 1 /\ n >= x + 1
      BY <1>3, <1>4 DEF IdsBelow
    <2>3. n >= base.num_nodes
      BY <1>3, <1>4, Zenon
    <2> HIDE DEF n
    <2> QED
      BY <1>2, <2>1, <2>2, <2>3
  <1> HIDE DEF n
  <1>6. EdgesBelow(edges, n) /\ SnapshotBelow(base, n)
    <2>1. \A j \in 1 .. Len(edges) : edges[j][1] \in DeltaIds(delta) /\ edges[j][2] \in DeltaIds(delta)
      <3> SUFFICES ASSUME NEW j \in 1 .. Len(edges)
                   PROVE  edges[j][1] \in DeltaIds(delta) /\ edges[j][2] \in DeltaIds(delta)
        OBVIOUS
      <3>1. DOMAIN edges = 1 .. Len(edges)
        BY DEF edges, EdgesBelow, IsSequence
      <3>2. edges[j] \in Range(edges)
        BY <3>1 DEF Range
      <3>3. \A e \in Range(edges) : {e[1], e[2]} \subseteq UNION {{x[1], x[2]} : x \in Range(edges)}
        BY Zenon
      <3>4. {edges[j][1], edges[j][2]} \subseteq UNION {{x[1], x[2]} : x \in Range(edges)}
        BY <3>2, <3>3, Zenon
      <3> QED
        BY <3>4 DEF DeltaIds, edges
    <2>2. \A x \in DeltaIds(delta) : x \in 0 .. n - 1
      BY <1>5 DEF IdsBelow
    <2>3. EdgesBelow(edges, n)
      BY <2>1, <2>2 DEF EdgesBelow, edges
    <2>4. SnapshotBelow(base, n)
      BY <1>2, <1>5 DEF SnapshotBelow
    <2> QED
      BY <2>3, <2>4
  <1>7. n \in Nat
    BY <1>5
  <1>8. ASSUME NEW v \in 0 .. n - 1
        PROVE  LET r == MergedRow(En(v), v)
               IN  /\ IsSequence(r)
                   /\ \A i \in 1 .. Len(r) : r[i][1] \in 0 .. n - 1 /\ r[i][2].ts \in Nat
                   /\ \A i, j \in 1 .. Len(r) : i < j => r[i][1] < r[j][1]
                   /\ \A w \in Nat : Newest({r[i][2].ts : i \in {k \in 1 .. Len(r) : r[k][1] = w}},
                                            EdgeTimes(base, v, w) \cup ListedTimes(edges, v, w))
    <2>1. /\ EdgesBelow(En(v), n)
          /\ \A w \in Nat : ListedTimes(En(v), v, w) = EdgeTimes(base, v, w) \cup ListedTimes(edges, v, w)
      BY <1>6, <1>7, EntriesOf
    <2> HIDE DEF En
    <2>2. PICK r : r = MergedRow(En(v), v)
      OBVIOUS
    <2>3. /\ IsSequence(r)
          /\ \A i \in 1 .. Len(r) : r[i][1] \in 0 .. n - 1 /\ r[i][2].ts \in Nat
          /\ \A i, j \in 1 .. Len(r) : i < j => r[i][1] < r[j][1]
          /\ \A w \in Nat : Newest({r[i][2].ts : i \in {k \in 1 .. Len(r) : r[k][1] = w}},
                                   ListedTimes(En(v), v, w))
      BY <1>7, <2>1, <2>2, MergedRowOf, Zenon
    <2>4. \A w \in Nat : Newest({r[i][2].ts : i \in {k \in 1 .. Len(r) : r[k][1] = w}},
                                EdgeTimes(base, v, w) \cup ListedTimes(edges, v, w))
      BY <2>1, <2>3, Zenon
    <2> QED
      BY <2>2, <2>3, <2>4, Zenon
  <1>9. IsRows(rows) /\ Len(rows) = n
    <2>1. rows \in [1 .. n -> Range(rows)]
      BY DEF Range
    <2>2. rows \in Seq(Range(rows)) /\ Len(rows) = n
      <3> HIDE DEF rows
      <3> QED
        BY <1>7, <2>1
    <2>3. ASSUME NEW i \in 1 .. n PROVE IsSequence(rows[i])
      <3>1. i - 1 \in 0 .. n - 1
        BY <1>7
      <3>2. rows[i] = MergedRow(En(i - 1), i - 1)
        OBVIOUS
      <3>3. IsSequence(MergedRow(En(i - 1), i - 1))
        BY <1>8, <3>1, Zenon
      <3> QED
        BY <3>2, <3>3, Zenon
    <2> HIDE DEF rows
    <2> QED
      BY <2>2, <2>3 DEF IsRows, IsSequence
  <1>10. \A v \in 0 .. n - 1 : rows[v + 1] = MergedRow(En(v), v)
    <2> SUFFICES ASSUME NEW v \in 0 .. n - 1 PROVE rows[v + 1] = MergedRow(En(v), v)
      OBVIOUS
    <2>1. v + 1 \in 1 .. n /\ (v + 1) - 1 = v
      BY <1>7
    <2> HIDE DEF En
    <2> QED
      BY <2>1
  <1> HIDE DEF rows, En
  <1>11. ASSUME NEW v \in 0 .. n - 1
         PROVE  LET r == rows[v + 1]
                IN  /\ neighbors(s, v) = [k \in 1 .. Len(r) |-> r[k][1]]
                    /\ neighbor_props(s, v) = [k \in 1 .. Len(r) |-> r[k][2]]
    <2>1. v \in Nat /\ v < Len(rows)
      BY <1>7, <1>9
    <2> QED
      BY <1>1, <1>9, <2>1, RowsRead
  <1>12. s.num_nodes = n
    BY <1>1, <1>9 DEF FromRows
  <1>13. ASSUME NEW v \in 0 .. n - 1
         PROVE  /\ RowBelow(neighbors(s, v), neighbor_props(s, v), n)
                /\ \A w \in Nat : Newest(EdgeTimes(s, v, w), EdgeTimes(base, v, w) \cup ListedTimes(edges, v, w))
    <2>1. PICK r : r = rows[v + 1]
      OBVIOUS
    <2>2. /\ IsSequence(r)
          /\ \A i \in 1 .. Len(r) : r[i][1] \in 0 .. n - 1 /\ r[i][2].ts \in Nat
          /\ \A i, j \in 1 .. Len(r) : i < j => r[i][1] < r[j][1]
          /\ \A w \in Nat : Newest({r[i][2].ts : i \in {k \in 1 .. Len(r) : r[k][1] = w}},
                                   EdgeTimes(base, v, w) \cup ListedTimes(edges, v, w))
      <3>1. r = MergedRow(En(v), v)
        BY <1>10, <2>1, Zenon
      <3> QED
        BY <1>8, <3>1, Zenon
    <2>3. PICK row, props : row = neighbors(s, v) /\ props = neighbor_props(s, v)
      OBVIOUS
    <2>4. row = [k \in 1 .. Len(r) |-> r[k][1]] /\ props = [k \in 1 .. Len(r) |-> r[k][2]]
      BY <1>11, <2>1, <2>3, Zenon
    <2>5. Len(r) \in Nat
      BY <2>2 DEF IsSequence
    <2>6. row \in Seq(Range(row)) /\ Len(row) = Len(r) /\ DOMAIN row = 1 .. Len(r)
      <3>1. row \in [1 .. Len(r) -> Range(row)]
        BY <2>4 DEF Range
      <3> QED
        BY <2>5, <3>1
    <2>7. props \in Seq(Range(props)) /\ Len(props) = Len(r) /\ DOMAIN props = 1 .. Len(r)
      <3>1. props \in [1 .. Len(r) -> Range(props)]
        BY <2>4 DEF Range
      <3> QED
        BY <2>5, <3>1
    <2>8. \A k \in 1 .. Len(r) : row[k] = r[k][1] /\ props[k] = r[k][2]
      BY <2>4
    <2>9. RowBelow(row, props, n)
      <3>1. IsSequence(row) /\ IsSequence(props) /\ Len(props) = Len(row)
        BY <2>6, <2>7 DEF IsSequence
      <3>2. \A i \in 1 .. Len(row) : row[i] \in 0 .. n - 1 /\ props[i].ts \in Nat
        BY <2>2, <2>6, <2>8
      <3>3. \A i, j \in 1 .. Len(row) : i < j => row[i] < row[j]
        BY <2>2, <2>6, <2>8
      <3> QED
        BY <3>1, <3>2, <3>3, Zenon DEF RowBelow
    <2>10. ASSUME NEW w \in Nat
           PROVE  EdgeTimes(s, v, w) = {r[i][2].ts : i \in {k \in 1 .. Len(r) : r[k][1] = w}}
      <3>1. v < s.num_nodes
        BY <1>7, <1>12
      <3>2. EdgeTimes(s, v, w) = {props[i].ts : i \in {k \in 1 .. Len(r) : row[k] = w}}
        BY <2>3, <2>6, <3>1 DEF EdgeTimes
      <3>3. {k \in 1 .. Len(r) : row[k] = w} = {k \in 1 .. Len(r) : r[k][1] = w}
        BY <2>8
      <3>4. PICK K \in SUBSET (1 .. Len(r)) : K = {k \in 1 .. Len(r) : r[k][1] = w}
        BY Zenon
      <3>5. \A i \in K : props[i].ts = r[i][2].ts
        BY <2>8
      <3>6. EdgeTimes(s, v, w) = {props[i].ts : i \in K}
        BY <3>2, <3>3, <3>4, Zenon
      <3>7. {r[i][2].ts : i \in {k \in 1 .. Len(r) : r[k][1] = w}} = {r[i][2].ts : i \in K}
        BY <3>4, Zenon
      <3>8. {props[i].ts : i \in K} = {r[i][2].ts : i \in K}
        BY <3>5
      <3> QED
        BY <3>6, <3>7, <3>8, Zenon
    <2>11. \A w \in Nat : Newest(EdgeTimes(s, v, w), EdgeTimes(base, v, w) \cup ListedTimes(edges, v, w))
      BY <2>2, <2>10, Zenon
    <2> QED
      BY <2>3, <2>9, <2>11, Zenon
  <1>14. SnapshotBelow(s, b)
    <2>1. n \in 0 .. b
      BY <1>5
    <2> QED
      BY <1>12, <1>13, <2>1, Zenon DEF SnapshotBelow
  <1>15. ASSUME NEW v \in Nat, NEW w \in Nat
         PROVE  Newest(EdgeTimes(s, v, w), EdgeTimes(base, v, w) \cup ListedTimes(edges, v, w))
    <2>1. CASE v < n
      <3>1. v \in 0 .. n - 1
        BY <1>7, <2>1
      <3> QED
        BY <1>13, <3>1, Zenon
    <2>2. CASE ~(v < n)
      <3>1. ~(v < s.num_nodes) /\ ~(v < base.num_nodes)
        BY <1>2, <1>5, <1>12, <2>2
      <3>2. EdgeTimes(s, v, w) = {} /\ EdgeTimes(base, v, w) = {}
        BY <3>1, Zenon DEF EdgeTimes
      <3>3. DOMAIN edges = 1 .. Len(edges) /\ \A j \in 1 .. Len(edges) : edges[j][1] \in 0 .. n - 1
        BY <1>6 DEF EdgesBelow, IsSequence
      <3>4. \A j \in 1 .. Len(edges) : edges[j][1] # v
        BY <1>7, <2>2, <3>3
      <3>5. ListedTimes(edges, v, w) = {}
        BY <3>3, <3>4 DEF ListedTimes
      <3> QED
        BY <3>2, <3>5 DEF Newest
    <2> QED
      BY <2>1, <2>2
  <1> QED
    BY <1>5, <1>12, <1>14, <1>15 DEF s, edges

-----------------------------------------------------------------------------
(* The writer. *)

DeltaOf(n, e, u) == [new_nodes |-> n, new_edges |-> e, risk_updates |-> u]
GraphOf(s, d, i, n, r, l, p, t) ==
  [snapshot |-> s, delta |-> d, vertex_index |-> i, next_vertex_id |-> n,
   recent_events |-> r, last_span_by_pid |-> l, next_span_id |-> p, since_dump |-> t]
IsGraph(g) == \E s, nn, ne, u, i, n, r, l, p, t : g = GraphOf(s, DeltaOf(nn, ne, u), i, n, r, l, p, t)

\* The ids are dense and the delta has no others.
IndexDense(g) ==
  /\ g.next_vertex_id \in Nat /\ g.next_vertex_id <= MaxNodes
  /\ Range(g.vertex_index) = 0 .. g.next_vertex_id - 1
  /\ IsFiniteSet(DOMAIN g.vertex_index) /\ Cardinality(DOMAIN g.vertex_index) = g.next_vertex_id
GraphTyped(g) ==
  /\ IsGraph(g) /\ IndexDense(g)
  /\ IsSequence(g.delta.new_nodes) /\ IsSequence(g.delta.risk_updates)
  /\ EdgesBelow(g.delta.new_edges, g.next_vertex_id) /\ IdsBelow(g.delta, g.next_vertex_id)

\* Ids are given once, and none is given any more when there is no room.
IndexGrows(g, h) ==
  /\ h.snapshot = g.snapshot /\ g.next_vertex_id <= h.next_vertex_id
  /\ DOMAIN g.vertex_index \subseteq DOMAIN h.vertex_index
  /\ \A k \in DOMAIN g.vertex_index : h.vertex_index[k] = g.vertex_index[k]
  /\ g.next_vertex_id >= MaxNodes => h.vertex_index = g.vertex_index

\* Two graphs that differ in what a dump shows.
SameEdges(g, h) ==
  /\ IsGraph(h) /\ h.snapshot = g.snapshot /\ h.delta = g.delta
  /\ h.vertex_index = g.vertex_index /\ h.next_vertex_id = g.next_vertex_id

\* The fields of a graph.
LEMMA GraphFields ==
    ASSUME NEW s, NEW d, NEW i, NEW n, NEW r, NEW l, NEW p, NEW t
    PROVE  /\ GraphOf(s, d, i, n, r, l, p, t).snapshot = s
           /\ GraphOf(s, d, i, n, r, l, p, t).delta = d
           /\ GraphOf(s, d, i, n, r, l, p, t).vertex_index = i
           /\ GraphOf(s, d, i, n, r, l, p, t).next_vertex_id = n
           /\ GraphOf(s, d, i, n, r, l, p, t).recent_events = r
           /\ GraphOf(s, d, i, n, r, l, p, t).last_span_by_pid = l
           /\ GraphOf(s, d, i, n, r, l, p, t).next_span_id = p
           /\ GraphOf(s, d, i, n, r, l, p, t).since_dump = t
  BY DEF GraphOf

\* The parts of a delta.
LEMMA DeltaFields ==
    ASSUME NEW n, NEW e, NEW u
    PROVE  /\ DeltaOf(n, e, u).new_nodes = n /\ DeltaOf(n, e, u).new_edges = e
           /\ DeltaOf(n, e, u).risk_updates = u
  BY DEF DeltaOf

\* A graph is made of its fields.
LEMMA GraphOfFields ==
    ASSUME NEW s, NEW nn, NEW ne, NEW u, NEW i, NEW n, NEW r, NEW l, NEW p, NEW t
    PROVE  IsGraph(GraphOf(s, DeltaOf(nn, ne, u), i, n, r, l, p, t))
  BY DEF IsGraph

\* A graph with one field updated: the time of its dump,
LEMMA SinceDumpSet ==
    ASSUME NEW s, NEW d, NEW i, NEW n, NEW r, NEW l, NEW p, NEW t, NEW x
    PROVE  [GraphOf(s, d, i, n, r, l, p, t) EXCEPT !.since_dump = x] = GraphOf(s, d, i, n, r, l, p, x)
  BY DEF GraphOf

\* and its delta.
LEMMA DeltaSet ==
    ASSUME NEW s, NEW d, NEW i, NEW n, NEW r, NEW l, NEW p, NEW t, NEW x
    PROVE  [GraphOf(s, d, i, n, r, l, p, t) EXCEPT !.delta = x] = GraphOf(s, x, i, n, r, l, p, t)
  BY DEF GraphOf

\* A recorded event is not part of the graph.
LEMMA EventRecorded ==
    ASSUME NEW g, IsGraph(g), NEW e, NEW v, NEW w
    PROVE  SameEdges(g, record_event(g, e, v, w))
  <1>1. PICK s, nn, ne, u, i, n, r, l, p, t : g = GraphOf(s, DeltaOf(nn, ne, u), i, n, r, l, p, t)
    BY DEF IsGraph
  <1>2. PICK x, y, z :
          record_event(g, e, v, w)
            = [[[g EXCEPT !.recent_events = x] EXCEPT !.last_span_by_pid = y] EXCEPT !.next_span_id = z]
    BY Zenon DEF record_event
  <1>3. [g EXCEPT !.recent_events = x] = GraphOf(s, DeltaOf(nn, ne, u), i, n, x, l, p, t)
    BY <1>1 DEF GraphOf
  <1>4. [GraphOf(s, DeltaOf(nn, ne, u), i, n, x, l, p, t) EXCEPT !.last_span_by_pid = y]
          = GraphOf(s, DeltaOf(nn, ne, u), i, n, x, y, p, t)
    BY DEF GraphOf
  <1>5. [GraphOf(s, DeltaOf(nn, ne, u), i, n, x, y, p, t) EXCEPT !.next_span_id = z]
          = GraphOf(s, DeltaOf(nn, ne, u), i, n, x, y, z, t)
    BY DEF GraphOf
  <1>6. record_event(g, e, v, w) = GraphOf(s, DeltaOf(nn, ne, u), i, n, x, y, z, t)
    BY <1>2, <1>3, <1>4, <1>5, Zenon
  <1>7. IsGraph(record_event(g, e, v, w))
    BY <1>6, GraphOfFields, Zenon
  <1> QED
    BY <1>1, <1>6, <1>7, GraphFields DEF SameEdges

\* Nor is the time of the last dump,
LEMMA SinceDumpShown ==
    ASSUME NEW g, IsGraph(g), NEW x
    PROVE  SameEdges(g, [g EXCEPT !.since_dump = x])
  <1>1. PICK s, nn, ne, u, i, n, r, l, p, t : g = GraphOf(s, DeltaOf(nn, ne, u), i, n, r, l, p, t)
    BY DEF IsGraph
  <1>2. [g EXCEPT !.since_dump = x] = GraphOf(s, DeltaOf(nn, ne, u), i, n, r, l, p, x)
    BY <1>1, SinceDumpSet
  <1>3. IsGraph([g EXCEPT !.since_dump = x])
    BY <1>2, GraphOfFields
  <1> QED
    BY <1>1, <1>2, <1>3, GraphFields DEF SameEdges

\* which an attempt to dump and the passing of time set.
LEMMA DumpTried ==
    ASSUME NEW g, IsGraph(g), NEW enabled
    PROVE  SameEdges(g, maybe_dump(g, enabled).graph) /\ SameEdges(g, GraphAges(g))
  <1>1. SameEdges(g, g)
    BY DEF SameEdges
  <1>2. maybe_dump(g, enabled).graph = g \/ maybe_dump(g, enabled).graph = [g EXCEPT !.since_dump = 0]
    BY DEF maybe_dump
  <1>3. \E x : GraphAges(g) = [g EXCEPT !.since_dump = x]
    BY Zenon DEF GraphAges
  <1> QED
    BY <1>1, <1>2, <1>3, SinceDumpShown

\* What an id adds to those of the delta.
LEMMA IdsGrow ==
    ASSUME NEW nn, IsSequence(nn), NEW ne, NEW u, IsSequence(u), NEW x
    PROVE  /\ DeltaIds(DeltaOf(Append(nn, x), ne, u)) = DeltaIds(DeltaOf(nn, ne, u)) \cup {x[1]}
           /\ DeltaIds(DeltaOf(nn, ne, Append(u, x))) = DeltaIds(DeltaOf(nn, ne, u)) \cup {x[1]}
  <1>1. ASSUME NEW s, IsSequence(s)
        PROVE  {y[1] : y \in Range(Append(s, x))} = {y[1] : y \in Range(s)} \cup {x[1]}
    <2>1. /\ Len(s) \in Nat /\ DOMAIN s = 1 .. Len(s) /\ DOMAIN Append(s, x) = 1 .. Len(s) + 1
          /\ (\A i \in 1 .. Len(s) : Append(s, x)[i] = s[i]) /\ Append(s, x)[Len(s) + 1] = x
      BY <1>1, AppendAny
    <2>2. \A i : i \in 1 .. Len(s) + 1 <=> i \in 1 .. Len(s) \/ i = Len(s) + 1
      BY <2>1
    <2>3. Range(Append(s, x)) = Range(s) \cup {x}
      BY <2>1, <2>2, Zenon DEF Range
    <2> QED
      BY <2>3
  <1>2. /\ {y[1] : y \in Range(Append(nn, x))} = {y[1] : y \in Range(nn)} \cup {x[1]}
        /\ {y[1] : y \in Range(Append(u, x))} = {y[1] : y \in Range(u)} \cup {x[1]}
    BY <1>1, Zenon
  <1>3. \A a, b, c : DeltaIds(DeltaOf(a, b, c))
                       = {y[1] : y \in Range(a)} \cup {y[1] : y \in Range(c)}
                           \cup UNION {{y[1], y[2]} : y \in Range(b)}
    <2> TAKE a, b, c
    <2>1. PICK d : d = DeltaOf(a, b, c)
      OBVIOUS
    <2>2. d.new_nodes = a /\ d.new_edges = b /\ d.risk_updates = c
      BY <2>1, DeltaFields
    <2>3. DeltaIds(d) = {y[1] : y \in Range(a)} \cup {y[1] : y \in Range(c)}
                          \cup UNION {{y[1], y[2]} : y \in Range(b)}
      BY <2>2 DEF DeltaIds
    <2> QED
      BY <2>1, <2>3, Zenon
  <1> QED
    BY <1>2, <1>3

\* What resolving a key gives.
Resolved(g, r, key) ==
  /\ GraphTyped(r.graph) /\ IndexGrows(g, r.graph)
  /\ r.graph.delta.new_edges = g.delta.new_edges
  /\ \/ /\ r.id = NoVertex /\ key \notin DOMAIN r.graph.vertex_index
        /\ r.graph.next_vertex_id >= MaxNodes
     \/ /\ key \in DOMAIN r.graph.vertex_index /\ r.id = r.graph.vertex_index[key]
        /\ r.id \in 0 .. r.graph.next_vertex_id - 1

\* A vertex is found, given the next id, or refused for want of room.
LEMMA VertexResolved ==
    ASSUME MaxNodes \in Nat, NEW g, GraphTyped(g), NEW key, NEW e
    PROVE  Resolved(g, resolve_vertex(g, key, e), key)
  <1>1. PICK s, nn, ne, u, i, n, q, l, p, t : g = GraphOf(s, DeltaOf(nn, ne, u), i, n, q, l, p, t)
    BY DEF GraphTyped, IsGraph
  <1>2. /\ g.snapshot = s /\ g.delta = DeltaOf(nn, ne, u) /\ g.vertex_index = i /\ g.next_vertex_id = n
        /\ g.delta.new_nodes = nn /\ g.delta.new_edges = ne /\ g.delta.risk_updates = u
    BY <1>1, GraphFields, DeltaFields
  <1>3. /\ n \in Nat /\ n <= MaxNodes /\ Range(i) = 0 .. n - 1
        /\ IsFiniteSet(DOMAIN i) /\ Cardinality(DOMAIN i) = n
    BY <1>2 DEF GraphTyped, IndexDense
  <1>4. /\ IsSequence(nn) /\ IsSequence(u) /\ EdgesBelow(ne, n)
        /\ DeltaIds(DeltaOf(nn, ne, u)) \subseteq 0 .. n - 1
    BY <1>2 DEF GraphTyped, IdsBelow
  <1> DEFINE r == resolve_vertex(g, key, e)
  <1>5. CASE key \in DOMAIN i
    <2>1. PICK x : x = <<i[key], e.risk, e.ts>>
      BY Zenon
    <2>20. PICK uu : uu = Append(u, x)
      BY Zenon
    <2>2. r.graph = [g EXCEPT !.delta = [g.delta EXCEPT !.risk_updates = uu]] /\ r.id = i[key]
      BY <1>2, <1>5, <2>1, <2>20 DEF resolve_vertex
    <2> HIDE DEF r
    <2>3. [DeltaOf(nn, ne, u) EXCEPT !.risk_updates = uu] = DeltaOf(nn, ne, uu)
      BY DEF DeltaOf
    <2>4. r.graph = GraphOf(s, DeltaOf(nn, ne, uu), i, n, q, l, p, t)
      BY <1>1, <1>2, <2>2, <2>3, DeltaSet
    <2>5. /\ r.graph.snapshot = s /\ r.graph.delta = DeltaOf(nn, ne, uu)
          /\ r.graph.vertex_index = i /\ r.graph.next_vertex_id = n
      BY <2>4, GraphFields
    <2>6. /\ r.graph.delta.new_nodes = nn /\ r.graph.delta.new_edges = ne
          /\ r.graph.delta.risk_updates = uu
      <3>1. \A d : d = DeltaOf(nn, ne, uu) =>
              d.new_nodes = nn /\ d.new_edges = ne /\ d.risk_updates = uu
        BY DeltaFields
      <3> QED
        BY <2>5, <3>1, Zenon
    <2>7. i[key] \in 0 .. n - 1 /\ x[1] = i[key]
      BY <1>3, <1>5, <2>1 DEF Range
    <2>8. DeltaIds(r.graph.delta) \subseteq 0 .. n - 1
      BY <1>4, <2>5, <2>7, <2>20, IdsGrow
    <2>9. IsSequence(uu)
      BY <1>4, <2>20, AppendAny
    <2>10. IsGraph(r.graph)
      BY <2>4, GraphOfFields
    <2>11. GraphTyped(r.graph)
      BY <1>3, <1>4, <2>5, <2>6, <2>8, <2>9, <2>10, Zenon DEF GraphTyped, IndexDense, IdsBelow
    <2>12. n <= n
      BY <1>3
    <2>13. IndexGrows(g, r.graph)
      BY <1>2, <2>5, <2>12, Zenon DEF IndexGrows
    <2> QED
      BY <1>2, <1>5, <2>2, <2>5, <2>6, <2>7, <2>11, <2>13, Zenon DEF r, Resolved
  <1>6. CASE key \notin DOMAIN i /\ n >= MaxNodes
    <2>1. r.graph = g /\ r.id = NoVertex
      BY <1>2, <1>6 DEF resolve_vertex
    <2> HIDE DEF r
    <2>2. n <= n
      BY <1>3
    <2>3. IndexGrows(g, g)
      BY <1>2, <2>2, Zenon DEF IndexGrows
    <2> QED
      BY <1>2, <1>6, <2>1, <2>3, Zenon DEF r, Resolved
  <1>7. CASE key \notin DOMAIN i /\ ~(n >= MaxNodes)
    <2>1. PICK x : x = <<n, [first_seen |-> e.ts, last_seen |-> e.ts, risk |-> e.risk, label |-> key[1]]>>
      BY Zenon
    <2>22. PICK mm : mm = Append(nn, x)
      BY Zenon
    <2>23. PICK m : m = n + 1
      OBVIOUS
    <2> DEFINE j == [k \in DOMAIN i \cup {key} |-> IF k = key THEN n ELSE i[k]]
    <2>2. r.graph = [[[g EXCEPT !.vertex_index = j] EXCEPT !.next_vertex_id = m]
                        EXCEPT !.delta = [g.delta EXCEPT !.new_nodes = mm]]
          /\ r.id = n
      BY <1>2, <1>7, <2>1, <2>22, <2>23, Zenon DEF resolve_vertex
    <2>3. /\ DOMAIN j = DOMAIN i \cup {key} /\ j[key] = n
          /\ \A k \in DOMAIN i : j[k] = i[k]
      BY <1>7
    <2> HIDE DEF r, j
    <2>4. [DeltaOf(nn, ne, u) EXCEPT !.new_nodes = mm] = DeltaOf(mm, ne, u)
      BY DEF DeltaOf
    <2>5. [g EXCEPT !.vertex_index = j] = GraphOf(s, DeltaOf(nn, ne, u), j, n, q, l, p, t)
      BY <1>1 DEF GraphOf
    <2>6. [GraphOf(s, DeltaOf(nn, ne, u), j, n, q, l, p, t) EXCEPT !.next_vertex_id = m]
            = GraphOf(s, DeltaOf(nn, ne, u), j, m, q, l, p, t)
      BY DEF GraphOf
    <2>7. r.graph = GraphOf(s, DeltaOf(mm, ne, u), j, m, q, l, p, t)
      <3>1. [GraphOf(s, DeltaOf(nn, ne, u), j, m, q, l, p, t) EXCEPT !.delta = DeltaOf(mm, ne, u)]
              = GraphOf(s, DeltaOf(mm, ne, u), j, m, q, l, p, t)
        BY DEF GraphOf
      <3>2. [g.delta EXCEPT !.new_nodes = mm] = DeltaOf(mm, ne, u)
        BY <1>2, <2>4
      <3>3. PICK a : a = GraphOf(s, DeltaOf(nn, ne, u), j, n, q, l, p, t)
        OBVIOUS
      <3>4. PICK b : b = GraphOf(s, DeltaOf(nn, ne, u), j, m, q, l, p, t)
        OBVIOUS
      <3>5. PICK d : d = DeltaOf(mm, ne, u)
        OBVIOUS
      <3>6. [g EXCEPT !.vertex_index = j] = a /\ [a EXCEPT !.next_vertex_id = m] = b
            /\ [g.delta EXCEPT !.new_nodes = mm] = d
        BY <2>5, <2>6, <3>2, <3>3, <3>4, <3>5
      <3>7. r.graph = [b EXCEPT !.delta = d]
        BY <2>2, <3>6, Zenon
      <3> QED
        BY <3>1, <3>4, <3>5, <3>7
    <2>8. /\ r.graph.snapshot = s /\ r.graph.delta = DeltaOf(mm, ne, u)
          /\ r.graph.vertex_index = j /\ r.graph.next_vertex_id = m
      BY <2>7, GraphFields
    <2>9. /\ r.graph.delta.new_nodes = mm /\ r.graph.delta.new_edges = ne
          /\ r.graph.delta.risk_updates = u
      <3>1. \A d : d = DeltaOf(mm, ne, u) =>
              d.new_nodes = mm /\ d.new_edges = ne /\ d.risk_updates = u
        BY DeltaFields
      <3> QED
        BY <2>8, <3>1, Zenon
    <2>10. m \in Nat /\ m <= MaxNodes /\ n <= m /\ n \in 0 .. m - 1
           /\ \A y \in 0 .. n - 1 : y \in 0 .. m - 1
      BY <1>3, <1>7, <2>23
    <2>11. Range(j) = 0 .. m - 1
      <3>1. Range(j) = Range(i) \cup {n}
        BY <1>7, <2>3, Zenon DEF Range
      <3>2. \A y : y \in 0 .. m - 1 <=> y \in 0 .. n - 1 \/ y = n
        BY <1>3, <2>23
      <3> QED
        BY <1>3, <3>1, <3>2, Zenon
    <2>12. IsFiniteSet(DOMAIN j) /\ Cardinality(DOMAIN j) = m
      <3>1. IsFiniteSet(DOMAIN i \cup {key}) /\ Cardinality(DOMAIN i \cup {key}) = Cardinality(DOMAIN i) + 1
        BY <1>3, <1>7, FS_AddElement
      <3> QED
        BY <1>3, <2>3, <2>23, <3>1
    <2>13. DeltaIds(r.graph.delta) \subseteq 0 .. m - 1
      <3>1. x[1] = n
        BY <2>1
      <3>2. DeltaIds(r.graph.delta) = DeltaIds(DeltaOf(nn, ne, u)) \cup {n}
        BY <1>4, <2>8, <2>22, <3>1, IdsGrow
      <3> QED
        BY <1>4, <2>10, <3>2, Zenon
    <2>14. EdgesBelow(ne, m)
      BY <1>4, <2>10 DEF EdgesBelow
    <2>15. IsSequence(mm)
      BY <1>4, <2>22, AppendAny
    <2>16. IsGraph(r.graph)
      BY <2>7, GraphOfFields
    <2>20. IndexDense(r.graph)
      BY <2>8, <2>10, <2>11, <2>12 DEF IndexDense
    <2>21. IdsBelow(r.graph.delta, m)
      BY <2>13, Zenon DEF IdsBelow
    <2>17. GraphTyped(r.graph)
      BY <2>20, <2>21, <1>4, <2>8, <2>9, <2>10, <2>11, <2>12, <2>13, <2>14, <2>15, <2>16, Zenon
         DEF GraphTyped
    <2>18. IndexGrows(g, r.graph)
      BY <1>2, <1>7, <2>3, <2>8, <2>10, Zenon DEF IndexGrows
    <2>19. key \in DOMAIN r.graph.vertex_index /\ r.id = r.graph.vertex_index[key]
           /\ r.id \in 0 .. r.graph.next_vertex_id - 1
      BY <2>2, <2>3, <2>8, <2>10
    <2> QED
      BY <1>2, <2>9, <2>17, <2>18, <2>19, Zenon DEF r, Resolved
  <1> QED
    BY <1>5, <1>6, <1>7

\* An index that grows twice grows.
LEMMA GrowsTwice ==
    ASSUME MaxNodes \in Nat, NEW f, GraphTyped(f), NEW g, GraphTyped(g), NEW h, GraphTyped(h),
           IndexGrows(f, g), IndexGrows(g, h)
    PROVE  IndexGrows(f, h)
  <1>1. /\ f.next_vertex_id \in Nat /\ g.next_vertex_id \in Nat /\ h.next_vertex_id \in Nat
        /\ f.next_vertex_id <= g.next_vertex_id /\ g.next_vertex_id <= h.next_vertex_id
    BY Zenon DEF GraphTyped, IndexDense, IndexGrows
  <1>2. /\ f.next_vertex_id <= h.next_vertex_id
        /\ f.next_vertex_id >= MaxNodes => g.next_vertex_id >= MaxNodes
    BY <1>1
  <1> QED
    BY <1>2, Zenon DEF IndexGrows

\* A graph that differs in what a dump shows is as good.
LEMMA SameTyped ==
    ASSUME MaxNodes \in Nat, NEW g, GraphTyped(g), NEW h, SameEdges(g, h)
    PROVE  GraphTyped(h) /\ IndexGrows(g, h)
  <1>1. g.next_vertex_id <= g.next_vertex_id
    BY DEF GraphTyped, IndexDense
  <1> QED
    BY <1>1, Zenon DEF GraphTyped, IndexDense, SameEdges, IndexGrows

\* What writing the edge of an event does: it is listed, between the vertices
\* of its keys, or one of them is unknown and there is no room.
EdgeTaken(g, h, e) ==
  /\ GraphTyped(h) /\ IndexGrows(g, h)
  /\ \/ /\ SourceKey(e) \in DOMAIN h.vertex_index /\ TargetKey(e) \in DOMAIN h.vertex_index
        /\ \E p : /\ p.ts = e.ts
                  /\ h.delta.new_edges = Append(g.delta.new_edges,
                                                <<h.vertex_index[SourceKey(e)],
                                                  h.vertex_index[TargetKey(e)], p>>)
     \/ /\ ~(SourceKey(e) \in DOMAIN h.vertex_index /\ TargetKey(e) \in DOMAIN h.vertex_index)
        /\ h.next_vertex_id >= MaxNodes /\ h.delta.new_edges = g.delta.new_edges

\* What linking two vertices does.
EdgeListed(g, h, e, v, w) ==
  /\ GraphTyped(h) /\ IndexGrows(g, h)
  /\ h.vertex_index = g.vertex_index /\ h.next_vertex_id = g.next_vertex_id
  /\ \E p : p.ts = e.ts /\ h.delta.new_edges = Append(g.delta.new_edges, <<v, w, p>>)

\* An edge between two vertices is added to the delta.
LEMMA EdgeLinked ==
    ASSUME MaxNodes \in Nat, NEW g, GraphTyped(g), NEW e, e.ts \in Nat,
           NEW v \in 0 .. g.next_vertex_id - 1, NEW w \in 0 .. g.next_vertex_id - 1
    PROVE  EdgeListed(g, Linked(g, e, v, w), e, v, w)
  <1>1. PICK s, nn, ne, u, i, n, q, l, p, t : g = GraphOf(s, DeltaOf(nn, ne, u), i, n, q, l, p, t)
    BY Zenon DEF GraphTyped, IsGraph
  <1>2. /\ g.snapshot = s /\ g.delta = DeltaOf(nn, ne, u) /\ g.vertex_index = i /\ g.next_vertex_id = n
        /\ g.delta.new_nodes = nn /\ g.delta.new_edges = ne /\ g.delta.risk_updates = u
    BY <1>1, GraphFields, DeltaFields
  <1>3. n \in Nat /\ v \in 0 .. n - 1 /\ w \in 0 .. n - 1 /\ IndexDense(g)
    BY <1>2, Zenon DEF GraphTyped, IndexDense
  <1>4. /\ IsSequence(nn) /\ IsSequence(u) /\ EdgesBelow(ne, n)
        /\ DeltaIds(DeltaOf(nn, ne, u)) \subseteq 0 .. n - 1
    BY <1>2 DEF GraphTyped, IdsBelow
  <1>5. PICK props : props = [ts |-> e.ts, kind |-> edge_kind(e.kind), risk |-> e.risk]
    BY Zenon
  <1>6. PICK x : x = <<v, w, props>>
    BY Zenon
  <1>7. x[1] = v /\ x[2] = w /\ x[3].ts = e.ts /\ props.ts = e.ts
    BY <1>5, <1>6
  <1>8. PICK nf : nf = Append(ne, x)
    BY Zenon
  <1>9. PICK h : h = [g EXCEPT !.delta = [g.delta EXCEPT !.new_edges = nf]]
    BY Zenon
  <1>10. Linked(g, e, v, w) = record_event(h, e, v, w)
    BY <1>2, <1>5, <1>6, <1>8, <1>9 DEF Linked
  <1>11. [DeltaOf(nn, ne, u) EXCEPT !.new_edges = nf] = DeltaOf(nn, nf, u)
    BY DEF DeltaOf
  <1>12. h = GraphOf(s, DeltaOf(nn, nf, u), i, n, q, l, p, t)
    BY <1>1, <1>2, <1>9, <1>11, DeltaSet
  <1>13. /\ h.snapshot = s /\ h.delta = DeltaOf(nn, nf, u) /\ h.vertex_index = i /\ h.next_vertex_id = n
    BY <1>12, GraphFields
  <1>14. h.delta.new_nodes = nn /\ h.delta.new_edges = nf /\ h.delta.risk_updates = u
    BY <1>13, DeltaFields
  <1>15. EdgesBelow(nf, n)
    <2>1. /\ Len(ne) \in Nat /\ IsSequence(nf) /\ Len(nf) = Len(ne) + 1
          /\ (\A k \in 1 .. Len(ne) : nf[k] = ne[k]) /\ nf[Len(ne) + 1] = x
      <3>1. IsSequence(ne)
        BY <1>4, Zenon DEF EdgesBelow
      <3> QED
        BY <1>8, <3>1, AppendAny
    <2>2. ASSUME NEW k \in 1 .. Len(nf)
          PROVE  nf[k][1] \in 0 .. n - 1 /\ nf[k][2] \in 0 .. n - 1 /\ nf[k][3].ts \in Nat
      <3>1. k \in 1 .. Len(ne) \/ k = Len(ne) + 1
        BY <2>1
      <3> QED
        BY <1>3, <1>4, <1>7, <2>1, <3>1, Zenon DEF EdgesBelow
    <2> QED
      BY <2>1, <2>2, Zenon DEF EdgesBelow
  <1>16. DeltaIds(DeltaOf(nn, nf, u)) \subseteq 0 .. n - 1
    <2>1. ASSUME NEW d, NEW ed, d = DeltaOf(nn, ed, u)
          PROVE  DeltaIds(d) = {y[1] : y \in Range(nn)} \cup {y[1] : y \in Range(u)}
                                 \cup UNION {{y[1], y[2]} : y \in Range(ed)}
      <3>1. d.new_nodes = nn /\ d.new_edges = ed /\ d.risk_updates = u
        BY <2>1, DeltaFields
      <3> QED
        BY <3>1 DEF DeltaIds
    <2>2. {y[1] : y \in Range(nn)} \cup {y[1] : y \in Range(u)} \subseteq 0 .. n - 1
      BY <1>4, <2>1
    <2>3. \A y \in Range(nf) : y[1] \in 0 .. n - 1 /\ y[2] \in 0 .. n - 1
      <3>1. DOMAIN nf = 1 .. Len(nf)
        BY <1>15, SequenceOver DEF EdgesBelow
      <3> QED
        BY <1>15, <3>1, Zenon DEF EdgesBelow, Range
    <2> QED
      BY <2>1, <2>2, <2>3
  <1>17. GraphTyped(h)
    <2>1. IsGraph(h)
      BY <1>12, GraphOfFields
    <2>2. IndexDense(h)
      BY <1>2, <1>3, <1>13, Zenon DEF IndexDense
    <2>3. IdsBelow(h.delta, h.next_vertex_id) /\ EdgesBelow(h.delta.new_edges, h.next_vertex_id)
      BY <1>13, <1>14, <1>15, <1>16, Zenon DEF IdsBelow
    <2> QED
      BY <1>4, <1>14, <2>1, <2>2, <2>3, Zenon DEF GraphTyped
  <1>18. n <= n
    BY <1>3
  <1>19. IndexGrows(g, h)
    BY <1>2, <1>13, <1>18, Zenon DEF IndexGrows
  <1>20. SameEdges(h, Linked(g, e, v, w))
    BY <1>10, <1>17, EventRecorded DEF GraphTyped
  <1>21. GraphTyped(Linked(g, e, v, w)) /\ IndexGrows(h, Linked(g, e, v, w))
    BY <1>17, <1>20, SameTyped, Zenon
  <1>22. IndexGrows(g, Linked(g, e, v, w))
    BY <1>17, <1>19, <1>21, GrowsTwice, Zenon
  <1>23. Linked(g, e, v, w).delta.new_edges = Append(g.delta.new_edges, <<v, w, props>>)
    BY <1>2, <1>6, <1>8, <1>14, <1>20, Zenon DEF SameEdges
  <1> QED
    BY <1>2, <1>7, <1>13, <1>20, <1>21, <1>22, <1>23, Zenon DEF EdgeListed, SameEdges

\* Writing the edge of an event resolves its two vertices and lists it.
LEMMA EdgeWritten ==
    ASSUME MaxNodes \in Nat, NEW g, GraphTyped(g), NEW e, e.ts \in Nat, NEW enabled
    PROVE  EdgeTaken(g, write_edge(g, e, enabled).graph, e)
  <1>1. PICK r : r = resolve_vertex(g, SourceKey(e), e)
    OBVIOUS
  <1>2. PICK q : q = resolve_vertex(r.graph, TargetKey(e), e)
    OBVIOUS
  <1>3. Resolved(g, r, SourceKey(e))
    BY <1>1, VertexResolved
  <1>4. Resolved(r.graph, q, TargetKey(e))
    <2>1. GraphTyped(r.graph)
      BY <1>3, Zenon DEF Resolved
    <2> QED
      BY <1>2, <2>1, VertexResolved, Zenon
  <1>5. /\ GraphTyped(r.graph) /\ GraphTyped(q.graph) /\ IndexGrows(r.graph, q.graph)
        /\ IndexGrows(g, q.graph) /\ q.graph.delta.new_edges = g.delta.new_edges
    BY <1>3, <1>4, GrowsTwice, Zenon DEF Resolved
  <1>6. PICK k : k = WithTarget(q, e, r.id)
    OBVIOUS
  <1>7. PICK h : h = write_edge(g, e, enabled).graph
    OBVIOUS
  <1>8. h = maybe_dump(k, enabled).graph
    BY <1>1, <1>2, <1>6, <1>7, Zenon DEF write_edge, WithSource
  <1>9. \A v, n : n \in Nat /\ v \in 0 .. n - 1 => v # NoVertex
    BY DEF NoVertex
  <1>10. /\ r.graph.next_vertex_id \in Nat /\ q.graph.next_vertex_id \in Nat
         /\ r.graph.next_vertex_id <= q.graph.next_vertex_id
    BY <1>5, Zenon DEF GraphTyped, IndexDense, IndexGrows
  <1>11. ASSUME GraphTyped(k), EdgeTaken(g, k, e)
         PROVE  EdgeTaken(g, h, e)
    <2>1. SameEdges(k, h)
      BY <1>8, <1>11, DumpTried, Zenon DEF GraphTyped
    <2>2. GraphTyped(h) /\ IndexGrows(k, h)
      BY <1>11, <2>1, SameTyped, Zenon
    <2>3. IndexGrows(g, h)
      BY <1>11, <2>2, GrowsTwice, Zenon DEF EdgeTaken
    <2> QED
      BY <1>11, <2>1, <2>2, <2>3, Zenon DEF EdgeTaken, SameEdges
  <1>12. CASE r.id # NoVertex /\ q.id # NoVertex
    <2>1. k = Linked(q.graph, e, r.id, q.id)
      BY <1>6, <1>12, Zenon DEF WithTarget
    <2>2. /\ SourceKey(e) \in DOMAIN r.graph.vertex_index
          /\ r.id = r.graph.vertex_index[SourceKey(e)] /\ r.id \in 0 .. r.graph.next_vertex_id - 1
      BY <1>3, <1>12, Zenon DEF Resolved
    <2>3. /\ TargetKey(e) \in DOMAIN q.graph.vertex_index
          /\ q.id = q.graph.vertex_index[TargetKey(e)] /\ q.id \in 0 .. q.graph.next_vertex_id - 1
      BY <1>4, <1>12, Zenon DEF Resolved
    <2>4. r.id \in 0 .. q.graph.next_vertex_id - 1
      BY <1>10, <2>2
    <2>5. SourceKey(e) \in DOMAIN q.graph.vertex_index /\ r.id = q.graph.vertex_index[SourceKey(e)]
      BY <1>5, <2>2, Zenon DEF IndexGrows
    <2>6. /\ GraphTyped(k) /\ IndexGrows(q.graph, k) /\ k.vertex_index = q.graph.vertex_index
          /\ \E p : /\ p.ts = e.ts
                    /\ k.delta.new_edges = Append(q.graph.delta.new_edges, <<r.id, q.id, p>>)
      <3>1. PICK f : f = q.graph
        OBVIOUS
      <3>2. PICK v : v = r.id
        OBVIOUS
      <3>3. PICK w : w = q.id
        OBVIOUS
      <3>4. GraphTyped(f) /\ v \in 0 .. f.next_vertex_id - 1 /\ w \in 0 .. f.next_vertex_id - 1
        BY <1>5, <2>3, <2>4, <3>1, <3>2, <3>3, Zenon
      <3>5. k = Linked(f, e, v, w)
        BY <2>1, <3>1, <3>2, <3>3, Zenon
      <3>6. /\ GraphTyped(k) /\ IndexGrows(f, k) /\ k.vertex_index = f.vertex_index
            /\ \E p : p.ts = e.ts /\ k.delta.new_edges = Append(f.delta.new_edges, <<v, w, p>>)
        <4>1. EdgeListed(f, Linked(f, e, v, w), e, v, w)
          BY <3>4, EdgeLinked, Zenon
        <4> QED
          BY <3>5, <4>1, Zenon DEF EdgeListed
      <3> QED
        BY <3>1, <3>2, <3>3, <3>6, Zenon
    <2>7. IndexGrows(g, k)
      BY <1>5, <2>6, GrowsTwice, Zenon
    <2>8. EdgeTaken(g, k, e)
      BY <1>5, <2>3, <2>5, <2>6, <2>7, Zenon DEF EdgeTaken
    <2> QED
      BY <1>7, <1>11, <2>6, <2>8, Zenon
  <1>13. CASE ~(r.id # NoVertex /\ q.id # NoVertex)
    <2>1. k = q.graph
      BY <1>6, <1>13, Zenon DEF WithTarget
    <2>2. CASE q.id = NoVertex
      <3>1. TargetKey(e) \notin DOMAIN q.graph.vertex_index /\ q.graph.next_vertex_id >= MaxNodes
        BY <1>4, <1>9, <1>10, <2>2, Zenon DEF Resolved
      <3>2. EdgeTaken(g, k, e)
        BY <1>5, <2>1, <3>1, Zenon DEF EdgeTaken
      <3> QED
        BY <1>5, <1>7, <1>11, <2>1, <3>2, Zenon
    <2>3. CASE r.id = NoVertex
      <3>1. SourceKey(e) \notin DOMAIN r.graph.vertex_index /\ r.graph.next_vertex_id >= MaxNodes
        BY <1>3, <1>9, <1>10, <2>3, Zenon DEF Resolved
      <3>2. q.graph.vertex_index = r.graph.vertex_index
        BY <1>5, <3>1, Zenon DEF IndexGrows
      <3>3. q.graph.next_vertex_id >= MaxNodes
        BY <1>10, <3>1
      <3>4. EdgeTaken(g, k, e)
        BY <1>5, <2>1, <3>1, <3>2, <3>3, Zenon DEF EdgeTaken
      <3> QED
        BY <1>5, <1>7, <1>11, <2>1, <3>4, Zenon
    <2> QED
      BY <1>13, <2>2, <2>3
  <1> QED
    BY <1>12, <1>13

\* What a merge does to the graph.
Merged(g, h) ==
  /\ GraphTyped(h) /\ h.vertex_index = g.vertex_index /\ h.next_vertex_id = g.next_vertex_id
  /\ h.delta.new_edges = <<>>
  /\ SnapshotBelow(h.snapshot, h.next_vertex_id) /\ g.snapshot.num_nodes <= h.snapshot.num_nodes
  /\ \A j \in 1 .. Len(g.delta.new_edges) : /\ g.delta.new_edges[j][1] < h.snapshot.num_nodes
                                            /\ g.delta.new_edges[j][2] < h.snapshot.num_nodes
  /\ \A v, w \in Nat : Newest(EdgeTimes(h.snapshot, v, w),
                              EdgeTimes(g.snapshot, v, w) \cup ListedTimes(g.delta.new_edges, v, w))

\* The times of a snapshot are numbers.
LEMMA TimesNat ==
    ASSUME NEW b \in Nat, NEW s, SnapshotBelow(s, b), NEW v \in Nat, NEW w
    PROVE  EdgeTimes(s, v, w) \subseteq Nat
  <1>1. CASE v < s.num_nodes
    <2>1. PICK row : row = neighbors(s, v)
      OBVIOUS
    <2>2. PICK props : props = neighbor_props(s, v)
      OBVIOUS
    <2>3. v \in 0 .. s.num_nodes - 1
      BY <1>1 DEF SnapshotBelow
    <2>4. IsSequence(row) /\ \A i \in 1 .. Len(row) : props[i].ts \in Nat
      BY <2>1, <2>2, <2>3, Zenon DEF SnapshotBelow, RowBelow
    <2>5. DOMAIN row = 1 .. Len(row)
      BY <2>4, SequenceOver DEF IsSequence
    <2>6. EdgeTimes(s, v, w) = {props[i].ts : i \in {k \in DOMAIN row : row[k] = w}}
      BY <1>1, <2>1, <2>2 DEF EdgeTimes
    <2> QED
      BY <2>4, <2>5, <2>6
  <1>2. CASE ~(v < s.num_nodes)
    BY <1>2 DEF EdgeTimes
  <1> QED
    BY <1>1, <1>2

\* A merge leaves no delta and the newest edges in the snapshot.
LEMMA DeltaMerged ==
    ASSUME MaxNodes \in Nat, NEW g, GraphTyped(g), SnapshotBelow(g.snapshot, g.next_vertex_id),
           NEW enabled
    PROVE  Merged(g, merge_deltas(g, enabled).graph)
  <1>1. PICK m : m = IF g.delta = EmptyDelta THEN g
                     ELSE [g EXCEPT !.snapshot = rebuild_csr(g.snapshot, g.delta), !.delta = EmptyDelta]
    OBVIOUS
  <1>2. PICK h : h = merge_deltas(g, enabled).graph
    OBVIOUS
  <1>3. h = maybe_dump(m, enabled).graph
    BY <1>1, <1>2 DEF merge_deltas
  <1>4. PICK s, nn, ne, u, i, n, q, l, p, t : g = GraphOf(s, DeltaOf(nn, ne, u), i, n, q, l, p, t)
    BY Zenon DEF GraphTyped, IsGraph
  <1>5. /\ g.snapshot = s /\ g.delta = DeltaOf(nn, ne, u) /\ g.vertex_index = i /\ g.next_vertex_id = n
        /\ g.delta.new_nodes = nn /\ g.delta.new_edges = ne /\ g.delta.risk_updates = u
    BY <1>4, GraphFields, DeltaFields
  <1>6. n \in Nat /\ IndexDense(g) /\ EdgesBelow(ne, n) /\ IdsBelow(g.delta, n) /\ SnapshotBelow(s, n)
    BY <1>5, Zenon DEF GraphTyped, IndexDense
  <1>7. ASSUME Merged(g, m)
        PROVE  Merged(g, h)
    <2>1. SameEdges(m, h)
      BY <1>3, <1>7, DumpTried, Zenon DEF Merged, GraphTyped
    <2>2. GraphTyped(h)
      BY <1>7, <2>1, SameTyped, Zenon DEF Merged
    <2> QED
      BY <1>7, <2>1, <2>2, Zenon DEF Merged, SameEdges
  <1>8. Len(<<>>) = 0 /\ IsSequence(<<>>) /\ EmptyDelta = DeltaOf(<<>>, <<>>, <<>>)
    <2>1. <<>> \in Seq(Nat)
      OBVIOUS
    <2>2. IsSequence(<<>>)
      BY <2>1, SequenceOver, Zenon
    <2> QED
      BY <2>2 DEF EmptyDelta, DeltaOf
  <1>9. CASE g.delta = EmptyDelta
    <2>1. m = g
      BY <1>1, <1>9, Zenon
    <2>2. ne = <<>>
      BY <1>5, <1>8, <1>9, DeltaFields
    <2>3. ASSUME NEW v \in Nat, NEW w \in Nat
          PROVE  Newest(EdgeTimes(s, v, w), EdgeTimes(s, v, w) \cup ListedTimes(ne, v, w))
      <3>1. ListedTimes(ne, v, w) = {}
        BY <2>2 DEF ListedTimes
      <3>2. \A x \in EdgeTimes(s, v, w) : x <= x
        BY <1>6, TimesNat
      <3> QED
        BY <3>1, <3>2, Zenon DEF Newest
    <2>4. s.num_nodes <= s.num_nodes
      BY <1>6 DEF SnapshotBelow
    <2>5. \A j : j \notin 1 .. Len(ne)
      BY <1>8, <2>2
    <2> QED
      BY <1>2, <1>5, <1>6, <1>7, <2>1, <2>2, <2>3, <2>4, <2>5, Zenon DEF Merged
  <1>10. CASE g.delta # EmptyDelta
    <2>1. PICK x : x = rebuild_csr(s, g.delta)
      OBVIOUS
    <2>2. /\ SnapshotBelow(x, n) /\ s.num_nodes <= x.num_nodes
          /\ \A id \in DeltaIds(g.delta) : id < x.num_nodes
          /\ \A v, w \in Nat : Newest(EdgeTimes(x, v, w), EdgeTimes(s, v, w) \cup ListedTimes(ne, v, w))
      BY <1>5, <1>6, <2>1, SnapshotRebuilt, Zenon
    <2>3. PICK d : d = EmptyDelta
      OBVIOUS
    <2>4. m = [[g EXCEPT !.snapshot = x] EXCEPT !.delta = d]
      BY <1>1, <1>5, <1>10, <2>1, <2>3
    <2>5. [g EXCEPT !.snapshot = x] = GraphOf(x, DeltaOf(nn, ne, u), i, n, q, l, p, t)
      BY <1>4 DEF GraphOf
    <2>6. m = GraphOf(x, d, i, n, q, l, p, t)
      <3>1. PICK a : a = GraphOf(x, DeltaOf(nn, ne, u), i, n, q, l, p, t)
        OBVIOUS
      <3>2. [a EXCEPT !.delta = d] = GraphOf(x, d, i, n, q, l, p, t)
        BY <3>1, DeltaSet
      <3>3. [g EXCEPT !.snapshot = x] = a
        BY <2>5, <3>1
      <3>4. m = [a EXCEPT !.delta = d]
        BY <2>4, <3>3, Zenon
      <3> QED
        BY <3>2, <3>4
    <2>7. /\ m.snapshot = x /\ m.delta = d /\ m.vertex_index = i /\ m.next_vertex_id = n
      BY <2>6, GraphFields
    <2>8. d.new_nodes = <<>> /\ d.new_edges = <<>> /\ d.risk_updates = <<>>
      BY <2>3 DEF EmptyDelta
    <2>9. IsGraph(m)
      BY <1>8, <2>3, <2>6, GraphOfFields
    <2>10. IndexDense(m)
      BY <1>5, <1>6, <2>7, Zenon DEF IndexDense
    <2>11. EdgesBelow(<<>>, n)
      BY <1>8 DEF EdgesBelow
    <2>12. DeltaIds(d) = {}
      BY <2>8 DEF DeltaIds, Range
    <2>13. GraphTyped(m)
      BY <1>8, <2>7, <2>8, <2>9, <2>10, <2>11, <2>12, Zenon DEF GraphTyped, IdsBelow
    <2>14. \A j \in 1 .. Len(ne) : ne[j][1] < x.num_nodes /\ ne[j][2] < x.num_nodes
      <3>1. ASSUME NEW j \in 1 .. Len(ne)
            PROVE  ne[j][1] \in DeltaIds(g.delta) /\ ne[j][2] \in DeltaIds(g.delta)
        <4>1. ne[j] \in Range(ne)
          <5>1. DOMAIN ne = 1 .. Len(ne)
            BY <1>6, SequenceOver DEF EdgesBelow, IsSequence
          <5> QED
            BY <5>1, Zenon DEF Range
        <4> QED
          BY <1>5, <4>1 DEF DeltaIds
      <3> QED
        BY <2>2, <3>1, Zenon
    <2>15. Merged(g, m)
      BY <1>5, <2>2, <2>7, <2>8, <2>13, <2>14, Zenon DEF Merged
    <2> QED
      BY <1>2, <1>7, <2>15, Zenon
  <1> QED
    BY <1>9, <1>10

-----------------------------------------------------------------------------
(* The graph of the events. *)

\* An event whose two keys have ids, and the times of those between v and w.
KnownIn(g, e) == SourceKey(e) \in DOMAIN g.vertex_index /\ TargetKey(e) \in DOMAIN g.vertex_index
Between(g, e, v, w) ==
  KnownIn(g, e) /\ g.vertex_index[SourceKey(e)] = v /\ g.vertex_index[TargetKey(e)] = w
TimesIn(g, es, I, v, w) == {es[i].ts : i \in {k \in I : Between(g, es[k], v, w)}}

\* The snapshot has the newest of the first m events and the delta all others.
GraphKept(g, es, m) ==
  /\ GraphTyped(g) /\ SnapshotBelow(g.snapshot, g.next_vertex_id)
  /\ IsSequence(es) /\ m \in 0 .. Len(es)
  /\ \A i \in 1 .. Len(es) : /\ es[i].ts \in Nat
                             /\ KnownIn(g, es[i]) \/ g.next_vertex_id >= MaxNodes
  /\ \A i \in 1 .. m : \A v, w \in Nat :
       Between(g, es[i], v, w) => v < g.snapshot.num_nodes /\ w < g.snapshot.num_nodes
  /\ \A v, w \in Nat :
       /\ Newest(EdgeTimes(g.snapshot, v, w), TimesIn(g, es, 1 .. m, v, w))
       /\ ListedTimes(g.delta.new_edges, v, w) = TimesIn(g, es, m + 1 .. Len(es), v, w)

\* The edge of an event that is appended to a list.
LEMMA ListedOneMore ==
    ASSUME NEW ne, IsSequence(ne), NEW a, NEW b, NEW p, NEW v, NEW w
    PROVE  ListedTimes(Append(ne, <<a, b, p>>), v, w)
             = ListedTimes(ne, v, w) \cup {t \in {p.ts} : a = v /\ b = w}
  <1>1. PICK x : x = <<a, b, p>>
    BY Zenon
  <1>2. x[1] = a /\ x[2] = b /\ x[3] = p
    BY <1>1
  <1>3. PICK nf : nf = Append(ne, x)
    BY Zenon
  <1>4. /\ Len(ne) \in Nat /\ DOMAIN ne = 1 .. Len(ne) /\ DOMAIN nf = 1 .. Len(ne) + 1
        /\ (\A i \in 1 .. Len(ne) : nf[i] = ne[i]) /\ nf[Len(ne) + 1] = x
    BY <1>3, AppendAny
  <1>5. /\ \A i : i \in 1 .. Len(ne) + 1 <=> i \in 1 .. Len(ne) \/ i = Len(ne) + 1
        /\ Len(ne) + 1 \in DOMAIN nf
    BY <1>4
  <1>6. \A y \in ListedTimes(nf, v, w) :
          y \in ListedTimes(ne, v, w) \/ (y = p.ts /\ a = v /\ b = w)
    BY <1>2, <1>4, <1>5, Zenon DEF ListedTimes
  <1>7. ListedTimes(ne, v, w) \subseteq ListedTimes(nf, v, w)
    BY <1>4, <1>5, Zenon DEF ListedTimes
  <1>8. a = v /\ b = w => p.ts \in ListedTimes(nf, v, w)
    BY <1>2, <1>4, <1>5, Zenon DEF ListedTimes
  <1> QED
    BY <1>1, <1>3, <1>6, <1>7, <1>8

\* An event that the writer takes is the last one, and not yet merged.
LEMMA EventKept ==
    ASSUME MaxNodes \in Nat, NEW g, NEW es, NEW m, GraphKept(g, es, m), NEW e, NEW h, EdgeTaken(g, h, e),
           NEW f, f.ts = e.ts, f.ts \in Nat, SourceKey(f) = SourceKey(e), TargetKey(f) = TargetKey(e)
    PROVE  GraphKept(h, Append(es, f), m)
  <1>1. PICK fs : fs = Append(es, f)
    BY Zenon
  <1>2. PICK n : n = Len(es)
    BY Zenon
  <1>3. /\ n \in Nat /\ IsSequence(fs) /\ Len(fs) = n + 1 /\ fs[n + 1] = f
        /\ \A i \in 1 .. n : fs[i] = es[i]
    <2>1. IsSequence(es)
      BY Zenon DEF GraphKept
    <2> QED
      BY <1>1, <1>2, <2>1, AppendAny, Zenon
  <1>4. /\ m \in 0 .. n /\ m \in 0 .. n + 1 /\ \A i \in 1 .. m : i \in 1 .. n
        /\ \A i : i \in 1 .. n + 1 <=> i \in 1 .. n \/ i = n + 1
        /\ \A i : i \in m + 1 .. n + 1 <=> i \in m + 1 .. n \/ i = n + 1
        /\ \A i \in m + 1 .. n : i \in 1 .. n
    <2>1. m \in 0 .. n
      BY <1>2, Zenon DEF GraphKept
    <2> QED
      BY <1>3, <2>1
  <1>5. /\ GraphTyped(g) /\ GraphTyped(h) /\ IndexGrows(g, h) /\ h.snapshot = g.snapshot
    BY Zenon DEF GraphKept, EdgeTaken, IndexGrows
  <1>6. /\ g.next_vertex_id \in Nat /\ h.next_vertex_id \in Nat /\ g.next_vertex_id <= h.next_vertex_id
        /\ g.next_vertex_id >= MaxNodes => h.next_vertex_id >= MaxNodes
    BY <1>5, Zenon DEF GraphTyped, IndexDense, IndexGrows
  <1>7. ASSUME NEW i \in 1 .. n
        PROVE  /\ KnownIn(g, es[i]) <=> KnownIn(h, fs[i])
               /\ KnownIn(h, fs[i]) \/ h.next_vertex_id >= MaxNodes
               /\ \A v, w : Between(g, es[i], v, w) <=> Between(h, fs[i], v, w)
    <2>1. KnownIn(g, es[i]) \/ g.next_vertex_id >= MaxNodes
      BY <1>2, Zenon DEF GraphKept
    <2>2. CASE KnownIn(g, es[i])
      BY <1>3, <1>5, <2>2, Zenon DEF KnownIn, Between, IndexGrows
    <2>3. CASE g.next_vertex_id >= MaxNodes
      <3>1. h.vertex_index = g.vertex_index
        BY <1>5, <2>3, Zenon DEF IndexGrows
      <3> QED
        BY <1>3, <1>6, <2>3, <3>1, Zenon DEF KnownIn, Between
    <2> QED
      BY <2>1, <2>2, <2>3, Zenon
  <1>8. SnapshotBelow(h.snapshot, h.next_vertex_id)
    <2>1. SnapshotBelow(g.snapshot, g.next_vertex_id)
      BY Zenon DEF GraphKept
    <2>2. PICK s : s = g.snapshot
      OBVIOUS
    <2>3. s.num_nodes \in 0 .. h.next_vertex_id
      <3>1. s.num_nodes \in 0 .. g.next_vertex_id
        BY <2>1, <2>2, Zenon DEF SnapshotBelow
      <3> QED
        BY <1>6, <3>1
    <2> QED
      BY <1>5, <2>1, <2>2, <2>3, Zenon DEF SnapshotBelow
  <1>9. \A i \in 1 .. n + 1 : fs[i].ts \in Nat /\ (KnownIn(h, fs[i]) \/ h.next_vertex_id >= MaxNodes)
    <2>1. ASSUME NEW i \in 1 .. n
          PROVE  fs[i].ts \in Nat /\ (KnownIn(h, fs[i]) \/ h.next_vertex_id >= MaxNodes)
      BY <1>2, <1>3, <1>7, Zenon DEF GraphKept
    <2>2. KnownIn(h, f) \/ h.next_vertex_id >= MaxNodes
      BY Zenon DEF EdgeTaken, KnownIn
    <2> QED
      BY <1>3, <1>4, <2>1, <2>2, Zenon
  <1>10. \A i \in 1 .. m : \A v, w \in Nat :
           Between(h, fs[i], v, w) => v < h.snapshot.num_nodes /\ w < h.snapshot.num_nodes
    BY <1>4, <1>5, <1>7, Zenon DEF GraphKept
  <1>11. ASSUME NEW v \in Nat, NEW w \in Nat
         PROVE  /\ TimesIn(h, fs, 1 .. m, v, w) = TimesIn(g, es, 1 .. m, v, w)
                /\ TimesIn(h, fs, m + 1 .. n, v, w) = TimesIn(g, es, m + 1 .. n, v, w)
    <2>1. ASSUME NEW I, \A i \in I : i \in 1 .. n
          PROVE  TimesIn(h, fs, I, v, w) = TimesIn(g, es, I, v, w)
      <3>1. {i \in I : Between(g, es[i], v, w)} = {i \in I : Between(h, fs[i], v, w)}
        BY <1>7, <2>1, Zenon
      <3>2. \A i \in I : fs[i] = es[i]
        BY <1>3, <2>1, Zenon
      <3> QED
        BY <3>1, <3>2, Zenon DEF TimesIn
    <2> QED
      BY <1>4, <2>1, Zenon
  <1>12. ASSUME NEW v \in Nat, NEW w \in Nat
         PROVE  TimesIn(h, fs, m + 1 .. n + 1, v, w)
                  = TimesIn(h, fs, m + 1 .. n, v, w) \cup {t \in {f.ts} : Between(h, f, v, w)}
    <2>1. \A y \in TimesIn(h, fs, m + 1 .. n + 1, v, w) :
            y \in TimesIn(h, fs, m + 1 .. n, v, w) \/ (y = f.ts /\ Between(h, f, v, w))
      BY <1>3, <1>4, Zenon DEF TimesIn
    <2>2. TimesIn(h, fs, m + 1 .. n, v, w) \subseteq TimesIn(h, fs, m + 1 .. n + 1, v, w)
      BY <1>4, Zenon DEF TimesIn
    <2>3. Between(h, f, v, w) => f.ts \in TimesIn(h, fs, m + 1 .. n + 1, v, w)
      BY <1>3, <1>4, Zenon DEF TimesIn
    <2> QED
      BY <2>1, <2>2, <2>3
  <1>13. IsSequence(g.delta.new_edges)
    BY <1>5, Zenon DEF GraphTyped, EdgesBelow
  <1>14. ASSUME NEW v \in Nat, NEW w \in Nat
         PROVE  ListedTimes(h.delta.new_edges, v, w) = TimesIn(h, fs, m + 1 .. n + 1, v, w)
    <2>1. ListedTimes(g.delta.new_edges, v, w) = TimesIn(g, es, m + 1 .. n, v, w)
      BY <1>2, Zenon DEF GraphKept
    <2>2. CASE KnownIn(h, e)
      <3>1. PICK p : /\ p.ts = e.ts
                     /\ h.delta.new_edges = Append(g.delta.new_edges,
                                                   <<h.vertex_index[SourceKey(e)],
                                                     h.vertex_index[TargetKey(e)], p>>)
        BY <2>2, Zenon DEF EdgeTaken, KnownIn
      <3>2. PICK a : a = h.vertex_index[SourceKey(e)]
        OBVIOUS
      <3>3. PICK b : b = h.vertex_index[TargetKey(e)]
        OBVIOUS
      <3>4. PICK ne : ne = g.delta.new_edges
        OBVIOUS
      <3>5. h.delta.new_edges = Append(ne, <<a, b, p>>)
        BY <3>1, <3>2, <3>3, <3>4, Zenon
      <3>6. ListedTimes(h.delta.new_edges, v, w) = ListedTimes(ne, v, w) \cup {t \in {p.ts} : a = v /\ b = w}
        <4>1. ListedTimes(Append(ne, <<a, b, p>>), v, w)
                = ListedTimes(ne, v, w) \cup {t \in {p.ts} : a = v /\ b = w}
          BY <1>13, <3>4, ListedOneMore
        <4> QED
          BY <3>5, <4>1
      <3>7. Between(h, f, v, w) <=> a = v /\ b = w
        BY <2>2, <3>2, <3>3, Zenon DEF Between, KnownIn
      <3>8. p.ts = f.ts
        BY <3>1
      <3>9. {t \in {p.ts} : a = v /\ b = w} = {t \in {f.ts} : Between(h, f, v, w)}
        BY <3>7, <3>8
      <3> QED
        <4>1. PICK last : last = {t \in {f.ts} : Between(h, f, v, w)}
          BY Zenon
        <4>2. TimesIn(h, fs, m + 1 .. n + 1, v, w) = TimesIn(h, fs, m + 1 .. n, v, w) \cup last
          BY <1>12, <4>1
        <4>3. ListedTimes(h.delta.new_edges, v, w) = ListedTimes(ne, v, w) \cup last
          BY <3>6, <3>9, <4>1
        <4> QED
          BY <1>11, <2>1, <3>4, <4>2, <4>3, Zenon
    <2>3. CASE ~KnownIn(h, e)
      <3>1. h.delta.new_edges = g.delta.new_edges
        BY <2>3, Zenon DEF EdgeTaken, KnownIn
      <3>2. ~Between(h, f, v, w)
        BY <2>3, Zenon DEF Between, KnownIn
      <3>3. {t \in {f.ts} : Between(h, f, v, w)} = {}
        BY <3>2
      <3>4. TimesIn(h, fs, m + 1 .. n + 1, v, w) = TimesIn(h, fs, m + 1 .. n, v, w)
        <4>1. PICK last : last = {t \in {f.ts} : Between(h, f, v, w)}
          BY Zenon
        <4>2. TimesIn(h, fs, m + 1 .. n + 1, v, w) = TimesIn(h, fs, m + 1 .. n, v, w) \cup last
          BY <1>12, <4>1
        <4> QED
          BY <3>3, <4>1, <4>2, Zenon
      <3> QED
        BY <1>11, <2>1, <3>1, <3>4, Zenon
    <2> QED
      BY <2>2, <2>3
  <1>15. \A v, w \in Nat : Newest(EdgeTimes(h.snapshot, v, w), TimesIn(h, fs, 1 .. m, v, w))
    BY <1>5, <1>11, Zenon DEF GraphKept
  <1> QED
    BY <1>1, <1>3, <1>4, <1>5, <1>8, <1>9, <1>10, <1>14, <1>15, Zenon DEF GraphKept

\* What a dump shows is not part of it.
LEMMA SameKept ==
    ASSUME MaxNodes \in Nat, NEW g, NEW es, NEW m, GraphKept(g, es, m), NEW h, SameEdges(g, h)
    PROVE  GraphKept(h, es, m)
  <1>1. GraphTyped(h)
    BY SameTyped, Zenon DEF GraphKept
  <1>2. \A e : KnownIn(h, e) <=> KnownIn(g, e)
    BY Zenon DEF SameEdges, KnownIn
  <1>3. \A e, v, w : Between(h, e, v, w) <=> Between(g, e, v, w)
    BY <1>2, Zenon DEF SameEdges, Between
  <1>4. \A I, v, w : TimesIn(h, es, I, v, w) = TimesIn(g, es, I, v, w)
    BY <1>3 DEF TimesIn
  <1>5. \A i \in 1 .. Len(es) : es[i].ts \in Nat /\ (KnownIn(h, es[i]) \/ h.next_vertex_id >= MaxNodes)
    BY <1>2, Zenon DEF GraphKept, SameEdges
  <1>6. \A i \in 1 .. m : \A v, w \in Nat :
          Between(h, es[i], v, w) => v < h.snapshot.num_nodes /\ w < h.snapshot.num_nodes
    BY <1>3, Zenon DEF GraphKept, SameEdges
  <1>7. ASSUME NEW v \in Nat, NEW w \in Nat
        PROVE  /\ Newest(EdgeTimes(h.snapshot, v, w), TimesIn(h, es, 1 .. m, v, w))
               /\ ListedTimes(h.delta.new_edges, v, w) = TimesIn(h, es, m + 1 .. Len(es), v, w)
    <2>1. /\ Newest(EdgeTimes(g.snapshot, v, w), TimesIn(g, es, 1 .. m, v, w))
          /\ ListedTimes(g.delta.new_edges, v, w) = TimesIn(g, es, m + 1 .. Len(es), v, w)
      BY Zenon DEF GraphKept
    <2>2. h.snapshot = g.snapshot /\ h.delta = g.delta
      BY Zenon DEF SameEdges
    <2>3. /\ TimesIn(h, es, 1 .. m, v, w) = TimesIn(g, es, 1 .. m, v, w)
          /\ TimesIn(h, es, m + 1 .. Len(es), v, w) = TimesIn(g, es, m + 1 .. Len(es), v, w)
      BY <1>4, Zenon
    <2> QED
      BY <2>1, <2>2, <2>3, Zenon
  <1>8. SnapshotBelow(h.snapshot, h.next_vertex_id) /\ IsSequence(es) /\ m \in 0 .. Len(es)
    BY Zenon DEF GraphKept, SameEdges
  <1> QED
    BY <1>1, <1>5, <1>6, <1>7, <1>8, Zenon DEF GraphKept

\* A merge takes in all events.
LEMMA MergeKept ==
    ASSUME MaxNodes \in Nat, NEW g, NEW es, NEW m, GraphKept(g, es, m), NEW h, Merged(g, h)
    PROVE  GraphKept(h, es, Len(es))
  <1>1. PICK n : n = Len(es)
    BY Zenon
  <1>2. /\ n \in Nat /\ m \in 0 .. n /\ n \in 0 .. n /\ n + 1 .. n = {}
        /\ \A i : i \in 1 .. n <=> i \in 1 .. m \/ i \in m + 1 .. n
    <2>1. IsSequence(es) /\ m \in 0 .. n
      BY <1>1, Zenon DEF GraphKept
    <2>2. n \in Nat
      BY <1>1, <2>1, AppendAny
    <2> QED
      BY <2>1, <2>2
  <1>3. \A e : KnownIn(h, e) <=> KnownIn(g, e)
    BY Zenon DEF Merged, KnownIn
  <1>4. \A e, v, w : Between(h, e, v, w) <=> Between(g, e, v, w)
    BY <1>3, Zenon DEF Merged, Between
  <1>5. \A I, v, w : TimesIn(h, es, I, v, w) = TimesIn(g, es, I, v, w)
    BY <1>4 DEF TimesIn
  <1>6. \A v, w : TimesIn(g, es, 1 .. n, v, w) = TimesIn(g, es, 1 .. m, v, w) \cup TimesIn(g, es, m + 1 .. n, v, w)
    <2> TAKE v, w
    <2>1. {i \in 1 .. n : Between(g, es[i], v, w)}
            = {i \in 1 .. m : Between(g, es[i], v, w)} \cup {i \in m + 1 .. n : Between(g, es[i], v, w)}
      BY <1>2
    <2> QED
      BY <2>1, Zenon DEF TimesIn
  <1>7. /\ \A i \in 1 .. n : es[i].ts \in Nat
        /\ \A v, w \in Nat : /\ Newest(EdgeTimes(g.snapshot, v, w), TimesIn(g, es, 1 .. m, v, w))
                             /\ ListedTimes(g.delta.new_edges, v, w) = TimesIn(g, es, m + 1 .. n, v, w)
    BY <1>1, Zenon DEF GraphKept
  <1>8. ASSUME NEW v \in Nat, NEW w \in Nat
        PROVE  Newest(EdgeTimes(h.snapshot, v, w), TimesIn(h, es, 1 .. n, v, w))
    <2>1. PICK A : A = EdgeTimes(h.snapshot, v, w)
      OBVIOUS
    <2>2. PICK B : B = EdgeTimes(g.snapshot, v, w)
      OBVIOUS
    <2>3. PICK E : E = TimesIn(g, es, 1 .. m, v, w)
      OBVIOUS
    <2>4. PICK F : F = TimesIn(g, es, m + 1 .. n, v, w)
      OBVIOUS
    <2>5. Newest(A, B \cup F) /\ Newest(B, E) /\ TimesIn(h, es, 1 .. n, v, w) = E \cup F
      <3>1. Newest(A, B \cup ListedTimes(g.delta.new_edges, v, w))
        BY <2>1, <2>2, Zenon DEF Merged
      <3>2. ListedTimes(g.delta.new_edges, v, w) = F
        BY <1>7, <2>4, Zenon
      <3>3. Newest(B, E)
        BY <1>7, <2>2, <2>3, Zenon
      <3>4. TimesIn(h, es, 1 .. n, v, w) = E \cup F
        <4>1. TimesIn(h, es, 1 .. n, v, w) = TimesIn(g, es, 1 .. n, v, w)
          BY <1>5, Zenon
        <4>2. TimesIn(g, es, 1 .. n, v, w) = TimesIn(g, es, 1 .. m, v, w) \cup TimesIn(g, es, m + 1 .. n, v, w)
          BY <1>6, Zenon
        <4> QED
          BY <2>3, <2>4, <4>1, <4>2, Zenon
      <3> QED
        BY <3>1, <3>2, <3>3, <3>4, Zenon
    <2>6. E \subseteq Nat /\ F \subseteq Nat
      BY <1>2, <1>7, <2>3, <2>4 DEF TimesIn
    <2>7. A \subseteq E \cup F /\ B \subseteq E
      BY <2>5 DEF Newest
    <2>8. ASSUME NEW x \in E \cup F
          PROVE  \E y \in A : x <= y
      <3>1. CASE x \in E
        <4>1. PICK y \in B : x <= y
          BY <2>5, <3>1 DEF Newest
        <4>2. PICK z \in A : y <= z
          BY <2>5 DEF Newest
        <4> QED
          BY <2>6, <2>7, <3>1, <4>1, <4>2
      <3>2. CASE x \in F
        BY <2>5, <3>2 DEF Newest
      <3> QED
        BY <3>1, <3>2
    <2> QED
      BY <2>1, <2>5, <2>7, <2>8, Zenon DEF Newest
  <1>9. ASSUME NEW v \in Nat, NEW w \in Nat
        PROVE  ListedTimes(h.delta.new_edges, v, w) = TimesIn(h, es, n + 1 .. n, v, w)
    <2>1. h.delta.new_edges = <<>>
      BY Zenon DEF Merged
    <2>2. ListedTimes(<<>>, v, w) = {}
      BY DEF ListedTimes
    <2>3. TimesIn(h, es, n + 1 .. n, v, w) = {}
      BY <1>2 DEF TimesIn
    <2> QED
      BY <2>1, <2>2, <2>3, Zenon
  <1>10. ASSUME NEW i \in 1 .. n, NEW v \in Nat, NEW w \in Nat, Between(h, es[i], v, w)
         PROVE  v < h.snapshot.num_nodes /\ w < h.snapshot.num_nodes
    <2>1. Between(g, es[i], v, w)
      BY <1>4, <1>10, Zenon
    <2>2. CASE i \in 1 .. m
      <3>1. v < g.snapshot.num_nodes /\ w < g.snapshot.num_nodes
        BY <2>1, <2>2, Zenon DEF GraphKept
      <3>2. g.snapshot.num_nodes \in Nat /\ h.snapshot.num_nodes \in Nat
            /\ g.snapshot.num_nodes <= h.snapshot.num_nodes
        <4>1. /\ g.snapshot.num_nodes \in 0 .. g.next_vertex_id
              /\ h.snapshot.num_nodes \in 0 .. h.next_vertex_id
              /\ g.snapshot.num_nodes <= h.snapshot.num_nodes
          BY Zenon DEF GraphKept, Merged, SnapshotBelow
        <4> QED
          BY <4>1
      <3> QED
        BY <3>1, <3>2
    <2>3. CASE i \in m + 1 .. n
      <3>1. es[i].ts \in TimesIn(g, es, m + 1 .. n, v, w)
        BY <2>1, <2>3, Zenon DEF TimesIn
      <3>2. es[i].ts \in ListedTimes(g.delta.new_edges, v, w)
        BY <1>7, <3>1, Zenon
      <3>3. PICK j \in DOMAIN g.delta.new_edges : g.delta.new_edges[j][1] = v /\ g.delta.new_edges[j][2] = w
        BY <3>2, Zenon DEF ListedTimes
      <3>4. DOMAIN g.delta.new_edges = 1 .. Len(g.delta.new_edges)
        BY AppendAny, Zenon DEF GraphKept, GraphTyped, EdgesBelow
      <3> QED
        BY <3>3, <3>4, Zenon DEF Merged
    <2> QED
      BY <1>2, <2>2, <2>3, Zenon
  <1>11. \A i \in 1 .. n : es[i].ts \in Nat /\ (KnownIn(h, es[i]) \/ h.next_vertex_id >= MaxNodes)
    BY <1>1, <1>3, Zenon DEF GraphKept, Merged
  <1>12. GraphTyped(h) /\ SnapshotBelow(h.snapshot, h.next_vertex_id) /\ IsSequence(es)
    BY Zenon DEF GraphKept, Merged
  <1> QED
    BY <1>1, <1>2, <1>8, <1>9, <1>10, <1>11, <1>12, Zenon DEF GraphKept

\* A row that has the targets of the events of its vertex, and their newest times.
RowLatest(g, es, m, v) ==
  LET row == neighbors(g.snapshot, v)
      props == neighbor_props(g.snapshot, v)
      Ev(w) == {i \in 1 .. m : Between(g, es[i], v, w)}
  IN  /\ \A i, j \in DOMAIN row : i < j => row[i] < row[j]
      /\ Range(row) = {w \in 0 .. g.snapshot.num_nodes - 1 : Ev(w) # {}}
      /\ \A i \in DOMAIN row : props[i].ts = Max({es[k].ts : k \in Ev(row[i])})

\* Every row is one.
LEMMA RowIsLatest ==
    ASSUME MaxNodes \in Nat, NEW g, NEW es, NEW m, GraphKept(g, es, m),
           NEW v \in 0 .. g.snapshot.num_nodes - 1
    PROVE  RowLatest(g, es, m, v)
  <1>1. PICK s : s = g.snapshot
    OBVIOUS
  <1>2. PICK row : row = neighbors(s, v)
    BY Zenon
  <1>3. PICK props : props = neighbor_props(s, v)
    OBVIOUS
  <1>4. s.num_nodes \in Nat /\ v \in 0 .. s.num_nodes - 1 /\ v \in Nat /\ v < s.num_nodes
    <2>1. s.num_nodes \in 0 .. g.next_vertex_id /\ v \in 0 .. s.num_nodes - 1
      BY <1>1, Zenon DEF GraphKept, SnapshotBelow
    <2> QED
      BY <2>1
  <1>5. RowBelow(row, props, s.num_nodes)
    BY <1>1, <1>2, <1>3, <1>4, Zenon DEF GraphKept, SnapshotBelow
  <1>6. /\ DOMAIN row = 1 .. Len(row) /\ Len(row) \in Nat
        /\ \A i \in DOMAIN row : row[i] \in 0 .. s.num_nodes - 1 /\ row[i] \in Nat /\ props[i].ts \in Nat
        /\ \A i, j \in DOMAIN row : i < j => row[i] < row[j]
    <2>1. DOMAIN row = 1 .. Len(row) /\ Len(row) \in Nat
      BY <1>5, AppendAny DEF RowBelow
    <2>2. \A i \in DOMAIN row : row[i] \in 0 .. s.num_nodes - 1 /\ props[i].ts \in Nat
      BY <1>5, <2>1, Zenon DEF RowBelow
    <2>3. \A i, j \in DOMAIN row : i < j => row[i] < row[j]
      BY <1>5, <2>1, Zenon DEF RowBelow
    <2> QED
      BY <1>4, <2>1, <2>2, <2>3
  <1>7. \A i, j \in DOMAIN row : row[i] = row[j] => i = j
    BY <1>6
  <1>8. \A w : EdgeTimes(s, v, w) = {props[i].ts : i \in {k \in DOMAIN row : row[k] = w}}
    BY <1>2, <1>3, <1>4 DEF EdgeTimes
  <1>9. \A w \in Nat : Newest(EdgeTimes(s, v, w), TimesIn(g, es, 1 .. m, v, w))
    BY <1>1, <1>4, Zenon DEF GraphKept
  <1> DEFINE Ev(w) == {i \in 1 .. m : Between(g, es[i], v, w)}
  <1>10. \A w : TimesIn(g, es, 1 .. m, v, w) = {es[k].ts : k \in Ev(w)}
    BY DEF TimesIn
  <1>11. \A i \in 1 .. m : es[i].ts \in Nat
    <2>1. m \in 0 .. Len(es) /\ Len(es) \in Nat /\ \A i \in 1 .. Len(es) : es[i].ts \in Nat
      BY AppendAny, Zenon DEF GraphKept
    <2> QED
      BY <2>1
  <1>12. Range(row) = {w \in 0 .. s.num_nodes - 1 : Ev(w) # {}}
    <2>1. ASSUME NEW i \in DOMAIN row
          PROVE  row[i] \in 0 .. s.num_nodes - 1 /\ Ev(row[i]) # {}
      <3>1. props[i].ts \in EdgeTimes(s, v, row[i])
        BY <1>8
      <3>2. props[i].ts \in {es[k].ts : k \in Ev(row[i])}
        BY <1>6, <1>9, <1>10, <3>1, Zenon DEF Newest
      <3> QED
        BY <1>6, <3>2
    <2>2. ASSUME NEW w \in 0 .. s.num_nodes - 1, Ev(w) # {}
          PROVE  \E i \in DOMAIN row : row[i] = w
      <3>1. PICK k \in Ev(w) : TRUE
        BY <2>2
      <3>2. es[k].ts \in TimesIn(g, es, 1 .. m, v, w) /\ w \in Nat
        BY <1>4, <1>10, <3>1
      <3>3. PICK y \in EdgeTimes(s, v, w) : TRUE
        BY <1>9, <3>2, Zenon DEF Newest
      <3> QED
        BY <1>8, <3>3, Zenon
    <2> HIDE DEF Ev
    <2>3. \A w : w \in Range(row) <=> \E i \in DOMAIN row : row[i] = w
      BY Zenon DEF Range
    <2> QED
      BY <2>1, <2>2, <2>3
  <1>13. ASSUME NEW i \in DOMAIN row
         PROVE  props[i].ts = Max({es[k].ts : k \in Ev(row[i])})
    <2>1. PICK w : w = row[i]
      OBVIOUS
    <2>2. PICK T : T = {es[k].ts : k \in Ev(w)}
      BY Zenon
    <2>3. EdgeTimes(s, v, w) = {props[i].ts}
      BY <1>7, <1>8, <2>1
    <2>4. Newest({props[i].ts}, T)
      BY <1>6, <1>9, <1>10, <2>1, <2>2, <2>3, Zenon
    <2>5. T \in SUBSET Int
      BY <1>11, <2>2
    <2>6. props[i].ts \in T /\ \A y \in T : y <= props[i].ts
      BY <2>4, Zenon DEF Newest
    <2>7. PICK x : x = props[i].ts
      OBVIOUS
    <2>8. x \in T /\ \A y \in T : x >= y
      BY <2>5, <2>6, <2>7
    <2>9. Max(T) = x
      BY <2>5, <2>8, MaxOf
    <2> QED
      BY <2>1, <2>2, <2>7, <2>9, Zenon
  <1> QED
    BY <1>1, <1>2, <1>3, <1>6, <1>12, <1>13, Zenon DEF RowLatest

-----------------------------------------------------------------------------
(* The invariant of the statement guard. *)

CallIds == Threads \X Nat
Requests == [call : CallIds, text : Texts]
Verdicts == [call : CallIds, text : Texts, blocked : BOOLEAN]
Answers == {"none", "allow", "block", "error", "closed"}
ThreadStates == [next : Nat \ {0}, pc : {"idle", "asking", "forwarding"}, text : Texts, answer : Answers]
Calls == [kind : CallKinds, key : Nat, text : Texts]

GuardTypes ==
  /\ \A t \in Threads : world.calls[t] \in Seq(Calls)
  /\ guard \in [Threads -> ThreadStates]
  /\ \A k \in DOMAIN prepared : prepared[k] \in Texts
  /\ backlog \in Seq(Requests) /\ requests \in Seq(Requests)
  /\ worker \in [Workers -> [call : CallIds \cup {NoCall}, reply : {"none", "allow", "block"}]]
  /\ judged \subseteq Verdicts

\* A call on its way is not one its thread has yet to make, and where it is
\* the thread's current one the thread is at it.
Follows(c) == /\ c[2] <= guard[c[1]].next
              /\ c[2] = guard[c[1]].next => guard[c[1]].pc # "idle"

\* The text of the current call is the one the thread asked about.
SameText(c, x) == c[2] = guard[c[1]].next => x = guard[c[1]].text

BacklogInv ==
  \A i \in DOMAIN backlog : Follows(backlog[i].call) /\ SameText(backlog[i].call, backlog[i].text)
RequestsInv ==
  \A i \in DOMAIN requests : Follows(requests[i].call) /\ SameText(requests[i].call, requests[i].text)
JudgedInv == \A j \in judged : Follows(j.call) /\ SameText(j.call, j.text)

\* A worker that has a reply waits for a call; it has "allow" from the main loop.
WorkerInv ==
  \A w \in Workers :
    /\ worker[w].call = NoCall => worker[w].reply = "none"
    /\ worker[w].call # NoCall => Follows(worker[w].call)
    /\ worker[w].reply = "allow" => \E j \in judged : j.call = worker[w].call /\ ~j.blocked

\* A thread that has read "allow" has it for its current call and text.
AnswerInv ==
  \A t \in Threads :
    /\ guard[t].answer # "none" => guard[t].pc = "asking"
    /\ guard[t].answer = "allow" =>
         [call |-> CallOf(t), text |-> guard[t].text, blocked |-> FALSE] \in judged

GuardInv ==
  /\ GuardTypes /\ BacklogInv /\ RequestsInv /\ JudgedInv /\ WorkerInv /\ AnswerInv
  /\ ForwardedIsJudged

\* A prepared statement is prepared and run by one thread.
OwnKeys ==
  \A t, u \in Threads : \A i \in DOMAIN world.calls[t], j \in DOMAIN world.calls[u] :
    "query" \notin {world.calls[t][i].kind, world.calls[u][j].kind}
      /\ world.calls[t][i].key = world.calls[u][j].key => t = u

\* A thread in PQprepare: the guard has the text, the database may not.
Preparing(t) == guard[t].pc = "forwarding" /\ Current(t).kind = "pg_prepare"

\* A thread asks about the text the database would run.
AskInv ==
  \A t \in Threads :
    /\ guard[t].pc # "idle" => guard[t].next <= Len(world.calls[t])
    /\ guard[t].pc = "asking" => /\ Current(t).kind \in {"query", "execute"}
                                 /\ Astray(t) \/ guard[t].text = Runs(t)

\* What the guard remembers is what the database has prepared, unless they
\* are known to differ or a thread is on its way between them.
CacheInv ==
  \A k \in DOMAIN prepared :
    \/ k \in astray
    \/ Prepared(k) = prepared[k]
    \/ \E t \in Threads : Preparing(t) /\ Current(t).key = k /\ Current(t).text.fits
PrepareInv ==
  \A t \in Threads :
    Preparing(t) /\ Current(t).text.fits /\ Current(t).key \in DOMAIN prepared =>
      prepared[Current(t).key] = Current(t).text

StatementInv == OwnKeys /\ AskInv /\ CacheInv /\ PrepareInv

-----------------------------------------------------------------------------
(* The threads. *)

\* What is on its way stays in step with the threads.
InStep == \A c \in CallIds :
          Follows(c) => Follows(c)' /\ \A x \in Texts : SameText(c, x) => SameText(c, x)'

\* A thread goes on to its next call: nothing on its way is that call.
LEMMA InStepWhenDone ==
    ASSUME GuardTypes, NEW t \in Threads, NEW g,
           guard' = [guard EXCEPT ![t] = g], g.next = guard[t].next + 1
    PROVE  InStep
  <1> SUFFICES ASSUME NEW c \in CallIds, Follows(c)
               PROVE  Follows(c)' /\ \A x \in Texts : SameText(c, x) => SameText(c, x)'
    BY DEF InStep
  <1>1. c[1] \in Threads /\ c[2] \in Nat
    BY DEF CallIds
  <1>2. \A s \in Threads : guard[s].next \in Nat
    BY DEF GuardTypes, ThreadStates
  <1>3. \A s \in Threads : guard'[s] = IF s = t THEN g ELSE guard[s]
    BY DEF GuardTypes
  <1>4. CASE c[1] = t
    <2>1. c[2] < guard'[c[1]].next
      BY <1>1, <1>2, <1>3, <1>4 DEF Follows
    <2>2. guard'[c[1]].next \in Nat
      BY <1>1, <1>2, <1>3, <1>4
    <2> QED
      BY <1>1, <2>1, <2>2 DEF Follows, SameText
  <1>5. CASE c[1] # t
    <2>1. guard'[c[1]] = guard[c[1]]
      BY <1>1, <1>3, <1>5
    <2> QED
      BY <2>1 DEF Follows, SameText
  <1> QED
    BY <1>4, <1>5

\* A thread goes on within its call: it keeps the text it has asked about.
LEMMA InStepWithin ==
    ASSUME GuardTypes, NEW t \in Threads, NEW g,
           guard' = [guard EXCEPT ![t] = g], g.next = guard[t].next, g.pc # "idle",
           guard[t].pc = "idle" \/ g.text = guard[t].text
    PROVE  InStep
  <1> SUFFICES ASSUME NEW c \in CallIds, Follows(c)
               PROVE  Follows(c)' /\ \A x \in Texts : SameText(c, x) => SameText(c, x)'
    BY DEF InStep
  <1>1. c[1] \in Threads /\ c[2] \in Nat
    BY DEF CallIds
  <1>2. \A s \in Threads : guard'[s] = IF s = t THEN g ELSE guard[s]
    BY DEF GuardTypes
  <1>3. CASE c[1] = t
    BY <1>1, <1>2, <1>3 DEF Follows, SameText
  <1>4. CASE c[1] # t
    <2>1. guard'[c[1]] = guard[c[1]]
      BY <1>1, <1>2, <1>4
    <2> QED
      BY <2>1 DEF Follows, SameText
  <1> QED
    BY <1>3, <1>4

\* Requests, verdicts and workers a thread leaves alone stay in step with it.
LEMMA InStepLoop ==
    ASSUME GuardInv, InStep, requests' = requests, worker' = worker, judged' = judged
    PROVE  RequestsInv' /\ JudgedInv' /\ WorkerInv'
  <1>1. RequestsInv'
    <2> SUFFICES ASSUME NEW i \in DOMAIN requests
                 PROVE  /\ Follows(requests[i].call)'
                        /\ SameText(requests[i].call, requests[i].text)'
      BY Zenon DEF RequestsInv
    <2>1. requests[i].call \in CallIds /\ requests[i].text \in Texts
      <3>1. requests[i] \in Requests
        BY DEF GuardInv, GuardTypes
      <3> QED
        BY <3>1 DEF Requests
    <2>2. Follows(requests[i].call) /\ SameText(requests[i].call, requests[i].text)
      BY Zenon DEF GuardInv, RequestsInv
    <2> QED
      BY <2>1, <2>2, Zenon DEF InStep, Follows, SameText
  <1>2. JudgedInv'
    <2> SUFFICES ASSUME NEW j \in judged PROVE Follows(j.call)' /\ SameText(j.call, j.text)'
      BY Zenon DEF JudgedInv
    <2>1. j.call \in CallIds /\ j.text \in Texts
      BY DEF GuardInv, GuardTypes, Verdicts
    <2>2. Follows(j.call) /\ SameText(j.call, j.text)
      BY Zenon DEF GuardInv, JudgedInv
    <2> QED
      BY <2>1, <2>2, Zenon DEF InStep
  <1>3. WorkerInv'
    <2> SUFFICES ASSUME NEW w \in Workers, worker[w].call # NoCall PROVE Follows(worker[w].call)'
      BY Zenon DEF GuardInv, WorkerInv
    <2>1. worker[w].call \in CallIds
      BY DEF GuardInv, GuardTypes
    <2>2. Follows(worker[w].call)
      BY Zenon DEF GuardInv, WorkerInv
    <2> QED
      BY <2>1, <2>2, Zenon DEF InStep, Follows
  <1> QED
    BY <1>1, <1>2, <1>3

\* So does the backlog where a thread leaves it alone.
LEMMA InStepBacklog ==
    ASSUME GuardInv, InStep, backlog' = backlog
    PROVE  BacklogInv'
  <1> SUFFICES ASSUME NEW i \in DOMAIN backlog
               PROVE  Follows(backlog[i].call)' /\ SameText(backlog[i].call, backlog[i].text)'
    BY Zenon DEF BacklogInv
  <1>1. backlog[i].call \in CallIds /\ backlog[i].text \in Texts
    <2>1. backlog[i] \in Requests
      BY DEF GuardInv, GuardTypes
    <2> QED
      BY <2>1 DEF Requests
  <1>2. Follows(backlog[i].call) /\ SameText(backlog[i].call, backlog[i].text)
    BY Zenon DEF GuardInv, BacklogInv
  <1> QED
    BY <1>1, <1>2, Zenon DEF InStep, Follows, SameText

\* A thread that has read no answer moves.
LEMMA ThreadMoves ==
    ASSUME GuardInv, NEW t \in Threads, NEW g \in ThreadStates, guard' = [guard EXCEPT ![t] = g],
           g.answer = "none", InStep, UNCHANGED <<worker, requests, judged>>
    PROVE  /\ guard' \in [Threads -> ThreadStates]
           /\ AnswerInv' /\ RequestsInv' /\ JudgedInv' /\ WorkerInv'
  <1>1. guard' \in [Threads -> ThreadStates]
    BY DEF GuardInv, GuardTypes
  <1>2. AnswerInv'
    <2> SUFFICES ASSUME NEW s \in Threads
                 PROVE  /\ guard'[s].answer # "none" => guard'[s].pc = "asking"
                        /\ guard'[s].answer = "allow" =>
                             [call |-> CallOf(s), text |-> guard[s].text, blocked |-> FALSE]' \in judged
      BY DEF AnswerInv
    <2>1. CASE s = t
      BY <2>1 DEF GuardInv, GuardTypes
    <2>2. CASE s # t
      <3>1. guard'[s] = guard[s]
        BY <2>2 DEF GuardInv, GuardTypes
      <3> QED
        BY <3>1 DEF GuardInv, AnswerInv, CallOf
    <2> QED
      BY <2>1, <2>2
  <1> QED
    BY <1>1, <1>2, InStepLoop

\* A call is concluded: with "allow" only after the verdict, without one only
\* where the guard fails open.
LEMMA ConcludeKeeps ==
    ASSUME GuardInv, world' = world, NEW t \in Threads, NEW x \in Texts, NEW answer \in Answers,
           Conclude(t, answer),
           answer = "allow" => /\ [call |-> CallOf(t), text |-> x, blocked |-> FALSE] \in judged
                               /\ Astray(t) \/ x = Runs(t),
           UNCHANGED <<prepared, backlog, worker, requests, judged>>
    PROVE  GuardInv'
  <1> DEFINE blocked == policy_decision(answer) = "block"
             g == IF blocked THEN [next |-> guard[t].next + 1, pc |-> "idle", text |-> NoText,
                                   answer |-> "none"]
                  ELSE [guard[t] EXCEPT !.pc = "forwarding", !.answer = "none"]
  <1>1. guard[t] \in ThreadStates
    BY DEF GuardInv, GuardTypes
  <1>2. guard' = [guard EXCEPT ![t] = g]
    <2>1. CASE blocked
      <3>1. g = [next |-> guard[t].next + 1, pc |-> "idle", text |-> NoText, answer |-> "none"]
        BY <2>1, Zenon
      <3> HIDE DEF g
      <3> QED
        BY <2>1, <3>1 DEF Conclude, Returned
    <2>2. CASE ~blocked
      <3>1. guard' = [guard EXCEPT ![t].pc = "forwarding", ![t].answer = "none"]
        BY <2>2, Zenon DEF Conclude
      <3>2. DOMAIN guard = Threads
        BY DEF GuardInv, GuardTypes
      <3>3. g = [guard[t] EXCEPT !.pc = "forwarding", !.answer = "none"]
        BY <2>2, Zenon
      <3> HIDE DEF g, blocked
      <3> QED
        BY <3>1, <3>2, <3>3, Zenon
    <2> QED
      BY <2>1, <2>2
  <1>3. NoText \in Texts
    BY DEF NoText, Texts
  <1>4. g \in ThreadStates
    <2>1. CASE blocked
      BY <1>1, <1>3, <2>1 DEF Answers, ThreadStates
    <2>2. CASE ~blocked
      BY <1>1, <2>2, Zenon DEF Answers, ThreadStates
    <2> QED
      BY <2>1, <2>2
  <1>5. g.answer = "none"
    BY <1>1 DEF ThreadStates
  <1>6. InStep
    <2>1. CASE blocked
      BY <1>1, <1>2, <2>1, InStepWhenDone, Zenon DEF GuardInv, ThreadStates
    <2>2. CASE ~blocked
      <3>1. g.next = guard[t].next /\ g.pc # "idle" /\ g.text = guard[t].text
        BY <1>1, <2>2 DEF ThreadStates
      <3> QED
        BY <1>2, <3>1, InStepWithin, Zenon DEF GuardInv
    <2> QED
      BY <2>1, <2>2
  <1> HIDE DEF g
  <1>7. /\ guard' \in [Threads -> ThreadStates]
        /\ AnswerInv' /\ RequestsInv' /\ JudgedInv' /\ WorkerInv'
    BY <1>2, <1>4, <1>5, <1>6, ThreadMoves, Zenon
  <1>8. GuardTypes'
    BY <1>7 DEF GuardInv, GuardTypes
  <1>9. ForwardedIsJudged'
    <2>1. CASE blocked
      BY <2>1 DEF GuardInv, ForwardedIsJudged, Conclude
    <2>2. CASE ~blocked
      <3> DEFINE new == [call |-> CallOf(t), text |-> Runs(t), answered |-> answer = "allow",
                         astray |-> Astray(t)]
      <3>1. forwarded' = forwarded \cup {new}
        BY <2>2 DEF Conclude
      <3>2. new.answered \/ world.failClosed => answer = "allow"
        BY <2>2, Zenon DEF policy_decision
      <3>3. new.answered \/ world.failClosed =>
              \E j \in judged : j.call = new.call /\ ~j.blocked /\ (j.text = new.text \/ new.astray)
        BY <3>2
      <3> HIDE DEF new
      <3> SUFFICES ASSUME NEW f \in forwarded', f.answered \/ world.failClosed
                   PROVE  \E j \in judged : j.call = f.call /\ ~j.blocked /\ (j.text = f.text \/ f.astray)
        BY Zenon DEF ForwardedIsJudged
      <3>4. CASE f = new
        BY <3>3, <3>4
      <3>5. CASE f \in forwarded
        BY <3>5, Zenon DEF GuardInv, ForwardedIsJudged
      <3> QED
        BY <3>1, <3>4, <3>5
    <2> QED
      BY <2>1, <2>2
  <1> QED
    BY <1>6, <1>7, <1>8, <1>9, InStepBacklog DEF GuardInv

\* A thread asks, or concludes without asking.
LEMMA RequestKeeps ==
    ASSUME GuardInv, world' = world, NEW t \in Threads, NEW x \in Texts, NEW up,
           guard[t].pc = "idle", request_verdict(t, x, up),
           UNCHANGED <<prepared, worker, requests, judged>>
    PROVE  GuardInv'
  <1>1. CASE ~(x.fits /\ up)
    <2>1. Conclude(t, "error") /\ backlog' = backlog
      BY <1>1, Zenon DEF request_verdict
    <2>2. "error" \in Answers /\ "error" # "allow"
      BY Zenon DEF Answers
    <2> QED
      BY <2>1, <2>2, ConcludeKeeps, Zenon
  <1>2. CASE x.fits /\ up
    <2> DEFINE g == [guard[t] EXCEPT !.pc = "asking", !.text = x]
               new == [call |-> CallOf(t), text |-> x]
    <2>1. guard[t] \in ThreadStates /\ DOMAIN guard = Threads
      BY DEF GuardInv, GuardTypes
    <2>2. /\ guard' = [guard EXCEPT ![t].pc = "asking", ![t].text = x]
          /\ backlog' = Append(backlog, new) /\ forwarded' = forwarded
      BY <1>2, Zenon DEF request_verdict
    <2>3. guard' = [guard EXCEPT ![t] = g]
      BY <2>1, <2>2, Zenon
    <2>4. guard[t].answer = "none"
      BY Zenon DEF GuardInv, AnswerInv
    <2>5. /\ g \in ThreadStates /\ g.next = guard[t].next /\ g.pc = "asking" /\ g.text = x
          /\ g.answer = "none"
      BY <2>1, <2>4, Zenon DEF ThreadStates
    <2> HIDE DEF g
    <2>6. InStep
      BY <2>3, <2>5, InStepWithin, Zenon DEF GuardInv
    <2>7. /\ guard' \in [Threads -> ThreadStates]
          /\ AnswerInv' /\ RequestsInv' /\ JudgedInv' /\ WorkerInv'
      BY <2>3, <2>5, <2>6, ThreadMoves, Zenon
    <2>8. new \in Requests /\ new.call = <<t, guard[t].next>> /\ new.text = x
      BY <2>1 DEF Requests, CallIds, CallOf, ThreadStates
    <2>9. ASSUME NEW c, c = <<t, guard[t].next>> PROVE Follows(c)' /\ SameText(c, x)'
      <3>1. guard'[t] = g
        BY <2>1, <2>3
      <3>2. c[1] = t /\ c[2] = guard[t].next /\ guard[t].next \in Nat
        BY <2>1, <2>9 DEF ThreadStates
      <3> QED
        BY <2>5, <3>1, <3>2 DEF Follows, SameText
    <2> HIDE DEF new
    <2>10. /\ backlog' \in Seq(Requests)
           /\ \A i \in DOMAIN backlog' :
                backlog'[i] = new \/ (i \in DOMAIN backlog /\ backlog'[i] = backlog[i])
      <3>1. backlog \in Seq(Requests)
        BY DEF GuardInv, GuardTypes
      <3> QED
        BY <2>2, <2>8, <3>1
    <2>11. BacklogInv'
      <3> SUFFICES ASSUME NEW i \in DOMAIN backlog', NEW r, r = backlog'[i]
                   PROVE  Follows(r.call)' /\ SameText(r.call, r.text)'
        BY Zenon DEF BacklogInv
      <3>1. CASE r = new
        BY <2>8, <2>9, <3>1
      <3>2. CASE i \in DOMAIN backlog /\ r = backlog[i]
        <4>1. r \in Requests
          <5>1. backlog \in Seq(Requests)
            BY Zenon DEF GuardInv, GuardTypes
          <5>2. \A k \in DOMAIN backlog : backlog[k] \in Requests
            BY <5>1
          <5> QED
            BY <3>2, <5>2, Zenon
        <4>2. r.call \in CallIds /\ r.text \in Texts
          BY <4>1, Zenon DEF Requests
        <4>3. Follows(r.call) /\ SameText(r.call, r.text)
          BY <3>2, Zenon DEF GuardInv, BacklogInv
        <4> QED
          BY <2>6, <4>2, <4>3, Zenon DEF InStep
      <3> QED
        BY <2>10, <3>1, <3>2
    <2>12. GuardTypes'
      BY <2>7, <2>10, Zenon DEF GuardInv, GuardTypes
    <2>13. ForwardedIsJudged'
      BY <2>2 DEF GuardInv, ForwardedIsJudged
    <2> QED
      BY <2>7, <2>11, <2>12, <2>13 DEF GuardInv
  <1> QED
    BY <1>1, <1>2

\* A statement is prepared.
LEMMA RememberKeeps ==
    ASSUME GuardTypes, NEW key, NEW x \in Texts, Remember(key, x)
    PROVE  \A k \in DOMAIN prepared' : prepared'[k] \in Texts
  <1> DEFINE kept == IF Cardinality(DOMAIN prepared) >= MaxPrepared THEN {} ELSE DOMAIN prepared
  <1>1. CASE x.fits
    <2>1. prepared' = [k \in kept \cup {key} |-> IF k = key THEN x ELSE prepared[k]]
      BY <1>1 DEF Remember
    <2>2. kept \subseteq DOMAIN prepared
      OBVIOUS
    <2> HIDE DEF kept
    <2> QED
      BY <2>1, <2>2 DEF GuardTypes
  <1>2. CASE ~x.fits
    BY <1>2 DEF Remember, GuardTypes
  <1> QED
    BY <1>1, <1>2

\* The current call of a thread that has one.
LEMMA CurrentCall ==
    ASSUME GuardInv, NEW t \in Threads, guard[t].next <= Len(world.calls[t])
    PROVE  Current(t) \in Calls
  <1>1. world.calls[t] \in Seq(Calls)
    BY Zenon DEF GuardInv, GuardTypes
  <1>2. guard[t].next \in Nat /\ guard[t].next # 0
    BY DEF GuardInv, GuardTypes, ThreadStates
  <1> QED
    BY <1>1, <1>2 DEF Current

\* Any step of a thread.
LEMMA GuardNextKeeps ==
    ASSUME GuardInv, AskInv, world' = world, NEW t \in Threads, NEW up, GuardNext(t, up)
    PROVE  GuardInv'
  <1>1. guard[t] \in ThreadStates /\ DOMAIN guard = Threads
    BY DEF GuardInv, GuardTypes
  <1>2. CASE Query(t, up)
    <2>1. Current(t).text \in Texts
      BY <1>2, CurrentCall DEF Query, Calls
    <2> QED
      BY <1>2, <2>1, RequestKeeps, Zenon DEF Query
  <1>3. CASE Execute(t, up)
    <2>1. Lookup(Current(t).key) \in Texts
      BY Zenon DEF Lookup, NoText, Texts, GuardInv, GuardTypes
    <2> QED
      BY <1>3, <2>1, RequestKeeps DEF Execute
  <1>4. CASE PgPrepare(t)
    <2> DEFINE g == [guard[t] EXCEPT !.pc = "forwarding"]
    <2>1. Current(t).text \in Texts
      BY <1>4, CurrentCall DEF PgPrepare, Calls
    <2>2. \A k \in DOMAIN prepared' : prepared'[k] \in Texts
      BY <1>4, <2>1, RememberKeeps DEF PgPrepare, GuardInv
    <2>3. guard' = [guard EXCEPT ![t] = g]
      BY <1>1, <1>4 DEF PgPrepare
    <2>4. guard[t].answer = "none" /\ guard[t].pc = "idle"
      BY <1>4, Zenon DEF PgPrepare, GuardInv, AnswerInv
    <2>5. g \in ThreadStates /\ g.next = guard[t].next /\ g.pc = "forwarding" /\ g.answer = "none"
      BY <1>1, <2>4 DEF ThreadStates
    <2> HIDE DEF g
    <2>6. InStep
      BY <2>3, <2>4, <2>5, InStepWithin, Zenon DEF GuardInv
    <2>7. /\ guard' \in [Threads -> ThreadStates]
          /\ AnswerInv' /\ RequestsInv' /\ JudgedInv' /\ WorkerInv'
      BY <1>4, <2>3, <2>5, <2>6, ThreadMoves, Zenon DEF PgPrepare
    <2>8. BacklogInv' /\ ForwardedIsJudged'
      BY <1>4, <2>6, InStepBacklog DEF PgPrepare, GuardInv, ForwardedIsJudged
    <2>9. GuardTypes'
      BY <1>4, <2>2, <2>7 DEF PgPrepare, GuardInv, GuardTypes
    <2> QED
      BY <2>7, <2>8, <2>9 DEF GuardInv
  <1>5. CASE MysqlPrepare(t)
    <2> DEFINE g == [guard[t] EXCEPT !.next = @ + 1]
    <2>1. Current(t).text \in Texts
      BY <1>5, CurrentCall DEF MysqlPrepare, Calls
    <2>2. \A k \in DOMAIN prepared' : prepared'[k] \in Texts
      <3>1. CASE prepared' = prepared
        BY <3>1 DEF GuardInv, GuardTypes
      <3> QED
        BY <1>5, <2>1, <3>1, RememberKeeps DEF MysqlPrepare, GuardInv
    <2>3. guard' = [guard EXCEPT ![t] = g]
      BY <1>1, <1>5 DEF MysqlPrepare
    <2>4. guard[t].answer = "none"
      BY <1>5, Zenon DEF MysqlPrepare, GuardInv, AnswerInv
    <2>5. g \in ThreadStates /\ g.next = guard[t].next + 1 /\ g.answer = "none"
      BY <1>1, <2>4 DEF ThreadStates
    <2> HIDE DEF g
    <2>6. InStep
      BY <2>3, <2>5, InStepWhenDone, Zenon DEF GuardInv
    <2>7. /\ guard' \in [Threads -> ThreadStates]
          /\ AnswerInv' /\ RequestsInv' /\ JudgedInv' /\ WorkerInv'
      BY <1>5, <2>3, <2>5, <2>6, ThreadMoves, Zenon DEF MysqlPrepare
    <2>8. BacklogInv' /\ ForwardedIsJudged'
      BY <1>5, <2>6, InStepBacklog DEF MysqlPrepare, GuardInv, ForwardedIsJudged
    <2>9. GuardTypes'
      BY <1>5, <2>2, <2>7 DEF MysqlPrepare, GuardInv, GuardTypes
    <2> QED
      BY <2>7, <2>8, <2>9 DEF GuardInv
  <1>6. CASE Answered(t)
    <2>1. guard[t].text \in Texts /\ guard[t].answer \in Answers
      BY <1>1 DEF ThreadStates
    <2>2. guard[t].answer = "allow" =>
            [call |-> CallOf(t), text |-> guard[t].text, blocked |-> FALSE] \in judged
      BY DEF GuardInv, AnswerInv
    <2>3. Astray(t) \/ guard[t].text = Runs(t)
      BY <1>6, Zenon DEF Answered, AskInv
    <2> QED
      BY <1>6, <2>1, <2>2, <2>3, ConcludeKeeps, Zenon DEF Answered
  <1>7. CASE ReadFails(t, up)
    <2>1. guard[t].text \in Texts /\ "error" \in Answers /\ "error" # "allow"
      BY <1>1 DEF ThreadStates, Answers
    <2> QED
      BY <1>7, <2>1, ConcludeKeeps, Zenon DEF ReadFails
  <1>8. CASE Return(t) \/ PgPrepared(t)
    <2> DEFINE g == [next |-> guard[t].next + 1, pc |-> "idle", text |-> NoText, answer |-> "none"]
    <2>1. guard' = [guard EXCEPT ![t] = g]
      BY <1>8 DEF Return, PgPrepared, Returned
    <2>2. NoText \in Texts /\ "none" \in Answers
      BY DEF NoText, Texts, Answers
    <2>3. guard[t].next \in Nat /\ guard[t].next + 1 \in Nat \ {0}
      BY <1>1 DEF ThreadStates
    <2>4. g \in ThreadStates /\ g.next = guard[t].next + 1 /\ g.answer = "none"
      BY <2>2, <2>3 DEF ThreadStates
    <2> HIDE DEF g
    <2>5. InStep
      BY <2>1, <2>4, InStepWhenDone, Zenon DEF GuardInv
    <2>6. /\ guard' \in [Threads -> ThreadStates]
          /\ AnswerInv' /\ RequestsInv' /\ JudgedInv' /\ WorkerInv'
      BY <1>8, <2>1, <2>4, <2>5, ThreadMoves, Zenon DEF Return, PgPrepared
    <2>7. BacklogInv' /\ ForwardedIsJudged'
      BY <1>8, <2>5, InStepBacklog DEF Return, PgPrepared, GuardInv, ForwardedIsJudged
    <2>8. GuardTypes'
      BY <1>8, <2>6 DEF Return, PgPrepared, GuardInv, GuardTypes
    <2> QED
      BY <2>6, <2>7, <2>8 DEF GuardInv
  <1> QED
    BY <1>2, <1>3, <1>4, <1>5, <1>6, <1>7, <1>8 DEF GuardNext

-----------------------------------------------------------------------------
(* The service and the main loop's answer. *)

\* A response reaches the thread that asked, for the call it asked about.
LEMMA ResponseKeeps ==
    ASSUME GuardInv, world' = world, NEW c \in CallIds, NEW answer \in Answers,
           write_response(c, answer), answer # "none",
           answer = "allow" => \E j \in judged : j.call = c /\ ~j.blocked,
           judged' = judged, forwarded' = forwarded
    PROVE  /\ guard' \in [Threads -> ThreadStates] /\ InStep
           /\ JudgedInv' /\ AnswerInv' /\ ForwardedIsJudged'
  <1> DEFINE t == c[1]
             g == [guard[t] EXCEPT !.answer = answer]
  <1>1. t \in Threads /\ c = <<t, c[2]>>
    BY DEF CallIds
  <1>2. guard[t] \in ThreadStates /\ guard \in [Threads -> ThreadStates]
    BY <1>1 DEF GuardInv, GuardTypes
  <1> HIDE DEF t
  <1>3. ForwardedIsJudged'
    BY DEF GuardInv, ForwardedIsJudged
  <1>4. CASE ~(guard[t].next = c[2] /\ guard[t].pc = "asking")
    <2>1. guard' = guard
      BY <1>4 DEF write_response, t
    <2>2. InStep
      BY <2>1, Zenon DEF InStep, Follows, SameText
    <2> QED
      BY <1>2, <1>3, <2>1, <2>2, Zenon DEF GuardInv, JudgedInv, AnswerInv, Follows, SameText, CallOf
  <1>5. CASE guard[t].next = c[2] /\ guard[t].pc = "asking"
    <2>1. guard' = [guard EXCEPT ![t] = g]
      BY <1>2, <1>5 DEF write_response, t
    <2>2. /\ g \in ThreadStates /\ g.next = guard[t].next /\ g.pc = "asking"
          /\ g.text = guard[t].text /\ g.answer = answer
      BY <1>2, <1>5 DEF ThreadStates
    <2> HIDE DEF g
    <2>3. InStep
      BY <1>1, <2>1, <2>2, InStepWithin, Zenon DEF GuardInv
    <2>4. guard' \in [Threads -> ThreadStates]
      BY <1>2, <2>1, <2>2, Zenon
    <2>5. JudgedInv'
      <3> SUFFICES ASSUME NEW j \in judged PROVE Follows(j.call)' /\ SameText(j.call, j.text)'
        BY Zenon DEF JudgedInv
      <3>1. j.call \in CallIds /\ j.text \in Texts
        BY DEF GuardInv, GuardTypes, Verdicts
      <3>2. Follows(j.call) /\ SameText(j.call, j.text)
        BY Zenon DEF GuardInv, JudgedInv
      <3> QED
        BY <2>3, <3>1, <3>2, Zenon DEF InStep
    <2>6. answer = "allow" => [call |-> c, text |-> g.text, blocked |-> FALSE] \in judged
      <3> SUFFICES ASSUME answer = "allow"
                   PROVE  [call |-> c, text |-> g.text, blocked |-> FALSE] \in judged
        OBVIOUS
      <3>1. PICK j \in judged : j.call = c /\ ~j.blocked
        OBVIOUS
      <3>2. SameText(j.call, j.text) /\ j \in Verdicts
        BY DEF GuardInv, JudgedInv, GuardTypes
      <3>3. j.text = guard[t].text
        BY <1>5, <3>1, <3>2 DEF SameText, t
      <3>4. j = [call |-> c, text |-> g.text, blocked |-> FALSE]
        BY <2>2, <3>1, <3>2, <3>3, Zenon DEF Verdicts
      <3> QED
        BY <3>4
    <2>7. AnswerInv'
      <3> SUFFICES ASSUME NEW s \in Threads
                   PROVE  /\ guard'[s].answer # "none" => guard'[s].pc = "asking"
                          /\ guard'[s].answer = "allow" =>
                               [call |-> <<s, guard'[s].next>>, text |-> guard'[s].text,
                                blocked |-> FALSE] \in judged
        BY Zenon DEF AnswerInv, CallOf
      <3>1. CASE s = t
        <4>1. guard'[s] = g
          BY <1>1, <1>2, <2>1, <3>1
        <4> QED
          BY <1>1, <1>5, <2>2, <2>6, <3>1, <4>1, Zenon
      <3>2. CASE s # t
        <4>1. guard'[s] = guard[s]
          BY <1>2, <2>1, <3>2
        <4> QED
          BY <4>1 DEF GuardInv, AnswerInv, CallOf
      <3> QED
        BY <3>1, <3>2
    <2> QED
      BY <1>3, <2>3, <2>4, <2>5, <2>7
  <1> QED
    BY <1>4, <1>5

\* What is left of a queue of requests once its first one is taken.
LEMMA TailOf ==
    ASSUME NEW q \in Seq(Requests), q # <<>>
    PROVE  /\ Head(q) \in Requests /\ Head(q) = q[1] /\ 1 \in DOMAIN q
           /\ Tail(q) \in Seq(Requests)
           /\ \A i \in DOMAIN Tail(q) : i + 1 \in DOMAIN q /\ Tail(q)[i] = q[i + 1]
  OBVIOUS

\* Any step of a worker.
LEMMA ServiceKeeps ==
    ASSUME GuardInv, world' = world, NEW w \in Workers, ServiceNext(w)
    PROVE  GuardInv'
  <1>1. worker \in [Workers -> [call : CallIds \cup {NoCall}, reply : {"none", "allow", "block"}]]
    BY DEF GuardInv, GuardTypes
  <1>2. CASE TakeStream(w)
    <2> DEFINE r == Head(backlog)
    <2>1. backlog # <<>> /\ worker[w].call = NoCall /\ backlog' = Tail(backlog)
          /\ UNCHANGED <<prepared, judged, forwarded>>
      BY <1>2, Zenon DEF TakeStream
    <2>2. /\ r \in Requests /\ r = backlog[1] /\ 1 \in DOMAIN backlog
          /\ backlog' \in Seq(Requests)
          /\ \A i \in DOMAIN backlog' : i + 1 \in DOMAIN backlog /\ backlog'[i] = backlog[i + 1]
      <3>1. backlog \in Seq(Requests)
        BY DEF GuardInv, GuardTypes
      <3> QED
        BY <2>1, <3>1, TailOf
    <2>3. r.call \in CallIds /\ r.text \in Texts
      BY <2>2 DEF Requests
    <2>4. Follows(r.call) /\ SameText(r.call, r.text)
      BY <2>2 DEF GuardInv, BacklogInv
    <2>5. ASSUME InStep PROVE BacklogInv'
      <3> SUFFICES ASSUME NEW i \in DOMAIN backlog', NEW q, q = backlog'[i]
                   PROVE  Follows(q.call)' /\ SameText(q.call, q.text)'
        BY Zenon DEF BacklogInv
      <3>1. i + 1 \in DOMAIN backlog /\ q = backlog[i + 1]
        BY <2>2
      <3>2. q \in Requests
        BY <2>2
      <3>3. q.call \in CallIds /\ q.text \in Texts
        BY <3>2 DEF Requests
      <3>4. Follows(q.call) /\ SameText(q.call, q.text)
        BY <3>1, Zenon DEF GuardInv, BacklogInv
      <3> QED
        BY <2>5, <3>3, <3>4, Zenon DEF InStep
    <2> HIDE DEF r
    <2>6. CASE Len(requests) < QueueCapacity
      <3>1. /\ requests' = Append(requests, r) /\ guard' = guard
            /\ worker' = [worker EXCEPT ![w].call = r.call]
        BY <1>2, <2>6 DEF TakeStream, handle_stream, r
      <3>2. InStep
        BY <3>1 DEF InStep, Follows, SameText
      <3>3. BacklogInv'
        BY <2>5, <3>2
      <3>4. /\ requests' \in Seq(Requests)
            /\ \A i \in DOMAIN requests' :
                 requests'[i] = r \/ (i \in DOMAIN requests /\ requests'[i] = requests[i])
        <4>1. requests \in Seq(Requests)
          BY DEF GuardInv, GuardTypes
        <4> QED
          BY <2>2, <3>1, <4>1
      <3>5. RequestsInv'
        <4> SUFFICES ASSUME NEW i \in DOMAIN requests', NEW q, q = requests'[i]
                     PROVE  Follows(q.call) /\ SameText(q.call, q.text)
          BY <3>1 DEF RequestsInv, Follows, SameText
        <4> QED
          BY <2>4, <3>4, Zenon DEF GuardInv, RequestsInv
      <3>6. worker' \in [Workers -> [call : CallIds \cup {NoCall}, reply : {"none", "allow", "block"}]]
            /\ \A v \in Workers : /\ v # w => worker'[v] = worker[v]
                                  /\ v = w => worker'[v].call = r.call /\ worker'[v].reply = worker[w].reply
        BY <1>1, <2>3, <3>1
      <3>7. WorkerInv'
        <4> SUFFICES ASSUME NEW v \in Workers
                     PROVE  /\ worker'[v].call = NoCall => worker'[v].reply = "none"
                            /\ worker'[v].call # NoCall => Follows(worker'[v].call)
                            /\ worker'[v].reply = "allow" =>
                                 \E j \in judged : j.call = worker'[v].call /\ ~j.blocked
          BY <2>1, <3>1 DEF WorkerInv, Follows
        <4>1. CASE v = w
          <5>1. worker[w].reply = "none"
            BY <2>1 DEF GuardInv, WorkerInv
          <5> QED
            BY <2>4, <3>6, <4>1, <5>1, Zenon
        <4>2. CASE v # w
          BY <3>6, <4>2 DEF GuardInv, WorkerInv
        <4> QED
          BY <4>1, <4>2, Zenon
      <3>8. GuardTypes'
        BY <2>1, <2>2, <3>1, <3>4, <3>6 DEF GuardInv, GuardTypes
      <3>9. JudgedInv' /\ AnswerInv' /\ ForwardedIsJudged'
        BY <2>1, <3>1 DEF GuardInv, JudgedInv, AnswerInv, ForwardedIsJudged, Follows, SameText, CallOf
      <3> QED
        BY <3>3, <3>5, <3>7, <3>8, <3>9 DEF GuardInv
    <2>7. CASE ~(Len(requests) < QueueCapacity)
      <3>1. write_response(r.call, "error") /\ requests' = requests /\ worker' = worker
        BY <1>2, <2>7 DEF TakeStream, handle_stream, r
      <3>2. "error" \in Answers /\ "error" # "none" /\ "error" # "allow"
        BY DEF Answers
      <3>3. /\ guard' \in [Threads -> ThreadStates] /\ InStep
            /\ JudgedInv' /\ AnswerInv' /\ ForwardedIsJudged'
        BY <2>1, <2>3, <3>1, <3>2, ResponseKeeps, Zenon
      <3>4. RequestsInv' /\ WorkerInv'
        BY <2>1, <3>1, <3>3, InStepLoop
      <3>5. GuardTypes'
        BY <2>1, <2>2, <3>1, <3>3 DEF GuardInv, GuardTypes
      <3> QED
        BY <2>5, <3>3, <3>4, <3>5 DEF GuardInv
    <2> QED
      BY <2>6, <2>7
  <1>3. ASSUME worker[w].call # NoCall,
               NEW answer \in Answers, answer # "none",
               answer = "allow" => worker[w].reply = "allow",
               write_response(worker[w].call, answer),
               worker' = [worker EXCEPT ![w] = IdleWorker],
               UNCHANGED <<prepared, backlog, requests, judged, forwarded>>
        PROVE  GuardInv'
    <2>1. worker[w].call \in CallIds
      BY <1>1, <1>3
    <2>2. answer = "allow" => \E j \in judged : j.call = worker[w].call /\ ~j.blocked
      BY <1>3 DEF GuardInv, WorkerInv
    <2>3. /\ guard' \in [Threads -> ThreadStates] /\ InStep
          /\ JudgedInv' /\ AnswerInv' /\ ForwardedIsJudged'
      BY <1>3, <2>1, <2>2, ResponseKeeps, Zenon
    <2>4. RequestsInv'
      <3> SUFFICES ASSUME NEW i \in DOMAIN requests, NEW q, q = requests[i]
                   PROVE  Follows(q.call)' /\ SameText(q.call, q.text)'
        BY <1>3, Zenon DEF RequestsInv, Follows, SameText
      <3>1. q \in Requests
        BY DEF GuardInv, GuardTypes
      <3>2. q.call \in CallIds /\ q.text \in Texts
        BY <3>1 DEF Requests
      <3>3. Follows(q.call) /\ SameText(q.call, q.text)
        BY DEF GuardInv, RequestsInv
      <3> QED
        BY <2>3, <3>2, <3>3, Zenon DEF InStep
    <2>5. BacklogInv'
      BY <1>3, <2>3, InStepBacklog
    <2>6. worker' \in [Workers -> [call : CallIds \cup {NoCall}, reply : {"none", "allow", "block"}]]
          /\ \A v \in Workers : /\ v # w => worker'[v] = worker[v]
                                /\ v = w => worker'[v].call = NoCall /\ worker'[v].reply = "none"
      BY <1>1, <1>3 DEF IdleWorker
    <2>7. WorkerInv'
      <3> SUFFICES ASSUME NEW v \in Workers, NEW c, c = worker'[v].call
                   PROVE  /\ c = NoCall => worker'[v].reply = "none"
                          /\ c # NoCall => Follows(c)'
                          /\ worker'[v].reply = "allow" => \E j \in judged : j.call = c /\ ~j.blocked
        BY <1>3, Zenon DEF WorkerInv, Follows
      <3>1. CASE v = w
        BY <2>6, <3>1
      <3>2. CASE v # w
        <4>1. c = worker[v].call /\ worker'[v] = worker[v]
          BY <2>6, <3>2
        <4>2. c # NoCall => c \in CallIds /\ Follows(c)
          BY <1>1, <4>1 DEF GuardInv, WorkerInv
        <4>3. c # NoCall => Follows(c)'
          BY <2>3, <4>2 DEF InStep
        <4> QED
          BY <4>1, <4>3, Zenon DEF GuardInv, WorkerInv
      <3> QED
        BY <3>1, <3>2
    <2>8. GuardTypes'
      BY <1>3, <2>3, <2>6 DEF GuardInv, GuardTypes
    <2> QED
      BY <2>3, <2>4, <2>5, <2>7, <2>8 DEF GuardInv
  <1>4. CASE WorkerReplies(w)
    <2>1. worker[w].reply \in Answers
      BY <1>1 DEF Answers
    <2> QED
      BY <1>3, <1>4, <2>1 DEF WorkerReplies
  <1>5. CASE WorkerTimesOut(w)
    <2>1. "closed" \in Answers /\ "closed" # "none" /\ "closed" # "allow"
      BY DEF Answers
    <2> QED
      BY <1>3, <1>5, <2>1 DEF WorkerTimesOut
  <1> QED
    BY <1>2, <1>4, <1>5 DEF ServiceNext

\* The main loop answers the first request.
LEMMA ReplyKeeps ==
    ASSUME GuardInv, world' = world, NEW block \in BOOLEAN, requests # <<>>, reply(block)
    PROVE  GuardInv'
  <1> DEFINE r == Head(requests)
             new == [call |-> r.call, text |-> r.text, blocked |-> block]
  <1>1. /\ judged' = judged \cup {new} /\ requests' = Tail(requests)
        /\ worker' = [w \in Workers |->
                        IF worker[w].call = r.call
                        THEN [worker[w] EXCEPT !.reply = IF block THEN "block" ELSE "allow"]
                        ELSE worker[w]]
        /\ UNCHANGED <<guard, prepared, backlog, forwarded>>
    BY DEF reply
  <1>2. /\ r \in Requests /\ r = requests[1] /\ 1 \in DOMAIN requests
        /\ requests' \in Seq(Requests)
        /\ \A i \in DOMAIN requests' : i + 1 \in DOMAIN requests /\ requests'[i] = requests[i + 1]
    <2>1. requests \in Seq(Requests)
      BY DEF GuardInv, GuardTypes
    <2> QED
      BY <1>1, <2>1, TailOf
  <1>3. r.call \in CallIds /\ r.text \in Texts
    BY <1>2 DEF Requests
  <1>4. Follows(r.call) /\ SameText(r.call, r.text)
    BY <1>2 DEF GuardInv, RequestsInv
  <1> HIDE DEF r
  <1>5. new \in Verdicts /\ new.call = r.call /\ new.text = r.text /\ new.blocked = block
    BY <1>3 DEF Verdicts
  <1> HIDE DEF new
  <1>6. worker \in [Workers -> [call : CallIds \cup {NoCall}, reply : {"none", "allow", "block"}]]
    BY DEF GuardInv, GuardTypes
  <1>7. /\ worker' \in [Workers -> [call : CallIds \cup {NoCall}, reply : {"none", "allow", "block"}]]
        /\ \A w \in Workers :
             /\ worker'[w].call = worker[w].call
             /\ worker'[w].reply # worker[w].reply =>
                  worker[w].call = r.call /\ (worker'[w].reply = "allow" => ~block)
    BY <1>1, <1>6
  <1>8. r.call # NoCall
    BY <1>3 DEF CallIds, NoCall
  <1>9. GuardTypes'
    BY <1>1, <1>2, <1>5, <1>7 DEF GuardInv, GuardTypes
  <1>10. BacklogInv'
    BY <1>1 DEF GuardInv, BacklogInv, Follows, SameText
  <1>11. RequestsInv'
    <2> SUFFICES ASSUME NEW i \in DOMAIN requests', NEW q, q = requests'[i]
                 PROVE  Follows(q.call) /\ SameText(q.call, q.text)
      BY <1>1 DEF RequestsInv, Follows, SameText
    <2> QED
      BY <1>2 DEF GuardInv, RequestsInv
  <1>12. JudgedInv'
    BY <1>1, <1>4, <1>5 DEF GuardInv, JudgedInv, Follows, SameText
  <1>13. WorkerInv'
    <2> SUFFICES ASSUME NEW w \in Workers
                 PROVE  /\ worker'[w].call = NoCall => worker'[w].reply = "none"
                        /\ worker'[w].call # NoCall => Follows(worker'[w].call)
                        /\ worker'[w].reply = "allow" =>
                             \E j \in judged' : j.call = worker'[w].call /\ ~j.blocked
      BY <1>1 DEF WorkerInv, Follows
    <2>1. CASE worker'[w].reply = worker[w].reply
      BY <1>1, <1>7, <2>1 DEF GuardInv, WorkerInv
    <2>2. CASE worker'[w].reply # worker[w].reply
      BY <1>1, <1>4, <1>5, <1>7, <1>8, <2>2
    <2> QED
      BY <2>1, <2>2
  <1>14. AnswerInv' /\ ForwardedIsJudged'
    BY <1>1 DEF GuardInv, AnswerInv, ForwardedIsJudged, CallOf
  <1> QED
    BY <1>9, <1>10, <1>11, <1>12, <1>13, <1>14 DEF GuardInv

\* Nothing changes for the guard.
LEMMA GuardStutters ==
    ASSUME GuardInv, UNCHANGED <<world, guardVars>>
    PROVE  GuardInv'
  BY Zenon DEF GuardInv, guardVars, GuardTypes, BacklogInv, RequestsInv, JudgedInv, WorkerInv, AnswerInv,
         ForwardedIsJudged, Follows, SameText, CallOf

-----------------------------------------------------------------------------
(* The texts the guard remembers and those the database has. *)

\* What a thread's call is does not depend on what other threads do.
LEMMA CallStays ==
    ASSUME NEW t, world' = world, guard'[t].next = guard[t].next
    PROVE  Current(t)' = Current(t)
  BY Zenon DEF Current

\* Two threads at prepared statements are at different ones.
LEMMA OtherKey ==
    ASSUME GuardTypes, OwnKeys, NEW t \in Threads, NEW u \in Threads, t # u,
           guard[t].next <= Len(world.calls[t]), guard[u].next <= Len(world.calls[u]),
           Current(t).kind # "query", Current(u).kind # "query"
    PROVE  Current(t).key # Current(u).key
  <1>1. guard[t].next \in DOMAIN world.calls[t] /\ guard[u].next \in DOMAIN world.calls[u]
    BY DEF GuardTypes, ThreadStates
  <1> QED
    BY <1>1, Zenon DEF OwnKeys, Current

\* Who owns a key does not change.
LEMMA OwnKeysStay ==
    ASSUME OwnKeys, world' = world
    PROVE  OwnKeys'
  BY Zenon DEF OwnKeys

\* Only answers change.
LEMMA AnswersOnly ==
    ASSUME StatementInv, world' = world, UNCHANGED <<prepared, databaseVars>>,
           \A t \in Threads : /\ guard'[t].next = guard[t].next /\ guard'[t].pc = guard[t].pc
                              /\ guard'[t].text = guard[t].text
    PROVE  StatementInv'
  <1>1. \A t \in Threads : Current(t)' = Current(t)
    BY CallStays
  <1>2. \A k : Prepared(k)' = Prepared(k)
    BY Zenon DEF Prepared, databaseVars
  <1>3. \A t \in Threads : /\ Runs(t)' = Runs(t) /\ (Astray(t)' <=> Astray(t))
                           /\ Preparing(t)' <=> Preparing(t)
    BY <1>1, <1>2, Zenon DEF Runs, Astray, Preparing, databaseVars
  <1>4. OwnKeys'
    BY OwnKeysStay, Zenon DEF StatementInv
  <1>5. AskInv'
    <2> SUFFICES ASSUME NEW u \in Threads
                 PROVE  /\ guard[u].pc # "idle" => guard'[u].next <= Len(world.calls[u])
                        /\ guard[u].pc = "asking" =>
                             /\ Current(u)'.kind \in {"query", "execute"}
                             /\ Astray(u)' \/ guard'[u].text = Runs(u)'
      BY Zenon DEF AskInv
    <2>1. /\ guard[u].pc # "idle" => guard[u].next <= Len(world.calls[u])
          /\ guard[u].pc = "asking" => /\ Current(u).kind \in {"query", "execute"}
                                       /\ Astray(u) \/ guard[u].text = Runs(u)
      BY Zenon DEF StatementInv, AskInv
    <2> QED
      BY <1>1, <1>3, <2>1
  <1>6. CacheInv'
    BY <1>1, <1>2, <1>3, Zenon DEF StatementInv, CacheInv, databaseVars
  <1>7. PrepareInv'
    BY <1>1, <1>3, Zenon DEF StatementInv, PrepareInv
  <1> QED
    BY <1>4, <1>5, <1>6, <1>7 DEF StatementInv

\* A thread moves and prepares nothing.
LEMMA AsksOnly ==
    ASSUME GuardTypes, StatementInv, world' = world, UNCHANGED <<prepared, databaseVars>>,
           NEW t \in Threads, NEW g, guard' = [guard EXCEPT ![t] = g], ~Preparing(t),
           g.pc # "idle" =>
             /\ g.next = guard[t].next /\ guard[t].next <= Len(world.calls[t])
             /\ Current(t).kind \in {"query", "execute"}
             /\ g.pc = "asking" => Astray(t) \/ g.text = Runs(t)
    PROVE  StatementInv'
  <1>1. \A u \in Threads : guard'[u] = IF u = t THEN g ELSE guard[u]
    BY DEF GuardTypes
  <1>2. \A u \in Threads : u # t => Current(u)' = Current(u)
    BY <1>1, CallStays
  <1>3. \A k : Prepared(k)' = Prepared(k)
    BY Zenon DEF Prepared, databaseVars
  <1>4. \A u \in Threads : u # t => /\ Runs(u)' = Runs(u) /\ (Astray(u)' <=> Astray(u))
                                    /\ Preparing(u)' <=> Preparing(u)
    BY <1>1, <1>2, <1>3, Zenon DEF Runs, Astray, Preparing, databaseVars
  <1>5. g.pc # "idle" => Current(t)' = Current(t)
    BY <1>1, CallStays
  <1>6. g.pc # "idle" => Runs(t)' = Runs(t) /\ (Astray(t)' <=> Astray(t))
    BY <1>3, <1>5, Zenon DEF Runs, Astray, databaseVars
  <1>7. ~Preparing(t)'
    BY <1>1, <1>5 DEF Preparing
  <1>8. OwnKeys'
    BY OwnKeysStay, Zenon DEF StatementInv
  <1>9. AskInv'
    <2> SUFFICES ASSUME NEW u \in Threads
                 PROVE  /\ guard'[u].pc # "idle" => guard'[u].next <= Len(world.calls[u])
                        /\ guard'[u].pc = "asking" =>
                             /\ Current(u)'.kind \in {"query", "execute"}
                             /\ Astray(u)' \/ guard'[u].text = Runs(u)'
      BY Zenon DEF AskInv
    <2>1. CASE u = t
      <3>1. guard'[u] = g
        BY <1>1, <2>1
      <3> QED
        BY <1>5, <1>6, <2>1, <3>1
    <2>2. CASE u # t
      <3>1. guard'[u] = guard[u]
        BY <1>1, <2>2
      <3> QED
        <4>1. /\ guard[u].pc # "idle" => guard[u].next <= Len(world.calls[u])
              /\ guard[u].pc = "asking" => /\ Current(u).kind \in {"query", "execute"}
                                           /\ Astray(u) \/ guard[u].text = Runs(u)
          BY Zenon DEF StatementInv, AskInv
        <4> QED
          BY <1>2, <1>4, <2>2, <3>1, <4>1
    <2> QED
      BY <2>1, <2>2
  <1>10. CacheInv'
    <2> SUFFICES ASSUME NEW k \in DOMAIN prepared
                 PROVE  \/ k \in astray
                        \/ Prepared(k) = prepared[k]
                        \/ \E u \in Threads : /\ Preparing(u)' /\ Current(u)'.key = k
                                              /\ Current(u)'.text.fits
      BY <1>3, Zenon DEF CacheInv, databaseVars
    <2>1. ASSUME NEW u \in Threads, Preparing(u), Current(u).key = k, Current(u).text.fits
          PROVE  Preparing(u)' /\ Current(u)'.key = k /\ Current(u)'.text.fits
      <3>1. u # t
        BY <2>1
      <3> QED
        BY <1>2, <1>4, <2>1, <3>1, Zenon
    <2> QED
      BY <2>1, Zenon DEF StatementInv, CacheInv
  <1>11. PrepareInv'
    <2> SUFFICES ASSUME NEW u \in Threads, Preparing(u)', Current(u)'.text.fits,
                        Current(u)'.key \in DOMAIN prepared
                 PROVE  prepared[Current(u)'.key] = Current(u)'.text
      BY Zenon DEF PrepareInv
    <2>1. u # t
      BY <1>7
    <2> QED
      BY <1>2, <1>4, <2>1, Zenon DEF StatementInv, PrepareInv
  <1> QED
    BY <1>8, <1>9, <1>10, <1>11 DEF StatementInv

\* A thread that prepares text x under key k leaves the other keys alone.
OthersKept(k) ==
  /\ \A l \in DOMAIN prepared' : l # k => l \in DOMAIN prepared /\ prepared'[l] = prepared[l]
  /\ \A l : l # k => (l \in astray' <=> l \in astray) /\ Prepared(l)' = Prepared(l)
OwnKept(t, g, k, x) ==
  /\ g.pc # "idle" =>
       /\ g.pc = "forwarding" /\ g.next = guard[t].next /\ Current(t).kind = "pg_prepare"
       /\ x.fits /\ k \in DOMAIN prepared' => prepared'[k] = x
  /\ k \in DOMAIN prepared' =>
       k \in astray' \/ Prepared(k)' = prepared'[k] \/ (g.pc # "idle" /\ x.fits)

\* A thread prepares its statement, or the database takes or refuses it.
LEMMA PreparesOwn ==
    ASSUME GuardTypes, StatementInv, world' = world,
           NEW t \in Threads, NEW g, guard' = [guard EXCEPT ![t] = g],
           guard[t].next <= Len(world.calls[t]), Current(t).kind # "query",
           NEW k, k = Current(t).key, NEW x, x = Current(t).text,
           OthersKept(k), OwnKept(t, g, k, x)
    PROVE  StatementInv'
  <1>a. /\ \A l \in DOMAIN prepared' : l # k => l \in DOMAIN prepared /\ prepared'[l] = prepared[l]
        /\ \A l : l # k => (l \in astray' <=> l \in astray) /\ Prepared(l)' = Prepared(l)
    BY Zenon DEF OthersKept
  <1>b. g.pc # "idle" =>
          /\ g.pc = "forwarding" /\ g.next = guard[t].next /\ Current(t).kind = "pg_prepare"
          /\ x.fits /\ k \in DOMAIN prepared' => prepared'[k] = x
    BY Zenon DEF OwnKept
  <1>c. k \in DOMAIN prepared' =>
          k \in astray' \/ Prepared(k)' = prepared'[k] \/ (g.pc # "idle" /\ x.fits)
    BY Zenon DEF OwnKept
  <1>1. \A u \in Threads : guard'[u] = IF u = t THEN g ELSE guard[u]
    BY DEF GuardTypes
  <1>2. \A u \in Threads : u # t => Current(u)' = Current(u)
    BY <1>1, CallStays
  <1>3. g.pc # "idle" => Current(t)' = Current(t) /\ Preparing(t)'
    <2>1. g.pc # "idle" => Current(t)' = Current(t)
      BY <1>1, <1>b, CallStays
    <2> QED
      BY <1>1, <1>b, <2>1 DEF Preparing
  <1>4. ASSUME NEW u \in Threads, u # t, guard[u].pc # "idle", Current(u).kind # "query"
        PROVE  Current(u).key # k
    <2>1. guard[u].next <= Len(world.calls[u])
      BY <1>4, Zenon DEF StatementInv, AskInv
    <2> QED
      BY <1>4, <2>1, OtherKey, Zenon DEF StatementInv
  <1>5. \A u \in Threads : u # t => (Preparing(u)' <=> Preparing(u))
    BY <1>1, <1>2, Zenon DEF Preparing
  <1>6. OwnKeys'
    BY OwnKeysStay, Zenon DEF StatementInv
  <1>7. AskInv'
    <2> SUFFICES ASSUME NEW u \in Threads
                 PROVE  /\ guard'[u].pc # "idle" => guard'[u].next <= Len(world.calls[u])
                        /\ guard'[u].pc = "asking" =>
                             /\ Current(u)'.kind \in {"query", "execute"}
                             /\ Astray(u)' \/ guard'[u].text = Runs(u)'
      BY Zenon DEF AskInv
    <2>1. CASE u = t
      <3>1. guard'[u] = g
        BY <1>1, <2>1
      <3> QED
        BY <1>b, <2>1, <3>1
    <2>2. CASE u # t
      <3>1. guard'[u] = guard[u] /\ Current(u)' = Current(u)
        BY <1>1, <1>2, <2>2
      <3>2. guard[u].pc # "idle" => guard[u].next <= Len(world.calls[u])
        BY Zenon DEF StatementInv, AskInv
      <3>3. ASSUME guard[u].pc = "asking"
            PROVE  /\ Current(u).kind \in {"query", "execute"}
                   /\ Astray(u)' \/ guard[u].text = Runs(u)'
        <4>1. /\ Current(u).kind \in {"query", "execute"}
              /\ Astray(u) \/ guard[u].text = Runs(u)
          BY <3>3, Zenon DEF StatementInv, AskInv
        <4>2. CASE Current(u).kind = "query"
          BY <3>1, <4>1, <4>2 DEF Astray, Runs
        <4>3. CASE Current(u).kind = "execute"
          <5>1. Current(u).key # k
            BY <1>4, <2>2, <3>3, <4>3
          <5>2. Astray(u)' <=> Astray(u)
            BY <1>a, <3>1, <5>1, Zenon DEF Astray
          <5>3. Runs(u)' = Runs(u)
            BY <1>a, <3>1, <4>3, <5>1, Zenon DEF Runs
          <5> QED
            BY <4>1, <5>2, <5>3
        <4> QED
          BY <4>1, <4>2, <4>3
      <3> QED
        BY <3>1, <3>2, <3>3, Zenon
    <2> QED
      BY <2>1, <2>2
  <1>8. CacheInv'
    <2> SUFFICES ASSUME NEW l \in DOMAIN prepared'
                 PROVE  \/ l \in astray'
                        \/ Prepared(l)' = prepared'[l]
                        \/ \E u \in Threads : /\ Preparing(u)' /\ Current(u)'.key = l
                                              /\ Current(u)'.text.fits
      BY Zenon DEF CacheInv
    <2>1. CASE l = k
      BY <1>3, <1>c, <2>1, Zenon
    <2>2. CASE l # k
      <3>1. ASSUME NEW u \in Threads, Preparing(u), Current(u).key = l, Current(u).text.fits
            PROVE  Preparing(u)' /\ Current(u)'.key = l /\ Current(u)'.text.fits
        <4>1. u # t
          BY <2>2, <3>1
        <4> QED
          BY <1>2, <1>5, <3>1, <4>1, Zenon
      <3>2. \/ l \in astray
            \/ Prepared(l) = prepared[l]
            \/ \E u \in Threads : Preparing(u) /\ Current(u).key = l /\ Current(u).text.fits
        BY <1>a, <2>2, Zenon DEF StatementInv, CacheInv
      <3> QED
        BY <1>a, <2>2, <3>1, <3>2, Zenon
    <2> QED
      BY <2>1, <2>2
  <1>9. PrepareInv'
    <2> SUFFICES ASSUME NEW u \in Threads, Preparing(u)', Current(u)'.text.fits,
                        Current(u)'.key \in DOMAIN prepared'
                 PROVE  prepared'[Current(u)'.key] = Current(u)'.text
      BY Zenon DEF PrepareInv
    <2>1. CASE u = t
      <3>1. guard'[t].pc = "forwarding"
        BY <2>1, Zenon DEF Preparing
      <3>2. g.pc # "idle"
        BY <1>1, <3>1
      <3> QED
        BY <1>3, <1>b, <2>1, <3>2
    <2>2. CASE u # t
      <3>1. Preparing(u) /\ Current(u)' = Current(u)
        BY <1>2, <1>5, <2>2
      <3>2. Current(u).key # k
        BY <1>4, <2>2, <3>1 DEF Preparing
      <3> QED
        BY <1>a, <3>1, <3>2, Zenon DEF StatementInv, PrepareInv
    <2> QED
      BY <2>1, <2>2
  <1> QED
    BY <1>6, <1>7, <1>8, <1>9 DEF StatementInv

\* A text is remembered for a key, or nothing changes.
LEMMA RememberOwn ==
    ASSUME NEW k, NEW x, Remember(k, x)
    PROVE  /\ \A l \in DOMAIN prepared' : l # k => l \in DOMAIN prepared /\ prepared'[l] = prepared[l]
           /\ x.fits /\ k \in DOMAIN prepared' => prepared'[k] = x
           /\ ~x.fits => prepared' = prepared
  <1> DEFINE kept == IF Cardinality(DOMAIN prepared) >= MaxPrepared THEN {} ELSE DOMAIN prepared
  <1>1. CASE x.fits
    <2>1. prepared' = [l \in kept \cup {k} |-> IF l = k THEN x ELSE prepared[l]]
      BY <1>1 DEF Remember
    <2>2. kept \subseteq DOMAIN prepared
      OBVIOUS
    <2> HIDE DEF kept
    <2> QED
      BY <1>1, <2>1, <2>2
  <1>2. CASE ~x.fits
    <2>1. prepared' = prepared
      BY <1>2 DEF Remember
    <2> QED
      BY <1>2, <2>1
  <1> QED
    BY <1>1, <1>2

\* The database takes the text of a key.
LEMMA TakesOwn ==
    ASSUME NEW k, NEW x, Takes(k, x)
    PROVE  /\ \A l : l # k => (l \in astray' <=> l \in astray) /\ Prepared(l)' = Prepared(l)
           /\ Prepared(k)' = x /\ (~x.fits => k \in astray')
  <1>1. \A l : l # k => (l \in astray' <=> l \in astray)
    BY DEF Takes
  <1>2. ~x.fits => k \in astray'
    BY DEF Takes
  <1>3. \A l : l # k => Prepared(l)' = Prepared(l)
    BY DEF Takes, Prepared
  <1>4. Prepared(k)' = x
    BY DEF Takes, Prepared
  <1> QED
    BY <1>1, <1>2, <1>3, <1>4

\* Any step of a thread.
LEMMA StatementNextKeeps ==
    ASSUME GuardInv, StatementInv, world' = world, NEW t \in Threads, NEW up, GuardNext(t, up)
    PROVE  StatementInv'
  <1>1. guard[t] \in ThreadStates /\ DOMAIN guard = Threads /\ GuardTypes
    BY DEF GuardInv, GuardTypes
  <1>2. guard[t].pc # "idle" => guard[t].next <= Len(world.calls[t])
    BY Zenon DEF StatementInv, AskInv
  \* A call is concluded.
  <1>3. ASSUME NEW answer, Conclude(t, answer), UNCHANGED <<prepared, databaseVars>>,
               guard[t].next <= Len(world.calls[t]), Current(t).kind \in {"query", "execute"}
        PROVE  StatementInv'
    <2>1. PICK g : guard' = [guard EXCEPT ![t] = g] /\ (g.pc = "idle" \/ (g.pc = "forwarding" /\ g.next = guard[t].next))
      <3>1. CASE policy_decision(answer) = "block"
        <4> DEFINE g == [next |-> guard[t].next + 1, pc |-> "idle", text |-> NoText, answer |-> "none"]
        <4>1. guard' = [guard EXCEPT ![t] = g] /\ g.pc = "idle"
          BY <1>3, <3>1 DEF Conclude, Returned
        <4> QED
          BY <4>1
      <3>2. CASE policy_decision(answer) # "block"
        <4> DEFINE g == [guard[t] EXCEPT !.pc = "forwarding", !.answer = "none"]
        <4>1. guard' = [guard EXCEPT ![t].pc = "forwarding", ![t].answer = "none"]
          BY <1>3, <3>2, Zenon DEF Conclude
        <4>2. guard' = [guard EXCEPT ![t] = g]
          BY <1>1, <4>1, Zenon
        <4>3. g.pc = "forwarding" /\ g.next = guard[t].next
          BY <1>1 DEF ThreadStates
        <4> QED
          BY <4>2, <4>3
      <3> QED
        BY <3>1, <3>2
    <2>2. ~Preparing(t)
      BY <1>3 DEF Preparing
    <2> QED
      BY <1>1, <1>3, <2>1, <2>2, AsksOnly
  \* A thread asks about a text, or concludes without asking.
  <1>4. ASSUME NEW x, request_verdict(t, x, up), UNCHANGED <<prepared, databaseVars>>,
               guard[t].pc = "idle",
               guard[t].next <= Len(world.calls[t]), Current(t).kind \in {"query", "execute"},
               x.fits => Astray(t) \/ x = Runs(t)
        PROVE  StatementInv'
    <2>1. CASE ~(x.fits /\ up)
      <3>1. Conclude(t, "error")
        BY <1>4, <2>1, Zenon DEF request_verdict
      <3> QED
        BY <1>3, <1>4, <3>1
    <2>2. CASE x.fits /\ up
      <3> DEFINE g == [guard[t] EXCEPT !.pc = "asking", !.text = x]
      <3>1. guard' = [guard EXCEPT ![t].pc = "asking", ![t].text = x]
        BY <1>4, <2>2, Zenon DEF request_verdict
      <3>2. guard' = [guard EXCEPT ![t] = g]
        BY <1>1, <3>1, Zenon
      <3>3. g.pc = "asking" /\ g.next = guard[t].next /\ g.text = x
        BY <1>1 DEF ThreadStates
      <3> HIDE DEF g
      <3>4. ~Preparing(t)
        BY <1>4 DEF Preparing
      <3> QED
        BY <1>1, <1>4, <2>2, <3>2, <3>3, <3>4, AsksOnly
    <2> QED
      BY <2>1, <2>2
  <1>5. CASE Query(t, up)
    <2>1. Current(t).text = Runs(t)
      BY <1>5 DEF Query, Runs
    <2> QED
      BY <1>4, <1>5, <2>1 DEF Query
  <1>6. CASE Execute(t, up)
    <2> DEFINE k == Current(t).key
    <2>1. ASSUME Lookup(k).fits PROVE Astray(t) \/ Lookup(k) = Runs(t)
      <3>1. k \in DOMAIN prepared /\ Lookup(k) = prepared[k]
        BY <2>1 DEF Lookup, NoText
      <3>2. ASSUME NEW u \in Threads, Preparing(u) PROVE Current(u).key # k
        <4>1. u # t
          BY <1>6, <3>2 DEF Execute, Preparing
        <4>2. guard[u].next <= Len(world.calls[u]) /\ Current(u).kind # "query"
          BY <3>2 DEF StatementInv, AskInv, Preparing
        <4>3. guard[t].next <= Len(world.calls[t]) /\ Current(t).kind # "query"
          BY <1>6 DEF Execute
        <4> QED
          BY <1>1, <4>1, <4>2, <4>3, OtherKey DEF StatementInv
      <3>3. k \in astray \/ Prepared(k) = prepared[k]
        BY <3>1, <3>2, Zenon DEF StatementInv, CacheInv
      <3> QED
        BY <1>6, <3>1, <3>3, Zenon DEF Execute, Astray, Runs
    <2> QED
      BY <1>4, <1>6, <2>1 DEF Execute
  <1>7. CASE PgPrepare(t)
    <2>k. PICK k : k = Current(t).key
      OBVIOUS
    <2>x. PICK x : x = Current(t).text
      OBVIOUS
    <2> DEFINE g == [guard[t] EXCEPT !.pc = "forwarding"]
    <2>1. guard' = [guard EXCEPT ![t] = g]
      BY <1>1, <1>7 DEF PgPrepare
    <2>2. g.pc = "forwarding" /\ g.next = guard[t].next
      BY <1>1 DEF ThreadStates
    <2>3. /\ guard[t].pc = "idle" /\ guard[t].next <= Len(world.calls[t])
          /\ Current(t).kind = "pg_prepare" /\ Remember(k, x) /\ UNCHANGED databaseVars
      BY <1>7, <2>k, <2>x DEF PgPrepare
    <2>4. \A l : (l \in astray' <=> l \in astray) /\ Prepared(l)' = Prepared(l)
      BY <2>3, Zenon DEF Prepared, databaseVars
    <2>5. ASSUME k \in DOMAIN prepared', ~x.fits PROVE k \in astray' \/ Prepared(k)' = prepared'[k]
      <3>1. prepared' = prepared
        BY <2>3, <2>5, RememberOwn
      <3>2. ASSUME NEW u \in Threads, Preparing(u) PROVE Current(u).key # k
        <4>1. u # t
          BY <2>3, <3>2 DEF Preparing
        <4>2. guard[u].next <= Len(world.calls[u]) /\ Current(u).kind # "query"
          BY <3>2 DEF StatementInv, AskInv, Preparing
        <4> QED
          BY <1>1, <2>k, <2>3, <4>1, <4>2, OtherKey DEF StatementInv
      <3> QED
        BY <2>4, <2>5, <3>1, <3>2, Zenon DEF StatementInv, CacheInv
    <2>6. /\ \A l \in DOMAIN prepared' : l # k => l \in DOMAIN prepared /\ prepared'[l] = prepared[l]
          /\ x.fits /\ k \in DOMAIN prepared' => prepared'[k] = x
      BY <2>3, RememberOwn
    <2> HIDE DEF g
    <2>7. k \in DOMAIN prepared' =>
            k \in astray' \/ Prepared(k)' = prepared'[k] \/ (g.pc # "idle" /\ x.fits)
      BY <2>2, <2>5
    <2>8. g.pc # "idle" =>
            /\ g.pc = "forwarding" /\ g.next = guard[t].next /\ Current(t).kind = "pg_prepare"
            /\ x.fits /\ k \in DOMAIN prepared' => prepared'[k] = x
      BY <2>2, <2>3, <2>6, Zenon
    <2>9. Current(t).kind # "query"
      BY <2>3
    <2>10. OthersKept(k) /\ OwnKept(t, g, k, x)
      BY <2>4, <2>6, <2>7, <2>8, Zenon DEF OthersKept, OwnKept
    <2> QED
      BY <1>1, <2>k, <2>x, <2>1, <2>3, <2>9, <2>10, PreparesOwn
  <1>8. CASE PgPrepared(t)
    <2>k. PICK k : k = Current(t).key
      OBVIOUS
    <2>x. PICK x : x = Current(t).text
      OBVIOUS
    <2> DEFINE g == [next |-> guard[t].next + 1, pc |-> "idle", text |-> NoText, answer |-> "none"]
    <2>1. guard' = [guard EXCEPT ![t] = g] /\ g.pc = "idle"
      BY <1>8 DEF PgPrepared, Returned
    <2>2. /\ Preparing(t) /\ guard[t].pc = "forwarding" /\ Current(t).kind = "pg_prepare"
          /\ prepared' = prepared
      BY <1>8 DEF PgPrepared, Preparing
    <2>3. x.fits /\ k \in DOMAIN prepared => prepared[k] = x
      BY <2>k, <2>x, <2>2, Zenon DEF StatementInv, PrepareInv
    <2> HIDE DEF g
    <2>4. CASE Takes(k, x)
      <3>1. /\ \A l : l # k => (l \in astray' <=> l \in astray) /\ Prepared(l)' = Prepared(l)
            /\ Prepared(k)' = x /\ (~x.fits => k \in astray')
        BY <2>4, TakesOwn, Zenon
      <3> QED
        <4>1. OthersKept(k)
          BY <2>2, <3>1, Zenon DEF OthersKept
        <4>2. OwnKept(t, g, k, x)
          BY <2>1, <2>2, <2>3, <3>1 DEF OwnKept
        <4> QED
          BY <1>1, <1>2, <2>k, <2>x, <2>1, <2>2, <4>1, <4>2, PreparesOwn
    <2>5. CASE RefusesRemembered(k, x)
      <3>1. \A l : Prepared(l)' = Prepared(l)
        BY <2>5 DEF RefusesRemembered, Prepared
      <3>2. \A l : l # k => (l \in astray' <=> l \in astray)
        BY <2>5 DEF RefusesRemembered
      <3>3. ASSUME k \in DOMAIN prepared PROVE k \in astray' \/ Prepared(k)' = prepared[k]
        <4>1. CASE x.fits
          BY <2>5, <4>1 DEF RefusesRemembered
        <4>2. CASE ~x.fits
          <5>1. astray' = astray
            BY <2>5, <4>2 DEF RefusesRemembered
          <5>2. ASSUME NEW u \in Threads, Preparing(u), Current(u).text.fits PROVE Current(u).key # k
            <6>1. u # t
              BY <2>x, <4>2, <5>2
            <6>2. guard[u].next <= Len(world.calls[u]) /\ Current(u).kind # "query"
              BY <5>2 DEF StatementInv, AskInv, Preparing
            <6> QED
              BY <1>1, <1>2, <2>k, <2>2, <6>1, <6>2, OtherKey DEF StatementInv
          <5> QED
            BY <3>1, <3>3, <5>1, <5>2, Zenon DEF StatementInv, CacheInv
        <4> QED
          BY <4>1, <4>2
      <3> QED
        <4>1. OthersKept(k) /\ OwnKept(t, g, k, x)
          BY <2>1, <2>2, <3>1, <3>2, <3>3, Zenon DEF OthersKept, OwnKept
        <4> QED
          BY <1>1, <1>2, <2>k, <2>x, <2>1, <2>2, <4>1, PreparesOwn
    <2> QED
      BY <1>8, <2>k, <2>x, <2>4, <2>5 DEF PgPrepared
  <1>9. CASE MysqlPrepare(t)
    <2>k. PICK k : k = Current(t).key
      OBVIOUS
    <2>x. PICK x : x = Current(t).text
      OBVIOUS
    <2> DEFINE g == [guard[t] EXCEPT !.next = @ + 1]
    <2>1. guard' = [guard EXCEPT ![t] = g]
      BY <1>1, <1>9 DEF MysqlPrepare
    <2>2. /\ guard[t].pc = "idle" /\ guard[t].next <= Len(world.calls[t])
          /\ Current(t).kind = "mysql_prepare"
      BY <1>9 DEF MysqlPrepare
    <2>3. g.pc = "idle"
      BY <1>1, <2>2 DEF ThreadStates
    <2> HIDE DEF g
    <2>4. CASE Takes(k, x) /\ Remember(k, x)
      <3>1. /\ \A l \in DOMAIN prepared' : l # k => l \in DOMAIN prepared /\ prepared'[l] = prepared[l]
            /\ x.fits /\ k \in DOMAIN prepared' => prepared'[k] = x
        BY <2>4, RememberOwn
      <3>2. /\ \A l : l # k => (l \in astray' <=> l \in astray) /\ Prepared(l)' = Prepared(l)
            /\ Prepared(k)' = x /\ (~x.fits => k \in astray')
        BY <2>4, TakesOwn, Zenon
      <3> QED
        <4>1. k \in DOMAIN prepared' => k \in astray' \/ Prepared(k)' = prepared'[k]
          BY <3>1, <3>2
        <4>2. Current(t).kind # "query"
          BY <2>2
        <4>3. OthersKept(k) /\ OwnKept(t, g, k, x)
          BY <2>3, <3>1, <3>2, <4>1, Zenon DEF OthersKept, OwnKept
        <4> QED
          BY <1>1, <2>k, <2>x, <2>1, <2>2, <4>2, <4>3, PreparesOwn
    <2>5. CASE UNCHANGED <<prepared, databaseVars>>
      <3>1. ~Preparing(t)
        BY <2>2 DEF Preparing
      <3> QED
        BY <1>1, <2>1, <2>3, <2>5, <3>1, AsksOnly
    <2> QED
      BY <1>9, <2>k, <2>x, <2>4, <2>5 DEF MysqlPrepare
  <1>10. CASE Answered(t) \/ ReadFails(t, up)
    <2>1. guard[t].pc = "asking" /\ UNCHANGED <<prepared, databaseVars>>
      BY <1>10 DEF Answered, ReadFails
    <2>2. Current(t).kind \in {"query", "execute"}
      BY <2>1, Zenon DEF StatementInv, AskInv
    <2>3. PICK answer : Conclude(t, answer)
      BY <1>10, Zenon DEF Answered, ReadFails
    <2> QED
      BY <1>2, <1>3, <2>1, <2>2, <2>3
  <1>11. CASE Return(t)
    <2> DEFINE g == [next |-> guard[t].next + 1, pc |-> "idle", text |-> NoText, answer |-> "none"]
    <2>1. guard' = [guard EXCEPT ![t] = g] /\ g.pc = "idle"
      BY <1>11 DEF Return, Returned
    <2>2. ~Preparing(t) /\ UNCHANGED <<prepared, databaseVars>>
      BY <1>11 DEF Return, Preparing
    <2> HIDE DEF g
    <2> QED
      BY <1>1, <2>1, <2>2, AsksOnly
  <1> QED
    BY <1>5, <1>6, <1>7, <1>8, <1>9, <1>10, <1>11 DEF GuardNext

\* A worker changes no more than the answer of a thread.
LEMMA ServiceKeepsStatements ==
    ASSUME GuardInv, StatementInv, world' = world, NEW w \in Workers, ServiceNext(w)
    PROVE  StatementInv'
  <1>1. guard \in [Threads -> ThreadStates]
    BY DEF GuardInv, GuardTypes
  <1>2. guard' = guard \/ \E c, answer : write_response(c, answer)
    BY Zenon DEF ServiceNext, TakeStream, handle_stream, WorkerReplies, WorkerTimesOut
  <1>3. ASSUME NEW c, NEW answer, write_response(c, answer), NEW t \in Threads
        PROVE  /\ guard'[t].next = guard[t].next /\ guard'[t].pc = guard[t].pc
               /\ guard'[t].text = guard[t].text
    <2> DEFINE s == c[1]
    <2>1. guard' = guard \/ guard' = [guard EXCEPT ![s].answer = answer]
      BY <1>3, Zenon DEF write_response
    <2> HIDE DEF s
    <2>2. guard[t] \in ThreadStates
      BY <1>1
    <2>3. CASE guard' = [guard EXCEPT ![s].answer = answer] /\ s = t
      <3>1. guard'[t] = [guard[t] EXCEPT !.answer = answer]
        BY <1>1, <2>3
      <3> QED
        BY <2>2, <3>1 DEF ThreadStates
    <2>4. CASE guard' = [guard EXCEPT ![s].answer = answer] /\ s # t
      <3>1. guard'[t] = guard[t]
        BY <1>1, <2>4
      <3> QED
        BY <3>1
    <2> QED
      BY <2>1, <2>3, <2>4
  <1>4. UNCHANGED <<prepared, databaseVars>>
    BY Zenon DEF ServiceNext, TakeStream, WorkerReplies, WorkerTimesOut
  <1>5. \A t \in Threads : /\ guard'[t].next = guard[t].next /\ guard'[t].pc = guard[t].pc
                           /\ guard'[t].text = guard[t].text
    BY <1>2, <1>3, Zenon
  <1> QED
    BY <1>4, <1>5, AnswersOnly

\* The agent changes nothing about statements: it answers, or leaves the guard alone.
LEMMA StatementsStay ==
    ASSUME StatementInv, UNCHANGED <<world, guard, prepared, databaseVars>>
    PROVE  StatementInv'
  BY AnswersOnly

\* Nothing changes for the guard.
LEMMA StatementStutters ==
    ASSUME StatementInv, UNCHANGED <<world, guardVars>>
    PROVE  StatementInv'
  <1>1. UNCHANGED <<world, guard, prepared, databaseVars>>
    BY Zenon DEF guardVars
  <1> QED
    BY <1>1, StatementsStay
=============================================================================
