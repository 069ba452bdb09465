------------------------ MODULE TelemetrySenderProofs ------------------------
(***************************************************************************)
(* The sender for any number of producers, payloads, failures and          *)
(* restarts: the server stores what was emitted, in order, and again only  *)
(* what its window has forgotten.                                          *)
(***************************************************************************)
EXTENDS TelemetrySender, SequenceTheorems, TLAPS

\* How many records have been acknowledged: the spool is what was emitted
\* without that prefix.
AckedCount == Len(emitted) - Len(queue)

Tables ==
    /\ queue \in Seq(Records) /\ emitted \in Seq(Records) /\ stored \in Seq(Payloads)
    /\ remembered \in Seq(Ids) /\ now \in Nat /\ sequence \in [Sources -> Nat]

\* Records leave the spool at the front only.
SpoolIsRest ==
    /\ Len(queue) <= Len(emitted)
    /\ \A i \in 1 .. Len(queue) : queue[i] = emitted[AckedCount + i]

\* The worker posts, and acknowledges, the head of the spool.
PostsHead == pc \in {"posting", "acking"} => queue # <<>>

\* A request that is still on its way is at most as young as that head.
LateIsOld ==
    \A r \in late : \E i \in 1 .. Len(emitted) : i <= AckedCount + 1 /\ r = emitted[i]

\* A payload stands for the place it was emitted at.
Numbered == \A i \in 1 .. Len(emitted) : emitted[i].payload = i

\* The server has been posted nothing younger than the head of the spool.
StoredOld == \A k \in 1 .. Len(stored) : stored[k] \in 1 .. Len(emitted) /\ stored[k] <= AckedCount + 1

\* The server's window holds the ids of the last payloads it stored.
Window ==
    /\ Len(remembered) <= Len(stored)
    /\ Len(remembered) <= DedupeMax
    /\ Len(remembered) = Len(stored) \/ Len(remembered) = DedupeMax
    /\ \A k \in 1 .. Len(remembered) :
          remembered[k] = emitted[stored[(Len(stored) - Len(remembered)) + k]].id

\* A record the spool no longer holds is one the server stored, or one whose
\* id an older stored one has.
LeavesOnlyAccepted == \A i \in 1 .. AckedCount : Landed(i)

\* The worker acknowledges the head after the server accepted it.
AcksAccepted == pc = "acking" => Landed(AckedCount + 1)

IInv ==
    /\ Tables /\ SpoolIsRest /\ PostsHead /\ LateIsOld /\ Numbered /\ StoredOld /\ Window
    /\ LeavesOnlyAccepted /\ AcksAccepted /\ StoredInOrder
-----------------------------------------------------------------------------

\* An empty spool and a server that has been sent nothing.
LEMMA InitIInv == Init => IInv
  <1> SUFFICES ASSUME Init PROVE IInv
    OBVIOUS
  <1>1. /\ queue = <<>> /\ emitted = <<>> /\ stored = <<>> /\ late = {} /\ remembered = <<>>
        /\ pc = "waiting" /\ now = 0 /\ sequence = [s \in Sources |-> 0]
    BY DEF Init, Spool!Init
  <1>2. Tables
    BY <1>1 DEF Tables
  <1>3. Len(queue) = 0 /\ Len(emitted) = 0 /\ AckedCount = 0 /\ DOMAIN stored = {}
    BY <1>1 DEF AckedCount
  <1>4. SpoolIsRest /\ PostsHead /\ LateIsOld /\ Numbered /\ StoredOld
    BY <1>1, <1>3 DEF SpoolIsRest, PostsHead, LateIsOld, Numbered, StoredOld
  <1>5. Window
    BY <1>1, SenderAssumption DEF Window
  <1>6. LeavesOnlyAccepted /\ AcksAccepted /\ StoredInOrder
    BY <1>1, <1>3 DEF LeavesOnlyAccepted, AcksAccepted, StoredInOrder
  <1> QED
    BY <1>2, <1>4, <1>5, <1>6 DEF IInv

\* Steps that touch neither the spool nor the server, and give up no request.
LEMMA OtherStepsKeepIInv ==
    ASSUME IInv, UNCHANGED <<queue, emitted, server, late>>,
           now' \in Nat, sequence' \in [Sources -> Nat],
           pc' \in {"posting", "acking"} => queue # <<>>,
           pc' = "acking" => pc = "acking"
    PROVE  IInv'
  BY DEF IInv, Tables, SpoolIsRest, PostsHead, LateIsOld, Numbered, StoredOld, Window,
     LeavesOnlyAccepted, AcksAccepted, StoredInOrder, Landed, AckedCount, DistinctSoFar, server

\* What the server has stays when more is emitted or stored.
LEMMA LandedStays ==
    ASSUME Tables, NEW i \in 1 .. Len(emitted), Landed(i),
           stored' \in Seq(Payloads), Len(stored) <= Len(stored'),
           \A k \in 1 .. Len(stored) : stored'[k] = stored[k],
           \A j \in 1 .. Len(emitted) : emitted'[j] = emitted[j]
    PROVE  Landed(i)'
  <1>1. PICK j \in 1 .. i, k \in DOMAIN stored :
            stored[k] = emitted[j].payload /\ emitted[j].id = emitted[i].id
    BY DEF Landed
  <1>2. /\ Len(emitted) \in Nat /\ Len(stored) \in Nat /\ Len(stored') \in Nat
        /\ DOMAIN stored = 1 .. Len(stored) /\ DOMAIN stored' = 1 .. Len(stored')
    BY DEF Tables
  <1>3. /\ j \in 1 .. Len(emitted) /\ k \in DOMAIN stored'
        /\ stored'[k] = stored[k] /\ emitted'[j] = emitted[j] /\ emitted'[i] = emitted[i]
    BY <1>2
  <1> QED
    BY <1>1, <1>3 DEF Landed

\* The head of the spool is the record after the acknowledged ones.
LEMMA HeadOfSpool ==
    ASSUME IInv, queue # <<>>
    PROVE  /\ AckedCount \in Nat /\ AckedCount + 1 \in 1 .. Len(emitted)
           /\ Head(queue) = emitted[AckedCount + 1]
  <1>1. Len(queue) \in Nat \ {0} /\ Len(emitted) \in Nat /\ Head(queue) = queue[1]
    BY DEF IInv, Tables
  <1> QED
    BY <1>1 DEF IInv, SpoolIsRest, AckedCount

\* send_or_spool and emit put one record behind the others.
LEMMA EmitKeepsIInv ==
    ASSUME IInv, NEW s \in Sources, Emit(s)
    PROVE  IInv'
  <1> USE DEF IInv
  <1> DEFINE r == [id |-> BatchId(s), payload |-> Len(emitted) + 1]
             n == Len(emitted)
  <1>1. /\ queue' = Append(queue, r) /\ emitted' = Append(emitted, r)
        /\ n + 1 <= MaxEmits /\ sequence' = [sequence EXCEPT ![s] = @ + 1]
        /\ UNCHANGED <<now, pc, late, remembered, stored>>
    BY DEF Emit, Spool!Enqueue, server
  <1>2. n \in Nat /\ Len(queue) \in Nat /\ Len(stored) \in Nat /\ r \in Records
    BY <1>1, SenderAssumption DEF Tables, BatchId, Records, Ids, Payloads
  <1>3. Tables'
    BY <1>1, <1>2 DEF Tables
  <1>4. /\ Len(emitted') = n + 1 /\ Len(queue') = Len(queue) + 1
        /\ emitted'[n + 1] = r /\ queue'[Len(queue) + 1] = r
        /\ \A i \in 1 .. n : emitted'[i] = emitted[i]
        /\ \A i \in 1 .. Len(queue) : queue'[i] = queue[i]
    BY <1>1, <1>2 DEF Tables
  <1>5. AckedCount' = AckedCount /\ AckedCount \in Nat /\ AckedCount <= n
    BY <1>2, <1>4 DEF AckedCount, SpoolIsRest
  <1>6. SpoolIsRest'
    <2>1. AckedCount + Len(queue) + 1 = n + 1
      BY <1>2 DEF AckedCount
    <2>2. \A i \in 1 .. Len(queue) : AckedCount + i \in 1 .. n
      BY <1>2, <1>5 DEF AckedCount
    <2>3. \A i \in 1 .. Len(queue) : queue'[i] = emitted'[AckedCount + i]
      BY <1>4, <2>2 DEF SpoolIsRest
    <2>4. queue'[Len(queue) + 1] = emitted'[AckedCount + (Len(queue) + 1)]
      BY <1>2, <1>4, <1>5, <2>1
    <2>5. \A i \in 1 .. Len(queue) + 1 : queue'[i] = emitted'[AckedCount + i]
      BY <1>2, <2>3, <2>4
    <2>6. Len(queue') <= Len(emitted')
      BY <1>2, <1>4 DEF SpoolIsRest
    <2> QED
      BY <1>4, <1>5, <2>5, <2>6 DEF SpoolIsRest
  <1>7. PostsHead' /\ LateIsOld' /\ Numbered' /\ StoredOld'
    <2>1. queue' # <<>>
      BY <1>2, <1>3, <1>4 DEF Tables
    <2>2. Numbered'
      BY <1>2, <1>4 DEF Numbered
    <2> QED
      BY <1>1, <1>2, <1>4, <1>5, <2>1, <2>2 DEF PostsHead, LateIsOld, StoredOld
  <1>8. Window'
    <2> DEFINE w == Len(remembered)
               b == Len(stored) - w
    <2>1. w \in Nat /\ w <= Len(stored)
      BY DEF Tables, Window
    <2>2. ASSUME NEW k \in 1 .. w
          PROVE  remembered[k] = emitted'[stored[b + k]].id
      <3>1. b + k \in 1 .. Len(stored)
        BY <1>2, <2>1
      <3>2. stored[b + k] \in 1 .. n
        BY <3>1 DEF StoredOld
      <3> QED
        BY <1>4, <3>2 DEF Window
    <2> QED
      BY <1>1, <2>2 DEF Window
  <1>9. LeavesOnlyAccepted' /\ AcksAccepted'
    <2>1. ASSUME NEW i \in 1 .. n, Landed(i) PROVE Landed(i)'
      BY <1>1, <1>2, <1>3, <1>4, <2>1, LandedStays DEF Tables
    <2>2. pc = "acking" => AckedCount + 1 \in 1 .. n
      BY HeadOfSpool DEF PostsHead
    <2>3. \A i \in 1 .. AckedCount : i \in 1 .. n
      BY <1>2, <1>5
    <2>4. LeavesOnlyAccepted'
      <3>1. \A i \in 1 .. AckedCount : Landed(i)'
        BY <2>1, <2>3 DEF LeavesOnlyAccepted
      <3> QED
        BY <1>5, <3>1 DEF LeavesOnlyAccepted
    <2>5. AcksAccepted'
      BY <1>1, <1>5, <2>1, <2>2 DEF AcksAccepted
    <2> QED
      BY <2>4, <2>5
  <1>10. StoredInOrder'
    <2>1. DOMAIN emitted' = 1 .. n + 1 /\ DOMAIN emitted = 1 .. n
      BY <1>2, <1>3, <1>4 DEF Tables
    <2>2. DistinctSoFar' => DistinctSoFar
      BY <1>2, <1>4, <2>1 DEF DistinctSoFar
    <2> QED
      BY <1>1, <2>2 DEF StoredInOrder
  <1> QED
    BY <1>3, <1>6, <1>7, <1>8, <1>9, <1>10

-----------------------------------------------------------------------------
(* The server takes a request. *)

\* A request the server knows the id of is for something it has.
LEMMA KnownHasLanded ==
    ASSUME IInv, AckedCount + 1 \in 1 .. Len(emitted), Known(emitted[AckedCount + 1].id)
    PROVE  Landed(AckedCount + 1)
  <1> USE DEF IInv
  <1> DEFINE h == AckedCount + 1
             w == Len(remembered)
             b == Len(stored) - w
  <1>1. PICK q \in 1 .. w : remembered[q] = emitted[h].id
    BY DEF Known, Tables
  <1>2. w \in Nat /\ Len(stored) \in Nat /\ w <= Len(stored) /\ DOMAIN stored = 1 .. Len(stored)
    BY DEF Tables, Window
  <1>3. b + q \in 1 .. Len(stored)
    BY <1>2
  <1>4. PICK j : j = stored[b + q]
    OBVIOUS
  <1>5. j \in 1 .. Len(emitted) /\ j <= h
    BY <1>3, <1>4 DEF StoredOld
  <1>6. emitted[j].id = emitted[h].id
    BY <1>1, <1>4 DEF Window
  <1>7. stored[b + q] = emitted[j].payload
    BY <1>4, <1>5 DEF Numbered
  <1>8. j \in 1 .. h
    BY <1>5
  <1> QED
    BY <1>2, <1>3, <1>6, <1>7, <1>8 DEF Landed

\* The window after one more id: at most as long as dedupe_max_entries, and
\* its last ids are the newest.
LEMMA WindowMoves ==
    ASSUME Tables, NEW d \in Ids, Len(remembered) <= DedupeMax, NEW y, y = Remember(d)
    PROVE  /\ y \in Seq(Ids)
           /\ \/ Len(y) = Len(remembered) + 1 /\ Len(y) <= DedupeMax
              \/ Len(y) = Len(remembered) /\ Len(y) = DedupeMax
           /\ Len(y) > 0 => y[Len(y)] = d
           /\ \A k \in 1 .. (Len(y) - 1) :
                 /\ (Len(remembered) - Len(y)) + k + 1 \in 1 .. Len(remembered)
                 /\ y[k] = remembered[(Len(remembered) - Len(y)) + k + 1]
  <1>1. Len(remembered) \in Nat /\ DedupeMax \in Nat
    BY SenderAssumption DEF Tables
  <1>2. CASE DedupeMax = 0
    BY <1>1, <1>2 DEF Remember, Tables
  <1>3. CASE DedupeMax # 0 /\ Len(remembered) < DedupeMax
    BY <1>1, <1>3 DEF Remember, Tables
  <1>4. CASE DedupeMax # 0 /\ ~(Len(remembered) < DedupeMax)
    <2> DEFINE t == Tail(remembered)
    <2>1. remembered # <<>> /\ remembered \in Seq(Ids)
      BY <1>1, <1>4 DEF Tables
    <2>2. /\ t \in Seq(Ids) /\ Len(t) = Len(remembered) - 1
          /\ \A k \in 1 .. Len(t) : t[k] = remembered[k + 1]
      BY <2>1, HeadTailProperties
    <2>3. y = Append(t, d)
      BY <1>4 DEF Remember
    <2> HIDE DEF t
    <2>4. /\ y \in Seq(Ids) /\ Len(y) = Len(t) + 1 /\ y[Len(t) + 1] = d
          /\ \A k \in 1 .. Len(t) : y[k] = t[k]
      BY <2>2, <2>3
    <2> QED
      BY <1>1, <1>4, <2>2, <2>4
  <1> QED
    BY <1>2, <1>3, <1>4

\* The server takes a request for the head of the spool or for an older record:
\* it stores one it has forgotten behind at least dedupe_max_entries others,
\* and the head behind all that were acknowledged.
LEMMA AcceptKeeps ==
    ASSUME IInv, NEW k \in 1 .. Len(emitted), k <= AckedCount + 1, Accept(emitted[k]),
           UNCHANGED <<queue, emitted>>, pc' = "acking" => k = AckedCount + 1 \/ pc = "acking"
    PROVE  /\ stored' \in Seq(Payloads) /\ remembered' \in Seq(Ids)
           /\ StoredOld' /\ Window' /\ LeavesOnlyAccepted' /\ AcksAccepted' /\ StoredInOrder'
  <1> USE DEF IInv
  <1> DEFINE r == emitted[k]
             n == Len(emitted)
             m == Len(stored)
             w == Len(remembered)
  <1>1. /\ n \in Nat /\ m \in Nat /\ w \in Nat /\ AckedCount \in Nat /\ AckedCount' = AckedCount
        /\ AckedCount <= n /\ DOMAIN emitted = 1 .. n /\ DOMAIN stored = 1 .. m
        /\ r \in Records /\ DedupeMax \in Nat
    BY SenderAssumption DEF Tables, SpoolIsRest, AckedCount
  <1>2. CASE Known(r.id)
    <2>1. UNCHANGED <<stored, remembered, queue, emitted>>
      BY <1>2 DEF Accept, server
    <2>2. k = AckedCount + 1 => Landed(AckedCount + 1)
      BY <1>2, KnownHasLanded
    <2>3. pc' = "acking" => Landed(AckedCount + 1)
      BY <2>2 DEF AcksAccepted
    <2>4. \A i : Landed(i)' <=> Landed(i)
      BY <2>1 DEF Landed
    <2>5. LeavesOnlyAccepted' /\ AcksAccepted'
      BY <1>1, <2>3, <2>4 DEF LeavesOnlyAccepted, AcksAccepted
    <2>6. StoredOld' /\ Window' /\ StoredInOrder'
      BY <1>1, <2>1 DEF StoredOld, Window, StoredInOrder, DistinctSoFar
    <2> QED
      BY <2>1, <2>5, <2>6 DEF Tables
  <1>3. CASE ~Known(r.id)
    <2>1. remembered' = Remember(r.id) /\ stored' = Append(stored, k)
      BY <1>3 DEF Accept, Numbered
    <2>2. r.id \in Ids /\ k \in Payloads
      BY <1>1 DEF Records, Numbered
    <2>3. /\ stored' \in Seq(Payloads) /\ Len(stored') = m + 1 /\ stored'[m + 1] = k
          /\ \A i \in 1 .. m : stored'[i] = stored[i]
          /\ DOMAIN stored' = 1 .. m + 1
      BY <1>1, <2>1, <2>2 DEF Tables
    <2>4. StoredOld'
      BY <1>1, <2>3 DEF StoredOld
    <2>5. ASSUME NEW i \in 1 .. n, Landed(i) PROVE Landed(i)'
      BY <1>1, <2>3, <2>5, LandedStays
    <2>6. Landed(k)'
      <3>1. k \in 1 .. k /\ m + 1 \in DOMAIN stored' /\ stored'[m + 1] = emitted'[k].payload
        BY <1>1, <2>3 DEF Numbered
      <3> QED
        BY <3>1 DEF Landed
    <2>7. LeavesOnlyAccepted'
      <3>1. \A i \in 1 .. AckedCount : i \in 1 .. n /\ Landed(i)
        BY <1>1 DEF LeavesOnlyAccepted
      <3>2. \A i \in 1 .. AckedCount : Landed(i)'
        BY <2>5, <3>1
      <3> QED
        BY <1>1, <3>2 DEF LeavesOnlyAccepted
    <2>8. AcksAccepted'
      <3>1. pc = "acking" => AckedCount + 1 \in 1 .. n /\ Landed(AckedCount + 1)
        BY HeadOfSpool DEF PostsHead, AcksAccepted
      <3>2. pc' = "acking" => Landed(AckedCount + 1)'
        BY <1>1, <2>5, <2>6, <3>1
      <3> QED
        BY <1>1, <3>2 DEF AcksAccepted
    <2>9. \A i \in 1 .. m : stored[i] = k => (m + 1) - i > DedupeMax
      <3> SUFFICES ASSUME NEW i \in 1 .. m, stored[i] = k, ~((m + 1) - i > DedupeMax)
                   PROVE  FALSE
        OBVIOUS
      <3> DEFINE q == i - (m - w)
      <3>1. w <= m /\ (w = m \/ w = DedupeMax)
        BY DEF Window
      <3>2. q \in 1 .. w /\ (m - w) + q = i
        BY <1>1, <3>1
      <3>3. remembered[q] = emitted[stored[(m - w) + q]].id
        BY <3>2 DEF Window
      <3>4. remembered[q] = r.id /\ q \in DOMAIN remembered
        BY <3>2, <3>3 DEF Tables
      <3> QED
        BY <1>3, <3>4 DEF Known
    <2>10. DistinctSoFar => \A p \in 1 .. (k - 1) : \E j \in 1 .. m : stored[j] = p
      <3> SUFFICES ASSUME DistinctSoFar, NEW p \in 1 .. (k - 1)
                   PROVE  \E j \in 1 .. m : stored[j] = p
        OBVIOUS
      <3>1. p \in 1 .. AckedCount /\ p \in 1 .. n
        BY <1>1
      <3>2. PICK j \in 1 .. p, q \in DOMAIN stored :
                stored[q] = emitted[j].payload /\ emitted[j].id = emitted[p].id
        BY <3>1 DEF LeavesOnlyAccepted, Landed
      <3>3. j \in 1 .. n
        BY <1>1, <3>1
      <3>4. j = p
        BY <1>1, <3>1, <3>2, <3>3 DEF DistinctSoFar
      <3> QED
        BY <1>1, <3>1, <3>2, <3>4 DEF Numbered
    <2>11. StoredInOrder'
      <3>1. DistinctSoFar' <=> DistinctSoFar
        BY DEF DistinctSoFar
      <3>2. ASSUME DistinctSoFar, NEW i \in 1 .. m + 1, NEW p \in 1 .. (stored'[i] - 1)
            PROVE  \E j \in 1 .. (i - 1) : stored'[j] = p
        <4>1. CASE i = m + 1
          BY <1>1, <2>3, <2>10, <3>2, <4>1
        <4>2. CASE i # m + 1
          <5>1. i \in DOMAIN stored /\ stored'[i] = stored[i]
            BY <1>1, <2>3, <4>2
          <5>2. PICK j \in 1 .. (i - 1) : stored[j] = p
            BY <3>2, <5>1 DEF StoredInOrder
          <5> QED
            BY <1>1, <2>3, <5>1, <5>2
        <4> QED
          BY <4>1, <4>2
      <3>3. ASSUME NEW i \in 1 .. m + 1, NEW j \in 1 .. m + 1, i < j, stored'[i] = stored'[j]
            PROVE  j - i > DedupeMax
        <4>1. CASE j = m + 1
          BY <1>1, <2>3, <2>9, <3>3, <4>1
        <4>2. CASE j # m + 1
          BY <1>1, <2>3, <3>3, <4>2 DEF StoredInOrder
        <4> QED
          BY <4>1, <4>2
      <3> QED
        BY <2>3, <3>1, <3>2, <3>3 DEF StoredInOrder
    <2>12. Window' /\ remembered' \in Seq(Ids)
      <3> DEFINE v == Len(remembered')
      <3>1. w <= m /\ (w = m \/ w = DedupeMax)
        BY DEF Window
      <3>2. w <= DedupeMax
        BY DEF Window
      <3>3. /\ remembered' \in Seq(Ids)
            /\ (v = w + 1 /\ v <= DedupeMax) \/ (v = w /\ v = DedupeMax)
            /\ v > 0 => remembered'[v] = r.id
            /\ \A q \in 1 .. (v - 1) : /\ (w - v) + q + 1 \in 1 .. w
                                       /\ remembered'[q] = remembered[(w - v) + q + 1]
        BY <2>1, <2>2, <3>2, WindowMoves
      <3>4. v \in Nat
        BY <3>3
      <3>5. v <= m + 1 /\ (v = m + 1 \/ v = DedupeMax)
        BY <1>1, <3>1, <3>3, <3>4
      <3>6. ASSUME NEW q \in 1 .. v
            PROVE  remembered'[q] = emitted[stored'[((m + 1) - v) + q]].id
        <4>1. CASE q = v
          <5>1. ((m + 1) - v) + q = m + 1
            BY <1>1, <3>4, <4>1
          <5> QED
            BY <2>3, <3>3, <3>4, <4>1, <5>1
        <4>2. CASE q # v
          <5> DEFINE u == (w - v) + q + 1
          <5>1. q \in 1 .. (v - 1)
            BY <3>4, <4>2
          <5>2. u \in 1 .. w /\ remembered'[q] = remembered[u]
            BY <3>3, <5>1
          <5>3. (m - w) + u = ((m + 1) - v) + q /\ (m - w) + u \in 1 .. m
            BY <1>1, <3>1, <3>4, <5>2
          <5>4. remembered[u] = emitted[stored[(m - w) + u]].id
            BY <5>2 DEF Window
          <5> QED
            BY <2>3, <5>2, <5>3, <5>4
        <4> QED
          BY <4>1, <4>2
      <3> HIDE DEF v
      <3> QED
        BY <2>3, <3>3, <3>5, <3>6 DEF Window, v
    <2> QED
      BY <2>3, <2>4, <2>7, <2>8, <2>11, <2>12
  <1> QED
    BY <1>2, <1>3

\* The answer to a post, and a request that arrives late.
LEMMA ServerStepsKeepIInv ==
    ASSUME IInv, PostSucceeds \/ LateRequest
    PROVE  IInv'
  <1> DEFINE Kept == /\ stored' \in Seq(Payloads) /\ remembered' \in Seq(Ids)
                     /\ StoredOld' /\ Window' /\ LeavesOnlyAccepted' /\ AcksAccepted'
                     /\ StoredInOrder'
  <1>1. CASE PostSucceeds
    <2>1. /\ queue # <<>> /\ Accept(Head(queue)) /\ pc' = "acking"
          /\ UNCHANGED <<queue, emitted, now, sequence, late>>
      BY <1>1 DEF PostSucceeds, IInv, PostsHead
    <2>2. Kept
      BY <2>1, HeadOfSpool, AcceptKeeps
    <2> QED
      BY <2>1, <2>2 DEF IInv, Tables, SpoolIsRest, PostsHead, LateIsOld, Numbered, AckedCount
  <1>2. CASE LateRequest
    <2>1. PICK r \in late : Accept(r) /\ late' = late \ {r}
      BY <1>2 DEF LateRequest
    <2>2. UNCHANGED <<queue, emitted, now, sequence, pc>>
      BY <1>2 DEF LateRequest
    <2>3. PICK k \in 1 .. Len(emitted) : k <= AckedCount + 1 /\ r = emitted[k]
      BY DEF IInv, LateIsOld
    <2>4. Kept
      BY <2>1, <2>2, <2>3, AcceptKeeps
    <2> QED
      BY <2>1, <2>2, <2>4 DEF IInv, Tables, SpoolIsRest, PostsHead, LateIsOld, Numbered, AckedCount
  <1> QED
    BY <1>1, <1>2

-----------------------------------------------------------------------------

\* The worker gives a post up, or the agent stops in the middle of one: the
\* request may still arrive.
LEMMA GiveUpKeepsIInv ==
    ASSUME IInv, PostFails \/ Restart
    PROVE  IInv'
  <1>1. /\ UNCHANGED <<queue, emitted, remembered, stored>>
        /\ pc' \in {"checking", "waiting"}
        /\ now' \in Nat /\ sequence' \in [Sources -> Nat]
    BY DEF PostFails, Restart, server, IInv, Tables
  <1>2. late' = late \/ (pc = "posting" /\ late' = late \cup {Head(queue)})
    BY DEF PostFails, Restart
  <1>3. LateIsOld'
    <2>1. CASE late' = late
      BY <1>1, <2>1 DEF IInv, LateIsOld, AckedCount
    <2>2. CASE pc = "posting" /\ late' = late \cup {Head(queue)}
      <3>1. AckedCount + 1 \in 1 .. Len(emitted) /\ Head(queue) = emitted[AckedCount + 1]
            /\ AckedCount \in Nat
        BY <2>2, HeadOfSpool DEF IInv, PostsHead
      <3> QED
        BY <1>1, <2>2, <3>1 DEF IInv, LateIsOld, AckedCount
    <2> QED
      BY <1>2, <2>1, <2>2
  <1> QED
    BY <1>1, <1>3 DEF IInv, Tables, SpoolIsRest, PostsHead, Numbered, StoredOld, Window,
       LeavesOnlyAccepted, AcksAccepted, StoredInOrder, Landed, AckedCount, DistinctSoFar

\* acknowledge takes the head away, which the server has.
LEMMA AcknowledgeKeepsIInv ==
    ASSUME IInv, Acknowledge
    PROVE  IInv'
  <1> USE DEF IInv
  <1> DEFINE a == AckedCount
  <1>1. /\ queue # <<>> /\ queue' = Tail(queue) /\ pc = "acking" /\ pc' = "acked"
        /\ UNCHANGED <<emitted, now, sequence, late, remembered, stored>>
    BY DEF Acknowledge, Spool!Acknowledge, server
  <1>2. /\ Len(queue) \in Nat \ {0} /\ Len(emitted) \in Nat /\ Len(stored) \in Nat
        /\ queue' \in Seq(Records) /\ Len(queue') = Len(queue) - 1
        /\ \A i \in 1 .. Len(queue) - 1 : queue'[i] = queue[i + 1]
    BY <1>1, HeadTailProperties DEF Tables
  <1>3. a \in Nat /\ a' = a + 1
    BY <1>1, <1>2 DEF AckedCount, SpoolIsRest
  <1>4. Tables'
    BY <1>1, <1>2 DEF Tables
  <1>5. SpoolIsRest'
    <2>1. ASSUME NEW i \in 1 .. Len(queue')
          PROVE  queue'[i] = emitted[(a + 1) + i]
      <3>1. i + 1 \in 1 .. Len(queue) /\ a + (i + 1) = (a + 1) + i
        BY <1>2, <1>3
      <3>2. queue[i + 1] = emitted[a + (i + 1)]
        BY <3>1 DEF SpoolIsRest
      <3> QED
        BY <1>2, <3>1, <3>2
    <2>2. Len(queue') <= Len(emitted')
      BY <1>1, <1>2 DEF SpoolIsRest
    <2> QED
      BY <1>1, <1>3, <2>1, <2>2 DEF SpoolIsRest
  <1>6. PostsHead' /\ LateIsOld' /\ Numbered'
    BY <1>1, <1>3 DEF PostsHead, LateIsOld, Numbered
  <1>7. StoredOld'
    BY <1>1, <1>2, <1>3 DEF StoredOld
  <1>8. Window' /\ StoredInOrder'
    BY <1>1 DEF Window, StoredInOrder, DistinctSoFar
  <1>9. LeavesOnlyAccepted' /\ AcksAccepted'
    <2>1. \A i \in 1 .. (a + 1) : Landed(i)
      BY <1>1, <1>3 DEF LeavesOnlyAccepted, AcksAccepted
    <2>2. \A i \in 1 .. (a + 1) : Landed(i)'
      BY <1>1, <2>1 DEF Landed
    <2> QED
      BY <1>1, <1>3, <2>2 DEF LeavesOnlyAccepted, AcksAccepted
  <1> QED
    BY <1>4, <1>5, <1>6, <1>7, <1>8, <1>9

\* Every step of the agent, the network and the server keeps the invariant.
LEMMA NextIInv == IInv /\ [Next]_vars => IInv'
  <1> SUFFICES ASSUME IInv, [Next]_vars PROVE IInv'
    OBVIOUS
  <1>1. CASE \E s \in Sources : Emit(s)
    BY <1>1, EmitKeepsIInv
  <1>2. CASE \E s \in Sources : Emitted(s) \/ EmitRejected(s)
    BY <1>2, OtherStepsKeepIInv DEF Emitted, EmitRejected, server, IInv, Tables, PostsHead
  <1>3. CASE Housekeep \/ ClockTick \/ DeadlinePasses \/ UNCHANGED vars
    BY <1>3, OtherStepsKeepIInv
       DEF Housekeep, ClockTick, DeadlinePasses, vars, server, IInv, Tables, PostsHead
  <1>4. CASE WakeUp \/ Peek \/ PeekFails \/ AcknowledgeFails
    BY <1>4, OtherStepsKeepIInv
       DEF WakeUp, Peek, PeekFails, AcknowledgeFails, SpoolError, Pending, server, IInv, Tables,
           PostsHead
  <1>5. CASE EndRound \/ Report
    BY <1>5, OtherStepsKeepIInv DEF EndRound, Report, server, IInv, Tables, PostsHead
  <1>6. CASE PostSucceeds \/ LateRequest
    BY <1>6, ServerStepsKeepIInv
  <1>7. CASE PostFails \/ Restart
    BY <1>7, GiveUpKeepsIInv
  <1>8. CASE Acknowledge
    BY <1>8, AcknowledgeKeepsIInv
  <1> QED
    BY <1>1, <1>2, <1>3, <1>4, <1>5, <1>6, <1>7, <1>8 DEF Next, ProducerStep, WorkerStep

-----------------------------------------------------------------------------

\* While batch ids tell the records apart, the server stores nothing that
\* send_or_spool took before all it took earlier; it stores a payload again only
\* behind dedupe_max_entries others, whatever is posted again, lost or late.
THEOREM StoresInOrder == Spec => []StoredInOrder
  <1>1. IInv => StoredInOrder
    BY DEF IInv
  <1> QED
    BY <1>1, InitIInv, NextIInv, PTL DEF Spec

\* Nothing leaves the spool before the server has its payload, or has the one
\* of an older record with the same batch id: sender_worker acknowledges only
\* after an answer, and late requests and a forgetful server change nothing.
THEOREM AcknowledgesOnlyAccepted == Spec => []LeavesOnlyAccepted
  <1>1. IInv => LeavesOnlyAccepted
    BY DEF IInv
  <1> QED
    BY <1>1, InitIInv, NextIInv, PTL DEF Spec
=============================================================================
