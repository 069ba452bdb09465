-------------------------- MODULE IngestFlushProofs --------------------------
(***************************************************************************)
(* The flush path for any number of batches, partitions, sinks, retries    *)
(* and stops: nothing is committed that no sink holds, and each partition  *)
(* reaches the sinks in the order of acceptance.                           *)
(***************************************************************************)
EXTENDS IngestFlush, FiniteSetTheorems, SequenceTheorems, TLAPS

-----------------------------------------------------------------------------
(* Sequences of batches. *)

Increasing(s) == \A i, j \in DOMAIN s : i < j => s[i] < s[j]

\* What a queue holds after an insertion at its end.
LEMMA AppendSet ==
    ASSUME NEW S, NEW s \in Seq(S), NEW e \in S
    PROVE  /\ Append(s, e) \in Seq(S)
           /\ ToSet(Append(s, e)) = ToSet(s) \cup {e}
  <1>1. /\ Append(s, e) \in Seq(S) /\ DOMAIN Append(s, e) = 1 .. Len(s) + 1
        /\ DOMAIN s = 1 .. Len(s) /\ Len(s) \in Nat
        /\ Append(s, e)[Len(s) + 1] = e
        /\ \A i \in 1 .. Len(s) : Append(s, e)[i] = s[i]
    OBVIOUS
  <1>2. \A x : x \in ToSet(Append(s, e)) <=> x \in ToSet(s) \cup {e}
    <2>1. ASSUME NEW x \in ToSet(Append(s, e)) PROVE x \in ToSet(s) \cup {e}
      <3>1. PICK i \in 1 .. Len(s) + 1 : x = Append(s, e)[i]
        BY <1>1, <2>1 DEF ToSet
      <3>2. CASE i = Len(s) + 1
        BY <1>1, <3>1, <3>2
      <3>3. CASE i \in 1 .. Len(s)
        BY <1>1, <3>1, <3>3 DEF ToSet
      <3> QED
        BY <1>1, <3>2, <3>3
    <2>2. ASSUME NEW x \in ToSet(s) PROVE x \in ToSet(Append(s, e))
      <3>1. PICK i \in 1 .. Len(s) : x = s[i]
        BY <1>1, <2>2 DEF ToSet
      <3>2. i \in DOMAIN Append(s, e) /\ x = Append(s, e)[i]
        BY <1>1, <3>1
      <3> QED
        BY <3>2 DEF ToSet
    <2>3. e \in ToSet(Append(s, e))
      <3>1. Len(s) + 1 \in DOMAIN Append(s, e) /\ e = Append(s, e)[Len(s) + 1]
        BY <1>1
      <3> QED
        BY <3>1 DEF ToSet
    <2> QED
      BY <2>1, <2>2, <2>3
  <1> QED
    BY <1>1, <1>2

\* An insertion behind everything keeps the order.
LEMMA AppendIncreasing ==
    ASSUME NEW s \in Seq(Nat), NEW e \in Nat, Increasing(s), \A x \in ToSet(s) : x < e
    PROVE  Increasing(Append(s, e))
  <1>1. /\ DOMAIN Append(s, e) = 1 .. Len(s) + 1 /\ DOMAIN s = 1 .. Len(s) /\ Len(s) \in Nat
        /\ Append(s, e)[Len(s) + 1] = e
        /\ \A i \in 1 .. Len(s) : Append(s, e)[i] = s[i]
    OBVIOUS
  <1>2. \A i \in 1 .. Len(s) : s[i] < e
    BY <1>1 DEF ToSet
  <1> QED
    BY <1>1, <1>2 DEF Increasing

\* What is left of a queue after its first element is taken.
LEMMA TailSet ==
    ASSUME NEW S, NEW s \in Seq(S), s # <<>>
    PROVE  /\ Tail(s) \in Seq(S) /\ Head(s) \in S /\ Head(s) \in ToSet(s)
           /\ ToSet(s) = {Head(s)} \cup ToSet(Tail(s))
           /\ Increasing(s) => Increasing(Tail(s)) /\ \A x \in ToSet(Tail(s)) : Head(s) < x
  <1>1. /\ Tail(s) \in Seq(S) /\ Head(s) \in S /\ Head(s) = s[1]
        /\ Len(s) \in Nat \ {0} /\ DOMAIN s = 1 .. Len(s)
        /\ DOMAIN Tail(s) = 1 .. Len(s) - 1
        /\ \A i \in 1 .. Len(s) - 1 : Tail(s)[i] = s[i + 1]
    BY HeadTailProperties
  <1>2. Head(s) \in ToSet(s)
    BY <1>1 DEF ToSet
  <1>3. ASSUME NEW x \in ToSet(Tail(s)) PROVE x \in ToSet(s) /\ (Increasing(s) => Head(s) < x)
    <2>1. PICK i \in 1 .. Len(s) - 1 : x = Tail(s)[i]
      BY <1>1, <1>3 DEF ToSet
    <2>2. i + 1 \in DOMAIN s /\ x = s[i + 1] /\ 1 \in DOMAIN s /\ 1 < i + 1
      BY <1>1, <2>1
    <2> QED
      BY <1>1, <2>2 DEF ToSet, Increasing
  <1>4. ASSUME NEW x \in ToSet(s), x # Head(s) PROVE x \in ToSet(Tail(s))
    <2>1. PICK i \in 1 .. Len(s) : x = s[i]
      BY <1>1, <1>4 DEF ToSet
    <2>2. i # 1
      BY <1>1, <1>4, <2>1
    <2>3. i - 1 \in DOMAIN Tail(s) /\ x = Tail(s)[i - 1]
      BY <1>1, <2>1, <2>2
    <2> QED
      BY <2>3, Zenon DEF ToSet
  <1>5. Increasing(s) => Increasing(Tail(s))
    BY <1>1 DEF Increasing
  <1> QED
    BY <1>1, <1>2, <1>3, <1>4, <1>5

\* The order of a finite log is a sequence of all of it, oldest first.
LEMMA OrderedSeq ==
    ASSUME NEW S \in SUBSET Nat, IsFiniteSet(S)
    PROVE  Ordered(S) \in Seq(S) /\ ToSet(Ordered(S)) = S /\ Increasing(Ordered(S))
  <1> DEFINE Below(b) == {c \in S : c < b}
             n == Cardinality(S)
             rank == [b \in S |-> Cardinality(Below(b)) + 1]
             o == Ordered(S)
  <1>0. \A x \in S : x \in Nat
    OBVIOUS
  <1>1. n \in Nat
    BY FS_CardinalityType
  <1>2. ASSUME NEW b \in S
        PROVE  IsFiniteSet(Below(b)) /\ Cardinality(Below(b)) \in Nat /\ Cardinality(Below(b)) < n
    <2>1. Below(b) \in SUBSET S /\ b \notin Below(b)
      OBVIOUS
    <2>2. IsFiniteSet(Below(b)) /\ Cardinality(Below(b)) <= n /\ n # Cardinality(Below(b))
      BY <1>2, <2>1, FS_Subset
    <2>3. Cardinality(Below(b)) \in Nat
      BY <2>2, FS_CardinalityType
    <2> QED
      BY <1>1, <2>2, <2>3
  <1>3. ASSUME NEW b \in S, NEW c \in S, b < c
        PROVE  Cardinality(Below(b)) < Cardinality(Below(c))
    <2>1. Below(b) \in SUBSET Below(c) /\ b \in Below(c) /\ b \notin Below(b)
      <3>1. b \in Nat /\ c \in Nat /\ \A x \in Nat : x < b => x < c
        BY <1>0, <1>3
      <3>2. ~(b < b)
        BY <3>1
      <3> QED
        BY <1>0, <1>3, <3>1, <3>2, Zenon
    <2>2. Cardinality(Below(b)) <= Cardinality(Below(c)) /\ Cardinality(Below(c)) # Cardinality(Below(b))
      BY <1>2, <2>1, FS_Subset
    <2> QED
      BY <1>2, <2>2
  <1>4. rank \in Injection(S, 1 .. n)
    <2>1. rank \in [S -> 1 .. n]
      BY <1>1, <1>2
    <2>2. ASSUME NEW b \in S, NEW c \in S, rank[b] = rank[c]
          PROVE  b = c
      <3>1. Cardinality(Below(b)) = Cardinality(Below(c))
        BY <1>2, <2>2
      <3>2. b \in Nat /\ c \in Nat
        OBVIOUS
      <3>3. ~(b < c) /\ ~(c < b)
        BY <1>2, <1>3, <3>1
      <3> QED
        BY <3>2, <3>3
    <2> QED
      BY <2>1, <2>2, Zenon DEF Injection, IsInjective
  <1>5. rank \in Surjection(S, 1 .. n)
    <2>1. IsFiniteSet(1 .. n) /\ Cardinality(1 .. n) = n
      BY <1>1, FS_Interval
    <2> QED
      BY <1>4, <2>1, FS_Injection
  <1>6. \A i \in 1 .. n : \E b \in S : Cardinality(Below(b)) = i - 1
    <2> SUFFICES ASSUME NEW i \in 1 .. n
                 PROVE  \E b \in S : Cardinality(Below(b)) = i - 1
      OBVIOUS
    <2>1. PICK b \in S : rank[b] = i
      BY <1>5, Zenon DEF Surjection
    <2>2. Cardinality(Below(b)) = i - 1
      BY <1>2, <2>1
    <2> QED
      BY <2>2, Zenon
  <1>7. /\ DOMAIN o = 1 .. n
        /\ \A i \in 1 .. n : o[i] \in S /\ Cardinality(Below(o[i])) = i - 1
    BY <1>6, Zenon DEF Ordered
  <1>8. o \in Seq(S)
    <2>1. o = [i \in 1 .. n |-> o[i]]
      BY DEF Ordered
    <2>2. \A i \in 1 .. n : o[i] \in S
      <3> HIDE DEF o, n
      <3> QED
        BY <1>7
    <2> HIDE DEF o, n
    <2>3. o \in [1 .. n -> S]
      BY <2>1, <2>2
    <2> QED
      BY <1>1, <2>3, SeqDef
  <1>9. ToSet(o) = S
    <2>1. \A x \in ToSet(o) : x \in S
      BY <1>7, Zenon DEF ToSet
    <2>2. ASSUME NEW b \in S PROVE b \in ToSet(o)
      <3>1. rank[b] \in 1 .. n /\ rank[b] - 1 = Cardinality(Below(b))
        BY <1>1, <1>2
      <3>2. o[rank[b]] \in S /\ Cardinality(Below(o[rank[b]])) = Cardinality(Below(b))
        BY <1>7, <3>1
      <3>3. rank[o[rank[b]]] = rank[b]
        BY <3>2
      <3>4. o[rank[b]] = b
        BY <1>4, <3>2, <3>3, Zenon DEF Injection, IsInjective
      <3> QED
        BY <1>7, <3>1, <3>4 DEF ToSet
    <2> QED
      BY <2>1, <2>2, Zenon
  <1>10. Increasing(o)
    <2> SUFFICES ASSUME NEW i \in 1 .. n, NEW j \in 1 .. n, i < j
                 PROVE  o[i] < o[j]
      BY <1>7 DEF Increasing
    <2>1. o[i] \in Nat /\ o[j] \in Nat /\ o[i] # o[j]
      <3>1. o[i] \in S /\ o[j] \in S /\ Cardinality(Below(o[i])) = i - 1 /\ Cardinality(Below(o[j])) = j - 1
        BY <1>7
      <3>2. o[i] # o[j]
        BY <1>1, <3>1
      <3> QED
        BY <1>0, <3>1, <3>2, Zenon
    <2>2. ~(o[j] < o[i])
      <3> SUFFICES ASSUME o[j] < o[i] PROVE FALSE
        OBVIOUS
      <3>1. Cardinality(Below(o[j])) < Cardinality(Below(o[i]))
        BY <1>3, <1>7, Zenon
      <3> QED
        BY <1>1, <1>7, <3>1
    <2> QED
      BY <2>1, <2>2
  <1> QED
    BY <1>8, <1>9, <1>10

-----------------------------------------------------------------------------
(* The inductive invariant. *)

FlushStates ==
    [at : {"idle", "remote", "jsonl", "dead_letter", "commit", "gone"},
     sink : Nat, tries : Nat, permanent : BOOLEAN]

\* Queues and buffers hold batches, and the log is finite.
Tables ==
    /\ recovered \in Seq(Batches)
    /\ channel \in [Workers -> Seq(Batches)] /\ buffer \in [Workers -> Seq(Batches)]
    /\ flush \in [Workers -> FlushStates]
    /\ sent \subseteq Batches /\ accepted \subseteq sent
    /\ log \subseteq accepted /\ IsFiniteSet(log) /\ persisted \subseteq accepted

\* Batches are sent in the order of their numbers.
SentInOrder == \A b \in sent, c \in Batches \ sent : b < c

\* Nothing is left of the replay once the server serves.
ReplayFirst == phase \in {"serving", "stopping"} => recovered = <<>>

\* A partition's queue and its worker's buffer hold accepted batches of it.
OfPartition ==
    /\ ToSet(recovered) \subseteq accepted
    /\ \A w \in Workers : \A b \in ToSet(channel[w]) \cup ToSet(buffer[w]) :
          b \in accepted /\ PartitionOf[b] = w

\* Whatever is in the log is on its way to a sink.
LogOnItsWay ==
    \A b \in log : \/ b \in ToSet(recovered)
                   \/ b \in ToSet(channel[PartitionOf[b]])
                   \/ b \in ToSet(buffer[PartitionOf[b]])

\* On that way each batch is behind the earlier ones of its partition.
WayInOrder ==
    /\ Increasing(recovered)
    /\ \A w \in Workers :
          /\ Increasing(channel[w])
          /\ \A b \in ToSet(buffer[w]), c \in ToSet(channel[w]) : b < c
          /\ \A b \in ToSet(buffer[w]) \cup ToSet(channel[w]), c \in ToSet(recovered) :
                PartitionOf[c] = w => b < c

\* A worker commits what a sink holds.
CommitsPersisted ==
    \A w \in Workers : flush[w].at = "commit" => ToSet(buffer[w]) \subseteq persisted

IInv ==
    /\ Tables /\ SentInOrder /\ ReplayFirst /\ OfPartition /\ LogOnItsWay /\ WayInOrder
    /\ CommitsPersisted /\ CommittedIsPersisted /\ PartitionOrder

\* A fresh server has nothing anywhere.
LEMMA InitIInv == Init => IInv
  <1> SUFFICES ASSUME Init PROVE IInv
    OBVIOUS
  <1>1. ToSet(<<>>) = {} /\ Increasing(<<>>) /\ <<>> \in Seq(Batches)
    BY DEF ToSet, Increasing
  <1>2. /\ log = {} /\ sent = {} /\ accepted = {} /\ persisted = {} /\ recovered = <<>>
        /\ \A w \in Workers : channel[w] = <<>> /\ buffer[w] = <<>> /\ flush[w] = Idle
        /\ phase = "replaying"
    BY DEF Init
  <1>3. Idle \in FlushStates /\ Idle.at # "commit"
    BY DEF Idle, FlushStates
  <1>4. Tables
    BY <1>1, <1>3, FS_EmptySet DEF Init, Tables
  <1> QED
    BY <1>1, <1>2, <1>3, <1>4 DEF IInv, SentInOrder, ReplayFirst, OfPartition, LogOnItsWay,
       WayInOrder, CommitsPersisted, CommittedIsPersisted, PartitionOrder

\* A step of a flush moves no batch.  What it persists is a whole buffer, and
\* the earlier batches of that partition are in the buffer too, or committed.
LEMMA FlushStepsKeepIInv ==
    ASSUME IInv,
           UNCHANGED <<log, recovered, channel, buffer, sent, accepted>>,
           phase' \in {"serving", "stopping"} => phase \in {"serving", "stopping"},
           persisted' = persisted \/ \E w \in Workers : persisted' = persisted \cup ToSet(buffer[w]),
           flush' \in [Workers -> FlushStates],
           \A w \in Workers : flush'[w].at = "commit" =>
               flush[w].at = "commit" \/ ToSet(buffer[w]) \subseteq persisted'
    PROVE  IInv'
  <1> USE DEF IInv
  <1>1. persisted \subseteq persisted' /\ persisted' \subseteq accepted
    BY DEF Tables, OfPartition
  <1>2. Tables'
    BY <1>1 DEF Tables
  <1>3. SentInOrder' /\ ReplayFirst' /\ OfPartition' /\ LogOnItsWay' /\ WayInOrder'
    BY DEF SentInOrder, ReplayFirst, OfPartition, LogOnItsWay, WayInOrder
  <1>4. CommitsPersisted' /\ CommittedIsPersisted'
    BY <1>1 DEF CommitsPersisted, CommittedIsPersisted
  <1>5. PartitionOrder'
    <2> SUFFICES ASSUME NEW b \in persisted', NEW c \in accepted,
                        PartitionOf[b] = PartitionOf[c], c < b
                 PROVE  c \in persisted'
      BY DEF PartitionOrder
    <2>1. CASE b \in persisted
      BY <1>1, <2>1 DEF PartitionOrder
    <2>2. CASE b \notin persisted
      <3>1. PICK w \in Workers : persisted' = persisted \cup ToSet(buffer[w])
        BY <2>2
      <3>2. b \in ToSet(buffer[w]) /\ PartitionOf[b] = w
        BY <2>2, <3>1 DEF OfPartition
      <3>3. b \in Nat /\ c \in Nat
        BY <3>2, FlushAssumption, Zenon DEF Tables, OfPartition
      <3>4. ~(b < c)
        BY <3>3
      <3>5. c \notin ToSet(channel[w]) /\ c \notin ToSet(recovered)
        BY <3>2, <3>4, Zenon DEF WayInOrder
      <3>6. CASE c \in log
        BY <3>1, <3>2, <3>5, <3>6, Zenon DEF LogOnItsWay
      <3>7. CASE c \notin log
        BY <3>1, <3>7 DEF CommittedIsPersisted
      <3> QED
        BY <3>6, <3>7
    <2> QED
      BY <2>1, <2>2
  <1> QED
    BY <1>2, <1>3, <1>4, <1>5

\* The states a flush goes through; only a sink's success leads to the commit.
LEMMA FlushTargets ==
    /\ Idle \in FlushStates /\ Idle.at # "commit"
    /\ Gone \in FlushStates /\ Gone.at # "commit"
    /\ At("commit", FALSE) \in FlushStates
    /\ \A p \in BOOLEAN : At("dead_letter", p) \in FlushStates /\ At("dead_letter", p).at # "commit"
    /\ \A k \in Nat, p \in BOOLEAN : AfterRemote(k, p) \in FlushStates /\ AfterRemote(k, p).at # "commit"
    /\ \A w : AfterFlush(w) \in FlushStates /\ AfterFlush(w).at # "commit"
    /\ FlushStart \in FlushStates /\ FlushStart.at # "commit"
  <1>1. /\ Idle \in FlushStates /\ Idle.at # "commit"
        /\ Gone \in FlushStates /\ Gone.at # "commit"
        /\ At("commit", FALSE) \in FlushStates
        /\ \A p \in BOOLEAN : At("dead_letter", p) \in FlushStates /\ At("dead_letter", p).at # "commit"
    BY Zenon DEF Idle, Gone, At, FlushStates
  <1>2. \A k \in Nat, p \in BOOLEAN : AfterRemote(k, p) \in FlushStates /\ AfterRemote(k, p).at # "commit"
    <2> SUFFICES ASSUME NEW k \in Nat, NEW p \in BOOLEAN
                 PROVE  AfterRemote(k, p) \in FlushStates /\ AfterRemote(k, p).at # "commit"
      OBVIOUS
    <2>1. CASE k < Len(Remotes)
      BY <2>1 DEF AfterRemote, FlushStates
    <2>2. /\ At("dead_letter", p) \in FlushStates /\ At("jsonl", p) \in FlushStates
          /\ At("dead_letter", p).at # "commit" /\ At("jsonl", p).at # "commit"
      BY Zenon DEF At, Idle, FlushStates
    <2>3. CASE ~(k < Len(Remotes))
      BY <2>2, <2>3 DEF AfterRemote
    <2> QED
      BY <2>1, <2>3
  <1>3. \A w : AfterFlush(w) \in FlushStates /\ AfterFlush(w).at # "commit"
    BY <1>1 DEF AfterFlush
  <1> QED
    BY <1>1, <1>2, <1>3, Zenon DEF FlushStart

\* What the attempts at the sinks and their failures do.
LEMMA AttemptsKeepIInv ==
    ASSUME IInv, NEW w \in Workers,
           \/ RemoteSkipped(w) \/ RemoteSucceeds(w) \/ \E p \in BOOLEAN : RemoteFails(w, p)
           \/ LocalSucceeds(w) \/ LocalFails(w) \/ CommitFails(w) \/ FlushTick(w) \/ WorkerStops(w)
    PROVE  IInv'
  <1> DEFINE Moved(f) ==
         /\ UNCHANGED <<phase, log, recovered, channel, buffer, sent, accepted>>
         /\ f \in FlushStates /\ flush' = [flush EXCEPT ![w] = f]
         /\ \/ persisted' = persisted \/ persisted' = persisted \cup ToSet(buffer[w])
         /\ f.at = "commit" => ToSet(buffer[w]) \subseteq persisted'
  <1>0. flush \in [Workers -> FlushStates] /\ flush[w] \in FlushStates
    BY DEF IInv, Tables
  <1>1. ASSUME NEW f, Moved(f) PROVE IInv'
    <2>1. flush' \in [Workers -> FlushStates] /\ flush'[w] = f
      BY <1>0, <1>1
    <2>2. \A v \in Workers : v # w => flush'[v] = flush[v]
      BY <1>0, <1>1
    <2> QED
      BY <1>1, <2>1, <2>2, FlushStepsKeepIInv
  <1>2. CASE RemoteSkipped(w)
    BY <1>0, <1>1, <1>2, FlushTargets, Zenon DEF RemoteSkipped, FlushStates, stage, queues, history
  <1>3. CASE RemoteSucceeds(w)
    <2>1. Moved(At("commit", FALSE))
      BY <1>3, FlushTargets, Zenon DEF RemoteSucceeds, Persist, stage, queues, history
    <2> QED
      BY <1>1, <2>1, Zenon
  <1>4. ASSUME NEW p \in BOOLEAN, RemoteFails(w, p) PROVE IInv'
    <2>1. /\ UNCHANGED <<phase, log, recovered, channel, buffer, sent, accepted>>
          /\ persisted' = persisted \/ persisted' = persisted \cup ToSet(buffer[w])
          /\ flush[w].at = "remote"
      BY <1>4 DEF RemoteFails, Attempting, Persist, stage, queues, history
    <2>2. CASE p \/ flush[w].tries + 1 = Attempts
      <3> DEFINE f == AfterRemote(flush[w].sink, flush[w].permanent \/ p)
      <3>1. f \in FlushStates /\ f.at # "commit"
        BY <1>0, FlushTargets DEF FlushStates
      <3>2. flush' = [flush EXCEPT ![w] = f]
        BY <1>4, <2>2 DEF RemoteFails
      <3>3. Moved(f)
        BY <2>1, <3>1, <3>2
      <3> QED
        BY <1>1, <3>3, Zenon
    <2>3. CASE ~(p \/ flush[w].tries + 1 = Attempts)
      <3> DEFINE f == [flush[w] EXCEPT !.tries = @ + 1]
      <3>1. f \in FlushStates /\ f.at # "commit"
        BY <1>0, <2>1 DEF FlushStates
      <3>2. flush' = [flush EXCEPT ![w] = f]
        BY <1>4, <2>3 DEF RemoteFails
      <3>3. Moved(f)
        BY <2>1, <3>1, <3>2
      <3> QED
        BY <1>1, <3>3, Zenon
    <2> QED
      BY <2>2, <2>3
  <1>5. CASE LocalSucceeds(w)
    <2>1. Moved(At("commit", FALSE))
      BY <1>5, FlushTargets, Zenon DEF LocalSucceeds, Persist, stage, queues, history
    <2> QED
      BY <1>1, <2>1, Zenon
  <1>6. CASE LocalFails(w)
    <2>1. flush[w].permanent \in BOOLEAN
      BY <1>0 DEF FlushStates
    <2>2. Moved(At("dead_letter", flush[w].permanent)) \/ Moved(AfterFlush(w))
      BY <1>6, <2>1, FlushTargets DEF LocalFails, FlushFails, stage, queues, history
    <2> QED
      BY <1>1, <2>2
  <1>7. CASE CommitFails(w)
    <2>1. Moved(AfterFlush(w))
      BY <1>7, FlushTargets DEF CommitFails, FlushFails, stage, queues, history
    <2> QED
      BY <1>1, <2>1, Zenon
  <1>8. CASE FlushTick(w)
    <2>1. Moved(FlushStart)
      BY <1>8, FlushTargets DEF FlushTick, stage, queues, history
    <2> QED
      BY <1>1, <2>1, Zenon
  <1>9. CASE WorkerStops(w)
    <2>1. Moved(Gone) \/ Moved(FlushStart)
      BY <1>9, FlushTargets, Zenon DEF WorkerStops, queues, history
    <2> QED
      BY <1>1, <2>1
  <1> QED
    BY <1>2, <1>3, <1>4, <1>5, <1>6, <1>7, <1>8, <1>9

\* The circuits and the phases of the server move no batch either.
LEMMA PhasesKeepIInv ==
    ASSUME IInv,
           \/ UNCHANGED vars \/ Shutdown \/ Joined \/ Crash
           \/ \E s \in ToSet(Remotes) : CircuitCloses(s)
    PROVE  IInv'
  <1>1. /\ UNCHANGED <<log, recovered, channel, buffer, flush, sent, accepted, persisted>>
        /\ phase' \in {"serving", "stopping"} => phase \in {"serving", "stopping"}
    BY DEF vars, Shutdown, Joined, Crash, CircuitCloses, stage, queues, history
  <1>2. flush' \in [Workers -> FlushStates]
    BY <1>1 DEF IInv, Tables
  <1> QED
    BY <1>1, <1>2, FlushStepsKeepIInv

\* start_worker puts the oldest recovered batch behind what its partition has.
LEMMA ReplayKeepsIInv ==
    ASSUME IInv, ReplayRecovered
    PROVE  IInv'
  <1> USE DEF IInv
  <1>1. CASE recovered = <<>>
    <2>1. UNCHANGED <<log, recovered, channel, buffer, flush, sent, accepted, persisted>>
      BY <1>1 DEF ReplayRecovered, queues, history
    <2> QED
      BY <1>1, <2>1 DEF Tables, SentInOrder, ReplayFirst, OfPartition, LogOnItsWay,
         WayInOrder, CommitsPersisted, CommittedIsPersisted, PartitionOrder
  <1>2. CASE recovered # <<>>
    <2> DEFINE b == Head(recovered)
               v == PartitionOf[b]
    <2>1. /\ channel' = [channel EXCEPT ![v] = Append(@, b)]
          /\ recovered' = Tail(recovered) /\ phase' = "replaying"
          /\ UNCHANGED <<log, buffer, flush, sent, accepted, persisted>>
      BY <1>2 DEF ReplayRecovered, Enqueue, history
    <2>2. /\ b \in Batches /\ b \in Nat /\ v \in Workers /\ b \in ToSet(recovered)
          /\ recovered' \in Seq(Batches)
          /\ ToSet(recovered) = {b} \cup ToSet(recovered')
          /\ Increasing(recovered') /\ \A c \in ToSet(recovered') : b < c
      BY <1>2, <2>1, TailSet, FlushAssumption, Zenon DEF Tables, WayInOrder
    <2>3. /\ channel[v] \in Seq(Batches) /\ channel[v] \in Seq(Nat)
          /\ Increasing(channel[v]) /\ \A c \in ToSet(channel[v]) : c < b
      BY <2>2, SeqMonotonic, FlushAssumption, Zenon DEF Tables, WayInOrder
    <2>4. /\ channel'[v] \in Seq(Batches) /\ ToSet(channel'[v]) = ToSet(channel[v]) \cup {b}
          /\ Increasing(channel'[v])
      <3>1. channel'[v] = Append(channel[v], b)
        BY <2>1, <2>2 DEF Tables
      <3> QED
        BY <2>2, <2>3, <3>1, AppendSet, AppendIncreasing
    <2>5. /\ channel' \in [Workers -> Seq(Batches)]
          /\ \A w \in Workers : w # v => channel'[w] = channel[w]
      BY <2>1, <2>2, <2>4 DEF Tables
    <2>6. Tables' /\ SentInOrder' /\ ReplayFirst'
      BY <2>1, <2>2, <2>5 DEF Tables, SentInOrder, ReplayFirst
    <2>7. OfPartition'
      BY <2>1, <2>2, <2>4, <2>5 DEF OfPartition
    <2>8. LogOnItsWay'
      BY <2>1, <2>2, <2>4, <2>5, FlushAssumption DEF LogOnItsWay, Tables
    <2>9. WayInOrder'
      <3> HIDE DEF b, v
      <3>1. ASSUME NEW w \in Workers
            PROVE  /\ Increasing(channel'[w])
                   /\ \A c \in ToSet(buffer[w]), d \in ToSet(channel'[w]) : c < d
                   /\ \A c \in ToSet(buffer[w]) \cup ToSet(channel'[w]), d \in ToSet(recovered') :
                         PartitionOf[d] = w => c < d
        <4>1. /\ Increasing(channel[w])
              /\ \A c \in ToSet(buffer[w]), d \in ToSet(channel[w]) : c < d
              /\ \A c \in ToSet(buffer[w]) \cup ToSet(channel[w]), d \in ToSet(recovered) :
                    PartitionOf[d] = w => c < d
          BY DEF WayInOrder
        <4>2. CASE w # v
          BY <2>2, <2>5, <4>1, <4>2
        <4>3. CASE w = v
          <5>1. ToSet(channel'[w]) = ToSet(channel[w]) \cup {b} /\ Increasing(channel'[w])
            BY <2>4, <4>3
          <5>2. \A c \in ToSet(buffer[w]) : c < b
            BY <2>2, <4>1, <4>3 DEF v
          <5> QED
            BY <2>2, <4>1, <5>1, <5>2
        <4> QED
          BY <4>2, <4>3
      <3> QED
        BY <2>1, <2>2, <3>1 DEF WayInOrder
    <2>10. CommitsPersisted' /\ CommittedIsPersisted' /\ PartitionOrder'
      BY <2>1 DEF CommitsPersisted, CommittedIsPersisted, PartitionOrder
    <2> QED
      BY <2>6, <2>7, <2>8, <2>9, <2>10
  <1> QED
    BY <1>1, <1>2

\* A batch is accepted behind everything that was sent before it.
LEMMA AckKeepsIInv ==
    ASSUME IInv, NEW b \in Batches, AckBatch(b)
    PROVE  IInv'
  <1> USE DEF IInv
  <1> DEFINE v == PartitionOf[b]
  <1>1. /\ phase = "serving" /\ phase' = "serving" /\ recovered = <<>> /\ b \notin sent
        /\ sent' = sent \cup {b} /\ UNCHANGED <<recovered, buffer, flush, persisted>>
    BY DEF AckBatch, stage, ReplayFirst
  <1>2. /\ b \in Nat /\ v \in Workers /\ ToSet(recovered) = {}
        /\ \A c \in Batches \ sent : b <= c
        /\ \A c \in sent : c < b
    BY <1>1, FlushAssumption DEF AckBatch, SentInOrder, ToSet
  <1>3. SentInOrder'
    <2>1. \A c \in Batches \ sent' : b < c
      BY <1>1, <1>2, FlushAssumption
    <2> QED
      BY <1>1, <2>1 DEF SentInOrder
  <1>4. CASE UNCHANGED <<channel, log, accepted>>
    BY <1>1, <1>3, <1>4 DEF Tables, ReplayFirst, OfPartition, LogOnItsWay,
       WayInOrder, CommitsPersisted, CommittedIsPersisted, PartitionOrder
  <1>5. CASE /\ channel' = [channel EXCEPT ![v] = Append(@, b)]
             /\ log' = log \cup {b} /\ accepted' = accepted \cup {b}
    <2>1. /\ channel[v] \in Seq(Batches) /\ channel[v] \in Seq(Nat)
          /\ Increasing(channel[v]) /\ \A c \in ToSet(channel[v]) : c < b
      BY <1>2, SeqMonotonic, FlushAssumption, Zenon DEF Tables, WayInOrder, OfPartition
    <2>2. /\ channel'[v] \in Seq(Batches) /\ ToSet(channel'[v]) = ToSet(channel[v]) \cup {b}
          /\ Increasing(channel'[v])
      <3>1. channel'[v] = Append(channel[v], b)
        BY <1>2, <1>5 DEF Tables
      <3> QED
        <4>1. Append(channel[v], b) \in Seq(Batches) /\ ToSet(Append(channel[v], b)) = ToSet(channel[v]) \cup {b}
          BY <1>2, <2>1, AppendSet
        <4>2. Increasing(Append(channel[v], b))
          BY <1>2, <2>1, AppendIncreasing
        <4> QED
          BY <3>1, <4>1, <4>2
    <2>3. /\ channel' \in [Workers -> Seq(Batches)]
          /\ \A w \in Workers : w # v => channel'[w] = channel[w]
      BY <1>2, <1>5, <2>2 DEF Tables
    <2>4. Tables' /\ ReplayFirst'
      BY <1>1, <1>5, <2>3, FS_AddElement, Zenon DEF Tables, ReplayFirst
    <2>5. OfPartition'
      BY <1>1, <1>5, <2>2, <2>3 DEF OfPartition
    <2>6. LogOnItsWay'
      BY <1>1, <1>2, <1>5, <2>2, <2>3, FlushAssumption DEF LogOnItsWay, Tables
    <2>7. WayInOrder'
      <3>1. \A w \in Workers : \A c \in ToSet(buffer[w]) : c < b
        BY <1>2, Zenon DEF OfPartition, Tables
      <3> QED
        BY <1>1, <1>2, <2>2, <2>3, <3>1 DEF WayInOrder
    <2>8. CommitsPersisted' /\ CommittedIsPersisted'
      BY <1>1, <1>5 DEF CommitsPersisted, CommittedIsPersisted
    <2>9. PartitionOrder'
      <3>1. \A c \in persisted : c \in Nat /\ c < b
        BY <1>2, FlushAssumption, Zenon DEF Tables
      <3>2. \A c \in persisted : ~(b < c)
        BY <1>2, <3>1
      <3> QED
        BY <1>1, <1>5, <3>2 DEF PartitionOrder
    <2> QED
      BY <1>3, <2>4, <2>5, <2>6, <2>7, <2>8, <2>9
  <1> QED
    BY <1>4, <1>5 DEF AckBatch, Enqueue

\* A worker buffers the first batch of its queue, behind those it has.
LEMMA ReceiveKeepsIInv ==
    ASSUME IInv, NEW v \in Workers, Receive(v)
    PROVE  IInv'
  <1> USE DEF IInv
  <1> DEFINE b == Head(channel[v])
  <1>1. /\ channel[v] # <<>> /\ flush[v] = Idle
        /\ channel' = [channel EXCEPT ![v] = Tail(@)]
        /\ buffer' = [buffer EXCEPT ![v] = Append(@, b)]
        /\ UNCHANGED <<phase, log, recovered, sent, accepted, persisted>>
    BY DEF Receive, stage, history
  <1>2. /\ b \in Batches /\ b \in ToSet(channel[v])
        /\ channel'[v] \in Seq(Batches) /\ Increasing(channel'[v])
        /\ ToSet(channel[v]) = {b} \cup ToSet(channel'[v])
        /\ \A c \in ToSet(channel'[v]) : b < c
    <2>1. channel[v] \in Seq(Batches) /\ Increasing(channel[v]) /\ channel'[v] = Tail(channel[v])
      BY <1>1 DEF Tables, WayInOrder
    <2> QED
      BY <1>1, <2>1, TailSet
  <1>3. buffer'[v] \in Seq(Batches) /\ ToSet(buffer'[v]) = ToSet(buffer[v]) \cup {b}
    <2>1. buffer[v] \in Seq(Batches) /\ buffer'[v] = Append(buffer[v], b)
      BY <1>1 DEF Tables
    <2> QED
      BY <1>2, <2>1, AppendSet
  <1>4. /\ channel' \in [Workers -> Seq(Batches)] /\ buffer' \in [Workers -> Seq(Batches)]
        /\ \A w \in Workers : w # v => channel'[w] = channel[w] /\ buffer'[w] = buffer[w]
    BY <1>1, <1>2, <1>3 DEF Tables
  <1>5. /\ flush' \in [Workers -> FlushStates] /\ flush'[v].at # "commit"
        /\ \A w \in Workers : w # v => flush'[w] = flush[w]
    BY FlushTargets DEF Receive, Tables
  <1>6. Tables' /\ SentInOrder' /\ ReplayFirst'
    BY <1>1, <1>4, <1>5 DEF Tables, SentInOrder, ReplayFirst
  <1>7. OfPartition'
    BY <1>1, <1>2, <1>3, <1>4 DEF OfPartition
  <1>8. LogOnItsWay'
    BY <1>1, <1>2, <1>3, <1>4, FlushAssumption, Zenon DEF LogOnItsWay, Tables
  <1>9. WayInOrder'
    BY <1>1, <1>2, <1>3, <1>4, Zenon DEF WayInOrder
  <1>10. CommitsPersisted' /\ CommittedIsPersisted' /\ PartitionOrder'
    BY <1>1, <1>4, <1>5 DEF CommitsPersisted, CommittedIsPersisted, PartitionOrder
  <1> QED
    BY <1>6, <1>7, <1>8, <1>9, <1>10

\* A commit takes out of the log exactly the buffer, which a sink holds.
LEMMA CommitKeepsIInv ==
    ASSUME IInv, NEW v \in Workers, Commit(v)
    PROVE  IInv'
  <1> USE DEF IInv
  <1>1. /\ flush[v].at = "commit" /\ log' = log \ ToSet(buffer[v])
        /\ buffer' = [buffer EXCEPT ![v] = <<>>]
        /\ flush' = [flush EXCEPT ![v] = AfterFlush(v)]
        /\ UNCHANGED <<phase, recovered, channel, sent, accepted, persisted>>
    BY DEF Commit, Committed, stage, queues, history
  <1>2. /\ buffer' \in [Workers -> Seq(Batches)] /\ ToSet(buffer'[v]) = {}
        /\ \A w \in Workers : w # v => buffer'[w] = buffer[w]
    BY <1>1 DEF Tables, ToSet
  <1>3. /\ flush' \in [Workers -> FlushStates] /\ flush'[v].at # "commit"
        /\ \A w \in Workers : w # v => flush'[w] = flush[w]
    BY <1>1, FlushTargets DEF Tables
  <1>4. Tables' /\ SentInOrder' /\ ReplayFirst'
    BY <1>1, <1>2, <1>3, FS_Difference, Zenon DEF Tables, SentInOrder, ReplayFirst
  <1>5. OfPartition' /\ WayInOrder'
    BY <1>1, <1>2, Zenon DEF OfPartition, WayInOrder
  <1>6. LogOnItsWay'
    BY <1>1, <1>2, FlushAssumption, Zenon DEF LogOnItsWay, Tables
  <1>7. CommitsPersisted' /\ CommittedIsPersisted' /\ PartitionOrder'
    BY <1>1, <1>2, <1>3 DEF CommitsPersisted, CommittedIsPersisted, PartitionOrder
  <1> QED
    BY <1>4, <1>5, <1>6, <1>7

\* A new start recovers the whole log, oldest first, and nothing else.
LEMMA RestartKeepsIInv ==
    ASSUME IInv, Restart
    PROVE  IInv'
  <1> USE DEF IInv
  <1>1. /\ phase' = "replaying" /\ recovered' = Ordered(log)
        /\ channel' = [w \in Workers |-> <<>>] /\ buffer' = [w \in Workers |-> <<>>]
        /\ flush' = [w \in Workers |-> Idle]
        /\ UNCHANGED <<log, sent, accepted, persisted>>
    BY DEF Restart, history
  <1>2. log \in SUBSET Nat /\ log \subseteq Batches
    BY FlushAssumption DEF Tables
  <1>3. recovered' \in Seq(log) /\ ToSet(recovered') = log /\ Increasing(recovered')
    BY <1>1, <1>2, OrderedSeq DEF Tables
  <1>4. recovered' \in Seq(Batches)
    BY <1>2, <1>3, SeqMonotonic, Zenon
  <1>5. ToSet(<<>>) = {} /\ Increasing(<<>>) /\ <<>> \in Seq(Batches)
    BY DEF ToSet, Increasing
  <1>6. Tables' /\ SentInOrder' /\ ReplayFirst'
    BY <1>1, <1>4, <1>5, FlushTargets DEF Tables, SentInOrder, ReplayFirst
  <1>7. OfPartition' /\ LogOnItsWay' /\ WayInOrder'
    BY <1>1, <1>3, <1>5 DEF OfPartition, LogOnItsWay, WayInOrder, Tables
  <1>8. CommitsPersisted' /\ CommittedIsPersisted' /\ PartitionOrder'
    BY <1>1, FlushTargets DEF CommitsPersisted, CommittedIsPersisted, PartitionOrder
  <1> QED
    BY <1>6, <1>7, <1>8

-----------------------------------------------------------------------------

\* Every step of the server keeps the invariant.
LEMMA NextIInv == IInv /\ [Next]_vars => IInv'
  <1> SUFFICES ASSUME IInv, [Next]_vars PROVE IInv'
    OBVIOUS
  <1>1. CASE \/ UNCHANGED vars \/ Shutdown \/ Joined \/ Crash
             \/ \E s \in ToSet(Remotes) : CircuitCloses(s)
    BY <1>1, PhasesKeepIInv
  <1>2. CASE \E w \in Workers : WorkerStep(w)
    BY <1>2, AttemptsKeepIInv, ReceiveKeepsIInv, CommitKeepsIInv DEF WorkerStep, FlushStep
  <1>3. CASE \E b \in Batches : AckBatch(b)
    BY <1>3, AckKeepsIInv
  <1> QED
    BY <1>1, <1>2, <1>3, ReplayKeepsIInv, RestartKeepsIInv DEF Next

\* "Persist pending batches ... then commit": whatever the sinks, the circuits
\* and the stops do, flush_pending commits no batch that no sink holds.
THEOREM CommitsOnlyPersisted == Spec => []CommittedIsPersisted
  <1>1. IInv => CommittedIsPersisted
    BY DEF IInv
  <1> QED
    BY <1>1, InitIInv, NextIInv, PTL DEF Spec

\* The batches of one tenant and host reach the sinks in the order ack_batch
\* took them, through the replays of start_worker too.
THEOREM PersistsInOrder == Spec => []PartitionOrder
  <1>1. IInv => PartitionOrder
    BY DEF IInv
  <1> QED
    BY <1>1, InitIInv, NextIInv, PTL DEF Spec
\* No batch is stranded: what the log holds is in the replay list, in its
\* partition's queue or in its worker's buffer, and so reaches a flush.
THEOREM NothingStranded == Spec => []LogOnItsWay
  <1>1. IInv => LogOnItsWay
    BY DEF IInv
  <1> QED
    BY <1>1, InitIInv, NextIInv, PTL DEF Spec
=============================================================================
