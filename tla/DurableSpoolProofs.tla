------------------------- MODULE DurableSpoolProofs -------------------------
(***************************************************************************)
(* The spool for any number of records, any capacity and threshold, and   *)
(* whatever a damaged file decodes to: what was acknowledged is never read *)
(* again, what was accepted and not acknowledged is, and what a reader     *)
(* gets implements DurableQueue.  Before that: what recover_tail and a     *)
(* reader find in a file of any length, where the scan for a torn tail     *)
(* stops, and how both change when a record is appended or the             *)
(* acknowledged ones are cut off.                                          *)
(***************************************************************************)
EXTENDS DurableSpool, SequenceTheorems, WellFoundedInduction, TLAPS

-----------------------------------------------------------------------------
(* Induction from the end of the file, and scans that hop towards it. *)

\* What holds at an offset when it holds at all later ones, holds everywhere.
LEMMA DownwardInduction ==
    ASSUME NEW n \in Nat, NEW S,
           \A o \in 0 .. n : (\A p \in 0 .. n : p > o => p \in S) => o \in S
    PROVE  \A o \in 0 .. n : o \in S
  <1> DEFINE T == {d \in 0 .. n : n - d \notin S}
  <1>1. SUFFICES ASSUME T # {} PROVE FALSE
    <2> SUFFICES ASSUME NEW o \in 0 .. n, o \notin S PROVE T # {}
      OBVIOUS
    <2>1. n - o \in 0 .. n /\ n - (n - o) = o
      OBVIOUS
    <2>2. n - o \in T
      BY <2>1
    <2> QED
      BY <2>2, Zenon
  <1>2. PICK d \in T : \A e \in T : ~(<<e, d>> \in OpToRel(<, Nat))
    <2>1. T \subseteq Nat
      OBVIOUS
    <2> QED
      BY <1>1, <2>1, NatLessThanWellFounded, WFMin, Zenon
  <1>3. \A e \in T : ~(e < d)
    <2>1. \A e \in T : e \in Nat /\ d \in Nat
      OBVIOUS
    <2>2. \A e \in T : e < d => <<e, d>> \in {ss \in Nat \X Nat : ss[1] < ss[2]}
      BY <2>1
    <2>3. OpToRel(<, Nat) = {ss \in Nat \X Nat : ss[1] < ss[2]}
      BY DEF OpToRel
    <2> QED
      BY <1>2, <2>2, <2>3, Zenon
  <1>4. \A p \in 0 .. n : p > n - d => p \in S
    <2> TAKE p \in 0 .. n
    <2> HAVE p > n - d
    <2>1. n - p \in 0 .. n /\ n - p < d /\ n - (n - p) = p
      OBVIOUS
    <2> QED
      BY <1>3, <2>1
  <1> QED
    BY <1>4

\* From every offset up to n, `next' goes forward or the scan stops.
Forward(n, stop, next) == \A o \in 0 .. n : o \notin stop => next[o] \in (o + 1) .. n

\* g[o] is where the scan stops that starts at o.
IsHops(g, n, stop, next) ==
    /\ g = [o \in 0 .. n |-> g[o]]
    /\ \A o \in 0 .. n : g[o] = IF o \in stop THEN o ELSE g[next[o]]

\* g[o] is what it collects on the way.
IsReads(g, n, stop, next, item) ==
    /\ g = [o \in 0 .. n |-> g[o]]
    /\ \A o \in 0 .. n : g[o] = IF o \in stop THEN <<>> ELSE <<item[o]>> \o g[next[o]]

\* A scan that hops forward and keeps the last offset defines a function.
LEMMA HopsExist ==
    ASSUME NEW n \in Nat, NEW stop, NEW next, Forward(n, stop, next)
    PROVE  \E g : IsHops(g, n, stop, next)
  <1> DEFINE Good(k, g) == g = [o \in k .. n |-> IF o \in stop THEN o ELSE g[next[o]]]
             S == {k \in 0 .. n : \E g : Good(k, g)}
  <1>1. ASSUME NEW k \in 0 .. n, \A p \in 0 .. n : p > k => p \in S
        PROVE  k \in S
    <2>1. PICK g : k < n => Good(k + 1, g)
      <3>1. CASE k < n
        <4>1. k + 1 \in S
          <5> HIDE DEF S
          <5> QED
            BY <1>1, <3>1
        <4> QED
          BY <4>1
      <3> QED
        BY <3>1
    <2> DEFINE h == [o \in k .. n |-> IF o = k THEN (IF k \in stop THEN k ELSE g[next[k]]) ELSE g[o]]
    <2>2. \A o \in k .. n : o # k => k < n /\ o \in (k + 1) .. n
      OBVIOUS
    <2>3. \A o \in k .. n : o \notin stop => next[o] \in (k + 1) .. n /\ next[o] \in k .. n /\ next[o] # k
      BY DEF Forward
    <2>4. ASSUME NEW o \in k .. n PROVE h[o] = IF o \in stop THEN o ELSE h[next[o]]
      <3>1. CASE o = k
        BY <2>3, <3>1
      <3>2. CASE o # k
        <4>1. Good(k + 1, g) /\ o \in (k + 1) .. n
          BY <2>1, <2>2, <3>2
        <4>2. g[o] = IF o \in stop THEN o ELSE g[next[o]]
          BY <4>1
        <4> QED
          BY <2>3, <3>2, <4>2
      <3> QED
        BY <3>1, <3>2
    <2>5. Good(k, h)
      BY <2>4
    <2> QED
      BY <2>5, Zenon
  <1>2. 0 \in S
    <2> HIDE DEF S
    <2>1. \A k \in 0 .. n : k \in S
      BY <1>1, DownwardInduction
    <2> QED
      BY <2>1
  <1>3. PICK g : Good(0, g)
    BY <1>2
  <1>4. IsHops(g, n, stop, next)
    BY <1>3 DEF IsHops
  <1> QED
    BY <1>4

\* And so does one that collects what it meets on the way.
LEMMA ReadsExist ==
    ASSUME NEW n \in Nat, NEW stop, NEW next, NEW item, Forward(n, stop, next)
    PROVE  \E g : IsReads(g, n, stop, next, item)
  <1> DEFINE Good(k, g) == g = [o \in k .. n |-> IF o \in stop THEN <<>> ELSE <<item[o]>> \o g[next[o]]]
             S == {k \in 0 .. n : \E g : Good(k, g)}
  <1>1. ASSUME NEW k \in 0 .. n, \A p \in 0 .. n : p > k => p \in S
        PROVE  k \in S
    <2>1. PICK g : k < n => Good(k + 1, g)
      <3>1. CASE k < n
        <4>1. k + 1 \in S
          <5> HIDE DEF S
          <5> QED
            BY <1>1, <3>1
        <4> QED
          BY <4>1
      <3> QED
        BY <3>1, Zenon
    <2> DEFINE h == [o \in k .. n |-> IF o = k THEN (IF k \in stop THEN <<>> ELSE <<item[k]>> \o g[next[k]])
                                      ELSE g[o]]
    <2>2. \A o \in k .. n : o # k => k < n /\ o \in (k + 1) .. n
      OBVIOUS
    <2>3. \A o \in k .. n : o \notin stop => next[o] \in (k + 1) .. n /\ next[o] \in k .. n /\ next[o] # k
      BY DEF Forward
    <2>4. ASSUME NEW o \in k .. n
          PROVE  h[o] = IF o \in stop THEN <<>> ELSE <<item[o]>> \o h[next[o]]
      <3>1. CASE o = k
        BY <2>3, <3>1
      <3>2. CASE o # k
        <4>1. Good(k + 1, g) /\ o \in (k + 1) .. n
          BY <2>1, <2>2, <3>2, Zenon
        <4>2. g[o] = IF o \in stop THEN <<>> ELSE <<item[o]>> \o g[next[o]]
          BY <4>1, Zenon
        <4> QED
          BY <2>3, <3>2, <4>2
      <3> QED
        BY <3>1, <3>2
    <2>5. Good(k, h)
      BY <2>4
    <2> QED
      BY <2>5, Zenon
  <1>2. 0 \in S
    <2> HIDE DEF S
    <2>1. \A k \in 0 .. n : k \in S
      BY <1>1, DownwardInduction
    <2> QED
      BY <2>1
  <1>3. PICK g : Good(0, g)
    BY <1>2, Zenon
  <1>4. IsReads(g, n, stop, next, item)
    BY <1>3, Zenon DEF IsReads
  <1> QED
    BY <1>4

-----------------------------------------------------------------------------
(* What recover_tail and a reader find in a file. *)

Cell == Records \X (1..3)

\* A reader that has reached offset o gets a record there.
Readable(f, o) == o # Len(f) /\ o + LengthAt(f, o) <= Len(f) /\ IsRecordAt(f, o)

\* A hop always goes forward.
LEMMA HopsForward ==
    ASSUME NEW f \in Seq(Cell)
    PROVE  /\ Len(f) \in Nat /\ DOMAIN f = 1 .. Len(f) /\ f \in [1 .. Len(f) -> Cell]
           /\ \A o \in 0 .. Len(f) : o # Len(f) => o + 1 \in 1 .. Len(f) /\ LengthAt(f, o) \in Nat \ {0}
  <1> DEFINE n == Len(f)
  <1>1. n \in Nat /\ DOMAIN f = 1 .. n /\ f \in [1 .. n -> Cell]
    BY LenProperties
  <1> HIDE DEF n
  <1>2. ASSUME NEW o \in 0 .. n, o # n PROVE o + 1 \in 1 .. n /\ LengthAt(f, o) \in Nat \ {0}
    <2>1. o + 1 \in 1 .. n
      BY <1>1, <1>2
    <2>2. f[o + 1] \in Records \X (1..3)
      BY <1>1, <2>1 DEF Cell
    <2>3. f[o + 1][1] \in Nat
      BY <2>2 DEF Records
    <2> QED
      BY <2>1, <2>3, SpoolAssumption DEF LengthAt, SizeOf
  <1> QED
    BY <1>1, <1>2, Zenon DEF n

\* The function WholeLength applies to offset 0.
WholeAt(f) ==
    CHOOSE at : at = [o \in 0 .. Len(f) |-> IF o = Len(f) THEN o
                                            ELSE IF o + LengthAt(f, o) > Len(f) THEN o
                                            ELSE at[o + LengthAt(f, o)]]

\* It is what its definition says.
LEMMA WholeUnfolds ==
    ASSUME NEW f \in Seq(Cell)
    PROVE  /\ WholeLength(f) = WholeAt(f)[0]
           /\ \A o \in 0 .. Len(f) :
                 WholeAt(f)[o] = IF o = Len(f) THEN o
                                 ELSE IF o + LengthAt(f, o) > Len(f) THEN o
                                 ELSE WholeAt(f)[o + LengthAt(f, o)]
  <1> DEFINE n == Len(f)
             stop == {o \in 0 .. n : o = n \/ o + LengthAt(f, o) > n}
             next == [o \in 0 .. n |-> o + LengthAt(f, o)]
  <1>1. n \in Nat /\ \A o \in 0 .. n : o # n => LengthAt(f, o) \in Nat \ {0}
    BY HopsForward
  <1>2. Forward(n, stop, next)
    BY <1>1 DEF Forward
  <1>3. \E h : IsHops(h, n, stop, next)
    <2> HIDE DEF stop, next, n
    <2> QED
      BY <1>1, <1>2, HopsExist
  <1>4. PICK h : IsHops(h, n, stop, next)
    BY <1>3
  <1>5. h = [o \in 0 .. n |-> IF o = n THEN o
                              ELSE IF o + LengthAt(f, o) > n THEN o
                              ELSE h[o + LengthAt(f, o)]]
    <2>1. \A o \in 0 .. n : h[o] = IF o = n THEN o
                                   ELSE IF o + LengthAt(f, o) > n THEN o
                                   ELSE h[o + LengthAt(f, o)]
      BY <1>4 DEF IsHops
    <2>2. h = [o \in 0 .. n |-> h[o]]
      BY <1>4 DEF IsHops
    <2> QED
      BY <2>1, <2>2
  <1>6. WholeAt(f) = [o \in 0 .. n |-> IF o = n THEN o
                                       ELSE IF o + LengthAt(f, o) > n THEN o
                                       ELSE WholeAt(f)[o + LengthAt(f, o)]]
    BY <1>5, Zenon DEF WholeAt
  <1>7. WholeLength(f) = WholeAt(f)[0]
    BY DEF WholeLength, WholeAt
  <1> QED
    BY <1>6, <1>7

\* recover_tail never goes beyond the file.
LEMMA WholeWithin ==
    ASSUME NEW f \in Seq(Cell)
    PROVE  WholeLength(f) \in 0 .. Len(f)
  <1> DEFINE n == Len(f)
             at == WholeAt(f)
             S == {o \in 0 .. n : at[o] \in 0 .. n}
  <1>1. n \in Nat /\ \A o \in 0 .. n : o # n => LengthAt(f, o) \in Nat \ {0}
    BY HopsForward
  <1>2. /\ WholeLength(f) = at[0]
        /\ \A o \in 0 .. n : at[o] = IF o = n THEN o
                                     ELSE IF o + LengthAt(f, o) > n THEN o
                                     ELSE at[o + LengthAt(f, o)]
    BY WholeUnfolds
  <1> HIDE DEF n, at
  <1>3. ASSUME NEW o \in 0 .. n, \A p \in 0 .. n : p > o => p \in S PROVE o \in S
    <2>1. CASE o = n \/ o + LengthAt(f, o) > n
      BY <1>2, <2>1
    <2>2. CASE o # n /\ ~(o + LengthAt(f, o) > n)
      <3>1. o + LengthAt(f, o) \in 0 .. n /\ o + LengthAt(f, o) > o
        BY <1>1, <2>2
      <3> QED
        BY <1>2, <1>3, <2>2, <3>1
    <2> QED
      BY <2>1, <2>2
  <1>4. 0 \in S
    <2> HIDE DEF S
    <2>1. \A o \in 0 .. n : o \in S
      BY <1>1, <1>3, DownwardInduction, Zenon
    <2> QED
      BY <1>1, <2>1
  <1> QED
    BY <1>2, <1>4 DEF n

\* The function RecordsFrom applies to an offset.
ReadAt(f) ==
    CHOOSE at : at = [o \in 0 .. Len(f) |-> IF o = Len(f) THEN <<>>
                                            ELSE IF o + LengthAt(f, o) > Len(f) THEN <<>>
                                            ELSE IF ~IsRecordAt(f, o) THEN <<>>
                                            ELSE <<f[o + 1][1]>> \o at[o + LengthAt(f, o)]]

\* A reader takes the record it has reached and goes on behind it.
LEMMA ReadsOn ==
    ASSUME NEW f \in Seq(Cell), NEW o \in 0 .. Len(f)
    PROVE  /\ ~Readable(f, o) => RecordsFrom(f, o) = <<>>
           /\ Readable(f, o) =>
                 RecordsFrom(f, o) = <<f[o + 1][1]>> \o RecordsFrom(f, o + LengthAt(f, o))
  <1> DEFINE n == Len(f)
             stop == {p \in 0 .. n : ~Readable(f, p)}
             next == [p \in 0 .. n |-> p + LengthAt(f, p)]
             item == [p \in 0 .. n |-> f[p + 1][1]]
  <1>1. n \in Nat /\ \A p \in 0 .. n : p # n => LengthAt(f, p) \in Nat \ {0}
    BY HopsForward
  <1>2. Forward(n, stop, next)
    BY <1>1 DEF Forward, Readable
  <1>3. \E h : IsReads(h, n, stop, next, item)
    <2> HIDE DEF stop, next, item, n
    <2> QED
      BY <1>1, <1>2, ReadsExist
  <1>4. PICK h : IsReads(h, n, stop, next, item)
    BY <1>3, Zenon
  <1>5. h = [p \in 0 .. n |-> IF p = n THEN <<>>
                              ELSE IF p + LengthAt(f, p) > n THEN <<>>
                              ELSE IF ~IsRecordAt(f, p) THEN <<>>
                              ELSE <<f[p + 1][1]>> \o h[p + LengthAt(f, p)]]
    <2>1. ASSUME NEW p \in 0 .. n
          PROVE  h[p] = IF p = n THEN <<>>
                        ELSE IF p + LengthAt(f, p) > n THEN <<>>
                        ELSE IF ~IsRecordAt(f, p) THEN <<>>
                        ELSE <<f[p + 1][1]>> \o h[p + LengthAt(f, p)]
      <3>1. h[p] = IF p \in stop THEN <<>> ELSE <<item[p]>> \o h[next[p]]
        BY <1>4, Zenon DEF IsReads
      <3>2. p \in stop <=> (p = n \/ p + LengthAt(f, p) > n \/ ~IsRecordAt(f, p))
        BY <1>1 DEF Readable
      <3>3. next[p] = p + LengthAt(f, p) /\ item[p] = f[p + 1][1]
        OBVIOUS
      <3> HIDE DEF stop, next, item
      <3> QED
        BY <3>1, <3>2, <3>3
    <2>2. h = [p \in 0 .. n |-> h[p]]
      BY <1>4 DEF IsReads
    <2> QED
      BY <2>1, <2>2, Zenon
  <1>6. ReadAt(f) = [p \in 0 .. n |-> IF p = n THEN <<>>
                                      ELSE IF p + LengthAt(f, p) > n THEN <<>>
                                      ELSE IF ~IsRecordAt(f, p) THEN <<>>
                                      ELSE <<f[p + 1][1]>> \o ReadAt(f)[p + LengthAt(f, p)]]
    BY <1>5, Zenon DEF ReadAt
  <1>7. \A p : RecordsFrom(f, p) = ReadAt(f)[p]
    BY DEF RecordsFrom, ReadAt
  <1>8. ReadAt(f)[o] = IF o = n THEN <<>>
                       ELSE IF o + LengthAt(f, o) > n THEN <<>>
                       ELSE IF ~IsRecordAt(f, o) THEN <<>>
                       ELSE <<f[o + 1][1]>> \o ReadAt(f)[o + LengthAt(f, o)]
    BY <1>6, Zenon
  <1>9. Readable(f, o) <=> ~(o = n) /\ ~(o + LengthAt(f, o) > n) /\ IsRecordAt(f, o)
    BY <1>1 DEF Readable
  <1> HIDE DEF n
  <1> QED
    BY <1>7, <1>8, <1>9, Zenon

\* What a reader gets is in the file, behind the offset it starts at.
LEMMA ReadsWhatIsThere ==
    ASSUME NEW f \in Seq(Cell), NEW from \in 0 .. Len(f)
    PROVE  /\ RecordsFrom(f, from) \in Seq(Records)
           /\ \A i \in DOMAIN RecordsFrom(f, from) :
                 \E p \in (from + 1) .. Len(f) : f[p][1] = RecordsFrom(f, from)[i]
  <1> DEFINE n == Len(f)
             Good(o) == /\ RecordsFrom(f, o) \in Seq(Records)
                        /\ \A i \in DOMAIN RecordsFrom(f, o) :
                              \E p \in (o + 1) .. n : f[p][1] = RecordsFrom(f, o)[i]
             S == {o \in 0 .. n : Good(o)}
  <1>1. /\ n \in Nat /\ f \in [1 .. n -> Cell]
        /\ \A o \in 0 .. n : o # n => o + 1 \in 1 .. n /\ LengthAt(f, o) \in Nat \ {0}
    BY HopsForward
  <1>2. ASSUME NEW o \in 0 .. n, \A p \in 0 .. n : p > o => p \in S PROVE Good(o)
    <2>1. CASE ~Readable(f, o)
      <3>1. RecordsFrom(f, o) = <<>>
        BY <2>1, ReadsOn, Zenon
      <3> QED
        BY <3>1
    <2>2. CASE Readable(f, o)
      <3> DEFINE q == o + LengthAt(f, o)
                 rest == RecordsFrom(f, q)
                 x == f[o + 1][1]
      <3>1. o # n /\ q \in 0 .. n /\ q > o
        <4>1. o # n /\ q <= n
          BY <2>2 DEF Readable
        <4>2. LengthAt(f, o) \in Nat \ {0}
          BY <1>1, <4>1, Zenon
        <4> HIDE DEF n
        <4> QED
          BY <1>1, <4>1, <4>2
      <3>2. rest \in Seq(Records) /\ \A i \in DOMAIN rest : \E p \in (q + 1) .. n : f[p][1] = rest[i]
        BY <1>2, <3>1, Zenon
      <3>3. RecordsFrom(f, o) = <<x>> \o rest
        BY <2>2, ReadsOn
      <3>4. o + 1 \in 1 .. n /\ f[o + 1] \in Records \X (1..3)
        BY <1>1, <3>1, Zenon DEF Cell
      <3>5. x \in Records
        BY <3>4
      <3> HIDE DEF rest, q, x, n
      <3>6. <<x>> \in Seq(Records) /\ Len(<<x>>) = 1 /\ <<x>>[1] = x
        BY <3>5
      <3>7. Len(rest) \in Nat /\ DOMAIN rest = 1 .. Len(rest)
        BY <3>2, LenProperties
      <3>8. /\ <<x>> \o rest \in Seq(Records) /\ Len(<<x>> \o rest) = 1 + Len(rest)
            /\ \A i \in 1 .. (1 + Len(rest)) : (<<x>> \o rest)[i] = IF i <= 1 THEN <<x>>[i] ELSE rest[i - 1]
        BY <3>2, <3>6, ConcatProperties
      <3>9. DOMAIN (<<x>> \o rest) = 1 .. (1 + Len(rest))
        BY <3>8, LenProperties
      <3>10. ASSUME NEW i \in 1 .. (1 + Len(rest))
             PROVE  \E p \in (o + 1) .. n : f[p][1] = (<<x>> \o rest)[i]
        <4>1. CASE i = 1
          BY <1>1, <3>1, <3>4, <3>6, <3>7, <3>8, <4>1 DEF x
        <4>2. CASE i # 1
          <5>1. i - 1 \in DOMAIN rest /\ (<<x>> \o rest)[i] = rest[i - 1]
            BY <3>7, <3>8, <4>2
          <5>2. PICK p \in (q + 1) .. n : f[p][1] = rest[i - 1]
            BY <3>2, <5>1
          <5>3. p \in (o + 1) .. n
            BY <1>1, <3>1
          <5> QED
            BY <5>1, <5>2, <5>3
        <4> QED
          BY <4>1, <4>2
      <3> QED
        BY <3>3, <3>8, <3>9, <3>10, Zenon
    <2> QED
      BY <2>1, <2>2
  <1>3. \A o \in 0 .. n : o \in S
    <2>1. \A o \in 0 .. n : (\A p \in 0 .. n : p > o => p \in S) => o \in S
      BY <1>2
    <2> HIDE DEF S, n
    <2> QED
      BY <1>1, <2>1, DownwardInduction, Zenon
  <1> QED
    BY <1>3

\* The cells of a record.
LEMMA CellsOfRecord ==
    ASSUME NEW r \in Records
    PROVE  /\ SizeOf(r) \in 2 .. 3
           /\ Cells(r) \in Seq(Cell) /\ Len(Cells(r)) = SizeOf(r)
           /\ \A k \in 1 .. SizeOf(r) : Cells(r)[k] = <<r, k>>
  <1> DEFINE n == SizeOf(r)
             c == Cells(r)
  <1>1. n \in 2 .. 3
    <2>1. r \in Nat
      BY DEF Records
    <2> QED
      BY <2>1 DEF SizeOf
  <1>2. c = [k \in 1 .. n |-> <<r, k>>]
    BY DEF Cells
  <1> HIDE DEF n, c
  <1>3. \A k \in 1 .. n : <<r, k>> \in Cell
    BY <1>1 DEF Cell
  <1>4. c \in [1 .. n -> Cell]
    BY <1>2, <1>3
  <1>5. c \in Seq(Cell) /\ Len(c) = n
    <2>1. n \in Nat
      BY <1>1
    <2>2. c \in Seq(Cell)
      BY <1>4, <2>1, SeqDef
    <2>3. DOMAIN c = 1 .. n
      BY <1>2
    <2> QED
      BY <2>1, <2>2, <2>3, LenProperties
  <1> QED
    BY <1>1, <1>2, <1>5 DEF n, c

\* A part of a file, from offset a to offset b.
LEMMA PartOfFile ==
    ASSUME NEW f \in Seq(Cell), NEW a \in 0 .. Len(f), NEW b \in a .. Len(f)
    PROVE  /\ SubSeq(f, a + 1, b) \in Seq(Cell) /\ Len(SubSeq(f, a + 1, b)) = b - a
           /\ \A i \in 1 .. (b - a) : SubSeq(f, a + 1, b)[i] = f[a + i]
  <1> DEFINE n == Len(f)
             s == SubSeq(f, a + 1, b)
  <1>1. n \in Nat /\ f \in [1 .. n -> Cell]
    BY LenProperties
  <1> HIDE DEF n
  <1>2. a \in 0 .. n /\ b \in a .. n
    BY DEF n
  <1>3. a + 1 \in Int /\ b \in Int /\ \A i \in (a + 1) .. b : f[i] \in Cell
    BY <1>1, <1>2
  <1>4. /\ s \in Seq(Cell) /\ Len(s) = IF a + 1 <= b THEN b - (a + 1) + 1 ELSE 0
        /\ \A i \in 1 .. (b - (a + 1) + 1) : s[i] = f[(a + 1) + i - 1]
    BY <1>3, SubSeqProperties
  <1> HIDE DEF s
  <1>5. Len(s) = b - a
    BY <1>1, <1>2, <1>4
  <1>6. ASSUME NEW i \in 1 .. (b - a) PROVE s[i] = f[a + i]
    <2>1. i \in 1 .. (b - (a + 1) + 1) /\ (a + 1) + i - 1 = a + i
      BY <1>1, <1>2
    <2> QED
      BY <1>4, <2>1
  <1> QED
    BY <1>4, <1>5, <1>6 DEF s

\* The first n cells, and the cells behind offset n.
LEMMA PrefixAndSuffix ==
    ASSUME NEW f \in Seq(Cell), NEW n \in 0 .. Len(f)
    PROVE  /\ Prefix(f, n) \in Seq(Cell) /\ Len(Prefix(f, n)) = n
           /\ \A i \in 1 .. n : Prefix(f, n)[i] = f[i]
           /\ Suffix(f, n) \in Seq(Cell) /\ Len(Suffix(f, n)) = Len(f) - n
           /\ \A i \in 1 .. (Len(f) - n) : Suffix(f, n)[i] = f[n + i]
  <1> DEFINE m == Len(f)
  <1>1. m \in Nat
    BY LenProperties
  <1>2. 0 \in 0 .. m /\ n \in 0 .. m /\ m \in n .. m /\ 0 + 1 = 1 /\ n - 0 = n
    BY <1>1
  <1>3. \A i \in 1 .. n : 0 + i = i
    BY <1>1
  <1> QED
    BY <1>2, <1>3, PartOfFile DEF Prefix, Suffix

\* The whole record that begins at offset o.
RecordHere(f, o) ==
    LET r == f[o + 1][1]
    IN  /\ o + SizeOf(r) <= Len(f)
        /\ \A k \in 1 .. SizeOf(r) : f[o + k] = <<r, k>>

\* That is what a reader looks for.
LEMMA ReadableIsRecord ==
    ASSUME NEW f \in Seq(Cell), NEW o \in 0 .. Len(f), o # Len(f)
    PROVE  /\ f[o + 1][1] \in Records /\ f[o + 1][2] \in 1..3
           /\ Readable(f, o) <=> RecordHere(f, o)
           /\ RecordHere(f, o) => LengthAt(f, o) = SizeOf(f[o + 1][1]) /\ f[o + 1][2] = 1
  <1> DEFINE n == Len(f)
             r == f[o + 1][1]
             l == LengthAt(f, o)
  <1>1. n \in Nat /\ o + 1 \in 1 .. n /\ f[o + 1] \in Records \X (1..3) /\ l \in Nat \ {0}
    BY HopsForward DEF Cell
  <1>2. r \in Records /\ f[o + 1][2] \in 1..3
    BY <1>1
  <1>3. SizeOf(r) \in 2 .. 3
    BY <1>2, CellsOfRecord
  <1> HIDE DEF n
  <1>4. o \in 0 .. n /\ o < n
    BY <1>1 DEF n
  <1>5. \A b \in o .. n :
           /\ SubSeq(f, o + 1, b) \in Seq(Cell) /\ Len(SubSeq(f, o + 1, b)) = b - o
           /\ \A i \in 1 .. (b - o) : SubSeq(f, o + 1, b)[i] = f[o + i]
    BY PartOfFile DEF n
  <1>6. ASSUME o + l <= n
        PROVE  LET s == SubSeq(f, o + 1, o + l)
               IN  s \in Seq(Cell) /\ Len(s) = l /\ \A i \in 1 .. l : s[i] = f[o + i]
    <2> DEFINE e == o + l
    <2>1. e \in o .. n /\ e - o = l
      BY <1>1, <1>4, <1>6
    <2> HIDE DEF e
    <2>2. LET s == SubSeq(f, o + 1, e)
          IN  s \in Seq(Cell) /\ Len(s) = l /\ \A i \in 1 .. l : s[i] = f[o + i]
      BY <1>5, <2>1
    <2> QED
      BY <2>2 DEF e
  <1>7. ASSUME RecordHere(f, o) PROVE l = SizeOf(r) /\ f[o + 1][2] = 1 /\ Readable(f, o)
    <2>1. 1 \in 1 .. SizeOf(r)
      BY <1>3
    <2>2. f[o + 1] = <<r, 1>>
      BY <1>7, <2>1 DEF RecordHere
    <2>3. f[o + 1][2] = 1 /\ l = SizeOf(r)
      BY <2>2 DEF LengthAt
    <2>4. o + l <= n
      BY <1>7, <2>3 DEF RecordHere, n
    <2> DEFINE s == SubSeq(f, o + 1, o + l)
               c == Cells(r)
    <2>5. s \in Seq(Cell) /\ Len(s) = l /\ \A i \in 1 .. l : s[i] = f[o + i]
      BY <1>6, <2>4
    <2>6. c \in Seq(Cell) /\ Len(c) = SizeOf(r) /\ \A i \in 1 .. SizeOf(r) : c[i] = <<r, i>>
      BY <1>2, CellsOfRecord
    <2> HIDE DEF s, c
    <2>7. Len(s) = Len(c) /\ \A i \in 1 .. Len(s) : s[i] = c[i]
      BY <1>7, <2>3, <2>5, <2>6, Zenon DEF RecordHere
    <2>8. s = c
      BY <2>5, <2>6, <2>7, SeqEqual
    <2>9. IsRecordAt(f, o)
      BY <1>2, <2>8 DEF IsRecordAt, s, c
    <2> QED
      BY <1>4, <2>3, <2>4, <2>9 DEF Readable, n
  <1>8. ASSUME Readable(f, o) PROVE RecordHere(f, o)
    <2>1. o + l <= n /\ IsRecordAt(f, o)
      BY <1>8 DEF Readable, n
    <2>2. PICK q \in Records : SubSeq(f, o + 1, o + l) = Cells(q)
      BY <2>1, Zenon DEF IsRecordAt
    <2> DEFINE s == SubSeq(f, o + 1, o + l)
    <2>3. Len(s) = l /\ \A i \in 1 .. l : s[i] = f[o + i]
      BY <1>6, <2>1
    <2>4. Len(s) = SizeOf(q) /\ SizeOf(q) \in 2 .. 3 /\ \A k \in 1 .. SizeOf(q) : s[k] = <<q, k>>
      BY <2>2, CellsOfRecord, Zenon
    <2> HIDE DEF s
    <2>5. l = SizeOf(q) /\ \A k \in 1 .. SizeOf(q) : f[o + k] = <<q, k>>
      BY <2>3, <2>4
    <2>6. 1 \in 1 .. SizeOf(q)
      BY <2>4
    <2>7. r = q
      BY <2>5, <2>6
    <2> QED
      BY <2>1, <2>5, <2>7 DEF RecordHere, n
  <1> QED
    BY <1>2, <1>7, <1>8

-----------------------------------------------------------------------------
(* Files of whole records. *)

\* The first n cells of f are whole records.
Formed(f, n) ==
    \A i \in 1 .. n :
        /\ f[i][2] <= SizeOf(f[i][1])
        /\ \A k \in 1 .. SizeOf(f[i][1]) :
              i - f[i][2] + k \in 1 .. n /\ f[i - f[i][2] + k] = <<f[i][1], k>>

\* Between two of them, or at their ends.
Boundary(f, n, o) == o \in 0 .. n /\ (o # n => f[o + 1][2] = 1)

\* What is behind them is less than a record.
TornTail(f, n) == n # Len(f) => f[n + 1][2] = 1 /\ Len(f) < n + SizeOf(f[n + 1][1])

\* A cell of a file.
LEMMA CellOfFile ==
    ASSUME NEW f \in Seq(Cell), NEW i \in 1 .. Len(f)
    PROVE  /\ f[i][1] \in Records /\ f[i][2] \in 1..3 /\ f[i] = <<f[i][1], f[i][2]>>
           /\ SizeOf(f[i][1]) \in 2 .. 3
  <1>1. f[i] \in Records \X (1..3)
    BY LenProperties DEF Cell
  <1>2. f[i][1] \in Records /\ f[i][2] \in 1..3 /\ f[i] = <<f[i][1], f[i][2]>>
    BY <1>1
  <1> QED
    BY <1>2, CellsOfRecord

\* At a boundary before the end there is a record, and a boundary behind it.
LEMMA RecordAtBoundary ==
    ASSUME NEW f \in Seq(Cell), NEW n \in 0 .. Len(f), Formed(f, n),
           NEW o, Boundary(f, n, o), o # n
    PROVE  LET r == f[o + 1][1]
           IN  /\ r \in Records /\ Readable(f, o) /\ LengthAt(f, o) = SizeOf(r)
               /\ SizeOf(r) \in 2 .. 3 /\ o + SizeOf(r) \in (o + 1) .. n
               /\ \A k \in 1 .. SizeOf(r) : f[o + k] = <<r, k>>
               /\ Boundary(f, n, o + SizeOf(r))
  <1> DEFINE m == Len(f)
             r == f[o + 1][1]
             s == SizeOf(r)
             q == o + s
  <1>1. m \in Nat /\ n \in 0 .. m /\ o \in 0 .. m /\ o \in 0 .. n /\ o # m /\ o + 1 \in 1 .. n
    <2> HIDE DEF m
    <2>1. m \in Nat /\ n \in 0 .. m /\ o \in 0 .. n
      BY LenProperties DEF Boundary, m
    <2> QED
      BY <2>1
  <1>2. r \in Records /\ s \in 2 .. 3 /\ f[o + 1][2] = 1
    <2>1. o + 1 \in 1 .. m
      BY <1>1
    <2> QED
      BY <2>1, CellOfFile DEF Boundary
  <1> HIDE DEF m
  <1>3. \A k \in 1 .. s : o + k \in 1 .. n /\ f[o + k] = <<r, k>>
    <2>1. \A k \in 1 .. s : (o + 1) - 1 + k \in 1 .. n /\ f[(o + 1) - 1 + k] = <<r, k>>
      BY <1>1, <1>2 DEF Formed
    <2>2. (o + 1) - 1 = o
      BY <1>1
    <2> QED
      BY <2>1, <2>2
  <1>4. q \in (o + 1) .. n /\ o + s \in 1 .. n
    BY <1>1, <1>2, <1>3
  <1>5. RecordHere(f, o)
    <2>1. o + s <= m
      BY <1>1, <1>2, <1>4
    <2> QED
      BY <1>3, <2>1 DEF RecordHere, m
  <1>6. Readable(f, o) /\ LengthAt(f, o) = s
    BY <1>1, <1>5, ReadableIsRecord DEF m
  <1>7. Boundary(f, n, q)
    <2> SUFFICES ASSUME q # n PROVE f[q + 1][2] = 1
      BY <1>1, <1>4 DEF Boundary
    <2> DEFINE y == f[q + 1][1]
               j == f[q + 1][2]
    <2>1. q + 1 \in 1 .. n /\ q + 1 \in 1 .. m
      BY <1>1, <1>4
    <2>2. y \in Records /\ j \in 1..3 /\ SizeOf(y) \in 2 .. 3
      BY <2>1, CellOfFile DEF m
    <2>3. f[q] = <<r, s>>
      BY <1>2, <1>3
    <2> HIDE DEF q, s, r
    <2>4. /\ j <= SizeOf(y)
          /\ \A k \in 1 .. SizeOf(y) : f[(q + 1) - j + k] = <<y, k>>
      <3> DEFINE i == q + 1
      <3>1. i \in 1 .. n
        BY <2>1
      <3> HIDE DEF i
      <3>2. /\ f[i][2] <= SizeOf(f[i][1])
            /\ \A k \in 1 .. SizeOf(f[i][1]) : f[i - f[i][2] + k] = <<f[i][1], k>>
        BY <3>1 DEF Formed
      <3> QED
        BY <3>2 DEF i
    <2> HIDE DEF y, j
    <2>5. ASSUME j # 1 PROVE FALSE
      <3>1. j - 1 \in 1 .. SizeOf(y) /\ (q + 1) - j + (j - 1) = q
        BY <1>1, <1>4, <2>1, <2>2, <2>4, <2>5
      <3>2. <<r, s>> = <<y, j - 1>>
        BY <2>3, <2>4, <3>1
      <3>3. r = y /\ s = j - 1
        BY <3>2
      <3> QED
        BY <1>2, <2>2, <2>4, <3>3 DEF s
    <2> QED
      BY <2>5 DEF j
  <1> QED
    BY <1>2, <1>3, <1>4, <1>6, <1>7

\* The beginning of the file is a boundary.
LEMMA ZeroIsBoundary ==
    ASSUME NEW f \in Seq(Cell), NEW n \in 0 .. Len(f), Formed(f, n)
    PROVE  Boundary(f, n, 0)
  <1> DEFINE m == Len(f)
  <1>1. m \in Nat /\ n \in 0 .. m
    BY LenProperties
  <1> SUFFICES ASSUME n # 0 PROVE f[1][2] = 1
    BY <1>1 DEF Boundary
  <1>2. 1 \in 1 .. n /\ 1 \in 1 .. m
    BY <1>1
  <1>3. f[1][2] \in 1..3 /\ SizeOf(f[1][1]) \in 2 .. 3
    BY <1>2, CellOfFile
  <1>4. 1 \in 1 .. SizeOf(f[1][1])
    BY <1>3
  <1>5. 1 - f[1][2] + 1 \in 1 .. n
    BY <1>2, <1>4 DEF Formed
  <1> QED
    BY <1>1, <1>3, <1>5

\* recover_tail keeps the whole records, and drops what is less than one.
LEMMA WholeIsFormed ==
    ASSUME NEW f \in Seq(Cell), NEW n \in 0 .. Len(f), Formed(f, n), TornTail(f, n)
    PROVE  WholeLength(f) = n
  <1> DEFINE m == Len(f)
             at == WholeAt(f)
             S == {o \in 0 .. n : Boundary(f, n, o) => at[o] = n}
  <1>1. m \in Nat /\ n \in 0 .. m /\ n \in Nat
    BY LenProperties
  <1>2. /\ WholeLength(f) = at[0]
        /\ \A o \in 0 .. m : at[o] = IF o = m THEN o
                                     ELSE IF o + LengthAt(f, o) > m THEN o
                                     ELSE at[o + LengthAt(f, o)]
    BY WholeUnfolds
  <1> HIDE DEF at
  <1>3. at[n] = n
    <2>1. CASE n = m
      BY <1>1, <1>2, <2>1
    <2>2. CASE n # m
      <3>1. f[n + 1][2] = 1 /\ m < n + SizeOf(f[n + 1][1])
        BY <2>2 DEF TornTail
      <3>2. LengthAt(f, n) = SizeOf(f[n + 1][1])
        BY <3>1 DEF LengthAt
      <3>3. n + 1 \in 1 .. m
        BY <1>1, <2>2
      <3>4. SizeOf(f[n + 1][1]) \in 2 .. 3
        BY <3>3, CellOfFile
      <3>5. n + LengthAt(f, n) > m
        BY <1>1, <3>1, <3>2, <3>4
      <3> QED
        BY <1>1, <1>2, <2>2, <3>5
    <2> QED
      BY <2>1, <2>2
  <1>4. ASSUME NEW o \in 0 .. n, \A p \in 0 .. n : p > o => p \in S PROVE o \in S
    <2> SUFFICES ASSUME Boundary(f, n, o), o # n PROVE at[o] = n
      BY <1>3
    <2> DEFINE q == o + SizeOf(f[o + 1][1])
    <2>1. LengthAt(f, o) = SizeOf(f[o + 1][1]) /\ q \in (o + 1) .. n /\ Boundary(f, n, q)
      BY RecordAtBoundary
    <2> HIDE DEF m, q
    <2>2. q \in 0 .. n /\ q > o /\ o \in 0 .. m /\ o # m /\ ~(q > m)
      BY <1>1, <2>1
    <2>3. at[q] = n
      BY <1>4, <2>1, <2>2
    <2>4. o + LengthAt(f, o) = q
      BY <2>1 DEF q
    <2> QED
      BY <1>2, <2>2, <2>3, <2>4
  <1>5. 0 \in S
    <2> HIDE DEF S
    <2>1. \A o \in 0 .. n : o \in S
      BY <1>1, <1>4, DownwardInduction
    <2> QED
      BY <1>1, <2>1
  <1> QED
    BY <1>2, <1>5, ZeroIsBoundary

\* A reader that starts at a boundary gets every record behind it.
LEMMA ReadsAllBehind ==
    ASSUME NEW f \in Seq(Cell), Formed(f, Len(f)), NEW from, Boundary(f, Len(f), from),
           NEW r, NEW p \in (from + 1) .. Len(f), f[p] = <<r, 1>>
    PROVE  \E i \in DOMAIN RecordsFrom(f, from) : RecordsFrom(f, from)[i] = r
  <1> DEFINE n == Len(f)
             R(o) == RecordsFrom(f, o)
             Good(o) == \E i \in DOMAIN R(o) : R(o)[i] = r
             S == {o \in 0 .. n : Boundary(f, n, o) /\ p \in (o + 1) .. n => Good(o)}
  <1>1. n \in Nat /\ n \in 0 .. n
    BY LenProperties
  <1>2. ASSUME NEW o \in 0 .. n, \A q \in 0 .. n : q > o => q \in S PROVE o \in S
    <2> SUFFICES ASSUME Boundary(f, n, o), p \in (o + 1) .. n PROVE Good(o)
      OBVIOUS
    <2> DEFINE x == f[o + 1][1]
               s == SizeOf(x)
               q == o + s
    <2>1. o # n
      BY <1>1
    <2>2. /\ x \in Records /\ Readable(f, o) /\ LengthAt(f, o) = s /\ s \in 2 .. 3
          /\ q \in (o + 1) .. n /\ Boundary(f, n, q)
          /\ \A k \in 1 .. s : f[o + k] = <<x, k>>
      BY <1>1, <2>1, RecordAtBoundary
    <2>3. R(o) = <<x>> \o R(q)
      BY <2>2, ReadsOn
    <2>4. R(q) \in Seq(Records)
      <3>1. q \in 0 .. n
        BY <1>1, <2>2
      <3> QED
        BY <3>1, ReadsWhatIsThere
    <2> HIDE DEF x, s, q, n
    <2>5. <<x>> \in Seq(Records) /\ Len(<<x>>) = 1 /\ <<x>>[1] = x
      BY <2>2
    <2> DEFINE rest == R(q)
    <2>6. Len(rest) \in Nat /\ DOMAIN rest = 1 .. Len(rest)
      BY <2>4, LenProperties
    <2>7. /\ DOMAIN (<<x>> \o rest) = 1 .. (1 + Len(rest))
          /\ \A i \in 1 .. (1 + Len(rest)) : (<<x>> \o rest)[i] = IF i <= 1 THEN <<x>>[i] ELSE rest[i - 1]
      BY <2>4, <2>5, ConcatProperties, LenProperties
    <2> HIDE DEF rest
    <2>8. CASE p <= q
      <3>1. p - o \in 1 .. s /\ o + (p - o) = p
        BY <1>1, <2>2, <2>8 DEF q
      <3>2. <<x, p - o>> = <<r, 1>>
        BY <2>2, <3>1
      <3>3. (<<x>> \o rest)[1] = r /\ 1 \in DOMAIN (<<x>> \o rest)
        BY <2>5, <2>6, <2>7, <3>2
      <3> QED
        BY <2>3, <3>3 DEF rest
    <2>9. CASE ~(p <= q)
      <3>1. q \in 0 .. n /\ q > o /\ p \in (q + 1) .. n
        BY <1>1, <2>2, <2>9
      <3>2. PICK i \in DOMAIN rest : rest[i] = r
        BY <1>2, <2>2, <3>1 DEF rest
      <3>3. i + 1 \in 1 .. (1 + Len(rest)) /\ ~(i + 1 <= 1) /\ (i + 1) - 1 = i
        BY <2>6
      <3>4. (<<x>> \o rest)[i + 1] = r /\ i + 1 \in DOMAIN (<<x>> \o rest)
        BY <2>7, <3>2, <3>3
      <3> QED
        BY <2>3, <3>4 DEF rest
    <2> QED
      BY <2>8, <2>9
  <1>3. \A o \in 0 .. n : o \in S
    <2> HIDE DEF S, n
    <2> QED
      BY <1>1, <1>2, DownwardInduction, Zenon
  <1>4. from \in 0 .. n
    BY DEF Boundary
  <1> QED
    BY <1>3, <1>4

\* g is f with the cells of record r behind it.
Extends(g, f, r) ==
    /\ Len(g) = Len(f) + SizeOf(r)
    /\ \A i \in 1 .. Len(f) : g[i] = f[i]
    /\ \A k \in 1 .. SizeOf(r) : g[Len(f) + k] = <<r, k>>

\* It is made of whole records when f is.
LEMMA FormedExtends ==
    ASSUME NEW f \in Seq(Cell), NEW g \in Seq(Cell), NEW r \in Records,
           Formed(f, Len(f)), Extends(g, f, r)
    PROVE  Formed(g, Len(g))
  <1> DEFINE n == Len(f)
             s == SizeOf(r)
  <1>1. n \in Nat /\ s \in 2 .. 3
    BY LenProperties, CellsOfRecord
  <1>2. Len(g) = n + s /\ (\A i \in 1 .. n : g[i] = f[i]) /\ (\A k \in 1 .. s : g[n + k] = <<r, k>>)
    BY DEF Extends
  <1>3. \A i \in 1 .. n : f[i][1] \in Records /\ f[i][2] \in 1..3 /\ SizeOf(f[i][1]) \in 2 .. 3
    BY CellOfFile
  <1>4. ASSUME NEW i \in 1 .. n
        PROVE  /\ g[i][2] <= SizeOf(g[i][1])
               /\ \A k \in 1 .. SizeOf(g[i][1]) :
                     i - g[i][2] + k \in 1 .. (n + s) /\ g[i - g[i][2] + k] = <<g[i][1], k>>
    <2>1. /\ f[i][2] <= SizeOf(f[i][1])
          /\ \A k \in 1 .. SizeOf(f[i][1]) :
                i - f[i][2] + k \in 1 .. n /\ f[i - f[i][2] + k] = <<f[i][1], k>>
      BY DEF Formed
    <2> HIDE DEF n, s
    <2>2. \A j \in 1 .. n : j \in 1 .. (n + s)
      BY <1>1
    <2> QED
      BY <1>2, <2>1, <2>2, Zenon
  <1>5. ASSUME NEW j \in 1 .. s
        PROVE  /\ g[n + j][2] <= SizeOf(g[n + j][1])
               /\ \A k \in 1 .. SizeOf(g[n + j][1]) :
                     (n + j) - g[n + j][2] + k \in 1 .. (n + s)
                     /\ g[(n + j) - g[n + j][2] + k] = <<g[n + j][1], k>>
    <2>1. g[n + j][1] = r /\ g[n + j][2] = j
      BY <1>2
    <2>2. (n + j) - j = n /\ j <= s
      BY <1>1
    <2>3. \A k \in 1 .. s : n + k \in 1 .. (n + s)
      BY <1>1
    <2> QED
      BY <1>2, <2>1, <2>2, <2>3
  <1> HIDE DEF n, s
  <1>6. ASSUME NEW i \in 1 .. (n + s)
        PROVE  /\ g[i][2] <= SizeOf(g[i][1])
               /\ \A k \in 1 .. SizeOf(g[i][1]) :
                     i - g[i][2] + k \in 1 .. (n + s) /\ g[i - g[i][2] + k] = <<g[i][1], k>>
    <2>1. CASE i <= n
      <3>1. i \in 1 .. n
        BY <1>1, <2>1
      <3> QED
        BY <1>4, <3>1, Zenon
    <2>2. CASE ~(i <= n)
      <3>1. i - n \in 1 .. s /\ n + (i - n) = i
        BY <1>1, <2>2
      <3> QED
        BY <1>5, <3>1, Zenon
    <2> QED
      BY <2>1, <2>2
  <1> QED
    BY <1>2, <1>6 DEF Formed

\* What is read from it is what is read from f, and then r.
LEMMA ReadsExtended ==
    ASSUME NEW f \in Seq(Cell), NEW g \in Seq(Cell), NEW r \in Records,
           Formed(f, Len(f)), Extends(g, f, r), NEW from, Boundary(f, Len(f), from)
    PROVE  RecordsFrom(g, from) = Append(RecordsFrom(f, from), r)
  <1> DEFINE n == Len(f)
             s == SizeOf(r)
             S == {o \in 0 .. n : Boundary(f, n, o) => RecordsFrom(g, o) = Append(RecordsFrom(f, o), r)}
  <1>1. n \in Nat /\ s \in 2 .. 3 /\ n \in 0 .. n
    BY LenProperties, CellsOfRecord
  <1>2. Len(g) = n + s /\ (\A i \in 1 .. n : g[i] = f[i]) /\ (\A k \in 1 .. s : g[n + k] = <<r, k>>)
    BY DEF Extends
  <1>3. ASSUME NEW o \in 0 .. n, NEW x \in Records, o + SizeOf(x) <= n + s,
               \A k \in 1 .. SizeOf(x) : g[o + k] = <<x, k>>
        PROVE  /\ RecordsFrom(g, o) = <<x>> \o RecordsFrom(g, o + SizeOf(x))
    <2>1. SizeOf(x) \in 2 .. 3
      BY CellsOfRecord
    <2>2. o \in 0 .. Len(g) /\ o # Len(g)
      BY <1>1, <1>2
    <2>3. g[o + 1][1] = x
      BY <1>3, <2>1
    <2>4. RecordHere(g, o)
      BY <1>2, <1>3, <2>3 DEF RecordHere
    <2>5. Readable(g, o) /\ LengthAt(g, o) = SizeOf(x)
      BY <2>2, <2>3, <2>4, ReadableIsRecord
    <2> QED
      BY <2>2, <2>3, <2>5, ReadsOn
  <1>4. n \in S
    <2>1. RecordsFrom(f, n) = <<>>
      BY <1>1, ReadsOn, Zenon DEF Readable
    <2>2. RecordsFrom(g, n) = <<r>> \o RecordsFrom(g, n + s)
      <3>1. n + SizeOf(r) <= n + s
        BY <1>1
      <3> QED
        BY <1>1, <1>2, <1>3, <3>1, Zenon
    <2>3. RecordsFrom(g, n + s) = <<>>
      <3>1. Len(g) \in 0 .. Len(g)
        BY LenProperties
      <3>2. RecordsFrom(g, Len(g)) = <<>>
        BY <3>1, ReadsOn, Zenon DEF Readable
      <3> QED
        BY <1>2, <3>2
    <2>4. <<r>> \o <<>> = <<r>> /\ Append(<<>>, r) = <<r>>
      OBVIOUS
    <2> QED
      BY <1>1, <2>1, <2>2, <2>3, <2>4
  <1>5. ASSUME NEW o \in 0 .. n, \A p \in 0 .. n : p > o => p \in S PROVE o \in S
    <2> SUFFICES ASSUME Boundary(f, n, o), o # n
                 PROVE  RecordsFrom(g, o) = Append(RecordsFrom(f, o), r)
      BY <1>4
    <2> DEFINE x == f[o + 1][1]
               q == o + SizeOf(x)
               rest == RecordsFrom(f, q)
    <2>1. /\ x \in Records /\ Readable(f, o) /\ LengthAt(f, o) = SizeOf(x) /\ SizeOf(x) \in 2 .. 3
          /\ q \in (o + 1) .. n /\ Boundary(f, n, q)
          /\ \A k \in 1 .. SizeOf(x) : f[o + k] = <<x, k>>
      BY <1>1, RecordAtBoundary
    <2>2. RecordsFrom(f, o) = <<x>> \o rest
      BY <2>1, ReadsOn
    <2>3. q \in 0 .. n /\ q > o /\ q <= n + s
      BY <1>1, <2>1
    <2>4. \A k \in 1 .. SizeOf(x) : g[o + k] = <<x, k>>
      <3>1. \A k \in 1 .. SizeOf(x) : o + k \in 1 .. n
        BY <1>1, <2>1
      <3> QED
        BY <1>2, <2>1, <3>1
    <2>5. RecordsFrom(g, o) = <<x>> \o RecordsFrom(g, q)
      <3> HIDE DEF x
      <3> QED
        BY <1>3, <2>1, <2>3, <2>4
    <2>6. RecordsFrom(g, q) = Append(rest, r)
      <3> HIDE DEF q
      <3> QED
        BY <1>5, <2>1, <2>3
    <2>7. rest \in Seq(Records)
      BY <2>3, ReadsWhatIsThere
    <2> HIDE DEF x, q, rest
    <2>8. <<x>> \o Append(rest, r) = Append(<<x>> \o rest, r)
      BY <2>1, <2>7
    <2> QED
      BY <2>2, <2>5, <2>6, <2>8
  <1>6. \A o \in 0 .. n : o \in S
    <2> HIDE DEF S, n
    <2> QED
      BY <1>1, <1>5, DownwardInduction, Zenon
  <1>7. from \in 0 .. n
    BY DEF Boundary
  <1> QED
    BY <1>6, <1>7

\* g is f without its first m cells.
Drops(g, f, m) ==
    /\ m \in 0 .. Len(f) /\ Len(g) = Len(f) - m
    /\ \A i \in 1 .. (Len(f) - m) : g[i] = f[m + i]

\* Cut at a boundary, a file of whole records is one.
LEMMA FormedDrops ==
    ASSUME NEW f \in Seq(Cell), NEW g \in Seq(Cell), NEW m, Drops(g, f, m),
           Formed(f, Len(f)), Boundary(f, Len(f), m)
    PROVE  Formed(g, Len(g))
  <1> DEFINE n == Len(f)
  <1>1. n \in Nat /\ m \in 0 .. n /\ Len(g) = n - m /\ n - m \in Nat
        /\ (m # n => f[m + 1][2] = 1) /\ (\A i \in 1 .. (n - m) : g[i] = f[m + i])
    BY LenProperties DEF Drops, Boundary
  <1>2. \A j \in 1 .. n : f[j][2] \in 1..3 /\ SizeOf(f[j][1]) \in 2 .. 3
    BY CellOfFile
  <1>3. ASSUME NEW j \in 1 .. n
        PROVE  /\ f[j][2] <= SizeOf(f[j][1])
               /\ \A k \in 1 .. SizeOf(f[j][1]) :
                     j - f[j][2] + k \in 1 .. n /\ f[j - f[j][2] + k] = <<f[j][1], k>>
    BY DEF Formed
  <1> HIDE DEF n
  <1>4. ASSUME NEW i \in 1 .. (n - m)
        PROVE  /\ g[i][2] <= SizeOf(g[i][1])
               /\ \A k \in 1 .. SizeOf(g[i][1]) :
                     i - g[i][2] + k \in 1 .. (n - m) /\ g[i - g[i][2] + k] = <<g[i][1], k>>
    <2> DEFINE j == m + i
               x == f[j][1]
               c == f[j][2]
    <2>1. j \in 1 .. n /\ j > m /\ g[i] = f[j] /\ m # n
      BY <1>1
    <2>2. /\ c \in 1..3 /\ SizeOf(x) \in 2 .. 3 /\ c <= SizeOf(x)
          /\ \A k \in 1 .. SizeOf(x) : j - c + k \in 1 .. n /\ f[j - c + k] = <<x, k>>
      <3> HIDE DEF j
      <3> QED
        BY <1>2, <1>3, <2>1
    <2>3. j - c >= m
      <3> SUFFICES ASSUME j - c < m PROVE FALSE
        BY <1>1, <2>1, <2>2
      <3> DEFINE k == (m + 1) - (j - c)
      <3> HIDE DEF x, c, j
      <3>1. k \in 1 .. SizeOf(x) /\ j - c + k = m + 1 /\ k # 1
        <4>1. /\ m \in Nat /\ j \in Nat /\ j > m
              /\ c \in 1..3 /\ SizeOf(x) \in 2 .. 3 /\ c <= SizeOf(x)
          BY <1>1, <2>1, <2>2
        <4> QED
          BY <4>1
      <3> HIDE DEF k
      <3>2. f[m + 1] = <<x, k>>
        BY <2>2, <3>1
      <3> QED
        BY <1>1, <2>1, <3>1, <3>2
    <2>4. g[i][1] = x /\ g[i][2] = c
      BY <2>1
    <2>5. ASSUME NEW k \in 1 .. SizeOf(x)
          PROVE  i - c + k \in 1 .. (n - m) /\ g[i - c + k] = <<x, k>>
      <3> HIDE DEF x, c
      <3>1. j - c + k \in 1 .. n /\ f[j - c + k] = <<x, k>>
        BY <2>2
      <3>2. i - c + k \in 1 .. (n - m) /\ m + (i - c + k) = j - c + k
        BY <1>1, <2>2, <2>3, <3>1
      <3>3. g[i - c + k] = f[m + (i - c + k)]
        BY <1>1, <3>2
      <3> QED
        BY <3>1, <3>2, <3>3
    <2> HIDE DEF x, c, j
    <2> QED
      BY <2>2, <2>4, <2>5
  <1> QED
    BY <1>1, <1>4 DEF Formed

\* What is read from g is what is read from f behind offset m.
LEMMA ReadsDropped ==
    ASSUME NEW f \in Seq(Cell), NEW g \in Seq(Cell), NEW m, Drops(g, f, m),
           Formed(f, Len(f)), Boundary(f, Len(f), m)
    PROVE  RecordsFrom(g, 0) = RecordsFrom(f, m)
  <1> DEFINE n == Len(f)
             d == n - m
             S == {o \in 0 .. d : Boundary(f, n, m + o) => RecordsFrom(g, o) = RecordsFrom(f, m + o)}
  <1>1. n \in Nat /\ m \in 0 .. n /\ Len(g) = d /\ d \in Nat
        /\ (\A i \in 1 .. d : g[i] = f[m + i]) /\ n \in 0 .. n
    BY LenProperties DEF Drops
  <1>2. d \in S
    <2>1. RecordsFrom(f, n) = <<>>
      BY <1>1, ReadsOn, Zenon DEF Readable
    <2>2. RecordsFrom(g, d) = <<>>
      <3>1. Len(g) \in 0 .. Len(g)
        BY LenProperties
      <3>2. RecordsFrom(g, Len(g)) = <<>>
        BY <3>1, ReadsOn, Zenon DEF Readable
      <3> QED
        BY <1>1, <3>2
    <2>3. m + d = n
      BY <1>1
    <2> HIDE DEF d
    <2> QED
      BY <1>1, <2>1, <2>2, <2>3
  <1>3. ASSUME NEW o \in 0 .. d, \A p \in 0 .. d : p > o => p \in S PROVE o \in S
    <2> SUFFICES ASSUME Boundary(f, n, m + o), o # d
                 PROVE  RecordsFrom(g, o) = RecordsFrom(f, m + o)
      BY <1>2
    <2> DEFINE a == m + o
               x == f[a + 1][1]
               q == o + SizeOf(x)
    <2>1. a # n /\ a \in 0 .. n /\ Boundary(f, n, a)
      <3> HIDE DEF n
      <3> QED
        BY <1>1
    <2>2. /\ x \in Records /\ Readable(f, a) /\ LengthAt(f, a) = SizeOf(x) /\ SizeOf(x) \in 2 .. 3
          /\ a + SizeOf(x) \in (a + 1) .. n /\ Boundary(f, n, a + SizeOf(x))
          /\ \A k \in 1 .. SizeOf(x) : f[a + k] = <<x, k>>
      <3>1. n \in 0 .. Len(f)
        BY <1>1
      <3> HIDE DEF a, d, n
      <3>2. Formed(f, n)
        BY DEF n
      <3> QED
        BY <2>1, <3>1, <3>2, RecordAtBoundary
    <2>3. RecordsFrom(f, a) = <<x>> \o RecordsFrom(f, a + SizeOf(x))
      <3> HIDE DEF a
      <3> QED
        BY <2>1, <2>2, ReadsOn
    <2> HIDE DEF x, n
    <2>4. q \in 0 .. d /\ q > o /\ a + SizeOf(x) = m + q /\ o \in 0 .. d
      <3> DEFINE z == SizeOf(x)
      <3>1. z \in 2 .. 3 /\ (m + o) + z <= n
        BY <1>1, <2>2
      <3>2. m \in Nat /\ n \in Nat /\ d = n - m /\ o \in 0 .. d
        BY <1>1 DEF n
      <3> HIDE DEF z, d
      <3>3. o + z \in 0 .. d /\ o + z > o /\ (m + o) + z = m + (o + z)
        BY <3>1, <3>2
      <3> QED
        BY <3>2, <3>3 DEF z
    <2>5. \A k \in 1 .. SizeOf(x) : g[o + k] = <<x, k>>
      <3>1. \A k \in 1 .. SizeOf(x) : o + k \in 1 .. d /\ m + (o + k) = a + k
        BY <1>1, <2>2
      <3> QED
        BY <1>1, <2>2, <3>1
    <2> HIDE DEF d, a
    <2>6. g[o + 1][1] = x
      BY <2>2, <2>5
    <2>7. RecordHere(g, o)
      <3>1. o + SizeOf(x) <= d
        BY <1>1, <2>4
      <3> QED
        BY <1>1, <2>5, <2>6, <3>1 DEF RecordHere
    <2>8. o \in 0 .. Len(g) /\ o # Len(g)
      BY <1>1
    <2>9. Readable(g, o) /\ LengthAt(g, o) = SizeOf(x)
      BY <2>6, <2>7, <2>8, ReadableIsRecord
    <2>10. RecordsFrom(g, o) = <<x>> \o RecordsFrom(g, q)
      BY <2>6, <2>8, <2>9, ReadsOn
    <2>11. RecordsFrom(g, q) = RecordsFrom(f, m + q)
      <3> HIDE DEF q
      <3> QED
        BY <1>3, <2>2, <2>4
    <2> QED
      BY <2>3, <2>4, <2>10, <2>11 DEF a
  <1>4. 0 \in S
    <2> HIDE DEF S, d
    <2>1. \A o \in 0 .. d : o \in S
      BY <1>1, <1>3, DownwardInduction, Zenon
    <2> QED
      BY <1>1, <2>1
  <1>5. m + 0 = m
    BY <1>1
  <1> QED
    BY <1>4, <1>5

\* Files with the same first cells have the same prefix.
LEMMA SamePrefix ==
    ASSUME NEW f \in Seq(Cell), NEW g \in Seq(Cell), NEW n \in Nat, n <= Len(f), n <= Len(g),
           \A i \in 1 .. n : g[i] = f[i]
    PROVE  Prefix(g, n) = Prefix(f, n)
  <1>1. SubSeq(g, 1, n) = [i \in 1 .. n |-> g[i]]
    OBVIOUS
  <1>2. SubSeq(f, 1, n) = [i \in 1 .. n |-> f[i]]
    OBVIOUS
  <1> QED
    BY <1>1, <1>2 DEF Prefix

-----------------------------------------------------------------------------
(* The inductive invariant. *)

\* Offsets and records are in range.
Types ==
    /\ file \in Seq(Cell) /\ cursor \in Nat /\ readOffset \in Nat /\ writeOffset \in Nat
    /\ pc \in Points /\ job \in Records \cup {Nil} /\ produced \in 0 .. MaxRecords
    /\ accepted \subseteq 1 .. produced /\ acked \subseteq 1 .. produced /\ job <= produced
    /\ damaged \in BOOLEAN /\ linked \in BOOLEAN /\ atPath \in Seq(Cell)

\* The offsets in memory are in order, and the file has the record an append
\* has written.  An error can leave both offsets behind its end.
Offsets ==
    /\ pc # "closed" => readOffset <= writeOffset
    /\ pc = "written" => job # Nil /\ SizeOf(job) <= Len(file)
    /\ pc \in {"compacted", "truncated"} => readOffset = 0
    /\ job # Nil => pc \in {"compacted", "written"} /\ job \notin accepted \cup acked

\* A record is written once: no cell is in the file twice.
WrittenOnce ==
    /\ \A i \in DOMAIN file : file[i][1] <= produced /\ file[i][2] <= SizeOf(file[i][1])
    /\ \A i, j \in DOMAIN file : file[i] = file[j] => i = j
    /\ pc = "compacted" => \A i \in DOMAIN file : file[i][1] # job

\* Acknowledged records are behind the offset readers start at, in memory and
\* in the cursor file.
AckedBehind ==
    \A i \in DOMAIN file :
       file[i][1] \in acked \ stray => i <= cursor /\ (pc # "closed" => i <= readOffset)

\* When the handle has been left on a replaced file, the one at the path has
\* none of the acknowledged records, and what it has, once.
Replaced ==
    /\ linked => atPath = <<>>
    /\ ~linked => damaged /\ pc # "closed"
    /\ \A i \in DOMAIN atPath : /\ atPath[i][1] <= produced /\ atPath[i][2] <= SizeOf(atPath[i][1])
                               /\ atPath[i][1] \notin acked \ stray
    /\ \A i, j \in DOMAIN atPath : atPath[i] = atPath[j] => i = j

\* The accepted records that were not acknowledged are there.
Holds(f, from, n) == \A r \in accepted \ acked : \E p \in (from + 1) .. n : f[p] = <<r, 1>>

\* Until the files come apart: in the file of a closed spool ...
ClosedInStep ==
    LET n == WholeLength(file)
    IN  /\ Formed(file, n) /\ Boundary(file, n, cursor) /\ TornTail(file, n)
        /\ Holds(file, cursor, n)

\* ... and of an open one.
OpenInStep ==
    /\ Formed(file, writeOffset) /\ Boundary(file, writeOffset, readOffset)
    /\ Holds(file, readOffset, writeOffset)
    /\ pc \notin {"compacted", "truncated"} => cursor = readOffset
    /\ IF pc = "written"
       THEN /\ Len(file) = writeOffset + SizeOf(job)
            /\ \A k \in 1 .. SizeOf(job) : file[writeOffset + k] = <<job, k>>
       ELSE Len(file) = writeOffset

InStep == ~damaged => IF pc = "closed" THEN ClosedInStep ELSE OpenInStep

IInv == Types /\ Offsets /\ WrittenOnce /\ AckedBehind /\ Replaced /\ InStep

-----------------------------------------------------------------------------
(* The steps.  Each keeps the invariant; what a reader gets stays the same, or
   changes as DurableQueue says. *)

\* g is a part of f, from offset m on.
Part(g, f, m) ==
    /\ m \in Nat
    /\ \A i \in 1 .. Len(g) : m + i <= Len(f) /\ g[i] = f[m + i]

\* The cells of a part of the file.
LEMMA CellsOfPart ==
    ASSUME IInv, NEW g \in Seq(Cell), NEW m, Part(g, file, m)
    PROVE  /\ DOMAIN g = 1 .. Len(g) /\ Len(g) \in Nat
           /\ \A i \in DOMAIN g : g[i][1] <= produced /\ g[i][2] <= SizeOf(g[i][1])
           /\ \A i, j \in DOMAIN g : g[i] = g[j] => i = j
           /\ pc = "compacted" => \A i \in DOMAIN g : g[i][1] # job
           /\ \A i \in DOMAIN g :
                 g[i][1] \in acked \ stray => m + i <= cursor /\ (pc # "closed" => m + i <= readOffset)
  <1> DEFINE n == Len(file)
             l == Len(g)
  <1>1. /\ n \in Nat /\ DOMAIN file = 1 .. n /\ l \in Nat /\ DOMAIN g = 1 .. l
        /\ m \in Nat /\ \A i \in 1 .. l : m + i <= n /\ g[i] = file[m + i]
    BY LenProperties DEF IInv, Types, Part
  <1> HIDE DEF n, l
  <1>2. \A i \in 1 .. l : m + i \in DOMAIN file
    BY <1>1
  <1>3. ASSUME NEW i \in 1 .. l, NEW j \in 1 .. l, g[i] = g[j] PROVE i = j
    <2>1. m + i = m + j
      BY <1>1, <1>2, <1>3 DEF IInv, WrittenOnce
    <2> QED
      BY <1>1, <2>1
  <1> QED
    BY <1>1, <1>2, <1>3, Zenon DEF IInv, WrittenOnce, AckedBehind, l

\* The file is a part of itself.
LEMMA WholeFile == ASSUME IInv PROVE file \in Seq(Cell) /\ Part(file, file, 0)
  <1>1. file \in Seq(Cell) /\ Len(file) \in Nat
    BY LenProperties DEF IInv, Types
  <1>2. \A i \in 1 .. Len(file) : 0 + i = i /\ i <= Len(file)
    BY <1>1
  <1> QED
    BY <1>1, <1>2 DEF Part

\* What does not depend on the cells behind offset n.
LEMMA SameCells ==
    ASSUME NEW f, NEW g, NEW n \in Nat, \A i \in 1 .. n : g[i] = f[i]
    PROVE  /\ Formed(f, n) => Formed(g, n)
           /\ \A o : Boundary(f, n, o) => Boundary(g, n, o)
           /\ \A o \in Nat : Holds(f, o, n) => Holds(g, o, n)
  <1>1. Formed(f, n) => Formed(g, n)
    BY DEF Formed
  <1>2. ASSUME NEW o, Boundary(f, n, o) PROVE Boundary(g, n, o)
    <2>1. o # n => o + 1 \in 1 .. n
      BY <1>2 DEF Boundary
    <2> QED
      BY <1>2, <2>1 DEF Boundary
  <1>3. ASSUME NEW o \in Nat, Holds(f, o, n) PROVE Holds(g, o, n)
    <2>1. \A p \in (o + 1) .. n : p \in 1 .. n
      OBVIOUS
    <2> QED
      BY <1>3, <2>1 DEF Holds
  <1> QED
    BY <1>1, <1>2, <1>3

\* The file behind an offset, which may be behind its end.
LEMMA SuffixIsPart ==
    ASSUME NEW f \in Seq(Cell), NEW m \in Nat
    PROVE  Suffix(f, m) \in Seq(Cell) /\ Part(Suffix(f, m), f, m)
  <1> DEFINE n == Len(f)
             g == Suffix(f, m)
  <1>1. n \in Nat
    BY LenProperties
  <1>2. CASE m <= n
    <2>1. m \in 0 .. Len(f)
      BY <1>1, <1>2
    <2>2. g \in Seq(Cell) /\ Len(g) = Len(f) - m /\ \A i \in 1 .. (Len(f) - m) : g[i] = f[m + i]
      BY <2>1, PrefixAndSuffix
    <2> HIDE DEF g
    <2>3. \A i \in 1 .. (Len(f) - m) : m + i <= Len(f)
      BY <1>1
    <2> QED
      BY <2>2, <2>3 DEF Part, g
  <1>3. CASE m > n
    <2>1. SubSeq(f, m + 1, Len(f)) = <<>>
      BY <1>1, <1>3
    <2>2. <<>> \in Seq(Cell) /\ Len(<<>>) = 0 /\ \A i : i \notin 1 .. 0
      OBVIOUS
    <2> QED
      BY <2>1, <2>2, Zenon DEF Part, Suffix
  <1> QED
    BY <1>1, <1>2, <1>3

\* In step, the offsets in memory are within the file.
LEMMA WithinFile ==
    ASSUME IInv, pc # "closed", ~damaged
    PROVE  /\ file \in Seq(Cell) /\ Len(file) \in Nat /\ readOffset \in Nat /\ writeOffset \in Nat
           /\ readOffset <= writeOffset /\ writeOffset <= Len(file)
           /\ MinOf(writeOffset, Len(file)) = writeOffset /\ MinOf(readOffset, writeOffset) = readOffset
           /\ Pending = RecordsFrom(Prefix(file, writeOffset), readOffset)
  <1>1. /\ file \in Seq(Cell) /\ Len(file) \in Nat /\ readOffset \in Nat /\ writeOffset \in Nat
        /\ readOffset <= writeOffset
    BY LenProperties DEF IInv, Types, Offsets
  <1>2. writeOffset <= Len(file)
    <2>1. OpenInStep
      BY DEF IInv, InStep
    <2>2. CASE pc = "written"
      <3>1. Len(file) = writeOffset + SizeOf(job) /\ job \in Records
        BY <2>1, <2>2 DEF OpenInStep, IInv, Types, Offsets
      <3>2. SizeOf(job) \in 2 .. 3
        BY <3>1, CellsOfRecord
      <3> QED
        BY <1>1, <3>1, <3>2
    <2>3. CASE pc # "written"
      BY <1>1, <2>1, <2>3 DEF OpenInStep
    <2> QED
      BY <2>2, <2>3
  <1>3. MinOf(writeOffset, Len(file)) = writeOffset /\ MinOf(readOffset, writeOffset) = readOffset
    BY <1>1, <1>2 DEF MinOf
  <1> QED
    BY <1>1, <1>2, <1>3 DEF Pending

\* While the spool is open, in step, and no append has written, a reader reads
\* the file as it is.
LEMMA PendingOfFile ==
    ASSUME IInv, pc # "closed", ~damaged, writeOffset = Len(file)
    PROVE  Pending = RecordsFrom(file, readOffset)
  <1>1. file \in Seq(Cell) /\ Pending = RecordsFrom(Prefix(file, writeOffset), readOffset)
    BY WithinFile
  <1>2. Prefix(file, writeOffset) = file
    BY <1>1, SubSeqFull, Zenon DEF Prefix
  <1> QED
    BY <1>1, <1>2

\* A step that leaves the file at the path alone.
LEMMA PathKeeps ==
    ASSUME IInv, UNCHANGED <<linked, atPath, acked, stray>>, produced' \in produced .. MaxRecords,
           damaged => damaged', pc' # "closed"
    PROVE  Replaced' /\ linked' \in BOOLEAN /\ atPath' \in Seq(Cell)
  <1>1. \A i \in DOMAIN atPath : atPath[i][1] \in Nat /\ atPath[i][1] <= produced
    BY CellOfFile, LenProperties DEF IInv, Types, Replaced, Records
  <1>2. \A i \in DOMAIN atPath : atPath[i][1] <= produced'
    BY <1>1 DEF IInv, Types
  <1> QED
    BY <1>2 DEF IInv, Types, Replaced

\* A step after which the handle is on the file at the path.
LEMMA LinkedKeeps ==
    ASSUME linked' = TRUE, atPath' = <<>>
    PROVE  Replaced' /\ linked' \in BOOLEAN /\ atPath' \in Seq(Cell)
  <1>1. <<>> \in Seq(Cell) /\ DOMAIN <<>> = {}
    OBVIOUS
  <1> QED
    BY <1>1 DEF Replaced

\* An operation ends and leaves the file and the offsets alone; at most the
\* cursor file is set to the offset in memory, or past it.
LEMMA ReturnKeeps ==
    ASSUME IInv, pc \notin {"closed", "written"}, pc' = "ready", job' = Nil,
           UNCHANGED <<file, readOffset, writeOffset, accepted, acked, stray>>,
           Replaced', linked' \in BOOLEAN, atPath' \in Seq(Cell),
           produced' \in produced .. MaxRecords,
           cursor' \in Nat, cursor' = cursor \/ cursor' >= readOffset,
           damaged' \in BOOLEAN, ~damaged' => ~damaged /\ cursor' = readOffset
    PROVE  IInv' /\ Pending' = Pending
  <1>1. Types'
    <2>1. produced \in Nat /\ produced' \in Nat /\ produced <= produced' /\ produced' \in 0 .. MaxRecords
      BY SpoolAssumption DEF IInv, Types
    <2>2. 1 .. produced \subseteq 1 .. produced'
      BY <2>1
    <2> QED
      BY <2>1, <2>2 DEF IInv, Types, Points, Nil
  <1>2. Offsets'
    BY DEF IInv, Offsets, Nil
  <1>3. WrittenOnce'
    <2>1. \A i \in DOMAIN file : file[i][1] <= produced'
      <3>1. \A i \in DOMAIN file : file[i][1] \in Nat /\ file[i][1] <= produced
        BY CellOfFile, LenProperties DEF IInv, Types, WrittenOnce, Records
      <3> QED
        BY <3>1 DEF IInv, Types
    <2> QED
      BY <2>1 DEF IInv, WrittenOnce
  <1>4. AckedBehind'
    <2>1. ASSUME NEW i \in DOMAIN file, file[i][1] \in acked \ stray
          PROVE  i <= cursor' /\ i <= readOffset
      <3>1. i <= cursor /\ i <= readOffset /\ i \in Nat /\ readOffset \in Nat
        BY <2>1, LenProperties DEF IInv, AckedBehind, Types
      <3> QED
        BY <3>1
    <2> QED
      BY <2>1 DEF AckedBehind
  <1>5. InStep'
    <2> SUFFICES ASSUME ~damaged' PROVE OpenInStep'
      BY DEF InStep
    <2>1. OpenInStep
      BY DEF IInv, InStep
    <2> QED
      BY <2>1, Zenon DEF OpenInStep, Formed, Boundary, Holds
  <1>6. Pending' = Pending
    BY DEF Pending
  <1> QED
    BY <1>1, <1>2, <1>3, <1>4, <1>5, <1>6 DEF IInv

\* The operations that end so.
LEMMA ReturnsKeep ==
    ASSUME IInv,
           \/ RecoverCursor \/ AppendRejected \/ ResetCursor \/ CursorFails
           \/ AcknowledgeFails
           \/ CompactionCursor /\ job = Nil
           \/ AckReturns /\ pc' = "ready"
    PROVE  IInv' /\ Pending' = Pending
  <1>1. produced \in produced .. MaxRecords /\ damaged \in BOOLEAN /\ MaxRecords \in Nat /\ produced \in Nat
    BY SpoolAssumption DEF IInv, Types
  <1>2. pc \in {"ready", "acked", "recovered"} /\ ~damaged => cursor = readOffset
    BY DEF IInv, InStep, OpenInStep
  <1>3. pc \in {"compacted", "truncated"} => readOffset = 0
    BY DEF IInv, Offsets
  <1>4. pc \notin {"compacted", "written"} => job = Nil
    BY DEF IInv, Offsets
  <1>5. readOffset \in Nat /\ cursor \in Nat /\ readOffset >= readOffset
    BY DEF IInv, Types
  <1>6. SUFFICES ASSUME /\ pc \notin {"closed", "written"} /\ pc' = "ready" /\ job' = Nil
                        /\ UNCHANGED <<file, readOffset, writeOffset, linked, atPath, accepted, acked, stray>>
                        /\ produced' \in produced .. MaxRecords
                        /\ cursor' \in Nat /\ (cursor' = cursor \/ cursor' >= readOffset)
                        /\ damaged' \in BOOLEAN /\ (~damaged' => ~damaged /\ cursor' = readOffset)
                 PROVE  IInv' /\ Pending' = Pending
    <2>1. CASE RecoverCursor
      BY <1>1, <1>4, <1>5, <2>1 DEF RecoverCursor, memory, path
    <2>2. CASE AppendRejected
      <3>1. produced' \in produced .. MaxRecords
        BY <1>1, <2>2 DEF AppendRejected
      <3> QED
        BY <1>1, <1>2, <1>5, <2>2, <3>1 DEF AppendRejected, memory, disk, path
    <2>3. CASE ResetCursor
      BY <1>1, <1>3, <1>4, <1>5, <2>3 DEF ResetCursor, memory, path
    <2>4. CASE CursorFails
      BY <1>1, <1>3, <1>5, <2>4 DEF CursorFails, memory, path
    <2>5. CASE AcknowledgeFails
      <3>1. pc = "ready" /\ readOffset < MinOf(writeOffset, Len(file)) /\ cursor' \in {cursor, NextOffset}
        BY <2>5 DEF AcknowledgeFails, CanAcknowledge
      <3>2. NextOffset \in Nat /\ NextOffset >= readOffset
        <4>1. file \in Seq(Cell) /\ Len(file) \in Nat /\ writeOffset \in Nat
          BY LenProperties DEF IInv, Types
        <4>2. readOffset \in 0 .. Len(file) /\ readOffset # Len(file)
          BY <1>5, <3>1, <4>1 DEF MinOf
        <4>3. LengthAt(file, readOffset) \in Nat
          BY <4>1, <4>2, HopsForward, Zenon
        <4> QED
          BY <1>5, <4>3 DEF NextOffset
      <3> QED
        BY <1>1, <1>2, <1>4, <1>5, <2>5, <3>1, <3>2 DEF AcknowledgeFails, memory, path
    <2>6. CASE CompactionCursor /\ job = Nil
      BY <1>1, <1>3, <1>5, <2>6 DEF CompactionCursor, memory, path
    <2>7. CASE AckReturns /\ pc' = "ready"
      <3>1. pc = "acked" /\ UNCHANGED <<disk, memory, job, produced, accepted, acked, stray, damaged>>
        BY <2>7 DEF AckReturns, ReplaceFile
      <3> QED
        BY <1>1, <1>2, <1>4, <1>5, <2>7, <3>1 DEF memory, disk, path
    <2> QED
      BY <1>6, <2>1, <2>2, <2>3, <2>4, <2>5, <2>6, <2>7
  <1>7. Replaced' /\ linked' \in BOOLEAN /\ atPath' \in Seq(Cell)
    BY <1>6, PathKeeps
  <1> QED
    BY <1>6, <1>7, ReturnKeeps

\* A compaction that fails, before the rename or after it.
LEMMA ReplaceFailsKeeps ==
    ASSUME IInv, pc \in {"ready", "acked"}, ReplaceFails, pc' = "ready", job' = Nil,
           UNCHANGED <<accepted, acked, stray>>, produced' \in produced .. MaxRecords
    PROVE  IInv' /\ Pending' = Pending
  <1>1. UNCHANGED <<file, cursor, readOffset, writeOffset>>
    BY DEF ReplaceFails, memory
  <1>2. cursor \in Nat /\ readOffset \in Nat /\ damaged \in BOOLEAN /\ (~damaged => cursor = readOffset)
    BY DEF IInv, Types, InStep, OpenInStep
  <1>3. CASE UNCHANGED <<path, damaged>>
    <2>1. UNCHANGED <<linked, atPath, damaged>>
      BY <1>3 DEF path
    <2>2. Replaced' /\ linked' \in BOOLEAN /\ atPath' \in Seq(Cell)
      BY <2>1, PathKeeps
    <2> QED
      BY <1>1, <1>2, <2>1, <2>2, ReturnKeeps
  <1>4. CASE linked' = FALSE /\ atPath' = Suffix(file, readOffset) /\ damaged' = TRUE
    <2> DEFINE g == Suffix(file, readOffset)
    <2>1. g \in Seq(Cell) /\ Part(g, file, readOffset)
      BY <1>2, SuffixIsPart DEF IInv, Types
    <2> HIDE DEF g
    <2>2. /\ DOMAIN g = 1 .. Len(g) /\ Len(g) \in Nat
          /\ \A i \in DOMAIN g : g[i][1] <= produced /\ g[i][2] <= SizeOf(g[i][1])
          /\ \A i, j \in DOMAIN g : g[i] = g[j] => i = j
          /\ \A i \in DOMAIN g : g[i][1] \in acked \ stray => readOffset + i <= readOffset
      BY <2>1, CellsOfPart
    <2>3. \A i \in DOMAIN g : g[i][1] <= produced' /\ g[i][1] \notin acked \ stray
      <3>1. \A i \in DOMAIN g : g[i][1] \in Nat
        BY <2>1, <2>2, CellOfFile DEF Records
      <3> QED
        BY <1>2, <2>2, <3>1 DEF IInv, Types
    <2>4. Replaced'
      BY <1>4, <2>2, <2>3 DEF Replaced, g
    <2> QED
      BY <1>1, <1>2, <1>4, <2>1, <2>4, ReturnKeeps DEF g
  <1> QED
    BY <1>3, <1>4 DEF ReplaceFails

\* The prefix the offsets in memory span, and an append behind it.
LEMMA WrittenExtends ==
    ASSUME IInv, pc = "written", ~damaged
    PROVE  LET f == Prefix(file, writeOffset)
           IN  /\ f \in Seq(Cell) /\ Len(f) = writeOffset /\ job \in Records
               /\ Formed(f, Len(f)) /\ Boundary(f, Len(f), readOffset) /\ Extends(file, f, job)
               /\ RecordsFrom(f, readOffset) = Pending
               /\ RecordsFrom(file, readOffset) = Append(Pending, job)
  <1> DEFINE f == Prefix(file, writeOffset)
  <1>1. OpenInStep /\ file \in Seq(Cell) /\ writeOffset \in Nat /\ job \in Records
    BY DEF IInv, InStep, Types, Offsets
  <1>2. Len(file) = writeOffset + SizeOf(job) /\ \A k \in 1 .. SizeOf(job) : file[writeOffset + k] = <<job, k>>
    BY <1>1 DEF OpenInStep
  <1>3. SizeOf(job) \in 2 .. 3
    BY <1>1, CellsOfRecord
  <1>4. writeOffset \in 0 .. Len(file)
    BY <1>1, <1>2, <1>3
  <1>5. f \in Seq(Cell) /\ Len(f) = writeOffset /\ \A i \in 1 .. writeOffset : f[i] = file[i]
    BY <1>1, <1>4, PrefixAndSuffix
  <1>6. Formed(f, Len(f)) /\ Boundary(f, Len(f), readOffset)
    BY <1>1, <1>5, SameCells, Zenon DEF OpenInStep
  <1>7. Extends(file, f, job)
    BY <1>2, <1>5 DEF Extends
  <1>8. RecordsFrom(f, readOffset) = Pending
    BY WithinFile
  <1> HIDE DEF f
  <1>9. RecordsFrom(file, readOffset) = Append(Pending, job)
    BY <1>1, <1>5, <1>6, <1>7, <1>8, ReadsExtended
  <1> QED
    BY <1>1, <1>5, <1>6, <1>7, <1>8, <1>9 DEF f

\* append's sync_data returns: the record is in the queue.
LEMMA SyncedKeeps ==
    ASSUME IInv, AppendSynced
    PROVE  /\ IInv'
           /\ ~damaged' => job \in Records /\ Pending' = Append(Pending, job)
  <1>1. /\ pc = "written" /\ writeOffset' = writeOffset + SizeOf(job) /\ accepted' = accepted \cup {job}
        /\ pc' = "ready" /\ job' = Nil
        /\ UNCHANGED <<file, cursor, linked, atPath, readOffset, produced, acked, stray, damaged>>
    BY DEF AppendSynced, disk, path
  <1>2. /\ job \in Records /\ file \in Seq(Cell)
        /\ readOffset \in Nat /\ writeOffset \in Nat /\ readOffset <= writeOffset
    BY <1>1 DEF IInv, Types, Offsets
  <1>3. SizeOf(job) \in 2 .. 3 /\ job \in 1 .. produced
    <2>1. job \in Nat \ {0} /\ produced \in Nat /\ job <= produced
      BY <1>2 DEF IInv, Types, Records
    <2> QED
      BY <1>2, <2>1, CellsOfRecord
  <1>4. Types'
    BY <1>1, <1>2, <1>3 DEF IInv, Types, Points, Nil
  <1>5. Offsets'
    BY <1>1, <1>2, <1>3 DEF Offsets, Nil
  <1>6. WrittenOnce' /\ AckedBehind' /\ Replaced'
    <2>1. produced' \in produced .. MaxRecords
      BY <1>1, SpoolAssumption DEF IInv, Types
    <2> QED
      BY <1>1, <2>1, PathKeeps DEF IInv, WrittenOnce, AckedBehind
  <1>7. ASSUME ~damaged
        PROVE  OpenInStep' /\ Pending' = Append(Pending, job)
    <2> DEFINE f == Prefix(file, writeOffset)
    <2>1. /\ f \in Seq(Cell) /\ Len(f) = writeOffset
          /\ Formed(f, Len(f)) /\ Boundary(f, Len(f), readOffset) /\ Extends(file, f, job)
          /\ RecordsFrom(file, readOffset) = Append(Pending, job)
      BY <1>1, <1>7, WrittenExtends
    <2> HIDE DEF f
    <2>2. Len(file) = writeOffset' /\ Formed(file, writeOffset')
      BY <1>1, <1>2, <2>1, FormedExtends, Zenon DEF Extends
    <2>3. OpenInStep
      BY <1>1, <1>7 DEF IInv, InStep
    <2>4. Boundary(file, writeOffset', readOffset)
      <3>1. readOffset \in 0 .. writeOffset' /\ (readOffset # writeOffset => file[readOffset + 1][2] = 1)
        <4>1. readOffset # writeOffset => file[readOffset + 1][2] = 1
          BY <2>3, Zenon DEF OpenInStep, Boundary
        <4>2. readOffset \in 0 .. writeOffset'
          BY <1>1, <1>2, <1>3
        <4> QED
          BY <4>1, <4>2
      <3>2. file[writeOffset + 1] = <<job, 1>>
        BY <1>1, <1>3, <2>3 DEF OpenInStep
      <3> QED
        BY <3>1, <3>2 DEF Boundary
    <2>5. ASSUME NEW r \in accepted' \ acked'
          PROVE  \E p \in (readOffset + 1) .. writeOffset' : file[p] = <<r, 1>>
      <3>1. CASE r = job
        <4>1. file[writeOffset + 1] = <<job, 1>>
          BY <1>1, <1>3, <2>3 DEF OpenInStep
        <4>2. writeOffset + 1 \in (readOffset + 1) .. writeOffset'
          BY <1>1, <1>2, <1>3
        <4> QED
          BY <3>1, <4>1, <4>2
      <3>2. CASE r # job
        <4>1. PICK p \in (readOffset + 1) .. writeOffset : file[p] = <<r, 1>>
          BY <1>1, <2>3, <3>2, Zenon DEF OpenInStep, Holds
        <4>2. p \in (readOffset + 1) .. writeOffset'
          BY <1>1, <1>2, <1>3
        <4> QED
          BY <4>1, <4>2
      <3> QED
        BY <3>1, <3>2
    <2>6. OpenInStep'
      <3>1. Formed(file, writeOffset)' /\ Boundary(file, writeOffset, readOffset)'
        BY <1>1, <2>2, <2>4 DEF Formed, Boundary
      <3>2. Holds(file, readOffset, writeOffset)'
        BY <1>1, <2>5 DEF Holds
      <3> QED
        BY <1>1, <2>2, <2>3, <3>1, <3>2 DEF OpenInStep
    <2>7. Pending' = RecordsFrom(file, readOffset)
      <3>1. Pending' = RecordsFrom(Prefix(file, writeOffset'), readOffset)
        <4>1. MinOf(writeOffset', Len(file)) = writeOffset' /\ MinOf(readOffset, writeOffset') = readOffset
          BY <1>1, <1>2, <1>3, <2>2 DEF MinOf
        <4> QED
          BY <1>1, <4>1 DEF Pending
      <3>2. Prefix(file, writeOffset') = file
        BY <1>2, <2>2, SubSeqFull DEF Prefix
      <3> QED
        BY <3>1, <3>2
    <2> QED
      BY <2>1, <2>6, <2>7
  <1>8. InStep'
    BY <1>1, <1>7 DEF InStep
  <1> QED
    BY <1>1, <1>2, <1>4, <1>5, <1>6, <1>7, <1>8 DEF IInv

\* acknowledge moves the cursor past the head record: it leaves the queue.
LEMMA AcknowledgeKeeps ==
    ASSUME IInv, Acknowledge
    PROVE  /\ IInv'
           /\ ~damaged' => Pending # <<>> /\ Pending' = Tail(Pending)
  <1> DEFINE r == file[readOffset + 1][1]
             next == readOffset + LengthAt(file, readOffset)
             end == MinOf(writeOffset, Len(file))
  <1>1. /\ pc = "ready" /\ readOffset < end /\ next <= end /\ IsRecordAt(file, readOffset)
        /\ cursor' = next /\ readOffset' = next /\ acked' = acked \cup {r} /\ pc' = "acked"
        /\ stray' = (IF linked THEN stray \ {r} ELSE stray \cup {r})
        /\ UNCHANGED <<file, linked, atPath, writeOffset, job, produced, accepted, damaged>>
    BY DEF Acknowledge, CanAcknowledge, NextOffset, path
  <1>2. /\ file \in Seq(Cell) /\ readOffset \in Nat /\ writeOffset \in Nat /\ Len(file) \in Nat
        /\ DOMAIN file = 1 .. Len(file) /\ job = Nil
    BY <1>1, LenProperties DEF IInv, Types, Offsets
  <1>3. readOffset \in 0 .. Len(file) /\ readOffset # Len(file) /\ readOffset < writeOffset
    BY <1>1, <1>2 DEF MinOf
  <1>4. LengthAt(file, readOffset) \in Nat
    BY <1>2, <1>3, HopsForward, Zenon
  <1>41. next <= Len(file) /\ next <= writeOffset
    BY <1>1, <1>2, <1>4 DEF MinOf
  <1>5. Readable(file, readOffset)
    BY <1>1, <1>3, <1>41 DEF Readable
  <1>6. /\ r \in Records /\ next = readOffset + SizeOf(r)
        /\ \A k \in 1 .. SizeOf(r) : file[readOffset + k] = <<r, k>>
    BY <1>2, <1>3, <1>5, ReadableIsRecord, Zenon DEF RecordHere
  <1>7. SizeOf(r) \in 2 .. 3
    BY <1>6, CellsOfRecord
  <1>8. readOffset + 1 \in DOMAIN file
    BY <1>2, <1>3, HopsForward, Zenon
  <1> HIDE DEF r, next, end
  <1>9. Types'
    <2>1. next \in Nat /\ r \in 1 .. produced
      <3>1. r <= produced
        BY <1>8 DEF IInv, WrittenOnce, r
      <3> QED
        BY <1>2, <1>6, <1>7, <3>1 DEF Records, IInv, Types
    <2> QED
      BY <1>1, <2>1 DEF IInv, Types, Points
  <1>10. Offsets'
    BY <1>1, <1>2, <1>41 DEF Offsets, Nil
  <1>11. WrittenOnce'
    BY <1>1 DEF IInv, WrittenOnce
  <1>12. ASSUME NEW i \in DOMAIN file, file[i][1] \in (acked \ stray) \cup {r}
         PROVE  i <= next
    <2>1. CASE file[i][1] \in acked \ stray
      <3>1. i <= readOffset
        BY <1>1, <2>1 DEF IInv, AckedBehind
      <3> QED
        BY <1>2, <1>6, <1>7, <3>1
    <2>2. CASE file[i][1] = r
      <3>1. file[i] = <<r, file[i][2]>> /\ file[i][2] \in 1 .. 3 /\ file[i][2] <= SizeOf(r)
        BY <1>2, <2>2, CellOfFile DEF IInv, WrittenOnce
      <3>2. file[i][2] \in 1 .. SizeOf(r)
        BY <1>7, <3>1
      <3>3. file[i] = file[readOffset + file[i][2]]
        BY <1>6, <3>1, <3>2
      <3>4. readOffset + file[i][2] \in DOMAIN file
        BY <1>2, <1>6, <1>7, <1>41, <3>2
      <3>5. i = readOffset + file[i][2]
        BY <3>3, <3>4 DEF IInv, WrittenOnce
      <3> QED
        BY <1>2, <1>6, <1>7, <3>2, <3>5
    <2> QED
      BY <1>12, <2>1, <2>2
  <1>13. AckedBehind' /\ Replaced'
    <2>1. acked' \ stray' \subseteq (acked \ stray) \cup {r}
      BY <1>1
    <2>2. AckedBehind'
      BY <1>1, <1>12, <2>1 DEF AckedBehind
    <2>3. CASE linked
      <3>1. linked' = TRUE /\ atPath' = <<>>
        BY <1>1, <2>3 DEF IInv, Types, Replaced
      <3> QED
        BY <2>2, <3>1, LinkedKeeps
    <2>4. CASE ~linked
      <3>1. acked' \ stray' \subseteq acked \ stray
        BY <1>1, <2>4
      <3> QED
        BY <1>1, <2>2, <2>4, <3>1 DEF IInv, Replaced
    <2> QED
      BY <2>2, <2>3, <2>4
  <1>14. ASSUME ~damaged
         PROVE  OpenInStep' /\ Pending # <<>> /\ Pending' = Tail(Pending)
    <2>1. OpenInStep /\ Len(file) = writeOffset
      BY <1>1, <1>14 DEF IInv, InStep, OpenInStep
    <2>2. Boundary(file, writeOffset, next)
      <3>1. Formed(file, writeOffset) /\ Boundary(file, writeOffset, readOffset)
        BY <2>1 DEF OpenInStep
      <3>2. writeOffset \in 0 .. Len(file) /\ readOffset # writeOffset
        BY <1>2, <1>3, <2>1
      <3> QED
        BY <1>2, <1>6, <3>1, <3>2, RecordAtBoundary DEF r
    <2>3. ASSUME NEW q \in accepted \ (acked \cup {r})
          PROVE  \E p \in (next + 1) .. writeOffset : file[p] = <<q, 1>>
      <3>1. PICK p \in (readOffset + 1) .. writeOffset : file[p] = <<q, 1>>
        BY <2>1, <2>3, Zenon DEF OpenInStep, Holds
      <3>2. p > next
        <4> SUFFICES ASSUME p <= next PROVE FALSE
          BY <1>2, <1>6, <1>7
        <4>1. p - readOffset \in 1 .. SizeOf(r) /\ readOffset + (p - readOffset) = p
          BY <1>2, <1>6, <1>7
        <4>2. file[p] = <<r, p - readOffset>>
          BY <1>6, <4>1
        <4> QED
          BY <2>3, <3>1, <4>2
      <3>3. p \in (next + 1) .. writeOffset
        BY <1>2, <1>6, <1>7, <3>2
      <3> QED
        BY <3>1, <3>3
    <2>4. OpenInStep'
      <3>1. Formed(file, writeOffset)' /\ Boundary(file, writeOffset, readOffset)'
        BY <1>1, <2>1, <2>2 DEF OpenInStep, Formed, Boundary
      <3>2. Holds(file, readOffset, writeOffset)'
        BY <1>1, <2>3 DEF Holds
      <3> QED
        BY <1>1, <2>1, <3>1, <3>2 DEF OpenInStep
    <2>5. Pending = RecordsFrom(file, readOffset)
      BY <1>1, <1>14, <2>1, PendingOfFile
    <2>6. Pending' = RecordsFrom(file, next)
      <3>1. MinOf(writeOffset, Len(file)) = writeOffset /\ MinOf(next, writeOffset) = next
        BY <1>2, <1>6, <1>7, <1>41, <2>1 DEF MinOf
      <3>2. Prefix(file, writeOffset) = file
        BY <1>2, <2>1, SubSeqFull, Zenon DEF Prefix
      <3> QED
        BY <1>1, <3>1, <3>2, Zenon DEF Pending
    <2>7. Pending = <<r>> \o RecordsFrom(file, next)
      BY <1>2, <1>3, <1>5, <2>5, ReadsOn, Zenon DEF r, next
    <2>8. next \in 0 .. Len(file)
      BY <1>2, <1>6, <1>7, <1>41
    <2>9. RecordsFrom(file, next) \in Seq(Records)
      BY <1>2, <2>8, ReadsWhatIsThere
    <2> DEFINE s == RecordsFrom(file, next)
    <2> HIDE DEF s
    <2>10. <<r>> \o s # <<>> /\ Tail(<<r>> \o s) = s
      <3>1. s \in Seq(Records) /\ r \in Records
        BY <1>6, <2>9 DEF s
      <3> QED
        BY <3>1
    <2> QED
      BY <2>4, <2>6, <2>7, <2>10 DEF s
  <1>15. InStep'
    BY <1>1, <1>14 DEF InStep
  <1> QED
    BY <1>1, <1>9, <1>10, <1>11, <1>13, <1>14, <1>15 DEF IInv

\* compact_if_useful replaces the file by its live suffix: no acknowledged
\* record is left in it, and the queue stays what it was.
LEMMA ReplaceKeeps ==
    ASSUME IInv, pc \in {"ready", "acked"}, ReplaceFile,
           \/ job' = Nil /\ produced' = produced
           \/ produced < MaxRecords /\ produced' = produced + 1 /\ job' = produced + 1,
           UNCHANGED <<accepted, acked, stray, damaged>>
    PROVE  IInv' /\ (~damaged' => Pending' = Pending)
  <1> DEFINE g == Suffix(file, readOffset)
  <1>1. /\ file' = g /\ writeOffset' = writeOffset - readOffset /\ readOffset' = 0
        /\ linked' = TRUE /\ atPath' = <<>>
        /\ pc' = "compacted" /\ UNCHANGED <<cursor, accepted, acked, stray, damaged>>
    BY DEF ReplaceFile
  <1>2. /\ file \in Seq(Cell) /\ readOffset \in Nat /\ writeOffset \in Nat /\ Len(file) \in Nat
        /\ readOffset <= writeOffset
        /\ produced \in Nat /\ MaxRecords \in Nat /\ produced <= MaxRecords
    BY LenProperties, SpoolAssumption DEF IInv, Types, Offsets
  <1>3. Replaced' /\ linked' \in BOOLEAN /\ atPath' \in Seq(Cell)
    BY <1>1, LinkedKeeps
  <1>4. g \in Seq(Cell) /\ Part(g, file, readOffset)
    BY <1>2, SuffixIsPart
  <1>5. readOffset <= Len(file) =>
           /\ Len(g) = Len(file) - readOffset
           /\ \A i \in 1 .. (Len(file) - readOffset) : g[i] = file[readOffset + i]
           /\ Drops(g, file, readOffset)
    <2> SUFFICES ASSUME readOffset <= Len(file)
                 PROVE  /\ Len(g) = Len(file) - readOffset
                        /\ \A i \in 1 .. (Len(file) - readOffset) : g[i] = file[readOffset + i]
                        /\ Drops(g, file, readOffset)
      OBVIOUS
    <2>1. readOffset \in 0 .. Len(file)
      BY <1>2
    <2>2. Len(g) = Len(file) - readOffset /\ \A i \in 1 .. (Len(file) - readOffset) : g[i] = file[readOffset + i]
      BY <1>2, <2>1, PrefixAndSuffix
    <2> HIDE DEF g
    <2> QED
      BY <1>2, <2>1, <2>2 DEF Drops
  <1> HIDE DEF g
  <1>6. /\ DOMAIN g = 1 .. Len(g) /\ Len(g) \in Nat
        /\ \A i \in DOMAIN g : g[i][1] <= produced /\ g[i][2] <= SizeOf(g[i][1])
        /\ \A i, j \in DOMAIN g : g[i] = g[j] => i = j
        /\ \A i \in DOMAIN g : g[i][1] \in acked \ stray => readOffset + i <= readOffset
    <2>1. pc # "closed"
      OBVIOUS
    <2> QED
      BY <1>4, <1>5, <2>1, CellsOfPart
  <1>7. \A i \in DOMAIN g : g[i][1] \in Nat \ {0}
    BY <1>4, <1>6, CellOfFile DEF Records
  <1>8. /\ produced' \in produced .. MaxRecords /\ job' \in Records \cup {Nil} /\ job' <= produced'
        /\ (job' # Nil => job' > produced)
    BY <1>2 DEF Records, Nil
  <1>9. Types'
    <2>1. produced' \in 0 .. MaxRecords /\ 1 .. produced \subseteq 1 .. produced' /\ writeOffset' \in Nat
      BY <1>1, <1>2, <1>8
    <2> QED
      BY <1>1, <1>3, <1>4, <1>8, <2>1 DEF IInv, Types, Points
  <1>10. Offsets'
    <2>1. readOffset' <= writeOffset'
      BY <1>1, <1>2
    <2>2. job' # Nil => job' \notin accepted \cup acked
      BY <1>2, <1>8 DEF IInv, Types
    <2> QED
      BY <1>1, <2>1, <2>2 DEF Offsets, Nil
  <1>11. WrittenOnce'
    <2>1. \A i \in DOMAIN g : g[i][1] <= produced' /\ g[i][1] # job'
      BY <1>2, <1>6, <1>7, <1>8 DEF Nil
    <2> QED
      BY <1>1, <1>6, <2>1 DEF WrittenOnce
  <1>12. AckedBehind'
    <2>1. \A i \in DOMAIN g : g[i][1] \notin acked \ stray
      BY <1>2, <1>6
    <2> QED
      BY <1>1, <2>1 DEF AckedBehind
  <1>13. ASSUME ~damaged
         PROVE  OpenInStep' /\ Pending' = Pending
    <2>1. OpenInStep /\ Len(file) = writeOffset
      BY <1>13 DEF IInv, InStep, OpenInStep
    <2>2. Formed(file, Len(file)) /\ Boundary(file, Len(file), readOffset)
      BY <2>1 DEF OpenInStep
    <2>21. /\ readOffset \in 0 .. Len(file) /\ Len(g) = Len(file) - readOffset
           /\ \A i \in 1 .. (Len(file) - readOffset) : g[i] = file[readOffset + i]
           /\ Drops(g, file, readOffset)
      BY <1>2, <1>5, <2>1
    <2>3. Formed(g, Len(g))
      BY <1>2, <1>4, <2>2, <2>21, FormedDrops
    <2>4. Boundary(g, Len(g), 0)
      <3>1. Len(g) \in 0 .. Len(g)
        BY <1>6
      <3> QED
        BY <1>4, <2>3, <3>1, ZeroIsBoundary
    <2>5. ASSUME NEW q \in accepted \ acked
          PROVE  \E p \in (0 + 1) .. Len(g) : g[p] = <<q, 1>>
      <3>1. PICK p \in (readOffset + 1) .. Len(file) : file[p] = <<q, 1>>
        BY <2>1, <2>5, Zenon DEF OpenInStep, Holds
      <3>2. p - readOffset \in (0 + 1) .. Len(g) /\ readOffset + (p - readOffset) = p
        BY <1>2, <2>21
      <3>3. g[p - readOffset] = <<q, 1>>
        BY <2>21, <3>1, <3>2
      <3> QED
        BY <3>2, <3>3
    <2>6. Len(g) = writeOffset'
      BY <1>1, <2>1, <2>21
    <2>7. OpenInStep'
      <3>1. Formed(file, writeOffset)' /\ Boundary(file, writeOffset, readOffset)'
        BY <1>1, <2>3, <2>4, <2>6 DEF Formed, Boundary
      <3>2. Holds(file, readOffset, writeOffset)'
        BY <1>1, <2>5, <2>6, Zenon DEF Holds
      <3> QED
        BY <1>1, <2>6, <3>1, <3>2 DEF OpenInStep
    <2>8. Pending = RecordsFrom(file, readOffset)
      BY <1>13, <2>1, PendingOfFile
    <2>9. Pending' = RecordsFrom(g, 0)
      <3>1. SubSeq(g, 1, Len(g)) = g
        BY <1>4, SubSeqFull
      <3>2. MinOf(writeOffset', Len(g)) = Len(g) /\ MinOf(0, Len(g)) = 0
        BY <1>6, <2>6 DEF MinOf
      <3> QED
        BY <1>1, <2>6, <3>1, <3>2, Zenon DEF Pending, Prefix
    <2>10. RecordsFrom(g, 0) = RecordsFrom(file, readOffset)
      BY <1>2, <1>4, <2>2, <2>21, ReadsDropped
    <2> QED
      BY <2>7, <2>8, <2>9, <2>10
  <1>14. InStep'
    BY <1>1, <1>13 DEF InStep
  <1> QED
    BY <1>1, <1>3, <1>9, <1>10, <1>11, <1>12, <1>13, <1>14 DEF IInv

\* reset_empty truncates the file: the queue was empty.
LEMMA ResetKeeps ==
    ASSUME IInv, AckReturns, pc' = "truncated"
    PROVE  IInv' /\ (~damaged' => Pending' = Pending)
  <1>1. /\ pc = "acked" /\ readOffset = writeOffset /\ file' = <<>> /\ readOffset' = 0 /\ writeOffset' = 0
        /\ UNCHANGED <<cursor, linked, atPath, job, produced, accepted, acked, stray, damaged>>
    BY DEF AckReturns, ReplaceFile, path
  <1>2. <<>> \in Seq(Cell) /\ Len(<<>>) = 0 /\ DOMAIN <<>> = 1 .. 0
    OBVIOUS
  <1>3. \A i : i \notin 1 .. 0
    OBVIOUS
  <1>4. file \in Seq(Cell) /\ job = Nil /\ writeOffset \in Nat /\ Len(file) \in Nat
    BY <1>1, LenProperties DEF IInv, Types, Offsets
  <1>5. Types'
    BY <1>1, <1>2 DEF IInv, Types, Points
  <1>6. Offsets'
    BY <1>1, <1>2, <1>4 DEF Offsets, Nil
  <1>7. WrittenOnce' /\ AckedBehind' /\ Replaced'
    <2>1. produced' \in produced .. MaxRecords
      BY <1>1, SpoolAssumption DEF IInv, Types
    <2> QED
      BY <1>1, <1>2, <1>3, <2>1, PathKeeps DEF WrittenOnce, AckedBehind
  <1>8. ASSUME ~damaged
        PROVE  OpenInStep' /\ Pending' = Pending
    <2>1. OpenInStep /\ Len(file) = writeOffset
      BY <1>1, <1>8 DEF IInv, InStep, OpenInStep
    <2>2. \A q : q \notin accepted \ acked
      <3> SUFFICES ASSUME NEW q \in accepted \ acked PROVE FALSE
        OBVIOUS
      <3>1. PICK p \in (readOffset + 1) .. writeOffset : file[p] = <<q, 1>>
        BY <2>1, Zenon DEF OpenInStep, Holds
      <3> QED
        BY <1>1, <1>4, <3>1
    <2>3. OpenInStep'
      BY <1>1, <1>2, <1>3, <2>2 DEF OpenInStep, Formed, Boundary, Holds
    <2>4. Pending = RecordsFrom(file, readOffset)
      BY <1>1, <1>8, <2>1, PendingOfFile
    <2>5. Pending' = RecordsFrom(<<>>, 0)
      <3>1. SubSeq(<<>>, 1, 0) = <<>> /\ MinOf(0, Len(<<>>)) = 0 /\ MinOf(0, 0) = 0
        BY DEF MinOf
      <3> QED
        BY <1>1, <3>1, Zenon DEF Pending, Prefix
    <2>6. readOffset \in 0 .. Len(file) /\ ~Readable(file, readOffset)
      BY <1>1, <1>4, <2>1 DEF Readable
    <2>7. 0 \in 0 .. Len(<<>>) /\ ~Readable(<<>>, 0)
      BY <1>2 DEF Readable
    <2>8. RecordsFrom(file, readOffset) = <<>> /\ RecordsFrom(<<>>, 0) = <<>>
      BY <1>2, <1>4, <2>6, <2>7, ReadsOn, Zenon
    <2> QED
      BY <2>3, <2>4, <2>5, <2>8
  <1>9. InStep'
    BY <1>1, <1>8 DEF InStep
  <1> QED
    BY <1>1, <1>5, <1>6, <1>7, <1>8, <1>9 DEF IInv

\* reset_empty fails.
LEMMA TruncateFailsKeeps ==
    ASSUME IInv, TruncateFails
    PROVE  IInv' /\ (~damaged' => Pending' = Pending)
  <1>1. /\ pc = "acked" /\ file' \in {file, <<>>} /\ damaged' = (damaged \/ file' # file) /\ pc' = "ready"
        /\ UNCHANGED <<cursor, linked, atPath, readOffset, writeOffset, job, produced, accepted, acked, stray>>
    BY DEF TruncateFails, path, memory
  <1>2. /\ cursor \in Nat /\ job = Nil /\ damaged \in BOOLEAN /\ (~damaged => cursor = readOffset)
        /\ produced' \in produced .. MaxRecords
    BY <1>1, SpoolAssumption DEF IInv, Types, Offsets, InStep, OpenInStep
  <1>3. Replaced' /\ linked' \in BOOLEAN /\ atPath' \in Seq(Cell)
    BY <1>1, <1>2, PathKeeps
  <1>4. CASE file' = file
    BY <1>1, <1>2, <1>3, <1>4, ReturnKeeps
  <1>5. CASE file' # file
    <2>1. file' = <<>> /\ damaged' = TRUE
      BY <1>1, <1>5
    <2>2. <<>> \in Seq(Cell) /\ DOMAIN <<>> = {}
      OBVIOUS
    <2>3. Types'
      BY <1>1, <1>2, <1>3, <2>1, <2>2 DEF IInv, Types, Points
    <2>4. Offsets'
      BY <1>1, <1>2 DEF IInv, Offsets, Nil
    <2>5. WrittenOnce' /\ AckedBehind' /\ InStep'
      BY <2>1, <2>2 DEF WrittenOnce, AckedBehind, InStep
    <2> QED
      BY <1>3, <2>1, <2>3, <2>4, <2>5 DEF IInv
  <1> QED
    BY <1>4, <1>5

\* append writes a record behind the offsets in memory: nobody reads it yet.
LEMMA WriteKeeps ==
    ASSUME IInv, pc \in {"ready", "compacted"}, NEW r \in Records,
           file' = file \o Cells(r), pc' = "written", job' = r,
           \/ pc = "ready" /\ produced' = produced + 1 /\ r = produced + 1 /\ cursor' = cursor
           \/ pc = "compacted" /\ produced' = produced /\ r = job /\ cursor' = 0,
           UNCHANGED <<linked, atPath, readOffset, writeOffset, accepted, acked, stray, damaged>>
    PROVE  IInv' /\ (~damaged' => Pending' = Pending)
  <1> DEFINE n == Len(file)
  <1>1. /\ file \in Seq(Cell) /\ n \in Nat /\ DOMAIN file = 1 .. n
        /\ readOffset \in Nat /\ writeOffset \in Nat /\ readOffset <= writeOffset
        /\ produced \in Nat /\ MaxRecords \in Nat /\ produced <= MaxRecords /\ r \in Nat \ {0} /\ r <= MaxRecords
    BY LenProperties, SpoolAssumption DEF IInv, Types, Offsets, Records
  <1>2. /\ SizeOf(r) \in 2 .. 3 /\ Cells(r) \in Seq(Cell) /\ Len(Cells(r)) = SizeOf(r)
        /\ \A k \in 1 .. SizeOf(r) : Cells(r)[k] = <<r, k>>
    BY CellsOfRecord
  <1>3. /\ file' \in Seq(Cell) /\ Len(file') = n + SizeOf(r)
        /\ \A i \in 1 .. n : file'[i] = file[i]
        /\ \A k \in 1 .. SizeOf(r) : file'[n + k] = <<r, k>>
    <2> DEFINE c == Cells(r)
    <2> HIDE DEF c
    <2>1. file \in Seq(Cell) /\ c \in Seq(Cell) /\ Len(c) = SizeOf(r) /\ file' = file \o c
          /\ \A k \in 1 .. SizeOf(r) : c[k] = <<r, k>>
      BY <1>1, <1>2 DEF c
    <2>2. file \o c \in Seq(Cell) /\ Len(file \o c) = Len(file) + Len(c)
      BY <2>1, ConcatProperties, Zenon
    <2>3. \A i \in 1 .. Len(file) + Len(c) :
             (file \o c)[i] = IF i <= Len(file) THEN file[i] ELSE c[i - Len(file)]
      BY <2>1, ConcatProperties
    <2>4. \A i \in 1 .. n : (file \o c)[i] = file[i]
      BY <1>1, <1>2, <2>1, <2>3
    <2>5. ASSUME NEW k \in 1 .. SizeOf(r) PROVE (file \o c)[n + k] = <<r, k>>
      <3>1. n + k \in 1 .. Len(file) + Len(c) /\ ~(n + k <= Len(file)) /\ (n + k) - Len(file) = k
        BY <1>1, <1>2, <2>1
      <3> QED
        BY <2>1, <2>3, <3>1
    <2> QED
      BY <2>1, <2>2, <2>4, <2>5
  <1>4. DOMAIN file' = 1 .. n + SizeOf(r)
    BY <1>3, LenProperties
  <1> HIDE DEF n
  <1>5. /\ produced' \in produced .. MaxRecords /\ r <= produced' /\ r \notin accepted \cup acked
        /\ \A i \in 1 .. n : file[i][1] # r
    <2>1. \A i \in 1 .. n : file[i][1] <= produced /\ file[i][1] \in Nat
      BY <1>1, CellOfFile DEF IInv, WrittenOnce, Records, n
    <2>2. CASE pc = "ready"
      <3>1. r = produced + 1 /\ produced' = produced + 1
        BY <2>2
      <3> QED
        BY <1>1, <2>1, <3>1 DEF IInv, Types
    <2>3. CASE pc = "compacted"
      <3>1. r = job /\ produced' = produced /\ r # Nil
        BY <1>1, <2>3 DEF Nil
      <3>2. r <= produced /\ r \notin accepted \cup acked /\ \A i \in 1 .. n : file[i][1] # r
        BY <1>1, <2>3, <3>1 DEF IInv, Types, Offsets, WrittenOnce
      <3> QED
        BY <1>1, <3>1, <3>2
    <2> QED
      BY <2>2, <2>3
  <1>6. Types'
    <2>1. produced' \in 0 .. MaxRecords /\ 1 .. produced \subseteq 1 .. produced'
      BY <1>1, <1>5
    <2> QED
      BY <1>3, <1>5, <2>1 DEF IInv, Types, Points
  <1>7. Offsets'
    <2>1. SizeOf(r) <= n + SizeOf(r)
      BY <1>1, <1>2
    <2> QED
      BY <1>1, <1>3, <1>5, <2>1 DEF Offsets, Nil
  <1>8. \A i \in 1 .. n + SizeOf(r) : i \in 1 .. n \/ \E k \in 1 .. SizeOf(r) : i = n + k
    <2> TAKE i \in 1 .. n + SizeOf(r)
    <2>1. i \notin 1 .. n => i - n \in 1 .. SizeOf(r) /\ i = n + (i - n)
      BY <1>1, <1>2
    <2> QED
      BY <2>1
  <1>9. WrittenOnce'
    <2>1. ASSUME NEW i \in 1 .. n + SizeOf(r)
          PROVE  file'[i][1] <= produced' /\ file'[i][2] <= SizeOf(file'[i][1])
      <3>1. CASE i \in 1 .. n
        <4>1. file[i][1] <= produced /\ file[i][2] <= SizeOf(file[i][1]) /\ file[i][1] \in Nat
          BY <1>1, <3>1, CellOfFile DEF IInv, WrittenOnce, Records, n
        <4> QED
          BY <1>1, <1>3, <1>5, <3>1, <4>1
      <3>2. CASE \E k \in 1 .. SizeOf(r) : i = n + k
        <4>1. PICK k \in 1 .. SizeOf(r) : i = n + k
          BY <3>2
        <4>2. file'[i] = <<r, k>> /\ k <= SizeOf(r)
          BY <1>2, <1>3, <4>1
        <4> QED
          BY <1>5, <4>2
      <3> QED
        BY <1>8, <3>1, <3>2, Zenon
    <2>2. ASSUME NEW i \in 1 .. n + SizeOf(r), NEW j \in 1 .. n + SizeOf(r), file'[i] = file'[j]
          PROVE  i = j
      <3>1. CASE i \in 1 .. n /\ j \in 1 .. n
        BY <1>1, <1>3, <2>2, <3>1, Zenon DEF IInv, WrittenOnce
      <3>2. CASE i \in 1 .. n /\ j \notin 1 .. n
        <4>1. PICK k \in 1 .. SizeOf(r) : j = n + k
          BY <1>8, <3>2
        <4>2. file[i][1] = r
          BY <1>3, <2>2, <3>2, <4>1
        <4> QED
          BY <1>5, <3>2, <4>2
      <3>3. CASE i \notin 1 .. n /\ j \in 1 .. n
        <4>1. PICK k \in 1 .. SizeOf(r) : i = n + k
          BY <1>8, <3>3
        <4>2. file[j][1] = r
          BY <1>3, <2>2, <3>3, <4>1
        <4> QED
          BY <1>5, <3>3, <4>2
      <3>4. CASE i \notin 1 .. n /\ j \notin 1 .. n
        <4>1. PICK k \in 1 .. SizeOf(r) : i = n + k
          BY <1>8, <3>4
        <4>2. PICK l \in 1 .. SizeOf(r) : j = n + l
          BY <1>8, <3>4
        <4>3. <<r, k>> = <<r, l>>
          BY <1>3, <2>2, <4>1, <4>2
        <4> QED
          BY <4>1, <4>2, <4>3
      <3> QED
        BY <3>1, <3>2, <3>3, <3>4
    <2> QED
      BY <1>4, <2>1, <2>2, Zenon DEF WrittenOnce
  <1>10. AckedBehind'
    <2>1. ASSUME NEW i \in 1 .. n + SizeOf(r), file'[i][1] \in acked \ stray
          PROVE  i <= cursor' /\ i <= readOffset
      <3>1. i \in 1 .. n
        <4> SUFFICES ASSUME i \notin 1 .. n PROVE FALSE
          OBVIOUS
        <4>1. PICK k \in 1 .. SizeOf(r) : i = n + k
          BY <1>8
        <4> QED
          BY <1>3, <1>5, <2>1, <4>1
      <3>2. i <= cursor /\ i <= readOffset
        BY <1>1, <1>3, <2>1, <3>1 DEF IInv, AckedBehind
      <3>3. pc = "compacted" => readOffset = 0
        BY DEF IInv, Offsets
      <3> QED
        BY <1>1, <3>1, <3>2, <3>3
    <2> QED
      BY <1>4, <2>1, Zenon DEF AckedBehind
  <1>11. ASSUME ~damaged
         PROVE  OpenInStep'
    <2>1. OpenInStep /\ n = writeOffset
      BY <1>11 DEF IInv, InStep, OpenInStep, n
    <2>2. /\ Formed(file', writeOffset) /\ Boundary(file', writeOffset, readOffset)
          /\ Holds(file', readOffset, writeOffset)
      BY <1>1, <1>3, <2>1, SameCells, Zenon DEF OpenInStep
    <2>3. (Formed(file, writeOffset) /\ Boundary(file, writeOffset, readOffset)
             /\ Holds(file, readOffset, writeOffset))'
      BY <2>2, Zenon DEF Formed, Boundary, Holds
    <2>4. cursor' = readOffset
      BY <2>1 DEF OpenInStep, IInv, Offsets
    <2> QED
      BY <1>3, <2>1, <2>3, <2>4, Zenon DEF OpenInStep
  <1>12. InStep'
    BY <1>11 DEF InStep
  <1>13. Replaced'
    BY <1>5, PathKeeps
  <1>14. ASSUME ~damaged
         PROVE  Pending' = Pending
    <2>1. writeOffset <= Len(file) /\ Pending = RecordsFrom(Prefix(file, writeOffset), readOffset)
      BY <1>14, WithinFile
    <2>2. writeOffset <= Len(file') /\ \A i \in 1 .. writeOffset : file'[i] = file[i]
      BY <1>1, <1>2, <1>3, <2>1 DEF n
    <2>3. Prefix(file', writeOffset) = Prefix(file, writeOffset)
      BY <1>1, <1>3, <2>1, <2>2, SamePrefix, Zenon
    <2>4. MinOf(writeOffset, Len(file')) = writeOffset /\ MinOf(readOffset, writeOffset) = readOffset
      <3> DEFINE l == Len(file')
      <3>1. l \in Nat /\ writeOffset <= l
        BY <1>1, <1>2, <1>3, <2>2
      <3> HIDE DEF l
      <3>2. MinOf(writeOffset, l) = writeOffset /\ MinOf(readOffset, writeOffset) = readOffset
        BY <1>1, <3>1 DEF MinOf
      <3> QED
        BY <3>2 DEF l
    <2> QED
      BY <2>1, <2>3, <2>4 DEF Pending
  <1> QED
    BY <1>6, <1>7, <1>9, <1>10, <1>12, <1>13, <1>14 DEF IInv

\* What is left of the file when it is cut off.
LEMMA CutKeeps ==
    ASSUME IInv, NEW m \in 0 .. Len(file), file' = Prefix(file, m),
           UNCHANGED <<produced, acked, stray>>, pc' # "compacted"
    PROVE  /\ file' \in Seq(Cell) /\ Len(file') = m /\ \A i \in 1 .. m : file'[i] = file[i]
           /\ DOMAIN file' = 1 .. m /\ WrittenOnce'
           /\ \A i \in DOMAIN file' :
                 file'[i][1] \in acked \ stray => i <= cursor /\ (pc # "closed" => i <= readOffset)
  <1> DEFINE g == Prefix(file, m)
  <1>1. file \in Seq(Cell) /\ Len(file) \in Nat
    BY LenProperties DEF IInv, Types
  <1>2. g \in Seq(Cell) /\ Len(g) = m /\ \A i \in 1 .. m : g[i] = file[i]
    BY <1>1, PrefixAndSuffix
  <1> HIDE DEF g
  <1>3. Part(g, file, 0)
    <2>1. \A i \in 1 .. m : 0 + i = i /\ i <= Len(file)
      BY <1>1
    <2> QED
      BY <1>2, <2>1 DEF Part
  <1>4. /\ DOMAIN g = 1 .. m
        /\ \A i \in DOMAIN g : g[i][1] <= produced /\ g[i][2] <= SizeOf(g[i][1])
        /\ \A i, j \in DOMAIN g : g[i] = g[j] => i = j
        /\ \A i \in DOMAIN g :
              g[i][1] \in acked \ stray => 0 + i <= cursor /\ (pc # "closed" => 0 + i <= readOffset)
    BY <1>2, <1>3, CellsOfPart
  <1>5. \A i \in DOMAIN g : 0 + i = i
    BY <1>4
  <1>6. WrittenOnce'
    BY <1>4 DEF WrittenOnce, g
  <1>7. \A i \in DOMAIN g : g[i][1] \in acked \ stray => i <= cursor /\ (pc # "closed" => i <= readOffset)
    BY <1>4, <1>5
  <1> QED
    BY <1>2, <1>4, <1>6, <1>7 DEF g

\* An append whose write or sync fails leaves a part of its record behind
\* write_offset.
LEMMA AppendFailsKeeps ==
    ASSUME IInv, AppendFails
    PROVE  IInv' /\ damaged'
  <1>1. PICK k \in 0 .. SizeOf(job) : file' = Prefix(file, Len(file) - SizeOf(job) + k)
    BY DEF AppendFails
  <1>2. /\ pc = "written" /\ pc' = "ready" /\ job' = Nil /\ damaged' = TRUE
        /\ UNCHANGED <<cursor, linked, atPath, readOffset, writeOffset, produced, accepted, acked, stray>>
    BY DEF AppendFails, memory, path
  <1>3. /\ job \in Records /\ file \in Seq(Cell) /\ Len(file) \in Nat /\ writeOffset \in Nat
        /\ SizeOf(job) <= Len(file) /\ readOffset <= writeOffset
    BY <1>2, LenProperties DEF IInv, Types, Offsets
  <1>4. SizeOf(job) \in 2 .. 3
    BY <1>3, CellsOfRecord
  <1> DEFINE m == Len(file) - SizeOf(job) + k
  <1>5. m \in 0 .. Len(file)
    BY <1>3, <1>4
  <1>6. file' = Prefix(file, m)
    BY <1>1
  <1> HIDE DEF m
  <1>7. /\ file' \in Seq(Cell) /\ Len(file') = m /\ WrittenOnce'
        /\ \A i \in DOMAIN file' : file'[i][1] \in acked \ stray => i <= cursor /\ i <= readOffset
    BY <1>2, <1>5, <1>6, CutKeeps
  <1>8. Types'
    BY <1>2, <1>7, SpoolAssumption DEF IInv, Types, Points, Nil
  <1>9. Offsets'
    BY <1>2, <1>3, <1>5, <1>7 DEF Offsets, Nil
  <1>10. AckedBehind' /\ InStep'
    BY <1>2, <1>7 DEF AckedBehind, InStep
  <1>11. Replaced'
    <2>1. produced' \in produced .. MaxRecords
      BY <1>2, SpoolAssumption DEF IInv, Types
    <2> QED
      BY <1>2, <2>1, PathKeeps
  <1> QED
    BY <1>2, <1>7, <1>8, <1>9, <1>10, <1>11 DEF IInv

\* A process that dies while its files are in step leaves a file of n cells of
\* whole records and less than a record behind them: that is what the next open
\* finds.
LEMMA ClosesInStep ==
    ASSUME NEW n \in 0 .. Len(file'), file' \in Seq(Cell), readOffset \in Nat,
           Formed(file', n), Boundary(file', n, readOffset), TornTail(file', n),
           Holds(file', readOffset, n),
           pc' = "closed", cursor' = readOffset, UNCHANGED <<accepted, acked>>
    PROVE  ClosedInStep' /\ Pending' = RecordsFrom(Prefix(file', n), readOffset)
  <1> DEFINE g == file'
  <1>1. n \in 0 .. Len(g) /\ g \in Seq(Cell) /\ Formed(g, n) /\ TornTail(g, n)
    OBVIOUS
  <1> HIDE DEF g
  <1>2. WholeLength(g) = n
    BY <1>1, WholeIsFormed
  <1>3. WholeLength(file)' = n
    BY <1>2 DEF g
  <1>4. MinOf(readOffset, n) = readOffset
    <2>1. n \in Nat /\ readOffset <= n
      BY <1>1, LenProperties DEF Boundary
    <2> QED
      BY <2>1 DEF MinOf
  <1>5. ClosedInStep'
    BY <1>3, Zenon DEF ClosedInStep, Formed, Boundary, TornTail, Holds
  <1>6. Pending' = RecordsFrom(Prefix(file', n), readOffset)
    BY <1>3, <1>4 DEF Pending
  <1> QED
    BY <1>5, <1>6

\* A crash leaves the queue as it was, or puts the record at its back that an
\* append had written and not yet reported.
LEMMA CrashKeeps ==
    ASSUME IInv, Crash
    PROVE  /\ IInv'
           /\ ~damaged' => \/ Pending' = Pending
                           \/ job \in Records /\ Pending' = Append(Pending, job)
  <1>1. /\ pc # "closed" /\ pc' = "closed" /\ job' = Nil /\ readOffset' = 0 /\ writeOffset' = 0
        /\ damaged' = (damaged \/ pc \in {"compacted", "truncated"})
        /\ linked' = TRUE /\ atPath' = <<>>
        /\ UNCHANGED <<cursor, produced, accepted, acked, stray>>
    BY DEF Crash
  <1>2. /\ file \in Seq(Cell) /\ Len(file) \in Nat /\ readOffset \in Nat /\ writeOffset \in Nat
        /\ readOffset <= writeOffset
    BY <1>1, LenProperties DEF IInv, Types, Offsets
  <1>3. pc = "written" => job \in Records /\ SizeOf(job) <= Len(file) /\ SizeOf(job) \in 2 .. 3
    <2>1. pc = "written" => job \in Records /\ SizeOf(job) <= Len(file)
      BY DEF IInv, Types, Offsets
    <2> QED
      BY <2>1, CellsOfRecord
  <1>31. Replaced' /\ linked' \in BOOLEAN /\ atPath' \in Seq(Cell)
    BY <1>1, LinkedKeeps
  <1>32. CASE ~linked /\ file' = atPath
    <2>1. /\ damaged' = TRUE /\ file' \in Seq(Cell)
          /\ \A i \in DOMAIN file' : /\ file'[i][1] <= produced /\ file'[i][2] <= SizeOf(file'[i][1])
                                     /\ file'[i][1] \notin acked \ stray
          /\ \A i, j \in DOMAIN file' : file'[i] = file'[j] => i = j
      BY <1>1, <1>32 DEF IInv, Types, Replaced
    <2>2. Types'
      BY <1>1, <1>31, <2>1 DEF IInv, Types, Points, Nil
    <2>3. Offsets' /\ InStep'
      BY <1>1, <2>1 DEF Offsets, Nil, InStep
    <2>4. WrittenOnce' /\ AckedBehind'
      BY <1>1, <2>1 DEF WrittenOnce, AckedBehind
    <2> QED
      BY <1>31, <2>1, <2>2, <2>3, <2>4 DEF IInv
  <1>33. SUFFICES ASSUME ~(~linked /\ file' = atPath)
                  PROVE  /\ IInv'
                         /\ ~damaged' => \/ Pending' = Pending
                                         \/ job \in Records /\ Pending' = Append(Pending, job)
    BY <1>32
  <1>4. PICK m \in 0 .. Len(file) :
           /\ file' = Prefix(file, m)
           /\ pc # "written" => m = Len(file)
           /\ pc = "written" => m \in (Len(file) - SizeOf(job)) .. Len(file)
    <2>1. CASE pc = "written"
      <3>1. PICK k \in 0 .. SizeOf(job) : file' = Prefix(file, Len(file) - SizeOf(job) + k)
        BY <1>33, <2>1 DEF Crash
      <3> DEFINE m == Len(file) - SizeOf(job) + k
      <3>2. m \in 0 .. Len(file) /\ m \in (Len(file) - SizeOf(job)) .. Len(file)
        BY <1>2, <1>3, <2>1
      <3>3. file' = Prefix(file, m)
        BY <3>1
      <3> HIDE DEF m
      <3> QED
        BY <2>1, <3>2, <3>3
    <2>2. CASE pc # "written"
      <3>1. file' = Prefix(file, Len(file)) /\ Len(file) \in 0 .. Len(file)
        BY <1>2, <1>33, <2>2, SubSeqFull DEF Crash, Prefix
      <3> QED
        BY <2>2, <3>1
    <2> QED
      BY <2>1, <2>2
  <1>5. /\ file' \in Seq(Cell) /\ Len(file') = m /\ \A i \in 1 .. m : file'[i] = file[i]
        /\ WrittenOnce'
        /\ \A i \in DOMAIN file' : file'[i][1] \in acked \ stray => i <= cursor
    BY <1>1, <1>4, CutKeeps
  <1>6. Types'
    BY <1>1, <1>5, <1>31 DEF IInv, Types, Points, Nil
  <1>7. Offsets'
    BY <1>1 DEF Offsets, Nil
  <1>8. AckedBehind'
    BY <1>1, <1>5 DEF AckedBehind
  <1>9. ASSUME ~damaged'
        PROVE  /\ ClosedInStep'
               /\ Pending' = Pending \/ (job \in Records /\ Pending' = Append(Pending, job))
    <2>1. OpenInStep /\ cursor = readOffset /\ ~damaged
      BY <1>1, <1>9, Zenon DEF IInv, InStep, OpenInStep
    <2>2. Formed(file, writeOffset) /\ Boundary(file, writeOffset, readOffset) /\ Holds(file, readOffset, writeOffset)
      BY <2>1 DEF OpenInStep
    <2>3. Pending = RecordsFrom(Prefix(file, writeOffset), readOffset)
      BY <1>1, <2>1, WithinFile
    <2>4. CASE pc # "written" \/ m < Len(file)
      <3>1. /\ pc = "written" => /\ Len(file) = writeOffset + SizeOf(job)
                                 /\ \A k \in 1 .. SizeOf(job) : file[writeOffset + k] = <<job, k>>
            /\ pc # "written" => Len(file) = writeOffset
        BY <2>1 DEF OpenInStep
      <3>2. writeOffset \in 0 .. m /\ writeOffset <= m /\ \A i \in 1 .. writeOffset : file'[i] = file[i]
        BY <1>2, <1>3, <1>4, <1>5, <3>1
      <3>3. /\ Formed(file', writeOffset) /\ Boundary(file', writeOffset, readOffset)
            /\ Holds(file', readOffset, writeOffset)
        BY <1>2, <2>2, <3>2, SameCells, Zenon
      <3>4. TornTail(file', writeOffset)
        <4> SUFFICES ASSUME writeOffset # m
                     PROVE  file'[writeOffset + 1][2] = 1 /\ m < writeOffset + SizeOf(file'[writeOffset + 1][1])
          BY <1>5 DEF TornTail
        <4>1. pc = "written" /\ m < Len(file) /\ writeOffset + 1 \in 1 .. m
          BY <1>2, <1>4, <2>4, <3>1, <3>2
        <4>2. file'[writeOffset + 1] = <<job, 1>>
          BY <1>3, <1>5, <3>1, <4>1
        <4> QED
          BY <3>1, <4>1, <4>2
      <3>5. ClosedInStep' /\ Pending' = RecordsFrom(Prefix(file', writeOffset), readOffset)
        BY <1>1, <1>2, <1>5, <2>1, <3>2, <3>3, <3>4, ClosesInStep
      <3>6. Prefix(file', writeOffset) = Prefix(file, writeOffset)
        BY <1>2, <1>5, <3>2, SamePrefix
      <3> QED
        BY <2>3, <3>5, <3>6
    <2>5. CASE pc = "written" /\ m = Len(file)
      <3>1. file' = file
        BY <1>2, <1>4, <2>5, SubSeqFull DEF Prefix
      <3> DEFINE f == Prefix(file, writeOffset)
      <3>2. /\ f \in Seq(Cell) /\ Len(f) = writeOffset /\ job \in Records
            /\ Formed(f, Len(f)) /\ Extends(file, f, job)
            /\ RecordsFrom(file, readOffset) = Append(Pending, job)
        BY <2>1, <2>5, WrittenExtends
      <3> HIDE DEF f
      <3>3. Formed(file, Len(file)) /\ Len(file) = writeOffset + SizeOf(job)
        BY <1>2, <3>2, FormedExtends, Zenon DEF Extends
      <3>4. Boundary(file, Len(file), readOffset)
        <4>1. readOffset \in 0 .. Len(file) /\ (readOffset # writeOffset => file[readOffset + 1][2] = 1)
          <5>1. writeOffset <= Len(file)
            BY <1>1, <2>1, WithinFile
          <5>2. readOffset \in 0 .. Len(file)
            BY <1>2, <5>1
          <5> QED
            BY <2>2, <5>2, Zenon DEF Boundary
        <4>2. file[writeOffset + 1] = <<job, 1>>
          BY <1>3, <2>1, <2>5 DEF OpenInStep
        <4> QED
          BY <4>1, <4>2 DEF Boundary
      <3>5. Holds(file, readOffset, Len(file))
        <4>1. \A p \in (readOffset + 1) .. writeOffset : p \in (readOffset + 1) .. Len(file)
          <5>1. writeOffset <= Len(file)
            BY <1>1, <2>1, WithinFile
          <5> QED
            BY <1>2, <5>1
        <4> QED
          BY <2>2, <4>1, Zenon DEF Holds
      <3>6. TornTail(file, Len(file)) /\ Len(file) \in 0 .. Len(file)
        BY <1>2 DEF TornTail
      <3>7. ClosedInStep' /\ Pending' = RecordsFrom(Prefix(file, Len(file)), readOffset)
        BY <1>1, <1>2, <2>1, <3>1, <3>3, <3>4, <3>5, <3>6, ClosesInStep
      <3>8. Prefix(file, Len(file)) = file
        BY <1>2, SubSeqFull DEF Prefix
      <3> QED
        BY <3>2, <3>7, <3>8
    <2> QED
      BY <1>2, <2>4, <2>5
  <1>10. InStep'
    BY <1>1, <1>9 DEF InStep
  <1> QED
    BY <1>5, <1>6, <1>7, <1>8, <1>9, <1>10, <1>31 DEF IInv

\* open cuts a torn tail off: it reads what was to be read before.
LEMMA OpenKeeps ==
    ASSUME IInv, Open
    PROVE  IInv' /\ Pending' = Pending
  <1> DEFINE m == WholeLength(file)
  <1>1. /\ pc = "closed" /\ pc' \in {"ready", "recovered"} /\ file' = Prefix(file, m)
        /\ writeOffset' = m /\ readOffset' = MinOf(cursor, m)
        /\ UNCHANGED <<cursor, linked, atPath, job, produced, accepted, acked, stray, damaged>>
    BY DEF Open, path
  <1>2. file \in Seq(Cell) /\ Len(file) \in Nat /\ cursor \in Nat /\ job = Nil
    BY <1>1, LenProperties DEF IInv, Types, Offsets
  <1>3. m \in 0 .. Len(file)
    BY <1>2, WholeWithin
  <1> HIDE DEF m
  <1>4. /\ file' \in Seq(Cell) /\ Len(file') = m /\ \A i \in 1 .. m : file'[i] = file[i]
        /\ DOMAIN file' = 1 .. m /\ WrittenOnce'
        /\ \A i \in DOMAIN file' : file'[i][1] \in acked \ stray => i <= cursor
    BY <1>1, <1>3, CutKeeps
  <1>5. /\ readOffset' \in Nat /\ readOffset' <= m
        /\ \A i \in 1 .. m : i <= cursor => i <= readOffset'
        /\ cursor <= m => readOffset' = cursor
    BY <1>1, <1>2, <1>3 DEF MinOf
  <1>6. Types'
    <2>1. m \in Nat
      BY <1>2, <1>3
    <2> QED
      BY <1>1, <1>4, <1>5, <2>1 DEF IInv, Types, Points
  <1>7. Offsets'
    BY <1>1, <1>2, <1>5 DEF Offsets, Nil
  <1>8. AckedBehind' /\ Replaced'
    <2>1. produced' \in produced .. MaxRecords
      BY <1>1, SpoolAssumption DEF IInv, Types
    <2> QED
      BY <1>1, <1>4, <1>5, <2>1, PathKeeps DEF AckedBehind
  <1>9. ASSUME ~damaged
        PROVE  OpenInStep'
    <2>1. Formed(file, m) /\ Boundary(file, m, cursor) /\ Holds(file, cursor, m)
      BY <1>1, <1>9 DEF IInv, InStep, ClosedInStep, m
    <2>2. m \in Nat
      BY <1>2, <1>3
    <2>3. Formed(file', m) /\ Boundary(file', m, cursor) /\ Holds(file', cursor, m)
      BY <1>2, <1>4, <2>1, <2>2, SameCells, Zenon
    <2>4. readOffset' = cursor
      BY <1>5, <2>1, <2>2 DEF Boundary
    <2>5. (Formed(file, writeOffset) /\ Boundary(file, writeOffset, readOffset)
             /\ Holds(file, readOffset, writeOffset))'
      BY <1>1, <2>3, <2>4, Zenon DEF Formed, Boundary, Holds
    <2> QED
      BY <1>1, <1>4, <2>4, <2>5 DEF OpenInStep
  <1>10. InStep'
    BY <1>1, <1>9 DEF InStep
  <1>11. Pending' = Pending
    <2>1. Pending' = RecordsFrom(Prefix(file', m), MinOf(cursor, m))
      <3>1. MinOf(m, Len(file')) = m /\ MinOf(readOffset', m) = MinOf(cursor, m)
        BY <1>1, <1>2, <1>3, <1>4, <1>5 DEF MinOf
      <3> QED
        BY <1>1, <3>1 DEF Pending
    <2>2. Pending = RecordsFrom(Prefix(file, m), MinOf(cursor, m))
      BY <1>1 DEF Pending, m
    <2>3. m \in Nat /\ m <= Len(file) /\ m <= Len(file')
      BY <1>2, <1>3, <1>4
    <2>4. Prefix(file', m) = Prefix(file, m)
      BY <1>2, <1>4, <2>3, SamePrefix
    <2> QED
      BY <2>1, <2>2, <2>4
  <1> QED
    BY <1>4, <1>6, <1>7, <1>8, <1>10, <1>11 DEF IInv

-----------------------------------------------------------------------------
(* The specification. *)

\* A new spool is in step and empty.
LEMMA InitIInv ==
    ASSUME Init
    PROVE  IInv /\ Pending = <<>>
  <1>1. /\ file = <<>> /\ cursor = 0 /\ readOffset = 0 /\ writeOffset = 0 /\ pc = "closed" /\ job = Nil
        /\ produced = 0 /\ accepted = {} /\ acked = {} /\ damaged = FALSE /\ linked = TRUE /\ atPath = <<>>
    BY DEF Init
  <1>2. <<>> \in Seq(Cell) /\ Len(<<>>) = 0 /\ DOMAIN <<>> = 1 .. 0 /\ \A i : i \notin 1 .. 0
    OBVIOUS
  <1>3. WholeLength(file) = 0
    <2>1. WholeLength(<<>>) \in 0 .. Len(<<>>)
      BY <1>2, WholeWithin, Zenon
    <2> QED
      BY <1>1, <1>2, <2>1
  <1>4. Types /\ Offsets /\ WrittenOnce /\ AckedBehind /\ Replaced
    <2>1. 0 \in 0 .. MaxRecords
      BY SpoolAssumption
    <2>2. Types
      <3>1. file \in Seq(Cell) /\ atPath \in Seq(Cell)
        BY <1>1, <1>2
      <3>2. produced \in 0 .. MaxRecords /\ job <= produced /\ cursor \in Nat /\ readOffset \in Nat /\ writeOffset \in Nat
        BY <1>1, <2>1 DEF Nil
      <3>3. accepted \subseteq 1 .. produced /\ acked \subseteq 1 .. produced /\ job \in Records \cup {Nil}
        BY <1>1
      <3>4. pc \in Points /\ damaged \in BOOLEAN /\ linked \in BOOLEAN
        BY <1>1, Zenon DEF Points
      <3> QED
        BY <3>1, <3>2, <3>3, <3>4 DEF Types
    <2>3. Offsets
      BY <1>1 DEF Offsets, Nil
    <2>4. WrittenOnce /\ AckedBehind /\ Replaced
      BY <1>1, <1>2 DEF WrittenOnce, AckedBehind, Replaced
    <2> QED
      BY <2>2, <2>3, <2>4
  <1>5. InStep
    BY <1>1, <1>2, <1>3 DEF InStep, ClosedInStep, Formed, Boundary, TornTail, Holds
  <1>6. Pending = <<>>
    <2>1. Prefix(<<>>, 0) = <<>> /\ MinOf(0, 0) = 0
      BY DEF Prefix, MinOf
    <2>2. Pending = RecordsFrom(<<>>, 0)
      BY <1>1, <1>3, <2>1 DEF Pending
    <2>3. 0 \in 0 .. Len(<<>>) /\ ~Readable(<<>>, 0)
      BY <1>2 DEF Readable
    <2> QED
      BY <1>2, <2>2, <2>3, ReadsOn, Zenon
  <1> QED
    BY <1>4, <1>5, <1>6 DEF IInv

\* A step of the queue the spool implements, or none.
QueueStep ==
    \/ Pending' = Pending
    \/ Pending # <<>> /\ Pending' = Tail(Pending)
    \/ \E r \in Records : Pending' = Append(Pending, r)

\* Every step of the spool keeps the invariant, and until the files come apart
\* it is a step of the queue.
LEMMA NextKeeps ==
    ASSUME IInv, [Next]_vars
    PROVE  IInv' /\ (~damaged' => QueueStep)
  <1>1. CASE Open
    BY <1>1, OpenKeeps DEF QueueStep
  <1>2. CASE RecoverCursor \/ AppendRejected \/ ResetCursor \/ CursorFails \/ AcknowledgeFails
    BY <1>2, ReturnsKeep DEF QueueStep
  <1>3. CASE AppendCompacts
    <2>1. /\ pc = "ready" /\ produced < MaxRecords /\ ReplaceFile
          /\ produced' = produced + 1 /\ job' = produced + 1
          /\ UNCHANGED <<accepted, acked, stray, damaged>>
      BY <1>3 DEF AppendCompacts
    <2> QED
      BY <2>1, ReplaceKeeps DEF QueueStep
  <1>4. CASE AppendWrites
    <2> DEFINE r == produced + 1
    <2>1. /\ pc = "ready" /\ produced < MaxRecords /\ file' = file \o Cells(r) /\ pc' = "written"
          /\ produced' = r /\ job' = r /\ cursor' = cursor
          /\ UNCHANGED <<linked, atPath, readOffset, writeOffset, accepted, acked, stray, damaged>>
      BY <1>4 DEF AppendWrites, memory, path
    <2>2. r \in Records
      BY <2>1, SpoolAssumption DEF IInv, Types, Records
    <2> QED
      BY <2>1, <2>2, WriteKeeps DEF QueueStep
  <1>5. CASE AppendSynced
    BY <1>5, SyncedKeeps DEF QueueStep
  <1>6. CASE CompactionCursor
    <2>1. CASE job = Nil
      BY <1>6, <2>1, ReturnsKeep DEF QueueStep
    <2>2. CASE job # Nil
      <3>1. /\ pc = "compacted" /\ file' = file \o Cells(job) /\ pc' = "written" /\ cursor' = 0
            /\ UNCHANGED <<linked, atPath, readOffset, writeOffset, job, produced, accepted, acked, stray, damaged>>
        BY <1>6, <2>2 DEF CompactionCursor, memory, path
      <3>2. job \in Records
        BY <2>2 DEF IInv, Types
      <3> QED
        BY <3>1, <3>2, WriteKeeps DEF QueueStep
    <2> QED
      BY <2>1, <2>2
  <1>7. CASE Acknowledge
    BY <1>7, AcknowledgeKeeps DEF QueueStep
  <1>8. CASE AckReturns
    <2>1. CASE pc' = "truncated"
      BY <1>8, <2>1, ResetKeeps DEF QueueStep
    <2>2. CASE pc' = "ready"
      BY <1>8, <2>2, ReturnsKeep DEF QueueStep
    <2>3. CASE pc' = "compacted"
      <3>1. pc = "acked" /\ ReplaceFile /\ UNCHANGED <<job, produced, accepted, acked, stray, damaged>>
        BY <1>8, <2>3 DEF AckReturns
      <3>2. job = Nil
        BY <3>1 DEF IInv, Offsets
      <3> QED
        BY <3>1, <3>2, ReplaceKeeps DEF QueueStep
    <2> QED
      BY <1>8, <2>1, <2>2, <2>3 DEF AckReturns, ReplaceFile
  <1>9. CASE AppendFails
    BY <1>9, AppendFailsKeeps
  <1>10. CASE Crash
    BY <1>10, CrashKeeps DEF QueueStep
  <1>11. CASE AppendCompactFails
    <2>1. /\ pc = "ready" /\ pc' = "ready" /\ job' = Nil /\ ReplaceFails /\ UNCHANGED <<accepted, acked, stray>>
          /\ produced < MaxRecords /\ produced' = produced + 1
      BY <1>11 DEF AppendCompactFails
    <2>2. produced' \in produced .. MaxRecords
      BY <2>1, SpoolAssumption DEF IInv, Types
    <2> QED
      BY <2>1, <2>2, ReplaceFailsKeeps DEF QueueStep
  <1>12. CASE AckCompactFails
    <2>1. /\ pc = "acked" /\ pc' = "ready" /\ ReplaceFails
          /\ UNCHANGED <<job, produced, accepted, acked, stray>>
      BY <1>12 DEF AckCompactFails
    <2>2. produced' \in produced .. MaxRecords /\ job' = Nil
      BY <2>1, SpoolAssumption DEF IInv, Types, Offsets
    <2> QED
      BY <2>1, <2>2, ReplaceFailsKeeps DEF QueueStep
  <1>13. CASE TruncateFails
    BY <1>13, TruncateFailsKeeps DEF QueueStep
  <1>14. CASE UNCHANGED vars
    <2>1. UNCHANGED <<file, cursor, linked, atPath, readOffset, writeOffset, pc, job, produced, accepted, acked, stray, damaged>>
      BY <1>14 DEF vars
    <2>2. Types' /\ Offsets' /\ WrittenOnce' /\ AckedBehind' /\ Replaced'
      BY <2>1 DEF IInv, Types, Offsets, WrittenOnce, AckedBehind, Replaced
    <2>3. InStep'
      BY <2>1, Zenon DEF IInv, InStep, ClosedInStep, OpenInStep, Formed, Boundary, TornTail, Holds
    <2>4. Pending' = Pending
      BY <2>1 DEF Pending
    <2> QED
      BY <2>2, <2>3, <2>4 DEF IInv, QueueStep
  <1> QED
    BY <1>1, <1>2, <1>3, <1>4, <1>5, <1>6, <1>7, <1>8, <1>9, <1>10, <1>11, <1>12, <1>13, <1>14 DEF Next

\* The invariant holds in every reachable state.
THEOREM StaysInStep == Spec => []IInv
  <1>1. Init => IInv
    BY InitIInv
  <1>2. IInv /\ [Next]_vars => IInv'
    BY NextKeeps
  <1> QED
    BY <1>1, <1>2, PTL DEF Spec

\* What a reader gets is read from a file of cells, from an offset within it.
LEMMA PendingIsRead ==
    ASSUME IInv
    PROVE  \E f \in Seq(Cell), from \in Nat, n \in 0 .. Len(file) :
              /\ Len(f) = n /\ from \in 0 .. n /\ \A i \in 1 .. n : f[i] = file[i]
              /\ Pending = RecordsFrom(f, from)
              /\ IF pc = "closed" THEN n = WholeLength(file) /\ from = MinOf(cursor, n)
                                  ELSE n = MinOf(writeOffset, Len(file)) /\ from = MinOf(readOffset, n)
  <1>1. file \in Seq(Cell) /\ Len(file) \in Nat /\ cursor \in Nat /\ readOffset \in Nat /\ writeOffset \in Nat
    BY LenProperties DEF IInv, Types
  <1> DEFINE n == IF pc = "closed" THEN WholeLength(file) ELSE MinOf(writeOffset, Len(file))
             from == IF pc = "closed" THEN MinOf(cursor, n) ELSE MinOf(readOffset, n)
             f == Prefix(file, n)
  <1>2. n \in 0 .. Len(file) /\ n \in Nat
    <2>1. CASE pc = "closed"
      BY <1>1, <2>1, WholeWithin
    <2>2. CASE pc # "closed"
      BY <1>1, <2>2 DEF MinOf
    <2> QED
      BY <1>1, <2>1, <2>2
  <1>3. from \in 0 .. n /\ from \in Nat
    <2> HIDE DEF n
    <2>1. CASE pc = "closed"
      BY <1>1, <1>2, <2>1 DEF MinOf
    <2>2. CASE pc # "closed"
      BY <1>1, <1>2, <2>2 DEF MinOf
    <2> QED
      BY <2>1, <2>2
  <1>4. f \in Seq(Cell) /\ Len(f) = n /\ \A i \in 1 .. n : f[i] = file[i]
    <2> HIDE DEF n
    <2> QED
      BY <1>1, <1>2, PrefixAndSuffix, Zenon
  <1>5. Pending = RecordsFrom(f, from)
    BY DEF Pending
  <1>6. IF pc = "closed" THEN n = WholeLength(file) /\ from = MinOf(cursor, n)
                         ELSE n = MinOf(writeOffset, Len(file)) /\ from = MinOf(readOffset, n)
    OBVIOUS
  <1> HIDE DEF n, from, f
  <1> QED
    BY <1>2, <1>3, <1>4, <1>5, <1>6

\* A record acknowledged through the cursor file is never read again, whatever
\* the order of acknowledgements, compactions, resets, errors and crashes,
\* damaged files included, unless the handle was on a replaced file when it was
\* acknowledged.
THEOREM AcknowledgedIsGone == Spec => []AcknowledgedStaysGone
  <1>1. IInv => AcknowledgedStaysGone
    <2> SUFFICES ASSUME IInv PROVE AcknowledgedStaysGone
      OBVIOUS
    <2>1. PICK f \in Seq(Cell), from \in Nat, n \in 0 .. Len(file) :
             /\ Len(f) = n /\ from \in 0 .. n /\ \A i \in 1 .. n : f[i] = file[i]
             /\ Pending = RecordsFrom(f, from)
             /\ IF pc = "closed" THEN n = WholeLength(file) /\ from = MinOf(cursor, n)
                                 ELSE n = MinOf(writeOffset, Len(file)) /\ from = MinOf(readOffset, n)
      BY PendingIsRead
    <2>2. ASSUME NEW i \in DOMAIN Pending, Pending[i] \in acked \ stray PROVE FALSE
      <3>1. PICK p \in (from + 1) .. Len(f) : f[p][1] = Pending[i]
        BY <2>1, ReadsWhatIsThere, Zenon
      <3>2. /\ file \in Seq(Cell) /\ Len(file) \in Nat /\ DOMAIN file = 1 .. Len(file)
            /\ cursor \in Nat /\ readOffset \in Nat
        BY LenProperties DEF IInv, Types
      <3>3. p \in 1 .. n /\ p \in DOMAIN file /\ p \in Nat /\ p > from /\ p <= n
        BY <2>1, <3>1, <3>2
      <3>4. file[p][1] \in acked \ stray
        BY <2>1, <2>2, <3>1, <3>3
      <3>5. p <= cursor /\ (pc # "closed" => p <= readOffset)
        BY <3>3, <3>4 DEF IInv, AckedBehind
      <3>6. CASE pc = "closed"
        <4>1. from = MinOf(cursor, n)
          BY <2>1, <3>6
        <4> QED
          BY <3>2, <3>3, <3>5, <4>1 DEF MinOf
      <3>7. CASE pc # "closed"
        <4>1. from = MinOf(readOffset, n)
          BY <2>1, <3>7
        <4> QED
          BY <3>2, <3>3, <3>5, <3>7, <4>1 DEF MinOf
      <3> QED
        BY <3>6, <3>7
    <2> QED
      BY <2>2 DEF AcknowledgedStaysGone
  <1> QED
    BY <1>1, StaysInStep, PTL

\* Until a crash or an error falls between the updates of the two files, every
\* record whose append succeeded and that was not acknowledged is there to be
\* read, after every restart too.
THEOREM ReplaysUnlessDamaged == Spec => []ReplaysUntilDamaged
  <1>1. IInv => ReplaysUntilDamaged
    <2> SUFFICES ASSUME IInv, ~damaged, NEW r \in accepted \ acked
                 PROVE  \E i \in DOMAIN Pending : Pending[i] = r
      BY DEF ReplaysUntilDamaged, ReplaysUnacknowledged
    <2>1. PICK f \in Seq(Cell), from \in Nat, n \in 0 .. Len(file) :
             /\ Len(f) = n /\ from \in 0 .. n /\ \A i \in 1 .. n : f[i] = file[i]
             /\ Pending = RecordsFrom(f, from)
             /\ IF pc = "closed" THEN n = WholeLength(file) /\ from = MinOf(cursor, n)
                                 ELSE n = MinOf(writeOffset, Len(file)) /\ from = MinOf(readOffset, n)
      BY PendingIsRead
    <2>2. n \in Nat /\ cursor \in Nat
      BY <2>1, LenProperties DEF IInv, Types
    <2>3. Formed(file, n) /\ Boundary(file, n, from) /\ Holds(file, from, n)
      <3>1. CASE pc = "closed"
        <4>1. Formed(file, n) /\ Boundary(file, n, cursor) /\ Holds(file, cursor, n)
          BY <2>1, <3>1 DEF IInv, InStep, ClosedInStep
        <4>2. from = cursor
          BY <2>1, <2>2, <3>1, <4>1 DEF MinOf, Boundary
        <4> QED
          BY <4>1, <4>2
      <3>2. CASE pc # "closed"
        <4>1. MinOf(writeOffset, Len(file)) = writeOffset /\ MinOf(readOffset, writeOffset) = readOffset
          BY <3>2, WithinFile
        <4>2. n = writeOffset /\ from = readOffset
          BY <2>1, <3>2, <4>1
        <4> QED
          BY <3>2, <4>2 DEF IInv, InStep, OpenInStep
      <3> QED
        BY <3>1, <3>2
    <2>4. Formed(f, Len(f)) /\ Boundary(f, Len(f), from) /\ Holds(f, from, Len(f))
      BY <2>1, <2>2, <2>3, SameCells, Zenon
    <2>5. PICK p \in (from + 1) .. Len(f) : f[p] = <<r, 1>>
      BY <2>4, Zenon DEF Holds
    <2> QED
      BY <2>1, <2>4, <2>5, ReadsAllBehind
  <1> QED
    BY <1>1, StaysInStep, PTL

\* The spool implements DurableQueue until its files come apart: what a reader
\* gets starts empty and changes only by an enqueue at the back and an
\* acknowledgement at the front; opening, compaction, reset and every crash in
\* between change nothing, or complete an append.
THEOREM SpoolIsDurableQueue == Spec => ImplementsDurableQueue
  <1>1. Init => Queue!Init
    BY InitIInv DEF Queue!Init
  <1>2. IInv /\ [Next]_vars => [~damaged' => Queue!Next]_Pending
    <2> SUFFICES ASSUME IInv, [Next]_vars, ~damaged', Pending' # Pending
                 PROVE  Queue!Next
      OBVIOUS
    <2>1. QueueStep
      BY NextKeeps
    <2> QED
      BY <2>1 DEF QueueStep, Queue!Next, Queue!Acknowledge, Queue!Enqueue
  <1> QED
    BY <1>1, <1>2, StaysInStep, PTL DEF Spec, ImplementsDurableQueue
=============================================================================
