----------------------- MODULE DurableAcceptanceProofs -----------------------
(***************************************************************************)
(* The acceptance log for any batches, any window of remembered keys, any  *)
(* compaction threshold and power losses at any point: as long as the log  *)
(* is intact, whatever was acknowledged is in a sink or is replayed; and   *)
(* when the window has room for every key, a restart changes nothing and   *)
(* no key enters the queue twice.                                          *)
(***************************************************************************)
EXTENDS DurableAcceptance, WellFoundedInduction, TLAPS

-----------------------------------------------------------------------------
(* Induction, and functions defined by recursion. *)

\* What holds at 0 and carries over from each number to the next holds up to n.
LEMMA UpwardInduction ==
    ASSUME NEW n \in Nat, NEW S, 0 \in S, \A k \in 0 .. n : k < n /\ k \in S => k + 1 \in S
    PROVE  \A k \in 0 .. n : k \in S
  <1> DEFINE T == {k \in 0 .. n : k \notin S}
  <1>1. SUFFICES ASSUME T # {} PROVE FALSE
    OBVIOUS
  <1>2. PICK k \in T : \A e \in T : ~(<<e, k>> \in OpToRel(<, Nat))
    <2>1. T \subseteq Nat
      OBVIOUS
    <2> QED
      BY <1>1, <2>1, NatLessThanWellFounded, WFMin, Zenon
  <1>3. \A e \in T : ~(e < k)
    <2>1. \A e \in T : e \in Nat /\ k \in Nat
      OBVIOUS
    <2>2. \A e \in T : e < k => <<e, k>> \in {ss \in Nat \X Nat : ss[1] < ss[2]}
      BY <2>1
    <2>3. OpToRel(<, Nat) = {ss \in Nat \X Nat : ss[1] < ss[2]}
      BY DEF OpToRel
    <2> QED
      BY <1>2, <2>2, <2>3, Zenon
  <1>4. k # 0 /\ k - 1 \in 0 .. n /\ k - 1 < n /\ k - 1 < k /\ (k - 1) + 1 = k
    OBVIOUS
  <1>5. k - 1 \in S
    BY <1>3, <1>4
  <1> QED
    BY <1>4, <1>5

\* g is what `step' makes of `first', one number after the other.
IsRun(g, n, X, first, step) ==
    /\ g \in [0 .. n -> X] /\ g[0] = first
    /\ \A k \in 1 .. n : g[k] = step[<<g[k - 1], k>>]

\* There is such a function.
LEMMA RunExists ==
    ASSUME NEW n \in Nat, NEW X, NEW first \in X, NEW step \in [X \X (1 .. n) -> X]
    PROVE  \E g : IsRun(g, n, X, first, step)
  <1> DEFINE S == {k \in 0 .. n : \E g : IsRun(g, k, X, first, step)}
  <1>1. 0 \in S
    <2> DEFINE g == [k \in 0 .. 0 |-> first]
    <2>1. IsRun(g, 0, X, first, step)
      BY DEF IsRun
    <2> QED
      BY <2>1
  <1>2. ASSUME NEW k \in 0 .. n, k < n, k \in S PROVE k + 1 \in S
    <2>1. PICK g : IsRun(g, k, X, first, step)
      BY <1>2
    <2> DEFINE h == [i \in 0 .. k + 1 |-> IF i = k + 1 THEN step[<<g[k], k + 1>>] ELSE g[i]]
    <2>2. g \in [0 .. k -> X] /\ k + 1 \in 1 .. n
      BY <1>2, <2>1 DEF IsRun
    <2>3. step[<<g[k], k + 1>>] \in X
      BY <2>2
    <2>4. h \in [0 .. k + 1 -> X] /\ h[0] = first
      BY <2>1, <2>2, <2>3 DEF IsRun
    <2>5. ASSUME NEW i \in 1 .. k + 1 PROVE h[i] = step[<<h[i - 1], i>>]
      <3>1. CASE i = k + 1
        <4>1. i - 1 = k /\ k \in 0 .. k + 1 /\ k # k + 1 /\ i \in 0 .. k + 1
          BY <3>1
        <4>2. h[k] = g[k] /\ h[i] = step[<<g[k], k + 1>>]
          BY <3>1, <4>1
        <4> HIDE DEF h
        <4> QED
          BY <3>1, <4>1, <4>2
      <3>2. CASE i # k + 1
        <4>1. i \in 1 .. k /\ i \in 0 .. k + 1 /\ i - 1 \in 0 .. k + 1 /\ i - 1 # k + 1
          BY <3>2
        <4>2. g[i] = step[<<g[i - 1], i>>]
          BY <2>1, <4>1 DEF IsRun
        <4>3. h[i] = g[i] /\ h[i - 1] = g[i - 1]
          BY <3>2, <4>1
        <4> HIDE DEF h
        <4> QED
          BY <4>2, <4>3
      <3> QED
        BY <3>1, <3>2
    <2>6. IsRun(h, k + 1, X, first, step)
      <3> HIDE DEF h
      <3> QED
        BY <2>4, <2>5 DEF IsRun
    <2> QED
      BY <1>2, <2>6
  <1>3. n \in S
    <2> HIDE DEF S
    <2> QED
      BY <1>1, <1>2, UpwardInduction
  <1> QED
    BY <1>3

\* What holds of the empty log and of every line more holds of a whole log.
LEMMA LogInduction ==
    ASSUME NEW L, NEW lines \in Seq(L), NEW S, <<>> \in S,
           \A x \in Seq(L), l \in L : x \in S => Append(x, l) \in S
    PROVE  lines \in S
  <1> DEFINE n == Len(lines)
             cut == [k \in 0 .. n |-> SubSeq(lines, 1, k)]
             T == {k \in 0 .. n : cut[k] \in S}
  <1>1. n \in Nat
    OBVIOUS
  <1>2. cut[0] = <<>> /\ cut[n] = lines
    BY <1>1
  <1>3. ASSUME NEW k \in 0 .. n, k < n
        PROVE  cut[k + 1] = Append(cut[k], lines[k + 1])
    <2>1. SubSeq(lines, 1, k + 1) = Append(SubSeq(lines, 1, k), lines[k + 1])
      BY <1>3
    <2>2. k + 1 \in 0 .. n
      BY <1>1, <1>3
    <2> HIDE DEF n
    <2> QED
      BY <2>1, <2>2
  <1>4. \A k \in 0 .. n : k < n => cut[k] \in Seq(L) /\ lines[k + 1] \in L
    OBVIOUS
  <1> HIDE DEF n, cut
  <1>5. 0 \in T
    BY <1>1, <1>2
  <1>6. ASSUME NEW k \in 0 .. n, k < n, k \in T PROVE k + 1 \in T
    <2>1. Append(cut[k], lines[k + 1]) \in S
      BY <1>4, <1>6
    <2>2. cut[k + 1] \in S
      BY <1>3, <1>6, <2>1, Zenon
    <2>3. k + 1 \in 0 .. n
      BY <1>1, <1>6
    <2> QED
      BY <2>2, <2>3
  <1>7. n \in T
    <2> HIDE DEF T
    <2>1. \A k \in 0 .. n : k < n /\ k \in T => k + 1 \in T
      BY <1>6
    <2>2. \A k \in 0 .. n : k \in T
      BY <1>1, <1>5, <2>1, UpwardInduction
    <2> QED
      BY <1>1, <2>2
  <1> QED
    BY <1>2, <1>7

-----------------------------------------------------------------------------
(* The window of remembered keys. *)

\* No key is in the window twice, and batches without a key are not in it.
Windows ==
    {keys \in Seq(Batches \ Keyless) : \A i, j \in DOMAIN keys : keys[i] = keys[j] => i = j}

\* A key joins a window at its end.
LEMMA AppendWindow ==
    ASSUME NEW keys \in Windows, NEW b \in Batches \ Keyless, b \notin Range(keys)
    PROVE  Append(keys, b) \in Windows /\ Range(Append(keys, b)) = Range(keys) \cup {b}
  <1> DEFINE n == Len(keys)
             g == Append(keys, b)
  <1>1. keys \in Seq(Batches \ Keyless) /\ \A i, j \in DOMAIN keys : keys[i] = keys[j] => i = j
    BY DEF Windows
  <1>2. n \in Nat /\ DOMAIN keys = 1 .. n
    BY <1>1
  <1>3. g \in Seq(Batches \ Keyless) /\ DOMAIN g = 1 .. n + 1 /\ g[n + 1] = b
        /\ \A i \in 1 .. n : g[i] = keys[i]
    BY <1>1
  <1> HIDE DEF n, g
  <1>4. \A i \in 1 .. n : keys[i] # b
    BY <1>2 DEF Range
  <1>5. \A i, j \in 1 .. n + 1 : g[i] = g[j] => i = j
    <2> SUFFICES ASSUME NEW i \in 1 .. n + 1, NEW j \in 1 .. n + 1, g[i] = g[j] PROVE i = j
      OBVIOUS
    <2>1. (i = n + 1 \/ i \in 1 .. n) /\ (j = n + 1 \/ j \in 1 .. n)
      BY <1>2
    <2> QED
      BY <1>1, <1>2, <1>3, <1>4, <2>1
  <1>6. Range(g) = Range(keys) \cup {b}
    <2>1. \A i \in 1 .. n + 1 : i = n + 1 \/ i \in 1 .. n
      BY <1>2
    <2>2. n + 1 \in 1 .. n + 1 /\ \A i \in 1 .. n : i \in 1 .. n + 1
      BY <1>2
    <2> QED
      BY <1>2, <1>3, <2>1, <2>2 DEF Range
  <1> QED
    BY <1>3, <1>5, <1>6, Zenon DEF g, Windows

\* The keys but the one at p.
Without(keys, p) == SubSeq(keys, 1, p - 1) \o SubSeq(keys, p + 1, Len(keys))

\* A key leaves a window, wherever it is.
LEMMA RemoveWindow ==
    ASSUME NEW keys \in Windows, NEW p \in DOMAIN keys
    PROVE  Without(keys, p) \in Windows /\ Range(Without(keys, p)) = Range(keys) \ {keys[p]}
  <1> DEFINE n == Len(keys)
             g == Without(keys, p)
  <1>1. keys \in Seq(Batches \ Keyless) /\ \A i, j \in DOMAIN keys : keys[i] = keys[j] => i = j
    BY DEF Windows
  <1>2. n \in Nat /\ DOMAIN keys = 1 .. n /\ p \in 1 .. n
    BY <1>1
  <1>3. /\ g \in Seq(Batches \ Keyless) /\ DOMAIN g = 1 .. n - 1
        /\ \A i \in 1 .. n - 1 : g[i] = IF i < p THEN keys[i] ELSE keys[i + 1]
    <2> DEFINE a == SubSeq(keys, 1, p - 1)
               c == SubSeq(keys, p + 1, n)
    <2>1. a \in Seq(Batches \ Keyless) /\ Len(a) = p - 1 /\ \A i \in 1 .. p - 1 : a[i] = keys[i]
      BY <1>1, <1>2
    <2>2. c \in Seq(Batches \ Keyless) /\ Len(c) = n - p /\ \A i \in 1 .. n - p : c[i] = keys[p + i]
      BY <1>1, <1>2
    <2>3. g = a \o c
      BY DEF Without
    <2> HIDE DEF n, g, a, c
    <2>4. g \in Seq(Batches \ Keyless) /\ Len(g) = n - 1
      <3>1. g \in Seq(Batches \ Keyless) /\ Len(g) = Len(a) + Len(c)
        <4> DEFINE S == Batches \ Keyless
        <4> HIDE DEF S
        <4>1. \A x, y \in Seq(S) : x \o y \in Seq(S) /\ Len(x \o y) = Len(x) + Len(y)
          OBVIOUS
        <4>2. a \in Seq(S) /\ c \in Seq(S)
          BY <2>1, <2>2 DEF S
        <4>3. g \in Seq(S) /\ Len(g) = Len(a) + Len(c)
          BY <2>3, <4>1, <4>2
        <4> QED
          BY <4>3 DEF S
      <3> QED
        BY <1>2, <2>1, <2>2, <3>1
    <2>5. ASSUME NEW i \in 1 .. n - 1 PROVE g[i] = IF i < p THEN keys[i] ELSE keys[i + 1]
      <3>1. CASE i < p
        BY <1>2, <2>1, <2>2, <2>3, <3>1
      <3>2. CASE ~(i < p)
        <4>1. i - (p - 1) \in 1 .. n - p /\ p + (i - (p - 1)) = i + 1
          BY <1>2, <3>2
        <4>2. g[i] = c[i - (p - 1)]
          BY <1>2, <2>1, <2>2, <2>3, <3>2
        <4> QED
          BY <2>2, <3>2, <4>1, <4>2
      <3> QED
        BY <3>1, <3>2
    <2> QED
      BY <2>4, <2>5
  <1> HIDE DEF n, g
  <1>4. \A i \in 1 .. n - 1 : i \in 1 .. n /\ i + 1 \in 1 .. n
    BY <1>2
  <1>5. \A i, j \in 1 .. n - 1 : g[i] = g[j] => i = j
    <2> SUFFICES ASSUME NEW i \in 1 .. n - 1, NEW j \in 1 .. n - 1, g[i] = g[j] PROVE i = j
      OBVIOUS
    <2>1. (IF i < p THEN i ELSE i + 1) = (IF j < p THEN j ELSE j + 1)
      BY <1>1, <1>2, <1>3, <1>4, Zenon
    <2> QED
      BY <1>2, <2>1
  <1>6. \A i \in 1 .. n - 1 : g[i] \in Range(keys) /\ g[i] # keys[p]
    <2> TAKE i \in 1 .. n - 1
    <2>1. \E j \in 1 .. n : j # p /\ g[i] = keys[j]
      <3>1. CASE i < p
        BY <1>2, <1>3, <1>4, <3>1
      <3>2. CASE ~(i < p)
        <4>1. i + 1 # p
          BY <1>2, <3>2
        <4> QED
          BY <1>3, <1>4, <3>2, <4>1
      <3> QED
        BY <3>1, <3>2
    <2> QED
      BY <1>1, <1>2, <2>1 DEF Range
  <1>7. \A j \in 1 .. n : j # p => \E i \in 1 .. n - 1 : g[i] = keys[j]
    <2> SUFFICES ASSUME NEW j \in 1 .. n, j # p PROVE \E i \in 1 .. n - 1 : g[i] = keys[j]
      OBVIOUS
    <2>1. CASE j < p
      BY <1>2, <1>3, <2>1
    <2>2. CASE ~(j < p)
      <3>1. j - 1 \in 1 .. n - 1 /\ ~(j - 1 < p) /\ (j - 1) + 1 = j
        BY <1>2, <2>2
      <3> QED
        BY <1>3, <3>1
    <2> QED
      BY <2>1, <2>2
  <1>8. Range(g) = Range(keys) \ {keys[p]}
    <2>1. Range(g) = {g[i] : i \in 1 .. n - 1} /\ Range(keys) = {keys[i] : i \in 1 .. n}
      BY <1>2, <1>3 DEF Range
    <2> QED
      BY <1>6, <1>7, <2>1, ZenonT(40)
  <1> QED
    BY <1>3, <1>5, <1>8 DEF g, Windows

\* remember adds a key, and may drop the oldest.
LEMMA RememberWindow ==
    ASSUME NEW keys \in Windows, NEW b \in Batches
    PROVE  /\ Remember(keys, b) \in Windows
           /\ Range(Remember(keys, b)) \subseteq Range(keys) \cup {b}
           /\ MaxEntries # 0 /\ ~Evicts(keys, b) =>
                 Range(Remember(keys, b)) = Range(keys) \cup ({b} \ Keyless)
  <1>1. CASE MaxEntries = 0 \/ b \in Keyless \/ b \in Range(keys)
    <2>1. Remember(keys, b) = keys
      BY <1>1 DEF Remember
    <2> QED
      BY <1>1, <2>1
  <1>2. CASE ~(MaxEntries = 0 \/ b \in Keyless \/ b \in Range(keys))
    <2>1. CASE Evicts(keys, b)
      <3>1. Remember(keys, b) = Append(Tail(keys), b)
        BY <1>2, <2>1 DEF Remember
      <3>2. keys \in Seq(Batches \ Keyless) /\ Len(keys) # 0
        BY <1>2, <2>1 DEF Evicts, Windows
      <3>3. 1 \in DOMAIN keys /\ Without(keys, 1) = Tail(keys)
        BY <3>2 DEF Without
      <3>4. Tail(keys) \in Windows /\ Range(Tail(keys)) = Range(keys) \ {keys[1]}
        BY <3>3, RemoveWindow, Zenon
      <3>5. Append(Tail(keys), b) \in Windows /\ Range(Append(Tail(keys), b)) = Range(Tail(keys)) \cup {b}
        BY <1>2, <3>4, AppendWindow
      <3> QED
        BY <2>1, <3>1, <3>4, <3>5
    <2>2. CASE ~Evicts(keys, b)
      <3>1. Remember(keys, b) = Append(keys, b)
        BY <1>2, <2>2 DEF Remember
      <3>2. Append(keys, b) \in Windows /\ Range(Append(keys, b)) = Range(keys) \cup {b}
        BY <1>2, AppendWindow
      <3> QED
        BY <1>2, <3>1, <3>2
    <2> QED
      BY <2>1, <2>2
  <1> QED
    BY <1>1, <1>2

\* forget drops the key it is given.
LEMMA ForgetWindow ==
    ASSUME NEW keys \in Windows, NEW b
    PROVE  Forget(keys, b) \in Windows /\ Range(Forget(keys, b)) = Range(keys) \ {b}
  <1>1. CASE b \in Range(keys)
    <2> DEFINE p == CHOOSE i \in DOMAIN keys : keys[i] = b
    <2>1. p \in DOMAIN keys /\ keys[p] = b
      BY <1>1 DEF Range
    <2>2. Forget(keys, b) = Without(keys, p)
      BY <1>1, Zenon DEF Forget, Without
    <2> HIDE DEF p
    <2> QED
      BY <2>1, <2>2, RemoveWindow
  <1>2. CASE b \notin Range(keys)
    <2>1. Forget(keys, b) = keys
      BY <1>2 DEF Forget
    <2> QED
      BY <1>2, <2>1
  <1> QED
    BY <1>1, <1>2

\* The empty window.
LEMMA EmptyWindow == <<>> \in Windows /\ Range(<<>>) = {}
  BY DEF Windows, Range

\* The function Reload applies to the number of keys.
ReloadAt(keys) ==
    CHOOSE at : at = [n \in 0 .. Len(keys) |-> IF n = 0 THEN <<>> ELSE Remember(at[n - 1], keys[n])]

\* It is what its definition says.
LEMMA ReloadUnfolds ==
    ASSUME NEW keys \in Windows
    PROVE  /\ Reload(keys) = ReloadAt(keys)[Len(keys)]
           /\ ReloadAt(keys)[0] = <<>>
           /\ \A k \in 1 .. Len(keys) : ReloadAt(keys)[k] = Remember(ReloadAt(keys)[k - 1], keys[k])
  <1> DEFINE n == Len(keys)
             step == [x \in Windows \X (1 .. n) |-> Remember(x[1], keys[x[2]])]
  <1>1. n \in Nat /\ \A k \in 1 .. n : keys[k] \in Batches
    BY DEF Windows
  <1> HIDE DEF n
  <1>2. step \in [Windows \X (1 .. n) -> Windows]
    <2>1. ASSUME NEW x \in Windows \X (1 .. n) PROVE Remember(x[1], keys[x[2]]) \in Windows
      BY <1>1, RememberWindow
    <2> QED
      BY <2>1
  <1>3. PICK h : IsRun(h, n, Windows, <<>>, step)
    <2> HIDE DEF step
    <2> QED
      BY <1>1, <1>2, EmptyWindow, RunExists
  <1>4. h = [k \in 0 .. n |-> IF k = 0 THEN <<>> ELSE Remember(h[k - 1], keys[k])]
    <2>1. h \in [0 .. n -> Windows]
      BY <1>3 DEF IsRun
    <2>2. ASSUME NEW k \in 0 .. n, k # 0 PROVE h[k] = Remember(h[k - 1], keys[k])
      <3>1. k \in 1 .. n /\ k - 1 \in 0 .. n
        BY <1>1, <2>2
      <3>2. h[k] = step[<<h[k - 1], k>>]
        BY <1>3, <3>1, Zenon DEF IsRun
      <3>3. h[k - 1] \in Windows
        BY <2>1, <3>1
      <3> QED
        BY <3>1, <3>2, <3>3
    <2>3. h[0] = <<>>
      BY <1>3 DEF IsRun
    <2> QED
      BY <2>1, <2>2, <2>3
  <1>5. ReloadAt(keys) = [k \in 0 .. n |-> IF k = 0 THEN <<>> ELSE Remember(ReloadAt(keys)[k - 1], keys[k])]
    BY <1>4, Zenon DEF ReloadAt, n
  <1>6. Reload(keys) = ReloadAt(keys)[n]
    BY DEF Reload, ReloadAt, n
  <1>7. 0 \in 0 .. n /\ \A k \in 1 .. n : k \in 0 .. n /\ k # 0
    BY <1>1
  <1> QED
    BY <1>5, <1>6, <1>7 DEF n

\* No key is ever evicted.
NoEvictions == \A keys \in Windows, b \in Batches \ Keyless : MaxEntries # 0 /\ ~Evicts(keys, b)

\* Without evictions remember adds a key and keeps the others.
LEMMA RememberAll ==
    ASSUME NoEvictions, NEW keys \in Windows, NEW b \in Batches
    PROVE  Range(Remember(keys, b)) = Range(keys) \cup ({b} \ Keyless)
  <1>1. CASE b \in Keyless
    <2>1. Remember(keys, b) = keys
      BY <1>1 DEF Remember
    <2> QED
      BY <1>1, <2>1
  <1>2. CASE b \notin Keyless
    BY <1>2, RememberWindow DEF NoEvictions
  <1> QED
    BY <1>1, <1>2

\* load_dedupe_snapshot gives a window of saved keys; of all of them, without
\* evictions.
LEMMA ReloadWindow ==
    ASSUME NEW keys \in Windows
    PROVE  /\ Reload(keys) \in Windows /\ Range(Reload(keys)) \subseteq Range(keys)
           /\ NoEvictions => Range(Reload(keys)) = Range(keys)
  <1> DEFINE n == Len(keys)
             at == ReloadAt(keys)
             First(k) == {keys[i] : i \in 1 .. k}
             S == {k \in 0 .. n : /\ at[k] \in Windows /\ Range(at[k]) \subseteq Range(keys)
                                  /\ NoEvictions => Range(at[k]) = First(k)}
  <1>1. n \in Nat /\ \A k \in 1 .. n : keys[k] \in Batches \ Keyless /\ keys[k] \in Range(keys)
    BY DEF Windows, Range
  <1>2. Reload(keys) = at[n] /\ at[0] = <<>> /\ \A k \in 1 .. n : at[k] = Remember(at[k - 1], keys[k])
    BY ReloadUnfolds
  <1>3. Range(keys) = First(n)
    BY DEF Range, Windows
  <1> HIDE DEF n, at
  <1>4. 0 \in S
    <2>1. First(0) = {}
      OBVIOUS
    <2> HIDE DEF First
    <2>2. at[0] \in Windows /\ Range(at[0]) = {}
      BY <1>2, EmptyWindow, Zenon
    <2>3. 0 \in 0 .. n
      BY <1>1
    <2> QED
      BY <2>1, <2>2, <2>3
  <1>5. ASSUME NEW k \in 0 .. n, k < n, k \in S PROVE k + 1 \in S
    <2>1. k + 1 \in 1 .. n /\ k + 1 \in 0 .. n /\ (k + 1) - 1 = k
      BY <1>1, <1>5
    <2>2. at[k + 1] = Remember(at[k], keys[k + 1])
      BY <1>2, <2>1
    <2>3. First(k + 1) = First(k) \cup {keys[k + 1]}
      <3>1. \A i \in 1 .. k + 1 : i \in 1 .. k \/ i = k + 1
        OBVIOUS
      <3>2. k + 1 \in 1 .. k + 1 /\ \A i \in 1 .. k : i \in 1 .. k + 1
        OBVIOUS
      <3> QED
        BY <3>1, <3>2
    <2>4. keys[k + 1] \in Batches \ Keyless /\ keys[k + 1] \in Range(keys)
      BY <1>1, <2>1
    <2> HIDE DEF First
    <2>5. at[k] \in Windows /\ Range(at[k]) \subseteq Range(keys) /\ (NoEvictions => Range(at[k]) = First(k))
      BY <1>5
    <2>6. at[k + 1] \in Windows /\ Range(at[k + 1]) \subseteq Range(keys)
      BY <2>2, <2>4, <2>5, RememberWindow
    <2>7. NoEvictions => Range(at[k + 1]) = First(k + 1)
      <3> SUFFICES ASSUME NoEvictions PROVE Range(at[k + 1]) = First(k + 1)
        OBVIOUS
      <3>1. Range(at[k + 1]) = Range(at[k]) \cup ({keys[k + 1]} \ Keyless)
        BY <2>2, <2>4, <2>5, RememberAll
      <3> QED
        BY <2>3, <2>4, <2>5, <3>1
    <2> QED
      BY <2>1, <2>6, <2>7
  <1>6. n \in S
    <2> HIDE DEF S
    <2>1. \A k \in 0 .. n : k < n /\ k \in S => k + 1 \in S
      BY <1>5
    <2>2. \A k \in 0 .. n : k \in S
      BY <1>1, <1>4, <2>1, UpwardInduction
    <2> QED
      BY <1>1, <2>2
  <1> HIDE DEF First
  <1> QED
    BY <1>2, <1>3, <1>6

-----------------------------------------------------------------------------
(* Replaying the log. *)

\* What accept, commit and compact_locked write.
CleanLines ==
    {AcceptLine(e) : e \in Entries} \cup {Line("abort", {e}, e.batch) : e \in Entries}
        \cup {Line("commit", S, <<>>) : S \in SUBSET Entries}
        \cup {Line("forget", {}, b) : b \in Batches}

\* What replay_wal has found so far.
States == [pending : SUBSET Entries, order : Windows]

\* An accept line.
LEMMA ReplayAccept ==
    ASSUME NEW s \in States, NEW e \in Entries, NEW l, l = AcceptLine(e)
    PROVE  /\ ReplayLine(s, l).pending = {d \in s.pending : d.seq # e.seq} \cup {e}
           /\ ReplayLine(s, l).order = Remember(s.order, e.batch)
           /\ ReplayLine(s, l) \in States
  <1>1. l.op = "accept" /\ l.of = {e} /\ l.key = e.batch
    BY DEF AcceptLine, Line
  <1>2. {x.seq : x \in l.of} = {e.seq}
    BY <1>1
  <1>3. ReplayLine(s, l) = [pending |-> {d \in s.pending : d.seq # e.seq} \cup {e},
                            order |-> Remember(s.order, e.batch)]
    BY <1>1, <1>2 DEF ReplayLine
  <1>4. s.pending \subseteq Entries /\ s.order \in Windows /\ e.batch \in Batches
    BY DEF States, Entries
  <1>5. Remember(s.order, e.batch) \in Windows
    BY <1>4, RememberWindow
  <1> QED
    BY <1>3, <1>4, <1>5 DEF States

\* An abort line.
LEMMA ReplayAbort ==
    ASSUME NEW s \in States, NEW e \in Entries, NEW l, l = Line("abort", {e}, e.batch)
    PROVE  /\ ReplayLine(s, l).pending = s.pending \ {e}
           /\ ReplayLine(s, l).order = IF e \in s.pending THEN Forget(s.order, e.batch) ELSE s.order
           /\ ReplayLine(s, l) \in States
  <1>1. l.op = "abort" /\ l.of = {e} /\ l.key = e.batch
    BY DEF Line
  <1>2. s = [pending |-> s.pending, order |-> s.order] /\ s.pending \subseteq Entries /\ s.order \in Windows
    BY DEF States
  <1>3. ReplayLine(s, l) = IF {e} \subseteq s.pending
                           THEN [pending |-> s.pending \ {e}, order |-> Forget(s.order, e.batch)]
                           ELSE s
    BY <1>1 DEF ReplayLine
  <1>4. Forget(s.order, e.batch) \in Windows
    BY <1>2, ForgetWindow
  <1>5. CASE e \in s.pending
    BY <1>2, <1>3, <1>4, <1>5 DEF States
  <1>6. CASE e \notin s.pending
    BY <1>3, <1>6
  <1> QED
    BY <1>5, <1>6

\* A commit line.
LEMMA ReplayCommit ==
    ASSUME NEW s \in States, NEW S, NEW l, l = Line("commit", S, <<>>)
    PROVE  /\ ReplayLine(s, l).pending = s.pending \ S /\ ReplayLine(s, l).order = s.order
           /\ ReplayLine(s, l) \in States
  <1>1. l.op = "commit" /\ l.of = S
    BY DEF Line
  <1>2. ReplayLine(s, l) = [s EXCEPT !.pending = @ \ S]
    BY <1>1, Zenon DEF ReplayLine
  <1> QED
    BY <1>2 DEF States

\* A forget line.
LEMMA ReplayForget ==
    ASSUME NEW s \in States, NEW b, NEW l, l = Line("forget", {}, b)
    PROVE  /\ ReplayLine(s, l).pending = s.pending /\ ReplayLine(s, l).order = Forget(s.order, b)
           /\ ReplayLine(s, l) \in States
  <1>1. l.op = "forget" /\ l.key = b
    BY DEF Line
  <1>2. ReplayLine(s, l) = [s EXCEPT !.order = Forget(@, b)]
    BY <1>1 DEF ReplayLine
  <1>3. Forget(s.order, b) \in Windows
    BY ForgetWindow DEF States
  <1> QED
    BY <1>2, <1>3 DEF States

\* A clean line keeps the types.
LEMMA ReplayCleanLine ==
    ASSUME NEW s \in States, NEW l \in CleanLines
    PROVE  ReplayLine(s, l) \in States
  <1>1. ASSUME NEW e \in Entries, l = AcceptLine(e) PROVE ReplayLine(s, l) \in States
    BY <1>1, ReplayAccept
  <1>2. ASSUME NEW e \in Entries, l = Line("abort", {e}, e.batch) PROVE ReplayLine(s, l) \in States
    BY <1>2, ReplayAbort, Zenon
  <1>3. ASSUME NEW S \in SUBSET Entries, l = Line("commit", S, <<>>) PROVE ReplayLine(s, l) \in States
    BY <1>3, ReplayCommit
  <1>4. ASSUME NEW b \in Batches, l = Line("forget", {}, b) PROVE ReplayLine(s, l) \in States
    BY <1>4, ReplayForget
  <1> QED
    BY <1>1, <1>2, <1>3, <1>4, Zenon DEF CleanLines

\* The lines replay_wal reads as they were written, their newline or not.
ReadLines == CleanLines \cup {[l EXCEPT !.ended = FALSE] : l \in CleanLines}

\* A line that lacks only its newline is replayed like the whole one.
LEMMA ReplayUnended ==
    ASSUME NEW s, NEW l \in CleanLines
    PROVE  ReplayLine(s, [l EXCEPT !.ended = FALSE]) = ReplayLine(s, l)
  <1> DEFINE m == [l EXCEPT !.ended = FALSE]
  <1>1. m.op = l.op /\ m.of = l.of /\ m.key = l.key
    BY DEF CleanLines, AcceptLine, Line
  <1> HIDE DEF m
  <1>2. ReplayLine(s, m) = ReplayLine(s, l)
    BY <1>1 DEF ReplayLine
  <1> QED
    BY <1>2 DEF m

\* A line keeps the types.
LEMMA ReplayLineStates ==
    ASSUME NEW s \in States, NEW l \in ReadLines
    PROVE  ReplayLine(s, l) \in States
  BY ReplayCleanLine, ReplayUnended DEF ReadLines

\* A clean log can be read.
LEMMA CleanIsRead == Seq(CleanLines) \subseteq Seq(ReadLines) /\ CleanLines \subseteq ReadLines
  <1>1. CleanLines \subseteq ReadLines
    BY DEF ReadLines
  <1> QED
    BY <1>1

\* The function ReplayLines applies to the number of lines.
ReplayAt(window, lines) ==
    CHOOSE at : at = [n \in 0 .. Len(lines) |->
                        IF n = 0 THEN [pending |-> {}, order |-> window]
                        ELSE ReplayLine(at[n - 1], lines[n])]

\* It is what its definition says.
LEMMA ReplayUnfolds ==
    ASSUME NEW window \in Windows, NEW lines \in Seq(ReadLines)
    PROVE  /\ ReplayLines(window, lines) = ReplayAt(window, lines)[Len(lines)]
           /\ ReplayAt(window, lines) \in [0 .. Len(lines) -> States]
           /\ ReplayAt(window, lines)[0] = [pending |-> {}, order |-> window]
           /\ \A k \in 1 .. Len(lines) :
                 ReplayAt(window, lines)[k] = ReplayLine(ReplayAt(window, lines)[k - 1], lines[k])
  <1> DEFINE n == Len(lines)
             first == [pending |-> {}, order |-> window]
             step == [x \in States \X (1 .. n) |-> ReplayLine(x[1], lines[x[2]])]
             Good(g) == g = [k \in 0 .. n |-> IF k = 0 THEN first ELSE ReplayLine(g[k - 1], lines[k])]
  <1>1. n \in Nat /\ \A k \in 1 .. n : lines[k] \in ReadLines
    OBVIOUS
  <1>2. first \in States
    BY DEF States
  <1> HIDE DEF n, first
  <1>3. step \in [States \X (1 .. n) -> States]
    <2>1. ASSUME NEW x \in States \X (1 .. n) PROVE ReplayLine(x[1], lines[x[2]]) \in States
      BY <1>1, ReplayLineStates
    <2> QED
      BY <2>1
  <1>4. PICK h : IsRun(h, n, States, first, step)
    <2> HIDE DEF step
    <2> QED
      BY <1>1, <1>2, <1>3, RunExists, Zenon
  <1>5. Good(h)
    <2>1. h \in [0 .. n -> States]
      BY <1>4 DEF IsRun
    <2>2. ASSUME NEW k \in 0 .. n, k # 0 PROVE h[k] = ReplayLine(h[k - 1], lines[k])
      <3>1. k \in 1 .. n /\ k - 1 \in 0 .. n
        BY <1>1, <2>2
      <3>2. h[k] = step[<<h[k - 1], k>>]
        BY <1>4, <3>1, Zenon DEF IsRun
      <3>3. h[k - 1] \in States
        BY <2>1, <3>1
      <3> QED
        BY <3>1, <3>2, <3>3
    <2>3. h[0] = first
      BY <1>4 DEF IsRun
    <2> QED
      BY <2>1, <2>2, <2>3
  <1> DEFINE at == ReplayAt(window, lines)
  <1>6. Good(at)
    BY <1>5, Zenon DEF ReplayAt, n, first
  <1>7. ReplayLines(window, lines) = at[n]
    BY DEF ReplayLines, ReplayAt, n
  <1> HIDE DEF at
  <1>8. at[0] = first /\ \A k \in 1 .. n : at[k] = ReplayLine(at[k - 1], lines[k])
    <2>1. 0 \in 0 .. n /\ \A k \in 1 .. n : k \in 0 .. n /\ k # 0
      BY <1>1
    <2> QED
      BY <1>6, <2>1, Zenon
  <1>9. \A k \in 0 .. n : at[k] \in States
    <2> DEFINE S == {k \in 0 .. n : at[k] \in States}
    <2>1. 0 \in S
      BY <1>1, <1>2, <1>8
    <2>2. ASSUME NEW k \in 0 .. n, k < n, k \in S PROVE k + 1 \in S
      <3>1. k + 1 \in 1 .. n /\ k + 1 \in 0 .. n /\ (k + 1) - 1 = k
        BY <1>1, <2>2
      <3>2. at[k + 1] = ReplayLine(at[k], lines[k + 1])
        BY <1>8, <3>1
      <3>3. at[k + 1] \in States
        BY <1>1, <2>2, <3>1, <3>2, ReplayLineStates
      <3> QED
        BY <3>1, <3>3
    <2> HIDE DEF S
    <2>3. \A k \in 0 .. n : k < n /\ k \in S => k + 1 \in S
      BY <2>2
    <2>4. \A k \in 0 .. n : k \in S
      BY <1>1, <2>1, <2>3, UpwardInduction
    <2> QED
      BY <2>4 DEF S
  <1>10. at \in [0 .. n -> States]
    BY <1>6, <1>9
  <1> QED
    BY <1>7, <1>8, <1>10 DEF at, n, first

\* Nothing is pending in an empty log.
LEMMA ReplayEmpty ==
    ASSUME NEW window \in Windows
    PROVE  ReplayLines(window, <<>>) = [pending |-> {}, order |-> window]
  <1>1. <<>> \in Seq(ReadLines) /\ Len(<<>>) = 0
    OBVIOUS
  <1>2. /\ ReplayLines(window, <<>>) = ReplayAt(window, <<>>)[Len(<<>>)]
        /\ ReplayAt(window, <<>>)[0] = [pending |-> {}, order |-> window]
    BY <1>1, ReplayUnfolds, Zenon
  <1> QED
    BY <1>1, <1>2

\* replay_wal goes on from where it was.
LEMMA ReplayMore ==
    ASSUME NEW window \in Windows, NEW lines \in Seq(ReadLines), NEW l \in ReadLines
    PROVE  /\ ReplayLines(window, lines) \in States
           /\ Append(lines, l) \in Seq(ReadLines)
           /\ ReplayLines(window, Append(lines, l)) = ReplayLine(ReplayLines(window, lines), l)
  <1> DEFINE n == Len(lines)
             more == Append(lines, l)
             at == ReplayAt(window, lines)
             to == ReplayAt(window, more)
             S == {k \in 0 .. n : at[k] = to[k]}
  <1>1. n \in Nat /\ more \in Seq(ReadLines) /\ Len(more) = n + 1 /\ more[n + 1] = l
        /\ \A k \in 1 .. n : more[k] = lines[k]
    OBVIOUS
  <1>2. /\ ReplayLines(window, lines) = at[n] /\ at \in [0 .. n -> States]
        /\ at[0] = [pending |-> {}, order |-> window]
        /\ \A k \in 1 .. n : at[k] = ReplayLine(at[k - 1], lines[k])
    BY ReplayUnfolds
  <1> HIDE DEF more
  <1>3. /\ ReplayLines(window, more) = to[Len(more)]
        /\ to[0] = [pending |-> {}, order |-> window]
        /\ \A k \in 1 .. Len(more) : to[k] = ReplayLine(to[k - 1], more[k])
    BY <1>1, ReplayUnfolds
  <1> HIDE DEF n, at, to
  <1>4. 0 \in S
    <2>1. 0 \in 0 .. n
      BY <1>1
    <2>2. at[0] = to[0]
      BY <1>2, <1>3
    <2> QED
      BY <2>1, <2>2
  <1>5. ASSUME NEW k \in 0 .. n, k < n, k \in S PROVE k + 1 \in S
    <2>1. k + 1 \in 1 .. n /\ k + 1 \in 1 .. n + 1 /\ k + 1 \in 0 .. n /\ (k + 1) - 1 = k
      BY <1>1, <1>5
    <2>2. at[k + 1] = ReplayLine(at[k], lines[k + 1])
      BY <1>2, <2>1
    <2>3. to[k + 1] = ReplayLine(to[k], more[k + 1])
      BY <1>1, <1>3, <2>1
    <2> QED
      BY <1>1, <1>5, <2>1, <2>2, <2>3
  <1>6. at[n] = to[n]
    <2> HIDE DEF S
    <2>1. \A k \in 0 .. n : k < n /\ k \in S => k + 1 \in S
      BY <1>5
    <2>2. \A k \in 0 .. n : k \in S
      BY <1>1, <1>4, <2>1, UpwardInduction, Zenon
    <2>3. n \in S
      BY <1>1, <2>2
    <2> QED
      BY <2>3 DEF S
  <1>7. to[n + 1] = ReplayLine(to[n], l)
    <2>1. n + 1 \in 1 .. n + 1 /\ (n + 1) - 1 = n
      BY <1>1
    <2> QED
      BY <1>1, <1>3, <2>1
  <1>8. at[n] \in States
    BY <1>1, <1>2
  <1> QED
    BY <1>1, <1>2, <1>3, <1>6, <1>7, <1>8 DEF more

\* The same for clean lines.
LEMMA ReplayAppend ==
    ASSUME NEW window \in Windows, NEW lines \in Seq(CleanLines), NEW l \in CleanLines
    PROVE  /\ ReplayLines(window, lines) \in States
           /\ Append(lines, l) \in Seq(CleanLines)
           /\ ReplayLines(window, Append(lines, l)) = ReplayLine(ReplayLines(window, lines), l)
  <1>1. lines \in Seq(ReadLines) /\ l \in ReadLines
    BY CleanIsRead
  <1>2. Append(lines, l) \in Seq(CleanLines)
    OBVIOUS
  <1> QED
    BY <1>1, <1>2, ReplayMore

\* What replay_wal finds pending; it does not depend on the keys.
PendingOf(lines) == ReplayLines(<<>>, lines).pending

\* The acceptances a log has lines for.
Written(lines) == {e \in Entries : \E i \in DOMAIN lines : lines[i] = AcceptLine(e)}

\* Sequence numbers increase from one accept line to the next.
Numbered(lines) ==
    \A i, j \in DOMAIN lines : i < j =>
        \A d, e \in Entries : lines[i] = AcceptLine(d) /\ lines[j] = AcceptLine(e) => d.seq < e.seq

BatchesOf(S) == {e.batch : e \in S}

\* A line does the same to equal sets of pending acceptances.
LEMMA SamePending ==
    ASSUME NEW s \in States, NEW t \in States, s.pending = t.pending, NEW l \in CleanLines
    PROVE  ReplayLine(s, l).pending = ReplayLine(t, l).pending
  <1>1. ASSUME NEW e \in Entries, l = AcceptLine(e) PROVE ReplayLine(s, l).pending = ReplayLine(t, l).pending
    <2>1. ReplayLine(s, l).pending = {d \in s.pending : d.seq # e.seq} \cup {e}
      BY <1>1, ReplayAccept
    <2>2. ReplayLine(t, l).pending = {d \in t.pending : d.seq # e.seq} \cup {e}
      BY <1>1, ReplayAccept
    <2> QED
      BY <2>1, <2>2
  <1>2. ASSUME NEW e \in Entries, l = Line("abort", {e}, e.batch)
        PROVE  ReplayLine(s, l).pending = ReplayLine(t, l).pending
    <2>1. ReplayLine(s, l).pending = s.pending \ {e}
      BY <1>2, ReplayAbort
    <2>2. ReplayLine(t, l).pending = t.pending \ {e}
      BY <1>2, ReplayAbort
    <2> QED
      BY <2>1, <2>2
  <1>3. ASSUME NEW S \in SUBSET Entries, l = Line("commit", S, <<>>)
        PROVE  ReplayLine(s, l).pending = ReplayLine(t, l).pending
    <2>1. ReplayLine(s, l).pending = s.pending \ S
      BY <1>3, ReplayCommit
    <2>2. ReplayLine(t, l).pending = t.pending \ S
      BY <1>3, ReplayCommit
    <2> QED
      BY <2>1, <2>2
  <1>4. ASSUME NEW b \in Batches, l = Line("forget", {}, b)
        PROVE  ReplayLine(s, l).pending = ReplayLine(t, l).pending
    BY <1>4, ReplayForget
  <1> QED
    BY <1>1, <1>2, <1>3, <1>4, Zenon DEF CleanLines

\* Whatever the keys, replay_wal finds the same acceptances pending.
LEMMA PendingAnyKeys ==
    ASSUME NEW window \in Windows, NEW lines \in Seq(CleanLines)
    PROVE  ReplayLines(window, lines).pending = PendingOf(lines)
  <1> DEFINE S == {x \in Seq(CleanLines) : ReplayLines(window, x).pending = PendingOf(x)}
  <1>1. <<>> \in S
    <2>1. ReplayLines(window, <<>>).pending = {} /\ PendingOf(<<>>) = {}
      BY ReplayEmpty, EmptyWindow DEF PendingOf
    <2>2. <<>> \in Seq(CleanLines)
      OBVIOUS
    <2> QED
      BY <2>1, <2>2, Zenon
  <1>2. ASSUME NEW x \in Seq(CleanLines), NEW l \in CleanLines, x \in S PROVE Append(x, l) \in S
    <2>1. x \in Seq(CleanLines) /\ ReplayLines(window, x).pending = ReplayLines(<<>>, x).pending
      BY <1>2 DEF PendingOf
    <2>2. /\ ReplayLines(window, x) \in States /\ Append(x, l) \in Seq(CleanLines)
          /\ ReplayLines(window, Append(x, l)) = ReplayLine(ReplayLines(window, x), l)
      BY <2>1, ReplayAppend
    <2>3. /\ ReplayLines(<<>>, x) \in States
          /\ ReplayLines(<<>>, Append(x, l)) = ReplayLine(ReplayLines(<<>>, x), l)
      BY <2>1, ReplayAppend, EmptyWindow
    <2>4. ReplayLine(ReplayLines(window, x), l).pending = ReplayLine(ReplayLines(<<>>, x), l).pending
      BY <2>1, <2>2, <2>3, SamePending
    <2> QED
      BY <2>2, <2>3, <2>4 DEF PendingOf
  <1>3. lines \in S
    <2> HIDE DEF S
    <2> QED
      BY <1>1, <1>2, LogInduction
  <1> QED
    BY <1>3

\* One line more.
LEMMA PendingAppend ==
    ASSUME NEW lines \in Seq(CleanLines), NEW l \in CleanLines
    PROVE  \E s \in States : /\ PendingOf(lines) = s.pending /\ PendingOf(lines) \subseteq Entries
                             /\ PendingOf(Append(lines, l)) = ReplayLine(s, l).pending
  <1> DEFINE s == ReplayLines(<<>>, lines)
  <1>1. s \in States /\ ReplayLines(<<>>, Append(lines, l)) = ReplayLine(s, l)
    BY ReplayAppend, EmptyWindow
  <1>2. PendingOf(lines) = s.pending /\ s.pending \subseteq Entries
    BY <1>1 DEF PendingOf, States
  <1>3. PendingOf(Append(lines, l)) = ReplayLine(s, l).pending
    BY <1>1 DEF PendingOf
  <1> HIDE DEF s
  <1> QED
    BY <1>1, <1>2, <1>3

\* An accept line makes an acceptance pending, and displaces one of the same number.
LEMMA PendingAccept ==
    ASSUME NEW lines \in Seq(CleanLines), NEW e \in Entries
    PROVE  PendingOf(Append(lines, AcceptLine(e))) = {d \in PendingOf(lines) : d.seq # e.seq} \cup {e}
  <1>1. AcceptLine(e) \in CleanLines
    BY DEF CleanLines
  <1>2. PICK s \in States : /\ PendingOf(lines) = s.pending
                            /\ PendingOf(Append(lines, AcceptLine(e))) = ReplayLine(s, AcceptLine(e)).pending
    BY <1>1, PendingAppend
  <1> QED
    BY <1>2, ReplayAccept

\* An abort line takes its acceptance back.
LEMMA PendingAbort ==
    ASSUME NEW lines \in Seq(CleanLines), NEW e \in Entries
    PROVE  PendingOf(Append(lines, Line("abort", {e}, e.batch))) = PendingOf(lines) \ {e}
  <1> DEFINE l == Line("abort", {e}, e.batch)
  <1>1. l \in CleanLines
    BY Zenon DEF CleanLines
  <1>2. PICK s \in States : /\ PendingOf(lines) = s.pending
                            /\ PendingOf(Append(lines, l)) = ReplayLine(s, l).pending
    BY <1>1, PendingAppend
  <1>3. ReplayLine(s, l).pending = s.pending \ {e}
    <2>1. l = Line("abort", {e}, e.batch)
      OBVIOUS
    <2> HIDE DEF l
    <2> QED
      BY <2>1, ReplayAbort, Zenon
  <1> HIDE DEF l
  <1> QED
    BY <1>2, <1>3, Zenon DEF l

\* A commit line ends its acceptances.
LEMMA PendingCommit ==
    ASSUME NEW lines \in Seq(CleanLines), NEW S \in SUBSET Entries
    PROVE  PendingOf(Append(lines, Line("commit", S, <<>>))) = PendingOf(lines) \ S
  <1>1. Line("commit", S, <<>>) \in CleanLines
    BY DEF CleanLines
  <1>2. PICK s \in States : /\ PendingOf(lines) = s.pending
                            /\ PendingOf(Append(lines, Line("commit", S, <<>>)))
                                 = ReplayLine(s, Line("commit", S, <<>>)).pending
    BY <1>1, PendingAppend
  <1> QED
    BY <1>2, ReplayCommit

\* A forget line is about keys only.
LEMMA PendingForget ==
    ASSUME NEW lines \in Seq(CleanLines), NEW b \in Batches
    PROVE  PendingOf(Append(lines, Line("forget", {}, b))) = PendingOf(lines)
  <1>1. Line("forget", {}, b) \in CleanLines
    BY DEF CleanLines
  <1>2. PICK s \in States : /\ PendingOf(lines) = s.pending
                            /\ PendingOf(Append(lines, Line("forget", {}, b)))
                                 = ReplayLine(s, Line("forget", {}, b)).pending
    BY <1>1, PendingAppend
  <1> QED
    BY <1>2, ReplayForget

\* Lines of different kinds, or for different acceptances, differ.
LEMMA AcceptLineOnly ==
    ASSUME NEW e \in Entries
    PROVE  /\ \A d \in Entries : AcceptLine(d) = AcceptLine(e) => d = e
           /\ \A d : AcceptLine(e) # Line("abort", {d}, d.batch)
           /\ \A S, b : AcceptLine(e) # Line("commit", S, b) /\ AcceptLine(e) # Line("forget", S, b)
  <1>1. AcceptLine(e).op = "accept" /\ \A d \in Entries : AcceptLine(d).of = {d}
    BY DEF AcceptLine, Line
  <1>2. \A o, S, b : Line(o, S, b).op = o
    BY DEF Line
  <1>3. \A d \in Entries : AcceptLine(d) = AcceptLine(e) => d = e
    BY <1>1
  <1> QED
    BY <1>1, <1>2, <1>3

\* The acceptances of a log with one line more, and their numbers.
LEMMA WrittenAppend ==
    ASSUME NEW lines \in Seq(CleanLines), NEW l \in CleanLines
    PROVE  /\ Written(Append(lines, l)) = Written(lines) \cup {e \in Entries : l = AcceptLine(e)}
           /\ Numbered(Append(lines, l)) <=>
                 /\ Numbered(lines)
                 /\ \A d \in Written(lines), e \in Entries : l = AcceptLine(e) => d.seq < e.seq
  <1> DEFINE n == Len(lines)
             more == Append(lines, l)
  <1>1. /\ n \in Nat /\ DOMAIN lines = 1 .. n /\ DOMAIN more = 1 .. n + 1
        /\ more[n + 1] = l /\ \A i \in 1 .. n : more[i] = lines[i]
    OBVIOUS
  <1> HIDE DEF n, more
  <1>2. /\ n + 1 \in 1 .. n + 1 /\ \A i \in 1 .. n : i \in 1 .. n + 1 /\ i < n + 1
        /\ \A i \in 1 .. n + 1 : i = n + 1 \/ i \in 1 .. n
    BY <1>1
  <1>3. Written(more) = Written(lines) \cup {e \in Entries : l = AcceptLine(e)}
    BY <1>1, <1>2 DEF Written
  <1>4. ASSUME Numbered(more) PROVE Numbered(lines)
    BY <1>1, <1>2, <1>4 DEF Numbered
  <1>5. ASSUME Numbered(more), NEW d \in Written(lines), NEW e \in Entries, l = AcceptLine(e)
        PROVE  d.seq < e.seq
    <2>1. PICK i \in 1 .. n : lines[i] = AcceptLine(d)
      BY <1>1 DEF Written
    <2>2. d \in Entries
      BY DEF Written
    <2> QED
      BY <1>1, <1>2, <1>5, <2>1, <2>2 DEF Numbered
  <1>6. ASSUME Numbered(lines),
               \A d \in Written(lines), e \in Entries : l = AcceptLine(e) => d.seq < e.seq
        PROVE  Numbered(more)
    <2> SUFFICES ASSUME NEW i \in 1 .. n + 1, NEW j \in 1 .. n + 1, i < j, NEW d \in Entries, NEW e \in Entries,
                        more[i] = AcceptLine(d), more[j] = AcceptLine(e)
                 PROVE  d.seq < e.seq
      BY <1>1 DEF Numbered
    <2>1. i \in 1 .. n
      BY <1>1
    <2>2. CASE j \in 1 .. n
      BY <1>1, <1>6, <2>1, <2>2 DEF Numbered
    <2>3. CASE j = n + 1
      <3>1. d \in Written(lines)
        BY <1>1, <2>1 DEF Written
      <3> QED
        BY <1>1, <1>6, <2>3, <3>1
    <2> QED
      BY <1>2, <2>2, <2>3
  <1> QED
    BY <1>3, <1>4, <1>5, <1>6 DEF more

\* Only acceptances with a line are pending.
LEMMA PendingWritten ==
    ASSUME NEW lines \in Seq(CleanLines)
    PROVE  PendingOf(lines) \subseteq Written(lines)
  <1> DEFINE S == {x \in Seq(CleanLines) : PendingOf(x) \subseteq Written(x)}
  <1>1. <<>> \in S
    <2>1. PendingOf(<<>>) = {}
      BY ReplayEmpty, EmptyWindow DEF PendingOf
    <2>2. <<>> \in Seq(CleanLines)
      OBVIOUS
    <2> QED
      BY <2>1, <2>2, Zenon
  <1>2. ASSUME NEW x \in Seq(CleanLines), NEW l \in CleanLines, x \in S PROVE Append(x, l) \in S
    <2>1. Append(x, l) \in Seq(CleanLines)
      OBVIOUS
    <2>2. Written(Append(x, l)) = Written(x) \cup {e \in Entries : l = AcceptLine(e)}
      BY WrittenAppend
    <2>3. ASSUME NEW e \in Entries, l = AcceptLine(e) PROVE PendingOf(Append(x, l)) \subseteq PendingOf(x) \cup {e}
      BY <2>3, PendingAccept
    <2>4. ASSUME NEW e \in Entries, l = Line("abort", {e}, e.batch)
          PROVE  PendingOf(Append(x, l)) \subseteq PendingOf(x)
      BY <2>4, PendingAbort, Zenon
    <2>5. ASSUME NEW T \in SUBSET Entries, l = Line("commit", T, <<>>)
          PROVE  PendingOf(Append(x, l)) \subseteq PendingOf(x)
      BY <2>5, PendingCommit
    <2>6. ASSUME NEW b \in Batches, l = Line("forget", {}, b) PROVE PendingOf(Append(x, l)) \subseteq PendingOf(x)
      BY <2>6, PendingForget
    <2>7. PendingOf(Append(x, l)) \subseteq PendingOf(x) \cup {e \in Entries : l = AcceptLine(e)}
      BY <2>3, <2>4, <2>5, <2>6, Zenon DEF CleanLines
    <2> QED
      BY <1>2, <2>1, <2>2, <2>7
  <1>3. lines \in S
    <2> HIDE DEF S
    <2> QED
      BY <1>1, <1>2, LogInduction
  <1> QED
    BY <1>3

\* A new number displaces nothing.
LEMMA PendingFresh ==
    ASSUME NEW lines \in Seq(CleanLines), NEW e \in Entries, \A d \in Written(lines) : d.seq < e.seq
    PROVE  PendingOf(Append(lines, AcceptLine(e))) = PendingOf(lines) \cup {e}
  <1>1. \A d \in PendingOf(lines) : d \in Entries /\ d.seq < e.seq
    BY PendingWritten DEF Written
  <1>2. \A d \in Entries : d.seq \in Int
    BY AcceptanceAssumption DEF Entries, SequenceNumbers
  <1>3. \A d \in PendingOf(lines) : d.seq # e.seq
    BY <1>1, <1>2
  <1> QED
    BY <1>3, PendingAccept

\* What the commit lines are about is in C.
CommitsIn(lines, C) ==
    \A i \in DOMAIN lines, T \in SUBSET Entries :
        lines[i] = Line("commit", T, <<>>) => BatchesOf(T) \subseteq C

\* One line more.
LEMMA CommitsAppend ==
    ASSUME NEW lines \in Seq(CleanLines), NEW l \in CleanLines, NEW C
    PROVE  CommitsIn(Append(lines, l), C) <=>
              /\ CommitsIn(lines, C)
              /\ \A T \in SUBSET Entries : l = Line("commit", T, <<>>) => BatchesOf(T) \subseteq C
  <1> DEFINE n == Len(lines)
             more == Append(lines, l)
  <1>1. /\ n \in Nat /\ DOMAIN lines = 1 .. n /\ DOMAIN more = 1 .. n + 1
        /\ more[n + 1] = l /\ \A i \in 1 .. n : more[i] = lines[i]
    OBVIOUS
  <1> HIDE DEF n, more
  <1>2. /\ n + 1 \in 1 .. n + 1 /\ \A i \in 1 .. n : i \in 1 .. n + 1
        /\ \A i \in 1 .. n + 1 : i = n + 1 \/ i \in 1 .. n
    BY <1>1
  <1> HIDE DEF BatchesOf, Line
  <1> QED
    BY <1>1, <1>2, Zenon DEF CommitsIn, more

\* Every key a replay remembers was in the window, or is of a batch that is
\* pending or committed.
LEMMA KeysAccounted ==
    ASSUME NEW window \in Windows, NEW lines \in Seq(CleanLines), Numbered(lines), NEW C, CommitsIn(lines, C)
    PROVE  Range(ReplayLines(window, lines).order)
             \subseteq Range(window) \cup BatchesOf(PendingOf(lines)) \cup C
  <1> DEFINE Keys(x) == Range(ReplayLines(window, x).order)
             Good(x) == Keys(x) \subseteq Range(window) \cup BatchesOf(PendingOf(x)) \cup C
             S == {x \in Seq(CleanLines) : Numbered(x) /\ CommitsIn(x, C) => Good(x)}
  <1>1. <<>> \in S
    <2>1. Keys(<<>>) = Range(window)
      BY ReplayEmpty
    <2>2. <<>> \in Seq(CleanLines)
      OBVIOUS
    <2> HIDE DEF Keys
    <2> QED
      BY <2>1, <2>2, Zenon
  <1>2. ASSUME NEW x \in Seq(CleanLines), NEW l \in CleanLines, x \in S PROVE Append(x, l) \in S
    <2> DEFINE s == ReplayLines(window, x)
               r == ReplayLine(s, l)
               more == Append(x, l)
    <2>1. more \in Seq(CleanLines) /\ s \in States /\ ReplayLines(window, more) = r
      BY ReplayAppend
    <2>2. s.pending = PendingOf(x) /\ s.order \in Windows
      BY <2>1, PendingAnyKeys DEF States
    <2> SUFFICES ASSUME Numbered(more), CommitsIn(more, C) PROVE Good(more)
      BY <2>1
    <2>3. Numbered(x) /\ \A d \in Written(x), e \in Entries : l = AcceptLine(e) => d.seq < e.seq
      BY WrittenAppend
    <2>4. CommitsIn(x, C) /\ \A T \in SUBSET Entries : l = Line("commit", T, <<>>) => BatchesOf(T) \subseteq C
      BY CommitsAppend
    <2>5. Range(s.order) \subseteq Range(window) \cup BatchesOf(PendingOf(x)) \cup C
      BY <1>2, <2>3, <2>4
    <2>6. Keys(more) = Range(r.order)
      BY <2>1
    <2> HIDE DEF s, r, Keys
    <2>7. ASSUME NEW e \in Entries, l = AcceptLine(e) PROVE Good(more)
      <3>1. r.order = Remember(s.order, e.batch)
        BY <2>1, <2>7, ReplayAccept DEF r
      <3>2. Range(r.order) \subseteq Range(s.order) \cup {e.batch}
        BY <2>2, <3>1, RememberWindow DEF Entries
      <3>3. PendingOf(more) = PendingOf(x) \cup {e}
        BY <2>3, <2>7, PendingFresh
      <3> QED
        BY <2>5, <2>6, <3>2, <3>3 DEF BatchesOf
    <2>8. ASSUME NEW e \in Entries, l = Line("abort", {e}, e.batch) PROVE Good(more)
      <3>1. r.order = IF e \in s.pending THEN Forget(s.order, e.batch) ELSE s.order
        BY <2>1, <2>8, ReplayAbort, ZenonT(40) DEF r
      <3>2. PendingOf(more) = PendingOf(x) \ {e}
        BY <2>8, PendingAbort, Zenon
      <3>3. CASE e \in s.pending
        <4>1. Range(r.order) = Range(s.order) \ {e.batch}
          BY <2>2, <3>1, <3>3, ForgetWindow
        <4> QED
          BY <2>5, <2>6, <3>2, <4>1 DEF BatchesOf
      <3>4. CASE e \notin s.pending
        <4>1. PendingOf(more) = PendingOf(x)
          BY <2>2, <3>2, <3>4
        <4> QED
          BY <2>5, <2>6, <3>1, <3>4, <4>1
      <3> QED
        BY <3>3, <3>4
    <2>9. ASSUME NEW T \in SUBSET Entries, l = Line("commit", T, <<>>) PROVE Good(more)
      <3>1. r.order = s.order
        BY <2>1, <2>9, ReplayCommit DEF r
      <3>2. PendingOf(more) = PendingOf(x) \ T /\ BatchesOf(T) \subseteq C
        BY <2>4, <2>9, PendingCommit
      <3> QED
        BY <2>5, <2>6, <3>1, <3>2 DEF BatchesOf
    <2>10. ASSUME NEW b \in Batches, l = Line("forget", {}, b) PROVE Good(more)
      <3>1. r.order = Forget(s.order, b)
        BY <2>1, <2>10, ReplayForget DEF r
      <3>2. Range(r.order) \subseteq Range(s.order)
        BY <2>2, <3>1, ForgetWindow
      <3>3. PendingOf(more) = PendingOf(x)
        BY <2>10, PendingForget
      <3> QED
        BY <2>5, <2>6, <3>2, <3>3
    <2> QED
      BY <2>7, <2>8, <2>9, <2>10, Zenon DEF CleanLines
  <1>3. lines \in S
    <2> HIDE DEF S
    <2> QED
      BY <1>1, <1>2, LogInduction
  <1> QED
    BY <1>3

-----------------------------------------------------------------------------
(* Sequence numbers, and the log a compaction leaves. *)

\* A bounded set of numbers has a greatest one.
LEMMA MaxExists ==
    ASSUME NEW n \in Nat, NEW T \in SUBSET (0 .. n), 0 \in T
    PROVE  Max(T) \in T /\ \A y \in T : y <= Max(T)
  <1> DEFINE Bounded(k) == \A y \in T : y <= k
             IsMax(x) == \A y \in T : x >= y
             S == {k \in 0 .. n : Bounded(k) => \E x \in T : IsMax(x)}
  <1>1. 0 \in S
    BY DEF S
  <1>2. ASSUME NEW k \in 0 .. n, k < n, k \in S PROVE k + 1 \in S
    <2>1. k + 1 \in 0 .. n
      BY <1>2
    <2>2. SUFFICES ASSUME Bounded(k + 1) PROVE \E x \in T : IsMax(x)
      BY <2>1
    <2>3. CASE k + 1 \in T
      <3>1. IsMax(k + 1)
        BY <2>2
      <3> QED
        BY <2>3, <3>1
    <2>4. CASE k + 1 \notin T
      <3>1. Bounded(k)
        BY <2>2, <2>4
      <3> QED
        BY <1>2, <3>1
    <2> QED
      BY <2>3, <2>4
  <1>3. n \in S
    <2> HIDE DEF S
    <2>1. \A k \in 0 .. n : k < n /\ k \in S => k + 1 \in S
      BY <1>2
    <2>2. \A k \in 0 .. n : k \in S
      BY <1>1, <2>1, UpwardInduction
    <2> QED
      BY <2>2
  <1>4. Bounded(n)
    OBVIOUS
  <1>5. \E x \in T : IsMax(x)
    BY <1>3, <1>4
  <1>6. Max(T) \in T /\ IsMax(Max(T))
    BY <1>5, Zenon DEF Max
  <1> QED
    BY <1>6

\* The highest number is one.
LEMMA HighestBounds ==
    ASSUME NEW E \in SUBSET Entries
    PROVE  Highest(E) \in 0 .. MaxSequence /\ \A e \in E : e.seq \in 1 .. Highest(E)
  <1> DEFINE T == {e.seq : e \in E} \cup {0}
  <1>1. MaxSequence \in Nat /\ \A e \in E : e.seq \in 1 .. MaxSequence
    BY AcceptanceAssumption DEF Entries, SequenceNumbers
  <1>2. T \in SUBSET (0 .. MaxSequence) /\ 0 \in T /\ \A e \in E : e.seq \in T
    BY <1>1
  <1>3. Highest(E) = Max(T)
    BY DEF Highest
  <1> HIDE DEF T
  <1>4. Max(T) \in T /\ \A y \in T : y <= Max(T)
    BY <1>1, <1>2, MaxExists
  <1>5. Highest(E) \in 0 .. MaxSequence
    BY <1>2, <1>3, <1>4, Zenon
  <1>6. \A e \in E : e.seq <= Highest(E)
    BY <1>2, <1>3, <1>4, Zenon
  <1> QED
    BY <1>1, <1>5, <1>6

\* The accept lines of a clean log.
LEMMA WrittenLines ==
    ASSUME NEW lines \in Seq(CleanLines)
    PROVE  /\ UNION {lines[i].of : i \in {j \in DOMAIN lines : lines[j].op = "accept"}} = Written(lines)
           /\ Written(lines) \subseteq Entries
  <1>1. ASSUME NEW l \in CleanLines, l.op = "accept" PROVE \E e \in Entries : l = AcceptLine(e) /\ l.of = {e}
    BY <1>1 DEF CleanLines, AcceptLine, Line
  <1>2. \A e \in Entries : AcceptLine(e).op = "accept" /\ AcceptLine(e).of = {e}
    BY DEF AcceptLine, Line
  <1>3. \A i \in DOMAIN lines : lines[i] \in CleanLines
    OBVIOUS
  <1> DEFINE U == UNION {lines[i].of : i \in {j \in DOMAIN lines : lines[j].op = "accept"}}
  <1>4. ASSUME NEW e \in U PROVE e \in Written(lines)
    <2>1. PICK i \in DOMAIN lines : lines[i].op = "accept" /\ e \in lines[i].of
      OBVIOUS
    <2>2. PICK d \in Entries : lines[i] = AcceptLine(d) /\ lines[i].of = {d}
      BY <1>1, <1>3, <2>1
    <2> QED
      BY <2>1, <2>2 DEF Written
  <1>5. ASSUME NEW e \in Written(lines) PROVE e \in U
    <2>1. PICK i \in DOMAIN lines : lines[i] = AcceptLine(e)
      BY DEF Written
    <2>2. lines[i].op = "accept" /\ e \in lines[i].of
      BY <1>2, <2>1 DEF Written
    <2> QED
      BY <2>2
  <1> QED
    BY <1>4, <1>5 DEF Written

\* open numbers the next acceptance behind all it finds.
LEMMA NextIsBehind ==
    ASSUME NEW lines \in Seq(CleanLines)
    PROVE  NextAfter(lines) \in Nat \ {0} /\ \A e \in Written(lines) : e.seq < NextAfter(lines)
  <1>1. NextAfter(lines) = 1 + Highest(Written(lines)) /\ Written(lines) \in SUBSET Entries
    BY WrittenLines, Zenon DEF NextAfter
  <1>2. Highest(Written(lines)) \in 0 .. MaxSequence /\ \A e \in Written(lines) : e.seq \in 1 .. Highest(Written(lines))
    BY <1>1, HighestBounds
  <1>3. MaxSequence \in Nat
    BY AcceptanceAssumption
  <1> QED
    BY <1>1, <1>2, <1>3

NoForgets(lines) == \A i \in DOMAIN lines : lines[i].op # "forget"

\* A log of the acceptances E and nothing else, in sequence order.
LogOf(lines, E) ==
    /\ lines \in Seq(CleanLines) /\ Numbered(lines) /\ NoForgets(lines) /\ CommitsIn(lines, {})
    /\ Written(lines) = E /\ PendingOf(lines) = E
    /\ NoEvictions => \A w \in Windows :
          Range(ReplayLines(w, lines).order) = Range(w) \cup (BatchesOf(E) \ Keyless)

\* The empty log.
LEMMA LogOfNothing == LogOf(<<>>, {})
  <1>1. PendingOf(<<>>) = {}
    BY ReplayEmpty, EmptyWindow DEF PendingOf
  <1>2. \A w \in Windows : Range(ReplayLines(w, <<>>).order) = Range(w)
    BY ReplayEmpty
  <1>3. <<>> \in Seq(CleanLines) /\ DOMAIN <<>> = {}
    OBVIOUS
  <1>4. BatchesOf({}) = {}
    BY DEF BatchesOf
  <1>5. Written(<<>>) = {}
    BY <1>3 DEF Written
  <1>6. Numbered(<<>>) /\ NoForgets(<<>>) /\ CommitsIn(<<>>, {})
    BY <1>3, Zenon DEF Numbered, NoForgets, CommitsIn
  <1> QED
    BY <1>1, <1>2, <1>3, <1>4, <1>5, <1>6 DEF LogOf

\* One acceptance more, behind the others.
LEMMA LogOfMore ==
    ASSUME NEW lines, NEW E, LogOf(lines, E), NEW e \in Entries, \A d \in E : d.seq < e.seq
    PROVE  LogOf(Append(lines, AcceptLine(e)), E \cup {e})
  <1> DEFINE l == AcceptLine(e)
             more == Append(lines, l)
  <1>1. lines \in Seq(CleanLines) /\ Written(lines) = E /\ PendingOf(lines) = E
    BY DEF LogOf
  <1>2. l \in CleanLines /\ l.op = "accept"
    BY Zenon DEF CleanLines, AcceptLine, Line
  <1>3. {d \in Entries : l = AcceptLine(d)} = {e} /\ \A T : l # Line("commit", T, <<>>)
    BY AcceptLineOnly
  <1>4. more \in Seq(CleanLines) /\ Len(lines) \in Nat /\ DOMAIN more = 1 .. Len(lines) + 1
        /\ DOMAIN lines = 1 .. Len(lines)
        /\ more[Len(lines) + 1] = l /\ \A i \in 1 .. Len(lines) : more[i] = lines[i]
    BY <1>1, <1>2
  <1>5. PendingOf(more) = E \cup {e}
    BY <1>1, PendingFresh
  <1> HIDE DEF l
  <1>6. Written(more) = E \cup {e} /\ Numbered(more)
    <2>1. Written(more) = E \cup {d \in Entries : l = AcceptLine(d)}
      BY <1>1, <1>2, WrittenAppend
    <2>2. \A d \in E, c \in Entries : l = AcceptLine(c) => d.seq < c.seq
      BY <1>3
    <2>3. Numbered(lines)
      BY DEF LogOf
    <2> QED
      BY <1>1, <1>2, <1>3, <2>1, <2>2, <2>3, WrittenAppend
  <1>7. CommitsIn(more, {})
    BY <1>1, <1>2, <1>3, CommitsAppend DEF LogOf
  <1>8. NoForgets(more)
    <2>1. \A i \in 1 .. Len(lines) + 1 : i = Len(lines) + 1 \/ i \in 1 .. Len(lines)
      BY <1>4
    <2>2. \A i \in 1 .. Len(lines) : lines[i].op # "forget"
      BY <1>4 DEF LogOf, NoForgets
    <2> HIDE DEF more
    <2> QED
      BY <1>2, <1>4, <2>1, <2>2 DEF NoForgets
  <1>9. ASSUME NoEvictions, NEW w \in Windows
        PROVE  Range(ReplayLines(w, more).order) = Range(w) \cup (BatchesOf(E \cup {e}) \ Keyless)
    <2> DEFINE s == ReplayLines(w, lines)
    <2>1. s \in States /\ ReplayLines(w, more) = ReplayLine(s, l)
      BY <1>1, <1>2, ReplayAppend
    <2>2. Range(s.order) = Range(w) \cup (BatchesOf(E) \ Keyless)
      BY <1>9 DEF LogOf
    <2>3. s.order \in Windows /\ e.batch \in Batches
      BY <2>1 DEF States, Entries
    <2> HIDE DEF s, more
    <2>4. ReplayLine(s, l).order = Remember(s.order, e.batch)
      BY <2>1, ReplayAccept DEF l
    <2>5. Range(Remember(s.order, e.batch)) = Range(s.order) \cup ({e.batch} \ Keyless)
      BY <1>9, <2>3, RememberAll
    <2>6. BatchesOf(E \cup {e}) = BatchesOf(E) \cup {e.batch}
      BY DEF BatchesOf
    <2> QED
      BY <2>1, <2>2, <2>4, <2>5, <2>6, Zenon
  <1> HIDE DEF more
  <1> QED
    BY <1>4, <1>5, <1>6, <1>7, <1>8, <1>9, Zenon DEF LogOf, more, l

\* The function Compacted applies to the highest number.
CompactedAt(E) ==
    CHOOSE at : at = [q \in 0 .. Highest(E) |->
                        IF q = 0 THEN <<>>
                        ELSE IF \E e \in E : e.seq = q
                        THEN Append(at[q - 1], AcceptLine(CHOOSE e \in E : e.seq = q))
                        ELSE at[q - 1]]

\* It is what its definition says.
LEMMA CompactedUnfolds ==
    ASSUME NEW E \in SUBSET Entries
    PROVE  /\ Compacted(E) = CompactedAt(E)[Highest(E)]
           /\ CompactedAt(E)[0] = <<>>
           /\ \A q \in 1 .. Highest(E) :
                 CompactedAt(E)[q] = IF \E e \in E : e.seq = q
                                     THEN Append(CompactedAt(E)[q - 1], AcceptLine(CHOOSE e \in E : e.seq = q))
                                     ELSE CompactedAt(E)[q - 1]
  <1> DEFINE n == Highest(E)
             Of(q) == CHOOSE e \in E : e.seq = q
             Has(q) == \E e \in E : e.seq = q
             step == [x \in Seq(CleanLines) \X (1 .. n) |->
                        IF Has(x[2]) THEN Append(x[1], AcceptLine(Of(x[2]))) ELSE x[1]]
             Good(g) == g = [q \in 0 .. n |-> IF q = 0 THEN <<>>
                                              ELSE IF Has(q) THEN Append(g[q - 1], AcceptLine(Of(q)))
                                              ELSE g[q - 1]]
  <1>1. n \in Nat
    BY HighestBounds, AcceptanceAssumption
  <1>2. \A q : Has(q) => Of(q) \in E /\ Of(q) \in Entries
    OBVIOUS
  <1> HIDE DEF n, Of, Has
  <1>3. \A q : Has(q) => AcceptLine(Of(q)) \in CleanLines
    BY <1>2 DEF CleanLines
  <1>4. step \in [Seq(CleanLines) \X (1 .. n) -> Seq(CleanLines)]
    <2>1. ASSUME NEW x \in Seq(CleanLines), NEW q \in 1 .. n, Has(q)
          PROVE  Append(x, AcceptLine(Of(q))) \in Seq(CleanLines)
      BY <1>3, <2>1
    <2>2. ASSUME NEW x \in Seq(CleanLines) \X (1 .. n)
          PROVE  (IF Has(x[2]) THEN Append(x[1], AcceptLine(Of(x[2]))) ELSE x[1]) \in Seq(CleanLines)
      BY <2>1, <2>2
    <2> QED
      BY <2>2
  <1>5. <<>> \in Seq(CleanLines)
    OBVIOUS
  <1>6. PICK h : IsRun(h, n, Seq(CleanLines), <<>>, step)
    <2> HIDE DEF step
    <2> QED
      BY <1>1, <1>4, <1>5, RunExists, Zenon
  <1>7. Good(h)
    <2>1. h \in [0 .. n -> Seq(CleanLines)] /\ h[0] = <<>>
      BY <1>6 DEF IsRun
    <2>2. ASSUME NEW q \in 0 .. n, q # 0
          PROVE  h[q] = IF Has(q) THEN Append(h[q - 1], AcceptLine(Of(q))) ELSE h[q - 1]
      <3>1. q \in 1 .. n /\ q - 1 \in 0 .. n
        BY <1>1, <2>2
      <3>2. h[q] = step[<<h[q - 1], q>>]
        BY <1>6, <3>1, Zenon DEF IsRun
      <3>3. h[q - 1] \in Seq(CleanLines)
        BY <2>1, <3>1
      <3>4. <<h[q - 1], q>> \in Seq(CleanLines) \X (1 .. n)
        BY <3>1, <3>3
      <3> QED
        BY <3>2, <3>4
    <2> QED
      BY <2>1, <2>2
  <1> DEFINE at == CompactedAt(E)
  <1>8. Good(at)
    BY <1>7, Zenon DEF CompactedAt, n, Has, Of
  <1>9. Compacted(E) = at[n]
    BY DEF Compacted, CompactedAt, n
  <1> HIDE DEF at
  <1>10. 0 \in 0 .. n /\ \A q \in 1 .. n : q \in 0 .. n /\ q # 0
    BY <1>1
  <1>11. at[0] = <<>> /\ \A q \in 1 .. n : at[q] = IF Has(q) THEN Append(at[q - 1], AcceptLine(Of(q))) ELSE at[q - 1]
    BY <1>8, <1>10, Zenon
  <1> QED
    BY <1>9, <1>11 DEF at, n, Has, Of

\* A compaction leaves a log of what it is given, when no number is used twice.
LEMMA CompactedIsLog ==
    ASSUME NEW E \in SUBSET Entries, \A d, e \in E : d.seq = e.seq => d = e
    PROVE  LogOf(Compacted(E), E)
  <1> DEFINE n == Highest(E)
             at == CompactedAt(E)
             Upto(q) == {e \in E : e.seq <= q}
             S == {q \in 0 .. n : LogOf(at[q], Upto(q))}
  <1>1. n \in Nat /\ \A e \in E : e.seq \in 1 .. n /\ e \in Entries
    BY HighestBounds, AcceptanceAssumption
  <1>2. /\ Compacted(E) = at[n] /\ at[0] = <<>>
        /\ \A q \in 1 .. n : at[q] = IF \E e \in E : e.seq = q
                                     THEN Append(at[q - 1], AcceptLine(CHOOSE e \in E : e.seq = q))
                                     ELSE at[q - 1]
    BY CompactedUnfolds
  <1> HIDE DEF n, at
  <1>3. 0 \in S
    <2>1. Upto(0) = {}
      BY <1>1
    <2>2. 0 \in 0 .. n
      BY <1>1
    <2> HIDE DEF Upto
    <2> QED
      BY <1>2, <2>1, <2>2, LogOfNothing
  <1>4. ASSUME NEW q \in 0 .. n, q < n, q \in S PROVE q + 1 \in S
    <2>1. q + 1 \in 1 .. n /\ q + 1 \in 0 .. n /\ (q + 1) - 1 = q
      BY <1>1, <1>4
    <2>2. CASE \E e \in E : e.seq = q + 1
      <3> DEFINE f == CHOOSE e \in E : e.seq = q + 1
      <3>1. f \in E /\ f.seq = q + 1 /\ f \in Entries
        BY <2>2
      <3>2. at[q + 1] = Append(at[q], AcceptLine(f))
        BY <1>2, <2>1, <2>2, Zenon
      <3> HIDE DEF f
      <3>3. \A d \in Upto(q) : d.seq < f.seq
        BY <1>1, <3>1
      <3>4. Upto(q + 1) = Upto(q) \cup {f}
        <4>1. ASSUME NEW e \in E, e.seq <= q + 1 PROVE e.seq <= q \/ e = f
          <5>1. CASE e.seq = q + 1
            BY <3>1, <5>1
          <5>2. CASE e.seq # q + 1
            BY <1>1, <4>1, <5>2
          <5> QED
            BY <5>1, <5>2
        <4>2. ASSUME NEW e \in E, e.seq <= q PROVE e.seq <= q + 1
          BY <1>1, <4>2
        <4>3. f.seq <= q + 1
          BY <3>1
        <4> QED
          BY <3>1, <4>1, <4>2, <4>3
      <3> HIDE DEF Upto
      <3>5. LogOf(at[q + 1], Upto(q + 1))
        BY <1>4, <3>1, <3>2, <3>3, <3>4, LogOfMore
      <3> QED
        BY <2>1, <3>5
    <2>3. CASE ~\E e \in E : e.seq = q + 1
      <3>1. at[q + 1] = at[q]
        BY <1>2, <2>1, <2>3, Zenon
      <3>2. Upto(q + 1) = Upto(q)
        BY <1>1, <2>3
      <3> HIDE DEF Upto
      <3> QED
        BY <1>4, <2>1, <3>1, <3>2
    <2> QED
      BY <2>2, <2>3
  <1>5. n \in S
    <2> HIDE DEF S
    <2>1. \A q \in 0 .. n : q < n /\ q \in S => q + 1 \in S
      BY <1>4
    <2>2. \A q \in 0 .. n : q \in S
      BY <1>1, <1>3, <2>1, UpwardInduction
    <2> QED
      BY <1>1, <2>2
  <1>6. Upto(n) = E
    BY <1>1
  <1> HIDE DEF Upto
  <1> QED
    BY <1>2, <1>5, <1>6

\* In a numbered log no number is used twice.
LEMMA NumbersDiffer ==
    ASSUME NEW lines \in Seq(CleanLines), Numbered(lines), NEW d \in Written(lines), NEW e \in Written(lines),
           d.seq = e.seq
    PROVE  d = e
  <1>1. d \in Entries /\ e \in Entries /\ d.seq \in Int /\ e.seq \in Int
    BY AcceptanceAssumption DEF Written, Entries, SequenceNumbers
  <1>2. PICK i \in DOMAIN lines : lines[i] = AcceptLine(d)
    BY DEF Written
  <1>3. PICK j \in DOMAIN lines : lines[j] = AcceptLine(e)
    BY DEF Written
  <1>4. i \in Nat /\ j \in Nat
    OBVIOUS
  <1>5. ~(i < j) /\ ~(j < i)
    BY <1>1, <1>2, <1>3 DEF Numbered
  <1>6. i = j
    BY <1>4, <1>5
  <1> QED
    BY <1>1, <1>2, <1>3, <1>6, AcceptLineOnly, Zenon

\* A power loss leaves a clean log of clean lines.
LEMMA PrefixKeeps ==
    ASSUME NEW lines \in Seq(CleanLines), NEW k \in 0 .. Len(lines)
    PROVE  /\ SubSeq(lines, 1, k) \in Seq(CleanLines) /\ Len(SubSeq(lines, 1, k)) = k
           /\ Written(SubSeq(lines, 1, k)) \subseteq Written(lines)
           /\ Numbered(lines) => Numbered(SubSeq(lines, 1, k))
           /\ \A C : CommitsIn(lines, C) => CommitsIn(SubSeq(lines, 1, k), C)
           /\ NoForgets(lines) => NoForgets(SubSeq(lines, 1, k))
  <1> DEFINE less == SubSeq(lines, 1, k)
  <1>1. less \in Seq(CleanLines) /\ Len(less) = k /\ DOMAIN less = 1 .. k
        /\ \A i \in DOMAIN less : i \in DOMAIN lines /\ less[i] = lines[i]
    OBVIOUS
  <1> HIDE DEF less
  <1>2. Written(less) \subseteq Written(lines)
    BY <1>1 DEF Written
  <1>3. Numbered(lines) => Numbered(less)
    BY <1>1 DEF Numbered
  <1>4. \A C : CommitsIn(lines, C) => CommitsIn(less, C)
    BY <1>1, Zenon DEF CommitsIn
  <1>5. NoForgets(lines) => NoForgets(less)
    BY <1>1 DEF NoForgets
  <1> QED
    BY <1>1, <1>2, <1>3, <1>4, <1>5 DEF less

-----------------------------------------------------------------------------
(* The inductive invariant. *)

\* An acceptance is in progress, and may still be refused.
Accepting == pc \in {"written", "synced", "aborting"}

\* The acceptances that cannot be refused any more.
Settled ==
    IF pc = "closed" THEN PendingOf(wal)
    ELSE IF Accepting THEN pending \ {job.entry} ELSE pending

Tables ==
    /\ wal \in Seq(CleanLines) /\ onDisk \in 0 .. Len(wal) /\ attached = TRUE
    /\ snapshot \in Windows /\ order \in Windows
    /\ nextSequence \in Nat \ {0} /\ pc \in Points
    /\ inflight \subseteq Entries /\ flushing \subseteq Entries
    /\ Accepting => job.entry \in Entries /\ job.entry \in pending

\* The numbers of the log increase, and the next one is behind them.
InSequence == Numbered(wal) /\ (pc # "closed" => \A e \in Written(wal) : e.seq < nextSequence)

\* What of the log a power loss may take: the lines of the operation in progress.
Unsynced ==
    /\ pc = "written" =>
          /\ Len(wal) \in {onDisk + 1, onDisk + 2} /\ wal[onDisk + 1] = AcceptLine(job.entry)
          /\ Len(wal) = onDisk + 2 => \E b \in Batches : wal[onDisk + 2] = Line("forget", {}, b)
    /\ pc = "aborting" =>
          Len(wal) = onDisk + 1 /\ wal[onDisk + 1] = Line("abort", {job.entry}, job.entry.batch)
    /\ pc = "committing" =>
          Len(wal) = onDisk + 1 /\ wal[onDisk + 1] = Line("commit", flushing, <<>>) /\ flushing # {}
    /\ pc \notin {"written", "aborting", "committing"} => Len(wal) = onDisk

Synced == SubSeq(wal, 1, onDisk)

\* Memory is what a replay of the synced lines would give.
MemoryIsLog ==
    pc # "closed" => pending = PendingOf(Synced) \cup (IF pc = "written" THEN {job.entry} ELSE {})

\* Committed and flushed batches are in a sink.
CommitsStored == BatchesOf(flushing) \subseteq stored /\ CommitsIn(wal, stored)

\* Whatever a client was told is accepted, and every key remembered, is of a
\* batch that is in a sink or settled.
Accounted ==
    /\ acked \cup Range(snapshot) \subseteq stored \cup BatchesOf(Settled)
    /\ pc # "closed" =>
          Range(order) \subseteq stored \cup BatchesOf(Settled)
                                 \cup (IF Accepting THEN {job.entry.batch} ELSE {})

Sound == Tables /\ InSequence /\ Unsynced /\ MemoryIsLog /\ CommitsStored /\ Accounted

IInv == faults \in Nat /\ (Intact => Sound)

-----------------------------------------------------------------------------
(* The steps. *)

\* Clean lines have their newline.
LEMMA CleanIsEnded == \A l \in CleanLines : l.ended
  BY DEF CleanLines, AcceptLine, Line

\* Appending to a clean log.
LEMMA WriteAppends ==
    ASSUME Sound, NEW new \in Seq(CleanLines), WriteLines(new)
    PROVE  wal' = wal \o new /\ onDisk' = onDisk
  <1>1. wal \in Seq(CleanLines) /\ attached = TRUE
    BY DEF Sound, Tables
  <1>2. ASSUME wal # <<>> PROVE wal[Len(wal)].ended
    <2>1. Len(wal) \in DOMAIN wal
      BY <1>1, <1>2
    <2> QED
      BY <1>1, <2>1, CleanIsEnded
  <1>3. AppendLines(wal, new) = wal \o new
    BY <1>2, Zenon DEF AppendLines, Unfinished
  <1> QED
    BY <1>1, <1>2, <1>3 DEF WriteLines, Unfinished

\* One line is appended.
LEMMA WriteOne ==
    ASSUME Sound, NEW l \in CleanLines, WriteLines(<<l>>)
    PROVE  wal' = Append(wal, l) /\ onDisk' = onDisk
  <1>1. <<l>> \in Seq(CleanLines) /\ wal \in Seq(CleanLines)
    BY DEF Sound, Tables
  <1>2. wal \o <<l>> = Append(wal, l)
    BY <1>1
  <1> QED
    BY <1>1, <1>2, WriteAppends, Zenon

\* A log that is all synced, and one with one line or two that are not.
LEMMA Tails ==
    ASSUME Tables
    PROVE  /\ Synced \in Seq(CleanLines) /\ Len(wal) \in Nat /\ onDisk \in Nat
           /\ Len(wal) = onDisk => Synced = wal
           /\ Len(wal) = onDisk + 1 => wal[onDisk + 1] \in CleanLines /\ wal = Append(Synced, wal[onDisk + 1])
           /\ Len(wal) = onDisk + 2 =>
                 /\ wal[onDisk + 1] \in CleanLines /\ wal[onDisk + 2] \in CleanLines
                 /\ SubSeq(wal, 1, onDisk + 1) = Append(Synced, wal[onDisk + 1])
                 /\ wal = Append(SubSeq(wal, 1, onDisk + 1), wal[onDisk + 2])
  <1>1. wal \in Seq(CleanLines) /\ onDisk \in 0 .. Len(wal) /\ Len(wal) \in Nat
    BY DEF Tables
  <1>2. Synced \in Seq(CleanLines)
    BY <1>1 DEF Synced
  <1>3. Len(wal) = onDisk => Synced = wal
    BY <1>1 DEF Synced
  <1>4. ASSUME NEW n \in 0 .. Len(wal), n < Len(wal)
        PROVE  SubSeq(wal, 1, n + 1) = Append(SubSeq(wal, 1, n), wal[n + 1]) /\ wal[n + 1] \in CleanLines
    BY <1>1, <1>4
  <1>5. SubSeq(wal, 1, Len(wal)) = wal
    BY <1>1
  <1>6. ASSUME Len(wal) = onDisk + 1 PROVE wal[onDisk + 1] \in CleanLines /\ wal = Append(Synced, wal[onDisk + 1])
    <2>1. onDisk < Len(wal)
      BY <1>1, <1>6
    <2> QED
      BY <1>1, <1>4, <1>5, <1>6, <2>1 DEF Synced
  <1>7. ASSUME Len(wal) = onDisk + 2
        PROVE  /\ wal[onDisk + 1] \in CleanLines /\ wal[onDisk + 2] \in CleanLines
               /\ SubSeq(wal, 1, onDisk + 1) = Append(Synced, wal[onDisk + 1])
               /\ wal = Append(SubSeq(wal, 1, onDisk + 1), wal[onDisk + 2])
    <2>1. onDisk < Len(wal) /\ onDisk + 1 \in 0 .. Len(wal) /\ onDisk + 1 < Len(wal) /\ (onDisk + 1) + 1 = Len(wal)
      BY <1>1, <1>7
    <2>2. SubSeq(wal, 1, onDisk + 1) = Append(Synced, wal[onDisk + 1]) /\ wal[onDisk + 1] \in CleanLines
      BY <1>1, <1>4, <2>1 DEF Synced
    <2>3. SubSeq(wal, 1, (onDisk + 1) + 1) = Append(SubSeq(wal, 1, onDisk + 1), wal[(onDisk + 1) + 1])
          /\ wal[(onDisk + 1) + 1] \in CleanLines
      BY <1>4, <2>1
    <2>4. (onDisk + 1) + 1 = onDisk + 2
      BY <1>1
    <2> QED
      BY <1>5, <1>7, <2>1, <2>2, <2>3, <2>4
  <1> QED
    BY <1>1, <1>2, <1>3, <1>6, <1>7

\* While accept has written its lines, all of them or the first one bring the
\* log to what is in memory.
LEMMA WrittenPending ==
    ASSUME Sound, pc = "written"
    PROVE  /\ PendingOf(wal) = pending /\ job.entry \notin PendingOf(Synced)
           /\ PendingOf(SubSeq(wal, 1, onDisk + 1)) = pending
  <1> DEFINE e == job.entry
             one == SubSeq(wal, 1, onDisk + 1)
  <1>1. /\ Tables /\ wal \in Seq(CleanLines) /\ Numbered(wal) /\ onDisk \in 0 .. Len(wal)
        /\ Len(wal) \in {onDisk + 1, onDisk + 2} /\ wal[onDisk + 1] = AcceptLine(e)
        /\ Len(wal) = onDisk + 2 => \E b \in Batches : wal[onDisk + 2] = Line("forget", {}, b)
        /\ e \in Entries /\ pending = PendingOf(Synced) \cup {e}
    BY DEF Sound, Tables, InSequence, Unsynced, MemoryIsLog, Accepting
  <1>2. /\ Synced \in Seq(CleanLines) /\ Len(wal) \in Nat /\ onDisk \in Nat
        /\ Len(wal) = onDisk + 1 => wal = Append(Synced, wal[onDisk + 1])
        /\ Len(wal) = onDisk + 2 => /\ one = Append(Synced, wal[onDisk + 1])
                                    /\ wal = Append(one, wal[onDisk + 2])
    BY <1>1, Tails
  <1>3. one = Append(Synced, AcceptLine(e)) /\ (Len(wal) = onDisk + 1 => wal = one)
    <2>1. Len(wal) = onDisk + 1 => one = wal
      BY <1>1
    <2> QED
      BY <1>1, <1>2, <2>1
  <1>4. one \in Seq(CleanLines) /\ Numbered(one)
    <2>1. onDisk + 1 \in 0 .. Len(wal)
      BY <1>1, <1>2
    <2> QED
      BY <1>1, <2>1, PrefixKeeps
  <1> HIDE DEF one, e
  <1>5. AcceptLine(e) \in CleanLines
    BY <1>1 DEF CleanLines
  <1>6. \A d \in Written(Synced) : d.seq < e.seq
    BY <1>1, <1>2, <1>3, <1>4, <1>5, WrittenAppend
  <1>7. PendingOf(one) = pending
    BY <1>1, <1>2, <1>3, <1>6, PendingFresh
  <1>8. e \notin PendingOf(Synced)
    <2>1. e.seq \in Int
      BY <1>1, AcceptanceAssumption DEF Entries, SequenceNumbers
    <2>2. ~(e.seq < e.seq)
      BY <2>1
    <2> QED
      BY <1>2, <1>6, <2>2, PendingWritten
  <1>9. PendingOf(wal) = pending
    <2>1. CASE Len(wal) = onDisk + 1
      BY <1>3, <1>7, <2>1, Zenon
    <2>2. CASE Len(wal) = onDisk + 2
      <3>1. PICK b \in Batches : wal[onDisk + 2] = Line("forget", {}, b)
        BY <1>1, <2>2
      <3> QED
        BY <1>2, <1>4, <1>7, <2>2, <3>1, PendingForget, Zenon
    <2> QED
      BY <1>1, <2>1, <2>2
  <1> QED
    BY <1>7, <1>8, <1>9 DEF e, one

\* Whatever a power loss leaves of the log, what was settled is in it or in a
\* sink.
LEMMA SettledSurvives ==
    ASSUME Sound, NEW n \in onDisk .. Len(wal)
    PROVE  BatchesOf(Settled) \subseteq stored \cup BatchesOf(PendingOf(SubSeq(wal, 1, n)))
  <1> DEFINE less == SubSeq(wal, 1, n)
  <1>1. Tables /\ wal \in Seq(CleanLines) /\ onDisk \in 0 .. Len(wal) /\ Len(wal) \in Nat
    BY DEF Sound, Tables
  <1>2. less = Synced \/ n # onDisk
    BY DEF Synced
  <1>3. SubSeq(wal, 1, Len(wal)) = wal
    BY <1>1
  <1>4. CASE pc = "closed"
    <2>1. Len(wal) = onDisk
      BY <1>4 DEF Sound, Unsynced
    <2>2. n = Len(wal)
      BY <1>1, <2>1
    <2>3. Settled = PendingOf(less)
      BY <1>3, <1>4, <2>2, Zenon DEF Settled
    <2> QED
      BY <2>3, Zenon
  <1>5. CASE pc = "written"
    <2>1. pending = PendingOf(Synced) \cup {job.entry} /\ Len(wal) \in {onDisk + 1, onDisk + 2}
      BY <1>5 DEF Sound, MemoryIsLog, Unsynced
    <2>2. /\ PendingOf(wal) = pending /\ PendingOf(SubSeq(wal, 1, onDisk + 1)) = pending
      BY <1>5, WrittenPending
    <2>3. n = onDisk \/ n = onDisk + 1 \/ n = Len(wal)
      BY <1>1, <2>1
    <2>4. PendingOf(less) = PendingOf(Synced) \/ PendingOf(less) = pending
      BY <1>3, <2>2, <2>3, Zenon DEF Synced
    <2>5. Settled = pending \ {job.entry}
      BY <1>5 DEF Settled, Accepting
    <2>6. Settled \subseteq PendingOf(less)
      BY <2>1, <2>4, <2>5
    <2> HIDE DEF less
    <2> QED
      BY <2>6 DEF BatchesOf, less
  <1>6. CASE pc \notin {"closed", "written", "aborting", "committing"}
    <2>1. Len(wal) = onDisk /\ pending = PendingOf(Synced)
      BY <1>6, Zenon DEF Sound, MemoryIsLog, Unsynced
    <2>2. n = onDisk
      BY <1>1, <2>1
    <2>3. Settled \subseteq PendingOf(less)
      BY <1>2, <1>6, <2>1, <2>2, Zenon DEF Settled
    <2> HIDE DEF less
    <2> QED
      BY <2>3 DEF BatchesOf, less
  <1>7. CASE pc = "aborting"
    <2>1. /\ pending = PendingOf(Synced) /\ Len(wal) = onDisk + 1 /\ job.entry \in Entries
          /\ wal[onDisk + 1] = Line("abort", {job.entry}, job.entry.batch)
      BY <1>7 DEF Sound, MemoryIsLog, Unsynced, Tables, Accepting
    <2>2. Synced \in Seq(CleanLines) /\ wal = Append(Synced, Line("abort", {job.entry}, job.entry.batch))
      BY <1>1, <2>1, Tails
    <2>3. PendingOf(wal) = pending \ {job.entry}
      BY <2>1, <2>2, PendingAbort, Zenon
    <2>4. n = onDisk \/ n = Len(wal)
      BY <1>1, <2>1
    <2>5. Settled \subseteq PendingOf(less)
      BY <1>3, <1>7, <2>1, <2>3, <2>4, Zenon DEF Settled, Accepting, Synced
    <2> HIDE DEF less
    <2> QED
      BY <2>5 DEF BatchesOf, less
  <1>8. CASE pc = "committing"
    <2>1. /\ pending = PendingOf(Synced) /\ Len(wal) = onDisk + 1 /\ flushing \in SUBSET Entries
          /\ wal[onDisk + 1] = Line("commit", flushing, <<>>) /\ BatchesOf(flushing) \subseteq stored
      BY <1>8 DEF Sound, MemoryIsLog, Unsynced, Tables, CommitsStored
    <2>2. Synced \in Seq(CleanLines) /\ wal = Append(Synced, Line("commit", flushing, <<>>))
      BY <1>1, <2>1, Tails
    <2>3. PendingOf(wal) = pending \ flushing
      BY <2>1, <2>2, PendingCommit
    <2>4. n = onDisk \/ n = Len(wal)
      BY <1>1, <2>1
    <2>5. Settled \subseteq PendingOf(less) \cup flushing
      BY <1>3, <1>8, <2>1, <2>3, <2>4, Zenon DEF Settled, Accepting, Synced
    <2> HIDE DEF less
    <2> QED
      BY <2>1, <2>5 DEF BatchesOf, less
  <1>9. pc = "closed" \/ pc = "written" \/ pc = "aborting" \/ pc = "committing"
        \/ pc \notin {"closed", "written", "aborting", "committing"}
    OBVIOUS
  <1> QED
    BY <1>4, <1>5, <1>6, <1>7, <1>8, <1>9


\* A step that leaves the log, the tables and the point reached alone, and adds
\* only batches that are accounted for to those acknowledged.
LEMMA SoundDuplicate ==
    ASSUME Sound, NEW b, AcceptDuplicate(b)
    PROVE  Sound'
  <1>1. /\ UNCHANGED <<wal, onDisk, snapshot, attached, nextSequence, pending, order, pc, job, inflight,
                        flushing, stored>>
        /\ acked' = acked \cup {b} /\ b \in Range(order) /\ pc = "ready"
    BY DEF AcceptDuplicate, disk, memory, workers
  <1>2. Tables'
    BY <1>1 DEF Sound, Tables, Accepting
  <1>3. InSequence' /\ Unsynced' /\ MemoryIsLog' /\ CommitsStored'
    BY <1>1 DEF Sound, InSequence, Unsynced, MemoryIsLog, CommitsStored, Synced
  <1>4. Accounted'
    <2>1. b \in stored \cup BatchesOf(Settled)
      BY <1>1 DEF Sound, Accounted, Accepting
    <2>2. Settled' = Settled
      BY <1>1 DEF Settled, Accepting
    <2> QED
      BY <1>1, <2>1, <2>2 DEF Sound, Accounted, Accepting
  <1> QED
    BY <1>2, <1>3, <1>4 DEF Sound

\* accept's sync.
LEMMA SoundAcceptSynced ==
    ASSUME Sound, AcceptSynced
    PROVE  Sound'
  <1>1. /\ UNCHANGED <<wal, snapshot, attached, nextSequence, pending, order, job, inflight,
                        flushing, stored, acked>>
        /\ onDisk' = Len(wal) /\ pc = "written" /\ pc' = "synced"
    BY DEF AcceptSynced, disk, memory, workers, history, outcome
  <1>2. wal \in Seq(CleanLines) /\ Len(wal) \in Nat /\ SubSeq(wal, 1, Len(wal)) = wal
    BY DEF Sound, Tables
  <1>3. Tables'
    BY <1>1, <1>2 DEF Sound, Tables, Accepting, Points
  <1>4. InSequence' /\ CommitsStored'
    BY <1>1 DEF Sound, InSequence, CommitsStored
  <1>5. Unsynced'
    BY <1>1 DEF Unsynced
  <1>6. MemoryIsLog'
    <2>1. PendingOf(wal) = pending
      BY <1>1, WrittenPending
    <2> QED
      BY <1>1, <1>2, <2>1, Zenon DEF MemoryIsLog, Synced
  <1>7. Accounted'
    <2>1. Settled' = Settled
      BY <1>1 DEF Settled, Accepting
    <2> QED
      BY <1>1, <2>1 DEF Sound, Accounted, Accepting
  <1> QED
    BY <1>3, <1>4, <1>5, <1>6, <1>7 DEF Sound

\* The queue takes the batch.
LEMMA SoundEnqueued ==
    ASSUME Sound, Enqueued
    PROVE  Sound'
  <1>1. /\ UNCHANGED <<wal, onDisk, snapshot, attached, nextSequence, pending, order, flushing, stored>>
        /\ pc = "synced" /\ pc' = "ready"
        /\ inflight' = inflight \cup {job.entry} /\ acked' = acked \cup {job.entry.batch}
    BY DEF Enqueued, disk, memory
  <1>2. Tables'
    BY <1>1 DEF Sound, Tables, Accepting, Points
  <1>3. InSequence' /\ Unsynced' /\ MemoryIsLog' /\ CommitsStored'
    BY <1>1 DEF Sound, InSequence, Unsynced, MemoryIsLog, CommitsStored, Synced
  <1>4. Accounted'
    <2>1. job.entry \in pending /\ Settled' = pending /\ Settled \subseteq pending
      BY <1>1 DEF Sound, Tables, Settled, Accepting
    <2>2. job.entry.batch \in BatchesOf(Settled') /\ BatchesOf(Settled) \subseteq BatchesOf(Settled')
      BY <2>1 DEF BatchesOf
    <2> QED
      BY <1>1, <2>2 DEF Sound, Accounted, Accepting
  <1> QED
    BY <1>2, <1>3, <1>4 DEF Sound


\* A log that was all synced and gets one more line.
LEMMA OneUnsynced ==
    ASSUME Sound, Len(wal) = onDisk, NEW l \in CleanLines, WriteLines(<<l>>)
    PROVE  /\ wal' = Append(wal, l) /\ wal' \in Seq(CleanLines)
           /\ onDisk' = onDisk /\ onDisk' \in 0 .. Len(wal') /\ Len(wal') = onDisk' + 1
           /\ wal'[onDisk' + 1] = l /\ Synced' = wal /\ Synced = wal
  <1>1. wal' = Append(wal, l) /\ onDisk' = onDisk
    BY WriteOne
  <1>2. wal \in Seq(CleanLines) /\ onDisk \in Nat
    BY DEF Sound, Tables
  <1>3. wal' \in Seq(CleanLines) /\ Len(wal') = Len(wal) + 1 /\ wal'[Len(wal) + 1] = l
    BY <1>1, <1>2
  <1>4. SubSeq(wal', 1, Len(wal)) = wal /\ SubSeq(wal, 1, Len(wal)) = wal
    BY <1>1, <1>2
  <1> QED
    BY <1>1, <1>2, <1>3, <1>4 DEF Synced

\* A line that is not an acceptance leaves the numbers of the log alone.
LEMMA NotAnAccept ==
    ASSUME NEW lines \in Seq(CleanLines), NEW l \in CleanLines, \A e \in Entries : l # AcceptLine(e)
    PROVE  Written(Append(lines, l)) = Written(lines) /\ (Numbered(Append(lines, l)) <=> Numbered(lines))
  <1>1. {e \in Entries : l = AcceptLine(e)} = {}
    OBVIOUS
  <1>2. Written(Append(lines, l)) = Written(lines) \cup {e \in Entries : l = AcceptLine(e)}
    BY WrittenAppend
  <1>3. Numbered(Append(lines, l)) <=>
            Numbered(lines) /\ \A d \in Written(lines), e \in Entries : l = AcceptLine(e) => d.seq < e.seq
    BY WrittenAppend
  <1>4. \A d \in Written(lines), e \in Entries : l = AcceptLine(e) => d.seq < e.seq
    BY Zenon
  <1> QED
    BY <1>1, <1>2, <1>3, <1>4

\* The line that aborts an acceptance.
LEMMA SoundEnqueueRefused ==
    ASSUME Sound, EnqueueRefused
    PROVE  Sound'
  <1> DEFINE l == Line("abort", {job.entry}, job.entry.batch)
  <1>1. /\ UNCHANGED <<snapshot, attached, nextSequence, pending, order, job, inflight, flushing, stored, acked>>
        /\ pc = "synced" /\ pc' = "aborting" /\ WriteLines(<<l>>)
    BY DEF EnqueueRefused, memory, workers, history, outcome
  <1>2. wal \in Seq(CleanLines) /\ job.entry \in Entries /\ Len(wal) = onDisk
    BY <1>1 DEF Sound, Tables, Unsynced, Accepting
  <1>3. l \in CleanLines
    BY <1>2, Zenon DEF CleanLines
  <1>4. /\ wal' = Append(wal, l) /\ wal' \in Seq(CleanLines)
        /\ onDisk' = onDisk /\ onDisk' \in 0 .. Len(wal') /\ Len(wal') = onDisk' + 1
        /\ wal'[onDisk' + 1] = l /\ Synced' = wal /\ Synced = wal
    BY <1>1, <1>2, <1>3, OneUnsynced, Zenon
  <1>5. Tables'
    BY <1>1, <1>4 DEF Sound, Tables, Accepting, Points
  <1>6. Unsynced'
    BY <1>1, <1>4 DEF Unsynced
  <1>7. InSequence'
    <2>1. \A e \in Entries : l # AcceptLine(e)
      BY <1>2, AcceptLineOnly, Zenon
    <2> HIDE DEF l
    <2>2. Written(wal') = Written(wal) /\ (Numbered(wal') <=> Numbered(wal))
      BY <1>2, <1>3, <1>4, <2>1, NotAnAccept
    <2> QED
      BY <1>1, <2>2 DEF Sound, InSequence
  <1>8. MemoryIsLog'
    BY <1>1, <1>4 DEF Sound, MemoryIsLog
  <1>9. CommitsStored'
    <2>1. \A T : l # Line("commit", T, <<>>)
      BY DEF Line
    <2> HIDE DEF l
    <2>2. CommitsIn(wal', stored) <=> CommitsIn(wal, stored)
      BY <1>2, <1>3, <1>4, <2>1, CommitsAppend
    <2> QED
      BY <1>1, <2>2 DEF Sound, CommitsStored
  <1>10. Accounted'
    <2>1. Settled' = Settled
      BY <1>1 DEF Settled, Accepting
    <2> QED
      BY <1>1, <2>1 DEF Sound, Accounted, Accepting
  <1> QED
    BY <1>5, <1>6, <1>7, <1>8, <1>9, <1>10 DEF Sound

\* The abort is synced: the acceptance and its key are forgotten.
LEMMA SoundAbortSynced ==
    ASSUME Sound, AbortSynced
    PROVE  Sound'
  <1>1. /\ UNCHANGED <<wal, snapshot, attached, nextSequence, inflight, flushing, stored, acked>>
        /\ pc = "aborting" /\ pc' = "ready" /\ onDisk' = Len(wal)
        /\ pending' = pending \ {job.entry} /\ order' = Forget(order, job.entry.batch)
    BY DEF AbortSynced, workers, history, outcome
  <1>2. /\ Tables /\ wal \in Seq(CleanLines) /\ Len(wal) \in Nat /\ SubSeq(wal, 1, Len(wal)) = wal
        /\ order \in Windows /\ job.entry \in Entries
    BY <1>1 DEF Sound, Tables, Accepting
  <1>3. order' \in Windows /\ Range(order') = Range(order) \ {job.entry.batch}
    BY <1>1, <1>2, ForgetWindow
  <1>4. Tables'
    BY <1>1, <1>2, <1>3, SMTT(30) DEF Sound, Tables, Accepting, Points
  <1>5. InSequence' /\ CommitsStored' /\ Unsynced'
    BY <1>1 DEF Sound, InSequence, CommitsStored, Unsynced
  <1>6. MemoryIsLog'
    <2>1. /\ pending = PendingOf(Synced) /\ Len(wal) = onDisk + 1
          /\ wal[onDisk + 1] = Line("abort", {job.entry}, job.entry.batch)
      BY <1>1 DEF Sound, MemoryIsLog, Unsynced
    <2>2. Synced \in Seq(CleanLines) /\ wal = Append(Synced, Line("abort", {job.entry}, job.entry.batch))
      BY <1>2, <2>1, Tails
    <2>3. PendingOf(wal) = pending'
      BY <1>1, <1>2, <2>1, <2>2, PendingAbort, Zenon
    <2>4. Synced' = wal
      BY <1>1, <1>2 DEF Synced
    <2> QED
      BY <1>1, <2>3, <2>4 DEF MemoryIsLog
  <1>7. Accounted'
    <2>1. Settled' = Settled
      BY <1>1 DEF Settled, Accepting
    <2> QED
      BY <1>1, <1>3, <2>1 DEF Sound, Accounted, Accepting
  <1> QED
    BY <1>4, <1>5, <1>6, <1>7 DEF Sound


\* A larger set of stored batches covers the same commits.
LEMMA CommitsMore ==
    ASSUME NEW lines, NEW C, NEW D, C \subseteq D, CommitsIn(lines, C)
    PROVE  CommitsIn(lines, D)
  BY Zenon DEF CommitsIn

\* A worker persists batches it holds.
LEMMA SoundPersist ==
    ASSUME Sound, NEW S \in SUBSET inflight, Persist(S)
    PROVE  Sound'
  <1>1. /\ UNCHANGED <<wal, onDisk, snapshot, attached, nextSequence, pending, order, pc, job, inflight, acked>>
        /\ pc # "closed" /\ flushing = {} /\ flushing' = S /\ stored' = stored \cup {e.batch : e \in S}
    BY DEF Persist, disk, memory
  <1>2. pc # "committing"
    BY <1>1 DEF Sound, Unsynced
  <1>3. Tables'
    BY <1>1 DEF Sound, Tables, Accepting
  <1>4. InSequence'
    BY <1>1 DEF Sound, InSequence
  <1>5. Unsynced'
    BY <1>1, <1>2 DEF Sound, Unsynced
  <1>6. MemoryIsLog'
    BY <1>1 DEF Sound, MemoryIsLog, Synced
  <1>7. CommitsStored'
    <2>1. CommitsIn(wal, stored) /\ stored \subseteq stored'
      BY <1>1 DEF Sound, CommitsStored
    <2>2. CommitsIn(wal', stored')
      BY <1>1, <2>1, CommitsMore
    <2>3. BatchesOf(flushing') \subseteq stored'
      BY <1>1 DEF BatchesOf
    <2> QED
      BY <2>2, <2>3 DEF CommitsStored
  <1>8. Accounted'
    <2>1. Settled' = Settled
      BY <1>1 DEF Settled, Accepting
    <2>2. stored \subseteq stored'
      BY <1>1
    <2> QED
      BY <1>1, <2>1, <2>2 DEF Sound, Accounted, Accepting
  <1> QED
    BY <1>3, <1>4, <1>5, <1>6, <1>7, <1>8 DEF Sound

\* The commit line.
LEMMA SoundCommitWrites ==
    ASSUME Sound, CommitWrites
    PROVE  Sound'
  <1> DEFINE l == Line("commit", flushing, <<>>)
  <1>1. /\ UNCHANGED <<snapshot, attached, nextSequence, pending, order, job, inflight, flushing, stored, acked>>
        /\ pc = "ready" /\ pc' = "committing" /\ WriteLines(<<l>>) /\ flushing # {}
    BY DEF CommitWrites, memory, workers, history, outcome
  <1>2. wal \in Seq(CleanLines) /\ flushing \in SUBSET Entries /\ Len(wal) = onDisk
    BY <1>1 DEF Sound, Tables, Unsynced
  <1>3. l \in CleanLines
    BY <1>2 DEF CleanLines
  <1>4. /\ wal' = Append(wal, l) /\ wal' \in Seq(CleanLines)
        /\ onDisk' = onDisk /\ onDisk' \in 0 .. Len(wal') /\ Len(wal') = onDisk' + 1
        /\ wal'[onDisk' + 1] = l /\ Synced' = wal /\ Synced = wal
    BY <1>1, <1>2, <1>3, OneUnsynced
  <1>5. Tables'
    BY <1>1, <1>4 DEF Sound, Tables, Accepting, Points
  <1>6. Unsynced'
    BY <1>1, <1>4 DEF Unsynced
  <1>7. InSequence'
    <2>1. \A e \in Entries : l # AcceptLine(e)
      BY AcceptLineOnly
    <2> HIDE DEF l
    <2>2. Written(wal') = Written(wal) /\ (Numbered(wal') <=> Numbered(wal))
      BY <1>2, <1>3, <1>4, <2>1, NotAnAccept
    <2> QED
      BY <1>1, <2>2 DEF Sound, InSequence
  <1>8. MemoryIsLog'
    BY <1>1, <1>4 DEF Sound, MemoryIsLog
  <1>9. CommitsStored'
    <2>1. \A T : l = Line("commit", T, <<>>) => T = flushing
      BY DEF Line
    <2>2. BatchesOf(flushing) \subseteq stored /\ CommitsIn(wal, stored)
      BY DEF Sound, CommitsStored
    <2> HIDE DEF l
    <2>3. \A T \in SUBSET Entries : l = Line("commit", T, <<>>) => BatchesOf(T) \subseteq stored
      BY <2>1, <2>2, Zenon
    <2>4. CommitsIn(wal', stored)
      BY <1>2, <1>3, <1>4, <2>2, <2>3, CommitsAppend
    <2> QED
      BY <1>1, <2>2, <2>4 DEF CommitsStored
  <1>10. Accounted'
    <2>1. Settled' = Settled
      BY <1>1 DEF Settled, Accepting
    <2> QED
      BY <1>1, <2>1 DEF Sound, Accounted, Accepting
  <1> QED
    BY <1>5, <1>6, <1>7, <1>8, <1>9, <1>10 DEF Sound

\* The commit is synced.
LEMMA SoundCommitSynced ==
    ASSUME Sound, CommitSynced
    PROVE  Sound'
  <1>1. /\ UNCHANGED <<wal, snapshot, attached, nextSequence, order, job, stored, acked>>
        /\ pc = "committing" /\ pc' \in {"ready", "compacting"} /\ onDisk' = Len(wal)
        /\ pending' = pending \ flushing /\ inflight' = inflight \ flushing /\ flushing' = {}
    BY DEF CommitSynced, history, outcome
  <1>2. /\ Tables /\ wal \in Seq(CleanLines) /\ Len(wal) \in Nat /\ SubSeq(wal, 1, Len(wal)) = wal
        /\ flushing \in SUBSET Entries
    BY DEF Sound, Tables
  <1>3. Tables'
    BY <1>1, <1>2 DEF Sound, Tables, Accepting, Points
  <1>4. InSequence'
    BY <1>1 DEF Sound, InSequence
  <1>5. Unsynced'
    BY <1>1 DEF Unsynced
  <1>6. CommitsStored'
    BY <1>1 DEF Sound, CommitsStored, BatchesOf
  <1>7. MemoryIsLog'
    <2>1. /\ pending = PendingOf(Synced) /\ Len(wal) = onDisk + 1
          /\ wal[onDisk + 1] = Line("commit", flushing, <<>>)
      BY <1>1 DEF Sound, MemoryIsLog, Unsynced
    <2>2. Synced \in Seq(CleanLines) /\ wal = Append(Synced, Line("commit", flushing, <<>>))
      BY <1>2, <2>1, Tails
    <2>3. PendingOf(wal) = pending'
      BY <1>1, <1>2, <2>1, <2>2, PendingCommit
    <2>4. Synced' = wal
      BY <1>1, <1>2 DEF Synced
    <2> QED
      BY <1>1, <2>3, <2>4 DEF MemoryIsLog
  <1>8. Accounted'
    <2>1. Settled = pending /\ Settled' = pending \ flushing /\ ~Accepting /\ ~Accepting'
      BY <1>1 DEF Settled, Accepting
    <2>2. BatchesOf(flushing) \subseteq stored
      BY DEF Sound, CommitsStored
    <2>3. BatchesOf(Settled) \subseteq stored \cup BatchesOf(Settled')
      BY <2>1, <2>2 DEF BatchesOf
    <2> QED
      BY <1>1, <2>1, <2>3, Zenon DEF Sound, Accounted
  <1> QED
    BY <1>3, <1>4, <1>5, <1>6, <1>7, <1>8 DEF Sound


\* The snapshot of the keys replaces the one before.
LEMMA SoundCompactSnapshot ==
    ASSUME Sound, CompactSnapshot
    PROVE  Sound'
  <1>1. /\ UNCHANGED <<wal, onDisk, attached, nextSequence, pending, order, job, inflight, flushing, stored, acked>>
        /\ pc = "compacting" /\ pc' = "snapshotted" /\ snapshot' = order
    BY DEF CompactSnapshot, memory, workers, history, outcome
  <1>2. Tables'
    BY <1>1 DEF Sound, Tables, Accepting, Points
  <1>3. InSequence' /\ Unsynced' /\ MemoryIsLog' /\ CommitsStored'
    BY <1>1 DEF Sound, InSequence, Unsynced, MemoryIsLog, CommitsStored, Synced
  <1>4. Accounted'
    <2>1. Settled' = Settled /\ ~Accepting /\ ~Accepting'
      BY <1>1 DEF Settled, Accepting
    <2> QED
      BY <1>1, <2>1 DEF Sound, Accounted
  <1> QED
    BY <1>2, <1>3, <1>4 DEF Sound

\* Between operations the log is all synced and memory is what it replays to.
LEMMA AllSynced ==
    ASSUME Sound, pc \notin {"closed", "written", "aborting", "committing"}
    PROVE  /\ Len(wal) = onDisk /\ Synced = wal /\ pending = PendingOf(wal)
           /\ pending \subseteq Written(wal) /\ pending \subseteq Entries
  <1>1. Tables /\ wal \in Seq(CleanLines) /\ Len(wal) = onDisk /\ pending = PendingOf(Synced)
    BY Zenon DEF Sound, Tables, Unsynced, MemoryIsLog
  <1>2. Synced = wal
    BY <1>1, Tails
  <1>3. pending \subseteq Written(wal)
    BY <1>1, <1>2, PendingWritten
  <1> QED
    BY <1>1, <1>2, <1>3 DEF Written

\* The log a compaction writes.
LEMMA CompactedPending ==
    ASSUME Sound, pc = "snapshotted"
    PROVE  LogOf(Compacted(pending), pending)
  <1>1. /\ pending \subseteq Written(wal) /\ pending \in SUBSET Entries
        /\ wal \in Seq(CleanLines) /\ Numbered(wal)
    BY AllSynced DEF Sound, Tables, InSequence
  <1>2. \A d, e \in pending : d.seq = e.seq => d = e
    BY <1>1, NumbersDiffer
  <1> QED
    BY <1>1, <1>2, CompactedIsLog

\* The compacted log replaces the old one.
LEMMA SoundCompactReplace ==
    ASSUME Sound, CompactReplace
    PROVE  Sound'
  <1>1. /\ UNCHANGED <<snapshot, nextSequence, pending, order, job, inflight, flushing, stored, acked>>
        /\ pc = "snapshotted" /\ pc' = "ready" /\ wal' = Compacted(pending) /\ onDisk' = Len(wal')
        /\ attached' = TRUE
    BY DEF CompactReplace, workers, history, outcome
  <1>2. LogOf(wal', pending)
    BY <1>1, CompactedPending
  <1>3. /\ wal' \in Seq(CleanLines) /\ Numbered(wal') /\ Written(wal') = pending /\ PendingOf(wal') = pending
        /\ CommitsIn(wal', {})
    BY <1>2 DEF LogOf
  <1>4. Len(wal') \in Nat /\ SubSeq(wal', 1, Len(wal')) = wal'
    BY <1>3
  <1>5. Tables'
    BY <1>1, <1>3, <1>4 DEF Sound, Tables, Accepting, Points
  <1>6. InSequence'
    <2>1. pending \subseteq Written(wal) /\ \A e \in Written(wal) : e.seq < nextSequence
      BY <1>1, AllSynced DEF Sound, InSequence
    <2> QED
      BY <1>1, <1>3, <2>1 DEF InSequence
  <1>7. Unsynced'
    BY <1>1 DEF Unsynced
  <1>8. MemoryIsLog'
    BY <1>1, <1>3, <1>4, Zenon DEF MemoryIsLog, Synced
  <1>9. CommitsStored'
    <2>1. CommitsIn(wal', stored)
      BY <1>3, CommitsMore
    <2> QED
      BY <1>1, <2>1 DEF Sound, CommitsStored
  <1>10. Accounted'
    <2>1. Settled' = Settled /\ ~Accepting /\ ~Accepting'
      BY <1>1 DEF Settled, Accepting
    <2> QED
      BY <1>1, <2>1 DEF Sound, Accounted
  <1> QED
    BY <1>5, <1>6, <1>7, <1>8, <1>9, <1>10 DEF Sound

\* A log and what is appended to it by accept: one line, or two.
LEMMA AcceptAppends ==
    ASSUME NEW lines \in Seq(CleanLines), NEW a \in CleanLines, NEW f \in CleanLines
    PROVE  /\ lines \o (<<a>> \o <<>>) = Append(lines, a)
           /\ lines \o (<<a>> \o <<f>>) = Append(Append(lines, a), f)
  <1>1. <<a>> \in Seq(CleanLines) /\ <<f>> \in Seq(CleanLines)
    OBVIOUS
  <1>2. <<a>> \o <<>> = <<a>>
    OBVIOUS
  <1>3. lines \o (<<a>> \o <<f>>) = (lines \o <<a>>) \o <<f>>
    OBVIOUS
  <1>4. lines \o <<a>> = Append(lines, a) /\ Append(lines, a) \in Seq(CleanLines)
    OBVIOUS
  <1>5. \A x \in Seq(CleanLines) : x \o <<f>> = Append(x, f)
    OBVIOUS
  <1> QED
    BY <1>2, <1>3, <1>4, <1>5, Zenon

\* The lines an acceptance writes.
LEMMA AcceptLines ==
    ASSUME Sound, NEW b \in Batches, AcceptWrites(b)
    PROVE  /\ job'.entry = Entry(nextSequence, b) /\ job'.entry \in Entries /\ job'.entry.batch = b
           /\ job'.entry.seq = nextSequence
           /\ onDisk' = onDisk
           /\ \/ wal' = Append(wal, AcceptLine(job'.entry))
              \/ /\ MaxEntries > 0 /\ Evicts(order, b)
                 /\ \E h \in Batches :
                       wal' = Append(Append(wal, AcceptLine(job'.entry)), Line("forget", {}, h))
  <1> DEFINE e == Entry(nextSequence, b)
             ev == IF MaxEntries > 0 /\ Evicts(order, b) THEN <<Line("forget", {}, Head(order))>> ELSE <<>>
  <1>1. /\ nextSequence <= MaxSequence /\ job'.entry = e /\ WriteLines(<<AcceptLine(e)>> \o ev)
    BY DEF AcceptWrites
  <1>2. nextSequence \in Nat \ {0} /\ order \in Windows /\ wal \in Seq(CleanLines)
    BY DEF Sound, Tables
  <1>3. e \in Entries /\ e.batch = b /\ e.seq = nextSequence
    BY <1>1, <1>2, AcceptanceAssumption, SMTT(30) DEF Entries, Entry, SequenceNumbers
  <1>4. AcceptLine(e) \in CleanLines
    BY <1>3 DEF CleanLines
  <1> HIDE DEF e
  <1>5. CASE MaxEntries > 0 /\ Evicts(order, b)
    <2>1. Head(order) \in Batches
      BY <1>2, <1>5, AcceptanceAssumption DEF Evicts, Windows
    <2>2. Line("forget", {}, Head(order)) \in CleanLines
      BY <2>1 DEF CleanLines
    <2>3. <<AcceptLine(e)>> \o ev \in Seq(CleanLines) /\ ev = <<Line("forget", {}, Head(order))>>
      BY <1>4, <1>5, <2>2
    <2>4. wal' = wal \o (<<AcceptLine(e)>> \o ev) /\ onDisk' = onDisk
      BY <1>1, <2>3, WriteAppends, Zenon
    <2>5. wal' = Append(Append(wal, AcceptLine(e)), Line("forget", {}, Head(order)))
      BY <1>2, <1>4, <2>2, <2>3, <2>4, AcceptAppends
    <2> QED
      BY <1>1, <1>3, <1>5, <2>1, <2>4, <2>5 DEF e
  <1>6. CASE ~(MaxEntries > 0 /\ Evicts(order, b))
    <2>1. <<AcceptLine(e)>> \o ev \in Seq(CleanLines) /\ ev = <<>>
      BY <1>4, <1>6
    <2>2. wal' = wal \o (<<AcceptLine(e)>> \o ev) /\ onDisk' = onDisk
      BY <1>1, <2>1, WriteAppends, Zenon
    <2>3. wal' = Append(wal, AcceptLine(e))
      BY <1>2, <1>4, <2>1, <2>2, AcceptAppends
    <2> QED
      BY <1>1, <1>3, <2>2, <2>3 DEF e
  <1> QED
    BY <1>5, <1>6


\* accept writes its lines: the log with the first of them is numbered on.
LEMMA SoundAcceptWrites ==
    ASSUME Sound, NEW b \in Batches, AcceptWrites(b)
    PROVE  Sound'
  <1> DEFINE e == job'.entry
             one == Append(wal, AcceptLine(e))
  <1>1. /\ UNCHANGED <<snapshot, attached, inflight, flushing, stored, acked>>
        /\ pc = "ready" /\ pc' = "written" /\ nextSequence' = nextSequence + 1
        /\ order' = Remember(order, b)
    BY DEF AcceptWrites, workers, history, outcome
  <1>2. pending' = pending \cup {e}
    BY DEF AcceptWrites
  <1>3. /\ e \in Entries /\ e.batch = b /\ e.seq = nextSequence /\ onDisk' = onDisk
        /\ \/ wal' = one
           \/ \E h \in Batches : wal' = Append(one, Line("forget", {}, h))
    BY AcceptLines
  <1> HIDE DEF e
  <1>4. /\ wal \in Seq(CleanLines) /\ nextSequence \in Nat \ {0} /\ order \in Windows /\ onDisk \in Nat
        /\ Len(wal) = onDisk /\ pending = PendingOf(wal) /\ pending \subseteq Written(wal)
        /\ \A d \in Written(wal) : d.seq < nextSequence
        /\ Numbered(wal) /\ CommitsIn(wal, stored)
    <2>1. onDisk \in Nat /\ Len(wal) = onDisk /\ pending = PendingOf(wal)
      BY <1>1, AllSynced DEF Sound, Tables
    <2>2. wal \in Seq(CleanLines) /\ nextSequence \in Nat \ {0} /\ order \in Windows
      BY DEF Sound, Tables
    <2>3. Numbered(wal) /\ pending \subseteq Written(wal) /\ \A d \in Written(wal) : d.seq < nextSequence
      BY <1>1, AllSynced DEF Sound, InSequence
    <2>4. CommitsIn(wal, stored)
      BY DEF Sound, CommitsStored
    <2> QED
      BY <2>1, <2>2, <2>3, <2>4
  <1>5. AcceptLine(e) \in CleanLines /\ \A h \in Batches : Line("forget", {}, h) \in CleanLines
    BY <1>3 DEF CleanLines
  <1>6. /\ one \in Seq(CleanLines) /\ Len(one) = onDisk + 1 /\ one[onDisk + 1] = AcceptLine(e)
        /\ SubSeq(one, 1, onDisk) = wal
    BY <1>4, <1>5
  <1>7. ASSUME NEW h, Line("forget", {}, h) \in CleanLines
        PROVE  LET two == Append(one, Line("forget", {}, h))
               IN  /\ two \in Seq(CleanLines) /\ Len(two) = onDisk + 2 /\ two[onDisk + 1] = AcceptLine(e)
                   /\ two[onDisk + 2] = Line("forget", {}, h) /\ SubSeq(two, 1, onDisk) = wal
    <2> HIDE DEF one
    <2>1. SubSeq(Append(one, Line("forget", {}, h)), 1, onDisk) = SubSeq(one, 1, onDisk)
      BY <1>4, <1>6, <1>7
    <2> QED
      BY <1>4, <1>6, <1>7, <2>1
  <1>8. /\ wal' \in Seq(CleanLines) /\ Len(wal') \in {onDisk + 1, onDisk + 2}
        /\ wal'[onDisk + 1] = AcceptLine(e) /\ SubSeq(wal', 1, onDisk) = wal
        /\ Len(wal') = onDisk + 2 => \E h \in Batches : wal'[onDisk + 2] = Line("forget", {}, h)
    <2>1. CASE wal' = one
      BY <1>4, <1>6, <2>1
    <2>2. CASE \E h \in Batches : wal' = Append(one, Line("forget", {}, h))
      BY <1>5, <1>7, <2>2, Zenon
    <2> QED
      BY <1>3, <2>1, <2>2
  <1>9. Written(one) = Written(wal) \cup {e} /\ Numbered(one)
    <2>1. {d \in Entries : AcceptLine(e) = AcceptLine(d)} = {e}
      BY <1>3, AcceptLineOnly
    <2>2. \A d \in Written(wal), c \in Entries : AcceptLine(e) = AcceptLine(c) => d.seq < c.seq
      BY <1>3, <1>4, AcceptLineOnly
    <2> QED
      BY <1>4, <1>5, <2>1, <2>2, WrittenAppend
  <1>10. CommitsIn(one, stored)
    <2>1. \A T : AcceptLine(e) # Line("commit", T, <<>>)
      BY <1>3, AcceptLineOnly
    <2> QED
      BY <1>4, <1>5, <2>1, CommitsAppend
  <1>11. Written(wal') = Written(wal) \cup {e} /\ Numbered(wal') /\ CommitsIn(wal', stored)
    <2> HIDE DEF one
    <2>1. ASSUME NEW h \in Batches, wal' = Append(one, Line("forget", {}, h))
          PROVE  Written(wal') = Written(one) /\ Numbered(wal') /\ CommitsIn(wal', stored)
      <3>1. \A d \in Entries : Line("forget", {}, h) # AcceptLine(d)
        BY AcceptLineOnly
      <3>2. Written(wal') = Written(one) /\ Numbered(wal')
        BY <1>5, <1>6, <1>9, <2>1, <3>1, NotAnAccept
      <3>3. \A T : Line("forget", {}, h) # Line("commit", T, <<>>)
        BY DEF Line
      <3>4. CommitsIn(wal', stored)
        BY <1>5, <1>6, <1>10, <2>1, <3>3, CommitsAppend
      <3> QED
        BY <3>2, <3>4
    <2> QED
      BY <1>3, <1>9, <1>10, <2>1
  <1> HIDE DEF one
  <1>12. Tables'
    <2>1. order' \in Windows
      BY <1>1, <1>4, RememberWindow
    <2>2. job.entry' = e
      BY DEF e
    <2> QED
      BY <1>1, <1>2, <1>3, <1>4, <1>8, <2>1, <2>2, SMTT(30) DEF Sound, Tables, Accepting, Points
  <1>13. InSequence'
    <2>1. \A d \in Written(wal) : d.seq < nextSequence + 1
      BY <1>4 DEF Written, Entries, SequenceNumbers
    <2> QED
      BY <1>1, <1>3, <1>4, <1>11, <2>1 DEF InSequence
  <1>14. Unsynced'
    BY <1>1, <1>3, <1>8 DEF Unsynced, e
  <1>15. MemoryIsLog'
    BY <1>1, <1>2, <1>3, <1>4, <1>8, Zenon DEF MemoryIsLog, Synced, e
  <1>16. CommitsStored'
    BY <1>1, <1>11 DEF Sound, CommitsStored
  <1>17. Accounted'
    <2>1. e \notin pending
      BY <1>3, <1>4
    <2>2. Settled' = Settled /\ ~Accepting /\ Accepting'
      BY <1>1, <1>2, <2>1 DEF Settled, Accepting, e
    <2>3. Range(order') \subseteq Range(order) \cup {job'.entry.batch}
      BY <1>1, <1>3, <1>4, RememberWindow DEF e
    <2> QED
      BY <1>1, <2>2, <2>3, Zenon DEF Sound, Accounted
  <1> QED
    BY <1>12, <1>13, <1>14, <1>15, <1>16, <1>17 DEF Sound


\* A clean log has no torn line at its end: all of it is replayed.
LEMMA WholeOfClean ==
    ASSUME NEW lines \in Seq(CleanLines)
    PROVE  Whole(lines) = lines
  <1>1. \A l \in CleanLines : l.op # "torn"
    BY DEF CleanLines, AcceptLine, Line
  <1>2. lines # <<>> => lines[Len(lines)] \in CleanLines
    OBVIOUS
  <1> QED
    BY <1>1, <1>2 DEF Whole

\* What open makes of a clean log.
LEMMA ReplayOfClean ==
    ASSUME NEW keys \in Windows, NEW lines \in Seq(CleanLines)
    PROVE  /\ Replay(keys, lines) = ReplayLines(Reload(keys), lines)
           /\ Replay(keys, lines) \in States
           /\ Replay(keys, lines).pending = PendingOf(lines)
           /\ PendingOf(lines) \subseteq Entries
  <1>1. Reload(keys) \in Windows
    BY ReloadWindow
  <1>2. Replay(keys, lines) = ReplayLines(Reload(keys), lines)
    BY WholeOfClean DEF Replay
  <1>3. Line("commit", {}, <<>>) \in CleanLines
    BY DEF CleanLines
  <1>4. ReplayLines(Reload(keys), lines) \in States
    BY <1>1, <1>3, ReplayAppend
  <1>5. ReplayLines(Reload(keys), lines).pending = PendingOf(lines)
    BY <1>1, PendingAnyKeys
  <1> QED
    BY <1>2, <1>4, <1>5 DEF States

\* open reads the two files.
LEMMA SoundOpen ==
    ASSUME Sound, Open
    PROVE  Sound'
  <1>1. /\ UNCHANGED <<wal, onDisk, snapshot, job, flushing, stored, acked>>
        /\ pc = "closed" /\ pc' = "ready" /\ attached' = TRUE /\ nextSequence' = NextAfter(wal)
        /\ pending' = Replay(snapshot, wal).pending /\ order' = Replay(snapshot, wal).order
        /\ inflight' = pending'
    BY DEF Open, disk, history, outcome
  <1>2. /\ wal \in Seq(CleanLines) /\ snapshot \in Windows /\ Numbered(wal) /\ CommitsIn(wal, stored)
        /\ Tables /\ Len(wal) = onDisk
    BY <1>1, Zenon DEF Sound, Tables, InSequence, CommitsStored, Unsynced
  <1>3. /\ order' = ReplayLines(Reload(snapshot), wal).order /\ order' \in Windows
        /\ pending' = PendingOf(wal) /\ pending' \subseteq Entries
    BY <1>1, <1>2, ReplayOfClean DEF States
  <1>4. nextSequence' \in Nat \ {0} /\ \A e \in Written(wal) : e.seq < nextSequence'
    BY <1>1, <1>2, NextIsBehind
  <1>5. Synced = wal
    BY <1>2, Tails
  <1>6. Tables'
    BY <1>1, <1>3, <1>4 DEF Sound, Tables, Accepting, Points
  <1>7. InSequence'
    BY <1>1, <1>2, <1>4 DEF InSequence
  <1>8. Unsynced'
    BY <1>1, <1>2 DEF Unsynced
  <1>9. MemoryIsLog'
    <2>1. Synced' = wal
      BY <1>1, <1>5 DEF Synced
    <2> QED
      BY <1>1, <1>3, <2>1 DEF MemoryIsLog
  <1>10. CommitsStored'
    BY <1>1 DEF Sound, CommitsStored
  <1>11. Accounted'
    <2>1. Settled' = PendingOf(wal) /\ Settled = PendingOf(wal) /\ ~Accepting'
      BY <1>1, <1>3 DEF Settled, Accepting
    <2>2. Reload(snapshot) \in Windows /\ Range(Reload(snapshot)) \subseteq Range(snapshot)
      BY <1>2, ReloadWindow
    <2>3. Range(order') \subseteq Range(Reload(snapshot)) \cup BatchesOf(PendingOf(wal)) \cup stored
      BY <1>2, <1>3, <2>2, KeysAccounted
    <2>4. acked \cup Range(snapshot) \subseteq stored \cup BatchesOf(PendingOf(wal))
      BY <2>1 DEF Sound, Accounted
    <2>5. Range(order') \subseteq stored \cup BatchesOf(PendingOf(wal))
      BY <2>2, <2>3, <2>4
    <2> QED
      BY <1>1, <2>1, <2>4, <2>5 DEF Accounted
  <1> QED
    BY <1>6, <1>7, <1>8, <1>9, <1>10, <1>11 DEF Sound

\* A crash that tears no line leaves a prefix with everything synced.
LEMMA CrashPrefix ==
    ASSUME Tables, wal' \in Remains, wal' = SubSeq(wal, 1, Len(wal'))
    PROVE  Len(wal') \in onDisk .. Len(wal)
  <1>1. wal \in Seq(CleanLines) /\ onDisk \in 0 .. Len(wal) /\ Len(wal) \in Nat
    BY DEF Tables
  <1>2. ASSUME NEW n \in onDisk .. Len(wal) PROVE Len(SubSeq(wal, 1, n)) = n /\ n \in Nat
    BY <1>1
  <1>3. ASSUME NEW n \in onDisk .. Len(wal) - 1, NEW l PROVE Len(Append(SubSeq(wal, 1, n), l)) = n + 1
    BY <1>1
  <1>4. CASE \E n \in onDisk .. Len(wal) : wal' = SubSeq(wal, 1, n)
    BY <1>2, <1>4
  <1>5. CASE \E n \in onDisk .. Len(wal) - 1 : \E l : wal' = Append(SubSeq(wal, 1, n), l)
    <2>1. PICK n \in onDisk .. Len(wal) - 1 : \E l : wal' = Append(SubSeq(wal, 1, n), l)
      BY <1>5
    <2>2. Len(wal') = n + 1
      BY <1>3, <2>1
    <2>3. n + 1 \in onDisk .. Len(wal)
      BY <1>1
    <2> QED
      BY <2>2, <2>3
  <1>6. \/ \E n \in onDisk .. Len(wal) : wal' = SubSeq(wal, 1, n)
        \/ \E n \in onDisk .. Len(wal) - 1 : \E l : wal' = Append(SubSeq(wal, 1, n), l)
    BY Zenon DEF Remains
  <1> QED
    BY <1>4, <1>5, <1>6, Zenon

\* The process dies.
LEMMA SoundCrash ==
    ASSUME Sound, Crash, ~torn'
    PROVE  Sound'
  <1> DEFINE n == Len(wal')
  <1>1. /\ UNCHANGED <<snapshot, stored, acked>>
        /\ wal' \in Remains /\ onDisk' = n /\ attached' = TRUE /\ nextSequence' = 1 /\ order' = <<>>
        /\ inflight' = {} /\ flushing' = {} /\ pc' = "closed" /\ wal' = SubSeq(wal, 1, n)
    BY Zenon DEF Crash
  <1>2. wal \in Seq(CleanLines) /\ onDisk \in 0 .. Len(wal) /\ Tables /\ Numbered(wal) /\ CommitsIn(wal, stored)
    BY DEF Sound, Tables, InSequence, CommitsStored
  <1>3. n \in onDisk .. Len(wal)
    BY <1>1, <1>2, CrashPrefix
  <1> HIDE DEF n
  <1>4. n \in 0 .. Len(wal) /\ n \in Nat
    BY <1>2, <1>3
  <1>5. wal' \in Seq(CleanLines) /\ Len(wal') = n /\ Numbered(wal') /\ CommitsIn(wal', stored)
    BY <1>1, <1>2, <1>4, PrefixKeeps
  <1>6. Tables'
    BY <1>1, <1>4, <1>5, EmptyWindow DEF Sound, Tables, Accepting, Points
  <1>7. InSequence' /\ Unsynced' /\ MemoryIsLog'
    BY <1>1, <1>5 DEF InSequence, Unsynced, MemoryIsLog
  <1>8. CommitsStored'
    BY <1>1, <1>5 DEF CommitsStored, BatchesOf
  <1>9. Accounted'
    <2>1. BatchesOf(Settled) \subseteq stored \cup BatchesOf(PendingOf(wal'))
      BY <1>1, <1>3, SettledSurvives
    <2>2. Settled' = PendingOf(wal')
      BY <1>1 DEF Settled
    <2> QED
      BY <1>1, <2>1, <2>2 DEF Sound, Accounted
  <1> QED
    BY <1>6, <1>7, <1>8, <1>9 DEF Sound


\* The files of a new installation.
LEMMA SoundInit == Init => IInv
  <1> SUFFICES ASSUME Init PROVE IInv
    OBVIOUS
  <1>1. /\ wal = <<>> /\ onDisk = 0 /\ snapshot = <<>> /\ nextSequence = 1 /\ pending = {} /\ order = <<>>
        /\ attached = TRUE /\ pc = "closed" /\ inflight = {} /\ flushing = {} /\ acked = {} /\ stored = {}
        /\ faults = 0
    BY DEF Init
  <1>2. Len(wal) = 0 /\ DOMAIN wal = {} /\ wal \in Seq(CleanLines)
    BY <1>1
  <1>3. Tables
    BY <1>1, <1>2, EmptyWindow DEF Tables, Accepting, Points
  <1>4. InSequence /\ Unsynced /\ MemoryIsLog
    BY <1>1, <1>2 DEF InSequence, Unsynced, MemoryIsLog, Numbered
  <1>5. CommitsStored
    BY <1>1, <1>2 DEF CommitsStored, CommitsIn, BatchesOf
  <1>6. Accounted
    BY <1>1, EmptyWindow DEF Accounted
  <1> QED
    BY <1>1, <1>3, <1>4, <1>5, <1>6 DEF IInv, Sound

\* The steps at which an I/O error happens.
Failing ==
    \/ \E b \in Batches : AcceptWriteFails(b)
    \/ AcceptSyncFails \/ AbortFails \/ CommitFails \/ CompactFails \/ ReopenFails

\* Those without one, but for a crash.
Working ==
    \/ Open \/ AcceptSynced \/ Enqueued \/ EnqueueRefused \/ AbortSynced
    \/ \E b \in Batches : AcceptDuplicate(b) \/ AcceptWrites(b)
    \/ \E S \in SUBSET inflight : Persist(S)
    \/ CommitWrites \/ CommitSynced \/ CompactSnapshot \/ CompactReplace

\* An I/O error is counted; the other steps leave the count alone.
LEMMA NextCounts ==
    ASSUME Next, faults \in Nat
    PROVE  \/ Failing /\ faults' = faults + 1
           \/ Working /\ faults' = faults /\ torn' = torn
           \/ Crash /\ faults' = faults /\ (torn => torn')
  <1>1. ASSUME Failing PROVE faults' = faults + 1
    BY <1>1 DEF Failing, AcceptWriteFails, AcceptSyncFails, AbortFails, CommitFails, CompactFails, ReopenFails,
                Fault
  <1>2. ASSUME Open \/ CompactSnapshot \/ CompactReplace \/ CommitWrites \/ CommitSynced
        PROVE  faults' = faults /\ torn' = torn
    BY <1>2, Zenon DEF Open, CompactSnapshot, CompactReplace, CommitWrites, CommitSynced, history
  <1>3. ASSUME AcceptSynced \/ Enqueued \/ EnqueueRefused \/ AbortSynced
        PROVE  faults' = faults /\ torn' = torn
    BY <1>3 DEF AcceptSynced, Enqueued, EnqueueRefused, AbortSynced, history
  <1>4. ASSUME NEW b, AcceptDuplicate(b) \/ AcceptWrites(b)
        PROVE  faults' = faults /\ torn' = torn
    BY <1>4 DEF AcceptDuplicate, AcceptWrites, history
  <1>5. ASSUME NEW S, Persist(S) PROVE faults' = faults /\ torn' = torn
    BY <1>5 DEF Persist
  <1>6. ASSUME Crash PROVE faults' = faults /\ (torn => torn')
    BY <1>6, Zenon DEF Crash
  <1>7. ASSUME Working PROVE faults' = faults /\ torn' = torn
    BY <1>2, <1>3, <1>4, <1>5, <1>7 DEF Working
  <1>8. Failing \/ Working \/ Crash
    BY DEF Next, AcceptStep, CommitStep, Failing, Working
  <1> QED
    BY <1>1, <1>6, <1>7, <1>8

\* A log that is intact was intact before, and no I/O error came in between.
LEMMA IntactBefore ==
    ASSUME Next, faults \in Nat
    PROVE  faults' \in Nat /\ (Intact' => Intact /\ (Working \/ (Crash /\ ~torn')))
  <1>1. CASE Failing /\ faults' = faults + 1
    BY <1>1 DEF Intact
  <1>2. CASE Working /\ faults' = faults /\ torn' = torn
    BY <1>2 DEF Intact
  <1>3. CASE Crash /\ faults' = faults /\ (torn => torn')
    BY <1>3 DEF Intact
  <1> QED
    BY <1>1, <1>2, <1>3, NextCounts

\* What is sound stays so.
LEMMA SoundWorking ==
    ASSUME Sound, Working
    PROVE  Sound'
  <1>1. CASE Open
    BY <1>1, SoundOpen
  <1>2. CASE AcceptSynced
    BY <1>2, SoundAcceptSynced
  <1>3. CASE Enqueued
    BY <1>3, SoundEnqueued
  <1>4. CASE EnqueueRefused
    BY <1>4, SoundEnqueueRefused
  <1>5. CASE AbortSynced
    BY <1>5, SoundAbortSynced
  <1>6. ASSUME NEW b \in Batches, AcceptDuplicate(b) PROVE Sound'
    BY <1>6, SoundDuplicate
  <1>7. ASSUME NEW b \in Batches, AcceptWrites(b) PROVE Sound'
    BY <1>7, SoundAcceptWrites
  <1>8. ASSUME NEW S \in SUBSET inflight, Persist(S) PROVE Sound'
    BY <1>8, SoundPersist
  <1>9. CASE CommitWrites
    BY <1>9, SoundCommitWrites
  <1>10. CASE CommitSynced
    BY <1>10, SoundCommitSynced
  <1>11. CASE CompactSnapshot
    BY <1>11, SoundCompactSnapshot
  <1>12. CASE CompactReplace
    BY <1>12, SoundCompactReplace
  <1> QED
    BY <1>1, <1>2, <1>3, <1>4, <1>5, <1>6, <1>7, <1>8, <1>9, <1>10, <1>11, <1>12, Zenon DEF Working

\* Steps that change nothing.
LEMMA SoundStutter ==
    ASSUME UNCHANGED vars
    PROVE  (Sound => Sound') /\ (Intact' => Intact) /\ faults' = faults
  <1>1. UNCHANGED <<wal, onDisk, snapshot, attached, nextSequence, pending, order, pc, job, inflight,
                    flushing, acked, stored, faults, torn>>
    BY DEF vars, disk, memory, workers, history, outcome
  <1>2. Tables => Tables'
    BY <1>1 DEF Tables, Accepting
  <1>3. InSequence /\ Unsynced /\ MemoryIsLog /\ CommitsStored
           => InSequence' /\ Unsynced' /\ MemoryIsLog' /\ CommitsStored'
    BY <1>1, Zenon DEF InSequence, Unsynced, MemoryIsLog, CommitsStored, Synced
  <1>4. Accounted => Accounted'
    <2>1. Settled' = Settled
      BY <1>1 DEF Settled, Accepting
    <2> QED
      BY <1>1, <2>1 DEF Accounted, Accepting
  <1>5. Intact' => Intact
    BY <1>1 DEF Intact
  <1> QED
    BY <1>1, <1>2, <1>3, <1>4, <1>5 DEF Sound


\* The invariant is inductive.
LEMMA IInvStep == IInv /\ [Next]_vars => IInv'
  <1> SUFFICES ASSUME IInv, [Next]_vars PROVE IInv'
    OBVIOUS
  <1>1. CASE Next
    <2>1. faults \in Nat /\ (Intact => Sound)
      BY DEF IInv
    <2>2. faults' \in Nat /\ (Intact' => Intact /\ (Working \/ (Crash /\ ~torn')))
      BY <1>1, <2>1, IntactBefore
    <2>3. Sound /\ Working => Sound'
      BY SoundWorking
    <2>4. Sound /\ Crash /\ ~torn' => Sound'
      BY SoundCrash
    <2> QED
      BY <2>1, <2>2, <2>3, <2>4 DEF IInv
  <1>2. CASE UNCHANGED vars
    BY <1>2, SoundStutter DEF IInv
  <1> QED
    BY <1>1, <1>2

\* What a power loss may leave can be read back, and is a prefix with all that
\* was synced, perhaps with a torn line after it.
LEMMA RemainsReplay ==
    ASSUME Sound, NEW lines \in Remains
    PROVE  /\ Readable(lines)
           /\ \E n \in onDisk .. Len(wal) : Replay(snapshot, lines).pending = PendingOf(SubSeq(wal, 1, n))
  <1>1. /\ wal \in Seq(CleanLines) /\ onDisk \in 0 .. Len(wal) /\ Len(wal) \in Nat /\ snapshot \in Windows
        /\ Reload(snapshot) \in Windows
    BY ReloadWindow DEF Sound, Tables
  <1>2. \A l \in CleanLines : l.op # "corrupt" /\ l.op # "torn"
    BY DEF CleanLines, AcceptLine, Line
  <1>3. ASSUME NEW n \in onDisk .. Len(wal) PROVE SubSeq(wal, 1, n) \in Seq(CleanLines)
    BY <1>1, PrefixKeeps
  <1>4. ASSUME NEW n \in onDisk .. Len(wal), lines = SubSeq(wal, 1, n)
        PROVE  Readable(lines) /\ Replay(snapshot, lines).pending = PendingOf(SubSeq(wal, 1, n))
    <2>1. lines \in Seq(CleanLines)
      BY <1>3, <1>4
    <2>2. Readable(lines)
      BY <1>2, <2>1 DEF Readable
    <2> QED
      BY <1>1, <1>4, <2>1, <2>2, ReplayOfClean, Zenon
  <1>5. ASSUME NEW x \in Seq(CleanLines), NEW l, l.op # "corrupt", lines = Append(x, l)
        PROVE  /\ Readable(lines) /\ lines # <<>> /\ lines[Len(lines)] = l /\ SubSeq(lines, 1, Len(lines) - 1) = x
    <2>1. /\ Len(lines) = Len(x) + 1 /\ DOMAIN lines = 1 .. Len(x) + 1 /\ lines[Len(x) + 1] = l
          /\ \A i \in 1 .. Len(x) : lines[i] = x[i] /\ x[i] \in CleanLines
      BY <1>5
    <2>2. Readable(lines)
      BY <1>2, <1>5, <2>1 DEF Readable
    <2>3. lines # <<>> /\ lines[Len(lines)] = l
      BY <2>1
    <2>4. SubSeq(lines, 1, Len(lines) - 1) = x
      BY <1>5
    <2> QED
      BY <2>2, <2>3, <2>4
  <1>6. ASSUME NEW n \in onDisk .. Len(wal) - 1, lines = Append(SubSeq(wal, 1, n), Torn)
        PROVE  Readable(lines) /\ Replay(snapshot, lines).pending = PendingOf(SubSeq(wal, 1, n))
    <2> DEFINE x == SubSeq(wal, 1, n)
    <2>1. x \in Seq(CleanLines)
      BY <1>1, <1>3
    <2> HIDE DEF x
    <2>2. Torn.op = "torn"
      BY DEF Torn
    <2>3. Readable(lines) /\ lines # <<>> /\ lines[Len(lines)] = Torn /\ SubSeq(lines, 1, Len(lines) - 1) = x
      BY <1>5, <1>6, <2>1, <2>2, Zenon DEF x
    <2>4. Whole(lines) = x
      BY <2>2, <2>3 DEF Whole
    <2>5. Replay(snapshot, lines) = ReplayLines(Reload(snapshot), x)
      BY <2>4 DEF Replay
    <2> QED
      BY <1>1, <2>1, <2>3, <2>5, PendingAnyKeys, Zenon DEF x
  <1>7. ASSUME NEW n \in onDisk .. Len(wal) - 1,
               lines = Append(SubSeq(wal, 1, n), [wal[n + 1] EXCEPT !.ended = FALSE])
        PROVE  Readable(lines) /\ Replay(snapshot, lines).pending = PendingOf(SubSeq(wal, 1, n + 1))
    <2> DEFINE x == SubSeq(wal, 1, n)
               l == wal[n + 1]
               m == [l EXCEPT !.ended = FALSE]
    <2>1. x \in Seq(CleanLines) /\ l \in CleanLines /\ SubSeq(wal, 1, n + 1) = Append(x, l)
      BY <1>1, <1>3
    <2>2. lines = Append(x, m)
      BY <1>7
    <2> HIDE DEF x, l
    <2>3. m \in ReadLines /\ m.op = l.op
      <3>1. m \in ReadLines
        BY <2>1, Zenon DEF ReadLines
      <3>2. m.op = l.op
        BY <2>1 DEF CleanLines, AcceptLine, Line
      <3> QED
        BY <3>1, <3>2
    <2>4. \A s : ReplayLine(s, m) = ReplayLine(s, l)
      BY <2>1, ReplayUnended
    <2> HIDE DEF m
    <2>5. Readable(lines) /\ lines # <<>> /\ lines[Len(lines)] = m
      BY <1>2, <1>5, <2>1, <2>2, <2>3
    <2>6. Whole(lines) = lines
      BY <1>2, <2>1, <2>3, <2>5 DEF Whole
    <2>7. x \in Seq(ReadLines)
      BY <2>1, CleanIsRead
    <2>8. Replay(snapshot, lines) = ReplayLine(ReplayLines(Reload(snapshot), x), m)
      BY <1>1, <2>2, <2>3, <2>6, <2>7, ReplayMore DEF Replay
    <2>9. Replay(snapshot, lines) = ReplayLines(Reload(snapshot), Append(x, l)) /\ Append(x, l) \in Seq(CleanLines)
      BY <1>1, <2>1, <2>4, <2>8, ReplayAppend
    <2> QED
      BY <1>1, <2>1, <2>5, <2>9, PendingAnyKeys, Zenon
  <1>8. \/ \E n \in onDisk .. Len(wal) : lines = SubSeq(wal, 1, n)
        \/ \E n \in onDisk .. Len(wal) - 1 : lines = Append(SubSeq(wal, 1, n), Torn)
        \/ \E n \in onDisk .. Len(wal) - 1 : lines = Append(SubSeq(wal, 1, n), [wal[n + 1] EXCEPT !.ended = FALSE])
    BY Zenon DEF Remains
  <1>9. \A n \in onDisk .. Len(wal) - 1 : n \in onDisk .. Len(wal) /\ n + 1 \in onDisk .. Len(wal)
    BY <1>1
  <1> QED
    BY <1>4, <1>6, <1>7, <1>8, <1>9, Zenon

\* "A batch is acknowledged only after its `accept` record reaches stable
\* storage": for any batches, window, compaction threshold and crashes, what
\* DurableAcceptance::accept acknowledged is in a sink or is recovered by
\* replay_wal from whatever a power loss leaves, as long as no I/O error
\* happened and no earlier crash tore a line.
THEOREM AcknowledgedSurvivesCrashes == Spec => []SurvivesWhileIntact
  <1>1. Init => IInv
    BY SoundInit
  <1>2. IInv /\ [Next]_vars => IInv'
    BY IInvStep
  <1>3. IInv => SurvivesWhileIntact
    <2>1. SUFFICES ASSUME Sound, NEW lines \in Remains
                   PROVE  acked \subseteq stored \cup
                            (IF Readable(lines) THEN {e.batch : e \in Replay(snapshot, lines).pending} ELSE {})
      BY Zenon DEF IInv, SurvivesWhileIntact, AcknowledgedSurvives
    <2>2. Readable(lines)
      BY <2>1, RemainsReplay
    <2>3. PICK n \in onDisk .. Len(wal) : Replay(snapshot, lines).pending = PendingOf(SubSeq(wal, 1, n))
      BY <2>1, RemainsReplay
    <2>4. acked \subseteq stored \cup BatchesOf(Settled)
      BY <2>1 DEF Sound, Accounted
    <2>5. BatchesOf(Settled) \subseteq stored \cup BatchesOf(PendingOf(SubSeq(wal, 1, n)))
      BY <2>1, SettledSurvives
    <2>6. acked \subseteq stored \cup BatchesOf(Replay(snapshot, lines).pending)
      BY <2>3, <2>4, <2>5
    <2> QED
      BY <2>2, <2>6 DEF BatchesOf
  <1> QED
    BY <1>1, <1>2, <1>3, PTL DEF Spec


-----------------------------------------------------------------------------
(* The keys, when the window has room for all of them. *)

\* The keys remembered after a replay that starts from a window.
KeysFrom(window, lines) == Range(ReplayLines(window, lines).order)

\* An acceptance adds its key.
LEMMA KeysAccept ==
    ASSUME NoEvictions, NEW w \in Windows, NEW lines \in Seq(CleanLines), NEW e \in Entries
    PROVE  KeysFrom(w, Append(lines, AcceptLine(e))) = KeysFrom(w, lines) \cup ({e.batch} \ Keyless)
  <1> DEFINE s == ReplayLines(w, lines)
  <1>1. AcceptLine(e) \in CleanLines
    BY DEF CleanLines
  <1>2. s \in States /\ ReplayLines(w, Append(lines, AcceptLine(e))) = ReplayLine(s, AcceptLine(e))
    BY <1>1, ReplayAppend
  <1> HIDE DEF s
  <1>3. ReplayLine(s, AcceptLine(e)).order = Remember(s.order, e.batch)
    BY <1>2, ReplayAccept
  <1>4. s.order \in Windows /\ e.batch \in Batches
    BY <1>2 DEF States, Entries
  <1>5. Range(Remember(s.order, e.batch)) = Range(s.order) \cup ({e.batch} \ Keyless)
    BY <1>4, RememberAll
  <1> QED
    BY <1>2, <1>3, <1>5 DEF KeysFrom, s

\* An abort takes the key of the acceptance it ends.
LEMMA KeysAbort ==
    ASSUME NEW w \in Windows, NEW lines \in Seq(CleanLines), NEW e \in Entries
    PROVE  KeysFrom(w, Append(lines, Line("abort", {e}, e.batch))) =
              IF e \in PendingOf(lines) THEN KeysFrom(w, lines) \ {e.batch} ELSE KeysFrom(w, lines)
  <1> DEFINE s == ReplayLines(w, lines)
             l == Line("abort", {e}, e.batch)
  <1>1. l \in CleanLines
    BY Zenon DEF CleanLines
  <1>2. s \in States /\ ReplayLines(w, Append(lines, l)) = ReplayLine(s, l) /\ s.pending = PendingOf(lines)
    BY <1>1, ReplayAppend, PendingAnyKeys
  <1>3. ReplayLine(s, l).order = IF e \in s.pending THEN Forget(s.order, e.batch) ELSE s.order
    <2> HIDE DEF s
    <2> QED
      BY <1>2, ReplayAbort, Zenon
  <1>4. s.order \in Windows
    <2> HIDE DEF s
    <2> QED
      BY <1>2 DEF States
  <1>5. Range(Forget(s.order, e.batch)) = Range(s.order) \ {e.batch}
    BY <1>4, ForgetWindow
  <1> HIDE DEF s, l
  <1>6. Range(ReplayLines(w, Append(lines, l)).order) =
           IF e \in PendingOf(lines) THEN Range(s.order) \ {e.batch} ELSE Range(s.order)
    BY <1>2, <1>3, <1>5, Zenon
  <1> QED
    BY <1>6 DEF KeysFrom, s, l

\* A commit leaves the keys alone.
LEMMA KeysCommit ==
    ASSUME NEW w \in Windows, NEW lines \in Seq(CleanLines), NEW S \in SUBSET Entries
    PROVE  KeysFrom(w, Append(lines, Line("commit", S, <<>>))) = KeysFrom(w, lines)
  <1> DEFINE s == ReplayLines(w, lines)
             l == Line("commit", S, <<>>)
  <1>1. l \in CleanLines
    BY DEF CleanLines
  <1>2. s \in States /\ ReplayLines(w, Append(lines, l)) = ReplayLine(s, l)
    BY <1>1, ReplayAppend
  <1> HIDE DEF s
  <1>3. ReplayLine(s, l).order = s.order
    BY <1>2, ReplayCommit
  <1> QED
    BY <1>2, <1>3 DEF KeysFrom, s

\* A forget line takes its key.
LEMMA KeysForget ==
    ASSUME NEW w \in Windows, NEW lines \in Seq(CleanLines), NEW b \in Batches
    PROVE  KeysFrom(w, Append(lines, Line("forget", {}, b))) = KeysFrom(w, lines) \ {b}
  <1> DEFINE s == ReplayLines(w, lines)
             l == Line("forget", {}, b)
  <1>1. l \in CleanLines
    BY DEF CleanLines
  <1>2. s \in States /\ ReplayLines(w, Append(lines, l)) = ReplayLine(s, l)
    BY <1>1, ReplayAppend
  <1> HIDE DEF s
  <1>3. ReplayLine(s, l).order = Forget(s.order, b) /\ s.order \in Windows
    BY <1>2, ReplayForget DEF States
  <1>4. Range(Forget(s.order, b)) = Range(s.order) \ {b}
    BY <1>3, ForgetWindow
  <1> QED
    BY <1>2, <1>3, <1>4 DEF KeysFrom, s


\* The keys a log takes and the keys it gives, whatever window a replay starts from.
Effect(lines, D, A) == \A w \in Windows : KeysFrom(w, lines) = (Range(w) \ D) \cup A

\* Each line has such an effect on what the lines before it left.
LEMMA LineEffect ==
    ASSUME NoEvictions, NEW x \in Seq(CleanLines), NEW l \in CleanLines
    PROVE  \E D, A : \A w \in Windows : KeysFrom(w, Append(x, l)) = (KeysFrom(w, x) \ D) \cup A
  <1>1. ASSUME NEW e \in Entries, l = AcceptLine(e)
        PROVE  \A w \in Windows : KeysFrom(w, Append(x, l)) = (KeysFrom(w, x) \ {}) \cup ({e.batch} \ Keyless)
    BY <1>1, KeysAccept
  <1>2. ASSUME NEW e \in Entries, l = Line("abort", {e}, e.batch)
        PROVE  \E D : \A w \in Windows : KeysFrom(w, Append(x, l)) = (KeysFrom(w, x) \ D) \cup {}
    <2>1. CASE e \in PendingOf(x)
      <3>1. \A w \in Windows : KeysFrom(w, Append(x, l)) = (KeysFrom(w, x) \ {e.batch}) \cup {}
        BY <1>2, <2>1, KeysAbort, Zenon
      <3> QED
        BY <3>1, Zenon
    <2>2. CASE e \notin PendingOf(x)
      <3>1. \A w \in Windows : KeysFrom(w, Append(x, l)) = (KeysFrom(w, x) \ {}) \cup {}
        BY <1>2, <2>2, KeysAbort, Zenon
      <3> QED
        BY <3>1, Zenon
    <2> QED
      BY <2>1, <2>2, Zenon
  <1>3. ASSUME NEW S \in SUBSET Entries, l = Line("commit", S, <<>>)
        PROVE  \A w \in Windows : KeysFrom(w, Append(x, l)) = (KeysFrom(w, x) \ {}) \cup {}
    BY <1>3, KeysCommit
  <1>4. ASSUME NEW b \in Batches, l = Line("forget", {}, b)
        PROVE  \A w \in Windows : KeysFrom(w, Append(x, l)) = (KeysFrom(w, x) \ {b}) \cup {}
    BY <1>4, KeysForget
  <1>5. \/ \E e \in Entries : l = AcceptLine(e) \/ l = Line("abort", {e}, e.batch)
        \/ \E S \in SUBSET Entries : l = Line("commit", S, <<>>)
        \/ \E b \in Batches : l = Line("forget", {}, b)
    BY Zenon DEF CleanLines
  <1> QED
    BY <1>1, <1>2, <1>3, <1>4, <1>5, Zenon

\* So does a whole log.
LEMMA LogEffect ==
    ASSUME NoEvictions, NEW lines \in Seq(CleanLines)
    PROVE  \E D, A : Effect(lines, D, A)
  <1> DEFINE S == {x \in Seq(CleanLines) : \E D, A : Effect(x, D, A)}
  <1>1. <<>> \in S
    <2>1. <<>> \in Seq(CleanLines)
      OBVIOUS
    <2>2. ASSUME NEW w \in Windows PROVE KeysFrom(w, <<>>) = Range(w)
      BY ReplayEmpty DEF KeysFrom
    <2>3. Effect(<<>>, {}, {})
      BY <2>2 DEF Effect
    <2> QED
      BY <2>1, <2>3, Zenon
  <1>2. ASSUME NEW x \in Seq(CleanLines), NEW l \in CleanLines, x \in S PROVE Append(x, l) \in S
    <2>1. PICK D, A : Effect(x, D, A)
      BY <1>2, Zenon
    <2>2. PICK C, B : \A w \in Windows : KeysFrom(w, Append(x, l)) = (KeysFrom(w, x) \ C) \cup B
      BY LineEffect, Zenon
    <2>3. ASSUME NEW w \in Windows
          PROVE  KeysFrom(w, Append(x, l)) = (Range(w) \ (D \cup C)) \cup ((A \ C) \cup B)
      <3>1. KeysFrom(w, x) = (Range(w) \ D) \cup A
        BY <2>1 DEF Effect
      <3>2. KeysFrom(w, Append(x, l)) = (KeysFrom(w, x) \ C) \cup B
        BY <2>2
      <3> QED
        BY <3>1, <3>2
    <2>4. Effect(Append(x, l), D \cup C, (A \ C) \cup B)
      BY <2>3, Zenon DEF Effect
    <2>5. Append(x, l) \in Seq(CleanLines)
      OBVIOUS
    <2> QED
      BY <2>4, <2>5, Zenon
  <1> HIDE DEF S
  <1>3. \A x \in Seq(CleanLines), l \in CleanLines : x \in S => Append(x, l) \in S
    BY <1>2
  <1>4. lines \in S
    BY <1>1, <1>3, LogInduction
  <1> QED
    BY <1>4, Zenon DEF S

\* Replaying a log from the keys it has led to changes nothing: the snapshot may
\* be newer than the log.
LEMMA ReplayTwice ==
    ASSUME NoEvictions, NEW lines \in Seq(CleanLines), NEW w \in Windows, NEW v \in Windows,
           Range(v) = KeysFrom(w, lines)
    PROVE  KeysFrom(v, lines) = KeysFrom(w, lines)
  <1>1. PICK D, A : Effect(lines, D, A)
    BY LogEffect
  <1>2. KeysFrom(w, lines) = (Range(w) \ D) \cup A /\ KeysFrom(v, lines) = (Range(v) \ D) \cup A
    BY <1>1, Zenon DEF Effect
  <1> QED
    BY <1>2

KeysNow == IF pc = "closed" THEN KeysFrom(Reload(snapshot), wal) ELSE Range(order)

PendingNow == IF pc = "closed" THEN PendingOf(wal) ELSE pending

\* The keys in memory are those a replay of the synced lines would give.
KeysAreLog ==
    /\ pc # "closed" =>
          Range(order) = KeysFrom(Reload(snapshot), Synced)
                            \cup (IF pc = "written" THEN {job.entry.batch} \ Keyless ELSE {})
    /\ pc = "snapshotted" => Range(snapshot) = Range(order)
    /\ NoForgets(wal)

\* Keys of pending batches, and of all that entered the queue, are remembered.
KeysKept ==
    /\ BatchesOf(PendingNow) \ Keyless \subseteq KeysNow
    /\ accepts \in [Batches -> 0 .. 2]
    /\ \A b \in Batches \ Keyless : accepts[b] <= 1 /\ (accepts[b] = 1 => b \in KeysNow)

\* The acceptance in progress is the first of its key.
FirstOfKey ==
    Accepting /\ job.entry.batch \notin Keyless =>
        accepts[job.entry.batch] = 0 /\ job.entry.batch \notin BatchesOf(Settled)

Keyed == KeysAreLog /\ KeysKept /\ FirstOfKey

KInv == IInv /\ (Intact => Keyed)

\* A log with one more line.
LEMMA NoForgetsAppend ==
    ASSUME NEW lines \in Seq(CleanLines), NEW l \in CleanLines, NoForgets(lines), l.op # "forget"
    PROVE  NoForgets(Append(lines, l))
  BY DEF NoForgets

\* Steps that leave the log, the keys and the acceptance in progress alone.
LEMMA KeyedUntouched ==
    ASSUME Keyed, UNCHANGED <<wal, onDisk, snapshot, pending, order, pc, job, accepts>>
    PROVE  Keyed'
  <1>1. KeysAreLog'
    BY DEF Keyed, KeysAreLog, Synced
  <1>2. KeysNow' = KeysNow /\ PendingNow' = PendingNow
    BY DEF KeysNow, PendingNow
  <1>3. KeysKept'
    BY <1>2 DEF Keyed, KeysKept
  <1>4. Settled' = Settled /\ (Accepting' <=> Accepting)
    BY DEF Settled, Accepting
  <1>5. FirstOfKey'
    BY <1>4 DEF Keyed, FirstOfKey
  <1> QED
    BY <1>1, <1>3, <1>5 DEF Keyed

\* open finds the keys in the files.
LEMMA KeyedOpen ==
    ASSUME Sound, Keyed, Open
    PROVE  Keyed'
  <1>1. /\ UNCHANGED <<wal, onDisk, snapshot, accepts>> /\ pc = "closed" /\ pc' = "ready"
        /\ pending' = Replay(snapshot, wal).pending /\ order' = Replay(snapshot, wal).order
    BY DEF Open, disk, history, outcome
  <1>2. wal \in Seq(CleanLines) /\ snapshot \in Windows /\ Tables /\ Len(wal) = onDisk
    BY <1>1 DEF Sound, Tables, Unsynced
  <1>3. pending' = PendingOf(wal) /\ Range(order') = KeysFrom(Reload(snapshot), wal)
    BY <1>1, <1>2, ReplayOfClean DEF KeysFrom
  <1>4. Synced' = wal
    <2>1. Synced = wal
      BY <1>2, Tails
    <2> QED
      BY <1>1, <2>1 DEF Synced
  <1>5. KeysAreLog'
    BY <1>1, <1>3, <1>4 DEF Keyed, KeysAreLog
  <1>6. KeysNow' = KeysNow /\ PendingNow' = PendingNow
    BY <1>1, <1>3 DEF KeysNow, PendingNow
  <1>7. KeysKept'
    BY <1>1, <1>6 DEF Keyed, KeysKept
  <1>8. FirstOfKey'
    BY <1>1 DEF FirstOfKey, Accepting
  <1> QED
    BY <1>5, <1>7, <1>8 DEF Keyed

\* accept writes the lines of a batch whose key is not remembered.
LEMMA KeyedAcceptWrites ==
    ASSUME NoEvictions, Sound, Keyed, NEW b \in Batches, AcceptWrites(b)
    PROVE  Keyed'
  <1> DEFINE e == job'.entry
  <1>1. /\ UNCHANGED <<snapshot, accepts>> /\ pc = "ready" /\ pc' = "written" /\ b \notin Range(order)
        /\ order' = Remember(order, b)
    BY DEF AcceptWrites, history, outcome
  <1>2. pending' = pending \cup {e}
    BY DEF AcceptWrites
  <1>3. wal \in Seq(CleanLines) /\ order \in Windows /\ Len(wal) = onDisk /\ Synced = wal
    BY <1>1, AllSynced DEF Sound, Tables
  <1>4. ~(MaxEntries > 0 /\ Evicts(order, b))
    BY <1>3 DEF NoEvictions, Evicts
  <1>5. e \in Entries /\ e.batch = b /\ onDisk' = onDisk /\ wal' = Append(wal, AcceptLine(e))
    BY <1>4, AcceptLines
  <1> HIDE DEF e
  <1>6. Range(order') = Range(order) \cup ({b} \ Keyless)
    BY <1>1, <1>3, RememberAll
  <1>7. KeysAreLog'
    <2>1. Synced' = wal
      BY <1>3, <1>5 DEF Synced
    <2>2. Range(order) = KeysFrom(Reload(snapshot), wal) /\ NoForgets(wal)
      BY <1>1, <1>3 DEF Keyed, KeysAreLog
    <2>3. AcceptLine(e) \in CleanLines /\ AcceptLine(e).op # "forget"
      BY <1>5, Zenon DEF CleanLines, AcceptLine, Line
    <2>4. NoForgets(wal')
      BY <1>3, <1>5, <2>2, <2>3, NoForgetsAppend
    <2>5. job.entry.batch' = b
      BY <1>5 DEF e
    <2> QED
      BY <1>1, <1>6, <2>1, <2>2, <2>4, <2>5 DEF KeysAreLog
  <1>8. BatchesOf(pending) \ Keyless \subseteq Range(order) /\ accepts \in [Batches -> 0 .. 2]
        /\ \A c \in Batches \ Keyless : accepts[c] <= 1 /\ (accepts[c] = 1 => c \in Range(order))
    BY <1>1 DEF Keyed, KeysKept, KeysNow, PendingNow
  <1>9. KeysKept'
    <2>1. KeysNow' = Range(order') /\ PendingNow' = pending \cup {e}
      BY <1>1, <1>2 DEF KeysNow, PendingNow
    <2>2. BatchesOf(pending \cup {e}) \ Keyless \subseteq Range(order')
      BY <1>5, <1>6, <1>8 DEF BatchesOf
    <2> QED
      BY <1>1, <1>6, <1>8, <2>1, <2>2 DEF KeysKept
  <1>10. FirstOfKey'
    <2>1. Settled' \subseteq pending
      BY <1>1, <1>2 DEF Settled, Accepting, e
    <2>2. ASSUME b \notin Keyless PROVE accepts[b] = 0 /\ b \notin BatchesOf(Settled')
      <3>1. accepts[b] \in 0 .. 2 /\ accepts[b] <= 1 /\ accepts[b] # 1
        BY <1>1, <1>8, <2>2
      <3>2. BatchesOf(Settled') \subseteq BatchesOf(pending)
        BY <2>1 DEF BatchesOf
      <3> QED
        BY <1>1, <1>8, <2>2, <3>1, <3>2
    <2>3. job.entry.batch' = b
      BY <1>5 DEF e
    <2> QED
      BY <1>1, <2>2, <2>3 DEF FirstOfKey
  <1> QED
    BY <1>7, <1>9, <1>10 DEF Keyed


\* The lines of the operation in progress bring the keys of the log to what they
\* will be in memory.
LEMMA KeysOfLog ==
    ASSUME NoEvictions, Sound, Keyed
    PROVE  /\ pc = "written" => Len(wal) = onDisk + 1 /\ KeysFrom(Reload(snapshot), wal) = Range(order)
           /\ pc = "aborting" => KeysFrom(Reload(snapshot), wal) = Range(order) \ {job.entry.batch}
           /\ pc \notin {"closed", "written", "aborting"} => KeysFrom(Reload(snapshot), wal) = Range(order)
  <1> DEFINE w == Reload(snapshot)
  <1>1. Tables /\ wal \in Seq(CleanLines) /\ w \in Windows /\ onDisk \in 0 .. Len(wal)
    BY ReloadWindow DEF Sound, Tables
  <1>2. Synced \in Seq(CleanLines)
    BY <1>1, Tails
  <1> HIDE DEF w
  <1>3. ASSUME pc = "written"
        PROVE  Len(wal) = onDisk + 1 /\ KeysFrom(w, wal) = Range(order)
    <2>1. /\ Len(wal) \in {onDisk + 1, onDisk + 2} /\ wal[onDisk + 1] = AcceptLine(job.entry)
          /\ Len(wal) = onDisk + 2 => \E b \in Batches : wal[onDisk + 2] = Line("forget", {}, b)
          /\ job.entry \in Entries
      BY <1>3 DEF Sound, Unsynced, Tables, Accepting
    <2>2. ASSUME Len(wal) = onDisk + 2 PROVE FALSE
      <3>1. onDisk + 2 \in DOMAIN wal
        BY <1>1, <2>2
      <3>2. \A b : Line("forget", {}, b).op = "forget"
        BY DEF Line
      <3>3. wal[onDisk + 2].op = "forget"
        BY <2>1, <2>2, <3>2
      <3> QED
        BY <3>1, <3>3 DEF Keyed, KeysAreLog, NoForgets
    <2>3. Len(wal) = onDisk + 1 /\ wal = Append(Synced, AcceptLine(job.entry))
      BY <1>1, <2>1, <2>2, Tails
    <2>4. KeysFrom(w, wal) = KeysFrom(w, Synced) \cup ({job.entry.batch} \ Keyless)
      BY <1>1, <1>2, <2>1, <2>3, KeysAccept
    <2> QED
      BY <1>3, <2>3, <2>4 DEF Keyed, KeysAreLog, w
  <1>4. ASSUME pc = "aborting"
        PROVE  KeysFrom(w, wal) = Range(order) \ {job.entry.batch}
    <2>1. /\ Len(wal) = onDisk + 1 /\ wal[onDisk + 1] = Line("abort", {job.entry}, job.entry.batch)
          /\ job.entry \in Entries /\ job.entry \in PendingOf(Synced)
      BY <1>4 DEF Sound, Unsynced, Tables, Accepting, MemoryIsLog
    <2>2. wal = Append(Synced, Line("abort", {job.entry}, job.entry.batch))
      BY <1>1, <2>1, Tails
    <2>3. KeysFrom(w, wal) = KeysFrom(w, Synced) \ {job.entry.batch}
      BY <1>1, <1>2, <2>1, <2>2, KeysAbort, Zenon
    <2> QED
      BY <1>4, <2>3 DEF Keyed, KeysAreLog, w
  <1>5. ASSUME pc = "committing" PROVE KeysFrom(w, wal) = Range(order)
    <2>1. Len(wal) = onDisk + 1 /\ wal[onDisk + 1] = Line("commit", flushing, <<>>) /\ flushing \in SUBSET Entries
      BY <1>5 DEF Sound, Unsynced, Tables
    <2>2. wal = Append(Synced, Line("commit", flushing, <<>>))
      BY <1>1, <2>1, Tails
    <2>3. KeysFrom(w, wal) = KeysFrom(w, Synced)
      BY <1>1, <1>2, <2>1, <2>2, KeysCommit
    <2> QED
      BY <1>5, <2>3 DEF Keyed, KeysAreLog, w
  <1>6. ASSUME pc \notin {"closed", "written", "aborting", "committing"} PROVE KeysFrom(w, wal) = Range(order)
    <2>1. Synced = wal
      BY <1>6, AllSynced
    <2> QED
      BY <1>6, <2>1 DEF Keyed, KeysAreLog, w
  <1> QED
    BY <1>3, <1>4, <1>5, <1>6 DEF w

\* accept's sync.
LEMMA KeyedAcceptSynced ==
    ASSUME NoEvictions, Sound, Keyed, AcceptSynced
    PROVE  Keyed'
  <1>1. /\ UNCHANGED <<wal, snapshot, pending, order, job, accepts>>
        /\ onDisk' = Len(wal) /\ pc = "written" /\ pc' = "synced"
    BY DEF AcceptSynced, memory, history, outcome
  <1>2. wal \in Seq(CleanLines) /\ SubSeq(wal, 1, Len(wal)) = wal
    BY DEF Sound, Tables
  <1>3. KeysAreLog'
    <2>1. Synced' = wal
      BY <1>1, <1>2 DEF Synced
    <2>2. KeysFrom(Reload(snapshot), wal) = Range(order)
      BY <1>1, KeysOfLog
    <2> QED
      BY <1>1, <2>1, <2>2 DEF Keyed, KeysAreLog
  <1>4. KeysNow' = KeysNow /\ PendingNow' = PendingNow
    BY <1>1 DEF KeysNow, PendingNow
  <1>5. KeysKept'
    BY <1>1, <1>4 DEF Keyed, KeysKept
  <1>6. Settled' = Settled /\ Accepting' /\ Accepting
    BY <1>1 DEF Settled, Accepting
  <1>7. FirstOfKey'
    BY <1>1, <1>6 DEF Keyed, FirstOfKey
  <1> QED
    BY <1>3, <1>5, <1>7 DEF Keyed

\* The queue takes the first acceptance of a key.
LEMMA KeyedEnqueued ==
    ASSUME Sound, Keyed, Enqueued
    PROVE  Keyed'
  <1> DEFINE b == job.entry.batch
  <1>1. /\ UNCHANGED <<wal, onDisk, snapshot, pending, order>> /\ pc = "synced" /\ pc' = "ready"
        /\ accepts' = [accepts EXCEPT ![b] = Bump(@)]
    BY DEF Enqueued, disk, memory
  <1>2. job.entry \in Entries /\ job.entry \in pending /\ b \in Batches
    BY <1>1 DEF Sound, Tables, Accepting, Entries
  <1>3. KeysAreLog'
    BY <1>1 DEF Keyed, KeysAreLog, Synced
  <1>4. KeysNow' = KeysNow /\ PendingNow' = PendingNow /\ PendingNow = pending
    BY <1>1 DEF KeysNow, PendingNow
  <1>5. b \notin Keyless => accepts[b] = 0 /\ b \in KeysNow
    <2>1. b \in BatchesOf(PendingNow)
      BY <1>2, <1>4 DEF BatchesOf
    <2> QED
      BY <1>1, <2>1 DEF Keyed, KeysKept, FirstOfKey, Accepting
  <1>6. KeysKept'
    <2> HIDE DEF b
    <2>1. accepts \in [Batches -> 0 .. 2]
      BY DEF Keyed, KeysKept
    <2>2. \A n \in 0 .. 2 : Bump(n) \in 0 .. 2
      BY DEF Bump
    <2>3. accepts' \in [Batches -> 0 .. 2] /\ accepts'[b] = Bump(accepts[b])
          /\ \A c \in Batches : c # b => accepts'[c] = accepts[c]
      BY <1>1, <1>2, <2>1, <2>2
    <2>4. Bump(0) = 1
      BY DEF Bump
    <2>5. ASSUME NEW c \in Batches \ Keyless PROVE accepts'[c] <= 1 /\ (accepts'[c] = 1 => c \in KeysNow)
      BY <1>5, <2>3, <2>4 DEF Keyed, KeysKept
    <2> QED
      BY <1>4, <2>3, <2>5 DEF Keyed, KeysKept
  <1>7. FirstOfKey'
    BY <1>1 DEF FirstOfKey, Accepting
  <1> QED
    BY <1>3, <1>6, <1>7 DEF Keyed


\* The line that aborts an acceptance.
LEMMA KeyedEnqueueRefused ==
    ASSUME Sound, Keyed, EnqueueRefused
    PROVE  Keyed'
  <1> DEFINE l == Line("abort", {job.entry}, job.entry.batch)
  <1>1. /\ UNCHANGED <<snapshot, pending, order, job, accepts>>
        /\ pc = "synced" /\ pc' = "aborting" /\ WriteLines(<<l>>)
    BY DEF EnqueueRefused, memory, history, outcome
  <1>2. wal \in Seq(CleanLines) /\ job.entry \in Entries /\ Len(wal) = onDisk
    BY <1>1 DEF Sound, Tables, Unsynced, Accepting
  <1>3. l \in CleanLines /\ l.op # "forget"
    BY <1>2, Zenon DEF CleanLines, Line
  <1> HIDE DEF l
  <1>4. wal' = Append(wal, l) /\ Synced' = wal /\ Synced = wal
    BY <1>1, <1>2, <1>3, OneUnsynced
  <1>5. KeysAreLog'
    <2>1. NoForgets(wal')
      BY <1>2, <1>3, <1>4, NoForgetsAppend DEF Keyed, KeysAreLog
    <2> QED
      BY <1>1, <1>4, <2>1 DEF Keyed, KeysAreLog
  <1>6. KeysNow' = KeysNow /\ PendingNow' = PendingNow
    BY <1>1 DEF KeysNow, PendingNow
  <1>7. KeysKept'
    BY <1>1, <1>6 DEF Keyed, KeysKept
  <1>8. Settled' = Settled /\ Accepting' /\ Accepting
    BY <1>1 DEF Settled, Accepting
  <1>9. FirstOfKey'
    BY <1>1, <1>8 DEF Keyed, FirstOfKey
  <1> QED
    BY <1>5, <1>7, <1>9 DEF Keyed

\* The abort is synced: no other acceptance needs the key that is forgotten.
LEMMA KeyedAbortSynced ==
    ASSUME NoEvictions, Sound, Keyed, AbortSynced
    PROVE  Keyed'
  <1> DEFINE b == job.entry.batch
  <1>1. /\ UNCHANGED <<wal, snapshot, accepts>>
        /\ pc = "aborting" /\ pc' = "ready" /\ onDisk' = Len(wal)
        /\ pending' = pending \ {job.entry} /\ order' = Forget(order, b)
    BY DEF AbortSynced, history, outcome
  <1>2. wal \in Seq(CleanLines) /\ SubSeq(wal, 1, Len(wal)) = wal /\ order \in Windows
    BY DEF Sound, Tables
  <1>3. Range(order') = Range(order) \ {b}
    BY <1>1, <1>2, ForgetWindow
  <1>4. KeysAreLog'
    <2>1. Synced' = wal
      BY <1>1, <1>2 DEF Synced
    <2>2. KeysFrom(Reload(snapshot), wal) = Range(order')
      BY <1>1, <1>3, KeysOfLog
    <2> QED
      BY <1>1, <2>1, <2>2 DEF Keyed, KeysAreLog
  <1>5. KeysNow = Range(order) /\ PendingNow = pending /\ Settled = pending \ {job.entry} /\ Accepting
    BY <1>1 DEF KeysNow, PendingNow, Settled, Accepting
  <1>6. KeysNow' = Range(order) \ {b} /\ PendingNow' = Settled
    BY <1>1, <1>3, <1>5 DEF KeysNow, PendingNow
  <1>7. b \notin Keyless => accepts[b] = 0 /\ b \notin BatchesOf(Settled)
    BY <1>5 DEF Keyed, FirstOfKey
  <1> HIDE DEF b
  <1>8. KeysKept'
    <2>1. BatchesOf(Settled) \subseteq BatchesOf(pending)
      BY <1>5 DEF BatchesOf
    <2>2. BatchesOf(Settled) \ Keyless \subseteq Range(order) \ {b}
      BY <1>5, <1>7, <2>1 DEF Keyed, KeysKept
    <2>3. \A c \in Batches \ Keyless : accepts[c] = 1 => c \in Range(order) \ {b}
      BY <1>5, <1>7 DEF Keyed, KeysKept
    <2> QED
      BY <1>1, <1>6, <2>2, <2>3 DEF Keyed, KeysKept
  <1>9. FirstOfKey'
    BY <1>1 DEF FirstOfKey, Accepting
  <1> QED
    BY <1>4, <1>8, <1>9 DEF Keyed

\* The commit line.
LEMMA KeyedCommitWrites ==
    ASSUME Sound, Keyed, CommitWrites
    PROVE  Keyed'
  <1> DEFINE l == Line("commit", flushing, <<>>)
  <1>1. /\ UNCHANGED <<snapshot, pending, order, job, accepts>>
        /\ pc = "ready" /\ pc' = "committing" /\ WriteLines(<<l>>)
    BY DEF CommitWrites, memory, history, outcome
  <1>2. wal \in Seq(CleanLines) /\ flushing \in SUBSET Entries /\ Len(wal) = onDisk
    BY <1>1 DEF Sound, Tables, Unsynced
  <1>3. l \in CleanLines /\ l.op # "forget"
    BY <1>2, Zenon DEF CleanLines, Line
  <1> HIDE DEF l
  <1>4. wal' = Append(wal, l) /\ Synced' = wal /\ Synced = wal
    BY <1>1, <1>2, <1>3, OneUnsynced
  <1>5. KeysAreLog'
    <2>1. NoForgets(wal')
      BY <1>2, <1>3, <1>4, NoForgetsAppend DEF Keyed, KeysAreLog
    <2> QED
      BY <1>1, <1>4, <2>1 DEF Keyed, KeysAreLog
  <1>6. KeysNow' = KeysNow /\ PendingNow' = PendingNow
    BY <1>1 DEF KeysNow, PendingNow
  <1>7. KeysKept'
    BY <1>1, <1>6 DEF Keyed, KeysKept
  <1>8. FirstOfKey'
    BY <1>1 DEF FirstOfKey, Accepting
  <1> QED
    BY <1>5, <1>7, <1>8 DEF Keyed

\* The commit is synced.
LEMMA KeyedCommitSynced ==
    ASSUME NoEvictions, Sound, Keyed, CommitSynced
    PROVE  Keyed'
  <1>1. /\ UNCHANGED <<wal, snapshot, order, accepts>>
        /\ pc = "committing" /\ pc' \in {"ready", "compacting"} /\ onDisk' = Len(wal)
        /\ pending' = pending \ flushing
    BY DEF CommitSynced, history, outcome
  <1>2. wal \in Seq(CleanLines) /\ SubSeq(wal, 1, Len(wal)) = wal
    BY DEF Sound, Tables
  <1>3. KeysAreLog'
    <2>1. Synced' = wal
      BY <1>1, <1>2 DEF Synced
    <2>2. KeysFrom(Reload(snapshot), wal) = Range(order)
      BY <1>1, KeysOfLog
    <2> QED
      BY <1>1, <2>1, <2>2 DEF Keyed, KeysAreLog
  <1>4. KeysNow' = KeysNow /\ PendingNow' \subseteq PendingNow
    BY <1>1 DEF KeysNow, PendingNow
  <1>5. BatchesOf(PendingNow') \subseteq BatchesOf(PendingNow)
    BY <1>4 DEF BatchesOf
  <1>6. KeysKept'
    BY <1>1, <1>4, <1>5 DEF Keyed, KeysKept
  <1>7. FirstOfKey'
    BY <1>1, Zenon DEF FirstOfKey, Accepting
  <1> QED
    BY <1>3, <1>6, <1>7 DEF Keyed


\* The snapshot is replaced while the log is still the old one.
LEMMA KeyedCompactSnapshot ==
    ASSUME NoEvictions, Sound, Keyed, CompactSnapshot
    PROVE  Keyed'
  <1>1. /\ UNCHANGED <<wal, onDisk, pending, order, job, accepts>>
        /\ pc = "compacting" /\ pc' = "snapshotted" /\ snapshot' = order
    BY DEF CompactSnapshot, memory, history, outcome
  <1>2. wal \in Seq(CleanLines) /\ snapshot \in Windows /\ order \in Windows /\ Synced = wal
    BY <1>1, AllSynced DEF Sound, Tables
  <1>3. /\ Reload(snapshot) \in Windows /\ Reload(order) \in Windows /\ Range(Reload(order)) = Range(order)
    BY <1>2, ReloadWindow
  <1>4. KeysFrom(Reload(snapshot), wal) = Range(order)
    BY <1>1, KeysOfLog
  <1>5. KeysFrom(Reload(order), wal) = Range(order)
    BY <1>2, <1>3, <1>4, ReplayTwice
  <1>6. KeysAreLog'
    <2>1. Synced' = wal
      BY <1>1, <1>2 DEF Synced
    <2> QED
      BY <1>1, <1>5, <2>1 DEF Keyed, KeysAreLog
  <1>7. KeysNow' = KeysNow /\ PendingNow' = PendingNow
    BY <1>1 DEF KeysNow, PendingNow
  <1>8. KeysKept'
    BY <1>1, <1>7 DEF Keyed, KeysKept
  <1>9. FirstOfKey'
    BY <1>1 DEF FirstOfKey, Accepting
  <1> QED
    BY <1>6, <1>8, <1>9 DEF Keyed

\* The compacted log replaces the old one.
LEMMA KeyedCompactReplace ==
    ASSUME NoEvictions, Sound, Keyed, CompactReplace
    PROVE  Keyed'
  <1>1. /\ UNCHANGED <<snapshot, pending, order, job, accepts>>
        /\ pc = "snapshotted" /\ pc' = "ready" /\ wal' = Compacted(pending) /\ onDisk' = Len(wal')
    BY DEF CompactReplace, history, outcome
  <1>2. LogOf(wal', pending)
    BY <1>1, CompactedPending
  <1>3. /\ wal' \in Seq(CleanLines) /\ NoForgets(wal')
        /\ \A w \in Windows : KeysFrom(w, wal') = Range(w) \cup (BatchesOf(pending) \ Keyless)
    BY <1>2, Zenon DEF LogOf, KeysFrom
  <1>4. Reload(snapshot) \in Windows /\ Range(Reload(snapshot)) = Range(snapshot)
    BY ReloadWindow DEF Sound, Tables
  <1>5. Range(snapshot) = Range(order) /\ BatchesOf(pending) \ Keyless \subseteq Range(order)
    BY <1>1 DEF Keyed, KeysAreLog, KeysKept, KeysNow, PendingNow
  <1>6. KeysFrom(Reload(snapshot), wal') = Range(order)
    BY <1>3, <1>4, <1>5, Zenon
  <1>7. KeysAreLog'
    <2>1. SubSeq(wal', 1, Len(wal')) = wal'
      BY <1>3
    <2>2. Synced' = wal'
      BY <1>1, <2>1 DEF Synced
    <2> QED
      BY <1>1, <1>3, <1>6, <2>2 DEF KeysAreLog
  <1>8. KeysNow' = KeysNow /\ PendingNow' = PendingNow
    BY <1>1 DEF KeysNow, PendingNow
  <1>9. KeysKept'
    BY <1>1, <1>8 DEF Keyed, KeysKept
  <1>10. FirstOfKey'
    BY <1>1 DEF FirstOfKey, Accepting
  <1> QED
    BY <1>7, <1>9, <1>10 DEF Keyed

\* What a power loss leaves has the keys of all that is pending in it and of all
\* that entered the queue.
LEMMA KeysSurvive ==
    ASSUME NoEvictions, Sound, Keyed, pc # "closed", NEW n \in onDisk .. Len(wal)
    PROVE  LET less == SubSeq(wal, 1, n)
           IN  /\ BatchesOf(PendingOf(less)) \ Keyless \subseteq KeysFrom(Reload(snapshot), less)
               /\ \A b \in Batches \ Keyless : accepts[b] = 1 => b \in KeysFrom(Reload(snapshot), less)
  <1> DEFINE less == SubSeq(wal, 1, n)
             keys == KeysFrom(Reload(snapshot), less)
             b == job.entry.batch
  <1>1. Tables /\ wal \in Seq(CleanLines) /\ onDisk \in 0 .. Len(wal) /\ Len(wal) \in Nat
    BY DEF Sound, Tables
  <1>2. SubSeq(wal, 1, Len(wal)) = wal
    BY <1>1
  <1>3. /\ BatchesOf(pending) \ Keyless \subseteq Range(order)
        /\ \A c \in Batches \ Keyless : accepts[c] = 1 => c \in Range(order)
    BY DEF Keyed, KeysKept, KeysNow, PendingNow
  <1>4. ASSUME PendingOf(less) \subseteq pending, keys = Range(order)
        PROVE  /\ BatchesOf(PendingOf(less)) \ Keyless \subseteq keys
               /\ \A c \in Batches \ Keyless : accepts[c] = 1 => c \in keys
    <2> HIDE DEF less, keys
    <2>1. BatchesOf(PendingOf(less)) \subseteq BatchesOf(pending)
      BY <1>4 DEF BatchesOf
    <2> QED
      BY <1>3, <1>4, <2>1
  <1>5. ASSUME Accepting, PendingOf(less) = pending \ {job.entry}, Range(order) \ {b} \subseteq keys
        PROVE  /\ BatchesOf(PendingOf(less)) \ Keyless \subseteq keys
               /\ \A c \in Batches \ Keyless : accepts[c] = 1 => c \in keys
    <2>1. Settled = pending \ {job.entry}
      BY <1>5 DEF Settled, Accepting
    <2>2. b \notin Keyless => accepts[b] = 0 /\ b \notin BatchesOf(Settled)
      BY <1>5 DEF Keyed, FirstOfKey
    <2> HIDE DEF less, keys, b
    <2>3. BatchesOf(Settled) \subseteq BatchesOf(pending) /\ BatchesOf(PendingOf(less)) = BatchesOf(Settled)
      BY <1>5, <2>1 DEF BatchesOf
    <2> QED
      BY <1>3, <1>5, <2>2, <2>3
  <1>6. n = onDisk => less = Synced
    BY DEF Synced
  <1>7. n = Len(wal) => less = wal
    BY <1>2
  <1>8. CASE pc = "written"
    <2>1. Len(wal) = onDisk + 1 /\ KeysFrom(Reload(snapshot), wal) = Range(order)
      BY <1>8, KeysOfLog
    <2>2. PendingOf(wal) = pending /\ job.entry \notin PendingOf(Synced)
      BY <1>8, WrittenPending
    <2>3. pending = PendingOf(Synced) \cup {job.entry}
      BY <1>8 DEF Sound, MemoryIsLog
    <2>4. Range(order) = KeysFrom(Reload(snapshot), Synced) \cup ({b} \ Keyless)
      BY <1>8 DEF Keyed, KeysAreLog
    <2>5. n = onDisk \/ n = Len(wal)
      BY <1>1, <2>1
    <2>6. CASE n = onDisk
      <3>1. PendingOf(less) = pending \ {job.entry}
        BY <1>6, <2>2, <2>3, <2>6, Zenon
      <3>2. Range(order) \ {b} \subseteq keys
        BY <1>6, <2>4, <2>6, Zenon
      <3> QED
        BY <1>5, <1>8, <3>1, <3>2 DEF Accepting
    <2>7. CASE n = Len(wal)
      BY <1>4, <1>7, <2>1, <2>2, <2>7, Zenon
    <2> QED
      BY <2>5, <2>6, <2>7
  <1>9. CASE pc = "aborting"
    <2>1. Len(wal) = onDisk + 1 /\ wal[onDisk + 1] = Line("abort", {job.entry}, b) /\ job.entry \in Entries
      BY <1>9 DEF Sound, Unsynced, Tables, Accepting
    <2>2. pending = PendingOf(Synced)
      BY <1>9 DEF Sound, MemoryIsLog
    <2>3. Range(order) = KeysFrom(Reload(snapshot), Synced)
      BY <1>9 DEF Keyed, KeysAreLog
    <2>4. KeysFrom(Reload(snapshot), wal) = Range(order) \ {b}
      BY <1>9, KeysOfLog
    <2>5. PendingOf(wal) = pending \ {job.entry}
      <3>1. Synced \in Seq(CleanLines) /\ wal = Append(Synced, Line("abort", {job.entry}, b))
        BY <1>1, <2>1, Tails
      <3> QED
        BY <2>1, <2>2, <3>1, PendingAbort, Zenon
    <2>6. n = onDisk \/ n = Len(wal)
      BY <1>1, <2>1
    <2>7. CASE n = onDisk
      BY <1>4, <1>6, <2>2, <2>3, <2>7, Zenon
    <2>8. CASE n = Len(wal)
      <3>1. PendingOf(less) = pending \ {job.entry} /\ Range(order) \ {b} \subseteq keys
        BY <1>7, <2>4, <2>5, <2>8, Zenon
      <3> QED
        BY <1>5, <1>9, <3>1 DEF Accepting
    <2> QED
      BY <2>6, <2>7, <2>8
  <1>10. CASE pc = "committing"
    <2>1. Len(wal) = onDisk + 1 /\ wal[onDisk + 1] = Line("commit", flushing, <<>>) /\ flushing \in SUBSET Entries
      BY <1>10 DEF Sound, Unsynced, Tables
    <2>2. pending = PendingOf(Synced) /\ Range(order) = KeysFrom(Reload(snapshot), Synced)
      BY <1>10 DEF Sound, MemoryIsLog, Keyed, KeysAreLog
    <2>3. KeysFrom(Reload(snapshot), wal) = Range(order)
      BY <1>10, KeysOfLog
    <2>4. PendingOf(wal) = pending \ flushing
      <3>1. Synced \in Seq(CleanLines) /\ wal = Append(Synced, Line("commit", flushing, <<>>))
        BY <1>1, <2>1, Tails
      <3> QED
        BY <2>1, <2>2, <3>1, PendingCommit
    <2>5. n = onDisk \/ n = Len(wal)
      BY <1>1, <2>1
    <2>6. PendingOf(less) \subseteq pending /\ keys = Range(order)
      BY <1>6, <1>7, <2>2, <2>3, <2>4, <2>5, Zenon
    <2> QED
      BY <1>4, <2>6
  <1>11. CASE pc \notin {"closed", "written", "aborting", "committing"}
    <2>1. Len(wal) = onDisk /\ pending = PendingOf(wal) /\ KeysFrom(Reload(snapshot), wal) = Range(order)
      BY <1>11, AllSynced, KeysOfLog
    <2>2. n = Len(wal)
      BY <1>1, <2>1
    <2> QED
      BY <1>4, <1>7, <2>1, <2>2, Zenon
  <1> QED
    BY <1>8, <1>9, <1>10, <1>11

\* The process dies.
LEMMA KeyedCrash ==
    ASSUME NoEvictions, Sound, Keyed, Crash, ~torn'
    PROVE  Keyed'
  <1> DEFINE n == Len(wal')
  <1>1. /\ UNCHANGED <<snapshot, accepts>> /\ wal' \in Remains /\ pc # "closed" /\ pc' = "closed"
        /\ wal' = SubSeq(wal, 1, n)
    BY Zenon DEF Crash
  <1>2. wal \in Seq(CleanLines) /\ onDisk \in 0 .. Len(wal) /\ Tables
    BY DEF Sound, Tables
  <1>3. n \in onDisk .. Len(wal)
    BY <1>1, <1>2, CrashPrefix
  <1> HIDE DEF n
  <1>4. KeysAreLog'
    <2>1. n \in 0 .. Len(wal)
      BY <1>2, <1>3
    <2>2. NoForgets(wal')
      BY <1>1, <1>2, <2>1, PrefixKeeps DEF Keyed, KeysAreLog
    <2> QED
      BY <1>1, <2>2 DEF KeysAreLog
  <1>5. KeysKept'
    <2>1. KeysNow' = KeysFrom(Reload(snapshot), wal') /\ PendingNow' = PendingOf(wal')
      BY <1>1 DEF KeysNow, PendingNow
    <2>2. /\ BatchesOf(PendingOf(wal')) \ Keyless \subseteq KeysFrom(Reload(snapshot), wal')
          /\ \A b \in Batches \ Keyless : accepts[b] = 1 => b \in KeysFrom(Reload(snapshot), wal')
      BY <1>1, <1>3, KeysSurvive
    <2> QED
      BY <1>1, <2>1, <2>2 DEF Keyed, KeysKept
  <1>6. FirstOfKey'
    BY <1>1 DEF FirstOfKey, Accepting
  <1> QED
    BY <1>4, <1>5, <1>6 DEF Keyed


\* A new installation has no keys.
LEMMA KeyedInit == Init => KInv
  <1> SUFFICES ASSUME Init PROVE KInv
    OBVIOUS
  <1>1. wal = <<>> /\ pc = "closed" /\ accepts = [b \in Batches |-> 0]
    BY DEF Init
  <1>2. IInv
    BY SoundInit
  <1>3. KeysAreLog
    BY <1>1 DEF KeysAreLog, NoForgets
  <1>4. KeysKept
    <2>1. PendingNow = {}
      BY <1>1, ReplayEmpty, EmptyWindow DEF PendingNow, PendingOf
    <2>2. BatchesOf(PendingNow) = {}
      BY <2>1 DEF BatchesOf
    <2>3. accepts \in [Batches -> 0 .. 2] /\ \A b \in Batches : accepts[b] = 0
      BY <1>1
    <2> QED
      BY <2>2, <2>3 DEF KeysKept
  <1>5. FirstOfKey
    BY <1>1 DEF FirstOfKey, Accepting
  <1> QED
    BY <1>2, <1>3, <1>4, <1>5 DEF KInv, Keyed

\* The steps without an I/O error keep the keys.
LEMMA KeyedWorking ==
    ASSUME NoEvictions, Sound, Keyed, Working
    PROVE  Keyed'
  <1>1. CASE Open
    BY <1>1, KeyedOpen
  <1>2. CASE AcceptSynced
    BY <1>2, KeyedAcceptSynced
  <1>3. CASE Enqueued
    BY <1>3, KeyedEnqueued
  <1>4. CASE EnqueueRefused
    BY <1>4, KeyedEnqueueRefused
  <1>5. CASE AbortSynced
    BY <1>5, KeyedAbortSynced
  <1>6. ASSUME NEW b \in Batches, AcceptDuplicate(b) PROVE Keyed'
    <2>1. UNCHANGED <<wal, onDisk, snapshot, pending, order, pc, job, accepts>>
      BY <1>6 DEF AcceptDuplicate, disk, memory
    <2> QED
      BY <2>1, KeyedUntouched
  <1>7. ASSUME NEW b \in Batches, AcceptWrites(b) PROVE Keyed'
    BY <1>7, KeyedAcceptWrites
  <1>8. ASSUME NEW S \in SUBSET inflight, Persist(S) PROVE Keyed'
    <2>1. UNCHANGED <<wal, onDisk, snapshot, pending, order, pc, job, accepts>>
      BY <1>8 DEF Persist, disk, memory
    <2> QED
      BY <2>1, KeyedUntouched
  <1>9. CASE CommitWrites
    BY <1>9, KeyedCommitWrites
  <1>10. CASE CommitSynced
    BY <1>10, KeyedCommitSynced
  <1>11. CASE CompactSnapshot
    BY <1>11, KeyedCompactSnapshot
  <1>12. CASE CompactReplace
    BY <1>12, KeyedCompactReplace
  <1> QED
    BY <1>1, <1>2, <1>3, <1>4, <1>5, <1>6, <1>7, <1>8, <1>9, <1>10, <1>11, <1>12, Zenon DEF Working

\* With room for every key, the stronger invariant is inductive too.
LEMMA KInvStep == NoEvictions /\ KInv /\ [Next]_vars => KInv'
  <1> SUFFICES ASSUME NoEvictions, KInv, [Next]_vars PROVE KInv'
    OBVIOUS
  <1>1. IInv' /\ faults \in Nat /\ (Intact => Sound /\ Keyed)
    BY IInvStep DEF KInv, IInv
  <1>2. CASE Next
    <2>1. Intact' => Intact /\ (Working \/ (Crash /\ ~torn'))
      BY <1>1, <1>2, IntactBefore
    <2>2. Sound /\ Keyed /\ Working => Keyed'
      BY KeyedWorking
    <2>3. Sound /\ Keyed /\ Crash /\ ~torn' => Keyed'
      BY KeyedCrash
    <2> QED
      BY <1>1, <2>1, <2>2, <2>3 DEF KInv
  <1>3. CASE UNCHANGED vars
    <2>1. UNCHANGED <<wal, onDisk, snapshot, pending, order, pc, job, accepts>>
      BY <1>3 DEF vars, disk, memory, history, outcome
    <2>2. Keyed => Keyed'
      BY <2>1, KeyedUntouched
    <2>3. Intact' => Intact
      BY <1>3, SoundStutter
    <2> QED
      BY <1>1, <2>2, <2>3 DEF KInv
  <1> QED
    BY <1>2, <1>3

\* Between operations the files replay to what is in memory.
LEMMA FilesAreMemory ==
    ASSUME NoEvictions, Sound, Keyed, pc \in {"ready", "compacting", "snapshotted"}
    PROVE  /\ Replay(snapshot, wal).pending = pending
           /\ Range(Replay(snapshot, wal).order) = Range(order)
  <1>1. wal \in Seq(CleanLines) /\ snapshot \in Windows
    BY DEF Sound, Tables
  <1>2. Replay(snapshot, wal) = ReplayLines(Reload(snapshot), wal) /\ Replay(snapshot, wal).pending = PendingOf(wal)
    BY <1>1, ReplayOfClean
  <1>3. pending = PendingOf(wal)
    BY AllSynced
  <1>4. KeysFrom(Reload(snapshot), wal) = Range(order)
    BY KeysOfLog
  <1> QED
    BY <1>2, <1>3, <1>4 DEF KeysFrom

INSTANCE FiniteSetTheorems

\* dedupe_max_entries is at least the number of keys in use.
WindowSuffices == IsFiniteSet(Batches \ Keyless) /\ Cardinality(Batches \ Keyless) <= MaxEntries

\* DedupeState::remember then never evicts a key.
LEMMA RoomForAll == WindowSuffices => NoEvictions
  <1> SUFFICES ASSUME WindowSuffices, NEW keys \in Windows, NEW b \in Batches \ Keyless
               PROVE  MaxEntries # 0 /\ ~Evicts(keys, b)
    BY DEF NoEvictions
  <1> DEFINE K == Batches \ Keyless
             T == K \ {b}
             n == Len(keys)
  <1>1. IsFiniteSet(K) /\ Cardinality(K) <= MaxEntries /\ MaxEntries \in Nat /\ b \in K
    BY AcceptanceAssumption DEF WindowSuffices
  <1>2. Cardinality(K) \in Nat /\ IsFiniteSet(T) /\ Cardinality(T) = Cardinality(K) - 1 /\ Cardinality(T) \in Nat
    <2> HIDE DEF K
    <2>1. Cardinality(K) \in Nat
      BY <1>1, FS_CardinalityType
    <2>2. IsFiniteSet(T) /\ Cardinality(T) = Cardinality(K) - 1
      BY <1>1, FS_RemoveElement, Zenon
    <2>3. Cardinality(T) \in Nat
      BY <2>2, FS_CardinalityType
    <2> QED
      BY <2>1, <2>2, <2>3
  <1>3. MaxEntries # 0
    <2> HIDE DEF K, T
    <2> QED
      BY <1>1, <1>2
  <1>4. ASSUME Evicts(keys, b) PROVE FALSE
    <2>1. n = MaxEntries /\ \A i \in DOMAIN keys : keys[i] # b
      BY <1>4 DEF Evicts, Range
    <2>2. keys \in [1 .. n -> K] /\ n \in Nat /\ \A i, j \in DOMAIN keys : keys[i] = keys[j] => i = j
      BY DEF Windows
    <2>3. keys \in [1 .. n -> T] /\ IsInjective(keys)
      BY <2>1, <2>2 DEF IsInjective
    <2>4. keys \in Injection(1 .. n, T)
      BY <2>3 DEF Injection
    <2> HIDE DEF K, T, n
    <2>5. Cardinality(1 .. n) <= Cardinality(T)
      BY <1>2, <2>4, FS_Injection
    <2>6. Cardinality(1 .. n) = n
      BY <2>2, FS_Interval
    <2> QED
      BY <1>1, <1>2, <2>1, <2>2, <2>5, <2>6
  <1> QED
    BY <1>3, <1>4

\* A restart changes nothing: for any batches, compaction threshold and crashes,
\* DurableAcceptance::open finds in the snapshot and the log the acceptances and
\* the keys that were in memory, between operations and while compact_locked has
\* replaced the snapshot and not the log, when dedupe_max_entries has room for
\* every key.
THEOREM RestartsAreTransparent == WindowSuffices => (Spec => []RestartTransparent)
  <1>1. Init => KInv
    BY KeyedInit
  <1>2. NoEvictions /\ KInv /\ [Next]_vars => KInv'
    BY KInvStep
  <1>3. NoEvictions /\ KInv => RestartTransparent
    BY FilesAreMemory DEF KInv, IInv, RestartTransparent
  <1>4. WindowSuffices => NoEvictions
    BY RoomForAll
  <1>5. NoEvictions => NoEvictions'
    BY DEF NoEvictions
  <1> QED
    BY <1>1, <1>2, <1>3, <1>4, <1>5, PTL DEF Spec

\* A key enters the queue once: however often a client resends a batch and
\* wherever the process dies, DurableAcceptance::accept hands a batch with a
\* batch_id to the queue at most once, when dedupe_max_entries has room for every
\* key, as long as no I/O error happened and no crash tore a line.
THEOREM EnqueuedOnce == WindowSuffices => (Spec => []AcceptedOnce)
  <1>1. Init => KInv
    BY KeyedInit
  <1>2. NoEvictions /\ KInv /\ [Next]_vars => KInv'
    BY KInvStep
  <1>3. KInv => AcceptedOnce
    BY DEF KInv, Keyed, KeysKept, AcceptedOnce
  <1>4. WindowSuffices => NoEvictions
    BY RoomForAll
  <1>5. NoEvictions => NoEvictions'
    BY DEF NoEvictions
  <1> QED
    BY <1>1, <1>2, <1>3, <1>4, <1>5, PTL DEF Spec

=============================================================================
