-------------------------- MODULE ArgInput_proofs --------------------------
(***************************************************************************)
(* The command line, for all messages and texts: what split makes of a     *)
(* message, and what the options do.                                       *)
(***************************************************************************)
EXTENDS ArgInput, LoopLemmas, FiniteSetTheorems

-----------------------------------------------------------------------------
(* Sequences of sequences, put one after the other *)

Running(f, s, T) ==
    /\ f \in [0 .. Len(s) -> Seq(T)] /\ f[0] = <<>>
    /\ \A n \in 1 .. Len(s) : f[n] = f[n - 1] \o s[n]

LEMMA RunningExists ==
    ASSUME NEW T, NEW s \in Seq(Seq(T))
    PROVE  \E f : Running(f, s, T)
<1>. DEFINE N == Len(s)
            step == [a \in (1 .. N) \X Seq(T) |-> a[2] \o s[a[1]]]
<1>1. N \in Nat /\ \A n \in 1 .. N : s[n] \in Seq(T)
  BY LenProperties
<1>2. <<>> \in Seq(T)
  OBVIOUS
<1>3. step \in [(1 .. N) \X Seq(T) -> Seq(T)]
  BY <1>1, ConcatProperties
<1>4. \A n \in 1 .. N, v \in Seq(T) : step[<<n, v>>] = v \o s[n]
  OBVIOUS
<1>. HIDE DEF step, N
<1>5. PICK f \in [0 .. N -> Seq(T)] : Recursion(f, N, <<>>, step)
  BY <1>1, <1>2, <1>3, RecursionExists
<1>6. /\ f[0] = <<>>
      /\ \A n \in 1 .. N : f[n] = f[n - 1] \o s[n]
  <2>1. \A n \in 0 .. N : f[n] = IF n = 0 THEN <<>> ELSE step[<<n, f[n - 1]>>]
    BY <1>5 DEF Recursion
  <2>2. \A n \in 1 .. N : n \in 0 .. N /\ n # 0 /\ n - 1 \in 0 .. N
    BY <1>1
  <2>3. 0 \in 0 .. N
    BY <1>1
  <2>. QED
    BY <1>4, <1>5, <2>1, <2>2, <2>3
<1>. QED
  BY <1>5, <1>6 DEF Running, N

\* Sequences that begin alike begin alike when they are flattened.
LEMMA RunningAgrees ==
    ASSUME NEW T, NEW s \in Seq(Seq(T)), NEW t \in Seq(Seq(T)),
           NEW f, NEW g, Running(f, s, T), Running(g, t, T),
           NEW n \in Nat, n <= Len(s), n <= Len(t), \A k \in 1 .. n : s[k] = t[k]
    PROVE  f[n] = g[n]
<1>. DEFINE U == {k \in 0 .. n : f[k] = g[k]}
<1>1. 0 \in U
  BY DEF Running
<1>2. ASSUME NEW k \in 0 .. n - 1, k \in U PROVE k + 1 \in U
  <2>1. Len(s) \in Nat /\ Len(t) \in Nat
    BY LenProperties
  <2>2. k + 1 \in 1 .. n /\ k + 1 \in 1 .. Len(s) /\ k + 1 \in 1 .. Len(t) /\ (k + 1) - 1 = k
    BY <2>1
  <2>3. f[k + 1] = f[k] \o s[k + 1] /\ g[k + 1] = g[k] \o t[k + 1]
    BY <2>2 DEF Running
  <2>4. f[k] = g[k] /\ s[k + 1] = t[k + 1] /\ k + 1 \in 0 .. n
    BY <1>2, <2>2
  <2>. QED
    BY <2>3, <2>4
<1>3. 0 .. n \subseteq U
  <2>. HIDE DEF U
  <2>. QED
    BY <1>1, <1>2, InductionUpTo
<1>4. n \in 0 .. n
  OBVIOUS
<1>. QED
  BY <1>3, <1>4

LEMMA FlattenIsLast ==
    ASSUME NEW T, NEW s \in Seq(Seq(T)), NEW f, Running(f, s, T)
    PROVE  FlattenSeq(s) = f[Len(s)]
<1>. DEFINE N == Len(s)
            Is(h) == h = [k \in 1 .. N |-> IF k = 1 THEN s[k] ELSE h[k - 1] \o s[k]]
            flatten == CHOOSE h : Is(h)
<1>1. N \in Nat /\ \A n \in 1 .. N : s[n] \in Seq(T)
  BY LenProperties
<1>2. FlattenSeq(s) = IF N = 0 THEN s ELSE flatten[N]
  BY DEF FlattenSeq
<1>3. CASE N = 0
  <2>1. s = <<>>
    BY <1>3, EmptySeq
  <2>. QED
    BY <1>2, <1>3, <2>1 DEF Running
<1>4. CASE N # 0
  <2>1. /\ f \in [0 .. N -> Seq(T)] /\ f[0] = <<>>
        /\ \A n \in 1 .. N : f[n] = f[n - 1] \o s[n]
    BY DEF Running
  <2>. DEFINE h == [k \in 1 .. N |-> f[k]]
  <2>. HIDE DEF N
  <2>2. f[1] = s[1]
    <3>1. 1 \in 1 .. N /\ 1 - 1 = 0
      BY <1>1, <1>4
    <3>2. f[1] = <<>> \o s[1] /\ s[1] \in Seq(T)
      BY <1>1, <2>1, <3>1
    <3>. QED
      BY <3>2, ConcatEmptySeq
  <2>3. \A k \in 1 .. N : k # 1 => k - 1 \in 1 .. N
    BY <1>1
  <2>4. \A k \in 1 .. N : h[k] = IF k = 1 THEN s[k] ELSE h[k - 1] \o s[k]
    BY <2>1, <2>2, <2>3
  <2>5. h = [k \in 1 .. N |-> IF k = 1 THEN s[k] ELSE h[k - 1] \o s[k]]
    BY <2>4
  <2>. HIDE DEF h
  <2>6. Is(flatten)
    BY <2>5
  <2>. HIDE DEF flatten
  <2>7. \A k \in 1 .. N : flatten[k] = IF k = 1 THEN s[k] ELSE flatten[k - 1] \o s[k]
    BY <2>6
  <2>. DEFINE U == {k \in 0 .. N : k # 0 => flatten[k] = f[k]}
  <2>8. 0 \in U
    BY <1>1
  <2>9. ASSUME NEW k \in 0 .. N - 1, k \in U PROVE k + 1 \in U
    <3>1. k + 1 \in 1 .. N /\ k + 1 \in 0 .. N /\ (k + 1) - 1 = k
      BY <1>1
    <3>2. CASE k = 0
      BY <2>2, <2>7, <3>1, <3>2
    <3>3. CASE k # 0
      <4>1. k + 1 # 1 /\ flatten[k] = f[k]
        BY <2>9, <3>3
      <4>2. flatten[k + 1] = flatten[k] \o s[k + 1] /\ f[k + 1] = f[k] \o s[k + 1]
        BY <2>1, <2>7, <3>1, <4>1
      <4>. QED
        BY <3>1, <4>1, <4>2
    <3>. QED
      BY <3>2, <3>3
  <2>10. 0 .. N \subseteq U
    <3>. HIDE DEF U
    <3>. QED
      BY <1>1, <2>8, <2>9, InductionUpTo
  <2>11. N \in 0 .. N
    BY <1>1
  <2>12. flatten[N] = f[N]
    BY <1>4, <2>10, <2>11
  <2>. QED
    BY <1>2, <1>4, <2>12 DEF N
<1>. QED
  BY <1>3, <1>4
LEMMA FlattenSubSeq ==
    ASSUME NEW T, NEW s \in Seq(Seq(T)), NEW f, Running(f, s, T), NEW g \in 0 .. Len(s)
    PROVE  FlattenSeq(SubSeq(s, 1, g)) = f[g]
<1>. DEFINE t == SubSeq(s, 1, g)
<1>1. t \in Seq(Seq(T)) /\ Len(t) = g /\ \A k \in 1 .. g : t[k] = s[k]
  <2>1. Len(s) \in Nat
    BY LenProperties
  <2>2. g \in Nat /\ 1 .. g \subseteq 1 .. Len(s)
    BY <2>1
  <2>3. \A k \in 1 .. g : s[k] \in Seq(T)
    BY <2>2, LenProperties
  <2>. QED
    BY <2>1, <2>2, <2>3, SubSeqProperties
<1>2. g \in Nat /\ g <= Len(s)
  BY LenProperties
<1>. HIDE DEF t
<1>3. PICK h : Running(h, t, T)
  BY <1>1, RunningExists, Zenon
<1>4. h[g] = f[g]
  BY <1>1, <1>2, <1>3, RunningAgrees
<1>5. FlattenSeq(t) = h[g]
  BY <1>1, <1>3, FlattenIsLast
<1>. QED
  BY <1>4, <1>5 DEF t

\* Where the members of s start when it is flattened
Starts(s) == {1 + Len(FlattenSeq(SubSeq(s, 1, g))) : g \in 0 .. Len(s) - 1}

LEMMA StartsRunning ==
    ASSUME NEW T, NEW s \in Seq(Seq(T)), NEW f, Running(f, s, T)
    PROVE  Starts(s) = {1 + Len(f[g]) : g \in 0 .. Len(s) - 1}
<1>1. \A g \in 0 .. Len(s) - 1 : g \in 0 .. Len(s)
  BY LenProperties
<1>2. \A g \in 0 .. Len(s) - 1 : FlattenSeq(SubSeq(s, 1, g)) = f[g]
  BY <1>1, FlattenSubSeq
<1>. QED
  BY <1>2 DEF Starts

LEMMA FlattenEmpty == ASSUME NEW T PROVE FlattenSeq(<<>>) = <<>> /\ Starts(<<>>) = {}
<1>1. FlattenSeq(<<>>) = <<>>
  BY DEF FlattenSeq
<1>2. 0 .. Len(<<>>) - 1 = {}
  OBVIOUS
<1>. QED
  BY <1>1, <1>2 DEF Starts

\* A member more at the end
LEMMA FlattenAppend ==
    ASSUME NEW T, NEW s \in Seq(Seq(T)), NEW x \in Seq(T)
    PROVE  /\ FlattenSeq(s) \in Seq(T)
           /\ FlattenSeq(Append(s, x)) = FlattenSeq(s) \o x
           /\ Starts(Append(s, x)) = Starts(s) \cup {1 + Len(FlattenSeq(s))}
<1>. DEFINE t == Append(s, x)  n == Len(s)
<1>1. /\ n \in Nat /\ t \in Seq(Seq(T)) /\ Len(t) = n + 1 /\ t[n + 1] = x
      /\ \A k \in 1 .. n : t[k] = s[k]
  BY LenProperties, AppendProperties
<1>. HIDE DEF t, n
<1>2. PICK f : Running(f, s, T)
  BY RunningExists, Zenon
<1>3. PICK h : Running(h, t, T)
  BY <1>1, RunningExists, Zenon
<1>4. ASSUME NEW g \in 0 .. n PROVE h[g] = f[g]
  <2>1. g \in Nat /\ g <= Len(s) /\ g <= Len(t) /\ \A k \in 1 .. g : s[k] = t[k]
    BY <1>1 DEF n
  <2>. QED
    BY <1>1, <1>2, <1>3, <2>1, RunningAgrees
<1>5. FlattenSeq(s) = f[n] /\ FlattenSeq(t) = h[n + 1]
  BY <1>1, <1>2, <1>3, FlattenIsLast DEF n
<1>6. h[n + 1] = h[n] \o x
  <2>1. n + 1 \in 1 .. Len(t) /\ (n + 1) - 1 = n
    BY <1>1
  <2>. QED
    BY <1>1, <1>3, <2>1 DEF Running
<1>7. f[n] \in Seq(T) /\ h[n] = f[n]
  <2>1. n \in 0 .. n /\ n \in 0 .. Len(s)
    BY <1>1 DEF n
  <2>. QED
    BY <1>2, <1>4, <2>1 DEF Running
<1>8. Starts(t) = Starts(s) \cup {1 + Len(FlattenSeq(s))}
  <2>1. Starts(t) = {1 + Len(h[g]) : g \in 0 .. n}
    <3>1. Starts(t) = {1 + Len(h[g]) : g \in 0 .. Len(t) - 1}
      BY <1>1, <1>3, StartsRunning
    <3>2. Len(t) - 1 = n
      BY <1>1
    <3>. QED
      BY <3>1, <3>2
  <2>2. Starts(s) = {1 + Len(f[g]) : g \in 0 .. n - 1}
    BY <1>2, StartsRunning DEF n
  <2>3. 0 .. n = (0 .. n - 1) \cup {n}
    BY <1>1
  <2>4. \A g \in 0 .. n : h[g] = f[g]
    BY <1>4
  <2>5. {1 + Len(h[g]) : g \in 0 .. n} = {1 + Len(f[g]) : g \in 0 .. n}
    BY <2>4
  <2>. QED
    BY <1>5, <2>1, <2>2, <2>3, <2>5
<1>. QED
  BY <1>5, <1>6, <1>7, <1>8 DEF t

\* Something more at the end of the last member
Joins(t, s, v) == t = [s EXCEPT ![Len(s)] = Append(@, v)]

LEMMA FlattenJoin ==
    ASSUME NEW T, NEW s \in Seq(Seq(T)), s # <<>>, NEW v \in T,
           NEW t, Joins(t, s, v)
    PROVE  FlattenSeq(t) = Append(FlattenSeq(s), v) /\ Starts(t) = Starts(s)
<1>. DEFINE n == Len(s)  x == Append(s[n], v)
<1>0. t = [s EXCEPT ![n] = x]
  BY DEF Joins
<1>1. n \in Nat /\ n # 0 /\ DOMAIN s = 1 .. n
  BY LenProperties, EmptySeq
<1>2. n \in 1 .. n /\ s[n] \in Seq(T)
  BY <1>1, LenProperties
<1>3. x \in Seq(T)
  BY <1>2, AppendProperties
<1>. HIDE DEF x, n
<1>4. t \in Seq(Seq(T)) /\ Len(t) = n /\ t[n] = x /\ \A k \in 1 .. n : k # n => t[k] = s[k]
  <2>1. t \in Seq(Seq(T)) /\ Len(t) = Len(s)
    BY <1>0, <1>2, <1>3, ExceptSeq DEF n
  <2>. QED
    BY <1>0, <1>1, <1>2, <2>1 DEF n
<1>5. PICK f : Running(f, s, T)
  BY RunningExists, Zenon
<1>6. PICK h : Running(h, t, T)
  BY <1>4, RunningExists, Zenon
<1>7. ASSUME NEW g \in 0 .. n - 1 PROVE h[g] = f[g]
  <2>1. g \in Nat /\ g <= Len(s) /\ g <= Len(t) /\ \A k \in 1 .. g : s[k] = t[k]
    <3>1. g \in Nat /\ g < n /\ \A k \in 1 .. g : k \in 1 .. n /\ k # n
      BY <1>1
    <3>2. g <= n
      BY <1>1, <3>1
    <3>3. \A k \in 1 .. g : s[k] = t[k]
      BY <1>4, <3>1
    <3>. QED
      BY <1>4, <3>1, <3>2, <3>3 DEF n
  <2>. QED
    BY <1>4, <1>5, <1>6, <2>1, RunningAgrees
<1>8. FlattenSeq(s) = f[n] /\ FlattenSeq(t) = h[n]
  BY <1>4, <1>5, <1>6, FlattenIsLast DEF n
<1>9. f[n] = f[n - 1] \o s[n] /\ h[n] = h[n - 1] \o x
  BY <1>2, <1>4, <1>5, <1>6 DEF Running, n
<1>10. f[n - 1] \in Seq(T) /\ h[n - 1] = f[n - 1]
  <2>1. n - 1 \in 0 .. n - 1 /\ n - 1 \in 0 .. Len(s)
    BY <1>1 DEF n
  <2>. QED
    BY <1>5, <1>7, <2>1 DEF Running
<1>11. h[n] = Append(f[n], v)
  <2>. DEFINE a == f[n - 1]  b == s[n]
  <2>1. a \in Seq(T) /\ b \in Seq(T)
    BY <1>2, <1>10
  <2>. HIDE DEF a, b
  <2>2. a \o Append(b, v) = Append(a \o b, v)
    BY <2>1
  <2>. QED
    BY <1>9, <1>10, <2>2 DEF a, b, x
<1>12. Starts(t) = Starts(s)
  <2>1. Starts(t) = {1 + Len(h[g]) : g \in 0 .. n - 1}
    BY <1>4, <1>6, StartsRunning
  <2>2. Starts(s) = {1 + Len(f[g]) : g \in 0 .. n - 1}
    BY <1>5, StartsRunning DEF n
  <2>3. \A g \in 0 .. n - 1 : h[g] = f[g]
    BY <1>7
  <2>. QED
    BY <2>1, <2>2, <2>3
<1>. QED
  BY <1>8, <1>11, <1>12
-----------------------------------------------------------------------------
(* split *)

SplitState == [lw : BOOLEAN, out : Seq(Words)]

LEMMA OpenStep ==
    ASSUME NEW ws \in Seq(RawWord)
    PROVE  /\ ~OpenAfter(ws, 0)
           /\ \A n \in 1 .. Len(ws) : OpenAfter(ws, n) <=>
                (IF Odd(ws[n]) THEN ~OpenAfter(ws, n - 1) ELSE OpenAfter(ws, n - 1))
<1>. DEFINE odd(k) == {j \in 1 .. k : ws[j].quotes % 2 = 1}
<1>1. ~OpenAfter(ws, 0)
  <2>1. odd(0) = {}
    OBVIOUS
  <2>. HIDE DEF odd
  <2>2. Cardinality(odd(0)) = 0
    BY <2>1, FS_EmptySet
  <2>3. 0 % 2 # 1
    OBVIOUS
  <2>. QED
    BY <2>2, <2>3 DEF OpenAfter, odd
<1>2. ASSUME NEW n \in 1 .. Len(ws)
      PROVE  OpenAfter(ws, n) <=>
                (IF Odd(ws[n]) THEN ~OpenAfter(ws, n - 1) ELSE OpenAfter(ws, n - 1))
  <2>. DEFINE A == odd(n - 1)  B == odd(n)  a == Cardinality(A)  b == Cardinality(B)
  <2>1. n \in Nat \ {0}
    BY LenProperties
  <2>2. IsFiniteSet(A)
    <3>1. IsFiniteSet(1 .. n - 1)
      BY <2>1, FS_Interval
    <3>. QED
      BY <3>1, FS_Subset
  <2>3. 1 .. n = (1 .. n - 1) \cup {n} /\ n \notin 1 .. n - 1
    BY <2>1
  <2>4. n \notin A /\ B = IF Odd(ws[n]) THEN A \cup {n} ELSE A
    BY <2>3 DEF Odd
  <2>5. (OpenAfter(ws, n) <=> b % 2 = 1) /\ (OpenAfter(ws, n - 1) <=> a % 2 = 1)
    BY DEF OpenAfter
  <2>. HIDE DEF A, B
  <2>6. a \in Nat /\ b = IF Odd(ws[n]) THEN a + 1 ELSE a
    <3>1. Cardinality(A \cup {n}) = Cardinality(A) + 1
      BY <2>2, <2>4, FS_AddElement
    <3>2. Cardinality(A) \in Nat
      BY <2>2, FS_CardinalityType
    <3>. QED
      BY <2>4, <3>1, <3>2
  <2>. HIDE DEF a, b
  <2>7. \A x \in Nat : (x + 1) % 2 = 1 <=> ~(x % 2 = 1)
    OBVIOUS
  <2>. QED
    BY <2>5, <2>6, <2>7
<1>. QED
  BY <1>1, <1>2

LEMMA SplitWordTyped ==
    ASSUME NEW s \in SplitState, NEW w \in RawWord
    PROVE  SplitWord(s, w) \in SplitState
<1>1. w.text \in Texts /\ s.out \in Seq(Words) /\ s.lw \in BOOLEAN
  BY DEF SplitState, RawWord
<1>2. <<w.text>> \in Words
  BY <1>1 DEF Words
<1>3. Append(s.out, <<w.text>>) \in Seq(Words)
  BY <1>1, <1>2, AppendProperties
<1>4. [s.out EXCEPT ![Len(s.out)] = Append(@, w.text)] \in Seq(Words)
  <2>. DEFINE o == s.out  n == Len(o)
  <2>1. n \in Nat /\ DOMAIN o = 1 .. n /\ o \in Seq(Words)
    BY <1>1, LenProperties
  <2>. HIDE DEF o
  <2>2. CASE n = 0
    <3>1. n \notin DOMAIN o
      BY <2>1, <2>2
    <3>2. [o EXCEPT ![n] = Append(@, w.text)] = o
      BY <2>1, <3>1
    <3>. QED
      BY <2>1, <3>2 DEF o
  <2>3. CASE n # 0
    <3>1. n \in 1 .. n
      BY <2>1, <2>3
    <3>2. o[n] \in Seq(Texts)
      BY <2>1, <3>1 DEF Words
    <3>3. Append(o[n], w.text) \in Words
      BY <1>1, <3>2, AppendProperties DEF Words
    <3>. HIDE DEF n
    <3>4. [o EXCEPT ![n] = Append(o[n], w.text)] \in Seq(Words)
      BY <2>1, <3>1, <3>3, ExceptSeq DEF n
    <3>. QED
      BY <3>4 DEF o, n
  <2>. QED
    BY <2>1, <2>2, <2>3
<1>. HIDE DEF Words
<1>. QED
  BY <1>1, <1>3, <1>4 DEF SplitWord, SplitState

\* What split has made of the first words
SplitUpTo(f, ws) ==
    /\ f \in [0 .. Len(ws) -> SplitState]
    /\ f[0] = [lw |-> FALSE, out |-> <<>>]
    /\ \A n \in 1 .. Len(ws) : f[n] = SplitWord(f[n - 1], ws[n])

LEMMA SplitIsLast ==
    ASSUME NEW ws \in Seq(RawWord)
    PROVE  \E f : SplitUpTo(f, ws) /\ split(ws) = f[Len(ws)]
<1>. DEFINE N == Len(ws)  first == [lw |-> FALSE, out |-> <<>>]
            step == [a \in (1 .. N) \X SplitState |-> SplitWord(a[2], ws[a[1]])]
            Is(h) == h = [n \in 0 .. N |-> IF n = 0 THEN first ELSE SplitWord(h[n - 1], ws[n])]
            after == CHOOSE h : Is(h)
<1>1. N \in Nat /\ \A n \in 1 .. N : ws[n] \in RawWord
  BY LenProperties
<1>2. first \in SplitState
  BY DEF SplitState
<1>3. step \in [(1 .. N) \X SplitState -> SplitState]
  BY <1>1, SplitWordTyped
<1>4. \A n \in 1 .. N, v \in SplitState : step[<<n, v>>] = SplitWord(v, ws[n])
  OBVIOUS
<1>5. split(ws) = after[N]
  BY DEF split
<1>. HIDE DEF N, first, step
<1>6. PICK f \in [0 .. N -> SplitState] : Recursion(f, N, first, step)
  BY <1>1, <1>2, <1>3, RecursionExists
<1>7. Is(f)
  <2>1. \A n \in 1 .. N : n - 1 \in 0 .. N
    BY <1>1
  <2>2. f = [n \in 0 .. N |-> IF n = 0 THEN first ELSE step[<<n, f[n - 1]>>]]
    BY <1>6 DEF Recursion
  <2>3. \A n \in 0 .. N : n # 0 => n \in 1 .. N
    BY <1>1
  <2>4. \A n \in 0 .. N : n # 0 => step[<<n, f[n - 1]>>] = SplitWord(f[n - 1], ws[n])
    BY <1>4, <1>6, <2>1, <2>3
  <2>. QED
    BY <2>2, <2>4
<1>8. Is(after)
  BY <1>7
<1>. HIDE DEF after
<1>9. /\ \A n \in 0 .. N : after[n] = IF n = 0 THEN first ELSE SplitWord(after[n - 1], ws[n])
      /\ DOMAIN after = 0 .. N /\ after = [n \in 0 .. N |-> after[n]]
  BY <1>8
<1>10. \A n \in 1 .. N : n \in 0 .. N /\ n # 0 /\ n - 1 \in 0 .. N
  BY <1>1
<1>11. after[0] = first /\ \A n \in 1 .. N : after[n] = SplitWord(after[n - 1], ws[n])
  <2>1. 0 \in 0 .. N
    BY <1>1
  <2>. QED
    BY <1>9, <1>10, <2>1
<1>. DEFINE U == {n \in 0 .. N : after[n] \in SplitState}
<1>12. 0 \in U
  BY <1>1, <1>2, <1>11
<1>13. ASSUME NEW n \in 0 .. N - 1, n \in U PROVE n + 1 \in U
  <2>1. n + 1 \in 1 .. N /\ (n + 1) - 1 = n /\ n + 1 \in 0 .. N
    BY <1>1
  <2>2. after[n] \in SplitState
    BY <1>13
  <2>3. after[n + 1] = SplitWord(after[n], ws[n + 1])
    BY <1>11, <2>1
  <2>. QED
    BY <1>1, <2>1, <2>2, <2>3, SplitWordTyped
<1>14. 0 .. N \subseteq U
  <2>. HIDE DEF U
  <2>. QED
    BY <1>1, <1>12, <1>13, InductionUpTo
<1>15. SplitUpTo(after, ws)
  BY <1>9, <1>11, <1>14 DEF SplitUpTo, N, first
<1>. QED
  BY <1>5, <1>15 DEF N
\* What split is to have made of the first n words
SplitDone(s, ws, n) ==
    /\ s.lw <=> OpenAfter(ws, n)
    /\ s.lw => s.out # <<>>
    /\ FlattenSeq(s.out) = [j \in 1 .. n |-> ws[j].text]
    /\ Starts(s.out) = {j \in 1 .. n : ~OpenAfter(ws, j - 1)}

LEMMA OutIsSeq == ASSUME NEW s \in SplitState PROVE s.out \in Seq(Seq(Texts))
<1>1. s.out \in Seq(Words)
  BY DEF SplitState
<1>2. Words \subseteq Seq(Texts)
  BY DEF Words
<1>. HIDE DEF Words
<1>. QED
  BY <1>1, <1>2, SeqMonotonic

LEMMA SplitStep ==
    ASSUME NEW ws \in Seq(RawWord), NEW n \in 1 .. Len(ws), NEW s \in SplitState,
           SplitDone(s, ws, n - 1)
    PROVE  SplitDone(SplitWord(s, ws[n]), ws, n)
<1>. DEFINE w == ws[n]  t == SplitWord(s, w)  texts(k) == [j \in 1 .. k |-> ws[j].text]
            starts(k) == {j \in 1 .. k : ~OpenAfter(ws, j - 1)}
<1>1. n \in Nat \ {0} /\ w \in RawWord
  BY LenProperties
<1>2. s.out \in Seq(Seq(Texts)) /\ s.lw \in BOOLEAN /\ w.text \in Texts
  BY <1>1, OutIsSeq DEF SplitState, RawWord
<1>3. /\ s.lw <=> OpenAfter(ws, n - 1)
      /\ s.lw => s.out # <<>>
      /\ FlattenSeq(s.out) = texts(n - 1) /\ Starts(s.out) = starts(n - 1)
  BY DEF SplitDone
<1>4. OpenAfter(ws, n) <=> (IF Odd(w) THEN ~OpenAfter(ws, n - 1) ELSE OpenAfter(ws, n - 1))
  BY OpenStep
<1>5. t.lw <=> OpenAfter(ws, n)
  <2>1. t.lw = IF Odd(w) THEN ~s.lw ELSE s.lw
    BY DEF SplitWord
  <2>. HIDE DEF t, w
  <2>. QED
    BY <1>3, <1>4, <2>1
<1>6. 1 .. n = (1 .. n - 1) \cup {n} /\ n \notin 1 .. n - 1 /\ n - 1 \in Nat
  BY <1>1
<1>7. \A j \in 1 .. n : ws[j].text \in Texts
  <2>1. \A j \in 1 .. n : j \in 1 .. Len(ws)
    BY LenProperties
  <2>2. \A j \in 1 .. Len(ws) : ws[j] \in RawWord
    BY LenProperties
  <2>. QED
    BY <2>1, <2>2 DEF RawWord
<1>8. texts(n - 1) \in Seq(Texts) /\ Len(texts(n - 1)) = n - 1
      /\ texts(n) = Append(texts(n - 1), w.text)
  <2>. DEFINE m == n - 1
  <2>1. m \in Nat /\ n = m + 1 /\ \A j \in 1 .. m : ws[j].text \in Texts
    BY <1>6, <1>7
  <2>. HIDE DEF m
  <2>2. texts(m) \in Seq(Texts) /\ Len(texts(m)) = m
    BY <2>1
  <2>3. Append(texts(m), w.text) = texts(m + 1)
    <3>1. /\ Append(texts(m), w.text) \in Seq(Texts)
          /\ Len(Append(texts(m), w.text)) = m + 1
          /\ \A j \in 1 .. m : Append(texts(m), w.text)[j] = texts(m)[j]
          /\ Append(texts(m), w.text)[m + 1] = w.text
      <4>. DEFINE a == texts(m)  v == w.text
      <4>1. a \in Seq(Texts) /\ v \in Texts /\ Len(a) = m
        BY <1>2, <2>2
      <4>. HIDE DEF a, v
      <4>2. /\ Append(a, v) \in Seq(Texts)
            /\ Len(Append(a, v)) = m + 1
            /\ \A j \in 1 .. m : Append(a, v)[j] = a[j]
            /\ Append(a, v)[m + 1] = v
        BY <4>1, AppendProperties
      <4>. QED
        BY <4>2 DEF a, v
    <3>2. texts(m + 1) \in Seq(Texts) /\ Len(texts(m + 1)) = m + 1
      BY <1>7, <2>1
    <3>3. \A j \in 1 .. m + 1 : Append(texts(m), w.text)[j] = texts(m + 1)[j]
      <4>1. \A j \in 1 .. m + 1 : j \in 1 .. m \/ j = m + 1
        BY <2>1
      <4>2. \A j \in 1 .. m : texts(m + 1)[j] = texts(m)[j]
        BY <2>1
      <4>3. texts(m + 1)[m + 1] = w.text
        BY <2>1
      <4>. HIDE DEF texts, w
      <4>. QED
        BY <3>1, <4>1, <4>2, <4>3
    <3>. HIDE DEF texts, w
    <3>. QED
      BY <3>1, <3>2, <3>3, SeqEqual
  <2>. QED
    BY <2>1, <2>2, <2>3 DEF m
<1>9. starts(n) = IF OpenAfter(ws, n - 1) THEN starts(n - 1) ELSE starts(n - 1) \cup {n}
  BY <1>6
<1>. HIDE DEF texts, starts
<1>10. CASE s.lw
  <2>1. t.out = [s.out EXCEPT ![Len(s.out)] = Append(@, w.text)]
    BY <1>10 DEF SplitWord
  <2>2. FlattenSeq(t.out) = Append(FlattenSeq(s.out), w.text) /\ Starts(t.out) = Starts(s.out)
    <3>. DEFINE o == s.out  v == w.text
    <3>1. o \in Seq(Seq(Texts)) /\ o # <<>> /\ v \in Texts
      BY <1>2, <1>3, <1>10
    <3>2. t.out = [o EXCEPT ![Len(o)] = Append(@, v)]
      BY <2>1
    <3>. DEFINE u == t.out
    <3>3. Joins(u, o, v)
      BY <3>2 DEF Joins
    <3>. HIDE DEF o, v, u
    <3>4. FlattenSeq(u) = Append(FlattenSeq(o), v) /\ Starts(u) = Starts(o)
      BY <3>1, <3>3, FlattenJoin
    <3>. QED
      BY <3>4 DEF o, v, u
  <2>3. FlattenSeq(t.out) = texts(n) /\ Starts(t.out) = starts(n)
    BY <1>3, <1>8, <1>9, <1>10, <2>2
  <2>4. t.out # <<>>
    <3>1. FlattenSeq(s.out) \in Seq(Texts)
      BY <1>3, <1>8
    <3>2. FlattenSeq(t.out) # <<>>
      BY <1>2, <2>2, <3>1, AppendProperties
    <3>. QED
      BY <3>2, FlattenEmpty
  <2>. QED
    BY <1>5, <2>3, <2>4 DEF SplitDone, texts, starts
<1>11. CASE ~s.lw
  <2>1. t.out = Append(s.out, <<w.text>>)
    BY <1>11 DEF SplitWord
  <2>2. <<w.text>> \in Seq(Texts)
    BY <1>2
  <2>3. /\ FlattenSeq(t.out) = FlattenSeq(s.out) \o <<w.text>>
        /\ Starts(t.out) = Starts(s.out) \cup {1 + Len(FlattenSeq(s.out))}
    <3>. DEFINE o == s.out  x == <<w.text>>
    <3>1. o \in Seq(Seq(Texts)) /\ x \in Seq(Texts) /\ t.out = Append(o, x)
      BY <1>2, <2>1, <2>2
    <3>. HIDE DEF o, x, t
    <3>2. FlattenSeq(Append(o, x)) = FlattenSeq(o) \o x
          /\ Starts(Append(o, x)) = Starts(o) \cup {1 + Len(FlattenSeq(o))}
      BY <3>1, FlattenAppend
    <3>. QED
      BY <3>1, <3>2 DEF o, x
  <2>4. FlattenSeq(t.out) = texts(n)
    <3>1. texts(n - 1) \o <<w.text>> = Append(texts(n - 1), w.text)
      BY <1>2, <1>8, AppendIsConcat
    <3>. QED
      BY <1>3, <1>8, <2>3, <3>1
  <2>5. Starts(t.out) = starts(n)
    <3>1. 1 + Len(FlattenSeq(s.out)) = n
      BY <1>1, <1>3, <1>8
    <3>. QED
      BY <1>3, <1>9, <1>11, <2>3, <3>1
  <2>6. t.out # <<>>
    <3>. DEFINE o == s.out  x == <<w.text>>
    <3>1. o \in Seq(Seq(Texts)) /\ x \in Seq(Texts) /\ t.out = Append(o, x)
      BY <1>2, <2>1, <2>2
    <3>. HIDE DEF o, x, t
    <3>. QED
      BY <3>1, AppendProperties
  <2>. QED
    BY <1>5, <2>4, <2>5, <2>6 DEF SplitDone, texts, starts
<1>. QED
  BY <1>10, <1>11, <1>2

\* split is right for every message.
LEMMA SplitExact ==
    ASSUME NEW ws \in Seq(RawWord)
    PROVE  /\ split(ws) \in SplitState /\ SplitDone(split(ws), ws, Len(ws))
           /\ ws # <<>> => split(ws).out # <<>>
<1>1. PICK f : SplitUpTo(f, ws) /\ split(ws) = f[Len(ws)]
  BY SplitIsLast, Zenon
<1>2. Len(ws) \in Nat
  BY LenProperties
<1>. DEFINE N == Len(ws)  T == {n \in 0 .. N : SplitDone(f[n], ws, n)}
<1>3. 0 \in T
  <2>1. f[0] = [lw |-> FALSE, out |-> <<>>]
    BY <1>1 DEF SplitUpTo
  <2>2. ~OpenAfter(ws, 0)
    BY OpenStep
  <2>3. FlattenSeq(<<>>) = <<>> /\ Starts(<<>>) = {}
    BY FlattenEmpty
  <2>4. 1 .. 0 = {} /\ 0 \in 0 .. N
    BY <1>2
  <2>5. [j \in 1 .. 0 |-> ws[j].text] = <<>>
    OBVIOUS
  <2>6. {j \in 1 .. 0 : ~OpenAfter(ws, j - 1)} = {}
    BY <2>4
  <2>7. SplitDone(f[0], ws, 0)
    BY <2>1, <2>2, <2>3, <2>5, <2>6 DEF SplitDone
  <2>. QED
    BY <2>4, <2>7
<1>4. ASSUME NEW n \in 0 .. N - 1, n \in T PROVE n + 1 \in T
  <2>1. n + 1 \in 1 .. Len(ws) /\ (n + 1) - 1 = n /\ n + 1 \in 0 .. N
    BY <1>2
  <2>2. f[n] \in SplitState /\ f[n + 1] = SplitWord(f[n], ws[n + 1])
    BY <1>1, <2>1 DEF SplitUpTo
  <2>3. SplitDone(f[n], ws, (n + 1) - 1)
    BY <1>4, <2>1
  <2>4. SplitDone(SplitWord(f[n], ws[n + 1]), ws, n + 1)
    BY <2>1, <2>2, <2>3, SplitStep
  <2>. QED
    BY <2>1, <2>2, <2>4
<1>5. 0 .. N \subseteq T
  <2>. HIDE DEF T
  <2>. QED
    BY <1>2, <1>3, <1>4, InductionUpTo
<1>6. N \in 0 .. N
  BY <1>2
<1>7. SplitDone(split(ws), ws, Len(ws)) /\ split(ws) \in SplitState
  BY <1>1, <1>5, <1>6 DEF SplitUpTo
<1>8. ASSUME ws # <<>>, split(ws).out = <<>> PROVE FALSE
  <2>1. [j \in 1 .. Len(ws) |-> ws[j].text] = <<>>
    BY <1>7, <1>8, FlattenEmpty DEF SplitDone
  <2>2. Len(ws) # 0
    BY <1>8, EmptySeq
  <2>3. 1 \in DOMAIN [j \in 1 .. Len(ws) |-> ws[j].text] /\ 1 \notin DOMAIN <<>>
    BY <1>2, <2>2
  <2>. QED
    BY <2>1, <2>3
<1>. QED
  BY <1>7, <1>8
-----------------------------------------------------------------------------
(* The members of an argInput and the options that set them *)

MemberNames == {"block", "data", "height", "tick", "length", "width", "accuracy",
                "radius", "path", "shape", "direction", "type"}

LEMMA KindsAre ==
    /\ DOMAIN Kinds = MemberNames
    /\ Kinds["block"] = Words \cup {<<"iron_block">>} /\ Kinds["data"] = 0 .. ShortMod - 1
    /\ Kinds["height"] = -(IntMax + 1) .. IntMax /\ Kinds["tick"] = 0 .. UIntMod - 1
    /\ Kinds["length"] = Reals \cup {"2"} /\ Kinds["width"] = Reals \cup {"2"}
    /\ Kinds["accuracy"] = Reals \cup {"50"}
    /\ Kinds["radius"] = Reals \cup {NotSet} /\ Kinds["path"] = Words \cup {NotSet}
    /\ Kinds["shape"] = Words \cup {<<"hollow">>}
    /\ Kinds["direction"] = Texts \cup {"y", "", " "}
    /\ Kinds["type"] = Words \cup {<<"getpos">>, <<"dwrote">>}
BY DEF Kinds, MemberNames

LEMMA MembersAre ==
    /\ Options = {"-f", "-s", "-z", "-t", "-w", "-l", "-h", "-b", "-bd", "-r", "-a"}
    /\ Member["-f"] = "direction" /\ Member["-s"] = "shape" /\ Member["-z"] = "path"
    /\ Member["-t"] = "tick" /\ Member["-w"] = "width" /\ Member["-l"] = "length"
    /\ Member["-h"] = "height" /\ Member["-b"] = "block" /\ Member["-bd"] = "data"
    /\ Member["-r"] = "radius" /\ Member["-a"] = "accuracy"
BY DEF Member, Options

\* Every option has a member of its own.
LEMMA MembersApart ==
    /\ \A o \in Options : Member[o] \in MemberNames \ {"type"}
    /\ \A o, p \in Options : Member[o] = Member[p] => o = p
    /\ \A o \in Options : Member[o] = "block" => o = "-b"
    /\ \A o \in Options : Member[o] = "data" => o = "-bd"
BY MembersAre DEF MemberNames

LEMMA NumbersTyped ==
    /\ \A x \in Int : x % ShortMod \in 0 .. ShortMod - 1 /\ x % UIntMod \in 0 .. UIntMod - 1
    /\ 1 \in -(IntMax + 1) .. IntMax /\ 15000 \in 0 .. UIntMod - 1 /\ 0 \in 0 .. ShortMod - 1
<1>1. /\ IntMax \in Nat /\ ShortMod \in 1 .. IntMax /\ UIntMod = 2 * (IntMax + 1)
      /\ 15000 < UIntMod
  BY ArgInputAssumption DEF ArgInputAssumption
<1>2. ShortMod \in Nat \ {0} /\ UIntMod \in Nat \ {0} /\ IntMax >= 1
  BY <1>1
<1>3. \A n \in Nat \ {0} : \A x \in Int : x % n \in 0 .. n - 1
  OBVIOUS
<1>4. \A x \in Int : x % ShortMod \in 0 .. ShortMod - 1 /\ x % UIntMod \in 0 .. UIntMod - 1
  BY <1>2, <1>3
<1>. QED
  BY <1>1, <1>2, <1>4

LEMMA IntInTyped ==
    ASSUME NEW w, IsInt(w)
    PROVE  IntIn(w) \in -(IntMax + 1) .. IntMax /\ IntIn(w) \in Int
<1>1. First(w) \in Texts /\ IntOf[First(w)] # NoNumber
  BY DEF IsInt
<1>2. /\ IntMax \in Nat
      /\ IntOf \in [Texts -> -(IntMax + 1) .. IntMax \cup {NoNumber}]
  BY ArgInputAssumption DEF ArgInputAssumption
<1>3. IntOf[First(w)] \in -(IntMax + 1) .. IntMax
  BY <1>1, <1>2
<1>. QED
  BY <1>2, <1>3 DEF IntIn

\* What an option stores is a value of its member.
LEMMA ConversionTyped ==
    ASSUME NEW o \in Options, NEW w \in Words, Converts(o, w)
    PROVE  Conversion(o, w) \in Kinds[Member[o]]
<1>1. CASE o = "-t"
  <2>1. IsInt(w) /\ Conversion(o, w) = IntIn(w) % UIntMod
    BY <1>1 DEF Converts, Conversion
  <2>2. IntIn(w) % UIntMod \in 0 .. UIntMod - 1
    <3>1. IntIn(w) \in Int
      BY <2>1, IntInTyped
    <3>. QED
      BY <3>1, NumbersTyped
  <2>3. Kinds[Member[o]] = 0 .. UIntMod - 1
    BY <1>1, KindsAre, MembersAre
  <2>. QED
    BY <2>1, <2>2, <2>3
<1>2. CASE o = "-bd"
  <2>1. IsInt(w) /\ Conversion(o, w) = IntIn(w) % ShortMod
    BY <1>2 DEF Converts, Conversion
  <2>2. IntIn(w) % ShortMod \in 0 .. ShortMod - 1
    <3>1. IntIn(w) \in Int
      BY <2>1, IntInTyped
    <3>. QED
      BY <3>1, NumbersTyped
  <2>3. Kinds[Member[o]] = 0 .. ShortMod - 1
    BY <1>2, KindsAre, MembersAre
  <2>. QED
    BY <2>1, <2>2, <2>3
<1>3. CASE o = "-h"
  <2>1. IsInt(w) /\ Conversion(o, w) = IntIn(w)
    BY <1>3 DEF Converts, Conversion
  <2>2. IntIn(w) \in -(IntMax + 1) .. IntMax
    BY <2>1, IntInTyped
  <2>3. Kinds[Member[o]] = -(IntMax + 1) .. IntMax
    BY <1>3, KindsAre, MembersAre
  <2>. QED
    BY <2>1, <2>2, <2>3
<1>4. CASE o \in {"-w", "-l", "-r", "-a"}
  <2>1. IsReal(w) /\ Conversion(o, w) = First(w)
    BY <1>4 DEF Converts, Conversion
  <2>2. First(w) \in Reals
    BY <2>1 DEF IsReal
  <2>3. Member[o] \in {"width", "length", "radius", "accuracy"}
    BY <1>4, MembersAre
  <2>4. \A n \in {"width", "length", "radius", "accuracy"} : Reals \subseteq Kinds[n]
    BY KindsAre
  <2>. QED
    BY <2>1, <2>2, <2>3, <2>4
<1>5. CASE o = "-f"
  <2>1. Conversion(o, w) = Initial(w)
    BY <1>5 DEF Conversion
  <2>2. w \in Seq(Texts) /\ w # <<>>
    BY DEF Words
  <2>3. w[1] \in Texts
    BY <2>2, EmptySeq, LenProperties
  <2>4. CharOf[w[1]] \in Texts
    BY <2>3, ArgInputAssumption DEF ArgInputAssumption
  <2>5. Initial(w) \in Texts \cup {"", " "}
    BY <2>4 DEF Initial
  <2>. QED
    BY <1>5, <2>1, <2>5, KindsAre, MembersAre
<1>6. CASE o \in {"-s", "-z", "-b"}
  <2>1. Conversion(o, w) = w
    BY <1>6 DEF Conversion
  <2>2. Member[o] \in {"shape", "path", "block"}
    BY <1>6, MembersAre
  <2>3. \A n \in {"shape", "path", "block"} : Words \subseteq Kinds[n]
    BY KindsAre
  <2>. QED
    BY <2>1, <2>2, <2>3
<1>. QED
  BY <1>1, <1>2, <1>3, <1>4, <1>5, <1>6, MembersAre

\* The defaults; type is set with the words.
LEMMA DefaultsTyped ==
    ASSUME NEW r \in [block : Kinds["block"], data : Kinds["data"]]
    PROVE  /\ DOMAIN Defaults(r) = MemberNames
           /\ \A m \in MemberNames \ {"type"} : Defaults(r)[m] \in Kinds[m]
<1>. DEFINE a == Defaults(r)
<1>1. /\ DOMAIN a = MemberNames
      /\ a["block"] = r.block /\ a["data"] = r.data /\ a["height"] = 1 /\ a["length"] = "2"
      /\ a["width"] = "2" /\ a["accuracy"] = "50" /\ a["radius"] = NotSet
      /\ a["shape"] = <<"hollow">> /\ a["direction"] = "y" /\ a["tick"] = 15000
      /\ a["path"] = NotSet /\ a["type"] = NotSet
  BY DEF Defaults, MemberNames
<1>. HIDE DEF a
<1>3. \A m \in MemberNames \ {"type"} : a[m] \in Kinds[m]
  <2>1. a["height"] \in Kinds["height"] /\ a["tick"] \in Kinds["tick"]
    <3>1. Kinds["height"] = -(IntMax + 1) .. IntMax /\ Kinds["tick"] = 0 .. UIntMod - 1
      BY KindsAre
    <3>. QED
      BY <1>1, <3>1, NumbersTyped
  <2>2. /\ a["block"] \in Kinds["block"] /\ a["data"] \in Kinds["data"] /\ a["length"] \in Kinds["length"]
        /\ a["width"] \in Kinds["width"] /\ a["accuracy"] \in Kinds["accuracy"]
    <3>1. /\ Kinds["length"] = Reals \cup {"2"} /\ Kinds["width"] = Reals \cup {"2"}
          /\ Kinds["accuracy"] = Reals \cup {"50"}
      BY KindsAre
    <3>. QED
      BY <1>1, <3>1
  <2>3. /\ a["radius"] \in Kinds["radius"] /\ a["shape"] \in Kinds["shape"]
        /\ a["direction"] \in Kinds["direction"] /\ a["path"] \in Kinds["path"]
    <3>1. Kinds["radius"] = Reals \cup {NotSet} /\ Kinds["path"] = Words \cup {NotSet}
      BY KindsAre
    <3>2. a["radius"] \in Kinds["radius"] /\ a["path"] \in Kinds["path"]
      <4>1. a["radius"] = NotSet /\ a["path"] = NotSet
        BY <1>1
      <4>. QED
        BY <3>1, <4>1
    <3>3. Kinds["shape"] = Words \cup {<<"hollow">>}
      BY KindsAre
    <3>4. a["shape"] \in Kinds["shape"]
      <4>1. a["shape"] = <<"hollow">>
        BY <1>1
      <4>. QED
        BY <3>3, <4>1, Zenon
    <3>5. a["direction"] \in Kinds["direction"]
      <4>1. a["direction"] = "y"
        BY <1>1
      <4>2. Kinds["direction"] = Texts \cup {"y", "", " "}
        BY KindsAre
      <4>. QED
        BY <4>1, <4>2
    <3>. QED
      BY <3>2, <3>4, <3>5
  <2>. QED
    BY <2>1, <2>2, <2>3, Zenon DEF MemberNames
<1>. QED
  BY <1>1, <1>3 DEF a
-----------------------------------------------------------------------------
(* Which words are read as options *)

\* The words before j that no option of the row before j stands before
Before(ws, j) == {k \in 1 .. j - 1 : k = 1 \/ ~IsOption(ws[k])}

LEMMA ReachedByMax ==
    ASSUME NEW ws, NEW j \in Nat, j >= 2
    PROVE  /\ Max(Before(ws, j)) \in 1 .. j - 1
           /\ Max(Before(ws, j)) \in Before(ws, j)
           /\ \A k \in Before(ws, j) : k <= Max(Before(ws, j))
           /\ Reached(ws, j) <=> (j - Max(Before(ws, j))) % 2 = 1
<1>1. Before(ws, j) \in SUBSET (0 .. j) /\ 1 \in Before(ws, j)
  BY DEF Before
<1>2. Before(ws, j) \subseteq 1 .. j - 1
  BY DEF Before
<1>3. /\ Max(Before(ws, j)) \in Before(ws, j)
      /\ \A k \in Before(ws, j) : k <= Max(Before(ws, j))
  BY <1>1, MaxOf
<1>4. Reached(ws, j) <=> (j - Max(Before(ws, j))) % 2 = 1
  BY DEF Reached, Before
<1>. QED
  BY <1>2, <1>3, <1>4

\* The word after n is read as an option, if it is one, unless n is one and read so.
LEMMA ReachedStep ==
    ASSUME NEW ws, NEW n \in Nat, n >= 2
    PROVE  Reached(ws, n + 1) <=> (IsOption(ws[n]) => ~Reached(ws, n))
<1>. DEFINE m == Max(Before(ws, n))  m1 == Max(Before(ws, n + 1))
<1>1. /\ m \in 1 .. n - 1 /\ m \in Before(ws, n) /\ \A k \in Before(ws, n) : k <= m
      /\ Reached(ws, n) <=> (n - m) % 2 = 1
  BY ReachedByMax
<1>2. /\ m1 \in 1 .. (n + 1) - 1 /\ m1 \in Before(ws, n + 1)
      /\ \A k \in Before(ws, n + 1) : k <= m1
      /\ Reached(ws, n + 1) <=> (n + 1 - m1) % 2 = 1
  <2>1. n + 1 \in Nat /\ n + 1 >= 2
    OBVIOUS
  <2>. QED
    BY <2>1, ReachedByMax
<1>3. CASE ~IsOption(ws[n])
  <2>1. n \in Before(ws, n + 1)
    BY <1>3 DEF Before
  <2>2. m1 = n
    <3>. HIDE DEF m1
    <3>. QED
      BY <2>1, <1>2
  <2>3. (n + 1 - n) % 2 = 1
    OBVIOUS
  <2>. QED
    BY <1>2, <1>3, <2>2, <2>3
<1>4. CASE IsOption(ws[n])
  <2>1. Before(ws, n + 1) = Before(ws, n)
    BY <1>4 DEF Before
  <2>2. m1 = m
    BY <2>1
  <2>3. \A d \in Nat : (d + 1) % 2 = 1 <=> ~(d % 2 = 1)
    OBVIOUS
  <2>4. n - m \in Nat /\ (n - m) + 1 = n + 1 - m
    <3>. HIDE DEF m
    <3>. QED
      BY <1>1
  <2>5. (n + 1 - m) % 2 = 1 <=> ~((n - m) % 2 = 1)
    <3>. HIDE DEF m
    <3>. QED
      BY <2>3, <2>4
  <2>. QED
    BY <1>1, <1>2, <1>4, <2>2, <2>5
<1>. QED
  BY <1>3, <1>4

LEMMA OptionWord ==
    ASSUME NEW w \in Words
    PROVE  /\ IsOption(w) => w[1] \in Options /\ w = <<w[1]>>
           /\ \A o \in Options : w = <<o>> => IsOption(w) /\ w[1] = o
<1>1. w \in Seq(Texts)
  BY DEF Words
<1>2. ASSUME IsOption(w) PROVE w[1] \in Options /\ w = <<w[1]>>
  <2>1. Len(w) = 1 /\ w[1] \in Options
    BY <1>2 DEF IsOption
  <2>2. w = <<w[1]>>
    BY <1>1, <2>1
  <2>. QED
    BY <2>1, <2>2
<1>3. ASSUME NEW o \in Options, w = <<o>> PROVE IsOption(w) /\ w[1] = o
  <2>1. Len(<<o>>) = 1 /\ <<o>>[1] = o
    OBVIOUS
  <2>. QED
    BY <1>3, <2>1, Zenon DEF IsOption
<1>. QED
  BY <1>2, <1>3

\* Where option o has been read before word n
Taken(ws, n, o) == {j \in 2 .. Len(ws) - 1 : j < n /\ ws[j] = <<o>> /\ Reached(ws, j)}

\* The members say what the words before n do.
Takes(a, r, ws, n) == \A o \in Options :
    IF Taken(ws, n, o) # {} THEN a[Member[o]] = Conversion(o, ws[Max(Taken(ws, n, o)) + 1])
    ELSE a[Member[o]] = Defaults(r)[Member[o]]

LEMMA TakenOption ==
    ASSUME NEW ws \in Seq(Words), NEW n \in Nat, n >= 2, n + 1 <= Len(ws), Reached(ws, n),
           IsOption(ws[n]), NEW o \in Options
    PROVE  Taken(ws, n + 2, o) = IF o = ws[n][1] THEN Taken(ws, n, o) \cup {n} ELSE Taken(ws, n, o)
<1>1. Len(ws) \in Nat /\ \A j \in 1 .. Len(ws) : ws[j] \in Words
  BY LenProperties
<1>2. n \in 1 .. Len(ws) /\ n \in 2 .. Len(ws) - 1
  BY <1>1
<1>3. ws[n] = <<o>> <=> o = ws[n][1]
  BY <1>1, <1>2, OptionWord, Zenon
<1>4. ~Reached(ws, n + 1)
  BY ReachedStep
<1>5. \A j \in 2 .. Len(ws) - 1 : j < n + 2 <=> j < n \/ j = n \/ j = n + 1
  BY <1>1
<1>. QED
  BY <1>2, <1>3, <1>4, <1>5 DEF Taken

LEMMA TakenSkip ==
    ASSUME NEW ws \in Seq(Words), NEW n \in Nat, n >= 2, n <= Len(ws),
           ~IsOption(ws[n]), NEW o \in Options
    PROVE  Taken(ws, n + 1, o) = Taken(ws, n, o)
<1>1. Len(ws) \in Nat /\ \A j \in 1 .. Len(ws) : ws[j] \in Words
  BY LenProperties
<1>2. n \in 1 .. Len(ws)
  BY <1>1
<1>3. ws[n] # <<o>>
  BY <1>1, <1>2, OptionWord, Zenon
<1>4. \A j \in 2 .. Len(ws) - 1 : j < n + 1 <=> j < n \/ j = n
  BY <1>1
<1>. QED
  BY <1>3, <1>4 DEF Taken

\* Once the loop has come to the last word, it has read all options.
LEMMA TakenAll ==
    ASSUME NEW ws \in Seq(Words), NEW n \in Nat, n >= Len(ws), NEW o
    PROVE  /\ Taken(ws, n, o) = Taken(ws, Len(ws), o)
           /\ Taken(ws, n, o) = {j \in 2 .. Len(ws) - 1 : ws[j] = <<o>> /\ Reached(ws, j)}
<1>1. Len(ws) \in Nat
  BY LenProperties
<1>2. \A j \in 2 .. Len(ws) - 1 : j < n /\ j < Len(ws)
  BY <1>1
<1>. QED
  BY <1>2 DEF Taken

LEMMA TakesOption ==
    ASSUME NEW ws \in Seq(Words), NEW n \in Nat, n >= 2, n + 1 <= Len(ws), Reached(ws, n),
           IsOption(ws[n]), NEW a, DOMAIN a = MemberNames,
           NEW r, Takes(a, r, ws, n)
    PROVE  Takes([a EXCEPT ![Member[ws[n][1]]] = Conversion(ws[n][1], ws[n + 1])], r, ws, n + 2)
<1>1. Len(ws) \in Nat /\ \A j \in 1 .. Len(ws) : ws[j] \in Words
  BY LenProperties
<1>. DEFINE p == ws[n][1]  c == Conversion(p, ws[n + 1])  b == [a EXCEPT ![Member[p]] = c]
<1>2. p \in Options
  <2>1. n \in 1 .. Len(ws)
    BY <1>1
  <2>. QED
    BY <1>1, <2>1, OptionWord
<1>3. ASSUME NEW o \in Options
      PROVE  Taken(ws, n + 2, o) = IF o = p THEN Taken(ws, n, o) \cup {n} ELSE Taken(ws, n, o)
  BY TakenOption
<1>. HIDE DEF p, c
<1>4. /\ Member[p] \in MemberNames
      /\ \A o \in Options : o # p => Member[o] # Member[p]
  BY <1>2, MembersApart
<1>5. b[Member[p]] = c /\ \A o \in Options : o # p => b[Member[o]] = a[Member[o]]
  <2>1. \A o \in Options : Member[o] \in MemberNames
    BY MembersApart
  <2>. QED
    BY <1>4, <2>1
<1>. HIDE DEF b
<1>6. ASSUME NEW o \in Options
      PROVE  IF Taken(ws, n + 2, o) # {}
             THEN b[Member[o]] = Conversion(o, ws[Max(Taken(ws, n + 2, o)) + 1])
             ELSE b[Member[o]] = Defaults(r)[Member[o]]
  <2>1. CASE o = p
    <3>. DEFINE S == Taken(ws, n + 2, o)
    <3>1. S = Taken(ws, n, o) \cup {n}
      BY <1>3, <2>1
    <3>2. \A j \in Taken(ws, n, o) : j \in Nat /\ j < n
      BY <1>1 DEF Taken
    <3>. HIDE DEF S
    <3>3. S \in SUBSET (0 .. n) /\ S # {} /\ n \in S
      BY <3>1, <3>2
    <3>4. Max(S) \in S /\ \A y \in S : y <= Max(S)
      BY <3>3, MaxOf
    <3>5. Max(S) = n
      <4>1. \A m \in 0 .. n : n <= m => m = n
        OBVIOUS
      <4>2. Max(S) \in 0 .. n /\ n <= Max(S)
        BY <3>3, <3>4, Zenon
      <4>. QED
        BY <4>1, <4>2, Zenon
    <3>6. b[Member[o]] = Conversion(o, ws[Max(S) + 1])
      BY <2>1, <1>5, <3>5 DEF c
    <3>. QED
      BY <3>3, <3>6 DEF S
  <2>2. CASE o # p
    <3>1. Taken(ws, n + 2, o) = Taken(ws, n, o) /\ b[Member[o]] = a[Member[o]]
      BY <1>3, <1>5, <2>2
    <3>. QED
      BY <3>1, Zenon DEF Takes
  <2>. QED
    BY <2>1, <2>2
<1>7. Takes(b, r, ws, n + 2)
  BY <1>6, Zenon DEF Takes
<1>. QED
  BY <1>7 DEF b, p, c

\* At another place with the same words read, and members that no option sets changed
LEMMA TakesSame ==
    ASSUME NEW ws, NEW a, NEW b, NEW r, NEW n, NEW k, Takes(a, r, ws, n),
           \A o \in Options : Taken(ws, k, o) = Taken(ws, n, o),
           \A o \in Options : b[Member[o]] = a[Member[o]]
    PROVE  Takes(b, r, ws, k)
<1>1. ASSUME NEW o \in Options
      PROVE  IF Taken(ws, k, o) # {}
             THEN b[Member[o]] = Conversion(o, ws[Max(Taken(ws, k, o)) + 1])
             ELSE b[Member[o]] = Defaults(r)[Member[o]]
  <2>1. Taken(ws, k, o) = Taken(ws, n, o) /\ b[Member[o]] = a[Member[o]]
    OBVIOUS
  <2>2. IF Taken(ws, n, o) # {}
        THEN a[Member[o]] = Conversion(o, ws[Max(Taken(ws, n, o)) + 1])
        ELSE a[Member[o]] = Defaults(r)[Member[o]]
    BY DEF Takes
  <2>. QED
    BY <2>1, <2>2, Zenon
<1>. QED
  BY <1>1, Zenon DEF Takes
-----------------------------------------------------------------------------
(* The inductive invariant *)

Labels == {"idle", "head", "data", "first", "next", "cut", "save", "join", "loop", "built",
           "done"}
Early == {"idle", "head", "data", "first"}
Special == {<<"getpos">>, <<"dwrote">>, <<"get">>, <<"let">>}

\* With n words so far, all its own, thread t stands at p in strtok.
Follows(p, st, ct, cl, r, ws, t) == LET n == Len(r) IN
    /\ n <= Len(ws) /\ \A j \in 1 .. n : r[j] = ws[j]
    /\ ct \subseteq 1 .. IF p = "save" THEN n + 1 ELSE n
    /\ p = "next" => st = [of |-> t, next |-> n + 1]
    /\ p # "next" =>
          cl = [of |-> t, word |-> n + 1, after |-> IF n < Len(ws) THEN n + 2 ELSE n + 1]

\* Of the words r of thread t with message ws: it has its own first one once it has
\* any; one that is not mixed (of M) has those of its message up to where strtok
\* stands, and all of them when strtok has returned NULL.
Got(p, ws, st, ct, cl, r, M, t) ==
    /\ p \notin {"idle", "head", "done"} => ws # <<>>
    /\ p \in Early => r = <<>>
    /\ p \notin Early \cup {"done"} => r # <<>>
    /\ r # <<>> => r[1] = ws[1]
    /\ r # <<>> /\ p \notin Splitting => t \in M \/ r = ws
    /\ p \in Splitting => st \in [of : Threads, next : Nat \ {0}]
    /\ p \in {"cut", "save"} => cl \in [of : Threads, word : Nat \ {0}, after : Nat \ {0}]
    /\ p \in Splitting => t \in M \/ Follows(p, st, ct, cl, r, ws, t)

Gets(t) == Got(pc[t], cmd[t].words, strtok, cuts[t], call[t], raw[t], mixed, t)

TokenMaps ==
    /\ pc \in [Threads -> Labels] /\ cmd \in [Threads -> Message]
    /\ strtok \in [of : Places, next : Nat] /\ cuts \in [Threads -> SUBSET Nat]
    /\ call \in [Threads -> [of : Places, word : Nat, after : Nat]]
    /\ raw \in [Threads -> Seq(RawWord)] /\ mixed \subseteq Threads

Tokens == TokenMaps /\ \A t \in Threads : Gets(t)

\* What holds of a thread at p with words w from strtok, with r read from globalPos,
\* with words s of its command, index n, argInput a and reply y: s is what split
\* makes of w, the loop stands where an option may be read, and the members are as
\* the words before n say; a thread that was told of an open group has one.
Hold(p, w, r, s, n, a, y) ==
    /\ n <= Len(s) + 1
    /\ p = "data" => /\ r = [block |-> r.block, data |-> NotSet] /\ r.block \in Kinds["block"]
                     /\ a = Defaults(r)
    /\ p \notin {"idle", "head", "data", "done"} => r \in [block : Kinds["block"], data : Kinds["data"]]
    /\ p \in {"first", "join"} \cup Splitting => a = Defaults(r)
    /\ p \in {"loop", "built"} =>
          /\ DOMAIN a = MemberNames /\ \A m \in MemberNames : a[m] \in Kinds[m]
          /\ ~split(w).lw /\ s = split(w).out
    /\ p = "loop" => n >= 2 /\ Reached(s, n) /\ Takes(a, r, s, n)
    /\ p = "built" /\ a["type"] \notin Special => Takes(a, r, s, Len(s))
    /\ y = "Unterminated string." => split(w).lw
    /\ p # "done" => y = "none"

Maps ==
    /\ pc \in [Threads -> Labels] /\ DOMAIN raw = Threads /\ DOMAIN read = Threads
    /\ splited \in [Threads -> Seq(Words)] /\ i \in [Threads -> Nat]
    /\ DOMAIN arg = Threads /\ DOMAIN reply = Threads

IInv ==
    /\ gone \in BOOLEAN /\ busy \in BOOLEAN
    /\ globalPos \in [block : Kinds["block"], data : Kinds["data"]]
    /\ Maps
    /\ \A t \in Threads : Hold(pc[t], raw[t], read[t], splited[t], i[t], arg[t], reply[t])

\* How it goes on, one lemma for each way a thread moves
LEMMA HoldEnds ==
    ASSUME NEW p, NEW w, NEW d, NEW s, NEW n, NEW a, NEW y0, NEW y, Hold(p, w, d, s, n, a, y0),
           y # "Unterminated string."
    PROVE  Hold("done", w, d, s, n, a, y)
BY DEF Hold, Splitting

LEMMA HoldReceive ==
    ASSUME NEW w, NEW d, NEW s, NEW n, NEW a, NEW y, Hold("idle", w, d, s, n, a, y)
    PROVE  Hold("head", w, d, s, n, a, y)
BY DEF Hold, Splitting

LEMMA HoldReadBlock ==
    ASSUME NEW w, NEW d, NEW s, NEW n, NEW a, NEW y, Hold("head", w, d, s, n, a, y),
           NEW b \in Kinds["block"], NEW r, r = [block |-> b, data |-> NotSet]
    PROVE  Hold("data", w, r, s, n, Defaults(r), y)
<1>1. r = [block |-> r.block, data |-> NotSet] /\ r.block \in Kinds["block"]
  OBVIOUS
<1>. QED
  BY <1>1 DEF Hold, Splitting

LEMMA HoldReadData ==
    ASSUME NEW w, NEW d, NEW s, NEW n, NEW a, NEW y, Hold("data", w, d, s, n, a, y),
           NEW x \in Kinds["data"]
    PROVE  Hold("first", w, [d EXCEPT !.data = x], s, n, [a EXCEPT !["data"] = x], y)
<1>. DEFINE r == [d EXCEPT !.data = x]  b == [a EXCEPT !["data"] = x]
<1>1. /\ d = [block |-> d.block, data |-> NotSet] /\ d.block \in Kinds["block"]
      /\ a = Defaults(d) /\ n <= Len(s) + 1 /\ y = "none"
  BY DEF Hold
<1>2. r = [block |-> d.block, data |-> x]
  BY <1>1
<1>3. r \in [block : Kinds["block"], data : Kinds["data"]]
  BY <1>1, <1>2
<1>4. b = Defaults(r)
  <2>1. r.block = d.block /\ r.data = x
    BY <1>2
  <2>. HIDE DEF r
  <2>. QED
    BY <1>1, <2>1 DEF Defaults
<1>. HIDE DEF r, b
<1>5. Hold("first", w, r, s, n, b, y)
  BY <1>1, <1>3, <1>4 DEF Hold, Splitting
<1>. QED
  BY <1>5 DEF r, b

\* While strtok is called, only the words change.
LEMMA HoldWords ==
    ASSUME NEW p \in {"first"} \cup Splitting, NEW q \in {"join"} \cup Splitting,
           NEW w, NEW v, NEW d, NEW s, NEW n, NEW a, NEW y, Hold(p, w, d, s, n, a, y)
    PROVE  Hold(q, v, d, s, n, a, y)
BY DEF Hold, Splitting

LEMMA HoldOpen ==
    ASSUME NEW w, NEW d, NEW s, NEW n, NEW a, NEW y, Hold("join", w, d, s, n, a, y), split(w).lw
    PROVE  Hold("done", w, d, s, n, a, "Unterminated string.")
BY DEF Hold, Splitting

LEMMA HoldJoin ==
    ASSUME NEW w \in Seq(RawWord), w # <<>>, NEW d, NEW s, NEW n, NEW a, NEW y,
           Hold("join", w, d, s, n, a, y), ~split(w).lw
    PROVE  /\ split(w).out \in Seq(Words)
           /\ Hold("loop", w, d, split(w).out, 2, [a EXCEPT !["type"] = split(w).out[1]], y)
<1>. DEFINE v == split(w).out  b == [a EXCEPT !["type"] = v[1]]
<1>1. d \in [block : Kinds["block"], data : Kinds["data"]] /\ a = Defaults(d) /\ y = "none"
  BY DEF Hold
<1>2. v \in Seq(Words) /\ v # <<>>
  BY SplitExact DEF SplitState
<1>. HIDE DEF v
<1>3. v[1] \in Words /\ Len(v) >= 1 /\ Len(v) \in Nat
  BY <1>2, EmptySeq, LenProperties
<1>4. /\ DOMAIN a = MemberNames
      /\ \A m \in MemberNames \ {"type"} : a[m] \in Kinds[m]
  BY <1>1, DefaultsTyped, Zenon
<1>5. /\ DOMAIN b = MemberNames /\ b["type"] = v[1]
      /\ \A m \in MemberNames \ {"type"} : b[m] = a[m]
  BY <1>4 DEF MemberNames
<1>. HIDE DEF b
<1>6. \A m \in MemberNames : b[m] \in Kinds[m]
  <2>1. v[1] \in Kinds["type"]
    BY <1>3, KindsAre
  <2>. QED
    BY <1>4, <1>5, <2>1
<1>7. Reached(v, 2)
  <2>1. /\ Max(Before(v, 2)) \in 1 .. 2 - 1
        /\ Reached(v, 2) <=> (2 - Max(Before(v, 2))) % 2 = 1
    BY ReachedByMax
  <2>. QED
    BY <2>1
<1>8. Takes(b, d, v, 2)
  <2>1. \A o : Taken(v, 2, o) = {}
    BY DEF Taken
  <2>2. ASSUME NEW o \in Options PROVE b[Member[o]] = Defaults(d)[Member[o]]
    <3>1. Member[o] \in MemberNames \ {"type"}
      BY MembersApart
    <3>. QED
      BY <3>1, <1>1, <1>5
  <2>. QED
    BY <2>1, <2>2, Zenon DEF Takes
<1>9. Hold("loop", w, d, v, 2, b, y)
  BY <1>1, <1>3, <1>5, <1>6, <1>7, <1>8 DEF Hold, Splitting, v
<1>. QED
  BY <1>2, <1>9 DEF v, b

LEMMA HoldWrote ==
    ASSUME NEW w0, NEW d, NEW s, NEW n, NEW a, NEW y, Hold("loop", w0, d, s, n, a, y),
           NEW ty \in {<<"getpos">>, <<"dwrote">>}
    PROVE  Hold("built", w0, d, s, n, [a EXCEPT !["type"] = ty], y)
<1>. DEFINE b == [a EXCEPT !["type"] = ty]
<1>1. /\ DOMAIN a = MemberNames /\ \A m \in MemberNames : a[m] \in Kinds[m]
      /\ ~split(w0).lw /\ s = split(w0).out /\ n <= Len(s) + 1 /\ y = "none"
  BY DEF Hold, Splitting
<1>2. /\ DOMAIN b = MemberNames /\ b["type"] = ty
      /\ \A m \in MemberNames \ {"type"} : b[m] = a[m]
  BY <1>1 DEF MemberNames
<1>3. ty \in Kinds["type"] /\ ty \in Special
  BY KindsAre DEF Special
<1>. HIDE DEF b
<1>4. \A m \in MemberNames : b[m] \in Kinds[m]
  BY <1>1, <1>2, <1>3
<1>5. Hold("built", w0, d, s, n, b, y)
  BY <1>1, <1>2, <1>3, <1>4 DEF Hold, Splitting
<1>. QED
  BY <1>5 DEF b

LEMMA HoldOption ==
    ASSUME NEW w0, NEW d, NEW s \in Seq(Words), NEW n \in Nat, NEW a, NEW y,
           Hold("loop", w0, d, s, n, a, y), n + 1 <= Len(s), IsOption(s[n]),
           Converts(s[n][1], s[n + 1])
    PROVE  Hold("loop", w0, d, s, n + 2,
                [a EXCEPT ![Member[s[n][1]]] = Conversion(s[n][1], s[n + 1])], y)
<1>. DEFINE o == s[n][1]  w == s[n + 1]  b == [a EXCEPT ![Member[o]] = Conversion(o, w)]
<1>1. /\ DOMAIN a = MemberNames /\ \A m \in MemberNames : a[m] \in Kinds[m]
      /\ ~split(w0).lw /\ s = split(w0).out /\ y = "none"
      /\ n >= 2 /\ Reached(s, n) /\ Takes(a, d, s, n)
  BY DEF Hold, Splitting
<1>2. Len(s) \in Nat /\ n \in 1 .. Len(s) /\ n + 1 \in 1 .. Len(s)
  BY <1>1, LenProperties
<1>3. w \in Words /\ s[n] \in Words
  BY <1>2, LenProperties
<1>4. o \in Options
  BY <1>3, OptionWord
<1>5. Conversion(o, w) \in Kinds[Member[o]]
  <2>. HIDE DEF o, w
  <2>1. Converts(o, w)
    BY DEF o, w
  <2>. QED
    BY <1>3, <1>4, <2>1, ConversionTyped
<1>6. Takes(b, d, s, n + 2)
  BY <1>1, TakesOption
<1>. HIDE DEF o, w
<1>7. DOMAIN b = MemberNames /\ \A m \in MemberNames : b[m] \in Kinds[m]
  BY <1>1, <1>5
<1>8. Reached(s, n + 2)
  <2>1. ~Reached(s, n + 1)
    BY <1>1, ReachedStep
  <2>2. Reached(s, (n + 1) + 1)
    BY <1>1, <2>1, ReachedStep
  <2>. QED
    BY <2>2
<1>9. n + 2 <= Len(s) + 1 /\ n + 2 >= 2
  BY <1>2
<1>. HIDE DEF b
<1>10. Hold("loop", w0, d, s, n + 2, b, y)
  BY <1>1, <1>6, <1>7, <1>8, <1>9 DEF Hold, Splitting
<1>. QED
  BY <1>10 DEF b, o, w

LEMMA HoldNoOption ==
    ASSUME NEW w0, NEW d, NEW s \in Seq(Words), NEW n \in Nat, NEW a, NEW y,
           Hold("loop", w0, d, s, n, a, y), n + 1 <= Len(s), ~IsOption(s[n])
    PROVE  Hold("loop", w0, d, s, n + 1, a, y)
<1>1. n >= 2 /\ Reached(s, n) /\ Takes(a, d, s, n)
  BY DEF Hold, Splitting
<1>2. Len(s) \in Nat /\ n <= Len(s) /\ n + 1 <= Len(s) + 1 /\ n + 1 >= 2
  BY <1>1, LenProperties
<1>3. Reached(s, n + 1)
  BY <1>1, ReachedStep
<1>4. \A o \in Options : Taken(s, n + 1, o) = Taken(s, n, o)
  BY <1>1, <1>2, TakenSkip
<1>5. Takes(a, d, s, n + 1)
  BY <1>1, <1>4, TakesSame
<1>. QED
  BY <1>2, <1>3, <1>5 DEF Hold, Splitting

LEMMA HoldBreak ==
    ASSUME NEW w0, NEW d, NEW s \in Seq(Words), NEW n \in Nat, NEW a, NEW y,
           Hold("loop", w0, d, s, n, a, y), n >= Len(s)
    PROVE  Hold("built", w0, d, s, n, a, y)
<1>1. Takes(a, d, s, n)
  BY DEF Hold, Splitting
<1>2. \A o \in Options : Taken(s, Len(s), o) = Taken(s, n, o)
  BY TakenAll
<1>3. Takes(a, d, s, Len(s))
  BY <1>1, <1>2, TakesSame
<1>. QED
  BY <1>3 DEF Hold, Splitting
-----------------------------------------------------------------------------
(* The steps *)

Holds(t) == Hold(pc[t], raw[t], read[t], splited[t], i[t], arg[t], reply[t])

\* Only thread t moves.
Elsewhere(t) == \A u \in Threads \ {t} :
    /\ pc'[u] = pc[u] /\ raw'[u] = raw[u] /\ read'[u] = read[u] /\ splited'[u] = splited[u] /\ i'[u] = i[u]
    /\ arg'[u] = arg[u] /\ reply'[u] = reply[u]

Globals ==
    /\ gone \in BOOLEAN /\ busy \in BOOLEAN
    /\ globalPos \in [block : Kinds["block"], data : Kinds["data"]]

LEMMA Frame ==
    ASSUME IInv, NEW t \in Threads, Elsewhere(t), Globals', Maps', Holds(t)'
    PROVE  IInv'
<1>1. ASSUME NEW u \in Threads, u # t PROVE Holds(u)'
  <2>1. Holds(u)
    BY Zenon DEF IInv, Holds
  <2>2. /\ pc'[u] = pc[u] /\ raw'[u] = raw[u] /\ read'[u] = read[u] /\ splited'[u] = splited[u] /\ i'[u] = i[u]
        /\ arg'[u] = arg[u] /\ reply'[u] = reply[u]
    BY <1>1 DEF Elsewhere
  <2>. QED
    BY <2>1, <2>2, Zenon DEF Holds
<1>. QED
  BY <1>1, Zenon DEF IInv, Holds, Globals

\* A thread that stops with a reply, or with what it has
LEMMA EndsHolds ==
    ASSUME IInv, NEW t \in Threads, NEW p, NEW r, r # "Unterminated string.", Ends(t, p, r),
           gone' = gone, globalPos' = globalPos, busy' \in BOOLEAN,
           raw' = raw /\ read' = read, splited' = splited, i' = i, arg' = arg
    PROVE  IInv'
<1>1. /\ pc \in [Threads -> Labels] /\ DOMAIN reply = Threads
      /\ pc' = [pc EXCEPT ![t] = "done"] /\ reply' = [reply EXCEPT ![t] = r]
  BY DEF IInv, Maps, Ends, Step
<1>2. pc'[t] = "done" /\ reply'[t] = r /\ pc' \in [Threads -> Labels] /\ DOMAIN reply' = Threads
  BY <1>1 DEF Labels
<1>3. \A u \in Threads \ {t} : pc'[u] = pc[u] /\ reply'[u] = reply[u]
  BY <1>1
<1>4. Elsewhere(t)
  BY <1>3 DEF Elsewhere
<1>5. Maps' /\ Globals'
  BY <1>2 DEF IInv, Maps, Globals
<1>6. Hold("done", raw[t], read[t], splited[t], i[t], arg[t], r)
  <2>1. Hold(pc[t], raw[t], read[t], splited[t], i[t], arg[t], reply[t])
    BY Zenon DEF IInv
  <2>. QED
    BY <2>1, HoldEnds
<1>7. Holds(t)'
  BY <1>2, <1>6, Zenon DEF Holds
<1>. QED
  BY <1>4, <1>5, <1>7, Frame

\* A thread that goes to q, its index to n and its argInput to a
LEMMA MovesHold ==
    ASSUME IInv, NEW t \in Threads, NEW p, NEW q \in Labels, Step(t, p, q), Globals',
           raw' = raw /\ read' = read, reply' = reply, splited' = splited,
           NEW n \in Nat, i' = [i EXCEPT ![t] = n] \/ (i' = i /\ n = i[t]),
           NEW a, arg' = [arg EXCEPT ![t] = a] \/ (arg' = arg /\ a = arg[t]),
           Hold(q, raw[t], read[t], splited[t], n, a, reply[t])
    PROVE  IInv'
<1>1. /\ pc \in [Threads -> Labels] /\ i \in [Threads -> Nat] /\ DOMAIN arg = Threads
      /\ pc' = [pc EXCEPT ![t] = q]
  BY DEF IInv, Maps, Step
<1>2. /\ pc'[t] = q /\ pc' \in [Threads -> Labels]
      /\ \A u \in Threads \ {t} : pc'[u] = pc[u]
  BY <1>1
<1>3. i'[t] = n /\ i' \in [Threads -> Nat] /\ \A u \in Threads \ {t} : i'[u] = i[u]
  BY <1>1
<1>4. arg'[t] = a /\ DOMAIN arg' = Threads /\ \A u \in Threads \ {t} : arg'[u] = arg[u]
  BY <1>1
<1>5. Elsewhere(t)
  BY <1>2, <1>3, <1>4 DEF Elsewhere
<1>6. Maps'
  BY <1>2, <1>3, <1>4 DEF IInv, Maps
<1>7. Holds(t)'
  BY <1>2, <1>3, <1>4, Zenon DEF Holds
<1>. QED
  BY <1>5, <1>6, <1>7, Frame
\* No thread moves.
LEMMA SharedStep ==
    ASSUME IInv, gone' \in BOOLEAN, busy' \in BOOLEAN, globalPos' = globalPos,
           pc' = pc, raw' = raw /\ read' = read, splited' = splited, i' = i, arg' = arg, reply' = reply
    PROVE  IInv'
BY DEF IInv, Maps

\* What is known of a thread in the loop
LEMMA InLoop ==
    ASSUME IInv, NEW t \in Threads
    PROVE  /\ splited[t] \in Seq(Words) /\ i[t] \in Nat
           /\ Len(splited[t]) \in Nat /\ Holds(t) /\ Globals
           /\ pc[t] = "loop" => i[t] >= 2 /\ DOMAIN arg[t] = MemberNames /\ reply[t] = "none"
<1>1. splited[t] \in Seq(Words) /\ i[t] \in Nat /\ Globals
  BY DEF IInv, Maps, Globals
<1>2. Holds(t)
  BY Zenon DEF IInv, Holds
<1>3. pc[t] = "loop" => i[t] >= 2 /\ DOMAIN arg[t] = MemberNames /\ reply[t] = "none"
  BY <1>2 DEF Holds, Hold
<1>. QED
  BY <1>1, <1>2, <1>3, LenProperties

LEMMA ReceiveStep ==
    ASSUME IInv, NEW t \in Threads, NEW m \in Messages[t], Receive(t, m)
    PROVE  IInv'
<1>1. /\ Step(t, "idle", "head") /\ pc[t] = "idle"
      /\ gone' = gone /\ globalPos' = globalPos /\ busy' = busy /\ splited' = splited
      /\ i' = i /\ arg' = arg /\ reply' = reply /\ raw' = raw /\ read' = read
  BY DEF Receive, Step, shared, tokens
<1>2. Globals' /\ i[t] \in Nat /\ "head" \in Labels
  BY <1>1, InLoop DEF Globals, Labels
<1>3. Hold("idle", raw[t], read[t], splited[t], i[t], arg[t], reply[t])
  BY <1>1, Zenon DEF IInv
<1>4. Hold("head", raw[t], read[t], splited[t], i[t], arg[t], reply[t])
  BY <1>3, HoldReceive
<1>. QED
  BY <1>1, <1>2, <1>4, MovesHold

\* A thread that reads r from globalPos and has a with it
LEMMA ReadsHold ==
    ASSUME IInv, NEW t \in Threads, NEW p, NEW q \in Labels, Step(t, p, q), Globals',
           raw' = raw, reply' = reply, splited' = splited, i' = i,
           NEW r, read' = [read EXCEPT ![t] = r], NEW a, arg' = [arg EXCEPT ![t] = a],
           Hold(q, raw[t], r, splited[t], i[t], a, reply[t])
    PROVE  IInv'
<1>1. /\ pc \in [Threads -> Labels] /\ DOMAIN read = Threads /\ DOMAIN arg = Threads
      /\ pc' = [pc EXCEPT ![t] = q]
  BY DEF IInv, Maps, Step
<1>2. /\ pc'[t] = q /\ pc' \in [Threads -> Labels]
      /\ \A u \in Threads \ {t} : pc'[u] = pc[u]
  BY <1>1
<1>3. read'[t] = r /\ DOMAIN read' = Threads /\ \A u \in Threads \ {t} : read'[u] = read[u]
  BY <1>1
<1>4. arg'[t] = a /\ DOMAIN arg' = Threads /\ \A u \in Threads \ {t} : arg'[u] = arg[u]
  BY <1>1
<1>5. Elsewhere(t)
  BY <1>2, <1>3, <1>4 DEF Elsewhere
<1>6. Maps'
  BY <1>2, <1>3, <1>4 DEF IInv, Maps
<1>7. Holds(t)'
  BY <1>2, <1>3, <1>4, Zenon DEF Holds
<1>. QED
  BY <1>5, <1>6, <1>7, Frame

LEMMA ReadBlockStep ==
    ASSUME IInv, NEW t \in Threads, ReadBlock(t)
    PROVE  IInv'
<1>. DEFINE r == [block |-> globalPos.block, data |-> NotSet]
<1>1. /\ Step(t, "head", "data") /\ pc[t] = "head"
      /\ arg' = [arg EXCEPT ![t] = Defaults(r)] /\ read' = [read EXCEPT ![t] = r]
      /\ gone' = gone /\ globalPos' = globalPos /\ busy' = busy
      /\ raw' = raw /\ splited' = splited /\ i' = i /\ reply' = reply
  BY DEF ReadBlock, Step, tokens
<1>2. Globals' /\ globalPos.block \in Kinds["block"]
  BY <1>1, InLoop DEF Globals
<1>3. Hold("head", raw[t], read[t], splited[t], i[t], arg[t], reply[t])
  BY <1>1, Zenon DEF IInv
<1>4. Hold("data", raw[t], r, splited[t], i[t], Defaults(r), reply[t])
  BY <1>2, <1>3, HoldReadBlock
<1>5. "data" \in Labels
  BY DEF Labels
<1>. HIDE DEF r
<1>. QED
  BY <1>1, <1>2, <1>4, <1>5, ReadsHold

LEMMA ReadDataStep ==
    ASSUME IInv, NEW t \in Threads, ReadData(t)
    PROVE  IInv'
<1>. DEFINE x == globalPos.data  r == [read[t] EXCEPT !.data = x]
            a == [arg[t] EXCEPT !["data"] = x]
<1>1. /\ Step(t, "data", "first") /\ pc[t] = "data"
      /\ arg' = [arg EXCEPT ![t].data = x] /\ read' = [read EXCEPT ![t].data = x]
      /\ gone' = gone /\ globalPos' = globalPos /\ busy' = busy
      /\ raw' = raw /\ splited' = splited /\ i' = i /\ reply' = reply
  BY DEF ReadData, Step, tokens
<1>2. Globals' /\ x \in Kinds["data"]
  BY <1>1, InLoop DEF Globals
<1>3. arg' = [arg EXCEPT ![t] = a] /\ read' = [read EXCEPT ![t] = r]
  BY <1>1
<1>4. Hold("data", raw[t], read[t], splited[t], i[t], arg[t], reply[t])
  BY <1>1, Zenon DEF IInv
<1>5. Hold("first", raw[t], r, splited[t], i[t], a, reply[t])
  BY <1>2, <1>4, HoldReadData
<1>6. "first" \in Labels
  BY DEF Labels
<1>. HIDE DEF r, a
<1>. QED
  BY <1>1, <1>2, <1>3, <1>5, <1>6, ReadsHold

\* strtok's steps
LEMMA WordsStep ==
    ASSUME IInv, NEW t \in Threads, NEW p \in {"first"} \cup Splitting,
           NEW q \in {"join"} \cup Splitting, Step(t, p, q),
           NEW v, raw' = [raw EXCEPT ![t] = v] \/ (raw' = raw /\ v = raw[t]),
           gone' = gone, globalPos' = globalPos, busy' = busy, read' = read,
           splited' = splited, i' = i, arg' = arg, reply' = reply
    PROVE  IInv'
<1>1. /\ pc \in [Threads -> Labels] /\ DOMAIN raw = Threads
      /\ pc[t] = p /\ pc' = [pc EXCEPT ![t] = q] /\ q \in Labels
  BY DEF IInv, Maps, Step, Labels, Splitting
<1>2. /\ pc'[t] = q /\ pc' \in [Threads -> Labels]
      /\ \A u \in Threads \ {t} : pc'[u] = pc[u]
  BY <1>1
<1>3. raw'[t] = v /\ DOMAIN raw' = Threads /\ \A u \in Threads \ {t} : raw'[u] = raw[u]
  BY <1>1
<1>4. Elsewhere(t)
  BY <1>2, <1>3 DEF Elsewhere
<1>5. Maps' /\ Globals'
  BY <1>2, <1>3 DEF IInv, Maps, Globals
<1>6. Hold(p, raw[t], read[t], splited[t], i[t], arg[t], reply[t])
  BY <1>1, Zenon DEF IInv
<1>7. Hold(q, v, read[t], splited[t], i[t], arg[t], reply[t])
  BY <1>6, HoldWords
<1>8. Holds(t)'
  BY <1>2, <1>3, <1>7, Zenon DEF Holds
<1>. QED
  BY <1>4, <1>5, <1>8, Frame

LEMMA StrtokStep ==
    ASSUME IInv, NEW t \in Threads, FirstWord(t) \/ TakeUp(t) \/ Cut(t) \/ Save(t)
    PROVE  IInv'
<1>1. CASE FirstWord(t)
  <2>1. "first" \in {"first"} \cup Splitting /\ "next" \in {"join"} \cup Splitting
    BY DEF Splitting
  <2>. QED
    BY <1>1, <2>1, WordsStep DEF FirstWord
<1>2. CASE TakeUp(t)
  <2>1. /\ "next" \in {"first"} \cup Splitting
        /\ "cut" \in {"join"} \cup Splitting /\ "save" \in {"join"} \cup Splitting
    BY DEF Splitting
  <2>. QED
    BY <1>2, <2>1, WordsStep DEF TakeUp
<1>3. CASE Cut(t)
  <2>1. "cut" \in {"first"} \cup Splitting /\ "save" \in {"join"} \cup Splitting
    BY DEF Splitting
  <2>. QED
    BY <1>3, <2>1, WordsStep DEF Cut
<1>4. CASE Save(t)
  <2>1. /\ "save" \in {"first"} \cup Splitting
        /\ "next" \in {"join"} \cup Splitting /\ "join" \in {"join"} \cup Splitting
    BY DEF Splitting
  <2>2. /\ gone' = gone /\ globalPos' = globalPos /\ busy' = busy /\ read' = read
        /\ splited' = splited /\ i' = i /\ arg' = arg /\ reply' = reply
    BY <1>4 DEF Save
  <2>3. CASE Step(t, "save", "next") /\ raw' = [raw EXCEPT ![t] =
                  Append(@, cmd[call[t].of].words[call[t].word])]
    <3>. DEFINE v == Append(raw[t], cmd[call[t].of].words[call[t].word])
    <3>1. raw' = [raw EXCEPT ![t] = v]
      BY <2>3
    <3>. HIDE DEF v
    <3>. QED
      BY <2>1, <2>2, <2>3, <3>1, WordsStep
  <2>4. CASE Step(t, "save", "join") /\ raw' = raw
    <3>1. raw' = raw /\ raw[t] = raw[t]
      BY <2>4
    <3>. QED
      BY <2>1, <2>2, <2>4, <3>1, WordsStep
  <2>. QED
    BY <1>4, <2>3, <2>4 DEF Save
<1>. QED
  BY <1>1, <1>2, <1>3, <1>4

LEMMA JoinStep ==
    ASSUME IInv, Tokens, NEW t \in Threads, Join(t)
    PROVE  IInv'
<1>. DEFINE w == raw[t]  s == split(w)
<1>1. /\ pc[t] = "join" /\ raw' = raw /\ read' = read
      /\ gone' = gone /\ globalPos' = globalPos /\ busy' = busy
  BY DEF Join, Ends, Step, shared, tokens
<1>2. /\ pc \in [Threads -> Labels] /\ DOMAIN arg = Threads /\ DOMAIN reply = Threads
      /\ splited \in [Threads -> Seq(Words)] /\ i \in [Threads -> Nat]
      /\ Globals /\ w \in Seq(RawWord) /\ w # <<>>
  <2>1. w \in Seq(RawWord) /\ Gets(t)
    BY Zenon DEF Tokens, TokenMaps
  <2>2. w # <<>>
    BY <1>1, <2>1 DEF Gets, Got, Early
  <2>. QED
    BY <2>1, <2>2, InLoop DEF IInv, Maps
<1>3. Hold("join", w, read[t], splited[t], i[t], arg[t], reply[t])
  BY <1>1, Zenon DEF IInv
<1>4. Globals'
  BY <1>1, <1>2 DEF Globals
<1>5. CASE s.lw
  <2>1. /\ pc' = [pc EXCEPT ![t] = "done"]
        /\ reply' = [reply EXCEPT ![t] = "Unterminated string."]
        /\ splited' = splited /\ i' = i /\ arg' = arg
    BY <1>5 DEF Join, Ends, Step
  <2>2. /\ pc' \in [Threads -> Labels] /\ DOMAIN reply' = Threads
        /\ pc'[t] = "done" /\ reply'[t] = "Unterminated string."
        /\ \A u \in Threads \ {t} : pc'[u] = pc[u] /\ reply'[u] = reply[u]
    BY <1>2, <2>1 DEF Labels
  <2>3. Elsewhere(t)
    BY <1>1, <2>1, <2>2 DEF Elsewhere
  <2>4. Maps'
    BY <1>1, <2>1, <2>2 DEF IInv, Maps
  <2>5. Hold("done", w, read[t], splited[t], i[t], arg[t], "Unterminated string.")
    BY <1>3, <1>5, HoldOpen
  <2>6. Holds(t)'
    BY <1>1, <2>1, <2>2, <2>5, Zenon DEF Holds
  <2>. QED
    BY <1>4, <2>3, <2>4, <2>6, Frame
<1>6. CASE ~s.lw
  <2>. DEFINE a == [arg[t] EXCEPT !["type"] = s.out[1]]
  <2>1. /\ pc' = [pc EXCEPT ![t] = "loop"]
        /\ arg' = [arg EXCEPT ![t] = a]
        /\ splited' = [splited EXCEPT ![t] = s.out] /\ i' = [i EXCEPT ![t] = 2]
        /\ reply' = reply
    <3>1. arg' = [arg EXCEPT ![t].type = s.out[1]]
      BY <1>6 DEF Join
    <3>2. arg' = [arg EXCEPT ![t] = a]
      BY <1>2, <3>1
    <3>. QED
      BY <1>6, <3>2 DEF Join, Step
  <2>2. s.out \in Seq(Words) /\ Hold("loop", w, read[t], s.out, 2, a, reply[t])
    BY <1>2, <1>3, <1>6, HoldJoin
  <2>. HIDE DEF a, s, w
  <2>3. /\ pc' \in [Threads -> Labels] /\ i' \in [Threads -> Nat] /\ DOMAIN arg' = Threads
        /\ splited' \in [Threads -> Seq(Words)]
    BY <1>2, <2>1, <2>2 DEF Labels
  <2>4. pc'[t] = "loop" /\ i'[t] = 2 /\ arg'[t] = a /\ splited'[t] = s.out
    BY <1>2, <2>1
  <2>5. \A u \in Threads \ {t} : /\ pc'[u] = pc[u] /\ i'[u] = i[u] /\ arg'[u] = arg[u]
                                 /\ splited'[u] = splited[u]
    BY <1>2, <2>1
  <2>6. Elsewhere(t)
    BY <1>1, <2>1, <2>5 DEF Elsewhere
  <2>7. Maps'
    BY <1>1, <2>1, <2>3 DEF IInv, Maps
  <2>8. Hold("loop", raw[t], read[t], s.out, 2, a, reply[t])
    BY <2>2 DEF w
  <2>9. Holds(t)'
    BY <1>1, <2>1, <2>8, <2>4, Zenon DEF Holds
  <2>. QED
    BY <1>4, <2>6, <2>7, <2>9, Frame
<1>. QED
  BY <1>5, <1>6
\* A word that stands after another
LEMMA NextWord ==
    ASSUME NEW s \in Seq(Words), NEW n \in Nat, n + 1 <= Len(s)
    PROVE  s[n + 1] \in Words
<1>1. n + 1 \in 1 .. Len(s)
  BY LenProperties
<1>. QED
  BY <1>1, LenProperties

\* -get pos and -let: the type is set and the loop left.
LEMMA WroteHolds ==
    ASSUME IInv, NEW t \in Threads, Step(t, "loop", "built"), Globals',
           NEW ty \in {<<"getpos">>, <<"dwrote">>}, arg' = [arg EXCEPT ![t].type = ty],
           raw' = raw /\ read' = read, splited' = splited, i' = i, reply' = reply
    PROVE  IInv'
<1>1. pc[t] = "loop" /\ DOMAIN arg = Threads
  BY DEF Step, IInv, Maps
<1>2. Hold("loop", raw[t], read[t], splited[t], i[t], arg[t], reply[t]) /\ i[t] \in Nat
  BY <1>1, InLoop, Zenon DEF Holds
<1>3. Hold("built", raw[t], read[t], splited[t], i[t], [arg[t] EXCEPT !["type"] = ty], reply[t])
  BY <1>2, HoldWrote
<1>. DEFINE a == [arg[t] EXCEPT !["type"] = ty]
<1>4. arg' = [arg EXCEPT ![t] = a]
  OBVIOUS
<1>5. "built" \in Labels
  BY DEF Labels
<1>. HIDE DEF a
<1>6. Hold("built", raw[t], read[t], splited[t], i[t], a, reply[t])
  BY <1>3 DEF a
<1>. QED
  BY <1>2, <1>4, <1>5, <1>6, MovesHold

LEMMA GetPosStep ==
    ASSUME IInv, NEW t \in Threads, GetPos(t)
    PROVE  IInv'
<1>1. /\ Step(t, "loop", "built") /\ arg' = [arg EXCEPT ![t].type = <<"getpos">>]
      /\ raw' = raw /\ read' = read /\ splited' = splited /\ i' = i /\ reply' = reply
      /\ gone' = gone /\ globalPos' = globalPos /\ busy' = busy
  BY DEF GetPos, shared, tokens
<1>2. Globals'
  BY <1>1, InLoop DEF Globals
<1>. QED
  BY <1>1, <1>2, WroteHolds

LEMMA LetStep ==
    ASSUME IInv, NEW t \in Threads, LetBlock(t) \/ LetData(t)
    PROVE  IInv'
<1>1. /\ Step(t, "loop", "built") /\ arg' = [arg EXCEPT ![t].type = <<"dwrote">>]
      /\ raw' = raw /\ read' = read /\ splited' = splited /\ i' = i /\ reply' = reply
      /\ gone' = gone /\ busy' = busy
  BY DEF LetBlock, LetData, Wrote, tokens
<1>2. Globals /\ splited[t] \in Seq(Words) /\ i[t] \in Nat
  BY InLoop
<1>3. CASE LetBlock(t)
  <2>1. i[t] + 1 <= Len(splited[t])
    BY <1>3 DEF LetBlock, IsLet, Has
  <2>2. splited[t][i[t] + 1] \in Words
    BY <1>2, <2>1, NextWord
  <2>3. globalPos' = [globalPos EXCEPT !.block = splited[t][i[t] + 1]]
    BY <1>3 DEF LetBlock, Word
  <2>4. splited[t][i[t] + 1] \in Kinds["block"]
    BY <2>2, KindsAre
  <2>5. Globals'
    BY <1>1, <1>2, <2>3, <2>4 DEF Globals
  <2>. QED
    BY <1>1, <2>5, WroteHolds
<1>4. CASE LetData(t)
  <2>. DEFINE w == Word(t, i[t] + 1)
  <2>1. IsInt(w) /\ globalPos' = [globalPos EXCEPT !.data = IntIn(w) % ShortMod]
    BY <1>4 DEF LetData
  <2>. HIDE DEF w
  <2>2. IntIn(w) \in Int
    BY <2>1, IntInTyped
  <2>3. IntIn(w) % ShortMod \in Kinds["data"]
    <3>1. Kinds["data"] = 0 .. ShortMod - 1
      BY KindsAre
    <3>. QED
      BY <2>2, <3>1, NumbersTyped
  <2>4. Globals'
    BY <1>1, <1>2, <2>1, <2>3 DEF Globals
  <2>. QED
    BY <1>1, <2>4, WroteHolds
<1>. QED
  BY <1>3, <1>4

LEMMA OptionStep ==
    ASSUME IInv, NEW t \in Threads, Option(t)
    PROVE  IInv'
<1>. DEFINE s == splited[t]  n == i[t]  o == s[n][1]  w == s[n + 1]
            a == [arg[t] EXCEPT ![Member[o]] = Conversion(o, w)]
<1>1. /\ Step(t, "loop", "loop") /\ raw' = raw /\ read' = read /\ splited' = splited /\ reply' = reply
      /\ gone' = gone /\ globalPos' = globalPos /\ busy' = busy
      /\ arg' = [arg EXCEPT ![t][Member[o]] = Conversion(o, w)]
      /\ i' = [i EXCEPT ![t] = @ + 2]
      /\ n + 1 <= Len(s) /\ IsOption(s[n]) /\ Converts(o, w)
  BY DEF Option, InOptions, Has, Word, shared, tokens
<1>2. /\ s \in Seq(Words) /\ n \in Nat /\ pc[t] = "loop" /\ Globals
      /\ Hold("loop", raw[t], read[t], s, n, arg[t], reply[t])
  BY <1>1, InLoop DEF Step, Holds
<1>3. arg' = [arg EXCEPT ![t] = a] /\ i' = [i EXCEPT ![t] = n + 2]
  BY <1>1
<1>4. Hold("loop", raw[t], read[t], s, n + 2, a, reply[t])
  BY <1>1, <1>2, HoldOption
<1>5. Globals' /\ "loop" \in Labels /\ n + 2 \in Nat
  BY <1>1, <1>2 DEF Globals, Labels
<1>. HIDE DEF a, o, w
<1>. QED
  BY <1>1, <1>3, <1>4, <1>5, MovesHold

LEMMA NoOptionStep ==
    ASSUME IInv, NEW t \in Threads, NoOption(t)
    PROVE  IInv'
<1>. DEFINE s == splited[t]  n == i[t]
<1>1. /\ Step(t, "loop", "loop") /\ raw' = raw /\ read' = read /\ splited' = splited /\ reply' = reply
      /\ gone' = gone /\ globalPos' = globalPos /\ busy' = busy /\ arg' = arg
      /\ i' = [i EXCEPT ![t] = n + 1]
      /\ n + 1 <= Len(s) /\ ~IsOption(s[n])
  BY DEF NoOption, InOptions, Has, Word, shared, tokens
<1>2. /\ s \in Seq(Words) /\ n \in Nat /\ Globals
      /\ Hold("loop", raw[t], read[t], s, n, arg[t], reply[t])
  BY <1>1, InLoop DEF Step, Holds
<1>3. Hold("loop", raw[t], read[t], s, n + 1, arg[t], reply[t])
  BY <1>1, <1>2, HoldNoOption
<1>4. Globals' /\ "loop" \in Labels /\ n + 1 \in Nat
  BY <1>1, <1>2 DEF Globals, Labels
<1>. QED
  BY <1>1, <1>3, <1>4, MovesHold

LEMMA BreakStep ==
    ASSUME IInv, NEW t \in Threads, Break(t)
    PROVE  IInv'
<1>. DEFINE s == splited[t]  n == i[t]
<1>1. /\ Step(t, "loop", "built") /\ raw' = raw /\ read' = read /\ splited' = splited /\ reply' = reply
      /\ gone' = gone /\ globalPos' = globalPos /\ busy' = busy /\ arg' = arg /\ i' = i
      /\ ~(n <= Len(s)) \/ ~(n + 1 <= Len(s))
  BY DEF Break, Has, Step, shared, tokens
<1>2. /\ s \in Seq(Words) /\ n \in Nat /\ Len(s) \in Nat /\ Globals
      /\ Hold("loop", raw[t], read[t], s, n, arg[t], reply[t])
  BY <1>1, InLoop DEF Step, Holds
<1>3. n >= Len(s)
  BY <1>1, <1>2
<1>4. Hold("built", raw[t], read[t], s, n, arg[t], reply[t])
  BY <1>2, <1>3, HoldBreak
<1>5. Globals' /\ "built" \in Labels
  BY <1>1, <1>2 DEF Globals, Labels
<1>. QED
  BY <1>1, <1>2, <1>4, <1>5, MovesHold

\* builder never says what split does.
LEMMA AnswerKnown == \A ty : Answer(ty) # "Unterminated string."
<1>. TAKE ty
<1>1. CASE ty \in {<<"dwrote">>, <<"getpos">>}
  <2>1. ty[1] \in {"dwrote", "getpos"}
    BY <1>1
  <2>. QED
    BY <1>1, <2>1 DEF Answer
<1>. QED
  BY <1>1 DEF Answer

LEMMA BuilderStep ==
    ASSUME IInv, NEW t \in Threads, builder(t)
    PROVE  IInv'
<1>1. /\ Ends(t, "built", Answer(Type(t))) /\ gone' = gone /\ globalPos' = globalPos
      /\ raw' = raw /\ read' = read /\ splited' = splited /\ i' = i /\ arg' = arg
      /\ busy' = (busy \/ reply'[t] \in {"csession", "session"})
  BY DEF builder, tokens
<1>2. busy' \in BOOLEAN
  BY <1>1
<1>3. Answer(Type(t)) # "Unterminated string."
  BY AnswerKnown
<1>. QED
  BY <1>1, <1>2, <1>3, EndsHolds

-----------------------------------------------------------------------------
(* The words strtok gives *)

LEMMA GotSplitting ==
    ASSUME NEW p \in Splitting, NEW ws, NEW st, NEW ct, NEW cl, NEW r, NEW M, NEW t
    PROVE  Got(p, ws, st, ct, cl, r, M, t) <=>
            /\ ws # <<>> /\ r # <<>> /\ r[1] = ws[1]
            /\ st \in [of : Threads, next : Nat \ {0}]
            /\ p \in {"cut", "save"} => cl \in [of : Threads, word : Nat \ {0}, after : Nat \ {0}]
            /\ t \in M \/ Follows(p, st, ct, cl, r, ws, t)
<1>1. p \notin Early \cup {"idle", "head", "done"}
  BY DEF Splitting, Early
<1>. QED
  BY <1>1 DEF Got

\* A thread that leaves what strtok works on alone, and is not between its calls
LEMMA GotApart ==
    ASSUME NEW p \in Labels \ Splitting, NEW q \in Labels \ (Splitting \cup {"idle", "join"}),
           NEW ws, NEW st, NEW ct, NEW cl, NEW r, NEW M, NEW t,
           Got(p, ws, st, ct, cl, r, M, t),
           q \in Early => p \in Early, q \notin {"head", "done"} => ws # <<>>,
           q \in {"loop", "built"} => p \in {"join", "loop", "built"}
    PROVE  Got(q, ws, st, ct, cl, r, M, t)
<1>1. q \notin Splitting /\ q \notin {"cut", "save"} /\ q # "idle"
  BY DEF Splitting
<1>2. q \in Early => r = <<>>
  BY DEF Got
<1>3. q \notin Early \cup {"done"} => r # <<>>
  BY DEF Got, Early, Labels, Splitting
<1>. QED
  BY <1>1, <1>2, <1>3 DEF Got

LEMMA GotElsewhere ==
    ASSUME NEW p, NEW ws, NEW st, NEW ct, NEW cl, NEW r, NEW M, NEW t,
           Got(p, ws, st, ct, cl, r, M, t),
           NEW st1 \in [of : Threads, next : Nat \ {0}], NEW ct1, NEW M1,
           t \in M1 <=> (t \in M \/ p \in Splitting)
    PROVE  Got(p, ws, st1, ct1, cl, r, M1, t)
BY DEF Got

LEMMA TokensTyped ==
    ASSUME Tokens, NEW t \in Threads
    PROVE  /\ TokenMaps /\ Gets(t)
           /\ cmd[t].words \in Seq(RawWord) /\ Len(cmd[t].words) \in Nat
           /\ End(t) = Len(cmd[t].words) + 1
           /\ raw[t] \in Seq(RawWord) /\ Len(raw[t]) \in Nat
<1>1. TokenMaps /\ Gets(t)
  BY DEF Tokens
<1>2. cmd[t] \in Message /\ raw[t] \in Seq(RawWord)
  BY <1>1 DEF TokenMaps
<1>3. cmd[t].words \in Seq(RawWord)
  BY <1>2 DEF Message, RawWord
<1>. QED
  BY <1>1, <1>2, <1>3, LenProperties DEF End

\* A thread goes from p to q, with the tokens as they are.
LEMMA TokensApart ==
    ASSUME Tokens, NEW t \in Threads, NEW p \in Labels \ Splitting,
           NEW q \in Labels \ (Splitting \cup {"idle", "join"}), Step(t, p, q),
           cmd' = cmd, tokens' = tokens,
           q \in Early => p \in Early, q \notin {"head", "done"} => cmd[t].words # <<>>,
           q \in {"loop", "built"} => p \in {"join", "loop", "built"}
    PROVE  Tokens'
<1>1. /\ strtok' = strtok /\ cuts' = cuts /\ call' = call /\ raw' = raw /\ mixed' = mixed
      /\ pc[t] = p /\ pc' = [pc EXCEPT ![t] = q]
  BY DEF tokens, Step
<1>2. /\ pc \in [Threads -> Labels] /\ pc' \in [Threads -> Labels] /\ pc'[t] = q
      /\ \A u \in Threads \ {t} : pc'[u] = pc[u]
  BY <1>1 DEF Tokens, TokenMaps
<1>3. TokenMaps'
  BY <1>1, <1>2 DEF Tokens, TokenMaps
<1>4. ASSUME NEW u \in Threads, u # t PROVE Gets(u)'
  <2>1. Gets(u) /\ pc'[u] = pc[u]
    BY <1>2, <1>4 DEF Tokens
  <2>. QED
    BY <2>1, <1>1 DEF Gets
<1>5. Gets(t)'
  <2>1. Got(p, cmd[t].words, strtok, cuts[t], call[t], raw[t], mixed, t)
    BY <1>1 DEF Tokens, Gets
  <2>2. Got(q, cmd[t].words, strtok, cuts[t], call[t], raw[t], mixed, t)
    BY <2>1, GotApart
  <2>. QED
    BY <1>1, <1>2, <2>2 DEF Gets
<1>. QED
  BY <1>3, <1>4, <1>5 DEF Tokens

\* A thread that writes what strtok works on: the others between their calls are mixed.
LEMMA TokensWritten ==
    ASSUME Tokens, NEW t \in Threads, NEW q \in Labels, pc' = [pc EXCEPT ![t] = q],
           cmd' = cmd, call' = call, Mixes(t),
           NEW v \in Seq(RawWord), raw' = [raw EXCEPT ![t] = v] \/ (raw' = raw /\ v = raw[t]),
           strtok' \in [of : Threads, next : Nat \ {0}], cuts' \in [Threads -> SUBSET Nat],
           Got(q, cmd[t].words, strtok', cuts'[t], call[t], v, mixed, t)
    PROVE  Tokens'
<1>1. TokenMaps
  BY DEF Tokens
<1>2. /\ pc' \in [Threads -> Labels] /\ pc'[t] = q
      /\ \A u \in Threads \ {t} : pc'[u] = pc[u]
  BY <1>1 DEF TokenMaps
<1>3. /\ raw' \in [Threads -> Seq(RawWord)] /\ raw'[t] = v
      /\ \A u \in Threads \ {t} : raw'[u] = raw[u]
  BY <1>1 DEF TokenMaps
<1>4. /\ mixed' \subseteq Threads /\ (t \in mixed' <=> t \in mixed)
      /\ \A u \in Threads \ {t} : u \in mixed' <=> (u \in mixed \/ pc[u] \in Splitting)
  BY <1>1 DEF TokenMaps, Mixes
<1>5. strtok' \in [of : Places, next : Nat]
  BY DEF Places
<1>6. TokenMaps'
  BY <1>1, <1>2, <1>3, <1>4, <1>5 DEF TokenMaps
<1>7. ASSUME NEW u \in Threads, u # t PROVE Gets(u)'
  <2>1. Got(pc[u], cmd[u].words, strtok, cuts[u], call[u], raw[u], mixed, u)
    BY DEF Tokens, Gets
  <2>2. u \in mixed' <=> (u \in mixed \/ pc[u] \in Splitting)
    BY <1>4, <1>7
  <2>3. Got(pc[u], cmd[u].words, strtok', cuts'[u], call[u], raw[u], mixed', u)
    BY <2>1, <2>2, GotElsewhere
  <2>. QED
    BY <1>2, <1>3, <1>7, <2>3 DEF Gets
<1>8. Gets(t)'
  <2>1. t \in mixed' <=> t \in mixed
    BY <1>4
  <2>2. Got(q, cmd[t].words, strtok', cuts'[t], call[t], v, mixed', t)
    BY <2>1 DEF Got
  <2>. QED
    BY <1>2, <1>3, <2>2 DEF Gets
<1>. QED
  BY <1>6, <1>7, <1>8 DEF Tokens

LEMMA FirstWordGets ==
    ASSUME Tokens, NEW t \in Threads, FirstWord(t)
    PROVE  Tokens'
<1>. DEFINE ws == cmd[t].words  v == <<ws[1]>>
<1>1. /\ pc[t] = "first" /\ pc' = [pc EXCEPT ![t] = "next"] /\ cmd' = cmd /\ call' = call
      /\ raw' = [raw EXCEPT ![t] = v] /\ cuts' = [cuts EXCEPT ![t] = {1}]
      /\ strtok' = [of |-> t, next |-> 2] /\ Mixes(t)
  BY DEF FirstWord, Step
<1>2. TokenMaps /\ Gets(t) /\ ws \in Seq(RawWord) /\ Len(ws) \in Nat
  BY TokensTyped
<1>3. ws # <<>>
  BY <1>1, <1>2 DEF Gets, Got
<1>4. ws[1] \in RawWord /\ Len(ws) >= 1
  BY <1>2, <1>3, EmptySeq, LenProperties
<1>5. v \in Seq(RawWord) /\ v # <<>> /\ v[1] = ws[1] /\ Len(v) = 1
  BY <1>4
<1>6. cuts' \in [Threads -> SUBSET Nat] /\ cuts'[t] = {1}
  BY <1>1, <1>2 DEF TokenMaps
<1>7. "next" \in Labels /\ "next" \in Splitting
  BY DEF Labels, Splitting
<1>. HIDE DEF ws, v
<1>8. Follows("next", strtok', cuts'[t], call[t], v, ws, t)
  BY <1>1, <1>2, <1>4, <1>5, <1>6 DEF Follows
<1>9. strtok' \in [of : Threads, next : Nat \ {0}]
  BY <1>1
<1>10. Got("next", ws, strtok', cuts'[t], call[t], v, mixed, t)
  BY <1>3, <1>5, <1>7, <1>8, <1>9, GotSplitting
<1>. QED
  BY <1>1, <1>5, <1>6, <1>7, <1>9, <1>10, TokensWritten DEF ws

\* What is known of a thread that calls strtok
LEMMA InSplitting ==
    ASSUME Tokens, NEW t \in Threads, pc[t] \in Splitting
    PROVE  /\ strtok.of \in Threads /\ strtok.next \in Nat \ {0}
           /\ strtok \in [of : Threads, next : Nat \ {0}]
           /\ pc[t] \in {"cut", "save"} =>
                /\ call[t].of \in Threads /\ call[t].word \in Nat \ {0} /\ call[t].after \in Nat \ {0}
                /\ call[t] \in [of : Threads, word : Nat \ {0}, after : Nat \ {0}]
           /\ raw[t] # <<>> /\ Len(raw[t]) \in Nat \ {0} /\ raw[t][1] = cmd[t].words[1]
           /\ cmd[t].words # <<>>
           /\ t \in mixed \/ Follows(pc[t], strtok, cuts[t], call[t], raw[t], cmd[t].words, t)
<1>1. Got(pc[t], cmd[t].words, strtok, cuts[t], call[t], raw[t], mixed, t)
  BY DEF Tokens, Gets
<1>2. /\ cmd[t].words # <<>> /\ raw[t] # <<>> /\ raw[t][1] = cmd[t].words[1]
      /\ strtok \in [of : Threads, next : Nat \ {0}]
      /\ pc[t] \in {"cut", "save"} => call[t] \in [of : Threads, word : Nat \ {0}, after : Nat \ {0}]
      /\ t \in mixed \/ Follows(pc[t], strtok, cuts[t], call[t], raw[t], cmd[t].words, t)
  BY <1>1, GotSplitting
<1>3. Len(raw[t]) \in Nat \ {0}
  BY <1>2, TokensTyped, EmptySeq
<1>. QED
  BY <1>2, <1>3

LEMMA TakeUpGets ==
    ASSUME Tokens, NEW t \in Threads, TakeUp(t)
    PROVE  Tokens'
<1>. DEFINE o == strtok.of  k == strtok.next  n == Len(raw[t])  ws == cmd[t].words
            c == [of |-> o, word |-> k,
                  after |-> IF k \in cuts[o] \/ k >= End(o) THEN End(o) ELSE k + 1]
<1>1. PICK q \in {"cut", "save"} :
        /\ pc[t] = "next" /\ pc' = [pc EXCEPT ![t] = q]
        /\ call' = [call EXCEPT ![t] = c] /\ cmd' = cmd /\ raw' = raw /\ cuts' = cuts
        /\ strtok' = strtok /\ mixed' = mixed
  <2>1. PICK q \in {"cut", "save"} : Step(t, "next", q)
    BY DEF TakeUp
  <2>. QED
    BY <2>1 DEF TakeUp, Step
<1>2. pc[t] \in Splitting /\ q \in Splitting
  BY <1>1 DEF Splitting
<1>3. /\ o \in Threads /\ k \in Nat \ {0} /\ End(o) = Len(cmd[o].words) + 1
      /\ Len(cmd[o].words) \in Nat /\ n \in Nat /\ Len(ws) \in Nat /\ End(t) = Len(ws) + 1
  BY <1>2, InSplitting, TokensTyped
<1>4. c \in [of : Threads, word : Nat \ {0}, after : Nat \ {0}]
  <2>1. End(o) \in Nat \ {0} /\ k + 1 \in Nat \ {0}
    BY <1>3
  <2>. QED
    BY <1>3, <2>1
<1>5. TokenMaps
  BY DEF Tokens
<1>6. /\ pc' \in [Threads -> Labels] /\ pc'[t] = q
      /\ \A u \in Threads \ {t} : pc'[u] = pc[u]
  BY <1>1, <1>5 DEF TokenMaps, Labels
<1>7. /\ call' \in [Threads -> [of : Places, word : Nat, after : Nat]] /\ call'[t] = c
      /\ \A u \in Threads \ {t} : call'[u] = call[u]
  <2>1. c \in [of : Places, word : Nat, after : Nat]
    BY <1>4 DEF Places
  <2>. HIDE DEF c
  <2>. QED
    BY <1>1, <1>5, <2>1 DEF TokenMaps
<1>8. TokenMaps'
  BY <1>1, <1>5, <1>6, <1>7 DEF TokenMaps
<1>9. ASSUME NEW u \in Threads, u # t PROVE Gets(u)'
  <2>1. Gets(u)
    BY DEF Tokens
  <2>. QED
    BY <1>1, <1>6, <1>7, <1>9, <2>1 DEF Gets
<1>10. ASSUME t \notin mixed PROVE Follows(q, strtok, cuts[t], c, raw[t], ws, t)
  <2>1. Follows("next", strtok, cuts[t], call[t], raw[t], ws, t)
    BY <1>1, <1>2, <1>10, InSplitting
  <2>2. n <= Len(ws) /\ cuts[t] \subseteq 1 .. n /\ o = t /\ k = n + 1
    BY <2>1 DEF Follows
  <2>3. k \notin cuts[o] /\ (k >= End(o) <=> ~(n < Len(ws)))
    BY <1>3, <2>2
  <2>4. c.after = IF n < Len(ws) THEN n + 2 ELSE n + 1
    BY <1>3, <2>2, <2>3
  <2>5. c = [of |-> t, word |-> n + 1, after |-> IF n < Len(ws) THEN n + 2 ELSE n + 1]
    BY <2>2, <2>4
  <2>6. 1 .. n \subseteq 1 .. n + 1 /\ q # "next"
    BY <1>3
  <2>. HIDE DEF c, o, k
  <2>. QED
    BY <2>1, <2>2, <2>5, <2>6 DEF Follows
<1>11. Gets(t)'
  <2>1. /\ ws # <<>> /\ raw[t] # <<>> /\ raw[t][1] = ws[1]
        /\ strtok \in [of : Threads, next : Nat \ {0}]
    BY <1>2, InSplitting
  <2>. HIDE DEF c, ws
  <2>2. Got(q, ws, strtok, cuts[t], c, raw[t], mixed, t)
    BY <1>2, <1>4, <1>10, <2>1, GotSplitting
  <2>. QED
    BY <1>1, <1>6, <1>7, <2>2 DEF Gets, ws
<1>. QED
  BY <1>8, <1>9, <1>11 DEF Tokens

LEMMA CutGets ==
    ASSUME Tokens, NEW t \in Threads, Cut(t)
    PROVE  Tokens'
<1>. DEFINE o == call[t].of  k == call[t].word  n == Len(raw[t])  ws == cmd[t].words
<1>1. /\ pc[t] = "cut" /\ pc' = [pc EXCEPT ![t] = "save"] /\ cmd' = cmd /\ call' = call
      /\ raw' = raw /\ cuts' = [cuts EXCEPT ![o] = @ \cup {k}] /\ strtok' = strtok /\ Mixes(t)
  BY DEF Cut, Step
<1>2. /\ pc[t] \in Splitting /\ pc[t] \in {"cut", "save"}
      /\ "save" \in Splitting /\ "save" \in Labels /\ "save" \in {"cut", "save"}
  BY <1>1 DEF Splitting, Labels
<1>3. /\ o \in Threads /\ k \in Nat \ {0} /\ TokenMaps /\ n \in Nat
      /\ raw[t] \in Seq(RawWord)
      /\ call[t] \in [of : Threads, word : Nat \ {0}, after : Nat \ {0}]
      /\ strtok \in [of : Threads, next : Nat \ {0}]
      /\ ws # <<>> /\ raw[t] # <<>> /\ raw[t][1] = ws[1]
  BY <1>2, InSplitting, TokensTyped
<1>4. cuts' \in [Threads -> SUBSET Nat] /\ (o = t => cuts'[t] = cuts[t] \cup {k})
  BY <1>1, <1>3 DEF TokenMaps
<1>5. ASSUME t \notin mixed PROVE Follows("save", strtok, cuts'[t], call[t], raw[t], ws, t)
  <2>1. Follows("cut", strtok, cuts[t], call[t], raw[t], ws, t)
    BY <1>1, <1>2, <1>5, InSplitting
  <2>2. o = t /\ k = n + 1 /\ cuts[t] \subseteq 1 .. n
    BY <2>1 DEF Follows
  <2>3. cuts'[t] \subseteq 1 .. n + 1
    BY <1>3, <1>4, <2>2
  <2>. QED
    BY <2>1, <2>3 DEF Follows
<1>6. Got("save", ws, strtok, cuts'[t], call[t], raw[t], mixed, t)
  <2>. HIDE DEF ws
  <2>. QED
    BY <1>2, <1>3, <1>5, GotSplitting
<1>. QED
  BY <1>1, <1>2, <1>3, <1>4, <1>6, TokensWritten

LEMMA SaveGets ==
    ASSUME Tokens, NEW t \in Threads, Save(t)
    PROVE  Tokens'
<1>. DEFINE o == call[t].of  k == call[t].word  n == Len(raw[t])  ws == cmd[t].words
<1>1. /\ pc[t] = "save" /\ cmd' = cmd /\ call' = call /\ cuts' = cuts
      /\ strtok' = [of |-> o, next |-> call[t].after] /\ Mixes(t)
  BY DEF Save, Step
<1>2. /\ pc[t] \in Splitting /\ pc[t] \in {"cut", "save"}
  BY <1>1 DEF Splitting
<1>3. /\ o \in Threads /\ k \in Nat \ {0} /\ call[t].after \in Nat \ {0} /\ TokenMaps
      /\ raw[t] \in Seq(RawWord) /\ Len(ws) \in Nat /\ n \in Nat \ {0}
      /\ cmd[o].words \in Seq(RawWord) /\ Len(cmd[o].words) \in Nat
      /\ End(o) = Len(cmd[o].words) + 1 /\ ws \in Seq(RawWord)
      /\ ws # <<>> /\ raw[t] # <<>> /\ raw[t][1] = ws[1]
  BY <1>2, InSplitting, TokensTyped
<1>4. strtok' \in [of : Threads, next : Nat \ {0}] /\ cuts' \in [Threads -> SUBSET Nat]
  BY <1>1, <1>3 DEF TokenMaps
<1>5. ASSUME t \notin mixed
      PROVE  /\ n <= Len(ws) /\ \A j \in 1 .. n : raw[t][j] = ws[j]
             /\ cuts[t] \subseteq 1 .. n + 1 /\ o = t /\ k = n + 1
             /\ call[t].after = IF n < Len(ws) THEN n + 2 ELSE n + 1
  <2>1. Follows("save", strtok, cuts[t], call[t], raw[t], ws, t)
    BY <1>1, <1>2, <1>5, InSplitting
  <2>. QED
    BY <2>1 DEF Follows
<1>6. CASE Step(t, "save", "next") /\ k < End(o) /\ raw' = [raw EXCEPT ![t] = Append(@, cmd[o].words[k])]
  <2>. DEFINE x == cmd[o].words[k]  v == Append(raw[t], x)
  <2>1. x \in RawWord
    <3>1. k \in 1 .. Len(cmd[o].words)
      BY <1>3, <1>6
    <3>. QED
      BY <1>3, <3>1, LenProperties
  <2>. HIDE DEF x
  <2>2. /\ v \in Seq(RawWord) /\ v # <<>> /\ v[1] = ws[1] /\ Len(v) = n + 1
        /\ v[n + 1] = x /\ \A j \in 1 .. n : v[j] = raw[t][j]
    <3>1. Len(v) = n + 1 /\ v \in Seq(RawWord)
      BY <1>3, <2>1
    <3>2. \A j \in 1 .. n : v[j] = raw[t][j]
      BY <1>3, <2>1
    <3>3. v[n + 1] = x
      BY <1>3, <2>1
    <3>4. v # <<>>
      BY <1>3, <3>1, EmptySeq
    <3>. QED
      BY <1>3, <3>1, <3>2, <3>3, <3>4
  <2>. HIDE DEF v
  <2>3. ASSUME t \notin mixed PROVE Follows("next", strtok', cuts'[t], call[t], v, ws, t)
    <3>1. /\ n <= Len(ws) /\ \A j \in 1 .. n : raw[t][j] = ws[j]
          /\ cuts[t] \subseteq 1 .. n + 1 /\ o = t /\ k = n + 1
          /\ call[t].after = IF n < Len(ws) THEN n + 2 ELSE n + 1
      BY <1>5, <2>3
    <3>2. n < Len(ws) /\ x = ws[n + 1]
      BY <1>3, <1>6, <3>1 DEF x
    <3>3. strtok' = [of |-> t, next |-> (n + 1) + 1]
      BY <1>1, <1>3, <3>1, <3>2
    <3>4. \A j \in 1 .. n + 1 : v[j] = ws[j]
      BY <1>3, <2>2, <3>1, <3>2
    <3>5. n + 1 <= Len(ws)
      BY <1>3, <3>2
    <3>. QED
      BY <1>1, <2>2, <3>1, <3>3, <3>4, <3>5 DEF Follows
  <2>4. "next" \in Splitting /\ "next" \in Labels
    BY DEF Splitting, Labels
  <2>5. Got("next", ws, strtok', cuts'[t], call[t], v, mixed, t)
    <3>. HIDE DEF ws
    <3>. QED
      BY <1>3, <1>4, <2>2, <2>3, <2>4, GotSplitting
  <2>6. pc' = [pc EXCEPT ![t] = "next"] /\ raw' = [raw EXCEPT ![t] = v]
    BY <1>6 DEF Step, v, x
  <2>. QED
    BY <1>1, <1>4, <2>2, <2>4, <2>5, <2>6, TokensWritten
<1>7. CASE Step(t, "save", "join") /\ k >= End(o) /\ raw' = raw
  <2>1. ASSUME t \notin mixed PROVE raw[t] = ws
    <3>1. n <= Len(ws) /\ (\A j \in 1 .. n : raw[t][j] = ws[j]) /\ o = t /\ k = n + 1
      BY <1>5, <2>1
    <3>2. n = Len(ws)
      BY <1>3, <1>7, <3>1
    <3>. QED
      BY <1>3, <3>1, <3>2
  <2>2. "join" \in Labels /\ "join" \notin Splitting \cup Early /\ "join" \notin {"cut", "save"}
    BY DEF Labels, Splitting, Early
  <2>3. Got("join", ws, strtok', cuts'[t], call[t], raw[t], mixed, t)
    BY <1>3, <2>1, <2>2 DEF Got
  <2>4. pc' = [pc EXCEPT ![t] = "join"]
    BY <1>7 DEF Step
  <2>. QED
    BY <1>1, <1>3, <1>4, <1>7, <2>2, <2>3, <2>4, TokensWritten
<1>. QED
  BY <1>6, <1>7 DEF Save

LEMMA ReceiveGets ==
    ASSUME Tokens, NEW t \in Threads, NEW m \in Messages[t], Receive(t, m)
    PROVE  Tokens'
<1>1. m \in Message
  BY ArgInputAssumption DEF ArgInputAssumption
<1>2. /\ pc[t] = "idle" /\ pc' = [pc EXCEPT ![t] = "head"] /\ cmd' = [cmd EXCEPT ![t] = m]
      /\ strtok' = strtok /\ cuts' = cuts /\ call' = call /\ raw' = raw /\ mixed' = mixed
  BY DEF Receive, Step, shared, tokens
<1>3. TokenMaps /\ Gets(t)
  BY DEF Tokens
<1>4. /\ pc' \in [Threads -> Labels] /\ cmd' \in [Threads -> Message] /\ pc'[t] = "head"
      /\ \A u \in Threads \ {t} : pc'[u] = pc[u] /\ cmd'[u] = cmd[u]
  BY <1>1, <1>2, <1>3 DEF TokenMaps, Labels
<1>5. TokenMaps'
  BY <1>2, <1>3, <1>4 DEF TokenMaps
<1>6. ASSUME NEW u \in Threads, u # t PROVE Gets(u)'
  <2>1. Gets(u)
    BY DEF Tokens
  <2>. QED
    BY <1>2, <1>4, <1>6, <2>1 DEF Gets
<1>7. Gets(t)'
  <2>1. raw[t] = <<>>
    BY <1>2, <1>3 DEF Gets, Got, Early
  <2>2. "head" \in Early /\ "head" \notin Splitting
    BY DEF Early, Splitting
  <2>. QED
    BY <1>2, <1>4, <2>1, <2>2 DEF Gets, Got
<1>. QED
  BY <1>5, <1>6, <1>7 DEF Tokens

\* The steps of a thread that does not call strtok
LEMMA ApartGets ==
    ASSUME Tokens, NEW t \in Threads,
           \/ NoCommand(t) \/ ReadBlock(t) \/ ReadData(t) \/ Join(t) \/ GetPos(t) \/ LetBlock(t)
           \/ LetData(t) \/ BadFormat(t) \/ Option(t) \/ Throws(t) \/ NoOption(t) \/ Break(t)
           \/ builder(t)
    PROVE  Tokens'
<1>1. cmd' = cmd /\ tokens' = tokens
  BY DEF NoCommand, ReadBlock, ReadData, Join, GetPos, LetBlock, LetData, BadFormat, Option,
         Throws, NoOption, Break, builder, Wrote, shared
<1>2. Gets(t) /\ cmd[t] \in Message
  BY DEF Tokens, TokenMaps
<1>3. pc[t] \notin {"idle", "head", "done"} => cmd[t].words # <<>>
  BY <1>2 DEF Gets, Got
<1>4. ASSUME NEW p \in {"head", "data", "join", "loop", "built"}, Step(t, p, "done") PROVE Tokens'
  <2>1. p \in Labels \ Splitting /\ "done" \in Labels \ (Splitting \cup {"idle", "join"})
        /\ "done" \notin Early
    BY DEF Labels, Splitting, Early
  <2>. QED
    BY <1>1, <1>4, <2>1, TokensApart
<1>5. CASE Step(t, "head", "data") /\ cmd[t].dash
  <2>1. "head" \in Labels \ Splitting /\ "data" \in Labels \ (Splitting \cup {"idle", "join"})
        /\ "head" \in Early
    BY DEF Labels, Splitting, Early
  <2>2. cmd[t].words # <<>>
    BY <1>2, <1>5 DEF Message
  <2>. QED
    BY <1>1, <1>5, <2>1, <2>2, TokensApart
<1>6. CASE Step(t, "data", "first")
  <2>1. "data" \in Labels \ Splitting /\ "first" \in Labels \ (Splitting \cup {"idle", "join"})
        /\ "data" \in Early
    BY DEF Labels, Splitting, Early
  <2>2. cmd[t].words # <<>>
    BY <1>3, <1>6 DEF Step
  <2>. QED
    BY <1>1, <1>6, <2>1, <2>2, TokensApart
<1>7. ASSUME NEW p \in {"join", "loop"}, NEW q \in {"loop", "built"}, Step(t, p, q) PROVE Tokens'
  <2>1. p \in Labels \ Splitting /\ q \in Labels \ (Splitting \cup {"idle", "join"})
        /\ q \notin Early
    BY DEF Labels, Splitting, Early
  <2>2. cmd[t].words # <<>>
    BY <1>3, <1>7 DEF Step
  <2>. QED
    BY <1>1, <1>7, <2>1, <2>2, TokensApart
<1>8. \/ \E p \in {"head", "data", "join", "loop", "built"} : Step(t, p, "done")
      \/ Step(t, "head", "data") /\ cmd[t].dash
      \/ Step(t, "data", "first")
      \/ \E p \in {"join", "loop"}, q \in {"loop", "built"} : Step(t, p, q)
  <2>1. CASE NoCommand(t) \/ BadFormat(t) \/ Throws(t) \/ builder(t)
    BY <2>1 DEF NoCommand, BadFormat, Throws, builder, Ends
  <2>2. CASE ReadBlock(t) \/ ReadData(t)
    BY <2>2 DEF ReadBlock, ReadData
  <2>3. CASE Join(t)
    BY <2>3 DEF Join, Ends
  <2>4. CASE \/ GetPos(t) \/ LetBlock(t) \/ LetData(t) \/ Option(t) \/ NoOption(t) \/ Break(t)
    BY <2>4 DEF GetPos, LetBlock, LetData, Wrote, Option, NoOption, Break
  <2>. QED
    BY <2>1, <2>2, <2>3, <2>4
<1>. QED
  BY <1>4, <1>5, <1>6, <1>7, <1>8

LEMMA TokensRight == Init /\ [][Next]_vars => []Tokens
<1>1. Init => Tokens
  <2>. SUFFICES ASSUME Init PROVE Tokens
    OBVIOUS
  <2>1. NoMessage \in Message
    BY DEF NoMessage, Message
  <2>2. TokenMaps
    BY <2>1 DEF Init, TokenMaps, Labels, Nowhere, Places
  <2>3. ASSUME NEW t \in Threads PROVE Gets(t)
    <3>1. pc[t] = "idle" /\ raw[t] = <<>>
      BY DEF Init
    <3>. QED
      BY <3>1 DEF Gets, Got, Early, Splitting
  <2>. QED
    BY <2>2, <2>3 DEF Tokens
<1>2. Tokens /\ [Next]_vars => Tokens'
  <2>. SUFFICES ASSUME Tokens, [Next]_vars PROVE Tokens'
    OBVIOUS
  <2>1. ASSUME NEW t \in Threads, \E m \in Messages[t] : Receive(t, m) PROVE Tokens'
    BY <2>1, ReceiveGets
  <2>2. ASSUME NEW t \in Threads, FirstWord(t) PROVE Tokens'
    BY <2>2, FirstWordGets
  <2>3. ASSUME NEW t \in Threads, TakeUp(t) PROVE Tokens'
    BY <2>3, TakeUpGets
  <2>4. ASSUME NEW t \in Threads, Cut(t) PROVE Tokens'
    BY <2>4, CutGets
  <2>5. ASSUME NEW t \in Threads, Save(t) PROVE Tokens'
    BY <2>5, SaveGets
  <2>6. ASSUME NEW t \in Threads,
               \/ NoCommand(t) \/ ReadBlock(t) \/ ReadData(t) \/ Join(t) \/ GetPos(t)
               \/ LetBlock(t) \/ LetData(t) \/ BadFormat(t) \/ Option(t) \/ Throws(t)
               \/ NoOption(t) \/ Break(t) \/ builder(t)
        PROVE  Tokens'
    BY <2>6, ApartGets
  <2>7. CASE \/ \E n \in {"paint", "NBT"} : registerCommand(n)
             \/ JobEnds \/ StringRace \/ UNCHANGED vars
    <3>1. pc' = pc /\ cmd' = cmd /\ strtok' = strtok /\ cuts' = cuts /\ call' = call
          /\ raw' = raw /\ mixed' = mixed
      BY <2>7 DEF registerCommand, JobEnds, StringRace, vars, tokens
    <3>. QED
      BY <3>1 DEF Tokens, TokenMaps, Gets
  <2>. QED
    BY <2>1, <2>2, <2>3, <2>4, <2>5, <2>6, <2>7, Zenon DEF Next
<1>. QED
  BY <1>1, <1>2, PTL
-----------------------------------------------------------------------------
(* The theorems *)

THEOREM Inductive == Init /\ [][Next]_vars => []IInv
<1>1. Init => IInv
  <2>. SUFFICES ASSUME Init PROVE IInv
    OBVIOUS
  <2>2. <<"iron_block">> \in Kinds["block"] /\ 0 \in Kinds["data"]
    <3>1. Kinds["block"] = Words \cup {<<"iron_block">>}
      BY KindsAre
    <3>2. Kinds["data"] = 0 .. ShortMod - 1
      BY KindsAre
    <3>3. <<"iron_block">> \in Kinds["block"]
      BY <3>1, Zenon
    <3>. QED
      BY <3>2, <3>3, NumbersTyped
  <2>3. gone \in BOOLEAN /\ busy \in BOOLEAN
        /\ globalPos \in [block : Kinds["block"], data : Kinds["data"]]
    BY <2>2 DEF Init
  <2>4. Maps
    BY DEF Init, Maps, Labels
  <2>5. ASSUME NEW t \in Threads PROVE Hold(pc[t], raw[t], read[t], splited[t], i[t], arg[t], reply[t])
    <3>1. pc[t] = "idle" /\ splited[t] = <<>> /\ i[t] = 0 /\ reply[t] = "none"
      BY DEF Init
    <3>2. i[t] <= Len(splited[t]) + 1
      BY <3>1
    <3>. QED
      BY <3>1, <3>2 DEF Hold, Splitting
  <2>. QED
    BY <2>3, <2>4, <2>5 DEF IInv
<1>2. IInv /\ Tokens /\ [Next]_vars => IInv'
  <2>. SUFFICES ASSUME IInv, Tokens, [Next]_vars PROVE IInv'
    OBVIOUS
  <2>1. CASE \E n \in {"paint", "NBT"} : registerCommand(n)
    <3>1. IInv
      OBVIOUS
    <3>. QED
      BY <2>1, SharedStep DEF registerCommand, tokens, IInv
  <2>2. ASSUME NEW t \in Threads, \E m \in Messages[t] : Receive(t, m) PROVE IInv'
    BY <2>2, ReceiveStep
  <2>3. ASSUME NEW t \in Threads, NoCommand(t) PROVE IInv'
    <3>1. busy' \in BOOLEAN
      BY <2>3 DEF NoCommand, shared, tokens, IInv
    <3>. QED
      BY <2>3, <3>1, EndsHolds DEF NoCommand, shared, tokens
  <2>4. ASSUME NEW t \in Threads, ReadBlock(t) PROVE IInv'
    BY <2>4, ReadBlockStep
  <2>5. ASSUME NEW t \in Threads, ReadData(t) PROVE IInv'
    BY <2>5, ReadDataStep
  <2>17. ASSUME NEW t \in Threads, FirstWord(t) \/ TakeUp(t) \/ Cut(t) \/ Save(t) PROVE IInv'
    BY <2>17, StrtokStep
  <2>18. ASSUME NEW t \in Threads, Join(t) PROVE IInv'
    BY <2>18, JoinStep
  <2>6. ASSUME NEW t \in Threads, GetPos(t) PROVE IInv'
    BY <2>6, GetPosStep
  <2>7. ASSUME NEW t \in Threads, LetBlock(t) \/ LetData(t) PROVE IInv'
    BY <2>7, LetStep
  <2>8. ASSUME NEW t \in Threads, BadFormat(t) PROVE IInv'
    <3>1. busy' \in BOOLEAN
      BY <2>8 DEF BadFormat, shared, tokens, IInv
    <3>. QED
      BY <2>8, <3>1, EndsHolds DEF BadFormat, shared, tokens
  <2>9. ASSUME NEW t \in Threads, Option(t) PROVE IInv'
    BY <2>9, OptionStep
  <2>10. ASSUME NEW t \in Threads, Throws(t) PROVE IInv'
    <3>1. busy' \in BOOLEAN
      BY <2>10 DEF Throws, shared, tokens, IInv
    <3>. QED
      BY <2>10, <3>1, EndsHolds DEF Throws, shared, tokens
  <2>11. ASSUME NEW t \in Threads, NoOption(t) PROVE IInv'
    BY <2>11, NoOptionStep
  <2>12. ASSUME NEW t \in Threads, Break(t) PROVE IInv'
    BY <2>12, BreakStep
  <2>13. ASSUME NEW t \in Threads, builder(t) PROVE IInv'
    BY <2>13, BuilderStep
  <2>14. CASE JobEnds
    BY <2>14, SharedStep DEF JobEnds, tokens, IInv
  <2>15. CASE StringRace
    BY <2>15, SharedStep DEF StringRace, tokens, IInv
  <2>16. CASE UNCHANGED vars
    BY <2>16, SharedStep DEF vars, tokens, IInv
  <2>. QED
    BY <2>1, <2>2, <2>3, <2>4, <2>5, <2>6, <2>7, <2>8, <2>9, <2>10, <2>11, <2>12, <2>13,
       <2>14, <2>15, <2>16, <2>17, <2>18, Zenon DEF Next
<1>. QED
  BY <1>1, <1>2, TokensRight, PTL

\* TypeOK is what ArgInput says of the values of every variable.
THEOREM TypeCorrect == Spec => []TypeOK
<1>1. IInv /\ Tokens => TypeOK
  <2>. SUFFICES ASSUME IInv, Tokens PROVE TypeOK
    OBVIOUS
  <2>1. /\ gone \in BOOLEAN /\ busy \in BOOLEAN
        /\ globalPos \in [block : Kinds.block, data : Kinds.data]
    BY DEF IInv
  <2>2. /\ pc \in [Threads -> {"idle", "head", "data", "first", "next", "cut", "save", "join",
                               "loop", "built", "done"}]
        /\ cmd \in [Threads -> Message]
        /\ strtok \in [of : Places, next : Nat] /\ cuts \in [Threads -> SUBSET Nat]
        /\ call \in [Threads -> [of : Places, word : Nat, after : Nat]]
        /\ raw \in [Threads -> Seq(RawWord)] /\ mixed \subseteq Threads
    BY DEF Tokens, TokenMaps, Labels
  <2>3. splited \in [Threads -> Seq(Words)] /\ i \in [Threads -> Nat]
    BY DEF IInv, Maps
  <2>4. ASSUME NEW t \in Threads
        PROVE  /\ i[t] <= Len(splited[t]) + 1
               /\ pc[t] \in {"loop", "built"} =>
                     /\ DOMAIN arg[t] = DOMAIN Kinds
                     /\ \A m \in DOMAIN Kinds : arg[t][m] \in Kinds[m]
    <3>1. Hold(pc[t], raw[t], read[t], splited[t], i[t], arg[t], reply[t])
      BY Zenon DEF IInv
    <3>2. DOMAIN Kinds = MemberNames
      BY KindsAre
    <3>. QED
      BY <3>1, <3>2 DEF Hold
  <2>. QED
    BY <2>1, <2>2, <2>3, <2>4, Zenon DEF TypeOK
<1>. QED
  BY <1>1, Inductive, TokensRight, PTL DEF Spec

\* A thread whose calls of strtok no other thread's came between gets the words of
\* its message, all and in order, and every thread gets its own first word; split
\* loses and reorders none of the words it got, joins exactly those from an opening
\* to its closing quote, and complains exactly when one is left open: whatever the
\* messages and however many threads there are (core/argv.cpp:40-76).
THEOREM SplitIsRight == Spec => []SplitRight
<1>1. IInv /\ Tokens => SplitRight
  <2>. SUFFICES ASSUME IInv, Tokens, NEW t \in Threads
                PROVE  LET ws == raw[t]  n == Len(ws)
                           starts == {j \in 1 .. n : ~OpenAfter(ws, j - 1)}
                       IN /\ ws # <<>> /\ pc[t] \notin Splitting =>
                               ws[1] = cmd[t].words[1] /\ (t \in mixed \/ ws = cmd[t].words)
                          /\ pc[t] \in {"loop", "built"} =>
                               /\ ws # <<>> /\ ~OpenAfter(ws, n)
                               /\ FlattenSeq(splited[t]) = [j \in 1 .. n |-> ws[j].text]
                               /\ starts = {1 + Len(FlattenSeq(SubSeq(splited[t], 1, g))) :
                                               g \in 0 .. Len(splited[t]) - 1}
                          /\ reply[t] = "Unterminated string." => OpenAfter(ws, n)
    BY Zenon DEF SplitRight
  <2>. DEFINE ws == raw[t]
  <2>1. ws \in Seq(RawWord) /\ Gets(t)
    BY TokensTyped
  <2>2. SplitDone(split(ws), ws, Len(ws))
    BY <2>1, SplitExact
  <2>3. Hold(pc[t], raw[t], read[t], splited[t], i[t], arg[t], reply[t])
    BY Zenon DEF IInv
  <2>4. /\ pc[t] \in {"loop", "built"} => ~split(ws).lw /\ splited[t] = split(ws).out
        /\ reply[t] = "Unterminated string." => split(ws).lw
    BY <2>3 DEF Hold
  <2>5. ws # <<>> /\ pc[t] \notin Splitting =>
            ws[1] = cmd[t].words[1] /\ (t \in mixed \/ ws = cmd[t].words)
    BY <2>1 DEF Gets, Got
  <2>6. pc[t] \in {"loop", "built"} => ws # <<>>
    BY <2>1 DEF Gets, Got, Early
  <2>. HIDE DEF ws
  <2>7. reply[t] = "Unterminated string." => OpenAfter(ws, Len(ws))
    BY <2>2, <2>4 DEF SplitDone
  <2>8. ASSUME pc[t] \in {"loop", "built"}
        PROVE  /\ ~OpenAfter(ws, Len(ws))
               /\ FlattenSeq(splited[t]) = [j \in 1 .. Len(ws) |-> ws[j].text]
               /\ Starts(splited[t]) = {j \in 1 .. Len(ws) : ~OpenAfter(ws, j - 1)}
    <3>1. ~split(ws).lw /\ split(ws).out = splited[t]
      BY <2>4, <2>8
    <3>. QED
      BY <2>2, <3>1, Zenon DEF SplitDone
  <2>. QED
    BY <2>5, <2>6, <2>7, <2>8, Zenon DEF Starts, ws
<1>. QED
  BY <1>1, Inductive, TokensRight, PTL DEF Spec

\* Every member is what the last option of its name among the words says, or keeps
\* its default, block and data the ones read from globalPos; radius is set by -r
\* only; the value of an option is never read as an option, and the last word never
\* is one, for every message (core/argv.cpp:89-161).
THEOREM OptionsHold == Spec => []OptionsTakeEffect
<1>1. IInv => OptionsTakeEffect
  <2>. SUFFICES ASSUME IInv, NEW t \in Threads,
                       pc[t] = "built", Type(t) \notin Special, NEW o \in Options
                PROVE  LET ws == splited[t]  set == Given(ws, o) IN
                       arg[t][Member[o]] = IF set # {} THEN Conversion(o, ws[Max(set) + 1])
                                           ELSE Defaults(read[t])[Member[o]]
    BY Zenon DEF OptionsTakeEffect, Parsed, Special
  <2>. DEFINE ws == splited[t]  set == Given(ws, o)
  <2>1. Hold("built", raw[t], read[t], ws, i[t], arg[t], reply[t]) /\ ws \in Seq(Words)
    BY InLoop DEF Holds
  <2>2. Takes(arg[t], read[t], ws, Len(ws))
    BY <2>1 DEF Hold, Type
  <2>3. Len(ws) \in Nat /\ Len(ws) >= Len(ws)
    BY <2>1, LenProperties
  <2>4. Taken(ws, Len(ws), o) = set
    <3>. HIDE DEF ws
    <3>. QED
      BY <2>1, <2>3, TakenAll DEF set, Given
  <2>5. IF Taken(ws, Len(ws), o) # {}
        THEN arg[t][Member[o]] = Conversion(o, ws[Max(Taken(ws, Len(ws), o)) + 1])
        ELSE arg[t][Member[o]] = Defaults(read[t])[Member[o]]
    BY <2>2 DEF Takes
  <2>. HIDE DEF set
  <2>. QED
    BY <2>4, <2>5 DEF set
<1>. QED
  BY <1>1, Inductive, PTL DEF Spec

=============================================================================
