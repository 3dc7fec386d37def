----------------------------- MODULE LoopLemmas -----------------------------
(***************************************************************************)
(* Lemmas about the loops of module Loops and the sequences they push, for *)
(* the proof modules that need them.                                       *)
(*                                                                         *)
(* The library states induction over the naturals for an operator, which   *)
(* the provers cannot be given.  Here it is stated for a set, the set of   *)
(* the numbers that have a property, and proved from the fact that < on    *)
(* the naturals has no infinite descent.                                   *)
(***************************************************************************)
EXTENDS Loops, WellFoundedInduction, SequenceTheorems, TLAPS

\* A set that holds 0 and with each number the next holds them all.
LEMMA SetInduction ==
    ASSUME NEW T, 0 \in T, \A n \in Nat : n \in T => n + 1 \in T
    PROVE  Nat \subseteq T
<1>. DEFINE Out == Nat \ T
<1>1. SUFFICES ASSUME Out # {} PROVE FALSE
  OBVIOUS
<1>2. PICK x \in Out : \A y \in Out : ~ (<<y, x>> \in OpToRel(<, Nat))
  <2>. HIDE DEF Out
  <2>1. Out \subseteq Nat BY DEF Out
  <2>. QED BY <1>1, <2>1, WFMin, NatLessThanWellFounded
<1>3. x \in Nat /\ x # 0
  OBVIOUS
<1>4. x - 1 \in Out
  BY <1>3
<1>5. <<x - 1, x>> \in OpToRel(<, Nat)
  BY <1>3 DEF OpToRel
<1>. QED
  BY <1>2, <1>4, <1>5

\* The same for the numbers up to N
LEMMA InductionUpTo ==
    ASSUME NEW N \in Nat, NEW T, 0 \in T, \A n \in 0 .. N - 1 : n \in T => n + 1 \in T
    PROVE  0 .. N \subseteq T
<1>. DEFINE U == {n \in Nat : n <= N => n \in T}
<1>1. 0 \in U
  OBVIOUS
<1>2. ASSUME NEW n \in Nat, n \in U PROVE n + 1 \in U
  BY <1>2
<1>3. Nat \subseteq U
  <2>. HIDE DEF U
  <2>. QED
    BY <1>1, <1>2, SetInduction
<1>. QED
  BY <1>3

\* f is the function on 0..N that is first at 0 and then goes on by steps.
Recursion(f, N, first, step) ==
    f = [n \in 0 .. N |-> IF n = 0 THEN first ELSE step[<<n, f[n - 1]>>]]

\* A function on 0..N whose value at n is step[<<n, its value at n - 1>>] exists.
LEMMA RecursionExists ==
    ASSUME NEW N \in Nat, NEW V, NEW first \in V, NEW step \in [(1 .. N) \X V -> V]
    PROVE  \E f \in [0 .. N -> V] : Recursion(f, N, first, step)
<1>. DEFINE Step(f, n) == f[n + 1] = step[<<n + 1, f[n]>>]
            UpTo(m) == {f \in [0 .. m -> V] : f[0] = first /\ \A n \in 0 .. m - 1 : Step(f, n)}
            T == {m \in Nat : m <= N => UpTo(m) # {}}
<1>1. 0 \in T
  <2>1. [n \in 0 .. 0 |-> first] \in UpTo(0)
    OBVIOUS
  <2>. QED
    BY <2>1
<1>2. ASSUME NEW m \in Nat, m \in T PROVE m + 1 \in T
  <2>. SUFFICES ASSUME m + 1 <= N PROVE UpTo(m + 1) # {}
    OBVIOUS
  <2>0. m \in 0 .. m /\ m + 1 \in 1 .. N
    OBVIOUS
  <2>1. PICK f \in UpTo(m) : TRUE
    BY <1>2
  <2>2. f \in [0 .. m -> V] /\ f[0] = first /\ \A n \in 0 .. m - 1 : Step(f, n)
    BY <2>1
  <2>. HIDE DEF T, UpTo
  <2>3. PICK v \in V : v = step[<<m + 1, f[m]>>]
    BY <2>0, <2>2
  <2>. DEFINE g == [n \in 0 .. m + 1 |-> IF n <= m THEN f[n] ELSE v]
  <2>4. /\ g \in [0 .. m + 1 -> V] /\ g[m + 1] = v
        /\ \A n \in 0 .. m : g[n] = f[n]
    BY <2>2, <2>3
  <2>. HIDE DEF g
  <2>5. g[0] = first
    BY <2>2, <2>4
  <2>6. ASSUME NEW n \in 0 .. m PROVE Step(g, n)
    <3>1. CASE n = m
      BY <2>3, <2>4, <3>1
    <3>2. CASE n \in 0 .. m - 1
      BY <2>2, <2>4, <3>2
    <3>. QED
      BY <3>1, <3>2
  <2>7. g \in UpTo(m + 1)
    BY <2>4, <2>5, <2>6 DEF UpTo
  <2>. QED
    BY <2>7
<1>3. N \in T
  <2>. HIDE DEF T
  <2>. QED
    BY <1>1, <1>2, SetInduction
<1>4. PICK f \in UpTo(N) : TRUE
  BY <1>3
<1>5. f \in [0 .. N -> V] /\ f[0] = first /\ \A n \in 0 .. N - 1 : Step(f, n)
  BY <1>4
<1>6. ASSUME NEW n \in 0 .. N PROVE f[n] = IF n = 0 THEN first ELSE step[<<n, f[n - 1]>>]
  <2>1. CASE n # 0
    <3>1. n - 1 \in 0 .. N - 1 /\ (n - 1) + 1 = n
      BY <2>1
    <3>. QED
      BY <1>5, <3>1, <2>1
  <2>. QED
    BY <1>5, <2>1
<1>. HIDE DEF UpTo, Step, T
<1>7. Recursion(f, N, first, step)
  BY <1>5, <1>6 DEF Recursion
<1>. QED
  BY <1>5, <1>7

\* A set of naturals has a least member, and one of them up to N a greatest.
LEMMA LeastExists ==
    ASSUME NEW S \in SUBSET Nat, S # {}
    PROVE  \E x \in S : \A y \in S : x <= y
<1>. SUFFICES ASSUME \A x \in S : \E y \in S : ~(x <= y) PROVE FALSE
  OBVIOUS
<1>. DEFINE T == {n \in Nat : \A y \in S : n <= y}
<1>1. 0 \in T
  OBVIOUS
<1>2. ASSUME NEW n \in Nat, n \in T PROVE n + 1 \in T
  <2>1. n \notin S
    BY <1>2
  <2>2. \A y \in S : n <= y /\ n # y /\ y \in Nat
    BY <1>2, <2>1
  <2>. QED
    BY <2>2
<1>. HIDE DEF T
<1>3. Nat \subseteq T
  BY <1>1, <1>2, SetInduction
<1>4. PICK y \in S : TRUE
  OBVIOUS
<1>5. y + 1 \in Nat
  OBVIOUS
<1>6. y + 1 \in T
  BY <1>3, <1>5
<1>. QED
  BY <1>6 DEF T

LEMMA MinOf ==
    ASSUME NEW S \in SUBSET Nat, S # {}
    PROVE  Min(S) \in S /\ \A y \in S : Min(S) <= y
BY LeastExists DEF Min

LEMMA MaxOf ==
    ASSUME NEW N \in Nat, NEW S \in SUBSET (0 .. N), S # {}
    PROVE  Max(S) \in S /\ \A y \in S : y <= Max(S)
<1>. DEFINE T == {N - x : x \in S}
<1>1. T \in SUBSET Nat /\ T # {}
  <2>1. \A x \in 0 .. N : N - x \in Nat
    OBVIOUS
  <2>. QED
    BY <2>1
<1>2. PICK t \in T : \A y \in T : t <= y
  <2>. HIDE DEF T
  <2>. QED
    BY <1>1, LeastExists
<1>3. PICK x \in S : t = N - x
  OBVIOUS
<1>4. \A y \in S : x >= y
  <2>. SUFFICES ASSUME NEW y \in S PROVE x >= y
    OBVIOUS
  <2>1. N - x <= N - y
    BY <1>2, <1>3
  <2>. QED
    BY <2>1
<1>5. Max(S) \in S /\ \A y \in S : Max(S) >= y
  BY <1>4 DEF Max
<1>6. \A x1, y1 \in 0 .. N : x1 >= y1 => y1 <= x1
  OBVIOUS
<1>. QED
  BY <1>5, <1>6

-----------------------------------------------------------------------------
(* Sequences *)

LEMMA ToSetTyped == ASSUME NEW S, NEW s \in Seq(S) PROVE ToSet(s) \subseteq S
BY LenProperties DEF ToSet

LEMMA ToSetConcat ==
    ASSUME NEW S, NEW s \in Seq(S), NEW t \in Seq(S)
    PROVE  ToSet(s \o t) = ToSet(s) \cup ToSet(t)
<1>1. Range(s \o t) = Range(s) \cup Range(t)
  BY RangeConcatenation
<1>. QED
  BY <1>1, Zenon DEF ToSet, Range

LEMMA ConcatInjective ==
    ASSUME NEW S, NEW s \in Seq(S), NEW t \in Seq(S),
           IsInjective(s), IsInjective(t), ToSet(s) \cap ToSet(t) = {}
    PROVE  IsInjective(s \o t)
<1>1. /\ s \o t \in Seq(S) /\ DOMAIN (s \o t) = 1 .. Len(s) + Len(t)
      /\ Len(s) \in Nat /\ Len(t) \in Nat
      /\ DOMAIN s = 1 .. Len(s) /\ DOMAIN t = 1 .. Len(t)
  BY ConcatProperties, LenProperties
<1>2. \A i \in 1 .. Len(s) + Len(t) : (s \o t)[i] = IF i <= Len(s) THEN s[i] ELSE t[i - Len(s)]
  BY ConcatProperties
<1>3. SUFFICES ASSUME NEW i \in 1 .. Len(s) + Len(t), NEW j \in 1 .. Len(s) + Len(t),
                      (s \o t)[i] = (s \o t)[j], i <= j
               PROVE  i = j
  BY <1>1 DEF IsInjective
<1>4. CASE j <= Len(s)
  <2>1. s[i] = s[j] /\ i \in DOMAIN s /\ j \in DOMAIN s
    BY <1>1, <1>2, <1>3, <1>4
  <2>. QED
    BY <2>1 DEF IsInjective
<1>5. CASE i > Len(s)
  <2>1. /\ t[i - Len(s)] = t[j - Len(s)]
        /\ i - Len(s) \in DOMAIN t /\ j - Len(s) \in DOMAIN t
    BY <1>1, <1>2, <1>3, <1>5
  <2>2. i - Len(s) = j - Len(s)
    BY <2>1 DEF IsInjective
  <2>. QED
    BY <1>1, <2>2
<1>6. CASE i <= Len(s) /\ j > Len(s)
  <2>1. s[i] = t[j - Len(s)] /\ i \in DOMAIN s /\ j - Len(s) \in DOMAIN t
    BY <1>1, <1>2, <1>3, <1>6
  <2>. QED
    BY <2>1 DEF ToSet
<1>. QED
  BY <1>1, <1>4, <1>5, <1>6

\* An element inserted anywhere
LEMMA InsertAtProperties ==
    ASSUME NEW S, NEW s \in Seq(S), NEW i \in 1 .. Len(s) + 1, NEW e \in S
    PROVE  /\ InsertAt(s, i, e) \in Seq(S)
           /\ Len(InsertAt(s, i, e)) = Len(s) + 1
           /\ ToSet(InsertAt(s, i, e)) = ToSet(s) \cup {e}
           /\ IsInjective(s) /\ e \notin ToSet(s) => IsInjective(InsertAt(s, i, e))
<1>. DEFINE before == SubSeq(s, 1, i - 1)
            after == SubSeq(s, i, Len(s))
<1>1. Len(s) \in Nat /\ DOMAIN s = 1 .. Len(s) /\ \A k \in 1 .. Len(s) : s[k] \in S
  BY LenProperties
<1>2. /\ before \in Seq(S) /\ Len(before) = i - 1
      /\ \A k \in 1 .. i - 1 : before[k] = s[k]
  <2>1. \A k \in 1 .. i - 1 : s[k] \in S
    BY <1>1
  <2>. QED
    BY <1>1, <2>1, SubSeqProperties
<1>3. /\ after \in Seq(S) /\ Len(after) = Len(s) - i + 1
      /\ \A k \in 1 .. Len(s) - i + 1 : after[k] = s[i + k - 1]
  <2>1. \A k \in i .. Len(s) : s[k] \in S
    BY <1>1
  <2>. QED
    BY <1>1, <2>1, SubSeqProperties
<1>. HIDE DEF before, after
<1>4. DOMAIN before = 1 .. i - 1 /\ DOMAIN after = 1 .. Len(s) - i + 1
  BY <1>2, <1>3, LenProperties
<1>5. /\ <<e>> \in Seq(S) /\ Len(<<e>>) = 1 /\ ToSet(<<e>>) = {e} /\ IsInjective(<<e>>)
  BY DEF ToSet, IsInjective
<1>. DEFINE first == before \o <<e>>
<1>6. first \in Seq(S) /\ Len(first) = i /\ ToSet(first) = ToSet(before) \cup {e}
  <2>1. first \in Seq(S) /\ Len(first) = Len(before) + Len(<<e>>)
    BY <1>2, <1>5, ConcatProperties
  <2>2. ToSet(first) = ToSet(before) \cup ToSet(<<e>>)
    BY <1>2, <1>5, ToSetConcat, ZenonT(30)
  <2>. QED
    BY <1>2, <1>5, <2>1, <2>2
<1>. HIDE DEF first
<1>7. /\ first \o after \in Seq(S) /\ Len(first \o after) = Len(s) + 1
      /\ ToSet(first \o after) = (ToSet(before) \cup {e}) \cup ToSet(after)
  <2>1. first \o after \in Seq(S) /\ Len(first \o after) = Len(first) + Len(after)
    BY <1>3, <1>6, ConcatProperties
  <2>2. ToSet(first \o after) = ToSet(first) \cup ToSet(after)
    BY <1>3, <1>6, ToSetConcat
  <2>. QED
    BY <1>1, <1>3, <1>6, <2>1, <2>2
<1>8. InsertAt(s, i, e) = first \o after
  BY DEF InsertAt, before, after, first
<1>9. ToSet(s) = ToSet(before) \cup ToSet(after)
  <2>1. ToSet(before) = {s[k] : k \in 1 .. i - 1}
    BY <1>2, <1>4 DEF ToSet
  <2>2. ToSet(after) = {s[k] : k \in i .. Len(s)}
    <3>1. \A k \in i .. Len(s) : k - i + 1 \in 1 .. Len(s) - i + 1 /\ i + (k - i + 1) - 1 = k
      BY <1>1
    <3>2. \A k \in 1 .. Len(s) - i + 1 : i + k - 1 \in i .. Len(s)
      BY <1>1
    <3>3. ToSet(after) = {after[k] : k \in 1 .. Len(s) - i + 1}
      BY <1>4 DEF ToSet
    <3>4. ASSUME NEW k \in i .. Len(s) PROVE s[k] \in ToSet(after)
      <4>1. after[k - i + 1] = s[k]
        BY <1>1, <1>3, <3>1
      <4>. QED
        BY <3>1, <3>3, <4>1
    <3>5. ASSUME NEW k \in 1 .. Len(s) - i + 1 PROVE after[k] \in {s[l] : l \in i .. Len(s)}
      BY <1>3, <3>2
    <3>. QED
      BY <3>3, <3>4, <3>5
  <2>3. 1 .. Len(s) = (1 .. i - 1) \cup (i .. Len(s))
    BY <1>1
  <2>. QED
    BY <1>1, <2>1, <2>2, <2>3 DEF ToSet
<1>10. ASSUME IsInjective(s), e \notin ToSet(s) PROVE IsInjective(InsertAt(s, i, e))
  <2>1. IsInjective(before)
    <3>. SUFFICES ASSUME NEW k \in 1 .. i - 1, NEW l \in 1 .. i - 1, before[k] = before[l]
                  PROVE  k = l
      BY <1>4 DEF IsInjective
    <3>1. k \in DOMAIN s /\ l \in DOMAIN s /\ s[k] = s[l]
      BY <1>1, <1>2
    <3>. QED
      BY <1>10, <3>1 DEF IsInjective
  <2>2. IsInjective(after)
    <3>. SUFFICES ASSUME NEW k \in 1 .. Len(s) - i + 1, NEW l \in 1 .. Len(s) - i + 1,
                         after[k] = after[l]
                  PROVE  k = l
      BY <1>4 DEF IsInjective
    <3>1. i + k - 1 \in DOMAIN s /\ i + l - 1 \in DOMAIN s /\ s[i + k - 1] = s[i + l - 1]
      <4>1. i + k - 1 \in 1 .. Len(s) /\ i + l - 1 \in 1 .. Len(s)
        BY <1>1
      <4>2. after[k] = s[i + k - 1] /\ after[l] = s[i + l - 1]
        BY <1>3
      <4>. QED
        BY <1>1, <4>1, <4>2
    <3>2. i + k - 1 = i + l - 1
      BY <1>10, <3>1 DEF IsInjective
    <3>. QED
      BY <1>1, <3>2
  <2>3. ToSet(before) \cap ToSet(after) = {}
    <3>. SUFFICES ASSUME NEW k \in 1 .. i - 1, NEW l \in 1 .. Len(s) - i + 1,
                         before[k] = after[l]
                  PROVE  FALSE
      BY <1>4 DEF ToSet
    <3>1. k \in DOMAIN s /\ i + l - 1 \in DOMAIN s /\ s[k] = s[i + l - 1]
      BY <1>1, <1>2, <1>3
    <3>2. k = i + l - 1
      BY <1>10, <3>1 DEF IsInjective
    <3>. QED
      BY <3>2
  <2>4. IsInjective(before \o <<e>>)
    BY <1>2, <1>5, <1>9, <1>10, <2>1, ConcatInjective
  <2>5. ToSet(first) \cap ToSet(after) = {}
    BY <1>6, <1>9, <1>10, <2>3
  <2>6. IsInjective(first \o after)
    BY <1>3, <1>6, <2>2, <2>4, <2>5, ConcatInjective DEF first
  <2>. QED
    BY <1>8, <2>6
<1>. QED
  BY <1>8, <1>7, <1>9, <1>10

-----------------------------------------------------------------------------
(* For, Nested and Nested3 *)

\* The list after n passes, of a loop whose body pushes elements of S
Passes(f, s, body, S) ==
    /\ f \in [0 .. Len(s) -> Seq(S)]
    /\ f[0] = <<>>
    /\ \A n \in 1 .. Len(s) : f[n] = f[n - 1] \o body[s[n]]

LEMMA ForPasses ==
    ASSUME NEW A, NEW s \in Seq(A), NEW S, NEW body, \A x \in ToSet(s) : body[x] \in Seq(S)
    PROVE  \E f : Passes(f, s, body, S) /\ For(s, body) = f[Len(s)]
<1>. DEFINE step == [p \in (1 .. Len(s)) \X Seq(S) |-> p[2] \o body[s[p[1]]]]
            IsDone(f) == f = [n \in 0 .. Len(s) |->
                                IF n = 0 THEN <<>> ELSE f[n - 1] \o body[s[n]]]
            done == CHOOSE f : IsDone(f)
<1>1. \A n \in 1 .. Len(s) : body[s[n]] \in Seq(S)
  BY DEF ToSet
<1>2. \A n \in 1 .. Len(s), l \in Seq(S) : l \o body[s[n]] \in Seq(S)
  BY <1>1, ConcatProperties
<1>3. step \in [(1 .. Len(s)) \X Seq(S) -> Seq(S)]
  BY <1>2
<1>4. \A n \in 1 .. Len(s), l \in Seq(S) : step[<<n, l>>] = l \o body[s[n]]
  OBVIOUS
<1>5. Len(s) \in Nat
  BY LenProperties
<1>6. <<>> \in Seq(S)
  OBVIOUS
<1>. HIDE DEF step
<1>7. \E f \in [0 .. Len(s) -> Seq(S)] : Recursion(f, Len(s), <<>>, step)
  <2>. HIDE DEF IsDone, done
  <2>. QED
    BY <1>3, <1>5, <1>6, RecursionExists, Zenon
<1>8. PICK f \in [0 .. Len(s) -> Seq(S)] : Recursion(f, Len(s), <<>>, step)
  BY <1>7, Zenon
<1>9. ASSUME NEW n \in 0 .. Len(s), n # 0
      PROVE  step[<<n, f[n - 1]>>] = f[n - 1] \o body[s[n]]
  <2>1. n \in 1 .. Len(s) /\ n - 1 \in 0 .. Len(s)
    BY <1>5, <1>9
  <2>2. f[n - 1] \in Seq(S)
    BY <2>1
  <2>. QED
    BY <1>4, <2>1, <2>2
<1>10. IsDone(f)
  BY <1>8, <1>9 DEF Recursion
<1>11. IsDone(done)
  BY <1>10
<1>12. For(s, body) = done[Len(s)]
  BY DEF For
<1>. HIDE DEF done
<1>13. done[0] = <<>> /\ \A n \in 1 .. Len(s) : done[n] = done[n - 1] \o body[s[n]]
  BY <1>5, <1>11, SMTT(30)
<1>14. DOMAIN done = 0 .. Len(s) /\ done = [n \in DOMAIN done |-> done[n]]
  BY <1>11
<1>15. \A n \in 0 .. Len(s) : done[n] \in Seq(S)
  <2>. DEFINE T == {n \in 0 .. Len(s) : done[n] \in Seq(S)}
  <2>1. 0 \in T
    BY <1>5, <1>13
  <2>2. ASSUME NEW n \in 0 .. Len(s) - 1, n \in T PROVE n + 1 \in T
    <3>1. n + 1 \in 1 .. Len(s) /\ (n + 1) - 1 = n
      BY <1>5
    <3>2. done[n + 1] = done[n] \o body[s[n + 1]]
      BY <1>13, <3>1
    <3>3. done[n] \in Seq(S)
      BY <2>2
    <3>4. done[n] \o body[s[n + 1]] \in Seq(S)
      BY <1>2, <3>1, <3>3
    <3>5. done[n + 1] \in Seq(S) /\ n + 1 \in 0 .. Len(s)
      <4>. HIDE DEF T, IsDone
      <4>. QED
        BY <1>5, <3>1, <3>2, <3>4
    <3>. QED
      BY <3>5
  <2>3. 0 .. Len(s) \subseteq T
    <3>. HIDE DEF T
    <3>. QED
      BY <1>5, <2>1, <2>2, InductionUpTo
  <2>. QED
    BY <2>3
<1>16. Passes(done, s, body, S)
  BY <1>13, <1>14, <1>15 DEF Passes
<1>. QED
  BY <1>12, <1>16

\* What the first n passes push
SaidBy(n, s, body) == UNION {ToSet(body[s[k]]) : k \in 1 .. n}

LEMMA PassesPush ==
    ASSUME NEW A, NEW s \in Seq(A), NEW S, NEW body, \A x \in ToSet(s) : body[x] \in Seq(S),
           NEW f, Passes(f, s, body, S)
    PROVE  \A n \in 0 .. Len(s) : ToSet(f[n]) = SaidBy(n, s, body)
<1>1. /\ f \in [0 .. Len(s) -> Seq(S)] /\ f[0] = <<>>
      /\ \A n \in 1 .. Len(s) : f[n] = f[n - 1] \o body[s[n]]
  BY DEF Passes
<1>2. Len(s) \in Nat /\ ToSet(s) = {s[n] : n \in 1 .. Len(s)}
  BY LenProperties DEF ToSet
<1>. DEFINE Said(n) == SaidBy(n, s, body)
            T == {n \in 0 .. Len(s) : ToSet(f[n]) = Said(n)}
<1>3. 0 \in T
  BY <1>1, <1>2 DEF ToSet, SaidBy
<1>4. ASSUME NEW n \in 0 .. Len(s) - 1, n \in T PROVE n + 1 \in T
  <2>1. n + 1 \in 1 .. Len(s) /\ (n + 1) - 1 = n /\ n \in 0 .. Len(s)
    BY <1>2
  <2>2. f[n] \in Seq(S) /\ body[s[n + 1]] \in Seq(S)
    BY <1>1, <1>2, <2>1
  <2>3. ToSet(f[n] \o body[s[n + 1]]) = ToSet(f[n]) \cup ToSet(body[s[n + 1]])
    BY <2>2, ToSetConcat
  <2>4. ToSet(f[n + 1]) = Said(n) \cup ToSet(body[s[n + 1]])
    BY <1>1, <1>4, <2>1, <2>3
  <2>5. Said(n + 1) = Said(n) \cup ToSet(body[s[n + 1]])
    <3>1. 1 .. n + 1 = (1 .. n) \cup {n + 1}
      BY <2>1
    <3>. QED
      BY <3>1 DEF SaidBy
  <2>6. n + 1 \in 0 .. Len(s) /\ ToSet(f[n + 1]) = Said(n + 1)
    BY <1>2, <2>1, <2>4, <2>5
  <2>. QED
    BY <2>6
<1>5. 0 .. Len(s) \subseteq T
  <2>. HIDE DEF T
  <2>. QED
    BY <1>2, <1>3, <1>4, InductionUpTo
<1>. QED
  BY <1>5

\* A loop pushes what its passes push, and nothing else.
LEMMA ForProperties ==
    ASSUME NEW A, NEW s \in Seq(A), NEW S, NEW body, \A x \in ToSet(s) : body[x] \in Seq(S)
    PROVE  /\ For(s, body) \in Seq(S)
           /\ ToSet(For(s, body)) = UNION {ToSet(body[x]) : x \in ToSet(s)}
<1>1. PICK f : Passes(f, s, body, S) /\ For(s, body) = f[Len(s)]
  BY ForPasses, Zenon
<1>2. \A n \in 0 .. Len(s) : ToSet(f[n]) = SaidBy(n, s, body)
  BY <1>1, PassesPush
<1>3. Len(s) \in 0 .. Len(s) /\ ToSet(s) = {s[n] : n \in 1 .. Len(s)}
  BY LenProperties DEF ToSet
<1>4. ToSet(f[Len(s)]) = UNION {ToSet(body[s[k]]) : k \in 1 .. Len(s)}
  BY <1>2, <1>3 DEF SaidBy
<1>5. UNION {ToSet(body[s[k]]) : k \in 1 .. Len(s)} = UNION {ToSet(body[x]) : x \in ToSet(s)}
  BY <1>3
<1>6. f[Len(s)] \in Seq(S)
  BY <1>1, <1>3 DEF Passes
<1>. QED
  BY <1>1, <1>4, <1>5, <1>6

\* Of a loop over distinct values whose passes push distinct elements, and no two
\* the same one, the elements are distinct.
LEMMA ForInjective ==
    ASSUME NEW A, NEW s \in Seq(A), NEW S, NEW body, \A x \in ToSet(s) : body[x] \in Seq(S),
           IsInjective(s), \A x \in ToSet(s) : IsInjective(body[x]),
           \A x, y \in ToSet(s) : x # y => ToSet(body[x]) \cap ToSet(body[y]) = {}
    PROVE  IsInjective(For(s, body))
<1>1. PICK f : Passes(f, s, body, S) /\ For(s, body) = f[Len(s)]
  BY ForPasses, Zenon
<1>2. /\ f \in [0 .. Len(s) -> Seq(S)] /\ f[0] = <<>>
      /\ \A n \in 1 .. Len(s) : f[n] = f[n - 1] \o body[s[n]]
  BY <1>1 DEF Passes
<1>3. \A n \in 0 .. Len(s) : ToSet(f[n]) = SaidBy(n, s, body)
  BY <1>1, PassesPush
<1>4. Len(s) \in Nat /\ DOMAIN s = 1 .. Len(s) /\ \A n \in 1 .. Len(s) : s[n] \in ToSet(s)
  BY LenProperties DEF ToSet
<1>. DEFINE T == {n \in 0 .. Len(s) : IsInjective(f[n])}
<1>5. 0 \in T
  BY <1>2, <1>4 DEF IsInjective
<1>6. ASSUME NEW n \in 0 .. Len(s) - 1, n \in T PROVE n + 1 \in T
  <2>1. n + 1 \in 1 .. Len(s) /\ (n + 1) - 1 = n /\ n \in 0 .. Len(s) /\ n + 1 \in 0 .. Len(s)
    BY <1>4
  <2>2. f[n] \in Seq(S) /\ body[s[n + 1]] \in Seq(S) /\ IsInjective(body[s[n + 1]])
    BY <1>2, <1>4, <2>1
  <2>3. ASSUME NEW k \in 1 .. n PROVE ToSet(body[s[k]]) \cap ToSet(body[s[n + 1]]) = {}
    <3>1. k \in 1 .. Len(s) /\ k # n + 1
      BY <1>4, <2>1
    <3>2. s[k] # s[n + 1]
      BY <1>4, <2>1, <3>1 DEF IsInjective
    <3>. QED
      BY <1>4, <2>1, <3>1, <3>2
  <2>4. ToSet(f[n]) \cap ToSet(body[s[n + 1]]) = {}
    <3>. SUFFICES ASSUME NEW v \in ToSet(f[n]), v \in ToSet(body[s[n + 1]]) PROVE FALSE
      OBVIOUS
    <3>1. v \in UNION {ToSet(body[s[k]]) : k \in 1 .. n}
      BY <1>3, <2>1 DEF SaidBy
    <3>2. PICK k \in 1 .. n : v \in ToSet(body[s[k]])
      BY <3>1
    <3>. QED
      BY <2>3, <3>2
  <2>5. IsInjective(f[n] \o body[s[n + 1]])
    BY <1>6, <2>2, <2>4, ConcatInjective
  <2>6. f[n + 1] = f[n] \o body[s[n + 1]]
    BY <1>2, <2>1
  <2>. QED
    BY <2>1, <2>5, <2>6
<1>7. 0 .. Len(s) \subseteq T
  <2>. HIDE DEF T
  <2>. QED
    BY <1>4, <1>5, <1>6, InductionUpTo
<1>. QED
  BY <1>1, <1>4, <1>7

\* What the body of two or three loops pushes
Values(body) == UNION {ToSet(body[o]) : o \in DOMAIN body}
Values2(a, b, body) ==
    {v \in Values(body) : \E x \in ToSet(a), y \in ToSet(b) :
        <<x, y>> \in DOMAIN body /\ v \in ToSet(body[<<x, y>>])}
Values3(a, b, c, body) ==
    {v \in Values(body) : \E x \in ToSet(a), y \in ToSet(b), z \in ToSet(c) :
        <<x, y, z>> \in DOMAIN body /\ v \in ToSet(body[<<x, y, z>>])}

\* Two loops push what the body pushes for the pairs it is defined for.
LEMMA NestedProperties ==
    ASSUME NEW A, NEW B, NEW a \in Seq(A), NEW b \in Seq(B), NEW S,
           NEW body, \A o \in DOMAIN body : body[o] \in Seq(S)
    PROVE  /\ Nested(a, b, body) \in Seq(S)
           /\ ToSet(Nested(a, b, body)) = Values2(a, b, body)
<1>. DEFINE pass(o) == IF o \in DOMAIN body THEN body[o] ELSE <<>>
            row(x) == [y \in ToSet(b) |-> pass(<<x, y>>)]
            rows == [x \in ToSet(a) |-> For(b, row(x))]
<1>1. \A o : pass(o) \in Seq(S) /\ \A v : v \in ToSet(pass(o)) <=> o \in DOMAIN body /\ v \in ToSet(body[o])
  BY DEF ToSet
<1>2. ASSUME NEW x \in ToSet(a)
      PROVE  /\ For(b, row(x)) \in Seq(S)
             /\ \A v : v \in ToSet(For(b, row(x))) <=> \E y \in ToSet(b) : v \in ToSet(pass(<<x, y>>))
  <2>1. \A y \in ToSet(b) : row(x)[y] = pass(<<x, y>>)
    OBVIOUS
  <2>. HIDE DEF row, pass
  <2>2. \A y \in ToSet(b) : row(x)[y] \in Seq(S)
    BY <1>1, <2>1
  <2>3. /\ For(b, row(x)) \in Seq(S)
        /\ ToSet(For(b, row(x))) = UNION {ToSet(row(x)[y]) : y \in ToSet(b)}
    BY <2>2, ForProperties
  <2>. QED
    BY <2>1, <2>3
<1>3. /\ For(a, rows) \in Seq(S)
      /\ \A v : v \in ToSet(For(a, rows)) <=> \E x \in ToSet(a) : v \in ToSet(For(b, row(x)))
  <2>. HIDE DEF row, pass
  <2>1. \A x \in ToSet(a) : rows[x] = For(b, row(x))
    OBVIOUS
  <2>. HIDE DEF rows
  <2>2. \A x \in ToSet(a) : rows[x] \in Seq(S)
    BY <1>2, <2>1
  <2>3. /\ For(a, rows) \in Seq(S)
        /\ ToSet(For(a, rows)) = UNION {ToSet(rows[x]) : x \in ToSet(a)}
    BY <2>2, ForProperties
  <2>. QED
    BY <2>1, <2>3
<1>4. Nested(a, b, body) = For(a, rows)
  BY DEF Nested
<1>. HIDE DEF rows, row, pass
<1>5. ASSUME NEW v
      PROVE  v \in ToSet(Nested(a, b, body)) <=>
                \E x \in ToSet(a), y \in ToSet(b) :
                    <<x, y>> \in DOMAIN body /\ v \in ToSet(body[<<x, y>>])
  BY <1>1, <1>2, <1>3, <1>4
<1>6. ToSet(Nested(a, b, body)) = Values2(a, b, body)
  BY <1>5 DEF Values, Values2
<1>. QED
  BY <1>3, <1>4, <1>6

\* The elements are distinct where those of every pass are and no two passes push
\* the same.
LEMMA NestedInjective ==
    ASSUME NEW A, NEW B, NEW a \in Seq(A), NEW b \in Seq(B), NEW S,
           NEW body, \A o \in DOMAIN body : body[o] \in Seq(S),
           IsInjective(a), IsInjective(b), \A o \in DOMAIN body : IsInjective(body[o]),
           \A o, q \in (ToSet(a) \X ToSet(b)) \cap DOMAIN body :
              o # q => ToSet(body[o]) \cap ToSet(body[q]) = {}
    PROVE  IsInjective(Nested(a, b, body))
<1>. DEFINE pass(o) == IF o \in DOMAIN body THEN body[o] ELSE <<>>
            row(x) == [y \in ToSet(b) |-> pass(<<x, y>>)]
            rows == [x \in ToSet(a) |-> For(b, row(x))]
<1>1. \A o : /\ pass(o) \in Seq(S) /\ IsInjective(pass(o))
             /\ \A v : v \in ToSet(pass(o)) => o \in DOMAIN body /\ v \in ToSet(body[o])
  BY DEF ToSet, IsInjective
<1>2. ASSUME NEW x \in ToSet(a), NEW y \in ToSet(b), NEW z \in ToSet(a), NEW w \in ToSet(b),
             <<x, y>> # <<z, w>>
      PROVE  ToSet(pass(<<x, y>>)) \cap ToSet(pass(<<z, w>>)) = {}
  <2>. SUFFICES ASSUME NEW v \in ToSet(pass(<<x, y>>)), v \in ToSet(pass(<<z, w>>)) PROVE FALSE
    OBVIOUS
  <2>. HIDE DEF pass
  <2>1. /\ <<x, y>> \in (ToSet(a) \X ToSet(b)) \cap DOMAIN body /\ v \in ToSet(body[<<x, y>>])
        /\ <<z, w>> \in (ToSet(a) \X ToSet(b)) \cap DOMAIN body /\ v \in ToSet(body[<<z, w>>])
    BY <1>1
  <2>2. ToSet(body[<<x, y>>]) \cap ToSet(body[<<z, w>>]) = {}
    BY <1>2, <2>1, Zenon
  <2>. QED
    BY <2>1, <2>2
<1>3. ASSUME NEW x \in ToSet(a)
      PROVE  /\ For(b, row(x)) \in Seq(S) /\ IsInjective(For(b, row(x)))
             /\ \A v \in ToSet(For(b, row(x))) : \E y \in ToSet(b) : v \in ToSet(pass(<<x, y>>))
  <2>1. \A y \in ToSet(b) : row(x)[y] = pass(<<x, y>>)
    OBVIOUS
  <2>. HIDE DEF row, pass
  <2>2. ASSUME NEW y \in ToSet(b) PROVE row(x)[y] \in Seq(S) /\ IsInjective(row(x)[y])
    <3>1. pass(<<x, y>>) \in Seq(S) /\ IsInjective(pass(<<x, y>>))
      BY <1>1, Zenon
    <3>. QED
      BY <2>1, <3>1
  <2>3. ASSUME NEW y \in ToSet(b), NEW z \in ToSet(b), y # z
        PROVE  ToSet(row(x)[y]) \cap ToSet(row(x)[z]) = {}
    <3>1. <<x, y>> # <<x, z>>
      BY <2>3
    <3>2. ToSet(pass(<<x, y>>)) \cap ToSet(pass(<<x, z>>)) = {}
      BY <1>2, <3>1
    <3>. QED
      BY <2>1, <3>2
  <2>4. /\ For(b, row(x)) \in Seq(S)
        /\ ToSet(For(b, row(x))) = UNION {ToSet(row(x)[y]) : y \in ToSet(b)}
    BY <2>2, ForProperties
  <2>5. IsInjective(For(b, row(x)))
    BY <2>2, <2>3, ForInjective
  <2>. QED
    BY <2>1, <2>4, <2>5
<1>4. \A x \in ToSet(a) : rows[x] = For(b, row(x))
  OBVIOUS
<1>. HIDE DEF rows, row, pass
<1>5. \A x \in ToSet(a) : rows[x] \in Seq(S) /\ IsInjective(rows[x])
  BY <1>3, <1>4
<1>6. ASSUME NEW x \in ToSet(a), NEW z \in ToSet(a), x # z,
             NEW v \in ToSet(rows[x]), v \in ToSet(rows[z])
      PROVE  FALSE
  <2>1. PICK y \in ToSet(b) : v \in ToSet(pass(<<x, y>>))
    BY <1>3, <1>4
  <2>2. PICK w \in ToSet(b) : v \in ToSet(pass(<<z, w>>))
    BY <1>3, <1>4, <1>6
  <2>. QED
    BY <1>2, <1>6, <2>1, <2>2
<1>7. IsInjective(For(a, rows))
  BY <1>5, <1>6, ForInjective
<1>. QED
  BY <1>7 DEF Nested, rows, row, pass

\* The same for three loops
LEMMA Nested3Properties ==
    ASSUME NEW A, NEW B, NEW C, NEW a \in Seq(A), NEW b \in Seq(B), NEW c \in Seq(C), NEW S,
           NEW body, \A o \in DOMAIN body : body[o] \in Seq(S)
    PROVE  /\ Nested3(a, b, c, body) \in Seq(S)
           /\ ToSet(Nested3(a, b, c, body)) = Values3(a, b, c, body)
<1>. DEFINE pass(o) == IF o \in DOMAIN body THEN body[o] ELSE <<>>
            layer(x) == [o \in ToSet(b) \X ToSet(c) |-> pass(<<x, o[1], o[2]>>)]
            layers == [x \in ToSet(a) |-> Nested(b, c, layer(x))]
<1>1. \A o : pass(o) \in Seq(S) /\ \A v : v \in ToSet(pass(o)) <=> o \in DOMAIN body /\ v \in ToSet(body[o])
  BY DEF ToSet
<1>2. ASSUME NEW x \in ToSet(a)
      PROVE  /\ Nested(b, c, layer(x)) \in Seq(S)
             /\ \A v : v \in ToSet(Nested(b, c, layer(x))) <=>
                    \E y \in ToSet(b), z \in ToSet(c) : v \in ToSet(pass(<<x, y, z>>))
  <2>1. \A y \in ToSet(b), z \in ToSet(c) : layer(x)[<<y, z>>] = pass(<<x, y, z>>)
    OBVIOUS
  <2>2. DOMAIN layer(x) = ToSet(b) \X ToSet(c)
    OBVIOUS
  <2>3. \A o \in DOMAIN layer(x) : layer(x)[o] = pass(<<x, o[1], o[2]>>)
    OBVIOUS
  <2>. HIDE DEF layer, pass
  <2>4. \A o \in DOMAIN layer(x) : layer(x)[o] \in Seq(S)
    BY <1>1, <2>3
  <2>5. /\ Nested(b, c, layer(x)) \in Seq(S)
        /\ ToSet(Nested(b, c, layer(x))) = Values2(b, c, layer(x))
    BY <2>4, NestedProperties
  <2>. QED
    BY <2>1, <2>2, <2>5 DEF Values, Values2
<1>3. \A x \in ToSet(a) : layers[x] = Nested(b, c, layer(x))
  OBVIOUS
<1>. HIDE DEF layers, layer, pass
<1>4. /\ For(a, layers) \in Seq(S)
      /\ ToSet(For(a, layers)) = UNION {ToSet(layers[x]) : x \in ToSet(a)}
  <2>1. \A x \in ToSet(a) : layers[x] \in Seq(S)
    BY <1>2, <1>3
  <2>. QED
    BY <2>1, ForProperties
<1>5. Nested3(a, b, c, body) = For(a, layers)
  BY Zenon DEF Nested3, layers, layer, pass
<1>6. ASSUME NEW v
      PROVE  v \in ToSet(Nested3(a, b, c, body)) <=>
                \E x \in ToSet(a), y \in ToSet(b), z \in ToSet(c) :
                    <<x, y, z>> \in DOMAIN body /\ v \in ToSet(body[<<x, y, z>>])
  <2>1. v \in ToSet(For(a, layers)) <=> \E x \in ToSet(a) : v \in ToSet(Nested(b, c, layer(x)))
    BY <1>3, <1>4
  <2>. QED
    BY <1>1, <1>2, <1>5, <2>1
<1>7. ToSet(Nested3(a, b, c, body)) = Values3(a, b, c, body)
  BY <1>6 DEF Values, Values3
<1>. QED
  BY <1>4, <1>5, <1>7

LEMMA Nested3Injective ==
    ASSUME NEW A, NEW B, NEW C, NEW a \in Seq(A), NEW b \in Seq(B), NEW c \in Seq(C), NEW S,
           NEW body, \A o \in DOMAIN body : body[o] \in Seq(S),
           IsInjective(a), IsInjective(b), IsInjective(c),
           \A o \in DOMAIN body : IsInjective(body[o]),
           \A o, q \in (ToSet(a) \X ToSet(b) \X ToSet(c)) \cap DOMAIN body :
              o # q => ToSet(body[o]) \cap ToSet(body[q]) = {}
    PROVE  IsInjective(Nested3(a, b, c, body))
<1>. DEFINE pass(o) == IF o \in DOMAIN body THEN body[o] ELSE <<>>
            layer(x) == [o \in ToSet(b) \X ToSet(c) |-> pass(<<x, o[1], o[2]>>)]
            layers == [x \in ToSet(a) |-> Nested(b, c, layer(x))]
<1>1. \A o : /\ pass(o) \in Seq(S) /\ IsInjective(pass(o))
             /\ \A v : v \in ToSet(pass(o)) => o \in DOMAIN body /\ v \in ToSet(body[o])
  BY DEF ToSet, IsInjective
<1>2. ASSUME NEW x \in ToSet(a), NEW y \in ToSet(b), NEW z \in ToSet(c),
             NEW x2 \in ToSet(a), NEW y2 \in ToSet(b), NEW z2 \in ToSet(c),
             <<x, y, z>> # <<x2, y2, z2>>
      PROVE  ToSet(pass(<<x, y, z>>)) \cap ToSet(pass(<<x2, y2, z2>>)) = {}
  <2>. DEFINE here == (ToSet(a) \X ToSet(b) \X ToSet(c)) \cap DOMAIN body
  <2>. SUFFICES ASSUME NEW v \in ToSet(pass(<<x, y, z>>)), v \in ToSet(pass(<<x2, y2, z2>>))
                PROVE  FALSE
    OBVIOUS
  <2>. HIDE DEF pass
  <2>1. /\ <<x, y, z>> \in here /\ v \in ToSet(body[<<x, y, z>>])
        /\ <<x2, y2, z2>> \in here /\ v \in ToSet(body[<<x2, y2, z2>>])
    BY <1>1
  <2>2. ToSet(body[<<x, y, z>>]) \cap ToSet(body[<<x2, y2, z2>>]) = {}
    BY <1>2, <2>1, Zenon
  <2>. QED
    BY <2>1, <2>2
<1>3. ASSUME NEW x \in ToSet(a)
      PROVE  /\ Nested(b, c, layer(x)) \in Seq(S) /\ IsInjective(Nested(b, c, layer(x)))
             /\ \A v \in ToSet(Nested(b, c, layer(x))) :
                    \E y \in ToSet(b), z \in ToSet(c) : v \in ToSet(pass(<<x, y, z>>))
  <2>1. /\ DOMAIN layer(x) = ToSet(b) \X ToSet(c)
        /\ \A o \in DOMAIN layer(x) : layer(x)[o] = pass(<<x, o[1], o[2]>>)
        /\ \A y \in ToSet(b), z \in ToSet(c) : layer(x)[<<y, z>>] = pass(<<x, y, z>>)
    OBVIOUS
  <2>. HIDE DEF layer, pass
  <2>2. ASSUME NEW o \in DOMAIN layer(x) PROVE layer(x)[o] \in Seq(S) /\ IsInjective(layer(x)[o])
    <3>1. pass(<<x, o[1], o[2]>>) \in Seq(S) /\ IsInjective(pass(<<x, o[1], o[2]>>))
      BY <1>1, Zenon
    <3>. QED
      BY <2>1, <3>1
  <2>3. ASSUME NEW o \in DOMAIN layer(x), NEW q \in DOMAIN layer(x), o # q
        PROVE  ToSet(layer(x)[o]) \cap ToSet(layer(x)[q]) = {}
    <3>1. /\ o = <<o[1], o[2]>> /\ q = <<q[1], q[2]>>
          /\ o[1] \in ToSet(b) /\ o[2] \in ToSet(c) /\ q[1] \in ToSet(b) /\ q[2] \in ToSet(c)
      BY <2>1
    <3>2. <<x, o[1], o[2]>> # <<x, q[1], q[2]>>
      BY <2>3, <3>1
    <3>3. /\ layer(x)[o] = pass(<<x, o[1], o[2]>>) /\ layer(x)[q] = pass(<<x, q[1], q[2]>>)
          /\ ToSet(pass(<<x, o[1], o[2]>>)) \cap ToSet(pass(<<x, q[1], q[2]>>)) = {}
      BY <1>2, <2>1, <3>1, <3>2, Zenon
    <3>. QED
      BY <3>3, Zenon
  <2>. HIDE DEF layers
  <2>4. \A o \in DOMAIN layer(x) : layer(x)[o] \in Seq(S)
    BY <2>2
  <2>5. /\ Nested(b, c, layer(x)) \in Seq(S)
        /\ ToSet(Nested(b, c, layer(x))) = Values2(b, c, layer(x))
    BY <2>4, NestedProperties
  <2>6. IsInjective(Nested(b, c, layer(x)))
    BY <2>2, <2>3, NestedInjective
  <2>7. ASSUME NEW v \in ToSet(Nested(b, c, layer(x)))
        PROVE  \E y \in ToSet(b), z \in ToSet(c) : v \in ToSet(pass(<<x, y, z>>))
    <3>1. PICK y \in ToSet(b), z \in ToSet(c) : v \in ToSet(layer(x)[<<y, z>>])
      BY <2>5, <2>1 DEF Values, Values2
    <3>2. layer(x)[<<y, z>>] = pass(<<x, y, z>>)
      BY <2>1, Zenon
    <3>. QED
      BY <3>1, <3>2, Zenon
  <2>. QED
    BY <2>5, <2>6, <2>7, Zenon
<1>4. \A x \in ToSet(a) : layers[x] = Nested(b, c, layer(x))
  OBVIOUS
<1>. HIDE DEF layers, layer, pass
<1>5. \A x \in ToSet(a) : layers[x] \in Seq(S) /\ IsInjective(layers[x])
  BY <1>3, <1>4
<1>6. ASSUME NEW x \in ToSet(a), NEW z \in ToSet(a), x # z,
             NEW v \in ToSet(layers[x]), v \in ToSet(layers[z])
      PROVE  FALSE
  <2>1. PICK y \in ToSet(b), y2 \in ToSet(c) : v \in ToSet(pass(<<x, y, y2>>))
    BY <1>3, <1>4
  <2>2. PICK w \in ToSet(b), w2 \in ToSet(c) : v \in ToSet(pass(<<z, w, w2>>))
    BY <1>3, <1>4, <1>6
  <2>. QED
    BY <1>2, <1>6, <2>1, <2>2
<1>7. IsInjective(For(a, layers))
  BY <1>5, <1>6, ForInjective
<1>8. Nested3(a, b, c, body) = For(a, layers)
  BY Zenon DEF Nested3, layers, layer, pass
<1>. QED
  BY <1>7, <1>8

-----------------------------------------------------------------------------
(* Loops whose passes push one element, or none *)

LEMMA ToSetOne == \A v : ToSet(<<v>>) = {v} /\ IsInjective(<<v>>)
BY DEF ToSet, IsInjective

Ones(body, place, S) == \A o \in DOMAIN body : place[o] \in S /\ body[o] = <<place[o]>>

LEMMA OnesPass ==
    ASSUME NEW S, NEW body, NEW place, Ones(body, place, S), NEW o \in DOMAIN body
    PROVE  body[o] \in Seq(S) /\ ToSet(body[o]) = {place[o]} /\ IsInjective(body[o])
<1>1. place[o] \in S /\ body[o] = <<place[o]>>
  BY DEF Ones
<1>2. ToSet(<<place[o]>>) = {place[o]} /\ IsInjective(<<place[o]>>)
  BY ToSetOne
<1>3. <<place[o]>> \in Seq(S)
  BY <1>1
<1>. QED
  BY <1>1, <1>2, <1>3

Picked2(v, a, b, body, place) ==
    \E x \in ToSet(a), y \in ToSet(b) : <<x, y>> \in DOMAIN body /\ v = place[<<x, y>>]
Picked3(v, a, b, c, body, place) ==
    \E x \in ToSet(a), y \in ToSet(b), z \in ToSet(c) :
        <<x, y, z>> \in DOMAIN body /\ v = place[<<x, y, z>>]

Apart2(a, b, body, place) ==
    \A o, q \in (ToSet(a) \X ToSet(b)) \cap DOMAIN body : place[o] = place[q] => o = q
Apart3(a, b, c, body, place) ==
    \A o, q \in (ToSet(a) \X ToSet(b) \X ToSet(c)) \cap DOMAIN body : place[o] = place[q] => o = q

LEMMA NestedOnes ==
    ASSUME NEW A, NEW B, NEW a \in Seq(A), NEW b \in Seq(B), NEW S,
           NEW body, NEW place, Ones(body, place, S)
    PROVE  /\ Nested(a, b, body) \in Seq(S)
           /\ \A v : v \in ToSet(Nested(a, b, body)) <=> Picked2(v, a, b, body, place)
           /\ IsInjective(a) /\ IsInjective(b) /\ Apart2(a, b, body, place)
                => IsInjective(Nested(a, b, body))
<1>1. \A o \in DOMAIN body : body[o] \in Seq(S)
  BY OnesPass
<1>2. \A o \in DOMAIN body : IsInjective(body[o])
  BY OnesPass
<1>3. \A o \in DOMAIN body : ToSet(body[o]) = {place[o]}
  BY OnesPass
<1>4. /\ Nested(a, b, body) \in Seq(S)
      /\ ToSet(Nested(a, b, body)) = Values2(a, b, body)
  BY <1>1, NestedProperties
<1>5. ASSUME NEW v
      PROVE  v \in Values2(a, b, body) <=> Picked2(v, a, b, body, place)
  BY <1>3 DEF Values, Values2, Picked2
<1>6. ASSUME IsInjective(a), IsInjective(b), Apart2(a, b, body, place)
      PROVE  IsInjective(Nested(a, b, body))
  <2>1. ASSUME NEW o \in (ToSet(a) \X ToSet(b)) \cap DOMAIN body,
               NEW q \in (ToSet(a) \X ToSet(b)) \cap DOMAIN body, o # q
        PROVE  ToSet(body[o]) \cap ToSet(body[q]) = {}
    BY <1>3, <1>6, <2>1 DEF Apart2
  <2>. QED
    BY <1>1, <1>2, <1>6, <2>1, NestedInjective
<1>. QED
  BY <1>4, <1>5, <1>6

LEMMA Nested3Ones ==
    ASSUME NEW A, NEW B, NEW C, NEW a \in Seq(A), NEW b \in Seq(B), NEW c \in Seq(C), NEW S,
           NEW body, NEW place, Ones(body, place, S)
    PROVE  /\ Nested3(a, b, c, body) \in Seq(S)
           /\ \A v : v \in ToSet(Nested3(a, b, c, body)) <=> Picked3(v, a, b, c, body, place)
           /\ IsInjective(a) /\ IsInjective(b) /\ IsInjective(c) /\ Apart3(a, b, c, body, place)
                => IsInjective(Nested3(a, b, c, body))
<1>1. \A o \in DOMAIN body : body[o] \in Seq(S)
  BY OnesPass
<1>2. \A o \in DOMAIN body : IsInjective(body[o])
  BY OnesPass
<1>3. \A o \in DOMAIN body : ToSet(body[o]) = {place[o]}
  BY OnesPass
<1>4. /\ Nested3(a, b, c, body) \in Seq(S)
      /\ ToSet(Nested3(a, b, c, body)) = Values3(a, b, c, body)
  BY <1>1, Nested3Properties
<1>5. ASSUME NEW v
      PROVE  v \in Values3(a, b, c, body) <=> Picked3(v, a, b, c, body, place)
  BY <1>3 DEF Values, Values3, Picked3
<1>6. ASSUME IsInjective(a), IsInjective(b), IsInjective(c), Apart3(a, b, c, body, place)
      PROVE  IsInjective(Nested3(a, b, c, body))
  <2>1. ASSUME NEW o \in (ToSet(a) \X ToSet(b) \X ToSet(c)) \cap DOMAIN body,
               NEW q \in (ToSet(a) \X ToSet(b) \X ToSet(c)) \cap DOMAIN body, o # q
        PROVE  ToSet(body[o]) \cap ToSet(body[q]) = {}
    BY <1>3, <1>6, <2>1 DEF Apart3
  <2>. QED
    BY <1>1, <1>2, <1>6, <2>1, Nested3Injective
<1>. QED
  BY <1>4, <1>5, <1>6
=============================================================================
