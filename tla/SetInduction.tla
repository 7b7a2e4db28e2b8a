---------------------------- MODULE SetInduction ----------------------------
(***************************************************************************)
(* Induction on the natural numbers with a set in the place of the         *)
(* predicate, so that the facts can be cited without instantiating an      *)
(* operator; and what follows for functions that are defined by recursion  *)
(* on the places of a sequence, as a replay of a log is.                   *)
(***************************************************************************)
EXTENDS Integers, Sequences, SequencesExt, WellFoundedInduction, SequenceTheorems, TLAPS

Less == {ss \in Nat \X Nat : ss[1] < ss[2]}

\* A set of natural numbers has a least element.
LEMMA LeastExists ==
    ASSUME NEW S \in SUBSET Nat, S # {}
    PROVE  \E n \in S : \A m \in S : n <= m
<1>1. IsWellFoundedOn(Less, Nat)
  BY NatLessThanWellFounded DEF OpToRel, Less
<1>2. PICK n \in S : \A m \in S : ~ (<<m, n>> \in Less)
  BY <1>1, WFMin
<1>3. ASSUME NEW m \in S PROVE n <= m
  <2>1. <<m, n>> \in Less <=> m < n
    BY DEF Less
  <2>2. m \in Nat /\ n \in Nat
    OBVIOUS
  <2>3. QED BY <1>2, <2>1, <2>2
<1>4. QED BY <1>3

\* A set of natural numbers that has a bound has a greatest element.
LEMMA GreatestExists ==
    ASSUME NEW N \in Nat, NEW S \in SUBSET (0 .. N), S # {}
    PROVE  \E m \in S : \A k \in S : k <= m
<1> DEFINE T == {N - k : k \in S}
<1>1. T \in SUBSET Nat /\ T # {}
  OBVIOUS
<1>2. PICK x \in T : \A y \in T : x <= y
  <2> HIDE DEF T
  <2>1. QED BY <1>1, LeastExists
<1>3. PICK m \in S : x = N - m
  OBVIOUS
<1>4. ASSUME NEW k \in S PROVE k <= m
  <2>1. N - m <= N - k
    BY <1>2, <1>3
  <2>2. k \in Int /\ m \in Int
    OBVIOUS
  <2>3. QED BY <2>1, <2>2
<1>5. QED BY <1>4

\* Induction up to a bound.
LEMMA Induction ==
    ASSUME NEW N \in Nat, NEW S, 0 \in S,
           \A n \in 0 .. N - 1 : n \in S => n + 1 \in S
    PROVE  \A n \in 0 .. N : n \in S
<1> DEFINE T == (0 .. N) \ S
<1> SUFFICES ASSUME T # {} PROVE FALSE
  OBVIOUS
<1>1. T \in SUBSET Nat
  OBVIOUS
<1> HIDE DEF T
<1>2. PICK n \in T : \A m \in T : n <= m
  BY <1>1, LeastExists
<1>3. n \in 0 .. N /\ n \notin S
  BY DEF T
<1>4. n # 0
  BY <1>3
<1>5. n - 1 \in 0 .. N - 1 /\ n - 1 + 1 = n
  BY <1>3, <1>4
<1>6. n - 1 \notin S
  BY <1>3, <1>5
<1>7. n - 1 \in T
  BY <1>5, <1>6 DEF T
<1>8. QED BY <1>2, <1>3, <1>7

\* f takes the steps from v on.  (Named, so that the provers need not match formulas.)
Iterates(f, v, N, step) ==
    /\ f[0] = v
    /\ \A n \in 1 .. N : f[n] = step[n][f[n - 1]]

\* f and g begin alike, and go on alike.
GoAlike(f, g, N) ==
    /\ f[0] = g[0]
    /\ \A n \in 1 .. N : f[n - 1] = g[n - 1] => f[n] = g[n]

AreAlike(f, g, N) == \A n \in 0 .. N : f[n] = g[n]

\* A function that is defined step by step from a first value exists.
LEMMA IterationExists ==
    ASSUME NEW S, NEW v \in S, NEW N \in Nat, NEW step \in [1 .. N -> [S -> S]]
    PROVE  \E f \in [0 .. N -> S] : Iterates(f, v, N, step)
<1> DEFINE T == {k \in 0 .. N : \E f \in [0 .. k -> S] : Iterates(f, v, k, step)}
<1> USE DEF Iterates
<1>1. 0 \in T
  <2> DEFINE f == [n \in 0 .. 0 |-> v]
  <2>1. f \in [0 .. 0 -> S] /\ f[0] = v /\ 1 .. 0 = {}
    OBVIOUS
  <2> HIDE DEF f
  <2>2. Iterates(f, v, 0, step)
    BY <2>1
  <2>3. QED BY <2>1, <2>2
<1>2. ASSUME NEW k \in 0 .. N - 1, k \in T PROVE k + 1 \in T
  <2>1. PICK f \in [0 .. k -> S] : Iterates(f, v, k, step)
    BY <1>2
  <2> DEFINE g == [n \in 0 .. k + 1 |-> IF n = k + 1 THEN step[k + 1][f[k]] ELSE f[n]]
  <2>2. step[k + 1][f[k]] \in S
    BY <2>1
  <2>3. g \in [0 .. k + 1 -> S]
    BY <2>1, <2>2
  <2>4. g[0] = v
    BY <2>1
  <2>5. ASSUME NEW n \in 1 .. k + 1 PROVE g[n] = step[n][g[n - 1]]
    <3>1. g[n - 1] = f[n - 1] /\ n \in 0 .. k + 1
      OBVIOUS
    <3>2. CASE n = k + 1
      <4>1. g[n] = step[k + 1][f[k]] /\ n - 1 = k
        BY <3>1, <3>2
      <4>2. QED BY <3>1, <3>2, <4>1
    <3>3. CASE n # k + 1
      <4>1. n \in 1 .. k
        BY <3>3
      <4>2. QED BY <2>1, <3>1, <3>3, <4>1
    <3>4. QED BY <3>2, <3>3
  <2> HIDE DEF g
  <2>6. Iterates(g, v, k + 1, step)
    BY <2>4, <2>5
  <2>7. k + 1 \in 0 .. N
    OBVIOUS
  <2>8. QED BY <2>3, <2>6, <2>7
<1> HIDE DEF T
<1>3. \A k \in 0 .. N : k \in T
  BY <1>1, <1>2, Induction
<1>4. QED BY <1>3 DEF T

\* ... and there is one only.
LEMMA IterationUnique ==
    ASSUME NEW N \in Nat, NEW f, NEW g, GoAlike(f, g, N)
    PROVE  AreAlike(f, g, N)
<1> DEFINE T == {n \in 0 .. N : f[n] = g[n]}
<1>1. 0 \in T
  BY DEF GoAlike
<1>2. ASSUME NEW n \in 0 .. N - 1, n \in T PROVE n + 1 \in T
  <2>1. n + 1 \in 1 .. N /\ n + 1 - 1 = n
    OBVIOUS
  <2>2. QED BY <1>2, <2>1 DEF GoAlike
<1> HIDE DEF T
<1>3. \A n \in 0 .. N : n \in T
  BY <1>1, <1>2, Induction
<1>4. QED BY <1>3 DEF T, AreAlike

\* Every sequence is built from the empty one by appending.
LEMMA SequencesGrow ==
    ASSUME NEW A, NEW T, <<>> \in T,
           \A r \in Seq(A) : \A e \in A : r \in T => Append(r, e) \in T
    PROVE  \A s \in Seq(A) : s \in T
<1> SUFFICES ASSUME NEW s \in Seq(A) PROVE s \in T
  OBVIOUS
<1> DEFINE N == Len(s)
           prefix(n) == SubSeq(s, 1, n)
           S == {n \in 0 .. N : prefix(n) \in T}
<1>1. N \in Nat
  OBVIOUS
<1>2. prefix(0) \in T
  <2>1. prefix(0) = <<>>
    BY SubSeqEmpty
  <2>2. QED BY <2>1
<1>3. ASSUME NEW n \in 0 .. N - 1, prefix(n) \in T PROVE prefix(n + 1) \in T
  <2>1. n + 1 \in 1 .. Len(s) /\ s[n + 1] \in A /\ n + 1 - 1 = n
    BY <1>1
  <2>2. SubSeq(s, 1, n) \in Seq(A)
    BY <1>1, SubSeqProperties
  <2>3. SubSeq(s, 1, n + 1) = SubSeq(s, 1, n) \o <<s[n + 1]>>
    BY <2>1, SubSeqRecursiveSecond
  <2>4. SubSeq(s, 1, n) \o <<s[n + 1]>> = Append(SubSeq(s, 1, n), s[n + 1])
    BY <2>1, <2>2
  <2>5. Append(SubSeq(s, 1, n), s[n + 1]) \in T
    BY <1>3, <2>1, <2>2
  <2>6. QED BY <2>3, <2>4, <2>5
<1> HIDE DEF N, prefix
<1>4. 0 \in S /\ \A n \in 0 .. N - 1 : n \in S => n + 1 \in S
  BY <1>1, <1>2, <1>3
<1>5. \A n \in 0 .. N : n \in S
  <2> HIDE DEF S
  <2>1. QED BY <1>1, <1>4, Induction
<1>6. prefix(N) \in T
  BY <1>1, <1>5
<1>7. QED BY <1>6, SubSeqFull DEF N, prefix

\* FlattenSeq joins the parts one after the other.
LEMMA FlattenSteps ==
    ASSUME NEW S, NEW parts \in Seq(Seq(S))
    PROVE  \E f \in [0 .. Len(parts) -> Seq(S)] :
              /\ f[0] = <<>>
              /\ \A k \in 1 .. Len(parts) : f[k] = f[k - 1] \o parts[k]
              /\ FlattenSeq(parts) = f[Len(parts)]
<1> DEFINE N == Len(parts)
           empty == <<>>
           step == [k \in 1 .. N |-> [s \in Seq(S) |-> s \o parts[k]]]
           Steps(h) == h = [k \in 1 .. N |-> IF k = 1 THEN parts[k] ELSE h[k - 1] \o parts[k]]
           g == CHOOSE h : Steps(h)
<1>1. N \in Nat /\ empty \in Seq(S) /\ \A k \in 1 .. N : parts[k] \in Seq(S)
  OBVIOUS
<1>2. step \in [1 .. N -> [Seq(S) -> Seq(S)]]
  <2>1. \A k \in 1 .. N : \A s \in Seq(S) : s \o parts[k] \in Seq(S)
    BY <1>1
  <2>2. QED BY <2>1
<1>3. PICK f \in [0 .. N -> Seq(S)] : Iterates(f, empty, N, step)
  <2> HIDE DEF step, N, empty
  <2>1. QED BY <1>1, <1>2, IterationExists
<1>4. f[0] = empty /\ \A k \in 1 .. N : f[k] = f[k - 1] \o parts[k]
  <2>1. f[0] = empty
    BY <1>3 DEF Iterates
  <2>2. ASSUME NEW k \in 1 .. N PROVE f[k] = f[k - 1] \o parts[k]
    <3>1. f[k - 1] \in Seq(S)
      <4>1. k - 1 \in 0 .. N
        BY <1>1
      <4> HIDE DEF N
      <4>2. QED BY <4>1
    <3>2. QED BY <1>3, <3>1 DEF Iterates
  <2>3. QED BY <2>1, <2>2
<1>5. CASE N = 0
  <2>1. parts = <<>> /\ FlattenSeq(parts) = parts
    BY <1>5 DEF FlattenSeq
  <2>2. QED BY <1>3, <1>4, <1>5, <2>1
<1>6. CASE N # 0
  <2>1. FlattenSeq(parts) = g[N]
    BY <1>6 DEF FlattenSeq
  <2> DEFINE f1 == [k \in 1 .. N |-> f[k]]
  <2>2. Steps(f1)
    <3> DEFINE h == [k \in 1 .. N |-> IF k = 1 THEN parts[k] ELSE f1[k - 1] \o parts[k]]
    <3>1. ASSUME NEW k \in 1 .. N PROVE f1[k] = h[k]
      <4>1. CASE k = 1
        <5>1. f[1] = empty \o parts[1] /\ parts[1] \in Seq(S)
          <6>1. f[k] = f[k - 1] \o parts[k] /\ parts[k] \in Seq(S)
            <7> HIDE DEF N
            <7>1. QED BY <1>1, <1>4
          <6>2. k = 1 /\ k - 1 = 0 /\ f[0] = empty
            BY <1>4, <4>1
          <6> HIDE DEF N, empty
          <6>3. QED BY <6>1, <6>2
        <5>2. f[1] = parts[1]
          BY <5>1
        <5>3. QED BY <4>1, <5>2
      <4>2. CASE k # 1
        <5>1. k - 1 \in 1 .. N
          BY <1>1, <4>2
        <5>2. QED BY <1>4, <4>2, <5>1
      <4>3. QED BY <4>1, <4>2
    <3>2. QED BY <3>1
  <2> HIDE DEF N, empty
  <2>3. Steps(g)
    <3> HIDE DEF f1
    <3>1. QED BY <2>2
  <2> HIDE DEF g
  <2> DEFINE g0 == [k \in 0 .. N |-> IF k = 0 THEN empty ELSE g[k]]
  <2>4. /\ \A k \in 1 .. N : g[k] = IF k = 1 THEN parts[k] ELSE g[k - 1] \o parts[k]
    <3> DEFINE h == [k \in 1 .. N |-> IF k = 1 THEN parts[k] ELSE g[k - 1] \o parts[k]]
    <3>1. g = h
      BY <2>3
    <3>2. \A k \in 1 .. N : h[k] = IF k = 1 THEN parts[k] ELSE g[k - 1] \o parts[k]
      OBVIOUS
    <3> HIDE DEF h
    <3>3. QED BY <3>1, <3>2
  <2>5. /\ g0[0] = empty
        /\ \A k \in 1 .. N : g0[k] = g[k]
        /\ \A k \in 1 .. N : k # 1 => g0[k - 1] = g[k - 1]
    BY <1>1
  <2> HIDE DEF g0
  <2>6. GoAlike(f, g0, N)
    <3>1. ASSUME NEW k \in 1 .. N, f[k - 1] = g0[k - 1] PROVE f[k] = g0[k]
      <4>1. CASE k = 1
        <5>1. f[1] = empty \o parts[1] /\ parts[1] \in Seq(S) /\ g0[1] = parts[1]
          <6>1. /\ f[k] = f[k - 1] \o parts[k] /\ parts[k] \in Seq(S)
                /\ g0[k] = g[k] /\ g[k] = parts[k]
            BY <1>1, <1>4, <2>4, <2>5, <4>1
          <6>2. k = 1 /\ k - 1 = 0 /\ f[0] = empty
            BY <1>4, <4>1
          <6>3. QED BY <6>1, <6>2
        <5>2. f[1] = parts[1]
          BY <5>1 DEF empty
        <5>3. QED BY <4>1, <5>1, <5>2
      <4>2. CASE k # 1
        <5>1. g[k] = g[k - 1] \o parts[k] /\ g0[k] = g[k] /\ g0[k - 1] = g[k - 1]
          BY <2>4, <2>5, <4>2
        <5>2. QED BY <1>4, <3>1, <5>1
      <4>3. QED BY <4>1, <4>2
    <3>2. QED BY <1>4, <2>5, <3>1 DEF GoAlike
  <2>7. AreAlike(f, g0, N)
    BY <1>1, <2>6, IterationUnique
  <2>8. f[N] = g[N]
    <3>1. N \in 1 .. N /\ N \in 0 .. N
      BY <1>1, <1>6
    <3>2. QED BY <2>5, <2>7, <3>1 DEF AreAlike
  <2>9. QED BY <1>3, <1>4, <2>1, <2>8 DEF N, empty
<1>7. QED BY <1>5, <1>6

Mapped(F, s) == [n \in DOMAIN s |-> F[s[n]]]

\* Applying a function to the elements of two sequences, or to those of both at once.
LEMMA MapJoined ==
    ASSUME NEW A, NEW a \in Seq(A), NEW b \in Seq(A), NEW F
    PROVE  Mapped(F, a \o b) = Mapped(F, a) \o Mapped(F, b)
<1> DEFINE B == {F[x] : x \in A}
           c == a \o b
           fc == [n \in 1 .. Len(c) |-> F[c[n]]]
           fa == [n \in 1 .. Len(a) |-> F[a[n]]]
           fb == [n \in 1 .. Len(b) |-> F[b[n]]]
<1>0. \A x \in A : F[x] \in B
  OBVIOUS
<1>1. /\ Len(a) \in Nat /\ Len(b) \in Nat /\ Len(c) = Len(a) + Len(b)
      /\ \A n \in 1 .. Len(c) : c[n] = IF n <= Len(a) THEN a[n] ELSE b[n - Len(a)]
      /\ \A n \in 1 .. Len(c) : c[n] \in A
      /\ DOMAIN a = 1 .. Len(a) /\ DOMAIN b = 1 .. Len(b) /\ DOMAIN c = 1 .. Len(c)
  OBVIOUS
<1> HIDE DEF B, c
<1>2. /\ fa \in Seq(B) /\ Len(fa) = Len(a) /\ fb \in Seq(B) /\ Len(fb) = Len(b)
      /\ fc \in Seq(B) /\ Len(fc) = Len(c)
  BY <1>0, <1>1
<1>3. fa \o fb \in Seq(B) /\ Len(fa \o fb) = Len(fc)
      /\ \A n \in 1 .. Len(fc) : (fa \o fb)[n] = IF n <= Len(a) THEN fa[n] ELSE fb[n - Len(a)]
  <2> HIDE DEF fa, fb, fc
  <2>1. fa \in Seq(B) /\ fb \in Seq(B)
    BY <1>2
  <2>2. /\ fa \o fb \in Seq(B) /\ Len(fa \o fb) = Len(fa) + Len(fb)
        /\ \A n \in 1 .. Len(fa) + Len(fb) :
              (fa \o fb)[n] = IF n <= Len(fa) THEN fa[n] ELSE fb[n - Len(fa)]
    BY <2>1
  <2>3. Len(fa) = Len(a) /\ Len(fb) = Len(b) /\ Len(fc) = Len(a) + Len(b)
    BY <1>1, <1>2
  <2>4. QED BY <2>2, <2>3
<1>4. \A n \in 1 .. Len(fc) : fc[n] = (fa \o fb)[n]
  <2> SUFFICES ASSUME NEW n \in 1 .. Len(c) PROVE fc[n] = (fa \o fb)[n]
    BY <1>2
  <2>1. (fa \o fb)[n] = IF n <= Len(a) THEN fa[n] ELSE fb[n - Len(a)]
    BY <1>2, <1>3
  <2>2. n <= Len(a) => fa[n] = F[a[n]]
    BY <1>1
  <2>3. ~(n <= Len(a)) => fb[n - Len(a)] = F[b[n - Len(a)]]
    BY <1>1
  <2>4. fc[n] = F[c[n]]
    OBVIOUS
  <2> HIDE DEF fa, fb, fc
  <2>5. QED BY <1>1, <2>1, <2>2, <2>3, <2>4
<1> HIDE DEF fa, fb, fc
<1>5. fc = fa \o fb
  BY <1>2, <1>3, <1>4, SeqEqual
<1>6. QED BY <1>1, <1>5 DEF Mapped, fa, fb, fc, c

=============================================================================
