--------------------------- MODULE CollectorProofs ---------------------------
(***************************************************************************)
(* Proofs about Collector, for any workers, nexthops, packets and sizes.   *)
(***************************************************************************)
EXTENDS Collector, WellFoundedInduction, TLAPS

\* Zenon proves what cites no prover; a leaf about numbers, functions or records cites SMT.
USE ZenonT(30)

\* Sequences are equal when their lengths and members are.
LEMMA SameSeq ==
  ASSUME NEW S, NEW s \in Seq(S), NEW t \in Seq(S),
         Len(s) = Len(t), \A i \in 1 .. Len(s) : s[i] = t[i]
  PROVE  s = t
BY SMTT(30)

IsPair(u, v) == <<u>> \o <<v>> = <<u, v>>

LEMMA Pair ==
  ASSUME NEW S, NEW u \in S, NEW v \in S
  PROVE  IsPair(u, v)
<1>1. /\ <<u>> \in Seq(S) /\ <<v>> \in Seq(S) /\ <<u, v>> \in Seq(S)
      /\ Len(<<u>>) = 1 /\ Len(<<v>>) = 1 /\ Len(<<u, v>>) = 2
  BY SMTT(30)
<1>2. <<u>> \o <<v>> \in Seq(S) /\ Len(<<u>> \o <<v>>) = 2
  BY <1>1, SMTT(30)
<1>3. \A i \in 1 .. 2 : (<<u>> \o <<v>>)[i] = <<u, v>>[i]
  <2>1. (<<u>> \o <<v>>)[1] = u /\ (<<u>> \o <<v>>)[2] = v
    BY <1>1, SMTT(30)
  <2>2. <<u, v>>[1] = u /\ <<u, v>>[2] = v
    OBVIOUS
  <2>3. 1 .. 2 = {1, 2}
    BY SMTT(30)
  <2> QED
    BY <2>1, <2>2, <2>3
<1> QED
  BY <1>1, <1>2, <1>3, SameSeq DEF IsPair

\* A sequence behind another, and p behind both.
Laws(a, b, p) ==
    /\ Append(a \o b, p) = a \o Append(b, p)
    /\ ((a \o b) \o <<p>>) \o <<>> = a \o Append(b, p)

LEMMA SeqLaws ==
  ASSUME NEW P, NEW a \in Seq(P), NEW b \in Seq(P), NEW p \in P
  PROVE  Laws(a, b, p)
<1>1. Append(a \o b, p) = a \o Append(b, p)
  BY SMTT(30)
<1>2. ((a \o b) \o <<p>>) \o <<>> = a \o Append(b, p)
  <2>1. /\ ((a \o b) \o <<p>>) \o <<>> \in Seq(P) /\ a \o Append(b, p) \in Seq(P)
        /\ Len(((a \o b) \o <<p>>) \o <<>>) = Len(a) + Len(b) + 1
        /\ Len(a \o Append(b, p)) = Len(a) + Len(b) + 1
    BY SMTT(30)
  <2>2. \A i \in 1 .. Len(a) + Len(b) + 1 :
            (((a \o b) \o <<p>>) \o <<>>)[i] = (a \o Append(b, p))[i]
    BY SMTT(30)
  <2> QED
    BY <2>1, <2>2, SameSeq
<1> QED
  BY <1>1, <1>2 DEF Laws

(***************************************************************************)
(* Induction over the naturals, for a set instead of a formula: what is    *)
(* not in the set would have a least member.                               *)
(***************************************************************************)
LEMMA SetInduction ==
  ASSUME NEW S, 0 \in S, \A n \in Nat : n \in S => n + 1 \in S
  PROVE  Nat \subseteq S
<1> DEFINE R == {s \in Nat \X Nat : s[1] < s[2]}
           T == Nat \ S
<1>1. IsWellFoundedOn(R, Nat)
  BY NatLessThanWellFounded DEF OpToRel
<1> SUFFICES ASSUME T # {} PROVE FALSE
  OBVIOUS
<1> HIDE DEF R
<1>2. T \subseteq Nat
  OBVIOUS
<1>3. PICK m \in T : \A k \in T : <<k, m>> \notin R
  BY <1>1, <1>2, WFMin
<1>4. m \in Nat /\ m # 0 /\ m - 1 \in Nat /\ m - 1 \notin S
  BY SMTT(30)
<1>5. <<m - 1, m>> \in R
  BY <1>4, SMTT(30) DEF R
<1> QED
  BY <1>3, <1>4, <1>5

-----------------------------------------------------------------------------
(***************************************************************************)
(* Fold.  G is the folded operator as a function, c[k] what it has made of *)
(* the first k members.                                                    *)
(***************************************************************************)
FoldTypes(G, base, s, V, T) == G \in [V \X T -> V] /\ base \in V /\ s \in Seq(T)

Steps(c, G, base, s, n) ==
    c[0] = base /\ \A k \in 1 .. n : c[k] = G[<<c[k - 1], s[k]>>]

Folded(G, base, s, n, V) == \E c \in [0 .. n -> V] : Steps(c, G, base, s, n)

\* There is such a c.
LEMMA FoldExists ==
  ASSUME NEW V, NEW T, NEW G, NEW base, NEW s, FoldTypes(G, base, s, V, T)
  PROVE  Folded(G, base, s, Len(s), V)
<1> DEFINE S == {n \in Nat : n <= Len(s) => Folded(G, base, s, n, V)}
<1>0. base \in V /\ s \in Seq(T) /\ G \in [V \X T -> V]
  BY DEF FoldTypes
<1>1. Folded(G, base, s, 0, V)
  <2> DEFINE c == [k \in 0 .. 0 |-> base]
  <2>1. c \in [0 .. 0 -> V] /\ c[0] = base /\ \A k \in 1 .. 0 : FALSE
    BY <1>0, SMTT(30)
  <2> HIDE DEF c
  <2> QED
    BY <2>1 DEF Folded, Steps
<1>2. ASSUME NEW n \in Nat, Folded(G, base, s, n, V), n + 1 <= Len(s)
      PROVE  Folded(G, base, s, n + 1, V)
  <2>1. PICK c \in [0 .. n -> V] : Steps(c, G, base, s, n)
    BY <1>2 DEF Folded
  <2>2. s[n + 1] \in T /\ c[n] \in V
    BY <1>0, <1>2, <2>1, SMTT(30)
  <2>3. <<c[n], s[n + 1]>> \in V \X T
    BY <2>2
  <2>4. PICK v \in V : v = G[<<c[n], s[n + 1]>>]
    BY <1>0, <2>3
  <2> DEFINE d == [k \in 0 .. n + 1 |-> IF k = n + 1 THEN v ELSE c[k]]
  <2>5. d \in [0 .. n + 1 -> V] /\ d[n + 1] = v /\ \A k \in 0 .. n : d[k] = c[k]
    BY SMTT(30)
  <2> HIDE DEF d
  <2>6. Steps(d, G, base, s, n + 1)
    <3>1. d[0] = base
      BY <2>1, <2>5, SMTT(30) DEF Steps
    <3>2. ASSUME NEW k \in 1 .. n + 1
          PROVE  d[k] = G[<<d[k - 1], s[k]>>]
      <4>1. CASE k = n + 1
        <5>1. k - 1 = n /\ n \in 0 .. n
          BY <4>1, SMTT(30)
        <5> QED
          BY <2>4, <2>5, <4>1, <5>1
      <4>2. CASE k # n + 1
        <5>1. k \in 1 .. n /\ k \in 0 .. n /\ k - 1 \in 0 .. n
          BY <4>2, SMTT(30)
        <5> QED
          BY <2>1, <2>5, <5>1 DEF Steps
      <4> QED
        BY <4>1, <4>2
    <3> QED
      BY <3>1, <3>2 DEF Steps
  <2> QED
    BY <2>5, <2>6 DEF Folded
<1>3. ASSUME NEW n \in Nat, n \in S
      PROVE  n + 1 \in S
  <2>1. n + 1 <= Len(s) => n <= Len(s)
    BY <1>0, SMTT(30)
  <2> QED
    BY <1>2, <1>3, <2>1, SMTT(30)
<1>4. 0 \in S
  BY <1>1
<1> HIDE DEF S
<1>5. Nat \subseteq S
  BY <1>3, <1>4, SetInduction
<1>6. Len(s) \in Nat
  BY <1>0, SMTT(30)
<1> QED
  BY <1>5, <1>6, SMTT(30) DEF S

\* A function h that unfolds like the fold where its values are in V agrees with c.
Unfolds(h, G, base, s, V) ==
    /\ h[0] = base
    /\ \A k \in 1 .. Len(s) : h[k - 1] \in V => h[k] = G[<<h[k - 1], s[k]>>]

Meet(h, c, s) == h[Len(s)] = c[Len(s)]

LEMMA FoldValues ==
  ASSUME NEW V, NEW T, NEW G, NEW base, NEW s, NEW h, NEW c,
         FoldTypes(G, base, s, V, T), Unfolds(h, G, base, s, V), Steps(c, G, base, s, Len(s))
  PROVE  Meet(h, c, s)
<1> USE DEF FoldTypes, Unfolds, Steps
<1> DEFINE S == {k \in Nat : k <= Len(s) => h[k] = c[k] /\ c[k] \in V}
<1>1. 0 \in S
  OBVIOUS
<1>2. ASSUME NEW k \in Nat, k \in S
      PROVE  k + 1 \in S
  <2> SUFFICES ASSUME k + 1 <= Len(s)
               PROVE  h[k + 1] = c[k + 1] /\ c[k + 1] \in V
    BY SMTT(30)
  <2>1. k + 1 \in 1 .. Len(s) /\ (k + 1) - 1 = k /\ s[k + 1] \in T
    BY SMTT(30)
  <2>2. h[k] = c[k] /\ c[k] \in V
    BY <1>2, SMTT(30)
  <2>3. <<c[k], s[k + 1]>> \in V \X T
    BY <2>1, <2>2
  <2>4. G[<<c[k], s[k + 1]>>] \in V
    BY <2>3
  <2>5. c[k + 1] = G[<<c[k], s[k + 1]>>]
    BY <2>1
  <2>6. h[k + 1] = G[<<h[k], s[k + 1]>>]
    BY <2>1, <2>2
  <2> QED
    BY <2>2, <2>4, <2>5, <2>6
<1> HIDE DEF S
<1>3. Nat \subseteq S
  BY <1>1, <1>2, SetInduction
<1>4. Len(s) \in Nat
  BY SMTT(30)
<1> QED
  BY <1>3, <1>4, SMTT(30) DEF S, Meet

-----------------------------------------------------------------------------
(***************************************************************************)
(* Joined.                                                                 *)
(***************************************************************************)
Joins(c, s, P) ==
    /\ c \in [0 .. Len(s) -> Seq(P)]
    /\ c[0] = <<>>
    /\ \A k \in 1 .. Len(s) : c[k] = c[k - 1] \o s[k]

LEMMA JoinedTotal ==
  ASSUME NEW P, NEW s \in Seq(Seq(P))
  PROVE  /\ \E c : Joins(c, s, P)
         /\ \A c : Joins(c, s, P) => Joined(s) = c[Len(s)]
<1> DEFINE N == Len(s)
           G == [x \in Seq(P) \X Seq(P) |-> x[1] \o x[2]]
           Fix(f) == f = [i \in 0 .. N |-> IF i = 0 THEN <<>> ELSE f[i - 1] \o s[i]]
           h == CHOOSE f : Fix(f)
<1>n. N \in Nat /\ N \in 0 .. N /\ 0 \in 0 .. N
  BY SMTT(30)
<1>m. \A k \in 1 .. N : /\ k \in 0 .. N /\ k # 0 /\ k - 1 \in 0 .. N
                        /\ s[k] \in Seq(P)
  BY SMTT(30)
<1>1. FoldTypes(G, <<>>, s, Seq(P), Seq(P))
  <2>1. \A x \in Seq(P) \X Seq(P) : x[1] \o x[2] \in Seq(P)
    BY SMTT(30)
  <2>2. G \in [Seq(P) \X Seq(P) -> Seq(P)] /\ <<>> \in Seq(P)
    BY <2>1, SMTT(30)
  <2> QED
    BY <2>2 DEF FoldTypes
<1>2. \A a \in Seq(P) : \A b \in Seq(P) : G[<<a, b>>] = a \o b
  OBVIOUS
<1>3. Joined(s) = h[N]
  BY DEF Joined, Fold
<1> HIDE DEF G
<1>4. PICK c \in [0 .. N -> Seq(P)] : Steps(c, G, <<>>, s, N)
  BY <1>1, FoldExists DEF Folded
<1>5. Joins(c, s, P)
  <2>1. ASSUME NEW k \in 1 .. N
        PROVE  c[k] = c[k - 1] \o s[k]
    <3>1. c[k - 1] \in Seq(P) /\ s[k] \in Seq(P)
      BY <1>4, <1>m
    <3>2. c[k] = G[<<c[k - 1], s[k]>>]
      BY <1>4 DEF Steps
    <3> QED
      BY <1>2, <3>1, <3>2
  <2> QED
    BY <1>4, <2>1 DEF Joins, Steps
<1>6. Fix(c)
  <2>1. \A i \in 0 .. N : i = 0 \/ i \in 1 .. N
    BY SMTT(30)
  <2>2. \A i \in 0 .. N : c[i] = IF i = 0 THEN <<>> ELSE c[i - 1] \o s[i]
    BY <1>5, <2>1 DEF Joins
  <2>3. c = [i \in 0 .. N |-> c[i]]
    BY <1>4
  <2> QED
    BY <2>2, <2>3
<1>7. Fix(h)
  BY <1>6
<1> HIDE DEF h
<1>8. h[0] = <<>> /\ \A k \in 1 .. N : h[k] = h[k - 1] \o s[k]
  BY <1>7, <1>n, <1>m
<1>9. Unfolds(h, G, <<>>, s, Seq(P))
  <2>1. ASSUME NEW k \in 1 .. N, h[k - 1] \in Seq(P)
        PROVE  h[k] = G[<<h[k - 1], s[k]>>]
    BY <1>2, <1>8, <1>m, <2>1
  <2> QED
    BY <1>8, <2>1 DEF Unfolds
<1>10. ASSUME NEW d, Joins(d, s, P)
       PROVE  Joined(s) = d[N]
  <2>1. ASSUME NEW k \in 1 .. N
        PROVE  d[k] = G[<<d[k - 1], s[k]>>]
    <3>1. d[k - 1] \in Seq(P) /\ s[k] \in Seq(P) /\ d[k] = d[k - 1] \o s[k]
      BY <1>10, <1>m DEF Joins
    <3> QED
      BY <1>2, <3>1
  <2>2. Steps(d, G, <<>>, s, N)
    BY <1>10, <2>1 DEF Joins, Steps
  <2>3. Meet(h, d, s)
    BY <1>1, <1>9, <2>2, FoldValues
  <2> QED
    BY <1>3, <2>3 DEF Meet
<1> QED
  BY <1>5, <1>10

LEMMA JoinedEmpty == Joined(<<>>) = <<>>
<1>1. <<>> \in Seq(Seq({})) /\ Len(<<>>) = 0
  BY SMTT(30)
<1>2. PICK c : Joins(c, <<>>, {})
  BY <1>1, JoinedTotal
<1>3. c[0] = <<>>
  BY <1>2 DEF Joins
<1>4. Joined(<<>>) = c[Len(<<>>)]
  BY <1>1, <1>2, JoinedTotal
<1> QED
  BY <1>1, <1>3, <1>4

\* One more sequence at the end.
LEMMA JoinedPush ==
  ASSUME NEW P, NEW s \in Seq(Seq(P)), NEW x \in Seq(P)
  PROVE  /\ Joined(s) \in Seq(P)
         /\ Joined(Append(s, x)) = Joined(s) \o x
<1> DEFINE t == Append(s, x)
           N == Len(s)
<1>1. t \in Seq(Seq(P)) /\ Len(t) = N + 1 /\ t[N + 1] = x /\ \A i \in 1 .. N : t[i] = s[i]
  BY SMTT(30)
<1>n. N \in Nat
  BY SMTT(30)
<1> HIDE DEF t
<1>2. PICK c : Joins(c, t, P)
  BY <1>1, JoinedTotal
<1>3. /\ c \in [0 .. N + 1 -> Seq(P)] /\ c[0] = <<>>
      /\ \A k \in 1 .. N + 1 : c[k] = c[k - 1] \o t[k]
  BY <1>1, <1>2 DEF Joins
<1> DEFINE d == [k \in 0 .. N |-> c[k]]
<1>i. /\ 0 \in 0 .. N /\ N \in 0 .. N /\ N \in 0 .. N + 1
      /\ N + 1 \in 1 .. N + 1 /\ (N + 1) - 1 = N
      /\ \A k \in 1 .. N : k - 1 \in 0 .. N /\ k \in 0 .. N /\ k \in 1 .. N + 1
  BY <1>n, SMTT(30)
<1>4. Joins(d, s, P)
  <2>1. d \in [0 .. N -> Seq(P)] /\ \A k \in 0 .. N : d[k] = c[k]
    BY <1>3, <1>n, SMTT(30)
  <2> HIDE DEF d
  <2> QED
    BY <1>1, <1>3, <1>i, <2>1 DEF Joins
<1>5. Joined(s) = c[N] /\ c[N] \in Seq(P)
  <2>1. Joined(s) = d[N]
    BY <1>4, JoinedTotal
  <2> QED
    BY <1>3, <1>i, <2>1
<1>6. Joined(t) = c[N + 1]
  BY <1>1, <1>2, JoinedTotal
<1>7. c[N + 1] = c[N] \o x
  BY <1>1, <1>3, <1>i
<1> QED
  BY <1>5, <1>6, <1>7 DEF t

-----------------------------------------------------------------------------
(***************************************************************************)
(* Bytes: the running total of the frames' lengths.                        *)
(***************************************************************************)
Totals(c, s) ==
    /\ c \in [0 .. Len(s) -> Nat]
    /\ c[0] = 0
    /\ \A k \in 1 .. Len(s) : c[k] = c[k - 1] + s[k].size

LEMMA BytesTotal ==
  ASSUME NEW s \in Seq(Frames)
  PROVE  /\ \E c : Totals(c, s)
         /\ \A c : Totals(c, s) => Bytes(s) = c[Len(s)]
<1> DEFINE N == Len(s)
           G == [x \in Nat \X Frames |-> x[1] + x[2].size]
           Fix(f) == f = [i \in 0 .. N |-> IF i = 0 THEN 0 ELSE f[i - 1] + s[i].size]
           h == CHOOSE f : Fix(f)
<1>n. N \in Nat /\ 0 \in 0 .. N
  BY SMTT(30)
<1>m. \A k \in 1 .. N : k \in 0 .. N /\ k # 0 /\ k - 1 \in 0 .. N /\ s[k] \in Frames
  BY SMTT(30)
<1>1. FoldTypes(G, 0, s, Nat, Frames)
  <2>1. G \in [Nat \X Frames -> Nat] /\ 0 \in Nat
    BY SMTT(30) DEF Frames
  <2> QED
    BY <2>1 DEF FoldTypes
<1>2. \A a \in Nat : \A b \in Frames : G[<<a, b>>] = a + b.size
  BY DEF Frames
<1>3. Bytes(s) = h[N]
  BY DEF Bytes, Fold
<1> HIDE DEF G
<1>4. PICK c \in [0 .. N -> Nat] : Steps(c, G, 0, s, N)
  BY <1>1, FoldExists DEF Folded
<1>5. Totals(c, s)
  <2>1. ASSUME NEW k \in 1 .. N
        PROVE  c[k] = c[k - 1] + s[k].size
    <3>1. c[k - 1] \in Nat /\ s[k] \in Frames
      BY <1>4, <1>m
    <3>2. c[k] = G[<<c[k - 1], s[k]>>]
      BY <1>4 DEF Steps
    <3> QED
      BY <1>2, <3>1, <3>2
  <2> QED
    BY <1>4, <2>1 DEF Totals, Steps
<1>6. Fix(c)
  BY <1>5, SMTT(30) DEF Totals
<1>7. Fix(h)
  BY <1>6
<1> HIDE DEF h
<1>8. h[0] = 0 /\ \A k \in 1 .. N : h[k] = h[k - 1] + s[k].size
  BY <1>7, <1>n, <1>m
<1>9. Unfolds(h, G, 0, s, Nat)
  <2>1. ASSUME NEW k \in 1 .. N, h[k - 1] \in Nat
        PROVE  h[k] = G[<<h[k - 1], s[k]>>]
    BY <1>2, <1>8, <1>m, <2>1
  <2> QED
    BY <1>8, <2>1 DEF Unfolds
<1>10. ASSUME NEW d, Totals(d, s)
       PROVE  Bytes(s) = d[N]
  <2>1. ASSUME NEW k \in 1 .. N
        PROVE  d[k] = G[<<d[k - 1], s[k]>>]
    <3>1. d[k - 1] \in Nat /\ s[k] \in Frames /\ d[k] = d[k - 1] + s[k].size
      BY <1>10, <1>m DEF Totals
    <3> QED
      BY <1>2, <3>1
  <2>2. Steps(d, G, 0, s, N)
    BY <1>10, <2>1 DEF Totals, Steps
  <2>3. Meet(h, d, s)
    BY <1>1, <1>9, <2>2, FoldValues
  <2> QED
    BY <1>3, <2>3 DEF Meet
<1> QED
  BY <1>5, <1>10

LEMMA BytesEmpty == Bytes(<<>>) = 0
<1>1. <<>> \in Seq(Frames) /\ Len(<<>>) = 0
  BY SMTT(30)
<1>2. PICK c : Totals(c, <<>>)
  BY <1>1, BytesTotal
<1>3. c[0] = 0
  BY <1>2 DEF Totals
<1> QED
  BY <1>1, <1>2, <1>3, BytesTotal

\* One more frame at the end.
LEMMA BytesPush ==
  ASSUME NEW s \in Seq(Frames), NEW p \in Frames
  PROVE  /\ Bytes(s) \in Nat
         /\ Bytes(Append(s, p)) = Bytes(s) + p.size
<1> DEFINE t == Append(s, p)
<1>1. t \in Seq(Frames) /\ Len(t) = Len(s) + 1 /\ t[Len(s) + 1] = p
      /\ \A i \in 1 .. Len(s) : t[i] = s[i]
  BY SMTT(30)
<1>n. Len(s) \in Nat
  BY SMTT(30)
<1> HIDE DEF t
<1>2. PICK c : Totals(c, t)
  BY <1>1, BytesTotal
<1> DEFINE d == [k \in 0 .. Len(s) |-> c[k]]
<1>3. c \in [0 .. Len(s) + 1 -> Nat] /\ c[0] = 0
      /\ \A k \in 1 .. Len(s) + 1 : c[k] = c[k - 1] + t[k].size
  BY <1>1, <1>2 DEF Totals
<1>4. Totals(d, s)
  <2>1. d \in [0 .. Len(s) -> Nat] /\ \A k \in 0 .. Len(s) : d[k] = c[k]
    BY <1>3, <1>n, SMTT(30)
  <2>2. 0 \in 0 .. Len(s) /\ \A k \in 1 .. Len(s) : k - 1 \in 0 .. Len(s) /\ k \in 0 .. Len(s)
                                                 /\ k \in 1 .. Len(s) + 1
    BY <1>n, SMTT(30)
  <2> HIDE DEF d
  <2> QED
    BY <1>1, <1>3, <2>1, <2>2 DEF Totals
<1>5. Bytes(s) = c[Len(s)] /\ c[Len(s)] \in Nat
  <2>1. Len(s) \in 0 .. Len(s) /\ Len(s) \in 0 .. Len(s) + 1
    BY <1>n, SMTT(30)
  <2> QED
    BY <1>3, <1>4, <2>1, BytesTotal, SMTT(30)
<1>6. Bytes(t) = c[Len(s) + 1]
  BY <1>1, <1>2, BytesTotal
<1>7. c[Len(s) + 1] = c[Len(s)] + p.size
  <2>1. Len(s) + 1 \in 1 .. Len(s) + 1 /\ (Len(s) + 1) - 1 = Len(s)
    BY <1>n, SMTT(30)
  <2> QED
    BY <1>1, <1>3, <2>1
<1> QED
  BY <1>5, <1>6, <1>7 DEF t

-----------------------------------------------------------------------------
(***************************************************************************)
(* Tun::FDWrite on a buffer of IPv4 frames.                                *)
(***************************************************************************)
Scans == [written : Seq(Frames), pos : Nat, left : BOOLEAN]

Scan0 == [written |-> <<>>, pos |-> 0, left |-> FALSE]

\* What the loop does is the fold of its turns.
LEMMA FDWriteTurns ==
  ASSUME NEW s \in Seq(Frames), NEW size \in Int, NEW c, c[0] = Scan0,
         \A k \in 1 .. Len(s) : c[k] = NextFrame(c[k - 1], s[k], size)
  PROVE  FDWrite(s, size) = c[Len(s)].written
<1> DEFINE N == Len(s)
           G == [x \in Scans \X Frames |-> NextFrame(x[1], x[2], size)]
           Fix(f) == f = [i \in 0 .. N |->
                            IF i = 0 THEN Scan0 ELSE NextFrame(f[i - 1], s[i], size)]
           h == CHOOSE f : Fix(f)
<1>n. N \in Nat /\ 0 \in 0 .. N
  BY SMTT(30)
<1>m. \A k \in 1 .. N : k \in 0 .. N /\ k # 0 /\ k - 1 \in 0 .. N /\ s[k] \in Frames
  BY SMTT(30)
<1>0. ASSUME NEW a \in Scans, NEW b \in Frames
      PROVE  NextFrame(a, b, size) \in Scans
  <2>1. a.written \in Seq(Frames) /\ a.pos \in Nat /\ b.size \in Nat
    BY DEF Scans, Frames
  <2>2. [a EXCEPT !.left = TRUE] \in Scans
    BY DEF Scans
  <2>3. Append(a.written, b) \in Seq(Frames) /\ a.pos + b.size \in Nat
        /\ (size - (a.pos + b.size) <= MinRest) \in BOOLEAN
    BY <2>1, SMTT(30)
  <2>4. [written |-> Append(a.written, b), pos |-> a.pos + b.size,
         left |-> size - (a.pos + b.size) <= MinRest] \in Scans
    BY <2>3 DEF Scans
  <2> QED
    BY <2>2, <2>4 DEF NextFrame
<1>1. FoldTypes(G, Scan0, s, Scans, Frames)
  <2>1. Scan0 \in Scans
    BY SMTT(30) DEF Scan0, Scans
  <2>2. \A x \in Scans \X Frames : NextFrame(x[1], x[2], size) \in Scans
    BY <1>0
  <2>3. G \in [Scans \X Frames -> Scans]
    BY <2>2
  <2> QED
    BY <2>1, <2>3 DEF FoldTypes
<1>2. \A a \in Scans : \A b \in Frames : G[<<a, b>>] = NextFrame(a, b, size)
  OBVIOUS
<1>3. FDWrite(s, size) = h[N].written
  BY DEF FDWrite, Fold, Scan0
<1> HIDE DEF G
<1>4. PICK d \in [0 .. N -> Scans] : Steps(d, G, Scan0, s, N)
  BY <1>1, FoldExists DEF Folded
<1>5. d[0] = Scan0 /\ \A k \in 1 .. N : d[k] = NextFrame(d[k - 1], s[k], size)
  <2>1. ASSUME NEW k \in 1 .. N
        PROVE  d[k] = NextFrame(d[k - 1], s[k], size)
    <3>1. d[k - 1] \in Scans /\ s[k] \in Frames
      BY <1>4, <1>m
    <3>2. d[k] = G[<<d[k - 1], s[k]>>]
      BY <1>4 DEF Steps
    <3> QED
      BY <1>2, <3>1, <3>2
  <2> QED
    BY <1>4, <2>1 DEF Steps
<1>6. Fix(d)
  BY <1>4, <1>5, SMTT(30)
<1>7. Fix(h)
  BY <1>6
<1> HIDE DEF h
<1>8. h[0] = Scan0 /\ \A k \in 1 .. N : h[k] = NextFrame(h[k - 1], s[k], size)
  BY <1>7, <1>n, <1>m
<1>9. Unfolds(h, G, Scan0, s, Scans)
  <2>1. ASSUME NEW k \in 1 .. N, h[k - 1] \in Scans
        PROVE  h[k] = G[<<h[k - 1], s[k]>>]
    BY <1>2, <1>8, <1>m, <2>1
  <2> QED
    BY <1>8, <2>1 DEF Unfolds
\* Any c of such turns is d.
<1> DEFINE S == {k \in Nat : k <= N => c[k] = d[k]}
<1>10. 0 \in S
  BY <1>5
<1>11. ASSUME NEW k \in Nat, k \in S
       PROVE  k + 1 \in S
  <2> SUFFICES ASSUME k + 1 <= N
               PROVE  c[k + 1] = d[k + 1]
    BY SMTT(30)
  <2>1. k + 1 \in 1 .. N /\ (k + 1) - 1 = k /\ c[k] = d[k]
    BY <1>11, <1>n, SMTT(30)
  <2>2. c[k + 1] = NextFrame(c[k], s[k + 1], size)
    BY <2>1
  <2>3. d[k + 1] = NextFrame(d[k], s[k + 1], size)
    BY <1>5, <2>1
  <2> QED
    BY <2>1, <2>2, <2>3
<1> HIDE DEF S
<1>12. c[N] = d[N]
  <2>1. Nat \subseteq S
    BY <1>10, <1>11, SetInduction
  <2> QED
    BY <1>n, <2>1, SMTT(30) DEF S
<1>13. Meet(h, d, s)
  BY <1>1, <1>4, <1>9, FoldValues
<1> QED
  BY <1>3, <1>12, <1>13 DEF Meet

\* What a Tun reads: IPv4 packets of at least a header.
Datagrams == {p \in Frames : IsIPv4(p)}

\* The frames behind the k-th are as long as their headers at least.
LEMMA TotalsGrow ==
  ASSUME NEW s \in Seq(Datagrams), NEW c, Totals(c, s), NEW k \in 0 .. Len(s)
  PROVE  /\ c[k] <= c[Len(s)]
         /\ k < Len(s) => c[Len(s)] - c[k] >= 20
         /\ k + 1 < Len(s) => c[Len(s)] - c[k] >= 40
<1>n. Len(s) \in Nat
  BY SMTT(30)
<1>d. ASSUME NEW i \in 1 .. Len(s)
      PROVE  c[i] \in Nat /\ c[i - 1] \in Nat /\ c[i] - c[i - 1] >= 20
  <2>1. s[i] \in Datagrams /\ i \in 0 .. Len(s) /\ i - 1 \in 0 .. Len(s)
    BY SMTT(30)
  <2>2. s[i].size \in Nat /\ s[i].size >= 20
    BY <2>1 DEF Datagrams, Frames, IsIPv4, MinIPHeader
  <2>3. c[i] = c[i - 1] + s[i].size /\ c[i] \in Nat /\ c[i - 1] \in Nat
    BY <2>1 DEF Totals
  <2> QED
    BY <2>2, <2>3, SMTT(30)
<1>t. c[Len(s)] \in Nat
  BY <1>n, SMTT(30) DEF Totals
<1> DEFINE Far(j) == /\ c[Len(s) - j] <= c[Len(s)]
                     /\ j > 0 => c[Len(s)] - c[Len(s) - j] >= 20
                     /\ j > 1 => c[Len(s)] - c[Len(s) - j] >= 40
           S == {j \in Nat : j <= Len(s) => Far(j)}
<1>1. 0 \in S
  <2>1. Len(s) - 0 = Len(s)
    BY <1>n, SMTT(30)
  <2> QED
    BY <1>t, <2>1, SMTT(30)
<1>2. ASSUME NEW j \in Nat, j \in S
      PROVE  j + 1 \in S
  <2> SUFFICES ASSUME j + 1 <= Len(s)
               PROVE  Far(j + 1)
    BY SMTT(30)
  <2>1. Far(j)
    BY <1>2, <1>n, SMTT(30)
  <2>2. Len(s) - j \in 1 .. Len(s) /\ (Len(s) - j) - 1 = Len(s) - (j + 1)
    BY <1>n, SMTT(30)
  <2>3. /\ c[Len(s) - j] \in Nat /\ c[Len(s) - (j + 1)] \in Nat
        /\ c[Len(s) - j] - c[Len(s) - (j + 1)] >= 20
    BY <1>d, <2>2
  <2>4. PICK l \in Nat : l = c[Len(s)]
    BY <1>t
  <2>5. PICK a \in Nat : a = c[Len(s) - j]
    BY <2>3
  <2>6. PICK b \in Nat : b = c[Len(s) - (j + 1)]
    BY <2>3
  <2>7. a - b >= 20 /\ a <= l /\ (j > 0 => l - a >= 20)
    BY <2>1, <2>3, <2>4, <2>5, <2>6
  <2>8. b <= l /\ l - b >= 20 /\ (j + 1 > 1 => l - b >= 40)
    BY <2>7, SMTT(30)
  <2> QED
    BY <2>4, <2>6, <2>8
<1> HIDE DEF S
<1>3. Nat \subseteq S
  BY <1>1, <1>2, SetInduction
<1>4. Len(s) - k \in Nat /\ Len(s) - k <= Len(s) /\ Len(s) - (Len(s) - k) = k
      /\ (k < Len(s) => Len(s) - k > 0) /\ (k + 1 < Len(s) => Len(s) - k > 1)
  BY <1>n, SMTT(30)
<1>5. Far(Len(s) - k)
  <2>1. Len(s) - k \in S
    BY <1>3, <1>4
  <2> QED
    BY <1>4, <2>1 DEF S
<1> QED
  BY <1>4, <1>5

(***************************************************************************)
(* Tun::FDWrite finds the frames of a buffer again, whatever the decoder   *)
(* padded it with; only a bare header that ends a buffer of several frames *)
(* is taken for padding.                                                   *)
(***************************************************************************)
LEMMA DatagramsRestored ==
  ASSUME NEW s \in Seq(Datagrams), s # <<>>, NEW pad \in Nat
  PROVE  FDWrite(s, Bytes(s) + pad) = Recoverable(s, pad)
<1> DEFINE n == Len(s)
           cut == pad = 0 /\ n > 1 /\ s[n].size = 20
<1>0. s \in Seq(Frames) /\ n \in Nat \ {0} /\ \A k \in 1 .. n : s[k] \in Datagrams
  BY SMTT(30) DEF Datagrams
<1>d. \A k \in 1 .. n : s[k].size \in Nat /\ s[k].size >= 20 /\ s[k].version \in {4, 6}
  BY <1>0 DEF Datagrams, Frames, IsIPv4, MinIPHeader
<1>1. PICK t : Totals(t, s)
  BY <1>0, BytesTotal
<1> DEFINE size == t[n] + pad
           Turn(k) == [written |-> SubSeq(s, 1, k), pos |-> t[k],
                       left |-> IF k >= 1 THEN size - t[k] <= 20 ELSE FALSE]
           c == [k \in 0 .. n |-> IF k = n /\ cut THEN [Turn(n - 1) EXCEPT !.left = TRUE]
                                                  ELSE Turn(k)]
<1>2. Bytes(s) = t[n]
  BY <1>0, <1>1, BytesTotal
<1>3. /\ \A k \in 0 .. n : /\ t[k] \in Nat /\ t[k] <= t[n]
                           /\ k < n => t[n] - t[k] >= 20
                           /\ k + 1 < n => t[n] - t[k] >= 40
      /\ t[0] = 0
      /\ \A k \in 1 .. n : t[k] = t[k - 1] + s[k].size
  BY <1>1, TotalsGrow DEF Totals
<1>4. size \in Nat /\ n \in 0 .. n /\ 0 \in 0 .. n /\ t[n] \in Nat
  BY <1>0, <1>3, SMTT(30)
<1>c. c[0] = Turn(0) /\ \A k \in 1 .. n :
                           /\ c[k] = IF k = n /\ cut THEN [Turn(n - 1) EXCEPT !.left = TRUE] ELSE Turn(k)
                           /\ c[k - 1] = Turn(k - 1)
  <2>1. 0 # n /\ \A k \in 1 .. n : k \in 0 .. n /\ k - 1 \in 0 .. n /\ k - 1 # n
    BY <1>0, SMTT(30)
  <2> QED
    BY <1>4, <2>1
<1> HIDE DEF c
<1>5. c[0] = Scan0
  <2>1. SubSeq(s, 1, 0) = <<>> /\ ~(0 >= 1)
    BY SMTT(30)
  <2> QED
    BY <1>c, <1>3, <2>1 DEF Scan0
<1>6. ASSUME NEW k \in 1 .. n
      PROVE  c[k] = NextFrame(c[k - 1], s[k], size)
  <2>0. k - 1 \in 0 .. n /\ k \in 0 .. n /\ k \in Nat /\ k - 1 \in Nat
    BY <1>0, SMTT(30)
  <2>1. /\ t[k] \in Nat /\ t[k - 1] \in Nat /\ t[k] <= t[n]
        /\ (k - 1) + 1 < n => t[n] - t[k - 1] >= 40
        /\ t[k] = t[k - 1] + s[k].size /\ s[k].size \in Nat /\ s[k].size >= 20
        /\ s[k].version \in {4, 6}
    BY <1>3, <1>d, <2>0
  <2>2. t[k] <= size
    BY <1>4, <2>1, SMTT(30)
  <2>3. CASE k = n /\ cut
    <3>1. k - 1 >= 1 /\ size - t[k - 1] <= 20
      BY <1>4, <2>0, <2>1, <2>3, SMTT(30)
    <3>2. Turn(k - 1).left
      BY <3>1
    <3>3. c[k] = [Turn(k - 1) EXCEPT !.left = TRUE] /\ c[k - 1] = Turn(k - 1)
      BY <1>c, <2>3
    <3> HIDE DEF Turn, size
    <3>4. NextFrame(Turn(k - 1), s[k], size) = [Turn(k - 1) EXCEPT !.left = TRUE]
      BY <3>2 DEF NextFrame
    <3> QED
      BY <3>3, <3>4
  <2>4. CASE ~(k = n /\ cut)
    <3>1. ~(k - 1 >= 1 /\ size - t[k - 1] <= 20)
      <4>1. CASE k < n
        <5>1. t[n] - t[k - 1] >= 40
          BY <2>0, <2>1, <4>1, SMTT(30)
        <5>2. PICK u \in Nat : u = t[k - 1]
          BY <2>1
        <5>3. PICK v \in Nat : v = t[n]
          BY <1>4
        <5>4. ~((v + pad) - u <= 20)
          BY <5>1, <5>2, <5>3, SMTT(30)
        <5> QED
          BY <5>2, <5>3, <5>4
      <4>2. CASE k = n
        <5> SUFFICES ASSUME k - 1 >= 1, size - t[k - 1] <= 20
                     PROVE  FALSE
          OBVIOUS
        <5>1. size - t[k - 1] = s[k].size + pad
          BY <1>4, <2>1, <4>2, SMTT(30)
        <5>2. pad = 0 /\ s[n].size = 20 /\ n > 1
          BY <2>0, <2>1, <4>2, <5>1, SMTT(30)
        <5> QED
          BY <2>4, <4>2, <5>2
      <4> QED
        BY <1>0, <4>1, <4>2, SMTT(30)
    <3>2. c[k] = Turn(k) /\ c[k - 1] = Turn(k - 1)
      BY <1>c, <2>4
    <3>3. Append(SubSeq(s, 1, k - 1), s[k]) = SubSeq(s, 1, k)
      BY <1>0, <2>0, SMTT(30)
    <3>4. ~Turn(k - 1).left /\ Turn(k - 1).pos = t[k - 1] /\ Turn(k - 1).written = SubSeq(s, 1, k - 1)
      BY <3>1
    <3>5. Turn(k) = [written |-> SubSeq(s, 1, k), pos |-> t[k], left |-> size - t[k] <= 20]
      <4>1. k >= 1
        BY SMTT(30)
      <4> QED
        BY <4>1
    <3> HIDE DEF Turn, size
    <3>6. NextFrame(Turn(k - 1), s[k], size) =
            [written |-> SubSeq(s, 1, k), pos |-> t[k], left |-> size - t[k] <= 20]
      <4>1. ~(t[k] > size)
        BY <1>4, <2>1, <2>2, SMTT(30)
      <4> QED
        BY <2>1, <3>3, <3>4, <4>1 DEF NextFrame, MinRest, MinIPHeader
    <3> QED
      BY <3>2, <3>5, <3>6
  <2> QED
    BY <2>3, <2>4
<1>7. FDWrite(s, size) = c[n].written
  BY <1>0, <1>4, <1>5, <1>6, FDWriteTurns, SMTT(30)
<1>8. n \in 1 .. n
  BY <1>0, SMTT(30)
<1>9. CASE cut
  <2>1. c[n].written = SubSeq(s, 1, n - 1)
    BY <1>c, <1>8, <1>9
  <2>2. Recoverable(s, pad) = SubSeq(s, 1, n - 1)
    BY <1>9 DEF Recoverable, MinIPHeader
  <2> QED
    BY <1>2, <1>7, <2>1, <2>2
<1>10. CASE ~cut
  <2>1. c[n].written = SubSeq(s, 1, n)
    <3>1. c[n] = Turn(n)
      BY <1>c, <1>8, <1>10
    <3> QED
      BY <3>1, SMTT(30)
  <2>2. SubSeq(s, 1, n) = s
    BY <1>0, SMTT(30)
  <2>3. Recoverable(s, pad) = s
    BY <1>10 DEF Recoverable, MinIPHeader
  <2> QED
    BY <1>2, <1>7, <2>1, <2>2, <2>3
<1> QED
  BY <1>9, <1>10

-----------------------------------------------------------------------------
(***************************************************************************)
(* The types of the collector's own state.                                 *)
(***************************************************************************)
Vias == Range(Channels) \cup {NullPtr, "dropped"}

Sends == [hop : Nexthops, msg : Messages, id : Nat, coded : BOOLEAN, via : Vias]

Packets == {p \in Datagrams : \E i \in DOMAIN Arrivals : p = Arrivals[i]}

Jobs == [pkt : Packets \cup {NullPtr}, hop : Nexthops \cup {NullPtr}, coded : BOOLEAN]

PcStates == {"idle", "lock", "adding", "dispatch", "left"}

\* A packet in hand is one to be routed to the nexthop in hand.
Bound(j) == j.pkt \in Packets /\ j.hop \in Nexthops /\ j.hop = Route[j.pkt.dst]

HopsType == hops \in [Nexthops -> BatsBuffers \cup {NullPtr}]

JobType ==
    /\ pc \in [Workers -> PcStates]
    /\ job \in [Workers -> Jobs]
    /\ seen \in Nat
    /\ \A w \in Workers : pc[w] \in {"lock", "adding"} => Bound(job[w])

TakenType == taken \in [Nexthops -> Seq(Packets)]

OutType ==
    /\ out \in [Threads -> Seq(Sends)]
    /\ relayed \in SUBSET Sends
    /\ \A w \in Workers : pc[w] # "dispatch" => out[w] = <<>>

ChannelType ==
    /\ pos \in [Threads -> 0 .. Len(Channels) \cup {NullPtr}]
    /\ encode \in Seq(Range(Channels))
    /\ udp \in Range(Channels) \cup {NullPtr}
    /\ ready \in BOOLEAN

\* The nexthops that have a BatsBuffer.
Known == {h \in Nexthops : hops[h] # NullPtr}

\* Only those of K are, or will be, timers.
TimerKnows(K) ==
    /\ DOMAIN listed = Nexthops /\ DOMAIN unvisited = Nexthops /\ DOMAIN arg = Workers
    /\ \A h \in Nexthops \ K : listed[h] = 0 /\ unvisited[h] = 0
    /\ queue \in Seq(K)
    /\ tpc = "enqueue" => cur \in K
    /\ wpc = "handler" => wtimer \in K
    /\ \A w \in Workers : arg[w] \in K \cup {NullPtr}

KnownInv ==
    /\ TimerKnows(Known)
    /\ \A w \in Workers : pc[w] = "adding" => job[w].hop \in Known

TypeInv == HopsType /\ JobType /\ TakenType /\ OutType /\ ChannelType /\ KnownInv

LEMMA Facts ==
  /\ Pool \notin Workers /\ Arrivals \in Seq(Frames)
  /\ BlockSize \in Nat /\ Threshold \in Nat /\ Overhead \in Nat
  /\ Channels \in Seq(Range(Channels))
  /\ NullPtr \notin Nat /\ NullPtr \notin Messages /\ NullPtr \notin BatsBuffers
  /\ NullPtr \notin Nexthops
  /\ Packets \subseteq Frames /\ Packets \subseteq Datagrams
BY CollectorAssumption DEF Nexthops, Packets, Datagrams

LEMMA MessageTypes ==
  /\ NewMsg(BlockSize) \in Messages
  /\ \A m \in Messages : \A sz \in Nat : Resize(m, sz) \in Messages
  /\ \A m \in Messages : \A sz \in Nat : ReserveHeader(m, sz) \in Messages
  /\ \A m \in Messages : \A p \in Frames : Fill(m, p) \in Messages
<1>1. NewMsg(BlockSize) \in Messages
  <2>1. <<>> \in Seq(Frames)
    BY SMTT(30)
  <2> QED
    BY <2>1, Facts DEF NewMsg, Messages
<1>2. ASSUME NEW m \in Messages, NEW sz \in Nat
      PROVE  Resize(m, sz) \in Messages /\ ReserveHeader(m, sz) \in Messages
  <2>1. m.curr + sz \in Nat /\ m.tail + sz \in Nat /\ (IF sz > m.capacity THEN sz ELSE m.capacity) \in Nat
    BY SMTT(30) DEF Messages
  <2>2. Resize(m, sz) = [m EXCEPT !.size = sz, !.capacity = IF sz > m.capacity THEN sz ELSE m.capacity]
    BY DEF Resize
  <2>3. Resize(m, sz) \in Messages
    BY <2>1, <2>2 DEF Messages
  <2>4. [m EXCEPT !.curr = m.curr + sz, !.tail = m.tail + sz] \in Messages
    BY <2>1 DEF Messages
  <2>5. ReserveHeader(m, sz) \in Messages
    BY <2>4 DEF ReserveHeader
  <2> QED
    BY <2>3, <2>5
<1>3. ASSUME NEW m \in Messages, NEW p \in Frames
      PROVE  Fill(m, p) \in Messages
  <2>1. m.frames \in Seq(Frames) /\ m.tail \in Nat /\ p.size \in Nat
    BY DEF Messages, Frames
  <2>2. Append(m.frames, p) \in Seq(Frames) /\ m.tail + p.size \in Nat
    BY <2>1, SMTT(30)
  <2> QED
    BY <2>2 DEF Fill, Messages
<1> QED
  BY <1>1, <1>2, <1>3

LEMMA BatsTypes ==
  /\ NewBatsBuffer \in BatsBuffers
  /\ \A b \in BatsBuffers : ResetBuf(b) \in BatsBuffers /\ ResetBuf(b).buf \in Messages
  /\ \A b \in BatsBuffers : WithBuf(b) \in BatsBuffers /\ WithBuf(b).buf \in Messages
  /\ \A h \in Nexthops : \A b \in BatsBuffers : \A m \in Messages : \A coded \in BOOLEAN :
       Sent(h, b, m, coded) \in Sends
<1>1. NewBatsBuffer \in BatsBuffers
  BY DEF NewBatsBuffer, BatsBuffers
<1>2. \A b \in BatsBuffers : ResetBuf(b) \in BatsBuffers /\ ResetBuf(b).buf \in Messages
  BY MessageTypes, SMTT(30) DEF ResetBuf, BatsBuffers
<1>3. \A b \in BatsBuffers : WithBuf(b) \in BatsBuffers /\ WithBuf(b).buf \in Messages
  BY <1>2 DEF WithBuf, BatsBuffers
<1>4. ASSUME NEW h \in Nexthops, NEW b \in BatsBuffers, NEW m \in Messages, NEW coded \in BOOLEAN
      PROVE  Sent(h, b, m, coded) \in Sends
  <2>1. m.tail \in Nat /\ b.last \in Nat
    BY DEF Messages, BatsBuffers
  <2>2. Resize(m, m.tail) \in Messages /\ NullPtr \in Vias
    BY <2>1, MessageTypes DEF Vias
  <2> QED
    BY <2>1, <2>2 DEF Sent, Sends
<1> QED
  BY <1>1, <1>2, <1>3, <1>4

\* The critical sections leave a BatsBuffer and buffers to dispatch.
LEMMA SectionTypes ==
  ASSUME NEW h \in Nexthops, NEW bats \in BatsBuffers, NEW p \in Frames
  PROVE  /\ BufferingData(h, bats, p).bats \in BatsBuffers
         /\ BufferingData(h, bats, p).out \in Seq(Sends)
         /\ ForceRelayData(h, bats, p).bats \in BatsBuffers
         /\ ForceRelayData(h, bats, p).out \in Seq(Sends)
<1> DEFINE b == WithBuf(bats)
<1>1. b \in BatsBuffers /\ b.buf \in Messages
  BY BatsTypes
<1> HIDE DEF b
<1>s. /\ <<>> \in Seq(Sends) /\ \A q \in Sends : <<q>> \in Seq(Sends)
      /\ \A q, r \in Seq(Sends) : q \o r \in Seq(Sends)
  BY SMTT(30)
<1>2. /\ BufferingData(h, bats, p).bats \in BatsBuffers
      /\ BufferingData(h, bats, p).out \in Seq(Sends)
  <2> DEFINE full == b.buf.tail + p.size > b.buf.size
             buf == Fill(IF full THEN Resize(b.buf, b.buf.tail) ELSE b.buf, p)
             enough == buf.tail > Threshold
             next == IF full THEN ResetBuf(b) ELSE [b EXCEPT !.buf = buf]
             stays == IF enough THEN ResetBuf(next) ELSE next
             sends == (IF full THEN <<Sent(h, b, buf, TRUE)>> ELSE <<>>)
                         \o (IF enough THEN <<Sent(h, b, buf, TRUE)>> ELSE <<>>)
  <2>1. BufferingData(h, bats, p) = [bats |-> stays, out |-> sends]
    BY DEF BufferingData, b
  <2>2. buf \in Messages
    <3>1. Resize(b.buf, b.buf.tail) \in Messages
      BY <1>1, MessageTypes DEF Messages
    <3> QED
      BY <1>1, <3>1, MessageTypes
  <2> HIDE DEF full, buf
  <2>3. next \in BatsBuffers
    <3>1. [b EXCEPT !.buf = buf] \in BatsBuffers
      BY <1>1, <2>2 DEF BatsBuffers
    <3> QED
      BY <1>1, <3>1, BatsTypes
  <2>4. Sent(h, b, buf, TRUE) \in Sends
    BY <1>1, <2>2, BatsTypes
  <2> HIDE DEF enough, next
  <2>5. stays \in BatsBuffers
    BY <2>3, BatsTypes
  <2>6. sends \in Seq(Sends)
    <3>1. /\ (IF full THEN <<Sent(h, b, buf, TRUE)>> ELSE <<>>) \in Seq(Sends)
          /\ (IF enough THEN <<Sent(h, b, buf, TRUE)>> ELSE <<>>) \in Seq(Sends)
      BY <1>s, <2>4
    <3> QED
      BY <1>s, <3>1
  <2> HIDE DEF stays, sends
  <2> QED
    BY <2>1, <2>5, <2>6, SMTT(30)
<1>3. /\ ForceRelayData(h, bats, p).bats \in BatsBuffers
      /\ ForceRelayData(h, bats, p).out \in Seq(Sends)
  <2> DEFINE flush == b.buf.tail > 0
             fresh == IF flush THEN ResetBuf(b) ELSE b
             buf == Fill(ReserveHeader(fresh.buf, Overhead), p)
             sends == (IF flush THEN <<Sent(h, b, b.buf, TRUE)>> ELSE <<>>)
                         \o <<Sent(h, fresh, buf, FALSE)>>
  <2>1. ForceRelayData(h, bats, p) = [bats |-> ResetBuf(fresh), out |-> sends]
    BY DEF ForceRelayData, b
  <2> HIDE DEF flush
  <2>2. fresh \in BatsBuffers /\ fresh.buf \in Messages
    BY <1>1, BatsTypes
  <2> HIDE DEF fresh
  <2>3. buf \in Messages
    BY <2>2, MessageTypes, Facts
  <2> HIDE DEF buf
  <2>4. Sent(h, b, b.buf, TRUE) \in Sends /\ Sent(h, fresh, buf, FALSE) \in Sends
    BY <1>1, <2>2, <2>3, BatsTypes
  <2>5. ResetBuf(fresh) \in BatsBuffers
    BY <2>2, BatsTypes
  <2>6. sends \in Seq(Sends)
    <3>1. /\ (IF flush THEN <<Sent(h, b, b.buf, TRUE)>> ELSE <<>>) \in Seq(Sends)
          /\ <<Sent(h, fresh, buf, FALSE)>> \in Seq(Sends)
      BY <1>s, <2>4
    <3> QED
      BY <1>s, <3>1
  <2> HIDE DEF sends
  <2> QED
    BY <2>1, <2>5, <2>6, SMTT(30)
<1> QED
  BY <1>2, <1>3

-----------------------------------------------------------------------------
(***************************************************************************)
(* The timer service only ever handles timers it was given.                *)
(***************************************************************************)
TimerStep(K) ==
    \/ \E w \in Workers : TM!Add(w) \/ \E h \in K : TM!CallAdd(w, h)
    \/ TM!TickStep \/ TM!WorkTest \/ TM!WorkDequeue \/ TM!Handler
    \/ TM!StopFlag \/ TM!StopBreak \/ TM!StopJoin
    \/ UNCHANGED timer

LEMMA VisitKnown ==
  ASSUME NEW K \in SUBSET Nexthops, TimerKnows(K), NEW t \in K, TM!FinishVisit(t)
  PROVE  /\ DOMAIN listed' = Nexthops /\ DOMAIN unvisited' = Nexthops
         /\ \A h \in Nexthops \ K : listed'[h] = 0 /\ unvisited'[h] = 0
         /\ tpc' # "enqueue"
BY DEF TM!FinishVisit, TimerKnows

LEMMA AddKnown ==
  ASSUME NEW K \in SUBSET Nexthops, TimerKnows(K), NEW t \in K, TM!AddTimer(t)
  PROVE  /\ DOMAIN listed' = Nexthops
         /\ \A h \in Nexthops \ K : listed'[h] = 0
BY DEF TM!AddTimer, TimerKnows

LEMMA TimerKeeps ==
  ASSUME NEW K \in SUBSET Nexthops, TimerKnows(K), TimerStep(K)
  PROVE  TimerKnows(K)'
<1>n. NullPtr \notin K
  BY Facts
<1>1. ASSUME NEW w \in Workers, TM!Add(w)
      PROVE  TimerKnows(K)'
  <2>1. arg[w] \in K
    BY <1>1 DEF TM!Add, TimerKnows
  <2>2. DOMAIN listed' = Nexthops /\ \A h \in Nexthops \ K : listed'[h] = 0
    BY <1>1, <2>1, AddKnown DEF TM!Add
  <2> QED
    BY <1>1, <2>2 DEF TM!Add, TM!tickVars, TM!workVars, TimerKnows
<1>2. ASSUME NEW w \in Workers, NEW h \in K, TM!CallAdd(w, h)
      PROVE  TimerKnows(K)'
  BY <1>2 DEF TM!CallAdd, TM!tickVars, TM!workVars, TimerKnows
<1>3. ASSUME TM!TickStep
      PROVE  TimerKnows(K)'
  <2>1. CASE TM!TickTest \/ TM!Advance \/ TM!BeginScan \/ TM!EndScan
    BY <2>1 DEF TM!TickTest, TM!Advance, TM!BeginScan, TM!EndScan, TM!workVars, TimerKnows
  <2>2. ASSUME NEW t \in Nexthops, TM!VisitIdle(t)
        PROVE  TimerKnows(K)'
    <3>0. unvisited[t] > 0
      BY <2>2 DEF TM!VisitIdle
    <3>1. t \in K
      BY <3>0, SMTT(30) DEF TimerKnows
    <3>2. TM!FinishVisit(t)
      BY <2>2 DEF TM!VisitIdle
    <3> QED
      BY <2>2, <3>1, <3>2, VisitKnown DEF TM!VisitIdle, TM!workVars, TimerKnows
  <2>3. ASSUME NEW t \in Nexthops, TM!VisitDue(t)
        PROVE  TimerKnows(K)'
    <3>0. unvisited[t] > 0
      BY <2>3 DEF TM!VisitDue
    <3>1. t \in K
      BY <3>0, SMTT(30) DEF TimerKnows
    <3> QED
      BY <2>3, <3>1 DEF TM!VisitDue, TM!workVars, TimerKnows
  <2>4. CASE TM!Enqueue
    <3>1. cur \in K /\ TM!FinishVisit(cur)
      BY <2>4 DEF TM!Enqueue, TimerKnows
    <3>2. queue' \in Seq(K)
      <4>1. queue \in Seq(K)
        BY DEF TimerKnows
      <4> QED
        BY <2>4, <3>1, <4>1, SMTT(30) DEF TM!Enqueue
    <3> QED
      BY <2>4, <3>1, <3>2, VisitKnown DEF TM!Enqueue, TM!workVars, TimerKnows
  <2> QED
    BY <1>3, <2>1, <2>2, <2>3, <2>4 DEF TM!TickStep
<1>4. CASE TM!WorkTest
  BY <1>4 DEF TM!WorkTest, TM!tickVars, TimerKnows
<1>5. CASE TM!WorkDequeue
  <2>1. queue \in Seq(K)
    BY DEF TimerKnows
  <2>2. queue' \in Seq(K) /\ (wpc' = "handler" => wtimer' \in K)
    BY <1>5, <2>1, SMTT(30) DEF TM!WorkDequeue, TimerKnows
  <2> QED
    BY <1>5, <2>2 DEF TM!WorkDequeue, TM!tickVars, TimerKnows
<1>6. CASE TM!Handler
  <2>1. wtimer \in K
    BY <1>6 DEF TM!Handler, TimerKnows
  <2>2. UNCHANGED listed
    BY <1>6, <2>1 DEF TM!Handler
  <2> QED
    BY <1>6, <2>2 DEF TM!Handler, TM!tickVars, TimerKnows
<1>7. CASE TM!StopFlag \/ TM!StopBreak \/ TM!StopJoin
  BY <1>7 DEF TM!StopFlag, TM!StopBreak, TM!StopJoin, TM!tickVars, TM!workVars, TimerKnows
<1>8. CASE UNCHANGED timer
  BY <1>8 DEF timer, TimerKnows
<1> QED
  BY <1>1, <1>2, <1>3, <1>4, <1>5, <1>6, <1>7, <1>8 DEF TimerStep


-----------------------------------------------------------------------------
(***************************************************************************)
(* The kinds of steps, by what they do to the buffers.                     *)
(***************************************************************************)
Result(j, bats) ==
    IF j.coded THEN BufferingData(j.hop, bats, j.pkt) ELSE ForceRelayData(j.hop, bats, j.pkt)

GatherStep(w) ==
    LET h == job[w].hop
        r == Result(job[w], hops[h])
    IN  /\ pc[w] \in {"lock", "adding"}
        /\ Bound(job[w])
        /\ h \in Known
        /\ hops' = [hops EXCEPT ![h] = r.bats]
        /\ out' = [out EXCEPT ![w] = r.out]
        /\ taken' = [taken EXCEPT ![h] = Append(@, job[w].pkt)]
        /\ pc' = [pc EXCEPT ![w] = IF r.out = <<>> THEN "idle" ELSE "dispatch"]
        /\ job' = [job EXCEPT ![w] = NoJob]
        /\ UNCHANGED <<seen, dispatching>>

Kinds ==
    \/ \E w \in Workers : HandleMsg(w) \/ GetBatsBuffer(w) \/ GatherStep(w) \/ Leave(w)
    \/ \E x \in Threads : DispatchEnter(x) \/ SortChannel(x) \/ DispatchWrite(x)
    \/ HandleTimeoutBuffer
    \/ UNCHANGED <<buffers, out, dispatching>>

LEMMA StepKinds ==
  ASSUME TypeInv, [Next]_vars
  PROVE  Kinds
<1>1. ASSUME NEW w \in Workers, GatherKnown(w) \/ GatherNew(w)
      PROVE  GatherStep(w)
  <2>1. pc[w] \in {"lock", "adding"} /\ Bound(job[w])
    BY <1>1 DEF GatherKnown, GatherNew, TypeInv, JobType
  <2>2. job[w].hop \in Known
    BY <1>1, <2>1 DEF GatherKnown, GatherNew, TypeInv, KnownInv, Known, Bound
  <2>3. Gather(w, hops[job[w].hop]) /\ UNCHANGED <<seen, dispatching>>
    BY <1>1 DEF GatherKnown, GatherNew
  <2> QED
    BY <2>1, <2>2, <2>3 DEF Gather, GatherStep, Result
<1>2. ASSUME NEW w \in Workers, WorkerStep(w)
      PROVE  Kinds
  BY <1>1, <1>2 DEF WorkerStep, DispatchStep, Threads, Kinds
<1>3. CASE TickStep \/ Stop \/ StopStep
  BY <1>3 DEF TickStep, Stop, StopStep, Kinds, buffers, dispatching
<1>4. CASE PoolStep
  BY <1>4 DEF PoolStep, HandlerIdle, DispatchStep, Threads, Kinds
<1>5. CASE UNCHANGED vars
  BY <1>5 DEF vars, Kinds
<1> QED
  BY <1>2, <1>3, <1>4, <1>5 DEF Next, Kinds

LEMMA ResultTypes ==
  ASSUME TypeInv, NEW w \in Workers, GatherStep(w)
  PROVE  /\ Result(job[w], hops[job[w].hop]).bats \in BatsBuffers
         /\ Result(job[w], hops[job[w].hop]).out \in Seq(Sends)
         /\ hops[job[w].hop] \in BatsBuffers
         /\ job[w].hop \in Nexthops /\ job[w].pkt \in Packets
<1>1. job[w].hop \in Nexthops /\ job[w].pkt \in Packets /\ job[w].hop \in Known
  BY DEF GatherStep, Bound
<1>2. hops[job[w].hop] \in BatsBuffers
  BY <1>1 DEF Known, TypeInv, HopsType
<1>3. job[w].pkt \in Frames
  BY <1>1, Facts
<1> QED
  BY <1>1, <1>2, <1>3, SectionTypes DEF Result

\* What a write adds to the relayed buffers.
LEMMA WriteEffect ==
  ASSUME TypeInv, NEW x \in Threads, DispatchWrite(x)
  PROVE  /\ out[x] # <<>> /\ Head(out[x]) \in Sends
         /\ out' = [out EXCEPT ![x] = Tail(out[x])]
         /\ UNCHANGED <<hops, job, seen, taken, encode, udp, ready>>
         /\ \E v \in Vias : relayed' = relayed \cup {[Head(out[x]) EXCEPT !.via = v]}
<1>1. out[x] # <<>> /\ out' = [out EXCEPT ![x] = Tail(out[x])]
      /\ UNCHANGED <<hops, job, seen, taken, encode, udp, ready>>
  BY DEF DispatchWrite, Dispatched
<1>2. out[x] \in Seq(Sends)
  BY DEF TypeInv, OutType
<1>3. Head(out[x]) \in Sends
  BY <1>1, <1>2, SMTT(30)
<1> DEFINE b == Head(out[x])
           v == Via(b)
<1>4. relayed' = relayed \cup {[b EXCEPT !.via = v]}
  BY DEF DispatchWrite
<1>5. Target(b) \in Vias
  <2>1. encode \in Seq(Range(Channels)) /\ udp \in Vias /\ NullPtr \in Vias /\ b.id \in Nat
    BY <1>3 DEF TypeInv, ChannelType, Vias, Sends
  <2>2. ASSUME encode # <<>>
        PROVE  encode[1 + (b.id % Len(encode))] \in Range(Channels)
    <3>1. Len(encode) \in Nat \ {0}
      BY <2>1, <2>2, SMTT(30)
    <3>2. \A i \in Nat : \A n \in Nat \ {0} : i % n \in 0 .. n - 1
      BY SMTT(30)
    <3>3. b.id % Len(encode) \in 0 .. Len(encode) - 1
      BY <2>1, <3>1, <3>2
    <3>4. 1 + (b.id % Len(encode)) \in 1 .. Len(encode)
      BY <3>1, <3>3, SMTT(30)
    <3> QED
      BY <2>1, <3>4, SMTT(30)
  <2> QED
    BY <2>1, <2>2 DEF Target, Vias
<1>6. v \in Vias
  BY <1>5 DEF Via, Vias
<1> QED
  BY <1>1, <1>3, <1>4, <1>6

-----------------------------------------------------------------------------
(***************************************************************************)
(* The types are an invariant.                                             *)
(***************************************************************************)
LEMMA HopsInductive ==
  ASSUME TypeInv, Kinds
  PROVE  HopsType' /\ Known \subseteq Known'
<1>0. HopsType /\ NullPtr \notin BatsBuffers
  BY Facts DEF TypeInv
<1>k. ASSUME NEW h \in Nexthops, NEW b \in BatsBuffers, hops' = [hops EXCEPT ![h] = b]
      PROVE  HopsType' /\ Known \subseteq Known'
  BY <1>0, <1>k DEF HopsType, Known
<1>1. ASSUME NEW w \in Workers, HandleMsg(w) \/ Leave(w)
      PROVE  UNCHANGED hops
  BY <1>1 DEF HandleMsg, Leave
<1>2. ASSUME NEW w \in Workers, GetBatsBuffer(w)
      PROVE  HopsType' /\ Known \subseteq Known'
  <2>1. job[w].hop \in Nexthops
    BY <1>2 DEF GetBatsBuffer, TypeInv, JobType, Bound
  <2> QED
    BY <1>2, <1>k, <2>1, BatsTypes DEF GetBatsBuffer
<1>3. ASSUME NEW w \in Workers, GatherStep(w)
      PROVE  HopsType' /\ Known \subseteq Known'
  <2>1. hops' = [hops EXCEPT ![job[w].hop] = Result(job[w], hops[job[w].hop]).bats]
    BY <1>3 DEF GatherStep
  <2> QED
    BY <1>3, <1>k, <2>1, ResultTypes
<1>4. ASSUME NEW x \in Threads, DispatchEnter(x) \/ SortChannel(x) \/ DispatchWrite(x)
      PROVE  UNCHANGED hops
  BY <1>4, WriteEffect DEF DispatchEnter, SortChannel, buffers
<1>5. CASE HandleTimeoutBuffer
  <2>1. wtimer \in Known
    BY <1>5 DEF HandleTimeoutBuffer, Waiting, TypeInv, KnownInv, TimerKnows
  <2>2. wtimer \in Nexthops /\ hops[wtimer] \in BatsBuffers
    BY <1>0, <2>1 DEF Known, HopsType
  <2>3. hops' = [hops EXCEPT ![wtimer] = ResetBuf(hops[wtimer])]
    BY <1>5 DEF HandleTimeoutBuffer
  <2> QED
    BY <1>k, <2>2, <2>3, BatsTypes
<1>6. ASSUME UNCHANGED hops
      PROVE  HopsType' /\ Known \subseteq Known'
  BY <1>0, <1>6 DEF HopsType, Known
<1>7. CASE UNCHANGED <<buffers, out, dispatching>>
  BY <1>6, <1>7 DEF buffers
<1> QED
  BY <1>1, <1>2, <1>3, <1>4, <1>5, <1>6, <1>7 DEF Kinds

LEMMA JobInductive ==
  ASSUME TypeInv, Kinds
  PROVE  JobType'
<1>0. JobType
  BY DEF TypeInv
<1>1. ASSUME NEW w \in Workers, HandleMsg(w)
      PROVE  JobType'
  <2> DEFINE p == Arrivals[seen']
  <2>1. seen' \in NextPacket(seen) /\ seen \in Nat
    BY <1>0, <1>1 DEF HandleMsg, JobType
  <2>2. seen' \in Nat /\ seen' \in DOMAIN Arrivals /\ IsIPv4(p) /\ p \in Frames
    BY <2>1, Facts, SMTT(30) DEF NextPacket
  <2>3. p \in Packets /\ p.dst \in Addresses /\ DstAddr(p, Addresses) = {p.dst}
    BY <2>2 DEF Packets, Datagrams, Frames, DstAddr, IsIPv4
  <2> HIDE DEF p
  <2>4. CASE UNCHANGED <<pc, job>>
    BY <1>0, <2>2, <2>4 DEF JobType
  <2>5. ASSUME NEW dst \in DstAddr(p, Addresses), Route[dst] # NullPtr, NEW coded \in BOOLEAN,
               job' = [job EXCEPT ![w] = [pkt |-> p, hop |-> Route[dst], coded |-> coded]],
               pc' = [pc EXCEPT ![w] = "lock"]
        PROVE  JobType'
    <3>1. dst = p.dst /\ Route[dst] \in Nexthops
      BY <2>3, <2>5 DEF Nexthops
    <3> DEFINE j == [pkt |-> p, hop |-> Route[dst], coded |-> coded]
    <3>2. j \in Jobs /\ Bound(j)
      BY <2>3, <3>1 DEF Jobs, Bound
    <3>3. job' = [job EXCEPT ![w] = j]
      BY <2>5
    <3> HIDE DEF j
    <3>4. job' \in [Workers -> Jobs] /\ pc' \in [Workers -> PcStates]
      BY <1>0, <2>5, <3>2, <3>3 DEF JobType, PcStates
    <3>5. \A v \in Workers : pc'[v] \in {"lock", "adding"} => Bound(job'[v])
      BY <1>0, <2>5, <3>2, <3>3 DEF JobType
    <3> QED
      BY <2>2, <3>4, <3>5 DEF JobType, Bound
  <2> QED
    BY <1>1, <2>4, <2>5 DEF HandleMsg, p
<1>2. ASSUME NEW w \in Workers, GetBatsBuffer(w)
      PROVE  JobType'
  BY <1>0, <1>2 DEF GetBatsBuffer, JobType, PcStates, Bound
<1>3. ASSUME NEW w \in Workers, GatherStep(w)
      PROVE  JobType'
  <2>1. /\ pc' = [pc EXCEPT ![w] = "idle"] \/ pc' = [pc EXCEPT ![w] = "dispatch"]
        /\ job' = [job EXCEPT ![w] = NoJob] /\ seen' = seen
    BY <1>3 DEF GatherStep
  <2>2. NoJob \in Jobs
    BY DEF NoJob, Jobs
  <2>3. pc' \in [Workers -> PcStates] /\ job' \in [Workers -> Jobs]
    BY <1>0, <2>1, <2>2 DEF JobType, PcStates
  <2>4. \A v \in Workers : pc'[v] \in {"lock", "adding"} => Bound(job'[v])
    BY <1>0, <2>1 DEF JobType
  <2> QED
    BY <1>0, <2>1, <2>3, <2>4 DEF JobType, Bound
<1>4. ASSUME NEW w \in Workers, Leave(w)
      PROVE  JobType'
  BY <1>0, <1>4 DEF Leave, JobType, PcStates, Bound
<1>5. ASSUME NEW x \in Threads, DispatchWrite(x)
      PROVE  JobType'
  <2>1. pc' = pc \/ (x \in Workers /\ pc' = [pc EXCEPT ![x] = IF Len(out[x]) = 1 THEN "idle" ELSE @])
    BY <1>5 DEF DispatchWrite, Dispatched, Threads
  <2>2. UNCHANGED <<job, seen>>
    BY <1>5, WriteEffect
  <2> QED
    BY <1>0, <2>1, <2>2 DEF JobType, PcStates, Bound
<1>6. CASE UNCHANGED <<pc, job, seen>>
  BY <1>0, <1>6 DEF JobType, Bound
<1>7. ASSUME NEW x \in Threads, DispatchEnter(x) \/ SortChannel(x)
      PROVE  UNCHANGED <<pc, job, seen>>
  BY <1>7 DEF DispatchEnter, SortChannel, buffers
<1>8. ASSUME HandleTimeoutBuffer \/ UNCHANGED <<buffers, out, dispatching>>
      PROVE  UNCHANGED <<pc, job, seen>>
  BY <1>8 DEF HandleTimeoutBuffer, buffers
<1> QED
  BY <1>1, <1>2, <1>3, <1>4, <1>5, <1>6, <1>7, <1>8 DEF Kinds

LEMMA TakenInductive ==
  ASSUME TypeInv, Kinds
  PROVE  TakenType'
<1>0. TakenType
  BY DEF TypeInv
<1>1. ASSUME NEW w \in Workers, GatherStep(w)
      PROVE  TakenType'
  <2>1. job[w].hop \in Nexthops /\ job[w].pkt \in Packets
        /\ taken' = [taken EXCEPT ![job[w].hop] = Append(taken[job[w].hop], job[w].pkt)]
    BY <1>1, ResultTypes DEF GatherStep
  <2>2. taken[job[w].hop] \in Seq(Packets)
    BY <1>0, <2>1 DEF TakenType
  <2>3. Append(taken[job[w].hop], job[w].pkt) \in Seq(Packets)
    BY <2>1, <2>2, SMTT(30)
  <2> QED
    BY <1>0, <2>1, <2>3 DEF TakenType
<1>2. CASE UNCHANGED taken
  BY <1>0, <1>2 DEF TakenType
<1>3. ASSUME NEW w \in Workers, HandleMsg(w) \/ GetBatsBuffer(w) \/ Leave(w)
      PROVE  UNCHANGED taken
  BY <1>3 DEF HandleMsg, GetBatsBuffer, Leave
<1>4. ASSUME NEW x \in Threads, DispatchEnter(x) \/ SortChannel(x) \/ DispatchWrite(x)
      PROVE  UNCHANGED taken
  BY <1>4, WriteEffect DEF DispatchEnter, SortChannel, buffers
<1>5. ASSUME HandleTimeoutBuffer \/ UNCHANGED <<buffers, out, dispatching>>
      PROVE  UNCHANGED taken
  BY <1>5 DEF HandleTimeoutBuffer, buffers
<1> QED
  BY <1>1, <1>2, <1>3, <1>4, <1>5 DEF Kinds

LEMMA OutInductive ==
  ASSUME TypeInv, Kinds
  PROVE  OutType'
<1>0. OutType /\ JobType /\ Pool \in Threads /\ Pool \notin Workers /\ Workers \subseteq Threads
  BY Facts DEF TypeInv, Threads
<1>1. ASSUME NEW w \in Workers, GatherStep(w)
      PROVE  OutType'
  <2> DEFINE r == Result(job[w], hops[job[w].hop])
  <2>1. /\ r.out \in Seq(Sends) /\ out' = [out EXCEPT ![w] = r.out] /\ relayed' = relayed
        /\ pc' = [pc EXCEPT ![w] = IF r.out = <<>> THEN "idle" ELSE "dispatch"]
    BY <1>1, ResultTypes DEF GatherStep, dispatching
  <2> HIDE DEF r
  <2> QED
    BY <1>0, <2>1 DEF OutType, JobType
<1>2. ASSUME UNCHANGED <<out, relayed>>, NEW w \in Workers, NEW s \in PcStates,
             pc[w] # "dispatch", pc' = [pc EXCEPT ![w] = s]
      PROVE  OutType'
  BY <1>0, <1>2 DEF OutType, JobType
<1>3. ASSUME NEW w \in Workers, HandleMsg(w) \/ GetBatsBuffer(w) \/ Leave(w)
      PROVE  OutType'
  <2>1. UNCHANGED <<out, relayed>> /\ pc[w] # "dispatch"
    BY <1>3 DEF HandleMsg, GetBatsBuffer, Leave, dispatching
  <2>2. pc' = pc \/ \E s \in PcStates : pc' = [pc EXCEPT ![w] = s]
    BY <1>3 DEF HandleMsg, GetBatsBuffer, Leave, PcStates
  <2>3. CASE pc' = pc
    BY <1>0, <2>1, <2>3 DEF OutType
  <2> QED
    BY <1>2, <2>1, <2>2, <2>3
<1>4. ASSUME NEW x \in Threads, DispatchWrite(x)
      PROVE  OutType'
  <2>1. /\ out[x] # <<>> /\ Head(out[x]) \in Sends
        /\ out' = [out EXCEPT ![x] = Tail(out[x])]
    BY <1>4, WriteEffect
  <2>2. PICK v \in Vias : relayed' = relayed \cup {[Head(out[x]) EXCEPT !.via = v]}
    BY <1>4, WriteEffect
  <2>3. out[x] \in Seq(Sends)
    BY <1>0 DEF OutType
  <2>4. Tail(out[x]) \in Seq(Sends) /\ (Len(out[x]) = 1 => Tail(out[x]) = <<>>)
    <3>1. \A q \in Seq(Sends) : q # <<>> => Tail(q) \in Seq(Sends) /\ Len(Tail(q)) = Len(q) - 1
      BY SMTT(30)
    <3>2. \A q \in Seq(Sends) : Len(q) = 0 => q = <<>>
      BY SMTT(30)
    <3>3. Tail(out[x]) \in Seq(Sends) /\ Len(Tail(out[x])) = Len(out[x]) - 1
      BY <2>1, <2>3, <3>1
    <3>4. Len(out[x]) = 1 => Len(Tail(out[x])) = 0
      BY <3>3, SMTT(30)
    <3> QED
      BY <3>2, <3>3, <3>4
  <2>5. relayed' \in SUBSET Sends
    <3>1. [Head(out[x]) EXCEPT !.via = v] \in Sends
      BY <2>1 DEF Sends
    <3> QED
      BY <1>0, <2>2, <3>1 DEF OutType
  <2>6. out' \in [Threads -> Seq(Sends)]
    BY <1>0, <2>1, <2>4 DEF OutType
  <2>7. \A w \in Workers : pc'[w] # "dispatch" => out'[w] = <<>>
    <3>1. CASE x = Pool
      <4>1. pc' = pc
        BY <1>4, <3>1 DEF DispatchWrite, Dispatched
      <4> QED
        BY <1>0, <2>1, <3>1, <4>1 DEF OutType
    <3>2. CASE x # Pool
      <4>1. x \in Workers /\ pc' = [pc EXCEPT ![x] = IF Len(out[x]) = 1 THEN "idle" ELSE @]
        BY <1>4, <3>2 DEF DispatchWrite, Dispatched, Threads
      <4>2. pc[x] = "dispatch"
        BY <1>0, <2>1, <4>1 DEF OutType
      <4> QED
        BY <1>0, <2>1, <2>4, <4>1, <4>2 DEF OutType, JobType
    <3> QED
      BY <3>1, <3>2
  <2> QED
    BY <2>5, <2>6, <2>7 DEF OutType
<1>5. CASE HandleTimeoutBuffer
  <2>1. wtimer \in Known
    BY <1>5 DEF HandleTimeoutBuffer, Waiting, TypeInv, KnownInv, TimerKnows
  <2>2. wtimer \in Nexthops /\ hops[wtimer] \in BatsBuffers
    BY <2>1 DEF Known, TypeInv, HopsType
  <2>3. hops[wtimer].buf \in Messages
    BY <1>5, <2>2 DEF HandleTimeoutBuffer, BatsBuffers
  <2> DEFINE e == Sent(wtimer, hops[wtimer], hops[wtimer].buf, TRUE)
  <2>4. e \in Sends
    BY <2>2, <2>3, BatsTypes
  <2>5. out' = [out EXCEPT ![Pool] = <<e>>] /\ UNCHANGED <<pc, relayed>>
    BY <1>5 DEF HandleTimeoutBuffer, dispatching
  <2> HIDE DEF e
  <2>6. <<e>> \in Seq(Sends)
    BY <2>4, SMTT(30)
  <2> QED
    BY <1>0, <2>5, <2>6 DEF OutType
<1>6. CASE UNCHANGED <<out, relayed, pc>>
  BY <1>0, <1>6 DEF OutType
<1>7. ASSUME NEW x \in Threads, DispatchEnter(x) \/ SortChannel(x)
      PROVE  UNCHANGED <<out, relayed, pc>>
  BY <1>7 DEF DispatchEnter, SortChannel, buffers
<1>8. ASSUME UNCHANGED <<buffers, out, dispatching>>
      PROVE  UNCHANGED <<out, relayed, pc>>
  BY <1>8 DEF buffers, dispatching
<1> QED
  BY <1>1, <1>3, <1>4, <1>5, <1>6, <1>7, <1>8 DEF Kinds

LEMMA ChannelInductive ==
  ASSUME TypeInv, Kinds
  PROVE  ChannelType'
<1>0. ChannelType /\ NullPtr \notin Nat /\ Channels \in Seq(Range(Channels))
  BY Facts DEF TypeInv
<1>1. ASSUME NEW x \in Threads, DispatchEnter(x)
      PROVE  ChannelType'
  <2>1. 0 \in 0 .. Len(Channels)
    BY <1>0, SMTT(30)
  <2> QED
    BY <1>0, <1>1, <2>1 DEF DispatchEnter, ChannelType
<1>2. ASSUME NEW x \in Threads, SortChannel(x)
      PROVE  ChannelType'
  <2> DEFINE c == Channels[pos[x] + 1]
  <2>1. pos[x] \in 0 .. Len(Channels) /\ pos[x] < Len(Channels)
    BY <1>0, <1>2 DEF SortChannel, ChannelType
  <2>2. pos[x] + 1 \in 1 .. Len(Channels) /\ pos[x] + 1 \in 0 .. Len(Channels)
    BY <1>0, <2>1, SMTT(30)
  <2>3. c \in Range(Channels)
    BY <1>0, <2>2, SMTT(30)
  <2>4. pos' = [pos EXCEPT ![x] = pos[x] + 1]
    BY <1>2 DEF SortChannel
  <2>5. pos' \in [Threads -> 0 .. Len(Channels) \cup {NullPtr}]
    BY <1>0, <2>2, <2>4 DEF ChannelType
  <2> HIDE DEF c
  <2>6. CASE udp' = c /\ ready' = TRUE /\ UNCHANGED encode
    BY <1>0, <2>3, <2>5, <2>6 DEF ChannelType
  <2>7. CASE encode' = Append(encode, c) /\ UNCHANGED <<udp, ready>>
    BY <1>0, <2>3, <2>5, <2>7, SMTT(30) DEF ChannelType
  <2>8. CASE encode # <<>> /\ encode' = [encode EXCEPT ![Len(encode)] = c] /\ UNCHANGED <<udp, ready>>
    <3>1. encode \in Seq(Range(Channels))
      BY <1>0 DEF ChannelType
    <3>2. encode' \in Seq(Range(Channels))
      BY <2>3, <2>8, <3>1, SMTT(30)
    <3> QED
      BY <1>0, <2>5, <2>8, <3>2 DEF ChannelType
  <2> QED
    BY <1>2, <2>6, <2>7, <2>8 DEF SortChannel, c
<1>3. ASSUME NEW x \in Threads, DispatchWrite(x)
      PROVE  ChannelType'
  <2>1. pos' = [pos EXCEPT ![x] = NullPtr] /\ UNCHANGED <<encode, udp, ready>>
    BY <1>3 DEF DispatchWrite, Dispatched
  <2> QED
    BY <1>0, <2>1 DEF ChannelType
<1>4. CASE UNCHANGED <<pos, encode, udp, ready>>
  BY <1>0, <1>4 DEF ChannelType
<1>5. ASSUME NEW w \in Workers, HandleMsg(w) \/ GetBatsBuffer(w) \/ GatherStep(w) \/ Leave(w)
      PROVE  UNCHANGED <<pos, encode, udp, ready>>
  BY <1>5 DEF HandleMsg, GetBatsBuffer, GatherStep, Leave, dispatching
<1>6. ASSUME HandleTimeoutBuffer \/ UNCHANGED <<buffers, out, dispatching>>
      PROVE  UNCHANGED <<pos, encode, udp, ready>>
  BY <1>6 DEF HandleTimeoutBuffer, dispatching
<1> QED
  BY <1>1, <1>2, <1>3, <1>4, <1>5, <1>6 DEF Kinds

\* Every step is one of the timer service, or leaves it alone.
LEMMA TimerSteps ==
  ASSUME TypeInv, [Next]_vars, NEW L, L = Known'
  PROVE  TimerStep(L)
<1>1. ASSUME NEW w \in Workers, HandleMsg(w) \/ GatherKnown(w) \/ Leave(w)
      PROVE  UNCHANGED timer
  BY <1>1 DEF HandleMsg, GatherKnown, Leave
<1>2. ASSUME NEW w \in Workers, GetBatsBuffer(w)
      PROVE  TimerStep(L)
  <2>1. job[w].hop \in Nexthops /\ TM!CallAdd(w, job[w].hop)
    BY <1>2 DEF GetBatsBuffer, TypeInv, JobType, Bound
  <2>2. hops'[job[w].hop] = NewBatsBuffer
    BY <1>2, <2>1 DEF GetBatsBuffer, TypeInv, HopsType
  <2>3. job[w].hop \in L
    BY <2>1, <2>2, BatsTypes, Facts DEF Known
  <2> QED
    BY <2>1, <2>3 DEF TimerStep
<1>3. ASSUME NEW w \in Workers, GatherNew(w)
      PROVE  TimerStep(L)
  BY <1>3 DEF GatherNew, TimerStep
<1>4. ASSUME NEW x \in Threads, DispatchStep(x)
      PROVE  TimerStep(L)
  BY <1>4 DEF DispatchStep, DispatchEnter, SortChannel, DispatchWrite, Dispatched, TimerStep
<1>5. CASE TickStep \/ StopStep
  BY <1>5 DEF TickStep, StopStep, TimerStep
<1>6. CASE PoolStep
  <2>1. Pool \in Threads
    BY DEF Threads
  <2> QED
    BY <1>4, <1>6, <2>1 DEF PoolStep, HandleTimeoutBuffer, HandlerIdle, TimerStep
<1>7. CASE Stop \/ UNCHANGED vars
  BY <1>7 DEF Stop, vars, TimerStep
<1>8. ASSUME UNCHANGED timer
      PROVE  TimerStep(L)
  BY <1>8 DEF TimerStep
<1>9. ASSUME NEW w \in Workers
      PROVE  w \in Threads
  BY DEF Threads
<1> QED
  BY <1>1, <1>2, <1>3, <1>4, <1>5, <1>6, <1>7, <1>8, <1>9 DEF Next, WorkerStep

LEMMA KnownInductive ==
  ASSUME TypeInv, [Next]_vars
  PROVE  KnownInv'
<1>0. Kinds /\ HopsType' /\ Known \subseteq Known' /\ Known' \subseteq Nexthops
  BY StepKinds, HopsInductive DEF Known
<1>1. PICK K : K = Known
  OBVIOUS
<1>2. PICK L : L = Known'
  OBVIOUS
<1>3. K \in SUBSET Nexthops /\ L \in SUBSET Nexthops /\ K \subseteq L
  BY <1>0, <1>1, <1>2 DEF Known
<1>4. TimerKnows(L)
  <2>1. TimerKnows(K)
    BY <1>1 DEF TypeInv, KnownInv
  <2>2. queue \in Seq(K)
    BY <2>1 DEF TimerKnows
  <2>3. queue \in Seq(L)
    BY <1>3, <2>2, SMTT(30)
  <2> QED
    BY <1>3, <2>1, <2>3 DEF TimerKnows
<1>5. TimerKnows(L)'
  BY <1>2, <1>3, <1>4, TimerSteps, TimerKeeps
<1>6. TimerKnows(Known)'
  BY <1>2, <1>5 DEF TimerKnows
<1>7. \A w \in Workers : pc'[w] = "adding" => job'[w].hop \in Known'
  <2>0. \A w \in Workers : pc[w] = "adding" => job[w].hop \in Known'
    BY <1>0 DEF TypeInv, KnownInv
  <2>t. pc \in [Workers -> PcStates] /\ job \in [Workers -> Jobs]
    BY DEF TypeInv, JobType
  <2>1. ASSUME NEW w \in Workers, HandleMsg(w)
        PROVE  \A v \in Workers : pc'[v] = "adding" => job'[v].hop \in Known'
    <3>1. /\ pc[w] = "idle"
          /\ \/ UNCHANGED <<pc, job>>
             \/ pc' = [pc EXCEPT ![w] = "lock"] /\ \E j : job' = [job EXCEPT ![w] = j]
      BY <2>1 DEF HandleMsg
    <3> QED
      BY <2>0, <2>t, <3>1
  <2>2. ASSUME NEW w \in Workers, GetBatsBuffer(w)
        PROVE  \A v \in Workers : pc'[v] = "adding" => job'[v].hop \in Known'
    <3>1. job[w].hop \in Nexthops
      BY <2>2 DEF GetBatsBuffer, TypeInv, JobType, Bound
    <3>2. hops'[job[w].hop] = NewBatsBuffer
      BY <2>2, <3>1 DEF GetBatsBuffer, TypeInv, HopsType
    <3>3. job[w].hop \in Known'
      BY <3>1, <3>2, BatsTypes, Facts DEF Known
    <3>4. job' = job /\ pc' = [pc EXCEPT ![w] = "adding"]
      BY <2>2 DEF GetBatsBuffer
    <3> QED
      BY <2>0, <2>t, <3>3, <3>4
  <2>3. ASSUME NEW w \in Workers, GatherStep(w)
        PROVE  \A v \in Workers : pc'[v] = "adding" => job'[v].hop \in Known'
    <3>1. (pc' = [pc EXCEPT ![w] = "idle"] \/ pc' = [pc EXCEPT ![w] = "dispatch"])
          /\ job' = [job EXCEPT ![w] = NoJob]
      BY <2>3 DEF GatherStep
    <3> QED
      BY <2>0, <2>t, <3>1
  <2>4. ASSUME NEW w \in Workers, Leave(w)
        PROVE  \A v \in Workers : pc'[v] = "adding" => job'[v].hop \in Known'
    BY <2>0, <2>t, <2>4 DEF Leave
  <2>5. ASSUME NEW x \in Threads, DispatchWrite(x)
        PROVE  \A v \in Workers : pc'[v] = "adding" => job'[v].hop \in Known'
    <3>1. pc' = pc \/ (x \in Workers /\ pc' = [pc EXCEPT ![x] = IF Len(out[x]) = 1 THEN "idle" ELSE @])
      BY <2>5 DEF DispatchWrite, Dispatched, Threads
    <3>2. job' = job
      BY <2>5, WriteEffect
    <3> QED
      BY <2>0, <2>t, <3>1, <3>2
  <2>6. ASSUME NEW x \in Threads, DispatchEnter(x) \/ SortChannel(x)
        PROVE  UNCHANGED <<pc, job>>
    BY <2>6 DEF DispatchEnter, SortChannel, buffers
  <2>7. ASSUME HandleTimeoutBuffer \/ UNCHANGED <<buffers, out, dispatching>>
        PROVE  UNCHANGED <<pc, job>>
    BY <2>7 DEF HandleTimeoutBuffer, buffers
  <2>8. CASE UNCHANGED <<pc, job>>
    BY <2>0, <2>8
  <2> QED
    BY <1>0, <2>1, <2>2, <2>3, <2>4, <2>5, <2>6, <2>7, <2>8 DEF Kinds
<1> QED
  BY <1>6, <1>7 DEF KnownInv

LEMMA TypeInitial ==
  ASSUME Init
  PROVE  TypeInv
<1>1. HopsType /\ TakenType
  <2>1. <<>> \in Seq(Packets)
    BY SMTT(30)
  <2> QED
    BY <2>1 DEF Init, HopsType, TakenType
<1>2. JobType
  <2>1. NoJob \in Jobs
    BY DEF NoJob, Jobs
  <2> QED
    BY <2>1 DEF Init, JobType, PcStates
<1>s. <<>> \in Seq(Sends) /\ <<>> \in Seq(Range(Channels))
  BY SMTT(30)
<1>3. OutType
  <2>1. out = [x \in Threads |-> <<>>] /\ relayed = {}
    BY DEF Init
  <2>2. Workers \subseteq Threads
    BY DEF Threads
  <2> QED
    BY <1>s, <2>1, <2>2 DEF OutType
<1>4. ChannelType
  BY <1>s DEF Init, ChannelType
<1>5. KnownInv
  <2>1. TimerKnows(Known)
    <3>1. <<>> \in Seq(Known)
      BY SMTT(30)
    <3> QED
      BY <3>1 DEF Init, TM!Init, TimerKnows
  <2> QED
    BY <2>1 DEF Init, KnownInv
<1> QED
  BY <1>1, <1>2, <1>3, <1>4, <1>5 DEF TypeInv

\* All of it is an invariant of the collector.
LEMMA TypeInductive ==
  ASSUME TypeInv, [Next]_vars
  PROVE  TypeInv' /\ Kinds
<1>1. Kinds
  BY StepKinds
<1>2. KnownInv'
  BY KnownInductive
<1> QED
  BY <1>1, <1>2, HopsInductive, JobInductive, TakenInductive, OutInductive, ChannelInductive
  DEF TypeInv

-----------------------------------------------------------------------------
LEMMA RoutedInductive ==
  ASSUME TypeInv, Kinds, RoutedHome
  PROVE  RoutedHome'
<1>1. ASSUME NEW w \in Workers, GatherStep(w)
      PROVE  RoutedHome'
  <2> DEFINE h == job[w].hop
             p == job[w].pkt
  <2>1. h \in Nexthops /\ h = Route[p.dst] /\ taken' = [taken EXCEPT ![h] = Append(taken[h], p)]
    BY <1>1 DEF GatherStep, Bound
  <2>2. taken \in [Nexthops -> Seq(Packets)]
    BY DEF TypeInv, TakenType
  <2> HIDE DEF h, p
  <2> SUFFICES ASSUME NEW g \in Nexthops, NEW i \in DOMAIN taken'[g]
               PROVE  Route[taken'[g][i].dst] = g
    BY DEF RoutedHome
  <2>3. CASE g # h
    BY <2>1, <2>2, <2>3 DEF RoutedHome
  <2>4. CASE g = h
    <3>1. taken'[g] = Append(taken[g], p) /\ taken[g] \in Seq(Packets)
      BY <2>1, <2>2, <2>4
    <3>2. CASE i \in DOMAIN taken[g]
      <4>1. taken'[g][i] = taken[g][i]
        BY <3>1, <3>2, SMTT(30)
      <4> QED
        BY <3>2, <4>1 DEF RoutedHome
    <3>3. CASE i = Len(taken[g]) + 1
      BY <2>1, <2>4, <3>1, <3>3, SMTT(30)
    <3> QED
      BY <3>1, <3>2, <3>3, SMTT(30)
  <2> QED
    BY <2>3, <2>4
<1>2. CASE UNCHANGED taken
  BY <1>2 DEF RoutedHome
<1>3. ASSUME NEW w \in Workers, HandleMsg(w) \/ GetBatsBuffer(w) \/ Leave(w)
      PROVE  UNCHANGED taken
  BY <1>3 DEF HandleMsg, GetBatsBuffer, Leave
<1>4. ASSUME NEW x \in Threads, DispatchEnter(x) \/ SortChannel(x) \/ DispatchWrite(x)
      PROVE  UNCHANGED taken
  BY <1>4, WriteEffect DEF DispatchEnter, SortChannel, buffers
<1>5. ASSUME HandleTimeoutBuffer \/ UNCHANGED <<buffers, out, dispatching>>
      PROVE  UNCHANGED taken
  BY <1>5 DEF HandleTimeoutBuffer, buffers
<1> QED
  BY <1>1, <1>2, <1>3, <1>4, <1>5 DEF Kinds

(***************************************************************************)
(* RoutedHome, for any workers, routes and arrivals: every packet that     *)
(* BufferingData and ForceRelayData put into a buffer is bound for that    *)
(* buffer's nexthop, since Tun::FDRecv lets in only what decode can read.  *)
(***************************************************************************)
THEOREM PacketsRoutedHome == SafeSpec => []RoutedHome
<1>1. Init => TypeInv /\ RoutedHome
  <2>1. DOMAIN <<>> = {}
    BY SMTT(30)
  <2>2. Init => taken = [h \in Nexthops |-> <<>>]
    BY DEF Init
  <2>3. taken = [h \in Nexthops |-> <<>>] => RoutedHome
    BY <2>1 DEF RoutedHome
  <2> QED
    BY <2>2, <2>3, TypeInitial
<1>2. TypeInv /\ RoutedHome /\ [Next]_vars => (TypeInv /\ RoutedHome)'
  BY TypeInductive, RoutedInductive
<1> QED
  BY <1>1, <1>2, PTL DEF SafeSpec

-----------------------------------------------------------------------------
(***************************************************************************)
(* The channels that Dispatch has sorted so far.  Whoever is past a UDP    *)
(* node, or finds the flag set, finds a UDP node; if an encoder comes      *)
(* first, whoever is past it, or finds the flag set, finds an encoder.     *)
(***************************************************************************)
SortedSoFar ==
    /\ \A i \in DOMAIN encode : encode[i] \notin UdpChannels
    /\ udp # NullPtr => udp \in UdpChannels \cap Range(Channels)
    /\ ready => udp \in UdpChannels \cap Range(Channels)
    /\ \A x \in Threads : pos[x] # NullPtr =>
          \A i \in 1 .. pos[x] : Channels[i] \in UdpChannels => ready
    /\ EncoderFirst => /\ ready => encode # <<>>
                       /\ \A x \in Threads : pos[x] # NullPtr /\ pos[x] > 0 => encode # <<>>

LEMMA SortInductive ==
  ASSUME TypeInv, SortedSoFar, NEW x \in Threads, SortChannel(x)
  PROVE  SortedSoFar'
<1> DEFINE c == Channels[pos[x] + 1]
<1>0. ChannelType /\ NullPtr \notin Nat /\ Channels \in Seq(Range(Channels))
  BY Facts DEF TypeInv
<1>1. pos[x] \in 0 .. Len(Channels) /\ pos[x] < Len(Channels) /\ pos[x] # NullPtr
  BY <1>0 DEF SortChannel, ChannelType
<1>2. pos[x] \in Nat /\ c \in Range(Channels)
  BY <1>0, <1>1, SMTT(30)
<1>3. \A i \in 1 .. pos[x] + 1 : i \in 1 .. pos[x] \/ i = pos[x] + 1
  BY <1>2, SMTT(30)
<1>4. pos' = [pos EXCEPT ![x] = pos[x] + 1] /\ pos'[x] = pos[x] + 1
  BY <1>0 DEF SortChannel, ChannelType
<1>5. \A y \in Threads : y # x => pos'[y] = pos[y]
  BY <1>0, <1>4 DEF ChannelType
<1> HIDE DEF c
<1>6. CASE c \in UdpChannels
  <2>1. udp' = c /\ ready' = TRUE /\ UNCHANGED encode
    BY <1>6 DEF SortChannel, c
  <2>2. ASSUME EncoderFirst
        PROVE  encode # <<>>
    <3>1. pos[x] # 0
      BY <1>6, <2>2, SMTT(30) DEF EncoderFirst, c
    <3>2. pos[x] > 0
      BY <1>2, <3>1, SMTT(30)
    <3> QED
      BY <1>1, <2>2, <3>2 DEF SortedSoFar
  <2> QED
    BY <1>2, <1>6, <2>1, <2>2 DEF SortedSoFar
<1>7. CASE c \notin UdpChannels
  <2>1. encode \in Seq(Range(Channels)) /\ UNCHANGED <<udp, ready>>
        /\ \/ encode' = Append(encode, c)
           \/ encode # <<>> /\ encode' = [encode EXCEPT ![Len(encode)] = c]
    BY <1>0, <1>7 DEF SortChannel, ChannelType, c
  <2>2. encode' # <<>> /\ \A i \in DOMAIN encode' : encode'[i] \notin UdpChannels
    <3>1. CASE encode' = Append(encode, c)
      BY <1>7, <2>1, <3>1, SMTT(30) DEF SortedSoFar
    <3>2. CASE encode # <<>> /\ encode' = [encode EXCEPT ![Len(encode)] = c]
      BY <1>7, <2>1, <3>2, SMTT(30) DEF SortedSoFar
    <3> QED
      BY <2>1, <3>1, <3>2
  <2>3. \A y \in Threads : pos'[y] # NullPtr =>
           \A i \in 1 .. pos'[y] : Channels[i] \in UdpChannels => ready
    BY <1>1, <1>3, <1>4, <1>5, <1>7 DEF SortedSoFar, c
  <2> QED
    BY <2>1, <2>2, <2>3 DEF SortedSoFar
<1> QED
  BY <1>6, <1>7

(***************************************************************************)
(* What Dispatch writes goes to a channel of the right kind, whatever the  *)
(* order of connections; it may only find no channel at all.               *)
(***************************************************************************)
Right(b) == b.via \in Range(Channels) /\ (b.coded <=> b.via \notin UdpChannels)

NeverMisdirected == \A b \in relayed : b.via \notin {"dropped", NullPtr} => Right(b)

LEMMA WrittenRight ==
  ASSUME TypeInv, SortedSoFar, NEW x \in Threads, DispatchWrite(x)
  PROVE  /\ SortedSoFar'
         /\ \E e : /\ relayed' = relayed \cup {e}
                   /\ e.via \notin {"dropped", NullPtr} => Right(e)
                   /\ EncoderFirst => e.via = "dropped" \/ Right(e)
<1> DEFINE b == Head(out[x])
           v == Via(b)
<1>0. ChannelType /\ b \in Sends /\ UNCHANGED <<encode, udp, ready>>
  BY WriteEffect DEF TypeInv
<1>1. pos' = [pos EXCEPT ![x] = NullPtr] /\ x \in Sorted
      /\ relayed' = relayed \cup {[b EXCEPT !.via = v]}
  BY DEF DispatchWrite, Dispatched
<1>2. SortedSoFar'
  BY <1>0, <1>1 DEF SortedSoFar, ChannelType
<1>3. b.id \in Nat /\ b.coded \in BOOLEAN
  BY <1>0 DEF Sends
<1>4. ASSUME encode # <<>>
      PROVE  encode[1 + (b.id % Len(encode))] \in Range(Channels) \ UdpChannels
  <2>1. encode \in Seq(Range(Channels)) /\ Len(encode) \in Nat \ {0}
    BY <1>0, <1>4, SMTT(30) DEF ChannelType
  <2>2. \A i \in Nat : \A n \in Nat \ {0} : i % n \in 0 .. n - 1
    BY SMTT(30)
  <2>3. b.id % Len(encode) \in 0 .. Len(encode) - 1
    BY <1>3, <2>1, <2>2
  <2>4. 1 + (b.id % Len(encode)) \in DOMAIN encode
    BY <2>1, <2>3, SMTT(30)
  <2> QED
    BY <2>1, <2>4, SMTT(30) DEF SortedSoFar
<1>5. ASSUME EncoderFirst
      PROVE  encode # <<>> /\ udp \in UdpChannels \cap Range(Channels) /\ Channels # <<>>
  <2>1. ready
    <3>1. PICK i \in DOMAIN Channels : Channels[i] \in UdpChannels
      BY <1>5 DEF EncoderFirst
    <3>2. i \in 1 .. Len(Channels)
      BY Facts, <3>1, SMTT(30)
    <3> QED
      BY <1>1, <1>5, <3>1, <3>2 DEF Sorted, SortedSoFar, EncoderFirst
  <2> QED
    BY <1>5, <2>1 DEF SortedSoFar, EncoderFirst
<1> DEFINE e == [b EXCEPT !.via = v]
<1>6. e.via = v /\ e.coded = b.coded
  BY <1>0 DEF Sends
<1>7. v \notin {"dropped", NullPtr} => v \in Range(Channels) /\ (b.coded <=> v \notin UdpChannels)
  BY <1>3, <1>4 DEF Via, Target, SortedSoFar
<1>8. EncoderFirst => v = "dropped" \/ (v \in Range(Channels) /\ (b.coded <=> v \notin UdpChannels))
  BY <1>3, <1>4, <1>5 DEF Via, Target
<1> HIDE DEF b, v
<1>9. /\ relayed' = relayed \cup {e}
      /\ e.via \notin {"dropped", NullPtr} => Right(e)
      /\ EncoderFirst => e.via = "dropped" \/ Right(e)
  BY <1>1, <1>6, <1>7, <1>8 DEF Right
<1> QED
  BY <1>2, <1>9

DispatchInv == SortedSoFar /\ NeverMisdirected /\ (EncoderFirst => RightChannel)

LEMMA DispatchInductive ==
  ASSUME TypeInv, DispatchInv, [Next]_vars
  PROVE  DispatchInv'
<1>1. Kinds
  BY TypeInductive
<1>2. CASE UNCHANGED dispatching
  BY <1>2 DEF dispatching, DispatchInv, SortedSoFar, NeverMisdirected, RightChannel, Right
<1>3. ASSUME NEW w \in Workers, HandleMsg(w) \/ GetBatsBuffer(w) \/ GatherStep(w) \/ Leave(w)
      PROVE  UNCHANGED dispatching
  BY <1>3 DEF HandleMsg, GetBatsBuffer, GatherStep, Leave
<1>4. ASSUME HandleTimeoutBuffer \/ UNCHANGED <<buffers, out, dispatching>>
      PROVE  UNCHANGED dispatching
  BY <1>4 DEF HandleTimeoutBuffer
<1>5. ASSUME NEW x \in Threads, DispatchEnter(x)
      PROVE  DispatchInv'
  <2>1. ~(0 > 0) /\ \A i : i \notin 1 .. 0
    BY SMTT(30)
  <2>2. pos' = [pos EXCEPT ![x] = 0] /\ UNCHANGED <<encode, udp, ready, relayed>>
    BY <1>5 DEF DispatchEnter
  <2>3. SortedSoFar'
    BY <2>1, <2>2 DEF DispatchInv, SortedSoFar, TypeInv, ChannelType
  <2> QED
    BY <2>2, <2>3 DEF DispatchInv, NeverMisdirected, RightChannel
<1>6. ASSUME NEW x \in Threads, SortChannel(x)
      PROVE  DispatchInv'
  <2>1. UNCHANGED relayed
    BY <1>6 DEF SortChannel
  <2>2. SortedSoFar'
    BY <1>6, SortInductive DEF DispatchInv
  <2> QED
    BY <2>1, <2>2 DEF DispatchInv, NeverMisdirected, RightChannel
<1>7. ASSUME NEW x \in Threads, DispatchWrite(x)
      PROVE  DispatchInv'
  <2>1. SortedSoFar'
    BY <1>7, WrittenRight DEF DispatchInv
  <2>2. PICK e : /\ relayed' = relayed \cup {e}
                 /\ e.via \notin {"dropped", NullPtr} => Right(e)
                 /\ EncoderFirst => e.via = "dropped" \/ Right(e)
    BY <1>7, WrittenRight DEF DispatchInv
  <2> QED
    BY <2>1, <2>2 DEF DispatchInv, NeverMisdirected, RightChannel, Right
<1> QED
  BY <1>1, <1>2, <1>3, <1>4, <1>5, <1>6, <1>7 DEF Kinds

LEMMA DispatchInitial == Init => DispatchInv
<1> SUFFICES ASSUME Init
             PROVE  DispatchInv
  OBVIOUS
<1>1. /\ encode = <<>> /\ udp = NullPtr /\ ready = FALSE /\ relayed = {}
      /\ pos = [x \in Threads |-> NullPtr]
  BY DEF Init
<1>2. SortedSoFar
  BY <1>1, SMTT(30) DEF SortedSoFar
<1> QED
  BY <1>1, <1>2 DEF DispatchInv, NeverMisdirected, RightChannel

(***************************************************************************)
(* For any number of threads that sort the channels at the same time in    *)
(* Dispatch and in any order of connections, no buffer goes to a channel   *)
(* of the wrong kind: a coded one to a UDP node or a raw one to an encoder.*)
(***************************************************************************)
THEOREM NoBufferMisdirected == SafeSpec => []NeverMisdirected
<1>1. Init => TypeInv /\ DispatchInv
  BY TypeInitial, DispatchInitial
<1>2. TypeInv /\ DispatchInv /\ [Next]_vars => (TypeInv /\ DispatchInv)'
  BY TypeInductive, DispatchInductive
<1>3. DispatchInv => NeverMisdirected
  BY DEF DispatchInv
<1> QED
  BY <1>1, <1>2, <1>3, PTL DEF SafeSpec

(***************************************************************************)
(* RightChannel: if an encoder was connected before the first UDP node,    *)
(* every buffer also finds a channel, whatever follows in whatever order.  *)
(***************************************************************************)
THEOREM BuffersGoRight ==
  ASSUME EncoderFirst
  PROVE  SafeSpec => []RightChannel
<1>1. Init => TypeInv /\ DispatchInv
  BY TypeInitial, DispatchInitial
<1>2. TypeInv /\ DispatchInv /\ [Next]_vars => (TypeInv /\ DispatchInv)'
  BY TypeInductive, DispatchInductive
<1>3. DispatchInv => RightChannel
  BY DEF DispatchInv
<1> QED
  BY <1>1, <1>2, <1>3, PTL DEF SafeSpec
=============================================================================
