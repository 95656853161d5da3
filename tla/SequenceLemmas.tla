--------------------------- MODULE SequenceLemmas ---------------------------
(***************************************************************************)
(* Induction over numbers, and what FlattenSeq of the community modules    *)
(* does with sequences of any number of sequences.                         *)
(*                                                                         *)
(* The principle of induction takes a set in place of a predicate: the     *)
(* provers cannot instantiate an operator. So it is stated from WFMin,     *)
(* which speaks of sets alone.                                             *)
(***************************************************************************)
EXTENDS SequencesExt, SequenceTheorems, WellFoundedInduction, TLAPS

\* A set of numbers that is not empty has a least element.
LEMMA LeastNumber == ASSUME NEW T, T \subseteq Nat, T # {}
                     PROVE  \E m \in T : \A k \in T : m <= k
<1>1. IsWellFoundedOn(OpToRel(<, Nat), Nat)
  BY NatLessThanWellFounded, Zenon
<1>2. PICK m \in T : \A k \in T : ~ (<<k, m>> \in OpToRel(<, Nat))
  BY <1>1, WFMin
<1>3. \A k \in T : ~(k < m)
  BY <1>2 DEF OpToRel
<1>4. QED  BY <1>3

\* Induction, with a set in place of the predicate: from 0 up to n.
LEMMA Induction == ASSUME NEW n \in Nat, NEW S, 0 \in S,
                          \A i \in 0 .. n - 1 : i \in S => i + 1 \in S
                   PROVE  \A i \in 0 .. n : i \in S
<1> DEFINE T == {i \in 0 .. n : i \notin S}
<1> SUFFICES ASSUME T # {} PROVE FALSE
  OBVIOUS
<1>1. T \subseteq Nat
  OBVIOUS
<1>2. PICK m \in T : \A k \in T : m <= k
  <2> HIDE DEF T
  <2> QED  BY <1>1, LeastNumber
<1>3. m # 0 /\ m - 1 \in 0 .. n - 1 /\ m \notin S /\ m = (m - 1) + 1
  OBVIOUS
<1>4. m - 1 \in S
  BY <1>2, <1>3
<1>5. QED  BY <1>3, <1>4

\* f[i] is what the first i of the sequences are, put together.
IsPrefixes(f, seqs, n) == /\ f[0] = <<>>
                          /\ \A i \in 0 .. n - 1 : f[i + 1] = f[i] \o seqs[i + 1]

LEMMA PrefixesExist == ASSUME NEW V, NEW seqs \in Seq(Seq(V))
                       PROVE  \E f \in [0 .. Len(seqs) -> Seq(V)] : IsPrefixes(f, seqs, Len(seqs))
<1> DEFINE n == Len(seqs)
           S == {k \in 0 .. n : \E f \in [0 .. k -> Seq(V)] : IsPrefixes(f, seqs, k)}
<1>0. n \in Nat
  OBVIOUS
<1>1. 0 \in S
  <2>1. [i \in 0 .. 0 |-> <<>>] \in [0 .. 0 -> Seq(V)]
    OBVIOUS
  <2>2. IsPrefixes([i \in 0 .. 0 |-> <<>>], seqs, 0)
    BY DEF IsPrefixes
  <2>3. 0 \in 0 .. n
    OBVIOUS
  <2> HIDE DEF n
  <2> QED  BY <2>1, <2>2, <2>3, Zenon
<1>2. ASSUME NEW k \in 0 .. n - 1, k \in S PROVE k + 1 \in S
  <2>1. PICK f \in [0 .. k -> Seq(V)] : IsPrefixes(f, seqs, k)
    BY <1>2
  <2> DEFINE last == f[k] \o seqs[k + 1]
             g == [i \in 0 .. k + 1 |-> IF i <= k THEN f[i] ELSE last]
  <2>2. last \in Seq(V)
    <3>1. seqs[k + 1] \in Seq(V) /\ f[k] \in Seq(V)
      OBVIOUS
    <3> QED  BY <3>1
  <2>3. g \in [0 .. k + 1 -> Seq(V)]
    <3> HIDE DEF last
    <3> QED  BY <2>2
  <2>4. g[0] = <<>>
    BY <2>1 DEF IsPrefixes
  <2>5. ASSUME NEW i \in 0 .. k PROVE g[i + 1] = g[i] \o seqs[i + 1]
    <3>1. CASE i = k
      <4>1. g[k + 1] = last /\ g[k] = f[k]
        <5> HIDE DEF last
        <5> QED OBVIOUS
      <4> QED  BY <3>1, <4>1, Zenon
    <3>2. CASE i < k
      <4>1. g[i + 1] = f[i + 1] /\ g[i] = f[i]
        BY <3>2
      <4>2. f[i + 1] = f[i] \o seqs[i + 1]
        <5>1. i \in 0 .. k - 1
          BY <3>2
        <5> QED  BY <2>1, <5>1, Zenon DEF IsPrefixes
      <4> QED  BY <4>1, <4>2, Zenon
    <3>3. i = k \/ i < k
      OBVIOUS
    <3> QED  BY <3>1, <3>2, <3>3, Zenon
  <2>6. IsPrefixes(g, seqs, k + 1)
    <3> HIDE DEF g
    <3>1. (k + 1) - 1 = k
      OBVIOUS
    <3> QED  BY <2>4, <2>5, <3>1, Zenon DEF IsPrefixes
  <2> HIDE DEF g
  <2> QED  BY <2>3, <2>6
<1>3. n \in S
  <2> HIDE DEF S, n
  <2>1. \A i \in 0 .. n - 1 : i \in S => i + 1 \in S
    BY <1>2
  <2>2. \A i \in 0 .. n : i \in S
    BY <1>0, <1>1, <2>1, Induction
  <2>3. n \in 0 .. n
    BY <1>0
  <2> QED BY <2>2, <2>3
<1> QED  BY <1>3

LEMMA PrefixesUnique == ASSUME NEW seqs, NEW n \in Nat, NEW f, NEW g,
                               IsPrefixes(f, seqs, n), IsPrefixes(g, seqs, n)
                        PROVE  \A i \in 0 .. n : f[i] = g[i]
<1> DEFINE S == {i \in 0 .. n : f[i] = g[i]}
<1>1. 0 \in S
  BY DEF IsPrefixes
<1>2. ASSUME NEW i \in 0 .. n - 1, i \in S PROVE i + 1 \in S
  <2>1. f[i + 1] = f[i] \o seqs[i + 1] /\ g[i + 1] = g[i] \o seqs[i + 1]
    BY Zenon DEF IsPrefixes
  <2>2. f[i + 1] = g[i + 1]
    BY <1>2, <2>1, Zenon
  <2> QED  BY <2>2
<1>3. \A i \in 0 .. n : i \in S
  <2> HIDE DEF S
  <2> QED  BY <1>1, <1>2, Induction
<1> QED  BY <1>3

LEMMA FlattenIsPrefix == ASSUME NEW V, NEW seqs \in Seq(Seq(V)), NEW f,
                                IsPrefixes(f, seqs, Len(seqs))
                         PROVE  FlattenSeq(seqs) = f[Len(seqs)]
<1>1. CASE Len(seqs) = 0
  <2>1. seqs = <<>>
    BY <1>1
  <2> QED  BY <1>1, <2>1 DEF FlattenSeq, IsPrefixes
<1>2. CASE Len(seqs) # 0
  <2> DEFINE n == Len(seqs)
             Def(h) == h = [i \in 1 .. n |-> IF i = 1 THEN seqs[i] ELSE h[i - 1] \o seqs[i]]
             flatten == CHOOSE h : Def(h)
  <2>0. n \in Nat \ {0}
    BY <1>2
  <2>1. PICK g \in [0 .. n -> Seq(V)] : IsPrefixes(g, seqs, n)
    BY PrefixesExist
  <2> DEFINE h == [i \in 1 .. n |-> g[i]]
  <2>2. ASSUME NEW i \in 1 .. n PROVE h[i] = IF i = 1 THEN seqs[i] ELSE h[i - 1] \o seqs[i]
    <3>1. i - 1 \in 0 .. n - 1 /\ i = (i - 1) + 1 /\ seqs[i] \in Seq(V)
      OBVIOUS
    <3>2. g[i] = g[i - 1] \o seqs[i]
      BY <2>1, <3>1 DEF IsPrefixes
    <3>3. CASE i = 1
      <4>1. g[i - 1] = <<>>
        BY <3>3, <2>1 DEF IsPrefixes
      <4>2. <<>> \o seqs[i] = seqs[i]
        BY <3>1, ConcatEmptySeq
      <4>3. g[i] = seqs[i]
        BY <3>2, <4>1, <4>2, Zenon
      <4> QED  BY <3>3, <4>3
    <3>4. CASE i # 1
      <4>1. i - 1 \in 1 .. n
        BY <3>4
      <4>2. h[i] = g[i] /\ h[i - 1] = g[i - 1]
        BY <4>1
      <4> QED  BY <3>4, <3>2, <4>2
    <3> QED  BY <3>3, <3>4
  <2>3. Def(h)
    <3>1. h = [i \in 1 .. n |-> h[i]]
      OBVIOUS
    <3> HIDE DEF h
    <3> QED  BY <2>2, <3>1
  <2>4. Def(flatten)
    <3> HIDE DEF h, Def
    <3> QED  BY <2>3
  <2>5. FlattenSeq(seqs) = flatten[n]
    BY <1>2 DEF FlattenSeq
  <2> HIDE DEF flatten
  <2> DEFINE ff == [i \in 0 .. n |-> IF i = 0 THEN <<>> ELSE flatten[i]]
  <2>6. ASSUME NEW i \in 0 .. n - 1 PROVE ff[i + 1] = ff[i] \o seqs[i + 1]
    <3>0. i + 1 \in 1 .. n /\ (i + 1) - 1 = i /\ seqs[i + 1] \in Seq(V)
      OBVIOUS
    <3>1. flatten[i + 1] = IF i + 1 = 1 THEN seqs[i + 1] ELSE flatten[i] \o seqs[i + 1]
      BY <2>4, <3>0
    <3>2. <<>> \o seqs[i + 1] = seqs[i + 1]
      BY <3>0, ConcatEmptySeq
    <3>3. ff[i + 1] = flatten[i + 1] /\ ff[i] = IF i = 0 THEN <<>> ELSE flatten[i]
      OBVIOUS
    <3> HIDE DEF ff
    <3>4. CASE i = 0
      <4>1. i + 1 = 1
        BY <3>4
      <4> QED  BY <3>1, <3>2, <3>3, <3>4, <4>1, Zenon
    <3>5. CASE i # 0
      <4>1. i + 1 # 1
        BY <3>5
      <4> QED  BY <3>1, <3>3, <3>5, <4>1, Zenon
    <3> QED  BY <3>4, <3>5
  <2>7. IsPrefixes(ff, seqs, n)
    <3>1. ff[0] = <<>>
      BY <2>0
    <3> HIDE DEF ff
    <3> QED  BY <3>1, <2>6 DEF IsPrefixes
  <2>8. ff[n] = f[n]
    <3> HIDE DEF ff
    <3> QED  BY <2>0, <2>7, PrefixesUnique
  <2> QED  BY <2>0, <2>5, <2>8
<1> QED  BY <1>1, <1>2

---------------------------------------------------------------------------
LEMMA FlattenType == ASSUME NEW V, NEW seqs \in Seq(Seq(V))
                     PROVE  FlattenSeq(seqs) \in Seq(V)
<1>1. PICK f \in [0 .. Len(seqs) -> Seq(V)] : IsPrefixes(f, seqs, Len(seqs))
  BY PrefixesExist
<1>2. Len(seqs) \in 0 .. Len(seqs)
  OBVIOUS
<1> QED  BY <1>1, <1>2, FlattenIsPrefix

LEMMA FlattenEmpty == FlattenSeq(<<>>) = <<>>
  BY DEF FlattenSeq

LEMMA FlattenAppend == ASSUME NEW V, NEW seqs \in Seq(Seq(V)), NEW s \in Seq(V)
                       PROVE  FlattenSeq(Append(seqs, s)) = FlattenSeq(seqs) \o s
<1> DEFINE n == Len(seqs)
           more == Append(seqs, s)
<1>1. /\ more \in Seq(Seq(V)) /\ Len(more) = n + 1 /\ n \in Nat
      /\ more[n + 1] = s /\ \A i \in 1 .. n : more[i] = seqs[i]
  OBVIOUS
<1> HIDE DEF more
<1>2. PICK f \in [0 .. n + 1 -> Seq(V)] : IsPrefixes(f, more, n + 1)
  BY <1>1, PrefixesExist, ZenonT(60)
<1>3. ASSUME NEW i \in 0 .. n - 1 PROVE f[i + 1] = f[i] \o seqs[i + 1]
  <2>1. i \in 0 .. (n + 1) - 1 /\ more[i + 1] = seqs[i + 1]
    BY <1>1
  <2> QED  BY <1>2, <2>1, Zenon DEF IsPrefixes
<1>4. IsPrefixes(f, seqs, n)
  BY <1>2, <1>3, Zenon DEF IsPrefixes
<1>5. FlattenSeq(seqs) = f[n]
  BY <1>4, FlattenIsPrefix
<1>6. FlattenSeq(more) = f[n + 1]
  BY <1>1, <1>2, FlattenIsPrefix
<1>7. f[n + 1] = f[n] \o s
  <2>1. n \in 0 .. (n + 1) - 1
    BY <1>1
  <2> QED  BY <1>1, <1>2, <2>1, Zenon DEF IsPrefixes
<1> QED  BY <1>5, <1>6, <1>7, Zenon DEF more

\* One sequence more.
LEMMA FlattenNext == ASSUME NEW V, NEW seqs \in Seq(Seq(V)), NEW k \in 0 .. Len(seqs) - 1
                     PROVE  FlattenSeq(SubSeq(seqs, 1, k + 1)) =
                              FlattenSeq(SubSeq(seqs, 1, k)) \o seqs[k + 1]
<1>1. SubSeq(seqs, 1, k + 1) = Append(SubSeq(seqs, 1, k), seqs[k + 1])
  OBVIOUS
<1>2. SubSeq(seqs, 1, k) \in Seq(Seq(V)) /\ seqs[k + 1] \in Seq(V)
  OBVIOUS
<1> QED  BY <1>1, <1>2, FlattenAppend

LEMMA Associative == ASSUME NEW V
                     PROVE  \A u, v, w \in Seq(V) : (u \o v) \o w = u \o (v \o w)
<1> SUFFICES ASSUME NEW u \in Seq(V), NEW v \in Seq(V), NEW w \in Seq(V)
             PROVE  (u \o v) \o w = u \o (v \o w)
  OBVIOUS
<1> QED  BY ConcatAssociative, SMTT(30)

\* The first of the sequences are a beginning of all of them.
LEMMA FlattenBegins == ASSUME NEW V, NEW seqs \in Seq(Seq(V))
                       PROVE  \A k \in 0 .. Len(seqs) :
                                \E rest \in Seq(V) :
                                  FlattenSeq(seqs) = FlattenSeq(SubSeq(seqs, 1, Len(seqs) - k)) \o rest
<1> DEFINE n == Len(seqs)
           Up(i) == FlattenSeq(SubSeq(seqs, 1, i))
           S == {k \in 0 .. n : \E rest \in Seq(V) : FlattenSeq(seqs) = Up(n - k) \o rest}
<1>0. n \in Nat
  OBVIOUS
<1>1. 0 \in S
  <2>1. SubSeq(seqs, 1, n - 0) = seqs
    OBVIOUS
  <2>2. FlattenSeq(seqs) \in Seq(V)
    BY FlattenType
  <2>3. FlattenSeq(seqs) = FlattenSeq(seqs) \o <<>> /\ <<>> \in Seq(V)
    BY <2>2, ConcatEmptySeq
  <2>4. 0 \in 0 .. n
    BY <1>0
  <2> HIDE DEF n
  <2> QED  BY <2>1, <2>3, <2>4, Zenon
<1>2. ASSUME NEW k \in 0 .. n - 1, k \in S PROVE k + 1 \in S
  <2>1. PICK rest \in Seq(V) : FlattenSeq(seqs) = Up(n - k) \o rest
    BY <1>2
  <2> DEFINE i == n - (k + 1)
             s == seqs[i + 1]
  <2>2. i \in 0 .. n - 1 /\ n - k = i + 1 /\ k + 1 \in 0 .. n /\ s \in Seq(V)
    BY <1>0
  <2>3. Up(n - k) = Up(i) \o s
    <3>1. Up(i + 1) = Up(i) \o s
      BY <2>2, FlattenNext
    <3> QED  BY <2>2, <3>1, Zenon
  <2>4. Up(i) \in Seq(V)
    <3>1. SubSeq(seqs, 1, i) \in Seq(Seq(V))
      BY <2>2
    <3> QED  BY <3>1, FlattenType
  <2> HIDE DEF Up, s, i
  <2>5. (Up(i) \o s) \o rest = Up(i) \o (s \o rest)
    <3>1. ASSUME NEW u \in Seq(V), NEW v \in Seq(V) PROVE (u \o v) \o rest = u \o (v \o rest)
      BY Associative, SMTT(30)
    <3>2. s \in Seq(V)
      BY <2>2
    <3> QED  BY <2>4, <3>1, <3>2, Zenon
  <2>6. s \o rest \in Seq(V)
    BY <2>2
  <2>7. FlattenSeq(seqs) = Up(i) \o (s \o rest)
    BY <2>1, <2>3, <2>5, Zenon
  <2> QED  BY <2>2, <2>6, <2>7, Zenon DEF i
<1> HIDE DEF S
<1>3. \A k \in 0 .. n : k \in S
  BY <1>0, <1>1, <1>2, Induction
<1> QED  BY <1>3 DEF S

\* Two ways to cut a sequence at one place.
LEMMA SplitEqual == ASSUME NEW V, NEW a \in Seq(V), NEW b \in Seq(V), NEW c \in Seq(V),
                           NEW d \in Seq(V), Len(a) = Len(c), a \o b = c \o d
                    PROVE  a = c /\ b = d
<1>1. /\ Len(a \o b) = Len(a) + Len(b)
      /\ \A i \in 1 .. Len(a) + Len(b) : (a \o b)[i] = IF i <= Len(a) THEN a[i] ELSE b[i - Len(a)]
  BY ConcatProperties, Zenon
<1>2. /\ Len(c \o d) = Len(c) + Len(d)
      /\ \A i \in 1 .. Len(c) + Len(d) : (c \o d)[i] = IF i <= Len(c) THEN c[i] ELSE d[i - Len(c)]
  BY ConcatProperties, Zenon
<1> DEFINE ab == a \o b
           cd == c \o d
<1>3. ab = cd
  OBVIOUS
<1> HIDE DEF ab, cd
<1>4. Len(b) = Len(d)
  <2>1. Len(ab) = Len(a) + Len(b) /\ Len(cd) = Len(c) + Len(d)
    BY <1>1, <1>2, Zenon DEF ab, cd
  <2> QED  BY <1>3, <2>1
<1>5. \A i \in 1 .. Len(a) + Len(b) : ab[i] = IF i <= Len(a) THEN a[i] ELSE b[i - Len(a)]
  BY <1>1, Zenon DEF ab
<1>6. \A i \in 1 .. Len(c) + Len(d) : cd[i] = IF i <= Len(c) THEN c[i] ELSE d[i - Len(c)]
  BY <1>2, Zenon DEF cd
<1>7. ASSUME NEW i \in 1 .. Len(a) PROVE a[i] = c[i]
  BY <1>3, <1>4, <1>5, <1>6
<1>8. ASSUME NEW i \in 1 .. Len(b) PROVE b[i] = d[i]
  <2>1. Len(a) + i \in 1 .. Len(a) + Len(b) /\ ~(Len(a) + i <= Len(a)) /\ (Len(a) + i) - Len(a) = i
    OBVIOUS
  <2> QED  BY <1>3, <1>4, <1>5, <1>6, <2>1
<1> QED  BY <1>4, <1>7, <1>8, SeqEqual
=============================================================================
