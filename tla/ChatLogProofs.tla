----------------------------- MODULE ChatLogProofs -----------------------------
(***************************************************************************)
(* Theorems about ChatLog, for all texts, sizes and conversations.  The     *)
(* operators of ChatLog are recursive functions over sequences: each of     *)
(* them gets a lemma that says what one element more changes, proved from   *)
(* the existence of the function (Recursion), and what holds for every      *)
(* sequence then follows along its growth (EverySequence).                  *)
(***************************************************************************)
EXTENDS ChatLog, FiniteSetTheorems, SequenceTheorems, WellFoundedInduction, TLAPS

-----------------------------------------------------------------------------
(* Numbers and sequences.                                                   *)

\* A set of numbers has a least one.
LEMMA LeastOne ==
    ASSUME NEW M, M \subseteq Nat, M # {} PROVE \E i \in M : \A j \in M : i <= j
<1>1. PICK i \in M : \A j \in M : <<j, i>> \notin OpToRel(<, Nat)
  BY NatLessThanWellFounded, WFMin
<1>2. ASSUME NEW j \in M PROVE i <= j
  <2>1. i \in Nat /\ j \in Nat
    OBVIOUS
  <2>2. ~(j < i)
    <3>1. <<j, i>> \in Nat \X Nat /\ <<j, i>>[1] = j /\ <<j, i>>[2] = i
      BY <2>1
    <3> QED  BY <1>1, <3>1 DEF OpToRel
  <2> QED  BY <2>1, <2>2
<1> QED  BY <1>2

\* A set that holds 0, and the successor of each of its numbers, holds every number.
LEMMA EveryNumber ==
    ASSUME NEW M, M \subseteq Nat, 0 \in M, \A k \in M : k + 1 \in M PROVE M = Nat
<1> SUFFICES ASSUME Nat \ M # {} PROVE FALSE
  OBVIOUS
<1>1. PICK i \in Nat \ M : \A j \in Nat \ M : i <= j
  BY LeastOne
<1>2. i - 1 \in Nat /\ i - 1 \in M
  BY <1>1
<1> QED  BY <1>1, <1>2

\* The same for sequences, which grow at their end.
LEMMA EverySequence ==
    ASSUME NEW W, NEW M, M \subseteq Seq(W), <<>> \in M,
           \A s \in M, x \in W : Append(s, x) \in M
    PROVE  M = Seq(W)
<1> DEFINE N == {n \in Nat : \A s \in Seq(W) : Len(s) = n => s \in M}
<1>1. 0 \in N
  BY EmptySeq
<1>2. ASSUME NEW n \in N PROVE n + 1 \in N
  <2>1. ASSUME NEW s \in Seq(W), Len(s) = n + 1 PROVE s \in M
    <3>1. s # <<>>
      BY <2>1, EmptySeq
    <3>2. PICK t \in Seq(W), x \in W : s = Append(t, x)
      BY <3>1, SequenceEmptyOrAppend
    <3>3. Len(t) = n
      BY <2>1, <3>2, AppendProperties, LenProperties
    <3> QED  BY <3>2, <3>3
  <2> QED  BY <2>1
<1>3. N = Nat
  <2> HIDE DEF N
  <2>1. N \subseteq Nat
    BY DEF N
  <2> QED  BY <1>1, <1>2, <2>1, EveryNumber
<1> QED  BY <1>3, LenProperties

\* A function is defined by what it starts with and by its next value.
Follows(f, n, b, h) == f[0] = b /\ \A k \in 1..n : f[k] = h[<<k, f[k - 1]>>]

\* Whatever it starts with, and whatever its next value is made by, there is such a function.
LEMMA Recursion ==
    ASSUME NEW n \in Nat, NEW V, NEW b \in V, NEW h,
           \A k \in 1..n : \A v \in V : h[<<k, v>>] \in V
    PROVE  \E f \in [0..n -> V] : Follows(f, n, b, h)
<1> DEFINE Grown(f, m) ==
             /\ f \in [0..m -> V]
             /\ f[0] = b /\ \A k \in 1..m : f[k] = h[<<k, f[k - 1]>>]
           M == {m \in Nat : m <= n => \E f : Grown(f, m)}
<1>1. 0 \in M
  <2>1. Grown([k \in 0..0 |-> b], 0)
    OBVIOUS
  <2> QED  BY <2>1
<1>2. ASSUME NEW m \in M PROVE m + 1 \in M
  <2> SUFFICES ASSUME m + 1 <= n PROVE \E f : Grown(f, m + 1)
    OBVIOUS
  <2>1. PICK f : Grown(f, m)
    BY <1>2
  <2> DEFINE g == [k \in 0..(m + 1) |-> IF k <= m THEN f[k] ELSE h[<<m + 1, f[m]>>]]
  <2>2. f[m] \in V /\ h[<<m + 1, f[m]>>] \in V
    BY <2>1
  <2>3. g \in [0..(m + 1) -> V] /\ g[0] = b
    BY <2>1, <2>2
  <2>4. ASSUME NEW k \in 1..(m + 1) PROVE g[k] = h[<<k, g[k - 1]>>]
    <3>1. k - 1 \in 0..m /\ g[k - 1] = f[k - 1]
      OBVIOUS
    <3>2. CASE k <= m
      <4>1. k \in 1..m /\ g[k] = f[k]
        BY <3>2
      <4> QED  BY <2>1, <3>1, <4>1
    <3>3. CASE k = m + 1
      <4>1. g[k] = h[<<m + 1, f[m]>>] /\ k - 1 = m
        BY <3>3
      <4> QED  BY <3>1, <3>3, <4>1
    <3> QED  BY <3>2, <3>3
  <2> HIDE DEF g
  <2> QED  BY <2>3, <2>4
<1>3. M = Nat
  <2> HIDE DEF M
  <2>1. M \subseteq Nat
    BY DEF M
  <2> QED  BY <1>1, <1>2, <2>1, EveryNumber
<1>4. n \in M
  BY <1>3
<1> QED  BY <1>4 DEF Follows

\* Two functions that start and go on alike are alike.
LEMMA Alike ==
    ASSUME NEW n \in Nat, NEW f, NEW g, f[0] = g[0],
           \A k \in 1..n : f[k - 1] = g[k - 1] => f[k] = g[k]
    PROVE  f[n] = g[n]
<1> DEFINE M == {m \in Nat : m <= n => f[m] = g[m]}
<1>1. 0 \in M
  OBVIOUS
<1>2. ASSUME NEW m \in M PROVE m + 1 \in M
  <2>1. CASE m + 1 <= n
    <3>1. m + 1 \in 1..n /\ (m + 1) - 1 = m /\ f[m] = g[m]
      BY <1>2, <2>1
    <3> QED  BY <3>1
  <2> QED  BY <2>1
<1>3. M = Nat
  <2> HIDE DEF M
  <2>1. M \subseteq Nat
    BY DEF M
  <2> QED  BY <1>1, <1>2, <2>1, EveryNumber
<1>4. n \in M
  BY <1>3
<1> QED  BY <1>4

\* A function that starts and stays in a set is in it.
LEMMA Stays ==
    ASSUME NEW n \in Nat, NEW V, NEW f, f[0] \in V, \A k \in 1..n : f[k - 1] \in V => f[k] \in V
    PROVE  \A k \in 0..n : f[k] \in V
<1> DEFINE M == {m \in Nat : m <= n => f[m] \in V}
<1>1. 0 \in M
  OBVIOUS
<1>2. ASSUME NEW m \in M PROVE m + 1 \in M
  <2>1. CASE m + 1 <= n
    <3>1. m + 1 \in 1..n /\ (m + 1) - 1 = m /\ f[m] \in V
      BY <1>2, <2>1
    <3> QED  BY <3>1
  <2> QED  BY <2>1
<1>3. M = Nat
  <2> HIDE DEF M
  <2>1. M \subseteq Nat
    BY DEF M
  <2> QED  BY <1>1, <1>2, <2>1, EveryNumber
<1>4. \A k \in Nat : k <= n => f[k] \in V
  BY <1>3
<1> QED  BY <1>4

-----------------------------------------------------------------------------
(* The loops of the model, by what they do with one element more.           *)

\* Split reads a sequence.
Pieces(W) == [lines : Seq(Seq(W)), rest : Seq(W)]

Nothing == [lines |-> <<>>, rest |-> <<>>]

Taken(before, x, end) ==
    IF x = end THEN [lines |-> Append(before.lines, before.rest), rest |-> <<>>]
    ELSE [lines |-> before.lines, rest |-> Append(before.rest, x)]

Reads(f, s, end) ==
    f = [k \in 0..Len(s) |-> IF k = 0 THEN Nothing ELSE Taken(f[k - 1], s[k], end)]

\* The function it is defined by exists.
LEMMA SplitDefined ==
    ASSUME NEW W, NEW s \in Seq(W), NEW end
    PROVE  \E f : Reads(f, s, end) /\ Split(s, end) = f[Len(s)] /\ f[Len(s)] \in Pieces(W)
<1> DEFINE n == Len(s)
           V == Pieces(W)
           h == [p \in (1..n) \X V |-> Taken(p[2], s[p[1]], end)]
           P(f) == f = [k \in 0..n |-> IF k = 0 THEN Nothing ELSE Taken(f[k - 1], s[k], end)]
<1>1. n \in Nat /\ \A k \in 1..n : s[k] \in W
  BY LenProperties
<1>2. Nothing \in V
  BY EmptySeq DEF Pieces, Nothing
<1>3. \A v \in V, x \in W : Taken(v, x, end) \in V
  BY EmptySeq DEF Pieces, Taken
<1>4. \A k \in 1..n : \A v \in V : h[<<k, v>>] = Taken(v, s[k], end)
  OBVIOUS
<1> HIDE DEF n, V, h
<1>5. ASSUME NEW f \in [0..n -> V], Follows(f, n, Nothing, h)
      PROVE  P(f)
  <2>1. ASSUME NEW k \in 0..n PROVE f[k] = IF k = 0 THEN Nothing ELSE Taken(f[k - 1], s[k], end)
    <3>1. CASE k # 0
      <4>1. k \in 1..n /\ k - 1 \in 0..n /\ f[k - 1] \in V
        BY <1>1, <3>1
      <4>2. f[k] = h[<<k, f[k - 1]>>] /\ h[<<k, f[k - 1]>>] = Taken(f[k - 1], s[k], end)
        BY <1>4, <1>5, <4>1 DEF Follows
      <4> QED  BY <3>1, <4>2
    <3> QED  BY <1>5, <3>1 DEF Follows
  <2> QED  BY <2>1
<1>6. \E f : P(f)
  <2>1. \A k \in 1..n : \A v \in V : h[<<k, v>>] \in V
    BY <1>1, <1>3, <1>4
  <2>2. n \in Nat
    BY <1>1
  <2>3. \E f \in [0..n -> V] : Follows(f, n, Nothing, h)
    BY <1>2, <2>1, <2>2, Recursion
  <2> QED  BY <1>5, <2>3
<1> DEFINE g == CHOOSE f : P(f)
<1>7. P(g)
  BY <1>6
<1>8. Split(s, end) = g[n]
  BY DEF Split, n, Nothing, Taken
<1> HIDE DEF g
<1>9. Reads(g, s, end)
  BY <1>7 DEF Reads, n
<1>10. g[n] \in V
  <2>1. g[0] = Nothing
    BY <1>1, <1>7
  <2>2. ASSUME NEW k \in 1..n, g[k - 1] \in V PROVE g[k] \in V
    <3>1. g[k] = Taken(g[k - 1], s[k], end)
      BY <1>1, <1>7
    <3> QED  BY <1>1, <1>3, <2>2, <3>1
  <2>3. \A k \in 0..n : g[k] \in V
    BY <1>1, <1>2, <2>1, <2>2, Stays
  <2> QED  BY <1>1, <2>3
<1> QED  BY <1>8, <1>9, <1>10 DEF n, V

\* One element more ends a line or makes it longer.
LEMMA SplitGrows ==
    ASSUME NEW W, NEW end
    PROVE  /\ Split(<<>>, end) = Nothing
           /\ \A s \in Seq(W) : Split(s, end) \in Pieces(W)
           /\ \A s \in Seq(W), x \in W :
                Split(Append(s, x), end) = Taken(Split(s, end), x, end)
<1>1. Split(<<>>, end) = Nothing
  <2>1. <<>> \in Seq(W) /\ Len(<<>>) = 0
    BY EmptySeq
  <2>2. PICK f : Reads(f, <<>>, end) /\ Split(<<>>, end) = f[Len(<<>>)]
    BY <2>1, SplitDefined
  <2> QED  BY <2>1, <2>2 DEF Reads
<1>2. \A s \in Seq(W) : Split(s, end) \in Pieces(W)
  BY SplitDefined
<1>3. ASSUME NEW s \in Seq(W), NEW x \in W
      PROVE  Split(Append(s, x), end) = Taken(Split(s, end), x, end)
  <2> DEFINE t == Append(s, x)
             n == Len(s)
  <2>1. n \in Nat /\ t \in Seq(W) /\ Len(t) = n + 1 /\ t[n + 1] = x /\ \A k \in 1..n : t[k] = s[k]
    BY AppendProperties, LenProperties
  <2>2. PICK f : Reads(f, s, end) /\ Split(s, end) = f[n]
    BY SplitDefined
  <2> HIDE DEF t
  <2>3. PICK g : Reads(g, t, end) /\ Split(t, end) = g[n + 1]
    BY <2>1, SplitDefined
  <2>4. /\ f[0] = Nothing /\ \A k \in 1..n : f[k] = Taken(f[k - 1], s[k], end)
        /\ g[0] = Nothing /\ \A k \in 1..(n + 1) : g[k] = Taken(g[k - 1], t[k], end)
    <3>1. \A k \in 0..n : f[k] = IF k = 0 THEN Nothing ELSE Taken(f[k - 1], s[k], end)
      BY <2>2 DEF Reads
    <3>2. \A k \in 0..(n + 1) : g[k] = IF k = 0 THEN Nothing ELSE Taken(g[k - 1], t[k], end)
      BY <2>1, <2>3 DEF Reads
    <3> HIDE DEF n
    <3>3. /\ 0 \in 0..n /\ \A k \in 1..n : k \in 0..n /\ k # 0
          /\ 0 \in 0..(n + 1) /\ \A k \in 1..(n + 1) : k \in 0..(n + 1) /\ k # 0
      BY <2>1
    <3> QED  BY <3>1, <3>2, <3>3, Zenon
  <2> HIDE DEF n
  <2>5. ASSUME NEW k \in 1..n, f[k - 1] = g[k - 1] PROVE f[k] = g[k]
    BY <2>1, <2>4, <2>5
  <2>6. f[n] = g[n]
    BY <2>1, <2>4, <2>5, Alike
  <2>7. g[n + 1] = Taken(g[n], x, end)
    <3>1. n + 1 \in 1..(n + 1) /\ (n + 1) - 1 = n
      BY <2>1
    <3> QED  BY <2>1, <2>4, <3>1
  <2> QED  BY <2>2, <2>3, <2>6, <2>7 DEF t
<1> QED  BY <1>1, <1>2, <1>3

\* Kept goes through the texts.
Fitted(o, text) == IF Len(o) + Len(text) + 1 < OutSize THEN o \o text ELSE o

Collects(f, soFar, texts) ==
    f = [k \in 0..Len(texts) |-> IF k = 0 THEN soFar ELSE Fitted(f[k - 1], texts[k])]

\* The function it is defined by exists.
LEMMA KeptDefined ==
    ASSUME NEW T, NEW soFar \in Seq(T), NEW texts \in Seq(Seq(T))
    PROVE  \E f : /\ Collects(f, soFar, texts) /\ Kept(soFar, texts) = f[Len(texts)]
                  /\ f[Len(texts)] \in Seq(T)
<1> DEFINE n == Len(texts)
           V == Seq(T)
           h == [p \in (1..n) \X V |-> Fitted(p[2], texts[p[1]])]
           P(f) == f = [k \in 0..n |-> IF k = 0 THEN soFar ELSE Fitted(f[k - 1], texts[k])]
<1>1. n \in Nat /\ \A k \in 1..n : texts[k] \in V
  BY LenProperties
<1>2. soFar \in V
  OBVIOUS
<1>3. \A v \in V, x \in V : Fitted(v, x) \in V
  BY ConcatProperties DEF Fitted
<1>4. \A k \in 1..n : \A v \in V : h[<<k, v>>] = Fitted(v, texts[k])
  OBVIOUS
<1> HIDE DEF n, V, h
<1>5. ASSUME NEW f \in [0..n -> V], Follows(f, n, soFar, h)
      PROVE  P(f)
  <2>1. ASSUME NEW k \in 0..n PROVE f[k] = IF k = 0 THEN soFar ELSE Fitted(f[k - 1], texts[k])
    <3>1. CASE k # 0
      <4>1. k \in 1..n /\ k - 1 \in 0..n /\ f[k - 1] \in V
        BY <1>1, <3>1
      <4>2. f[k] = h[<<k, f[k - 1]>>] /\ h[<<k, f[k - 1]>>] = Fitted(f[k - 1], texts[k])
        BY <1>4, <1>5, <4>1 DEF Follows
      <4> QED  BY <3>1, <4>2
    <3> QED  BY <1>5, <3>1 DEF Follows
  <2> QED  BY <2>1
<1>6. \E f : P(f)
  <2>1. \A k \in 1..n : \A v \in V : h[<<k, v>>] \in V
    BY <1>1, <1>3, <1>4
  <2>2. n \in Nat
    BY <1>1
  <2>3. \E f \in [0..n -> V] : Follows(f, n, soFar, h)
    BY <1>2, <2>1, <2>2, Recursion
  <2> QED  BY <1>5, <2>3
<1> DEFINE g == CHOOSE f : P(f)
<1>7. P(g)
  BY <1>6
<1>8. Kept(soFar, texts) = g[n]
  BY DEF Kept, n, Fitted
<1> HIDE DEF g
<1>9. Collects(g, soFar, texts)
  BY <1>7 DEF Collects, n
<1>10. g[n] \in V
  <2>1. g[0] = soFar
    BY <1>1, <1>7
  <2>2. ASSUME NEW k \in 1..n, g[k - 1] \in V PROVE g[k] \in V
    <3>1. g[k] = Fitted(g[k - 1], texts[k])
      BY <1>1, <1>7
    <3> QED  BY <1>1, <1>3, <2>2, <3>1
  <2>3. \A k \in 0..n : g[k] \in V
    BY <1>1, <1>2, <2>1, <2>2, Stays
  <2> QED  BY <1>1, <2>3
<1> QED  BY <1>8, <1>9, <1>10 DEF n, V

\* One text more is kept if it fits.
LEMMA KeptGrows ==
    ASSUME NEW T, NEW soFar \in Seq(T)
    PROVE  /\ Kept(soFar, <<>>) = soFar
           /\ \A s \in Seq(Seq(T)) : Kept(soFar, s) \in Seq(T)
           /\ \A s \in Seq(Seq(T)), x \in Seq(T) :
                Kept(soFar, Append(s, x)) = Fitted(Kept(soFar, s), x)
<1>1. Kept(soFar, <<>>) = soFar
  <2>1. <<>> \in Seq(Seq(T)) /\ Len(<<>>) = 0
    BY EmptySeq
  <2>2. PICK f : Collects(f, soFar, <<>>) /\ Kept(soFar, <<>>) = f[Len(<<>>)]
    BY <2>1, KeptDefined
  <2> QED  BY <2>1, <2>2 DEF Collects
<1>2. \A s \in Seq(Seq(T)) : Kept(soFar, s) \in Seq(T)
  BY KeptDefined
<1>3. ASSUME NEW s \in Seq(Seq(T)), NEW x \in Seq(T)
      PROVE  Kept(soFar, Append(s, x)) = Fitted(Kept(soFar, s), x)
  <2> DEFINE t == Append(s, x)
             n == Len(s)
  <2>1. /\ n \in Nat /\ t \in Seq(Seq(T)) /\ Len(t) = n + 1 /\ t[n + 1] = x
        /\ \A k \in 1..n : t[k] = s[k]
    BY AppendProperties, LenProperties
  <2>2. PICK f : Collects(f, soFar, s) /\ Kept(soFar, s) = f[n]
    BY KeptDefined
  <2> HIDE DEF t
  <2>3. PICK g : Collects(g, soFar, t) /\ Kept(soFar, t) = g[n + 1]
    <3>1. t \in Seq(Seq(T)) /\ Len(t) = n + 1
      BY <2>1
    <3>2. \E g : Collects(g, soFar, t) /\ Kept(soFar, t) = g[Len(t)]
      BY <3>1, KeptDefined
    <3> QED  BY <3>1, <3>2
  <2>4. /\ f[0] = soFar /\ \A k \in 1..n : f[k] = Fitted(f[k - 1], s[k])
        /\ g[0] = soFar /\ \A k \in 1..(n + 1) : g[k] = Fitted(g[k - 1], t[k])
    <3>1. \A k \in 0..n : f[k] = IF k = 0 THEN soFar ELSE Fitted(f[k - 1], s[k])
      BY <2>2 DEF Collects
    <3>2. \A k \in 0..(n + 1) : g[k] = IF k = 0 THEN soFar ELSE Fitted(g[k - 1], t[k])
      BY <2>1, <2>3 DEF Collects
    <3> HIDE DEF n
    <3>3. /\ 0 \in 0..n /\ \A k \in 1..n : k \in 0..n /\ k # 0
          /\ 0 \in 0..(n + 1) /\ \A k \in 1..(n + 1) : k \in 0..(n + 1) /\ k # 0
      BY <2>1
    <3> QED  BY <3>1, <3>2, <3>3, Zenon
  <2> HIDE DEF n
  <2>5. ASSUME NEW k \in 1..n, f[k - 1] = g[k - 1] PROVE f[k] = g[k]
    BY <2>1, <2>4, <2>5
  <2>6. f[n] = g[n]
    BY <2>1, <2>4, <2>5, Alike
  <2>7. g[n + 1] = Fitted(g[n], x)
    <3>1. n + 1 \in 1..(n + 1) /\ (n + 1) - 1 = n
      BY <2>1
    <3> QED  BY <2>1, <2>4, <3>1
  <2> QED  BY <2>2, <2>3, <2>6, <2>7 DEF t
<1> QED  BY <1>1, <1>2, <1>3

\* FlattenSeq joins sequences.
Joins(f, s) == f = [i \in 1..Len(s) |-> IF i = 1 THEN s[i] ELSE f[i - 1] \o s[i]]

\* The function it is defined by exists.
LEMMA FlattenDefined ==
    ASSUME NEW T, NEW s \in Seq(Seq(T)), s # <<>>
    PROVE  \E f : Joins(f, s) /\ FlattenSeq(s) = f[Len(s)] /\ f[Len(s)] \in Seq(T)
<1> DEFINE n == Len(s)
           V == Seq(T)
           h == [p \in (1..n) \X V |-> p[2] \o s[p[1]]]
           P(f) == f = [i \in 1..n |-> IF i = 1 THEN s[i] ELSE f[i - 1] \o s[i]]
<1>1. n \in Nat \ {0} /\ \A k \in 1..n : s[k] \in V
  BY LenProperties, EmptySeq
<1>2. <<>> \in V
  BY EmptySeq
<1>3. \A v \in V, x \in V : v \o x \in V /\ <<>> \o x = x
  BY ConcatProperties, ConcatEmptySeq
<1>4. \A k \in 1..n : \A v \in V : h[<<k, v>>] = v \o s[k]
  OBVIOUS
<1> HIDE DEF n, V, h
<1>5. \E f : P(f)
  <2>1. \A k \in 1..n : \A v \in V : h[<<k, v>>] \in V
    BY <1>1, <1>3, <1>4
  <2>2. n \in Nat
    BY <1>1
  <2>3. PICK f \in [0..n -> V] : Follows(f, n, <<>>, h)
    BY <1>2, <2>1, <2>2, Recursion
  <2> DEFINE e == [i \in 1..n |-> f[i]]
  <2>4. ASSUME NEW i \in 1..n PROVE e[i] = IF i = 1 THEN s[i] ELSE e[i - 1] \o s[i]
    <3>1. i - 1 \in 0..n /\ f[i - 1] \in V
      BY <1>1
    <3>2. e[i] = f[i - 1] \o s[i]
      BY <1>4, <2>3, <3>1 DEF Follows
    <3>3. CASE i = 1
      <4>1. f[i - 1] = <<>> /\ s[i] \in V /\ <<>> \o s[i] = s[i]
        BY <1>1, <1>3, <2>3, <3>3 DEF Follows
      <4> QED  BY <3>2, <3>3, <4>1, Zenon
    <3>4. CASE i # 1
      <4>1. i - 1 \in 1..n
        BY <1>1, <3>4
      <4> QED  BY <3>2, <3>4, <4>1
    <3> QED  BY <3>3, <3>4
  <2>5. P(e)
    BY <2>4
  <2> QED  BY <2>5
<1> DEFINE g == CHOOSE f : P(f)
<1>6. P(g)
  BY <1>5
<1>7. FlattenSeq(s) = g[n]
  BY <1>1 DEF FlattenSeq, n
<1> HIDE DEF g
<1>8. Joins(g, s)
  BY <1>6 DEF Joins, n
<1>9. g[n] \in V
  <2> DEFINE e == [k \in 0..n |-> IF k = 0 THEN <<>> ELSE g[k]]
  <2>1. e[0] \in V
    BY <1>1, <1>2
  <2>2. ASSUME NEW k \in 1..n, e[k - 1] \in V PROVE e[k] \in V
    <3>1. CASE k = 1
      BY <1>1, <1>6, <3>1
    <3>2. CASE k # 1
      <4>1. k - 1 \in 1..n /\ g[k - 1] \in V
        BY <1>1, <2>2, <3>2
      <4>2. k \in 1..n /\ s[k] \in V /\ e[k] = g[k]
        BY <1>1, <3>2
      <4>3. g[k] = g[k - 1] \o s[k]
        BY <1>6, <3>2, <4>2
      <4> QED  BY <1>3, <4>1, <4>2, <4>3, Zenon
    <3> QED  BY <3>1, <3>2
  <2>3. n \in Nat /\ n \in 0..n /\ e[n] = g[n]
    BY <1>1
  <2> HIDE DEF e
  <2>4. \A k \in 0..n : e[k] \in V
    BY <2>1, <2>2, <2>3, Stays
  <2> QED  BY <2>3, <2>4
<1> QED  BY <1>7, <1>8, <1>9 DEF n, V

\* One sequence more goes behind the others.
LEMMA FlattenGrows ==
    ASSUME NEW T
    PROVE  /\ FlattenSeq(<<>>) = <<>>
           /\ \A s \in Seq(Seq(T)) : FlattenSeq(s) \in Seq(T)
           /\ \A s \in Seq(Seq(T)), x \in Seq(T) :
                FlattenSeq(Append(s, x)) = FlattenSeq(s) \o x
<1>1. FlattenSeq(<<>>) = <<>>
  BY DEF FlattenSeq
<1>2. ASSUME NEW s \in Seq(Seq(T)) PROVE FlattenSeq(s) \in Seq(T)
  <2>1. CASE s = <<>>
    BY <1>1, <2>1, EmptySeq
  <2> QED  BY <2>1, FlattenDefined
<1>3. ASSUME NEW s \in Seq(Seq(T)), NEW x \in Seq(T)
      PROVE  FlattenSeq(Append(s, x)) = FlattenSeq(s) \o x
  <2> DEFINE t == Append(s, x)
             n == Len(s)
  <2>1. /\ n \in Nat /\ t \in Seq(Seq(T)) /\ Len(t) = n + 1 /\ t[n + 1] = x /\ t # <<>>
        /\ \A k \in 1..n : t[k] = s[k]
    BY AppendProperties, LenProperties
  <2> HIDE DEF t
  <2>2. PICK g : Joins(g, t) /\ FlattenSeq(t) = g[n + 1]
    BY <2>1, FlattenDefined
  <2>3. \A i \in 1..(n + 1) : g[i] = IF i = 1 THEN t[i] ELSE g[i - 1] \o t[i]
    BY <2>1, <2>2 DEF Joins
  <2>4. CASE s = <<>>
    <3>1. n = 0 /\ 1 \in 1..(n + 1) /\ n + 1 = 1
      BY <2>4, EmptySeq
    <3>2. FlattenSeq(t) = x
      BY <2>1, <2>2, <2>3, <3>1
    <3> QED  BY <1>1, <2>4, <3>2, ConcatEmptySeq DEF t
  <2>5. CASE s # <<>>
    <3>1. PICK f : Joins(f, s) /\ FlattenSeq(s) = f[n]
      BY <2>5, FlattenDefined
    <3>2. n \in Nat \ {0} /\ \A i \in 1..n : f[i] = IF i = 1 THEN s[i] ELSE f[i - 1] \o s[i]
      BY <2>5, <3>1, EmptySeq DEF Joins
    <3> HIDE DEF n
    <3> DEFINE m == n - 1
               e == [k \in 0..m |-> f[k + 1]]
               d == [k \in 0..m |-> g[k + 1]]
    <3>3. m \in Nat
      BY <3>2
    <3>4. e[0] = d[0]
      <4>1. 0 \in 0..m /\ 1 \in 1..n /\ 1 \in 1..(n + 1)
        BY <3>2
      <4>2. f[1] = s[1] /\ g[1] = t[1] /\ t[1] = s[1]
        BY <2>1, <2>3, <3>2, <4>1
      <4> QED  BY <4>1, <4>2
    <3>5. ASSUME NEW k \in 1..m, e[k - 1] = d[k - 1] PROVE e[k] = d[k]
      <4>1. /\ k - 1 \in 0..m /\ k \in 0..m /\ (k - 1) + 1 = k
            /\ k + 1 \in 1..n /\ k + 1 \in 1..(n + 1) /\ k + 1 # 1 /\ (k + 1) - 1 = k
        BY <3>2
      <4>2. f[k] = g[k]
        BY <3>5, <4>1
      <4>3. f[k + 1] = f[k] \o s[k + 1] /\ g[k + 1] = g[k] \o t[k + 1] /\ t[k + 1] = s[k + 1]
        BY <2>1, <2>3, <3>2, <4>1
      <4> QED  BY <4>1, <4>2, <4>3
    <3>6. e[m] = f[n] /\ d[m] = g[n]
      BY <3>2
    <3> HIDE DEF e, d, m
    <3>7. f[n] = g[n]
      BY <3>3, <3>4, <3>5, <3>6, Alike
    <3>8. g[n + 1] = g[n] \o x
      <4>1. n + 1 \in 1..(n + 1) /\ n + 1 # 1 /\ (n + 1) - 1 = n
        BY <3>2
      <4> QED  BY <2>1, <2>3, <4>1
    <3> QED  BY <2>2, <3>1, <3>7, <3>8 DEF t
  <2> QED  BY <2>4, <2>5
<1> QED  BY <1>1, <1>2, <1>3

\* TextsOf goes through the parts of a stream, which does not begin with the end of a text.
Parts == [part : {"open", "close", "newline"}, text : Seq(Tokens)]
Streams == {s \in Seq(Parts) : s = <<>> \/ s[1] # Closes}

Closed(texts, s, k) == IF s[k] = Closes THEN Append(texts, s[k - 1].text) ELSE texts

Gathers(f, s) == f = [k \in 0..Len(s) |-> IF k = 0 THEN <<>> ELSE Closed(f[k - 1], s, k)]

\* The function it is defined by exists.
LEMMA TextsDefined ==
    ASSUME NEW s \in Streams
    PROVE  \E f : Gathers(f, s) /\ TextsOf(s) = f[Len(s)] /\ f[Len(s)] \in Seq(Seq(Tokens))
<1> DEFINE n == Len(s)
           V == Seq(Seq(Tokens))
           h == [p \in (1..n) \X V |-> Closed(p[2], s, p[1])]
           P(f) == f = [k \in 0..n |-> IF k = 0 THEN <<>> ELSE Closed(f[k - 1], s, k)]
<1>1. n \in Nat /\ \A k \in 1..n : s[k] \in Parts
  BY LenProperties DEF Streams
<1>2. <<>> \in V
  BY EmptySeq
<1>3. \A v \in V, k \in 1..n : Closed(v, s, k) \in V
  <2> SUFFICES ASSUME NEW v \in V, NEW k \in 1..n, s[k] = Closes
               PROVE  Append(v, s[k - 1].text) \in V
    BY DEF Closed
  <2>1. k # 1
    BY DEF Streams
  <2>2. k - 1 \in 1..n
    BY <1>1, <2>1
  <2>3. s[k - 1].text \in Seq(Tokens)
    BY <1>1, <2>2 DEF Parts
  <2> QED  BY <2>3
<1>4. \A k \in 1..n : \A v \in V : h[<<k, v>>] = Closed(v, s, k)
  OBVIOUS
<1> HIDE DEF n, V, h
<1>5. ASSUME NEW f \in [0..n -> V], Follows(f, n, <<>>, h)
      PROVE  P(f)
  <2>1. ASSUME NEW k \in 0..n PROVE f[k] = IF k = 0 THEN <<>> ELSE Closed(f[k - 1], s, k)
    <3>1. CASE k # 0
      <4>1. k \in 1..n /\ k - 1 \in 0..n /\ f[k - 1] \in V
        BY <1>1, <3>1
      <4>2. f[k] = h[<<k, f[k - 1]>>] /\ h[<<k, f[k - 1]>>] = Closed(f[k - 1], s, k)
        BY <1>4, <1>5, <4>1 DEF Follows
      <4> QED  BY <3>1, <4>2
    <3> QED  BY <1>5, <3>1 DEF Follows
  <2> QED  BY <2>1
<1>6. \E f : P(f)
  <2>1. \A k \in 1..n : \A v \in V : h[<<k, v>>] \in V
    BY <1>1, <1>3, <1>4
  <2>2. n \in Nat
    BY <1>1
  <2>3. \E f \in [0..n -> V] : Follows(f, n, <<>>, h)
    BY <1>2, <2>1, <2>2, Recursion
  <2> QED  BY <1>5, <2>3
<1> DEFINE g == CHOOSE f : P(f)
<1>7. P(g)
  BY <1>6
<1>8. TextsOf(s) = g[n]
  BY DEF TextsOf, n, Closed
<1> HIDE DEF g
<1>9. Gathers(g, s)
  BY <1>7 DEF Gathers, n
<1>10. g[n] \in V
  <2>1. g[0] = <<>>
    BY <1>1, <1>7
  <2>2. ASSUME NEW k \in 1..n, g[k - 1] \in V PROVE g[k] \in V
    <3>1. g[k] = Closed(g[k - 1], s, k)
      BY <1>1, <1>7
    <3> QED  BY <1>1, <1>3, <2>2, <3>1
  <2>3. \A k \in 0..n : g[k] \in V
    BY <1>1, <1>2, <2>1, <2>2, Stays
  <2> QED  BY <1>1, <2>3
<1> QED  BY <1>8, <1>9, <1>10 DEF n, V

\* One part more may close the text of the part before it.
LEMMA TextsGrow ==
    /\ TextsOf(<<>>) = <<>>
    /\ \A s \in Streams : TextsOf(s) \in Seq(Seq(Tokens))
    /\ \A s \in Streams, x \in Parts :
         Append(s, x) \in Streams =>
           TextsOf(Append(s, x)) =
             IF x = Closes THEN Append(TextsOf(s), s[Len(s)].text) ELSE TextsOf(s)
<1>1. TextsOf(<<>>) = <<>>
  <2>1. <<>> \in Streams /\ Len(<<>>) = 0
    BY EmptySeq DEF Streams
  <2>2. PICK f : Gathers(f, <<>>) /\ TextsOf(<<>>) = f[Len(<<>>)]
    BY <2>1, TextsDefined
  <2> QED  BY <2>1, <2>2 DEF Gathers
<1>2. \A s \in Streams : TextsOf(s) \in Seq(Seq(Tokens))
  BY TextsDefined
<1>3. ASSUME NEW s \in Streams, NEW x \in Parts, Append(s, x) \in Streams
      PROVE  TextsOf(Append(s, x)) =
               IF x = Closes THEN Append(TextsOf(s), s[Len(s)].text) ELSE TextsOf(s)
  <2> DEFINE t == Append(s, x)
             n == Len(s)
  <2>1. n \in Nat /\ t \in Streams /\ Len(t) = n + 1 /\ t[n + 1] = x /\ \A k \in 1..n : t[k] = s[k]
    BY <1>3, AppendProperties, LenProperties DEF Streams
  <2>2. PICK f : Gathers(f, s) /\ TextsOf(s) = f[n]
    BY TextsDefined
  <2> HIDE DEF t
  <2>3. PICK g : Gathers(g, t) /\ TextsOf(t) = g[n + 1]
    <3>1. t \in Streams /\ Len(t) = n + 1
      BY <2>1
    <3>2. \E g : Gathers(g, t) /\ TextsOf(t) = g[Len(t)]
      BY <3>1, TextsDefined
    <3> QED  BY <3>1, <3>2
  <2>4. /\ f[0] = <<>> /\ \A k \in 1..n : f[k] = Closed(f[k - 1], s, k)
        /\ g[0] = <<>> /\ \A k \in 1..(n + 1) : g[k] = Closed(g[k - 1], t, k)
    <3>1. \A k \in 0..n : f[k] = IF k = 0 THEN <<>> ELSE Closed(f[k - 1], s, k)
      BY <2>2 DEF Gathers
    <3>2. \A k \in 0..(n + 1) : g[k] = IF k = 0 THEN <<>> ELSE Closed(g[k - 1], t, k)
      BY <2>1, <2>3 DEF Gathers
    <3> HIDE DEF n
    <3>3. /\ 0 \in 0..n /\ \A k \in 1..n : k \in 0..n /\ k # 0
          /\ 0 \in 0..(n + 1) /\ \A k \in 1..(n + 1) : k \in 0..(n + 1) /\ k # 0
      BY <2>1
    <3> QED  BY <3>1, <3>2, <3>3, Zenon
  <2>5. n > 0 => s[1] # Closes
    BY EmptySeq DEF Streams
  <2> HIDE DEF n
  <2>6. ASSUME NEW k \in 1..n, f[k - 1] = g[k - 1] PROVE f[k] = g[k]
    <3>1. t[k] = s[k] /\ k \in 1..(n + 1)
      BY <2>1
    <3>2. CASE k = 1
      <4>1. s[k] # Closes
        BY <2>1, <2>5, <3>2
      <4> QED  BY <2>4, <2>6, <3>1, <4>1 DEF Closed
    <3>3. CASE k # 1
      <4>1. k - 1 \in 1..n /\ t[k - 1] = s[k - 1]
        BY <2>1, <3>3
      <4> QED  BY <2>4, <2>6, <3>1, <4>1 DEF Closed
    <3> QED  BY <3>2, <3>3
  <2>7. f[n] = g[n]
    BY <2>1, <2>4, <2>6, Alike
  <2>8. g[n + 1] = Closed(g[n], t, n + 1)
    <3>1. n + 1 \in 1..(n + 1) /\ (n + 1) - 1 = n
      BY <2>1
    <3> QED  BY <2>1, <2>4, <3>1
  <2>9. Closed(f[n], t, n + 1) = IF x = Closes THEN Append(f[n], s[n].text) ELSE f[n]
    <3>1. (n + 1) - 1 = n
      BY <2>1
    <3>2. CASE n = 0
      <4>1. x # Closes
        <5>1. Len(t) = 1 /\ t[1] = x /\ t \in Seq(Parts)
          BY <2>1, <3>2 DEF Streams
        <5>2. t # <<>>
          BY <1>3, AppendProperties DEF t, Streams
        <5> QED  BY <2>1, <5>1, <5>2 DEF Streams
      <4> QED  BY <2>1, <4>1 DEF Closed
    <3>3. CASE n # 0
      <4>1. t[n] = s[n]
        BY <2>1, <3>3
      <4> QED  BY <2>1, <3>1, <4>1 DEF Closed
    <3> QED  BY <3>2, <3>3
  <2> QED  BY <2>2, <2>3, <2>7, <2>8, <2>9 DEF t, n
<1> QED  BY <1>1, <1>2, <1>3

-----------------------------------------------------------------------------
(* Reading a text in two parts.                                             *)

\* Concatenation is associative.  The equation has a name, so that its instances are found by
\* that name.
Regrouped(x, y, z) == (x \o y) \o z = x \o (y \o z)

\* Any three sequences can be joined in either order.
LEMMA Regrouping == \A V : \A x, y, z \in Seq(V) : Regrouped(x, y, z)
  BY ConcatAssociative DEF Regrouped

\* An element goes behind a join as it goes behind its second part.
LEMMA JoinGrows ==
    ASSUME NEW W, NEW a \in Seq(W), NEW b \in Seq(W), NEW x \in W
    PROVE  a \o Append(b, x) = Append(a \o b, x) /\ a \o b \in Seq(W)
<1> DEFINE s == a \o Append(b, x)
           t == Append(a \o b, x)
           m == Len(a)
           n == Len(b)
<1>1. /\ m \in Nat /\ n \in Nat /\ a \o b \in Seq(W) /\ Len(a \o b) = m + n
      /\ \A i \in 1..(m + n) : (a \o b)[i] = IF i <= m THEN a[i] ELSE b[i - m]
  BY ConcatProperties, LenProperties
<1>2. /\ Append(b, x) \in Seq(W) /\ Len(Append(b, x)) = n + 1 /\ Append(b, x)[n + 1] = x
      /\ \A i \in 1..n : Append(b, x)[i] = b[i]
  BY AppendProperties
<1>3. /\ s \in Seq(W) /\ Len(s) = m + (n + 1)
      /\ \A i \in 1..(m + (n + 1)) : s[i] = IF i <= m THEN a[i] ELSE Append(b, x)[i - m]
  <2>1. \A c \in Seq(W) : /\ a \o c \in Seq(W) /\ Len(a \o c) = m + Len(c)
                          /\ \A i \in 1..(m + Len(c)) :
                               (a \o c)[i] = IF i <= m THEN a[i] ELSE c[i - m]
    BY ConcatProperties
  <2> QED  BY <1>2, <2>1
<1>4. /\ t \in Seq(W) /\ Len(t) = (m + n) + 1 /\ t[(m + n) + 1] = x
      /\ \A i \in 1..(m + n) : t[i] = (a \o b)[i]
  BY <1>1, AppendProperties
<1> HIDE DEF s, t, m, n
<1>5. ASSUME NEW i \in 1..Len(s) PROVE s[i] = t[i]
  <2>1. CASE i = (m + n) + 1
    <3>1. ~(i <= m) /\ i - m = n + 1 /\ i \in 1..(m + (n + 1))
      BY <1>1, <2>1
    <3> QED  BY <1>2, <1>3, <1>4, <2>1, <3>1
  <2>2. CASE i # (m + n) + 1
    <3>1. i \in 1..(m + n) /\ i \in 1..(m + (n + 1))
      BY <1>1, <1>3, <2>2
    <3>2. CASE i <= m
      BY <1>1, <1>3, <1>4, <3>1, <3>2
    <3>3. CASE ~(i <= m)
      <4>1. i - m \in 1..n
        BY <1>1, <3>1, <3>3
      <4> QED  BY <1>1, <1>2, <1>3, <1>4, <3>1, <3>3, <4>1
    <3> QED  BY <3>2, <3>3
  <2> QED  BY <2>1, <2>2
<1>6. Len(s) = Len(t)
  BY <1>1, <1>3, <1>4
<1>7. s = t
  BY <1>3, <1>4, <1>5, <1>6, SeqEqual
<1> QED  BY <1>1, <1>7 DEF s, t

\* A text without an end is all rest.
Unended(s, end) == \A i \in 1..Len(s) : s[i] # end

\* Split finds no line in such a text.
LEMMA AllRest ==
    ASSUME NEW W, NEW end
    PROVE  \A s \in Seq(W) : Unended(s, end) => Split(s, end) = [lines |-> <<>>, rest |-> s]
<1> DEFINE M == {s \in Seq(W) : Unended(s, end) => Split(s, end) = [lines |-> <<>>, rest |-> s]}
<1>1. <<>> \in M
  BY SplitGrows, EmptySeq DEF Nothing
<1>2. ASSUME NEW s \in M, NEW x \in W PROVE Append(s, x) \in M
  <2> SUFFICES ASSUME Unended(Append(s, x), end)
               PROVE  Split(Append(s, x), end) = [lines |-> <<>>, rest |-> Append(s, x)]
    BY AppendProperties
  <2>1. /\ Len(Append(s, x)) = Len(s) + 1 /\ Append(s, x)[Len(s) + 1] = x /\ Len(s) \in Nat
        /\ \A i \in 1..Len(s) : Append(s, x)[i] = s[i]
    BY AppendProperties, LenProperties
  <2>2. x # end /\ Unended(s, end)
    <3>1. Len(s) + 1 \in 1..Len(Append(s, x)) /\ \A i \in 1..Len(s) : i \in 1..Len(Append(s, x))
      BY <2>1
    <3> QED  BY <2>1, <3>1 DEF Unended
  <2>3. Split(Append(s, x), end) = Taken(Split(s, end), x, end)
    BY SplitGrows
  <2>4. Split(s, end) = [lines |-> <<>>, rest |-> s]
    BY <2>2
  <2>5. Split(s, end).lines = <<>> /\ Split(s, end).rest = s
    BY <2>4
  <2> QED  BY <2>2, <2>3, <2>5 DEF Taken
<1>3. M = Seq(W)
  <2> HIDE DEF M
  <2>1. M \subseteq Seq(W)
    BY DEF M
  <2> QED  BY <1>1, <1>2, <2>1, EverySequence
<1> QED  BY <1>3

\* What Split leaves has no end.
LEMMA RestUnended ==
    ASSUME NEW W, NEW end PROVE \A s \in Seq(W) : Unended(Split(s, end).rest, end)
<1> DEFINE M == {s \in Seq(W) : Unended(Split(s, end).rest, end)}
<1>1. <<>> \in M
  BY SplitGrows, EmptySeq DEF Nothing, Unended
<1>2. ASSUME NEW s \in M, NEW x \in W PROVE Append(s, x) \in M
  <2>1. Split(Append(s, x), end) = Taken(Split(s, end), x, end) /\ Split(s, end) \in Pieces(W)
    BY SplitGrows
  <2>2. CASE x = end
    BY <2>1, <2>2, EmptySeq DEF Taken, Unended
  <2>3. CASE x # end
    <3> DEFINE r == Split(s, end).rest
    <3>1. Split(Append(s, x), end).rest = Append(r, x) /\ r \in Seq(W)
      BY <2>1, <2>3 DEF Taken, Pieces
    <3>2. Unended(r, end)
      OBVIOUS
    <3> HIDE DEF r
    <3>3. Unended(Append(r, x), end)
      BY <2>3, <3>1, <3>2, AppendProperties, LenProperties DEF Unended
    <3>4. Unended(Split(Append(s, x), end).rest, end)
      BY <3>1, <3>3
    <3> QED  BY <3>4, AppendProperties
  <2> QED  BY <2>2, <2>3
<1>3. M = Seq(W)
  <2> HIDE DEF M
  <2>1. M \subseteq Seq(W)
    BY DEF M
  <2> QED  BY <1>1, <1>2, <2>1, EverySequence
<1> QED  BY <1>3

\* Nothing is left behind an end.
LEMMA RestEnds ==
    ASSUME NEW W, NEW end \in W PROVE \A s \in Seq(W) : Split(Append(s, end), end).rest = <<>>
<1> SUFFICES ASSUME NEW s \in Seq(W) PROVE Split(Append(s, end), end).rest = <<>>
  OBVIOUS
<1>1. Split(Append(s, end), end) = Taken(Split(s, end), end, end)
  BY SplitGrows
<1> QED  BY <1>1 DEF Taken

\* What is left of a join is left of the rest of its first part and its second.
LEMMA RestJoins ==
    ASSUME NEW W, NEW end, NEW a \in Seq(W)
    PROVE  \A b \in Seq(W) : Split(a \o b, end).rest = Split(Split(a, end).rest \o b, end).rest
<1> DEFINE r == Split(a, end).rest
           M == {b \in Seq(W) : Split(a \o b, end).rest = Split(r \o b, end).rest}
<1>1. r \in Seq(W) /\ Unended(r, end)
  BY SplitGrows, RestUnended DEF Pieces
<1> HIDE DEF r
<1>2. <<>> \in M
  <2>1. a \o <<>> = a /\ r \o <<>> = r /\ <<>> \in Seq(W)
    BY <1>1, ConcatEmptySeq, EmptySeq
  <2>2. Split(r, end).rest = r
    BY <1>1, AllRest
  <2> QED  BY <2>1, <2>2 DEF r
<1>3. ASSUME NEW b \in M, NEW x \in W PROVE Append(b, x) \in M
  <2>1. /\ a \o Append(b, x) = Append(a \o b, x) /\ a \o b \in Seq(W)
        /\ r \o Append(b, x) = Append(r \o b, x) /\ r \o b \in Seq(W)
    BY <1>1, JoinGrows
  <2>2. /\ Split(Append(a \o b, x), end) = Taken(Split(a \o b, end), x, end)
        /\ Split(Append(r \o b, x), end) = Taken(Split(r \o b, end), x, end)
    BY <2>1, SplitGrows
  <2>3. Split(a \o b, end).rest = Split(r \o b, end).rest
    OBVIOUS
  <2>4. Split(Append(a \o b, x), end).rest = Split(Append(r \o b, x), end).rest
    BY <2>2, <2>3 DEF Taken
  <2>5. Split(a \o Append(b, x), end).rest = Split(r \o Append(b, x), end).rest
    BY <2>1, <2>4
  <2> QED  BY <2>5, AppendProperties
<1>4. M = Seq(W)
  <2> HIDE DEF M
  <2>1. M \subseteq Seq(W)
    BY DEF M
  <2> QED  BY <1>2, <1>3, <2>1, EverySequence
<1> QED  BY <1>4 DEF r

\* m of each element.
Image(l, m) == [i \in 1..Len(l) |-> m[l[i]]]

\* One element more gives one value more.
LEMMA ImageGrows ==
    ASSUME NEW A, NEW B, NEW m \in [A -> B]
    PROVE  /\ Image(<<>>, m) = <<>>
           /\ \A l \in Seq(A) : Image(l, m) \in Seq(B)
           /\ \A l \in Seq(A), r \in A : Image(Append(l, r), m) = Append(Image(l, m), m[r])
<1>1. \A l \in Seq(A) : Image(l, m) \in Seq(B)
  <2> SUFFICES ASSUME NEW l \in Seq(A) PROVE Image(l, m) \in Seq(B)
    OBVIOUS
  <2>1. Len(l) \in Nat /\ \A i \in 1..Len(l) : m[l[i]] \in B
    BY LenProperties
  <2> QED  BY <2>1, SeqDef DEF Image
<1>2. ASSUME NEW l \in Seq(A), NEW r \in A PROVE Image(Append(l, r), m) = Append(Image(l, m), m[r])
  <2> DEFINE n == Len(l)
  <2>1. /\ n \in Nat /\ Append(l, r) \in Seq(A) /\ Len(Append(l, r)) = n + 1
        /\ Append(l, r)[n + 1] = r /\ \A i \in 1..n : Append(l, r)[i] = l[i]
    BY AppendProperties, LenProperties
  <2>2. Image(l, m) \in Seq(B) /\ Len(Image(l, m)) = n /\ m[r] \in B
    BY <1>1, <2>1 DEF Image
  <2>3. \A i \in 1..n : Image(l, m)[i] = m[l[i]]
    BY DEF Image
  <2> DEFINE a == Image(l, m)
             b == Image(Append(l, r), m)
  <2>4. b \in Seq(B) /\ Len(b) = n + 1 /\ \A i \in 1..(n + 1) : b[i] = m[Append(l, r)[i]]
    BY <1>1, <2>1 DEF Image
  <2> HIDE DEF a, b, n
  <2>5. /\ Append(a, m[r]) \in Seq(B) /\ Len(Append(a, m[r])) = n + 1
        /\ Append(a, m[r])[n + 1] = m[r] /\ \A i \in 1..n : Append(a, m[r])[i] = a[i]
    BY <2>2, AppendProperties DEF a
  <2>6. ASSUME NEW i \in 1..(n + 1) PROVE b[i] = Append(a, m[r])[i]
    <3>1. CASE i = n + 1
      BY <2>1, <2>4, <2>5, <3>1
    <3>2. CASE i # n + 1
      <4>1. i \in 1..n
        BY <2>1, <3>2
      <4> QED  BY <2>1, <2>3, <2>4, <2>5, <4>1 DEF a
    <3> QED  BY <3>1, <3>2
  <2>7. b = Append(a, m[r])
    BY <2>4, <2>5, <2>6, SeqEqual
  <2> QED  BY <2>7 DEF a, b
<1> QED  BY <1>1, <1>2, EmptySeq DEF Image

\* What m makes of the lines, joined.
Mapped(s, end, m) == LET lines == Split(s, end).lines
                     IN  FlattenSeq(Image(lines, m))

\* The end of a line adds what is made of it.
LineByLine(W, V, end, m) ==
    /\ \A s \in Seq(W) : Mapped(s, end, m) \in Seq(V)
    /\ \A s \in Seq(W) : Unended(s, end) => Mapped(s, end, m) = <<>>
    /\ \A s \in Seq(W), x \in W :
         Mapped(Append(s, x), end, m) =
           IF x = end THEN Mapped(s, end, m) \o m[Split(s, end).rest] ELSE Mapped(s, end, m)

\* Whatever is made of a line, the text is gone through line by line.
LEMMA MappedGrows ==
    ASSUME NEW W, NEW V, NEW end, NEW m \in [Seq(W) -> Seq(V)] PROVE LineByLine(W, V, end, m)
<1>1. /\ Image(<<>>, m) = <<>>
      /\ \A l \in Seq(Seq(W)) : Image(l, m) \in Seq(Seq(V))
      /\ \A l \in Seq(Seq(W)), r \in Seq(W) : Image(Append(l, r), m) = Append(Image(l, m), m[r])
  BY ImageGrows
<1>2. \A s \in Seq(W) : Mapped(s, end, m) = FlattenSeq(Image(Split(s, end).lines, m))
  BY DEF Mapped
<1>3. \A s \in Seq(W) : Split(s, end) \in Pieces(W)
  BY SplitGrows
<1>4. \A s \in Seq(W) : Mapped(s, end, m) \in Seq(V)
  BY <1>1, <1>2, <1>3, FlattenGrows DEF Pieces
<1>5. ASSUME NEW s \in Seq(W), Unended(s, end) PROVE Mapped(s, end, m) = <<>>
  <2>1. Split(s, end).lines = <<>>
    BY <1>5, AllRest
  <2> QED  BY <1>1, <1>2, <2>1, FlattenGrows
<1>6. ASSUME NEW s \in Seq(W), NEW x \in W
      PROVE  Mapped(Append(s, x), end, m) =
               IF x = end THEN Mapped(s, end, m) \o m[Split(s, end).rest]
               ELSE Mapped(s, end, m)
  <2> DEFINE l == Split(s, end).lines
             r == Split(s, end).rest
  <2>1. Append(s, x) \in Seq(W) /\ l \in Seq(Seq(W)) /\ r \in Seq(W)
    BY <1>3, AppendProperties DEF Pieces
  <2>2. Split(Append(s, x), end).lines = IF x = end THEN Append(l, r) ELSE l
    <3>1. Split(Append(s, x), end) = Taken(Split(s, end), x, end)
      BY SplitGrows
    <3> QED  BY <3>1 DEF Taken
  <2>3. /\ Mapped(s, end, m) = FlattenSeq(Image(l, m))
        /\ Mapped(Append(s, x), end, m) = FlattenSeq(Image(Split(Append(s, x), end).lines, m))
    BY <1>2, <2>1
  <2> HIDE DEF l, r
  <2>4. /\ Image(Append(l, r), m) = Append(Image(l, m), m[r])
        /\ Image(l, m) \in Seq(Seq(V)) /\ m[r] \in Seq(V)
    BY <1>1, <2>1
  <2>5. FlattenSeq(Append(Image(l, m), m[r])) = FlattenSeq(Image(l, m)) \o m[r]
    BY <2>4, FlattenGrows
  <2> QED  BY <2>2, <2>3, <2>4, <2>5 DEF r
<1> QED  BY <1>4, <1>5, <1>6 DEF LineByLine

\* The lines of a join: those of its first part, and those of its rest with the second.
ReadsOn(a, b, end, m) ==
    Mapped(a \o b, end, m) = Mapped(a, end, m) \o Mapped(Split(a, end).rest \o b, end, m)

\* A text that comes in two pieces gives what it gives in one.
LEMMA MappedJoins ==
    ASSUME NEW W, NEW V, NEW end, NEW m \in [Seq(W) -> Seq(V)], NEW a \in Seq(W)
    PROVE  \A b \in Seq(W) : ReadsOn(a, b, end, m)
<1>0. LineByLine(W, V, end, m)
  BY MappedGrows
<1> DEFINE r == Split(a, end).rest
           F(s) == Mapped(s, end, m)
           M == {b \in Seq(W) : F(a \o b) = F(a) \o F(r \o b)}
<1>1. r \in Seq(W) /\ Unended(r, end)
  BY SplitGrows, RestUnended DEF Pieces
<1>2. \A s \in Seq(W) : F(s) \in Seq(V)
  BY <1>0 DEF LineByLine
<1>3. F(r) = <<>>
  BY <1>0, <1>1 DEF LineByLine
<1>4. \A s \in Seq(W), x \in W :
        F(Append(s, x)) = IF x = end THEN F(s) \o m[Split(s, end).rest] ELSE F(s)
  BY <1>0 DEF LineByLine
<1>5. \A b \in Seq(W) : Split(a \o b, end).rest = Split(r \o b, end).rest
  BY RestJoins
<1> HIDE DEF r, F
<1>6. <<>> \in M
  <2>1. a \o <<>> = a /\ r \o <<>> = r /\ <<>> \in Seq(W)
    BY <1>1, ConcatEmptySeq, EmptySeq
  <2>2. F(a) = F(a) \o <<>>
    BY <1>2, ConcatEmptySeq
  <2> QED  BY <1>3, <2>1, <2>2
<1>7. ASSUME NEW b \in M, NEW x \in W PROVE Append(b, x) \in M
  <2>1. /\ a \o Append(b, x) = Append(a \o b, x) /\ a \o b \in Seq(W)
        /\ r \o Append(b, x) = Append(r \o b, x) /\ r \o b \in Seq(W)
    BY <1>1, JoinGrows
  <2> DEFINE p == a \o b
             q == r \o b
             z == Split(q, end).rest
  <2>2. F(p) = F(a) \o F(q) /\ Split(p, end).rest = z
    BY <1>5
  <2>3. z \in Seq(W) /\ m[z] \in Seq(V) /\ F(a) \in Seq(V) /\ F(q) \in Seq(V)
    BY <1>2, <2>1, SplitGrows DEF Pieces
  <2>4. /\ F(Append(p, x)) = IF x = end THEN F(p) \o m[z] ELSE F(p)
        /\ F(Append(q, x)) = IF x = end THEN F(q) \o m[z] ELSE F(q)
    BY <1>4, <2>1, <2>2
  <2>5. (F(a) \o F(q)) \o m[z] = F(a) \o (F(q) \o m[z])
    <3>1. Regrouped(F(a), F(q), m[z])
      BY <2>3, Regrouping, Zenon
    <3> QED  BY <3>1 DEF Regrouped
  <2> HIDE DEF p, q, z
  <2>6. F(Append(p, x)) = F(a) \o F(Append(q, x))
    BY <2>2, <2>4, <2>5
  <2>7. F(a \o Append(b, x)) = F(a) \o F(r \o Append(b, x))
    BY <2>1, <2>6 DEF p, q
  <2> QED  BY <2>7, AppendProperties
<1>8. M = Seq(W)
  <2> HIDE DEF M
  <2>1. M \subseteq Seq(W)
    BY DEF M
  <2> QED  BY <1>6, <1>7, <2>1, EverySequence
<1> QED  BY <1>8 DEF r, F, ReadsOn

-----------------------------------------------------------------------------
(* What is read of a log and of a stream.                                   *)

Msgs == [role : Roles, content : Seq(Tokens)]
MessageOf == [line \in Seq(Tokens) |-> Message(line)]
ParsedOf == [line \in Seq(Parts) |-> Parsed(line)]

\* A line of the log gives at most one message, of one of the roles.
LEMMA MessageTyped == \A line \in Seq(Tokens) : Message(line) \in Seq(Msgs)
<1> SUFFICES ASSUME NEW line \in Seq(Tokens), Len(line) > 1, Head(line) \in Roles
             PROVE  Message(line) \in Seq(Msgs)
  BY EmptySeq DEF Message
<1> DEFINE content == Tail(line)
           kept == IF Len(content) >= ContentSize
                   THEN SubSeq(content, 1, ContentSize - 1) ELSE content
<1>1. content \in Seq(Tokens)
  BY EmptySeq, HeadTailProperties
<1>2. ContentSize \in Nat \ {0} /\ Len(content) \in Nat
  BY <1>1, LogConstants, LenProperties
<1>3. kept \in Seq(Tokens)
  <2>1. CASE Len(content) >= ContentSize
    <3>1. \A i \in 1..(ContentSize - 1) : content[i] \in Tokens
      BY <1>1, <1>2, <2>1, ElementOfSeq
    <3>2. 1 \in Int /\ ContentSize - 1 \in Int
      BY <1>2
    <3>3. SubSeq(content, 1, ContentSize - 1) \in Seq(Tokens)
      BY <3>1, <3>2, SubSeqProperties
    <3> QED  BY <2>1, <3>3
  <2> QED  BY <1>1, <2>1
<1>4. Message(line) = <<[role |-> Head(line), content |-> kept]>>
  BY DEF Message
<1> HIDE DEF content, kept
<1>5. [role |-> Head(line), content |-> kept] \in Msgs
  BY <1>3 DEF Msgs
<1> QED  BY <1>4, <1>5

\* A line of the stream gives at most one text.
LEMMA ParsedTyped == \A line \in Seq(Parts) : Parsed(line) \in Seq(Seq(Tokens))
<1> SUFFICES ASSUME NEW line \in Seq(Parts), Len(line) = 2
             PROVE  <<line[1].text>> \in Seq(Seq(Tokens))
  BY EmptySeq DEF Parsed
<1>1. line[1] \in Parts
  OBVIOUS
<1> QED  BY <1>1 DEF Parts

\* build_messages_json goes line by line.
LEMMA MessagesByLine ==
    /\ \A s \in Seq(Tokens) : Messages(s) = Mapped(s, NL, MessageOf)
    /\ MessageOf \in [Seq(Tokens) -> Seq(Msgs)]
    /\ LineByLine(Tokens, Msgs, NL, MessageOf)
<1>1. MessageOf \in [Seq(Tokens) -> Seq(Msgs)]
  BY MessageTyped DEF MessageOf
<1>2. ASSUME NEW s \in Seq(Tokens) PROVE Messages(s) = Mapped(s, NL, MessageOf)
  <2> DEFINE lines == Split(s, NL).lines
  <2>1. lines \in Seq(Seq(Tokens))
    BY SplitGrows DEF Pieces
  <2>2. \A i \in 1..Len(lines) : MessageOf[lines[i]] = Message(lines[i])
    BY <2>1 DEF MessageOf
  <2>3. [i \in 1..Len(lines) |-> MessageOf[lines[i]]] = [i \in 1..Len(lines) |-> Message(lines[i])]
    BY <2>2, Zenon
  <2> QED  BY <2>3, Zenon DEF Messages, Mapped, Image
<1> QED  BY <1>1, <1>2, MappedGrows

\* So does stream_callback.
LEMMA LinesByLine ==
    /\ \A s \in Seq(Parts) : /\ Lines(s).texts = Mapped(s, EndOfLine, ParsedOf)
                             /\ Lines(s).rest = Split(s, EndOfLine).rest
    /\ ParsedOf \in [Seq(Parts) -> Seq(Seq(Tokens))]
    /\ LineByLine(Parts, Seq(Tokens), EndOfLine, ParsedOf)
<1>1. ParsedOf \in [Seq(Parts) -> Seq(Seq(Tokens))]
  BY ParsedTyped DEF ParsedOf
<1>2. ASSUME NEW s \in Seq(Parts)
      PROVE  /\ Lines(s).texts = Mapped(s, EndOfLine, ParsedOf)
             /\ Lines(s).rest = Split(s, EndOfLine).rest
  <2> DEFINE lines == Split(s, EndOfLine).lines
  <2>1. lines \in Seq(Seq(Parts))
    BY SplitGrows DEF Pieces
  <2>2. \A i \in 1..Len(lines) : ParsedOf[lines[i]] = Parsed(lines[i])
    BY <2>1 DEF ParsedOf
  <2>3. [i \in 1..Len(lines) |-> ParsedOf[lines[i]]] = [i \in 1..Len(lines) |-> Parsed(lines[i])]
    BY <2>2, Zenon
  <2>4. Lines(s).texts = FlattenSeq([i \in 1..Len(lines) |-> Parsed(lines[i])])
    BY DEF Lines
  <2>5. Mapped(s, EndOfLine, ParsedOf) = FlattenSeq([i \in 1..Len(lines) |-> ParsedOf[lines[i]]])
    BY DEF Mapped, Image
  <2>6. Lines(s).rest = Split(s, EndOfLine).rest
    BY DEF Lines
  <2> HIDE DEF lines
  <2> QED  BY <2>3, <2>4, <2>5, <2>6, Zenon
<1> QED  BY <1>1, <1>2, MappedGrows

\* Nothing is left of a log that ends with a line.
LEMMA EndedRest ==
    ASSUME NEW s \in Seq(Tokens), s = <<>> \/ Last(s) = NL PROVE Split(s, NL).rest = <<>>
<1>1. CASE s = <<>>
  BY <1>1, SplitGrows DEF Nothing
<1>2. CASE s # <<>>
  <2>1. PICK t \in Seq(Tokens), x \in Tokens : s = Append(t, x)
    BY <1>2, SequenceEmptyOrAppend
  <2>2. x = NL
    <3>1. Len(s) = Len(t) + 1 /\ s[Len(t) + 1] = x
      BY <2>1, AppendProperties
    <3> QED  BY <1>2, <3>1 DEF Last
  <2> QED  BY <2>1, <2>2, RestEnds
<1> QED  BY <1>1, <1>2

\* What stands behind such a log is read for itself.
LEMMA MessagesBehind ==
    ASSUME NEW a \in Seq(Tokens), NEW b \in Seq(Tokens), Split(a, NL).rest = <<>>
    PROVE  Messages(a \o b) = Messages(a) \o Messages(b)
<1>1. ReadsOn(a, b, NL, MessageOf)
  BY MessagesByLine, MappedJoins
<1>2. <<>> \o b = b /\ a \o b \in Seq(Tokens)
  BY ConcatEmptySeq, ConcatProperties
<1> QED  BY <1>1, <1>2, MessagesByLine DEF ReadsOn

\* One line gives its message.
LEMMA MessagesOfLine ==
    ASSUME NEW u \in Seq(Tokens), Unended(u, NL)
    PROVE  Messages(Append(u, NL)) = Message(u) /\ Split(Append(u, NL), NL).rest = <<>>
<1>1. NL \in Tokens
  BY DEF Tokens
<1>2. Split(u, NL) = [lines |-> <<>>, rest |-> u]
  BY AllRest
<1>3. Mapped(Append(u, NL), NL, MessageOf) = Mapped(u, NL, MessageOf) \o MessageOf[u]
  BY <1>1, <1>2, MessagesByLine DEF LineByLine
<1>4. Mapped(u, NL, MessageOf) = <<>>
  BY MessagesByLine DEF LineByLine
<1>5. MessageOf[u] = Message(u) /\ <<>> \o Message(u) = Message(u)
  BY MessageTyped, ConcatEmptySeq DEF MessageOf
<1>6. Append(u, NL) \in Seq(Tokens)
  BY <1>1, AppendProperties
<1>7. Split(Append(u, NL), NL).rest = <<>>
  BY <1>1, RestEnds
<1> QED  BY <1>3, <1>4, <1>5, <1>6, <1>7, MessagesByLine

\* An entry is a sequence of tokens, which ends with a newline.
LEMMA EntryTyped ==
    ASSUME NEW role \in Roles, NEW text \in Seq(Tokens)
    PROVE  /\ Entry(role, text) \in Seq(Tokens) /\ Len(Entry(role, text)) = Len(text) + 2
           /\ Entry(role, text)[1] = role /\ Entry(role, text)[Len(text) + 2] = NL
           /\ \A i \in 1..Len(text) : Entry(role, text)[i + 1] = text[i]
           /\ Len(text) \in Nat
<1> DEFINE n == Len(text)
<1>1. n \in Nat /\ <<role>> \in Seq(Tokens) /\ <<NL>> \in Seq(Tokens)
  BY LenProperties DEF Tokens, Roles
<1>2. Len(<<role>>) = 1 /\ <<role>>[1] = role /\ Len(<<NL>>) = 1 /\ <<NL>>[1] = NL
  OBVIOUS
<1> DEFINE a == <<role>> \o text
           b == a \o <<NL>>
<1>3. /\ a \in Seq(Tokens) /\ Len(a) = 1 + n
      /\ \A i \in 1..(1 + n) : a[i] = IF i <= 1 THEN <<role>>[i] ELSE text[i - 1]
  BY <1>1, <1>2, ConcatProperties
<1> HIDE DEF a
<1>4. /\ b \in Seq(Tokens) /\ Len(b) = (1 + n) + 1
      /\ \A i \in 1..((1 + n) + 1) : b[i] = IF i <= 1 + n THEN a[i] ELSE <<NL>>[i - (1 + n)]
  BY <1>1, <1>2, <1>3, ConcatProperties
<1> HIDE DEF b, n
<1>5. b[1] = role /\ b[n + 2] = NL
  BY <1>1, <1>2, <1>3, <1>4
<1>6. ASSUME NEW i \in 1..n PROVE b[i + 1] = text[i]
  <2>1. i + 1 \in 1..(1 + n) /\ i + 1 \in 1..((1 + n) + 1) /\ ~(i + 1 <= 1) /\ (i + 1) - 1 = i
    BY <1>1
  <2> QED  BY <1>3, <1>4, <2>1
<1>7. Len(b) = n + 2
  BY <1>1, <1>4
<1>8. Entry(role, text) = b
  BY DEF Entry, b, a
<1> QED  BY <1>1, <1>4, <1>5, <1>6, <1>7, <1>8 DEF n

\* The first line of a text ends before its first newline, and the others come behind that.
LEMMA FirstAndLater ==
    ASSUME NEW text \in Seq(Tokens)
    PROVE  /\ FirstLine(text) \in Seq(Tokens) /\ Later(text) \in Seq(Tokens)
           /\ Unended(FirstLine(text), NL)
           /\ \/ FirstLine(text) = text /\ Later(text) = <<>>
              \/ \E p \in 1..Len(text) :
                   /\ text[p] = NL /\ Len(FirstLine(text)) = p - 1
                   /\ \A i \in 1..(p - 1) : FirstLine(text)[i] = text[i]
                   /\ Len(Later(text)) = Len(text) - p
                   /\ \A i \in 1..(Len(text) - p) : Later(text)[i] = text[p + i]
<1> DEFINE n == Len(text)
           ends == {i \in 1..n : text[i] = NL}
<1>1. n \in Nat /\ \A i \in 1..n : text[i] \in Tokens
  BY LenProperties, ElementOfSeq
<1>2. CASE ends = {}
  <2>1. FirstLine(text) = text
    BY <1>2 DEF FirstLine
  <2>2. Later(text) = <<>>
    <3>1. n + 2 \in Int /\ n \in Int /\ n < n + 2
      BY <1>1
    <3>2. SubSeq(text, n + 2, n) = <<>>
      BY <3>1, SubSeqEmpty
    <3> QED  BY <2>1, <3>2 DEF Later
  <2>3. Unended(text, NL)
    BY <1>2 DEF Unended
  <2> QED  BY <2>1, <2>2, <2>3, EmptySeq
<1>3. CASE ends # {}
  <2> DEFINE p == CHOOSE i \in ends : \A j \in ends : i <= j
  <2>1. p \in ends /\ \A j \in ends : p <= j
    <3>1. ends \subseteq Nat
      OBVIOUS
    <3>2. \E i \in ends : \A j \in ends : i <= j
      BY <1>3, <3>1, LeastOne
    <3> QED  BY <3>2
  <2>2. FirstLine(text) = SubSeq(text, 1, p - 1)
    BY <1>3 DEF FirstLine
  <2> HIDE DEF p
  <2>3. p \in 1..n /\ text[p] = NL
    BY <2>1
  <2> HIDE DEF n
  <2>4. /\ 1 \in Int /\ p - 1 \in Int /\ p + 1 \in Int /\ n \in Int
        /\ \A i \in 1..(p - 1) : i \in 1..n /\ text[i] \in Tokens
        /\ \A i \in (p + 1)..n : i \in 1..n /\ text[i] \in Tokens
    BY <1>1, <2>3
  <2> DEFINE a == SubSeq(text, 1, p - 1)
             b == SubSeq(text, p + 1, n)
  <2>5. /\ a \in Seq(Tokens) /\ Len(a) = IF 1 <= p - 1 THEN (p - 1) - 1 + 1 ELSE 0
        /\ \A i \in 1..((p - 1) - 1 + 1) : a[i] = text[1 + i - 1]
    BY <2>4, SubSeqProperties
  <2>6. /\ b \in Seq(Tokens) /\ Len(b) = IF p + 1 <= n THEN n - (p + 1) + 1 ELSE 0
        /\ \A i \in 1..(n - (p + 1) + 1) : b[i] = text[(p + 1) + i - 1]
    BY <2>4, SubSeqProperties
  <2> HIDE DEF a, b
  <2>7. Len(a) = p - 1 /\ \A i \in 1..(p - 1) : a[i] = text[i]
    <3>1. \A i \in 1..(p - 1) : i \in 1..((p - 1) - 1 + 1) /\ 1 + i - 1 = i
      BY <2>3, <2>4
    <3> QED  BY <2>3, <2>4, <2>5, <3>1
  <2>8. Len(b) = n - p /\ \A i \in 1..(n - p) : b[i] = text[p + i]
    <3>1. \A i \in 1..(n - p) : i \in 1..(n - (p + 1) + 1) /\ (p + 1) + i - 1 = p + i
      BY <2>3, <2>4
    <3> QED  BY <2>3, <2>4, <2>6, <3>1
  <2>9. FirstLine(text) = a /\ Later(text) = b
    <3>1. FirstLine(text) = a
      BY <2>2 DEF a
    <3>2. Len(FirstLine(text)) + 2 = p + 1
      BY <2>3, <2>4, <2>7, <3>1
    <3> QED  BY <3>1, <3>2 DEF Later, b, n
  <2>10. Unended(a, NL)
    <3> SUFFICES ASSUME NEW i \in 1..(p - 1), text[i] = NL PROVE FALSE
      BY <2>7 DEF Unended
    <3>1. i \in ends /\ ~(p <= i)
      BY <2>3, <2>4 DEF n
    <3> QED  BY <2>1, <3>1
  <2> QED  BY <2>3, <2>5, <2>6, <2>7, <2>8, <2>9, <2>10 DEF n
<1> QED  BY <1>2, <1>3

\* An entry reads as the message of its first line, and as its other lines.
LEMMA EntryRead ==
    ASSUME NEW role \in Roles, NEW text \in Seq(Tokens)
    PROVE  Messages(Entry(role, text)) =
             Message(<<role>> \o FirstLine(text)) \o Messages(Later(text) \o <<NL>>)
<1> DEFINE f == FirstLine(text)
           l == Later(text)
           u == <<role>> \o f
           a == Append(u, NL)
           b == l \o <<NL>>
           n == Len(text)
<1>1. f \in Seq(Tokens) /\ l \in Seq(Tokens) /\ Unended(f, NL)
  BY FirstAndLater
<1>2. /\ NL \in Tokens /\ role \in Tokens /\ role # NL
      /\ <<role>> \in Seq(Tokens) /\ <<NL>> \in Seq(Tokens)
  BY LogConstants DEF Tokens, Roles
<1>3. /\ u \in Seq(Tokens) /\ Len(u) = Len(<<role>>) + Len(f)
      /\ \A i \in 1..(Len(<<role>>) + Len(f)) :
           u[i] = IF i <= Len(<<role>>) THEN <<role>>[i] ELSE f[i - Len(<<role>>)]
  BY <1>1, <1>2, ConcatProperties
<1>4. /\ Len(u) = 1 + Len(f) /\ Len(f) \in Nat /\ u[1] = role
      /\ \A i \in 1..Len(f) : u[1 + i] = f[i]
  <2> HIDE DEF u, f
  <2>1. Len(<<role>>) = 1 /\ <<role>>[1] = role /\ Len(f) \in Nat
    BY <1>1, LenProperties
  <2>2. \A i \in 1..Len(f) : 1 + i \in 1..(1 + Len(f)) /\ ~(1 + i <= 1) /\ (1 + i) - 1 = i
    BY <2>1
  <2> QED  BY <1>3, <2>1, <2>2
<1> HIDE DEF u, f, l
<1>5. Unended(u, NL)
  <2> SUFFICES ASSUME NEW i \in 1..Len(u) PROVE u[i] # NL
    BY DEF Unended
  <2>1. CASE i = 1
    BY <1>2, <1>4, <2>1
  <2>2. CASE i # 1
    <3>1. i - 1 \in 1..Len(f) /\ 1 + (i - 1) = i
      BY <1>4, <2>2
    <3> QED  BY <1>1, <1>4, <3>1 DEF Unended
  <2> QED  BY <2>1, <2>2
<1>6. /\ a \in Seq(Tokens) /\ Len(a) = Len(u) + 1 /\ a[Len(u) + 1] = NL
      /\ \A i \in 1..Len(u) : a[i] = u[i]
  BY <1>2, <1>3, AppendProperties
<1>7. /\ b \in Seq(Tokens) /\ Len(b) = Len(l) + 1 /\ b[Len(l) + 1] = NL
      /\ \A i \in 1..Len(l) : b[i] = l[i]
  <2>1. b = Append(l, NL)
    BY <1>1, <1>2, AppendIsConcat
  <2> QED  BY <1>1, <1>2, <2>1, AppendProperties
<1>8. Messages(a) = Message(u) /\ Split(a, NL).rest = <<>>
  BY <1>3, <1>5, MessagesOfLine
<1>9. CASE f = text /\ l = <<>>
  <2>1. Entry(role, text) = a
    BY <1>2, <1>3, <1>9, AppendIsConcat DEF Entry, u
  <2>2. Messages(b) = <<>>
    <3>1. b = Append(<<>>, NL)
      BY <1>2, <1>9, AppendIsConcat, EmptySeq
    <3>2. Unended(<<>>, NL) /\ <<>> \in Seq(Tokens) /\ Message(<<>>) = <<>>
      BY EmptySeq DEF Unended, Message
    <3> QED  BY <3>1, <3>2, MessagesOfLine
  <2>3. Message(u) \o <<>> = Message(u)
    BY <1>3, MessageTyped, ConcatEmptySeq
  <2>4. Messages(Entry(role, text)) = Message(u) \o Messages(b)
    BY <1>8, <2>1, <2>2, <2>3
  <2> QED  BY <2>4 DEF u, f, l
<1>10. ASSUME NEW p \in 1..n,
              text[p] = NL, Len(f) = p - 1, \A i \in 1..(p - 1) : f[i] = text[i],
              Len(l) = n - p, \A i \in 1..(n - p) : l[i] = text[p + i]
       PROVE  Messages(Entry(role, text)) =
                Message(<<role>> \o FirstLine(text)) \o Messages(Later(text) \o <<NL>>)
  <2> DEFINE e == Entry(role, text)
             s == a \o b
  <2>1. /\ e \in Seq(Tokens) /\ Len(e) = n + 2 /\ e[1] = role /\ e[n + 2] = NL
        /\ \A i \in 1..n : e[i + 1] = text[i]
        /\ n \in Nat
    BY EntryTyped
  <2>2. /\ s \in Seq(Tokens) /\ Len(s) = Len(a) + Len(b)
        /\ \A i \in 1..(Len(a) + Len(b)) : s[i] = IF i <= Len(a) THEN a[i] ELSE b[i - Len(a)]
    BY <1>6, <1>7, ConcatProperties
  <2> HIDE DEF e, s, a, b, n
  <2>3. Len(a) = p + 1 /\ Len(b) = (n - p) + 1 /\ Len(s) = n + 2 /\ p \in Nat
    <3>1. p \in Nat /\ n \in Nat
      BY <2>1
    <3>2. Len(a) = Len(u) + 1 /\ Len(u) = 1 + Len(f) /\ Len(f) = p - 1
      BY <1>4, <1>6, <1>10
    <3>3. Len(b) = Len(l) + 1 /\ Len(l) = n - p
      BY <1>7, <1>10
    <3>4. Len(s) = Len(a) + Len(b)
      BY <2>2
    <3> QED  BY <3>1, <3>2, <3>3, <3>4
  <2>4. ASSUME NEW i \in 1..(n + 2) PROVE e[i] = s[i]
    <3>1. i \in Nat /\ s[i] = IF i <= p + 1 THEN a[i] ELSE b[i - (p + 1)]
      BY <2>1, <2>2, <2>3
    <3>2. CASE i = 1
      BY <1>4, <1>6, <2>1, <2>3, <3>1, <3>2
    <3>3. CASE i # 1 /\ i < p + 1
      <4>1. i - 1 \in 1..(p - 1) /\ i \in 1..Len(u) /\ i - 1 \in 1..n /\ (i - 1) + 1 = i
        BY <1>4, <1>10, <2>1, <2>3, <3>1, <3>3
      <4>2. a[i] = u[i] /\ u[1 + (i - 1)] = f[i - 1] /\ f[i - 1] = text[i - 1]
        BY <1>4, <1>6, <1>10, <4>1
      <4>3. 1 + (i - 1) = i /\ i <= p + 1 /\ e[i] = text[i - 1]
        BY <2>1, <2>3, <3>1, <3>3, <4>1
      <4> QED  BY <3>1, <4>2, <4>3
    <3>4. CASE i = p + 1
      <4>1. Len(u) + 1 = i /\ i <= p + 1
        BY <1>4, <1>10, <2>3, <3>4
      <4> QED  BY <1>6, <1>10, <2>1, <3>1, <3>4, <4>1
    <3>5. CASE i > p + 1 /\ i < n + 2
      <4>1. i - (p + 1) \in 1..(n - p) /\ ~(i <= p + 1) /\ i - 1 \in 1..n /\ (i - 1) + 1 = i
            /\ p + (i - (p + 1)) = i - 1
        BY <2>1, <2>3, <3>1, <3>5
      <4>2. b[i - (p + 1)] = l[i - (p + 1)] /\ l[i - (p + 1)] = text[p + (i - (p + 1))]
        BY <1>7, <1>10, <4>1
      <4>3. e[(i - 1) + 1] = text[i - 1]
        BY <2>1, <4>1
      <4> QED  BY <3>1, <4>1, <4>2, <4>3
    <3>6. CASE i = n + 2
      <4>1. ~(i <= p + 1) /\ i - (p + 1) = Len(l) + 1
        BY <1>10, <2>1, <2>3, <3>6
      <4> QED  BY <1>7, <2>1, <3>1, <3>6, <4>1
    <3>7. i = 1 \/ (i # 1 /\ i < p + 1) \/ i = p + 1 \/ (i > p + 1 /\ i < n + 2) \/ i = n + 2
      BY <2>1, <2>3, <3>1
    <3> QED  BY <3>2, <3>3, <3>4, <3>5, <3>6, <3>7
  <2>5. e = s
    BY <2>1, <2>2, <2>3, <2>4, SeqEqual
  <2>6. Messages(s) = Messages(a) \o Messages(b)
    BY <1>6, <1>7, <1>8, MessagesBehind DEF s
  <2> QED  BY <1>8, <2>5, <2>6 DEF e, u, f, l, b
<1>11. \/ f = text /\ l = <<>>
       \/ \E p \in 1..n :
            /\ text[p] = NL /\ Len(f) = p - 1
            /\ \A i \in 1..(p - 1) : f[i] = text[i]
            /\ Len(l) = n - p
            /\ \A i \in 1..(n - p) : l[i] = text[p + i]
  BY FirstAndLater DEF f, l
<1> QED  BY <1>9, <1>10, <1>11

-----------------------------------------------------------------------------
(* The stream.                                                              *)

\* A text is opened, closed, and its line ends.
Goes(x, y) ==
    /\ x.part = "open" => y = Closes
    /\ x = Closes => y = EndOfLine
    /\ x = EndOfLine => y.part = "open"

Formed(s) ==
    /\ s # <<>> => s[1].part = "open"
    /\ \A i \in 1..(Len(s) - 1) : Goes(s[i], s[i + 1])

\* The parts of a stream are parts.
LEMMA PartsTyped ==
    /\ Closes \in Parts /\ EndOfLine \in Parts /\ Closes # EndOfLine
    /\ Closes.part = "close" /\ EndOfLine.part = "newline"
    /\ \A text \in Seq(Tokens) : Opens(text) \in Parts /\ Opens(text).part = "open"
    /\ \A text \in Seq(Tokens) : Opens(text).text = text
  BY EmptySeq DEF Parts, Closes, EndOfLine, Opens

\* One part more is formed if it goes behind the last.
LEMMA FormedGrows ==
    ASSUME NEW s \in Seq(Parts), NEW x \in Parts
    PROVE  Formed(Append(s, x)) <=> /\ Formed(s)
                                    /\ IF s = <<>> THEN x.part = "open" ELSE Goes(s[Len(s)], x)
<1> DEFINE n == Len(s)
           t == Append(s, x)
<1>1. /\ n \in Nat /\ t \in Seq(Parts) /\ t # <<>> /\ Len(t) = n + 1 /\ t[n + 1] = x
      /\ \A i \in 1..n : t[i] = s[i]
  BY AppendProperties, LenProperties
<1>2. s = <<>> <=> n = 0
  BY EmptySeq
<1> HIDE DEF n, t
<1>3. CASE n = 0
  <2>1. Formed(s)
    BY <1>2, <1>3 DEF Formed, n
  <2>2. Formed(t) <=> x.part = "open"
    BY <1>1, <1>3 DEF Formed
  <2> QED  BY <1>2, <1>3, <2>1, <2>2 DEF t
<1>4. CASE n # 0
  <2>1. t[1] = s[1] /\ s # <<>> /\ t[n] = s[n]
    BY <1>1, <1>2, <1>4
  <2>2. ASSUME Formed(t) PROVE Formed(s) /\ Goes(s[n], x)
    <3>1. Goes(t[n], t[n + 1])
      <4>1. n \in 1..(Len(t) - 1)
        BY <1>1, <1>4
      <4> QED  BY <2>2, <4>1 DEF Formed
    <3>2. ASSUME NEW i \in 1..(n - 1) PROVE Goes(s[i], s[i + 1])
      <4>1. i \in 1..(Len(t) - 1) /\ i \in 1..n /\ i + 1 \in 1..n
        BY <1>1
      <4>2. Goes(t[i], t[i + 1])
        BY <2>2, <4>1 DEF Formed
      <4> QED  BY <1>1, <4>1, <4>2
    <3> QED  BY <1>1, <2>1, <2>2, <3>1, <3>2 DEF Formed, n
  <2>3. ASSUME Formed(s), Goes(s[n], x) PROVE Formed(t)
    <3>1. ASSUME NEW i \in 1..(Len(t) - 1) PROVE Goes(t[i], t[i + 1])
      <4>1. CASE i = n
        BY <1>1, <2>1, <2>3, <4>1
      <4>2. CASE i # n
        <5>1. i \in 1..(n - 1) /\ i \in 1..n /\ i + 1 \in 1..n
          BY <1>1, <4>2
        <5>2. Goes(s[i], s[i + 1])
          BY <2>3, <5>1 DEF Formed, n
        <5> QED  BY <1>1, <5>1, <5>2
      <4> QED  BY <4>1, <4>2
    <3> QED  BY <2>1, <2>3, <3>1 DEF Formed
  <2> QED  BY <2>1, <2>2, <2>3 DEF t, n
<1> QED  BY <1>3, <1>4

\* One element behind another.
LEMMA TwoInARow == \A S : \A x, y \in S : Append(<<x>>, y) = <<x, y>>
<1> SUFFICES ASSUME NEW S, NEW x \in S, NEW y \in S PROVE Append(<<x>>, y) = <<x, y>>
  OBVIOUS
<1> DEFINE a == Append(<<x>>, y)
           b == <<x, y>>
<1>1. <<x>> \in Seq(S) /\ Len(<<x>>) = 1 /\ <<x>>[1] = x
  OBVIOUS
<1>2. a \in Seq(S) /\ Len(a) = 2 /\ a[1] = x /\ a[2] = y
  BY <1>1, AppendProperties
<1>3. b \in Seq(S) /\ Len(b) = 2 /\ b[1] = x /\ b[2] = y
  OBVIOUS
<1> HIDE DEF a, b
<1>4. \A i \in 1..Len(a) : a[i] = b[i]
  <2> SUFFICES ASSUME NEW i \in 1..Len(a) PROVE a[i] = b[i]
    OBVIOUS
  <2>1. i = 1 \/ i = 2
    BY <1>2
  <2> QED  BY <1>2, <1>3, <2>1
<1>5. a = b
  BY <1>2, <1>3, <1>4, SeqEqual
<1> QED  BY <1>5 DEF a, b

\* And behind two.
LEMMA ThreeInARow == \A S : \A x, y, z \in S : Append(<<x, y>>, z) = <<x, y, z>>
<1> SUFFICES ASSUME NEW S, NEW x \in S, NEW y \in S, NEW z \in S
             PROVE  Append(<<x, y>>, z) = <<x, y, z>>
  OBVIOUS
<1> DEFINE a == Append(<<x, y>>, z)
           b == <<x, y, z>>
<1>1. <<x, y>> \in Seq(S) /\ Len(<<x, y>>) = 2 /\ <<x, y>>[1] = x /\ <<x, y>>[2] = y
  OBVIOUS
<1>2. a \in Seq(S) /\ Len(a) = 3 /\ a[1] = x /\ a[2] = y /\ a[3] = z
  BY <1>1, AppendProperties
<1>3. b \in Seq(S) /\ Len(b) = 3 /\ b[1] = x /\ b[2] = y /\ b[3] = z
  OBVIOUS
<1> HIDE DEF a, b
<1>4. \A i \in 1..Len(a) : a[i] = b[i]
  <2> SUFFICES ASSUME NEW i \in 1..Len(a) PROVE a[i] = b[i]
    OBVIOUS
  <2>1. i = 1 \/ i = 2 \/ i = 3
    BY <1>2
  <2> QED  BY <1>2, <1>3, <2>1
<1>5. a = b
  BY <1>2, <1>3, <1>4, SeqEqual
<1> QED  BY <1>5 DEF a, b

\* What is behind the last complete line.
Tip(s) ==
    LET n == Len(s)
        rest == Lines(s).rest
    IN  \/ (s = <<>> \/ s[n] = EndOfLine) /\ rest = <<>>
        \/ s # <<>> /\ s[n].part = "open" /\ rest = <<s[n]>>
        \/ /\ n > 1 /\ s[n] = Closes /\ s[n - 1] \in Parts /\ s[n - 1].part = "open"
           /\ rest = <<s[n - 1], Closes>>

\* The texts that are closed are those of the complete lines and that of a rest which lacks
\* no more than its newline.
LEMMA StreamRead ==
    \A s \in Seq(Parts) :
      Formed(s) => Tip(s) /\ TextsOf(s) = Lines(s).texts \o Parsed(Lines(s).rest)
<1> DEFINE Good(s) == Tip(s) /\ TextsOf(s) = Lines(s).texts \o Parsed(Lines(s).rest)
           M == {s \in Seq(Parts) : Formed(s) => Good(s)}
<1>1. <<>> \in M
  <2>1. <<>> \in Seq(Parts) /\ Unended(<<>>, EndOfLine)
    BY EmptySeq DEF Unended
  <2>2. Lines(<<>>).texts = <<>> /\ Lines(<<>>).rest = <<>>
    <3>1. Split(<<>>, EndOfLine) = Nothing
      BY SplitGrows
    <3>2. Mapped(<<>>, EndOfLine, ParsedOf) = <<>>
      BY <2>1, LinesByLine DEF LineByLine
    <3>3. Nothing.rest = <<>>
      BY DEF Nothing
    <3>4. /\ Lines(<<>>).texts = Mapped(<<>>, EndOfLine, ParsedOf)
          /\ Lines(<<>>).rest = Split(<<>>, EndOfLine).rest
      BY <2>1, LinesByLine
    <3> QED  BY <3>1, <3>2, <3>3, <3>4, Zenon
  <2>3. Parsed(<<>>) = <<>> /\ <<>> \o <<>> = <<>>
    BY <2>1, ConcatEmptySeq DEF Parsed
  <2> QED  BY <2>1, <2>2, <2>3, TextsGrow DEF Tip
<1>2. ASSUME NEW s \in M, NEW x \in Parts PROVE Append(s, x) \in M
  <2> DEFINE t == Append(s, x)
             n == Len(s)
             r == Lines(s).rest
             l == Lines(s).texts
  <2> SUFFICES ASSUME Formed(t) PROVE Good(t)
    BY AppendProperties
  <2>1. s \in Seq(Parts) /\ Formed(s) /\ IF s = <<>> THEN x.part = "open" ELSE Goes(s[n], x)
    BY FormedGrows
  <2>2. Tip(s) /\ TextsOf(s) = l \o Parsed(r)
    BY <2>1
  <2>3. /\ n \in Nat /\ t \in Seq(Parts) /\ t # <<>> /\ Len(t) = n + 1 /\ t[n + 1] = x
        /\ \A i \in 1..n : t[i] = s[i]
    BY AppendProperties, LenProperties
  <2>4. r \in Seq(Parts) /\ l \in Seq(Seq(Tokens)) /\ Parsed(r) \in Seq(Seq(Tokens))
    <3>1. r = Split(s, EndOfLine).rest /\ Split(s, EndOfLine) \in Pieces(Parts)
      BY LinesByLine, SplitGrows
    <3>2. r \in Seq(Parts)
      BY <3>1 DEF Pieces
    <3>3. l \in Seq(Seq(Tokens))
      BY LinesByLine DEF LineByLine
    <3> QED  BY <3>2, <3>3, ParsedTyped
  <2>5. /\ Lines(t).rest = IF x = EndOfLine THEN <<>> ELSE Append(r, x)
        /\ Lines(t).texts = IF x = EndOfLine THEN l \o Parsed(r) ELSE l
    <3>1. Split(t, EndOfLine) = Taken(Split(s, EndOfLine), x, EndOfLine)
      BY SplitGrows
    <3>2. r = Split(s, EndOfLine).rest /\ Lines(t).rest = Split(t, EndOfLine).rest
      BY <2>3, LinesByLine
    <3>3. /\ Lines(t).texts = Mapped(t, EndOfLine, ParsedOf)
          /\ l = Mapped(s, EndOfLine, ParsedOf)
      BY <2>3, LinesByLine
    <3>4. Mapped(t, EndOfLine, ParsedOf) =
            IF x = EndOfLine
            THEN Mapped(s, EndOfLine, ParsedOf) \o ParsedOf[Split(s, EndOfLine).rest]
            ELSE Mapped(s, EndOfLine, ParsedOf)
      BY LinesByLine DEF LineByLine
    <3>5. ParsedOf[r] = Parsed(r)
      BY <2>4 DEF ParsedOf
    <3>6. Lines(t).rest = IF x = EndOfLine THEN <<>> ELSE Append(r, x)
      BY <3>1, <3>2 DEF Taken
    <3> HIDE DEF r, l, t
    <3>7. Lines(t).texts = IF x = EndOfLine THEN l \o Parsed(r) ELSE l
      BY <3>2, <3>3, <3>4, <3>5
    <3> QED  BY <3>6, <3>7
  <2>6. s \in Streams /\ t \in Streams
    <3>1. t[1].part = "open" /\ (s = <<>> \/ s[1].part = "open")
      BY <2>1, <2>3 DEF Formed
    <3> QED  BY <2>1, <2>3, <3>1, PartsTyped DEF Streams
  <2>7. TextsOf(t) = IF x = Closes THEN Append(TextsOf(s), s[n].text) ELSE TextsOf(s)
    BY <2>6, TextsGrow
  <2> HIDE DEF t, n, r, l
  <2>8. CASE (s = <<>> \/ s[n] = EndOfLine) /\ r = <<>>
    <3>1. x.part = "open" /\ x # EndOfLine /\ x # Closes
      BY <2>1, <2>8, PartsTyped DEF Goes
    <3>2. Lines(t).rest = <<x>> /\ Lines(t).texts = l /\ TextsOf(t) = l \o Parsed(<<>>)
      BY <2>2, <2>5, <2>7, <2>8, <3>1
    <3>3. Parsed(<<>>) = <<>> /\ Parsed(<<x>>) = <<>>
      BY DEF Parsed
    <3> QED  BY <2>3, <3>1, <3>2, <3>3 DEF Tip
  <2>9. CASE s # <<>> /\ s[n].part = "open" /\ r = <<s[n]>>
    <3>1. x = Closes /\ x # EndOfLine
      BY <2>1, <2>9, PartsTyped DEF Goes
    <3>2. n \in 1..n /\ s[n] \in Parts /\ t[n] = s[n] /\ n > 0
      BY <2>1, <2>3, <2>9, EmptySeq DEF n
    <3>3. Lines(t).rest = <<s[n], Closes>> /\ Lines(t).texts = l
      <4>1. Append(<<s[n]>>, Closes) = <<s[n], Closes>>
        BY <3>2, PartsTyped, TwoInARow
      <4>2. Lines(t).rest = Append(r, Closes) /\ Lines(t).texts = l
        BY <2>5, <3>1
      <4> QED  BY <2>9, <4>1, <4>2
    <3>4. Parsed(r) = <<>> /\ Parsed(<<s[n], Closes>>) = <<s[n].text>>
      BY <2>9 DEF Parsed
    <3>5. TextsOf(s) = l
      BY <2>2, <2>4, <3>4, ConcatEmptySeq
    <3>6. s[n].text \in Seq(Tokens)
      BY <3>2 DEF Parts
    <3>7. Append(l, s[n].text) = l \o <<s[n].text>>
      BY <2>4, <3>6, AppendIsConcat
    <3>8. TextsOf(t) = Lines(t).texts \o Parsed(Lines(t).rest)
      BY <2>7, <3>1, <3>3, <3>4, <3>5, <3>7
    <3>9. Tip(t)
      <4>1. Len(t) > 1 /\ t[Len(t)] = Closes /\ Len(t) - 1 = n
        BY <2>3, <3>1, <3>2
      <4> QED  BY <2>9, <3>2, <3>3, <4>1 DEF Tip
    <3> QED  BY <3>8, <3>9
  <2>10. CASE /\ n > 1 /\ s[n] = Closes /\ s[n - 1] \in Parts /\ s[n - 1].part = "open"
              /\ r = <<s[n - 1], Closes>>
    <3>1. x = EndOfLine /\ x # Closes
      BY <2>1, <2>10, PartsTyped, EmptySeq DEF Goes, n
    <3>2. Lines(t).rest = <<>> /\ Lines(t).texts = l \o Parsed(r) /\ TextsOf(t) = l \o Parsed(r)
      BY <2>2, <2>5, <2>7, <3>1
    <3>3. Parsed(<<>>) = <<>> /\ l \o Parsed(r) \in Seq(Seq(Tokens))
      BY <2>4, ConcatProperties DEF Parsed
    <3>4. TextsOf(t) = Lines(t).texts \o Parsed(Lines(t).rest)
      BY <3>2, <3>3, ConcatEmptySeq
    <3>5. t[Len(t)] = EndOfLine
      BY <2>3, <3>1
    <3> QED  BY <3>2, <3>4, <3>5 DEF Tip
  <2> QED  BY <2>2, <2>8, <2>9, <2>10 DEF Tip, n, r
<1>3. M = Seq(Parts)
  <2> HIDE DEF M
  <2>1. M \subseteq Seq(Parts)
    BY DEF M
  <2> QED  BY <1>1, <1>2, <2>1, EverySequence
<1> QED  BY <1>3

\* What was added last is at the end.
LEMMA LastOfAppend ==
    \A S : \A s \in Seq(S), x \in S :
      /\ Append(s, x) \in Seq(S) /\ Append(s, x) # <<>>
      /\ Append(s, x)[Len(Append(s, x))] = x
  BY AppendProperties, LenProperties

\* A reply is streamed line by line.
LineOf == [text \in Seq(Tokens) |-> <<Opens(text), Closes, EndOfLine>>]

\* So each of its texts is opened, closed and followed by the end of its line.
LEMMA StreamIsFormed ==
    \A reply \in Seq(Seq(Tokens)) : Stream(reply) \in Seq(Parts) /\ Formed(Stream(reply))
<1> DEFINE S(r) == FlattenSeq(Image(r, LineOf))
           Done(s) == s \in Seq(Parts) /\ Formed(s) /\ (s = <<>> \/ s[Len(s)] = EndOfLine)
           M == {r \in Seq(Seq(Tokens)) : Done(S(r))}
<1>1. LineOf \in [Seq(Tokens) -> Seq(Parts)]
  <2>1. ASSUME NEW t \in Seq(Tokens) PROVE <<Opens(t), Closes, EndOfLine>> \in Seq(Parts)
    <3>1. Opens(t) \in Parts /\ Closes \in Parts /\ EndOfLine \in Parts
      BY PartsTyped
    <3> QED  BY <3>1
  <2> QED  BY <2>1 DEF LineOf
<1>2. /\ Image(<<>>, LineOf) = <<>>
      /\ \A l \in Seq(Seq(Tokens)) : Image(l, LineOf) \in Seq(Seq(Parts))
      /\ \A l \in Seq(Seq(Tokens)), t \in Seq(Tokens) :
           Image(Append(l, t), LineOf) = Append(Image(l, LineOf), LineOf[t])
  BY <1>1, ImageGrows
<1>3. <<>> \in M
  <2>1. S(<<>>) = <<>>
    BY <1>2, FlattenGrows
  <2>2. Formed(<<>>) /\ <<>> \in Seq(Parts)
    BY EmptySeq DEF Formed
  <2>3. <<>> \in Seq(Seq(Tokens))
    BY EmptySeq
  <2> HIDE DEF S
  <2> QED  BY <2>1, <2>2, <2>3
<1>4. ASSUME NEW r \in M, NEW t \in Seq(Tokens) PROVE Append(r, t) \in M
  <2> DEFINE s == S(r)
             o == Opens(t)
             a == Append(s, o)
             b == Append(a, Closes)
             c == Append(b, EndOfLine)
  <2>1. s \in Seq(Parts) /\ Formed(s) /\ (s = <<>> \/ s[Len(s)] = EndOfLine)
    OBVIOUS
  <2>2. S(Append(r, t)) = s \o LineOf[t]
    BY <1>1, <1>2, FlattenGrows
  <2> HIDE DEF s
  <2>3. o \in Parts /\ Closes \in Parts /\ EndOfLine \in Parts /\ o.part = "open"
    BY PartsTyped
  <2> HIDE DEF o
  <2>4. a \in Seq(Parts) /\ a # <<>> /\ a[Len(a)] = o
    BY <2>1, <2>3, LastOfAppend
  <2>5. Formed(a)
    <3>1. IF s = <<>> THEN o.part = "open" ELSE Goes(s[Len(s)], o)
      BY <2>1, <2>3, PartsTyped DEF Goes
    <3> QED  BY <2>1, <2>3, <3>1, FormedGrows
  <2> HIDE DEF a
  <2>6. b \in Seq(Parts) /\ b # <<>> /\ b[Len(b)] = Closes
    BY <2>3, <2>4, LastOfAppend
  <2>7. Formed(b)
    <3>1. Goes(a[Len(a)], Closes)
      BY <2>3, <2>4, PartsTyped DEF Goes
    <3> QED  BY <2>3, <2>4, <2>5, <3>1, FormedGrows
  <2> HIDE DEF b
  <2>8. c \in Seq(Parts) /\ c # <<>> /\ c[Len(c)] = EndOfLine
    BY <2>3, <2>6, LastOfAppend
  <2>9. Formed(c)
    <3>1. Goes(b[Len(b)], EndOfLine)
      BY <2>3, <2>6, PartsTyped DEF Goes
    <3> QED  BY <2>3, <2>6, <2>7, <3>1, FormedGrows
  <2> HIDE DEF c
  <2>10. s \o LineOf[t] = c
    <3>1. /\ <<o>> \in Seq(Parts) /\ <<o, Closes>> \in Seq(Parts)
          /\ <<o, Closes>> = Append(<<o>>, Closes)
      BY <2>3, TwoInARow
    <3>2. <<o, Closes, EndOfLine>> = Append(<<o, Closes>>, EndOfLine)
      BY <2>3, ThreeInARow
    <3>3. s \o <<o>> = a
      BY <2>1, <2>3, AppendIsConcat DEF a
    <3>4. s \o <<o, Closes>> = b
      BY <2>1, <2>3, <3>1, <3>3, JoinGrows DEF b
    <3>5. s \o <<o, Closes, EndOfLine>> = c
      <4>1. s \o Append(<<o, Closes>>, EndOfLine) = Append(s \o <<o, Closes>>, EndOfLine)
        BY <2>1, <2>3, <3>1, JoinGrows
      <4> QED  BY <3>2, <3>4, <4>1, Zenon DEF c
    <3> QED  BY <3>5 DEF LineOf, o
  <2>11. Done(S(Append(r, t)))
    BY <2>2, <2>8, <2>9, <2>10
  <2> HIDE DEF S, Done
  <2> QED  BY <2>11, AppendProperties
<1>5. M = Seq(Seq(Tokens))
  <2> HIDE DEF M
  <2>1. M \subseteq Seq(Seq(Tokens))
    BY DEF M
  <2> QED  BY <1>3, <1>4, <2>1, EverySequence
<1>6. ASSUME NEW r \in Seq(Seq(Tokens)) PROVE Stream(r) = S(r)
  <2>1. \A i \in 1..Len(r) : LineOf[r[i]] = <<Opens(r[i]), Closes, EndOfLine>>
    BY DEF LineOf
  <2>2. [i \in 1..Len(r) |-> LineOf[r[i]]] =
          [i \in 1..Len(r) |-> <<Opens(r[i]), Closes, EndOfLine>>]
    BY <2>1, Zenon
  <2> QED  BY <2>2, Zenon DEF Stream, Image
<1> QED  BY <1>5, <1>6

\* What has come of a stream is formed.
LEMMA FormedFront ==
    ASSUME NEW a \in Seq(Parts), NEW b \in Seq(Parts), Formed(a \o b) PROVE Formed(a)
<1>1. /\ Len(a) \in Nat /\ Len(b) \in Nat /\ Len(a \o b) = Len(a) + Len(b)
      /\ \A i \in 1..(Len(a) + Len(b)) : (a \o b)[i] = IF i <= Len(a) THEN a[i] ELSE b[i - Len(a)]
  BY ConcatProperties, LenProperties
<1> DEFINE s == a \o b
           n == Len(a)
<1>2. Formed(s)
  OBVIOUS
<1>3. Len(s) = n + Len(b) /\ \A i \in 1..n : s[i] = a[i]
  BY <1>1
<1>4. a # <<>> => n > 0 /\ s # <<>>
  BY <1>1, <1>3, EmptySeq
<1> HIDE DEF s
<1>5. ASSUME NEW i \in 1..(n - 1) PROVE Goes(a[i], a[i + 1])
  <2>1. i \in 1..n /\ i + 1 \in 1..n /\ i \in 1..(Len(s) - 1)
    BY <1>1, <1>3
  <2>2. Goes(s[i], s[i + 1])
    BY <1>2, <2>1 DEF Formed
  <2> QED  BY <1>3, <2>1, <2>2
<1>6. a # <<>> => a[1].part = "open"
  <2> SUFFICES ASSUME a # <<>> PROVE a[1].part = "open"
    OBVIOUS
  <2>1. 1 \in 1..n
    BY <1>1, <1>4
  <2> QED  BY <1>2, <1>3, <1>4, <2>1 DEF Formed
<1> QED  BY <1>5, <1>6 DEF Formed

\* A piece moves from what is to come to what has come.
LEMMA PieceMoves ==
    ASSUME NEW a \in Seq(Parts), NEW w \in Seq(Parts), NEW n \in 1..Len(w)
    PROVE  /\ SubSeq(w, 1, n) \in Seq(Parts) /\ SubSeq(w, n + 1, Len(w)) \in Seq(Parts)
           /\ (a \o SubSeq(w, 1, n)) \o SubSeq(w, n + 1, Len(w)) = a \o w
<1>1. Len(w) \in Nat /\ \A i \in 1..Len(w) : w[i] \in Parts
  BY LenProperties, ElementOfSeq
<1> DEFINE b == SubSeq(w, 1, n)
           c == SubSeq(w, n + 1, Len(w))
<1>2. b \in Seq(Parts)
  <2>1. 1 \in Int /\ n \in Int /\ \A i \in 1..n : w[i] \in Parts
    BY <1>1
  <2> QED  BY <2>1, SubSeqProperties
<1>3. c \in Seq(Parts)
  <2>1. n + 1 \in Int /\ Len(w) \in Int /\ \A i \in (n + 1)..Len(w) : w[i] \in Parts
    BY <1>1
  <2> QED  BY <2>1, SubSeqProperties
<1>4. b \o c = w
  <2>1. 1 \in 1..(Len(w) + 1) /\ n \in (1 - 1)..Len(w) /\ Len(w) \in n..Len(w)
    BY <1>1
  <2>2. SubSeq(w, 1, n) \o SubSeq(w, n + 1, Len(w)) = SubSeq(w, 1, Len(w))
    BY <2>1, ConcatAdjacentSubSeq
  <2> QED  BY <2>2, SubSeqFull
<1> HIDE DEF b, c
<1>5. (a \o b) \o c = a \o (b \o c)
  <2>1. Regrouped(a, b, c)
    BY <1>2, <1>3, Regrouping
  <2> QED  BY <2>1 DEF Regrouped
<1> QED  BY <1>2, <1>3, <1>4, <1>5 DEF b, c

\* stream_callback reads on where it stopped.
LEMMA LinesJoin ==
    ASSUME NEW a \in Seq(Parts), NEW b \in Seq(Parts)
    PROVE  /\ Lines(a \o b).rest = Lines(Lines(a).rest \o b).rest
           /\ Lines(a \o b).texts = Lines(a).texts \o Lines(Lines(a).rest \o b).texts
           /\ Lines(a).rest \in Seq(Parts) /\ Lines(a).texts \in Seq(Seq(Tokens))
<1> DEFINE r == Lines(a).rest
<1>1. r = Split(a, EndOfLine).rest /\ r \in Seq(Parts)
  BY LinesByLine, SplitGrows DEF Pieces
<1>2. a \o b \in Seq(Parts) /\ r \o b \in Seq(Parts)
  BY <1>1, ConcatProperties
<1>3. Split(a \o b, EndOfLine).rest = Split(r \o b, EndOfLine).rest
  BY <1>1, RestJoins
<1>4. ReadsOn(a, b, EndOfLine, ParsedOf)
  BY LinesByLine, MappedJoins
<1>5. Lines(a).texts \in Seq(Seq(Tokens))
  BY LinesByLine DEF LineByLine
<1> HIDE DEF r
<1>6. Lines(a \o b).rest = Lines(r \o b).rest
  BY <1>2, <1>3, LinesByLine
<1>7. Lines(a \o b).texts = Lines(a).texts \o Lines(r \o b).texts
  BY <1>1, <1>2, <1>4, LinesByLine DEF ReadsOn
<1> QED  BY <1>1, <1>5, <1>6, <1>7 DEF r

\* Joining sequences of texts.
LEMMA FlattenJoins ==
    ASSUME NEW T, NEW a \in Seq(Seq(T))
    PROVE  \A b \in Seq(Seq(T)) : FlattenSeq(a \o b) = FlattenSeq(a) \o FlattenSeq(b)
<1> DEFINE F(s) == FlattenSeq(s)
           M == {b \in Seq(Seq(T)) : F(a \o b) = F(a) \o F(b)}
<1>1. /\ F(<<>>) = <<>> /\ \A s \in Seq(Seq(T)) : F(s) \in Seq(T)
      /\ \A s \in Seq(Seq(T)), x \in Seq(T) : F(Append(s, x)) = F(s) \o x
  BY FlattenGrows
<1> HIDE DEF F
<1>2. <<>> \in M
  BY <1>1, ConcatEmptySeq, EmptySeq
<1>3. ASSUME NEW b \in M, NEW x \in Seq(T) PROVE Append(b, x) \in M
  <2>1. a \o Append(b, x) = Append(a \o b, x) /\ a \o b \in Seq(Seq(T))
    BY JoinGrows
  <2>2. F(Append(a \o b, x)) = (F(a) \o F(b)) \o x /\ F(Append(b, x)) = F(b) \o x
    BY <1>1, <2>1
  <2>3. Regrouped(F(a), F(b), x)
    BY <1>1, Regrouping, Zenon
  <2>4. F(a \o Append(b, x)) = F(a) \o F(Append(b, x))
    BY <2>1, <2>2, <2>3 DEF Regrouped
  <2> QED  BY <2>4, AppendProperties
<1>4. M = Seq(Seq(T))
  <2> HIDE DEF M
  <2>1. M \subseteq Seq(Seq(T))
    BY DEF M
  <2> QED  BY <1>2, <1>3, <2>1, EverySequence
<1> QED  BY <1>4 DEF F

\* ctx.out holds what was passed on, or that does not fit; and it never is full.
LEMMA KeptOrFull ==
    ASSUME NEW o \in Seq(Tokens), Len(o) < OutSize, NEW shown \in Seq(Tokens),
           o = shown \/ Len(shown) + 1 >= OutSize
    PROVE  \A texts \in Seq(Seq(Tokens)) :
             /\ Kept(o, texts) \in Seq(Tokens) /\ Len(Kept(o, texts)) < OutSize
             /\ \/ Kept(o, texts) = shown \o FlattenSeq(texts)
                \/ Len(shown \o FlattenSeq(texts)) + 1 >= OutSize
<1> DEFINE F(s) == shown \o FlattenSeq(s)
           K(s) == Kept(o, s)
           M == {s \in Seq(Seq(Tokens)) :
                   Len(K(s)) < OutSize /\ (K(s) = F(s) \/ Len(F(s)) + 1 >= OutSize)}
<1>1. /\ K(<<>>) = o /\ \A s \in Seq(Seq(Tokens)) : K(s) \in Seq(Tokens)
      /\ \A s \in Seq(Seq(Tokens)), x \in Seq(Tokens) : K(Append(s, x)) = Fitted(K(s), x)
  BY KeptGrows
<1>2. /\ F(<<>>) = shown /\ \A s \in Seq(Seq(Tokens)) : F(s) \in Seq(Tokens)
  BY FlattenGrows, ConcatEmptySeq, ConcatProperties
<1>3. \A s \in Seq(Seq(Tokens)), x \in Seq(Tokens) : F(Append(s, x)) = F(s) \o x
  <2> SUFFICES ASSUME NEW s \in Seq(Seq(Tokens)), NEW x \in Seq(Tokens)
               PROVE  F(Append(s, x)) = F(s) \o x
    OBVIOUS
  <2>1. FlattenSeq(Append(s, x)) = FlattenSeq(s) \o x /\ FlattenSeq(s) \in Seq(Tokens)
    BY FlattenGrows
  <2>2. Regrouped(shown, FlattenSeq(s), x)
    BY <2>1, Regrouping, Zenon
  <2> QED  BY <2>1, <2>2 DEF Regrouped
<1> HIDE DEF F, K
<1>4. <<>> \in M
  BY <1>1, <1>2, EmptySeq
<1>5. ASSUME NEW s \in M, NEW x \in Seq(Tokens) PROVE Append(s, x) \in M
  <2>1. /\ K(s) \in Seq(Tokens) /\ F(s) \in Seq(Tokens) /\ Len(K(s)) < OutSize
        /\ K(s) = F(s) \/ Len(F(s)) + 1 >= OutSize
    BY <1>1, <1>2
  <2>2. K(Append(s, x)) = Fitted(K(s), x) /\ F(Append(s, x)) = F(s) \o x
    BY <1>1, <1>3
  <2>3. /\ Len(K(s) \o x) = Len(K(s)) + Len(x) /\ Len(F(s) \o x) = Len(F(s)) + Len(x)
        /\ Len(K(s)) \in Nat /\ Len(F(s)) \in Nat /\ Len(x) \in Nat /\ OutSize \in Nat
    BY <2>1, ConcatProperties, LenProperties, LogConstants
  <2>4. Len(Fitted(K(s), x)) < OutSize
    BY <2>1, <2>3 DEF Fitted
  <2>5. Fitted(K(s), x) = F(s) \o x \/ Len(F(s) \o x) + 1 >= OutSize
    <3>1. CASE K(s) = F(s)
      <4>1. CASE Len(K(s)) + Len(x) + 1 < OutSize
        BY <3>1, <4>1 DEF Fitted
      <4>2. CASE ~(Len(K(s)) + Len(x) + 1 < OutSize)
        BY <2>3, <3>1, <4>2
      <4> QED  BY <4>1, <4>2
    <3>2. CASE Len(F(s)) + 1 >= OutSize
      BY <2>3, <3>2
    <3> QED  BY <2>1, <3>1, <3>2
  <2>6. /\ Len(K(Append(s, x))) < OutSize
        /\ K(Append(s, x)) = F(Append(s, x)) \/ Len(F(Append(s, x))) + 1 >= OutSize
    BY <2>2, <2>4, <2>5
  <2> QED  BY <2>6, AppendProperties
<1>6. M = Seq(Seq(Tokens))
  <2> HIDE DEF M
  <2>1. M \subseteq Seq(Seq(Tokens))
    BY DEF M
  <2> QED  BY <1>4, <1>5, <2>1, EverySequence
<1> QED  BY <1>1, <1>6 DEF F, K

-----------------------------------------------------------------------------
(* The log.                                                                 *)

Saids == [role : Roles, text : Seq(Tokens)]

Ending(l, ends) == l = <<>> \/ l[Len(l)] \in ends

Conversation(s) ==
    FlattenSeq([i \in 1..Len(s) |->
        Message(<<s[i].role>> \o FirstLine(s[i].text)) \o Messages(Later(s[i].text) \o <<NL>>)])

\* What an entry was said to be, and what was written for it.
Written(h, e) == IF h = "multi" THEN Formatted(e.role, e.text) ELSE {Entry(e.role, e.text)}

\* The log holds what was said: the newest entry is its end, and a line ends before it.  Where
\* nothing is thrown away, it reads as what was said.
LogHolds(h, l, s) ==
    /\ l \in Seq(Tokens) /\ s \in Seq(Saids) /\ Len(l) < Capacity
    /\ Ending(l, {NL, Junk})
    /\ h # "multi" => Ending(l, {NL}) /\ Messages(l) = Conversation(s)
    /\ s # <<>> => \E old \in Seq(Tokens), new \in Written(h, s[Len(s)]) :
                     l = old \o new /\ Ending(old, {NL, Junk})

\* What multi writes for an entry: as many tokens, the same ones if they fit in tmp.
LEMMA FormattedTyped ==
    ASSUME NEW role \in Roles, NEW text \in Seq(Tokens), NEW e \in Formatted(role, text)
    PROVE  /\ e \in Seq(Tokens) /\ Len(e) = Len(text) + 2
           /\ e[Len(e)] \in {NL, Junk}
           /\ Len(text) + 2 < Tmp => e = Entry(role, text)
           /\ Len(text) + 2 >= Tmp => \E i \in 1..Len(e) : e[i] = Junk
<1> DEFINE whole == Entry(role, text)
           n == Len(text) + 2
<1>1. whole \in Seq(Tokens) /\ Len(whole) = n /\ n \in Nat /\ whole[n] = NL
  BY EntryTyped
<1>2. Tmp \in Nat \ {0} /\ Junk \in Tokens /\ NL \in Tokens
  BY LogConstants DEF Tokens
<1> HIDE DEF whole, n
<1>3. CASE n < Tmp
  <2>1. e = whole
    BY <1>1, <1>3 DEF Formatted, whole
  <2> QED  BY <1>1, <1>2, <1>3, <2>1 DEF whole, n
<1>4. CASE ~(n < Tmp)
  <2> DEFINE front == SubSeq(whole, 1, Tmp - 1)
             a == front \o <<Junk>>
             b(j) == [i \in 1..(n - Tmp) |-> j]
  <2>1. PICK j \in {Junk, NL} : e = a \o b(j)
    BY <1>1, <1>4 DEF Formatted, whole
  <2>2. front \in Seq(Tokens) /\ Len(front) = Tmp - 1
    <3>1. 1 \in Int /\ Tmp - 1 \in Int /\ \A i \in 1..(Tmp - 1) : whole[i] \in Tokens
      <4>1. \A i \in 1..(Tmp - 1) : i \in 1..Len(whole)
        BY <1>1, <1>2, <1>4
      <4> QED  BY <1>1, <1>2, <4>1, ElementOfSeq
    <3>2. front \in Seq(Tokens) /\ Len(front) = IF 1 <= Tmp - 1 THEN (Tmp - 1) - 1 + 1 ELSE 0
      BY <3>1, SubSeqProperties
    <3> HIDE DEF front
    <3> QED  BY <1>2, <3>2
  <2> HIDE DEF front
  <2>3. /\ <<Junk>> \in Seq(Tokens) /\ Len(<<Junk>>) = 1 /\ <<Junk>>[1] = Junk
    BY <1>2
  <2>4. a \in Seq(Tokens) /\ Len(a) = Tmp /\ a[Tmp] = Junk
    <3>1. /\ a \in Seq(Tokens) /\ Len(a) = (Tmp - 1) + 1
          /\ \A i \in 1..((Tmp - 1) + 1) :
               a[i] = IF i <= Tmp - 1 THEN front[i] ELSE <<Junk>>[i - (Tmp - 1)]
      BY <2>2, <2>3, ConcatProperties
    <3> HIDE DEF a
    <3>2. Tmp \in 1..((Tmp - 1) + 1) /\ ~(Tmp <= Tmp - 1) /\ Tmp - (Tmp - 1) = 1
      BY <1>2
    <3> QED  BY <1>2, <2>3, <3>1, <3>2
  <2> HIDE DEF a
  <2>5. /\ b(j) \in Seq(Tokens) /\ Len(b(j)) = n - Tmp /\ \A i \in 1..(n - Tmp) : b(j)[i] = j
    <3>1. n - Tmp \in Nat /\ j \in Tokens
      BY <1>1, <1>2, <1>4
    <3> QED  BY <3>1
  <2> DEFINE t == b(j)
  <2> HIDE DEF b, t
  <2> DEFINE c == a \o t
  <2>6. /\ e \in Seq(Tokens) /\ Len(e) = Tmp + (n - Tmp)
        /\ \A i \in 1..(Tmp + (n - Tmp)) : e[i] = IF i <= Tmp THEN a[i] ELSE t[i - Tmp]
    <3>1. e = c
      BY <2>1 DEF t
    <3>2. t \in Seq(Tokens) /\ Len(t) = n - Tmp
      BY <2>5 DEF t
    <3>3. /\ c \in Seq(Tokens) /\ Len(c) = Len(a) + Len(t)
          /\ \A i \in 1..(Len(a) + Len(t)) : c[i] = IF i <= Len(a) THEN a[i] ELSE t[i - Len(a)]
      BY <2>4, <3>2, ConcatProperties
    <3> HIDE DEF c
    <3>4. Len(a) = Tmp /\ Len(t) = n - Tmp
      BY <2>4, <3>2
    <3> QED  BY <3>1, <3>3, <3>4
  <2>7. Len(e) = n /\ Tmp \in 1..Len(e) /\ e[Tmp] = Junk
    BY <1>1, <1>2, <1>4, <2>4, <2>6
  <2>8. e[n] \in {NL, Junk}
    <3>1. CASE n = Tmp
      BY <2>7, <3>1
    <3>2. CASE n # Tmp
      <4>1. n \in 1..(Tmp + (n - Tmp)) /\ ~(n <= Tmp) /\ n - Tmp \in 1..(n - Tmp)
        BY <1>1, <1>2, <1>4, <3>2
      <4> QED  BY <2>1, <2>5, <2>6, <4>1 DEF t
    <3> QED  BY <3>1, <3>2
  <2> QED  BY <1>4, <2>6, <2>7, <2>8 DEF n
<1> QED  BY <1>3, <1>4

\* What Trimmed leaves has room for the new entry, and ends where the log ended.
LEMMA TrimmedHolds ==
    ASSUME log \in Seq(Tokens), Ending(log, {NL, Junk}), NEW need \in Nat, need < Capacity
    PROVE  /\ Trimmed(need) \in Seq(Tokens) /\ Len(Trimmed(need)) + need < Capacity
           /\ Ending(Trimmed(need), {NL, Junk})
<1> DEFINE n == Len(log)
           after == {0, n} \union {i \in 1..n : log[i] = NL}
           enough == {i \in after : i = n \/ n - i + need < Capacity}
           cut == CHOOSE i \in enough : \A j \in enough : i <= j
<1>1. n \in Nat /\ \A i \in 1..n : log[i] \in Tokens
  BY LenProperties, ElementOfSeq
<1>2. enough \subseteq 0..n /\ n \in enough
  BY <1>1
<1>3. cut \in enough
  <2>1. enough \subseteq Nat /\ enough # {}
    BY <1>1, <1>2
  <2>2. \E i \in enough : \A j \in enough : i <= j
    BY <2>1, LeastOne
  <2> QED  BY <2>2
<1>4. Trimmed(need) = SubSeq(log, cut + 1, n)
  BY DEF Trimmed
<1>5. cut \in 0..n /\ (cut = n \/ n - cut + need < Capacity)
  BY <1>2, <1>3
<1> HIDE DEF cut, enough, after
<1> DEFINE t == SubSeq(log, cut + 1, n)
<1>6. t \in Seq(Tokens) /\ Len(t) = n - cut /\ (cut < n => t[n - cut] = log[n])
  <2>1. cut + 1 \in Int /\ n \in Int /\ \A i \in (cut + 1)..n : log[i] \in Tokens
    BY <1>1, <1>5
  <2>2. /\ t \in Seq(Tokens) /\ Len(t) = IF cut + 1 <= n THEN n - (cut + 1) + 1 ELSE 0
        /\ \A i \in 1..(n - (cut + 1) + 1) : t[i] = log[(cut + 1) + i - 1]
    BY <2>1, SubSeqProperties
  <2> HIDE DEF t, n
  <2>3. Len(t) = n - cut
    BY <1>1, <1>5, <2>2
  <2>4. ASSUME cut < n PROVE t[n - cut] = log[n]
    <3>1. n - cut \in 1..(n - (cut + 1) + 1) /\ (cut + 1) + (n - cut) - 1 = n
      BY <1>1, <1>5, <2>4
    <3> QED  BY <2>2, <3>1
  <2> QED  BY <2>2, <2>3, <2>4
<1> HIDE DEF t
<1>7. Len(t) + need < Capacity
  BY <1>1, <1>5, <1>6
<1>8. Ending(t, {NL, Junk})
  <2>1. CASE cut = n
    <3>1. t = <<>>
      <4>1. Len(t) = 0
        BY <1>1, <1>6, <2>1
      <4> QED  BY <1>6, <4>1, EmptySeq
    <3> QED  BY <3>1 DEF Ending
  <2>2. CASE cut # n
    <3>1. cut < n /\ log # <<>>
      BY <1>1, <1>5, <2>2, EmptySeq
    <3>2. log[n] \in {NL, Junk}
      BY <3>1 DEF Ending
    <3> QED  BY <1>6, <3>1, <3>2 DEF Ending
  <2> QED  BY <2>1, <2>2
<1> QED  BY <1>4, <1>6, <1>7, <1>8 DEF t

\* The log of an empty conversation.
LEMMA NothingSaid == \A h : LogHolds(h, <<>>, <<>>)
<1>1. Messages(<<>>) = <<>>
  <2>1. <<>> \in Seq(Tokens) /\ Unended(<<>>, NL)
    BY EmptySeq DEF Unended
  <2>2. Mapped(<<>>, NL, MessageOf) = <<>>
    BY <2>1, MessagesByLine DEF LineByLine
  <2> QED  BY <2>1, <2>2, MessagesByLine
<1>2. Conversation(<<>>) = <<>>
  <2>1. [i \in 1..Len(<<>>) |->
           Message(<<<<>>[i].role>> \o FirstLine(<<>>[i].text))
             \o Messages(Later(<<>>[i].text) \o <<NL>>)] = <<>>
    BY EmptySeq
  <2> QED  BY <2>1, FlattenGrows, Zenon DEF Conversation
<1>3. <<>> \in Seq(Tokens) /\ <<>> \in Seq(Saids) /\ Len(<<>>) < Capacity
  BY EmptySeq, LogConstants
<1> QED  BY <1>1, <1>2, <1>3 DEF LogHolds, Ending

\* An entry more is a conversation that goes on.
ReadOf == [e \in Saids |-> Message(<<e.role>> \o FirstLine(e.text))
                             \o Messages(Later(e.text) \o <<NL>>)]

\* It adds the messages that its entry alone gives.
LEMMA ConversationGrows ==
    \A s \in Seq(Saids), e \in Saids :
      Conversation(Append(s, e)) = Conversation(s) \o Messages(Entry(e.role, e.text))
<1>1. /\ ReadOf \in [Saids -> Seq(Msgs)]
      /\ \A e \in Saids : ReadOf[e] = Messages(Entry(e.role, e.text))
  <2>1. ASSUME NEW e \in Saids
        PROVE  /\ Message(<<e.role>> \o FirstLine(e.text)) \o Messages(Later(e.text) \o <<NL>>)
                    = Messages(Entry(e.role, e.text))
               /\ Messages(Entry(e.role, e.text)) \in Seq(Msgs)
    <3>1. e.role \in Roles /\ e.text \in Seq(Tokens)
      BY DEF Saids
    <3>2. Entry(e.role, e.text) \in Seq(Tokens)
      BY <3>1, EntryTyped
    <3>3. Messages(Entry(e.role, e.text)) \in Seq(Msgs)
      BY <3>2, MessagesByLine DEF LineByLine
    <3> QED  BY <3>1, <3>3, EntryRead
  <2> QED  BY <2>1 DEF ReadOf
<1>2. ASSUME NEW s \in Seq(Saids) PROVE Conversation(s) = FlattenSeq(Image(s, ReadOf))
  <2>1. \A i \in 1..Len(s) : s[i] \in Saids
    BY ElementOfSeq
  <2>2. \A i \in 1..Len(s) :
          ReadOf[s[i]] = Message(<<s[i].role>> \o FirstLine(s[i].text))
                           \o Messages(Later(s[i].text) \o <<NL>>)
    BY <2>1 DEF ReadOf
  <2>3. [i \in 1..Len(s) |-> ReadOf[s[i]]] =
          [i \in 1..Len(s) |-> Message(<<s[i].role>> \o FirstLine(s[i].text))
                                 \o Messages(Later(s[i].text) \o <<NL>>)]
    BY <2>2, Zenon
  <2> QED  BY <2>3, Zenon DEF Conversation, Image
<1>3. ASSUME NEW s \in Seq(Saids), NEW e \in Saids
      PROVE  Conversation(Append(s, e)) = Conversation(s) \o Messages(Entry(e.role, e.text))
  <2>1. /\ Image(s, ReadOf) \in Seq(Seq(Msgs)) /\ ReadOf[e] \in Seq(Msgs)
        /\ Image(Append(s, e), ReadOf) = Append(Image(s, ReadOf), ReadOf[e])
    <3>1. ReadOf \in [Saids -> Seq(Msgs)]
      BY <1>1
    <3>2. /\ Image(<<>>, ReadOf) = <<>>
          /\ \A l \in Seq(Saids) : Image(l, ReadOf) \in Seq(Seq(Msgs))
          /\ \A l \in Seq(Saids), r \in Saids :
               Image(Append(l, r), ReadOf) = Append(Image(l, ReadOf), ReadOf[r])
      BY <3>1, ImageGrows
    <3>3. ReadOf[e] \in Seq(Msgs)
      BY <3>1
    <3> QED  BY <3>2, <3>3
  <2>2. FlattenSeq(Append(Image(s, ReadOf), ReadOf[e])) = FlattenSeq(Image(s, ReadOf)) \o ReadOf[e]
    BY <2>1, FlattenGrows
  <2>3. Append(s, e) \in Seq(Saids)
    BY AppendProperties
  <2>4. /\ Conversation(Append(s, e)) = FlattenSeq(Image(Append(s, e), ReadOf))
        /\ Conversation(s) = FlattenSeq(Image(s, ReadOf))
    BY <1>2, <2>3
  <2> QED  BY <1>1, <2>1, <2>2, <2>4
<1> QED  BY <1>3

\* Whatever stands before it, the end of what is added is the end.
LEMMA EndOfJoin ==
    ASSUME NEW S, NEW a \in Seq(S), NEW b \in Seq(S), Len(b) > 0
    PROVE  /\ a \o b \in Seq(S) /\ Len(a \o b) = Len(a) + Len(b) /\ a \o b # <<>>
           /\ (a \o b)[Len(a \o b)] = b[Len(b)]
<1> DEFINE c == a \o b
<1>1. /\ c \in Seq(S) /\ Len(c) = Len(a) + Len(b) /\ Len(a) \in Nat /\ Len(b) \in Nat
      /\ \A i \in 1..(Len(a) + Len(b)) : c[i] = IF i <= Len(a) THEN a[i] ELSE b[i - Len(a)]
  BY ConcatProperties, LenProperties
<1> HIDE DEF c
<1>2. Len(c) \in 1..(Len(a) + Len(b)) /\ ~(Len(c) <= Len(a)) /\ Len(c) - Len(a) = Len(b)
  BY <1>1
<1>3. c # <<>>
  BY <1>1, <1>2, EmptySeq
<1> QED  BY <1>1, <1>2, <1>3 DEF c

\* append_log_safe, where an entry is written whole or not at all.
LEMMA LoggedHolds ==
    ASSUME helper # "multi", LogHolds(helper, log, said),
           NEW role \in Roles, NEW text \in Seq(Tokens)
    PROVE  LogHolds(helper, Logged(role, text), Noted(role, text))
<1> DEFINE e == Entry(role, text)
           x == [role |-> role, text |-> text]
<1>1. /\ log \in Seq(Tokens) /\ said \in Seq(Saids) /\ Len(log) < Capacity /\ Ending(log, {NL})
      /\ Messages(log) = Conversation(said) /\ Ending(log, {NL, Junk})
  BY DEF LogHolds
<1>2. /\ e \in Seq(Tokens) /\ Len(e) = Len(text) + 2 /\ Len(text) \in Nat /\ e[Len(e)] = NL
      /\ Len(e) > 0
  BY EntryTyped
<1>3. x \in Saids /\ x.role = role /\ x.text = text
  BY DEF Saids
<1>4. CASE ~Fits(role, text)
  <2>1. Logged(role, text) = log /\ Noted(role, text) = said
    BY <1>4 DEF Logged, Noted
  <2> QED  BY <2>1, Zenon
<1>5. CASE Fits(role, text)
  <2>1. Logged(role, text) = log \o e /\ Noted(role, text) = Append(said, x)
    BY <1>5 DEF Logged, Noted
  <2>2. Len(e) < Capacity - Len(log)
    BY <1>5 DEF Fits
  <2> HIDE DEF e, x
  <2> DEFINE l == log \o e
             s == Append(said, x)
  <2>3. /\ l \in Seq(Tokens) /\ Len(l) = Len(log) + Len(e) /\ l # <<>> /\ l[Len(l)] = e[Len(e)]
    BY <1>1, <1>2, EndOfJoin
  <2>4. s \in Seq(Saids) /\ s # <<>> /\ s[Len(s)] = x
    BY <1>1, <1>3, LastOfAppend
  <2>5. Messages(l) = Messages(log) \o Messages(e)
    <3>1. Split(log, NL).rest = <<>>
      <4>1. log = <<>> \/ Last(log) = NL
        BY <1>1 DEF Ending, Last
      <4> QED  BY <1>1, <4>1, EndedRest
    <3> QED  BY <1>1, <1>2, <3>1, MessagesBehind
  <2>6. Conversation(s) = Conversation(said) \o Messages(e)
    BY <1>1, <1>3, ConversationGrows DEF e
  <2>7. e \in Written(helper, s[Len(s)])
    BY <1>3, <2>4 DEF Written, e
  <2>8. l = log \o e
    OBVIOUS
  <2> HIDE DEF l, s
  <2>9. Len(l) < Capacity
    <3>1. Len(log) \in Nat /\ Len(e) \in Nat /\ Capacity \in Nat
      BY <1>1, <1>2, LenProperties, LogConstants
    <3> QED  BY <2>2, <2>3, <3>1
  <2>10. Ending(l, {NL}) /\ Ending(l, {NL, Junk})
    BY <1>2, <2>3 DEF Ending
  <2>11. Messages(l) = Conversation(s)
    BY <1>1, <2>5, <2>6
  <2>12. \E old \in Seq(Tokens), new \in Written(helper, s[Len(s)]) :
           l = old \o new /\ Ending(old, {NL, Junk})
    BY <1>1, <2>7, <2>8
  <2>13. LogHolds(helper, l, s)
    BY <2>3, <2>4, <2>9, <2>10, <2>11, <2>12 DEF LogHolds
  <2> QED  BY <2>1, <2>13 DEF l, s
<1> QED  BY <1>4, <1>5

\* append_log of multi: the newest entry is at the end, what is thrown away is in front of it.
LEMMA AppendLogHolds ==
    ASSUME helper = "multi", LogHolds(helper, log, said),
           NEW role \in Roles, NEW text \in Seq(Tokens),
           Len(text) + 2 < Capacity, NEW l \in append_log(role, text)
    PROVE  LogHolds(helper, l, <<[role |-> role, text |-> text]>>)
<1> DEFINE x == [role |-> role, text |-> text]
           s == <<x>>
<1>1. log \in Seq(Tokens) /\ Ending(log, {NL, Junk})
  BY DEF LogHolds
<1>2. x \in Saids /\ x.role = role /\ x.text = text
  BY DEF Saids
<1>3. PICK e \in Formatted(role, text) : l = Trimmed(Len(e)) \o e
  BY DEF append_log
<1>4. /\ e \in Seq(Tokens) /\ Len(e) = Len(text) + 2 /\ e[Len(e)] \in {NL, Junk}
      /\ Len(text) \in Nat
  BY FormattedTyped, LenProperties
<1> DEFINE t == Trimmed(Len(e))
<1>5. t \in Seq(Tokens) /\ Len(t) + Len(e) < Capacity /\ Ending(t, {NL, Junk})
  <2>1. Len(e) \in Nat /\ Len(e) < Capacity
    BY <1>4
  <2> QED  BY <1>1, <2>1, TrimmedHolds
<1> HIDE DEF t, x
<1>6. l = t \o e
  BY <1>3 DEF t
<1>7. l \in Seq(Tokens) /\ Len(l) = Len(t) + Len(e) /\ l[Len(l)] = e[Len(e)]
  <2>1. Len(e) > 0
    BY <1>4
  <2> QED  BY <1>4, <1>5, <1>6, <2>1, EndOfJoin
<1>8. s \in Seq(Saids) /\ Len(s) = 1 /\ s[Len(s)] = x
  BY <1>2
<1> HIDE DEF s
<1>9. e \in Written(helper, s[Len(s)])
  BY <1>2, <1>3, <1>8 DEF Written
<1>10. Len(l) < Capacity /\ Ending(l, {NL, Junk})
  BY <1>4, <1>5, <1>7 DEF Ending
<1>11. \E old \in Seq(Tokens), new \in Written(helper, s[Len(s)]) :
         l = old \o new /\ Ending(old, {NL, Junk})
  BY <1>5, <1>6, <1>9
<1>12. LogHolds(helper, l, s)
  BY <1>7, <1>8, <1>10, <1>11 DEF LogHolds
<1> QED  BY <1>12 DEF s, x

-----------------------------------------------------------------------------
(* The inductive invariant.                                                 *)

\* Of a stream, what has come is what was read so far; and ctx.out has it all, or it does not
\* fit.
StreamHolds ==
    IF phase = "calling"
    THEN /\ Formed(got \o wire) /\ buf = Lines(got).rest
         /\ streamed = FlattenSeq(Lines(got).texts)
         /\ out = streamed \/ Len(streamed) + 1 >= OutSize
    ELSE Formed(got) /\ streamed = FlattenSeq(TextsOf(got))

CallTyped ==
    /\ helper \in {"socket", "pipe", "shm", "multi"} /\ phase \in {"idle", "calling"}
    /\ prompt \in Seq(Tokens) /\ wire \in Seq(Parts) /\ buf \in Seq(Parts) /\ got \in Seq(Parts)
    /\ streamed \in Seq(Tokens) /\ out \in Seq(Tokens) /\ Len(out) < OutSize

IInv ==
    /\ CallTyped
    /\ LogHolds(helper, log, said)
    /\ phase = "calling" => messages = Messages(log)
    /\ helper \in {"socket", "multi"} => StreamHolds

\* Nothing has come, nothing is passed on.
LEMMA NothingCame ==
    /\ <<>> \in Seq(Parts) /\ <<>> \in Seq(Tokens) /\ Len(<<>>) < OutSize /\ OutSize \in Nat
    /\ Formed(<<>>) /\ Lines(<<>>).rest = <<>> /\ FlattenSeq(Lines(<<>>).texts) = <<>>
    /\ FlattenSeq(TextsOf(<<>>)) = <<>>
<1>1. <<>> \in Seq(Parts) /\ <<>> \in Seq(Tokens) /\ Len(<<>>) < OutSize /\ OutSize \in Nat
  BY EmptySeq, LogConstants
<1>2. Formed(<<>>)
  BY EmptySeq DEF Formed
<1>3. Lines(<<>>).rest = <<>> /\ Lines(<<>>).texts = <<>>
  <2>1. Unended(<<>>, EndOfLine)
    BY EmptySeq DEF Unended
  <2>2. Mapped(<<>>, EndOfLine, ParsedOf) = <<>>
    BY <1>1, <2>1, LinesByLine DEF LineByLine
  <2>3. Split(<<>>, EndOfLine) = [lines |-> <<>>, rest |-> <<>>]
    BY <1>1, <2>1, AllRest
  <2>4. /\ Lines(<<>>).texts = Mapped(<<>>, EndOfLine, ParsedOf)
        /\ Lines(<<>>).rest = Split(<<>>, EndOfLine).rest
    BY <1>1, LinesByLine
  <2>5. [lines |-> <<>>, rest |-> <<>>].rest = <<>>
    OBVIOUS
  <2> QED  BY <2>2, <2>3, <2>4, <2>5, Zenon
<1>4. TextsOf(<<>>) = <<>>
  BY TextsGrow
<1>5. FlattenSeq(<<>>) = <<>>
  BY FlattenGrows
<1> QED  BY <1>1, <1>2, <1>3, <1>4, <1>5

\* A helper starts so.
LEMMA InitHolds == HInit => IInv
<1> SUFFICES ASSUME HInit PROVE IInv
  OBVIOUS
<1>1. CallTyped
  BY NothingCame DEF HInit, Init, CallTyped
<1>2. LogHolds(helper, log, said)
  BY NothingSaid DEF HInit, Init
<1>3. phase # "calling" /\ StreamHolds
  BY NothingCame DEF HInit, Init, StreamHolds
<1> QED  BY <1>1, <1>2, <1>3 DEF IInv

\* And so after a restart.
LEMMA RestartHolds == ASSUME IInv, UNCHANGED helper, Restart PROVE IInv'
<1>1. CallTyped'
  BY NothingCame DEF Restart, CallTyped, IInv
<1>2. LogHolds(helper, log, said)'
  BY NothingSaid DEF Restart
<1>3. phase' # "calling" /\ StreamHolds'
  BY NothingCame DEF Restart, StreamHolds
<1> QED  BY <1>1, <1>2, <1>3 DEF IInv

\* A stream begins: nothing has come of it.
LEMMA StreamBegins ==
    ASSUME Reset, streamed' = <<>>, got' = <<>>, phase' = "calling",
           NEW reply \in Replies, wire' = Stream(reply)
    PROVE  /\ StreamHolds' /\ wire' \in Seq(Parts) /\ buf' \in Seq(Parts) /\ got' \in Seq(Parts)
           /\ streamed' \in Seq(Tokens) /\ out' \in Seq(Tokens) /\ Len(out') < OutSize
<1>1. wire' \in Seq(Parts) /\ Formed(wire')
  BY StreamIsFormed, LogConstants
<1>2. got' \o wire' = wire'
  BY <1>1, ConcatEmptySeq
<1> QED  BY <1>1, <1>2, NothingCame DEF Reset, StreamHolds

\* Some of it has come.
LEMMA PieceHolds ==
    ASSUME IInv, UNCHANGED helper, helper \in {"socket", "multi"}, NEW n \in 1..Len(wire), Piece(n)
    PROVE  IInv'
<1> DEFINE p == SubSeq(wire, 1, n)
           w == SubSeq(wire, n + 1, Len(wire))
           texts == Lines(buf \o p).texts
<1>1. /\ CallTyped /\ StreamHolds /\ phase = "calling" /\ LogHolds(helper, log, said)
      /\ messages = Messages(log)
  BY DEF IInv, Piece
<1>2. /\ wire' = w /\ got' = got \o p /\ buf' = Lines(buf \o p).rest
      /\ streamed' = streamed \o FlattenSeq(texts) /\ out' = Kept(out, texts)
      /\ UNCHANGED <<log, phase, prompt, messages, said>>
  BY DEF Piece
<1>3. /\ wire \in Seq(Parts) /\ buf \in Seq(Parts) /\ got \in Seq(Parts)
      /\ streamed \in Seq(Tokens) /\ out \in Seq(Tokens) /\ Len(out) < OutSize
  BY <1>1 DEF CallTyped
<1>4. /\ Formed(got \o wire) /\ buf = Lines(got).rest /\ streamed = FlattenSeq(Lines(got).texts)
      /\ out = streamed \/ Len(streamed) + 1 >= OutSize
  BY <1>1 DEF StreamHolds
<1>5. p \in Seq(Parts) /\ w \in Seq(Parts) /\ (got \o p) \o w = got \o wire
  BY <1>3, PieceMoves
<1> HIDE DEF p, w
<1>6. buf \o p \in Seq(Parts) /\ got \o p \in Seq(Parts)
  BY <1>3, <1>5, ConcatProperties
<1>7. texts \in Seq(Seq(Tokens)) /\ buf' \in Seq(Parts)
  <2>1. texts = Mapped(buf \o p, EndOfLine, ParsedOf)
    BY <1>6, LinesByLine
  <2>2. Mapped(buf \o p, EndOfLine, ParsedOf) \in Seq(Seq(Tokens))
    BY <1>6, LinesByLine DEF LineByLine
  <2>3. Split(buf \o p, EndOfLine) \in Pieces(Parts)
    BY <1>6, SplitGrows
  <2>4. buf' = Split(buf \o p, EndOfLine).rest
    BY <1>2, <1>6, LinesByLine
  <2>5. buf' \in Seq(Parts)
    BY <2>3, <2>4 DEF Pieces
  <2> HIDE DEF texts
  <2> QED  BY <2>1, <2>2, <2>5
<1>8. /\ Lines(got \o p).rest = Lines(Lines(got).rest \o p).rest
      /\ Lines(got \o p).texts = Lines(got).texts \o Lines(Lines(got).rest \o p).texts
      /\ Lines(got).rest \in Seq(Parts) /\ Lines(got).texts \in Seq(Seq(Tokens))
  BY <1>3, <1>5, LinesJoin
<1>9. buf' = Lines(got').rest /\ Lines(got').texts = Lines(got).texts \o texts
  BY <1>2, <1>4, <1>8
<1> HIDE DEF texts
<1>10. streamed' = FlattenSeq(Lines(got').texts)
  <2>1. FlattenSeq(Lines(got).texts \o texts) = FlattenSeq(Lines(got).texts) \o FlattenSeq(texts)
    BY <1>7, <1>8, FlattenJoins
  <2> QED  BY <1>2, <1>4, <1>9, <2>1
<1>11. /\ out' \in Seq(Tokens) /\ Len(out') < OutSize
       /\ out' = streamed' \/ Len(streamed') + 1 >= OutSize
  <2>1. /\ Kept(out, texts) \in Seq(Tokens) /\ Len(Kept(out, texts)) < OutSize
        /\ \/ Kept(out, texts) = streamed \o FlattenSeq(texts)
           \/ Len(streamed \o FlattenSeq(texts)) + 1 >= OutSize
    BY <1>3, <1>4, <1>7, KeptOrFull
  <2> QED  BY <1>2, <2>1
<1>12. streamed' \in Seq(Tokens)
  <2>1. FlattenSeq(texts) \in Seq(Tokens)
    BY <1>7, FlattenGrows
  <2> QED  BY <1>2, <1>3, <2>1, ConcatProperties
<1>13. StreamHolds'
  <2>1. phase' = "calling" /\ Formed(got' \o wire')
    BY <1>1, <1>2, <1>4, <1>5
  <2> QED  BY <1>9, <1>10, <1>11, <2>1 DEF StreamHolds
<1>14. CallTyped'
  BY <1>1, <1>2, <1>5, <1>6, <1>7, <1>11, <1>12 DEF CallTyped
<1>15. LogHolds(helper, log, said)' /\ messages' = Messages(log')
  BY <1>1, <1>2
<1> QED  BY <1>13, <1>14, <1>15 DEF IInv

\* The transfer is over: the answer is what was passed on, or that does not fit.
Ends(answer) ==
    /\ phase = "calling" /\ phase' = "idle" /\ answer = Kept(out, Parsed(buf))
    /\ streamed' = streamed \o FlattenSeq(Parsed(buf))
    /\ wire' = <<>> /\ buf' = <<>> /\ out' = answer
    /\ UNCHANGED <<helper, prompt, messages, got>>

\* The answer is one of these two, whatever was still in ctx.buf, and fits in response.
LEMMA StreamEnds ==
    ASSUME IInv, helper \in {"socket", "multi"}, NEW answer, Ends(answer)
    PROVE  /\ StreamHolds' /\ CallTyped' /\ answer \in Seq(Tokens) /\ Len(answer) < OutSize
           /\ answer = streamed' \/ Len(streamed') + 1 >= OutSize
<1>1. /\ CallTyped /\ StreamHolds /\ phase = "calling"
  BY DEF IInv, Ends
<1>2. /\ wire \in Seq(Parts) /\ buf \in Seq(Parts) /\ got \in Seq(Parts)
      /\ streamed \in Seq(Tokens) /\ out \in Seq(Tokens) /\ Len(out) < OutSize
  BY <1>1 DEF CallTyped
<1>3. /\ Formed(got \o wire) /\ buf = Lines(got).rest /\ streamed = FlattenSeq(Lines(got).texts)
      /\ out = streamed \/ Len(streamed) + 1 >= OutSize
  BY <1>1 DEF StreamHolds
<1> DEFINE last == Parsed(buf)
           l == Lines(got).texts
<1>4. last \in Seq(Seq(Tokens)) /\ l \in Seq(Seq(Tokens))
  <2>1. l \in Seq(Seq(Tokens))
    BY <1>2, LinesByLine DEF LineByLine
  <2> QED  BY <1>2, <2>1, ParsedTyped
<1>5. Formed(got)
  BY <1>2, <1>3, FormedFront
<1>6. TextsOf(got) = l \o last
  BY <1>2, <1>3, <1>5, StreamRead
<1>7. streamed' = streamed \o FlattenSeq(last) /\ answer = Kept(out, last) /\ phase' # "calling"
  BY DEF Ends
<1> HIDE DEF last, l
<1>8. streamed' = FlattenSeq(TextsOf(got))
  <2>1. FlattenSeq(l \o last) = FlattenSeq(l) \o FlattenSeq(last)
    BY <1>4, FlattenJoins
  <2>2. streamed = FlattenSeq(l)
    BY <1>3 DEF l
  <2> QED  BY <1>6, <1>7, <2>1, <2>2
<1>9. StreamHolds'
  <2>1. got' = got
    BY DEF Ends
  <2> QED  BY <1>5, <1>7, <1>8, <2>1 DEF StreamHolds
<1>10. /\ answer \in Seq(Tokens) /\ Len(answer) < OutSize
       /\ answer = streamed' \/ Len(streamed') + 1 >= OutSize
  <2>1. /\ Kept(out, last) \in Seq(Tokens) /\ Len(Kept(out, last)) < OutSize
        /\ \/ Kept(out, last) = streamed \o FlattenSeq(last)
           \/ Len(streamed \o FlattenSeq(last)) + 1 >= OutSize
    BY <1>2, <1>3, <1>4, KeptOrFull
  <2> QED  BY <1>7, <2>1
<1>11. streamed' \in Seq(Tokens)
  <2>1. FlattenSeq(last) \in Seq(Tokens)
    BY <1>4, FlattenGrows
  <2> QED  BY <1>2, <1>7, <2>1, ConcatProperties
<1>12. CallTyped'
  BY <1>1, <1>10, <1>11, NothingCame DEF CallTyped, Ends
<1> QED  BY <1>9, <1>10, <1>12

\* What is asked is a text, and its entry fits into an empty log.
LEMMA PromptTyped == \A p \in Prompts : p \in Seq(Tokens) /\ Len(p) + 2 < Capacity
  BY LogConstants

\* The calls of the socket helper.
LEMMA SocketHolds == ASSUME IInv, UNCHANGED helper, SocketTurn PROVE IInv'
<1>1. helper = "socket" /\ User \in Roles /\ Assistant \in Roles /\ LogHolds(helper, log, said)
  BY DEF SocketTurn, Roles, IInv
<1>2. CASE Call
  <2>1. PICK reply \in Replies : wire' = Stream(reply)
    BY <1>2 DEF Call
  <2>2. /\ Reset /\ streamed' = <<>> /\ got' = <<>> /\ phase' = "calling" /\ prompt' \in Prompts
        /\ Asked(prompt') /\ said' = Noted(User, prompt')
    BY <1>2 DEF Call
  <2>3. /\ StreamHolds' /\ wire' \in Seq(Parts) /\ buf' \in Seq(Parts) /\ got' \in Seq(Parts)
        /\ streamed' \in Seq(Tokens) /\ out' \in Seq(Tokens) /\ Len(out') < OutSize
    BY <2>1, <2>2, StreamBegins
  <2>4. prompt' \in Seq(Tokens)
    BY <2>2, PromptTyped
  <2>5. log' = Logged(User, prompt') /\ messages' = Messages(log')
    BY <2>2 DEF Asked
  <2>6. LogHolds(helper, log', said')
    BY <1>1, <2>2, <2>4, <2>5, LoggedHolds
  <2>7. CallTyped'
    BY <1>1, <2>2, <2>3, <2>4 DEF CallTyped
  <2> QED  BY <2>3, <2>5, <2>6, <2>7 DEF IInv
<1>3. ASSUME NEW n \in 1..Len(wire), Piece(n) PROVE IInv'
  BY <1>1, <1>3, PieceHolds
<1>4. CASE CallEnds
  <2> DEFINE answer == Kept(out, Parsed(buf))
  <2>1. Ends(answer)
    BY <1>4 DEF CallEnds, Ends
  <2>2. /\ StreamHolds' /\ CallTyped' /\ answer \in Seq(Tokens)
    BY <1>1, <2>1, StreamEnds
  <2>3. \/ log' = Logged(Assistant, answer) /\ said' = Noted(Assistant, answer)
        \/ UNCHANGED <<log, said>>
    BY <1>4 DEF CallEnds
  <2>4. phase' # "calling"
    BY <2>1 DEF Ends
  <2> HIDE DEF answer
  <2>5. LogHolds(helper, log', said')
    BY <1>1, <2>2, <2>3, LoggedHolds
  <2> QED  BY <2>2, <2>4, <2>5 DEF IInv
<1> QED  BY <1>2, <1>3, <1>4 DEF SocketTurn

\* Those of multi.
LEMMA MultiHolds == ASSUME IInv, UNCHANGED helper, MultiTurn PROVE IInv'
<1>1. helper = "multi" /\ User \in Roles /\ Assistant \in Roles /\ LogHolds(helper, log, said)
  BY DEF MultiTurn, Roles, IInv
<1>2. CASE MultiAsks
  <2>1. PICK reply \in Replies : wire' = Stream(reply)
    BY <1>2 DEF MultiAsks
  <2>2. /\ Reset /\ streamed' = <<>> /\ got' = <<>> /\ phase' = "calling" /\ prompt' \in Prompts
        /\ log' \in append_log(User, prompt') /\ messages' = Messages(log')
        /\ said' = <<[role |-> User, text |-> prompt']>>
    BY <1>2 DEF MultiAsks, build_messages_json
  <2>3. /\ StreamHolds' /\ wire' \in Seq(Parts) /\ buf' \in Seq(Parts) /\ got' \in Seq(Parts)
        /\ streamed' \in Seq(Tokens) /\ out' \in Seq(Tokens) /\ Len(out') < OutSize
    BY <2>1, <2>2, StreamBegins
  <2>4. prompt' \in Seq(Tokens) /\ Len(prompt') + 2 < Capacity
    BY <2>2, PromptTyped
  <2>5. LogHolds(helper, log', said')
    BY <1>1, <2>2, <2>4, AppendLogHolds
  <2>6. CallTyped'
    BY <1>1, <2>2, <2>3, <2>4 DEF CallTyped
  <2> QED  BY <2>2, <2>3, <2>5, <2>6 DEF IInv
<1>3. ASSUME NEW n \in 1..Len(wire), stream_callback(n) PROVE IInv'
  <2>1. Piece(n)
    BY <1>3 DEF stream_callback
  <2> QED  BY <1>1, <2>1, PieceHolds
<1>4. CASE MultiEnds
  <2> DEFINE answer == Kept(out, Parsed(buf))
  <2>1. Ends(answer)
    BY <1>4 DEF MultiEnds, Ends
  <2>2. StreamHolds' /\ CallTyped' /\ answer \in Seq(Tokens) /\ Len(answer) < OutSize
    BY <1>1, <2>1, StreamEnds
  <2>3. \/ /\ log' \in append_log(Assistant, answer)
           /\ said' = <<[role |-> Assistant, text |-> answer]>>
        \/ UNCHANGED <<log, said>>
    BY <1>4 DEF MultiEnds
  <2>4. phase' # "calling"
    BY <2>1 DEF Ends
  <2> HIDE DEF answer
  <2>5. Len(answer) + 2 < Capacity
    BY <2>2, LenProperties, LogConstants
  <2>6. LogHolds(helper, log', said')
    BY <1>1, <2>2, <2>3, <2>5, AppendLogHolds
  <2> QED  BY <2>2, <2>4, <2>6 DEF IInv
<1> QED  BY <1>2, <1>3, <1>4 DEF MultiTurn

\* What is left of an answer in response is a text, which fits.
LEMMA CopiedTyped ==
    ASSUME NEW text \in Seq(Tokens)
    PROVE  Copied(text) \in Seq(Tokens) /\ Len(Copied(text)) < OutSize
<1>1. Len(text) \in Nat /\ OutSize \in Nat \ {0} /\ \A i \in 1..Len(text) : text[i] \in Tokens
  BY LenProperties, ElementOfSeq, LogConstants
<1> DEFINE m == IF Len(text) < OutSize THEN Len(text) ELSE OutSize - 1
<1>2. m \in Nat /\ m < OutSize /\ m <= Len(text)
  BY <1>1
<1> HIDE DEF m
<1>3. 1 \in Int /\ m \in Int /\ \A i \in 1..m : text[i] \in Tokens
  BY <1>1, <1>2
<1> DEFINE s == SubSeq(text, 1, m)
<1>4. s \in Seq(Tokens) /\ Len(s) = IF 1 <= m THEN m - 1 + 1 ELSE 0
  BY <1>3, SubSeqProperties
<1> HIDE DEF s
<1>5. Len(s) < OutSize
  BY <1>2, <1>4
<1> QED  BY <1>4, <1>5 DEF s, m, Copied

\* The calls of the other two helpers.
LEMMA PlainHolds ==
    ASSUME IInv, UNCHANGED helper, helper \in {"pipe", "shm"},
           PlainAsks \/ (\E n \in 1..Len(wire) : write_callback(n)) \/ PlainEnds
    PROVE  IInv'
<1>1. /\ CallTyped /\ LogHolds(helper, log, said) /\ helper # "multi"
      /\ User \in Roles /\ Assistant \in Roles /\ (phase = "calling" => messages = Messages(log))
      /\ helper' \notin {"socket", "multi"}
  BY DEF IInv, Roles
<1>2. CASE PlainAsks
  <2>1. PICK reply \in Replies : wire' = <<Opens(FlattenSeq(reply)), Closes>>
    BY <1>2 DEF PlainAsks
  <2>2. /\ buf' = <<>> /\ streamed' = <<>> /\ got' = <<>> /\ phase' = "calling" /\ out' = out
        /\ prompt' \in PlainPrompts /\ Asked(prompt') /\ said' = Noted(User, prompt')
    BY <1>2 DEF PlainAsks
  <2>3. wire' \in Seq(Parts)
    <3>1. FlattenSeq(reply) \in Seq(Tokens)
      BY FlattenGrows, LogConstants
    <3>2. Opens(FlattenSeq(reply)) \in Parts /\ Closes \in Parts
      BY <3>1, PartsTyped
    <3> QED  BY <2>1, <3>2
  <2>4. prompt' \in Seq(Tokens)
    BY <2>2, PromptTyped, NothingCame DEF PlainPrompts
  <2>5. log' = Logged(User, prompt') /\ messages' = Messages(log')
    BY <2>2 DEF Asked
  <2>6. LogHolds(helper, log', said')
    BY <1>1, <2>2, <2>4, <2>5, LoggedHolds
  <2>7. CallTyped'
    BY <1>1, <2>2, <2>3, <2>4, NothingCame DEF CallTyped
  <2> QED  BY <1>1, <2>5, <2>6, <2>7 DEF IInv
<1>3. ASSUME NEW n \in 1..Len(wire), write_callback(n) PROVE IInv'
  <2>1. wire \in Seq(Parts) /\ buf \in Seq(Parts)
    BY <1>1 DEF CallTyped
  <2>2. SubSeq(wire, 1, n) \in Seq(Parts) /\ SubSeq(wire, n + 1, Len(wire)) \in Seq(Parts)
    BY <2>1, PieceMoves
  <2>3. buf \o SubSeq(wire, 1, n) \in Seq(Parts)
    BY <2>1, <2>2, ConcatProperties
  <2>4. CallTyped'
    BY <1>1, <1>3, <2>2, <2>3 DEF CallTyped, write_callback
  <2>5. LogHolds(helper, log, said)' /\ messages' = Messages(log')
    BY <1>1, <1>3 DEF write_callback
  <2> QED  BY <1>1, <2>4, <2>5 DEF IInv
<1>4. CASE PlainEnds
  <2>1. /\ phase' = "idle" /\ wire' = <<>> /\ buf' = <<>> /\ UNCHANGED <<prompt, messages, got>>
    BY <1>4 DEF PlainEnds
  <2>2. CASE wire = <<>> /\ Parsed(buf) # <<>> /\ Answered(Parsed(buf)[1]) /\ streamed' = out'
    <3> DEFINE text == Parsed(buf)[1]
    <3>1. text \in Seq(Tokens)
      <4>1. Parsed(buf) \in Seq(Seq(Tokens))
        BY <1>1, ParsedTyped DEF CallTyped
      <4>2. 1 \in 1..Len(Parsed(buf))
        <5>1. Len(Parsed(buf)) \in Nat /\ Len(Parsed(buf)) # 0
          BY <2>2, <4>1, EmptySeq, LenProperties
        <5> QED  BY <5>1
      <4> QED  BY <4>1, <4>2, ElementOfSeq
    <3>2. /\ out' = Copied(text) /\ log' = Logged(Assistant, out')
          /\ said' = Noted(Assistant, out')
      BY <2>2 DEF Answered
    <3> HIDE DEF text
    <3>3. out' \in Seq(Tokens) /\ Len(out') < OutSize
      BY <3>1, <3>2, CopiedTyped
    <3>4. LogHolds(helper, log', said')
      BY <1>1, <3>2, <3>3, LoggedHolds
    <3>5. CallTyped'
      BY <1>1, <2>1, <2>2, <3>3, NothingCame DEF CallTyped
    <3> QED  BY <1>1, <2>1, <3>4, <3>5 DEF IInv
  <2>3. CASE UNCHANGED <<log, said, out, streamed>>
    <3>1. CallTyped'
      BY <1>1, <2>1, <2>3, NothingCame DEF CallTyped
    <3> QED  BY <1>1, <2>1, <2>3, <3>1 DEF IInv
  <2> QED  BY <1>4, <2>2, <2>3 DEF PlainEnds
<1> QED  BY <1>2, <1>3, <1>4

\* A step of nothing keeps it.
LEMMA StutterHolds == ASSUME IInv, UNCHANGED hvars PROVE IInv'
  BY DEF IInv, CallTyped, StreamHolds, hvars, vars

\* The invariant holds in every state of every helper: it holds at first, and each action of
\* each of them keeps it.
THEOREM LogInvariant == HSpec => []IInv
<1>1. HInit => IInv
  BY InitHolds
<1>2. IInv /\ [HNext]_hvars => IInv'
  <2> SUFFICES ASSUME IInv, [HNext]_hvars PROVE IInv'
    OBVIOUS
  <2>1. CASE UNCHANGED helper /\ SocketTurn
    BY <2>1, SocketHolds
  <2>2. CASE UNCHANGED helper /\ PipeTurn
    BY <2>2, PlainHolds DEF PipeTurn
  <2>3. CASE UNCHANGED helper /\ ShmTurn
    BY <2>3, PlainHolds DEF ShmTurn
  <2>4. CASE UNCHANGED helper /\ MultiTurn
    BY <2>4, MultiHolds
  <2>5. CASE UNCHANGED helper /\ Restart
    BY <2>5, RestartHolds
  <2>6. CASE UNCHANGED hvars
    BY <2>6, StutterHolds
  <2> QED  BY <2>1, <2>2, <2>3, <2>4, <2>5, <2>6 DEF HNext
<1> QED  BY <1>1, <1>2, PTL DEF HSpec

-----------------------------------------------------------------------------
(* What follows from it.                                                    *)

\* A join can be taken apart again.
LEMMA JoinParts ==
    ASSUME NEW S, NEW a \in Seq(S), NEW b \in Seq(S)
    PROVE  /\ SubSeq(a \o b, 1, Len(a)) = a
           /\ SubSeq(a \o b, Len(a) + 1, Len(a) + Len(b)) = b
<1> DEFINE c == a \o b
           m == Len(a)
           n == Len(b)
<1>1. /\ c \in Seq(S) /\ Len(c) = m + n
      /\ \A i \in 1..(m + n) : c[i] = IF i <= m THEN a[i] ELSE b[i - m]
  BY ConcatProperties
<1>2. m \in Nat /\ n \in Nat
  BY LenProperties
<1> HIDE DEF c
<1>3. \A i \in 1..(m + n) : c[i] \in S
  BY <1>1, ElementOfSeq
<1> DEFINE x == SubSeq(c, 1, m)
           y == SubSeq(c, m + 1, m + n)
<1>4. x = a
  <2>1. 1 \in Int /\ m \in Int /\ \A i \in 1..m : i \in 1..(m + n) /\ c[i] \in S
    BY <1>2, <1>3
  <2>2. /\ x \in Seq(S) /\ Len(x) = IF 1 <= m THEN m - 1 + 1 ELSE 0
        /\ \A i \in 1..(m - 1 + 1) : x[i] = c[1 + i - 1]
    BY <2>1, SubSeqProperties
  <2> HIDE DEF x
  <2>3. Len(x) = m
    BY <1>2, <2>2
  <2>4. ASSUME NEW i \in 1..Len(x) PROVE x[i] = a[i]
    <3>1. i \in 1..(m - 1 + 1) /\ 1 + i - 1 = i /\ i <= m /\ i \in 1..(m + n)
      BY <1>2, <2>3
    <3> QED  BY <1>1, <2>2, <3>1
  <2> HIDE DEF m
  <2>5. Len(x) = Len(a)
    BY <2>3 DEF m
  <2> QED  BY <2>2, <2>4, <2>5, SeqEqual
<1>5. y = b
  <2>1. m + 1 \in Int /\ m + n \in Int
        /\ \A i \in (m + 1)..(m + n) : i \in 1..(m + n) /\ c[i] \in S
    BY <1>2, <1>3
  <2>2. /\ y \in Seq(S) /\ Len(y) = IF m + 1 <= m + n THEN (m + n) - (m + 1) + 1 ELSE 0
        /\ \A i \in 1..((m + n) - (m + 1) + 1) : y[i] = c[(m + 1) + i - 1]
    BY <2>1, SubSeqProperties
  <2> HIDE DEF y
  <2>3. Len(y) = n
    BY <1>2, <2>2
  <2>4. ASSUME NEW i \in 1..Len(y) PROVE y[i] = b[i]
    <3>1. i \in 1..((m + n) - (m + 1) + 1) /\ (m + 1) + i - 1 = m + i /\ ~(m + i <= m)
          /\ m + i \in 1..(m + n) /\ (m + i) - m = i
      BY <1>2, <2>3
    <3> QED  BY <1>1, <2>2, <3>1
  <2> HIDE DEF n
  <2>5. Len(y) = Len(b)
    BY <2>3 DEF n
  <2> QED  BY <2>2, <2>4, <2>5, SeqEqual
<1> QED  BY <1>4, <1>5 DEF x, y, c, m, n

\* The invariant says what NewestIsKept says.
LEMMA HoldsNewest == IInv => NewestIsKept
<1> SUFFICES ASSUME IInv PROVE NewestIsKept
  OBVIOUS
<1>1. Len(log) < Capacity /\ Len(out) < OutSize /\ log \in Seq(Tokens) /\ said \in Seq(Saids)
  BY DEF IInv, LogHolds, CallTyped
<1> DEFINE e == said[Len(said)]
           newest == Entry(e.role, e.text)
           size == IF Len(newest) < Len(log) THEN Len(newest) ELSE Len(log)
<1>2. ASSUME helper = "multi", said # <<>>
      PROVE  /\ size = Len(newest)
             /\ Len(newest) < Tmp => SubSeq(log, Len(log) - size + 1, Len(log)) = newest
             /\ \/ SubSeq(log, 1, Len(log) - size) = <<>>
                \/ Last(SubSeq(log, 1, Len(log) - size)) \in {NL, Junk}
  <2>1. e \in Saids
    <3>1. Len(said) \in 1..Len(said)
      <4>1. Len(said) \in Nat /\ Len(said) # 0
        BY <1>1, <1>2, EmptySeq, LenProperties
      <4> QED  BY <4>1
    <3> QED  BY <1>1, <3>1, ElementOfSeq
  <2>2. e.role \in Roles /\ e.text \in Seq(Tokens)
    BY <2>1 DEF Saids
  <2>3. PICK old \in Seq(Tokens), new \in Written(helper, e) :
          log = old \o new /\ Ending(old, {NL, Junk})
    BY <1>2 DEF IInv, LogHolds
  <2>4. new \in Formatted(e.role, e.text)
    BY <1>2, <2>3 DEF Written
  <2>5. /\ new \in Seq(Tokens) /\ Len(new) = Len(e.text) + 2
        /\ Len(e.text) + 2 < Tmp => new = newest
    BY <2>2, <2>4, FormattedTyped
  <2>6. Len(newest) = Len(e.text) + 2 /\ Len(e.text) \in Nat
    BY <2>2, EntryTyped
  <2>7. Len(log) = Len(old) + Len(new) /\ Len(old) \in Nat
    BY <2>3, <2>5, ConcatProperties, LenProperties
  <2>8. SubSeq(log, 1, Len(old)) = old /\ SubSeq(log, Len(old) + 1, Len(old) + Len(new)) = new
    BY <2>3, <2>5, JoinParts
  <2> HIDE DEF e, newest
  <2>9. size = Len(newest) /\ Len(log) - size = Len(old)
    BY <2>5, <2>6, <2>7
  <2> HIDE DEF size
  <2>10. /\ SubSeq(log, 1, Len(log) - size) = old
         /\ SubSeq(log, Len(log) - size + 1, Len(log)) = new
    BY <2>7, <2>8, <2>9
  <2>11. old = <<>> \/ Last(old) \in {NL, Junk}
    BY <2>3 DEF Ending, Last
  <2>12. Len(newest) < Tmp => new = newest
    BY <2>5, <2>6
  <2> QED  BY <2>9, <2>10, <2>11, <2>12
<1> QED  BY <1>1, <1>2 DEF NewestIsKept, Last

\* "multi" always finds room: what was said last stands whole at the end of its log behind the
\* end of a line, however much append_log threw away for it; and no log and no answer outgrows
\* its memory.
THEOREM NewestStaysKept == HSpec => []NewestIsKept
  BY LogInvariant, HoldsNewest, PTL

\* A log nothing is thrown away from reads as what was said: build_messages_json gives, entry by
\* entry, the first line of each, and the later ones that begin like an entry.
THEOREM LogStaysReadable == HSpec => []LogsReadAsSaid
<1>1. IInv => LogsReadAsSaid
  BY DEF IInv, LogHolds, LogsReadAsSaid, LogReadsAsSaid, Conversation
<1> QED  BY <1>1, LogInvariant, PTL

\* The invariant says what StreamsOnce says.
LEMMA HoldsStreamed == IInv => StreamsOnce
<1> SUFFICES ASSUME IInv, helper \in {"socket", "multi"} PROVE StreamedOnce
  BY DEF StreamsOnce
<1>1. /\ StreamHolds /\ phase \in {"idle", "calling"}
      /\ got \in Seq(Parts) /\ wire \in Seq(Parts)
  BY DEF IInv, CallTyped
<1>2. CASE phase = "idle"
  BY <1>1, <1>2 DEF StreamHolds, StreamedOnce
<1>3. CASE phase = "calling"
  <2> DEFINE l == Lines(got).texts
             r == Lines(got).rest
             n == Len(got)
  <2>1. Formed(got) /\ streamed = FlattenSeq(l)
    BY <1>1, <1>3, FormedFront DEF StreamHolds
  <2>2. Tip(got) /\ TextsOf(got) = l \o Parsed(r)
    BY <1>1, <2>1, StreamRead
  <2>3. l \in Seq(Seq(Tokens)) /\ l \o <<>> = l
    <3>1. l \in Seq(Seq(Tokens))
      BY <1>1, LinesByLine DEF LineByLine
    <3> QED  BY <3>1, ConcatEmptySeq
  <2>4. phase # "idle" /\ Last(got) = got[n]
    BY <1>3 DEF Last
  <2> HIDE DEF l
  <2>5. CASE (got = <<>> \/ got[n] = EndOfLine) /\ r = <<>>
    <3>1. Parsed(r) = <<>>
      BY <2>5 DEF Parsed
    <3>2. got = <<>> \/ Last(got) # Closes
      BY <2>4, <2>5, PartsTyped
    <3> QED  BY <2>1, <2>2, <2>3, <3>1, <3>2 DEF StreamedOnce
  <2>6. CASE got # <<>> /\ got[n].part = "open" /\ r = <<got[n]>>
    <3>1. Parsed(r) = <<>>
      BY <2>6 DEF Parsed
    <3>2. Last(got) # Closes
      BY <2>4, <2>6, PartsTyped
    <3> QED  BY <2>1, <2>2, <2>3, <3>1, <3>2 DEF StreamedOnce
  <2>7. CASE /\ n > 1 /\ got[n] = Closes /\ got[n - 1] \in Parts /\ got[n - 1].part = "open"
             /\ r = <<got[n - 1], Closes>>
    <3> DEFINE text == got[n - 1].text
    <3>1. Parsed(r) = <<text>> /\ text \in Seq(Tokens)
      BY <2>7 DEF Parsed, Parts
    <3> HIDE DEF text
    <3>2. <<text>> \in Seq(Seq(Tokens)) /\ Len(<<text>>) = 1
      BY <3>1
    <3>3. TextsOf(got) = l \o <<text>>
      BY <2>2, <3>1
    <3>4. Len(l \o <<text>>) - 1 = Len(l)
      <4>1. Len(l \o <<text>>) = Len(l) + Len(<<text>>) /\ Len(l) \in Nat
        BY <2>3, <3>2, ConcatProperties, LenProperties
      <4> QED  BY <3>2, <4>1
    <3>5. Front(TextsOf(got)) = l
      <4>1. SubSeq(l \o <<text>>, 1, Len(l)) = l
        BY <2>3, <3>2, JoinParts
      <4> QED  BY <3>3, <3>4, <4>1, Zenon DEF Front
    <3>6. got # <<>>
      BY <2>7, EmptySeq
    <3>7. ~(phase = "idle" \/ got = <<>> \/ Last(got) # Closes)
      BY <2>4, <2>7, <3>6
    <3> QED  BY <2>1, <3>5, <3>7 DEF StreamedOnce
  <2> QED  BY <2>2, <2>5, <2>6, <2>7 DEF Tip
<1> QED  BY <1>1, <1>2, <1>3

\* However the answer is cut into calls of stream_callback, the shell is given each of its texts
\* once and in order, those of an incomplete last line included when the transfer ends.
THEOREM StreamStaysOnce == HSpec => []StreamsOnce
  BY LogInvariant, HoldsStreamed, PTL

\* A text without a role gives no message.
LEMMA NoRoles ==
    \A s \in Seq(Tokens) : (\A i \in 1..Len(s) : s[i] \notin Roles) => Messages(s) = <<>>
<1> DEFINE W == Tokens \ Roles
           M == {s \in Seq(W) : Messages(s) = <<>>}
<1>1. \A s \in Seq(W) : s \in Seq(Tokens)
  <2>1. W \subseteq Tokens
    OBVIOUS
  <2> HIDE DEF W
  <2> SUFFICES ASSUME NEW s \in Seq(W) PROVE s \in Seq(Tokens)
    OBVIOUS
  <2>2. \A i \in 1..Len(s) : s[i] \in Tokens
    BY <2>1, ElementOfSeq
  <2>3. s = [i \in 1..Len(s) |-> s[i]] /\ Len(s) \in Nat
    OBVIOUS
  <2> QED  BY <2>2, <2>3, IsASeq
<1>2. \A line \in Seq(W) : Message(line) = <<>>
  <2> SUFFICES ASSUME NEW line \in Seq(W), Len(line) > 1 PROVE Head(line) \notin Roles
    BY DEF Message
  <2>1. 1 \in 1..Len(line) /\ Head(line) = line[1]
    BY LenProperties
  <2>2. line[1] \in W
    BY <2>1, ElementOfSeq
  <2> QED  BY <2>1, <2>2
<1>3. <<>> \in M
  <2>1. <<>> \in Seq(W) /\ <<>> \in Seq(Tokens) /\ Unended(<<>>, NL)
    BY EmptySeq DEF Unended
  <2>2. Mapped(<<>>, NL, MessageOf) = <<>>
    BY <2>1, MessagesByLine DEF LineByLine
  <2>3. Messages(<<>>) = <<>>
    BY <2>1, <2>2, MessagesByLine
  <2> QED  BY <2>1, <2>3
<1>4. ASSUME NEW s \in M, NEW x \in W PROVE Append(s, x) \in M
  <2> HIDE DEF W
  <2>1. s \in Seq(W) /\ s \in Seq(Tokens) /\ Messages(s) = <<>> /\ x \in Tokens
    BY <1>1 DEF W
  <2>2. Append(s, x) \in Seq(W) /\ Append(s, x) \in Seq(Tokens)
    BY <2>1, AppendProperties
  <2>3. Message(Split(s, NL).rest) = <<>> /\ MessageOf[Split(s, NL).rest] = <<>>
    <3>1. Split(s, NL) \in Pieces(W)
      BY <2>1, SplitGrows
    <3>2. Split(s, NL).rest \in Seq(W)
      BY <3>1 DEF Pieces
    <3> QED  BY <1>1, <1>2, <3>2 DEF MessageOf
  <2>4. Mapped(Append(s, x), NL, MessageOf) =
          IF x = NL THEN Mapped(s, NL, MessageOf) \o MessageOf[Split(s, NL).rest]
          ELSE Mapped(s, NL, MessageOf)
    BY <2>1, MessagesByLine DEF LineByLine
  <2>5. /\ Messages(Append(s, x)) = Mapped(Append(s, x), NL, MessageOf)
        /\ Messages(s) = Mapped(s, NL, MessageOf)
    BY <2>1, <2>2, MessagesByLine
  <2>6. <<>> \o <<>> = <<>>
    BY EmptySeq, ConcatEmptySeq
  <2>7. Messages(Append(s, x)) = <<>>
    BY <2>1, <2>3, <2>4, <2>5, <2>6
  <2> QED  BY <2>2, <2>7
<1>5. M = Seq(W)
  <2> HIDE DEF M
  <2>1. M \subseteq Seq(W)
    BY DEF M
  <2> QED  BY <1>3, <1>4, <2>1, EverySequence
<1>6. ASSUME NEW s \in Seq(Tokens), \A i \in 1..Len(s) : s[i] \notin Roles PROVE s \in Seq(W)
  <2>1. \A i \in 1..Len(s) : s[i] \in W
    BY <1>6, ElementOfSeq
  <2> HIDE DEF W
  <2>2. s = [i \in 1..Len(s) |-> s[i]] /\ Len(s) \in Nat
    OBVIOUS
  <2> QED  BY <2>1, <2>2, IsASeq
<1> QED  BY <1>5, <1>6

\* The invariant says what AsksIt says.
LEMMA HoldsAsked == IInv => AsksIt
<1> SUFFICES ASSUME IInv, Junk \notin Range(log), phase = "calling", said # <<>>,
                    Last(said) = [role |-> User, text |-> prompt],
                    FirstLine(prompt) # <<>>, Roles \cap Range(prompt) = {}
             PROVE  messages # <<>> /\ <<Last(messages)>> = Message(<<User>> \o FirstLine(prompt))
  BY DEF AsksIt, AsksTheQuestion
<1> DEFINE e == said[Len(said)]
           f == FirstLine(prompt)
           l == Later(prompt)
           whole == Entry(User, prompt)
<1>1. e.role = User /\ e.text = prompt /\ User \in Roles /\ prompt \in Seq(Tokens)
  BY DEF Last, Roles, IInv, CallTyped
<1>2. messages = Messages(log) /\ log \in Seq(Tokens)
  BY DEF IInv, LogHolds
<1>3. PICK old \in Seq(Tokens), new \in Written(helper, e) :
        log = old \o new /\ Ending(old, {NL, Junk})
  BY DEF IInv, LogHolds
<1> HIDE DEF e
<1>4. whole \in Seq(Tokens) /\ Len(whole) = Len(prompt) + 2 /\ Len(prompt) \in Nat
  BY <1>1, EntryTyped
<1>5. new \in Formatted(User, prompt) \/ new = whole
  BY <1>1, <1>3 DEF Written
<1>6. new \in Seq(Tokens)
  BY <1>1, <1>4, <1>5, FormattedTyped
<1> HIDE DEF whole
<1>7. \A i \in 1..Len(log) : log[i] # Junk
  <2>1. DOMAIN log = 1..Len(log)
    BY <1>2, LenProperties
  <2> QED  BY <2>1 DEF Range
<1>8. /\ Len(log) = Len(old) + Len(new) /\ Len(old) \in Nat /\ Len(new) \in Nat
      /\ \A i \in 1..(Len(old) + Len(new)) :
           log[i] = IF i <= Len(old) THEN old[i] ELSE new[i - Len(old)]
  BY <1>3, <1>6, ConcatProperties, LenProperties
<1>9. \A i \in 1..Len(new) : new[i] # Junk
  <2> SUFFICES ASSUME NEW i \in 1..Len(new) PROVE new[i] # Junk
    OBVIOUS
  <2>1. /\ Len(old) + i \in 1..(Len(old) + Len(new)) /\ ~(Len(old) + i <= Len(old))
        /\ (Len(old) + i) - Len(old) = i
    BY <1>8
  <2>2. log[Len(old) + i] = new[i]
    BY <1>8, <2>1
  <2> QED  BY <1>7, <1>8, <2>1, <2>2
<1>10. new = whole
  <2> SUFFICES ASSUME new \in Formatted(User, prompt) PROVE new = whole
    BY <1>5
  <2>1. /\ Len(prompt) + 2 < Tmp => new = Entry(User, prompt)
        /\ Len(prompt) + 2 >= Tmp => \E i \in 1..Len(new) : new[i] = Junk
    BY <1>1, FormattedTyped
  <2>2. Len(prompt) + 2 < Tmp
    <3>1. Len(prompt) \in Nat /\ Tmp \in Nat
      BY <1>4, LogConstants
    <3>2. ~(Len(prompt) + 2 >= Tmp)
      BY <1>9, <2>1
    <3> QED  BY <3>1, <3>2
  <2> QED  BY <2>1, <2>2 DEF whole
<1>11. old = <<>> \/ Last(old) = NL
  <2> SUFFICES ASSUME old # <<>> PROVE Last(old) = NL
    OBVIOUS
  <2>1. Len(old) # 0
    BY EmptySeq
  <2>2. Len(old) \in 1..(Len(old) + Len(new)) /\ Len(old) <= Len(old)
    BY <1>8, <2>1
  <2>3. log[Len(old)] = old[Len(old)]
    BY <1>8, <2>2
  <2>4. old[Len(old)] # Junk
    BY <1>7, <1>8, <2>2, <2>3
  <2> QED  BY <1>3, <2>4 DEF Ending, Last
<1>12. Messages(log) = Messages(old) \o Messages(whole)
  <2>1. Split(old, NL).rest = <<>>
    BY <1>11, EndedRest
  <2> QED  BY <1>3, <1>4, <1>10, <2>1, MessagesBehind
<1>13. Messages(whole) = Message(<<User>> \o f) \o Messages(l \o <<NL>>)
  BY <1>1, EntryRead DEF whole
<1>14. Messages(l \o <<NL>>) = <<>>
  <2>1. \A i \in 1..Len(prompt) : prompt[i] \notin Roles
    <3>1. DOMAIN prompt = 1..Len(prompt)
      BY <1>1, LenProperties
    <3> QED  BY <3>1 DEF Range
  <2>2. l \in Seq(Tokens) /\ \A i \in 1..Len(l) : l[i] \notin Roles
    <3>1. CASE f = prompt /\ l = <<>>
      BY <3>1, EmptySeq
    <3>2. ASSUME NEW p \in 1..Len(prompt), Len(l) = Len(prompt) - p,
                 \A i \in 1..(Len(prompt) - p) : l[i] = prompt[p + i]
          PROVE  \A i \in 1..Len(l) : l[i] \notin Roles
      <4> SUFFICES ASSUME NEW i \in 1..Len(l) PROVE l[i] \notin Roles
        OBVIOUS
      <4>1. i \in 1..(Len(prompt) - p) /\ p + i \in 1..Len(prompt)
        BY <1>4, <3>2
      <4> QED  BY <2>1, <3>2, <4>1
    <3>3. /\ l \in Seq(Tokens)
          /\ \/ f = prompt /\ l = <<>>
             \/ \E p \in 1..Len(prompt) :
                  /\ prompt[p] = NL /\ Len(f) = p - 1
                  /\ \A i \in 1..(p - 1) : f[i] = prompt[i]
                  /\ Len(l) = Len(prompt) - p
                  /\ \A i \in 1..(Len(prompt) - p) : l[i] = prompt[p + i]
      BY <1>1, FirstAndLater
    <3> HIDE DEF f, l
    <3> QED  BY <3>1, <3>2, <3>3
  <2> HIDE DEF l
  <2>3. NL \in Tokens /\ NL \notin Roles
    BY LogConstants DEF Tokens
  <2> DEFINE b == Append(l, NL)
  <2>4. l \o <<NL>> = b
    BY <2>2, <2>3, AppendIsConcat
  <2>5. /\ b \in Seq(Tokens) /\ Len(b) = Len(l) + 1 /\ b[Len(l) + 1] = NL
        /\ \A i \in 1..Len(l) : b[i] = l[i]
    BY <2>2, <2>3, AppendProperties
  <2> HIDE DEF b
  <2>6. \A i \in 1..Len(b) : b[i] \notin Roles
    <3> SUFFICES ASSUME NEW i \in 1..Len(b) PROVE b[i] \notin Roles
      OBVIOUS
    <3>1. i \in 1..Len(l) \/ i = Len(l) + 1
      BY <2>2, <2>5, LenProperties
    <3> QED  BY <2>2, <2>3, <2>5, <3>1
  <2> QED  BY <2>4, <2>5, <2>6, NoRoles
<1> DEFINE u == <<User>> \o f
<1>15. u \in Seq(Tokens) /\ Len(u) > 1 /\ Head(u) = User
  <2>1. f \in Seq(Tokens) /\ <<User>> \in Seq(Tokens) /\ Len(<<User>>) = 1 /\ <<User>>[1] = User
    <3>1. User \in Tokens
      BY DEF Tokens
    <3>2. f \in Seq(Tokens)
      BY <1>1, FirstAndLater
    <3> QED  BY <3>1, <3>2
  <2>2. /\ u \in Seq(Tokens) /\ Len(u) = 1 + Len(f)
        /\ \A i \in 1..(1 + Len(f)) : u[i] = IF i <= 1 THEN <<User>>[i] ELSE f[i - 1]
    BY <2>1, ConcatProperties
  <2>3. Len(f) \in Nat /\ Len(f) # 0
    BY <2>1, EmptySeq, LenProperties
  <2> HIDE DEF u, f
  <2>4. u[1] = User /\ Len(u) > 1
    BY <2>1, <2>2, <2>3
  <2>5. Head(u) = u[1]
    BY <2>2, <2>4
  <2> QED  BY <2>2, <2>4, <2>5
<1> HIDE DEF u, f, l
<1>16. PICK m \in Msgs : Message(u) = <<m>>
  <2>1. \E m : Message(u) = <<m>>
    BY <1>1, <1>15 DEF Message
  <2>2. PICK m : Message(u) = <<m>>
    BY <2>1
  <2>3. <<m>> \in Seq(Msgs)
    BY <1>15, <2>2, MessageTyped
  <2>4. m \in Msgs
    <3>1. Len(<<m>>) = 1 /\ <<m>>[1] = m /\ 1 \in 1..1
      OBVIOUS
    <3> QED  BY <2>3, <3>1, ElementOfSeq
  <2> QED  BY <2>2, <2>4
<1>17. Messages(whole) = <<m>>
  <2>1. <<m>> \o <<>> = <<m>>
    <3>1. <<m>> \in Seq(Msgs)
      BY <1>16
    <3> QED  BY <3>1, ConcatEmptySeq
  <2> QED  BY <1>13, <1>14, <1>16, <2>1 DEF u
<1>18. Messages(old) \in Seq(Msgs)
  BY MessagesByLine DEF LineByLine
<1>19. messages = Append(Messages(old), m)
  BY <1>2, <1>12, <1>17, <1>18, AppendIsConcat
<1>20. messages # <<>> /\ Last(messages) = m
  BY <1>18, <1>19, LastOfAppend DEF Last
<1> QED  BY <1>16, <1>20 DEF u, f

\* The last message the model is sent is the first line of the question, if its entry found room
\* and its other lines do not begin like one.
THEOREM QuestionIsAsked == HSpec => []AsksIt
  BY LogInvariant, HoldsAsked, PTL

\* What is noted last.
LEMMA NotedLast ==
    ASSUME said \in Seq(Saids), NEW role \in Roles, NEW text \in Seq(Tokens),
           Noted(role, text) # said
    PROVE  Last(Noted(role, text)) = [role |-> role, text |-> text]
<1> DEFINE x == [role |-> role, text |-> text]
<1>1. Noted(role, text) = Append(said, x) /\ x \in Saids
  BY DEF Noted, Saids
<1> HIDE DEF x
<1>2. Last(Append(said, x)) = x
  BY <1>1, LastOfAppend DEF Last
<1> QED  BY <1>1, <1>2 DEF x

\* A step logs no answer but the one that was shown, or that response has no room for.
LEMMA StepShows ==
    ASSUME IInv, HNext, said' # said, said' # <<>>, Last(said').role = Assistant
    PROVE  Last(said').text = streamed' \/ Len(streamed') + 1 >= OutSize
<1>1. /\ said \in Seq(Saids) /\ User \in Roles /\ Assistant \in Roles /\ User # Assistant
      /\ UNCHANGED helper /\ CallTyped
  BY LogConstants DEF IInv, LogHolds, Roles, HNext
<1>2. \A x : Last(<<x>>) = x
  BY DEF Last
<1>3. ASSUME NEW text, text \in Seq(Tokens),
             said' = Noted(User, text) \/ said' = <<[role |-> User, text |-> text]>>
      PROVE  FALSE
  <2>1. Last(said') = [role |-> User, text |-> text]
    BY <1>1, <1>2, <1>3, NotedLast
  <2> QED  BY <1>1, <2>1
<1>4. ASSUME NEW text, text \in Seq(Tokens),
             said' = Noted(Assistant, text) \/ said' = <<[role |-> Assistant, text |-> text]>>
      PROVE  Last(said').text = text
  <2>1. Last(said') = [role |-> Assistant, text |-> text]
    BY <1>1, <1>2, <1>4, NotedLast
  <2> QED  BY <2>1
<1>5. CASE SocketTurn
  <2>1. CASE Call
    BY <1>3, <2>1, PromptTyped DEF Call
  <2>2. CASE \E n \in 1..Len(wire) : Piece(n)
    BY <2>2 DEF Piece
  <2>3. CASE CallEnds
    <3> DEFINE answer == Kept(out, Parsed(buf))
    <3>1. Ends(answer) /\ helper = "socket"
      BY <1>1, <1>5, <2>3 DEF CallEnds, Ends, SocketTurn
    <3>2. said' = Noted(Assistant, answer)
      BY <2>3 DEF CallEnds
    <3> HIDE DEF answer
    <3>3. /\ answer \in Seq(Tokens)
          /\ answer = streamed' \/ Len(streamed') + 1 >= OutSize
      BY <3>1, StreamEnds
    <3> QED  BY <1>4, <3>2, <3>3
  <2> QED  BY <1>5, <2>1, <2>2, <2>3 DEF SocketTurn
<1>6. CASE MultiTurn
  <2>1. CASE MultiAsks
    BY <1>3, <2>1, PromptTyped DEF MultiAsks
  <2>2. CASE \E n \in 1..Len(wire) : stream_callback(n)
    BY <2>2 DEF stream_callback, Piece
  <2>3. CASE MultiEnds
    <3> DEFINE answer == Kept(out, Parsed(buf))
    <3>1. Ends(answer) /\ helper = "multi"
      BY <1>1, <1>6, <2>3 DEF MultiEnds, Ends, MultiTurn
    <3>2. said' = <<[role |-> Assistant, text |-> answer]>>
      BY <2>3 DEF MultiEnds
    <3> HIDE DEF answer
    <3>3. /\ answer \in Seq(Tokens)
          /\ answer = streamed' \/ Len(streamed') + 1 >= OutSize
      BY <3>1, StreamEnds
    <3> QED  BY <1>4, <3>2, <3>3
  <2> QED  BY <1>6, <2>1, <2>2, <2>3 DEF MultiTurn
<1>7. CASE PlainAsks
  <2>1. prompt' \in Seq(Tokens)
    BY <1>7, PromptTyped, NothingCame DEF PlainAsks, PlainPrompts
  <2> QED  BY <1>3, <1>7, <2>1 DEF PlainAsks
<1>8. CASE \E n \in 1..Len(wire) : write_callback(n)
  BY <1>8 DEF write_callback
<1>9. CASE PlainEnds /\ helper \in {"pipe", "shm"}
  <2>1. /\ wire = <<>> /\ Parsed(buf) # <<>> /\ said' = Noted(Assistant, out')
        /\ streamed' = out'
    BY <1>9 DEF PlainEnds, Answered
  <2>2. out' \in Seq(Tokens)
    <3>1. IInv'
      BY <1>1, <1>9, PlainHolds
    <3> QED  BY <3>1 DEF IInv, CallTyped
  <2> QED  BY <1>4, <2>1, <2>2
<1>10. CASE Restart
  BY <1>10 DEF Restart
<1> QED  BY <1>5, <1>6, <1>7, <1>8, <1>9, <1>10 DEF HNext, PipeTurn, ShmTurn

\* Every answer append_log is given is the text the shell was given, unless response had no
\* room for that.
THEOREM ShownIsLogged == HSpec => LogsWhatWasShown
<1> DEFINE A == said' # said /\ said' # <<>> /\ Last(said').role = Assistant =>
                  \/ Last(said').text = streamed'
                  \/ Len(streamed') + 1 >= OutSize
<1>1. IInv /\ [HNext]_hvars => [A]_vars
  <2>1. ASSUME IInv, HNext PROVE A
    BY <2>1, StepShows
  <2>2. UNCHANGED hvars => UNCHANGED vars
    BY DEF hvars
  <2> QED  BY <2>1, <2>2
<1>2. HSpec => [][A]_vars
  <2> HIDE DEF A
  <2> QED  BY <1>1, LogInvariant, PTL DEF HSpec
<1> QED  BY <1>2 DEF LogsWhatWasShown
===============================================================================
