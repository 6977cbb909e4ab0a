--------------------------- MODULE SocketChatProofs ---------------------------
(* Theorems about SocketChat, for every marker, every text and all sizes with *)
(* which a read still fits behind what the shell keeps back.                 *)
EXTENDS SocketChat, SequenceTheorems, WellFoundedInduction, TLAPS

-----------------------------------------------------------------------------
(* Sequences.                                                               *)

\* Concatenation is associative.  The equation has a name, so that its instances are found by
\* that name.
Regrouped(x, y, z) == (x \o y) \o z = x \o (y \o z)

\* What is joined of bytes is bytes.
LEMMA Joined == \A x, y \in Seq(Bytes) : x \o y \in Seq(Bytes)
  OBVIOUS

\* So it is for bytes.
LEMMA Regrouping == \A x, y, z \in Seq(Bytes) : Regrouped(x, y, z)
  BY DEF Regrouped

\* A part of a sequence, element by element.
LEMMA Part ==
    ASSUME NEW S, NEW s \in Seq(S), NEW a \in Nat, NEW b \in Nat, a <= b, b <= Len(s)
    PROVE  /\ SubSeq(s, a + 1, b) \in Seq(S)
           /\ Len(SubSeq(s, a + 1, b)) = b - a
           /\ \A i \in 1..(b - a) : SubSeq(s, a + 1, b)[i] = s[a + i]
<1>1. Len(s) \in Nat /\ s \in [1..Len(s) -> S]
  BY LenProperties
<1>2. /\ a + 1 \in Int /\ b \in Int
      /\ \A i \in (a + 1)..b : s[i] \in S
  BY <1>1
<1>3. /\ SubSeq(s, a + 1, b) \in Seq(S)
      /\ Len(SubSeq(s, a + 1, b)) = IF a + 1 <= b THEN b - (a + 1) + 1 ELSE 0
      /\ \A i \in 1..(b - (a + 1) + 1) : SubSeq(s, a + 1, b)[i] = s[a + 1 + i - 1]
  BY <1>2, SubSeqProperties
<1>4. QED
  BY <1>3

\* The front and the back of a sequence, element by element.
LEMMA Ends ==
    ASSUME NEW S, NEW s \in Seq(S), NEW n \in 0..Len(s)
    PROVE  /\ Prefix(s, n) \in Seq(S) /\ Len(Prefix(s, n)) = n
           /\ \A i \in 1..n : Prefix(s, n)[i] = s[i]
           /\ Drop(s, n) \in Seq(S) /\ Len(Drop(s, n)) = Len(s) - n
           /\ \A i \in 1..(Len(s) - n) : Drop(s, n)[i] = s[n + i]
<1>1. Len(s) \in Nat /\ n \in Nat /\ n <= Len(s)
  BY LenProperties
<1>2. /\ Prefix(s, n) \in Seq(S) /\ Len(Prefix(s, n)) = n
      /\ \A i \in 1..n : Prefix(s, n)[i] = s[i]
  <2>1. /\ SubSeq(s, 0 + 1, n) \in Seq(S) /\ Len(SubSeq(s, 0 + 1, n)) = n - 0
        /\ \A i \in 1..(n - 0) : SubSeq(s, 0 + 1, n)[i] = s[0 + i]
    BY <1>1, Part
  <2>2. 0 + 1 = 1 /\ n - 0 = n /\ \A i \in 1..n : 0 + i = i
    BY <1>1
  <2>3. QED
    BY <2>1, <2>2 DEF Prefix
<1>3. QED
  BY <1>1, <1>2, Part DEF Drop

\* Cutting a sequence in two loses nothing.
LEMMA Cutting ==
    ASSUME NEW S, NEW s \in Seq(S), NEW n \in 0..Len(s)
    PROVE  Prefix(s, n) \o Drop(s, n) = s
<1>1. Len(s) \in Nat /\ n \in Nat /\ n <= Len(s)
  BY LenProperties
<1>2. /\ Prefix(s, n) \in Seq(S) /\ Len(Prefix(s, n)) = n
      /\ \A i \in 1..n : Prefix(s, n)[i] = s[i]
      /\ Drop(s, n) \in Seq(S) /\ Len(Drop(s, n)) = Len(s) - n
      /\ \A i \in 1..(Len(s) - n) : Drop(s, n)[i] = s[n + i]
  BY Ends
<1>3. /\ Prefix(s, n) \o Drop(s, n) \in Seq(S)
      /\ Len(Prefix(s, n) \o Drop(s, n)) = Len(s)
      /\ \A i \in 1..Len(s) : (Prefix(s, n) \o Drop(s, n))[i] =
             IF i <= n THEN Prefix(s, n)[i] ELSE Drop(s, n)[i - n]
  BY <1>1, <1>2, ConcatProperties
<1>4. ASSUME NEW i \in 1..Len(s)
      PROVE  (Prefix(s, n) \o Drop(s, n))[i] = s[i]
  <2>1. CASE i <= n
    BY <1>1, <1>2, <1>3, <2>1
  <2>2. CASE i > n
    <3>1. i - n \in 1..(Len(s) - n) /\ n + (i - n) = i
      BY <1>1, <2>2
    <3>2. QED
      BY <1>1, <1>2, <1>3, <2>2, <3>1
  <2>3. i \in Nat
    BY <1>1
  <2>4. i <= n \/ i > n
    BY <1>1, <2>3
  <2>5. QED
    BY <2>1, <2>2, <2>4
<1>5. QED
  BY <1>3, <1>4, SeqEqual

\* The least element of a set of numbers.
LEMMA Least ==
    ASSUME NEW T, T \subseteq Nat, T # {}
    PROVE  \E i \in T : \A j \in T : i <= j
<1> DEFINE less == {x \in Nat \X Nat : x[1] < x[2]}
<1>1. IsWellFoundedOn(less, Nat)
  BY NatLessThanWellFounded DEF OpToRel
<1>2. PICK i \in T : \A j \in T : <<j, i>> \notin less
  BY <1>1, WFMin
<1>3. ASSUME NEW j \in T
      PROVE  i <= j
  <2>1. <<j, i>> \in Nat \X Nat /\ i \in Nat /\ j \in Nat
    OBVIOUS
  <2>2. ~(<<j, i>>[1] < <<j, i>>[2])
    BY <1>2, <2>1
  <2>3. QED
    BY <2>1, <2>2
<1>4. QED
  BY <1>3

\* strstr stops at a marker, and what is before it, the marker and the rest are the whole.
LEMMA MarkerFound ==
    ASSUME NEW s \in Seq(Bytes), Found(s) # {}
    PROVE  /\ Before(s) \in 0..Len(s)
           /\ Prefix(s, Before(s)) \in Seq(Bytes) /\ Remainder(s) \in Seq(Bytes)
           /\ Prefix(s, Before(s)) \o Marker \o Remainder(s) = s
<1> DEFINE p == Before(s)
           m == Len(Marker)
<1>1. /\ Len(s) \in Nat /\ m \in Nat /\ Found(s) \subseteq 1..Len(s)
      /\ Marker \in Seq(Bytes)
  BY LenProperties, TextsOK DEF Found
<1>2. \E i \in Found(s) : \A j \in Found(s) : i <= j
  BY <1>1, Least
<1>3. PICK i \in Found(s) : i = (CHOOSE k \in Found(s) : \A j \in Found(s) : k <= j)
  BY <1>2
<1>4. p = i - 1 /\ i \in 1..Len(s)
  BY <1>1, <1>3 DEF Before
<1>5. /\ p \in 0..Len(s) /\ p + m \in 0..Len(s)
      /\ SubSeq(s, p + 1, p + m) = Marker
  <2>1. i + m - 1 <= Len(s) /\ SubSeq(s, i, i + m - 1) = Marker
    BY DEF Found
  <2>2. i = p + 1 /\ i + m - 1 = p + m
    BY <1>1, <1>4
  <2>3. QED
    BY <1>1, <1>4, <2>1, <2>2
<1> HIDE DEF p, m
<1>6. /\ Marker \o Remainder(s) = Drop(s, p)
      /\ Remainder(s) \in Seq(Bytes)
  <2>1. \A k \in 1..m : Marker[k] = s[p + k]
    <3>1. p \in Nat /\ p + m \in Nat /\ p <= p + m /\ p + m <= Len(s) /\ p + m - p = m
      BY <1>1, <1>5
    <3>2. \A k \in 1..(p + m - p) : SubSeq(s, p + 1, p + m)[k] = s[p + k]
      <4> DEFINE q == p + m
      <4>1. q \in Nat /\ p \in Nat /\ p <= q /\ q <= Len(s)
        BY <3>1
      <4>0. q = p + m /\ p + m - p = q - p
        BY <1>1, <1>5
      <4> HIDE DEF q
      <4>2. \A k \in 1..(q - p) : SubSeq(s, p + 1, q)[k] = s[p + k]
        BY <4>1, Part
      <4>3. QED
        BY <4>0, <4>2
    <3>3. QED
      BY <1>5, <3>1, <3>2
  <2>2. /\ Remainder(s) \in Seq(Bytes) /\ Len(Remainder(s)) = Len(s) - (p + m)
        /\ \A k \in 1..(Len(s) - (p + m)) : Remainder(s)[k] = s[p + m + k]
    BY <1>5, Ends DEF Remainder, p, m
  <2>3. /\ Drop(s, p) \in Seq(Bytes) /\ Len(Drop(s, p)) = Len(s) - p
        /\ \A k \in 1..(Len(s) - p) : Drop(s, p)[k] = s[p + k]
    BY <1>5, Ends
  <2>4. /\ Marker \o Remainder(s) \in Seq(Bytes)
        /\ Len(Marker \o Remainder(s)) = Len(s) - p
        /\ \A k \in 1..(Len(s) - p) : (Marker \o Remainder(s))[k] =
               IF k <= m THEN Marker[k] ELSE Remainder(s)[k - m]
    BY <1>1, <1>5, <2>2, ConcatProperties DEF m
  <2>5. ASSUME NEW k \in 1..(Len(s) - p)
        PROVE  (Marker \o Remainder(s))[k] = Drop(s, p)[k]
    <3>1. k \in Nat /\ (k <= m \/ k > m) /\ Drop(s, p)[k] = s[p + k]
      BY <1>1, <1>5, <2>3
    <3>2. CASE k <= m
      <4>1. k \in 1..m
        BY <1>1, <3>1, <3>2
      <4>2. (Marker \o Remainder(s))[k] = Marker[k]
        BY <2>4, <3>2
      <4>3. QED
        BY <2>1, <3>1, <4>1, <4>2
    <3>3. CASE k > m
      <4>1. k - m \in 1..(Len(s) - (p + m)) /\ p + m + (k - m) = p + k /\ ~(k <= m)
        <5>1. /\ p \in Nat /\ m \in Nat /\ k \in Nat /\ Len(s) \in Nat
              /\ k <= Len(s) - p /\ m < k
          BY <1>1, <1>5, <3>1, <3>3
        <5>2. QED
          BY <5>1
      <4>2. (Marker \o Remainder(s))[k] = Remainder(s)[k - m]
        BY <2>4, <4>1
      <4>3. Remainder(s)[k - m] = s[p + m + (k - m)]
        BY <2>2, <4>1
      <4>4. QED
        BY <3>1, <4>1, <4>2, <4>3
    <3>4. QED
      BY <3>1, <3>2, <3>3
  <2>6. QED
    BY <2>2, <2>3, <2>4, <2>5, SeqEqual
<1>7. /\ Prefix(s, p) \in Seq(Bytes)
      /\ Prefix(s, p) \o (Marker \o Remainder(s)) = s
  BY <1>5, <1>6, Ends, Cutting
<1>8. Prefix(s, p) \o Marker \o Remainder(s) = s
  <2> DEFINE r == Remainder(s)
             f == Prefix(s, p)
  <2>1. f \in Seq(Bytes) /\ r \in Seq(Bytes) /\ Marker \in Seq(Bytes)
    BY <1>1, <1>6, <1>7
  <2> HIDE DEF r, f
  <2>2. (f \o Marker) \o r = f \o (Marker \o r)
    BY <2>1, Regrouping DEF Regrouped
  <2>3. QED
    BY <1>7, <2>2 DEF r, f
<1>9. QED
  BY <1>5, <1>6, <1>7, <1>8 DEF p

-----------------------------------------------------------------------------
(* The invariant.                                                           *)

IInv == TypeOK /\ NothingLost

\* Between two reads acc has room for what a read can return: the branch of the code for an
\* acc that would overflow is never needed.
LEMMA RoomForARead ==
    ASSUME TypeOK, NEW n \in Nat, n <= ReadSize
    PROVE  MakesRoom(n) = 0
<1>1. Len(acc) \in Nat /\ Len(Marker) \in Nat
  BY TextsOK DEF TypeOK
<1>2. n + Len(acc) < Capacity - 1
  BY <1>1, SizesOK DEF TypeOK, Margin
<1>3. QED
  BY <1>1, <1>2, SizesOK DEF MakesRoom, Margin

\* The invariant holds of a connection nobody has written to.
LEMMA Initially == Init => IInv
<1> SUFFICES ASSUME Init PROVE IInv
  OBVIOUS
<1>1. TypeOK
  BY TextsOK, SizesOK DEF Init, TypeOK, Margin
<1>2. NothingLost
  BY DEF Init, NothingLost
<1>3. QED
  BY <1>1, <1>2 DEF IInv

\* A read takes f from what is under way, prints a and b and keeps c, where b and c are what
\* was kept after a and what was read: printed, kept and under way are what they were.
Moved(t, a, b, c, d, f, e) ==
    b \o c = d \o f =>
        (((t \o a) \o b) \o c) \o e = (t \o (a \o d)) \o (f \o e)

\* Such a read moves bytes and changes none.
LEMMA Moving == \A t, a, b, c, d, f, e \in Seq(Bytes) : Moved(t, a, b, c, d, f, e)
<1> SUFFICES ASSUME NEW t \in Seq(Bytes), NEW a \in Seq(Bytes), NEW b \in Seq(Bytes),
                    NEW c \in Seq(Bytes), NEW d \in Seq(Bytes), NEW f \in Seq(Bytes),
                    NEW e \in Seq(Bytes), b \o c = d \o f
             PROVE  (((t \o a) \o b) \o c) \o e = (t \o (a \o d)) \o (f \o e)
  BY Zenon DEF Moved
<1>1. t \o a \in Seq(Bytes) /\ a \o d \in Seq(Bytes)
  BY Joined, Zenon
<1>2. t \o (a \o d) \in Seq(Bytes)
  BY <1>1, Joined, Zenon
<1>3. /\ Regrouped(t, a, d) /\ Regrouped(t \o a, b, c)
      /\ Regrouped(t \o a, d, f) /\ Regrouped(t \o (a \o d), f, e)
  BY <1>1, <1>2, Regrouping, Zenon
<1>4. ((t \o a) \o b) \o c = (t \o a) \o (b \o c)
  BY <1>3, Zenon DEF Regrouped
<1>5. ((t \o a) \o d) \o f = (t \o a) \o (d \o f)
  BY <1>3, Zenon DEF Regrouped
<1>6. (t \o a) \o d = t \o (a \o d)
  BY <1>3, Zenon DEF Regrouped
<1>7. ((t \o (a \o d)) \o f) \o e = (t \o (a \o d)) \o (f \o e)
  BY <1>3, Zenon DEF Regrouped
<1>8. ((t \o a) \o b) \o c = ((t \o a) \o d) \o f
  BY <1>4, <1>5, Zenon
<1>9. QED
  BY <1>6, <1>7, <1>8, Zenon

\* A read keeps the invariant.
LEMMA ReceiveKeeps ==
    ASSUME IInv, NEW n \in 1..Len(down), n <= ReadSize, Receive(n)
    PROVE  IInv'
<1> DEFINE s == Drop(acc, 0) \o Prefix(down, n)
<1>1. /\ acc \in Seq(Bytes) /\ down \in Seq(Bytes) /\ taken \in Seq(Bytes)
      /\ shown \in Seq(Bytes \cup {Cut}) /\ Len(acc) <= Margin
      /\ taken \o acc \o down = sent
      /\ Len(Marker) \in Nat /\ Marker \in Seq(Bytes) /\ Margin \in Nat
  BY TextsOK, SizesOK DEF IInv, TypeOK, NothingLost, Margin
<1>2. n \in Nat /\ n \in 0..Len(down) /\ 0 \in 0..Len(acc)
  BY <1>1
<1>3. MakesRoom(n) = 0
  BY <1>2, RoomForARead DEF IInv
<1>4. /\ Prefix(down, n) \in Seq(Bytes) /\ Drop(down, n) \in Seq(Bytes)
      /\ Prefix(down, n) \o Drop(down, n) = down
      /\ Prefix(acc, 0) \in Seq(Bytes) /\ Drop(acc, 0) \in Seq(Bytes)
      /\ Prefix(acc, 0) \o Drop(acc, 0) = acc
  BY <1>1, <1>2, Ends, Cutting
<1>5. s \in Seq(Bytes)
  BY <1>4
<1>6. /\ client = "reading"
      /\ down' = Drop(down, n)
      /\ UNCHANGED <<request, asked, up, helper>>
      /\ IF Found(s) # {}
         THEN /\ shown' = shown \o Prefix(acc, 0) \o Prefix(s, Before(s))
                          \o <<Cut>> \o Remainder(s)
              /\ taken' = taken \o Prefix(acc, 0) \o Prefix(s, Before(s))
                          \o Marker \o Remainder(s)
              /\ acc' = <<>>
              /\ client' = "prompt"
         ELSE /\ shown' = shown \o Prefix(acc, 0) \o Prefix(s, PrintsEarly(s))
              /\ taken' = taken \o Prefix(acc, 0) \o Prefix(s, PrintsEarly(s))
              /\ acc' = Drop(s, PrintsEarly(s))
              /\ UNCHANGED client
  BY <1>3 DEF Receive
<1>7. s = Drop(acc, 0) \o Prefix(down, n)
  OBVIOUS
<1> HIDE DEF s
<1>8. CASE Found(s) # {}
  <2> DEFINE f == Prefix(s, Before(s))
             r == Remainder(s)
             a == Prefix(acc, 0)
  <2>1. f \in Seq(Bytes) /\ r \in Seq(Bytes) /\ f \o Marker \o r = s /\ a \in Seq(Bytes)
    BY <1>4, <1>5, <1>8, MarkerFound
  <2>2. /\ shown' = shown \o a \o f \o <<Cut>> \o r
        /\ taken' = taken \o a \o f \o Marker \o r
        /\ acc' = <<>> /\ client' = "prompt"
    BY <1>6, <1>8
  <2> HIDE DEF f, r, a
  <2>3. taken' \in Seq(Bytes) /\ taken' = taken \o a \o s
    <3>1. taken \o a \in Seq(Bytes) /\ f \o Marker \in Seq(Bytes)
      BY <1>1, <2>1, Joined, Zenon
    <3>2. Regrouped(taken \o a, f, Marker) /\ Regrouped(taken \o a, f \o Marker, r)
      BY <1>1, <2>1, <3>1, Regrouping, Zenon
    <3>3. taken' = (taken \o a) \o s
      BY <2>1, <2>2, <3>2, Zenon DEF Regrouped
    <3>4. QED
      BY <1>5, <3>1, <3>3, Joined, Zenon
  <2>4. shown' \in Seq(Bytes \cup {Cut})
    <3>1. /\ a \in Seq(Bytes \cup {Cut}) /\ f \in Seq(Bytes \cup {Cut})
          /\ r \in Seq(Bytes \cup {Cut}) /\ <<Cut>> \in Seq(Bytes \cup {Cut})
      BY <2>1, SeqMonotonic
    <3>2. QED
      BY <1>1, <2>2, <3>1
  <2>5. NothingLost'
    <3>1. s \o <<>> = Drop(acc, 0) \o Prefix(down, n) /\ <<>> \in Seq(Bytes)
      BY <1>5, <1>7
    <3>2. Moved(taken, a, s, <<>>, Drop(acc, 0), Prefix(down, n), Drop(down, n))
      BY <1>1, <1>4, <1>5, <2>1, <3>1, Moving, Zenon
    <3>3. taken' \o acc' \o down' = taken \o acc \o down
      BY <1>4, <1>6, <2>2, <2>3, <3>1, <3>2, Zenon DEF Moved, a
    <3>4. QED
      BY <1>1, <1>6, <3>3 DEF NothingLost, helper
  <2>6. TypeOK'
    BY <1>1, <1>4, <1>6, <2>2, <2>3, <2>4 DEF IInv, TypeOK, helper
  <2>7. QED
    BY <2>5, <2>6 DEF IInv
<1>9. CASE Found(s) = {}
  <2> DEFINE k == PrintsEarly(s)
             b == Prefix(s, k)
             c == Drop(s, k)
             a == Prefix(acc, 0)
  <2>1. k \in 0..Len(s) /\ Len(s) - k <= Margin
    BY <1>1, <1>5 DEF PrintsEarly, Surplus
  <2>2. /\ b \in Seq(Bytes) /\ c \in Seq(Bytes) /\ Len(c) = Len(s) - k
        /\ b \o c = s /\ a \in Seq(Bytes)
    BY <1>4, <1>5, <2>1, Ends, Cutting
  <2>3. /\ shown' = shown \o a \o b
        /\ taken' = taken \o a \o b
        /\ acc' = c /\ client' = client
    BY <1>6, <1>9
  <2>4. b \o c = Drop(acc, 0) \o Prefix(down, n)
    BY <1>7, <2>2
  <2> HIDE DEF k, b, c, a
  <2>5. taken' \in Seq(Bytes)
    BY <1>1, <2>2, <2>3
  <2>6. shown' \in Seq(Bytes \cup {Cut})
    <3>1. a \in Seq(Bytes \cup {Cut}) /\ b \in Seq(Bytes \cup {Cut})
      BY <2>2, SeqMonotonic
    <3>2. QED
      BY <1>1, <2>3, <3>1
  <2>7. NothingLost'
    <3>1. Moved(taken, a, b, c, Drop(acc, 0), Prefix(down, n), Drop(down, n))
      BY <1>1, <1>4, <2>2, Moving, Zenon
    <3>2. taken' \o acc' \o down' = taken \o acc \o down
      BY <1>4, <1>6, <2>3, <2>4, <3>1, Zenon DEF Moved, a
    <3>3. QED
      BY <1>1, <1>6, <3>2 DEF NothingLost, helper
  <2>8. TypeOK'
    BY <1>1, <1>4, <1>6, <2>1, <2>2, <2>3, <2>5, <2>6 DEF IInv, TypeOK, helper
  <2>9. QED
    BY <2>7, <2>8 DEF IInv
<1>10. QED
  BY <1>8, <1>9

\* The end of the stream keeps the invariant: what is left is printed.
LEMMA StreamEndsKeeps ==
    ASSUME IInv, StreamEnds
    PROVE  IInv'
<1>1. /\ acc \in Seq(Bytes) /\ taken \in Seq(Bytes) /\ shown \in Seq(Bytes \cup {Cut})
      /\ taken \o acc \o down = sent /\ down = <<>> /\ down' = down /\ sent' = sent
      /\ shown' = shown \o acc /\ taken' = taken \o acc /\ acc' = <<>> /\ client' = "prompt"
      /\ Margin \in Nat
  BY TextsOK, SizesOK DEF IInv, TypeOK, NothingLost, StreamEnds, helper, Margin
<1>2. taken' \in Seq(Bytes) /\ taken' \o <<>> = taken'
  BY <1>1
<1>3. NothingLost'
  BY <1>1, <1>2, Zenon DEF NothingLost
<1>4. shown' \in Seq(Bytes \cup {Cut})
  <2>1. acc \in Seq(Bytes \cup {Cut})
    BY <1>1, SeqMonotonic
  <2>2. QED
    BY <1>1, <2>1
<1>5. TypeOK'
  BY <1>1, <1>2, <1>4 DEF IInv, TypeOK, StreamEnds, helper
<1>6. QED
  BY <1>3, <1>5 DEF IInv

\* With the shell its history goes, so an end of the shell keeps the invariant.
LEMMA ShellEndsKeeps ==
    ASSUME IInv, NEW how \in {"exited", "killed"}, ShellEnds(how), up' = up
    PROVE  IInv'
<1>1. Margin \in Nat
  BY TextsOK, SizesOK DEF Margin
<1>2. TypeOK'
  BY <1>1 DEF IInv, TypeOK, ShellEnds
<1>3. NothingLost'
  BY DEF NothingLost, ShellEnds
<1>4. QED
  BY <1>2, <1>3 DEF IInv

\* A write of the helper keeps the invariant: what is sent is under way.
LEMMA WriteKeeps ==
    ASSUME IInv, NEW text \in Seq(Bytes), NEW next \in {"reading", "answering", "ending"},
           Write(text, next), up' \in Seq(Bytes), rest' \in Seq(Bytes), plain' \in BOOLEAN,
           UNCHANGED shell
    PROVE  IInv'
<1>1. /\ taken \in Seq(Bytes) /\ acc \in Seq(Bytes) /\ down \in Seq(Bytes)
      /\ sent \in Seq(Bytes) /\ taken \o acc \o down = sent
  BY DEF IInv, TypeOK, NothingLost
<1>2. taken' = taken /\ acc' = acc
  BY DEF shell
<1>3. CASE Gone
  <2>1. down' = down /\ sent' = sent /\ server' \in {next, "gone"}
    BY <1>3 DEF Write
  <2>2. TypeOK'
    BY <2>1 DEF IInv, TypeOK, shell
  <2>3. QED
    BY <1>1, <1>2, <2>1, <2>2 DEF IInv, NothingLost
<1>4. CASE ~Gone
  <2>1. down' = down \o text /\ sent' = sent \o text /\ server' = next
    BY <1>4 DEF Write
  <2>2. down' \in Seq(Bytes) /\ sent' \in Seq(Bytes)
    BY <1>1, <2>1
  <2>3. TypeOK'
    BY <2>1, <2>2 DEF IInv, TypeOK, shell
  <2>4. Regrouped(taken \o acc, down, text)
    BY <1>1, Joined, Regrouping, Zenon
  <2>5. (taken \o acc) \o (down \o text) = sent \o text
    BY <1>1, <2>4, Zenon DEF Regrouped
  <2>6. NothingLost'
    BY <1>2, <2>1, <2>5, Zenon DEF NothingLost
  <2>7. QED
    BY <2>3, <2>6 DEF IInv
<1>5. QED
  BY <1>3, <1>4

\* Every step of the helper keeps the invariant.
LEMMA HelperKeeps ==
    ASSUME IInv, HelperStep
    PROVE  IInv'
<1>1. up \in Seq(Bytes) /\ rest \in Seq(Bytes) /\ plain \in BOOLEAN
  BY DEF IInv, TypeOK
<1>2. Len(up) \in Nat /\ Len(rest) \in Nat
  BY <1>1
<1>3. ASSUME NEW n \in 1..Len(up), ReadPrompt(n)
      PROVE  IInv'
  <2>1. n \in 0..Len(up)
    BY <1>2
  <2>2. up' \in Seq(Bytes)
    BY <1>1, <1>3, <2>1, Ends DEF ReadPrompt
  <2>3. plain' \in BOOLEAN
    BY <1>1, <1>3, Zenon DEF ReadPrompt
  <2>4. rest' \in Seq(Bytes) /\ server' \in {server, "answering"}
    BY <1>1, <1>3, TextsOK DEF ReadPrompt
  <2>5. UNCHANGED <<shell, down, sent>>
    BY <1>3 DEF ReadPrompt
  <2>6. TypeOK'
    BY <2>2, <2>3, <2>4, <2>5 DEF IInv, TypeOK, shell
  <2>7. NothingLost'
    BY <2>5 DEF IInv, NothingLost, shell
  <2>8. QED
    BY <2>6, <2>7 DEF IInv
<1>4. ASSUME NEW n \in 1..Len(rest), StreamChunk(n)
      PROVE  IInv'
  <2>1. n \in 0..Len(rest)
    BY <1>2
  <2>2. Prefix(rest, n) \in Seq(Bytes) /\ Drop(rest, n) \in Seq(Bytes)
    BY <1>1, <2>1, Ends
  <2>3. QED
    BY <1>1, <1>4, <2>2, WriteKeeps DEF StreamChunk
<1>5. CASE AnswerEnds
  <2>1. TypeOK'
    BY <1>5 DEF IInv, TypeOK, AnswerEnds, shell
  <2>2. NothingLost'
    BY <1>5 DEF IInv, NothingLost, AnswerEnds, shell
  <2>3. QED
    BY <2>1, <2>2 DEF IInv
<1>6. CASE CallFails
  <2>1. <<>> \in Seq(Bytes) /\ ErrorText \in Seq(Bytes)
    BY TextsOK
  <2>2. QED
    BY <1>1, <1>6, <2>1, WriteKeeps DEF CallFails
<1>7. CASE SendMarker
  <2>1. <<NL>> \o Marker \o <<NL>> \in Seq(Bytes)
    BY TextsOK
  <2>2. QED
    BY <1>1, <1>7, <2>1, WriteKeeps DEF SendMarker
<1>8. QED
  BY <1>3, <1>4, <1>5, <1>6, <1>7 DEF HelperStep

\* The invariant is inductive.
LEMMA Inductive == IInv /\ [Next]_vars => IInv'
<1> SUFFICES ASSUME IInv, [Next]_vars PROVE IInv'
  OBVIOUS
<1>1. CASE Ask
  <2>1. request' \in Seq(Bytes) /\ up \in Seq(Bytes)
    BY <1>1, TextsOK DEF IInv, TypeOK, Ask
  <2>2. up' \in Seq(Bytes)
    BY <1>1, <2>1 DEF Ask
  <2>3. TypeOK'
    BY <1>1, <2>1, <2>2 DEF IInv, TypeOK, Ask, helper
  <2>4. NothingLost'
    BY <1>1 DEF IInv, NothingLost, Ask, helper
  <2>5. QED
    BY <2>3, <2>4 DEF IInv
<1>2. CASE AskInVain \/ Leave \/ Kill
  BY <1>2, ShellEndsKeeps DEF AskInVain, Leave, Kill
<1>3. CASE ShellReads
  BY <1>3, ReceiveKeeps, StreamEndsKeeps DEF ShellReads
<1>4. CASE HelperStep
  BY <1>4, HelperKeeps
<1>5. CASE Crash
  <2>1. TypeOK'
    BY <1>5 DEF IInv, TypeOK, Crash, shell
  <2>2. NothingLost'
    BY <1>5 DEF IInv, NothingLost, Crash, shell
  <2>3. QED
    BY <2>1, <2>2 DEF IInv
<1>6. CASE NextShell
  <2>1. TypeOK'
    BY <1>6 DEF IInv, TypeOK, NextShell
  <2>2. NothingLost'
    BY <1>6 DEF IInv, NothingLost, NextShell
  <2>3. QED
    BY <2>1, <2>2 DEF IInv
<1>7. CASE Ended \/ UNCHANGED vars
  <2>1. UNCHANGED vars
    BY <1>7 DEF Ended
  <2>2. TypeOK'
    BY <2>1 DEF IInv, TypeOK, vars, shell, helper
  <2>3. NothingLost'
    BY <2>1 DEF IInv, NothingLost, vars, shell, helper
  <2>4. QED
    BY <2>2, <2>3 DEF IInv
<1>8. QED
  BY <1>1, <1>2, <1>3, <1>4, <1>5, <1>6, <1>7 DEF Next

\* It holds for as long as the two programs run.
THEOREM Invariant == Spec => []IInv
<1>1. QED
  BY Initially, Inductive, PTL DEF Spec

\* What the shell holds never exceeds the margin, so acc[4096] has room for every read.
THEOREM TypeCorrect == Spec => []TypeOK
<1>1. IInv => TypeOK
  BY DEF IInv
<1>2. QED
  BY <1>1, Invariant, PTL

\* The shell prints, or still has, every byte the helper sent it, once and in order, and what
\* it has never outgrows acc[4096].
THEOREM NothingIsLost == Spec => []StreamHeld
<1>1. IInv => StreamHeld
  BY DEF IInv, StreamHeld, TypeOK
<1>2. QED
  BY <1>1, Invariant, PTL

-----------------------------------------------------------------------------
(* Markers.                                                                 *)

\* What is on the screen.
Chars == Bytes \cup {Cut}

\* A marker begins at i.
MarkerAt(s, i) ==
    /\ i \in Nat \ {0} /\ i + Len(Marker) - 1 <= Len(s)
    /\ \A k \in 1..Len(Marker) : s[i + k - 1] = Marker[k]

\* strstr, character by character.
LEMMA FoundAt ==
    ASSUME NEW s \in Seq(Chars), NEW i
    PROVE  i \in Found(s) <=> MarkerAt(s, i)
<1> DEFINE m == Len(Marker)
           n == Len(s)
<1>1. m \in Nat /\ m >= 1 /\ n \in Nat /\ Marker \in Seq(Chars)
  <2>1. Marker \in Seq(Chars)
    BY TextsOK, SeqMonotonic DEF Chars
  <2>2. QED
    BY <2>1, TextsOK, EmptySeq, LenProperties
<1> HIDE DEF m, n
<1>2. ASSUME i \in Nat \ {0}, i + m - 1 <= n
      PROVE  /\ SubSeq(s, i, i + m - 1) \in Seq(Chars)
             /\ Len(SubSeq(s, i, i + m - 1)) = m
             /\ \A k \in 1..m : SubSeq(s, i, i + m - 1)[k] = s[i + k - 1]
  <2> DEFINE b == i + m - 1
             a == i - 1
  <2>1. a \in Nat /\ b \in Nat /\ a <= b /\ b <= n /\ i = a + 1 /\ b - a = m
    BY <1>1, <1>2
  <2>2. \A k \in 1..m : a + k = i + k - 1
    BY <1>1, <1>2
  <2> HIDE DEF a, b
  <2>3. /\ SubSeq(s, a + 1, b) \in Seq(Chars)
        /\ Len(SubSeq(s, a + 1, b)) = b - a
        /\ \A k \in 1..(b - a) : SubSeq(s, a + 1, b)[k] = s[a + k]
    BY <2>1, Part DEF n
  <2>4. /\ SubSeq(s, i, b) \in Seq(Chars) /\ Len(SubSeq(s, i, b)) = m
        /\ \A k \in 1..m : SubSeq(s, i, b)[k] = s[i + k - 1]
    BY <2>1, <2>2, <2>3
  <2>5. QED
    BY <2>4 DEF b
<1>3. ASSUME i \in Found(s) PROVE MarkerAt(s, i)
  <2>1. i \in 1..n /\ i + m - 1 <= n /\ SubSeq(s, i, i + m - 1) = Marker
    BY <1>3 DEF Found, m, n
  <2>2. i \in Nat \ {0}
    BY <1>1, <2>1
  <2>3. \A k \in 1..m : s[i + k - 1] = Marker[k]
    BY <1>2, <2>1, <2>2
  <2>4. QED
    BY <2>1, <2>2, <2>3 DEF MarkerAt, m, n
<1>4. ASSUME MarkerAt(s, i) PROVE i \in Found(s)
  <2>1. i \in Nat \ {0} /\ i + m - 1 <= n /\ \A k \in 1..m : s[i + k - 1] = Marker[k]
    BY <1>4 DEF MarkerAt, m, n
  <2>2. SubSeq(s, i, i + m - 1) = Marker
    <3> DEFINE w == SubSeq(s, i, i + m - 1)
    <3>1. w \in Seq(Chars) /\ Len(w) = m /\ \A k \in 1..m : w[k] = Marker[k]
      BY <1>2, <2>1
    <3> HIDE DEF w
    <3>2. w = Marker
      BY <1>1, <3>1, SeqEqual DEF m
    <3>3. QED
      BY <3>2 DEF w
  <2>3. i \in 1..n
    BY <1>1, <2>1
  <2>4. QED
    BY <2>1, <2>2, <2>3 DEF Found, m, n
<1>5. QED
  BY <1>3, <1>4

\* The length of the marker, for use with FoundAt.
LEMMA MarkerLength == Len(Marker) \in Nat /\ Len(Marker) >= 1 /\ Marker \in Seq(Chars)
<1>1. Marker \in Seq(Chars)
  BY TextsOK, SeqMonotonic DEF Chars
<1>2. QED
  BY <1>1, TextsOK, EmptySeq, LenProperties

\* A marker in the first of two joined texts, or in the second, is one of the whole.
LEMMA FoundInJoin ==
    ASSUME NEW x \in Seq(Chars), NEW y \in Seq(Chars), NEW i
    PROVE  /\ i \in Found(x) => i \in Found(x \o y)
           /\ i \in Found(y) => Len(x) + i \in Found(x \o y)
<1>1. /\ x \o y \in Seq(Chars) /\ Len(x \o y) = Len(x) + Len(y)
      /\ \A k \in 1..(Len(x) + Len(y)) :
           (x \o y)[k] = IF k <= Len(x) THEN x[k] ELSE y[k - Len(x)]
      /\ Len(x) \in Nat /\ Len(y) \in Nat
  BY ConcatProperties, LenProperties
<1>2. ASSUME MarkerAt(x, i) PROVE MarkerAt(x \o y, i)
  <2>1. ASSUME NEW k \in 1..Len(Marker) PROVE (x \o y)[i + k - 1] = Marker[k]
    <3>1. i + k - 1 \in 1..(Len(x) + Len(y)) /\ i + k - 1 <= Len(x)
      BY <1>1, <1>2, MarkerLength DEF MarkerAt
    <3>2. (x \o y)[i + k - 1] = x[i + k - 1]
      BY <1>1, <3>1
    <3>3. QED
      BY <1>2, <3>2 DEF MarkerAt
  <2>2. i \in Nat \ {0} /\ i + Len(Marker) - 1 <= Len(x \o y)
    BY <1>1, <1>2, MarkerLength DEF MarkerAt
  <2>3. QED
    BY <2>1, <2>2 DEF MarkerAt
<1>3. ASSUME MarkerAt(y, i) PROVE MarkerAt(x \o y, Len(x) + i)
  <2>1. ASSUME NEW k \in 1..Len(Marker) PROVE (x \o y)[Len(x) + i + k - 1] = Marker[k]
    <3> DEFINE j == Len(x) + i + k - 1
    <3>2. j \in 1..(Len(x) + Len(y)) /\ ~(j <= Len(x)) /\ j - Len(x) = i + k - 1
      BY <1>1, <1>3, MarkerLength DEF MarkerAt
    <3> HIDE DEF j
    <3>3. (x \o y)[j] = y[j - Len(x)]
      BY <1>1, <3>2
    <3>4. (x \o y)[j] = y[i + k - 1]
      BY <3>2, <3>3
    <3>5. QED
      BY <1>3, <3>4 DEF MarkerAt, j
  <2>2. Len(x) + i \in Nat \ {0} /\ Len(x) + i + Len(Marker) - 1 <= Len(x \o y)
    BY <1>1, <1>3, MarkerLength DEF MarkerAt
  <2>3. QED
    BY <2>1, <2>2 DEF MarkerAt
<1>4. QED
  BY <1>1, <1>2, <1>3, FoundAt

\* A marker of two joined texts that does not go over the joint is in one of them.
LEMMA FoundBeside ==
    ASSUME NEW x \in Seq(Chars), NEW y \in Seq(Chars), NEW i \in Found(x \o y)
    PROVE  /\ i \in Nat \ {0} /\ i + Len(Marker) - 1 <= Len(x) + Len(y)
           /\ i + Len(Marker) - 1 <= Len(x) => i \in Found(x)
           /\ i > Len(x) => i - Len(x) \in Found(y)
<1>1. /\ x \o y \in Seq(Chars) /\ Len(x \o y) = Len(x) + Len(y)
      /\ \A k \in 1..(Len(x) + Len(y)) :
           (x \o y)[k] = IF k <= Len(x) THEN x[k] ELSE y[k - Len(x)]
      /\ Len(x) \in Nat /\ Len(y) \in Nat
  BY ConcatProperties, LenProperties
<1>2. MarkerAt(x \o y, i)
  BY <1>1, FoundAt
<1>3. i \in Nat \ {0} /\ i + Len(Marker) - 1 <= Len(x) + Len(y)
  BY <1>1, <1>2 DEF MarkerAt
<1>4. ASSUME i + Len(Marker) - 1 <= Len(x) PROVE MarkerAt(x, i)
  <2>1. ASSUME NEW k \in 1..Len(Marker) PROVE x[i + k - 1] = Marker[k]
    <3>1. i + k - 1 \in 1..(Len(x) + Len(y)) /\ i + k - 1 <= Len(x)
      BY <1>1, <1>3, <1>4, MarkerLength
    <3>2. (x \o y)[i + k - 1] = x[i + k - 1]
      BY <1>1, <3>1
    <3>3. QED
      BY <1>2, <3>2 DEF MarkerAt
  <2>2. QED
    BY <1>3, <1>4, <2>1 DEF MarkerAt
<1>5. ASSUME i > Len(x) PROVE MarkerAt(y, i - Len(x))
  <2>1. ASSUME NEW k \in 1..Len(Marker) PROVE y[i - Len(x) + k - 1] = Marker[k]
    <3> DEFINE j == i + k - 1
    <3>2. j \in 1..(Len(x) + Len(y)) /\ ~(j <= Len(x)) /\ j - Len(x) = i - Len(x) + k - 1
      BY <1>1, <1>3, <1>5, MarkerLength
    <3>3. (x \o y)[j] = Marker[k]
      BY <1>2 DEF MarkerAt
    <3> HIDE DEF j
    <3>4. (x \o y)[j] = y[j - Len(x)]
      BY <1>1, <3>2
    <3>5. QED
      BY <3>2, <3>3, <3>4
  <2>2. i - Len(x) \in Nat \ {0} /\ i - Len(x) + Len(Marker) - 1 <= Len(y)
    BY <1>1, <1>3, <1>5, MarkerLength
  <2>3. QED
    BY <2>1, <2>2 DEF MarkerAt
<1>6. QED
  BY <1>3, <1>4, <1>5, FoundAt

\* No marker goes over a character that is in none.
LEMMA FoundApart ==
    ASSUME NEW x \in Seq(Chars), NEW y \in Seq(Chars), y # <<>>,
           \A k \in 1..Len(Marker) : Marker[k] # y[1],
           NEW i \in Found(x \o y)
    PROVE  i \in Found(x) \/ (i > Len(x) + 1 /\ i - Len(x) \in Found(y))
<1>1. /\ x \o y \in Seq(Chars) /\ Len(x \o y) = Len(x) + Len(y)
      /\ \A k \in 1..(Len(x) + Len(y)) :
           (x \o y)[k] = IF k <= Len(x) THEN x[k] ELSE y[k - Len(x)]
      /\ Len(x) \in Nat /\ Len(y) \in Nat /\ Len(y) >= 1
  BY ConcatProperties, LenProperties, EmptySeq
<1>2. MarkerAt(x \o y, i)
  BY <1>1, FoundAt
<1>3. ASSUME i <= Len(x) + 1, Len(x) + 1 <= i + Len(Marker) - 1 PROVE FALSE
  <2> DEFINE k == Len(x) + 1 - i + 1
  <2>1. k \in 1..Len(Marker) /\ i + k - 1 = Len(x) + 1
    BY <1>1, <1>2, <1>3, MarkerLength DEF MarkerAt
  <2>2. (x \o y)[Len(x) + 1] = y[1]
    <3>1. Len(x) + 1 \in 1..(Len(x) + Len(y)) /\ ~(Len(x) + 1 <= Len(x)) /\ Len(x) + 1 - Len(x) = 1
      BY <1>1
    <3>2. QED
      BY <1>1, <3>1
  <2> HIDE DEF k
  <2>3. Marker[k] = y[1]
    BY <1>2, <2>1, <2>2 DEF MarkerAt
  <2>4. QED
    BY <2>1, <2>3
<1>4. i \in Nat \ {0}
  BY <1>2 DEF MarkerAt
<1>5. i + Len(Marker) - 1 <= Len(x) \/ i > Len(x) + 1
  BY <1>1, <1>3, <1>4, MarkerLength
<1>6. QED
  BY <1>1, <1>4, <1>5, FoundBeside

\* Joining is associative for what is on the screen, too.
LEMMA RegroupingChars == \A x, y, z \in Seq(Chars) : Regrouped(x, y, z)
  BY ConcatAssociative DEF Regrouped

\* Two ways to cut the same text at the same place are one.
LEMMA SameCut ==
    ASSUME NEW x \in Seq(Chars), NEW y \in Seq(Chars), NEW u \in Seq(Chars), NEW v \in Seq(Chars),
           x \o y = u \o v, Len(x) = Len(u)
    PROVE  x = u /\ y = v
<1>1. /\ Len(x \o y) = Len(x) + Len(y) /\ Len(u \o v) = Len(u) + Len(v)
      /\ \A k \in 1..(Len(x) + Len(y)) :
           (x \o y)[k] = IF k <= Len(x) THEN x[k] ELSE y[k - Len(x)]
      /\ \A k \in 1..(Len(u) + Len(v)) :
           (u \o v)[k] = IF k <= Len(u) THEN u[k] ELSE v[k - Len(u)]
      /\ Len(x) \in Nat /\ Len(y) \in Nat /\ Len(u) \in Nat /\ Len(v) \in Nat
  BY ConcatProperties, LenProperties
<1>2. Len(y) = Len(v)
  BY <1>1
<1>3. ASSUME NEW k \in 1..Len(x) PROVE x[k] = u[k]
  <2>1. k \in 1..(Len(x) + Len(y)) /\ k <= Len(x)
    BY <1>1
  <2>2. QED
    BY <1>1, <1>2, <2>1
<1>4. ASSUME NEW k \in 1..Len(y) PROVE y[k] = v[k]
  <2> DEFINE j == Len(x) + k
  <2>1. j \in 1..(Len(x) + Len(y)) /\ ~(j <= Len(x)) /\ j - Len(x) = k
    BY <1>1
  <2> HIDE DEF j
  <2>2. QED
    BY <1>1, <1>2, <2>1
<1>5. QED
  BY <1>2, <1>3, <1>4, SeqEqual

\* Nothing is cut off, or all is kept, at 0.
LEMMA CutAtStart ==
    ASSUME NEW S, NEW s \in Seq(S)
    PROVE  Prefix(s, 0) = <<>> /\ Drop(s, 0) = s
<1>1. 0 \in 0..Len(s) /\ Len(s) \in Nat
  BY LenProperties
<1>2. Len(Prefix(s, 0)) = 0 /\ Prefix(s, 0) \in Seq(S) /\ Prefix(s, 0) \o Drop(s, 0) = s
      /\ Drop(s, 0) \in Seq(S)
  BY <1>1, Ends, Cutting
<1>3. Prefix(s, 0) = <<>>
  BY <1>2, EmptySeq
<1>4. QED
  BY <1>2, <1>3, ConcatEmptySeq

\* What a read does, with MakesRoom(n) = 0: s is what was kept and what came.
LEMMA ReadsOn ==
    ASSUME IInv, NEW n \in 1..Len(down), n <= ReadSize, Receive(n)
    PROVE  \E s, e \in Seq(Bytes) :
             /\ s \o e = acc \o down /\ down' = e /\ client = "reading"
             /\ UNCHANGED <<request, asked, up, helper>>
             /\ \/ /\ Found(s) # {}
                   /\ shown' = ((shown \o Prefix(s, Before(s))) \o <<Cut>>) \o Remainder(s)
                   /\ acc' = <<>> /\ client' = "prompt"
                \/ /\ Found(s) = {} /\ client' = client
                   /\ \E b, c \in Seq(Bytes) :
                        /\ b \o c = s /\ shown' = shown \o b /\ acc' = c
                        /\ b = <<>> \/ Len(c) >= Len(Marker)
<1>1. /\ acc \in Seq(Bytes) /\ down \in Seq(Bytes) /\ shown \in Seq(Bytes \cup {Cut})
      /\ Len(Marker) \in Nat /\ Slack \in Nat /\ Margin = Len(Marker) + Slack
  BY MarkerLength, SizesOK DEF IInv, TypeOK, Margin
<1>2. n \in Nat /\ n \in 0..Len(down) /\ MakesRoom(n) = 0
  BY <1>1, RoomForARead DEF IInv
<1>3. /\ Prefix(down, n) \in Seq(Bytes) /\ Drop(down, n) \in Seq(Bytes)
      /\ Prefix(down, n) \o Drop(down, n) = down
      /\ Prefix(acc, 0) = <<>> /\ Drop(acc, 0) = acc
  BY <1>1, <1>2, Ends, Cutting, CutAtStart
<1> DEFINE s == acc \o Prefix(down, n)
           e == Drop(down, n)
<1>4. s \in Seq(Bytes) /\ e \in Seq(Bytes) /\ s \o e = acc \o down
  <2>1. s \in Seq(Bytes)
    BY <1>1, <1>3, Joined
  <2>2. Regrouped(acc, Prefix(down, n), e)
    BY <1>1, <1>3, Regrouping
  <2>3. s \o e = acc \o down
    BY <1>3, <2>2, Zenon DEF Regrouped
  <2>4. QED
    BY <1>3, <2>1, <2>3
<1>5. shown \o Prefix(acc, 0) = shown
  BY <1>1, <1>3, ConcatEmptySeq
<1>6. /\ client = "reading" /\ down' = e
      /\ UNCHANGED <<request, asked, up, helper>>
      /\ IF Found(s) # {}
         THEN /\ shown' = shown \o Prefix(s, Before(s)) \o <<Cut>> \o Remainder(s)
              /\ acc' = <<>>
              /\ client' = "prompt"
         ELSE /\ shown' = shown \o Prefix(s, PrintsEarly(s))
              /\ acc' = Drop(s, PrintsEarly(s))
              /\ UNCHANGED client
  BY <1>2, <1>3, <1>5 DEF Receive
<1> HIDE DEF s, e
<1>7. CASE Found(s) # {}
  BY <1>4, <1>6, <1>7
<1>8. CASE Found(s) = {}
  <2> DEFINE k == PrintsEarly(s)
  <2>1. k \in 0..Len(s) /\ (k = 0 \/ Len(s) - k >= Len(Marker)) /\ Len(s) \in Nat
    BY <1>1, <1>4 DEF PrintsEarly, Surplus
  <2>2. /\ Prefix(s, k) \in Seq(Bytes) /\ Drop(s, k) \in Seq(Bytes)
        /\ Len(Drop(s, k)) = Len(s) - k
        /\ Prefix(s, k) \o Drop(s, k) = s
        /\ k = 0 => Prefix(s, k) = <<>>
    BY <1>4, <2>1, Ends, Cutting, CutAtStart
  <2>3. QED
    BY <1>4, <1>6, <1>8, <2>1, <2>2
<1>9. QED
  BY <1>7, <1>8

-----------------------------------------------------------------------------
(* An answer is on its way.                                                 *)

\* What the shell keeps holds no marker; and while it waits and the helper is there, the helper
\* has words to read, is at an answer, or has sent a marker the shell has yet to see.
HasWords(s) == \E k \in 1..Len(s) : s[k] # NL

AnswerComes ==
    /\ Found(acc) = {}
    /\ client = "reading" /\ server # "gone" /\ ~Blank(request) =>
         HasWords(up) \/ server \in {"answering", "ending"} \/ Found(acc \o down) # {}

\* Nothing is in nothing.
LEMMA FoundInNothing == Found(<<>>) = {}
<1>1. Len(<<>>) = 0
  BY EmptySeq
<1>2. QED
  BY <1>1 DEF Found

\* A read that finds no marker leaves in acc what may be the beginning of one.
LEMMA ReadComes ==
    ASSUME IInv, AnswerComes, NEW n \in 1..Len(down), n <= ReadSize, Receive(n)
    PROVE  AnswerComes'
<1>0. Bytes \subseteq Chars
  BY DEF Chars
<1>1. PICK s \in Seq(Bytes), e \in Seq(Bytes) :
             /\ s \o e = acc \o down /\ down' = e /\ client = "reading"
             /\ UNCHANGED <<request, asked, up, helper>>
             /\ \/ /\ Found(s) # {}
                   /\ shown' = ((shown \o Prefix(s, Before(s))) \o <<Cut>>) \o Remainder(s)
                   /\ acc' = <<>> /\ client' = "prompt"
                \/ /\ Found(s) = {} /\ client' = client
                   /\ \E b, c \in Seq(Bytes) :
                        /\ b \o c = s /\ shown' = shown \o b /\ acc' = c
                        /\ b = <<>> \/ Len(c) >= Len(Marker)
  BY ReadsOn
<1>2. CASE acc' = <<>> /\ client' = "prompt"
  BY <1>2, FoundInNothing DEF AnswerComes
<1>3. CASE Found(s) = {} /\ client' = client
  <2>1. PICK b \in Seq(Bytes), c \in Seq(Bytes) :
               b \o c = s /\ acc' = c /\ (b = <<>> \/ Len(c) >= Len(Marker))
    BY <1>1, <1>3, FoundInNothing
  <2>2. /\ s \in Seq(Chars) /\ e \in Seq(Chars) /\ b \in Seq(Chars) /\ c \in Seq(Chars)
        /\ c \o e \in Seq(Chars)
    BY <1>0, SeqMonotonic, ConcatProperties
  <2>3. Found(c) = {}
    BY <1>3, <2>1, <2>2, FoundInJoin
  <2>4. ASSUME Found(acc \o down) # {} PROVE Found(c \o e) # {}
    <3>1. PICK i \in Found(s \o e) : TRUE
      BY <1>1, <2>4
    <3>2. i \in Nat \ {0} /\ ~(i + Len(Marker) - 1 <= Len(s))
      BY <1>3, <2>2, <3>1, FoundBeside
    <3>3. Len(s) = Len(b) + Len(c) /\ Len(b) \in Nat /\ Len(c) \in Nat
          /\ (b = <<>> => Len(b) = 0)
      BY <2>1, <2>2, ConcatProperties, LenProperties, EmptySeq
    <3>4. i > Len(b)
      BY <2>1, <3>2, <3>3, MarkerLength
    <3>5. s \o e = b \o (c \o e)
      <4>1. Regrouped(b, c, e)
        BY <2>2, RegroupingChars
      <4>2. QED
        BY <2>1, <4>1, Zenon DEF Regrouped
    <3>6. i - Len(b) \in Found(c \o e)
      BY <2>2, <3>1, <3>4, <3>5, FoundBeside
    <3>7. QED
      BY <3>6
  <2>5. UNCHANGED <<request, up, server>> /\ down' = e
    BY <1>1 DEF helper
  <2>6. QED
    BY <1>3, <2>1, <2>3, <2>4, <2>5 DEF AnswerComes, Blank
<1>4. QED
  BY <1>1, <1>2, <1>3

\* A write to a waiting shell is appended to what it has yet to read.
LEMMA WriteComes ==
    ASSUME IInv, AnswerComes, NEW text \in Seq(Bytes),
           NEW next \in {"reading", "answering", "ending"},
           Write(text, next), UNCHANGED <<shell, up>>,
           next = "reading" => \E i \in Found(text) : TRUE
    PROVE  AnswerComes'
<1>1. UNCHANGED <<client, request, acc, up>>
  BY DEF shell
<1>2. ASSUME client = "reading", next = "reading" PROVE Found(acc' \o down') # {}
  <2>1. down' = down \o text
    BY <1>2 DEF Write, Gone
  <2>2. /\ acc \in Seq(Chars) /\ down \in Seq(Chars) /\ text \in Seq(Chars)
        /\ acc \o down \in Seq(Chars)
    BY SeqMonotonic, ConcatProperties DEF Chars, IInv, TypeOK
  <2>3. acc \o (down \o text) = (acc \o down) \o text
    BY <2>2, ConcatAssociative
  <2>4. PICK i \in Found(text) : TRUE
    BY <1>2
  <2>5. Len(acc \o down) + i \in Found((acc \o down) \o text)
    BY <2>2, <2>4, FoundInJoin
  <2>6. QED
    BY <1>1, <2>1, <2>3, <2>5
<1>3. client = "reading" => server' = next
  BY DEF Write, Gone
<1>4. QED
  BY <1>1, <1>2, <1>3 DEF AnswerComes, Blank

\* Every step keeps an answer coming.
LEMMA StepComes == IInv /\ AnswerComes /\ [Next]_vars => AnswerComes'
<1> SUFFICES ASSUME IInv, AnswerComes, [Next]_vars PROVE AnswerComes'
  OBVIOUS
<1>0. /\ up \in Seq(Bytes) /\ rest \in Seq(Bytes) /\ Len(up) \in Nat /\ Len(rest) \in Nat
  BY LenProperties DEF IInv, TypeOK
<1>1. CASE Ask
  <2>1. /\ request' \in Lines /\ up' = up \o request' /\ UNCHANGED <<acc, down, server>>
    BY <1>1 DEF Ask, helper
  <2>2. request' \in Seq(Bytes)
    BY <2>1, TextsOK
  <2>3. ASSUME ~Blank(request') PROVE HasWords(up')
    <3>1. PICK k \in 1..Len(request') : request'[k] # NL
      BY <2>1, <2>3, TextsApart DEF Blank
    <3> DEFINE j == Len(up) + k
    <3>2. /\ Len(up') = Len(up) + Len(request') /\ Len(request') \in Nat
          /\ \A i \in 1..(Len(up) + Len(request')) :
               up'[i] = IF i <= Len(up) THEN up[i] ELSE request'[i - Len(up)]
      BY <1>0, <2>1, <2>2, ConcatProperties, LenProperties
    <3>3. j \in 1..(Len(up) + Len(request')) /\ ~(j <= Len(up)) /\ j - Len(up) = k
      BY <1>0, <3>2
    <3> HIDE DEF j
    <3>4. up'[j] # NL /\ j \in 1..Len(up')
      BY <3>1, <3>2, <3>3
    <3>5. QED
      BY <3>4 DEF HasWords
  <2>4. QED
    BY <2>1, <2>3 DEF AnswerComes, Blank
<1>2. CASE AskInVain \/ Leave \/ Kill
  <2>1. acc' = <<>> /\ client' # "reading"
    BY <1>2 DEF AskInVain, Leave, Kill, ShellEnds
  <2>2. QED
    BY <2>1, FoundInNothing DEF AnswerComes
<1>3. CASE ShellReads
  <2>1. CASE StreamEnds
    BY <2>1, FoundInNothing DEF StreamEnds, AnswerComes
  <2>2. QED
    BY <1>3, <2>1, ReadComes DEF ShellReads
<1>4. ASSUME NEW n \in 1..Len(up), ReadPrompt(n) PROVE AnswerComes'
  <2>1. UNCHANGED <<client, request, acc, down>> /\ up' = Drop(up, n)
    BY <1>4 DEF ReadPrompt, shell
  <2>2. CASE Blank(Prefix(up, n)) /\ UNCHANGED <<server, rest>>
    <3>1. ASSUME HasWords(up) PROVE HasWords(up')
      <4>1. PICK k \in 1..Len(up) : up[k] # NL
        BY <3>1 DEF HasWords
      <4>2. n \in 0..Len(up) /\ n \in Nat /\ k \in Nat
        BY <1>0
      <4>3. /\ Len(Prefix(up, n)) = n /\ \A i \in 1..n : Prefix(up, n)[i] = up[i]
            /\ Len(Drop(up, n)) = Len(up) - n
            /\ \A i \in 1..(Len(up) - n) : Drop(up, n)[i] = up[n + i]
        BY <1>0, <4>2, Ends
      <4>4. n = 1 /\ Prefix(up, n)[1] = NL
        BY <2>2, <4>3 DEF Blank
      <4>5. k > 1
        BY <4>1, <4>2, <4>3, <4>4
      <4>6. k - 1 \in 1..(Len(up) - n) /\ n + (k - 1) = k
        BY <1>0, <4>2, <4>4, <4>5
      <4>7. Drop(up, n)[k - 1] # NL
        BY <4>1, <4>3, <4>6
      <4>8. QED
        BY <2>1, <4>3, <4>6, <4>7 DEF HasWords
    <3>2. QED
      BY <2>1, <2>2, <3>1 DEF AnswerComes, Blank
  <2>3. CASE server' = "answering"
    BY <2>1, <2>3 DEF AnswerComes, Blank
  <2>4. QED
    BY <1>4, <2>2, <2>3 DEF ReadPrompt
<1>5. ASSUME NEW n \in 1..Len(rest), StreamChunk(n) PROVE AnswerComes'
  <2>1. Prefix(rest, n) \in Seq(Bytes)
    BY <1>0, Ends
  <2>2. QED
    BY <1>5, <2>1, WriteComes DEF StreamChunk
<1>6. CASE AnswerEnds
  BY <1>6 DEF AnswerEnds, AnswerComes, shell, Blank
<1>7. CASE CallFails
  BY <1>7, WriteComes, TextsOK DEF CallFails
<1>8. CASE SendMarker
  <2> DEFINE text == <<NL>> \o Marker \o <<NL>>
  <2>1. text \in Seq(Bytes) /\ Write(text, "reading") /\ UNCHANGED <<shell, up>>
    BY <1>8, TextsOK DEF SendMarker
  <2>2. 2 \in Found(text)
    <3>1. /\ <<NL>> \in Seq(Chars) /\ Len(<<NL>>) = 1 /\ <<NL>> \o Marker \in Seq(Chars)
      BY TextsOK, MarkerLength, ConcatProperties DEF Chars
    <3>2. 1 \in Found(Marker)
      BY MarkerLength, FoundAt DEF MarkerAt
    <3>3. Len(<<NL>>) + 1 \in Found(<<NL>> \o Marker)
      BY <3>1, <3>2, MarkerLength, FoundInJoin
    <3>4. Len(<<NL>>) + 1 = 2
      BY <3>1
    <3>5. 2 \in Found((<<NL>> \o Marker) \o <<NL>>)
      BY <3>1, <3>3, <3>4, FoundInJoin
    <3>6. QED
      BY <3>5
  <2>3. QED
    BY <2>1, <2>2, WriteComes
<1>9. CASE Crash
  BY <1>9 DEF Crash, AnswerComes, shell
<1>10. CASE NextShell
  BY <1>10 DEF NextShell, AnswerComes
<1>11. CASE Ended \/ UNCHANGED vars
  BY <1>11 DEF Ended, vars, shell, helper, AnswerComes, Blank
<1>12. QED
  BY <1>1, <1>2, <1>3, <1>4, <1>5, <1>6, <1>7, <1>8, <1>9, <1>10, <1>11 DEF Next, HelperStep

\* A shell and a helper that wait for each other are stopped by a blank line: every other line
\* has an answer with a marker of its own, which no reading of the stream overlooks.
THEOREM OnlyBlankLinesStick == Spec => []StuckOnBlankLine
<1>1. Init => AnswerComes
  BY FoundInNothing DEF Init, AnswerComes
<1>2. AnswerComes /\ IInv => StuckOnBlankLine
  <2> SUFFICES ASSUME AnswerComes, IInv, Stuck PROVE Blank(request)
    BY DEF StuckOnBlankLine
  <2>1. acc \o down = acc
    BY ConcatEmptySeq DEF Stuck, IInv, TypeOK
  <2>2. ~HasWords(up)
    BY EmptySeq DEF HasWords, Stuck
  <2>3. QED
    BY <2>1, <2>2 DEF AnswerComes, Stuck
<1>3. QED
  BY <1>1, <1>2, StepComes, Invariant, PTL DEF Spec

-----------------------------------------------------------------------------
(* Questions and answers in step.                                           *)

\* All of the conversation: on the screen, kept back and under way.
Stream == (shown \o acc) \o down

\* A text without a marker, and that ends where none can go on.
Closed(w) == Found(w) = {} /\ (w = <<>> \/ w[Len(w)] \in {NL, Cut})

Ending == <<NL>> \o Marker \o <<NL>>

\* The answer is written, and its marker not yet taken out.
AnswerOver ==
    \E v \in Seq(Chars) : /\ Found(v) = {} /\ Stream = v \o Ending
                          /\ Len(shown) <= Len(v) + 1

\* The conversation at each point of a question, as long as no answer held a marker and no line
\* was split.
Conversation ==
    /\ Gone => acc = <<>> /\ down = <<>> /\ shown = <<>>
    /\ plain /\ server # "gone" /\ client = "prompt" =>
         /\ up = <<>> /\ server = "reading" /\ acc = <<>> /\ down \in {<<>>, <<NL>>}
         /\ Closed(Stream)
    /\ plain /\ server # "gone" /\ client = "reading" =>
         /\ server = "reading" => Closed(Stream) \/ (up = <<>> /\ AnswerOver)
         /\ server = "answering" => up = <<>> /\ Found(Stream \o rest) = {}
         /\ server = "ending" => up = <<>> /\ Found(Stream) = {}

\* The conversation is characters of the screen.
LEMMA StreamTyped ==
    ASSUME IInv
    PROVE  /\ shown \in Seq(Chars) /\ acc \in Seq(Chars) /\ down \in Seq(Chars)
           /\ rest \in Seq(Chars) /\ up \in Seq(Bytes) /\ Stream \in Seq(Chars)
<1>1. shown \in Seq(Chars) /\ acc \in Seq(Chars) /\ down \in Seq(Chars) /\ rest \in Seq(Chars)
  BY SeqMonotonic DEF IInv, TypeOK, Chars
<1>2. QED
  BY <1>1, ConcatProperties DEF Stream, IInv, TypeOK

\* What follows a closed text holds only its own markers.
LEMMA ClosedJoins ==
    ASSUME NEW x \in Seq(Chars), Closed(x), NEW y \in Seq(Chars), Found(y) = {}
    PROVE  Found(x \o y) = {}
<1>1. CASE x = <<>>
  <2>1. x \o y = y
    BY <1>1, ConcatEmptySeq
  <2>2. QED
    BY <2>1
<1>2. CASE x # <<>> /\ x[Len(x)] \in {NL, Cut}
  <2>1. /\ x \o y \in Seq(Chars) /\ Len(x) \in Nat \ {0} /\ Len(y) \in Nat
        /\ \A k \in 1..(Len(x) + Len(y)) :
             (x \o y)[k] = IF k <= Len(x) THEN x[k] ELSE y[k - Len(x)]
    BY <1>2, ConcatProperties, LenProperties, EmptySeq
  <2>2. \A k \in 1..Len(Marker) : Marker[k] # x[Len(x)]
    BY <1>2, TextsOK, TextsApart, ElementOfSeq
  <2>3. ASSUME NEW i \in Found(x \o y) PROVE FALSE
    <3>1. MarkerAt(x \o y, i)
      BY <2>1, FoundAt
    <3>2. /\ i \in Nat \ {0} /\ ~(i + Len(Marker) - 1 <= Len(x)) /\ ~(i > Len(x))
      BY FoundBeside DEF Closed
    <3> DEFINE k == Len(x) - i + 1
    <3>3. k \in 1..Len(Marker) /\ i + k - 1 = Len(x)
      BY <2>1, <3>2, MarkerLength
    <3> HIDE DEF k
    <3>4. Marker[k] = (x \o y)[Len(x)]
      BY <3>1, <3>3 DEF MarkerAt
    <3>5. (x \o y)[Len(x)] = x[Len(x)]
      <4>1. Len(x) \in 1..(Len(x) + Len(y)) /\ Len(x) <= Len(x)
        BY <2>1
      <4>2. QED
        BY <2>1, <4>1
    <3>6. QED
      BY <2>2, <3>3, <3>4, <3>5
  <2>4. QED
    BY <2>3
<1>3. QED
  BY <1>1, <1>2 DEF Closed

\* The ending of an answer, character by character.
LEMMA EndingIs ==
    /\ Ending \in Seq(Chars) /\ Ending \in Seq(Bytes) /\ Len(Ending) = Len(Marker) + 2
    /\ Ending[1] = NL /\ Ending[Len(Marker) + 2] = NL
    /\ \A k \in 1..Len(Marker) : Marker[k] # NL
<1> DEFINE l == <<NL>> \o Marker
<1>1. <<NL>> \in Seq(Bytes) /\ Len(<<NL>>) = 1 /\ <<NL>>[1] = NL /\ Marker \in Seq(Bytes)
  BY TextsOK
<1>2. /\ l \in Seq(Bytes) /\ Len(l) = 1 + Len(Marker)
      /\ \A k \in 1..(1 + Len(Marker)) : l[k] = IF k <= 1 THEN <<NL>>[k] ELSE Marker[k - 1]
  BY <1>1, ConcatProperties
<1>3. l[1] = NL
  BY <1>1, <1>2, MarkerLength
<1> HIDE DEF l
<1>4. /\ l \o <<NL>> \in Seq(Bytes) /\ Len(l \o <<NL>>) = Len(l) + 1
      /\ \A k \in 1..(Len(l) + 1) :
           (l \o <<NL>>)[k] = IF k <= Len(l) THEN l[k] ELSE <<NL>>[k - Len(l)]
  BY <1>1, <1>2, ConcatProperties
<1>5. (l \o <<NL>>)[1] = NL
  BY <1>2, <1>3, <1>4, MarkerLength
<1>6. (l \o <<NL>>)[Len(l) + 1] = NL
  <2>1. Len(l) + 1 \in 1..(Len(l) + 1) /\ ~(Len(l) + 1 <= Len(l)) /\ Len(l) + 1 - Len(l) = 1
    BY <1>2, MarkerLength
  <2>2. QED
    BY <1>1, <1>4, <2>1
<1>7. Len(l) + 1 = Len(Marker) + 2
  BY <1>2, MarkerLength
<1>8. l \o <<NL>> \in Seq(Chars)
  BY <1>4, SeqMonotonic DEF Chars
<1>9. QED
  BY <1>4, <1>5, <1>6, <1>7, <1>8, TextsApart DEF Ending, l

\* A text without a marker, and the ending: the one marker is that of the ending.
LEMMA OneMarker ==
    ASSUME NEW v \in Seq(Chars), Found(v) = {}, NEW i \in Found(v \o Ending)
    PROVE  i = Len(v) + 2
<1>1. Len(v) \in Nat /\ Ending # <<>>
  BY EndingIs, MarkerLength, EmptySeq, LenProperties
<1>2. i > Len(v) + 1 /\ i - Len(v) \in Found(Ending)
  BY <1>1, EndingIs, FoundApart
<1>3. MarkerAt(Ending, i - Len(v))
  BY <1>2, EndingIs, FoundAt
<1>4. i - Len(v) \in {2, 3}
  BY <1>1, <1>2, <1>3, EndingIs, MarkerLength DEF MarkerAt
<1>5. ASSUME i - Len(v) = 3 PROVE FALSE
  <2>1. \A k \in 1..Len(Marker) : Ending[3 + k - 1] = Marker[k]
    BY <1>3, <1>5 DEF MarkerAt
  <2>2. 3 + Len(Marker) - 1 = Len(Marker) + 2 /\ Len(Marker) \in 1..Len(Marker)
    BY MarkerLength
  <2>3. QED
    BY <2>1, <2>2, EndingIs
<1>6. i \in Nat
  BY <1>3, <1>2, <1>1, FoundBeside, EndingIs
<1>7. QED
  BY <1>1, <1>4, <1>5, <1>6

\* The text of an error brings no marker.
LEMMA ErrorJoins ==
    ASSUME NEW x \in Seq(Chars), Found(x) = {}
    PROVE  Found(x \o ErrorText) = {}
<1>1. ErrorText \in Seq(Chars)
  BY TextsOK, SeqMonotonic DEF Chars
<1>2. QED
  BY <1>1, TextsApart, FoundApart

\* What the helper writes comes behind the rest of the conversation.
LEMMA WriteGoesOn ==
    ASSUME IInv, NEW text \in Seq(Bytes), NEW next, Write(text, next), UNCHANGED shell, ~Gone
    PROVE  server' = next /\ Stream' = Stream \o text /\ ~Gone'
<1>1. down' = down \o text /\ server' = next /\ UNCHANGED <<client, acc, shown>>
  BY DEF Write, shell
<1>2. shown \o acc \in Seq(Chars) /\ down \in Seq(Chars) /\ text \in Seq(Chars)
  BY StreamTyped, SeqMonotonic, ConcatProperties DEF Chars
<1>3. Regrouped(shown \o acc, down, text)
  BY <1>2, RegroupingChars
<1>4. QED
  BY <1>1, <1>3, Zenon DEF Stream, Regrouped, Gone

\* There is a marker in the marker.
LEMMA MarkerInMarker == 1 \in Found(Marker)
  BY MarkerLength, FoundAt DEF MarkerAt

\* The marker of the ending.
LEMMA EndingFound == 2 \in Found(Ending)
<1>1. /\ <<NL>> \in Seq(Chars) /\ Len(<<NL>>) = 1 /\ <<NL>> \o Marker \in Seq(Chars)
  BY TextsOK, MarkerLength, ConcatProperties DEF Chars
<1>3. Len(<<NL>>) + 1 \in Found(<<NL>> \o Marker)
  BY <1>1, MarkerInMarker, MarkerLength, FoundInJoin
<1>4. Len(<<NL>>) + 1 = 2
  BY <1>1
<1>5. 2 \in Found((<<NL>> \o Marker) \o <<NL>>)
  BY <1>1, <1>3, <1>4, FoundInJoin
<1>6. QED
  BY <1>5 DEF Ending

\* A character that is in no marker, behind a text without one, closes it.
LEMMA OneMore ==
    ASSUME NEW x \in Seq(Chars), Found(x) = {}, NEW ch \in {NL, Cut}
    PROVE  x \o <<ch>> \in Seq(Chars) /\ Closed(x \o <<ch>>)
<1> DEFINE y == <<ch>>
<1>1. /\ y \in Seq(Chars) /\ Len(y) = 1 /\ y[1] = ch /\ y # <<>>
      /\ \A k \in 1..Len(Marker) : Marker[k] # ch
  BY TextsOK, TextsApart, ElementOfSeq, EmptySeq DEF Chars
<1> HIDE DEF y
<1>2. Found(y) = {}
  <2> SUFFICES ASSUME NEW i \in Found(y) PROVE FALSE
    OBVIOUS
  <2>1. MarkerAt(y, i)
    BY <1>1, FoundAt
  <2>2. i = 1 /\ 1 \in 1..Len(Marker) /\ i + 1 - 1 = 1
    BY <1>1, <2>1, MarkerLength DEF MarkerAt
  <2>3. y[i + 1 - 1] = Marker[1]
    BY <2>1, <2>2 DEF MarkerAt
  <2>4. QED
    BY <1>1, <2>2, <2>3
<1>3. Found(x \o y) = {}
  BY <1>1, <1>2, FoundApart
<1>4. /\ x \o y \in Seq(Chars) /\ Len(x \o y) = Len(x) + 1 /\ Len(x) \in Nat
      /\ \A k \in 1..(Len(x) + 1) :
           (x \o y)[k] = IF k <= Len(x) THEN x[k] ELSE y[k - Len(x)]
  BY <1>1, ConcatProperties, LenProperties
<1>5. (x \o y)[Len(x) + 1] = ch
  <2>1. Len(x) + 1 \in 1..(Len(x) + 1) /\ ~(Len(x) + 1 <= Len(x)) /\ Len(x) + 1 - Len(x) = 1
    BY <1>4
  <2>2. QED
    BY <1>1, <1>4, <2>1
<1>6. QED
  BY <1>3, <1>4, <1>5 DEF Closed, y

\* The stream before a read, seen from what the read works on.
LEMMA StreamRead ==
    ASSUME IInv, NEW s \in Seq(Bytes), NEW e \in Seq(Bytes), s \o e = acc \o down
    PROVE  /\ Stream = (shown \o s) \o e /\ Stream = shown \o (s \o e)
           /\ s \in Seq(Chars) /\ e \in Seq(Chars)
<1>1. /\ s \in Seq(Chars) /\ e \in Seq(Chars)
      /\ shown \in Seq(Chars) /\ acc \in Seq(Chars) /\ down \in Seq(Chars)
  BY StreamTyped, SeqMonotonic DEF Chars
<1>2. Regrouped(shown, acc, down) /\ Regrouped(shown, s, e)
  BY <1>1, RegroupingChars
<1>3. QED
  BY <1>1, <1>2, Zenon DEF Stream, Regrouped

\* A read that finds no marker takes none of the ending off the shell's hands.
LEMMA ReadKeepsMarker ==
    ASSUME IInv, NEW s \in Seq(Bytes), NEW e \in Seq(Bytes), s \o e = acc \o down,
           Found(s) = {}, NEW b \in Seq(Bytes), NEW c \in Seq(Bytes), b \o c = s,
           b = <<>> \/ Len(c) >= Len(Marker),
           NEW v \in Seq(Chars), Stream = v \o Ending, Len(shown) <= Len(v) + 1
    PROVE  Len(shown \o b) <= Len(v) + 1
<1>1. /\ Stream = shown \o (s \o e)
      /\ s \in Seq(Chars) /\ e \in Seq(Chars) /\ s \o e \in Seq(Chars) /\ shown \in Seq(Chars)
      /\ b \in Seq(Chars) /\ c \in Seq(Chars)
  BY StreamRead, StreamTyped, ConcatProperties, SeqMonotonic DEF Chars
<1>2. /\ Len(s) = Len(b) + Len(c) /\ Len(shown \o b) = Len(shown) + Len(b)
      /\ Len(b) \in Nat /\ Len(c) \in Nat /\ Len(shown) \in Nat /\ Len(v) \in Nat
      /\ (b = <<>> => Len(b) = 0)
  BY <1>1, ConcatProperties, LenProperties, EmptySeq
<1>3. Len(v) + 2 \in Found(shown \o (s \o e))
  BY <1>1, EndingIs, EndingFound, FoundInJoin
<1>4. Len(v) + 2 - Len(shown) \in Found(s \o e)
  <2> DEFINE i == Len(v) + 2
  <2>1. i > Len(shown)
    BY <1>2
  <2> HIDE DEF i
  <2>2. i - Len(shown) \in Found(s \o e)
    BY <1>1, <1>3, <2>1, FoundBeside DEF i
  <2>3. QED
    BY <2>2 DEF i
<1>5. ~(Len(v) + 2 - Len(shown) + Len(Marker) - 1 <= Len(s))
  BY <1>1, <1>4, FoundBeside
<1>6. QED
  BY <1>2, <1>5, MarkerLength

\* A read finds a marker where the stream has one.
LEMMA MarkerOfStream ==
    ASSUME IInv, NEW s \in Seq(Bytes), NEW e \in Seq(Bytes), s \o e = acc \o down,
           Found(s) # {}
    PROVE  LET p == Prefix(s, Before(s))
               r == Remainder(s)
           IN  /\ p \in Seq(Chars) /\ r \in Seq(Chars)
               /\ Stream = (shown \o p) \o (Marker \o (r \o e))
               /\ Len(shown) + Len(p) + 1 \in Found(Stream)
<1> DEFINE p == Prefix(s, Before(s))
           r == Remainder(s)
<1>1. p \in Seq(Bytes) /\ r \in Seq(Bytes) /\ (p \o Marker) \o r = s
  BY MarkerFound
<1> HIDE DEF p, r
<1>2. /\ p \in Seq(Chars) /\ r \in Seq(Chars) /\ e \in Seq(Chars) /\ s \in Seq(Chars)
      /\ shown \in Seq(Chars) /\ Stream = shown \o (s \o e) /\ Marker \in Seq(Chars)
  BY <1>1, StreamRead, StreamTyped, SeqMonotonic, MarkerLength DEF Chars
<1>3. r \o e \in Seq(Chars) /\ p \o Marker \in Seq(Chars) /\ shown \o p \in Seq(Chars)
      /\ Marker \o (r \o e) \in Seq(Chars)
  BY <1>2, ConcatProperties
<1>4. /\ Regrouped(p \o Marker, r, e) /\ Regrouped(p, Marker, r \o e)
      /\ Regrouped(shown, p, Marker \o (r \o e))
  BY <1>2, <1>3, RegroupingChars
<1>5. Stream = (shown \o p) \o (Marker \o (r \o e))
  BY <1>1, <1>2, <1>4, Zenon DEF Regrouped
<1>6. 1 \in Found(Marker \o (r \o e))
  BY <1>2, <1>3, MarkerInMarker, FoundInJoin
<1>7. Len(shown \o p) + 1 \in Found(Stream) /\ Len(shown \o p) = Len(shown) + Len(p)
  BY <1>2, <1>3, <1>5, <1>6, FoundInJoin, ConcatProperties
<1>8. QED
  BY <1>2, <1>5, <1>7 DEF p, r

\* The marker a read finds is that of the ending: all of the answer is printed, and of the last
\* newline what has come.
LEMMA EndingTaken ==
    ASSUME IInv, NEW s \in Seq(Bytes), NEW e \in Seq(Bytes), s \o e = acc \o down,
           Found(s) # {}, NEW v \in Seq(Chars), Found(v) = {}, Stream = v \o Ending
    PROVE  /\ Closed(((((shown \o Prefix(s, Before(s))) \o <<Cut>>) \o Remainder(s))
                      \o <<>>) \o e)
           /\ e \in {<<>>, <<NL>>}
<1> DEFINE p == Prefix(s, Before(s))
           r == Remainder(s)
<1>1. /\ p \in Seq(Chars) /\ r \in Seq(Chars) /\ e \in Seq(Chars) /\ shown \in Seq(Chars)
      /\ Stream = (shown \o p) \o (Marker \o (r \o e))
      /\ Len(shown) + Len(p) + 1 \in Found(Stream)
  BY MarkerOfStream, StreamRead, StreamTyped
<1> HIDE DEF p, r
<1>2. /\ <<NL>> \in Seq(Chars) /\ <<Cut>> \in Seq(Chars) /\ Marker \in Seq(Chars)
      /\ v \o <<NL>> \in Seq(Chars) /\ Closed(v \o <<NL>>) /\ Marker \o <<NL>> \in Seq(Chars)
      /\ r \o e \in Seq(Chars) /\ shown \o p \in Seq(Chars)
      /\ Marker \o (r \o e) \in Seq(Chars)
  <2>1. <<NL>> \in Seq(Chars) /\ <<Cut>> \in Seq(Chars) /\ Marker \in Seq(Chars)
    BY TextsOK, MarkerLength DEF Chars
  <2>2. v \o <<NL>> \in Seq(Chars) /\ Closed(v \o <<NL>>)
    BY OneMore
  <2>3. /\ Marker \o <<NL>> \in Seq(Chars) /\ r \o e \in Seq(Chars)
        /\ shown \o p \in Seq(Chars)
    BY <1>1, <2>1, ConcatProperties
  <2>4. Marker \o (r \o e) \in Seq(Chars)
    BY <2>1, <2>3, ConcatProperties
  <2>5. QED
    BY <2>1, <2>2, <2>3, <2>4
<1>3. Stream = (v \o <<NL>>) \o (Marker \o <<NL>>)
  <2>1. Regrouped(<<NL>>, Marker, <<NL>>) /\ Regrouped(v, <<NL>>, Marker \o <<NL>>)
    BY <1>2, RegroupingChars
  <2>2. QED
    BY <2>1, Zenon DEF Regrouped, Ending
<1>4. Len(shown \o p) = Len(v \o <<NL>>)
  <2>1. Len(shown) + Len(p) + 1 = Len(v) + 2
    BY <1>1, OneMarker
  <2>2. Len(shown \o p) = Len(shown) + Len(p) /\ Len(v \o <<NL>>) = Len(v) + 1
        /\ Len(shown) \in Nat /\ Len(p) \in Nat /\ Len(v) \in Nat
    BY <1>1, <1>2, ConcatProperties, LenProperties
  <2>3. QED
    BY <2>1, <2>2
<1>5. shown \o p = v \o <<NL>> /\ Marker \o (r \o e) = Marker \o <<NL>>
  <2> DEFINE x == shown \o p
             y == Marker \o (r \o e)
             u == v \o <<NL>>
             w == Marker \o <<NL>>
  <2>1. /\ x \in Seq(Chars) /\ y \in Seq(Chars) /\ u \in Seq(Chars) /\ w \in Seq(Chars)
        /\ x \o y = u \o w /\ Len(x) = Len(u)
    BY <1>1, <1>2, <1>3, <1>4
  <2> HIDE DEF x, y, u, w
  <2>2. x = u /\ y = w
    BY <2>1, SameCut
  <2>3. QED
    BY <2>2 DEF x, y, u, w
<1>6. r \o e = <<NL>>
  BY <1>2, <1>5, SameCut
<1>7. e \in {<<>>, <<NL>>}
  <2>1. Len(r) + Len(e) = 1 /\ Len(r) \in Nat /\ Len(e) \in Nat
    <3>1. Len(r \o e) = Len(r) + Len(e) /\ Len(<<NL>>) = 1
      BY <1>1, ConcatProperties
    <3>2. QED
      BY <1>1, <1>6, <3>1, LenProperties
  <2>2. CASE Len(e) = 0
    BY <1>1, <2>2, EmptySeq
  <2>3. CASE Len(r) = 0
    <3>1. r = <<>>
      BY <1>1, <2>3, EmptySeq
    <3>2. r \o e = e
      BY <1>1, <3>1, ConcatEmptySeq
    <3>3. QED
      BY <1>6, <3>2
  <2>4. QED
    BY <2>1, <2>2, <2>3
<1>8. Closed(((((shown \o p) \o <<Cut>>) \o r) \o <<>>) \o e)
  <2> DEFINE h == (shown \o p) \o <<Cut>>
  <2>1. h \in Seq(Chars) /\ Closed(h)
    BY <1>2, <1>5, OneMore DEF Closed
  <2> HIDE DEF h
  <2>2. h \o r \in Seq(Chars)
    BY <1>1, <2>1, ConcatProperties
  <2>3. (h \o r) \o <<>> = h \o r
    BY <2>2, ConcatEmptySeq
  <2>4. Regrouped(h, r, e)
    BY <1>1, <2>1, RegroupingChars
  <2>5. ((h \o r) \o <<>>) \o e = h \o <<NL>>
    BY <1>6, <2>3, <2>4, Zenon DEF Regrouped
  <2>6. Closed(h \o <<NL>>)
    BY <2>1, OneMore DEF Closed
  <2>7. QED
    BY <2>5, <2>6 DEF h
<1>9. QED
  BY <1>7, <1>8 DEF p, r

\* A read carries the conversation on, or ends the question with the end of its answer.
LEMMA ReadConverses ==
    ASSUME IInv, Conversation, NEW n \in 1..Len(down), n <= ReadSize, Receive(n)
    PROVE  Conversation'
<1>1. PICK s \in Seq(Bytes), e \in Seq(Bytes) :
             /\ s \o e = acc \o down /\ down' = e /\ client = "reading"
             /\ UNCHANGED <<request, asked, up, helper>>
             /\ \/ /\ Found(s) # {}
                   /\ shown' = ((shown \o Prefix(s, Before(s))) \o <<Cut>>) \o Remainder(s)
                   /\ acc' = <<>> /\ client' = "prompt"
                \/ /\ Found(s) = {} /\ client' = client
                   /\ \E b, c \in Seq(Bytes) :
                        /\ b \o c = s /\ shown' = shown \o b /\ acc' = c
                        /\ b = <<>> \/ Len(c) >= Len(Marker)
  BY ReadsOn
<1>2. UNCHANGED <<up, server, rest, plain>> /\ ~Gone /\ ~Gone'
  BY <1>1 DEF helper, Gone
<1>3. CASE ~(plain /\ server # "gone")
  BY <1>2, <1>3 DEF Conversation
<1>4. CASE plain /\ server # "gone" /\ Found(s) # {}
  <2>0. /\ shown' = ((shown \o Prefix(s, Before(s))) \o <<Cut>>) \o Remainder(s)
        /\ acc' = <<>> /\ client' = "prompt"
    BY <1>1, <1>4
  <2>1. Found(Stream) # {}
    BY <1>1, <1>4, MarkerOfStream
  <2>2. ASSUME NEW y \in Seq(Chars), Found(Stream \o y) = {} PROVE FALSE
    BY <2>1, <2>2, StreamTyped, FoundInJoin
  <2>3. up = <<>> /\ AnswerOver /\ server = "reading"
    <3>1. CASE server = "reading"
      BY <1>1, <1>4, <2>1, <3>1 DEF Conversation, Closed
    <3>2. CASE server = "answering"
      BY <1>1, <1>4, <2>2, <3>2, StreamTyped DEF Conversation
    <3>3. CASE server = "ending"
      BY <1>1, <1>4, <2>1, <3>3 DEF Conversation
    <3>4. QED
      BY <1>4, <3>1, <3>2, <3>3 DEF IInv, TypeOK
  <2>4. PICK v \in Seq(Chars) : Found(v) = {} /\ Stream = v \o Ending
    BY <2>3 DEF AnswerOver
  <2>5. Closed(Stream') /\ down' \in {<<>>, <<NL>>}
    BY <1>1, <1>4, <2>0, <2>4, EndingTaken DEF Stream
  <2>6. QED
    BY <1>2, <2>0, <2>3, <2>5 DEF Conversation
<1>5. CASE plain /\ server # "gone" /\ Found(s) = {}
  <2>1. PICK b \in Seq(Bytes), c \in Seq(Bytes) :
               /\ b \o c = s /\ shown' = shown \o b /\ acc' = c
               /\ b = <<>> \/ Len(c) >= Len(Marker)
    BY <1>1, <1>5
  <2>2. Stream' = Stream
    <3>1. /\ shown \in Seq(Chars) /\ b \in Seq(Chars) /\ c \in Seq(Chars)
          /\ Stream = (shown \o s) \o e
      BY <1>1, StreamRead, StreamTyped, SeqMonotonic DEF Chars
    <3>2. Regrouped(shown, b, c)
      BY <3>1, RegroupingChars
    <3>3. QED
      BY <1>1, <2>1, <3>1, <3>2, Zenon DEF Stream, Regrouped
  <2>3. AnswerOver => AnswerOver'
    BY <1>1, <1>5, <2>1, <2>2, ReadKeepsMarker DEF AnswerOver
  <2>4. client' = "reading"
    BY <1>1, <1>5
  <2>5. QED
    BY <1>1, <1>2, <1>5, <2>2, <2>3, <2>4 DEF Conversation
<1>6. QED
  BY <1>3, <1>4, <1>5

\* The end of a shell takes its part of the conversation with it.
LEMMA EndsConversation ==
    ASSUME NEW how \in {"exited", "killed"}, ShellEnds(how)
    PROVE  Conversation'
<1>1. /\ client' \notin {"prompt", "reading"}
      /\ acc' = <<>> /\ down' = <<>> /\ shown' = <<>>
  BY DEF ShellEnds
<1>2. QED
  BY <1>1 DEF Conversation

\* A prompt that is read whole, and is not a blank one, is answered on a closed stream.
LEMMA PromptConverses ==
    ASSUME IInv, Conversation, NEW n \in 1..Len(up), ReadPrompt(n)
    PROVE  Conversation'
<1>1. /\ UNCHANGED <<client, acc, down, shown>> /\ up' = Drop(up, n) /\ server = "reading"
      /\ up \in Seq(Bytes) /\ Len(up) \in Nat
  BY LenProperties DEF ReadPrompt, shell, IInv, TypeOK
<1>2. Stream' = Stream /\ Gone' = Gone
  BY <1>1 DEF Stream, Gone
<1>3. up # <<>>
  BY <1>1, EmptySeq
<1>4. ASSUME plain' PROVE plain /\ up' = <<>>
  <2>1. n = Len(up) /\ plain
    BY <1>4 DEF ReadPrompt
  <2>2. Drop(up, n) \in Seq(Bytes) /\ Len(Drop(up, n)) = Len(up) - n /\ n \in 0..Len(up)
    <3>1. n \in 0..Len(up) /\ up \in Seq(Bytes)
      BY <1>1
    <3>2. QED
      BY <3>1, Ends
  <2>3. QED
    BY <1>1, <2>1, <2>2, EmptySeq
<1>5. CASE server' = server
  BY <1>1, <1>2, <1>3, <1>4, <1>5 DEF Conversation
<1>6. CASE server' = "answering" /\ rest' \in Answers /\ (plain' => Found(rest') = {})
  <2>1. ASSUME plain', client = "reading" PROVE Found(Stream \o rest') = {}
    <3>1. Closed(Stream)
      BY <1>1, <1>3, <1>4, <2>1 DEF Conversation
    <3>2. rest' \in Seq(Chars)
      BY <1>6, TextsOK, SeqMonotonic DEF Chars
    <3>3. QED
      BY <1>6, <2>1, <3>1, <3>2, StreamTyped, ClosedJoins
  <2>2. plain' /\ client = "prompt" => FALSE
    BY <1>1, <1>3, <1>4 DEF Conversation
  <2>3. QED
    BY <1>1, <1>2, <1>4, <1>6, <2>1, <2>2 DEF Conversation
<1>7. \/ server' = server
      \/ server' = "answering" /\ rest' \in Answers /\ (plain' => Found(rest') = {})
  BY DEF ReadPrompt
<1>8. QED
  BY <1>5, <1>6, <1>7

\* A write of the helper that does not go to a shell leaves nothing behind.
LEMMA WriteToNone ==
    ASSUME Conversation, NEW text, NEW next, Write(text, next), UNCHANGED shell, Gone
    PROVE  Conversation'
<1>1. UNCHANGED <<client, acc, down, shown>>
  BY DEF Write, shell
<1>2. QED
  BY <1>1 DEF Conversation, Gone

\* The steps of an answer carry the conversation on.
LEMMA AnswerConverses ==
    ASSUME IInv, Conversation,
           (\E n \in 1..Len(rest) : StreamChunk(n)) \/ AnswerEnds \/ CallFails \/ SendMarker
    PROVE  Conversation'
<1>1. UNCHANGED <<client, acc, shown>> /\ UNCHANGED <<up, plain>>
  BY DEF StreamChunk, AnswerEnds, CallFails, SendMarker, shell
<1>2. /\ rest \in Seq(Bytes) /\ rest \in Seq(Chars) /\ Len(rest) \in Nat
      /\ Stream \in Seq(Chars) /\ ErrorText \in Seq(Bytes) /\ Ending \in Seq(Bytes)
      /\ shown \in Seq(Chars) /\ acc \in Seq(Chars) /\ down \in Seq(Chars)
  BY StreamTyped, TextsOK, EndingIs, LenProperties DEF IInv, TypeOK
<1>3. CASE AnswerEnds
  <2>1. down' = down /\ server = "answering" /\ server' = "ending" /\ rest = <<>>
    BY <1>3 DEF AnswerEnds
  <2>2. Stream' = Stream /\ Stream \o rest = Stream
    BY <1>1, <1>2, <2>1, ConcatEmptySeq DEF Stream
  <2>3. QED
    BY <1>1, <2>1, <2>2 DEF Conversation, Gone
<1>4. CASE Gone
  BY <1>3, <1>4, WriteToNone DEF StreamChunk, CallFails, SendMarker
<1>5. ASSUME ~Gone, NEW n \in 1..Len(rest), StreamChunk(n) PROVE Conversation'
  <2>1. /\ n \in 0..Len(rest) /\ Prefix(rest, n) \in Seq(Bytes) /\ Drop(rest, n) \in Seq(Bytes)
        /\ Prefix(rest, n) \o Drop(rest, n) = rest
    <3>1. n \in 0..Len(rest) /\ rest \in Seq(Bytes)
      BY <1>2
    <3>2. QED
      BY <3>1, Ends, Cutting
  <2>2. /\ server = "answering" /\ server' = "answering" /\ rest' = Drop(rest, n)
        /\ Stream' = Stream \o Prefix(rest, n) /\ ~Gone'
    BY <1>5, <2>1, WriteGoesOn DEF StreamChunk
  <2>3. Stream' \o rest' = Stream \o rest
    <3>1. Prefix(rest, n) \in Seq(Chars) /\ Drop(rest, n) \in Seq(Chars)
      BY <2>1, SeqMonotonic DEF Chars
    <3>2. Regrouped(Stream, Prefix(rest, n), Drop(rest, n))
      BY <1>2, <3>1, RegroupingChars
    <3>3. QED
      BY <2>1, <2>2, <3>2, Zenon DEF Regrouped
  <2>4. QED
    BY <1>1, <2>2, <2>3 DEF Conversation
<1>6. CASE ~Gone /\ CallFails
  <2>1. /\ server = "answering" /\ server' = "ending" /\ Stream' = Stream \o ErrorText /\ ~Gone'
    BY <1>2, <1>6, WriteGoesOn DEF CallFails
  <2>2. ASSUME Found(Stream \o rest) = {} PROVE Found(Stream') = {}
    <3>1. Found(Stream) = {}
      BY <1>2, <2>2, FoundInJoin
    <3>2. QED
      BY <1>2, <2>1, <3>1, ErrorJoins
  <2>3. QED
    BY <1>1, <2>1, <2>2 DEF Conversation
<1>7. CASE ~Gone /\ SendMarker
  <2>1. /\ server = "ending" /\ server' = "reading" /\ Stream' = Stream \o Ending /\ ~Gone'
    BY <1>2, <1>7, WriteGoesOn DEF SendMarker, Ending
  <2>2. ASSUME Found(Stream) = {} PROVE AnswerOver'
    <3>1. Len(shown) <= Len(Stream) + 1
      <4>1. /\ shown \o acc \in Seq(Chars) /\ Len(shown \o acc) = Len(shown) + Len(acc)
            /\ Len(Stream) = Len(shown \o acc) + Len(down)
            /\ Len(shown) \in Nat /\ Len(acc) \in Nat /\ Len(down) \in Nat
        BY <1>2, ConcatProperties, LenProperties DEF Stream
      <4>2. QED
        BY <4>1
    <3>2. QED
      BY <1>1, <1>2, <2>1, <2>2, <3>1 DEF AnswerOver
  <2>3. QED
    BY <1>1, <2>1, <2>2 DEF Conversation
<1>8. QED
  BY <1>3, <1>4, <1>5, <1>6, <1>7

\* Every step carries the conversation on.
LEMMA StepConverses == IInv /\ Conversation /\ [Next]_vars => Conversation'
<1> SUFFICES ASSUME IInv, Conversation, [Next]_vars PROVE Conversation'
  OBVIOUS
<1>1. CASE Ask
  <2>1. /\ client = "prompt" /\ client' = "reading"
        /\ UNCHANGED <<acc, down, shown, server, rest, plain>>
    BY <1>1 DEF Ask, helper
  <2>2. Stream' = Stream
    BY <2>1 DEF Stream
  <2>3. QED
    BY <2>1, <2>2 DEF Conversation, Gone, Closed
<1>2. CASE AskInVain \/ Leave \/ Kill
  BY <1>2, EndsConversation DEF AskInVain, Leave, Kill
<1>3. CASE ShellReads
  <2>1. CASE StreamEnds
    BY <2>1 DEF StreamEnds, helper, Conversation, Gone
  <2>2. QED
    BY <1>3, <2>1, ReadConverses DEF ShellReads
<1>4. CASE HelperStep
  BY <1>4, PromptConverses, AnswerConverses DEF HelperStep
<1>5. CASE Crash
  BY <1>5 DEF Crash, Conversation, shell, Gone
<1>6. CASE NextShell
  <2>1. /\ Gone /\ server' = "reading" /\ up' = <<>> /\ client' = "prompt"
        /\ UNCHANGED <<acc, down, shown>>
    BY <1>6 DEF NextShell
  <2>2. acc' = <<>> /\ down' = <<>> /\ shown' = <<>>
    BY <2>1 DEF Conversation
  <2>3. Stream' = <<>>
    <3>1. <<>> \in Seq(Chars) /\ (<<>> \o <<>>) \o <<>> = <<>>
      BY ConcatEmptySeq
    <3>2. QED
      BY <2>2, <3>1, Zenon DEF Stream
  <2>4. Closed(Stream')
    BY <2>3, FoundInNothing DEF Closed
  <2>5. QED
    BY <2>1, <2>2, <2>4 DEF Conversation, Gone
<1>7. CASE Ended \/ UNCHANGED vars
  <2>1. UNCHANGED <<client, acc, down, shown, up, server, rest, plain>>
    BY <1>7 DEF Ended, vars, shell, helper
  <2>2. Stream' = Stream
    BY <2>1 DEF Stream
  <2>3. QED
    BY <2>1, <2>2 DEF Conversation, Gone, Closed, AnswerOver
<1>8. QED
  BY <1>1, <1>2, <1>3, <1>4, <1>5, <1>6, <1>7 DEF Next

\* The shell asks for the next line when the answer to the last one is on the screen, all of it,
\* and nothing of the marker, but for a newline that may be under way: unless an answer held a
\* marker or a read split a line.
THEOREM AnswersInStep == Spec => []InStep
<1>1. Init => Conversation
  <2> SUFFICES ASSUME Init PROVE Conversation
    OBVIOUS
  <2>1. <<>> \in Seq(Chars) /\ (<<>> \o <<>>) \o <<>> = <<>>
    BY ConcatEmptySeq
  <2>2. Stream = <<>>
    BY <2>1, Zenon DEF Init, Stream
  <2>3. Closed(Stream)
    BY <2>2, FoundInNothing DEF Closed
  <2>4. QED
    BY <2>3 DEF Init, Conversation, Gone
<1>2. Conversation /\ IInv => InStep
  <2> SUFFICES ASSUME Conversation, IInv, client = "prompt", plain, server # "gone"
               PROVE  /\ up = <<>> /\ server = "reading" /\ down \in {<<>>, <<NL>>}
                      /\ Found(shown) = {}
    BY DEF InStep
  <2>1. Found(Stream) = {}
    BY DEF Conversation, Closed
  <2>2. /\ shown \in Seq(Chars) /\ acc \in Seq(Chars) /\ down \in Seq(Chars)
        /\ shown \o acc \in Seq(Chars)
    BY StreamTyped, ConcatProperties
  <2>3. Found(shown) = {}
    BY <2>1, <2>2, FoundInJoin DEF Stream
  <2>4. QED
    BY <2>3 DEF Conversation
<1>3. QED
  BY <1>1, <1>2, StepConverses, Invariant, PTL DEF Spec
===============================================================================
