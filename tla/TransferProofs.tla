---------------------------- MODULE TransferProofs ----------------------------
(* The bytes of a connection keep their order, for every request, file, script *)
(* and buffer, and however the kernel cuts its reads and writes.               *)
EXTENDS Transfer, SequenceTheorems, WellFoundedInduction, TLAPS

-----------------------------------------------------------------------------
(* Numbers and sequences                                                      *)

\* A set of places has a first and a last.
LEMMA FirstExists ==
  ASSUME NEW S, S \subseteq Nat, S # {}
  PROVE  Min(S) \in S /\ \A y \in S : Min(S) <= y
<1>1. PICK m \in S : \A k \in S : <<k, m>> \notin OpToRel(<, Nat)
  BY WFMin, NatLessThanWellFounded, Zenon
<1>2. \A k \in S : ~(k < m)
  BY <1>1, Zenon DEF OpToRel
<1>3. \A k \in S : m <= k
  BY <1>2
<1> QED
  BY <1>3, Zenon DEF Min

LEMMA LastExists ==
  ASSUME NEW n \in Nat, NEW S, S \subseteq 0..n, S # {}
  PROVE  Max(S) \in S /\ \A y \in S : Max(S) >= y
<1> DEFINE R == {n - x : x \in S}
<1>0. \A x \in S : x \in Int /\ 0 <= x /\ x <= n
  OBVIOUS
<1>1. R \subseteq Nat /\ R # {}
  <2>1. \A r \in R : r \in Nat
    BY <1>0
  <2>2. PICK x \in S : TRUE
    OBVIOUS
  <2>3. n - x \in R
    OBVIOUS
  <2> HIDE DEF R
  <2> QED
    BY <2>1, <2>3
<1>2. PICK m \in R : \A k \in R : <<k, m>> \notin OpToRel(<, Nat)
  BY <1>1, WFMin, NatLessThanWellFounded, Zenon
<1>3. \A k \in R : ~(k < m)
  BY <1>1, <1>2, Zenon DEF OpToRel
<1>4. PICK x \in S : m = n - x
  OBVIOUS
<1>5. \A y \in S : x >= y
  <2> SUFFICES ASSUME NEW y \in S PROVE x >= y
    OBVIOUS
  <2>1. n - y \in R
    OBVIOUS
  <2> HIDE DEF R
  <2>2. ~(n - y < n - x)
    BY <1>3, <1>4, <2>1
  <2> QED
    BY <2>2
<1> QED
  BY <1>5, Zenon DEF Max

\* A sequence less its first n bytes, and one with bytes appended.
LEMMA Dropped ==
  ASSUME NEW d \in Seq(STRING), NEW n \in Nat
  PROVE  /\ SubSeq(d, n + 1, Len(d)) \in Seq(STRING)
         /\ Len(SubSeq(d, n + 1, Len(d))) = IF n <= Len(d) THEN Len(d) - n ELSE 0
         /\ \A i \in 1..Len(d) - n : SubSeq(d, n + 1, Len(d))[i] = d[n + i]
  OBVIOUS

LEMMA Appended ==
  ASSUME NEW d \in Seq(STRING), NEW x \in Seq(STRING)
  PROVE  /\ d \o x \in Seq(STRING)
         /\ Len(d \o x) = Len(d) + Len(x)
         /\ \A i \in 1..Len(d) : (d \o x)[i] = d[i]
         /\ \A i \in 1..Len(x) : (d \o x)[Len(d) + i] = x[i]
  OBVIOUS

\* What is dropped does not depend on what is appended.
LEMMA AppendDropped ==
  ASSUME NEW d \in Seq(STRING), NEW x \in Seq(STRING), NEW w \in 0..Len(d)
  PROVE  SubSeq(d \o x, w + 1, Len(d \o x)) = SubSeq(d, w + 1, Len(d)) \o x
<1> DEFINE j == d \o x
           u == SubSeq(d, w + 1, Len(d))
           a == SubSeq(j, w + 1, Len(j))
           c == u \o x
<1>1. j \in Seq(STRING) /\ Len(j) = Len(d) + Len(x)
  BY Appended
<1>0. w \in Nat /\ w <= Len(d) /\ Len(d) \in Nat /\ Len(x) \in Nat
  OBVIOUS
<1>2. u \in Seq(STRING) /\ Len(u) = Len(d) - w
  <2>1. Len(u) = IF w <= Len(d) THEN Len(d) - w ELSE 0
    BY <1>0, Dropped
  <2>2. u \in Seq(STRING)
    BY <1>0, Dropped
  <2> HIDE DEF u
  <2> QED BY <1>0, <2>1, <2>2
<1>3. \A i \in 1..Len(d) : j[i] = d[i]
  BY Appended
<1>4. \A i \in 1..Len(x) : j[Len(d) + i] = x[i]
  BY Appended
<1>5. \A i \in 1..Len(d) - w : u[i] = d[w + i]
  BY Dropped
<1> HIDE DEF j, u
<1>6. a \in Seq(STRING) /\ Len(a) = Len(d) + Len(x) - w
  <2>1. Len(a) = IF w <= Len(j) THEN Len(j) - w ELSE 0
    BY <1>0, <1>1, Dropped
  <2>2. a \in Seq(STRING)
    BY <1>0, <1>1, Dropped
  <2> HIDE DEF a
  <2> QED BY <1>0, <1>1, <2>1, <2>2
<1>7. \A i \in 1..Len(d) + Len(x) - w : a[i] = j[w + i]
  BY <1>1, Dropped
<1>8. c \in Seq(STRING) /\ Len(c) = Len(d) - w + Len(x)
  BY <1>2, Appended
<1>9. \A i \in 1..Len(d) - w : c[i] = u[i]
  BY <1>2, Appended
<1>10. \A i \in 1..Len(x) : c[Len(d) - w + i] = x[i]
  BY <1>2, Appended
<1> HIDE DEF a, c
<1>11. ASSUME NEW i \in 1..Len(a) PROVE a[i] = c[i]
  <2>1. CASE i <= Len(d) - w
    <3>1. w + i \in 1..Len(d) /\ i \in 1..Len(d) - w /\ i \in 1..Len(d) + Len(x) - w
      BY <1>6, <2>1
    <3> QED BY <3>1, <1>7, <1>3, <1>5, <1>9
  <2>2. CASE ~(i <= Len(d) - w)
    <3> DEFINE k == i - (Len(d) - w)
    <3>1. k \in 1..Len(x) /\ w + i = Len(d) + k /\ i = Len(d) - w + k /\ i \in 1..Len(d) + Len(x) - w
      BY <1>6, <2>2
    <3> HIDE DEF k
    <3>2. c[i] = x[k]
       BY <3>1, <1>10
    <3>3. a[i] = j[w + i]
       BY <3>1, <1>7
    <3>4. j[w + i] = x[k]
       BY <3>1, <1>4
    <3> QED BY <3>2, <3>3, <3>4
  <2> QED BY <2>1, <2>2
<1>12. a = c
  <2>1. Len(a) = Len(c)
    BY <1>6, <1>8
  <2> QED
  BY <1>6, <1>8, <1>11, <2>1, SeqEqual
<1> QED
  BY <1>12 DEF a, c, j, u

\* The bytes from one place to another.
LEMMA Middle ==
  ASSUME NEW s \in Seq(STRING), NEW t \in Nat, NEW f \in Nat, f <= t, t <= Len(s)
  PROVE  /\ SubSeq(s, f + 1, t) \in Seq(STRING)
         /\ Len(SubSeq(s, f + 1, t)) = t - f
         /\ \A i \in 1..t - f : SubSeq(s, f + 1, t)[i] = s[f + i]
<1>1. SubSeq(s, f + 1, t) \in Seq(STRING)
  OBVIOUS
<1>2. Len(SubSeq(s, f + 1, t)) = t - f
  OBVIOUS
<1>3. \A i \in 1..t - f : SubSeq(s, f + 1, t)[i] = s[f + i]
  OBVIOUS
<1> QED
  BY <1>1, <1>2, <1>3

\* Some of them less the first n.
LEMMA MiddleDropped ==
  ASSUME NEW s \in Seq(STRING), NEW t \in Nat, NEW f \in Nat, f <= t, t <= Len(s), NEW n \in Nat
  PROVE  LET d == SubSeq(s, f + 1, t)
             r == SubSeq(d, n + 1, Len(d))
             g == IF f + n <= t THEN f + n ELSE t
         IN r = SubSeq(s, g + 1, t)
<1> DEFINE d == SubSeq(s, f + 1, t)
           r == SubSeq(d, n + 1, Len(d))
           g == IF f + n <= t THEN f + n ELSE t
           u == SubSeq(s, g + 1, t)
<1>1. d \in Seq(STRING) /\ Len(d) = t - f /\ \A i \in 1..t - f : d[i] = s[f + i]
  BY Middle
<1>2. g \in Nat /\ g <= t /\ t - g = IF n <= t - f THEN t - f - n ELSE 0
  OBVIOUS
<1> HIDE DEF d, g
<1>3. Len(r) = t - g /\ r \in Seq(STRING)
  <2>1. Len(r) = IF n <= Len(d) THEN Len(d) - n ELSE 0
    BY <1>1, Dropped
  <2>2. r \in Seq(STRING)
    BY <1>1, Dropped
  <2> HIDE DEF r
  <2> QED
    BY <1>1, <1>2, <2>1, <2>2
<1>4. \A i \in 1..Len(d) - n : r[i] = d[n + i]
  BY <1>1, Dropped
<1>5. u \in Seq(STRING) /\ Len(u) = t - g /\ \A i \in 1..t - g : u[i] = s[g + i]
  BY <1>2, Middle
<1> HIDE DEF r, u
<1>6. ASSUME NEW i \in 1..t - g PROVE r[i] = u[i]
  <2>1. g = f + n /\ i \in 1..Len(d) - n /\ n + i \in 1..t - f /\ f + (n + i) = g + i
    BY <1>1, <1>2 DEF g
  <2>2. r[i] = d[n + i] /\ d[n + i] = s[f + (n + i)]
    BY <1>1, <1>4, <2>1
  <2> QED
    BY <1>5, <2>1, <2>2
<1>7. r = u
  BY <1>3, <1>5, <1>6, SeqEqual
<1> QED
  BY <1>7 DEF r, u, d, g

\* Bytes, and those right after them.
LEMMA Adjacent ==
  ASSUME NEW s \in Seq(STRING), NEW f \in Nat, NEW t \in Nat, NEW e \in Nat,
         f <= t, t <= e, e <= Len(s)
  PROVE  SubSeq(s, f + 1, t) \o SubSeq(s, t + 1, e) = SubSeq(s, f + 1, e)
<1>1. f + 1 \in 1..Len(s) + 1 /\ t \in (f + 1) - 1..Len(s) /\ e \in t..Len(s)
  OBVIOUS
<1> QED
  BY <1>1, ConcatAdjacentSubSeq, Zenon

\* The first n bytes of those after w, and the rest.
LEMMA SplitAt ==
  ASSUME NEW d \in Seq(STRING), NEW w \in 0..Len(d), NEW n \in 0..Len(d) - w
  PROVE  LET u == SubSeq(d, w + 1, Len(d))
         IN /\ SubSeq(u, 1, n) \in Seq(STRING)
            /\ SubSeq(d, w + n + 1, Len(d)) \in Seq(STRING)
            /\ SubSeq(u, 1, n) \o SubSeq(d, w + n + 1, Len(d)) = u
<1> DEFINE u == SubSeq(d, w + 1, Len(d))
           a == SubSeq(u, 1, n)
           b == SubSeq(d, w + 1, w + n)
<1>1. w \in Nat /\ n \in Nat /\ Len(d) \in Nat /\ w + n <= Len(d)
  OBVIOUS
<1>2. b \o SubSeq(d, w + n + 1, Len(d)) = u
  <2>1. w + n \in Nat /\ w <= w + n /\ Len(d) <= Len(d)
    BY <1>1
  <2> QED
    BY <1>1, <2>1, Adjacent, Zenon
<1>3. u \in Seq(STRING) /\ Len(u) = Len(d) - w
  OBVIOUS
<1>4. \A i \in 1..Len(d) - w : u[i] = d[w + i]
  BY <1>1, Dropped
<1>5. b \in Seq(STRING) /\ Len(b) = n /\ \A i \in 1..n : b[i] = d[w + i]
  <2>1. w + n \in Nat /\ w <= w + n /\ w + n - w = n
    BY <1>1
  <2> QED
    BY <1>1, <2>1, Middle
<1> HIDE DEF u
<1>6. a \in Seq(STRING) /\ Len(a) = n /\ \A i \in 1..n : a[i] = u[i]
  <2>1. 0 + 1 = 1 /\ n - 0 = n /\ \A i \in 1..n : 0 + i = i
    BY <1>1
  <2>2. n <= Len(u) /\ 0 <= n
    BY <1>1, <1>3
  <2> QED
    BY <1>1, <1>3, <2>1, <2>2, Middle
<1> HIDE DEF a, b
<1>7. ASSUME NEW i \in 1..n PROVE a[i] = b[i]
  <2>1. i \in 1..Len(d) - w
    BY <1>1
  <2>2. u[i] = d[w + i]
    BY <1>4, <2>1, Zenon
  <2> QED
    BY <1>5, <1>6, <2>2, Zenon
<1>8. a = b
  BY <1>5, <1>6, <1>7, SeqEqual
<1>9. SubSeq(d, w + n + 1, Len(d)) \in Seq(STRING)
  BY <1>1
<1> QED
  BY <1>2, <1>6, <1>8, <1>9 DEF a, b, u

-----------------------------------------------------------------------------
(* The buffer                                                                 *)

BufferFields == {"data", "writepos", "capacity"}

\* Its positions are in order.
Orderly(b) ==
    /\ DOMAIN b = BufferFields
    /\ b.data \in Seq(STRING) /\ b.writepos \in 0..Len(b.data)

\* Then what is left to write is the end of it.
LEMMA UnfedEnds ==
  ASSUME NEW d \in Seq(STRING), NEW w \in 0..Len(d), NEW b, b.data = d, b.writepos = w
  PROVE  Unfed(b) = SubSeq(d, w + 1, Len(d))
<1> DEFINE u == Unfed(b)
           a == SubSeq(d, w + 1, Len(d))
<1>1. w \in Nat /\ w <= Len(d) /\ Len(d) \in Nat /\ Len(d) - w \in Nat
  OBVIOUS
<1>2. a \in Seq(STRING) /\ Len(a) = Len(d) - w /\ \A i \in 1..Len(d) - w : a[i] = d[w + i]
  <2>1. Len(a) = IF w <= Len(d) THEN Len(d) - w ELSE 0
    BY <1>1, Dropped
  <2>2. a \in Seq(STRING) /\ \A i \in 1..Len(d) - w : a[i] = d[w + i]
    BY <1>1, Dropped
  <2> HIDE DEF a
  <2> QED
    BY <1>1, <2>1, <2>2
<1>3. u = [i \in 1..Len(d) - w |-> d[w + i]]
  <2>1. \A i \in 1..Len(d) - w : w + i \in DOMAIN d
    BY <1>1
  <2>2. u = [i \in 1..Len(d) - w |-> IF w + i \in DOMAIN d THEN d[w + i] ELSE Stray]
    BY Zenon DEF Unfed, FeedCapacity
  <2> QED
    BY <2>1, <2>2, Zenon
<1> HIDE DEF u, a
<1>4. \A i \in 1..Len(d) - w : d[w + i] \in STRING
  BY <1>1
<1>5. u \in Seq(STRING) /\ Len(u) = Len(d) - w /\ \A i \in 1..Len(d) - w : u[i] = d[w + i]
  BY <1>1, <1>3, <1>4
<1>6. \A i \in 1..Len(u) : u[i] = a[i]
  BY <1>2, <1>5
<1>7. Len(u) = Len(a)
  BY <1>2, <1>5
<1>8. u = a
  BY <1>2, <1>5, <1>6, <1>7, SeqEqual
<1> QED
  BY <1>8 DEF u, a

LEMMA UnfedIs ==
  ASSUME NEW b, Orderly(b)
  PROVE  /\ Unfed(b) \in Seq(STRING) /\ FeedCapacity(b) \in Nat /\ Len(Unfed(b)) = FeedCapacity(b)
         /\ Unfed(b) = SubSeq(b.data, b.writepos + 1, Len(b.data))
<1> DEFINE d == b.data
           w == b.writepos
<1>1. d \in Seq(STRING) /\ w \in 0..Len(d)
  BY DEF Orderly
<1>2. Unfed(b) = SubSeq(d, w + 1, Len(d))
  BY <1>1, UnfedEnds, Zenon
<1>3. FeedCapacity(b) = Len(d) - w
  BY DEF FeedCapacity
<1> HIDE DEF d, w
<1>4. /\ SubSeq(d, w + 1, Len(d)) \in Seq(STRING)
      /\ Len(SubSeq(d, w + 1, Len(d))) = Len(d) - w /\ Len(d) - w \in Nat
  BY <1>1
<1> QED
  BY <1>2, <1>3, <1>4 DEF d, w

LEMMA ClearIs ==
  ASSUME NEW b, DOMAIN b = BufferFields
  PROVE  Orderly(Clear(b)) /\ Unfed(Clear(b)) = <<>> /\ Clear(b).data = <<>>
<1>1. Clear(b).data = <<>> /\ Clear(b).writepos = 0 /\ DOMAIN Clear(b) = BufferFields
  BY DEF Clear, BufferFields
<1>2. Orderly(Clear(b))
  BY <1>1 DEF Orderly
<1>3. Unfed(Clear(b)) = SubSeq(<<>>, 0 + 1, Len(<<>>))
  BY <1>1, <1>2, UnfedIs
<1> QED
  BY <1>1, <1>2, <1>3

LEMMA FillIs ==
  ASSUME NEW b, Orderly(b), NEW x \in Seq(STRING)
  PROVE  Orderly(Fill(b, x)) /\ Unfed(Fill(b, x)) = Unfed(b) \o x
<1> DEFINE j == b.data \o x
<1>1. /\ Fill(b, x).data = j
      /\ Fill(b, x).writepos = b.writepos
      /\ DOMAIN Fill(b, x) = BufferFields
  BY DEF Fill, Orderly, BufferFields
<1>2. j \in Seq(STRING) /\ Len(j) = Len(b.data) + Len(x)
  BY Appended DEF Orderly
<1>3. SubSeq(j, b.writepos + 1, Len(j)) = Unfed(b) \o x
  <2>1. Unfed(b) = SubSeq(b.data, b.writepos + 1, Len(b.data))
    BY UnfedIs
  <2>2. SubSeq(j, b.writepos + 1, Len(j)) = SubSeq(b.data, b.writepos + 1, Len(b.data)) \o x
    BY AppendDropped, Zenon DEF Orderly
  <2> QED
    BY <2>1, <2>2
<1> HIDE DEF j
<1>4. b.writepos \in 0..Len(j)
  BY <1>2 DEF Orderly
<1>5. Orderly(Fill(b, x))
  BY <1>1, <1>2, <1>4, Zenon DEF Orderly
<1>6. Unfed(Fill(b, x)) = Unfed(b) \o x
  BY <1>1, <1>3, <1>5, UnfedIs, Zenon
<1> QED
  BY <1>5, <1>6

LEMMA FeedIs ==
  ASSUME NEW b, Orderly(b), NEW n \in 0..FeedCapacity(b)
  PROVE  /\ Orderly(Feed(b, n))
         /\ SubSeq(Unfed(b), 1, n) \in Seq(STRING)
         /\ Unfed(Feed(b, n)) \in Seq(STRING)
         /\ SubSeq(Unfed(b), 1, n) \o Unfed(Feed(b, n)) = Unfed(b)
<1>1. /\ Feed(b, n).data = b.data
      /\ Feed(b, n).writepos = b.writepos + n
      /\ DOMAIN Feed(b, n) = BufferFields
  BY DEF Feed, Orderly, BufferFields
<1>2. b.data \in Seq(STRING) /\ b.writepos \in 0..Len(b.data) /\ n \in 0..Len(b.data) - b.writepos
  BY DEF Orderly, FeedCapacity
<1>3. b.writepos + n \in 0..Len(b.data)
  BY <1>2
<1>4. /\ SubSeq(Unfed(b), 1, n) \in Seq(STRING)
      /\ SubSeq(b.data, b.writepos + n + 1, Len(b.data)) \in Seq(STRING)
      /\ SubSeq(Unfed(b), 1, n) \o SubSeq(b.data, b.writepos + n + 1, Len(b.data)) = Unfed(b)
  BY <1>2, SplitAt, UnfedIs, Zenon
<1>5. Orderly(Feed(b, n))
  BY <1>1, <1>2, <1>3, Zenon DEF Orderly
<1>6. Unfed(Feed(b, n)) = SubSeq(b.data, b.writepos + n + 1, Len(b.data))
  BY <1>1, <1>5, UnfedIs, Zenon
<1> QED
  BY <1>4, <1>5, <1>6, Zenon

\* It holds the last of the t bytes of s that were read, and none was fed.
Lastly(b, s, t) ==
    /\ DOMAIN b = BufferFields
    /\ b.data \in Seq(STRING) /\ b.writepos = 0
    /\ \E f \in 0..t : b.data = SubSeq(s, f + 1, t)

LEMMA LastlyIs ==
  ASSUME NEW b, NEW s \in Seq(STRING), NEW t \in 0..Len(s), Lastly(b, s, t)
  PROVE  /\ Orderly(b) /\ Unfed(b) = b.data
         /\ t - Len(b.data) \in 0..t
         /\ b.data = SubSeq(s, (t - Len(b.data)) + 1, t)
<1>1. PICK f \in 0..t : b.data = SubSeq(s, f + 1, t)
  BY DEF Lastly
<1>2. f \in Nat /\ t \in Nat /\ f <= t /\ t <= Len(s)
  OBVIOUS
<1>3. Len(SubSeq(s, f + 1, t)) = t - f
  BY <1>2, Middle
<1>4. t - Len(b.data) = f
  <2>1. Len(b.data) = t - f
    BY <1>1, <1>3
  <2> QED
    BY <1>2, <2>1
<1>5. b.data \in Seq(STRING) /\ b.writepos = 0 /\ DOMAIN b = BufferFields
  BY DEF Lastly
<1>6. Unfed(b) = b.data /\ Orderly(b)
  <2>1. Orderly(b)
    BY <1>5 DEF Orderly
  <2>2. Unfed(b) = SubSeq(b.data, 0 + 1, Len(b.data))
    BY <1>5, <2>1, UnfedIs, Zenon
  <2> QED
    BY <1>5, <2>1, <2>2
<1> QED
  BY <1>1, <1>4, <1>6

LEMMA LastlyClear ==
  ASSUME NEW b, NEW s \in Seq(STRING), NEW t \in 0..Len(s), DOMAIN b = BufferFields
  PROVE  Lastly(Clear(b), s, t)
<1>1. Clear(b).data = <<>> /\ Clear(b).writepos = 0 /\ DOMAIN Clear(b) = BufferFields
  BY DEF Clear, BufferFields
<1>2. t \in 0..t /\ t + 1 \in Int /\ t \in Int /\ t < t + 1
  OBVIOUS
<1>3. SubSeq(s, t + 1, t) = <<>>
  BY <1>2, SubSeqEmpty, Zenon
<1>4. <<>> \in Seq(STRING)
  OBVIOUS
<1>5. \E f \in 0..t : <<>> = SubSeq(s, f + 1, t)
  BY <1>2, <1>3, Zenon
<1> QED
  BY <1>1, <1>4, <1>5, Zenon DEF Lastly

LEMMA LastlyFill ==
  ASSUME NEW b, NEW s \in Seq(STRING), NEW t \in 0..Len(s), Lastly(b, s, t),
         NEW n \in Nat, t + n <= Len(s)
  PROVE  Lastly(Fill(b, SubSeq(s, t + 1, t + n)), s, t + n)
<1> DEFINE x == SubSeq(s, t + 1, t + n)
<1>1. PICK f \in 0..t : b.data = SubSeq(s, f + 1, t)
  BY DEF Lastly
<1>2. /\ f \in Nat /\ t \in Nat /\ t + n \in Nat /\ f <= t /\ t <= t + n /\ f \in 0..t + n
  OBVIOUS
<1>3. b.data \o x = SubSeq(s, f + 1, t + n)
  <2>1. SubSeq(s, f + 1, t) \o SubSeq(s, t + 1, t + n) = SubSeq(s, f + 1, t + n)
    BY <1>2, Adjacent
  <2> QED
    BY <1>1, <2>1
<1>4. x \in Seq(STRING)
  BY <1>2, Middle, Zenon
<1>5. b.data \o x \in Seq(STRING)
  BY <1>4, Appended, Zenon DEF Lastly
<1>6. /\ Fill(b, x).data = b.data \o x
      /\ Fill(b, x).writepos = 0
      /\ DOMAIN Fill(b, x) = BufferFields
  BY DEF Fill, Lastly, BufferFields
<1> QED
  BY <1>2, <1>3, <1>5, <1>6, Zenon DEF Lastly

LEMMA LastlyErase ==
  ASSUME NEW b, NEW s \in Seq(STRING), NEW t \in 0..Len(s), Lastly(b, s, t), NEW n \in Nat
  PROVE  Lastly(Erase(b, n), s, t)
<1>1. PICK f \in 0..t : b.data = SubSeq(s, f + 1, t)
  BY DEF Lastly
<1> DEFINE g == IF f + n <= t THEN f + n ELSE t
           r == SubSeq(b.data, n + 1, Len(b.data))
<1>2. f \in Nat /\ t \in Nat /\ f <= t /\ t <= Len(s) /\ g \in 0..t
  OBVIOUS
<1>3. r = SubSeq(s, g + 1, t)
  <2>1. LET d == SubSeq(s, f + 1, t) IN SubSeq(d, n + 1, Len(d)) = SubSeq(s, g + 1, t)
    BY <1>2, MiddleDropped, Zenon
  <2> QED
    BY <1>1, <2>1, Zenon
<1>4. r \in Seq(STRING)
  BY Dropped, Zenon DEF Lastly
<1>5. /\ Erase(b, n).data = r
      /\ Erase(b, n).writepos = 0
      /\ DOMAIN Erase(b, n) = BufferFields
  <2>1. DOMAIN b = BufferFields /\ b.writepos = 0
    BY DEF Lastly
  <2>2. DOMAIN Erase(b, n) = BufferFields
    BY <2>1 DEF Erase
  <2>3. Erase(b, n).data = r
    BY <2>1, Zenon DEF Erase, BufferFields
  <2>4. Erase(b, n).writepos = IF 0 > 0 THEN 0 - n ELSE 0
    BY <2>1, Zenon DEF Erase, BufferFields
  <2> QED
    BY <2>2, <2>3, <2>4
<1> HIDE DEF g, r
<1> QED
  BY <1>2, <1>3, <1>4, <1>5, Zenon DEF Lastly

-----------------------------------------------------------------------------
(* What the handlers leave of the history                                     *)

Fields == {"state", "buf", "fields", "status", "written", "headers", "body", "stream", "temp",
           "heard", "clean", "torn", "taken", "verdict", "start", "given", "answer", "plan", "end"}

Kept(r, k) ==
    /\ DOMAIN r = Fields
    /\ r.taken = k.taken /\ r.start = k.start /\ r.given = k.given /\ r.verdict = k.verdict

\* The states in which nothing is passed on any more.
Late == {"DISCARD_BODY", "CGI_HEADERS", "CGI_BODY", "RESPONSE", "CLOSED"}

\* A handler that takes no bytes to pass on,
Declines(r, k) == Kept(r, k) /\ r.state \in Late

\* and one that stores what is in the buffer.
Stores(r, k) ==
    /\ DOMAIN r = Fields
    /\ r.taken = k.taken /\ r.start = k.start /\ r.verdict = k.verdict
    /\ r.given = k.given \o Unfed(k.buf)
    /\ \/ r.state \in Late
       \/ r.state = "REQ_BODY" /\ r.buf = Clear(k.buf)

LEMMA AnswerFacts ==
  ASSUME NEW k, DOMAIN k = Fields, NEW q, NEW files, NEW f
  PROVE  /\ Declines(AnswerFile(k, f, files), k)
         /\ Declines(AnswerPage(k, files), k)
         /\ Declines(AnswerUpload(k, files), k)
         /\ Declines(AnswerListing(k, q, files), k)
         /\ Declines(Collect(k), k)
         /\ Declines(BadGateway(k, files), k)
<1>1. ASSUME NEW n PROVE Kept(Headed(k, n), k)
  BY DEF Headed, Kept, Fields
<1>2. ASSUME NEW h, Kept(h, k) PROVE Declines(Respond(h, files), k)
  BY <1>2 DEF Respond, Declines, Kept, Late, Fields
<1>3. ASSUME NEW h, Kept(h, k), NEW t PROVE Kept([h EXCEPT !.stream = t], k)
  BY <1>3 DEF Kept, Fields
<1>4. ASSUME NEW h, Kept(h, k), NEW t PROVE Kept([h EXCEPT !.body = t], k)
  BY <1>4 DEF Kept, Fields
<1>5. Declines(AnswerFile(k, f, files), k)
  <2>1. Declines(InternalError(k), k)
    BY DEF InternalError, Declines, Kept, Late, Fields
  <2> QED
    BY <1>1, <1>2, <1>3, <2>1, Zenon DEF AnswerFile
<1>6. Declines(AnswerPage(k, files), k)
  BY <1>1, <1>2, <1>4, Zenon DEF AnswerPage
<1>7. Declines(AnswerUpload(k, files), k)
  BY <1>1, <1>2, Zenon DEF AnswerUpload
<1>8. Declines(AnswerListing(k, q, files), k)
  <2>1. ASSUME NEW h, Kept(h, k), NEW t, NEW u PROVE Kept([h EXCEPT !.temp = t, !.stream = u], k)
    BY <2>1 DEF Kept, Fields
  <2> QED
    BY <1>1, <1>2, <2>1, Zenon DEF AnswerListing
<1>9. Declines(Collect(k), k)
  BY DEF Collect, Declines, Kept, Late, Fields
<1>10. Declines(BadGateway(k, files), k)
  <2>1. ASSUME NEW t, NEW u, NEW b PROVE Kept([k EXCEPT !.status = t, !.headers = u, !.buf = b], k)
    BY DEF Kept, Fields
  <2> QED
    BY <1>2, <2>1, Zenon DEF BadGateway
<1> QED
  BY <1>5, <1>6, <1>7, <1>8, <1>9, <1>10

\* A script is listened to, or given the body first.
LEMMA SetupCgiFacts ==
  ASSUME NEW k, DOMAIN k = Fields, NEW length
  PROVE  \/ Declines(setup_cgi(k, length), k)
         \/ /\ Kept(setup_cgi(k, length), k)
            /\ setup_cgi(k, length).state = "CGI_TRANSMIT_BODY"
            /\ setup_cgi(k, length).buf = k.buf
<1>1. CASE length > 0
  BY <1>1 DEF setup_cgi, Kept, Fields
<1>2. CASE ~(length > 0)
  <2> DEFINE h == [k EXCEPT !.written = 0]
  <2>1. Kept(h, k)
    BY DEF Kept, Fields
  <2>2. Declines(Collect(h), h)
    BY <2>1, AnswerFacts, Zenon DEF Kept
  <2>3. setup_cgi(k, length) = Collect(h)
    BY <1>2 DEF setup_cgi
  <2> HIDE DEF h
  <2> QED
    BY <2>1, <2>2, <2>3 DEF Declines, Kept
<1> QED
  BY <1>1, <1>2

LEMMA AnswerErrorFacts ==
  ASSUME NEW k, DOMAIN k = Fields, NEW q, NEW files
  PROVE  Declines(AnswerError(k, q, files), k)
<1>1. CASE q.page = "script"
  <2> DEFINE h == [k EXCEPT !.written = 0]
  <2>1. Kept(h, k)
    BY DEF Kept, Fields
  <2>2. Declines(Collect(h), h)
    BY <2>1, AnswerFacts, Zenon DEF Kept
  <2>3. AnswerError(k, q, files) = Collect(h)
    BY <1>1 DEF AnswerError, setup_cgi
  <2> HIDE DEF h
  <2> QED
    BY <2>1, <2>2, <2>3 DEF Declines, Kept
<1>2. CASE q.page # "script" /\ k.status # "413"
  <2>1. AnswerError(k, q, files) = AnswerPage(k, files)
    BY <1>2, Zenon DEF AnswerError
  <2> QED
    BY <2>1, AnswerFacts, Zenon
<1>3. CASE q.page # "script" /\ ~(k.status # "413")
  <2> DEFINE h == [k EXCEPT !.written = FeedCapacity(k.buf), !.buf = Clear(@)]
  <2>1. Kept(h, k)
    BY DEF Kept, Fields
  <2>2. Kept([h EXCEPT !.state = "DISCARD_BODY"], h)
        /\ [h EXCEPT !.state = "DISCARD_BODY"].state = "DISCARD_BODY"
    BY DEF Kept, Fields
  <2>3. Declines(AnswerPage(h, files), h)
    BY <2>1, AnswerFacts, Zenon DEF Kept
  <2>4. \/ AnswerError(k, q, files) = AnswerPage(h, files)
        \/ AnswerError(k, q, files) = [h EXCEPT !.state = "DISCARD_BODY"]
    BY <1>3, Zenon DEF AnswerError
  <2> HIDE DEF h
  <2> QED
    BY <2>1, <2>2, <2>3, <2>4 DEF Declines, Kept, Late
<1> QED
  BY <1>1, <1>2, <1>3, Zenon

LEMMA StoreBodyFacts ==
  ASSUME NEW k, DOMAIN k = Fields, NEW q, NEW files
  PROVE  Stores(StoreBody(k, q, files), k)
<1> DEFINE h == Stored(k)
<1>1. /\ DOMAIN h = Fields
      /\ h.taken = k.taken /\ h.start = k.start /\ h.verdict = k.verdict
      /\ h.given = k.given \o Unfed(k.buf)
      /\ h.buf = Clear(k.buf)
  BY DEF Stored, Fields
<1>2. Declines(AnswerUpload(h, files), h)
  BY <1>1, AnswerFacts, Zenon
<1>3. \/ StoreBody(k, q, files) = AnswerUpload(h, files)
      \/ StoreBody(k, q, files) = [h EXCEPT !.state = "REQ_BODY"]
  BY Zenon DEF StoreBody
<1>4. LET r == [h EXCEPT !.state = "REQ_BODY"]
      IN /\ Kept(r, h) /\ r.state = "REQ_BODY" /\ r.buf = h.buf
  BY <1>1 DEF Kept, Fields
<1> HIDE DEF h
<1> QED
  BY <1>1, <1>2, <1>3, <1>4 DEF Declines, Kept, Stores

\* handle_setup() passes on, or stores, what is in the buffer, if it takes any.
LEMMA SetupFacts ==
  ASSUME NEW k, DOMAIN k = Fields, NEW q \in Requests, NEW files
  PROVE  LET r == handle_setup(k, q, files)
         IN \/ Declines(r, k)
            \/ Stores(r, k)
            \/ Kept(r, k) /\ r.state = "CGI_TRANSMIT_BODY" /\ r.buf = k.buf
<1> DEFINE r == handle_setup(k, q, files)
           ok == [k EXCEPT !.status = "200"]
           Goal == \/ Declines(r, k)
                   \/ Stores(r, k)
                   \/ Kept(r, k) /\ r.state = "CGI_TRANSMIT_BODY" /\ r.buf = k.buf
<1>1. Kept(ok, k) /\ ok.buf = k.buf
  BY DEF Kept, Fields
<1>2. ASSUME NEW x PROVE Declines(Refuse(k, x, q, files), k)
  <2> DEFINE h == [k EXCEPT !.status = x]
  <2>1. Kept(h, k)
    BY DEF Kept, Fields
  <2>2. Declines(AnswerError(h, q, files), h)
    BY <2>1, AnswerErrorFacts, Zenon DEF Kept
  <2>3. Refuse(k, x, q, files) = AnswerError(h, q, files)
    BY Zenon DEF Refuse
  <2> HIDE DEF h
  <2> QED
    BY <2>1, <2>2, <2>3 DEF Declines, Kept
<1>3. ASSUME k.status # "none" PROVE Goal
  <2>1. r = AnswerError(k, q, files)
    BY <1>3, Zenon DEF handle_setup
  <2> QED
    BY <2>1, AnswerErrorFacts, Zenon
<1>4. ASSUME k.status = "none", q.route = "large" PROVE Goal
  <2>1. r = Refuse(k, "413", q, files)
    BY <1>4 DEF handle_setup
  <2> QED
    BY <1>2, <2>1, Zenon
<1>5. ASSUME k.status = "none", q.route = "upload" PROVE Goal
  <2>1. r = setup_post(k, q, files)
    BY <1>5 DEF handle_setup
  <2> DEFINE h == [k EXCEPT !.status = PostStatus(q.file, files), !.written = 0,
                            !.stream = Stream("out", q.file)]
  <2>2. Kept(h, k) /\ h.buf = k.buf
    BY DEF Kept, Fields
  <2>3. Stores(StoreBody(h, q, files), h)
    BY <2>2, StoreBodyFacts, Zenon DEF Kept
  <2>4. r = Refuse(k, "500", q, files) \/ r = StoreBody(h, q, files)
    BY <2>1, Zenon DEF setup_post
  <2> HIDE DEF h, r
  <2>5. ASSUME r = StoreBody(h, q, files) PROVE Stores(r, k)
    BY <2>2, <2>3, <2>5 DEF Stores, Kept
  <2> QED
    BY <1>2, <2>4, <2>5, Zenon
<1>6. ASSUME k.status = "none", q.route = "script" PROVE Goal
  <2>1. PICK n : r = setup_cgi(ok, n)
    BY <1>6 DEF handle_setup
  <2> DOMAIN ok = Fields
    BY <1>1 DEF Kept
  <2> HIDE DEF ok, r
  <2>2. \/ Declines(r, ok)
        \/ Kept(r, ok) /\ r.state = "CGI_TRANSMIT_BODY" /\ r.buf = ok.buf
    <3>1. \/ Declines(setup_cgi(ok, n), ok)
          \/ /\ Kept(setup_cgi(ok, n), ok)
             /\ setup_cgi(ok, n).state = "CGI_TRANSMIT_BODY"
             /\ setup_cgi(ok, n).buf = ok.buf
      BY SetupCgiFacts, Zenon
    <3> QED
      BY <2>1, <3>1
  <2> QED
    BY <1>1, <2>2 DEF Declines, Kept
<1>7. ASSUME k.status = "none", q.route = "listing" PROVE Goal
  <2>1. r = AnswerListing(ok, q, files)
    BY <1>7 DEF handle_setup
  <2>2. Declines(r, ok)
    BY <1>1, <2>1, AnswerFacts, Zenon DEF Kept
  <2> HIDE DEF ok, r
  <2> QED
    BY <1>1, <2>2 DEF Declines, Kept
<1>8. ASSUME k.status = "none", q.route = "file" PROVE Goal
  <2>1. r = AnswerFile(ok, q.file, files) \/ r = Refuse(k, "404", q, files)
    BY <1>8 DEF handle_setup
  <2>2. Declines(AnswerFile(ok, q.file, files), ok)
    BY <1>1, AnswerFacts, Zenon DEF Kept
  <2>3. Declines(AnswerFile(ok, q.file, files), k)
    <3> HIDE DEF ok
    <3> QED
      BY <1>1, <2>2 DEF Declines, Kept
  <2> QED
    BY <1>2, <2>1, <2>3, Zenon
<1>9. q.route \in Routes
  BY DEF Requests
<1> HIDE DEF r, ok
<1> QED
  BY <1>3, <1>4, <1>5, <1>6, <1>7, <1>8, <1>9, Zenon DEF Routes, r

-----------------------------------------------------------------------------
(* The body keeps its order                                                   *)

LEMMA Associative ==
  ASSUME NEW a \in Seq(STRING), NEW b \in Seq(STRING), NEW c \in Seq(STRING)
  PROVE  a \o (b \o c) = (a \o b) \o c
  BY ConcatAssociative

\* What is before the rest is the beginning.
LEMMA Front ==
  ASSUME NEW s \in Seq(STRING), NEW f \in Nat, NEW t \in Nat, f <= t, t <= Len(s),
         NEW u \in Seq(STRING), NEW v \in Seq(STRING), u \o v = SubSeq(s, f + 1, t)
  PROVE  u = SubSeq(s, f + 1, f + Len(u)) /\ f + Len(u) <= t
<1> DEFINE j == u \o v
           a == SubSeq(s, f + 1, f + Len(u))
<1>1. /\ j \in Seq(STRING) /\ Len(j) = Len(u) + Len(v)
      /\ \A i \in 1..Len(u) : j[i] = u[i]
  BY Appended
<1>2. Len(j) = t - f /\ \A i \in 1..t - f : j[i] = s[f + i]
  BY Middle
<1> HIDE DEF j
<1>3. Len(u) \in Nat /\ f + Len(u) <= t /\ f + Len(u) \in Nat /\ f <= f + Len(u) /\ f + Len(u) <= Len(s)
  <2> DEFINE m == Len(u)
             n == Len(v)
             l == Len(s)
  <2>1. m \in Nat /\ n \in Nat /\ l \in Nat /\ t <= l
    OBVIOUS
  <2>2. m + n = t - f
    BY <1>1, <1>2, Zenon
  <2> HIDE DEF m, n, l
  <2>3. m \in Nat /\ f + m <= t /\ f + m \in Nat /\ f <= f + m /\ f + m <= l
    BY <2>1, <2>2
  <2> QED
    BY <2>3 DEF m, l
<1>4. a \in Seq(STRING) /\ Len(a) = Len(u) /\ \A i \in 1..Len(u) : a[i] = s[f + i]
  <2>1. f + Len(u) - f = Len(u)
    BY <1>3
  <2> QED
    BY <1>3, <2>1, Middle
<1> HIDE DEF a
<1>5. ASSUME NEW i \in 1..Len(u) PROVE a[i] = u[i]
  <2>1. i \in 1..t - f
    BY <1>3
  <2>2. j[i] = u[i]
    BY <1>1, Zenon
  <2>3. j[i] = s[f + i]
    BY <1>2, <2>1, Zenon
  <2> QED
    BY <1>4, <2>2, <2>3, Zenon
<1>6. a = u
  BY <1>4, <1>5, SeqEqual
<1> QED
  BY <1>3, <1>6 DEF a

LEMMA SentIs ==
  ASSUME NEW q \in Requests
  PROVE  Sent(q) \in Seq(STRING)
<1>1. q.head \in Seq(STRING) /\ q.body \in Seq(STRING)
  BY DEF Requests
<1> QED
  BY <1>1, Appended DEF Sent

\* What is in the buffer is the last of what was read, and nothing was passed on.
Reads(k, q) ==
    /\ DOMAIN k = Fields
    /\ k.taken \in 0..Len(Sent(q)) /\ k.start \in Nat /\ k.given = <<>>
    /\ Lastly(k.buf, Sent(q), k.taken)

\* What was passed on comes right before what is in the buffer.
Passes(k, q) ==
    /\ Orderly(k.buf) /\ k.start <= k.taken
    /\ k.given \o Unfed(k.buf) = SubSeq(Sent(q), k.start + 1, k.taken)

\* The inductive invariant of a connection.
InOrder(k, q) ==
    /\ DOMAIN k = Fields
    /\ k.state \in States
    /\ k.taken \in 0..Len(Sent(q)) /\ k.start \in Nat /\ k.given \in Seq(STRING)
    /\ k.given = SubSeq(Sent(q), k.start + 1, k.start + Len(k.given))
    /\ k.state \in {"REQ_LINE", "REQ_HEADERS"} => Reads(k, q)
    /\ k.state \in {"REQ_BODY", "CGI_TRANSMIT_BODY"} => Passes(k, q)

\* A connection that passes nothing on any more stays in order.
LEMMA DeclinesInOrder ==
  ASSUME NEW q \in Requests, NEW k, NEW r, Declines(r, k),
         k.taken \in 0..Len(Sent(q)), k.start \in Nat, k.given \in Seq(STRING),
         k.given = SubSeq(Sent(q), k.start + 1, k.start + Len(k.given))
  PROVE  InOrder(r, q)
  BY DEF InOrder, Declines, Kept, Late, States

LEMMA NothingGiven ==
  ASSUME NEW q \in Requests, NEW k, k.start \in Nat, k.given = <<>>
  PROVE  /\ k.given \in Seq(STRING)
         /\ k.given = SubSeq(Sent(q), k.start + 1, k.start + Len(k.given))
<1>1. <<>> \in Seq(STRING) /\ k.start + Len(<<>>) = k.start
  OBVIOUS
<1>2. Sent(q) \in Seq(STRING) /\ k.start + 1 \in Int /\ k.start \in Int /\ k.start < k.start + 1
  BY SentIs
<1>3. SubSeq(Sent(q), k.start + 1, k.start) = <<>>
  BY <1>2, SubSeqEmpty, Zenon
<1> QED
  BY <1>1, <1>3

\* A connection that passes bytes on stays in order.
LEMMA PassesInOrder ==
  ASSUME NEW q \in Requests, NEW k, DOMAIN k = Fields, k.state \in {"REQ_BODY", "CGI_TRANSMIT_BODY"},
         k.taken \in 0..Len(Sent(q)), k.start \in Nat, k.given \in Seq(STRING), Passes(k, q)
  PROVE  InOrder(k, q)
<1> DEFINE s == Sent(q)
           u == Unfed(k.buf)
<1>1. u \in Seq(STRING)
  BY UnfedIs DEF Passes
<1>2. s \in Seq(STRING)
  BY SentIs
<1>3. k.taken \in Nat /\ k.start <= k.taken /\ k.taken <= Len(s)
  BY <1>2 DEF Passes
<1>4. k.given \o u = SubSeq(s, k.start + 1, k.taken)
  BY DEF Passes
<1> HIDE DEF s, u
<1> DEFINE f == k.start
           t == k.taken
           g == k.given
<1>5. f \in Nat /\ t \in Nat /\ f <= t /\ t <= Len(s) /\ g \in Seq(STRING) /\ g \o u = SubSeq(s, f + 1, t)
  BY <1>3, <1>4
<1> HIDE DEF f, t, g
<1>6. g = SubSeq(s, f + 1, f + Len(g))
  BY <1>1, <1>2, <1>5, Front
<1> QED
  BY <1>6 DEF InOrder, States, s, f, t, g

\* Reading keeps order.
LEMMA ReadMore ==
  ASSUME NEW q \in Requests, NEW k, DOMAIN k = Fields, k.taken \in 0..Len(Sent(q)),
         NEW n \in Nat, k.taken + n <= Len(Sent(q))
  PROVE  LET r == FillRequest(k, q, n)
         IN /\ DOMAIN r = Fields
            /\ r.state = k.state /\ r.start = k.start /\ r.given = k.given
            /\ r.taken = k.taken + n /\ r.taken \in 0..Len(Sent(q))
            /\ Reads(k, q) => Reads(r, q)
            /\ (Passes(k, q) /\ k.start \in Nat /\ k.given \in Seq(STRING)) => Passes(r, q)
<1> DEFINE s == Sent(q)
           t == k.taken
           x == SubSeq(s, t + 1, t + n)
           r == FillRequest(k, q, n)
<1>1. /\ DOMAIN r = Fields
      /\ r.state = k.state /\ r.start = k.start /\ r.given = k.given
      /\ r.taken = t + n /\ r.buf = Fill(k.buf, x)
  BY DEF FillRequest, Fields
<1>2. s \in Seq(STRING)
  BY SentIs
<1> HIDE DEF r, s
<1>3. t + n \in 0..Len(s) /\ t \in 0..Len(s) /\ t + n <= Len(s)
  BY <1>2 DEF s
<1> HIDE DEF t
<1>4. ASSUME Reads(k, q) PROVE Reads(r, q)
  <2>1. Lastly(k.buf, s, t)
    BY <1>4 DEF Reads, s, t
  <2>2. Lastly(Fill(k.buf, x), s, t + n)
    BY <1>2, <1>3, <2>1, LastlyFill, Zenon
  <2> QED
    BY <1>1, <1>3, <1>4, <2>2, Zenon DEF Reads, s
<1>5. ASSUME Passes(k, q), k.start \in Nat, k.given \in Seq(STRING) PROVE Passes(r, q)
  <2>1. t \in Nat /\ t + n \in Nat /\ t <= t + n /\ k.start <= t /\ k.start <= t + n
    BY <1>2, <1>3, <1>5 DEF Passes, t
  <2>2. x \in Seq(STRING)
    BY <1>2, <1>3, <2>1, Middle, Zenon
  <2>3. Orderly(k.buf) /\ Unfed(k.buf) \in Seq(STRING)
    BY <1>5, UnfedIs DEF Passes
  <2>4. Orderly(Fill(k.buf, x)) /\ Unfed(Fill(k.buf, x)) = Unfed(k.buf) \o x
    BY <2>2, <2>3, FillIs, Zenon
  <2>5. k.given \o Unfed(k.buf) = SubSeq(s, k.start + 1, t)
    BY <1>5 DEF Passes, s, t
  <2>6. SubSeq(s, k.start + 1, t) \o x = SubSeq(s, k.start + 1, t + n)
    BY <1>2, <1>3, <1>5, <2>1, Adjacent, Zenon
  <2>7. k.given \o (Unfed(k.buf) \o x) = (k.given \o Unfed(k.buf)) \o x
    BY <1>5, <2>2, <2>3, Associative, Zenon
  <2>8. k.given \o Unfed(Fill(k.buf, x)) = SubSeq(s, k.start + 1, t + n)
    BY <2>4, <2>5, <2>6, <2>7, Zenon
  <2> QED
    BY <1>1, <2>1, <2>4, <2>8, Zenon DEF Passes, s
<1> QED
  BY <1>1, <1>3, <1>4, <1>5, Zenon DEF s, t, r

LEMMA FailReads ==
  ASSUME NEW q, NEW k, Reads(k, q), NEW x
  PROVE  Reads(Fail(k, x), q) /\ Fail(k, x).state = "REQ_SETUP"
  BY DEF Fail, Reads, Fields

\* The parser of the head leaves what it has not read.
LEMMA LineReads ==
  ASSUME NEW q \in Requests, NEW k, Reads(k, q)
  PROVE  LET r == handle_req_line(k)
         IN Reads(r, q) /\ r.state \in {k.state, "REQ_SETUP", "REQ_HEADERS"}
<1> DEFINE r == handle_req_line(k)
           S == Ends(k.buf.data)
           h == [k EXCEPT !.state = "REQ_HEADERS", !.buf = Erase(@, Min(S) + 1)]
<1>1. ASSUME NEW x PROVE Reads(Fail(k, x), q) /\ Fail(k, x).state = "REQ_SETUP"
  BY FailReads
<1>2. ASSUME S # {} PROVE Reads(h, q) /\ h.state = "REQ_HEADERS"
  <2>1. S \subseteq Nat
    BY DEF Ends, Reads, Lastly
  <2>2. Min(S) \in Nat
    BY <1>2, <2>1, FirstExists, Zenon
  <2> HIDE DEF S
  <2>3. Min(S) + 1 \in Nat
    BY <2>2
  <2>4. Lastly(Erase(k.buf, Min(S) + 1), Sent(q), k.taken)
    BY <2>3, LastlyErase, SentIs, Zenon DEF Reads
  <2>5. /\ DOMAIN h = Fields /\ h.taken = k.taken /\ h.start = k.start /\ h.given = k.given
        /\ h.buf = Erase(k.buf, Min(S) + 1) /\ h.state = "REQ_HEADERS"
    BY DEF Reads, Fields
  <2> HIDE DEF h
  <2> QED
    BY <2>4, <2>5 DEF Reads
<1>3. \/ \E x : r = Fail(k, x)
      \/ r = k
      \/ S # {} /\ r = h
  BY Zenon DEF handle_req_line
<1> HIDE DEF r, h, S
<1>4. Reads(r, q) /\ r.state \in {k.state, "REQ_SETUP", "REQ_HEADERS"}
  BY <1>1, <1>2, <1>3
<1> QED
  BY <1>4 DEF r

LEMMA HeadersRead ==
  ASSUME NEW q \in Requests, NEW k, Reads(k, q)
  PROVE  LET r == handle_req_headers(k, q)
         IN Reads(r, q) /\ r.state \in {k.state, "REQ_SETUP"}
<1> DEFINE r == handle_req_headers(k, q)
           d == k.buf.data
           stops == Stops(k, d)
           read == {e \in Ends(d) : stops = {} \/ e < Min(stops)}
           rest == [k EXCEPT !.fields = Insert(@, d, read),
                             !.buf = IF read = {} THEN @ ELSE Erase(@, Max(read) + 1)]
           h == [rest EXCEPT !.buf = Erase(@, 2), !.written = 0]
<1>1. Reads(rest, q) /\ rest.state = k.state
  <2>1. /\ DOMAIN rest = Fields /\ rest.taken = k.taken /\ rest.start = k.start
        /\ rest.given = k.given /\ rest.state = k.state
        /\ rest.buf = IF read = {} THEN k.buf ELSE Erase(k.buf, Max(read) + 1)
    <3> HIDE DEF read, d
    <3> QED
      BY DEF Reads, Fields
  <2>2. ASSUME read # {} PROVE Lastly(Erase(k.buf, Max(read) + 1), Sent(q), k.taken)
    <3>1. d \in Seq(STRING)
      BY DEF Reads, Lastly
    <3>2. Ends(d) \subseteq 0..Len(d) /\ Len(d) \in Nat
      <4> HIDE DEF d
      <4> QED
        BY <3>1 DEF Ends
    <3>3. read \subseteq 0..Len(d)
      BY <3>2
    <3>4. Max(read) \in 0..Len(d)
      <4> HIDE DEF read, d
      <4> QED
        BY <2>2, <3>2, <3>3, LastExists
    <3> HIDE DEF read
    <3>5. Max(read) + 1 \in Nat
      BY <3>2, <3>4
    <3> QED
      BY <3>5, LastlyErase, SentIs, Zenon DEF Reads
  <2>3. Lastly(k.buf, Sent(q), k.taken)
    BY DEF Reads
  <2> HIDE DEF rest, read
  <2>4. Lastly(rest.buf, Sent(q), k.taken)
    BY <2>1, <2>2, <2>3, Zenon
  <2> QED
    BY <2>1, <2>4 DEF Reads
<1> HIDE DEF rest
<1>2. Reads(h, q)
  <2>1. Lastly(Erase(rest.buf, 2), Sent(q), rest.taken)
    <3>1. 2 \in Nat
      OBVIOUS
    <3> QED
      BY <1>1, <3>1, LastlyErase, SentIs, Zenon DEF Reads
  <2>2. /\ DOMAIN h = Fields /\ h.taken = rest.taken /\ h.start = rest.start
        /\ h.given = rest.given /\ h.buf = Erase(rest.buf, 2)
    BY <1>1 DEF Reads, Fields
  <2> HIDE DEF h
  <2> QED
    BY <1>1, <2>1, <2>2 DEF Reads
<1> HIDE DEF h, read, stops
<1>3. \E x : parse_req_headers(h, q) = Fail(h, x)
  BY Zenon DEF parse_req_headers
<1>4. \/ \E x : r = Fail(rest, x)
      \/ r = rest
      \/ r = parse_req_headers(h, q)
  BY Zenon DEF handle_req_headers, rest, h, read, stops
<1>5. Reads(r, q) /\ r.state \in {k.state, "REQ_SETUP"}
  <2> HIDE DEF r
  <2> QED
    BY <1>1, <1>2, <1>3, <1>4, FailReads
<1> QED
  BY <1>5 DEF r

\* What is stored is what was read since the end of the head.
LEMMA StoresInOrder ==
  ASSUME NEW q \in Requests, NEW k, NEW r, Stores(r, k), Passes(k, q),
         k.taken \in 0..Len(Sent(q)), k.start \in Nat, k.given \in Seq(STRING)
  PROVE  InOrder(r, q)
<1> DEFINE s == Sent(q)
           u == Unfed(k.buf)
           f == k.start
           t == k.taken
           g == k.given
           x == r.given
<1>1. u \in Seq(STRING) /\ DOMAIN k.buf = BufferFields
  BY UnfedIs DEF Passes, Orderly
<1>2. s \in Seq(STRING)
  BY SentIs
<1>3. f \in Nat /\ t \in Nat /\ f <= t /\ t <= Len(s) /\ g \in Seq(STRING) /\ g \o u = SubSeq(s, f + 1, t)
  BY <1>2 DEF Passes
<1>4. DOMAIN r = Fields /\ r.taken = t /\ r.start = f /\ x = g \o u
  BY DEF Stores
<1>5. r.state \in Late \/ (r.state = "REQ_BODY" /\ r.buf = Clear(k.buf))
  BY DEF Stores
<1>6. r.taken \in 0..Len(Sent(q)) /\ r.start \in Nat
  BY <1>4
<1> HIDE DEF s, u, f, t, g
<1>7. x \in Seq(STRING) /\ x \o <<>> = x /\ <<>> \in Seq(STRING)
  <2>1. g \o u \in Seq(STRING)
    BY <1>1, <1>3, Appended, Zenon
  <2>2. x \in Seq(STRING)
    BY <1>4, <2>1
  <2> HIDE DEF x
  <2> QED
    BY <2>2
<1>8. x = SubSeq(s, f + 1, t)
  BY <1>3, <1>4
<1>9. x = SubSeq(s, f + 1, f + Len(x))
  <2>1. Len(SubSeq(s, f + 1, t)) = t - f
    BY <1>2, <1>3, Middle
  <2>2. f + Len(x) = t
    <3>1. Len(x) = t - f
      BY <1>8, <2>1, Zenon
    <3> HIDE DEF x
    <3> QED
      BY <1>3, <3>1
  <2> QED
    BY <1>8, <2>2, Zenon
<1>10. ASSUME r.state = "REQ_BODY", r.buf = Clear(k.buf) PROVE Passes(r, q)
  <2>1. Orderly(r.buf) /\ Unfed(r.buf) = <<>>
    BY <1>1, <1>10, ClearIs
  <2>2. r.given \o Unfed(r.buf) = SubSeq(s, f + 1, t)
    BY <1>7, <1>8, <2>1
  <2> QED
    BY <1>3, <1>4, <2>1, <2>2 DEF Passes, s
<1> HIDE DEF x
<1>11. r.given = SubSeq(Sent(q), r.start + 1, r.start + Len(r.given))
  BY <1>4, <1>9, Zenon DEF x, s
<1>12. r.given \in Seq(STRING)
  BY <1>7, Zenon DEF x
<1> QED
  BY <1>4, <1>5, <1>6, <1>10, <1>11, <1>12 DEF InOrder, Late, States

\* The leftover of the head is the first of the body.
LEMMA SetupInOrder ==
  ASSUME NEW q \in Requests, NEW k, NEW files, Reads(k, q), k.start = k.taken - Len(k.buf.data)
  PROVE  InOrder(handle_setup(k, q, files), q)
<1> DEFINE r == handle_setup(k, q, files)
<1>1. /\ DOMAIN k = Fields /\ k.taken \in 0..Len(Sent(q)) /\ k.start \in Nat /\ k.given = <<>>
      /\ Lastly(k.buf, Sent(q), k.taken)
  BY DEF Reads
<1>2. /\ Orderly(k.buf) /\ Unfed(k.buf) = k.buf.data
      /\ k.start \in 0..k.taken
      /\ k.buf.data = SubSeq(Sent(q), k.start + 1, k.taken)
  BY <1>1, SentIs, LastlyIs
<1>3. <<>> \o Unfed(k.buf) = Unfed(k.buf)
  <2> DEFINE u == Unfed(k.buf)
  <2>1. u \in Seq(STRING)
    BY <1>2, UnfedIs
  <2> HIDE DEF u
  <2>2. <<>> \o u = u
    BY <2>1
  <2> QED
    BY <2>2 DEF u
<1>4. k.start <= k.taken
  BY <1>1, <1>2
<1>5. Passes(k, q)
  BY <1>1, <1>2, <1>3, <1>4, Zenon DEF Passes
<1>6. /\ k.given \in Seq(STRING)
      /\ k.given = SubSeq(Sent(q), k.start + 1, k.start + Len(k.given))
  BY <1>1, NothingGiven, Zenon
<1>7. \/ Declines(r, k)
      \/ Stores(r, k)
      \/ Kept(r, k) /\ r.state = "CGI_TRANSMIT_BODY" /\ r.buf = k.buf
  BY <1>1, SetupFacts, Zenon
<1> SUFFICES InOrder(r, q)
  OBVIOUS
<1> HIDE DEF r
<1>8. CASE Declines(r, k)
  BY <1>1, <1>6, <1>8, DeclinesInOrder, Zenon
<1>9. CASE Stores(r, k)
  BY <1>1, <1>5, <1>6, <1>9, StoresInOrder, Zenon
<1>10. CASE Kept(r, k) /\ r.state = "CGI_TRANSMIT_BODY" /\ r.buf = k.buf
  <2>1. /\ DOMAIN r = Fields /\ r.taken = k.taken /\ r.start = k.start /\ r.given = k.given
        /\ r.buf = k.buf /\ r.state \in {"REQ_BODY", "CGI_TRANSMIT_BODY"}
    BY <1>10 DEF Kept
  <2>2. Passes(r, q)
    BY <1>5, <2>1, Zenon DEF Passes
  <2> QED
    BY <1>1, <1>6, <2>1, <2>2, PassesInOrder, Zenon
<1> QED
  BY <1>7, <1>8, <1>9, <1>10

LEMMA HeadInOrder ==
  ASSUME NEW q \in Requests, NEW k, InOrder(k, q), k.state \in {"REQ_LINE", "REQ_HEADERS"},
         NEW n \in Nat, k.taken + n <= Len(Sent(q)), NEW files
  PROVE  InOrder(handle_head(k, q, n, files), q)
<1> DEFINE cleared == [k EXCEPT !.buf = IF FeedCapacity(@) = 0 THEN Clear(@) ELSE @]
           filled == FillRequest(cleared, q, n)
           lined == IF k.state = "REQ_LINE" THEN handle_req_line(filled) ELSE filled
           headed == IF lined.state = "REQ_HEADERS" THEN handle_req_headers(lined, q) ELSE lined
           judged == Judged(headed)
<1>1. Reads(k, q)
  BY DEF InOrder
<1>2. Reads(cleared, q) /\ cleared.state = k.state /\ cleared.taken = k.taken
  <2>1. /\ DOMAIN cleared = Fields /\ cleared.taken = k.taken /\ cleared.start = k.start
        /\ cleared.given = k.given /\ cleared.state = k.state
        /\ cleared.buf \in {k.buf, Clear(k.buf)}
    BY <1>1 DEF Reads, Fields
  <2>2. Lastly(Clear(k.buf), Sent(q), k.taken)
    <3>1. DOMAIN k.buf = BufferFields
      BY <1>1 DEF Reads, Lastly
    <3> QED
      BY <1>1, <3>1, LastlyClear, SentIs, Zenon DEF Reads
  <2> HIDE DEF cleared
  <2> QED
    BY <1>1, <2>1, <2>2 DEF Reads
<1> HIDE DEF cleared
<1>3. Reads(filled, q) /\ filled.state = k.state
  <2>1. DOMAIN cleared = Fields /\ cleared.taken \in 0..Len(Sent(q))
    BY <1>2 DEF Reads
  <2> QED
    BY <1>2, <2>1, ReadMore, Zenon
<1> HIDE DEF filled
<1>4. Reads(lined, q) /\ lined.state \in {"REQ_LINE", "REQ_SETUP", "REQ_HEADERS"}
  <2>1. /\ Reads(handle_req_line(filled), q)
        /\ handle_req_line(filled).state \in {filled.state, "REQ_SETUP", "REQ_HEADERS"}
    BY <1>3, LineReads, Zenon
  <2> QED
    BY <1>3, <2>1
<1> HIDE DEF lined
<1>5. Reads(headed, q) /\ headed.state \in {"REQ_LINE", "REQ_SETUP", "REQ_HEADERS"}
  <2>1. /\ Reads(handle_req_headers(lined, q), q)
        /\ handle_req_headers(lined, q).state \in {lined.state, "REQ_SETUP"}
    BY <1>4, HeadersRead, Zenon
  <2> QED
    BY <1>4, <2>1
<1> HIDE DEF headed
<1>6. CASE headed.state = "REQ_SETUP"
  <2>1. /\ DOMAIN judged = Fields /\ judged.taken = headed.taken /\ judged.given = headed.given
        /\ judged.buf = headed.buf /\ judged.start = headed.taken - Len(headed.buf.data)
    BY <1>5, <1>6 DEF Judged, Reads, Fields
  <2> HIDE DEF judged
  <2>2. judged.start \in Nat
    <3>1. headed.taken - Len(headed.buf.data) \in 0..headed.taken
      BY <1>5, LastlyIs, SentIs, Zenon DEF Reads
    <3> QED
      BY <2>1, <3>1
  <2>3. Reads(judged, q)
    BY <1>5, <2>1, <2>2 DEF Reads
  <2>4. InOrder(handle_setup(judged, q, files), q)
    BY <2>1, <2>3, SetupInOrder
  <2>5. handle_head(k, q, n, files) = handle_setup(judged, q, files)
    BY <1>6, Zenon DEF handle_head, judged, headed, lined, filled, cleared
  <2> QED
    BY <2>4, <2>5
<1>7. CASE headed.state # "REQ_SETUP"
  <2>1. handle_head(k, q, n, files) = headed
    BY <1>7, Zenon DEF handle_head, headed, lined, filled, cleared
  <2>2. /\ headed.given \in Seq(STRING)
        /\ headed.given = SubSeq(Sent(q), headed.start + 1, headed.start + Len(headed.given))
    BY <1>5, NothingGiven DEF Reads
  <2>3. InOrder(headed, q)
    BY <1>5, <1>7, <2>2 DEF InOrder, Reads, States
  <2> QED
    BY <2>1, <2>3
<1> QED
  BY <1>6, <1>7

\* What a connection that passes nothing on goes through stays in order.
LEMMA SettledInOrder ==
  ASSUME NEW q \in Requests, NEW k, InOrder(k, q), NEW r, Declines(r, k)
  PROVE  InOrder(r, q)
  BY DeclinesInOrder, Zenon DEF InOrder

LEMMA DiscardInOrder ==
  ASSUME NEW q \in Requests, NEW k, InOrder(k, q), k.state = "DISCARD_BODY",
         NEW n \in Nat, k.taken + n <= Len(Sent(q)), NEW files
  PROVE  InOrder(handle_discard(k, q, n, files), q)
<1> DEFINE h == [k EXCEPT !.buf = Clear(@), !.taken = @ + n, !.written = @ + n]
<1>1. /\ DOMAIN h = Fields /\ h.taken = k.taken + n /\ h.start = k.start /\ h.given = k.given
      /\ h.state = k.state
  BY DEF InOrder, Fields
<1> HIDE DEF h
<1>2. k.taken + n \in 0..Len(Sent(q))
  BY SentIs DEF InOrder
<1>3. InOrder(h, q)
  BY <1>1, <1>2 DEF InOrder
<1>4. Declines(AnswerPage(h, files), h)
  BY <1>1, AnswerFacts, Zenon
<1>5. \/ handle_discard(k, q, n, files) = AnswerPage(h, files)
      \/ handle_discard(k, q, n, files) = h
  BY Zenon DEF handle_discard, h
<1> QED
  BY <1>3, <1>4, <1>5, SettledInOrder, Zenon

LEMMA PostInOrder ==
  ASSUME NEW q \in Requests, NEW k, InOrder(k, q), k.state = "REQ_BODY",
         NEW n \in Nat, k.taken + n <= Len(Sent(q)), NEW files
  PROVE  /\ InOrder(handle_post(k, q, n, files), q)
         /\ InOrder(read_cgi_body(k, q, n), q)
<1> DEFINE h == FillRequest(k, q, n)
           r == [h EXCEPT !.state = "CGI_TRANSMIT_BODY"]
<1>1. /\ DOMAIN k = Fields /\ k.taken \in 0..Len(Sent(q)) /\ k.start \in Nat
      /\ k.given \in Seq(STRING) /\ Passes(k, q)
  BY DEF InOrder
<1>2. /\ DOMAIN h = Fields /\ h.start = k.start /\ h.given = k.given
      /\ h.taken \in 0..Len(Sent(q)) /\ Passes(h, q)
  BY <1>1, ReadMore, Zenon
<1> HIDE DEF h
<1>3. Stores(StoreBody(h, q, files), h)
  BY <1>2, StoreBodyFacts, Zenon
<1>4. h.start \in Nat /\ h.given \in Seq(STRING)
  BY <1>1, <1>2
<1>5. InOrder(StoreBody(h, q, files), q)
  BY <1>2, <1>3, <1>4, StoresInOrder, Zenon
<1>6. /\ DOMAIN r = Fields /\ r.start = h.start /\ r.given = h.given /\ r.taken = h.taken
      /\ r.buf = h.buf /\ r.state \in {"REQ_BODY", "CGI_TRANSMIT_BODY"}
  BY <1>2 DEF Fields
<1> HIDE DEF r
<1>7. Passes(r, q)
  BY <1>2, <1>6, Zenon DEF Passes
<1>8. r.taken \in 0..Len(Sent(q)) /\ r.start \in Nat /\ r.given \in Seq(STRING)
  BY <1>2, <1>4, <1>6
<1>9. InOrder(r, q)
  BY <1>6, <1>7, <1>8, PassesInOrder, Zenon
<1>10. handle_post(k, q, n, files) = StoreBody(h, q, files) /\ read_cgi_body(k, q, n) = r
  BY Zenon DEF handle_post, read_cgi_body, h, r
<1> QED
  BY <1>5, <1>9, <1>10

LEMMA InputInOrder ==
  ASSUME NEW q \in Requests, NEW k, InOrder(k, q), k.state = "CGI_TRANSMIT_BODY",
         NEW n \in 0..FeedCapacity(k.buf)
  PROVE  InOrder(handle_cgi_input(k, q, n), q)
<1> DEFINE u == SubSeq(Unfed(k.buf), 1, n)
           v == Unfed(Feed(k.buf, n))
           fed == [k EXCEPT !.given = @ \o u, !.buf = Feed(@, n), !.written = @ + n]
           empty == [fed EXCEPT !.buf = Clear(@)]
           r == handle_cgi_input(k, q, n)
<1>1. /\ DOMAIN k = Fields /\ k.taken \in 0..Len(Sent(q)) /\ k.start \in Nat
      /\ k.given \in Seq(STRING) /\ Passes(k, q)
  BY DEF InOrder
<1>2. /\ Orderly(Feed(k.buf, n)) /\ u \in Seq(STRING) /\ v \in Seq(STRING)
      /\ u \o v = Unfed(k.buf)
  BY <1>1, FeedIs, Zenon DEF Passes
<1>3. /\ DOMAIN fed = Fields /\ fed.taken = k.taken /\ fed.start = k.start
      /\ fed.given = k.given \o u /\ fed.buf = Feed(k.buf, n) /\ fed.state = k.state
  <2> HIDE DEF u
  <2> QED
    BY <1>1 DEF Fields
<1> HIDE DEF fed, u
<1>4. fed.given \in Seq(STRING)
  <2>1. k.given \o u \in Seq(STRING)
    BY <1>1, <1>2, Appended, Zenon
  <2> QED
    BY <1>3, <2>1
<1>5. Passes(fed, q)
  <2>1. Unfed(fed.buf) = v
    BY <1>3, Zenon
  <2> HIDE DEF v
  <2>2. k.given \o (u \o v) = (k.given \o u) \o v
    BY <1>1, <1>2, Associative, Zenon
  <2>3. fed.given \o Unfed(fed.buf) = SubSeq(Sent(q), fed.start + 1, fed.taken)
    BY <1>1, <1>2, <1>3, <2>1, <2>2 DEF Passes
  <2> QED
    BY <1>1, <1>2, <1>3, <2>3, Zenon DEF Passes
<1>6. fed.taken \in 0..Len(Sent(q)) /\ fed.start \in Nat
  BY <1>1, <1>3
<1>7. InOrder(fed, q)
  BY <1>3, <1>4, <1>5, <1>6, PassesInOrder
<1>8. ASSUME ~(FeedCapacity(fed.buf) > 0) PROVE InOrder(r, q)
  <2>1. /\ DOMAIN empty = Fields /\ empty.taken = fed.taken /\ empty.start = fed.start
        /\ empty.given = fed.given /\ empty.buf = Clear(fed.buf) /\ empty.state = fed.state
    BY <1>3 DEF Fields
  <2> HIDE DEF empty
  <2>2. Orderly(empty.buf) /\ Unfed(empty.buf) = <<>>
    BY <1>5, <2>1, ClearIs DEF Passes, Orderly
  <2>3. Unfed(fed.buf) = <<>>
    <3>1. Unfed(fed.buf) \in Seq(STRING) /\ Len(Unfed(fed.buf)) = 0
      BY <1>5, <1>8, UnfedIs DEF Passes
    <3> DEFINE w == Unfed(fed.buf)
    <3> HIDE DEF w
    <3>2. w = <<>>
      <4>1. w \in Seq(STRING) /\ Len(w) = 0
        BY <3>1 DEF w
      <4> QED
        BY <4>1
    <3> QED
      BY <3>2 DEF w
  <2>4. Passes(empty, q)
    BY <1>5, <2>1, <2>2, <2>3 DEF Passes
  <2>5. InOrder(empty, q)
    BY <1>3, <1>4, <1>6, <2>1, <2>4, PassesInOrder
  <2>6. Declines(Collect(empty), empty)
    BY <2>1, AnswerFacts, Zenon
  <2> DEFINE back == [empty EXCEPT !.state = "REQ_BODY"]
  <2>7. /\ DOMAIN back = Fields /\ back.taken = empty.taken /\ back.start = empty.start
        /\ back.given = empty.given /\ back.buf = empty.buf
        /\ back.state \in {"REQ_BODY", "CGI_TRANSMIT_BODY"}
    BY <2>1 DEF Fields
  <2> HIDE DEF back
  <2>8. Passes(back, q)
    BY <2>4, <2>7, Zenon DEF Passes
  <2>9. InOrder(back, q)
    BY <1>4, <1>6, <2>1, <2>7, <2>8, PassesInOrder
  <2>10. r = Collect(empty) \/ r = back
    BY <1>8, Zenon DEF handle_cgi_input, fed, empty, back, u
  <2> HIDE DEF r
  <2> QED
    BY <2>5, <2>6, <2>9, <2>10, SettledInOrder, Zenon
<1>9. ASSUME FeedCapacity(fed.buf) > 0 PROVE InOrder(r, q)
  <2>1. r = fed
    BY <1>9, Zenon DEF handle_cgi_input, fed, u
  <2> HIDE DEF r
  <2> QED
    BY <1>7, <2>1
<1> QED
  BY <1>8, <1>9

LEMMA OutputInOrder ==
  ASSUME NEW q \in Requests, NEW k, InOrder(k, q), k.state \in {"CGI_HEADERS", "CGI_BODY"},
         NEW n, NEW eof, NEW files
  PROVE  InOrder(handle_cgi_output(k, q, n, eof, files), q)
<1> DEFINE filled == [k EXCEPT !.buf = Fill(@, SubSeq(q.output, k.heard + 1, k.heard + n)),
                               !.heard = @ + n]
           begun == IF k.state = "CGI_HEADERS" THEN BeginBody(filled) ELSE filled
           spooled == SpoolBody(begun)
           r == handle_cgi_output(k, q, n, eof, files)
<1>1. DOMAIN k = Fields
  BY DEF InOrder
<1>2. Kept(filled, k) /\ filled.state = k.state
  BY <1>1 DEF Kept, Fields
<1> HIDE DEF filled
<1>3. Kept(begun, k) /\ begun.state \in Late
  <2>1. Kept(BeginBody(filled), k) /\ BeginBody(filled).state = "CGI_BODY"
    BY <1>2 DEF BeginBody, Kept, Fields
  <2> QED
    BY <1>2, <2>1 DEF Late
<1> HIDE DEF begun
<1>4. Kept(spooled, k) /\ spooled.state \in Late
  <2> DEFINE h == [begun EXCEPT !.temp = IF begun.stream.good THEN @ \o Unfed(begun.buf) ELSE @,
                                !.buf = Clear(@)]
  <2>1. Kept(h, k) /\ h.state = begun.state
    BY <1>3 DEF Kept, Fields
  <2>2. spooled = begun \/ spooled = h
    BY Zenon DEF SpoolBody
  <2> HIDE DEF h, spooled
  <2> QED
    BY <1>3, <2>1, <2>2
<1> HIDE DEF spooled
<1>5. Declines(finalize_cgi(spooled, files), k)
  <2> DEFINE h == [spooled EXCEPT !.stream = Stream("in", "temp"), !.headers = @ \o Blank,
                                  !.buf = Clear(@)]
  <2>1. Kept(h, k)
    BY <1>4 DEF Kept, Fields
  <2> HIDE DEF h
  <2>2. Declines(Respond(h, files), k)
    BY <2>1 DEF Respond, Declines, Kept, Late, Fields
  <2> QED
    BY <2>2, Zenon DEF finalize_cgi, h
<1>6. Declines(BadGateway(filled, files), k)
  <2>1. Declines(BadGateway(filled, files), filled)
    BY <1>2, AnswerFacts, Zenon DEF Kept
  <2> QED
    BY <1>2, <2>1 DEF Declines, Kept
<1>7. \/ r = BadGateway(filled, files)
      \/ r = filled
      \/ r = finalize_cgi(spooled, files)
      \/ r = spooled
  BY Zenon DEF handle_cgi_output, spooled, begun, filled
<1>8. Declines(r, k)
  <2> HIDE DEF r
  <2> QED
    BY <1>2, <1>4, <1>5, <1>6, <1>7 DEF Declines, Late
<1> QED
  BY <1>8, SettledInOrder, Zenon

\* Filling the buffer with the answer passes nothing on.
LEMMA RefilledKeeps ==
  ASSUME NEW k, DOMAIN k = Fields, NEW files
  PROVE  Kept(Refilled(k, files), k) /\ Refilled(k, files).state = k.state
<1> DEFINE Same(r) == Kept(r, k) /\ r.state = k.state
<1>1. Same(k) /\ Same([k EXCEPT !.buf = Clear(@)])
  BY DEF Kept, Fields
<1>2. ASSUME NEW h, Same(h) PROVE Same(BufferHeaders(h))
  BY <1>2 DEF BufferHeaders, Kept, Fields
<1>3. ASSUME NEW h, Same(h) PROVE Same(BufferBody(h))
  BY <1>3 DEF BufferBody, Kept, Fields
<1>4. ASSUME NEW h, Same(h) PROVE Same(BufferFile(h, files))
  BY <1>4 DEF BufferFile, Kept, Fields
<1>5. \/ Refilled(k, files) = k
      \/ Refilled(k, files) =
            BufferBody(BufferFile(BufferHeaders([k EXCEPT !.buf = Clear(@)]), files))
  BY Zenon DEF Refilled, fill_res_buffer
<1>6. Same(Refilled(k, files))
  <2> HIDE DEF Same
  <2> QED
    BY <1>1, <1>2, <1>3, <1>4, <1>5, Zenon
<1> QED
  BY <1>6

-----------------------------------------------------------------------------
(* The theorem                                                                *)

BodiesInOrder ==
    /\ DOMAIN conn = Present
    /\ \A c \in Present : asked[c] \in Requests /\ InOrder(conn[c], asked[c])

\* A step of one connection leaves the others.
LEMMA SetInOrder ==
  ASSUME BodiesInOrder, NEW c \in Present, NEW k, InOrder(k, asked[c]), NEW files, Set(c, k, files)
  PROVE  BodiesInOrder'
<1>1. asked' = asked
  BY DEF Set
<1>2. \A d \in Present : conn'[d] \in {k, conn[d], [conn[d] EXCEPT !.torn = TRUE]} /\ (d = c => conn'[d] = k)
  BY DEF Set
<1>3. \A d \in Present : d # c => conn'[d] \in {conn[d], [conn[d] EXCEPT !.torn = TRUE]}
  BY DEF Set
<1>4. DOMAIN conn' = Present
  BY DEF Set
<1>5. ASSUME NEW q, NEW h, InOrder(h, q) PROVE InOrder([h EXCEPT !.torn = TRUE], q)
  BY <1>5 DEF InOrder, Reads, Passes, Fields
<1>6. \A d \in Present : InOrder(conn'[d], asked[d])
  <2> SUFFICES ASSUME NEW d \in Present PROVE InOrder(conn'[d], asked[d])
    OBVIOUS
  <2>1. CASE d = c
    BY <1>2, <2>1
  <2>2. CASE d # c
    <3>1. InOrder(conn[d], asked[d]) /\ InOrder([conn[d] EXCEPT !.torn = TRUE], asked[d])
      BY <1>5 DEF BodiesInOrder
    <3> QED
      BY <1>3, <2>2, <3>1
  <2> QED
    BY <2>1, <2>2
<1> QED
  BY <1>1, <1>4, <1>6 DEF BodiesInOrder, Present

LEMMA DropInOrder ==
  ASSUME NEW q \in Requests, NEW k
  PROVE  InOrder(Drop(k), q)
<1> DEFINE r == Drop(k)
<1>1. DOMAIN r = Fields /\ r.state = "CLOSED" /\ r.taken = 0 /\ r.start = 0 /\ r.given = <<>>
  BY DEF Drop, Fresh, Fields
<1> HIDE DEF r
<1>2. r.start \in Nat /\ r.taken \in 0..Len(Sent(q))
  BY <1>1, SentIs
<1>3. /\ r.given \in Seq(STRING)
      /\ r.given = SubSeq(Sent(q), r.start + 1, r.start + Len(r.given))
  BY <1>1, <1>2, NothingGiven, Zenon
<1>4. InOrder(r, q)
  BY <1>1, <1>2, <1>3 DEF InOrder, States
<1> QED
  BY <1>4 DEF r

LEMMA FreshInOrder ==
  ASSUME NEW q \in Requests
  PROVE  InOrder(Fresh, q)
<1> DEFINE r == Fresh
<1>1. /\ DOMAIN r = Fields /\ r.state = "REQ_LINE" /\ r.taken = 0 /\ r.start = 0 /\ r.given = <<>>
      /\ r.buf = Buffer(Capacity)
  BY DEF Fresh, Fields
<1> HIDE DEF r
<1>2. r.start \in Nat /\ r.taken \in 0..Len(Sent(q)) /\ 0 \in 0..Len(Sent(q))
  BY <1>1, SentIs
<1>3. /\ r.given \in Seq(STRING)
      /\ r.given = SubSeq(Sent(q), r.start + 1, r.start + Len(r.given))
  BY <1>1, <1>2, NothingGiven, Zenon
<1>4. Lastly(r.buf, Sent(q), 0)
  <2>1. DOMAIN Buffer(Capacity) = BufferFields /\ Buffer(Capacity).data = <<>> /\ Buffer(Capacity).writepos = 0
    BY DEF Buffer, BufferFields
  <2>2. SubSeq(Sent(q), 0 + 1, 0) = <<>> /\ 0 \in 0..0 /\ <<>> \in Seq(STRING)
    BY SentIs
  <2> QED
    BY <1>1, <2>1, <2>2, Zenon DEF Lastly
<1>5. Reads(r, q)
  BY <1>1, <1>2, <1>4 DEF Reads
<1>6. InOrder(r, q)
  BY <1>1, <1>2, <1>3, <1>5 DEF InOrder, States
<1> QED
  BY <1>6 DEF r

LEMMA InitInOrder == TransferInit => BodiesInOrder
<1> SUFFICES ASSUME TransferInit PROVE BodiesInOrder
  OBVIOUS
<1>1. PICK w \in Worlds : asked = w.asked
  BY DEF TransferInit
<1>2. \A c \in Present : asked[c] \in Requests
  BY <1>1, TransferAssumption DEF Present
<1>3. DOMAIN conn = Present /\ \A c \in Present : conn[c] = Fresh
  BY DEF TransferInit
<1> QED
  BY <1>2, <1>3, FreshInOrder, Zenon DEF BodiesInOrder

LEMMA StepInOrder == BodiesInOrder /\ [TransferNext]_vars => BodiesInOrder'
<1> SUFFICES ASSUME BodiesInOrder, [TransferNext]_vars PROVE BodiesInOrder'
  OBVIOUS
<1>1. CASE UNCHANGED vars
  BY <1>1 DEF vars, BodiesInOrder, Present
<1>2. ASSUME NEW c \in Present,
             \/ Handle(c) \/ CloseSide(c) \/ CloseStdin(c) \/ Timeout(c) \/ Leave(c) \/ Flush(c)
      PROVE  BodiesInOrder'
  <2> DEFINE k == conn[c]
             q == asked[c]
  <2>1. q \in Requests /\ InOrder(k, q) /\ DOMAIN k = Fields /\ k.taken \in Nat
    <3>1. q \in Requests /\ InOrder(k, q)
      BY DEF BodiesInOrder
    <3>2. DOMAIN k = Fields /\ k.taken \in 0..Len(Sent(q))
      BY <3>1 DEF InOrder
    <3> QED
      BY <3>1, <3>2
  <2>2. ASSUME NEW h, InOrder(h, q), NEW files, Set(c, h, files) PROVE BodiesInOrder'
    BY <2>2, SetInOrder, Zenon
  <2>3. ASSUME NEW h, InOrder(h, q), Become(c, h) PROVE BodiesInOrder'
    BY <2>2, <2>3, Zenon DEF Become
  <2>4. ASSUME NEW room, NEW n \in Readable(c, room)
        PROVE  n \in Nat /\ k.taken + n <= Len(Sent(q))
    <3>1. Len(Sent(q)) \in Nat
      BY <2>1, SentIs
    <3> QED
      BY <2>1, <2>4, <3>1 DEF Readable
  <2>5. CASE HandleHead(c)
    <3>1. k.state \in {"REQ_LINE", "REQ_HEADERS"}
      BY <2>5 DEF HandleHead
    <3>2. PICK n \in Readable(c, FillCapacity(k.buf)) : Become(c, handle_head(k, q, n, disk))
      BY <2>5 DEF HandleHead
    <3>3. n \in Nat /\ k.taken + n <= Len(Sent(q))
      BY <2>4
    <3> HIDE DEF k, q
    <3>4. InOrder(handle_head(k, q, n, disk), q)
      BY <2>1, <3>1, <3>3, HeadInOrder
    <3> QED
      BY <2>3, <3>2, <3>4, Zenon
  <2>6. CASE HandleDiscard(c)
    <3>1. k.state = "DISCARD_BODY"
      BY <2>6 DEF HandleDiscard
    <3>2. PICK n \in Readable(c, Capacity - 1) : Become(c, handle_discard(k, q, n, disk))
      BY <2>6 DEF HandleDiscard
    <3>3. n \in Nat /\ k.taken + n <= Len(Sent(q))
      BY <2>4
    <3> HIDE DEF k, q
    <3>4. InOrder(handle_discard(k, q, n, disk), q)
      BY <2>1, <3>1, <3>3, DiscardInOrder
    <3> QED
      BY <2>3, <3>2, <3>4, Zenon
  <2>7. CASE HandleBody(c)
    <3>1. k.state = "REQ_BODY"
      BY <2>7 DEF HandleBody
    <3>2. PICK n \in Readable(c, FillCapacity(k.buf)) :
             Become(c, IF q.route = "script" THEN read_cgi_body(k, q, n) ELSE handle_post(k, q, n, disk))
      BY <2>7 DEF HandleBody
    <3>3. n \in Nat /\ k.taken + n <= Len(Sent(q))
      BY <2>4
    <3> HIDE DEF k, q
    <3>4. InOrder(handle_post(k, q, n, disk), q) /\ InOrder(read_cgi_body(k, q, n), q)
      BY <2>1, <3>1, <3>3, PostInOrder
    <3> QED
      BY <2>3, <3>2, <3>4, Zenon
  <2>8. CASE HandleCgiInput(c)
    <3>1. k.state = "CGI_TRANSMIT_BODY"
      BY <2>8 DEF HandleCgiInput
    <3>2. PICK n \in 0..FeedCapacity(k.buf) : Become(c, handle_cgi_input(k, q, n))
      BY <2>8 DEF HandleCgiInput
    <3> HIDE DEF k, q
    <3>3. InOrder(handle_cgi_input(k, q, n), q)
      BY <2>1, <3>1, InputInOrder
    <3> QED
      BY <2>3, <3>2, <3>3, Zenon
  <2>9. CASE HandleCgiOutput(c)
    <3>1. k.state \in {"CGI_HEADERS", "CGI_BODY"}
      BY <2>9 DEF HandleCgiOutput
    <3>2. PICK n, eof : Become(c, handle_cgi_output(k, q, n, eof, disk))
      BY <2>9, Zenon DEF HandleCgiOutput
    <3> HIDE DEF k, q
    <3>3. InOrder(handle_cgi_output(k, q, n, eof, disk), q)
      BY <2>1, <3>1, OutputInOrder
    <3> QED
      BY <2>3, <3>2, <3>3, Zenon
  <2>10. CASE HandleResponse(c)
    <3> DEFINE r == Refilled(k, disk)
    <3>1. k.state = "RESPONSE"
      BY <2>10 DEF HandleResponse
    <3>2. \/ \E x : Become(c, Delete(r, x))
          \/ \E x, y : Become(c, [r EXCEPT !.answer = x, !.buf = y])
      BY <2>10, Zenon DEF HandleResponse
    <3>3. Kept(r, k) /\ r.state = k.state
      BY <2>1, RefilledKeeps, Zenon
    <3> HIDE DEF k, q, r
    <3>4. ASSUME NEW x PROVE InOrder(Delete(r, x), q)
      <4>1. Declines(Delete(r, x), k)
        BY <3>3 DEF Delete, Declines, Kept, Late, Fields
      <4> QED
        BY <2>1, <4>1, SettledInOrder, Zenon
    <3>5. ASSUME NEW x, NEW y PROVE InOrder([r EXCEPT !.answer = x, !.buf = y], q)
      <4>1. Declines([r EXCEPT !.answer = x, !.buf = y], k)
        BY <3>1, <3>3 DEF Declines, Kept, Late, Fields
      <4> QED
        BY <2>1, <4>1, SettledInOrder, Zenon
    <3> QED
      BY <2>3, <3>2, <3>4, <3>5, Zenon
  <2>11. CASE CloseSide(c)
    <3>1. k.state = "DISCARD_BODY" /\ Become(c, handle_discard(k, q, 0, disk))
      BY <2>11 DEF CloseSide
    <3> HIDE DEF k, q
    <3>2. 0 \in Nat /\ k.taken + 0 <= Len(Sent(q))
      BY <2>1, SentIs DEF InOrder
    <3>3. InOrder(handle_discard(k, q, 0, disk), q)
      BY <2>1, <3>1, <3>2, DiscardInOrder
    <3> QED
      BY <2>3, <3>1, <3>3, Zenon
  <2>12. CASE CloseStdin(c)
    <3>1. Become(c, Collect(k))
      BY <2>12 DEF CloseStdin
    <3> HIDE DEF k, q
    <3>2. InOrder(Collect(k), q)
      BY <2>1, AnswerFacts, SettledInOrder, Zenon
    <3> QED
      BY <2>3, <3>1, <3>2, Zenon
  <2>13. CASE Timeout(c)
    <3> DEFINE late == [k EXCEPT !.status = "408"]
    <3>1. \/ Become(c, handle_setup(late, q, disk))
          \/ Become(c, AnswerPage(k, disk))
          \/ Become(c, Drop(k))
      BY <2>13, Zenon DEF Timeout
    <3> HIDE DEF k, q
    <3>2. InOrder(handle_setup(late, q, disk), q)
      <4>1. Kept(late, k) /\ late.status # "none"
        BY <2>1 DEF Kept, Fields
      <4> HIDE DEF late
      <4>2. Declines(AnswerError(late, q, disk), late)
        BY <2>1, <4>1, AnswerErrorFacts, Zenon DEF Kept
      <4>3. Declines(handle_setup(late, q, disk), late)
        BY <4>1, <4>2, Zenon DEF handle_setup
      <4>4. Declines(handle_setup(late, q, disk), k)
        BY <4>1, <4>3 DEF Declines, Kept
      <4> QED
        BY <2>1, <4>4, SettledInOrder, Zenon
    <3>3. InOrder(AnswerPage(k, disk), q)
      BY <2>1, AnswerFacts, SettledInOrder, Zenon
    <3>4. InOrder(Drop(k), q)
      BY <2>1, DropInOrder, Zenon
    <3> HIDE DEF late
    <3> QED
      BY <2>3, <3>1, <3>2, <3>3, <3>4, Zenon
  <2>14. CASE Leave(c)
    <3>1. Become(c, Drop(k)) /\ InOrder(Drop(k), q)
      BY <2>1, <2>14, DropInOrder, Zenon DEF Leave
    <3> QED
      BY <2>3, <3>1, Zenon
  <2>15. CASE Flush(c)
    <3>1. PICK x, y, files : Set(c, [k EXCEPT !.stream.pos = x, !.stream.pending = y], files)
      BY <2>15, Zenon DEF Flush
    <3> DEFINE r == [k EXCEPT !.stream.pos = x, !.stream.pending = y]
    <3> HIDE DEF k, q
    <3>2. Kept(r, k) /\ r.state = k.state /\ r.buf = k.buf
      BY <2>1 DEF Kept, Fields
    <3>3. InOrder(r, q)
      <4> HIDE DEF r
      <4> QED
        BY <2>1, <3>2 DEF InOrder, Kept, Reads, Passes
    <3> QED
      BY <2>2, <3>1, <3>3, Zenon
  <2> QED
    BY <1>2, <2>5, <2>6, <2>7, <2>8, <2>9, <2>10, <2>11, <2>12, <2>13, <2>14, <2>15 DEF Handle
<1> QED
  BY <1>1, <1>2 DEF TransferNext

LEMMA InOrderSaysSo == BodiesInOrder => BodyInOrder
  BY DEF BodiesInOrder, InOrder, Passes, BodyInOrder

\* Whatever the capacity of the buffer and the reads and writes of the client and
\* of the script, the file or the script of a request is given the bytes after its
\* head, each once and in their order (handle_post, handle_cgi_input and the
\* leftover of handle_setup).
THEOREM BodyKeepsOrder == TransferSpec => []BodyInOrder
<1>1. TransferSpec => []BodiesInOrder
  BY InitInOrder, StepInOrder, PTL DEF TransferSpec
<1> QED
  BY <1>1, InOrderSaysSo, PTL
=============================================================================
