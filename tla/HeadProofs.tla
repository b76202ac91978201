------------------------------ MODULE HeadProofs ------------------------------
(* The head of a request is what it says, in whatever pieces it is read; what  *)
(* is counted of its body is right; and nobody waits for what was sent already. *)
EXTENDS AnswerProofs

-----------------------------------------------------------------------------
(* Lines, and the part of them that is in the buffer                          *)

\* A line begins after p: at the start, or behind the end of another.
Begins(s, p) == p = 0 \/ p - 1 \in Ends(s)

LEMMA EndsAre ==
  ASSUME NEW s \in Seq(STRING)
  PROVE  /\ Ends(s) \subseteq 1..Len(s) - 1 /\ Ends(s) \subseteq Nat
         /\ \A i \in Ends(s) : \A j \in Ends(s) : i + 1 # j
  BY DEF Ends, CR, LF

\* A line is what lies between where it begins and where it ends.
LEMMA LineIs ==
  ASSUME NEW s \in Seq(STRING), NEW e \in Ends(s), NEW p \in Nat, Begins(s, p), p < e,
         \A i \in Ends(s) : i < p \/ e <= i
  PROVE  LineTo(s, e) = SubSeq(s, p + 1, e - 1)
<1> DEFINE before == {i \in Ends(s) : i < e}
<1>1. Ends(s) \subseteq 1..Len(s) - 1 /\ Len(s) \in Nat
  BY EndsAre
<1>2. CASE p = 0
  <2>1. before = {}
    BY <1>1, <1>2
  <2>2. LineTo(s, e) = SubSeq(s, 1, e - 1)
    BY <2>1, Zenon DEF LineTo
  <2> QED
    BY <1>2, <2>2
<1>3. CASE p # 0
  <2>1. p - 1 \in before /\ before \subseteq 0..Len(s)
    BY <1>1, <1>3 DEF Begins
  <2> DEFINE m == Max(before)
  <2>2. m \in before /\ \A y \in before : m >= y
    <3> HIDE DEF before
    <3> QED
      BY <1>1, <2>1, LastExists
  <2>3. m \in Nat /\ m >= p - 1 /\ m < p
    BY <1>1, <2>1, <2>2
  <2> HIDE DEF m
  <2>4. m + 2 = p + 1 /\ before # {}
    BY <2>1, <2>3
  <2> QED
    BY <2>4 DEF LineTo, m
<1> QED
  BY <1>2, <1>3

\* Every line begins somewhere.
LEMMA LineBegins ==
  ASSUME NEW s \in Seq(STRING), NEW e \in Ends(s)
  PROVE  \E p \in Nat : Begins(s, p) /\ p < e /\ \A i \in Ends(s) : i < p \/ e <= i
<1> DEFINE before == {i \in Ends(s) : i < e}
<1>1. /\ Ends(s) \subseteq 1..Len(s) - 1 /\ Len(s) \in Nat
      /\ \A i \in Ends(s) : \A j \in Ends(s) : i + 1 # j
  BY EndsAre
<1>2. CASE before = {}
  <2>1. 0 \in Nat /\ 0 < e /\ \A i \in Ends(s) : e <= i
    BY <1>1, <1>2
  <2> QED
    BY <2>1 DEF Begins
<1>3. CASE before # {}
  <2> DEFINE m == Max(before)
  <2>1. before \subseteq 0..Len(s)
    BY <1>1
  <2>2. m \in before /\ \A y \in before : m >= y
    <3> HIDE DEF before
    <3> QED
      BY <1>1, <1>3, <2>1, LastExists
  <2>3. m \in Ends(s) /\ m < e /\ \A i \in Ends(s) : i <= m \/ e <= i
    BY <1>1, <2>2
  <2> HIDE DEF m
  <2>4. m + 1 \in Nat /\ m + 1 < e /\ (m + 1) - 1 = m /\ \A i \in Ends(s) : i < m + 1 \/ e <= i
    BY <1>1, <2>3
  <2> QED
    BY <2>3, <2>4 DEF Begins
<1> QED
  BY <1>2, <1>3

\* Some bytes of some bytes.
LEMMA Inner ==
  ASSUME NEW s \in Seq(STRING), NEW t \in Nat, NEW p \in Nat, p <= t, t <= Len(s),
         NEW a \in Nat, NEW b \in Nat, a <= b, p + b <= t
  PROVE  SubSeq(SubSeq(s, p + 1, t), a + 1, b) = SubSeq(s, p + a + 1, p + b)
<1> DEFINE d == SubSeq(s, p + 1, t)
           u == SubSeq(d, a + 1, b)
           v == SubSeq(s, (p + a) + 1, p + b)
<1>1. d \in Seq(STRING) /\ Len(d) = t - p /\ \A i \in 1..t - p : d[i] = s[p + i]
  BY Middle
<1> HIDE DEF d
<1>2. b <= Len(d)
  BY <1>1
<1>3. u \in Seq(STRING) /\ Len(u) = b - a /\ \A i \in 1..b - a : u[i] = d[a + i]
  BY <1>1, <1>2, Middle
<1>4. p + a \in Nat /\ p + b \in Nat /\ p + a <= p + b /\ p + b <= Len(s)
  OBVIOUS
<1>5. v \in Seq(STRING) /\ Len(v) = (p + b) - (p + a) /\ \A i \in 1..(p + b) - (p + a) : v[i] = s[(p + a) + i]
  BY <1>4, Middle
<1> HIDE DEF u, v
<1>6. Len(v) = Len(u)
  BY <1>3, <1>5
<1>7. ASSUME NEW i \in 1..Len(u) PROVE u[i] = v[i]
  <2>1. u[i] = d[a + i] /\ v[i] = s[(p + a) + i]
    BY <1>3, <1>5, <1>6
  <2>2. a + i \in 1..t - p /\ p + (a + i) = (p + a) + i
    BY <1>3
  <2> QED
    BY <1>1, <2>1, <2>2
<1>8. u = v
  BY <1>3, <1>5, <1>6, <1>7
<1> QED
  BY <1>8 DEF u, v, d

\* The bytes after p, up to t.
Window(s, p, t) == SubSeq(s, p + 1, t)

\* The lines that end in the bytes after p, up to t, are those that end there in all
\* of them.
LEMMA WindowEnds ==
  ASSUME NEW s \in Seq(STRING), NEW t \in Nat, NEW p \in Nat, p <= t, t <= Len(s), Begins(s, p)
  PROVE  LET d == Window(s, p, t)
         IN /\ \A e \in Ends(d) : e \in Nat /\ p + e \in Ends(s) /\ p < p + e /\ p + e < t
            /\ \A i \in Ends(s) : p < i /\ i < t => i - p \in Ends(d)
            /\ \A i \in Ends(s) : i # p
<1> DEFINE d == Window(s, p, t)
<1>1. d \in Seq(STRING) /\ Len(d) = t - p /\ \A i \in 1..t - p : d[i] = s[p + i]
  BY Middle DEF Window
<1> HIDE DEF d
<1>2. \A j \in 1..p : s[j] # NUL
  BY DEF Begins, Ends, CR, LF, NUL
<1>3. \A i \in Ends(s) : i # p
  BY DEF Begins, Ends, CR, LF, NUL
<1>4. ASSUME NEW e \in Ends(d) PROVE e \in Nat /\ p + e \in Ends(s) /\ p < p + e /\ p + e < t
  <2>1. /\ e \in 1..(t - p) - 1 /\ d[e] = CR /\ d[e + 1] = LF /\ \A j \in 1..e - 1 : d[j] # NUL
    BY <1>1 DEF Ends
  <2>2. p + e \in 1..Len(s) - 1 /\ p < p + e /\ p + e < t
    BY <2>1
  <2>3. s[p + e] = CR /\ s[(p + e) + 1] = LF
    <3>1. e \in 1..t - p /\ e + 1 \in 1..t - p /\ p + (e + 1) = (p + e) + 1
      BY <2>1
    <3> QED
      BY <1>1, <2>1, <3>1
  <2>4. ASSUME NEW j \in 1..(p + e) - 1 PROVE s[j] # NUL
    <3>1. CASE j <= p
      BY <1>2, <3>1
    <3>2. CASE p < j
      <4>1. j - p \in 1..e - 1 /\ j - p \in 1..t - p /\ p + (j - p) = j
        BY <2>1, <3>2
      <4> QED
        BY <1>1, <2>1, <4>1
    <3> QED
      BY <3>1, <3>2
  <2> QED
    BY <2>1, <2>2, <2>3, <2>4 DEF Ends
<1>5. ASSUME NEW i \in Ends(s), p < i, i < t PROVE i - p \in Ends(d)
  <2>1. /\ i \in 1..Len(s) - 1 /\ s[i] = CR /\ s[i + 1] = LF /\ \A j \in 1..i - 1 : s[j] # NUL
    BY DEF Ends
  <2>2. /\ i - p \in 1..Len(d) - 1 /\ i - p \in 1..t - p /\ (i - p) + 1 \in 1..t - p
        /\ p + (i - p) = i /\ p + ((i - p) + 1) = i + 1
    BY <1>1, <1>5, <2>1
  <2>3. d[i - p] = CR /\ d[(i - p) + 1] = LF
    BY <1>1, <2>1, <2>2
  <2>4. ASSUME NEW j \in 1..(i - p) - 1 PROVE d[j] # NUL
    <3>1. j \in 1..t - p /\ p + j \in 1..i - 1
      BY <2>2
    <3> QED
      BY <1>1, <2>1, <3>1
  <2> QED
    BY <2>2, <2>3, <2>4 DEF Ends
<1> QED
  BY <1>3, <1>4, <1>5 DEF d

\* And they are the same.
LEMMA WindowLine ==
  ASSUME NEW s \in Seq(STRING), NEW t \in Nat, NEW p \in Nat, p <= t, t <= Len(s), Begins(s, p),
         NEW e \in Ends(Window(s, p, t))
  PROVE  LineTo(Window(s, p, t), e) = LineTo(s, p + e)
<1> DEFINE d == Window(s, p, t)
<1>1. d \in Seq(STRING) /\ Len(d) = t - p /\ Ends(d) \subseteq 1..Len(d) - 1
  <2>1. d \in Seq(STRING) /\ Len(d) = t - p
    BY Middle DEF Window
  <2> QED
    BY <2>1, EndsAre
<1>2. e \in Ends(d)
  OBVIOUS
<1>3. PICK a \in Nat : Begins(d, a) /\ a < e /\ \A i \in Ends(d) : i < a \/ e <= i
  BY <1>1, <1>2, LineBegins
<1>4. LineTo(d, e) = SubSeq(d, a + 1, e - 1)
  BY <1>1, <1>3, <1>2, LineIs
<1>5. /\ \A x \in Ends(d) : x \in Nat /\ p + x \in Ends(s) /\ p < p + x /\ p + x < t
      /\ \A i \in Ends(s) : p < i /\ i < t => i - p \in Ends(d)
      /\ \A i \in Ends(s) : i # p
  BY WindowEnds, Zenon
<1> HIDE DEF d
<1>6. e \in Nat /\ p + e \in Ends(s) /\ p + e < t
  BY <1>5, <1>2
<1>7. Begins(s, p + a)
  <2>1. CASE a = 0
    BY <2>1
  <2>2. CASE a # 0
    <3>1. a - 1 \in Ends(d) /\ p + (a - 1) = (p + a) - 1
      BY <1>3, <2>2 DEF Begins
    <3>2. p + (a - 1) \in Ends(s)
      BY <1>5, <3>1
    <3> QED
      BY <3>1, <3>2 DEF Begins
  <2> QED
    BY <2>1, <2>2
<1>8. ASSUME NEW i \in Ends(s) PROVE i < p + a \/ p + e <= i
  <2>1. i \in Nat
    BY EndsAre
  <2>2. CASE p < i /\ i < t
    <3>1. i - p \in Ends(d)
      BY <1>5, <2>2
    <3>2. i - p < a \/ e <= i - p
      BY <1>3, <3>1
    <3> QED
      BY <1>3, <1>6, <2>1, <3>2
  <2>3. CASE ~(p < i /\ i < t)
    BY <1>5, <1>3, <1>6, <2>1, <2>3
  <2> QED
    BY <2>2, <2>3
<1>9. p + a \in Nat /\ p + a < p + e
  BY <1>3, <1>6
<1>10. LineTo(s, p + e) = SubSeq(s, (p + a) + 1, (p + e) - 1)
  BY <1>6, <1>7, <1>8, <1>9, LineIs
<1>11. SubSeq(d, a + 1, e - 1) = SubSeq(s, (p + a) + 1, p + (e - 1))
  <2>1. e - 1 \in Nat /\ a <= e - 1 /\ p + (e - 1) <= t
    BY <1>3, <1>6
  <2> QED
    BY <2>1, Inner DEF d, Window
<1>12. p + (e - 1) = (p + e) - 1
  BY <1>6
<1> QED
  BY <1>4, <1>10, <1>11, <1>12 DEF d

-----------------------------------------------------------------------------
(* Where a head ends                                                          *)

\* The lines before p are of the head, and do not end it.
Passed(q, p) ==
    Begins(Sent(q), p) /\ \A i \in LineEnds(q) : i < p => ~Decides(q, i)

\* The head ends with the first line that ends it.
LEMMA LastIs ==
  ASSUME NEW q \in Requests, NEW e \in LineEnds(q), Decides(q, e),
         \A i \in LineEnds(q) : i < e => ~Decides(q, i)
  PROVE  Last(q) = e
<1> DEFINE S == {i \in LineEnds(q) : Decides(q, i)}
<1>1. LineEnds(q) \subseteq Nat
  BY SentIs, EndsAre DEF LineEnds
<1>2. S \subseteq Nat /\ S # {} /\ e \in S /\ \A i \in S : e <= i
  BY <1>1
<1>3. Last(q) = Min(S)
  BY DEF Last
<1> HIDE DEF S
<1>4. Min(S) \in S /\ \A i \in S : Min(S) <= i
  BY <1>2, FirstExists, Zenon
<1> DEFINE m == Min(S)
<1>5. m \in Nat /\ e \in Nat /\ e <= m /\ m <= e
  BY <1>2, <1>4
<1> HIDE DEF m
<1>6. m = e
  BY <1>5
<1> QED
  BY <1>3, <1>6 DEF m

\* What is behind the last line.
LEMMA UnendedIs ==
  ASSUME NEW q \in Requests, NEW p \in Nat, p <= Len(Sent(q)), Begins(Sent(q), p),
         \A i \in LineEnds(q) : i < p
  PROVE  Unended(q) = Len(Sent(q)) - p /\ (LineEnds(q) = {} <=> p = 0)
<1> DEFINE s == Sent(q)
           S == LineEnds(q)
<1>1. s \in Seq(STRING) /\ S = Ends(s) /\ S \subseteq 1..Len(s) - 1 /\ Len(s) \in Nat
  BY SentIs, EndsAre DEF LineEnds
<1>2. CASE p = 0
  <2>1. S = {}
    BY <1>1, <1>2
  <2> QED
    BY <1>1, <1>2, <2>1 DEF Unended
<1>3. CASE p # 0
  <2>1. p - 1 \in S /\ S \subseteq 0..Len(s) /\ S # {}
    BY <1>1, <1>3 DEF Begins
  <2> DEFINE m == Max(S)
  <2>2. m \in S /\ \A y \in S : m >= y
    <3> HIDE DEF S, s
    <3> QED
      BY <1>1, <2>1, LastExists
  <2>3. m = p - 1
    BY <1>1, <2>1, <2>2
  <2>4. Unended(q) = Len(s) - (m + 1)
    BY <2>1, Zenon DEF Unended
  <2> HIDE DEF m, S, s
  <2> QED
    BY <1>1, <1>3, <2>1, <2>3, <2>4 DEF S, s
<1> QED
  BY <1>2, <1>3

\* When the bytes after p are as many as the buffer takes and no line ends in them,
\* the head is refused: that line is too long.
LEMMA JudgedFull ==
  ASSUME NEW q \in Requests, NEW p \in Nat, NEW t \in Nat, p <= t, t <= Len(Sent(q)),
         Passed(q, p), \A i \in LineEnds(q) : i < p \/ t <= i, t - p + 1 >= Capacity
  PROVE  Judgement(q)[1] = IF p = 0 THEN "414" ELSE "431"
<1> DEFINE s == Sent(q)
           S == LineEnds(q)
<1>1. s \in Seq(STRING) /\ S = Ends(s) /\ S \subseteq Nat /\ Len(s) \in Nat /\ Capacity \in Nat
  BY SentIs, EndsAre, TransferAssumption DEF LineEnds
<1>2. CASE \A i \in S : i < p
  <2>1. Unended(q) = Len(s) - p /\ (S = {} <=> p = 0)
    BY <1>1, <1>2, UnendedIs DEF Passed
  <2>2. \A i \in S : ~Decides(q, i)
    BY <1>2 DEF Passed
  <2>3. ~(Unended(q) + 1 < Capacity)
    BY <1>1, <2>1
  <2>4. Judgement(q) = <<IF S = {} THEN "414" ELSE "431", 0>>
    BY <2>2, <2>3, Zenon DEF Judgement
  <2> HIDE DEF S
  <2> QED
    BY <2>1, <2>4
<1>3. CASE ~ \A i \in S : i < p
  <2> DEFINE late == {i \in S : p <= i}
             e == Min(late)
  <2>1. late # {} /\ late \subseteq Nat
    BY <1>1, <1>3
  <2>2. e \in late /\ \A i \in late : e <= i
    <3> HIDE DEF late
    <3> QED
      BY <2>1, FirstExists, Zenon
  <2>3. e \in S /\ e \in Nat /\ p <= e /\ t <= e /\ \A i \in S : i < p \/ e <= i
    BY <1>1, <2>2
  <2> HIDE DEF e
  <2>4. p < e
    <3>1. \A i \in S : i # p
      BY <1>1, WindowEnds DEF Passed
    <3> QED
      BY <2>3, <3>1
  <2>5. LineAt(q, e) = SubSeq(s, p + 1, e - 1)
    BY <1>1, <2>3, <2>4, LineIs DEF Passed, LineAt
  <2>6. Len(LineAt(q, e)) = (e - 1) - p
    <3>1. e - 1 \in Nat /\ p <= e - 1 /\ e - 1 <= Len(s)
      <4>1. S \subseteq 1..Len(s) - 1
        BY <1>1, EndsAre
      <4> QED
        BY <1>1, <2>3, <2>4, <4>1
    <3> HIDE DEF s
    <3> QED
      BY <1>1, <2>5, <3>1, Middle
  <2>7. TooLong(q, e)
    BY <1>1, <2>3, <2>6 DEF TooLong
  <2>8. Decides(q, e) /\ \A i \in S : i < e => ~Decides(q, i)
    BY <1>1, <2>3, <2>7 DEF Decides, Passed
  <2>9. Last(q) = e
    BY <2>3, <2>8, LastIs
  <2>10. IsField(q, e) <=> p # 0
    <3>1. CASE p = 0
      BY <1>1, <2>3, <3>1 DEF IsField
    <3>2. CASE p # 0
      <4>1. p - 1 \in S /\ p - 1 < e
        BY <1>1, <2>3, <2>4, <3>2 DEF Passed, Begins
      <4> QED
        BY <3>2, <4>1 DEF IsField
    <3> QED
      BY <3>1, <3>2
  <2>11. Judgement(q) = <<IF IsField(q, e) THEN "431" ELSE "414", 0>>
    BY <2>3, <2>7, <2>8, <2>9, Zenon DEF Judgement
  <2> QED
    BY <2>10, <2>11
<1> QED
  BY <1>2, <1>3

\* When they are not as many, and all there are, more has to come.
LEMMA JudgedShort ==
  ASSUME NEW q \in Requests, NEW p \in Nat, p <= Len(Sent(q)), Passed(q, p),
         \A i \in LineEnds(q) : i < p, Len(Sent(q)) - p + 1 < Capacity
  PROVE  Judgement(q)[1] = "none"
<1>1. Unended(q) = Len(Sent(q)) - p
  BY UnendedIs DEF Passed
<1>2. \A i \in LineEnds(q) : ~Decides(q, i)
  BY DEF Passed
<1>3. Unended(q) + 1 < Capacity
  BY <1>1
<1>4. Judgement(q) = <<"none", 0>>
  BY <1>2, <1>3, Zenon DEF Judgement
<1> QED
  BY <1>4

-----------------------------------------------------------------------------
(* A head, read so far                                                        *)

\* The fields before p.
FieldsBefore(q, p) == {i \in LineEnds(q) : i < p /\ IsField(q, i)}

\* f holds them, each as it is said first.
Says(f, q, p) ==
    /\ DOMAIN f = {Name(LineAt(q, i)) : i \in FieldsBefore(q, p)}
    /\ \A name \in DOMAIN f : f[name] = ValueOf(q, p, name)

\* The buffer holds what was read behind p.
Holds(k, q, p) ==
    /\ DOMAIN k = Fields /\ DOMAIN k.buf = BufferFields
    /\ k.taken \in Nat /\ k.taken <= Len(Sent(q)) /\ p \in 0..k.taken
    /\ k.buf.data = Window(Sent(q), p, k.taken)
    /\ k.buf.writepos = 0 /\ k.buf.capacity = Capacity

\* The head is read up to p.
HeadAt(k, q, p) ==
    /\ Holds(k, q, p)
    /\ k.taken - p < Capacity /\ k.status = "none"
    /\ Passed(q, p) /\ Says(k.fields, q, p)

\* The rest of a line is waited for, and there is room for it.
Waits(k, q, p) ==
    /\ HeadAt(k, q, p)
    /\ k.taken - p + 1 < Capacity
    /\ \A i \in LineEnds(q) : i < p \/ k.taken <= i

\* The head was judged, and ends at p.
Verdict(k) == IF k.status = "none" THEN "ok" ELSE k.status
Decided(k, q, p) ==
    /\ Holds(k, q, p)
    /\ Verdict(k) = Judgement(q)[1]
    /\ k.status = "none" => p = Judgement(q)[2]
    /\ k.status # "ok"

LEMMA MinIs ==
  ASSUME NEW S, S \subseteq Nat, NEW e \in S, \A y \in S : e <= y
  PROVE  Min(S) = e
<1> DEFINE m == Min(S)
<1>1. Min(S) \in S /\ \A y \in S : Min(S) <= y
  BY FirstExists, Zenon
<1>2. m \in Nat /\ e \in Nat /\ e <= m /\ m <= e
  BY <1>1
<1> HIDE DEF m
<1>3. m = e
  BY <1>2
<1> QED
  BY <1>3 DEF m

\* Taken off the front of the buffer.
LEMMA HoldsErase ==
  ASSUME NEW q \in Requests, NEW k, NEW p, Holds(k, q, p), NEW n \in Nat, p + n <= k.taken,
         NEW r, DOMAIN r = Fields, r.taken = k.taken, r.buf = Erase(k.buf, n)
  PROVE  Holds(r, q, p + n)
<1> DEFINE s == Sent(q)
           t == k.taken
           d == Window(s, p, t)
<1>1. s \in Seq(STRING) /\ t \in Nat /\ t <= Len(s) /\ p \in Nat /\ p <= t /\ k.buf.data = d
  BY SentIs DEF Holds
<1>2. SubSeq(d, n + 1, Len(d)) = Window(s, p + n, t)
  <2> HIDE DEF s, t
  <2> QED
    BY <1>1, MiddleDropped DEF Window, t
<1>3. /\ DOMAIN r.buf = BufferFields /\ r.buf.data = SubSeq(d, n + 1, Len(d))
      /\ r.buf.writepos = 0 /\ r.buf.capacity = Capacity
  <2> DEFINE b == k.buf
             x == Erase(b, n)
  <2>1. DOMAIN b = BufferFields /\ b.writepos = 0 /\ b.capacity = Capacity /\ b.data = d
    BY <1>1 DEF Holds
  <2> HIDE DEF b, d
  <2>2. DOMAIN x = BufferFields /\ x.data = SubSeq(b.data, n + 1, Len(b.data)) /\ x.capacity = Capacity
    BY <2>1 DEF Erase, BufferFields
  <2>3. x.writepos = 0
    BY <2>1 DEF Erase, BufferFields
  <2> HIDE DEF x
  <2>4. r.buf = x
    BY DEF x, b
  <2> QED
    BY <2>1, <2>2, <2>3, <2>4
<1>4. p + n \in 0..t
  BY <1>1
<1> QED
  BY <1>2, <1>3, <1>4 DEF Holds

\* Refused, or taken.
LEMMA FailDecided ==
  ASSUME NEW q \in Requests, NEW k, NEW p, Holds(k, q, p), NEW x,
         (IF x = "none" THEN "ok" ELSE x) = Judgement(q)[1], x = "none" => p = Judgement(q)[2], x # "ok"
  PROVE  Decided(Fail(k, x), q, p) /\ Fail(k, x).state = "REQ_SETUP" /\ Fail(k, x).taken = k.taken
<1> DEFINE r == Fail(k, x)
<1>1. /\ DOMAIN r = Fields /\ r.buf = k.buf /\ r.taken = k.taken /\ r.status = x
      /\ r.state = "REQ_SETUP"
  BY DEF Fail, Holds, Fields
<1> HIDE DEF r
<1>2. Decided(r, q, p)
  BY <1>1 DEF Decided, Holds, Verdict
<1> QED
  BY <1>1, <1>2 DEF r

\* What is a line to the handler is one of all that is sent, and not too long.
LEMMA LineHeld ==
  ASSUME NEW q \in Requests, NEW k, NEW p, HeadAt(k, q, p), NEW e \in Ends(k.buf.data)
  PROVE  /\ e \in Nat /\ p + e \in LineEnds(q) /\ p < p + e /\ p + e < k.taken
         /\ LineTo(k.buf.data, e) = LineAt(q, p + e)
         /\ ~TooLong(q, p + e)
         /\ p # 0 => IsField(q, p + e)
<1> DEFINE s == Sent(q)
           t == k.taken
           d == k.buf.data
<1>1. s \in Seq(STRING) /\ t \in Nat /\ t <= Len(s) /\ p \in Nat /\ p <= t /\ d = Window(s, p, t)
      /\ Begins(s, p) /\ t - p < Capacity /\ Capacity \in Nat
  BY SentIs, TransferAssumption DEF Holds, HeadAt, Passed
<1>2. e \in Ends(Window(s, p, t))
  BY <1>1
<1> HIDE DEF s, t, d
<1>3. e \in Nat /\ p + e \in Ends(s) /\ p < p + e /\ p + e < t
  BY <1>1, <1>2, WindowEnds
<1>4. LineTo(d, e) = LineTo(s, p + e)
  BY <1>1, <1>2, WindowLine
<1>5. d \in Seq(STRING) /\ Len(d) = t - p
  BY <1>1, Middle DEF Window
<1>6. PICK a \in Nat : Begins(d, a) /\ a < e /\ \A i \in Ends(d) : i < a \/ e <= i
  BY <1>1, <1>2, <1>5, LineBegins
<1>7. LineTo(d, e) = SubSeq(d, a + 1, e - 1)
  BY <1>1, <1>2, <1>5, <1>6, LineIs
<1>8. Len(SubSeq(d, a + 1, e - 1)) = (e - 1) - a
  <2>1. e - 1 \in Nat /\ a <= e - 1 /\ e - 1 <= Len(d)
    BY <1>1, <1>3, <1>5, <1>6
  <2> QED
    BY <1>5, <2>1, Middle
<1>9. Len(LineAt(q, p + e)) + 2 < Capacity
  <2>1. Len(LineAt(q, p + e)) = (e - 1) - a
    BY <1>4, <1>7, <1>8 DEF LineAt, s
  <2> QED
    BY <1>1, <1>3, <1>6, <2>1
<1>10. ~TooLong(q, p + e)
  BY <1>1, <1>9, <1>4, <1>7, <1>8 DEF TooLong, LineAt, s
<1>11. p # 0 => IsField(q, p + e)
  <2>1. p # 0 => p - 1 \in Ends(s) /\ p - 1 < p + e
    BY <1>1, <1>3 DEF Begins
  <2> QED
    BY <2>1 DEF IsField, LineEnds, s
<1> QED
  BY <1>3, <1>4, <1>10, <1>11 DEF LineEnds, LineAt, s, t, d

\* And what is one of them, in the bytes read, is one to the handler.
LEMMA EndsHeld ==
  ASSUME NEW q \in Requests, NEW k, NEW p, HeadAt(k, q, p)
  PROVE  /\ p \in Nat /\ k.taken \in Nat /\ LineEnds(q) \subseteq Nat
         /\ \A i \in LineEnds(q) : i < p \/ (p < i /\ i < k.taken /\ i - p \in Ends(k.buf.data)) \/ k.taken <= i
         /\ Ends(k.buf.data) \subseteq 1..Len(k.buf.data) - 1 /\ Len(k.buf.data) = k.taken - p
<1> DEFINE s == Sent(q)
           t == k.taken
           d == k.buf.data
<1>1. s \in Seq(STRING) /\ t \in Nat /\ t <= Len(s) /\ p \in Nat /\ p <= t /\ d = Window(s, p, t)
      /\ Begins(s, p)
  BY SentIs DEF Holds, HeadAt, Passed
<1> HIDE DEF s, t, d
<1>2. /\ \A i \in Ends(s) : p < i /\ i < t => i - p \in Ends(d)
      /\ \A i \in Ends(s) : i # p
  BY <1>1, WindowEnds
<1>3. Ends(s) \subseteq Nat
  BY <1>1, EndsAre
<1>4. d \in Seq(STRING) /\ Len(d) = t - p
  BY <1>1, Middle DEF Window
<1>5. Ends(d) \subseteq 1..Len(d) - 1
  BY <1>4, EndsAre
<1>6. \A i \in Ends(s) : i < p \/ (p < i /\ i < t /\ i - p \in Ends(d)) \/ t <= i
  BY <1>1, <1>2, <1>3
<1> QED
  BY <1>1, <1>3, <1>4, <1>5, <1>6 DEF LineEnds, s, t, d

-----------------------------------------------------------------------------
(* The request line                                                           *)

\* The request line is taken, refused or waited for.
LEMMA LineRead ==
  ASSUME NEW q \in Requests, NEW k, k.state = "REQ_LINE", HeadAt(k, q, 0)
  PROVE  LET r == handle_req_line(k)
         IN /\ r.taken = k.taken
            /\ \/ r.state = "REQ_LINE" /\ Waits(r, q, 0)
               \/ r.state = "REQ_HEADERS" /\ \E p \in Nat \ {0} : HeadAt(r, q, p)
               \/ r.state = "REQ_SETUP" /\ Decided(r, q, 0)
<1> DEFINE r == handle_req_line(k)
           t == k.taken
           d == k.buf.data
           S == Ends(d)
           e == Min(S)
           flaws == Flaws(LineTo(d, e))
           f == CHOOSE x \in flaws : TRUE
           h == [k EXCEPT !.state = "REQ_HEADERS", !.buf = Erase(@, e + 1)]
<1>1. /\ t \in Nat /\ LineEnds(q) \subseteq Nat
      /\ \A i \in LineEnds(q) : (0 < i /\ i < t /\ i \in S) \/ t <= i
      /\ S \subseteq 1..Len(d) - 1 /\ Len(d) = t
  <2>1. /\ t \in Nat /\ LineEnds(q) \subseteq Nat
        /\ \A i \in LineEnds(q) : i < 0 \/ (0 < i /\ i < t /\ i - 0 \in S) \/ t <= i
        /\ S \subseteq 1..Len(d) - 1 /\ Len(d) = t - 0
    BY EndsHeld
  <2> HIDE DEF S, d, t
  <2> QED
    BY <2>1
<1>2. Holds(k, q, 0) /\ Passed(q, 0) /\ k.status = "none" /\ Capacity \in Nat
  BY TransferAssumption DEF HeadAt
<1>3. r = IF S = {} THEN IF FillCapacity(k.buf) <= 0 THEN Fail(k, "414") ELSE k
          ELSE IF flaws # {} THEN Fail(k, f) ELSE h
  BY Zenon DEF handle_req_line
<1> HIDE DEF r
<1>4. CASE S = {}
  <2>1. FillCapacity(k.buf) = Capacity - t - 1
    BY <1>1, <1>2 DEF FillCapacity, Holds
  <2>2. \A i \in LineEnds(q) : i < 0 \/ t <= i
    BY <1>1, <1>4
  <2>3. CASE FillCapacity(k.buf) <= 0
    <3>1. t - 0 + 1 >= Capacity
      BY <1>1, <1>2, <2>1, <2>3
    <3>2. 0 \in Nat /\ 0 <= t /\ t <= Len(Sent(q))
      BY <1>1, <1>2 DEF Holds
    <3>3. Judgement(q)[1] = "414"
      BY <1>1, <1>2, <2>2, <3>1, <3>2, JudgedFull
    <3>4. r = Fail(k, "414")
      BY <1>3, <1>4, <2>3
    <3> QED
      BY <1>2, <3>3, <3>4, FailDecided DEF r
  <2>4. CASE ~(FillCapacity(k.buf) <= 0)
    <3>1. r = k
      BY <1>3, <1>4, <2>4
    <3>2. t - 0 + 1 < Capacity
      BY <1>1, <1>2, <2>1, <2>4
    <3> QED
      BY <2>2, <3>1, <3>2 DEF Waits, r
  <2> QED
    BY <2>3, <2>4
<1>5. CASE S # {}
  <2>1. e \in S /\ \A y \in S : e <= y
    <3>1. S \subseteq Nat
      BY <1>1
    <3> HIDE DEF S
    <3> QED
      BY <1>5, <3>1, FirstExists, Zenon
  <2>2. /\ e \in Nat /\ e \in LineEnds(q) /\ 0 < e /\ e < t
        /\ LineTo(d, e) = LineAt(q, e) /\ ~TooLong(q, e)
    <3>1. /\ e \in Nat /\ 0 + e \in LineEnds(q) /\ 0 < 0 + e /\ 0 + e < t
          /\ LineTo(d, e) = LineAt(q, 0 + e) /\ ~TooLong(q, 0 + e)
      BY <2>1, LineHeld
    <3>2. 0 + e = e
      BY <3>1
    <3> HIDE DEF e, S, d, t
    <3> QED
      BY <3>1, <3>2
  <2> HIDE DEF S, d, e
  <2>3. \A i \in LineEnds(q) : e <= i
    BY <1>1, <2>1, <2>2
  <2>4. ~IsField(q, e)
    BY <1>1, <2>2, <2>3 DEF IsField
  <2>5. CASE flaws # {}
    <3>1. Decides(q, e) /\ \A i \in LineEnds(q) : i < e => ~Decides(q, i)
      BY <1>1, <2>2, <2>3, <2>4, <2>5 DEF Decides
    <3>2. Last(q) = e
      BY <2>2, <3>1, LastIs
    <3>3. Judgement(q) = <<CHOOSE x \in Flaws(LineAt(q, e)) : TRUE, 0>>
      BY <2>2, <2>4, <3>1, <3>2, Zenon DEF Judgement
    <3>4. f = CHOOSE x \in Flaws(LineAt(q, e)) : TRUE
      BY <2>2, Zenon
    <3>5. f \notin {"none", "ok"}
      <4> DEFINE line == LineTo(d, e)
      <4>1. Flaws(line) \subseteq {"400", "501", "505"}
        <5> HIDE DEF line
        <5> QED
          BY DEF Flaws
      <4>2. f \in flaws
        BY <2>5
      <4> HIDE DEF f
      <4> QED
        BY <4>1, <4>2
    <3> HIDE DEF f
    <3>6. r = Fail(k, f) /\ Judgement(q)[1] = f
      BY <1>3, <1>5, <2>5, <3>3, <3>4
    <3> QED
      BY <1>2, <3>5, <3>6, FailDecided DEF r
  <2>6. CASE flaws = {}
    <3>1. r = h
      BY <1>3, <1>5, <2>6
    <3>2. /\ DOMAIN h = Fields /\ h.taken = t /\ h.buf = Erase(k.buf, e + 1) /\ h.status = "none"
          /\ h.fields = k.fields /\ h.state = "REQ_HEADERS"
      BY <1>2 DEF Holds, Fields
    <3>3. e + 1 \in Nat /\ 0 + (e + 1) = e + 1 /\ 0 + (e + 1) <= t /\ e + 1 # 0 /\ (e + 1) - 1 = e
      BY <1>1, <2>2
    <3> HIDE DEF h
    <3>4. Holds(h, q, e + 1)
      <4>1. Holds(h, q, 0 + (e + 1))
        BY <1>2, <3>2, <3>3, HoldsErase DEF t
      <4> QED
        BY <3>3, <4>1
    <3>5. \A i \in LineEnds(q) : i < e + 1 => i = e
      BY <1>1, <2>2, <2>3
    <3>6. ~Decides(q, e)
      BY <2>2, <2>4, <2>6, Zenon DEF Decides
    <3>7. Passed(q, e + 1)
      BY <2>2, <3>3, <3>5, <3>6 DEF Passed, Begins, LineEnds
    <3>8. FieldsBefore(q, e + 1) = {} /\ FieldsBefore(q, 0) = {}
      BY <1>1, <2>4, <3>5 DEF FieldsBefore
    <3>9. Says(h.fields, q, e + 1)
      BY <3>2, <3>8 DEF HeadAt, Says
    <3>10. t - (e + 1) < Capacity
      <4>1. t - 0 < Capacity
        BY DEF HeadAt, t
      <4> HIDE DEF t
      <4> QED
        BY <1>1, <1>2, <2>2, <4>1
    <3>11. HeadAt(h, q, e + 1)
      BY <3>2, <3>4, <3>7, <3>9, <3>10 DEF HeadAt
    <3> QED
      BY <3>1, <3>2, <3>3, <3>11 DEF r
  <2> QED
    BY <2>5, <2>6
<1> QED
  BY <1>4, <1>5

-----------------------------------------------------------------------------
(* The header lines                                                           *)

\* The fields before a line are those read before, and those of the lines before it.
LEMMA FieldNamed ==
  ASSUME NEW q \in Requests, NEW k, NEW p \in Nat \ {0}, HeadAt(k, q, p),
         NEW z \in Nat, p <= z, z <= k.taken, NEW name
  PROVE  /\ Naming(q, p, name) # {} <=> name \in DOMAIN k.fields
         /\ \A i : i \in Naming(q, z, name) <=>
               \/ i \in Naming(q, p, name)
               \/ \E e \in Ends(k.buf.data) : i = p + e /\ i < z /\ Name(LineTo(k.buf.data, e)) = name
<1> DEFINE d == k.buf.data
           S == Ends(d)
           t == k.taken
<1>1. /\ t \in Nat /\ LineEnds(q) \subseteq Nat
      /\ \A i \in LineEnds(q) : i < p \/ (p < i /\ i < t /\ i - p \in S) \/ t <= i
  <2> HIDE DEF S, d, t
  <2> QED
    BY EndsHeld DEF S, d, t
<1>2. \A e \in S : /\ e \in Nat /\ p + e \in LineEnds(q) /\ p < p + e /\ p + e < t
                   /\ LineTo(d, e) = LineAt(q, p + e) /\ IsField(q, p + e)
  BY LineHeld
<1>3. DOMAIN k.fields = {Name(LineAt(q, i)) : i \in FieldsBefore(q, p)}
  BY DEF HeadAt, Says
<1>4. Naming(q, p, name) # {} <=> name \in DOMAIN k.fields
  BY <1>3, Zenon DEF Naming, FieldsBefore
<1> HIDE DEF S, d, t
<1>5. ASSUME NEW i
      PROVE  i \in Naming(q, z, name) <=>
               \/ i \in Naming(q, p, name)
               \/ \E e \in S : i = p + e /\ i < z /\ Name(LineTo(d, e)) = name
  <2>1. ASSUME i \in Naming(q, z, name), i \notin Naming(q, p, name)
        PROVE  \E e \in S : i = p + e /\ i < z /\ Name(LineTo(d, e)) = name
    <3>1. i \in LineEnds(q) /\ i < z /\ IsField(q, i) /\ Name(LineAt(q, i)) = name
      BY <2>1 DEF Naming
    <3>2. ~(i < p)
      BY <2>1, <3>1 DEF Naming
    <3>3. i \in Nat /\ i - p \in S
      BY <1>1, <3>1, <3>2 DEF t
    <3>4. i = p + (i - p)
      BY <3>3
    <3> QED
      BY <1>2, <3>1, <3>3, <3>4
  <2>2. ASSUME i \in Naming(q, p, name)
        PROVE  i \in Naming(q, z, name)
    <3>1. i \in LineEnds(q) /\ i < p /\ IsField(q, i) /\ Name(LineAt(q, i)) = name
      BY <2>2 DEF Naming
    <3>2. i < z
      BY <1>1, <3>1
    <3> QED
      BY <3>1, <3>2 DEF Naming
  <2>3. ASSUME NEW e \in S, i = p + e, i < z, Name(LineTo(d, e)) = name
        PROVE  i \in Naming(q, z, name)
    BY <1>2, <2>3 DEF Naming
  <2> QED
    BY <2>1, <2>2, <2>3
<1> QED
  BY <1>4, <1>5 DEF S, d, t

\* The handler stops where the head ends.
LEMMA StopsDecide ==
  ASSUME NEW q \in Requests, NEW k, NEW p \in Nat \ {0}, HeadAt(k, q, p),
         NEW e \in Ends(k.buf.data)
  PROVE  e \in Stops(k, k.buf.data) <=> Decides(q, p + e)
<1> DEFINE d == k.buf.data
           line == LineTo(d, e)
           z == p + e
<1>1. /\ e \in Nat /\ p + e < k.taken /\ line = LineAt(q, z) /\ ~TooLong(q, z) /\ IsField(q, z)
      /\ k.taken \in Nat
  BY LineHeld, EndsHeld
<1>2. \A i \in Ends(d) : i \in Nat /\ p + i < k.taken
  BY LineHeld
<1>3. Naming(q, z, "host") # {} <=>
         "host" \in DOMAIN k.fields \/ \E i \in Ends(d) : i < e /\ Name(LineTo(d, i)) = "host"
  <2>1. z \in Nat /\ p <= z /\ z <= k.taken
    BY <1>1
  <2> HIDE DEF z
  <2>2. /\ Naming(q, p, "host") # {} <=> "host" \in DOMAIN k.fields
        /\ \A i : i \in Naming(q, z, "host") <=>
               \/ i \in Naming(q, p, "host")
               \/ \E j \in Ends(d) : i = p + j /\ i < z /\ Name(LineTo(d, j)) = "host"
    BY <2>1, FieldNamed
  <2>3. \A j \in Ends(d) : p + j < z <=> j < e
    BY <1>1, <1>2 DEF z
  <2> HIDE DEF d
  <2>4. Naming(q, z, "host") # {} <=>
            Naming(q, p, "host") # {} \/ \E j \in Ends(d) : p + j < z /\ Name(LineTo(d, j)) = "host"
    BY <2>2, Zenon
  <2> QED
    BY <2>2, <2>3, <2>4
<1> HIDE DEF d, line, z
<1>4. HostAgain(k, d, e) <=> Name(line) = "host" /\ Naming(q, z, "host") # {}
  BY <1>3, Zenon DEF HostAgain, line
<1>5. e \in Stops(k, d) <=> line = <<>> \/ Malformed(line) \/ HostAgain(k, d, e)
  BY Zenon DEF Stops, line, d
<1>6. Decides(q, z) <=> line = <<>> \/ Malformed(line) \/ (Name(line) = "host" /\ Naming(q, z, "host") # {})
  BY <1>1, Zenon DEF Decides
<1> QED
  BY <1>4, <1>5, <1>6 DEF z, d

\* The lines that are read add what they say.
LEMMA InsertSays ==
  ASSUME NEW q \in Requests, NEW k, NEW p \in Nat \ {0}, HeadAt(k, q, p),
         NEW z \in Nat, p <= z, z <= k.taken,
         NEW E, E = {e \in Ends(k.buf.data) : p + e < z}
  PROVE  Says(Insert(k.fields, k.buf.data, E), q, z)
<1> DEFINE d == k.buf.data
           S == Ends(d)
           f == k.fields
           X(name) == {e \in E : Name(LineTo(d, e)) = name}
           g == [n \in {Name(LineTo(d, e)) : e \in E} |-> Value(LineTo(d, Min(X(n))))]
           h == Insert(f, d, E)
<1>1. \A e \in S : e \in Nat /\ LineTo(d, e) = LineAt(q, p + e)
  BY LineHeld
<1>2. \A name : /\ Naming(q, p, name) # {} <=> name \in DOMAIN f
                /\ \A i : i \in Naming(q, z, name) <=>
                     \/ i \in Naming(q, p, name)
                     \/ \E e \in S : i = p + e /\ i < z /\ Name(LineTo(d, e)) = name
  <2> TAKE name
  <2> QED
    BY FieldNamed
<1>3. \A name : Naming(q, p, name) \subseteq Nat /\ Naming(q, z, name) \subseteq Nat
                /\ \A i \in Naming(q, p, name) : i < p
  <2>1. LineEnds(q) \subseteq Nat
    BY EndsHeld
  <2> QED
    BY <2>1 DEF Naming
<1>4. h = [n \in DOMAIN f \cup {Name(LineTo(d, e)) : e \in E} |->
                IF n \in DOMAIN f THEN f[n] ELSE Value(LineTo(d, Min(X(n))))]
  BY Zenon DEF Insert
<1>5. DOMAIN h = DOMAIN f \cup DOMAIN g /\ \A n \in DOMAIN h : h[n] = IF n \in DOMAIN f THEN f[n] ELSE g[n]
  <2>1. DOMAIN h = DOMAIN f \cup DOMAIN g
    BY <1>4, Zenon
  <2>2. ASSUME NEW n \in DOMAIN h PROVE h[n] = IF n \in DOMAIN f THEN f[n] ELSE g[n]
    <3>1. n \in DOMAIN f \cup {Name(LineTo(d, e)) : e \in E}
      BY <1>4, <2>2, Zenon
    <3>2. h[n] = IF n \in DOMAIN f THEN f[n] ELSE Value(LineTo(d, Min(X(n))))
      BY <1>4, <3>1, Zenon
    <3>3. n \notin DOMAIN f => g[n] = Value(LineTo(d, Min(X(n))))
      BY <3>1, Zenon
    <3> QED
      BY <3>2, <3>3, Zenon
  <2> QED
    BY <2>1, <2>2
<1>6. DOMAIN g = {Name(LineTo(d, e)) : e \in E} /\ \A n \in DOMAIN g : g[n] = Value(LineTo(d, Min(X(n))))
  OBVIOUS
<1> HIDE DEF g, h, f, d
<1>7. DOMAIN h = {Name(LineAt(q, i)) : i \in FieldsBefore(q, z)}
  <2>1. \A n : n \in DOMAIN h <=> Naming(q, z, n) # {}
    <3>1. \A n : n \in DOMAIN g <=> \E e \in S : p + e < z /\ Name(LineTo(d, e)) = n
      BY <1>6 DEF d
    <3>2. \A n : Naming(q, z, n) # {} <=>
                Naming(q, p, n) # {} \/ \E e \in S : p + e < z /\ Name(LineTo(d, e)) = n
      BY <1>2, Zenon
    <3> QED
      BY <1>2, <1>5, <3>1, <3>2
  <2>2. \A n : Naming(q, z, n) # {} <=> n \in {Name(LineAt(q, i)) : i \in FieldsBefore(q, z)}
    BY Zenon DEF Naming, FieldsBefore
  <2> QED
    BY <2>1, <2>2
<1>8. ASSUME NEW n \in DOMAIN h
      PROVE  h[n] = ValueOf(q, z, n)
  <2>1. CASE n \in DOMAIN f
    <3> DEFINE m == Min(Naming(q, p, n))
    <3>1. m \in Naming(q, p, n) /\ \A i \in Naming(q, p, n) : m <= i
      BY <1>2, <1>3, <2>1, FirstExists, Zenon
    <3> HIDE DEF m
    <3>2. m \in Naming(q, z, n)
      BY <1>2, <3>1
    <3>3. \A i \in Naming(q, z, n) : m <= i
      <4>1. m \in Nat /\ m < p
        BY <1>3, <3>1
      <4>2. ASSUME NEW e \in S
            PROVE  m <= p + e
        BY <1>1, <4>1
      <4> QED
        BY <1>2, <3>1, <4>2
    <3>4. Min(Naming(q, z, n)) = m
      BY <1>3, <3>2, <3>3, MinIs
    <3>5. f[n] = ValueOf(q, p, n)
      BY <2>1 DEF HeadAt, Says, f
    <3> QED
      BY <1>5, <2>1, <3>4, <3>5 DEF ValueOf, m
  <2>2. CASE n \notin DOMAIN f
    <3> DEFINE m == Min(X(n))
    <3>1. n \in DOMAIN g
      BY <1>5, <2>2
    <3>2. X(n) # {}
      BY <1>6, <3>1
    <3>3. X(n) \subseteq Nat
      BY <1>1 DEF d
    <3>4. m \in X(n) /\ \A e \in X(n) : m <= e
      BY <3>2, <3>3, FirstExists, Zenon
    <3> HIDE DEF m
    <3>5. m \in S /\ p + m < z /\ Name(LineTo(d, m)) = n /\ m \in Nat
      BY <1>1, <3>4 DEF d
    <3>6. p + m \in Naming(q, z, n)
      BY <1>2, <3>5
    <3>7. Naming(q, p, n) = {}
      BY <1>2, <2>2
    <3>8. \A i \in Naming(q, z, n) : p + m <= i
      <4>1. ASSUME NEW e \in S, p + e < z, Name(LineTo(d, e)) = n
            PROVE  p + m <= p + e
        <5>1. e \in X(n) /\ e \in Nat
          BY <1>1, <4>1 DEF d
        <5> QED
          BY <3>4, <3>5, <5>1
      <4> QED
        BY <1>2, <3>7, <4>1
    <3>9. Min(Naming(q, z, n)) = p + m
      BY <1>3, <3>6, <3>8, MinIs
    <3>10. h[n] = Value(LineTo(d, m))
      BY <1>5, <1>6, <2>2, <3>1 DEF m
    <3> QED
      BY <1>1, <3>5, <3>9, <3>10 DEF ValueOf
  <2> QED
    BY <2>1, <2>2
<1> QED
  BY <1>7, <1>8 DEF Says, h, f, d

\* A head without a flaw is taken for what its fields say.
LEMMA FieldsTaken ==
  ASSUME NEW q \in Requests, NEW g, NEW z \in Nat, NEW e \in LineEnds(q), e > z,
         \A i \in LineEnds(q) : i < z \/ e <= i,
         Holds(g, q, e + 1), g.status = "none", Says(g.fields, q, z),
         Judgement(q) = <<FieldsSay(q, e), e + 1>>
  PROVE  LET r == parse_req_headers(g, q)
         IN Decided(r, q, e + 1) /\ r.state = "REQ_SETUP" /\ r.taken = g.taken
<1> DEFINE f == g.fields
<1>1. LineEnds(q) \subseteq Nat
  <2>1. Sent(q) \in Seq(STRING)
    BY SentIs
  <2> QED
    BY <2>1, EndsAre DEF LineEnds
<1>2. \A name : Naming(q, e, name) = Naming(q, z, name)
  BY <1>1 DEF Naming
<1>3. \A name : ValueOf(q, e, name) = ValueOf(q, z, name)
  BY <1>2, Zenon DEF ValueOf
<1>4. \A name : name \in DOMAIN f <=> Naming(q, e, name) # {}
  <2>1. \A name : name \in DOMAIN f <=> Naming(q, z, name) # {}
    BY Zenon DEF Says, Naming, FieldsBefore
  <2> QED
    BY <1>2, <2>1
<1>5. \A name \in DOMAIN f : f[name] = ValueOf(q, e, name)
  BY <1>3, Zenon DEF Says
<1> DEFINE value == IF "host" \in DOMAIN f THEN f["host"] ELSE <<>>
           host == HostRefused(value, q)
           said == \/ q.version = "HTTP/1.1" /\ Nameless(q, e)
                   \/ ~Nameless(q, e) /\ Bad(ValueOf(q, e, "host"))
           x == IF host THEN "400"
                ELSE IF "len" \in DOMAIN f THEN IF LengthRefused(f["len"]) THEN "400" ELSE "none"
                ELSE IF q.post THEN "411" ELSE "none"
           r == parse_req_headers(g, q)
<1>6. r = Fail(g, x)
  BY Zenon DEF parse_req_headers
<1> HIDE DEF r, f
<1>7. host <=> said
  <2>1. value = <<>> <=> Nameless(q, e)
    BY <1>4, <1>5, Zenon DEF Nameless
  <2>2. value # <<>> => value = ValueOf(q, e, "host")
    BY <1>5, Zenon
  <2>3. Bad(value) => value # <<>>
    BY Zenon DEF Bad
  <2> HIDE DEF value
  <2> QED
    BY <2>1, <2>2, <2>3, Zenon DEF HostRefused
<1> HIDE DEF value, host
<1>13. FieldsSay(q, e) =
         IF said THEN "400"
         ELSE IF Naming(q, e, "len") = {} THEN IF q.post THEN "411" ELSE "ok"
         ELSE IF LengthRefused(ValueOf(q, e, "len")) THEN "400" ELSE "ok"
  BY Zenon DEF FieldsSay
<1> HIDE DEF said
<1>8. "len" \in DOMAIN f => /\ Naming(q, e, "len") # {}
                            /\ LengthRefused(f["len"]) <=> LengthRefused(ValueOf(q, e, "len"))
  BY <1>4, <1>5, Zenon
<1>9. (IF x = "none" THEN "ok" ELSE x) = FieldsSay(q, e)
  <2>1. CASE host
    BY <1>7, <1>13, <2>1, Zenon
  <2>2. CASE ~host /\ "len" \in DOMAIN f
    <3>1. FieldsSay(q, e) = IF LengthRefused(f["len"]) THEN "400" ELSE "ok"
      BY <1>7, <1>8, <1>13, <2>2, Zenon
    <3>2. x = IF LengthRefused(f["len"]) THEN "400" ELSE "none"
      BY <2>2, Zenon
    <3> QED
      BY <3>1, <3>2
  <2>3. CASE ~host /\ "len" \notin DOMAIN f
    <3>1. FieldsSay(q, e) = IF q.post THEN "411" ELSE "ok"
      BY <1>4, <1>7, <1>13, <2>3, Zenon
    <3>2. x = IF q.post THEN "411" ELSE "none"
      BY <2>3, Zenon
    <3> QED
      BY <3>1, <3>2
  <2> QED
    BY <2>1, <2>2, <2>3
<1>10. x # "ok"
  OBVIOUS
<1> HIDE DEF x
<1>11. (IF x = "none" THEN "ok" ELSE x) = Judgement(q)[1] /\ e + 1 = Judgement(q)[2]
  BY <1>9
<1>12. Decided(Fail(g, x), q, e + 1) /\ Fail(g, x).state = "REQ_SETUP" /\ Fail(g, x).taken = g.taken
  BY <1>10, <1>11, FailDecided
<1> QED
  BY <1>6, <1>12 DEF r

\* The header lines are read as far as they are there: the head is judged, or the
\* rest of a line is waited for.
LEMMA FieldsRead ==
  ASSUME NEW q \in Requests, NEW k, NEW p \in Nat \ {0}, HeadAt(k, q, p), k.state = "REQ_HEADERS"
  PROVE  LET r == handle_req_headers(k, q)
         IN /\ r.taken = k.taken
            /\ \/ r.state = "REQ_HEADERS" /\ \E z \in Nat \ {0} : Waits(r, q, z)
               \/ r.state = "REQ_SETUP" /\ \E z \in Nat : Decided(r, q, z)
<1> DEFINE t == k.taken
           d == k.buf.data
           S == Ends(d)
           stops == Stops(k, d)
           stop == Min(stops)
           E == {e \in S : stops = {} \/ e < stop}
           z == IF E = {} THEN p ELSE p + Max(E) + 1
           b == IF E = {} THEN k.buf ELSE Erase(k.buf, Max(E) + 1)
           f == Insert(k.fields, d, E)
           rest == [k EXCEPT !.fields = f, !.buf = b]
           g == [rest EXCEPT !.buf = Erase(@, 2), !.written = 0]
           r == handle_req_headers(k, q)
<1>1. r = IF stops = {} THEN IF FillCapacity(rest.buf) <= 0 THEN Fail(rest, "431") ELSE rest
          ELSE IF LineTo(d, stop) # <<>> THEN Fail(rest, "400")
          ELSE parse_req_headers(g, q)
  BY Zenon DEF handle_req_headers
<1>2. /\ DOMAIN rest = Fields /\ rest.fields = f /\ rest.buf = b /\ rest.taken = t
      /\ rest.status = "none" /\ rest.state = "REQ_HEADERS"
  <2> HIDE DEF f, b
  <2> QED
    BY DEF HeadAt, Holds, Fields
<1>3. /\ DOMAIN g = Fields /\ g.fields = f /\ g.buf = Erase(b, 2) /\ g.taken = t /\ g.status = "none"
  <2> HIDE DEF f, b
  <2> HIDE DEF rest
  <2> QED
    BY <1>2 DEF Fields
<1>4. /\ t \in Nat /\ LineEnds(q) \subseteq Nat /\ Len(d) = t - p /\ S \subseteq 1..Len(d) - 1
      /\ \A i \in LineEnds(q) : i < p \/ (p < i /\ i < t /\ i - p \in S) \/ t <= i
  <2> HIDE DEF S, d, t
  <2> QED
    BY EndsHeld DEF S, d, t
<1>5. \A e \in S : /\ e \in Nat /\ p + e \in LineEnds(q) /\ p < p + e /\ p + e < t
                   /\ LineTo(d, e) = LineAt(q, p + e) /\ ~TooLong(q, p + e) /\ IsField(q, p + e)
  BY LineHeld
<1>6. \A e \in S : e \in stops <=> Decides(q, p + e)
  BY StopsDecide
<1>7. stops \subseteq S
  BY DEF Stops
<1>8. Holds(k, q, p) /\ Passed(q, p) /\ k.status = "none" /\ Capacity \in Nat /\ t - p < Capacity /\ p <= t
      /\ t <= Len(Sent(q)) /\ Sent(q) \in Seq(STRING)
  BY TransferAssumption, SentIs DEF HeadAt, Holds
<1> HIDE DEF r, rest, g, f, b, S, stops, d, t
<1>9. stops # {} => stop \in stops /\ \A y \in stops : stop <= y
  <2>1. stops \subseteq Nat
    BY <1>5, <1>7
  <2> QED
    BY <2>1, FirstExists, Zenon
<1> HIDE DEF stop
<1>10. E # {} => Max(E) \in E /\ \A y \in E : y <= Max(E)
  <2>1. E \subseteq S
    OBVIOUS
  <2>2. S \subseteq 0..Len(d) /\ Len(d) \in Nat
    BY <1>4, <1>8
  <2> HIDE DEF E
  <2>3. E # {} => Max(E) \in E /\ \A y \in E : Max(E) >= y
    BY <2>1, <2>2, LastExists
  <2>4. ASSUME NEW y \in E, Max(E) \in E, Max(E) >= y
        PROVE  y <= Max(E)
    <3>1. y \in Nat /\ Max(E) \in Nat
      BY <1>5, <2>1, <2>4
    <3> QED
      BY <2>4, <3>1
  <2> QED
    BY <2>3, <2>4
<1>11. z \in Nat \ {0} /\ p <= z /\ z <= t /\ E = {e \in S : p + e < z}
  <2>1. CASE E = {}
    <3>1. z = p
      BY <2>1
    <3>2. {e \in S : p + e < p} = {}
      BY <1>5
    <3> HIDE DEF E, z
    <3> QED
      BY <1>4, <1>8, <2>1, <3>1, <3>2
  <2>2. CASE E # {}
    <3> DEFINE m == Max(E)
    <3>1. z = p + m + 1 /\ m \in S /\ (stops = {} \/ m < stop) /\ \A y \in E : y <= m
      BY <1>10, <2>2
    <3>2. m \in Nat /\ p + m < t
      BY <1>5, <3>1
    <3>3. ASSUME NEW e \in S PROVE e \in E <=> p + e < z
      <4> HIDE DEF m
      <4>1. e \in Nat /\ (p + e < z <=> e <= m)
        BY <1>5, <3>1, <3>2
      <4>2. stops # {} => stop \in Nat
        BY <1>5, <1>7, <1>9
      <4>3. e <= m => e \in E
        BY <3>1, <3>2, <4>1, <4>2
      <4> QED
        BY <3>1, <4>1, <4>3
    <3>4. E \subseteq S
      OBVIOUS
    <3>5. z \in Nat \ {0} /\ p <= z /\ z <= t
      <4> HIDE DEF m, z
      <4> QED
        BY <1>4, <3>1, <3>2
    <3> HIDE DEF E, z
    <3> QED
      BY <3>3, <3>4, <3>5
  <2> QED
    BY <2>1, <2>2
<1>12. Holds(rest, q, z)
  <2>1. CASE E = {}
    <3>1. z = p /\ b = k.buf
      BY <2>1 DEF b
    <3> QED
      BY <1>2, <1>8, <3>1 DEF Holds, t
  <2>2. CASE E # {}
    <3> DEFINE n == Max(E) + 1
    <3>1. z = p + n /\ b = Erase(k.buf, n) /\ n \in Nat
      BY <1>5, <1>8, <1>10, <2>2 DEF b
    <3> HIDE DEF n
    <3>2. p + n <= k.taken
      BY <1>11, <3>1 DEF t
    <3> HIDE DEF z
    <3>3. Holds(rest, q, p + n)
      BY <1>2, <1>8, <3>1, <3>2, HoldsErase DEF t
    <3> QED
      BY <3>1, <3>3
  <2> QED
    BY <2>1, <2>2
<1>13. E \cap stops = {}
  <2>1. ASSUME NEW e \in E, e \in stops
        PROVE  FALSE
    <3>1. e < stop /\ stop <= e /\ e \in Nat /\ stop \in Nat
      BY <1>5, <1>7, <1>9, <2>1
    <3> QED
      BY <3>1
  <2> QED
    BY <2>1
<1>14. \A i \in LineEnds(q) : i < z => ~Decides(q, i)
  <2>1. ASSUME NEW i \in LineEnds(q), i < z
        PROVE  ~Decides(q, i)
    <3>1. CASE i < p
      BY <1>8, <3>1 DEF Passed
    <3>2. CASE ~(i < p)
      <4>1. i - p \in S /\ p + (i - p) = i
        BY <1>4, <1>11, <2>1, <3>2
      <4>2. i - p \in E
        BY <1>11, <2>1, <4>1
      <4> QED
        BY <1>6, <1>13, <4>1, <4>2
    <3> QED
      BY <3>1, <3>2
  <2> QED
    BY <2>1
<1>15. Begins(Sent(q), z)
  <2>1. CASE E = {}
    BY <1>8, <2>1 DEF Passed
  <2>2. CASE E # {}
    <3>1. Max(E) \in S
      BY <1>10, <2>2
    <3>2. z - 1 = p + Max(E)
      BY <1>5, <2>2, <3>1
    <3> QED
      BY <1>5, <3>1, <3>2 DEF Begins, LineEnds
  <2> QED
    BY <2>1, <2>2
<1>16. Says(f, q, z)
  <2>1. E = {e \in Ends(k.buf.data) : p + e < z} /\ z <= k.taken
    BY <1>11 DEF S, d, t
  <2> HIDE DEF E, z
  <2>2. Says(Insert(k.fields, k.buf.data, E), q, z)
    BY <1>11, <2>1, InsertSays
  <2> QED
    BY <2>2 DEF f, d
<1>17. Passed(q, z)
  BY <1>14, <1>15 DEF Passed
<1> HIDE DEF z, E
<1>18. HeadAt(rest, q, z)
  <2>1. t - z < Capacity
    BY <1>4, <1>8, <1>11
  <2> QED
    BY <1>2, <1>12, <1>16, <1>17, <2>1 DEF HeadAt
<1>19. CASE stops = {}
  <2>1. \A i \in LineEnds(q) : i < z \/ t <= i
    <3>1. ASSUME NEW i \in LineEnds(q), ~(t <= i) PROVE i < z
      <4>1. CASE i < p
        BY <1>4, <1>11, <4>1
      <4>2. CASE ~(i < p)
        <5>1. i - p \in S /\ p + (i - p) = i
          BY <1>4, <3>1, <4>2
        <5>2. i - p \in E
          BY <1>19, <5>1 DEF E
        <5> QED
          BY <1>11, <5>1, <5>2
      <4> QED
        BY <4>1, <4>2
    <3> QED
      BY <3>1
  <2>2. FillCapacity(rest.buf) = Capacity - (t - z) - 1
    <3>1. Len(rest.buf.data) = t - z
      <4>1. rest.buf.data = Window(Sent(q), z, t)
        BY <1>2, <1>12 DEF Holds
      <4> QED
        BY <1>4, <1>8, <1>11, <4>1, Middle DEF Window
    <3>2. rest.buf.capacity = Capacity
      BY <1>12 DEF Holds
    <3> QED
      BY <3>1, <3>2 DEF FillCapacity
  <2>3. CASE FillCapacity(rest.buf) <= 0
    <3>1. t - z + 1 >= Capacity
      BY <1>4, <1>8, <1>11, <2>2, <2>3
    <3>2. Judgement(q)[1] = "431"
      BY <1>4, <1>8, <1>11, <1>17, <2>1, <3>1, JudgedFull
    <3>3. r = Fail(rest, "431")
      BY <1>1, <1>19, <2>3
    <3>4. Decided(r, q, z) /\ r.state = "REQ_SETUP" /\ r.taken = rest.taken
      BY <1>12, <3>2, <3>3, FailDecided
    <3> QED
      BY <1>2, <1>11, <3>4 DEF r, t
  <2>4. CASE ~(FillCapacity(rest.buf) <= 0)
    <3>1. r = rest
      BY <1>1, <1>19, <2>4
    <3>2. t - z + 1 < Capacity
      BY <1>4, <1>8, <1>11, <2>2, <2>4
    <3>3. Waits(r, q, z)
      BY <1>2, <1>18, <2>1, <3>1, <3>2 DEF Waits
    <3> QED
      BY <1>2, <1>11, <3>1, <3>3 DEF r, t
  <2> QED
    BY <2>3, <2>4
<1>20. CASE stops # {}
  <2> DEFINE e == p + stop
             line == LineAt(q, e)
  <2>1. stop \in S /\ stop \in stops /\ \A y \in stops : stop <= y
    BY <1>7, <1>9, <1>20
  <2>2. /\ e \in LineEnds(q) /\ e \in Nat /\ p < e /\ e < t /\ Decides(q, e)
        /\ LineTo(d, stop) = line /\ ~TooLong(q, e) /\ IsField(q, e)
    BY <1>5, <1>6, <2>1
  <2>3. \A i \in LineEnds(q) : i < z \/ e <= i
    <3>1. ASSUME NEW i \in LineEnds(q), ~(e <= i) PROVE i < z
      <4>1. CASE i < p
        BY <1>4, <1>11, <4>1
      <4>2. CASE ~(i < p)
        <5>1. i - p \in S /\ p + (i - p) = i /\ i - p < stop
          BY <1>4, <1>5, <2>1, <2>2, <3>1, <4>2
        <5>2. i - p \in E
          BY <5>1 DEF E
        <5> QED
          BY <1>11, <5>1, <5>2
      <4> QED
        BY <4>1, <4>2
    <3> QED
      BY <3>1
  <2>4. z < e
    <3>1. CASE E = {}
      BY <2>2, <3>1 DEF z
    <3>2. CASE E # {}
      <4> DEFINE m == Max(E)
      <4>1. m \in S /\ m < stop /\ z = p + m + 1
        BY <1>10, <1>20, <3>2 DEF E, z
      <4>2. m + 1 # stop
        <5>1. d \in Seq(STRING)
          <6>1. d = Window(Sent(q), p, t)
            BY <1>8 DEF Holds, d, t
          <6> QED
            BY <1>4, <1>8, <6>1, Middle DEF Window
        <5> QED
          BY <2>1, <4>1, <5>1, EndsAre DEF S
      <4> HIDE DEF m
      <4> QED
        BY <1>5, <2>1, <4>1, <4>2
    <3> QED
      BY <3>1, <3>2
  <2> HIDE DEF e
  <2>5. \A i \in LineEnds(q) : i < e => ~Decides(q, i)
    <3>1. ASSUME NEW i \in LineEnds(q), i < e PROVE ~Decides(q, i)
      <4>1. i \in Nat
        BY <1>4
      <4>2. i < z
        BY <2>2, <2>3, <3>1, <4>1
      <4> QED
        BY <1>14, <4>2
    <3> QED
      BY <3>1
  <2>6. Last(q) = e
    BY <2>2, <2>5, LastIs
  <2>7. CASE line # <<>>
    <3>1. Judgement(q) = <<"400", 0>>
      BY <2>2, <2>6, <2>7, Zenon DEF Judgement
    <3>2. r = Fail(rest, "400")
      BY <1>1, <1>20, <2>2, <2>7
    <3>3. Decided(r, q, z) /\ r.state = "REQ_SETUP" /\ r.taken = rest.taken
      BY <1>12, <3>1, <3>2, FailDecided
    <3> QED
      BY <1>2, <1>11, <3>3 DEF r, t
  <2>8. CASE line = <<>>
    <3>1. Judgement(q) = <<FieldsSay(q, e), e + 1>>
      BY <2>2, <2>6, <2>8, Zenon DEF Judgement
    <3>2. e = z + 1
      <4>1. LineTo(Sent(q), e) = SubSeq(Sent(q), z + 1, e - 1)
        BY <1>8, <1>11, <1>15, <2>2, <2>3, <2>4, LineIs DEF LineEnds
      <4>2. Len(SubSeq(Sent(q), z + 1, e - 1)) = e - 1 - z
        <5>1. e - 1 \in Nat /\ z <= e - 1 /\ e - 1 <= Len(Sent(q))
          BY <1>4, <1>8, <1>11, <2>2, <2>4
        <5> QED
          BY <1>8, <1>11, <5>1, Middle
      <4>3. LineTo(Sent(q), e) = <<>>
        BY <2>8 DEF LineAt
      <4>4. e - 1 - z = 0
        <5> DEFINE w == SubSeq(Sent(q), z + 1, e - 1)
        <5>1. w = <<>>
          BY <4>1, <4>3
        <5> HIDE DEF w
        <5>2. Len(w) = 0
          BY <5>1
        <5> QED
          BY <4>2, <5>2 DEF w
      <4> QED
        BY <1>11, <2>2, <4>4
    <3>3. r = parse_req_headers(g, q)
      BY <1>1, <1>20, <2>2, <2>8
    <3>4. Holds(g, q, z + 2)
      <4>1. z + 2 <= rest.taken
        <5>1. rest.taken = t
          BY <1>2
        <5> QED
          BY <1>4, <1>11, <2>2, <3>2, <5>1
      <4> QED
        BY <1>2, <1>3, <1>12, <4>1, HoldsErase
    <3>5. e + 1 = z + 2 /\ e + 1 \in Nat /\ e > z
      BY <1>11, <2>2, <2>4, <3>2
    <3>6. Holds(g, q, e + 1)
      BY <3>4, <3>5
    <3>7. Decided(r, q, e + 1) /\ r.state = "REQ_SETUP" /\ r.taken = g.taken
      BY <1>3, <1>11, <1>16, <2>2, <2>3, <3>1, <3>3, <3>5, <3>6, FieldsTaken
    <3> QED
      BY <1>3, <3>5, <3>7 DEF r, t
  <2> QED
    BY <2>7, <2>8
<1> QED
  BY <1>19, <1>20

-----------------------------------------------------------------------------
(* What is waited for                                                         *)

\* No head is refused with 413.
LEMMA NotTooLarge ==
  ASSUME NEW q \in Requests
  PROVE  Judgement(q)[1] # "413"
<1> DEFINE e == Last(q)
           D == {i \in LineEnds(q) : Decides(q, i)}
           line == LineAt(q, e)
           x == CHOOSE f \in Flaws(line) : TRUE
<1>1. CASE \A i \in LineEnds(q) : ~Decides(q, i)
  <2>1. Judgement(q)[1] \in {"none", "414", "431"}
    BY <1>1 DEF Judgement
  <2> QED
    BY <2>1
<1>2. CASE ~\A i \in LineEnds(q) : ~Decides(q, i)
  <2>1. D # {} /\ D \subseteq Nat
    <3>1. LineEnds(q) \subseteq Nat
      <4>1. Sent(q) \in Seq(STRING)
        BY SentIs
      <4> QED
        BY <4>1, EndsAre DEF LineEnds
    <3> QED
      BY <1>2, <3>1
  <2>2. e \in D
    BY <2>1, FirstExists, Zenon DEF Last
  <2> HIDE DEF e
  <2>3. FieldsSay(q, e) \in {"400", "411", "ok"}
    BY Zenon DEF FieldsSay
  <2>4. Judgement(q)[1] \in {"431", "414", "400", "411", "ok"} \/ (~TooLong(q, e) /\ ~IsField(q, e) /\ Judgement(q)[1] = x)
    <3> HIDE DEF x, D
    <3>1. Judgement(q) =
             IF TooLong(q, e) THEN <<IF IsField(q, e) THEN "431" ELSE "414", 0>>
             ELSE IF ~IsField(q, e) THEN <<x, 0>>
             ELSE IF line # <<>> THEN <<"400", 0>>
             ELSE <<FieldsSay(q, e), e + 1>>
      BY <1>2, Zenon DEF Judgement, e, x
    <3> QED
      BY <2>3, <3>1
  <2>5. (~TooLong(q, e) /\ ~IsField(q, e)) => x \in Flaws(line)
    <3>1. (~TooLong(q, e) /\ ~IsField(q, e)) => Flaws(line) # {}
      BY <2>2, Zenon DEF Decides
    <3> HIDE DEF line
    <3> QED
      BY <3>1
  <2>6. Flaws(line) \subseteq {"400", "501", "505"}
    <3> HIDE DEF line
    <3> QED
      BY DEF Flaws
  <2> HIDE DEF x, line
  <2>7. (~TooLong(q, e) /\ ~IsField(q, e)) => x \in {"400", "501", "505"}
    BY <2>5, <2>6
  <2> QED
    BY <2>4, <2>7
<1> QED
  BY <1>1, <1>2

\* What is on record of a head is what all of it says.
Recorded(k, q) ==
    k.verdict # "none" =>
        k.verdict = Judgement(q)[1] /\ (k.verdict = "ok" => k.start = Judgement(q)[2])

\* A buffer that is read into, or passed on, has been emptied or has bytes left.
Loaded(b) == b.data = <<>> \/ b.writepos < Len(b.data)

\* The inductive invariant of a connection.
Awaits(k, q) ==
    /\ Recorded(k, q)
    /\ k.state = "REQ_LINE" => Waits(k, q, 0)
    /\ k.state = "REQ_HEADERS" => \E p \in Nat \ {0} : Waits(k, q, p)
    /\ k.state \in {"REQ_BODY", "CGI_TRANSMIT_BODY"} => k.verdict = "ok" /\ k.written = Len(k.given)
    /\ k.state = "REQ_BODY" => k.buf.data = <<>> /\ k.written < q.length
    /\ k.state = "DISCARD_BODY" =>
          k.verdict = "ok" /\ k.written = k.taken - k.start /\ k.written < q.length
    /\ k.state \in {"CGI_TRANSMIT_BODY", "CGI_HEADERS"} => Loaded(k.buf)
    /\ k.state = "CGI_BODY" => k.buf.data = <<>>

\* Nothing is waited for any more.
LEMMA RestAwaits ==
  ASSUME NEW q, NEW k, Recorded(k, q), NEW r, Kept(r, k), r.state \in {"RESPONSE", "CLOSED"}
  PROVE  Awaits(r, q)
  BY DEF Awaits, Recorded, Kept

LEMMA Responding ==
  ASSUME NEW k, DOMAIN k = Fields, NEW q, NEW files, NEW f
  PROVE  /\ AnswerFile(k, f, files).state = "RESPONSE"
         /\ AnswerPage(k, files).state = "RESPONSE"
         /\ AnswerUpload(k, files).state = "RESPONSE"
         /\ AnswerListing(k, q, files).state = "RESPONSE"
         /\ BadGateway(k, files).state = "RESPONSE"
         /\ finalize_cgi(k, files).state = "RESPONSE"
<1>1. ASSUME NEW n PROVE DOMAIN Headed(k, n) = Fields
  BY DEF Headed, Fields
<1>2. ASSUME NEW h, DOMAIN h = Fields PROVE Respond(h, files).state = "RESPONSE"
  BY <1>2 DEF Respond, Fields
<1>3. ASSUME NEW h, DOMAIN h = Fields, NEW t PROVE DOMAIN [h EXCEPT !.stream = t] = Fields
  BY <1>3 DEF Fields
<1>4. ASSUME NEW h, DOMAIN h = Fields, NEW t PROVE DOMAIN [h EXCEPT !.body = t] = Fields
  BY <1>4 DEF Fields
<1>5. ASSUME NEW h, DOMAIN h = Fields, NEW t, NEW u PROVE DOMAIN [h EXCEPT !.temp = t, !.stream = u] = Fields
  BY <1>5 DEF Fields
<1>6. AnswerFile(k, f, files).state = "RESPONSE"
  <2>1. InternalError(k).state = "RESPONSE"
    BY DEF InternalError, Fields
  <2> QED
    BY <1>1, <1>2, <1>3, <2>1, Zenon DEF AnswerFile
<1>7. AnswerPage(k, files).state = "RESPONSE"
  BY <1>1, <1>2, <1>4, Zenon DEF AnswerPage
<1>8. AnswerUpload(k, files).state = "RESPONSE"
  BY <1>1, <1>2, Zenon DEF AnswerUpload
<1>9. AnswerListing(k, q, files).state = "RESPONSE"
  BY <1>1, <1>2, <1>5, Zenon DEF AnswerListing
<1>10. BadGateway(k, files).state = "RESPONSE"
  <2>1. ASSUME NEW t, NEW u, NEW b PROVE DOMAIN [k EXCEPT !.status = t, !.headers = u, !.buf = b] = Fields
    BY DEF Fields
  <2> QED
    BY <1>2, <2>1, Zenon DEF BadGateway
<1>11. finalize_cgi(k, files).state = "RESPONSE"
  <2>1. ASSUME NEW t, NEW u, NEW b PROVE DOMAIN [k EXCEPT !.stream = t, !.headers = u, !.buf = b] = Fields
    BY DEF Fields
  <2> QED
    BY <1>2, <2>1, Zenon DEF finalize_cgi
<1> QED
  BY <1>6, <1>7, <1>8, <1>9, <1>10, <1>11

\* A script is listened to.
LEMMA CollectAwaits ==
  ASSUME NEW q, NEW k, DOMAIN k = Fields, Recorded(k, q), Loaded(k.buf)
  PROVE  Awaits(Collect(k), q)
<1> DEFINE r == Collect(k)
<1>1. Kept(r, k) /\ r.state = "CGI_HEADERS" /\ r.buf = k.buf
  BY DEF Collect, Kept, Fields
<1> HIDE DEF r
<1>2. Awaits(r, q)
  BY <1>1 DEF Awaits, Recorded, Kept
<1> QED
  BY <1>2 DEF r

LEMMA SetupCgiAwaits ==
  ASSUME NEW q, NEW k, DOMAIN k = Fields, Recorded(k, q), Loaded(k.buf), NEW length,
         length > 0 => k.verdict = "ok" /\ k.given = <<>>
  PROVE  Awaits(setup_cgi(k, length), q)
<1>1. CASE length > 0
  <2> DEFINE r == [k EXCEPT !.state = "CGI_TRANSMIT_BODY", !.written = 0]
  <2>1. Kept(r, k) /\ r.state = "CGI_TRANSMIT_BODY" /\ r.buf = k.buf /\ r.written = 0
    BY DEF Kept, Fields
  <2>2. r = setup_cgi(k, length)
    BY <1>1 DEF setup_cgi
  <2> HIDE DEF r
  <2>3. r.written = Len(r.given)
    <3>1. r.given = <<>>
      BY <1>1, <2>1 DEF Kept
    <3> QED
      BY <2>1, <3>1
  <2>4. Awaits(r, q)
    BY <1>1, <2>1, <2>3 DEF Awaits, Recorded, Kept
  <2> QED
    BY <2>2, <2>4
<1>2. CASE ~(length > 0)
  <2> DEFINE h == [k EXCEPT !.written = 0]
  <2>1. Kept(h, k) /\ h.buf = k.buf
    BY DEF Kept, Fields
  <2>2. setup_cgi(k, length) = Collect(h)
    BY <1>2 DEF setup_cgi
  <2> HIDE DEF h
  <2>3. Recorded(h, q) /\ DOMAIN h = Fields /\ Loaded(h.buf)
    BY <2>1 DEF Recorded, Kept
  <2> QED
    BY <2>2, <2>3, CollectAwaits
<1> QED
  BY <1>1, <1>2

\* An error is answered, or the rest of a body that is too large is read.
LEMMA AnswerErrorAwaits ==
  ASSUME NEW q \in Requests, NEW k, DOMAIN k = Fields, Recorded(k, q), Loaded(k.buf), NEW files,
         k.status = "413" =>
            k.verdict = "ok" /\ FeedCapacity(k.buf) = k.taken - k.start /\ FeedCapacity(k.buf) \in Nat
  PROVE  Awaits(AnswerError(k, q, files), q)
<1>1. CASE q.page = "script"
  <2>1. AnswerError(k, q, files) = setup_cgi(k, 0)
    BY <1>1, Zenon DEF AnswerError
  <2> QED
    BY <2>1, SetupCgiAwaits
<1>2. CASE q.page # "script" /\ k.status # "413"
  <2>1. AnswerError(k, q, files) = AnswerPage(k, files)
    BY <1>2, Zenon DEF AnswerError
  <2>2. Kept(AnswerPage(k, files), k) /\ AnswerPage(k, files).state = "RESPONSE"
    BY AnswerFacts, Responding, Zenon DEF Declines
  <2> QED
    BY <2>1, <2>2, RestAwaits, Zenon
<1>3. CASE q.page # "script" /\ k.status = "413"
  <2> DEFINE h == [k EXCEPT !.written = FeedCapacity(k.buf), !.buf = Clear(@)]
             x == [h EXCEPT !.state = "DISCARD_BODY"]
  <2>1. Kept(h, k) /\ h.written = FeedCapacity(k.buf)
    BY DEF Kept, Fields
  <2>2. AnswerError(k, q, files) = IF h.written >= q.length THEN AnswerPage(h, files) ELSE x
    BY <1>3, Zenon DEF AnswerError
  <2> HIDE DEF h
  <2>3. Kept(x, k) /\ x.state = "DISCARD_BODY" /\ x.written = h.written
    BY <2>1 DEF Kept, Fields
  <2> HIDE DEF x
  <2>4. Recorded(h, q) /\ DOMAIN h = Fields
    BY <2>1 DEF Recorded, Kept
  <2>5. Awaits(AnswerPage(h, files), q)
    <3>1. Kept(AnswerPage(h, files), h) /\ AnswerPage(h, files).state = "RESPONSE"
      BY <2>4, AnswerFacts, Responding, Zenon DEF Declines
    <3> QED
      BY <2>4, <3>1, RestAwaits, Zenon
  <2>6. ASSUME ~(h.written >= q.length) PROVE Awaits(x, q)
    <3>1. q.length \in Nat
      BY DEF Requests
    <3>2. x.written < q.length
      BY <1>3, <2>1, <2>3, <2>6, <3>1
    <3>3. x.verdict = "ok" /\ x.written = x.taken - x.start
      BY <1>3, <2>1, <2>3 DEF Kept
    <3> QED
      BY <2>3, <3>2, <3>3 DEF Awaits, Recorded, Kept
  <2> QED
    BY <2>2, <2>5, <2>6
<1> QED
  BY <1>1, <1>2, <1>3

\* A body is stored: it is acknowledged, or more of it is waited for.
LEMMA StoreBodyAwaits ==
  ASSUME NEW q \in Requests, NEW k, DOMAIN k = Fields, Recorded(k, q), NEW files,
         k.verdict = "ok", Orderly(k.buf), k.given \in Seq(STRING), k.written = Len(k.given)
  PROVE  Awaits(StoreBody(k, q, files), q)
<1> DEFINE h == Stored(k)
           x == [h EXCEPT !.state = "REQ_BODY"]
           u == Unfed(k.buf)
<1>1. /\ DOMAIN h = Fields
      /\ h.taken = k.taken /\ h.start = k.start /\ h.verdict = k.verdict
      /\ h.given = k.given \o u
      /\ h.buf = Clear(k.buf) /\ h.written = k.written + FeedCapacity(k.buf)
  <2> HIDE DEF u
  <2>1. h = [k EXCEPT !.stream.pending = @ \o u, !.given = @ \o u,
                      !.written = @ + FeedCapacity(k.buf), !.buf = Clear(@)]
    BY DEF Stored, u
  <2> HIDE DEF h
  <2> QED
    BY <2>1 DEF Kept, Fields
<1>2. StoreBody(k, q, files) = IF h.written >= q.length THEN AnswerUpload(h, files) ELSE x
  BY Zenon DEF StoreBody, Acknowledged
<1>3. u \in Seq(STRING) /\ Len(u) = FeedCapacity(k.buf)
  BY UnfedIs
<1> HIDE DEF h, u
<1>4. h.written = Len(h.given) /\ h.written \in Nat
  <2>1. Len(k.given \o u) = Len(k.given) + Len(u)
    BY <1>3, Appended
  <2>2. Len(k.given) \in Nat /\ Len(u) \in Nat
    BY <1>3
  <2> QED
    BY <1>1, <1>3, <2>1, <2>2
<1>5. Recorded(h, q)
  BY <1>1 DEF Recorded
<1>6. Awaits(AnswerUpload(h, files), q)
  <2>1. Kept(AnswerUpload(h, files), h) /\ AnswerUpload(h, files).state = "RESPONSE"
    BY <1>1, AnswerFacts, Responding, Zenon DEF Declines
  <2> QED
    BY <1>5, <2>1, RestAwaits, Zenon
<1>7. ASSUME ~(h.written >= q.length) PROVE Awaits(x, q)
  <2>1. Kept(x, h) /\ x.state = "REQ_BODY" /\ x.written = h.written /\ x.buf = h.buf
    BY <1>1 DEF Kept, Fields
  <2> HIDE DEF x
  <2>2. q.length \in Nat
    BY DEF Requests
  <2>3. x.written < q.length
    BY <1>4, <1>7, <2>1, <2>2
  <2>4. x.buf.data = <<>>
    BY <1>1, <2>1, ClearIs DEF Orderly
  <2>5. x.verdict = "ok" /\ x.written = Len(x.given)
    BY <1>1, <1>4, <2>1 DEF Kept
  <2> QED
    BY <1>5, <2>1, <2>3, <2>4, <2>5 DEF Awaits, Recorded, Kept
<1> QED
  BY <1>2, <1>6, <1>7

-----------------------------------------------------------------------------
(* The handlers                                                               *)

\* A head that was judged is answered, its body stored, passed on or discarded.
LEMMA SetupAwaits ==
  ASSUME NEW q \in Requests, NEW k, Reads(k, q), k.start = k.taken - Len(k.buf.data),
         Recorded(k, q), k.status = "none" => k.verdict = "ok", k.status # "413", NEW files
  PROVE  Awaits(handle_setup(k, q, files), q)
<1> DEFINE r == handle_setup(k, q, files)
           ok == [k EXCEPT !.status = "200"]
           Goal == Awaits(r, q)
<1>1. /\ DOMAIN k = Fields /\ Orderly(k.buf) /\ k.buf.writepos = 0
      /\ k.taken \in Nat /\ k.given = <<>>
  <2>1. Lastly(k.buf, Sent(q), k.taken) /\ k.taken \in 0..Len(Sent(q)) /\ Sent(q) \in Seq(STRING)
    BY SentIs DEF Reads
  <2>2. Orderly(k.buf)
    BY <2>1, LastlyIs
  <2> QED
    BY <2>1, <2>2 DEF Reads, Lastly
<1>2. Loaded(k.buf)
  <2> DEFINE d == k.buf.data
  <2>1. d \in Seq(STRING)
    BY <1>1 DEF Orderly
  <2> HIDE DEF d
  <2>2. d = <<>> \/ 0 < Len(d)
    BY <2>1
  <2> QED
    BY <1>1, <2>2 DEF Loaded, d
<1>3. FeedCapacity(k.buf) = k.taken - k.start /\ FeedCapacity(k.buf) \in Nat
  <2> DEFINE m == Len(k.buf.data)
  <2>1. m \in Nat
    BY <1>1 DEF Orderly
  <2>2. FeedCapacity(k.buf) = m
    <3> HIDE DEF m
    <3> QED
      BY <1>1, <2>1 DEF FeedCapacity, m
  <2> HIDE DEF m
  <2> QED
    BY <1>1, <2>1, <2>2 DEF m
<1>4. Kept(ok, k) /\ ok.buf = k.buf
  BY <1>1 DEF Kept, Fields
<1>5. ASSUME NEW x, x = "413" => k.verdict = "ok"
      PROVE  Awaits(Refuse(k, x, q, files), q)
  <2> DEFINE h == [k EXCEPT !.status = x]
  <2>1. Kept(h, k) /\ h.buf = k.buf /\ h.status = x
    BY <1>1 DEF Kept, Fields
  <2>2. Refuse(k, x, q, files) = AnswerError(h, q, files)
    BY Zenon DEF Refuse
  <2> HIDE DEF h
  <2>3. /\ DOMAIN h = Fields /\ Recorded(h, q) /\ Loaded(h.buf)
        /\ h.status = "413" =>
              h.verdict = "ok" /\ FeedCapacity(h.buf) = h.taken - h.start /\ FeedCapacity(h.buf) \in Nat
    BY <1>2, <1>3, <1>5, <2>1 DEF Kept, Recorded
  <2> QED
    BY <2>2, <2>3, AnswerErrorAwaits
<1>6. ASSUME k.status # "none" PROVE Goal
  <2>1. r = AnswerError(k, q, files)
    BY <1>6, Zenon DEF handle_setup
  <2> HIDE DEF r
  <2> QED
    BY <1>1, <1>2, <2>1, AnswerErrorAwaits
<1>7. ASSUME k.status = "none", q.route = "large" PROVE Goal
  <2>1. r = Refuse(k, "413", q, files)
    BY <1>7 DEF handle_setup
  <2> HIDE DEF r
  <2> QED
    BY <1>5, <1>7, <2>1
<1>8. ASSUME k.status = "none", q.route = "upload" PROVE Goal
  <2>1. r = setup_post(k, q, files)
    BY <1>8 DEF handle_setup
  <2> DEFINE h == [k EXCEPT !.status = PostStatus(q.file, files), !.written = 0,
                            !.stream = Stream("out", q.file)]
  <2>2. Kept(h, k) /\ h.buf = k.buf /\ h.written = 0
    BY <1>1 DEF Kept, Fields
  <2>3. r = Refuse(k, "500", q, files) \/ r = StoreBody(h, q, files)
    BY <2>1, Zenon DEF setup_post
  <2> HIDE DEF h, r
  <2>4. /\ DOMAIN h = Fields /\ Recorded(h, q) /\ h.verdict = "ok" /\ Orderly(h.buf)
        /\ h.given = <<>>
    BY <1>1, <1>8, <2>2 DEF Kept, Recorded
  <2>5. h.given \in Seq(STRING) /\ h.written = Len(h.given)
    BY <2>2, <2>4
  <2>6. Awaits(StoreBody(h, q, files), q)
    BY <2>4, <2>5, StoreBodyAwaits
  <2>7. Awaits(Refuse(k, "500", q, files), q)
    BY <1>5
  <2> QED
    BY <2>3, <2>6, <2>7
<1>9. ASSUME k.status = "none", q.route = "script" PROVE Goal
  <2>1. PICK n : r = setup_cgi(ok, n)
    BY <1>9 DEF handle_setup
  <2> HIDE DEF ok, r
  <2>2. DOMAIN ok = Fields /\ Recorded(ok, q) /\ Loaded(ok.buf) /\ ok.verdict = "ok" /\ ok.given = <<>>
    BY <1>1, <1>2, <1>4, <1>9 DEF Kept, Recorded
  <2> QED
    BY <2>1, <2>2, SetupCgiAwaits
<1>10. ASSUME k.status = "none", q.route \in {"listing", "file"} PROVE Goal
  <2>1. \/ r = AnswerListing(ok, q, files) \/ r = AnswerFile(ok, q.file, files)
        \/ r = Refuse(k, "404", q, files)
    BY <1>10 DEF handle_setup
  <2> HIDE DEF ok, r
  <2>2. DOMAIN ok = Fields /\ Recorded(ok, q)
    BY <1>4 DEF Kept, Recorded
  <2>3. /\ Kept(AnswerListing(ok, q, files), ok) /\ AnswerListing(ok, q, files).state = "RESPONSE"
        /\ Kept(AnswerFile(ok, q.file, files), ok) /\ AnswerFile(ok, q.file, files).state = "RESPONSE"
    BY <2>2, AnswerFacts, Responding, Zenon DEF Declines
  <2>4. Awaits(AnswerListing(ok, q, files), q) /\ Awaits(AnswerFile(ok, q.file, files), q)
    BY <2>2, <2>3, RestAwaits, Zenon
  <2>5. Awaits(Refuse(k, "404", q, files), q)
    BY <1>5
  <2> QED
    BY <2>1, <2>4, <2>5
<1>11. q.route \in Routes
  BY DEF Requests
<1> HIDE DEF r, ok
<1> QED
  BY <1>6, <1>7, <1>8, <1>9, <1>10, <1>11 DEF Routes, r

\* What is read comes behind what is in the buffer.
LEMMA FillHolds ==
  ASSUME NEW q \in Requests, NEW k, NEW p, HeadAt(k, q, p), NEW n \in Nat,
         k.taken + n <= Len(Sent(q)),
         n <= FillCapacity(k.buf)
  PROVE  LET r == FillRequest([k EXCEPT !.buf = IF FeedCapacity(@) = 0 THEN Clear(@) ELSE @], q, n)
         IN HeadAt(r, q, p) /\ r.state = k.state
<1> DEFINE s == Sent(q)
           t == k.taken
           x == SubSeq(s, t + 1, t + n)
           b == IF FeedCapacity(k.buf) = 0 THEN Clear(k.buf) ELSE k.buf
           cleared == [k EXCEPT !.buf = IF FeedCapacity(@) = 0 THEN Clear(@) ELSE @]
           r == FillRequest(cleared, q, n)
<1>1. /\ s \in Seq(STRING) /\ t \in Nat /\ t <= Len(s) /\ p \in Nat /\ p <= t /\ Len(s) \in Nat
      /\ k.buf.data = Window(s, p, t) /\ k.buf.writepos = 0 /\ k.buf.capacity = Capacity
      /\ DOMAIN k = Fields /\ DOMAIN k.buf = BufferFields /\ Capacity \in Nat
  BY SentIs, TransferAssumption DEF HeadAt, Holds
<1>2. Len(k.buf.data) = t - p /\ k.buf.data \in Seq(STRING)
  BY <1>1, Middle DEF Window
<1>3. /\ DOMAIN b = BufferFields /\ b.data = k.buf.data /\ b.writepos = 0 /\ b.capacity = Capacity
  <2>1. CASE FeedCapacity(k.buf) = 0
    <3> DEFINE d == k.buf.data
    <3>1. Len(d) = 0 /\ d \in Seq(STRING)
      BY <1>1, <1>2, <2>1 DEF FeedCapacity
    <3> HIDE DEF d
    <3>2. d = <<>>
      BY <3>1
    <3>3. b = Clear(k.buf)
      BY <2>1
    <3> HIDE DEF b
    <3> QED
      BY <1>1, <3>2, <3>3 DEF Clear, BufferFields, d
  <2>2. CASE FeedCapacity(k.buf) # 0
    BY <1>1, <2>2
  <2> QED
    BY <2>1, <2>2
<1>4. /\ DOMAIN cleared = Fields /\ cleared.buf = b /\ cleared.taken = t /\ cleared.state = k.state
      /\ cleared.status = k.status /\ cleared.fields = k.fields
  <2> HIDE DEF t
  <2> QED
    BY <1>1 DEF Fields, t
<1> HIDE DEF cleared, b
<1>5. /\ DOMAIN r = Fields /\ r.buf = Fill(b, x) /\ r.taken = t + n /\ r.state = k.state
      /\ r.status = k.status /\ r.fields = k.fields
  <2>1. r = [cleared EXCEPT !.buf = Fill(@, x), !.taken = @ + n]
    BY <1>4 DEF FillRequest
  <2> HIDE DEF r, x, t
  <2> QED
    BY <1>4, <2>1 DEF Fields
<1> HIDE DEF r
<1>6. Window(s, p, t) \o x = Window(s, p, t + n)
  <2> HIDE DEF s, t
  <2>1. t + n \in Nat /\ t <= t + n /\ t + n <= Len(s)
    BY <1>1 DEF s, t
  <2> QED
    BY <1>1, <2>1, Adjacent DEF Window
<1>7. /\ DOMAIN r.buf = BufferFields /\ r.buf.data = Window(s, p, t + n) /\ r.buf.writepos = 0
      /\ r.buf.capacity = Capacity
  <2> HIDE DEF x, s, t
  <2> DEFINE y == Fill(b, x)
  <2>1. DOMAIN y = BufferFields /\ y.data = b.data \o x /\ y.writepos = 0 /\ y.capacity = Capacity
    BY <1>3 DEF Fill, BufferFields
  <2> HIDE DEF y
  <2>2. r.buf = y
    BY <1>5 DEF y
  <2> QED
    BY <1>1, <1>3, <1>6, <2>1, <2>2
<1>8. t + n \in Nat /\ t + n <= Len(s) /\ p \in 0..t + n
  BY <1>1
<1>9. Holds(r, q, p)
  BY <1>5, <1>7, <1>8 DEF Holds
<1>10. r.taken - p < Capacity
  <2>1. FillCapacity(k.buf) = Capacity - (t - p) - 1
    BY <1>1, <1>2 DEF FillCapacity
  <2> HIDE DEF t
  <2> QED
    BY <1>1, <1>5, <2>1
<1>11. HeadAt(r, q, p)
  BY <1>5, <1>9, <1>10 DEF HeadAt
<1> QED
  BY <1>5, <1>11 DEF r, cleared

\* Once it is judged, a head is on record.
LEMMA JudgedSetup ==
  ASSUME NEW q \in Requests, NEW k, Reads(k, q), k.state = "REQ_SETUP", NEW p,
         Decided(k, q, p), NEW files
  PROVE  Awaits(handle_setup(Judged(k), q, files), q)
<1> DEFINE j == Judged(k)
           v == IF k.status = "none" THEN "ok" ELSE k.status
<1>1. j = [k EXCEPT !.verdict = v, !.start = k.taken - Len(k.buf.data)]
  BY Zenon DEF Judged
<1> HIDE DEF v
<1>2. /\ DOMAIN j = Fields /\ j.taken = k.taken /\ j.given = k.given /\ j.buf = k.buf
      /\ j.start = k.taken - Len(k.buf.data) /\ j.verdict = v /\ j.status = k.status
  <2> HIDE DEF j
  <2> QED
    BY <1>1 DEF Reads, Fields
<1> HIDE DEF j
<1>3. Lastly(k.buf, Sent(q), k.taken) /\ k.taken \in 0..Len(Sent(q)) /\ Sent(q) \in Seq(STRING)
      /\ k.given = <<>>
  BY SentIs DEF Reads
<1>4. j.start \in Nat
  <2>1. k.taken - Len(k.buf.data) \in 0..k.taken
    BY <1>3, LastlyIs
  <2> QED
    BY <1>2, <2>1
<1>5. Reads(j, q)
  BY <1>2, <1>3, <1>4 DEF Reads
<1>6. v = Judgement(q)[1] /\ (k.status = "none" => p = Judgement(q)[2])
  BY DEF Decided, Verdict, v
<1>7. p = k.taken - Len(k.buf.data)
  <2>1. k.buf.data = Window(Sent(q), p, k.taken) /\ p \in Nat /\ k.taken \in Nat /\ p <= k.taken
        /\ k.taken <= Len(Sent(q))
    BY DEF Decided, Holds
  <2>2. Len(k.buf.data) = k.taken - p
    BY <1>3, <2>1, Middle DEF Window
  <2> QED
    BY <2>1, <2>2
<1>8. v = "ok" => k.status = "none" \/ k.status = "ok"
  BY DEF v
<1>9. k.status # "ok" /\ k.status # "413"
  <2>1. k.status # "413"
    BY <1>6, NotTooLarge DEF v
  <2> QED
    BY <2>1 DEF Decided
<1>10. Recorded(j, q)
  BY <1>2, <1>6, <1>7, <1>8, <1>9 DEF Recorded
<1>11. j.status = "none" => j.verdict = "ok"
  BY <1>2 DEF v
<1>12. j.start = j.taken - Len(j.buf.data) /\ j.status # "413"
  BY <1>2, <1>9
<1>13. Awaits(handle_setup(j, q, files), q)
  BY <1>5, <1>10, <1>11, <1>12, SetupAwaits
<1> QED
  BY <1>13 DEF j

\* The parser leaves the record as it is.
LEMMA ParserKeeps ==
  ASSUME NEW k, DOMAIN k = Fields, NEW q
  PROVE  /\ handle_req_line(k).verdict = k.verdict /\ handle_req_line(k).start = k.start
         /\ handle_req_headers(k, q).verdict = k.verdict /\ handle_req_headers(k, q).start = k.start
<1> DEFINE Same(r) == DOMAIN r = Fields /\ r.verdict = k.verdict /\ r.start = k.start
<1>1. ASSUME NEW h, Same(h), NEW x PROVE Same(Fail(h, x))
  BY <1>1 DEF Fail, Fields
<1>2. ASSUME NEW b PROVE Same([k EXCEPT !.state = "REQ_HEADERS", !.buf = b])
  BY DEF Fields
<1>3. ASSUME NEW f, NEW b PROVE Same([k EXCEPT !.fields = f, !.buf = b])
  BY DEF Fields
<1>4. ASSUME NEW h, Same(h), NEW b PROVE Same([h EXCEPT !.buf = b, !.written = 0])
  BY <1>4 DEF Fields
<1>5. Same(k)
  OBVIOUS
<1> HIDE DEF Same
<1>6. Same(handle_req_line(k))
  BY <1>1, <1>2, <1>5, Zenon DEF handle_req_line
<1>7. ASSUME NEW h, Same(h) PROVE Same(parse_req_headers(h, q))
  BY <1>1, <1>7, Zenon DEF parse_req_headers
<1>8. Same(handle_req_headers(k, q))
  BY <1>1, <1>3, <1>4, <1>7, Zenon DEF handle_req_headers
<1> QED
  BY <1>6, <1>8 DEF Same

LEMMA HeadAwaits ==
  ASSUME NEW q \in Requests, NEW k, InOrder(k, q), Awaits(k, q),
         k.state \in {"REQ_LINE", "REQ_HEADERS"},
         NEW n \in Nat, k.taken + n <= Len(Sent(q)), n <= FillCapacity(k.buf), NEW files
  PROVE  Awaits(handle_head(k, q, n, files), q)
<1> DEFINE cleared == [k EXCEPT !.buf = IF FeedCapacity(@) = 0 THEN Clear(@) ELSE @]
           filled == FillRequest(cleared, q, n)
           lined == IF k.state = "REQ_LINE" THEN handle_req_line(filled) ELSE filled
           headed == IF lined.state = "REQ_HEADERS" THEN handle_req_headers(lined, q) ELSE lined
           Same(r) == DOMAIN r = Fields /\ r.verdict = k.verdict /\ r.start = k.start
<1>1. PICK p \in Nat : HeadAt(k, q, p) /\ (k.state = "REQ_LINE" => p = 0) /\ (k.state = "REQ_HEADERS" => p # 0)
  <2>1. CASE k.state = "REQ_LINE"
    BY <2>1 DEF Awaits, Waits
  <2>2. CASE k.state = "REQ_HEADERS"
    BY <2>2 DEF Awaits, Waits
  <2> QED
    BY <2>1, <2>2
<1>2. Reads(k, q)
  BY DEF InOrder
<1>3. Reads(cleared, q) /\ cleared.taken = k.taken /\ Same(cleared)
  <2>1. /\ DOMAIN cleared = Fields /\ cleared.taken = k.taken /\ cleared.start = k.start
        /\ cleared.given = k.given /\ cleared.verdict = k.verdict
        /\ cleared.buf \in {k.buf, Clear(k.buf)}
    BY <1>2 DEF Reads, Fields
  <2>2. Lastly(Clear(k.buf), Sent(q), k.taken)
    <3>1. DOMAIN k.buf = BufferFields
      BY <1>2 DEF Reads, Lastly
    <3> QED
      BY <1>2, <3>1, LastlyClear, SentIs, Zenon DEF Reads
  <2> HIDE DEF cleared
  <2> QED
    BY <1>2, <2>1, <2>2 DEF Reads
<1>4. HeadAt(filled, q, p) /\ filled.state = k.state
  BY <1>1, FillHolds
<1> HIDE DEF cleared
<1>5. Reads(filled, q) /\ Same(filled)
  <2>1. DOMAIN cleared = Fields /\ cleared.taken \in 0..Len(Sent(q))
    BY <1>3 DEF Reads
  <2>2. Reads(filled, q)
    BY <1>3, <2>1, ReadMore, Zenon
  <2>3. Same(filled)
    BY <1>3 DEF FillRequest, Fields
  <2> QED
    BY <2>2, <2>3
<1> HIDE DEF filled
<1>6. /\ Reads(lined, q) /\ Same(lined)
      /\ \/ lined.state = "REQ_LINE" /\ Waits(lined, q, 0)
         \/ lined.state = "REQ_HEADERS" /\ \E z \in Nat \ {0} : HeadAt(lined, q, z)
         \/ lined.state = "REQ_SETUP" /\ Decided(lined, q, 0)
  <2>1. CASE k.state = "REQ_LINE"
    <3> DEFINE r == handle_req_line(filled)
    <3>1. HeadAt(filled, q, 0) /\ filled.state = "REQ_LINE"
      BY <1>1, <1>4, <2>1
    <3>2. \/ r.state = "REQ_LINE" /\ Waits(r, q, 0)
          \/ r.state = "REQ_HEADERS" /\ \E z \in Nat \ {0} : HeadAt(r, q, z)
          \/ r.state = "REQ_SETUP" /\ Decided(r, q, 0)
      BY <3>1, LineRead
    <3>3. Reads(r, q)
      BY <1>5, LineReads, Zenon
    <3>4. r.verdict = filled.verdict /\ r.start = filled.start /\ DOMAIN r = Fields
      BY <1>5, <3>3, ParserKeeps, Zenon DEF Reads
    <3>5. lined = r
      BY <2>1
    <3> HIDE DEF r, lined
    <3> QED
      BY <1>5, <3>2, <3>3, <3>4, <3>5
  <2>2. CASE k.state = "REQ_HEADERS"
    <3>1. lined = filled
      BY <2>2
    <3> HIDE DEF lined
    <3> QED
      BY <1>1, <1>4, <1>5, <2>2, <3>1
  <2> QED
    BY <2>1, <2>2
<1> HIDE DEF lined
<1>7. /\ Reads(headed, q) /\ Same(headed)
      /\ \/ headed.state = "REQ_LINE" /\ Waits(headed, q, 0)
         \/ headed.state = "REQ_HEADERS" /\ \E z \in Nat \ {0} : Waits(headed, q, z)
         \/ headed.state = "REQ_SETUP" /\ \E z : Decided(headed, q, z)
  <2>1. CASE lined.state = "REQ_HEADERS"
    <3> DEFINE r == handle_req_headers(lined, q)
    <3>1. PICK z \in Nat \ {0} : HeadAt(lined, q, z)
      BY <1>6, <2>1
    <3>2. \/ r.state = "REQ_HEADERS" /\ \E y \in Nat \ {0} : Waits(r, q, y)
          \/ r.state = "REQ_SETUP" /\ \E y \in Nat : Decided(r, q, y)
      BY <2>1, <3>1, FieldsRead
    <3>3. Reads(r, q)
      BY <1>6, HeadersRead, Zenon
    <3>4. r.verdict = lined.verdict /\ r.start = lined.start /\ DOMAIN r = Fields
      BY <1>6, <3>3, ParserKeeps, Zenon DEF Reads
    <3>5. headed = r
      BY <2>1
    <3> HIDE DEF r, headed
    <3> QED
      BY <1>6, <3>2, <3>3, <3>4, <3>5
  <2>2. CASE lined.state # "REQ_HEADERS"
    <3>1. headed = lined
      BY <2>2
    <3> HIDE DEF headed
    <3> QED
      BY <1>6, <2>2, <3>1
  <2> QED
    BY <2>1, <2>2
<1> HIDE DEF headed
<1>8. handle_head(k, q, n, files) =
         IF headed.state = "REQ_SETUP" THEN handle_setup(Judged(headed), q, files) ELSE headed
  BY Zenon DEF handle_head, headed, lined, filled, cleared
<1>9. CASE headed.state = "REQ_SETUP"
  <2>1. PICK z : Decided(headed, q, z)
    BY <1>7, <1>9
  <2> QED
    BY <1>7, <1>8, <1>9, <2>1, JudgedSetup
<1>10. CASE headed.state # "REQ_SETUP"
  <2>1. Recorded(headed, q)
    BY <1>7 DEF Awaits, Recorded
  <2>2. Awaits(headed, q)
    BY <1>7, <1>10, <2>1 DEF Awaits
  <2> QED
    BY <1>8, <1>10, <2>2
<1> QED
  BY <1>9, <1>10

LEMMA DiscardAwaits ==
  ASSUME NEW q \in Requests, NEW k, InOrder(k, q), Awaits(k, q), k.state = "DISCARD_BODY",
         NEW n \in Nat, NEW files
  PROVE  Awaits(handle_discard(k, q, n, files), q)
<1> DEFINE h == [k EXCEPT !.buf = Clear(@), !.taken = @ + n, !.written = @ + n]
<1>1. /\ DOMAIN h = Fields /\ h.taken = k.taken + n /\ h.start = k.start /\ h.verdict = k.verdict
      /\ h.written = k.written + n /\ h.state = "DISCARD_BODY"
  BY DEF InOrder, Fields
<1>2. handle_discard(k, q, n, files) = IF n = 0 \/ h.written >= q.length THEN AnswerPage(h, files) ELSE h
  BY Zenon DEF handle_discard
<1> HIDE DEF h
<1>3. Recorded(h, q)
  BY <1>1 DEF Awaits, Recorded
<1>4. Awaits(AnswerPage(h, files), q)
  <2>1. Kept(AnswerPage(h, files), h) /\ AnswerPage(h, files).state = "RESPONSE"
    BY <1>1, AnswerFacts, Responding, Zenon DEF Declines
  <2> QED
    BY <1>3, <2>1, RestAwaits, Zenon
<1>5. ASSUME ~(h.written >= q.length) PROVE Awaits(h, q)
  <2>1. k.verdict = "ok" /\ k.written = k.taken - k.start
    BY DEF Awaits
  <2>2. k.taken \in Nat /\ k.start \in Nat /\ q.length \in Nat
    <3>1. Len(Sent(q)) \in Nat
      BY SentIs
    <3> QED
      BY <3>1 DEF InOrder, Requests
  <2>3. h.written = h.taken - h.start /\ h.written < q.length
    BY <1>1, <1>5, <2>1, <2>2
  <2> QED
    BY <1>1, <1>3, <2>1, <2>3 DEF Awaits
<1> QED
  BY <1>2, <1>4, <1>5

LEMMA BodyAwaits ==
  ASSUME NEW q \in Requests, NEW k, InOrder(k, q), Awaits(k, q), k.state = "REQ_BODY",
         NEW n \in Nat, k.taken + n <= Len(Sent(q)), NEW files
  PROVE  /\ Awaits(handle_post(k, q, n, files), q)
         /\ Awaits(read_cgi_body(k, q, n), q)
<1> DEFINE h == FillRequest(k, q, n)
           x == SubSeq(Sent(q), k.taken + 1, k.taken + n)
           r == [h EXCEPT !.state = "CGI_TRANSMIT_BODY"]
<1>1. /\ DOMAIN k = Fields /\ k.taken \in 0..Len(Sent(q)) /\ k.start \in Nat
      /\ k.given \in Seq(STRING) /\ Passes(k, q) /\ Orderly(k.buf) /\ Sent(q) \in Seq(STRING)
  BY SentIs DEF InOrder, Passes
<1>2. /\ DOMAIN h = Fields /\ h.start = k.start /\ h.given = k.given /\ Passes(h, q)
  BY <1>1, ReadMore, Zenon
<1>3. Orderly(h.buf)
  BY <1>2 DEF Passes
<1>4. h.verdict = k.verdict /\ h.written = k.written /\ h.buf = Fill(k.buf, x)
  <2> HIDE DEF x
  <2>1. h = [k EXCEPT !.buf = Fill(@, x), !.taken = @ + n]
    BY DEF FillRequest, x
  <2> HIDE DEF h
  <2> QED
    BY <1>1, <2>1 DEF Fields
<1>5. handle_post(k, q, n, files) = StoreBody(h, q, files) /\ read_cgi_body(k, q, n) = r
  BY Zenon DEF handle_post, read_cgi_body
<1> HIDE DEF h
<1>6. h.verdict = "ok" /\ h.written = Len(h.given) /\ Recorded(h, q) /\ h.given \in Seq(STRING)
  BY <1>1, <1>2, <1>4 DEF Awaits, Recorded
<1>7. Awaits(StoreBody(h, q, files), q)
  BY <1>2, <1>3, <1>6, StoreBodyAwaits
<1>8. Loaded(h.buf)
  <2> DEFINE y == Fill(k.buf, x)
  <2>1. k.buf.data = <<>> /\ k.buf.writepos <= 0
    <3>1. k.buf.data = <<>>
      BY DEF Awaits
    <3>2. k.buf.writepos \in 0..Len(k.buf.data)
      BY <1>1 DEF Orderly
    <3> QED
      BY <3>1, <3>2
  <2>2. x \in Seq(STRING)
    <3>1. k.taken \in Nat /\ k.taken + n \in Nat /\ k.taken <= k.taken + n
      BY <1>1
    <3> QED
      BY <1>1, <3>1, Middle
  <2> HIDE DEF x
  <2>3. y.data = k.buf.data \o x /\ y.writepos = k.buf.writepos
    BY <1>1 DEF Fill, Orderly, BufferFields
  <2> HIDE DEF y
  <2>4. y.data = x
    BY <2>1, <2>2, <2>3
  <2>5. y.writepos <= 0
    BY <2>1, <2>3
  <2>6. k.buf.writepos \in Int
    BY <1>1 DEF Orderly
  <2>7. x = <<>> \/ y.writepos < Len(x)
    BY <2>2, <2>3, <2>5, <2>6
  <2> QED
    BY <1>4, <2>4, <2>7 DEF Loaded, y
<1>9. /\ Kept(r, h) /\ r.written = h.written /\ r.buf = h.buf /\ r.state = "CGI_TRANSMIT_BODY"
  BY <1>2 DEF Kept, Fields
<1> HIDE DEF r
<1>10. Awaits(r, q)
  BY <1>6, <1>8, <1>9 DEF Awaits, Recorded, Kept
<1> QED
  BY <1>5, <1>7, <1>10

LEMMA InputAwaits ==
  ASSUME NEW q \in Requests, NEW k, InOrder(k, q), Awaits(k, q), k.state = "CGI_TRANSMIT_BODY",
         NEW n \in 0..FeedCapacity(k.buf)
  PROVE  Awaits(handle_cgi_input(k, q, n), q)
<1> DEFINE u == SubSeq(Unfed(k.buf), 1, n)
           fed == [k EXCEPT !.given = @ \o u, !.buf = Feed(@, n), !.written = @ + n]
           empty == [fed EXCEPT !.buf = Clear(@)]
           back == [empty EXCEPT !.state = "REQ_BODY"]
<1>1. /\ DOMAIN k = Fields /\ k.given \in Seq(STRING) /\ Orderly(k.buf)
      /\ k.verdict = "ok" /\ k.written = Len(k.given) /\ Recorded(k, q)
  BY DEF InOrder, Passes, Awaits
<1>2. u \in Seq(STRING) /\ Len(u) = n /\ Orderly(Feed(k.buf, n)) /\ n \in Nat
  <2>1. Unfed(k.buf) \in Seq(STRING) /\ FeedCapacity(k.buf) \in Nat /\ Len(Unfed(k.buf)) = FeedCapacity(k.buf)
    BY <1>1, UnfedIs
  <2>2. u \in Seq(STRING) /\ Orderly(Feed(k.buf, n))
    BY <1>1, FeedIs
  <2>3. Len(SubSeq(Unfed(k.buf), 0 + 1, n)) = n - 0
    BY <2>1, Middle
  <2> QED
    BY <2>1, <2>2, <2>3
<1>3. handle_cgi_input(k, q, n) = IF FeedCapacity(fed.buf) > 0 THEN fed
         ELSE IF fed.written >= q.length THEN Collect(empty) ELSE back
  BY Zenon DEF handle_cgi_input
<1>4. /\ DOMAIN fed = Fields /\ fed.start = k.start /\ fed.given = k.given \o u /\ fed.verdict = k.verdict
      /\ fed.written = k.written + n /\ fed.buf = Feed(k.buf, n) /\ fed.state = k.state
  <2> HIDE DEF u
  <2> QED
    BY <1>1 DEF Fields
<1> HIDE DEF fed, u
<1>5. fed.written = Len(fed.given) /\ fed.written \in Nat
  <2>1. Len(k.given \o u) = Len(k.given) + Len(u)
    BY <1>1, <1>2, Appended
  <2>2. Len(k.given) \in Nat
    BY <1>1
  <2> QED
    BY <1>1, <1>2, <1>4, <2>1, <2>2
<1>6. Recorded(fed, q) /\ fed.verdict = "ok"
  BY <1>1, <1>4 DEF Recorded
<1>7. Kept(empty, fed) /\ empty.buf = Clear(fed.buf) /\ empty.written = fed.written
  BY <1>4 DEF Kept, Fields
<1> HIDE DEF empty
<1>8. Kept(back, fed) /\ back.buf = Clear(fed.buf) /\ back.written = fed.written /\ back.state = "REQ_BODY"
  BY <1>7 DEF Kept, Fields
<1> HIDE DEF back
<1>9. Clear(fed.buf).data = <<>>
  BY <1>2, <1>4, ClearIs DEF Orderly
<1>10. Awaits(Collect(empty), q)
  <2>1. DOMAIN empty = Fields /\ Recorded(empty, q) /\ Loaded(empty.buf)
    BY <1>6, <1>7, <1>9 DEF Kept, Recorded, Loaded
  <2> QED
    BY <2>1, CollectAwaits
<1>11. ASSUME ~(fed.written >= q.length) PROVE Awaits(back, q)
  <2>1. q.length \in Nat
    BY DEF Requests
  <2>2. back.written < q.length
    BY <1>5, <1>8, <1>11, <2>1
  <2> QED
    BY <1>5, <1>6, <1>8, <1>9, <2>2 DEF Awaits, Recorded, Kept
<1>12. ASSUME FeedCapacity(fed.buf) > 0 PROVE Awaits(fed, q)
  <2>1. Loaded(fed.buf)
    <3>1. fed.buf.writepos \in Int /\ Len(fed.buf.data) \in Nat
      BY <1>2, <1>4 DEF Orderly
    <3> QED
      BY <1>12, <3>1 DEF Loaded, FeedCapacity
  <2>2. fed.state = "CGI_TRANSMIT_BODY"
    BY <1>4
  <2> QED
    BY <1>5, <1>6, <2>1, <2>2 DEF Awaits
<1> QED
  BY <1>3, <1>10, <1>11, <1>12

LEMMA LoadedFill ==
  ASSUME NEW b, Solid(b), Loaded(b), NEW x \in Seq(STRING)
  PROVE  /\ Solid(Fill(b, x)) /\ Loaded(Fill(b, x)) /\ Fill(b, x).data = b.data \o x
         /\ Fill(b, x).writepos = b.writepos /\ Fill(b, x).capacity = b.capacity
<1> DEFINE y == Fill(b, x)
           d == b.data
           e == d \o x
<1>1. /\ DOMAIN y = BufferFields /\ y.data = e /\ y.writepos = b.writepos /\ y.capacity = b.capacity
  <2> HIDE DEF e
  <2>1. y = [b EXCEPT !.data = e]
    BY DEF Fill, e
  <2> QED
    BY <2>1 DEF Solid, BufferFields
<1>2. d \in Seq(STRING) /\ b.writepos \in Int /\ b.writepos <= Len(d) /\ b.capacity \in Int
  BY DEF Solid
<1>3. e \in Seq(STRING) /\ Len(e) = Len(d) + Len(x)
  BY <1>2, Appended
<1>4. Len(d) \in Nat /\ Len(x) \in Nat
  BY <1>2
<1> HIDE DEF y
<1>5. e = <<>> \/ b.writepos < Len(e)
  <2>1. CASE d = <<>> /\ x = <<>>
    BY <2>1
  <2>2. CASE d = <<>> /\ x # <<>>
    <3>1. Len(x) # 0 /\ Len(d) = 0
      BY <2>2
    <3> HIDE DEF d, e
    <3> QED
      BY <1>2, <1>3, <1>4, <3>1
  <2>3. CASE d # <<>>
    <3>1. b.writepos < Len(d)
      BY <2>3 DEF Loaded
    <3> HIDE DEF d, e
    <3> QED
      BY <1>2, <1>3, <1>4, <3>1
  <2> QED
    BY <2>1, <2>2, <2>3
<1> HIDE DEF d, e
<1>6. Solid(y) /\ Loaded(y)
  <2>1. y.writepos <= Len(y.data)
    BY <1>1, <1>2, <1>3, <1>4
  <2> QED
    BY <1>1, <1>2, <1>3, <1>5, <2>1 DEF Solid, Loaded
<1> QED
  BY <1>1, <1>6 DEF y, d, e

\* After the head of the output every pass empties the buffer.
LEMMA SpoolEmpties ==
  ASSUME NEW k, DOMAIN k = Fields, Solid(k.buf), NEW f, DOMAIN f = Fields, Kept(f, k),
         f.state = k.state,
         NEW x \in Seq(STRING), f.buf = Fill(k.buf, x),
         \/ k.state = "CGI_HEADERS" /\ Loaded(k.buf) /\ HeadEnd(f.buf.data) # 0
         \/ k.state = "CGI_BODY" /\ k.buf.data = <<>>
  PROVE  LET s == SpoolBody(IF k.state = "CGI_HEADERS" THEN BeginBody(f) ELSE f)
         IN /\ Kept(s, k) /\ s.state = "CGI_BODY"
            /\ s.buf.data = <<>> /\ s.buf.capacity = k.buf.capacity
<1> DEFINE b == f.buf
           d == b.data
           m == HeadEnd(d)
           g == IF k.state = "CGI_HEADERS" THEN BeginBody(f) ELSE f
           s == SpoolBody(g)
<1>1. Loaded(k.buf)
  BY DEF Loaded
<1>2. Solid(b) /\ Loaded(b) /\ b.data = k.buf.data \o x /\ b.capacity = k.buf.capacity /\ b.writepos = k.buf.writepos
  BY <1>1, LoadedFill
<1>3. d \in Seq(STRING) /\ Len(d) \in Nat /\ b.writepos \in Int /\ DOMAIN b = BufferFields
  BY <1>2 DEF Solid
<1>4. /\ Kept(g, k) /\ g.state = "CGI_BODY" /\ DOMAIN g.buf = BufferFields
      /\ g.buf.capacity = k.buf.capacity /\ (FeedCapacity(g.buf) = 0 => g.buf.data = <<>>)
  <2>1. CASE k.state = "CGI_HEADERS"
    <3> DEFINE y == Erase(b, m)
               r == BeginBody(f)
    <3>1. Kept(r, k) /\ r.state = "CGI_BODY" /\ r.buf = y
      <4> HIDE DEF b
      <4> QED
        BY DEF BeginBody, Kept, Fields, b
    <3>2. g = r
      BY <2>1
    <3>3. m \in 1..Len(d)
      <4>1. m \in 0..Len(d)
        BY <1>3, HeadEndIs
      <4> HIDE DEF d
      <4>2. m # 0
        BY <2>1 DEF d, b
      <4> HIDE DEF m
      <4> QED
        BY <1>3, <4>1, <4>2
    <3> HIDE DEF m
    <3>4. /\ DOMAIN y = BufferFields /\ y.capacity = b.capacity /\ y.data = SubSeq(d, m + 1, Len(d))
          /\ y.writepos = IF b.writepos > 0 THEN b.writepos - m ELSE b.writepos
      <4> HIDE DEF b
      <4> QED
        BY <1>3 DEF Erase, BufferFields
    <3>5. Len(y.data) = Len(d) - m /\ y.data \in Seq(STRING)
      <4>1. m \in Nat /\ m <= Len(d)
        BY <1>3, <3>3
      <4> HIDE DEF y, d
      <4> QED
        BY <1>3, <3>4, <4>1, Dropped
    <3>6. d # <<>> /\ b.writepos < Len(d)
      <4>1. d # <<>>
        BY <1>3, <3>3
      <4> QED
        BY <1>2, <4>1 DEF Loaded
    <3> HIDE DEF y, d, b
    <3>7. FeedCapacity(y) = 0 => Len(y.data) = 0
      <4>1. CASE b.writepos > 0
        BY <1>3, <3>3, <3>4, <3>5, <3>6, <4>1 DEF FeedCapacity
      <4>2. CASE ~(b.writepos > 0)
        BY <1>3, <3>3, <3>4, <3>5, <3>6, <4>2 DEF FeedCapacity
      <4> QED
        BY <4>1, <4>2
    <3>8. Len(y.data) = 0 => y.data = <<>>
      BY <3>5
    <3> HIDE DEF r, g
    <3> QED
      BY <1>2, <3>1, <3>2, <3>4, <3>7, <3>8
  <2>2. CASE k.state # "CGI_HEADERS"
    <3>1. g = f /\ k.state = "CGI_BODY" /\ k.buf.data = <<>>
      BY <2>2
    <3> HIDE DEF g
    <3>2. d = x
      <4>1. <<>> \o x = x
        OBVIOUS
      <4> QED
        BY <1>2, <3>1, <4>1
    <3>3. b.writepos <= 0
      <4>1. k.buf.writepos <= Len(k.buf.data) /\ k.buf.writepos \in Int
        BY DEF Solid
      <4> QED
        BY <1>2, <3>1, <4>1
    <3> HIDE DEF d
    <3>4. FeedCapacity(b) = 0 => Len(d) = 0
      BY <1>3, <3>3 DEF FeedCapacity, d
    <3>5. Len(d) = 0 => d = <<>>
      BY <1>3
    <3> QED
      BY <1>2, <1>3, <3>1, <3>4, <3>5 DEF d, b
  <2> QED
    BY <2>1, <2>2
<1>5. s = IF FeedCapacity(g.buf) = 0 THEN g
          ELSE [g EXCEPT !.temp = IF g.stream.good THEN @ \o Unfed(g.buf) ELSE @, !.buf = Clear(@)]
  BY Zenon DEF SpoolBody
<1> HIDE DEF s, g
<1>6. ASSUME NEW t
      PROVE  LET h == [g EXCEPT !.temp = t, !.buf = Clear(@)]
             IN /\ Kept(h, k) /\ h.state = "CGI_BODY"
                /\ h.buf.data = <<>> /\ h.buf.capacity = k.buf.capacity
  <2> DEFINE h == [g EXCEPT !.temp = t, !.buf = Clear(@)]
  <2>1. Kept(h, k) /\ h.state = "CGI_BODY" /\ h.buf = Clear(g.buf)
    BY <1>4 DEF Kept, Fields
  <2> HIDE DEF h
  <2>2. Clear(g.buf).data = <<>> /\ Clear(g.buf).capacity = g.buf.capacity
    BY <1>4 DEF Clear, BufferFields
  <2>3. Kept(h, k) /\ h.state = "CGI_BODY" /\ h.buf.data = <<>> /\ h.buf.capacity = k.buf.capacity
    BY <1>4, <2>1, <2>2
  <2> QED
    BY <2>3 DEF h
<1>7. CASE FeedCapacity(g.buf) = 0
  BY <1>4, <1>5, <1>7 DEF s, g
<1>8. CASE FeedCapacity(g.buf) # 0
  <2> DEFINE t == IF g.stream.good THEN g.temp \o Unfed(g.buf) ELSE g.temp
             h == [g EXCEPT !.temp = t, !.buf = Clear(@)]
  <2>1. s = h
    BY <1>5, <1>8
  <2>2. Kept(h, k) /\ h.state = "CGI_BODY" /\ h.buf.data = <<>> /\ h.buf.capacity = k.buf.capacity
    <3> HIDE DEF t
    <3> QED
      BY <1>6
  <2> HIDE DEF h
  <2> QED
    BY <2>1, <2>2 DEF s, g
<1> QED
  BY <1>7, <1>8

LEMMA OutputAwaits ==
  ASSUME NEW q \in Requests, NEW k, InOrder(k, q), Awaits(k, q),
         k.state \in {"CGI_HEADERS", "CGI_BODY"},
         Solid(k.buf), NEW n, SubSeq(q.output, k.heard + 1, k.heard + n) \in Seq(STRING), NEW eof, NEW files
  PROVE  Awaits(handle_cgi_output(k, q, n, eof, files), q)
<1> DEFINE x == SubSeq(q.output, k.heard + 1, k.heard + n)
           f == [k EXCEPT !.buf = Fill(@, x), !.heard = @ + n]
           d == f.buf.data
           s == SpoolBody(IF k.state = "CGI_HEADERS" THEN BeginBody(f) ELSE f)
           r == handle_cgi_output(k, q, n, eof, files)
<1>1. DOMAIN k = Fields /\ Recorded(k, q)
  BY DEF InOrder, Awaits
<1>2. Kept(f, k) /\ f.state = k.state /\ f.buf = Fill(k.buf, x) /\ DOMAIN f = Fields
  <2> HIDE DEF x
  <2> QED
    BY <1>1 DEF Kept, Fields
<1>3. r = IF k.state = "CGI_HEADERS" /\ HeadEnd(d) = 0
          THEN IF eof \/ FillCapacity(f.buf) <= 1 THEN BadGateway(f, files) ELSE f
          ELSE IF eof THEN finalize_cgi(s, files) ELSE s
  BY Zenon DEF handle_cgi_output
<1>4. x \in Seq(STRING)
  OBVIOUS
<1> HIDE DEF x, r
<1> HIDE DEF f
<1>5. Recorded(f, q)
  BY <1>1, <1>2 DEF Recorded, Kept
<1>6. CASE k.state = "CGI_HEADERS" /\ HeadEnd(d) = 0
  <2>1. Awaits(BadGateway(f, files), q)
    <3>1. Kept(BadGateway(f, files), f) /\ BadGateway(f, files).state = "RESPONSE"
      BY <1>2, AnswerFacts, Responding, Zenon DEF Declines
    <3> QED
      BY <1>5, <3>1, RestAwaits, Zenon
  <2>2. Awaits(f, q)
    <3>1. Loaded(k.buf)
      BY <1>6 DEF Awaits
    <3>2. Loaded(f.buf)
      BY <1>2, <1>4, <3>1, LoadedFill
    <3> QED
      BY <1>2, <1>5, <1>6, <3>2 DEF Awaits
  <2> QED
    BY <1>3, <1>6, <2>1, <2>2 DEF r, x
<1>7. CASE ~(k.state = "CGI_HEADERS" /\ HeadEnd(d) = 0)
  <2>1. \/ k.state = "CGI_HEADERS" /\ Loaded(k.buf) /\ HeadEnd(f.buf.data) # 0
        \/ k.state = "CGI_BODY" /\ k.buf.data = <<>>
    BY <1>7 DEF Awaits
  <2>2. Kept(s, k) /\ s.state = "CGI_BODY" /\ s.buf.data = <<>>
    BY <1>1, <1>2, <1>4, <2>1, SpoolEmpties
  <2> HIDE DEF s
  <2>3. Recorded(s, q) /\ DOMAIN s = Fields
    BY <1>1, <2>2 DEF Recorded, Kept
  <2>4. Awaits(s, q)
    BY <2>2, <2>3 DEF Awaits
  <2>5. Awaits(finalize_cgi(s, files), q)
    <3> DEFINE h == [s EXCEPT !.stream = Stream("in", "temp"), !.headers = @ \o Blank, !.buf = Clear(@)]
    <3>1. Kept(h, s)
      BY <2>3 DEF Kept, Fields
    <3>2. finalize_cgi(s, files) = Respond(h, files)
      BY Zenon DEF finalize_cgi
    <3> HIDE DEF h
    <3>3. Kept(Respond(h, files), h) /\ Respond(h, files).state = "RESPONSE"
      BY <3>1 DEF Respond, Kept, Fields
    <3>4. Recorded(h, q)
      BY <2>3, <3>1 DEF Recorded, Kept
    <3> QED
      BY <3>2, <3>3, <3>4, RestAwaits, Zenon
  <2> QED
    BY <1>3, <1>7, <2>4, <2>5 DEF r, x
<1> QED
  BY <1>6, <1>7

-----------------------------------------------------------------------------
(* The invariant                                                              *)

\* What a connection waits for is not a matter of its stream, its answer or its end.
LEMMA SameAwaits ==
  ASSUME NEW q, NEW k, Awaits(k, q), NEW r, DOMAIN r = Fields, r.state = k.state, r.buf = k.buf,
         r.fields = k.fields, r.status = k.status, r.taken = k.taken, r.verdict = k.verdict,
         r.start = k.start, r.given = k.given, r.written = k.written
  PROVE  Awaits(r, q)
<1>1. ASSUME NEW p, Waits(k, q, p) PROVE Waits(r, q, p)
  BY <1>1 DEF Waits, HeadAt, Holds
<1>2. Recorded(r, q)
  BY DEF Awaits, Recorded
<1> QED
  BY <1>1, <1>2 DEF Awaits

AllAwait == \A c \in Present : Awaits(conn[c], asked[c])

\* Nothing was read yet.
LEMMA InitAwaits == TransferInit => AllAwait
<1> SUFFICES ASSUME TransferInit, NEW c \in Present PROVE Awaits(conn[c], asked[c])
  BY DEF AllAwait
<1> DEFINE q == asked[c]
<1>1. PICK w \in Worlds : asked = w.asked
  BY DEF TransferInit
<1>2. w.asked \in [DOMAIN w.asked -> Requests]
  BY <1>1, TransferAssumption
<1>3. q \in Requests
  BY <1>1, <1>2 DEF Present
<1>4. /\ conn[c] = Fresh /\ DOMAIN Fresh = Fields /\ Fresh.state = "REQ_LINE" /\ Fresh.verdict = "none"
      /\ Fresh.buf = Buffer(Capacity) /\ Fresh.taken = 0 /\ Fresh.status = "none" /\ Fresh.fields = <<>>
  BY DEF TransferInit, Fresh, Fields
<1>5. Capacity \in Nat /\ Capacity > 2
  BY TransferAssumption
<1> HIDE DEF q
<1>6. Sent(q) \in Seq(STRING)
  BY <1>3, SentIs
<1>7. LineEnds(q) \subseteq Nat
  BY <1>6, EndsAre DEF LineEnds
<1>8. Window(Sent(q), 0, 0) = <<>>
  <2> DEFINE s == Sent(q)
  <2> HIDE DEF s
  <2>1. SubSeq(s, 0 + 1, 0) = <<>>
    BY <1>6 DEF s
  <2> QED
    BY <2>1 DEF Window, s
<1>9. Holds(Fresh, q, 0)
  <2>1. Len(Sent(q)) \in Nat
    BY <1>6
  <2>2. /\ DOMAIN Buffer(Capacity) = BufferFields /\ Buffer(Capacity).data = <<>>
        /\ Buffer(Capacity).writepos = 0 /\ Buffer(Capacity).capacity = Capacity
    BY DEF Buffer, BufferFields
  <2> QED
    BY <1>4, <1>8, <2>1, <2>2 DEF Holds
<1>10. \A i \in LineEnds(q) : ~(i < 0)
  BY <1>7
<1>11. Passed(q, 0)
  BY <1>10 DEF Passed, Begins
<1>12. Says(<<>>, q, 0)
  <2>1. FieldsBefore(q, 0) = {}
    BY <1>10 DEF FieldsBefore
  <2> QED
    BY <2>1 DEF Says
<1>13. Waits(Fresh, q, 0)
  <2>1. \A i \in LineEnds(q) : 0 <= i
    BY <1>7
  <2> QED
    BY <1>4, <1>5, <1>9, <1>11, <1>12, <2>1 DEF Waits, HeadAt
<1> QED
  BY <1>4, <1>13 DEF Awaits, Recorded, q

LEMMA DropAwaits ==
  ASSUME NEW q, NEW k
  PROVE  Awaits(Drop(k), q)
<1> DEFINE r == Drop(k)
<1>1. r.state = "CLOSED" /\ r.verdict = "none"
  BY DEF Drop, Fresh
<1> HIDE DEF r
<1>2. Awaits(r, q)
  BY <1>1 DEF Awaits, Recorded
<1> QED
  BY <1>2 DEF r

\* A step of one connection leaves the others.
LEMMA SetAwaits ==
  ASSUME BodiesInOrder, AllAwait, NEW c \in Present, NEW k, Awaits(k, asked[c]), NEW files, Set(c, k, files)
  PROVE  AllAwait'
<1>1. asked' = asked /\ Present' = Present
  BY DEF Set, Present
<1> SUFFICES ASSUME NEW d \in Present PROVE Awaits(conn'[d], asked[d])
  BY <1>1 DEF AllAwait
<1>2. Awaits(conn[d], asked[d]) /\ DOMAIN conn[d] = Fields
  BY DEF AllAwait, BodiesInOrder, InOrder
<1>3. CASE d = c
  BY <1>3 DEF Set
<1>4. CASE d # c
  <2> DEFINE h == conn[d]
             r == [h EXCEPT !.torn = TRUE]
  <2>1. conn'[d] = h \/ conn'[d] = r
    BY <1>4, Zenon DEF Set
  <2> HIDE DEF h
  <2>2. /\ DOMAIN r = Fields /\ r.state = h.state /\ r.buf = h.buf /\ r.fields = h.fields
        /\ r.status = h.status /\ r.taken = h.taken /\ r.verdict = h.verdict
        /\ r.start = h.start /\ r.given = h.given /\ r.written = h.written
    BY <1>2 DEF Fields, h
  <2> HIDE DEF r
  <2>3. Awaits(r, asked[d])
    BY <1>2, <2>2, SameAwaits DEF h
  <2> QED
    BY <1>2, <2>1, <2>3 DEF h
<1> QED
  BY <1>3, <1>4

\* Every step leaves a connection with the head read as far as it is there, and with
\* what it counts right.
LEMMA StepAwaits ==
    BodiesInOrder /\ AnswersOwed /\ AllAwait /\ [TransferNext]_vars => AllAwait'
<1> SUFFICES ASSUME BodiesInOrder, AnswersOwed, AllAwait, [TransferNext]_vars PROVE AllAwait'
  OBVIOUS
<1>1. CASE UNCHANGED vars
  BY <1>1 DEF vars, AllAwait, Present
<1>2. ASSUME NEW c \in Present,
             \/ Handle(c) \/ CloseSide(c) \/ CloseStdin(c) \/ Timeout(c) \/ Leave(c) \/ Flush(c)
      PROVE  AllAwait'
  <2> DEFINE k == conn[c]
             q == asked[c]
  <2>1. /\ q \in Requests /\ InOrder(k, q) /\ Awaits(k, q) /\ Shaped(k, q, disk)
        /\ DOMAIN k = Fields /\ Recorded(k, q)
        /\ k.taken \in Nat /\ Len(Sent(q)) \in Nat
    <3>1. /\ q \in Requests /\ InOrder(k, q) /\ Awaits(k, q) /\ Shaped(k, q, disk)
      BY DEF BodiesInOrder, AnswersOwed, Owes, AllAwait
    <3>2. Len(Sent(q)) \in Nat
      BY <3>1, SentIs
    <3> HIDE DEF k, q
    <3> QED
      BY <3>1, <3>2 DEF InOrder, Awaits
  <2>2. ASSUME NEW r, Awaits(r, q), NEW files, Set(c, r, files) PROVE AllAwait'
    BY <2>2, SetAwaits
  <2>3. ASSUME NEW r, Awaits(r, q), Become(c, r) PROVE AllAwait'
    BY <2>2, <2>3, Zenon DEF Become
  <2>4. ASSUME NEW room, NEW n \in Readable(c, room)
        PROVE  n \in Nat /\ k.taken + n <= Len(Sent(q)) /\ n <= room
    <3>1. n \in 1..Len(Sent(q)) - k.taken /\ n <= room
      BY <2>4 DEF Readable
    <3> HIDE DEF k, q
    <3> QED
      BY <2>1, <3>1
  <2>5. CASE HandleHead(c)
    <3>1. k.state \in {"REQ_LINE", "REQ_HEADERS"}
      BY <2>5 DEF HandleHead
    <3>2. PICK n \in Readable(c, FillCapacity(k.buf)) : Become(c, handle_head(k, q, n, disk))
      BY <2>5 DEF HandleHead
    <3>3. n \in Nat /\ k.taken + n <= Len(Sent(q)) /\ n <= FillCapacity(k.buf)
      BY <2>4
    <3> HIDE DEF k, q
    <3>4. Awaits(handle_head(k, q, n, disk), q)
      BY <2>1, <3>1, <3>3, HeadAwaits
    <3> QED
      BY <2>3, <3>2, <3>4, Zenon
  <2>6. CASE HandleDiscard(c) \/ CloseSide(c)
    <3>1. PICK n \in Nat : k.state = "DISCARD_BODY" /\ Become(c, handle_discard(k, q, n, disk))
      <4>1. ASSUME HandleDiscard(c)
            PROVE  \E n \in Nat : k.state = "DISCARD_BODY" /\ Become(c, handle_discard(k, q, n, disk))
        <5>1. PICK n \in Readable(c, Capacity - 1) :
                 k.state = "DISCARD_BODY" /\ Become(c, handle_discard(k, q, n, disk))
          BY <4>1, Zenon DEF HandleDiscard
        <5>2. n \in Nat
          BY <2>4
        <5> QED
          BY <5>1, <5>2, Zenon
      <4>2. ASSUME CloseSide(c)
            PROVE  \E n \in Nat : k.state = "DISCARD_BODY" /\ Become(c, handle_discard(k, q, n, disk))
        <5>1. 0 \in Nat /\ k.state = "DISCARD_BODY" /\ Become(c, handle_discard(k, q, 0, disk))
          BY <4>2 DEF CloseSide
        <5> QED
          BY <5>1, Zenon
      <4> QED
        BY <2>6, <4>1, <4>2
    <3> HIDE DEF k, q
    <3>2. Awaits(handle_discard(k, q, n, disk), q)
      BY <2>1, <3>1, DiscardAwaits
    <3> QED
      BY <2>3, <3>1, <3>2, Zenon
  <2>7. CASE HandleBody(c)
    <3>1. k.state = "REQ_BODY"
      BY <2>7 DEF HandleBody
    <3>2. PICK n \in Readable(c, FillCapacity(k.buf)) :
             Become(c, IF q.route = "script" THEN read_cgi_body(k, q, n) ELSE handle_post(k, q, n, disk))
      BY <2>7 DEF HandleBody
    <3>3. n \in Nat /\ k.taken + n <= Len(Sent(q))
      BY <2>4
    <3> HIDE DEF k, q
    <3>4. Awaits(handle_post(k, q, n, disk), q) /\ Awaits(read_cgi_body(k, q, n), q)
      BY <2>1, <3>1, <3>3, BodyAwaits
    <3> QED
      BY <2>3, <3>2, <3>4, Zenon
  <2>8. CASE HandleCgiInput(c)
    <3>1. k.state = "CGI_TRANSMIT_BODY"
      BY <2>8 DEF HandleCgiInput
    <3>2. PICK n \in 0..FeedCapacity(k.buf) : Become(c, handle_cgi_input(k, q, n))
      BY <2>8 DEF HandleCgiInput
    <3> HIDE DEF k, q
    <3>3. Awaits(handle_cgi_input(k, q, n), q)
      BY <2>1, <3>1, InputAwaits
    <3> QED
      BY <2>3, <3>2, <3>3, Zenon
  <2>9. CASE HandleCgiOutput(c)
    <3> DEFINE room == FillCapacity(k.buf)
               left == Len(q.output) - k.heard
    <3>1. k.state \in {"CGI_HEADERS", "CGI_BODY"}
      BY <2>9 DEF HandleCgiOutput
    <3>2. PICK n \in 0..left : Become(c, handle_cgi_output(k, q, n, room > 1 /\ n = 0, disk))
      BY <2>9, Zenon DEF HandleCgiOutput
    <3> HIDE DEF k, q
    <3>3. SubSeq(q.output, k.heard + 1, k.heard + n) \in Seq(STRING)
      <4>1. q.output \in Seq(STRING) /\ k.heard \in 0..Len(q.output)
        BY <2>1 DEF Requests, Shaped
      <4>2. k.heard \in Nat /\ k.heard + n \in Nat /\ k.heard <= k.heard + n /\ k.heard + n <= Len(q.output)
        BY <3>2, <4>1
      <4> QED
        BY <4>1, <4>2, Middle
    <3>4. Solid(k.buf)
      BY <2>1 DEF Shaped
    <3>5. Awaits(handle_cgi_output(k, q, n, room > 1 /\ n = 0, disk), q)
      BY <2>1, <3>1, <3>3, <3>4, OutputAwaits
    <3> QED
      BY <2>3, <3>2, <3>5, Zenon
  <2>10. CASE HandleResponse(c)
    <3> DEFINE h == Refilled(k, disk)
               x == IF Finished(h) THEN "sent" ELSE "stuck"
    <3>1. k.state = "RESPONSE"
      BY <2>10 DEF HandleResponse
    <3>2. \/ Become(c, Delete(h, x))
          \/ \E n : Become(c, [h EXCEPT !.answer = @ \o SubSeq(Unfed(h.buf), 1, n), !.buf = Feed(@, n)])
      BY <2>10, Zenon DEF HandleResponse
    <3> HIDE DEF k, q, x
    <3>3. Kept(h, k) /\ h.state = "RESPONSE"
      BY <2>1, <3>1, RefilledKeeps
    <3> HIDE DEF h
    <3>4. Kept(Delete(h, x), k) /\ Delete(h, x).state = "CLOSED"
      BY <3>3 DEF Delete, Kept, Fields
    <3>5. ASSUME NEW y, NEW b
          PROVE  Awaits([h EXCEPT !.answer = y, !.buf = b], q)
      <4> DEFINE g == [h EXCEPT !.answer = y, !.buf = b]
      <4>1. Kept(g, k) /\ g.state = "RESPONSE"
        BY <3>3 DEF Kept, Fields
      <4> HIDE DEF g
      <4>2. Awaits(g, q)
        BY <2>1, <4>1, RestAwaits
      <4> QED
        BY <4>2 DEF g
    <3>6. Awaits(Delete(h, x), q)
      BY <2>1, <3>4, RestAwaits
    <3> QED
      BY <2>3, <3>2, <3>5, <3>6, Zenon
  <2>11. CASE CloseStdin(c)
    <3>1. k.state = "CGI_TRANSMIT_BODY" /\ Become(c, Collect(k))
      BY <2>11 DEF CloseStdin
    <3> HIDE DEF k, q
    <3>2. Loaded(k.buf)
      BY <2>1, <3>1 DEF Awaits
    <3>3. Awaits(Collect(k), q)
      BY <2>1, <3>2, CollectAwaits
    <3> QED
      BY <2>3, <3>1, <3>3, Zenon
  <2>12. CASE Timeout(c)
    <3> DEFINE late == [k EXCEPT !.status = "408"]
    <3>1. \/ /\ k.state \in {"REQ_LINE", "REQ_HEADERS", "REQ_BODY"}
             /\ Become(c, handle_setup(late, q, disk))
          \/ k.state = "DISCARD_BODY" /\ Become(c, AnswerPage(k, disk))
          \/ Become(c, Drop(k))
      BY <2>12, Zenon DEF Timeout
    <3> HIDE DEF k, q
    <3>2. CASE k.state \in {"REQ_LINE", "REQ_HEADERS", "REQ_BODY"} /\ Become(c, handle_setup(late, q, disk))
      <4>1. Kept(late, k) /\ late.buf = k.buf /\ late.status = "408"
        BY <2>1 DEF Kept, Fields
      <4>2. Loaded(k.buf)
        <5>1. CASE k.state = "REQ_BODY"
          BY <2>1, <5>1 DEF Awaits, Loaded
        <5>2. CASE k.state # "REQ_BODY"
          <6>1. \E p : Waits(k, q, p)
            BY <2>1, <3>2, <5>2 DEF Awaits
          <6>2. k.buf.writepos = 0
            BY <6>1 DEF Waits, HeadAt, Holds
          <6> DEFINE d == k.buf.data
          <6>3. d \in Seq(STRING)
            BY <2>1 DEF Shaped, Solid
          <6> HIDE DEF d
          <6>4. d = <<>> \/ 0 < Len(d)
            BY <6>3
          <6> QED
            BY <6>2, <6>4 DEF Loaded, d
        <5> QED
          BY <5>1, <5>2
      <4> HIDE DEF late
      <4>3. handle_setup(late, q, disk) = AnswerError(late, q, disk)
        BY <4>1 DEF handle_setup
      <4>4. DOMAIN late = Fields /\ Recorded(late, q) /\ Loaded(late.buf)
        BY <2>1, <4>1, <4>2 DEF Kept, Recorded
      <4>5. Awaits(AnswerError(late, q, disk), q)
        BY <2>1, <4>1, <4>4, AnswerErrorAwaits
      <4> QED
        BY <2>3, <3>2, <4>3, <4>5, Zenon
    <3>3. CASE k.state = "DISCARD_BODY" /\ Become(c, AnswerPage(k, disk))
      <4>1. Kept(AnswerPage(k, disk), k) /\ AnswerPage(k, disk).state = "RESPONSE"
        BY <2>1, AnswerFacts, Responding, Zenon DEF Declines
      <4>2. Awaits(AnswerPage(k, disk), q)
        BY <2>1, <4>1, RestAwaits
      <4> QED
        BY <2>3, <3>3, <4>2, Zenon
    <3>4. CASE Become(c, Drop(k))
      BY <2>3, <3>4, DropAwaits, Zenon
    <3> HIDE DEF late
    <3> QED
      BY <3>1, <3>2, <3>3, <3>4 DEF late
  <2>13. CASE Leave(c)
    <3>1. Become(c, Drop(k))
      BY <2>13 DEF Leave
    <3> HIDE DEF k, q
    <3> QED
      BY <2>3, <3>1, DropAwaits, Zenon
  <2>14. CASE Flush(c)
    <3>1. PICK n, s, files : Set(c, [k EXCEPT !.stream = s], files)
      <4> DEFINE s == k.stream
      <4>1. PICK n \in 1..Len(s.pending) :
               Set(c, [k EXCEPT !.stream.pos = @ + n, !.stream.pending = SubSeq(@, n + 1, Len(@))],
                   [disk EXCEPT ![s.file] = Overlay(@, s.pos, SubSeq(s.pending, 1, n))])
        BY <2>14 DEF Flush
      <4> DEFINE r == [k EXCEPT !.stream.pos = @ + n, !.stream.pending = SubSeq(@, n + 1, Len(@))]
                 u == [s EXCEPT !.pos = @ + n, !.pending = SubSeq(@, n + 1, Len(@))]
      <4>2. r = [k EXCEPT !.stream = u]
        <5> HIDE DEF k
        <5> QED
          BY <2>1 DEF Fields
      <4> HIDE DEF u, k
      <4> QED
        BY <4>1, <4>2, Zenon
    <3> DEFINE r == [k EXCEPT !.stream = s]
    <3>2. Set(c, r, files)
      BY <3>1
    <3> HIDE DEF k, q
    <3>3. /\ DOMAIN r = Fields /\ r.state = k.state /\ r.buf = k.buf /\ r.fields = k.fields
          /\ r.status = k.status /\ r.taken = k.taken /\ r.verdict = k.verdict
          /\ r.start = k.start /\ r.given = k.given /\ r.written = k.written
      BY <2>1 DEF Fields
    <3> HIDE DEF r
    <3>4. Awaits(r, q)
      BY <2>1, <3>3, SameAwaits
    <3> QED
      BY <2>2, <3>2, <3>4
  <2> QED
    BY <1>2, <2>5, <2>6, <2>7, <2>8, <2>9, <2>10, <2>11, <2>12, <2>13, <2>14 DEF Handle
<1> QED
  BY <1>1, <1>2 DEF TransferNext

-----------------------------------------------------------------------------
(* The theorems                                                               *)

\* The judgements are of all the requests.
LEMMA JudgementsAre ==
  ASSUME BodiesInOrder, AllTyped, NEW c \in Present
  PROVE  Judgements[asked[c]] = Judgement(asked[c])
<1> DEFINE Q == UNION {{w.asked[d] : d \in DOMAIN w.asked} : w \in Worlds}
<1>1. PICK w \in Worlds : asked = w.asked
  BY DEF AllTyped
<1>2. asked[c] \in Q
  <2>1. asked[c] \in {w.asked[d] : d \in DOMAIN w.asked}
    BY <1>1 DEF Present
  <2> QED
    BY <2>1
<1>3. Judgements = [q \in Q |-> Judgement(q)]
  BY DEF Judgements
<1> HIDE DEF Q
<1> QED
  BY <1>2, <1>3, Zenon

LEMMA AwaitsReadsAsSent == BodiesInOrder /\ AllTyped /\ AllAwait => HeadReadAsSent
<1> SUFFICES ASSUME BodiesInOrder, AllTyped, AllAwait, NEW c \in Present, conn[c].verdict # "none"
             PROVE  /\ conn[c].verdict = Judgements[asked[c]][1]
                    /\ conn[c].verdict = "ok" => conn[c].start = Judgements[asked[c]][2]
  BY DEF HeadReadAsSent
<1>1. Recorded(conn[c], asked[c])
  BY DEF AllAwait, Awaits
<1> QED
  BY <1>1, JudgementsAre DEF Recorded

\* The line, or the body, that is waited for has not been sent.
LEMMA AwaitsMore ==
  ASSUME NEW q \in Requests, NEW k, InOrder(k, q), Awaits(k, q),
         k.state \in {"REQ_LINE", "REQ_HEADERS", "REQ_BODY", "DISCARD_BODY"}, k.taken = Len(Sent(q))
  PROVE  \/ Judgement(q)[1] = "none"
         \/ Judgement(q)[1] = "ok" /\ ~(Len(Sent(q)) - Judgement(q)[2] >= q.length)
<1>1. CASE k.state \in {"REQ_LINE", "REQ_HEADERS"}
  <2>1. PICK p : Waits(k, q, p)
    BY <1>1 DEF Awaits
  <2>2. /\ p \in Nat /\ p <= Len(Sent(q)) /\ Passed(q, p) /\ Len(Sent(q)) - p + 1 < Capacity
        /\ \A i \in LineEnds(q) : i < p \/ Len(Sent(q)) <= i
    BY <2>1 DEF Waits, HeadAt, Holds
  <2>3. \A i \in LineEnds(q) : i < p
    <3>1. Sent(q) \in Seq(STRING)
      BY SentIs
    <3>2. LineEnds(q) \subseteq 1..Len(Sent(q)) - 1 /\ Len(Sent(q)) \in Nat
      BY <3>1, EndsAre DEF LineEnds
    <3>3. \A i \in LineEnds(q) : ~(Len(Sent(q)) <= i)
      BY <3>2
    <3> QED
      BY <2>2, <3>3
  <2> QED
    BY <2>2, <2>3, JudgedShort
<1>2. CASE k.state \in {"REQ_BODY", "DISCARD_BODY"}
  <2>1. k.verdict = "ok" /\ Judgement(q)[1] = "ok" /\ Judgement(q)[2] = k.start /\ k.written < q.length
    BY <1>2 DEF Awaits, Recorded
  <2>2. k.written = k.taken - k.start
    <3>1. CASE k.state = "DISCARD_BODY"
      BY <3>1 DEF Awaits
    <3>2. CASE k.state = "REQ_BODY"
      <4>1. /\ k.written = Len(k.given) /\ k.buf.data = <<>> /\ Passes(k, q) /\ k.given \in Seq(STRING)
            /\ k.start \in Nat /\ k.taken \in Nat /\ k.taken <= Len(Sent(q)) /\ Sent(q) \in Seq(STRING)
        BY <3>2, SentIs DEF Awaits, InOrder
      <4> DEFINE u == Unfed(k.buf)
                 g == k.given
      <4>2. u = <<>>
        <5>1. k.buf.writepos \in 0..Len(k.buf.data) /\ Orderly(k.buf)
          BY <4>1 DEF Passes, Orderly
        <5>2. FeedCapacity(k.buf) = 0
          BY <4>1, <5>1 DEF FeedCapacity
        <5>3. u \in Seq(STRING) /\ Len(u) = FeedCapacity(k.buf)
          BY <5>1, UnfedIs
        <5> HIDE DEF u
        <5> QED
          BY <5>2, <5>3
      <4>3. g \o u = SubSeq(Sent(q), k.start + 1, k.taken) /\ k.start <= k.taken
        BY <4>1 DEF Passes
      <4>4. Len(SubSeq(Sent(q), k.start + 1, k.taken)) = k.taken - k.start
        BY <4>1, <4>3, Middle
      <4> HIDE DEF u, g
      <4>5. g \o u = g
        BY <4>1, <4>2 DEF g
      <4> QED
        BY <4>1, <4>3, <4>4, <4>5 DEF g
    <3> QED
      BY <1>2, <3>1, <3>2
  <2>3. k.taken \in Nat /\ k.start \in Nat /\ q.length \in Nat
    <3>1. Len(Sent(q)) \in Nat
      BY SentIs
    <3> QED
      BY <3>1 DEF InOrder, Requests
  <2> QED
    BY <2>1, <2>2, <2>3
<1> QED
  BY <1>1, <1>2

\* A buffer that a script has filled is given up or emptied.
LEMMA FullIsEmptied ==
  ASSUME NEW q \in Requests, NEW k, NEW files, InOrder(k, q), Awaits(k, q),
         Shaped(k, q, files), Whole(k),
         k.state \in {"CGI_HEADERS", "CGI_BODY"}, FillCapacity(k.buf) <= 1
  PROVE  LET next == handle_cgi_output(k, q, 0, FALSE, files)
         IN next.state = "RESPONSE" \/ FillCapacity(next.buf) > 1
<1> DEFINE x == SubSeq(q.output, k.heard + 1, k.heard + 0)
           f == [k EXCEPT !.buf = Fill(@, x), !.heard = @ + 0]
           d == f.buf.data
           s == SpoolBody(IF k.state = "CGI_HEADERS" THEN BeginBody(f) ELSE f)
           r == handle_cgi_output(k, q, 0, FALSE, files)
<1>1. DOMAIN k = Fields /\ Solid(k.buf) /\ k.buf.capacity = Capacity /\ Capacity \in Nat /\ Capacity > 2
  BY TransferAssumption DEF InOrder, Shaped, Whole, Ready, Roomy
<1>2. x \in Seq(STRING) /\ x = <<>>
  <2>1. q.output \in Seq(STRING) /\ k.heard \in 0..Len(q.output)
    BY DEF Requests, Shaped
  <2>2. k.heard \in Nat /\ k.heard + 0 = k.heard /\ k.heard <= Len(q.output)
    BY <2>1
  <2>3. x \in Seq(STRING) /\ Len(x) = k.heard - k.heard
    BY <2>1, <2>2, Middle
  <2> HIDE DEF x
  <2> QED
    BY <2>2, <2>3
<1>3. Kept(f, k) /\ f.state = k.state /\ f.buf = Fill(k.buf, x) /\ DOMAIN f = Fields
  <2> HIDE DEF x
  <2> QED
    BY <1>1 DEF Kept, Fields
<1>4. r = IF k.state = "CGI_HEADERS" /\ HeadEnd(d) = 0
          THEN IF FillCapacity(f.buf) <= 1 THEN BadGateway(f, files) ELSE f
          ELSE s
  BY Zenon DEF handle_cgi_output
<1> HIDE DEF x, r
<1> HIDE DEF f
<1>5. CASE k.state = "CGI_HEADERS" /\ HeadEnd(d) = 0
  <2> DEFINE y == Fill(k.buf, x)
             e == k.buf.data
  <2>1. Loaded(k.buf)
    BY <1>5 DEF Awaits
  <2>2. y.data = e \o x /\ y.capacity = Capacity
    BY <1>1, <1>2, <2>1, LoadedFill
  <2> HIDE DEF y
  <2>3. e \o x = e
    <3>1. e \in Seq(STRING)
      BY <1>1 DEF Solid
    <3> HIDE DEF e
    <3> QED
      BY <1>2, <3>1
  <2>4. FillCapacity(y) = FillCapacity(k.buf)
    BY <1>1, <2>2, <2>3 DEF FillCapacity
  <2>5. r = BadGateway(f, files)
    BY <1>3, <1>4, <1>5, <2>4 DEF y
  <2>6. BadGateway(f, files).state = "RESPONSE"
    BY <1>3, Responding, Zenon
  <2> QED
    BY <2>5, <2>6 DEF r, x
<1>6. CASE ~(k.state = "CGI_HEADERS" /\ HeadEnd(d) = 0)
  <2>1. \/ k.state = "CGI_HEADERS" /\ Loaded(k.buf) /\ HeadEnd(f.buf.data) # 0
        \/ k.state = "CGI_BODY" /\ k.buf.data = <<>>
    BY <1>6 DEF Awaits
  <2>2. s.buf.data = <<>> /\ s.buf.capacity = k.buf.capacity
    BY <1>1, <1>2, <1>3, <2>1, SpoolEmpties
  <2> HIDE DEF s
  <2>3. r = s
    BY <1>4, <1>6
  <2>4. FillCapacity(s.buf) = Capacity - 0 - 1
    <3>1. Len(<<>>) = 0
      OBVIOUS
    <3> QED
      BY <1>1, <2>2, <3>1 DEF FillCapacity
  <2>5. FillCapacity(s.buf) > 1
    BY <1>1, <2>4
  <2> QED
    BY <2>3, <2>5 DEF r, x
<1> QED
  BY <1>5, <1>6

LEMMA AwaitsLetsGo ==
    BodiesInOrder /\ AnswersOwed /\ AllWhole /\ AllTyped /\ AllAwait => NobodyWaits
<1> SUFFICES ASSUME BodiesInOrder, AnswersOwed, AllWhole, AllTyped, AllAwait, NEW c \in Present
             PROVE  LET k == conn[c]
                        next == handle_cgi_output(k, asked[c], 0, FALSE, disk)
                    IN /\ ( /\ k.state \in {"REQ_LINE", "REQ_HEADERS", "REQ_BODY", "DISCARD_BODY"}
                            /\ k.taken = Len(Sent(asked[c])) ) => ~Complete(asked[c])
                       /\ (k.state \in {"CGI_HEADERS", "CGI_BODY"} /\ FillCapacity(k.buf) <= 1) =>
                            next.state = "RESPONSE" \/ FillCapacity(next.buf) > 1
  BY Zenon DEF NobodyWaits
<1> DEFINE k == conn[c]
           q == asked[c]
<1>1. q \in Requests /\ InOrder(k, q) /\ Awaits(k, q) /\ Shaped(k, q, disk) /\ Whole(k)
  BY DEF BodiesInOrder, AnswersOwed, Owes, AllWhole, AllAwait
<1>2. Judgements[q] = Judgement(q)
  BY JudgementsAre
<1> HIDE DEF k, q
<1>3. ASSUME k.state \in {"REQ_LINE", "REQ_HEADERS", "REQ_BODY", "DISCARD_BODY"}, k.taken = Len(Sent(q))
      PROVE  ~Complete(q)
  <2>1. \/ Judgement(q)[1] = "none"
        \/ Judgement(q)[1] = "ok" /\ ~(Len(Sent(q)) - Judgement(q)[2] >= q.length)
    BY <1>1, <1>3, AwaitsMore
  <2> QED
    BY <1>2, <2>1, Zenon DEF Complete
<1>4. ASSUME k.state \in {"CGI_HEADERS", "CGI_BODY"}, FillCapacity(k.buf) <= 1
      PROVE  \/ handle_cgi_output(k, q, 0, FALSE, disk).state = "RESPONSE"
             \/ FillCapacity(handle_cgi_output(k, q, 0, FALSE, disk).buf) > 1
  BY <1>1, <1>4, FullIsEmptied
<1> QED
  BY <1>3, <1>4 DEF k, q

\* The parts of the invariant hold together.
LEMMA TransferAwaits == TransferSpec => [](BodiesInOrder /\ AnswersOwed /\ AllWhole /\ AllTyped /\ AllAwait)
<1>1. TransferSpec => []BodiesInOrder
  BY InitInOrder, StepInOrder, PTL DEF TransferSpec
<1>2. TransferSpec => []AnswersOwed
  BY <1>1, InitOwes, StepOwes, PTL DEF TransferSpec
<1>3. TransferSpec => []AllWhole
  BY <1>1, <1>2, InitWhole, StepWhole, PTL DEF TransferSpec
<1>4. TransferSpec => []AllTyped
  BY <1>1, <1>2, InitTyped, StepTyped, PTL DEF TransferSpec
<1>5. TransferSpec => []AllAwait
  BY <1>1, <1>2, InitAwaits, StepAwaits, PTL DEF TransferSpec
<1> QED
  BY <1>1, <1>2, <1>3, <1>4, <1>5, PTL

\* Whatever the size of the buffer, and in whatever pieces a head comes: what
\* handle_req_line() and handle_req_headers() make of it is what it says as a
\* whole, and the body starts where it ends.
THEOREM HeadsReadAsSent == TransferSpec => []HeadReadAsSent
  BY TransferAwaits, AwaitsReadsAsSent, PTL

\* A client that has sent a head that is refused, or a whole request, is waited for
\* by no handler (handle_head(), handle_post(), handle_discard()); and the next pass
\* of handle_cgi_output() makes room in a buffer that is full, or gives the script up.
THEOREM NobodyIsKeptWaiting == TransferSpec => []NobodyWaits
  BY TransferAwaits, AwaitsLetsGo, PTL
=============================================================================
