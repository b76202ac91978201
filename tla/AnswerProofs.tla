----------------------------- MODULE AnswerProofs -----------------------------
(* The bytes of an answer keep their order, for every file, listing, page and  *)
(* script, and however the client takes them; it ends when they all are taken, *)
(* or when a header line does not fit the buffer; an upload is answered when   *)
(* the whole body was given to its file, which holds it in the end; a script   *)
(* is answered by what it wrote, and by all of it when its head says so; and   *)
(* everything keeps its type, the buffer its bounds.                           *)
EXTENDS TransferProofs

-----------------------------------------------------------------------------
(* What bytes are made of                                                     *)

\* A piece of a sequence of bytes.
LEMMA Piece ==
  ASSUME NEW d \in Seq(STRING), NEW a \in Nat, a > 0, NEW b \in Int, b <= Len(d)
  PROVE  SubSeq(d, a, b) \in Seq(STRING)
  OBVIOUS

LEMMA LinesTyped ==
  ASSUME NEW names \in Seq(STRING)
  PROVE  Lines(names) \in Seq(STRING)
<1>1. ASSUME NEW i \in 1..3 * Len(names), i % 3 = 1 PROVE (i + 2) \div 3 \in 1..Len(names)
  BY <1>1
<1>2. ASSUME NEW i \in 1..3 * Len(names), NEW m \in 1..Len(names) PROVE names[m] \in STRING
  OBVIOUS
<1>3. 3 * Len(names) \in Nat /\ CR \in STRING /\ LF \in STRING
  BY WordsAssumption
<1> DEFINE e == [i \in 1..3 * Len(names) |->
                    IF i % 3 = 1 THEN names[(i + 2) \div 3] ELSE IF i % 3 = 2 THEN CR ELSE LF]
<1>4. e \in [1..3 * Len(names) -> STRING]
  BY <1>1, <1>2, <1>3, Zenon
<1>5. e \in Seq(STRING)
  <2> HIDE DEF e
  <2> DEFINE n == 3 * Len(names)
  <2>1. n \in Nat /\ e \in [1..n -> STRING]
    BY <1>3, <1>4
  <2> HIDE DEF n
  <2> QED
    BY <2>1
<1> QED
  BY <1>5 DEF Lines

LEMMA FeedsAre ==
  ASSUME NEW d \in Seq(STRING)
  PROVE  Feeds(d) \subseteq 1..Len(d)
  BY DEF Feeds

LEMMA ScriptLineTyped ==
  ASSUME NEW d \in Seq(STRING), NEW e \in 0..Len(d)
  PROVE  ScriptLine(d, e) \in Seq(STRING)
<1> DEFINE before == {i \in Feeds(d) : i < e}
           first == IF before = {} THEN 1 ELSE Max(before) + 1
           last == IF e > first /\ d[e - 1] = CR THEN e - 2 ELSE e - 1
<1>1. before \subseteq 0..Len(d) /\ Len(d) \in Nat
  BY FeedsAre
<1>2. before # {} => Max(before) \in 0..Len(d)
  <2> HIDE DEF before
  <2> QED
    BY <1>1, LastExists
<1>3. first \in Nat /\ first > 0
  <2> HIDE DEF before
  <2> QED
    BY <1>1, <1>2
<1> HIDE DEF first, before
<1>4. last \in Int /\ last <= Len(d)
  BY <1>1, <1>3
<1> HIDE DEF last
<1>5. SubSeq(d, first, last) \in Seq(STRING)
  BY <1>3, <1>4, Piece
<1> QED
  BY <1>5, Zenon DEF ScriptLine, first, last, before

LEMMA HeadEndIs ==
  ASSUME NEW d \in Seq(STRING)
  PROVE  HeadEnd(d) \in 0..Len(d)
<1> DEFINE blank == {e \in Feeds(d) : ScriptLine(d, e) = <<>>}
<1>1. blank \subseteq 1..Len(d) /\ blank \subseteq Nat
  BY FeedsAre
<1>2. HeadEnd(d) = IF blank = {} THEN 0 ELSE Min(blank)
  BY Zenon DEF HeadEnd
<1> HIDE DEF blank
<1>3. blank # {} => Min(blank) \in 1..Len(d)
  BY <1>1, FirstExists
<1> QED
  BY <1>2, <1>3

\* The value of a line that has one.
LEMMA ValueTyped ==
  ASSUME NEW line \in Seq(STRING), Colons(line) # {}
  PROVE  Value(line) \in Seq(STRING)
<1>1. Colons(line) \subseteq Nat
  BY DEF Colons
<1>2. Min(Colons(line)) \in Nat
  BY <1>1, FirstExists
<1> QED
  BY <1>2, Dropped DEF Value

LEMMA ScriptStatusTyped ==
  ASSUME NEW d \in Seq(STRING)
  PROVE  ScriptStatus(d) \in STRING
<1> DEFINE named == {e \in Feeds(d) : e <= HeadEnd(d) /\ Colons(ScriptLine(d, e)) # {}
                                     /\ Name(ScriptLine(d, e)) = "status"}
           value == Value(ScriptLine(d, Max(named)))
<1>1. ScriptStatus(d) = IF named = {} THEN "200" ELSE IF value = <<>> THEN "0" ELSE value[1]
  BY Zenon DEF ScriptStatus
<1>2. named \subseteq 0..Len(d) /\ Len(d) \in Nat
  BY FeedsAre
<1>3. ASSUME named # {} PROVE value \in Seq(STRING)
  <2>1. Max(named) \in named
    <3> HIDE DEF named
    <3> QED
      BY <1>2, <1>3, LastExists
  <2>2. Max(named) \in 0..Len(d) /\ Colons(ScriptLine(d, Max(named))) # {}
    BY <1>2, <2>1
  <2> HIDE DEF named
  <2> QED
    BY <2>2, ScriptLineTyped, ValueTyped
<1> HIDE DEF named, value
<1>4. ASSUME value \in Seq(STRING), value # <<>> PROVE value[1] \in STRING
  BY <1>4
<1>5. "200" \in STRING /\ "0" \in STRING
  BY WordsAssumption
<1> QED
  BY <1>1, <1>3, <1>4, <1>5, Zenon

\* The fields of a head are collected line by line. That what is collected is a
\* sequence of bytes takes two arguments by a least counterexample: there is a
\* function that collects, and each of its values is such a sequence.
LEMMA ScriptFieldsTyped ==
  ASSUME NEW d \in Seq(STRING)
  PROVE  ScriptFields(d) \in Seq(STRING)
<1> DEFINE N == HeadEnd(d)
           Passed(e) == e \in Feeds(d) /\ Colons(ScriptLine(d, e)) # {} /\ Name(ScriptLine(d, e)) # "status"
           Next(e, v) == IF Passed(e) THEN v \o ScriptLine(d, e) \o Blank ELSE v
           Collects(g) == g = [e \in 0..N |-> IF e = 0 THEN <<>>
                                               ELSE IF Passed(e) THEN g[e - 1] \o ScriptLine(d, e) \o Blank
                                               ELSE g[e - 1]]
           Upto(n, g) == /\ g \in [0..n -> Seq(STRING)] /\ g[0] = <<>>
                         /\ \A e \in 1..n : g[e] = Next(e, g[e - 1])
           upto == CHOOSE g : Collects(g)
<1>1. N \in Nat /\ \A e \in 0..N : ScriptLine(d, e) \in Seq(STRING)
  <2>1. N \in 0..Len(d)
    BY HeadEndIs
  <2> HIDE DEF N
  <2>2. \A e \in 0..N : e \in 0..Len(d)
    BY <2>1
  <2> QED
    BY <2>1, <2>2, ScriptLineTyped
<1>2. ASSUME NEW e \in 0..N, NEW v \in Seq(STRING) PROVE Next(e, v) \in Seq(STRING)
  <2>1. Blank \in Seq(STRING)
    BY WordsAssumption DEF Blank
  <2>2. v \o ScriptLine(d, e) \in Seq(STRING)
    BY <1>1, Appended
  <2>3. (v \o ScriptLine(d, e)) \o Blank \in Seq(STRING)
    BY <2>1, <2>2, Appended
  <2> QED
    BY <2>3
<1>3. ScriptFields(d) = upto[N]
  BY Zenon DEF ScriptFields
<1> HIDE DEF N, Next
<1>4. \A n \in 0..N : \E g : Upto(n, g)
  <2> DEFINE bad == {n \in 0..N : ~ \E g : Upto(n, g)}
  <2> SUFFICES ASSUME bad # {} PROVE FALSE
    OBVIOUS
  <2>1. bad \subseteq Nat
    BY <1>1
  <2>2. PICK m \in bad : \A n \in bad : <<n, m>> \notin OpToRel(<, Nat)
    BY <2>1, WFMin, NatLessThanWellFounded, Zenon
  <2>3. \A n \in bad : ~(n < m)
    BY <2>1, <2>2, Zenon DEF OpToRel
  <2>4. m \in 0..N /\ ~ \E g : Upto(m, g)
    OBVIOUS
  <2>5. Upto(0, [e \in 0..0 |-> <<>>])
    OBVIOUS
  <2>6. m # 0
    BY <2>4, <2>5
  <2>7. m - 1 \in 0..N /\ m - 1 < m
    BY <1>1, <2>4, <2>6
  <2>8. PICK g : Upto(m - 1, g)
    BY <2>3, <2>7, Zenon
  <2> DEFINE h == [e \in 0..m |-> IF e = m THEN Next(m, g[m - 1]) ELSE g[e]]
  <2>9. g[m - 1] \in Seq(STRING)
    BY <2>7, <2>8
  <2>10. Next(m, g[m - 1]) \in Seq(STRING)
    BY <1>2, <2>4, <2>9, Zenon
  <2>11. h \in [0..m -> Seq(STRING)]
    <3>1. \A e \in 0..m : e = m \/ e \in 0..m - 1
      BY <2>4
    <3>2. \A e \in 0..m - 1 : g[e] \in Seq(STRING)
      BY <2>8, Zenon
    <3> QED
      BY <2>10, <3>1, <3>2, Zenon
  <2>12. h[0] = <<>>
    BY <2>4, <2>6, <2>8
  <2>13. ASSUME NEW e \in 1..m PROVE h[e] = Next(e, h[e - 1])
    <3>1. e - 1 \in 0..m - 1 /\ e - 1 \in 0..m /\ e - 1 # m /\ e \in 0..m
      BY <2>4
    <3>2. h[e - 1] = g[e - 1]
      BY <3>1
    <3>3. CASE e = m
      BY <3>1, <3>2, <3>3
    <3>4. CASE e # m
      <4>1. e \in 1..m - 1
        BY <2>4, <3>4
      <4>2. g[e] = Next(e, g[e - 1])
        BY <2>8, <4>1
      <4> QED
        BY <3>1, <3>2, <3>4, <4>2
    <3> QED
      BY <3>3, <3>4
  <2>14. Upto(m, h)
    <3> HIDE DEF h
    <3> QED
      BY <2>11, <2>12, <2>13, Zenon
  <2> QED
    BY <2>4, <2>14, Zenon
<1>5. PICK f : Upto(N, f)
  <2>1. N \in 0..N
    BY <1>1
  <2> QED
    BY <1>4, <2>1, Zenon
<1>6. Collects(f)
  <2>1. DOMAIN f = 0..N /\ f = [e \in 0..N |-> f[e]]
    BY <1>5, Zenon
  <2>2. ASSUME NEW e \in 0..N
        PROVE  f[e] = IF e = 0 THEN <<>>
                      ELSE IF Passed(e) THEN f[e - 1] \o ScriptLine(d, e) \o Blank
                      ELSE f[e - 1]
    <3>1. CASE e = 0
      BY <1>5, <3>1
    <3>2. CASE e # 0
      <4>1. e \in 1..N
        BY <1>1, <3>2
      <4>2. f[e] = Next(e, f[e - 1])
        BY <1>5, <4>1, Zenon
      <4> HIDE DEF Passed
      <4> QED
        BY <3>2, <4>2 DEF Next
    <3> QED
      BY <3>1, <3>2
  <2> HIDE DEF Passed
  <2> QED
    BY <2>1, <2>2, Zenon
<1>7. Collects(upto)
  <2> HIDE DEF Collects
  <2> QED
    BY <1>6, Zenon
<1>8. \A e \in 0..N : upto[e] \in Seq(STRING)
  <2> DEFINE bad == {e \in 0..N : upto[e] \notin Seq(STRING)}
  <2> SUFFICES ASSUME bad # {} PROVE FALSE
    OBVIOUS
  <2> HIDE DEF upto
  <2>1. bad \subseteq Nat
    BY <1>1
  <2>2. PICK m \in bad : \A n \in bad : <<n, m>> \notin OpToRel(<, Nat)
    BY <2>1, WFMin, NatLessThanWellFounded, Zenon
  <2>3. \A n \in bad : ~(n < m)
    BY <2>1, <2>2, Zenon DEF OpToRel
  <2>4. m \in 0..N /\ upto[m] \notin Seq(STRING)
    OBVIOUS
  <2> HIDE DEF Passed
  <2>5. upto[m] = IF m = 0 THEN <<>> ELSE Next(m, upto[m - 1])
    BY <1>7, <2>4, Zenon DEF Next
  <2>6. m # 0
    <3>1. <<>> \in Seq(STRING)
      OBVIOUS
    <3> QED
      BY <2>4, <2>5, <3>1, Zenon
  <2>7. m - 1 \in 0..N /\ m - 1 < m
    BY <1>1, <2>4, <2>6
  <2>8. upto[m - 1] \in Seq(STRING)
    BY <2>3, <2>7, Zenon
  <2>9. Next(m, upto[m - 1]) \in Seq(STRING)
    BY <1>2, <2>4, <2>8, Zenon
  <2> QED
    BY <2>4, <2>5, <2>6, <2>9, Zenon
<1>9. N \in 0..N
  BY <1>1
<1> HIDE DEF upto
<1> QED
  BY <1>3, <1>8, <1>9

-----------------------------------------------------------------------------
(* A connection and the answer it owes                                        *)

\* A buffer whose positions need not be in order.
Solid(b) ==
    /\ DOMAIN b = BufferFields
    /\ b.data \in Seq(STRING) /\ b.writepos \in Int /\ b.writepos <= Len(b.data)
    /\ b.capacity \in Int

StreamFields == {"mode", "file", "pos", "pending", "eof", "good"}

\* A stream that is read has its file on the disk, or the temporary one.
StreamIs(s, files) ==
    /\ DOMAIN s = StreamFields
    /\ s.pos \in Nat /\ s.pending \in Seq(STRING)
    /\ s.mode = "in" => s.file = "temp" \/ s.file \in DOMAIN files

Filed(files) == \A f \in DOMAIN files : files[f] \in Seq(STRING)

Shaped(k, q, files) ==
    /\ DOMAIN k = Fields
    /\ Solid(k.buf)
    /\ k.headers \in Seq(STRING) /\ k.body \in Seq(STRING)
    /\ k.temp \in Seq(STRING) /\ k.answer \in Seq(STRING)
    /\ k.status \in STRING /\ k.heard \in 0..Len(q.output)
    /\ StreamIs(k.stream, files)

\* Until there is an answer, none of it was sent and there is no page or file.
Silent(k) == k.answer = <<>> /\ k.body = <<>> /\ k.stream.mode # "in"

\* From then on what was sent and what is left are the answer. A file and a page
\* are not sent both.
Answers(k, files) ==
    /\ Orderly(k.buf)
    /\ k.stream.mode = "in" => k.body = <<>>
    /\ ~k.torn => k.answer \o Unfed(k.buf) \o Rest(k, files) = k.plan

\* The inductive invariant of a connection.
Owes(k, q, files) ==
    /\ Shaped(k, q, files)
    /\ k.state \in {"REQ_LINE", "REQ_HEADERS"} => k.stream.mode = "none" /\ k.buf.writepos = 0
    /\ k.state \notin {"RESPONSE", "CLOSED"} => Silent(k)
    /\ k.state = "RESPONSE" => Answers(k, files)

\* A handler that begins to read a file has written none.
Steady(r, k) ==
    r.stream.mode = "in" => r.stream.file = "temp" \/ k.stream.mode \in {"none", "in"}

LEMMA SolidIs ==
  ASSUME NEW b, Solid(b)
  PROVE  Unfed(b) \in Seq(STRING)
<1> DEFINE m == Len(b.data) - b.writepos
           u == [i \in 1..m |-> IF b.writepos + i \in DOMAIN b.data THEN b.data[b.writepos + i] ELSE Stray]
<1>1. m \in Nat
  BY DEF Solid
<1>2. \A i \in 1..m : b.writepos + i \in DOMAIN b.data => b.data[b.writepos + i] \in STRING
  BY DEF Solid
<1>3. Unfed(b) = u
  BY Zenon DEF Unfed, FeedCapacity
<1> HIDE DEF m
<1>4. u \in [1..m -> STRING]
  BY <1>2, WordsAssumption, Zenon
<1> HIDE DEF u
<1> QED
  BY <1>1, <1>3, <1>4

LEMMA OrderlySolid ==
  ASSUME NEW b, Orderly(b), b.capacity \in Int
  PROVE  Solid(b)
  BY DEF Orderly, Solid

LEMMA SolidClear ==
  ASSUME NEW b, Solid(b)
  PROVE  Solid(Clear(b)) /\ Orderly(Clear(b)) /\ Unfed(Clear(b)) = <<>> /\ Clear(b).data = <<>>
<1>1. Orderly(Clear(b)) /\ Unfed(Clear(b)) = <<>> /\ Clear(b).data = <<>>
  BY ClearIs DEF Solid
<1>2. Clear(b).capacity = b.capacity
  BY DEF Clear, Solid, BufferFields
<1> QED
  BY <1>1, <1>2, OrderlySolid DEF Solid

LEMMA SolidFill ==
  ASSUME NEW b, Solid(b), NEW x \in Seq(STRING)
  PROVE  Solid(Fill(b, x))
<1> DEFINE j == b.data \o x
<1>1. /\ Fill(b, x).data = j /\ Fill(b, x).writepos = b.writepos
      /\ Fill(b, x).capacity = b.capacity /\ DOMAIN Fill(b, x) = BufferFields
  BY DEF Fill, Solid, BufferFields
<1>2. j \in Seq(STRING) /\ Len(j) = Len(b.data) + Len(x)
  BY Appended DEF Solid
<1> HIDE DEF j
<1>3. b.writepos <= Len(j)
  BY <1>2 DEF Solid
<1> QED
  BY <1>1, <1>2, <1>3 DEF Solid

\* erase(), of bytes there are.
LEMMA SolidErase ==
  ASSUME NEW b, Solid(b), NEW n \in Nat, n <= Len(b.data) \/ b.writepos = 0
  PROVE  Solid(Erase(b, n))
<1> DEFINE r == SubSeq(b.data, n + 1, Len(b.data))
<1>1. /\ Erase(b, n).data = r
      /\ Erase(b, n).writepos = IF b.writepos > 0 THEN b.writepos - n ELSE b.writepos
      /\ Erase(b, n).capacity = b.capacity /\ DOMAIN Erase(b, n) = BufferFields
  BY DEF Erase, Solid, BufferFields
<1>2. r \in Seq(STRING) /\ Len(r) = IF n <= Len(b.data) THEN Len(b.data) - n ELSE 0
  BY Dropped DEF Solid
<1> HIDE DEF r
<1>3. Len(b.data) \in Nat /\ b.writepos \in Int /\ b.writepos <= Len(b.data)
  BY DEF Solid
<1>4. Erase(b, n).writepos \in Int /\ Erase(b, n).writepos <= Len(r)
  BY <1>1, <1>2, <1>3
<1> QED
  BY <1>1, <1>2, <1>4 DEF Solid

LEMMA EraseUnfed ==
  ASSUME NEW b, Solid(b), b.writepos = 0, NEW n \in Nat
  PROVE  Solid(Erase(b, n)) /\ Erase(b, n).writepos = 0
<1>1. Erase(b, n).writepos = IF 0 > 0 THEN 0 - n ELSE 0
  BY Zenon DEF Erase, Solid, BufferFields
<1>2. Erase(b, n).writepos = 0
  BY <1>1
<1> QED
  BY <1>2, SolidErase

\* What is left to answer are bytes.
LEMMA UnreadTyped ==
  ASSUME NEW k, NEW q, NEW files, Shaped(k, q, files), Filed(files)
  PROVE  Unread(k, files) \in Seq(STRING)
<1> DEFINE whole == IF k.stream.file = "temp" THEN k.temp ELSE files[k.stream.file]
<1>1. \/ Unread(k, files) = <<>>
      \/ k.stream.mode = "in" /\ Unread(k, files) = SubSeq(whole, k.stream.pos + 1, Len(whole))
  BY Zenon DEF Unread
<1>2. ASSUME k.stream.mode = "in" PROVE whole \in Seq(STRING) /\ k.stream.pos \in Nat
  BY <1>2 DEF Shaped, StreamIs, Filed
<1> HIDE DEF whole
<1>3. <<>> \in Seq(STRING)
  OBVIOUS
<1>4. CASE Unread(k, files) = <<>>
  BY <1>3, <1>4
<1>5. CASE k.stream.mode = "in" /\ Unread(k, files) = SubSeq(whole, k.stream.pos + 1, Len(whole))
  BY <1>2, <1>5, Dropped
<1> QED
  BY <1>1, <1>4, <1>5

LEMMA RestTyped ==
  ASSUME NEW k, NEW q, NEW files, Shaped(k, q, files), Filed(files)
  PROVE  Rest(k, files) \in Seq(STRING)
<1>1. k.headers \in Seq(STRING) /\ k.body \in Seq(STRING) /\ Unread(k, files) \in Seq(STRING)
  BY UnreadTyped DEF Shaped
<1>2. k.headers \o Unread(k, files) \in Seq(STRING)
  BY <1>1, Appended, Zenon
<1>3. (k.headers \o Unread(k, files)) \o k.body \in Seq(STRING)
  BY <1>1, <1>2, Appended, Zenon
<1> QED
  BY <1>3 DEF Rest

\* What is left depends on these four.
LEMMA RestSame ==
  ASSUME NEW k, NEW r, NEW files,
         r.headers = k.headers, r.body = k.body, r.stream = k.stream, r.temp = k.temp
  PROVE  Rest(r, files) = Rest(k, files)
  BY Zenon DEF Rest, Unread

LEMMA StreamNewIs ==
  ASSUME NEW mode, NEW file, NEW files, mode = "in" => file = "temp" \/ file \in DOMAIN files
  PROVE  StreamIs(Stream(mode, file), files)
<1> DEFINE s == Stream(mode, file)
<1>1. <<>> \in Seq(STRING) /\ 0 \in Nat
  OBVIOUS
<1>2. /\ DOMAIN s = StreamFields /\ s.mode = mode /\ s.file = file /\ s.pos = 0
      /\ s.pending = <<>>
  BY DEF Stream, NoStream, StreamFields
<1> HIDE DEF s
<1>3. StreamIs(s, files)
  BY <1>1, <1>2 DEF StreamIs
<1> QED
  BY <1>3 DEF s

LEMMA NoStreamIs ==
  ASSUME NEW files
  PROVE  StreamIs(NoStream, files) /\ NoStream.mode = "none"
<1>1. <<>> \in Seq(STRING) /\ 0 \in Nat
  OBVIOUS
<1>2. /\ DOMAIN NoStream = StreamFields /\ NoStream.mode = "none" /\ NoStream.pos = 0
      /\ NoStream.pending = <<>>
  BY DEF NoStream, StreamFields
<1> QED
  BY <1>1, <1>2 DEF StreamIs

-----------------------------------------------------------------------------
(* An answer begins                                                           *)

\* A connection that may be answered.
Begun(k, q, files) == Shaped(k, q, files) /\ Silent(k)

LEMMA RespondOwes ==
  ASSUME NEW h, NEW q, NEW files, Filed(files), Shaped(h, q, files), h.answer = <<>>,
         Orderly(h.buf), Unfed(h.buf) = <<>>, h.stream.mode = "in" => h.body = <<>>
  PROVE  Owes(Respond(h, files), q, files)
<1> DEFINE r == Respond(h, files)
           rest == Rest(h, files)
<1>1. /\ DOMAIN r = Fields /\ r.state = "RESPONSE" /\ r.plan = rest /\ r.buf = h.buf
      /\ r.headers = h.headers /\ r.body = h.body /\ r.temp = h.temp /\ r.answer = h.answer
      /\ r.status = h.status /\ r.heard = h.heard /\ r.stream = h.stream
  BY DEF Respond, Shaped, Fields
<1>2. Rest(r, files) = rest
  BY <1>1, RestSame, Zenon
<1>3. rest \in Seq(STRING)
  BY RestTyped, Zenon
<1> HIDE DEF rest, r
<1>4. <<>> \o <<>> \o rest = rest
  BY <1>3
<1>5. Shaped(r, q, files)
  BY <1>1, Zenon DEF Shaped
<1>6. Answers(r, files)
  BY <1>1, <1>2, <1>4, Zenon DEF Answers
<1>7. Owes(r, q, files)
  BY <1>1, <1>5, <1>6 DEF Owes
<1> QED
  BY <1>7 DEF r

LEMMA HeadedIs ==
  ASSUME NEW k, NEW q, NEW files, Begun(k, q, files), NEW names \in Seq(STRING)
  PROVE  LET h == Headed(k, names)
         IN /\ Begun(h, q, files) /\ DOMAIN h = Fields
            /\ Orderly(h.buf) /\ Unfed(h.buf) = <<>>
            /\ h.stream = k.stream
<1> DEFINE h == Headed(k, names)
           x == <<k.status, "date">>
           y == Lines(x \o names) \o Blank
<1>1. /\ DOMAIN h = Fields /\ h.buf = Clear(k.buf) /\ h.headers = y /\ h.body = <<>>
      /\ h.temp = k.temp /\ h.answer = k.answer
      /\ h.status = k.status /\ h.heard = k.heard /\ h.stream = k.stream
  BY DEF Headed, Begun, Shaped, Fields
<1>2. x \in Seq(STRING) /\ Blank \in Seq(STRING)
  <2>1. k.status \in STRING /\ {"date", CR, LF} \subseteq STRING
    BY WordsAssumption DEF Begun, Shaped
  <2> QED
    BY <2>1 DEF Blank
<1> HIDE DEF x
<1>3. x \o names \in Seq(STRING)
  BY <1>2, Appended, Zenon
<1>4. y \in Seq(STRING)
  BY <1>2, <1>3, LinesTyped, Appended, Zenon
<1>5. Solid(Clear(k.buf)) /\ Orderly(Clear(k.buf)) /\ Unfed(Clear(k.buf)) = <<>>
  BY SolidClear DEF Begun, Shaped
<1>6. <<>> \in Seq(STRING)
  OBVIOUS
<1> HIDE DEF h, y
<1>7. Shaped(h, q, files)
  BY <1>1, <1>4, <1>5, <1>6, Zenon DEF Begun, Shaped
<1>8. Silent(h)
  BY <1>1, Zenon DEF Begun, Silent
<1> QED
  BY <1>1, <1>5, <1>7, <1>8, Zenon DEF h, Begun

\* What a handler makes of a connection that may be answered.
Fits(r, k, q, files) == Owes(r, q, files) /\ Steady(r, k)

LEMMA InternalErrorFits ==
  ASSUME NEW k, NEW q, NEW files, Begun(k, q, files)
  PROVE  Fits(InternalError(k), k, q, files)
<1> DEFINE r == InternalError(k)
           page == Lines(<<"500">>) \o Blank
           b == SetData(page)
<1>1. /\ DOMAIN r = Fields /\ r.state = "RESPONSE" /\ r.plan = page /\ r.buf = b
      /\ r.headers = <<>> /\ r.body = <<>> /\ r.temp = k.temp /\ r.answer = k.answer
      /\ r.status = k.status /\ r.heard = k.heard /\ r.stream = NoStream
  BY DEF InternalError, Begun, Shaped, Fields
<1>2. page \in Seq(STRING)
  <2>1. <<"500">> \in Seq(STRING) /\ Blank \in Seq(STRING)
    BY WordsAssumption DEF Blank
  <2> QED
    BY <2>1, LinesTyped, Appended, Zenon
<1> HIDE DEF page
<1>3. Orderly(b) /\ b.capacity \in Int /\ b.data = page /\ b.writepos = 0
  BY <1>2 DEF SetData, Orderly, BufferFields
<1>4. Unfed(b) = page
  <2>1. Unfed(b) = SubSeq(page, 0 + 1, Len(page))
    BY <1>3, UnfedIs, Zenon
  <2> HIDE DEF b
  <2> QED
    BY <1>2, <2>1
<1>5. Solid(b)
  BY <1>3, OrderlySolid, Zenon
<1> HIDE DEF b, r
<1>6. StreamIs(r.stream, files) /\ r.stream.mode = "none"
  BY <1>1, NoStreamIs, Zenon
<1>7. <<>> \in Seq(STRING) /\ <<>> \o <<>> \o <<>> = <<>> /\ <<>> \o page \o <<>> = page
  BY <1>2
<1>8. Unread(r, files) = <<>>
  BY <1>6 DEF Unread
<1>9. Rest(r, files) = <<>>
  BY <1>1, <1>7, <1>8, Zenon DEF Rest
<1>10. Shaped(r, q, files)
  BY <1>1, <1>5, <1>6, <1>7, Zenon DEF Begun, Shaped
<1>11. Answers(r, files)
  BY <1>1, <1>3, <1>4, <1>6, <1>7, <1>9, Zenon DEF Answers, Begun, Silent
<1>12. Fits(r, k, q, files)
  BY <1>1, <1>6, <1>10, <1>11 DEF Fits, Owes, Steady
<1> QED
  BY <1>12 DEF r

LEMMA AnswersFit ==
  ASSUME NEW k, NEW q \in Requests, NEW files, Filed(files), Begun(k, q, files)
  PROVE  /\ Fits(AnswerPage(k, files), k, q, files)
         /\ Fits(AnswerUpload(k, files), k, q, files)
         /\ Fits(AnswerListing(k, q, files), k, q, files)
         /\ \A f \in DOMAIN files : k.stream.mode = "none" => Fits(AnswerFile(k, f, files), k, q, files)
<1>1. /\ <<"length">> \in Seq(STRING) /\ <<"location">> \in Seq(STRING)
      /\ q.output \in Seq(STRING)
  BY WordsAssumption DEF Requests
<1>2. ASSUME NEW h, Shaped(h, q, files) PROVE Respond(h, files).stream = h.stream
  BY <1>2 DEF Respond, Shaped, Fields
<1>3. Fits(AnswerPage(k, files), k, q, files)
  <2> DEFINE g == Headed(k, <<"length">>)
             page == <<"page", k.status>>
             h == [g EXCEPT !.body = page]
  <2>1. Begun(g, q, files) /\ DOMAIN g = Fields /\ Orderly(g.buf) /\ Unfed(g.buf) = <<>> /\ g.stream = k.stream
    BY <1>1, HeadedIs
  <2>2. page \in Seq(STRING)
    BY WordsAssumption DEF Begun, Shaped
  <2> HIDE DEF g, page
  <2>3. /\ DOMAIN h = Fields /\ h.buf = g.buf /\ h.headers = g.headers /\ h.body = page
        /\ h.temp = g.temp /\ h.answer = g.answer /\ h.status = g.status /\ h.heard = g.heard
        /\ h.stream = g.stream
    BY <2>1 DEF Fields
  <2> HIDE DEF h
  <2>4. Shaped(h, q, files) /\ h.answer = <<>> /\ h.stream.mode # "in"
    BY <2>1, <2>2, <2>3, Zenon DEF Begun, Shaped, Silent
  <2>5. Owes(Respond(h, files), q, files)
    BY <2>1, <2>3, <2>4, RespondOwes
  <2>6. Steady(Respond(h, files), k)
    BY <1>2, <2>4 DEF Steady
  <2> QED
    BY <2>5, <2>6, Zenon DEF Fits, AnswerPage, h, g, page
<1>4. Fits(AnswerUpload(k, files), k, q, files)
  <2> DEFINE g == Headed(k, <<"location">>)
  <2>1. Begun(g, q, files) /\ DOMAIN g = Fields /\ Orderly(g.buf) /\ Unfed(g.buf) = <<>> /\ g.stream = k.stream
    BY <1>1, HeadedIs
  <2> HIDE DEF g
  <2>2. Shaped(g, q, files) /\ g.answer = <<>> /\ g.stream.mode # "in"
    BY <2>1, Zenon DEF Begun, Silent
  <2>3. Owes(Respond(g, files), q, files)
    BY <2>1, <2>2, RespondOwes
  <2>4. Steady(Respond(g, files), k)
    BY <1>2, <2>2 DEF Steady
  <2> QED
    BY <2>3, <2>4, Zenon DEF Fits, AnswerUpload, g
<1>5. Fits(AnswerListing(k, q, files), k, q, files)
  <2> DEFINE g == Headed(k, <<"length">>)
             t == Stream("in", "temp")
             h == [g EXCEPT !.temp = q.output, !.stream = t]
  <2>1. Begun(g, q, files) /\ DOMAIN g = Fields /\ Orderly(g.buf) /\ Unfed(g.buf) = <<>> /\ g.stream = k.stream
    BY <1>1, HeadedIs
  <2>2. StreamIs(t, files) /\ t.file = "temp"
    <3>1. t.file = "temp"
      BY DEF Stream, NoStream
    <3> QED
      BY <3>1, StreamNewIs
  <2> HIDE DEF g, t
  <2>3. /\ DOMAIN h = Fields /\ h.buf = g.buf /\ h.headers = g.headers /\ h.body = g.body
        /\ h.temp = q.output /\ h.answer = g.answer /\ h.status = g.status /\ h.heard = g.heard
        /\ h.stream = t
    BY <2>1 DEF Fields
  <2> HIDE DEF h
  <2>4. Shaped(h, q, files) /\ h.answer = <<>> /\ h.body = <<>>
    BY <1>1, <2>1, <2>2, <2>3, Zenon DEF Begun, Shaped, Silent
  <2>5. Owes(Respond(h, files), q, files)
    BY <2>1, <2>3, <2>4, RespondOwes
  <2>6. Steady(Respond(h, files), k)
    BY <1>2, <2>2, <2>3, <2>4 DEF Steady
  <2> QED
    BY <2>5, <2>6, Zenon DEF Fits, AnswerListing, h, g, t
<1>6. ASSUME NEW f \in DOMAIN files, k.stream.mode = "none" PROVE Fits(AnswerFile(k, f, files), k, q, files)
  <2> DEFINE g == Headed(k, <<"length">>)
             t == Stream("in", f)
             h == [g EXCEPT !.stream = t]
  <2>1. Begun(g, q, files) /\ DOMAIN g = Fields /\ Orderly(g.buf) /\ Unfed(g.buf) = <<>> /\ g.stream = k.stream
    BY <1>1, HeadedIs
  <2>2. StreamIs(t, files)
    BY StreamNewIs
  <2> HIDE DEF g, t
  <2>3. /\ DOMAIN h = Fields /\ h.buf = g.buf /\ h.headers = g.headers /\ h.body = g.body
        /\ h.temp = g.temp /\ h.answer = g.answer /\ h.status = g.status /\ h.heard = g.heard
        /\ h.stream = t
    BY <2>1 DEF Fields
  <2> HIDE DEF h
  <2>4. Shaped(h, q, files) /\ h.answer = <<>> /\ h.body = <<>>
    BY <2>1, <2>2, <2>3, Zenon DEF Begun, Shaped, Silent
  <2>5. Owes(Respond(h, files), q, files)
    BY <2>1, <2>3, <2>4, RespondOwes
  <2>6. Steady(Respond(h, files), k)
    BY <1>6 DEF Steady
  <2>7. AnswerFile(k, f, files) = InternalError(k) \/ AnswerFile(k, f, files) = Respond(h, files)
    BY Zenon DEF AnswerFile, h, g, t
  <2>8. Fits(Respond(h, files), k, q, files)
    BY <2>5, <2>6, Zenon DEF Fits
  <2> QED
    BY <2>7, <2>8, InternalErrorFits
<1> QED
  BY <1>3, <1>4, <1>5, <1>6

\* A connection that is not answered yet.
LEMMA BegunFits ==
  ASSUME NEW k, NEW q, NEW files, Begun(k, q, files), NEW r, Begun(r, q, files),
         r.state \notin {"REQ_LINE", "REQ_HEADERS", "RESPONSE"}
  PROVE  Fits(r, k, q, files)
  BY DEF Fits, Owes, Steady, Begun, Silent

LEMMA CollectFits ==
  ASSUME NEW k, NEW q, NEW files, Begun(k, q, files)
  PROVE  Fits(Collect(k), k, q, files)
<1> DEFINE r == Collect(k)
<1>1. /\ DOMAIN r = Fields /\ r.buf = k.buf /\ r.headers = k.headers /\ r.body = k.body
      /\ r.temp = k.temp /\ r.answer = k.answer /\ r.status = k.status /\ r.heard = 0
      /\ r.stream = k.stream /\ r.state = "CGI_HEADERS"
  BY DEF Collect, Begun, Shaped, Fields
<1>2. 0 \in 0..Len(q.output)
  BY DEF Begun, Shaped
<1> HIDE DEF r
<1>3. Begun(r, q, files)
  BY <1>1, <1>2, Zenon DEF Begun, Shaped, Silent
<1>4. Fits(r, k, q, files)
  BY <1>1, <1>3, BegunFits
<1> QED
  BY <1>4 DEF r

\* handle_setup() hands a connection over to a script, or answers it.
LEMMA SetupCgiFits ==
  ASSUME NEW k, NEW q, NEW files, Begun(k, q, files), NEW length
  PROVE  Fits(setup_cgi(k, length), k, q, files)
<1> DEFINE r == [k EXCEPT !.state = "CGI_TRANSMIT_BODY", !.written = 0]
           h == [k EXCEPT !.written = 0]
<1>1. /\ DOMAIN r = Fields /\ r.buf = k.buf /\ r.headers = k.headers /\ r.body = k.body
      /\ r.temp = k.temp /\ r.answer = k.answer /\ r.status = k.status /\ r.heard = k.heard
      /\ r.stream = k.stream /\ r.state = "CGI_TRANSMIT_BODY"
  BY DEF Begun, Shaped, Fields
<1>2. /\ DOMAIN h = Fields /\ h.buf = k.buf /\ h.headers = k.headers /\ h.body = k.body
      /\ h.temp = k.temp /\ h.answer = k.answer /\ h.status = k.status /\ h.heard = k.heard
      /\ h.stream = k.stream
  BY DEF Begun, Shaped, Fields
<1>3. setup_cgi(k, length) = r \/ setup_cgi(k, length) = Collect(h)
  BY Zenon DEF setup_cgi
<1> HIDE DEF r, h
<1>4. Begun(r, q, files) /\ Begun(h, q, files)
  BY <1>1, <1>2, Zenon DEF Begun, Shaped, Silent
<1>5. Fits(r, k, q, files)
  BY <1>1, <1>4, BegunFits
<1>6. Fits(Collect(h), h, q, files)
  BY <1>4, CollectFits
<1>7. Fits(Collect(h), k, q, files)
  BY <1>2, <1>6, Zenon DEF Fits, Steady
<1> QED
  BY <1>3, <1>5, <1>7

LEMMA AnswerErrorFits ==
  ASSUME NEW k, NEW q \in Requests, NEW files, Filed(files), Begun(k, q, files)
  PROVE  Fits(AnswerError(k, q, files), k, q, files)
<1> DEFINE h == [k EXCEPT !.written = FeedCapacity(k.buf), !.buf = Clear(@)]
           r == [h EXCEPT !.state = "DISCARD_BODY"]
<1>1. /\ DOMAIN h = Fields /\ h.buf = Clear(k.buf) /\ h.headers = k.headers /\ h.body = k.body
      /\ h.temp = k.temp /\ h.answer = k.answer /\ h.status = k.status /\ h.heard = k.heard
      /\ h.stream = k.stream
  BY DEF Begun, Shaped, Fields
<1>2. /\ DOMAIN r = Fields /\ r.buf = Clear(k.buf) /\ r.headers = k.headers /\ r.body = k.body
      /\ r.temp = k.temp /\ r.answer = k.answer /\ r.status = k.status /\ r.heard = k.heard
      /\ r.stream = k.stream /\ r.state = "DISCARD_BODY"
  BY DEF Begun, Shaped, Fields
<1>3. \/ AnswerError(k, q, files) = setup_cgi(k, 0)
      \/ AnswerError(k, q, files) = AnswerPage(k, files)
      \/ AnswerError(k, q, files) = AnswerPage(h, files)
      \/ AnswerError(k, q, files) = r
  BY Zenon DEF AnswerError
<1>4. Solid(Clear(k.buf))
  BY SolidClear DEF Begun, Shaped
<1> HIDE DEF h, r
<1>5. Begun(r, q, files) /\ Begun(h, q, files)
  <2>1. Begun(r, q, files)
    BY <1>2, <1>4, Zenon DEF Begun, Shaped, Silent
  <2>2. Begun(h, q, files)
    BY <1>1, <1>4, Zenon DEF Begun, Shaped, Silent
  <2> QED
    BY <2>1, <2>2
<1>6. Fits(r, k, q, files)
  BY <1>2, <1>5, BegunFits
<1>7. Fits(AnswerPage(h, files), h, q, files) /\ Fits(AnswerPage(k, files), k, q, files)
  BY <1>5, AnswersFit
<1>8. Fits(AnswerPage(h, files), k, q, files)
  BY <1>1, <1>7, Zenon DEF Fits, Steady
<1> QED
  BY <1>3, <1>6, <1>7, <1>8, SetupCgiFits

\* What is in the buffer is stored.
LEMMA StoreBodyFits ==
  ASSUME NEW k, NEW q \in Requests, NEW files, Filed(files), Begun(k, q, files)
  PROVE  Fits(StoreBody(k, q, files), k, q, files)
<1> DEFINE p == k.stream.pending \o Unfed(k.buf)
           t == [k.stream EXCEPT !.pending = p]
           h == Stored(k)
           r == [h EXCEPT !.state = "REQ_BODY"]
<1>1. /\ DOMAIN h = Fields /\ h.buf = Clear(k.buf) /\ h.headers = k.headers /\ h.body = k.body
      /\ h.temp = k.temp /\ h.answer = k.answer /\ h.status = k.status /\ h.heard = k.heard
      /\ h.stream = t
  BY DEF Stored, Begun, Shaped, Fields
<1>2. /\ DOMAIN t = StreamFields /\ t.mode = k.stream.mode /\ t.file = k.stream.file
      /\ t.pos = k.stream.pos /\ t.pending = p
  BY DEF Begun, Shaped, StreamIs, StreamFields
<1>3. p \in Seq(STRING)
  <2>1. Unfed(k.buf) \in Seq(STRING) /\ k.stream.pending \in Seq(STRING)
    BY SolidIs DEF Begun, Shaped, StreamIs
  <2> QED
    BY <2>1, Appended, Zenon
<1>4. Solid(Clear(k.buf))
  BY SolidClear DEF Begun, Shaped
<1>5. StoreBody(k, q, files) = r \/ StoreBody(k, q, files) = AnswerUpload(h, files)
  BY Zenon DEF StoreBody
<1> HIDE DEF h, t, p
<1>6. StreamIs(t, files)
  BY <1>2, <1>3 DEF Begun, Shaped, StreamIs
<1>7. Begun(h, q, files)
  BY <1>1, <1>2, <1>4, <1>6, Zenon DEF Begun, Shaped, Silent
<1>8. /\ DOMAIN r = Fields /\ r.buf = h.buf /\ r.headers = h.headers /\ r.body = h.body
      /\ r.temp = h.temp /\ r.answer = h.answer /\ r.status = h.status /\ r.heard = h.heard
      /\ r.stream = h.stream /\ r.state = "REQ_BODY"
  BY <1>1 DEF Fields
<1> HIDE DEF r
<1>9. Begun(r, q, files)
  BY <1>7, <1>8, Zenon DEF Begun, Shaped, Silent
<1>10. Fits(r, k, q, files)
  BY <1>8, <1>9, BegunFits
<1>11. Fits(AnswerUpload(h, files), h, q, files)
  BY <1>7, AnswersFit
<1>12. Fits(AnswerUpload(h, files), k, q, files)
  BY <1>1, <1>2, <1>11, Zenon DEF Fits, Steady
<1> QED
  BY <1>5, <1>10, <1>12

\* handle_setup(), with no stream open yet.
LEMMA SetupFits ==
  ASSUME NEW k, NEW q \in Requests, NEW files, Filed(files), Begun(k, q, files),
         k.stream.mode = "none"
  PROVE  Fits(handle_setup(k, q, files), k, q, files)
<1> DEFINE r == handle_setup(k, q, files)
           With(x) == [k EXCEPT !.status = x]
<1>1. ASSUME NEW x \in STRING PROVE Begun(With(x), q, files) /\ With(x).stream = k.stream
  <2> DEFINE h == With(x)
  <2>1. /\ DOMAIN h = Fields /\ h.buf = k.buf /\ h.headers = k.headers /\ h.body = k.body
        /\ h.temp = k.temp /\ h.answer = k.answer /\ h.status = x /\ h.heard = k.heard
        /\ h.stream = k.stream
    BY DEF Begun, Shaped, Fields
  <2> HIDE DEF h
  <2>2. Begun(h, q, files)
    BY <2>1, Zenon DEF Begun, Shaped, Silent
  <2> QED
    BY <2>1, <2>2 DEF h
<1>2. ASSUME NEW h, Owes(h, q, files) PROVE Fits(h, k, q, files)
  BY <1>2 DEF Fits, Steady
<1>3. ASSUME NEW x \in STRING PROVE Owes(Refuse(k, x, q, files), q, files)
  <2>1. Fits(AnswerError(With(x), q, files), With(x), q, files)
    BY <1>1, AnswerErrorFits
  <2> QED
    BY <2>1, Zenon DEF Refuse, Fits
<1>4. "200" \in STRING /\ "413" \in STRING /\ "500" \in STRING /\ "404" \in STRING
  BY WordsAssumption
<1> DEFINE ok == With("200")
<1>5. Begun(ok, q, files) /\ ok.stream.mode = "none"
  BY <1>1, <1>4
<1> HIDE DEF With
<1>6. ASSUME k.status # "none" PROVE Owes(r, q, files)
  BY <1>6, AnswerErrorFits, Zenon DEF handle_setup, Fits
<1>7. Owes(setup_post(k, q, files), q, files)
  <2> DEFINE t == Stream("out", q.file)
             h == [k EXCEPT !.status = PostStatus(q.file, files), !.written = 0, !.stream = t]
  <2>1. StreamIs(t, files) /\ t.mode # "in"
    <3>1. t.mode = "out"
      BY DEF Stream, NoStream
    <3> QED
      BY <3>1, StreamNewIs
  <2> HIDE DEF t
  <2>2. /\ DOMAIN h = Fields /\ h.buf = k.buf /\ h.headers = k.headers /\ h.body = k.body
        /\ h.temp = k.temp /\ h.answer = k.answer /\ h.heard = k.heard
        /\ h.status = PostStatus(q.file, files) /\ h.stream = t
    BY DEF Begun, Shaped, Fields
  <2> HIDE DEF h
  <2>3. h.status \in STRING
    BY <2>2, WordsAssumption DEF PostStatus
  <2>4. Begun(h, q, files)
    BY <2>1, <2>2, <2>3, Zenon DEF Begun, Shaped, Silent
  <2>5. Fits(StoreBody(h, q, files), h, q, files)
    BY <2>4, StoreBodyFits
  <2>6. setup_post(k, q, files) = Refuse(k, "500", q, files) \/ setup_post(k, q, files) = StoreBody(h, q, files)
    BY Zenon DEF setup_post, h, t
  <2> QED
    BY <1>3, <1>4, <2>5, <2>6, Zenon DEF Fits
<1>8. ASSUME NEW n PROVE Owes(setup_cgi(ok, n), q, files)
  BY <1>5, SetupCgiFits, Zenon DEF Fits
<1>9. Owes(AnswerListing(ok, q, files), q, files)
  BY <1>5, AnswersFit DEF Fits
<1>10. q.file \in DOMAIN files => Owes(AnswerFile(ok, q.file, files), q, files)
  BY <1>5, AnswersFit DEF Fits
<1>11. ASSUME k.status = "none" PROVE Owes(r, q, files)
  <2>1. q.route \in Routes
    BY DEF Requests
  <2>2. \/ r = Refuse(k, "413", q, files)
        \/ r = setup_post(k, q, files)
        \/ \E n : r = setup_cgi(ok, n)
        \/ r = AnswerListing(ok, q, files)
        \/ q.file \in DOMAIN files /\ r = AnswerFile(ok, q.file, files)
        \/ r = Refuse(k, "404", q, files)
    BY <1>11, <2>1, Zenon DEF handle_setup, Routes, With
  <2> HIDE DEF r, ok
  <2> QED
    BY <1>3, <1>4, <1>7, <1>8, <1>9, <1>10, <2>2, Zenon
<1> QED
  BY <1>2, <1>6, <1>11

-----------------------------------------------------------------------------
(* The handlers, until there is an answer                                     *)

\* A connection whose head is read.
Starts(k, q, files) ==
    /\ Begun(k, q, files)
    /\ k.stream.mode = "none" /\ k.buf.writepos = 0
    /\ k.state \in {"REQ_LINE", "REQ_HEADERS", "REQ_SETUP"}

LEMMA FailStarts ==
  ASSUME NEW k, NEW q, NEW files, Starts(k, q, files), NEW x \in STRING
  PROVE  Starts(Fail(k, x), q, files)
<1> DEFINE r == Fail(k, x)
<1>1. /\ DOMAIN r = Fields /\ r.buf = k.buf /\ r.headers = k.headers /\ r.body = k.body
      /\ r.temp = k.temp /\ r.answer = k.answer /\ r.status = x /\ r.heard = k.heard
      /\ r.stream = k.stream /\ r.state = "REQ_SETUP"
  BY DEF Fail, Starts, Begun, Shaped, Fields
<1> HIDE DEF r
<1>2. Begun(r, q, files)
  BY <1>1, Zenon DEF Starts, Begun, Shaped, Silent
<1>3. Starts(r, q, files)
  BY <1>1, <1>2, Zenon DEF Starts
<1> QED
  BY <1>3 DEF r

LEMMA LineStarts ==
  ASSUME NEW q \in Requests, NEW k, NEW files, Starts(k, q, files)
  PROVE  Starts(handle_req_line(k), q, files)
<1> DEFINE r == handle_req_line(k)
           S == Ends(k.buf.data)
           b == Erase(k.buf, Min(S) + 1)
           h == [k EXCEPT !.state = "REQ_HEADERS", !.buf = b]
           flaws == Flaws(LineTo(k.buf.data, Min(S)))
<1>1. Solid(k.buf) /\ k.buf.writepos = 0
  BY DEF Starts, Begun, Shaped
<1>2. ASSUME S # {} PROVE Solid(b) /\ b.writepos = 0
  <2>1. S \subseteq Nat
    BY <1>1 DEF Ends, Solid
  <2>2. Min(S) \in Nat
    BY <1>2, <2>1, FirstExists, Zenon
  <2> HIDE DEF S
  <2>3. Min(S) + 1 \in Nat
    BY <2>2
  <2> QED
    BY <1>1, <2>3, EraseUnfed, Zenon
<1>3. /\ DOMAIN h = Fields /\ h.buf = b /\ h.headers = k.headers /\ h.body = k.body
      /\ h.temp = k.temp /\ h.answer = k.answer /\ h.status = k.status /\ h.heard = k.heard
      /\ h.stream = k.stream /\ h.state = "REQ_HEADERS"
  BY DEF Starts, Begun, Shaped, Fields
<1>5. "414" \in STRING /\ \A x \in flaws : x \in STRING
  <2>1. flaws \subseteq {"400", "501", "505"}
    <3> DEFINE line == LineTo(k.buf.data, Min(S))
    <3> HIDE DEF line
    <3>1. Flaws(line) \subseteq {"400", "501", "505"}
      BY DEF Flaws
    <3> QED
      BY <3>1 DEF line
  <2> HIDE DEF flaws
  <2> QED
    BY <2>1, WordsAssumption
<1>6. \/ r = Fail(k, "414")
      \/ r = k
      \/ flaws # {} /\ r = Fail(k, CHOOSE f \in flaws : TRUE)
      \/ S # {} /\ r = h
  BY Zenon DEF handle_req_line
<1> HIDE DEF r, h, b, S, flaws
<1>7. ASSUME S # {} PROVE Starts(h, q, files)
  <2>1. Begun(h, q, files)
    BY <1>2, <1>3, <1>7, Zenon DEF Starts, Begun, Shaped, Silent
  <2> QED
    BY <1>2, <1>3, <1>7, <2>1, Zenon DEF Starts
<1>8. Starts(r, q, files)
  <2>1. CASE r = Fail(k, "414")
    BY <1>5, <2>1, FailStarts
  <2>2. CASE r = k
    BY <2>2
  <2>3. CASE flaws # {} /\ r = Fail(k, CHOOSE f \in flaws : TRUE)
    <3>1. (CHOOSE f \in flaws : TRUE) \in STRING
      BY <1>5, <2>3
    <3> QED
      BY <2>3, <3>1, FailStarts
  <2>4. CASE S # {} /\ r = h
    BY <1>7, <2>4
  <2> QED
    BY <1>6, <2>1, <2>2, <2>3, <2>4
<1> QED
  BY <1>8 DEF r

LEMMA HeadersStart ==
  ASSUME NEW q \in Requests, NEW k, NEW files, Starts(k, q, files)
  PROVE  Starts(handle_req_headers(k, q), q, files)
<1> DEFINE r == handle_req_headers(k, q)
           d == k.buf.data
           stops == Stops(k, d)
           read == {e \in Ends(d) : stops = {} \/ e < Min(stops)}
           b == IF read = {} THEN k.buf ELSE Erase(k.buf, Max(read) + 1)
           rest == [k EXCEPT !.fields = Insert(@, d, read),
                             !.buf = IF read = {} THEN @ ELSE Erase(@, Max(read) + 1)]
           h == [rest EXCEPT !.buf = Erase(@, 2), !.written = 0]
<1>1. Solid(k.buf) /\ k.buf.writepos = 0
  BY DEF Starts, Begun, Shaped
<1>2. Solid(b) /\ b.writepos = 0
  <2>1. CASE read = {}
    BY <1>1, <2>1
  <2>2. CASE read # {}
    <3>1. d \in Seq(STRING)
      BY <1>1 DEF Solid
    <3>2. Ends(d) \subseteq 0..Len(d) /\ Len(d) \in Nat
      <4> HIDE DEF d
      <4> QED
        BY <3>1 DEF Ends
    <3>3. read \subseteq 0..Len(d)
      BY <3>2
    <3>4. Max(read) \in 0..Len(d)
      <4> HIDE DEF read, d
      <4> QED
        BY <2>2, <3>2, <3>3, LastExists
    <3> HIDE DEF read
    <3>5. Max(read) + 1 \in Nat
      BY <3>2, <3>4
    <3> QED
      BY <1>1, <2>2, <3>5, EraseUnfed
  <2> QED
    BY <2>1, <2>2
<1>3. /\ DOMAIN rest = Fields /\ rest.buf = b /\ rest.headers = k.headers
      /\ rest.body = k.body /\ rest.temp = k.temp /\ rest.answer = k.answer
      /\ rest.status = k.status /\ rest.heard = k.heard /\ rest.stream = k.stream
      /\ rest.state = k.state
  <2> HIDE DEF read, d
  <2> QED
    BY DEF Starts, Begun, Shaped, Fields
<1> HIDE DEF b, rest
<1>4. Starts(rest, q, files)
  <2>1. Begun(rest, q, files)
    BY <1>2, <1>3, Zenon DEF Starts, Begun, Shaped, Silent
  <2> QED
    BY <1>2, <1>3, <2>1, Zenon DEF Starts
<1>5. /\ DOMAIN h = Fields /\ h.buf = Erase(rest.buf, 2) /\ h.headers = rest.headers
      /\ h.body = rest.body /\ h.temp = rest.temp /\ h.answer = rest.answer
      /\ h.status = rest.status /\ h.heard = rest.heard /\ h.stream = rest.stream
      /\ h.state = rest.state
  BY <1>3 DEF Fields
<1>6. Solid(Erase(rest.buf, 2)) /\ Erase(rest.buf, 2).writepos = 0
  BY <1>2, <1>3, EraseUnfed
<1> HIDE DEF h, read, stops
<1>7. Starts(h, q, files)
  <2>1. Begun(h, q, files)
    BY <1>4, <1>5, <1>6, Zenon DEF Starts, Begun, Shaped, Silent
  <2> QED
    BY <1>4, <1>5, <1>6, <2>1, Zenon DEF Starts
<1>8. \E x \in {"400", "411", h.status} : parse_req_headers(h, q) = Fail(h, x)
  BY Zenon DEF parse_req_headers
<1>9. {"400", "411", "431", h.status} \subseteq STRING
  BY <1>7, WordsAssumption DEF Starts, Begun, Shaped
<1>10. \/ r = Fail(rest, "431")
       \/ r = Fail(rest, "400")
       \/ r = rest
       \/ r = parse_req_headers(h, q)
  BY Zenon DEF handle_req_headers, rest, h, read, stops
<1>11. Starts(r, q, files)
  <2> HIDE DEF r
  <2> QED
    BY <1>4, <1>7, <1>8, <1>9, <1>10, FailStarts
<1> QED
  BY <1>11 DEF r

\* Reading more of the request.
LEMMA ReadMoreBegun ==
  ASSUME NEW q \in Requests, NEW k, NEW files, Begun(k, q, files),
         k.taken \in 0..Len(Sent(q)), NEW n \in Nat, k.taken + n <= Len(Sent(q))
  PROVE  LET r == FillRequest(k, q, n)
         IN /\ Begun(r, q, files) /\ r.state = k.state /\ r.stream = k.stream
            /\ r.buf.writepos = k.buf.writepos
<1> DEFINE s == Sent(q)
           x == SubSeq(s, k.taken + 1, k.taken + n)
           r == FillRequest(k, q, n)
<1>1. /\ DOMAIN r = Fields /\ r.buf = Fill(k.buf, x) /\ r.headers = k.headers /\ r.body = k.body
      /\ r.temp = k.temp /\ r.answer = k.answer /\ r.status = k.status /\ r.heard = k.heard
      /\ r.stream = k.stream /\ r.state = k.state
  BY DEF FillRequest, Begun, Shaped, Fields
<1>2. x \in Seq(STRING)
  <2>1. s \in Seq(STRING)
    BY SentIs
  <2> HIDE DEF s
  <2>2. k.taken + 1 \in Nat /\ k.taken + 1 > 0 /\ k.taken + n \in Int /\ k.taken + n <= Len(s)
    BY <2>1 DEF s
  <2> QED
    BY <2>1, <2>2, Piece
<1> HIDE DEF x, r
<1>3. Solid(Fill(k.buf, x)) /\ Fill(k.buf, x).writepos = k.buf.writepos
  <2>1. Solid(k.buf)
    BY DEF Begun, Shaped
  <2> QED
    BY <1>2, <2>1, SolidFill DEF Fill, Solid, BufferFields
<1>4. Begun(r, q, files)
  BY <1>1, <1>3, Zenon DEF Begun, Shaped, Silent
<1> QED
  BY <1>1, <1>3, <1>4 DEF r

LEMMA HeadFits ==
  ASSUME NEW q \in Requests, NEW k, NEW files, Filed(files), Starts(k, q, files),
         k.state \in {"REQ_LINE", "REQ_HEADERS"},
         k.taken \in 0..Len(Sent(q)), NEW n \in Nat, k.taken + n <= Len(Sent(q))
  PROVE  Fits(handle_head(k, q, n, files), k, q, files)
<1> DEFINE cleared == [k EXCEPT !.buf = IF FeedCapacity(@) = 0 THEN Clear(@) ELSE @]
           filled == FillRequest(cleared, q, n)
           lined == IF k.state = "REQ_LINE" THEN handle_req_line(filled) ELSE filled
           headed == IF lined.state = "REQ_HEADERS" THEN handle_req_headers(lined, q) ELSE lined
           judged == Judged(headed)
<1>1. Starts(cleared, q, files) /\ cleared.taken = k.taken
  <2>1. /\ DOMAIN cleared = Fields /\ cleared.headers = k.headers /\ cleared.body = k.body
        /\ cleared.temp = k.temp /\ cleared.answer = k.answer /\ cleared.status = k.status
        /\ cleared.heard = k.heard /\ cleared.stream = k.stream /\ cleared.taken = k.taken
        /\ cleared.buf \in {k.buf, Clear(k.buf)} /\ cleared.state = k.state
    BY DEF Starts, Begun, Shaped, Fields
  <2>2. Solid(Clear(k.buf)) /\ Clear(k.buf).writepos = 0 /\ Solid(k.buf) /\ k.buf.writepos = 0
    BY SolidClear DEF Starts, Begun, Shaped, Solid, Clear, BufferFields
  <2> HIDE DEF cleared
  <2>3. Solid(cleared.buf) /\ cleared.buf.writepos = 0
    BY <2>1, <2>2
  <2>4. Begun(cleared, q, files)
    BY <2>1, <2>3, Zenon DEF Starts, Begun, Shaped, Silent
  <2> QED
    BY <2>1, <2>3, <2>4, Zenon DEF Starts
<1> HIDE DEF cleared
<1>2. Starts(filled, q, files)
  <2>1. /\ Begun(filled, q, files) /\ filled.stream = cleared.stream
        /\ filled.state = cleared.state /\ filled.buf.writepos = cleared.buf.writepos
    BY <1>1, ReadMoreBegun DEF Starts
  <2> HIDE DEF filled
  <2> QED
    BY <1>1, <2>1 DEF Starts
<1> HIDE DEF filled
<1>3. Starts(lined, q, files)
  BY <1>2, LineStarts
<1> HIDE DEF lined
<1>4. Starts(headed, q, files)
  BY <1>3, HeadersStart
<1> HIDE DEF headed
<1>5. CASE headed.state = "REQ_SETUP"
  <2>1. /\ DOMAIN judged = Fields /\ judged.buf = headed.buf /\ judged.headers = headed.headers
        /\ judged.body = headed.body /\ judged.temp = headed.temp /\ judged.answer = headed.answer
        /\ judged.status = headed.status /\ judged.heard = headed.heard /\ judged.stream = headed.stream
    BY <1>4, <1>5 DEF Judged, Starts, Begun, Shaped, Fields
  <2> HIDE DEF judged
  <2>2. Begun(judged, q, files) /\ judged.stream.mode = "none"
    BY <1>4, <2>1, Zenon DEF Starts, Begun, Shaped, Silent
  <2>3. Owes(handle_setup(judged, q, files), q, files)
    BY <2>2, SetupFits DEF Fits
  <2>4. handle_head(k, q, n, files) = handle_setup(judged, q, files)
    BY <1>5, Zenon DEF handle_head, judged, headed, lined, filled, cleared
  <2> QED
    BY <2>3, <2>4 DEF Fits, Steady, Starts
<1>6. CASE headed.state # "REQ_SETUP"
  <2>1. handle_head(k, q, n, files) = headed
    BY <1>6, Zenon DEF handle_head, headed, lined, filled, cleared
  <2>2. headed.state \in {"REQ_LINE", "REQ_HEADERS"}
    BY <1>4, <1>6 DEF Starts
  <2>3. Owes(headed, q, files)
    BY <1>4, <2>2 DEF Starts, Begun, Owes
  <2> QED
    BY <2>1, <2>3 DEF Fits, Steady, Starts
<1> QED
  BY <1>5, <1>6

LEMMA DiscardFits ==
  ASSUME NEW q \in Requests, NEW k, NEW files, Filed(files), Begun(k, q, files),
         k.state = "DISCARD_BODY", NEW n
  PROVE  Fits(handle_discard(k, q, n, files), k, q, files)
<1> DEFINE h == [k EXCEPT !.buf = Clear(@), !.taken = @ + n, !.written = @ + n]
<1>1. /\ DOMAIN h = Fields /\ h.buf = Clear(k.buf) /\ h.headers = k.headers /\ h.body = k.body
      /\ h.temp = k.temp /\ h.answer = k.answer /\ h.status = k.status /\ h.heard = k.heard
      /\ h.stream = k.stream /\ h.state = "DISCARD_BODY"
  BY DEF Begun, Shaped, Fields
<1>2. Solid(Clear(k.buf))
  BY SolidClear DEF Begun, Shaped
<1>3. \/ handle_discard(k, q, n, files) = AnswerPage(h, files)
      \/ handle_discard(k, q, n, files) = h
  BY Zenon DEF handle_discard, h
<1> HIDE DEF h
<1>4. Begun(h, q, files)
  BY <1>1, <1>2, Zenon DEF Begun, Shaped, Silent
<1>5. Fits(h, k, q, files)
  BY <1>1, <1>4, BegunFits
<1>6. Fits(AnswerPage(h, files), h, q, files)
  BY <1>4, AnswersFit
<1>7. Fits(AnswerPage(h, files), k, q, files)
  BY <1>1, <1>6, Zenon DEF Fits, Steady
<1> QED
  BY <1>3, <1>5, <1>7

LEMMA BodyFits ==
  ASSUME NEW q \in Requests, NEW k, NEW files, Filed(files), Begun(k, q, files),
         k.taken \in 0..Len(Sent(q)), NEW n \in Nat, k.taken + n <= Len(Sent(q))
  PROVE  /\ Fits(handle_post(k, q, n, files), k, q, files)
         /\ Fits(read_cgi_body(k, q, n), k, q, files)
<1> DEFINE h == FillRequest(k, q, n)
           r == [h EXCEPT !.state = "CGI_TRANSMIT_BODY"]
<1>1. Begun(h, q, files) /\ h.stream = k.stream
  BY ReadMoreBegun
<1>2. handle_post(k, q, n, files) = StoreBody(h, q, files) /\ read_cgi_body(k, q, n) = r
  BY Zenon DEF handle_post, read_cgi_body
<1> HIDE DEF h
<1>3. Fits(StoreBody(h, q, files), h, q, files)
  BY <1>1, StoreBodyFits
<1>4. Fits(StoreBody(h, q, files), k, q, files)
  BY <1>1, <1>3, Zenon DEF Fits, Steady
<1>5. /\ DOMAIN r = Fields /\ r.buf = h.buf /\ r.headers = h.headers /\ r.body = h.body
      /\ r.temp = h.temp /\ r.answer = h.answer /\ r.status = h.status /\ r.heard = h.heard
      /\ r.stream = h.stream /\ r.state = "CGI_TRANSMIT_BODY"
  BY <1>1 DEF Begun, Shaped, Fields
<1> HIDE DEF r
<1>6. Begun(r, q, files)
  BY <1>1, <1>5, Zenon DEF Begun, Shaped, Silent
<1>7. Fits(r, k, q, files)
  BY <1>5, <1>6, BegunFits
<1> QED
  BY <1>2, <1>4, <1>7

LEMMA InputFits ==
  ASSUME NEW q, NEW k, NEW files, Begun(k, q, files), k.state = "CGI_TRANSMIT_BODY",
         NEW n \in 0..FeedCapacity(k.buf)
  PROVE  Fits(handle_cgi_input(k, q, n), k, q, files)
<1> DEFINE fed == [k EXCEPT !.given = @ \o SubSeq(Unfed(k.buf), 1, n), !.buf = Feed(@, n),
                            !.written = @ + n]
           empty == [fed EXCEPT !.buf = Clear(@)]
           back == [empty EXCEPT !.state = "REQ_BODY"]
           r == handle_cgi_input(k, q, n)
<1>1. /\ DOMAIN fed = Fields /\ fed.buf = Feed(k.buf, n) /\ fed.headers = k.headers
      /\ fed.body = k.body /\ fed.temp = k.temp /\ fed.answer = k.answer
      /\ fed.status = k.status /\ fed.heard = k.heard /\ fed.stream = k.stream
      /\ fed.state = k.state
  BY DEF Begun, Shaped, Fields
<1>2. Solid(Feed(k.buf, n))
  <2>1. /\ Feed(k.buf, n).data = k.buf.data /\ Feed(k.buf, n).writepos = k.buf.writepos + n
        /\ Feed(k.buf, n).capacity = k.buf.capacity /\ DOMAIN Feed(k.buf, n) = BufferFields
    BY DEF Feed, Begun, Shaped, Solid, BufferFields
  <2>2. k.buf.writepos + n \in Int /\ k.buf.writepos + n <= Len(k.buf.data)
    BY DEF FeedCapacity, Begun, Shaped, Solid
  <2> QED
    BY <2>1, <2>2 DEF Begun, Shaped, Solid
<1>3. r = fed \/ r = Collect(empty) \/ r = back
  BY Zenon DEF handle_cgi_input
<1> HIDE DEF fed, r
<1>4. Begun(fed, q, files)
  BY <1>1, <1>2, Zenon DEF Begun, Shaped, Silent
<1>5. /\ DOMAIN empty = Fields /\ empty.buf = Clear(fed.buf) /\ empty.headers = fed.headers
      /\ empty.body = fed.body /\ empty.temp = fed.temp /\ empty.answer = fed.answer
      /\ empty.status = fed.status /\ empty.heard = fed.heard /\ empty.stream = fed.stream
  BY <1>1 DEF Fields
<1>6. Solid(Clear(fed.buf))
  BY <1>4, SolidClear DEF Begun, Shaped
<1> HIDE DEF empty
<1>7. Begun(empty, q, files)
  BY <1>4, <1>5, <1>6, Zenon DEF Begun, Shaped, Silent
<1>8. /\ DOMAIN back = Fields /\ back.buf = empty.buf /\ back.headers = empty.headers
      /\ back.body = empty.body /\ back.temp = empty.temp /\ back.answer = empty.answer
      /\ back.status = empty.status /\ back.heard = empty.heard /\ back.stream = empty.stream
      /\ back.state = "REQ_BODY"
  BY <1>5 DEF Fields
<1> HIDE DEF back
<1>9. Begun(back, q, files)
  BY <1>7, <1>8, Zenon DEF Begun, Shaped, Silent
<1>10. Fits(fed, k, q, files) /\ Fits(back, k, q, files)
  BY <1>1, <1>4, <1>8, <1>9, BegunFits
<1>11. Fits(Collect(empty), empty, q, files)
  BY <1>7, CollectFits
<1>12. Fits(Collect(empty), k, q, files)
  BY <1>1, <1>5, <1>11, Zenon DEF Fits, Steady
<1>13. Fits(r, k, q, files)
  BY <1>3, <1>10, <1>12
<1> QED
  BY <1>13 DEF r

\* The head of what a script writes is passed on.
LEMMA BeginBodyBegun ==
  ASSUME NEW q, NEW k, NEW files, Begun(k, q, files)
  PROVE  Begun(BeginBody(k), q, files) /\ BeginBody(k).state = "CGI_BODY"
<1> DEFINE d == k.buf.data
           y == Lines(<<ScriptStatus(d)>>) \o ScriptFields(d)
           b == Erase(k.buf, HeadEnd(d))
           t == IF k.stream.mode = "none" THEN Stream("out", "temp")
                ELSE [k.stream EXCEPT !.good = FALSE]
           r == BeginBody(k)
<1>1. /\ DOMAIN r = Fields /\ r.buf = b /\ r.headers = y /\ r.body = k.body
      /\ r.temp = <<>> /\ r.answer = k.answer /\ r.status = ScriptStatus(d) /\ r.heard = k.heard
      /\ r.stream = t /\ r.state = "CGI_BODY"
  BY DEF BeginBody, Begun, Shaped, Fields
<1>2. d \in Seq(STRING) /\ Solid(k.buf)
  BY DEF Begun, Shaped, Solid
<1>3. Solid(b)
  <2>1. HeadEnd(d) \in 0..Len(d)
    BY <1>2, HeadEndIs
  <2> DEFINE n == HeadEnd(d)
  <2>2. n \in Nat /\ n <= Len(d)
    <3> HIDE DEF n
    <3>1. n \in 0..Len(d)
      BY <2>1 DEF n
    <3> QED
      BY <3>1
  <2> QED
    BY <1>2, <2>2, SolidErase
<1>4. y \in Seq(STRING) /\ ScriptStatus(d) \in STRING
  <2>1. ScriptStatus(d) \in STRING /\ ScriptFields(d) \in Seq(STRING)
    BY <1>2, ScriptStatusTyped, ScriptFieldsTyped
  <2> DEFINE x == <<ScriptStatus(d)>>
  <2>2. x \in Seq(STRING)
    BY <2>1
  <2> HIDE DEF x
  <2>3. Lines(x) \in Seq(STRING)
    BY <2>2, LinesTyped
  <2>4. Lines(x) \o ScriptFields(d) \in Seq(STRING)
    BY <2>1, <2>3, Appended, Zenon
  <2> QED
    BY <2>1, <2>4 DEF x
<1>5. StreamIs(t, files) /\ t.mode # "in"
  <2>1. StreamIs(Stream("out", "temp"), files) /\ Stream("out", "temp").mode # "in"
    <3>1. Stream("out", "temp").mode = "out"
      BY DEF Stream, NoStream
    <3> QED
      BY <3>1, StreamNewIs
  <2> DEFINE u == [k.stream EXCEPT !.good = FALSE]
  <2>2. /\ DOMAIN u = StreamFields /\ u.mode = k.stream.mode /\ u.file = k.stream.file
        /\ u.pos = k.stream.pos /\ u.pending = k.stream.pending
    BY DEF Begun, Shaped, StreamIs, StreamFields
  <2> HIDE DEF u
  <2>3. StreamIs(u, files) /\ u.mode # "in"
    BY <2>2 DEF Begun, Shaped, StreamIs, Silent
  <2>4. t = Stream("out", "temp") \/ t = u
    BY DEF u
  <2> QED
    BY <2>1, <2>3, <2>4
<1>6. <<>> \in Seq(STRING)
  OBVIOUS
<1> HIDE DEF r, b, y, t
<1>7. Begun(r, q, files)
  BY <1>1, <1>3, <1>4, <1>5, <1>6, Zenon DEF Begun, Shaped, Silent
<1> QED
  BY <1>1, <1>7 DEF r

LEMMA SpoolBodyBegun ==
  ASSUME NEW q, NEW k, NEW files, Begun(k, q, files)
  PROVE  Begun(SpoolBody(k), q, files) /\ SpoolBody(k).state = k.state
<1> DEFINE w == k.temp \o Unfed(k.buf)
           x == IF k.stream.good THEN w ELSE k.temp
           h == [k EXCEPT !.temp = IF k.stream.good THEN @ \o Unfed(k.buf) ELSE @, !.buf = Clear(@)]
<1>1. /\ DOMAIN h = Fields /\ h.buf = Clear(k.buf) /\ h.headers = k.headers /\ h.body = k.body
      /\ h.temp = x /\ h.answer = k.answer /\ h.status = k.status /\ h.heard = k.heard
      /\ h.stream = k.stream /\ h.state = k.state
  BY DEF Begun, Shaped, Fields
<1>2. x \in Seq(STRING)
  <2>1. k.temp \in Seq(STRING) /\ Unfed(k.buf) \in Seq(STRING)
    BY SolidIs DEF Begun, Shaped
  <2>2. w \in Seq(STRING)
    BY <2>1, Appended, Zenon
  <2> HIDE DEF w
  <2> QED
    BY <2>1, <2>2
<1>3. Solid(Clear(k.buf))
  BY SolidClear DEF Begun, Shaped
<1>4. SpoolBody(k) = k \/ SpoolBody(k) = h
  BY Zenon DEF SpoolBody
<1> HIDE DEF h, x
<1>5. Begun(h, q, files)
  BY <1>1, <1>2, <1>3, Zenon DEF Begun, Shaped, Silent
<1> QED
  BY <1>1, <1>4, <1>5

\* What a script wrote is the answer, or it is given up.
LEMMA GivenUpFits ==
  ASSUME NEW q, NEW k, NEW files, Filed(files), Begun(k, q, files)
  PROVE  /\ Fits(BadGateway(k, files), k, q, files)
         /\ Owes(finalize_cgi(k, files), q, files)
         /\ finalize_cgi(k, files).stream.file = "temp"
<1>1. Solid(Clear(k.buf)) /\ Orderly(Clear(k.buf)) /\ Unfed(Clear(k.buf)) = <<>>
  BY SolidClear DEF Begun, Shaped
<1>2. <<"502", "date">> \in Seq(STRING) /\ "502" \in STRING /\ Blank \in Seq(STRING)
  BY WordsAssumption DEF Blank
<1>3. Fits(BadGateway(k, files), k, q, files)
  <2> DEFINE y == Lines(<<"502", "date">>) \o Blank
             h == [k EXCEPT !.status = "502", !.headers = y, !.buf = Clear(@)]
  <2>1. y \in Seq(STRING)
    BY <1>2, LinesTyped, Appended, Zenon
  <2> HIDE DEF y
  <2>2. /\ DOMAIN h = Fields /\ h.buf = Clear(k.buf) /\ h.headers = y /\ h.body = k.body
        /\ h.temp = k.temp /\ h.answer = k.answer /\ h.status = "502" /\ h.heard = k.heard
        /\ h.stream = k.stream
    BY DEF Begun, Shaped, Fields
  <2> HIDE DEF h
  <2>3. Begun(h, q, files)
    BY <1>1, <1>2, <2>1, <2>2, Zenon DEF Begun, Shaped, Silent
  <2>4. Shaped(h, q, files) /\ h.answer = <<>> /\ h.stream.mode # "in"
    BY <2>3 DEF Begun, Silent
  <2>5. Owes(Respond(h, files), q, files)
    BY <1>1, <2>2, <2>4, RespondOwes
  <2>6. Respond(h, files).stream = k.stream
    BY <2>2 DEF Respond, Fields
  <2>7. Steady(Respond(h, files), k)
    BY <2>2, <2>4, <2>6 DEF Steady
  <2>8. BadGateway(k, files) = Respond(h, files)
    BY Zenon DEF BadGateway, h, y
  <2> QED
    BY <2>5, <2>7, <2>8, Zenon DEF Fits
<1>4. Owes(finalize_cgi(k, files), q, files) /\ finalize_cgi(k, files).stream.file = "temp"
  <2> DEFINE y == k.headers \o Blank
             t == Stream("in", "temp")
             h == [k EXCEPT !.stream = t, !.headers = @ \o Blank, !.buf = Clear(@)]
  <2>1. y \in Seq(STRING)
    BY <1>2, Appended, Zenon DEF Begun, Shaped
  <2>2. StreamIs(t, files) /\ t.file = "temp"
    <3>1. t.file = "temp"
      BY DEF Stream, NoStream
    <3> QED
      BY <3>1, StreamNewIs
  <2> HIDE DEF t
  <2>3. /\ DOMAIN h = Fields /\ h.buf = Clear(k.buf) /\ h.headers = y /\ h.body = k.body
        /\ h.temp = k.temp /\ h.answer = k.answer /\ h.status = k.status /\ h.heard = k.heard
        /\ h.stream = t
    BY DEF Begun, Shaped, Fields
  <2> HIDE DEF h, y
  <2>4. Shaped(h, q, files) /\ h.answer = <<>> /\ h.body = <<>>
    BY <1>1, <2>1, <2>2, <2>3, Zenon DEF Begun, Shaped, Silent
  <2>5. Owes(Respond(h, files), q, files)
    BY <1>1, <2>3, <2>4, RespondOwes
  <2>6. Respond(h, files).stream = t
    BY <2>3 DEF Respond, Fields
  <2>7. finalize_cgi(k, files) = Respond(h, files)
    BY Zenon DEF finalize_cgi, h, t
  <2> QED
    BY <2>2, <2>5, <2>6, <2>7, Zenon
<1> QED
  BY <1>3, <1>4

LEMMA OutputFits ==
  ASSUME NEW q \in Requests, NEW k, NEW files, Filed(files), Begun(k, q, files),
         k.state \in {"CGI_HEADERS", "CGI_BODY"},
         NEW n \in 0..Len(q.output) - k.heard, NEW eof
  PROVE  Fits(handle_cgi_output(k, q, n, eof, files), k, q, files)
<1> DEFINE x == SubSeq(q.output, k.heard + 1, k.heard + n)
           filled == [k EXCEPT !.buf = Fill(@, x), !.heard = @ + n]
           begun == IF k.state = "CGI_HEADERS" THEN BeginBody(filled) ELSE filled
           spooled == SpoolBody(begun)
           r == handle_cgi_output(k, q, n, eof, files)
<1>1. /\ DOMAIN filled = Fields /\ filled.buf = Fill(k.buf, x) /\ filled.headers = k.headers
      /\ filled.body = k.body /\ filled.temp = k.temp /\ filled.answer = k.answer
      /\ filled.status = k.status /\ filled.heard = k.heard + n /\ filled.stream = k.stream
      /\ filled.state = k.state
  <2> HIDE DEF x
  <2> QED
    BY DEF Begun, Shaped, Fields
<1>2. /\ k.heard + n \in 0..Len(q.output) /\ k.heard + 1 \in Nat /\ k.heard + 1 > 0
      /\ k.heard + n \in Int /\ k.heard + n <= Len(q.output) /\ q.output \in Seq(STRING)
  <2>1. q.output \in Seq(STRING)
    BY DEF Requests
  <2>2. k.heard \in 0..Len(q.output) /\ Len(q.output) \in Nat
    BY <2>1 DEF Begun, Shaped
  <2> QED
    BY <2>1, <2>2
<1>3. x \in Seq(STRING)
  BY <1>2, Piece
<1>4. Solid(Fill(k.buf, x))
  BY <1>3, SolidFill DEF Begun, Shaped
<1> HIDE DEF x, filled
<1>5. Begun(filled, q, files)
  BY <1>1, <1>2, <1>4, Zenon DEF Begun, Shaped, Silent
<1>6. Begun(begun, q, files) /\ begun.state \in {"CGI_HEADERS", "CGI_BODY"}
  BY <1>1, <1>5, BeginBodyBegun
<1> HIDE DEF begun
<1>7. Begun(spooled, q, files) /\ spooled.state \in {"CGI_HEADERS", "CGI_BODY"}
  BY <1>6, SpoolBodyBegun
<1> HIDE DEF spooled
<1>8. Fits(finalize_cgi(spooled, files), k, q, files)
  BY <1>7, GivenUpFits DEF Fits, Steady
<1>9. Fits(BadGateway(filled, files), k, q, files)
  <2>1. Fits(BadGateway(filled, files), filled, q, files)
    BY <1>5, GivenUpFits
  <2> QED
    BY <1>1, <2>1, Zenon DEF Fits, Steady
<1>10. Fits(filled, k, q, files) /\ Fits(spooled, k, q, files)
  BY <1>1, <1>5, <1>7, BegunFits
<1>11. \/ r = BadGateway(filled, files)
       \/ r = filled
       \/ r = finalize_cgi(spooled, files)
       \/ r = spooled
  BY Zenon DEF handle_cgi_output, spooled, begun, filled, x
<1> HIDE DEF r
<1>12. Fits(r, k, q, files)
  BY <1>8, <1>9, <1>10, <1>11
<1> QED
  BY <1>12 DEF r

-----------------------------------------------------------------------------
(* The buffer is filled with the answer                                       *)

\* What the buffer holds and what is left come to the same.
Moves(r, k, q, files) ==
    /\ Shaped(r, q, files) /\ Orderly(r.buf)
    /\ r.state = k.state /\ r.torn = k.torn /\ r.answer = k.answer /\ r.plan = k.plan
    /\ r.stream.mode = k.stream.mode /\ r.stream.file = k.stream.file
    /\ r.stream.mode = "in" => r.body = <<>>
    /\ Unfed(r.buf) \o Rest(r, files) = Unfed(k.buf) \o Rest(k, files)

\* A sequence in two pieces.
LEMMA Pieces ==
  ASSUME NEW d \in Seq(STRING), NEW n \in 0..Len(d)
  PROVE  /\ SubSeq(d, 1, n) \in Seq(STRING) /\ SubSeq(d, n + 1, Len(d)) \in Seq(STRING)
         /\ SubSeq(d, 1, n) \o SubSeq(d, n + 1, Len(d)) = d
<1>1. 0 \in 0..Len(d) /\ n \in 0..Len(d) - 0 /\ 0 + 1 = 1 /\ 0 + n + 1 = n + 1
  OBVIOUS
<1>2. SubSeq(d, 1, Len(d)) = d
  OBVIOUS
<1>3. LET u == SubSeq(d, 0 + 1, Len(d))
      IN /\ SubSeq(u, 1, n) \in Seq(STRING)
         /\ SubSeq(d, 0 + n + 1, Len(d)) \in Seq(STRING)
         /\ SubSeq(u, 1, n) \o SubSeq(d, 0 + n + 1, Len(d)) = u
  BY <1>1, SplitAt, Zenon
<1> QED
  BY <1>1, <1>2, <1>3

\* Bytes less the first ones, less the first ones again.
LEMMA DroppedTwice ==
  ASSUME NEW s \in Seq(STRING), NEW p \in Nat, NEW n \in Nat,
         NEW d, d = SubSeq(s, p + 1, Len(s)), n <= Len(d)
  PROVE  SubSeq(d, n + 1, Len(d)) = SubSeq(s, (p + n) + 1, Len(s))
<1> DEFINE t == Len(s)
<1>1. t \in Nat /\ t <= Len(s)
  OBVIOUS
<1>2. CASE p <= t
  <2>1. LET e == SubSeq(s, p + 1, t)
            g == IF p + n <= t THEN p + n ELSE t
        IN SubSeq(e, n + 1, Len(e)) = SubSeq(s, g + 1, t)
    BY <1>1, <1>2, MiddleDropped, Zenon
  <2>2. Len(d) = t - p
    BY <1>1, <1>2, Middle
  <2>3. p + n <= t
    BY <1>1, <1>2, <2>2
  <2> QED
    BY <2>1, <2>3, Zenon
<1>3. CASE ~(p <= t)
  <2>1. d = <<>> /\ SubSeq(s, (p + n) + 1, t) = <<>>
    BY <1>1, <1>3
  <2> HIDE DEF t
  <2> QED
    BY <2>1 DEF t
<1> QED
  BY <1>2, <1>3

LEMMA HeadersMove ==
  ASSUME NEW q, NEW k, NEW files, Filed(files), Shaped(k, q, files), Orderly(k.buf),
         k.stream.mode = "in" => k.body = <<>>
  PROVE  Moves(BufferHeaders(k), k, q, files)
<1> DEFINE S == {0} \cup FittingLines(k)
           n == Max(S)
           a == SubSeq(k.headers, 1, n)
           b == SubSeq(k.headers, n + 1, Len(k.headers))
           r == BufferHeaders(k)
           c == Unread(k, files) \o k.body
<1>1. k.headers \in Seq(STRING) /\ k.body \in Seq(STRING) /\ Unread(k, files) \in Seq(STRING)
  BY UnreadTyped DEF Shaped
<1>2. n \in 0..Len(k.headers)
  <2>1. FittingLines(k) \subseteq 0..Len(k.headers) /\ Len(k.headers) \in Nat
    BY <1>1, FeedsAre DEF FittingLines
  <2>2. S \subseteq 0..Len(k.headers) /\ S # {}
    BY <2>1
  <2>3. n \in S
    <3> HIDE DEF S
    <3> QED
      BY <2>1, <2>2, LastExists
  <2> HIDE DEF S, n
  <2> QED
    BY <2>2, <2>3
<1>3. a \in Seq(STRING) /\ b \in Seq(STRING) /\ a \o b = k.headers
  <2> HIDE DEF n
  <2> QED
    BY <1>1, <1>2, Pieces
<1>4. /\ DOMAIN r = Fields /\ r.buf = Fill(k.buf, a) /\ r.headers = b /\ r.body = k.body
      /\ r.temp = k.temp /\ r.answer = k.answer /\ r.status = k.status /\ r.heard = k.heard
      /\ r.stream = k.stream /\ r.state = k.state /\ r.torn = k.torn /\ r.plan = k.plan
  <2> HIDE DEF n
  <2>1. r = [k EXCEPT !.buf = Fill(@, a), !.headers = b]
    BY Zenon DEF BufferHeaders, n, S
  <2> HIDE DEF a, b, r
  <2> QED
    BY <2>1 DEF Shaped, Fields
<1> HIDE DEF S, n, a, b, r
<1>5. Solid(Fill(k.buf, a)) /\ Orderly(Fill(k.buf, a)) /\ Unfed(Fill(k.buf, a)) = Unfed(k.buf) \o a
  BY <1>3, FillIs, SolidFill DEF Shaped
<1>6. Shaped(r, q, files)
  BY <1>3, <1>4, <1>5, Zenon DEF Shaped
<1>7. Unread(r, files) = Unread(k, files)
  BY <1>4, Zenon DEF Unread
<1>8. Unfed(k.buf) \in Seq(STRING) /\ c \in Seq(STRING)
  BY <1>1, UnfedIs, Appended, Zenon
<1>9. Rest(r, files) = b \o c /\ Rest(k, files) = k.headers \o c
  <2> DEFINE x == Unread(k, files)
             y == k.body
             h == k.headers
  <2>1. Rest(r, files) = (b \o x) \o y /\ Rest(k, files) = (h \o x) \o y
    BY <1>4, <1>7, Zenon DEF Rest
  <2>2. x \in Seq(STRING) /\ y \in Seq(STRING) /\ h \in Seq(STRING) /\ c = x \o y
    BY <1>1
  <2> HIDE DEF x, y, h, c
  <2>3. (b \o x) \o y = b \o (x \o y) /\ (h \o x) \o y = h \o (x \o y)
    BY <1>3, <2>2, Associative
  <2> QED
    BY <2>1, <2>2, <2>3 DEF h
<1> HIDE DEF c
<1>10. (Unfed(k.buf) \o a) \o (b \o c) = Unfed(k.buf) \o ((a \o b) \o c)
  <2> DEFINE w == Unfed(k.buf)
  <2>1. w \in Seq(STRING)
    BY <1>8
  <2> HIDE DEF w
  <2>2. (a \o b) \o c = a \o (b \o c) /\ b \o c \in Seq(STRING)
    <3>1. a \in Seq(STRING) /\ b \in Seq(STRING) /\ c \in Seq(STRING)
      BY <1>3, <1>8
    <3>2. a \o (b \o c) = (a \o b) \o c
      BY <3>1, Associative, Zenon
    <3> QED
      BY <3>1, <3>2, Appended
  <2>3. (w \o a) \o (b \o c) = w \o (a \o (b \o c))
    BY <1>3, <2>1, <2>2, Associative
  <2> QED
    BY <2>2, <2>3 DEF w
<1>11. Unfed(r.buf) \o Rest(r, files) = Unfed(k.buf) \o Rest(k, files)
  BY <1>3, <1>4, <1>5, <1>9, <1>10
<1>12. Moves(r, k, q, files)
  BY <1>4, <1>5, <1>6, <1>11, Zenon DEF Moves
<1> QED
  BY <1>12 DEF r

LEMMA BodyMoves ==
  ASSUME NEW q, NEW k, NEW files, Filed(files), Shaped(k, q, files), Orderly(k.buf),
         k.stream.mode = "in" => k.body = <<>>
  PROVE  Moves(BufferBody(k), k, q, files)
<1> DEFINE room == FillCapacity(k.buf) - 1
           n == IF room < Len(k.body) THEN room ELSE Len(k.body)
           a == SubSeq(k.body, 1, n)
           b == SubSeq(k.body, n + 1, Len(k.body))
           h == [k EXCEPT !.buf = Fill(@, a), !.body = b]
           r == BufferBody(k)
<1>1. k.body \in Seq(STRING) /\ Unread(k, files) \in Seq(STRING) /\ Unfed(k.buf) \in Seq(STRING)
  BY UnreadTyped, UnfedIs DEF Shaped
<1>2. Moves(k, k, q, files)
  BY DEF Moves
<1>3. ASSUME k.headers = <<>>, ~(FillCapacity(k.buf) <= 1) PROVE Moves(h, k, q, files)
  <2>1. n \in 0..Len(k.body)
    <3>1. FillCapacity(k.buf) \in Int
      BY DEF FillCapacity, Shaped, Solid
    <3> QED
      BY <1>1, <1>3, <3>1
  <2>2. a \in Seq(STRING) /\ b \in Seq(STRING) /\ a \o b = k.body
    <3> HIDE DEF n
    <3> QED
      BY <1>1, <2>1, Pieces
  <2> HIDE DEF a, b, n
  <2>3. /\ DOMAIN h = Fields /\ h.buf = Fill(k.buf, a) /\ h.headers = k.headers /\ h.body = b
        /\ h.temp = k.temp /\ h.answer = k.answer /\ h.status = k.status /\ h.heard = k.heard
        /\ h.stream = k.stream /\ h.state = k.state /\ h.torn = k.torn /\ h.plan = k.plan
    BY DEF Shaped, Fields
  <2> HIDE DEF h
  <2>4. Solid(Fill(k.buf, a)) /\ Orderly(Fill(k.buf, a)) /\ Unfed(Fill(k.buf, a)) = Unfed(k.buf) \o a
    BY <2>2, FillIs, SolidFill DEF Shaped
  <2>5. Shaped(h, q, files)
    BY <2>2, <2>3, <2>4, Zenon DEF Shaped
  <2>6. Unread(h, files) = Unread(k, files)
    BY <2>3, Zenon DEF Unread
  <2> DEFINE u == Unread(k, files)
             v == Unfed(k.buf)
  <2>7. Rest(h, files) = <<>> \o u \o b /\ Rest(k, files) = <<>> \o u \o k.body
    BY <1>3, <2>3, <2>6, Zenon DEF Rest
  <2>8. k.stream.mode # "in" => u = <<>>
    BY DEF Unread
  <2>9. k.stream.mode = "in" => a = <<>> /\ b = <<>>
    <3>1. ASSUME k.body = <<>> PROVE a = <<>> /\ b = <<>>
      BY <3>1, <1>1, <2>1 DEF a, b
    <3> QED
      BY <3>1
  <2>10. u \in Seq(STRING) /\ v \in Seq(STRING)
    BY <1>1
  <2> HIDE DEF u, v
  <2>11. (v \o a) \o (<<>> \o u \o b) = v \o (<<>> \o u \o k.body)
    <3>1. CASE k.stream.mode # "in"
      <4>1. u = <<>>
        BY <2>8, <3>1
      <4>2. <<>> \o <<>> \o b = b /\ <<>> \o <<>> \o k.body = k.body
        BY <1>1, <2>2
      <4>3. v \o (a \o b) = (v \o a) \o b
        BY <2>2, <2>10, Associative, Zenon
      <4> QED
        BY <2>2, <4>1, <4>2, <4>3
    <3>2. CASE k.stream.mode = "in"
      <4>1. a = <<>> /\ b = <<>> /\ k.body = <<>>
        BY <2>9, <3>2
      <4>2. v \o <<>> = v
        BY <2>10
      <4> QED
        BY <4>1, <4>2
    <3> QED
      BY <3>1, <3>2
  <2>12. Unfed(h.buf) \o Rest(h, files) = Unfed(k.buf) \o Rest(k, files)
    BY <2>3, <2>4, <2>7, <2>11 DEF v
  <2>13. h.stream.mode = "in" => h.body = <<>>
    BY <2>3, <2>9
  <2> QED
    BY <2>3, <2>4, <2>5, <2>12, <2>13, Zenon DEF Moves
<1>4. \/ r = k
      \/ k.headers = <<>> /\ ~(FillCapacity(k.buf) <= 1) /\ r = h
  BY Zenon DEF BufferBody
<1> HIDE DEF h, r
<1>5. Moves(r, k, q, files)
  BY <1>2, <1>3, <1>4
<1> QED
  BY <1>5 DEF r

LEMMA FileMoves ==
  ASSUME NEW q, NEW k, NEW files, Filed(files), Shaped(k, q, files), Orderly(k.buf),
         k.stream.mode = "in" => k.body = <<>>
  PROVE  Moves(BufferFile(k, files), k, q, files)
<1> DEFINE left == Unread(k, files)
           room == FillCapacity(k.buf)
           n == IF Len(left) < room THEN Len(left) ELSE room
           a == SubSeq(left, 1, n)
           b == SubSeq(left, n + 1, Len(left))
           t == [k.stream EXCEPT !.pos = @ + n, !.eof = n < room]
           h == [k EXCEPT !.buf = Fill(@, a), !.stream.pos = @ + n, !.stream.eof = n < room]
           r == BufferFile(k, files)
<1>1. left \in Seq(STRING) /\ k.body \in Seq(STRING) /\ Unfed(k.buf) \in Seq(STRING)
  BY UnreadTyped, UnfedIs DEF Shaped
<1>2. Moves(k, k, q, files)
  BY DEF Moves
<1>3. ASSUME k.headers = <<>>, ~(room <= 1) PROVE Moves(h, k, q, files)
  <2>1. n \in 0..Len(left) /\ (n < room => n = Len(left)) /\ Len(left) \in Nat
    <3>1. room \in Int
      BY DEF FillCapacity, Shaped, Solid
    <3> HIDE DEF left, room
    <3> QED
      BY <1>1, <1>3, <3>1
  <2>2. a \in Seq(STRING) /\ b \in Seq(STRING) /\ a \o b = left
    <3> HIDE DEF n, left
    <3> QED
      BY <1>1, <2>1, Pieces
  <2>3. /\ DOMAIN h = Fields /\ h.buf = Fill(k.buf, a) /\ h.headers = k.headers /\ h.body = k.body
        /\ h.temp = k.temp /\ h.answer = k.answer /\ h.status = k.status /\ h.heard = k.heard
        /\ h.stream = t /\ h.state = k.state /\ h.torn = k.torn /\ h.plan = k.plan
    <3> HIDE DEF n, a, room
    <3> QED
      BY DEF Shaped, StreamIs, StreamFields, Fields
  <2>4. /\ DOMAIN t = StreamFields /\ t.mode = k.stream.mode /\ t.file = k.stream.file
        /\ t.pos = k.stream.pos + n /\ t.pending = k.stream.pending /\ t.eof = (n < room)
    <3> HIDE DEF n, room
    <3> QED
      BY DEF Shaped, StreamIs, StreamFields
  <2> HIDE DEF h, t
  <2>5. StreamIs(t, files)
    <3>1. k.stream.pos \in Nat /\ n \in Nat
      <4> HIDE DEF n, left
      <4> QED
        BY <2>1 DEF Shaped, StreamIs
    <3>2. k.stream.pos + n \in Nat
      <4> HIDE DEF n
      <4> QED
        BY <3>1
    <3> HIDE DEF n
    <3> QED
      BY <2>4, <3>2 DEF Shaped, StreamIs
  <2>6. Solid(Fill(k.buf, a)) /\ Orderly(Fill(k.buf, a)) /\ Unfed(Fill(k.buf, a)) = Unfed(k.buf) \o a
    <3> HIDE DEF a
    <3> QED
      BY <2>2, FillIs, SolidFill DEF Shaped
  <2>7. Shaped(h, q, files)
    BY <2>3, <2>5, <2>6, Zenon DEF Shaped
  \* What is unread now is what was left of it.
  <2>8. Unread(h, files) = b
    <3> DEFINE whole == IF k.stream.file = "temp" THEN k.temp ELSE files[k.stream.file]
               p == k.stream.pos
    <3>1. CASE k.stream.mode # "in" \/ k.stream.eof
      <4>1. left = <<>>
        BY <3>1 DEF Unread
      <4>2. b = <<>>
        BY <2>1, <4>1
      <4>3. n < room
        <5>1. room \in Int
          BY DEF FillCapacity, Shaped, Solid
        <5>2. n = 0
          <6>1. Len(left) = 0
            BY <4>1
          <6> HIDE DEF left, room
          <6> QED
            BY <1>3, <5>1, <6>1
        <5> HIDE DEF n, room
        <5> QED
          BY <1>3, <5>1, <5>2
      <4>4. h.stream.eof
        BY <2>3, <2>4, <4>3
      <4> QED
        BY <4>2, <4>4 DEF Unread
    <3>2. CASE ~(k.stream.mode # "in" \/ k.stream.eof)
      <4>1. left = SubSeq(whole, p + 1, Len(whole))
        BY <3>2 DEF Unread
      <4>2. whole \in Seq(STRING) /\ p \in Nat
        BY <3>2 DEF Shaped, StreamIs, Filed
      <4>3. Unread(h, files) = IF n < room THEN <<>> ELSE SubSeq(whole, (p + n) + 1, Len(whole))
        <5> HIDE DEF n, room
        <5> QED
          BY <2>3, <2>4, <3>2 DEF Unread
      <4> HIDE DEF whole, p
      <4>4. CASE n < room
        <5>1. n = Len(left)
          BY <2>1, <4>4
        <5>2. SubSeq(left, Len(left) + 1, Len(left)) = <<>>
          <6> HIDE DEF left
          <6> QED
            BY <1>1
        <5>3. b = <<>>
          <6> HIDE DEF n, left
          <6> QED
            BY <5>1, <5>2
        <5> HIDE DEF n, room, left, b
        <5> QED
          BY <4>3, <4>4, <5>3
      <4>5. CASE ~(n < room)
        <5> HIDE DEF n, room
        <5>1. b = SubSeq(whole, (p + n) + 1, Len(whole))
          <6>1. p + 1 \in Nat /\ n \in Nat
            BY <2>1, <4>2
          <6> QED
            BY <2>1, <4>1, <4>2, <6>1, DroppedTwice
        <5> QED
          BY <4>3, <4>5, <5>1
      <4> QED
        BY <4>4, <4>5
    <3> QED
      BY <3>1, <3>2
  <2> HIDE DEF a, b, n, left, room
  <2>9. Unfed(h.buf) \o Rest(h, files) = Unfed(k.buf) \o Rest(k, files)
    <3> DEFINE w == Unfed(k.buf)
               y == k.body
    <3>1. w \in Seq(STRING) /\ y \in Seq(STRING) /\ left \in Seq(STRING)
      BY <1>1
    <3>2. Unfed(h.buf) = w \o a
      BY <2>3, <2>6
    <3>3. Rest(h, files) = <<>> \o b \o y /\ Rest(k, files) = <<>> \o left \o y
      BY <1>3, <2>3, <2>8, Zenon DEF Rest, left
    <3> HIDE DEF w, y
    <3>4. (w \o a) \o (b \o y) = w \o ((a \o b) \o y)
      <4>1. (a \o b) \o y = a \o (b \o y) /\ b \o y \in Seq(STRING)
        <5>1. a \in Seq(STRING) /\ b \in Seq(STRING) /\ y \in Seq(STRING)
          BY <2>2, <3>1
        <5>2. a \o (b \o y) = (a \o b) \o y
          BY <5>1, Associative, Zenon
        <5> QED
          BY <5>1, <5>2, Appended
      <4>2. w \o (a \o (b \o y)) = (w \o a) \o (b \o y)
        <5>1. w \in Seq(STRING) /\ a \in Seq(STRING) /\ b \o y \in Seq(STRING)
          BY <2>2, <3>1, <4>1
        <5> QED
          BY <5>1, Associative, Zenon
      <4> QED
        BY <4>1, <4>2
    <3>5. <<>> \o b = b /\ <<>> \o left = left
      BY <2>2, <3>1
    <3> QED
      BY <2>2, <3>2, <3>3, <3>4, <3>5 DEF w
  <2>10. h.stream.mode = "in" => h.body = <<>>
    BY <2>3, <2>4
  <2> QED
    BY <2>3, <2>4, <2>6, <2>7, <2>9, <2>10, Zenon DEF Moves
<1>4. \/ r = k
      \/ k.headers = <<>> /\ ~(room <= 1) /\ r = h
  BY Zenon DEF BufferFile, FileWaits
<1> HIDE DEF h, r, room
<1>5. Moves(r, k, q, files)
  BY <1>2, <1>3, <1>4
<1> QED
  BY <1>5 DEF r

\* handle_response() until write().
LEMMA RefilledMoves ==
  ASSUME NEW q, NEW k, NEW files, Filed(files), Shaped(k, q, files), Orderly(k.buf),
         k.stream.mode = "in" => k.body = <<>>
  PROVE  Moves(Refilled(k, files), k, q, files)
<1> DEFINE h == [k EXCEPT !.buf = Clear(@)]
           r == Refilled(k, files)
<1>1. Moves(k, k, q, files)
  BY DEF Moves
<1>2. ASSUME ~(FeedCapacity(k.buf) > 0) PROVE Moves(h, k, q, files)
  <2>1. /\ DOMAIN h = Fields /\ h.buf = Clear(k.buf) /\ h.headers = k.headers /\ h.body = k.body
        /\ h.temp = k.temp /\ h.answer = k.answer /\ h.status = k.status /\ h.heard = k.heard
        /\ h.stream = k.stream /\ h.state = k.state /\ h.torn = k.torn /\ h.plan = k.plan
    BY DEF Shaped, Fields
  <2>2. Solid(Clear(k.buf)) /\ Orderly(Clear(k.buf)) /\ Unfed(Clear(k.buf)) = <<>>
    BY SolidClear DEF Shaped
  <2>3. Unfed(k.buf) = <<>>
    <3> DEFINE w == Unfed(k.buf)
    <3>1. w \in Seq(STRING) /\ Len(w) = FeedCapacity(k.buf) /\ FeedCapacity(k.buf) \in Nat
      BY UnfedIs
    <3> HIDE DEF w
    <3>2. Len(w) = 0
      BY <1>2, <3>1
    <3>3. w = <<>>
      BY <3>1, <3>2
    <3> QED
      BY <3>3 DEF w
  <2> HIDE DEF h
  <2>4. Shaped(h, q, files)
    BY <2>1, <2>2, Zenon DEF Shaped
  <2>5. Rest(h, files) = Rest(k, files)
    BY <2>1, RestSame, Zenon
  <2> QED
    BY <2>1, <2>2, <2>3, <2>4, <2>5, Zenon DEF Moves
<1>3. r = k \/ (~(FeedCapacity(k.buf) > 0) /\ r = BufferBody(BufferFile(BufferHeaders(h), files)))
  BY Zenon DEF Refilled, fill_res_buffer
<1> HIDE DEF h, r
<1>4. ASSUME NEW x, Moves(x, k, q, files), NEW y, Moves(y, x, q, files) PROVE Moves(y, k, q, files)
  BY <1>4, Zenon DEF Moves
<1>5. ASSUME NEW x, Moves(x, k, q, files)
      PROVE  /\ Moves(BufferHeaders(x), k, q, files)
             /\ Moves(BufferFile(x, files), k, q, files)
             /\ Moves(BufferBody(x), k, q, files)
  <2>1. Shaped(x, q, files) /\ Orderly(x.buf) /\ (x.stream.mode = "in" => x.body = <<>>)
    BY <1>5 DEF Moves
  <2>2. Moves(BufferHeaders(x), x, q, files)
    BY <2>1, HeadersMove
  <2>3. Moves(BufferFile(x, files), x, q, files)
    BY <2>1, FileMoves
  <2>4. Moves(BufferBody(x), x, q, files)
    BY <2>1, BodyMoves
  <2> QED
    BY <1>4, <1>5, <2>2, <2>3, <2>4
<1>6. ASSUME ~(FeedCapacity(k.buf) > 0)
      PROVE  Moves(BufferBody(BufferFile(BufferHeaders(h), files)), k, q, files)
  BY <1>2, <1>5, <1>6
<1>7. Moves(r, k, q, files)
  BY <1>1, <1>3, <1>6
<1> QED
  BY <1>7 DEF r

\* The client takes n bytes.
LEMMA TakenFits ==
  ASSUME NEW q, NEW k, NEW files, Filed(files), Owes(k, q, files), k.state = "RESPONSE",
         NEW h, Moves(h, k, q, files), NEW n \in 0..FeedCapacity(h.buf)
  PROVE  Fits([h EXCEPT !.answer = @ \o SubSeq(Unfed(h.buf), 1, n), !.buf = Feed(@, n)], k, q, files)
<1> DEFINE x == SubSeq(Unfed(h.buf), 1, n)
           b == Feed(h.buf, n)
           y == h.answer \o x
           r == [h EXCEPT !.answer = @ \o x, !.buf = Feed(@, n)]
           v == Unfed(h.buf)
           z == Unfed(b)
           rest == Rest(h, files)
<1>1. /\ DOMAIN r = Fields /\ r.buf = b /\ r.headers = h.headers /\ r.body = h.body
      /\ r.temp = h.temp /\ r.answer = y /\ r.status = h.status /\ r.heard = h.heard
      /\ r.stream = h.stream /\ r.state = h.state /\ r.torn = h.torn /\ r.plan = h.plan
  BY DEF Moves, Shaped, Fields
<1>2. /\ Orderly(b) /\ x \in Seq(STRING) /\ z \in Seq(STRING) /\ x \o z = v /\ v \in Seq(STRING)
  BY FeedIs, UnfedIs DEF Moves
<1>3. Solid(b)
  <2>1. b.capacity = h.buf.capacity
    BY DEF Feed, Moves, Shaped, Solid, BufferFields
  <2> HIDE DEF b
  <2> QED
    BY <1>2, <2>1, OrderlySolid DEF Moves, Shaped, Solid
<1>4. h.answer \in Seq(STRING) /\ rest \in Seq(STRING)
  BY RestTyped DEF Moves, Shaped
<1>5. Rest(r, files) = rest
  BY <1>1, RestSame, Zenon
<1> HIDE DEF r, b, x
<1>6. y \in Seq(STRING)
  BY <1>2, <1>4, Appended, Zenon
<1>7. Shaped(r, q, files)
  BY <1>1, <1>3, <1>6, Zenon DEF Moves, Shaped
<1>8. Answers(k, files) /\ k.answer = h.answer /\ k.plan = h.plan /\ k.torn = h.torn
  BY DEF Owes, Moves
<1>9. v \o rest = Unfed(k.buf) \o Rest(k, files) /\ Unfed(k.buf) \in Seq(STRING) /\ Rest(k, files) \in Seq(STRING)
  BY <1>8, UnfedIs, RestTyped DEF Moves, Answers, Owes
<1>10. ASSUME ~r.torn PROVE r.answer \o Unfed(r.buf) \o Rest(r, files) = r.plan
  <2> DEFINE a == h.answer
             u == Unfed(k.buf)
             s == Rest(k, files)
  <2>1. a \o u \o s = h.plan
    BY <1>1, <1>8, <1>10 DEF Answers
  <2>2. a \in Seq(STRING) /\ u \in Seq(STRING) /\ s \in Seq(STRING) /\ v \o rest = u \o s
    BY <1>4, <1>9
  <2>3. r.answer \o Unfed(r.buf) \o Rest(r, files) = (a \o x) \o z \o rest
    BY <1>1, <1>5, Zenon
  <2> HIDE DEF a, u, s, v, z, rest
  <2>4. (a \o x) \o z = a \o v
    <3>1. a \in Seq(STRING) /\ x \in Seq(STRING) /\ z \in Seq(STRING)
      BY <1>2, <2>2
    <3>2. a \o (x \o z) = (a \o x) \o z
      BY <3>1, Associative, Zenon
    <3> QED
      BY <1>2, <3>2
  <2>5. a \o (v \o rest) = (a \o v) \o rest
    <3>1. a \in Seq(STRING) /\ v \in Seq(STRING) /\ rest \in Seq(STRING)
      BY <1>2, <1>4, <2>2
    <3> QED
      BY <3>1, Associative, Zenon
  <2>6. (a \o u) \o s = a \o (u \o s)
    BY <2>2, Associative
  <2> QED
    BY <1>1, <2>1, <2>2, <2>3, <2>4, <2>5, <2>6
<1>11. Answers(r, files)
  BY <1>1, <1>2, <1>10 DEF Answers, Moves
<1>12. r.state = "RESPONSE" /\ r.stream.mode = k.stream.mode
  BY <1>1 DEF Moves
<1>13. Fits(r, k, q, files)
  BY <1>7, <1>11, <1>12 DEF Fits, Owes, Steady
<1> QED
  BY <1>13 DEF r, x

\* The connection is deleted.
LEMMA DeletedFits ==
  ASSUME NEW q, NEW k, NEW files, Shaped(k, q, files), NEW end
  PROVE  Fits(Delete(k, end), k, q, files)
<1> DEFINE r == Delete(k, end)
<1>1. /\ DOMAIN r = Fields /\ r.buf = k.buf /\ r.headers = k.headers /\ r.body = k.body
      /\ r.temp = k.temp /\ r.answer = k.answer /\ r.status = k.status /\ r.heard = k.heard
      /\ r.stream = NoStream /\ r.state = "CLOSED"
  BY DEF Delete, Shaped, Fields
<1> HIDE DEF r
<1>2. StreamIs(NoStream, files) /\ NoStream.mode = "none"
  BY NoStreamIs
<1>3. Shaped(r, q, files)
  BY <1>1, <1>2, Zenon DEF Shaped
<1>4. Fits(r, k, q, files)
  BY <1>1, <1>2, <1>3 DEF Fits, Owes, Steady
<1> QED
  BY <1>4 DEF r

LEMMA FreshShaped ==
  ASSUME NEW q \in Requests, NEW files
  PROVE  /\ Begun(Fresh, q, files) /\ Fresh.stream.mode = "none" /\ Fresh.buf.writepos = 0
         /\ DOMAIN Fresh = Fields
<1> DEFINE r == Fresh
           b == Buffer(Capacity)
<1>1. /\ DOMAIN r = Fields /\ r.buf = b /\ r.headers = <<>> /\ r.body = <<>>
      /\ r.temp = <<>> /\ r.answer = <<>> /\ r.status = "none" /\ r.heard = 0
      /\ r.stream = NoStream
  BY DEF Fresh, Fields
<1>2. Solid(b) /\ b.writepos = 0
  <2>1. DOMAIN b = BufferFields /\ b.data = <<>> /\ b.writepos = 0 /\ b.capacity = Capacity
    BY DEF Buffer, BufferFields
  <2> HIDE DEF b
  <2> QED
    BY <2>1, TransferAssumption DEF Solid
<1>3. <<>> \in Seq(STRING) /\ "none" \in STRING
  BY WordsAssumption
<1>4. 0 \in 0..Len(q.output)
  BY DEF Requests
<1>5. StreamIs(NoStream, files) /\ NoStream.mode = "none"
  BY NoStreamIs
<1> HIDE DEF r, b
<1>6. Begun(r, q, files)
  BY <1>1, <1>2, <1>3, <1>4, <1>5, Zenon DEF Begun, Shaped, Silent
<1> QED
  BY <1>1, <1>2, <1>5, <1>6 DEF r

LEMMA DropFits ==
  ASSUME NEW q \in Requests, NEW k, NEW files, k.status \in STRING
  PROVE  Fits(Drop(k), k, q, files)
<1> DEFINE r == Drop(k)
           f == Fresh
<1>1. Begun(f, q, files) /\ f.stream.mode = "none" /\ DOMAIN f = Fields
  BY FreshShaped
<1>2. r = [f EXCEPT !.state = "CLOSED", !.status = k.status, !.end = "dropped"]
  BY Zenon DEF Drop
<1> HIDE DEF f
<1>3. /\ DOMAIN r = Fields /\ r.buf = f.buf /\ r.headers = f.headers /\ r.body = f.body
      /\ r.temp = f.temp /\ r.answer = f.answer /\ r.status = k.status /\ r.heard = f.heard
      /\ r.stream = f.stream /\ r.state = "CLOSED"
  BY <1>1, <1>2 DEF Fields
<1> HIDE DEF r
<1>4. Shaped(r, q, files)
  BY <1>1, <1>3, Zenon DEF Begun, Shaped
<1>5. Fits(r, k, q, files)
  BY <1>1, <1>3, <1>4 DEF Fits, Owes, Steady
<1> QED
  BY <1>5 DEF r

-----------------------------------------------------------------------------
(* The files                                                                  *)

LEMMA OverlayTyped ==
  ASSUME NEW old \in Seq(STRING), NEW pos \in Nat, NEW bytes \in Seq(STRING)
  PROVE  Overlay(old, pos, bytes) \in Seq(STRING)
<1> DEFINE n == IF Len(old) > pos + Len(bytes) THEN Len(old) ELSE pos + Len(bytes)
           e == [i \in 1..n |-> IF i > pos /\ i <= pos + Len(bytes) THEN bytes[i - pos]
                                ELSE IF i <= Len(old) THEN old[i] ELSE NUL]
<1>1. n \in Nat
  OBVIOUS
<1>2. \A i \in 1..n : (i > pos /\ i <= pos + Len(bytes)) => bytes[i - pos] \in STRING
  BY <1>1
<1>3. \A i \in 1..n : i <= Len(old) => old[i] \in STRING
  BY <1>1
<1>4. NUL \in STRING
  BY WordsAssumption
<1>5. Overlay(old, pos, bytes) = e
  BY Zenon DEF Overlay
<1> HIDE DEF n
<1>6. e \in [1..n -> STRING]
  BY <1>2, <1>3, <1>4, Zenon
<1> HIDE DEF e
<1> QED
  BY <1>1, <1>5, <1>6

\* A file is written over.
LEMMA OverlaidFiled ==
  ASSUME Filed(disk), NEW f, NEW pos \in Nat, NEW bytes \in Seq(STRING)
  PROVE  LET files == [disk EXCEPT ![f] = Overlay(@, pos, bytes)]
         IN Filed(files) /\ DOMAIN files = DOMAIN disk
<1> DEFINE files == [disk EXCEPT ![f] = Overlay(@, pos, bytes)]
<1>1. DOMAIN files = DOMAIN disk
  OBVIOUS
<1>2. \A g \in DOMAIN disk : files[g] = IF g = f THEN Overlay(disk[f], pos, bytes) ELSE disk[g]
  OBVIOUS
<1>3. \A g \in DOMAIN disk : disk[g] \in Seq(STRING) /\ Overlay(disk[g], pos, bytes) \in Seq(STRING)
  BY OverlayTyped DEF Filed
<1> HIDE DEF files
<1>4. Filed(files)
  BY <1>1, <1>2, <1>3, Zenon DEF Filed
<1> QED
  BY <1>1, <1>4 DEF files

LEMMA DiskFiled ==
  ASSUME Filed(disk), NEW s, s.pos \in Nat, s.pending \in Seq(STRING), NEW t
  PROVE  /\ Filed(DiskAfter(s, t))
         /\ DOMAIN disk \subseteq DOMAIN DiskAfter(s, t)
         /\ (t.mode = "in" /\ s.mode \in {"none", "in"}) => DiskAfter(s, t) = disk
<1> DEFINE over == [disk EXCEPT ![s.file] = Overlay(@, s.pos, s.pending)]
           new == Truncated(t.file)
<1>1. Filed(over) /\ DOMAIN over = DOMAIN disk
  BY OverlaidFiled
<1>2. Filed(new) /\ DOMAIN disk \subseteq DOMAIN new
  <2>1. DOMAIN new = {t.file} \cup DOMAIN disk
    BY DEF Truncated
  <2>2. \A g \in DOMAIN new : new[g] = IF g = t.file THEN <<>> ELSE disk[g]
    BY DEF Truncated
  <2>3. <<>> \in Seq(STRING)
    OBVIOUS
  <2> HIDE DEF new
  <2>4. \A g \in DOMAIN new : g # t.file => disk[g] \in Seq(STRING)
    BY <2>1 DEF Filed
  <2> QED
    BY <2>1, <2>2, <2>3, <2>4 DEF Filed
<1>3. \/ Writes(s) /\ ~Writes(t) /\ DiskAfter(s, t) = over
      \/ Writes(t) /\ ~Writes(s) /\ DiskAfter(s, t) = new
      \/ DiskAfter(s, t) = disk
  BY Zenon DEF DiskAfter
<1> HIDE DEF over, new
<1>4. t.mode = "in" => ~Writes(t)
  BY DEF Writes
<1>5. s.mode \in {"none", "in"} => ~Writes(s)
  BY DEF Writes
<1> QED
  BY <1>1, <1>2, <1>3, <1>4, <1>5

\* An answer does not mind what happens to files it is not made of.
LEMMA OwesStill ==
  ASSUME NEW k, NEW q, NEW old, Owes(k, q, old), NEW files, DOMAIN old \subseteq DOMAIN files,
         (k.stream.mode = "in" /\ k.stream.file # "temp") => files[k.stream.file] = old[k.stream.file]
  PROVE  Owes(k, q, files)
<1>1. Unread(k, files) = Unread(k, old)
  BY DEF Unread
<1>2. Rest(k, files) = Rest(k, old)
  BY <1>1, Zenon DEF Rest
<1>3. StreamIs(k.stream, files)
  BY DEF Owes, Shaped, StreamIs
<1>4. Shaped(k, q, files)
  BY <1>3, Zenon DEF Owes, Shaped
<1>5. Answers(k, old) => Answers(k, files)
  BY <1>2, Zenon DEF Answers
<1> QED
  BY <1>4, <1>5, Zenon DEF Owes

LEMMA OwesTorn ==
  ASSUME NEW k, NEW q, NEW old, Owes(k, q, old), NEW files, DOMAIN old \subseteq DOMAIN files
  PROVE  Owes([k EXCEPT !.torn = TRUE], q, files)
<1> DEFINE r == [k EXCEPT !.torn = TRUE]
<1>1. /\ DOMAIN r = Fields /\ r.buf = k.buf /\ r.headers = k.headers /\ r.body = k.body
      /\ r.temp = k.temp /\ r.answer = k.answer /\ r.status = k.status /\ r.heard = k.heard
      /\ r.stream = k.stream /\ r.state = k.state /\ r.torn = TRUE
  BY DEF Owes, Shaped, Fields
<1>2. StreamIs(k.stream, files)
  BY DEF Owes, Shaped, StreamIs
<1> HIDE DEF r
<1>3. Shaped(r, q, files)
  BY <1>1, <1>2, Zenon DEF Owes, Shaped
<1>4. Answers(k, old) => Answers(r, files)
  BY <1>1, Zenon DEF Answers
<1>5. Silent(k) => Silent(r)
  BY <1>1, Zenon DEF Silent
<1>6. Owes(r, q, files)
  BY <1>1, <1>3, <1>4, <1>5, Zenon DEF Owes
<1> QED
  BY <1>6 DEF r

\* Part of what is pending is written out.
LEMMA FlushOwes ==
  ASSUME NEW k, NEW q, NEW files, Owes(k, q, files), k.stream.mode = "out",
         NEW n \in 1..Len(k.stream.pending)
  PROVE  Owes([k EXCEPT !.stream.pos = @ + n, !.stream.pending = SubSeq(@, n + 1, Len(@))], q, files)
<1> DEFINE p == SubSeq(k.stream.pending, n + 1, Len(k.stream.pending))
           t == [k.stream EXCEPT !.pos = @ + n, !.pending = p]
           r == [k EXCEPT !.stream.pos = @ + n, !.stream.pending = SubSeq(@, n + 1, Len(@))]
<1>1. k.stream.pending \in Seq(STRING) /\ k.stream.pos \in Nat /\ n \in Nat
  BY DEF Owes, Shaped, StreamIs
<1>2. p \in Seq(STRING) /\ k.stream.pos + n \in Nat
  <2>1. p \in Seq(STRING)
    BY <1>1, Dropped
  <2>2. k.stream.pos + n \in Nat
    BY <1>1
  <2> QED
    BY <2>1, <2>2
<1>3. /\ DOMAIN t = StreamFields /\ t.mode = k.stream.mode /\ t.file = k.stream.file
      /\ t.pos = k.stream.pos + n /\ t.pending = p
  <2> HIDE DEF p
  <2> QED
    BY DEF Owes, Shaped, StreamIs, StreamFields
<1>4. /\ DOMAIN r = Fields /\ r.buf = k.buf /\ r.headers = k.headers /\ r.body = k.body
      /\ r.temp = k.temp /\ r.answer = k.answer /\ r.status = k.status /\ r.heard = k.heard
      /\ r.stream = t /\ r.state = k.state /\ r.torn = k.torn /\ r.plan = k.plan
  BY DEF Owes, Shaped, StreamIs, StreamFields, Fields
<1> HIDE DEF p, t, r
<1>5. StreamIs(t, files) /\ t.mode = "out"
  BY <1>2, <1>3 DEF StreamIs
<1>6. Shaped(r, q, files)
  BY <1>4, <1>5, Zenon DEF Owes, Shaped
<1>7. Unread(r, files) = Unread(k, files)
  BY <1>4, <1>5 DEF Unread
<1>8. Rest(r, files) = Rest(k, files)
  BY <1>4, <1>7, Zenon DEF Rest
<1>9. Answers(k, files) => Answers(r, files)
  BY <1>4, <1>5, <1>8 DEF Answers
<1>10. Silent(k) => Silent(r)
  BY <1>4, <1>5 DEF Silent
<1>11. Owes(r, q, files)
  BY <1>4, <1>6, <1>9, <1>10 DEF Owes
<1> QED
  BY <1>11 DEF r

-----------------------------------------------------------------------------
(* The theorem                                                                *)

AnswersOwed ==
    /\ DOMAIN conn = Present
    /\ Filed(disk)
    /\ \A c \in Present : Owes(conn[c], asked[c], disk)

LEMMA SetOwes ==
  ASSUME AnswersOwed, NEW c \in Present, NEW k, Owes(k, asked[c], disk),
         NEW files, Filed(files), DOMAIN disk \subseteq DOMAIN files,
         (k.stream.mode = "in" /\ k.stream.file # "temp") => files[k.stream.file] = disk[k.stream.file],
         Set(c, k, files)
  PROVE  AnswersOwed'
<1>1. asked' = asked /\ disk' = files /\ DOMAIN conn' = Present
  BY DEF Set
<1>2. conn'[c] = k
  BY DEF Set
<1>3. ASSUME NEW d \in Present, d # c
      PROVE  \/ conn'[d] = [conn[d] EXCEPT !.torn = TRUE]
             \/ /\ conn'[d] = conn[d]
                /\ conn[d].stream.mode = "none"
                      \/ \A f \in DOMAIN disk : f = conn[d].stream.file => disk[f] = files[f]
  BY <1>3, Zenon DEF Set
<1>4. Owes(k, asked[c], files)
  BY OwesStill
<1>5. ASSUME NEW d \in Present, d # c PROVE Owes(conn'[d], asked[d], files)
  <2> DEFINE h == conn[d]
  <2>1. Owes(h, asked[d], disk)
    BY DEF AnswersOwed
  <2>2. Owes([h EXCEPT !.torn = TRUE], asked[d], files)
    BY <2>1, OwesTorn
  <2>3. ASSUME h.stream.mode = "none" \/ \A f \in DOMAIN disk : f = h.stream.file => disk[f] = files[f]
        PROVE  Owes(h, asked[d], files)
    <3>1. (h.stream.mode = "in" /\ h.stream.file # "temp") => files[h.stream.file] = disk[h.stream.file]
      BY <2>1, <2>3 DEF Owes, Shaped, StreamIs
    <3> HIDE DEF h
    <3> QED
      BY <2>1, <3>1, OwesStill
  <2> QED
    BY <1>3, <1>5, <2>2, <2>3
<1>6. \A d \in Present : Owes(conn'[d], asked[d], files)
  BY <1>2, <1>4, <1>5
<1> QED
  BY <1>1, <1>6 DEF AnswersOwed, Present

LEMMA BecomeOwes ==
  ASSUME AnswersOwed, NEW c \in Present, NEW r, Fits(r, conn[c], asked[c], disk), Become(c, r)
  PROVE  AnswersOwed'
<1> DEFINE k == conn[c]
           files == DiskAfter(k.stream, r.stream)
<1>1. Filed(disk) /\ k.stream.pos \in Nat /\ k.stream.pending \in Seq(STRING)
  BY DEF AnswersOwed, Owes, Shaped, StreamIs
<1>2. /\ Filed(files) /\ DOMAIN disk \subseteq DOMAIN files
      /\ (r.stream.mode = "in" /\ k.stream.mode \in {"none", "in"}) => files = disk
  BY <1>1, DiskFiled
<1>3. Set(c, r, files)
  BY Zenon DEF Become
<1>4. Owes(r, asked[c], disk) /\ (r.stream.mode = "in" => r.stream.file = "temp" \/ k.stream.mode \in {"none", "in"})
  BY DEF Fits, Steady
<1> HIDE DEF files, k
<1>5. (r.stream.mode = "in" /\ r.stream.file # "temp") => files[r.stream.file] = disk[r.stream.file]
  BY <1>2, <1>4
<1> QED
  BY <1>2, <1>3, <1>4, <1>5, SetOwes

LEMMA InitOwes == TransferInit => AnswersOwed
<1> SUFFICES ASSUME TransferInit PROVE AnswersOwed
  OBVIOUS
<1>1. PICK w \in Worlds : asked = w.asked /\ disk = w.disk
  BY DEF TransferInit
<1>2. \A c \in Present : asked[c] \in Requests
  BY <1>1, TransferAssumption DEF Present
<1>3. Filed(disk)
  BY <1>1, TransferAssumption DEF Filed
<1>4. DOMAIN conn = Present /\ \A c \in Present : conn[c] = Fresh
  BY DEF TransferInit
<1>5. ASSUME NEW q \in Requests PROVE Owes(Fresh, q, disk)
  <2>1. Begun(Fresh, q, disk) /\ Fresh.stream.mode = "none" /\ Fresh.buf.writepos = 0
    BY FreshShaped
  <2>2. Fresh.state = "REQ_LINE"
    BY DEF Fresh
  <2> QED
    BY <2>1, <2>2 DEF Owes, Begun
<1> QED
  BY <1>2, <1>3, <1>4, <1>5, Zenon DEF AnswersOwed

LEMMA StepOwes == BodiesInOrder /\ AnswersOwed /\ [TransferNext]_vars => AnswersOwed'
<1> SUFFICES ASSUME BodiesInOrder, AnswersOwed, [TransferNext]_vars PROVE AnswersOwed'
  OBVIOUS
<1>1. CASE UNCHANGED vars
  BY <1>1 DEF vars, AnswersOwed, Present
<1>2. ASSUME NEW c \in Present,
             \/ Handle(c) \/ CloseSide(c) \/ CloseStdin(c) \/ Timeout(c) \/ Leave(c) \/ Flush(c)
      PROVE  AnswersOwed'
  <2> DEFINE k == conn[c]
             q == asked[c]
  <2>1. /\ q \in Requests /\ k.taken \in 0..Len(Sent(q)) /\ k.state \in States
        /\ Owes(k, q, disk) /\ Filed(disk)
    BY DEF BodiesInOrder, InOrder, AnswersOwed
  <2>2. Shaped(k, q, disk) /\ (k.state \notin {"RESPONSE", "CLOSED"} => Begun(k, q, disk))
    BY <2>1 DEF Owes, Begun
  <2>3. ASSUME NEW r, Fits(r, k, q, disk), Become(c, r) PROVE AnswersOwed'
    BY <2>3, BecomeOwes
  <2>4. ASSUME NEW room, NEW n \in Readable(c, room)
        PROVE  n \in Nat /\ k.taken + n <= Len(Sent(q))
    <3>1. Len(Sent(q)) \in Nat
      BY <2>1, SentIs
    <3> QED
      BY <2>1, <2>4, <3>1 DEF Readable
  <2>5. CASE HandleHead(c)
    <3>1. k.state \in {"REQ_LINE", "REQ_HEADERS"}
      BY <2>5 DEF HandleHead
    <3>2. PICK n \in Readable(c, FillCapacity(k.buf)) : Become(c, handle_head(k, q, n, disk))
      BY <2>5 DEF HandleHead
    <3>3. n \in Nat /\ k.taken + n <= Len(Sent(q))
      BY <2>4
    <3> HIDE DEF k, q
    <3>4. Starts(k, q, disk)
      BY <2>1, <2>2, <3>1 DEF Owes, Starts
    <3>5. Fits(handle_head(k, q, n, disk), k, q, disk)
      BY <2>1, <3>1, <3>3, <3>4, HeadFits
    <3> QED
      BY <2>3, <3>2, <3>5, Zenon
  <2>6. CASE HandleDiscard(c) \/ CloseSide(c)
    <3>1. PICK n : k.state = "DISCARD_BODY" /\ Become(c, handle_discard(k, q, n, disk))
      BY <2>6, Zenon DEF HandleDiscard, CloseSide
    <3> HIDE DEF k, q
    <3>2. Fits(handle_discard(k, q, n, disk), k, q, disk)
      BY <2>1, <2>2, <3>1, DiscardFits
    <3> QED
      BY <2>3, <3>1, <3>2, Zenon
  <2>7. CASE HandleBody(c)
    <3>1. k.state = "REQ_BODY"
      BY <2>7 DEF HandleBody
    <3>2. PICK n \in Readable(c, FillCapacity(k.buf)) :
             Become(c, IF q.route = "script" THEN read_cgi_body(k, q, n) ELSE handle_post(k, q, n, disk))
      BY <2>7 DEF HandleBody
    <3>3. n \in Nat /\ k.taken + n <= Len(Sent(q))
      BY <2>4
    <3> HIDE DEF k, q
    <3>4. Fits(handle_post(k, q, n, disk), k, q, disk) /\ Fits(read_cgi_body(k, q, n), k, q, disk)
      BY <2>1, <2>2, <3>1, <3>3, BodyFits
    <3> QED
      BY <2>3, <3>2, <3>4, Zenon
  <2>8. CASE HandleCgiInput(c)
    <3>1. k.state = "CGI_TRANSMIT_BODY"
      BY <2>8 DEF HandleCgiInput
    <3>2. PICK n \in 0..FeedCapacity(k.buf) : Become(c, handle_cgi_input(k, q, n))
      BY <2>8 DEF HandleCgiInput
    <3> HIDE DEF k, q
    <3>3. Fits(handle_cgi_input(k, q, n), k, q, disk)
      BY <2>2, <3>1, InputFits
    <3> QED
      BY <2>3, <3>2, <3>3, Zenon
  <2>9. CASE HandleCgiOutput(c)
    <3>1. k.state \in {"CGI_HEADERS", "CGI_BODY"}
      BY <2>9 DEF HandleCgiOutput
    <3>2. PICK n \in 0..Len(q.output) - k.heard :
             \E eof : Become(c, handle_cgi_output(k, q, n, eof, disk))
      BY <2>9, Zenon DEF HandleCgiOutput
    <3>3. PICK eof : Become(c, handle_cgi_output(k, q, n, eof, disk))
      BY <3>2, Zenon
    <3> HIDE DEF k, q
    <3>4. Fits(handle_cgi_output(k, q, n, eof, disk), k, q, disk)
      BY <2>1, <2>2, <3>1, OutputFits
    <3> QED
      BY <2>3, <3>3, <3>4, Zenon
  <2>10. CASE HandleResponse(c)
    <3> DEFINE h == Refilled(k, disk)
    <3>1. k.state = "RESPONSE"
      BY <2>10 DEF HandleResponse
    <3>2. \/ \E x : Become(c, Delete(h, x))
          \/ \E n \in 1..FeedCapacity(h.buf) :
                Become(c, [h EXCEPT !.answer = @ \o SubSeq(Unfed(h.buf), 1, n), !.buf = Feed(@, n)])
      BY <2>10, Zenon DEF HandleResponse
    <3>3. Moves(h, k, q, disk)
      <4>1. Orderly(k.buf) /\ (k.stream.mode = "in" => k.body = <<>>)
        BY <2>1, <3>1 DEF Owes, Answers
      <4> QED
        BY <2>1, <2>2, <4>1, RefilledMoves
    <3> HIDE DEF k, q, h
    <3>4. ASSUME NEW x PROVE Fits(Delete(h, x), k, q, disk)
      <4>1. Shaped(h, q, disk)
        BY <3>3 DEF Moves
      <4>2. Fits(Delete(h, x), h, q, disk) /\ Delete(h, x).stream.mode = "none"
        BY <4>1, DeletedFits, NoStreamIs DEF Delete, Shaped, Fields
      <4> QED
        BY <4>2 DEF Fits, Steady
    <3>5. ASSUME NEW n \in 1..FeedCapacity(h.buf)
          PROVE  Fits([h EXCEPT !.answer = @ \o SubSeq(Unfed(h.buf), 1, n), !.buf = Feed(@, n)], k, q, disk)
      <4>1. n \in 0..FeedCapacity(h.buf)
        BY <3>3, UnfedIs DEF Moves
      <4> QED
        BY <2>1, <3>1, <3>3, <4>1, TakenFits
    <3> QED
      BY <2>3, <3>2, <3>4, <3>5, Zenon
  <2>11. CASE CloseStdin(c)
    <3>1. k.state = "CGI_TRANSMIT_BODY" /\ Become(c, Collect(k))
      BY <2>11 DEF CloseStdin
    <3> HIDE DEF k, q
    <3>2. Fits(Collect(k), k, q, disk)
      BY <2>2, <3>1, CollectFits
    <3> QED
      BY <2>3, <3>1, <3>2, Zenon
  <2>12. CASE Timeout(c)
    <3> DEFINE late == [k EXCEPT !.status = "408"]
    <3>1. \/ /\ k.state \in {"REQ_LINE", "REQ_HEADERS", "REQ_BODY"}
             /\ Become(c, handle_setup(late, q, disk))
          \/ k.state = "DISCARD_BODY" /\ Become(c, AnswerPage(k, disk))
          \/ Become(c, Drop(k))
      BY <2>12, Zenon DEF Timeout
    <3> HIDE DEF k, q
    <3>2. ASSUME Begun(k, q, disk) PROVE Fits(handle_setup(late, q, disk), k, q, disk)
      <4>1. /\ DOMAIN late = Fields /\ late.buf = k.buf /\ late.headers = k.headers
            /\ late.body = k.body /\ late.temp = k.temp /\ late.answer = k.answer
            /\ late.status = "408" /\ late.heard = k.heard /\ late.stream = k.stream
        BY <3>2 DEF Begun, Shaped, Fields
      <4>2. "408" \in STRING
        BY WordsAssumption
      <4> HIDE DEF late
      <4>3. Begun(late, q, disk)
        BY <3>2, <4>1, <4>2, Zenon DEF Begun, Shaped, Silent
      <4>4. Fits(AnswerError(late, q, disk), late, q, disk)
        BY <2>1, <4>3, AnswerErrorFits
      <4>5. handle_setup(late, q, disk) = AnswerError(late, q, disk)
        BY <4>1 DEF handle_setup
      <4> QED
        BY <4>1, <4>4, <4>5, Zenon DEF Fits, Steady
    <3>3. ASSUME Begun(k, q, disk) PROVE Fits(AnswerPage(k, disk), k, q, disk)
      BY <2>1, <3>3, AnswersFit
    <3>4. Fits(Drop(k), k, q, disk)
      BY <2>1, <2>2, DropFits DEF Shaped
    <3> HIDE DEF late
    <3>5. CASE k.state \in {"REQ_LINE", "REQ_HEADERS", "REQ_BODY"} /\ Become(c, handle_setup(late, q, disk))
      BY <2>2, <2>3, <3>2, <3>5
    <3>6. CASE k.state = "DISCARD_BODY" /\ Become(c, AnswerPage(k, disk))
      BY <2>2, <2>3, <3>3, <3>6
    <3>7. CASE Become(c, Drop(k))
      BY <2>3, <3>4, <3>7, Zenon
    <3> QED
      BY <3>1, <3>5, <3>6, <3>7
  <2>13. CASE Leave(c)
    <3>1. Become(c, Drop(k))
      BY <2>13 DEF Leave
    <3> HIDE DEF k, q
    <3>2. Fits(Drop(k), k, q, disk)
      BY <2>1, <2>2, DropFits DEF Shaped
    <3> QED
      BY <2>3, <3>1, <3>2, Zenon
  <2>14. CASE Flush(c)
    <3> DEFINE s == k.stream
    <3>1. Writes(s)
      BY <2>14 DEF Flush
    <3>2. PICK n \in 1..Len(s.pending) :
             Set(c, [k EXCEPT !.stream.pos = @ + n, !.stream.pending = SubSeq(@, n + 1, Len(@))],
                 [disk EXCEPT ![s.file] = Overlay(@, s.pos, SubSeq(s.pending, 1, n))])
      BY <2>14 DEF Flush
    <3> DEFINE r == [k EXCEPT !.stream.pos = @ + n, !.stream.pending = SubSeq(@, n + 1, Len(@))]
               files == [disk EXCEPT ![s.file] = Overlay(@, s.pos, SubSeq(s.pending, 1, n))]
    <3>3. s.mode = "out" /\ s.pos \in Nat /\ s.pending \in Seq(STRING)
      BY <2>2, <3>1 DEF Writes, Shaped, StreamIs
    <3>4. Owes(r, q, disk)
      BY <2>1, <3>3, FlushOwes
    <3>5. SubSeq(s.pending, 1, n) \in Seq(STRING)
      <4> HIDE DEF s
      <4> QED
        BY <3>3, Piece
    <3>6. Filed(files) /\ DOMAIN files = DOMAIN disk
      BY <2>1, <3>3, <3>5, OverlaidFiled
    <3>7. r.stream.mode = "out"
      BY <2>2, <3>3 DEF Shaped, StreamIs, Fields, StreamFields
    <3>8. Set(c, r, files)
      BY <3>2
    <3> HIDE DEF r, files
    <3> QED
      BY <3>4, <3>6, <3>7, <3>8, SetOwes
  <2> QED
    BY <1>2, <2>5, <2>6, <2>7, <2>8, <2>9, <2>10, <2>11, <2>12, <2>13, <2>14 DEF Handle
<1> QED
  BY <1>1, <1>2 DEF TransferNext

LEMMA OwedSaysSo == AnswersOwed => AnswerInOrder
  BY DEF AnswersOwed, Owes, Answers, AnswerInOrder

\* Whatever the capacity of the buffer, the files, the scripts and their output,
\* and the bytes a client takes at a time: what it has got, and what is left in
\* the buffer, the header lines, the file and the page, is the answer as it was
\* decided, unless an upload replaces the file meanwhile (handle_response() and
\* fill_res_buffer(), after every way handle_setup() and the script lead there).
THEOREM AnswerKeepsOrder == TransferSpec => []AnswerInOrder
<1>1. TransferSpec => []BodiesInOrder
  BY InitInOrder, StepInOrder, PTL DEF TransferSpec
<1>2. TransferSpec => []AnswersOwed
  BY <1>1, InitOwes, StepOwes, PTL DEF TransferSpec
<1> QED
  BY <1>2, OwedSaysSo, PTL

-----------------------------------------------------------------------------
(* How an answer ends                                                         *)

\* A connection whose buffer has its size, and whose stream did not fail.
Roomy(k) ==
    /\ DOMAIN k = Fields /\ DOMAIN k.buf = BufferFields /\ DOMAIN k.stream = StreamFields
    /\ k.buf.capacity = Capacity /\ k.end = "none"

Ready(k) == Roomy(k) /\ k.stream.good = TRUE

\* All that is left to answer is in the buffer: the page of setup_internal_error().
Bare(k) == k.headers = <<>> /\ k.body = <<>> /\ k.stream.mode = "none"

Stuck(k) == k.headers # <<>> /\ \A i \in Feeds(k.headers) : i >= Capacity - 1

Ended(k) ==
    /\ k.stream.mode = "none"
    /\ (k.end = "sent" /\ ~k.torn) => k.answer = k.plan
    /\ k.end = "stuck" => Stuck(k)

\* The inductive invariant of a connection.
Whole(k) ==
    /\ k.state \notin {"CGI_BODY", "RESPONSE", "CLOSED"} => Ready(k)
    /\ k.state = "CGI_BODY" => Roomy(k)
    /\ k.state = "RESPONSE" => k.end = "none" /\ (Ready(k) \/ Bare(k))
    /\ k.state = "CLOSED" => Ended(k)

LEMMA ReadyWhole ==
  ASSUME NEW k, Ready(k), k.state # "CLOSED"
  PROVE  Whole(k)
  BY DEF Ready, Roomy, Whole

LEMMA SizeKept ==
  ASSUME NEW b, DOMAIN b = BufferFields, b.capacity = Capacity
  PROVE  /\ DOMAIN Clear(b) = BufferFields /\ Clear(b).capacity = Capacity
         /\ \A n : DOMAIN Erase(b, n) = BufferFields /\ Erase(b, n).capacity = Capacity
         /\ \A n : DOMAIN Feed(b, n) = BufferFields /\ Feed(b, n).capacity = Capacity
         /\ \A x : DOMAIN Fill(b, x) = BufferFields /\ Fill(b, x).capacity = Capacity
<1>1. DOMAIN Clear(b) = BufferFields /\ Clear(b).capacity = Capacity
  BY DEF Clear, BufferFields
<1>2. ASSUME NEW n PROVE DOMAIN Erase(b, n) = BufferFields /\ Erase(b, n).capacity = Capacity
  BY DEF Erase, BufferFields
<1>3. ASSUME NEW n PROVE DOMAIN Feed(b, n) = BufferFields /\ Feed(b, n).capacity = Capacity
  BY DEF Feed, BufferFields
<1>4. ASSUME NEW x PROVE DOMAIN Fill(b, x) = BufferFields /\ Fill(b, x).capacity = Capacity
  BY DEF Fill, BufferFields
<1> QED
  BY <1>1, <1>2, <1>3, <1>4

LEMMA StreamGood ==
  /\ DOMAIN NoStream = StreamFields /\ NoStream.good = TRUE /\ NoStream.mode = "none"
  /\ \A mode, file : DOMAIN Stream(mode, file) = StreamFields /\ Stream(mode, file).good = TRUE
<1>1. DOMAIN NoStream = StreamFields /\ NoStream.good = TRUE /\ NoStream.mode = "none"
  BY DEF NoStream, StreamFields
<1>2. ASSUME NEW mode, NEW file
      PROVE  DOMAIN Stream(mode, file) = StreamFields /\ Stream(mode, file).good = TRUE
  BY DEF Stream, NoStream, StreamFields
<1> QED
  BY <1>1, <1>2

\* A connection is as ready as one that differs from it in what is sent or said.
LEMMA SameReady ==
  ASSUME NEW k, NEW r, DOMAIN r = Fields, r.buf = k.buf, r.stream = k.stream, r.end = k.end
  PROVE  (Ready(k) => Ready(r)) /\ (Roomy(k) => Roomy(r))
  BY Zenon DEF Ready, Roomy

LEMMA ClearedReady ==
  ASSUME NEW k, NEW r, DOMAIN r = Fields, r.buf = Clear(k.buf), r.stream = k.stream, r.end = k.end
  PROVE  (Ready(k) => Ready(r)) /\ (Roomy(k) => Roomy(r))
<1>1. ASSUME Roomy(k) PROVE Roomy(r)
  <2>1. DOMAIN Clear(k.buf) = BufferFields /\ Clear(k.buf).capacity = Capacity
    BY <1>1, SizeKept DEF Roomy
  <2> QED
    BY <1>1, <2>1, Zenon DEF Roomy
<1> QED
  BY <1>1, Zenon DEF Ready

LEMMA HeadedReady ==
  ASSUME NEW k, Ready(k), NEW names
  PROVE  Ready(Headed(k, names))
<1> DEFINE r == Headed(k, names)
<1>1. DOMAIN r = Fields /\ r.buf = Clear(k.buf) /\ r.stream = k.stream /\ r.end = k.end
  BY DEF Headed, Ready, Roomy, Fields
<1> HIDE DEF r
<1>2. Ready(r)
  BY <1>1, ClearedReady, Zenon
<1> QED
  BY <1>2 DEF r

LEMMA RespondWhole ==
  ASSUME NEW k, Ready(k), NEW files
  PROVE  Whole(Respond(k, files))
<1> DEFINE r == Respond(k, files)
<1>1. /\ DOMAIN r = Fields /\ r.buf = k.buf /\ r.stream = k.stream /\ r.end = k.end
      /\ r.state = "RESPONSE"
  BY DEF Respond, Ready, Roomy, Fields
<1> HIDE DEF r
<1>2. Ready(r)
  BY <1>1, SameReady, Zenon
<1>3. Whole(r)
  BY <1>1, <1>2, ReadyWhole
<1> QED
  BY <1>3 DEF r

LEMMA AnswersWhole ==
  ASSUME NEW k, Ready(k), NEW q, NEW files
  PROVE  /\ Whole(AnswerPage(k, files)) /\ Whole(AnswerUpload(k, files))
         /\ Whole(AnswerListing(k, q, files)) /\ Whole(BadGateway(k, files))
         /\ Whole(Collect(k))
         /\ \A f : Whole(AnswerFile(k, f, files))
<1>1. ASSUME NEW h, Ready(h) PROVE Whole(Respond(h, files))
  BY <1>1, RespondWhole
<1>2. ASSUME NEW n PROVE Ready(Headed(k, n))
  BY HeadedReady
<1>3. ASSUME NEW h, Ready(h), NEW t PROVE Ready([h EXCEPT !.body = t])
  BY <1>3 DEF Ready, Roomy, Fields
<1>4. ASSUME NEW h, Ready(h), NEW m, NEW f PROVE Ready([h EXCEPT !.stream = Stream(m, f)])
  <2> DEFINE s == Stream(m, f)
  <2>1. DOMAIN s = StreamFields /\ s.good = TRUE
    BY StreamGood
  <2> HIDE DEF s
  <2>2. Ready([h EXCEPT !.stream = s])
    BY <1>4, <2>1 DEF Ready, Roomy, Fields
  <2> QED
    BY <2>2 DEF s
<1>5. ASSUME NEW h, Ready(h), NEW t, NEW m, NEW f PROVE Ready([h EXCEPT !.temp = t, !.stream = Stream(m, f)])
  <2> DEFINE s == Stream(m, f)
  <2>1. DOMAIN s = StreamFields /\ s.good = TRUE
    BY StreamGood
  <2> HIDE DEF s
  <2>2. Ready([h EXCEPT !.temp = t, !.stream = s])
    BY <1>5, <2>1 DEF Ready, Roomy, Fields
  <2> QED
    BY <2>2 DEF s
<1>6. Whole(AnswerPage(k, files))
  BY <1>1, <1>2, <1>3, Zenon DEF AnswerPage
<1>7. Whole(AnswerUpload(k, files))
  BY <1>1, <1>2, Zenon DEF AnswerUpload
<1>8. Whole(AnswerListing(k, q, files))
  BY <1>1, <1>2, <1>5, Zenon DEF AnswerListing
<1>9. Whole(BadGateway(k, files))
  <2> DEFINE h == [k EXCEPT !.status = "502", !.headers = Lines(<<"502", "date">>) \o Blank,
                            !.buf = Clear(@)]
  <2>1. DOMAIN h = Fields /\ h.buf = Clear(k.buf) /\ h.stream = k.stream /\ h.end = k.end
    BY DEF Ready, Roomy, Fields
  <2>2. BadGateway(k, files) = Respond(h, files)
    BY Zenon DEF BadGateway
  <2> HIDE DEF h
  <2>3. Ready(h)
    BY <2>1, ClearedReady, Zenon
  <2> QED
    BY <1>1, <2>2, <2>3, Zenon
<1>10. Whole(Collect(k))
  <2> DEFINE r == Collect(k)
  <2>1. /\ DOMAIN r = Fields /\ r.buf = k.buf /\ r.stream = k.stream /\ r.end = k.end
        /\ r.state = "CGI_HEADERS"
    BY DEF Collect, Ready, Roomy, Fields
  <2> HIDE DEF r
  <2>2. Ready(r)
    BY <2>1, SameReady, Zenon
  <2>3. Whole(r)
    BY <2>1, <2>2, ReadyWhole
  <2> QED
    BY <2>3 DEF r
<1>11. ASSUME NEW f PROVE Whole(AnswerFile(k, f, files))
  <2>1. Whole(InternalError(k))
    <3> DEFINE r == InternalError(k)
    <3>1. /\ r.state = "RESPONSE" /\ r.end = k.end /\ r.headers = <<>> /\ r.body = <<>>
          /\ r.stream = NoStream
      BY DEF InternalError, Ready, Roomy, Fields
    <3>2. NoStream.mode = "none"
      BY StreamGood
    <3> HIDE DEF r
    <3>3. Whole(r)
      BY <3>1, <3>2 DEF Whole, Bare, Ready, Roomy
    <3> QED
      BY <3>3 DEF r
  <2> QED
    BY <1>1, <1>2, <1>4, <2>1, Zenon DEF AnswerFile
<1> QED
  BY <1>6, <1>7, <1>8, <1>9, <1>10, <1>11

LEMMA SetupCgiWhole ==
  ASSUME NEW k, Ready(k), NEW length
  PROVE  Whole(setup_cgi(k, length))
<1> DEFINE r == [k EXCEPT !.state = "CGI_TRANSMIT_BODY", !.written = 0]
           h == [k EXCEPT !.written = 0]
<1>1. /\ DOMAIN r = Fields /\ r.buf = k.buf /\ r.stream = k.stream /\ r.end = k.end
      /\ r.state = "CGI_TRANSMIT_BODY"
      /\ DOMAIN h = Fields /\ h.buf = k.buf /\ h.stream = k.stream /\ h.end = k.end
  BY DEF Ready, Roomy, Fields
<1>2. setup_cgi(k, length) = r \/ setup_cgi(k, length) = Collect(h)
  BY Zenon DEF setup_cgi
<1> HIDE DEF r, h
<1>3. Ready(r) /\ Ready(h)
  BY <1>1, SameReady, Zenon
<1>4. Whole(r)
  BY <1>1, <1>3, ReadyWhole
<1>5. Whole(Collect(h))
  BY <1>3, AnswersWhole
<1> QED
  BY <1>2, <1>4, <1>5

LEMMA AnswerErrorWhole ==
  ASSUME NEW k, Ready(k), NEW q, NEW files
  PROVE  Whole(AnswerError(k, q, files))
<1> DEFINE h == [k EXCEPT !.written = FeedCapacity(k.buf), !.buf = Clear(@)]
           r == [h EXCEPT !.state = "DISCARD_BODY"]
<1>1. DOMAIN h = Fields /\ h.buf = Clear(k.buf) /\ h.stream = k.stream /\ h.end = k.end
  BY DEF Ready, Roomy, Fields
<1>2. \/ AnswerError(k, q, files) = setup_cgi(k, 0)
      \/ AnswerError(k, q, files) = AnswerPage(k, files)
      \/ AnswerError(k, q, files) = AnswerPage(h, files)
      \/ AnswerError(k, q, files) = r
  BY Zenon DEF AnswerError
<1> HIDE DEF h
<1>3. Ready(h)
  BY <1>1, ClearedReady, Zenon
<1>4. /\ DOMAIN r = Fields /\ r.buf = h.buf /\ r.stream = h.stream /\ r.end = h.end
      /\ r.state = "DISCARD_BODY"
  BY <1>1 DEF Fields
<1> HIDE DEF r
<1>5. Ready(r)
  BY <1>3, <1>4, SameReady, Zenon
<1>6. Whole(r)
  BY <1>4, <1>5, ReadyWhole
<1>7. Whole(AnswerPage(k, files)) /\ Whole(AnswerPage(h, files))
  BY <1>3, AnswersWhole
<1> QED
  BY <1>2, <1>6, <1>7, SetupCgiWhole

LEMMA StoreBodyWhole ==
  ASSUME NEW k, Ready(k), NEW q, NEW files
  PROVE  Whole(StoreBody(k, q, files))
<1> DEFINE h == Stored(k)
           r == [h EXCEPT !.state = "REQ_BODY"]
           s == [k.stream EXCEPT !.pending = @ \o Unfed(k.buf)]
<1>1. DOMAIN h = Fields /\ h.buf = Clear(k.buf) /\ h.stream = s /\ h.end = k.end
  BY DEF Stored, Ready, Roomy, Fields
<1>2. DOMAIN s = StreamFields /\ s.good = TRUE
  BY DEF Ready, Roomy, StreamFields
<1>3. \/ StoreBody(k, q, files) = AnswerUpload(h, files)
      \/ StoreBody(k, q, files) = r
  BY Zenon DEF StoreBody
<1> HIDE DEF h, s
<1>4. DOMAIN Clear(k.buf) = BufferFields /\ Clear(k.buf).capacity = Capacity
  BY SizeKept DEF Ready, Roomy
<1>5. Ready(h)
  BY <1>1, <1>2, <1>4, Zenon DEF Ready, Roomy
<1>6. /\ DOMAIN r = Fields /\ r.buf = h.buf /\ r.stream = h.stream /\ r.end = h.end
      /\ r.state = "REQ_BODY"
  BY <1>1 DEF Fields
<1> HIDE DEF r
<1>7. Ready(r)
  BY <1>5, <1>6, SameReady, Zenon
<1>8. Whole(r)
  BY <1>6, <1>7, ReadyWhole
<1>9. Whole(AnswerUpload(h, files))
  BY <1>5, AnswersWhole
<1> QED
  BY <1>3, <1>8, <1>9

LEMMA SetupWhole ==
  ASSUME NEW k, Ready(k), NEW q \in Requests, NEW files
  PROVE  Whole(handle_setup(k, q, files))
<1> DEFINE r == handle_setup(k, q, files)
           ok == [k EXCEPT !.status = "200"]
           up == [k EXCEPT !.status = PostStatus(q.file, files), !.written = 0,
                           !.stream = Stream("out", q.file)]
<1>1. Ready(ok)
  <2>1. DOMAIN ok = Fields /\ ok.buf = k.buf /\ ok.stream = k.stream /\ ok.end = k.end
    BY DEF Ready, Roomy, Fields
  <2> HIDE DEF ok
  <2> QED
    BY <2>1, SameReady, Zenon
<1>2. Ready(up)
  <2> DEFINE s == Stream("out", q.file)
  <2>1. DOMAIN s = StreamFields /\ s.good = TRUE
    BY StreamGood
  <2> HIDE DEF s
  <2>2. DOMAIN up = Fields /\ up.buf = k.buf /\ up.stream = s /\ up.end = k.end
    BY DEF Ready, Roomy, Fields, s
  <2> HIDE DEF up
  <2> QED
    BY <2>1, <2>2, Zenon DEF Ready, Roomy
<1>3. ASSUME NEW x PROVE Whole(Refuse(k, x, q, files))
  <2> DEFINE h == [k EXCEPT !.status = x]
  <2>1. DOMAIN h = Fields /\ h.buf = k.buf /\ h.stream = k.stream /\ h.end = k.end
    BY DEF Ready, Roomy, Fields
  <2>2. Refuse(k, x, q, files) = AnswerError(h, q, files)
    BY Zenon DEF Refuse
  <2> HIDE DEF h
  <2>3. Ready(h)
    BY <2>1, SameReady, Zenon
  <2> QED
    BY <2>2, <2>3, AnswerErrorWhole
<1>4. \/ r = AnswerError(k, q, files)
      \/ \E x : r = Refuse(k, x, q, files)
      \/ r = StoreBody(up, q, files)
      \/ \E n : r = setup_cgi(ok, n)
      \/ r = AnswerListing(ok, q, files)
      \/ r = AnswerFile(ok, q.file, files)
  <2>1. CASE k.status # "none"
    BY <2>1, Zenon DEF handle_setup
  <2>2. CASE k.status = "none" /\ q.route = "large"
    BY <2>2 DEF handle_setup
  <2>3. CASE k.status = "none" /\ q.route = "upload"
    <3>1. r = setup_post(k, q, files)
      BY <2>3 DEF handle_setup
    <3> QED
      BY <3>1, Zenon DEF setup_post
  <2>4. CASE k.status = "none" /\ q.route = "script"
    BY <2>4 DEF handle_setup
  <2>5. CASE k.status = "none" /\ q.route = "listing"
    BY <2>5 DEF handle_setup
  <2>6. CASE k.status = "none" /\ q.route = "file"
    BY <2>6 DEF handle_setup
  <2>7. q.route \in Routes
    BY DEF Requests
  <2> HIDE DEF r, ok, up
  <2> QED
    BY <2>1, <2>2, <2>3, <2>4, <2>5, <2>6, <2>7, Zenon DEF Routes
<1> HIDE DEF r, ok, up
<1>5. Whole(AnswerListing(ok, q, files)) /\ Whole(AnswerFile(ok, q.file, files))
  BY <1>1, AnswersWhole
<1>6. Whole(r)
  BY <1>1, <1>2, <1>3, <1>4, <1>5, AnswerErrorWhole, StoreBodyWhole, SetupCgiWhole
<1> QED
  BY <1>6 DEF r

LEMMA FilledReady ==
  ASSUME NEW k, NEW q, NEW n
  PROVE  LET r == FillRequest(k, q, n)
         IN (Ready(k) => Ready(r)) /\ r.state = k.state
<1> DEFINE r == FillRequest(k, q, n)
           x == SubSeq(Sent(q), k.taken + 1, k.taken + n)
<1>1. ASSUME Ready(k) PROVE Ready(r)
  <2>1. DOMAIN r = Fields /\ r.buf = Fill(k.buf, x) /\ r.stream = k.stream /\ r.end = k.end
    BY <1>1 DEF FillRequest, Ready, Roomy, Fields
  <2>2. DOMAIN Fill(k.buf, x) = BufferFields /\ Fill(k.buf, x).capacity = Capacity
    BY <1>1, SizeKept DEF Ready, Roomy
  <2> HIDE DEF r, x
  <2> QED
    BY <1>1, <2>1, <2>2, Zenon DEF Ready, Roomy
<1>2. r.state = k.state
  BY DEF FillRequest
<1> QED
  BY <1>1, <1>2

\* The parser of the head leaves size and stream.
LEMMA HeadWhole ==
  ASSUME NEW k, Ready(k), k.state \in {"REQ_LINE", "REQ_HEADERS"},
         NEW q \in Requests, NEW n, NEW files
  PROVE  Whole(handle_head(k, q, n, files))
<1> DEFINE cleared == [k EXCEPT !.buf = IF FeedCapacity(@) = 0 THEN Clear(@) ELSE @]
           filled == FillRequest(cleared, q, n)
           lined == IF k.state = "REQ_LINE" THEN handle_req_line(filled) ELSE filled
           headed == IF lined.state = "REQ_HEADERS" THEN handle_req_headers(lined, q) ELSE lined
           judged == Judged(headed)
           HeadStates == {"REQ_LINE", "REQ_HEADERS", "REQ_SETUP"}
<1>1. Ready(cleared) /\ cleared.state = k.state
  <2>1. /\ DOMAIN cleared = Fields /\ cleared.stream = k.stream /\ cleared.end = k.end
        /\ cleared.state = k.state /\ (cleared.buf = k.buf \/ cleared.buf = Clear(k.buf))
    BY DEF Ready, Roomy, Fields
  <2> HIDE DEF cleared
  <2> QED
    BY <2>1, SameReady, ClearedReady, Zenon
<1> HIDE DEF cleared
<1>2. Ready(filled) /\ filled.state \in HeadStates
  <2>1. filled.state = k.state
    BY <1>1, FilledReady
  <2> QED
    BY <1>1, <2>1, FilledReady
<1> HIDE DEF filled
<1>3. ASSUME NEW h, Ready(h), NEW x PROVE Ready(Fail(h, x)) /\ Fail(h, x).state = "REQ_SETUP"
  <2> DEFINE r == Fail(h, x)
  <2>1. /\ DOMAIN r = Fields /\ r.buf = h.buf /\ r.stream = h.stream /\ r.end = h.end
        /\ r.state = "REQ_SETUP"
    BY <1>3 DEF Fail, Ready, Roomy, Fields
  <2> HIDE DEF r
  <2>2. Ready(r)
    BY <1>3, <2>1, SameReady, Zenon
  <2> QED
    BY <2>1, <2>2 DEF r
<1>4. ASSUME NEW h, Ready(h), NEW r, DOMAIN r = Fields, r.stream = h.stream, r.end = h.end,
             r.buf = h.buf \/ \E m : r.buf = Erase(h.buf, m)
      PROVE  Ready(r)
  <2>1. \A m : DOMAIN Erase(h.buf, m) = BufferFields /\ Erase(h.buf, m).capacity = Capacity
    BY <1>4, SizeKept DEF Ready, Roomy
  <2> QED
    BY <1>4, <2>1, Zenon DEF Ready, Roomy
<1>5. ASSUME NEW h, Ready(h), h.state \in HeadStates
      PROVE  Ready(handle_req_line(h)) /\ handle_req_line(h).state \in HeadStates
  <2> DEFINE m == Min(Ends(h.buf.data)) + 1
             r == [h EXCEPT !.state = "REQ_HEADERS", !.buf = Erase(@, m)]
  <2>1. \/ \E x : handle_req_line(h) = Fail(h, x)
        \/ handle_req_line(h) = h
        \/ handle_req_line(h) = r
    BY Zenon DEF handle_req_line
  <2> HIDE DEF m
  <2>2. /\ DOMAIN r = Fields /\ r.buf = Erase(h.buf, m) /\ r.stream = h.stream /\ r.end = h.end
        /\ r.state = "REQ_HEADERS"
    BY <1>5 DEF Ready, Roomy, Fields
  <2> HIDE DEF r
  <2>3. Ready(r)
    BY <1>4, <1>5, <2>2, Zenon
  <2> QED
    BY <1>3, <1>5, <2>1, <2>2, <2>3
<1>6. ASSUME NEW h, Ready(h), h.state \in HeadStates
      PROVE  Ready(handle_req_headers(h, q)) /\ handle_req_headers(h, q).state \in HeadStates
  <2> DEFINE d == h.buf.data
             stops == Stops(h, d)
             read == {e \in Ends(d) : stops = {} \/ e < Min(stops)}
             rest == [h EXCEPT !.fields = Insert(@, d, read),
                               !.buf = IF read = {} THEN @ ELSE Erase(@, Max(read) + 1)]
             body == [rest EXCEPT !.buf = Erase(@, 2), !.written = 0]
             r == handle_req_headers(h, q)
  <2>1. Ready(rest) /\ rest.state = h.state /\ DOMAIN rest = Fields
    <3> HIDE DEF read, d
    <3>1. /\ DOMAIN rest = Fields /\ rest.stream = h.stream /\ rest.end = h.end
          /\ rest.state = h.state
          /\ rest.buf = h.buf \/ rest.buf = Erase(h.buf, Max(read) + 1)
      BY <1>6 DEF Ready, Roomy, Fields
    <3> HIDE DEF rest
    <3> QED
      BY <1>4, <1>6, <3>1, Zenon
  <2> HIDE DEF rest
  <2>2. Ready(body)
    <3>1. /\ DOMAIN body = Fields /\ body.stream = rest.stream /\ body.end = rest.end
          /\ body.buf = Erase(rest.buf, 2)
      BY <2>1 DEF Fields
    <3> HIDE DEF body
    <3> QED
      BY <1>4, <2>1, <3>1, Zenon
  <2> HIDE DEF body, read, stops
  <2>3. \E x : parse_req_headers(body, q) = Fail(body, x)
    BY Zenon DEF parse_req_headers
  <2>4. \/ \E x : r = Fail(rest, x)
        \/ r = rest
        \/ r = parse_req_headers(body, q)
    BY Zenon DEF handle_req_headers, rest, body, read, stops
  <2> HIDE DEF r
  <2>5. Ready(r) /\ r.state \in HeadStates
    BY <1>3, <1>6, <2>1, <2>2, <2>3, <2>4
  <2> QED
    BY <2>5 DEF r
<1>7. Ready(lined) /\ lined.state \in HeadStates
  BY <1>2, <1>5
<1> HIDE DEF lined
<1>8. Ready(headed) /\ headed.state \in HeadStates
  BY <1>6, <1>7
<1>9. handle_head(k, q, n, files) = IF headed.state = "REQ_SETUP" THEN handle_setup(judged, q, files) ELSE headed
  BY Zenon DEF handle_head, judged, headed, lined, filled, cleared
<1> HIDE DEF headed
<1>10. Ready(judged)
  <2>1. DOMAIN judged = Fields /\ judged.buf = headed.buf /\ judged.stream = headed.stream /\ judged.end = headed.end
    BY <1>8 DEF Judged, Ready, Roomy, Fields
  <2> HIDE DEF judged
  <2> QED
    BY <1>8, <2>1, SameReady, Zenon
<1> HIDE DEF judged
<1>11. Whole(handle_setup(judged, q, files))
  BY <1>10, SetupWhole
<1>12. Whole(headed)
  BY <1>8, ReadyWhole
<1> QED
  BY <1>9, <1>11, <1>12

\* What is filled in is there to be taken.
LEMMA FillMore ==
  ASSUME NEW b, Solid(b), NEW x \in Seq(STRING)
  PROVE  /\ FeedCapacity(b) \in Int /\ FillCapacity(b) \in Int
         /\ FeedCapacity(Fill(b, x)) = FeedCapacity(b) + Len(x)
         /\ FillCapacity(Fill(b, x)) = FillCapacity(b) - Len(x)
<1> DEFINE j == b.data \o x
<1>1. /\ Fill(b, x).data = j /\ Fill(b, x).writepos = b.writepos
      /\ Fill(b, x).capacity = b.capacity
  BY DEF Fill, Solid, BufferFields
<1>2. Len(j) = Len(b.data) + Len(x) /\ Len(b.data) \in Int /\ Len(x) \in Int
  BY Appended DEF Solid
<1> HIDE DEF j
<1>3. b.writepos \in Int /\ b.capacity \in Int
  BY DEF Solid
<1>4. /\ FeedCapacity(b) = Len(b.data) - b.writepos
      /\ FillCapacity(b) = b.capacity - Len(b.data) - 1
      /\ FeedCapacity(Fill(b, x)) = Len(j) - b.writepos
      /\ FillCapacity(Fill(b, x)) = b.capacity - Len(j) - 1
  BY <1>1, Zenon DEF FeedCapacity, FillCapacity
<1> QED
  BY <1>2, <1>3, <1>4

\* buffer_res_headers() takes the lines that fit, so none when it takes no byte;
LEMMA HeadersTaken ==
  ASSUME NEW k, DOMAIN k = Fields, Solid(k.buf), k.headers \in Seq(STRING)
  PROVE  LET r == BufferHeaders(k)
         IN /\ FeedCapacity(r.buf) >= FeedCapacity(k.buf)
            /\ FeedCapacity(r.buf) = FeedCapacity(k.buf) =>
                  /\ FittingLines(k) = {} /\ r.headers = k.headers
                  /\ FillCapacity(r.buf) = FillCapacity(k.buf)
<1> DEFINE F == FittingLines(k)
           n == Max({0} \cup F)
           a == SubSeq(k.headers, 1, n)
           b == SubSeq(k.headers, n + 1, Len(k.headers))
           r == BufferHeaders(k)
<1>1. F \subseteq 1..Len(k.headers) /\ Len(k.headers) \in Nat
  BY FeedsAre DEF FittingLines
<1>2. r.buf = Fill(k.buf, a) /\ r.headers = b
  <2> HIDE DEF n
  <2>1. r = [k EXCEPT !.buf = Fill(@, a), !.headers = b]
    BY Zenon DEF BufferHeaders, n, F
  <2> HIDE DEF a, b, r
  <2> QED
    BY <2>1 DEF Fields
<1> HIDE DEF F, r
<1>3. n \in {0} \cup F /\ \A i \in {0} \cup F : n >= i
  <2> DEFINE S == {0} \cup F
  <2>1. S \subseteq 0..Len(k.headers) /\ S # {}
    BY <1>1
  <2> HIDE DEF S
  <2>2. Max(S) \in S /\ \A i \in S : Max(S) >= i
    BY <1>1, <2>1, LastExists
  <2> QED
    BY <2>2 DEF S
<1> HIDE DEF n
<1>4. n \in 0..Len(k.headers) /\ (n = 0 => F = {})
  BY <1>1, <1>3
<1>5. a \in Seq(STRING) /\ Len(a) = n /\ (n = 0 => b = k.headers)
  BY <1>4
<1> HIDE DEF a, b
<1>6. /\ FeedCapacity(r.buf) = FeedCapacity(k.buf) + n /\ FeedCapacity(k.buf) \in Int
      /\ FillCapacity(r.buf) = FillCapacity(k.buf) - n /\ FillCapacity(k.buf) \in Int
  BY <1>2, <1>5, FillMore
<1>7. FeedCapacity(r.buf) >= FeedCapacity(k.buf)
  BY <1>4, <1>6
<1>8. FeedCapacity(r.buf) = FeedCapacity(k.buf) => n = 0 /\ FillCapacity(r.buf) = FillCapacity(k.buf)
  BY <1>4, <1>6
<1> QED
  BY <1>2, <1>4, <1>5, <1>7, <1>8 DEF r, F

\* buffer_file() sees the end of a file it takes no byte of;
LEMMA FileTaken ==
  ASSUME NEW q, NEW k, NEW files, Filed(files), Shaped(k, q, files)
  PROVE  LET r == BufferFile(k, files)
         IN /\ r.headers = k.headers /\ r.body = k.body
            /\ FeedCapacity(r.buf) >= FeedCapacity(k.buf)
            /\ (/\ FeedCapacity(r.buf) = FeedCapacity(k.buf)
                /\ k.headers = <<>> /\ k.stream.good /\ FillCapacity(k.buf) > 1) =>
                  /\ r.stream.mode = "none" \/ r.stream.eof
                  /\ FillCapacity(r.buf) = FillCapacity(k.buf)
<1> DEFINE left == Unread(k, files)
           room == FillCapacity(k.buf)
           n == IF Len(left) < room THEN Len(left) ELSE room
           a == SubSeq(left, 1, n)
           t == [k.stream EXCEPT !.pos = @ + n, !.eof = n < room]
           h == [k EXCEPT !.buf = Fill(@, a), !.stream.pos = @ + n, !.stream.eof = n < room]
           r == BufferFile(k, files)
<1>1. left \in Seq(STRING)
  BY UnreadTyped
<1>2. \/ r = h /\ ~(room <= 1)
      \/ r = k /\ (k.stream.mode = "none" \/ k.headers # <<>> \/ k.stream.eof \/ ~k.stream.good \/ room <= 1)
  BY Zenon DEF BufferFile, FileWaits
<1>3. room \in Int /\ FeedCapacity(k.buf) \in Int
  BY DEF FillCapacity, FeedCapacity, Shaped, Solid
<1>4. CASE r = k /\ (k.stream.mode = "none" \/ k.headers # <<>> \/ k.stream.eof \/ ~k.stream.good \/ room <= 1)
  <2>1. FeedCapacity(k.buf) >= FeedCapacity(k.buf)
    BY <1>3
  <2>2. ~(FillCapacity(k.buf) > 1 /\ room <= 1)
    BY <1>3
  <2> HIDE DEF room, h
  <2> QED
    BY <1>4, <2>1, <2>2
<1>5. CASE r = h /\ ~(room <= 1)
  <2>1. h.headers = k.headers /\ h.body = k.body /\ h.buf = Fill(k.buf, a) /\ h.stream = t
    <3> HIDE DEF n, a, room
    <3> QED
      BY DEF Shaped, StreamIs, StreamFields, Fields
  <2>2. n < room => t.eof
    <3> HIDE DEF n, room
    <3> QED
      BY DEF Shaped, StreamIs, StreamFields
  <2>3. n \in Nat /\ n <= Len(left) /\ Len(left) \in Nat
    <3> HIDE DEF left, room
    <3> QED
      BY <1>1, <1>3, <1>5
  <2>4. a \in Seq(STRING) /\ Len(a) = n
    <3> HIDE DEF left, n
    <3> QED
      BY <1>1, <2>3
  <2> HIDE DEF a, h, n, left, t
  <2>5. /\ FeedCapacity(h.buf) = FeedCapacity(k.buf) + n
        /\ FillCapacity(h.buf) = FillCapacity(k.buf) - n
    BY <2>1, <2>4, FillMore DEF Shaped
  <2>6. FeedCapacity(h.buf) >= FeedCapacity(k.buf)
    BY <1>3, <2>3, <2>5
  <2>7. FeedCapacity(h.buf) = FeedCapacity(k.buf) =>
           h.stream.eof /\ FillCapacity(h.buf) = FillCapacity(k.buf)
    BY <1>3, <1>5, <2>1, <2>2, <2>3, <2>5
  <2> HIDE DEF r
  <2> QED
    BY <1>5, <2>1, <2>6, <2>7 DEF r
<1> QED
  BY <1>2, <1>4, <1>5

\* and buffer_inline_body() leaves no page it takes no byte of.
LEMMA BodyTaken ==
  ASSUME NEW k, DOMAIN k = Fields, Solid(k.buf), k.body \in Seq(STRING)
  PROVE  LET r == BufferBody(k)
         IN /\ r.headers = k.headers /\ r.stream = k.stream
            /\ FeedCapacity(r.buf) >= FeedCapacity(k.buf)
            /\ (/\ FeedCapacity(r.buf) = FeedCapacity(k.buf)
                /\ k.headers = <<>> /\ FillCapacity(k.buf) > 1) => r.body = <<>>
<1> DEFINE room == FillCapacity(k.buf) - 1
           n == IF room < Len(k.body) THEN room ELSE Len(k.body)
           a == SubSeq(k.body, 1, n)
           b == SubSeq(k.body, n + 1, Len(k.body))
           h == [k EXCEPT !.buf = Fill(@, a), !.body = b]
           r == BufferBody(k)
<1>1. FillCapacity(k.buf) \in Int /\ FeedCapacity(k.buf) \in Int
  BY DEF FillCapacity, FeedCapacity, Solid
<1>2. \/ r = h /\ ~(FillCapacity(k.buf) <= 1)
      \/ r = k /\ (k.headers # <<>> \/ FillCapacity(k.buf) <= 1)
  BY Zenon DEF BufferBody
<1>3. CASE r = k /\ (k.headers # <<>> \/ FillCapacity(k.buf) <= 1)
  <2> HIDE DEF r, h
  <2> QED
    BY <1>1, <1>3 DEF r
<1>4. CASE r = h /\ ~(FillCapacity(k.buf) <= 1)
  <2>1. h.headers = k.headers /\ h.stream = k.stream /\ h.buf = Fill(k.buf, a) /\ h.body = b
    <3> HIDE DEF a, b
    <3> QED
      BY DEF Fields
  <2>2. n \in Nat /\ n <= Len(k.body) /\ Len(k.body) \in Nat /\ (n = 0 => Len(k.body) = 0)
    BY <1>1, <1>4
  <2>3. a \in Seq(STRING) /\ Len(a) = n /\ (n = 0 => b = <<>>)
    <3> HIDE DEF n
    <3> QED
      BY <2>2
  <2> HIDE DEF a, b, n, h
  <2>4. FeedCapacity(h.buf) = FeedCapacity(k.buf) + n
    BY <2>1, <2>3, FillMore
  <2>5. /\ FeedCapacity(h.buf) >= FeedCapacity(k.buf)
        /\ FeedCapacity(h.buf) = FeedCapacity(k.buf) => h.body = <<>>
    BY <1>1, <2>1, <2>2, <2>3, <2>4
  <2> HIDE DEF r
  <2> QED
    BY <1>4, <2>1, <2>5 DEF r
<1> QED
  BY <1>2, <1>3, <1>4

\* Filling the buffer leaves its size, and whether the stream is good.
LEMMA FillingReady ==
  ASSUME NEW k, DOMAIN k = Fields, NEW files
  PROVE  \A r \in {BufferHeaders(k), BufferFile(k, files), BufferBody(k),
                   [k EXCEPT !.buf = Clear(@)]} :
            r.end = k.end /\ DOMAIN r = Fields /\ (Ready(k) => Ready(r))
<1>1. ASSUME Ready(k), NEW x
      PROVE  DOMAIN Fill(k.buf, x) = BufferFields /\ Fill(k.buf, x).capacity = Capacity
  BY <1>1, SizeKept DEF Ready, Roomy
<1>2. ASSUME NEW r, DOMAIN r = Fields, r.stream = k.stream, r.end = k.end,
             NEW x, r.buf = Fill(k.buf, x)
      PROVE  Ready(k) => Ready(r)
  BY <1>1, <1>2, Zenon DEF Ready, Roomy
<1>3. LET r == BufferHeaders(k) IN r.end = k.end /\ DOMAIN r = Fields /\ (Ready(k) => Ready(r))
  <2> DEFINE n == Max({0} \cup FittingLines(k))
             a == SubSeq(k.headers, 1, n)
             b == SubSeq(k.headers, n + 1, Len(k.headers))
             r == BufferHeaders(k)
  <2> HIDE DEF n
  <2>1. r = [k EXCEPT !.buf = Fill(@, a), !.headers = b]
    BY Zenon DEF BufferHeaders, n
  <2> HIDE DEF a, b, r
  <2>2. DOMAIN r = Fields /\ r.stream = k.stream /\ r.end = k.end /\ r.buf = Fill(k.buf, a)
    BY <2>1 DEF Fields
  <2>3. Ready(k) => Ready(r)
    BY <1>2, <2>2
  <2> QED
    BY <2>2, <2>3 DEF r
<1>4. LET r == BufferBody(k) IN r.end = k.end /\ DOMAIN r = Fields /\ (Ready(k) => Ready(r))
  <2> DEFINE room == FillCapacity(k.buf) - 1
             n == IF room < Len(k.body) THEN room ELSE Len(k.body)
             a == SubSeq(k.body, 1, n)
             b == SubSeq(k.body, n + 1, Len(k.body))
             h == [k EXCEPT !.buf = Fill(@, a), !.body = b]
  <2>1. BufferBody(k) = k \/ BufferBody(k) = h
    BY Zenon DEF BufferBody
  <2> HIDE DEF a, b
  <2>2. DOMAIN h = Fields /\ h.stream = k.stream /\ h.end = k.end /\ h.buf = Fill(k.buf, a)
    BY DEF Fields
  <2> HIDE DEF h
  <2>3. Ready(k) => Ready(h)
    BY <1>2, <2>2
  <2> QED
    BY <2>1, <2>2, <2>3
<1>5. LET r == BufferFile(k, files) IN r.end = k.end /\ DOMAIN r = Fields /\ (Ready(k) => Ready(r))
  <2> DEFINE left == Unread(k, files)
             n == IF Len(left) < FillCapacity(k.buf) THEN Len(left) ELSE FillCapacity(k.buf)
             a == SubSeq(left, 1, n)
             t == [k.stream EXCEPT !.pos = @ + n, !.eof = n < FillCapacity(k.buf)]
             h == [k EXCEPT !.buf = Fill(@, a)]
             r == [k EXCEPT !.buf = Fill(@, a), !.stream.pos = @ + n,
                            !.stream.eof = n < FillCapacity(k.buf)]
  <2>1. BufferFile(k, files) = k \/ BufferFile(k, files) = r
    BY Zenon DEF BufferFile
  <2> HIDE DEF left, n, a
  <2>2. DOMAIN r = Fields /\ r.buf = h.buf /\ r.end = k.end
    BY DEF Fields
  <2>3. ASSUME Ready(k) PROVE r.stream = t /\ DOMAIN t = StreamFields /\ t.good = TRUE
    BY <2>3 DEF Ready, Roomy, Fields, StreamFields
  <2>4. Ready(k) => Ready(h)
    <3>1. DOMAIN h = Fields /\ h.stream = k.stream /\ h.end = k.end /\ h.buf = Fill(k.buf, a)
      BY DEF Fields
    <3> HIDE DEF h
    <3> QED
      BY <1>2, <3>1
  <2> HIDE DEF r, h, t
  <2>5. Ready(k) => Ready(r)
    <3> SUFFICES ASSUME Ready(k) PROVE Ready(r)
      OBVIOUS
    <3>1. r.end = "none"
      BY <2>2 DEF Ready, Roomy
    <3> QED
      BY <2>2, <2>3, <2>4, <3>1, Zenon DEF Ready, Roomy
  <2> QED
    BY <2>1, <2>2, <2>5
<1>6. LET r == [k EXCEPT !.buf = Clear(@)] IN r.end = k.end /\ DOMAIN r = Fields /\ (Ready(k) => Ready(r))
  <2> DEFINE r == [k EXCEPT !.buf = Clear(@)]
  <2>1. DOMAIN r = Fields /\ r.buf = Clear(k.buf) /\ r.stream = k.stream /\ r.end = k.end
    BY DEF Fields
  <2> HIDE DEF r
  <2>2. Ready(k) => Ready(r)
    BY <2>1, ClearedReady, Zenon
  <2> QED
    BY <2>1, <2>2 DEF r
<1> QED
  BY <1>3, <1>4, <1>5, <1>6

LEMMA RefilledReady ==
  ASSUME NEW k, DOMAIN k = Fields, NEW files
  PROVE  LET r == Refilled(k, files)
         IN r.end = k.end /\ (Ready(k) => Ready(r))
<1> DEFINE c == [k EXCEPT !.buf = Clear(@)]
           b == BufferHeaders(c)
           f == BufferFile(b, files)
           h == BufferBody(f)
<1>1. Refilled(k, files) = k \/ Refilled(k, files) = h
  BY Zenon DEF Refilled, fill_res_buffer
<1>2. c.end = k.end /\ DOMAIN c = Fields /\ (Ready(k) => Ready(c))
  BY FillingReady, Zenon
<1> HIDE DEF c
<1>3. b.end = c.end /\ DOMAIN b = Fields /\ (Ready(c) => Ready(b))
  BY <1>2, FillingReady, Zenon
<1> HIDE DEF b
<1>4. f.end = b.end /\ DOMAIN f = Fields /\ (Ready(b) => Ready(f))
  BY <1>3, FillingReady, Zenon
<1> HIDE DEF f
<1>5. h.end = f.end /\ DOMAIN h = Fields /\ (Ready(f) => Ready(h))
  BY <1>4, FillingReady, Zenon
<1> HIDE DEF h
<1> QED
  BY <1>1, <1>2, <1>3, <1>4, <1>5, Zenon

\* When the buffer is empty after it was filled, nothing is left to answer, or the
\* next header line does not fit.
LEMMA RefilledEnds ==
  ASSUME NEW q, NEW k, NEW files, Filed(files), Shaped(k, q, files), Orderly(k.buf),
         k.stream.mode = "in" => k.body = <<>>,
         FeedCapacity(Refilled(k, files).buf) = 0
  PROVE  LET h == Refilled(k, files)
         IN /\ Finished(h) => Unfed(k.buf) = <<>> /\ Rest(k, files) = <<>>
            /\ Ready(k) /\ ~Finished(h) => Stuck(h)
            /\ Bare(k) => Finished(h)
<1> DEFINE c == [k EXCEPT !.buf = Clear(@)]
           b == BufferHeaders(c)
           f == BufferFile(b, files)
           h == Refilled(k, files)
<1>1. Moves(h, k, q, files)
  BY RefilledMoves
<1>2. FeedCapacity(h.buf) = 0 /\ Unfed(h.buf) = <<>>
  <2> DEFINE w == Unfed(h.buf)
  <2> HIDE DEF h
  <2>1. w \in Seq(STRING) /\ Len(w) = FeedCapacity(h.buf)
    BY <1>1, UnfedIs DEF Moves
  <2>2. FeedCapacity(h.buf) = 0
    BY DEF h
  <2> HIDE DEF w
  <2>3. w = <<>>
    BY <2>1, <2>2
  <2> QED
    BY <2>2, <2>3 DEF w
<1>3. /\ Unfed(k.buf) \in Seq(STRING) /\ Rest(k, files) \in Seq(STRING) /\ Rest(h, files) \in Seq(STRING)
      /\ Unfed(k.buf) \o Rest(k, files) = <<>> \o Rest(h, files)
      /\ FeedCapacity(k.buf) \in Nat /\ Len(Unfed(k.buf)) = FeedCapacity(k.buf)
  <2> HIDE DEF h
  <2>1. Rest(h, files) \in Seq(STRING) /\ Rest(k, files) \in Seq(STRING)
    BY <1>1, RestTyped DEF Moves
  <2>2. /\ Unfed(k.buf) \in Seq(STRING) /\ FeedCapacity(k.buf) \in Nat
        /\ Len(Unfed(k.buf)) = FeedCapacity(k.buf)
    BY UnfedIs
  <2> QED
    BY <1>1, <1>2, <2>1, <2>2, Zenon DEF Moves
\* Two pieces that come to nothing are nothing.
<1>4. ASSUME NEW x \in Seq(STRING), NEW y \in Seq(STRING), x \o y = <<>> PROVE x = <<>> /\ y = <<>>
  <2>1. Len(x \o y) = Len(x) + Len(y)
    OBVIOUS
  <2>2. Len(x) = 0 /\ Len(y) = 0
    BY <1>4, <2>1
  <2> QED
    BY <2>2
<1>5. ~(FeedCapacity(k.buf) > 0)
  <2>1. CASE FeedCapacity(k.buf) > 0
    <3>1. h = k
      BY <2>1 DEF Refilled
    <3> HIDE DEF h
    <3> QED
      BY <1>2, <2>1, <3>1
  <2> QED
    BY <2>1
<1>6. Unfed(k.buf) = <<>>
  <2> DEFINE w == Unfed(k.buf)
  <2>1. w \in Seq(STRING) /\ Len(w) = FeedCapacity(k.buf) /\ FeedCapacity(k.buf) \in Nat
    BY <1>3
  <2> HIDE DEF w
  <2>2. w = <<>>
    BY <1>5, <2>1
  <2> QED
    BY <2>2 DEF w
<1>7. Rest(k, files) = Rest(h, files)
  <2> DEFINE x == Rest(k, files)
             y == Rest(h, files)
  <2>1. x \in Seq(STRING) /\ y \in Seq(STRING) /\ <<>> \o x = <<>> \o y
    BY <1>3, <1>6, Zenon
  <2> HIDE DEF x, y
  <2>2. <<>> \o x = x /\ <<>> \o y = y
    BY <2>1
  <2>3. x = y
    BY <2>1, <2>2, Zenon
  <2> QED
    BY <2>3 DEF x, y
<1>8. ASSUME NEW g, g.headers = <<>>, g.body = <<>>, Unread(g, files) = <<>>
      PROVE  Rest(g, files) = <<>>
  <2>1. Rest(g, files) = (<<>> \o <<>>) \o <<>>
    BY <1>8, Zenon DEF Rest
  <2> QED
    BY <2>1
<1>9. ASSUME Finished(h) PROVE Rest(h, files) = <<>>
  <2> HIDE DEF h
  <2>1. h.headers = <<>> /\ h.body = <<>> /\ (h.stream.mode = "none" \/ h.stream.eof)
    BY <1>9 DEF Finished
  <2>2. Unread(h, files) = <<>>
    BY <2>1 DEF Unread
  <2> QED
    BY <1>8, <2>1, <2>2
<1>10. ASSUME Bare(k) PROVE Finished(h)
  <2> DEFINE x == h.headers \o Unread(h, files)
  <2>1. Unread(k, files) = <<>>
    BY <1>10 DEF Bare, Unread
  <2>2. Rest(h, files) = <<>>
    BY <1>7, <1>8, <1>10, <2>1 DEF Bare
  <2> HIDE DEF h
  <2>3. h.headers \in Seq(STRING) /\ h.body \in Seq(STRING) /\ Unread(h, files) \in Seq(STRING)
    BY <1>1, UnreadTyped DEF Moves, Shaped
  <2>4. x \in Seq(STRING)
    BY <2>3, Appended, Zenon
  <2>5. x \o h.body = <<>>
    BY <2>2, Zenon DEF Rest
  <2> HIDE DEF x
  <2>6. x = <<>> /\ h.body = <<>>
    BY <1>4, <2>3, <2>4, <2>5
  <2>7. h.headers = <<>>
    BY <1>4, <2>3, <2>6 DEF x
  <2>8. h.stream.mode = "none"
    BY <1>1, <1>10 DEF Moves, Bare
  <2> QED
    BY <1>2, <2>6, <2>7, <2>8 DEF Finished
<1>11. ASSUME Ready(k), ~Finished(h) PROVE Stuck(h)
  <2>1. h = BufferBody(f)
    BY <1>5, Zenon DEF Refilled, fill_res_buffer
  <2>2. /\ DOMAIN c = Fields /\ c.buf = Clear(k.buf) /\ c.headers = k.headers /\ c.body = k.body
        /\ c.temp = k.temp /\ c.answer = k.answer /\ c.status = k.status /\ c.heard = k.heard
        /\ c.stream = k.stream
    BY DEF Shaped, Fields
  <2>3. Ready(c) /\ Ready(b) /\ Ready(f)
    <3>1. Ready(c)
      BY <1>11, FillingReady, Zenon DEF Shaped
    <3> HIDE DEF c
    <3>2. Ready(b)
      BY <2>2, <3>1, FillingReady, Zenon
    <3> HIDE DEF b
    <3>3. Ready(f)
      BY <3>2, FillingReady, Zenon DEF Ready, Roomy
    <3> QED
      BY <3>1, <3>2, <3>3
  <2>4. Shaped(c, q, files) /\ Orderly(c.buf)
    <3>1. Solid(Clear(k.buf)) /\ Orderly(Clear(k.buf))
      BY SolidClear DEF Shaped
    <3> HIDE DEF c
    <3> QED
      BY <2>2, <3>1, Zenon DEF Shaped
  <2>5. FeedCapacity(c.buf) = 0 /\ FillCapacity(c.buf) = Capacity - 1
    <3>1. c.buf.data = <<>> /\ c.buf.writepos = 0 /\ c.buf.capacity = Capacity
      <4>1. DOMAIN k.buf = BufferFields /\ k.buf.capacity = Capacity
        BY <1>11 DEF Ready, Roomy
      <4> HIDE DEF c
      <4> QED
        BY <2>2, <4>1 DEF Clear, BufferFields
    <3> HIDE DEF c
    <3> QED
      BY <3>1, TransferAssumption DEF FeedCapacity, FillCapacity
  <2>6. Moves(b, c, q, files)
    <3>1. c.stream.mode = "in" => c.body = <<>>
      <4> HIDE DEF c
      <4> QED
        BY <2>2
    <3> HIDE DEF c
    <3> QED
      BY <2>4, <3>1, HeadersMove
  <2>7. Moves(f, b, q, files)
    <3>1. b.stream.mode = "in" => b.body = <<>>
      <4> HIDE DEF b, c
      <4> QED
        BY <2>6 DEF Moves
    <3> HIDE DEF b, c
    <3> QED
      BY <2>6, <3>1, FileMoves DEF Moves
  <2> HIDE DEF c, b, f, h
  <2>8. /\ FeedCapacity(b.buf) >= FeedCapacity(c.buf)
        /\ FeedCapacity(b.buf) = FeedCapacity(c.buf) =>
              /\ FittingLines(c) = {} /\ b.headers = c.headers
              /\ FillCapacity(b.buf) = FillCapacity(c.buf)
    BY <2>4, HeadersTaken DEF b, Shaped
  <2>9. /\ f.headers = b.headers /\ f.body = b.body
        /\ FeedCapacity(f.buf) >= FeedCapacity(b.buf)
        /\ (/\ FeedCapacity(f.buf) = FeedCapacity(b.buf)
            /\ b.headers = <<>> /\ b.stream.good /\ FillCapacity(b.buf) > 1) =>
              /\ f.stream.mode = "none" \/ f.stream.eof
              /\ FillCapacity(f.buf) = FillCapacity(b.buf)
    BY <2>6, FileTaken DEF f, Moves
  <2>10. /\ h.headers = f.headers /\ h.stream = f.stream
         /\ FeedCapacity(h.buf) >= FeedCapacity(f.buf)
         /\ (/\ FeedCapacity(h.buf) = FeedCapacity(f.buf)
             /\ f.headers = <<>> /\ FillCapacity(f.buf) > 1) => h.body = <<>>
    BY <2>1, <2>7, BodyTaken DEF Moves, Shaped
  <2>11. FeedCapacity(b.buf) \in Int /\ FeedCapacity(f.buf) \in Int
    <3>1. Solid(b.buf) /\ Solid(f.buf)
      BY <2>6, <2>7 DEF Moves, Shaped
    <3>2. <<>> \in Seq(STRING)
      OBVIOUS
    <3> QED
      BY <3>1, <3>2, FillMore
  <2>12. FeedCapacity(b.buf) = 0 /\ FeedCapacity(f.buf) = 0
    BY <1>2, <2>5, <2>8, <2>9, <2>10, <2>11
  <2>13. h.headers = c.headers /\ FittingLines(c) = {}
    BY <2>5, <2>8, <2>9, <2>10, <2>12
  <2>14. CASE h.headers = <<>>
    <3>1. b.headers = <<>> /\ f.headers = <<>>
      BY <2>9, <2>10, <2>14, Zenon
    <3>2. FillCapacity(b.buf) > 1
      BY <2>5, <2>8, <2>12, TransferAssumption
    <3>3. b.stream.good
      BY <2>3 DEF Ready
    <3>4. (f.stream.mode = "none" \/ f.stream.eof) /\ FillCapacity(f.buf) = FillCapacity(b.buf)
      BY <2>9, <2>12, <3>1, <3>2, <3>3
    <3>5. h.body = <<>>
      BY <1>2, <2>10, <2>12, <3>1, <3>2, <3>4
    <3>6. h.stream.mode = "none" \/ h.stream.eof
      <4>1. h.stream = f.stream
        BY <2>10
      <4> QED
        BY <3>4, <4>1
    <3>7. Finished(h)
      BY <1>2, <2>14, <3>5, <3>6 DEF Finished
    <3> QED
      BY <1>11, <3>7
  <2>15. CASE h.headers # <<>>
    <3>1. ASSUME NEW i \in Feeds(c.headers) PROVE i >= Capacity - 1
      <4>1. i \in Int
        BY <2>4, FeedsAre DEF Shaped
      <4>2. ~(i < FillCapacity(c.buf))
        BY <2>13 DEF FittingLines
      <4> QED
        BY <2>5, <4>1, <4>2, TransferAssumption
    <3> QED
      BY <2>13, <2>15, <3>1, Zenon DEF Stuck
  <2> QED
    BY <2>14, <2>15
<1> HIDE DEF h
<1>12. /\ Finished(h) => Unfed(k.buf) = <<>> /\ Rest(k, files) = <<>>
       /\ Ready(k) /\ ~Finished(h) => Stuck(h)
       /\ Bare(k) => Finished(h)
  BY <1>6, <1>7, <1>9, <1>10, <1>11, Zenon
<1> QED
  BY <1>12 DEF h

-----------------------------------------------------------------------------
\* The handlers of a body,
LEMMA DiscardWhole ==
  ASSUME NEW k, Ready(k), k.state = "DISCARD_BODY", NEW q, NEW n, NEW files
  PROVE  Whole(handle_discard(k, q, n, files))
<1> DEFINE d == [k EXCEPT !.buf = Clear(@), !.taken = @ + n, !.written = @ + n]
<1>1. /\ DOMAIN d = Fields /\ d.buf = Clear(k.buf) /\ d.stream = k.stream /\ d.end = k.end
      /\ d.state = k.state
  BY DEF Ready, Roomy, Fields
<1>2. handle_discard(k, q, n, files) = AnswerPage(d, files) \/ handle_discard(k, q, n, files) = d
  BY Zenon DEF handle_discard
<1> HIDE DEF d
<1>3. Ready(d)
  BY <1>1, ClearedReady, Zenon
<1>4. Whole(d) /\ Whole(AnswerPage(d, files))
  BY <1>1, <1>3, ReadyWhole, AnswersWhole
<1> QED
  BY <1>2, <1>4

LEMMA BodyKeepsWhole ==
  ASSUME NEW k, Ready(k), NEW q \in Requests, NEW n, NEW files
  PROVE  Whole(handle_post(k, q, n, files)) /\ Whole(read_cgi_body(k, q, n))
<1> DEFINE f == FillRequest(k, q, n)
           r == [f EXCEPT !.state = "CGI_TRANSMIT_BODY"]
<1>1. handle_post(k, q, n, files) = StoreBody(f, q, files) /\ read_cgi_body(k, q, n) = r
  BY Zenon DEF handle_post, read_cgi_body
<1>2. Ready(f)
  BY FilledReady
<1> HIDE DEF f
<1>3. /\ DOMAIN r = Fields /\ r.buf = f.buf /\ r.stream = f.stream /\ r.end = f.end
      /\ r.state = "CGI_TRANSMIT_BODY"
  BY <1>2 DEF Ready, Roomy, Fields
<1> HIDE DEF r
<1>4. Ready(r)
  BY <1>2, <1>3, SameReady, Zenon
<1>5. Whole(r) /\ Whole(StoreBody(f, q, files))
  BY <1>2, <1>3, <1>4, ReadyWhole, StoreBodyWhole
<1> QED
  BY <1>1, <1>5

LEMMA InputWhole ==
  ASSUME NEW k, Ready(k), k.state = "CGI_TRANSMIT_BODY", NEW q, NEW n
  PROVE  Whole(handle_cgi_input(k, q, n))
<1> DEFINE g == k.given \o SubSeq(Unfed(k.buf), 1, n)
           f == [k EXCEPT !.given = g, !.buf = Feed(@, n), !.written = @ + n]
           e == [f EXCEPT !.buf = Clear(@)]
           r == [e EXCEPT !.state = "REQ_BODY"]
<1>1. \/ handle_cgi_input(k, q, n) = f
      \/ handle_cgi_input(k, q, n) = Collect(e)
      \/ handle_cgi_input(k, q, n) = r
  BY Zenon DEF handle_cgi_input
<1>2. /\ DOMAIN f = Fields /\ f.buf = Feed(k.buf, n) /\ f.stream = k.stream /\ f.end = k.end
      /\ f.state = "CGI_TRANSMIT_BODY"
  <2> HIDE DEF g
  <2> QED
    BY DEF Ready, Roomy, Fields
<1>3. DOMAIN Feed(k.buf, n) = BufferFields /\ Feed(k.buf, n).capacity = Capacity
  BY SizeKept DEF Ready, Roomy
<1> HIDE DEF f
<1>4. Ready(f)
  BY <1>2, <1>3, Zenon DEF Ready, Roomy
<1>5. DOMAIN e = Fields /\ e.buf = Clear(f.buf) /\ e.stream = f.stream /\ e.end = f.end
  BY <1>4 DEF Ready, Roomy, Fields
<1> HIDE DEF e
<1>6. Ready(e)
  BY <1>4, <1>5, ClearedReady, Zenon
<1>7. /\ DOMAIN r = Fields /\ r.buf = e.buf /\ r.stream = e.stream /\ r.end = e.end
      /\ r.state = "REQ_BODY"
  BY <1>5 DEF Fields
<1> HIDE DEF r
<1>8. Ready(r)
  BY <1>6, <1>7, SameReady, Zenon
<1>9. Whole(f) /\ Whole(r) /\ Whole(Collect(e))
  BY <1>2, <1>4, <1>6, <1>7, <1>8, ReadyWhole, AnswersWhole
<1> QED
  BY <1>1, <1>9

\* and of what a script writes: while it is spooled, the stream need not be good.
LEMMA OutputWhole ==
  ASSUME NEW k, k.state \in {"CGI_HEADERS", "CGI_BODY"}, Whole(k),
         NEW q, NEW n, NEW eof, NEW files
  PROVE  Whole(handle_cgi_output(k, q, n, eof, files))
<1> DEFINE x == SubSeq(q.output, k.heard + 1, k.heard + n)
           filled == [k EXCEPT !.buf = Fill(@, x), !.heard = @ + n]
           begun == IF k.state = "CGI_HEADERS" THEN BeginBody(filled) ELSE filled
           spooled == SpoolBody(begun)
           r == handle_cgi_output(k, q, n, eof, files)
<1>1. Roomy(k) /\ (k.state = "CGI_HEADERS" => Ready(k))
  BY DEF Whole, Ready
<1>2. /\ DOMAIN filled = Fields /\ filled.buf = Fill(k.buf, x) /\ filled.stream = k.stream
      /\ filled.end = k.end /\ filled.state = k.state
  <2> HIDE DEF x
  <2> QED
    BY <1>1 DEF Roomy, Fields
<1>3. \/ k.state = "CGI_HEADERS" /\ r = BadGateway(filled, files)
      \/ k.state = "CGI_HEADERS" /\ r = filled
      \/ r = finalize_cgi(spooled, files)
      \/ r = spooled
  BY Zenon DEF handle_cgi_output
<1>4. DOMAIN Fill(k.buf, x) = BufferFields /\ Fill(k.buf, x).capacity = Capacity
  <2> HIDE DEF x
  <2> QED
    BY <1>1, SizeKept DEF Roomy
<1> HIDE DEF x, filled, r
<1>5. Roomy(filled) /\ (k.state = "CGI_HEADERS" => Ready(filled))
  <2>1. Roomy(filled)
    BY <1>1, <1>2, <1>4, Zenon DEF Roomy
  <2> QED
    BY <1>1, <1>2, <2>1, Zenon DEF Ready
<1>6. Roomy(begun) /\ begun.state = "CGI_BODY"
  <2> DEFINE h == BeginBody(filled)
             d == filled.buf.data
             t == IF filled.stream.mode = "none" THEN Stream("out", "temp")
                  ELSE [filled.stream EXCEPT !.good = FALSE]
             l == Lines(<<ScriptStatus(d)>>) \o ScriptFields(d)
             b == Erase(filled.buf, HeadEnd(d))
             g == [filled EXCEPT !.state = "CGI_BODY", !.status = ScriptStatus(d), !.headers = l,
                                 !.buf = b, !.temp = <<>>, !.stream = t]
  <2>1. h = g
    BY Zenon DEF BeginBody
  <2>2. DOMAIN t = StreamFields
    <3>1. DOMAIN Stream("out", "temp") = StreamFields
      BY StreamGood
    <3>2. DOMAIN [filled.stream EXCEPT !.good = FALSE] = StreamFields
      BY <1>5 DEF Roomy
    <3> QED
      BY <3>1, <3>2
  <2>3. DOMAIN b = BufferFields /\ b.capacity = Capacity
    BY <1>5, SizeKept DEF Roomy
  <2> HIDE DEF t, l, b, h
  <2>4. DOMAIN g = Fields /\ g.buf = b /\ g.stream = t /\ g.end = filled.end /\ g.state = "CGI_BODY"
    BY <1>2 DEF Fields
  <2> HIDE DEF g
  <2>5. Roomy(g)
    BY <1>5, <2>2, <2>3, <2>4, Zenon DEF Roomy
  <2>6. CASE k.state = "CGI_HEADERS"
    BY <2>1, <2>4, <2>5, <2>6 DEF h
  <2>7. CASE k.state # "CGI_HEADERS"
    BY <1>2, <1>5, <2>7
  <2> QED
    BY <2>6, <2>7
<1> HIDE DEF begun
<1>7. Roomy(spooled) /\ spooled.state = "CGI_BODY"
  <2> DEFINE y == IF begun.stream.good THEN begun.temp \o Unfed(begun.buf) ELSE begun.temp
             h == [begun EXCEPT !.temp = y, !.buf = Clear(@)]
  <2>1. spooled = begun \/ spooled = h
    BY Zenon DEF SpoolBody
  <2> HIDE DEF y
  <2>2. /\ DOMAIN h = Fields /\ h.buf = Clear(begun.buf) /\ h.stream = begun.stream
        /\ h.end = begun.end /\ h.state = begun.state
    BY <1>6 DEF Roomy, Fields
  <2> HIDE DEF h, spooled
  <2>3. Roomy(h)
    BY <1>6, <2>2, ClearedReady, Zenon
  <2> QED
    BY <1>6, <2>1, <2>2, <2>3
<1> HIDE DEF spooled
<1>8. Whole(finalize_cgi(spooled, files))
  <2> DEFINE s == Stream("in", "temp")
             l == spooled.headers \o Blank
             h == [spooled EXCEPT !.stream = s, !.headers = l, !.buf = Clear(@)]
  <2>1. finalize_cgi(spooled, files) = Respond(h, files)
    BY Zenon DEF finalize_cgi
  <2>2. DOMAIN s = StreamFields /\ s.good = TRUE
    BY StreamGood
  <2>3. DOMAIN Clear(spooled.buf) = BufferFields /\ Clear(spooled.buf).capacity = Capacity
    BY <1>7, SizeKept DEF Roomy
  <2> HIDE DEF s, l
  <2>4. DOMAIN h = Fields /\ h.buf = Clear(spooled.buf) /\ h.stream = s /\ h.end = spooled.end
    BY <1>7 DEF Roomy, Fields
  <2> HIDE DEF h
  <2>5. Ready(h)
    BY <1>7, <2>2, <2>3, <2>4, Zenon DEF Ready, Roomy
  <2> QED
    BY <2>1, <2>5, RespondWhole
<1>9. Whole(spooled)
  BY <1>7 DEF Whole
<1>10. k.state = "CGI_HEADERS" => Whole(filled) /\ Whole(BadGateway(filled, files))
  BY <1>2, <1>5, ReadyWhole, AnswersWhole
<1>11. Whole(r)
  BY <1>3, <1>8, <1>9, <1>10
<1> QED
  BY <1>11 DEF r

\* The client takes n bytes of what was filled in, or is let go.
LEMMA ResponseWhole ==
  ASSUME NEW q, NEW k, NEW files, Filed(files), Shaped(k, q, files), Answers(k, files),
         k.state = "RESPONSE", Whole(k)
  PROVE  LET h == Refilled(k, files)
         IN /\ FeedCapacity(h.buf) = 0 => Whole(Delete(h, IF Finished(h) THEN "sent" ELSE "stuck"))
            /\ \A n \in 1..FeedCapacity(h.buf) :
                  Whole([h EXCEPT !.answer = @ \o SubSeq(Unfed(h.buf), 1, n), !.buf = Feed(@, n)])
<1> DEFINE h == Refilled(k, files)
<1>1. /\ Orderly(k.buf) /\ (k.stream.mode = "in" => k.body = <<>>)
      /\ ~k.torn => k.answer \o Unfed(k.buf) \o Rest(k, files) = k.plan
  BY DEF Answers
<1>2. Moves(h, k, q, files)
  BY <1>1, RefilledMoves
<1>3. h.end = "none" /\ (Ready(k) => Ready(h)) /\ (Ready(k) \/ Bare(k))
  <2>1. DOMAIN k = Fields /\ k.end = "none" /\ (Ready(k) \/ Bare(k))
    BY DEF Whole, Shaped
  <2>2. h.end = k.end /\ (Ready(k) => Ready(h))
    BY <2>1, RefilledReady
  <2> QED
    BY <2>1, <2>2, Zenon
<1>4. ASSUME FeedCapacity(h.buf) = 0
      PROVE  Whole(Delete(h, IF Finished(h) THEN "sent" ELSE "stuck"))
  <2> DEFINE x == IF Finished(h) THEN "sent" ELSE "stuck"
             r == Delete(h, x)
  <2>1. /\ Finished(h) => Unfed(k.buf) = <<>> /\ Rest(k, files) = <<>>
        /\ ~Finished(h) => Stuck(h)
    <3>1. /\ Finished(h) => Unfed(k.buf) = <<>> /\ Rest(k, files) = <<>>
          /\ Ready(k) /\ ~Finished(h) => Stuck(h)
          /\ Bare(k) => Finished(h)
      BY <1>1, <1>4, RefilledEnds
    <3> QED
      BY <1>3, <3>1, Zenon
  <2>2. /\ r.state = "CLOSED" /\ r.stream = NoStream /\ r.end = x /\ r.headers = h.headers
        /\ r.torn = h.torn /\ r.answer = h.answer /\ r.plan = h.plan
    <3> HIDE DEF x, h
    <3> QED
      BY <1>2 DEF Delete, Moves, Shaped, Fields
  <2>3. ASSUME x = "sent", ~k.torn PROVE k.answer = k.plan
    <3>1. Unfed(k.buf) = <<>> /\ Rest(k, files) = <<>>
      BY <2>1, <2>3
    <3>2. k.answer \in Seq(STRING)
      BY DEF Shaped
    <3>3. k.answer \o <<>> \o <<>> = k.answer
      BY <3>2
    <3> QED
      BY <1>1, <2>3, <3>1, <3>3
  <2>4. x = "stuck" => Stuck(h)
    BY <2>1
  <2>5. NoStream.mode = "none"
    BY StreamGood
  <2> HIDE DEF x, h, r
  <2>6. h.torn = k.torn /\ h.answer = k.answer /\ h.plan = k.plan
    BY <1>2 DEF Moves
  <2>7. r.end = "sent" /\ ~r.torn => r.answer = r.plan
    <3> SUFFICES ASSUME r.end = "sent", ~r.torn PROVE r.answer = r.plan
      OBVIOUS
    <3>1. x = "sent" /\ ~k.torn
      BY <2>2, <2>6
    <3> QED
      BY <2>2, <2>3, <2>6, <3>1
  <2>8. r.end = "stuck" => Stuck(r)
    BY <2>2, <2>4 DEF Stuck
  <2>9. r.stream.mode = "none"
    BY <2>2, <2>5
  <2>10. Whole(r)
    BY <2>2, <2>7, <2>8, <2>9 DEF Whole, Ended
  <2> QED
    BY <2>10 DEF x, r
<1>5. ASSUME NEW n \in 1..FeedCapacity(h.buf)
      PROVE  Whole([h EXCEPT !.answer = @ \o SubSeq(Unfed(h.buf), 1, n), !.buf = Feed(@, n)])
  <2> DEFINE a == h.answer \o SubSeq(Unfed(h.buf), 1, n)
             r == [h EXCEPT !.answer = a, !.buf = Feed(@, n)]
  <2>1. Bare(k) => Bare(h)
    <3> SUFFICES ASSUME Bare(k) PROVE Bare(h)
      OBVIOUS
    <3>1. CASE FeedCapacity(k.buf) > 0
      <4>1. h = k
        BY <3>1 DEF Refilled
      <4> HIDE DEF h
      <4> QED
        BY <4>1
    <3>2. CASE ~(FeedCapacity(k.buf) > 0)
      <4> HIDE DEF h
      <4> DEFINE u == Unfed(k.buf)
                 v == Unfed(h.buf)
                 w == Rest(h, files)
      <4>1. /\ u \in Seq(STRING) /\ Len(u) = FeedCapacity(k.buf) /\ FeedCapacity(k.buf) \in Nat
            /\ v \in Seq(STRING) /\ Len(v) = FeedCapacity(h.buf) /\ FeedCapacity(h.buf) \in Nat
            /\ w \in Seq(STRING)
        BY <1>1, <1>2, UnfedIs, RestTyped DEF Moves
      <4>2. Rest(k, files) = (<<>> \o <<>>) \o <<>>
        <5>1. Unread(k, files) = <<>>
          BY DEF Bare, Unread
        <5> QED
          BY <5>1, Zenon DEF Bare, Rest
      <4>3. v \o w = u \o <<>>
        <5>1. (<<>> \o <<>>) \o <<>> = <<>>
          OBVIOUS
        <5> QED
          BY <1>2, <4>2, <5>1, Zenon DEF Moves
      <4> HIDE DEF u, v, w
      <4>4. Len(u) = 0 /\ Len(v \o w) = Len(v) + Len(w) /\ Len(u \o <<>>) = Len(u)
        BY <3>2, <4>1
      <4>5. FeedCapacity(h.buf) = 0
        BY <4>1, <4>3, <4>4
      <4> QED
        BY <4>5
    <3> QED
      BY <3>1, <3>2
  <2> HIDE DEF h, a
  <2>2. /\ DOMAIN r = Fields /\ r.buf = Feed(h.buf, n) /\ r.stream = h.stream /\ r.end = h.end
        /\ r.headers = h.headers /\ r.body = h.body /\ r.state = "RESPONSE"
    BY <1>2 DEF Moves, Shaped, Fields
  <2>3. Ready(h) => DOMAIN Feed(h.buf, n) = BufferFields /\ Feed(h.buf, n).capacity = Capacity
    BY SizeKept DEF Ready, Roomy
  <2> HIDE DEF r
  <2>4. Ready(h) => Ready(r)
    BY <2>2, <2>3, Zenon DEF Ready, Roomy
  <2>5. Bare(h) => Bare(r)
    BY <2>2, Zenon DEF Bare
  <2>6. r.end = "none" /\ (Ready(r) \/ Bare(r))
    BY <1>3, <2>1, <2>2, <2>4, <2>5, Zenon
  <2>7. Whole(r)
    BY <2>2, <2>6 DEF Whole
  <2> QED
    BY <2>7 DEF r, a
<1> QED
  BY <1>4, <1>5

LEMMA DropWhole ==
  ASSUME NEW k
  PROVE  Whole(Drop(k))
<1> DEFINE r == Drop(k)
<1>1. r.state = "CLOSED" /\ r.stream = NoStream /\ r.end = "dropped"
  BY DEF Drop, Fresh
<1>2. NoStream.mode = "none"
  BY StreamGood
<1> HIDE DEF r
<1>3. Whole(r)
  BY <1>1, <1>2 DEF Whole, Ended
<1> QED
  BY <1>3 DEF r

LEMMA FreshWhole == Whole(Fresh)
<1>1. /\ DOMAIN Fresh = Fields /\ Fresh.buf = Buffer(Capacity) /\ Fresh.stream = NoStream
      /\ Fresh.end = "none" /\ Fresh.state = "REQ_LINE"
  BY DEF Fresh, Fields
<1>2. DOMAIN Buffer(Capacity) = BufferFields /\ Buffer(Capacity).capacity = Capacity
  BY DEF Buffer, BufferFields
<1>3. DOMAIN NoStream = StreamFields /\ NoStream.good = TRUE
  BY StreamGood
<1>4. Ready(Fresh)
  BY <1>1, <1>2, <1>3, Zenon DEF Ready, Roomy
<1> QED
  BY <1>1, <1>4, ReadyWhole

\* Another upload changes the file that is sent, and part of what is pending is
\* written out.
LEMMA TornWhole ==
  ASSUME NEW k, DOMAIN k = Fields, Whole(k)
  PROVE  Whole([k EXCEPT !.torn = TRUE])
<1> DEFINE r == [k EXCEPT !.torn = TRUE]
<1>1. /\ DOMAIN r = Fields /\ r.buf = k.buf /\ r.stream = k.stream /\ r.end = k.end
      /\ r.state = k.state /\ r.headers = k.headers /\ r.body = k.body /\ r.torn = TRUE
  BY DEF Fields
<1> HIDE DEF r
<1>2. (Ready(k) => Ready(r)) /\ (Roomy(k) => Roomy(r))
  BY <1>1, SameReady, Zenon
<1>3. (Bare(k) => Bare(r)) /\ (Stuck(k) => Stuck(r))
  BY <1>1, Zenon DEF Bare, Stuck
<1>4. Ended(k) => Ended(r)
  BY <1>1, <1>3 DEF Ended
<1>5. Whole(r)
  BY <1>1, <1>2, <1>3, <1>4, Zenon DEF Whole
<1> QED
  BY <1>5 DEF r

LEMMA FlushWhole ==
  ASSUME NEW k, DOMAIN k = Fields, DOMAIN k.stream = StreamFields, k.stream.mode = "out",
         Whole(k), NEW n
  PROVE  Whole([k EXCEPT !.stream.pos = @ + n, !.stream.pending = SubSeq(@, n + 1, Len(@))])
<1> DEFINE p == SubSeq(k.stream.pending, n + 1, Len(k.stream.pending))
           t == [k.stream EXCEPT !.pos = @ + n, !.pending = p]
           r == [k EXCEPT !.stream.pos = @ + n, !.stream.pending = SubSeq(@, n + 1, Len(@))]
<1>1. DOMAIN t = StreamFields /\ t.mode = "out" /\ t.good = k.stream.good
  <2> HIDE DEF p
  <2> QED
    BY DEF StreamFields
<1>2. /\ DOMAIN r = Fields /\ r.buf = k.buf /\ r.stream = t /\ r.end = k.end
      /\ r.state = k.state
  BY DEF Fields, StreamFields
<1> HIDE DEF p, t, r
<1>3. (Roomy(k) => Roomy(r)) /\ (Ready(k) => Ready(r))
  BY <1>1, <1>2, Zenon DEF Ready, Roomy
<1>4. ~Bare(k) /\ ~Ended(k)
  BY DEF Bare, Ended
<1>5. Whole(r)
  BY <1>2, <1>3, <1>4, Zenon DEF Whole
<1> QED
  BY <1>5 DEF r

AllWhole == \A c \in Present : Whole(conn[c])

LEMMA InitWhole == TransferInit => AllWhole
<1> SUFFICES ASSUME TransferInit PROVE AllWhole
  OBVIOUS
<1>1. \A c \in Present : conn[c] = Fresh
  BY DEF TransferInit
<1> QED
  BY <1>1, FreshWhole, Zenon DEF AllWhole

LEMMA SetWhole ==
  ASSUME AnswersOwed, AllWhole, NEW c \in Present, NEW k, Whole(k), NEW files, Set(c, k, files)
  PROVE  AllWhole'
<1>1. asked' = asked /\ conn'[c] = k
  BY DEF Set
<1>2. ASSUME NEW d \in Present, d # c PROVE Whole(conn'[d])
  <2>1. Whole(conn[d]) /\ DOMAIN conn[d] = Fields
    BY DEF AllWhole, AnswersOwed, Owes, Shaped
  <2>2. conn'[d] = [conn[d] EXCEPT !.torn = TRUE] \/ conn'[d] = conn[d]
    BY <1>2, Zenon DEF Set
  <2>3. Whole([conn[d] EXCEPT !.torn = TRUE])
    BY <2>1, TornWhole
  <2> QED
    BY <2>1, <2>2, <2>3
<1>3. \A d \in Present : Whole(conn'[d])
  BY <1>1, <1>2
<1> QED
  BY <1>1, <1>3 DEF AllWhole, Present

LEMMA StepWhole == BodiesInOrder /\ AnswersOwed /\ AllWhole /\ [TransferNext]_vars => AllWhole'
<1> SUFFICES ASSUME BodiesInOrder, AnswersOwed, AllWhole, [TransferNext]_vars PROVE AllWhole'
  OBVIOUS
<1>1. CASE UNCHANGED vars
  BY <1>1 DEF vars, AllWhole, Present
<1>2. ASSUME NEW c \in Present,
             \/ Handle(c) \/ CloseSide(c) \/ CloseStdin(c) \/ Timeout(c) \/ Leave(c) \/ Flush(c)
      PROVE  AllWhole'
  <2> DEFINE k == conn[c]
             q == asked[c]
  <2>1. /\ q \in Requests /\ Shaped(k, q, disk) /\ Filed(disk) /\ Whole(k)
        /\ k.state = "RESPONSE" => Answers(k, disk)
    BY DEF BodiesInOrder, InOrder, AnswersOwed, Owes, AllWhole
  <2>2. k.state \in {"REQ_LINE", "REQ_HEADERS", "REQ_BODY", "DISCARD_BODY", "CGI_TRANSMIT_BODY"}
           => Ready(k)
    BY <2>1 DEF Whole
  <2>3. ASSUME NEW r, Whole(r), Become(c, r) PROVE AllWhole'
    BY <2>3, SetWhole DEF Become
  <2>4. Whole(Drop(k))
    BY DropWhole
  <2>5. CASE HandleHead(c)
    <3>1. k.state \in {"REQ_LINE", "REQ_HEADERS"}
      BY <2>5 DEF HandleHead
    <3>2. PICK n \in Readable(c, FillCapacity(k.buf)) : Become(c, handle_head(k, q, n, disk))
      BY <2>5 DEF HandleHead
    <3> HIDE DEF k, q
    <3>3. Whole(handle_head(k, q, n, disk))
      BY <2>1, <2>2, <3>1, HeadWhole
    <3> QED
      BY <2>3, <3>2, <3>3, Zenon
  <2>6. CASE HandleDiscard(c) \/ CloseSide(c)
    <3>1. PICK n : k.state = "DISCARD_BODY" /\ Become(c, handle_discard(k, q, n, disk))
      BY <2>6, Zenon DEF HandleDiscard, CloseSide
    <3> HIDE DEF k, q
    <3>2. Whole(handle_discard(k, q, n, disk))
      BY <2>2, <3>1, DiscardWhole
    <3> QED
      BY <2>3, <3>1, <3>2, Zenon
  <2>7. CASE HandleBody(c)
    <3>1. PICK n :
             /\ k.state = "REQ_BODY"
             /\ Become(c, IF q.route = "script" THEN read_cgi_body(k, q, n) ELSE handle_post(k, q, n, disk))
      BY <2>7, Zenon DEF HandleBody
    <3> HIDE DEF k, q
    <3>2. Whole(handle_post(k, q, n, disk)) /\ Whole(read_cgi_body(k, q, n))
      BY <2>1, <2>2, <3>1, BodyKeepsWhole
    <3> QED
      BY <2>3, <3>1, <3>2, Zenon
  <2>8. CASE HandleCgiInput(c)
    <3>1. PICK n : k.state = "CGI_TRANSMIT_BODY" /\ Become(c, handle_cgi_input(k, q, n))
      BY <2>8, Zenon DEF HandleCgiInput
    <3> HIDE DEF k, q
    <3>2. Whole(handle_cgi_input(k, q, n))
      BY <2>2, <3>1, InputWhole
    <3> QED
      BY <2>3, <3>1, <3>2, Zenon
  <2>9. CASE HandleCgiOutput(c)
    <3>1. k.state \in {"CGI_HEADERS", "CGI_BODY"}
      BY <2>9 DEF HandleCgiOutput
    <3>2. \E n, eof : Become(c, handle_cgi_output(k, q, n, eof, disk))
      BY <2>9, Zenon DEF HandleCgiOutput
    <3>3. PICK n, eof : Become(c, handle_cgi_output(k, q, n, eof, disk))
      BY <3>2, Zenon
    <3> HIDE DEF k, q
    <3>4. Whole(handle_cgi_output(k, q, n, eof, disk))
      BY <2>1, <3>1, OutputWhole
    <3> QED
      BY <2>3, <3>3, <3>4, Zenon
  <2>10. CASE HandleResponse(c)
    <3> DEFINE h == Refilled(k, disk)
               x == IF Finished(h) THEN "sent" ELSE "stuck"
    <3>1. k.state = "RESPONSE"
      BY <2>10 DEF HandleResponse
    <3>2. \/ FeedCapacity(h.buf) = 0 /\ Become(c, Delete(h, x))
          \/ \E n \in 1..FeedCapacity(h.buf) :
                Become(c, [h EXCEPT !.answer = @ \o SubSeq(Unfed(h.buf), 1, n), !.buf = Feed(@, n)])
      BY <2>10, Zenon DEF HandleResponse
    <3>3. /\ FeedCapacity(h.buf) = 0 => Whole(Delete(h, x))
          /\ \A n \in 1..FeedCapacity(h.buf) :
                Whole([h EXCEPT !.answer = @ \o SubSeq(Unfed(h.buf), 1, n), !.buf = Feed(@, n)])
      <4> HIDE DEF k, q
      <4> QED
        BY <2>1, <3>1, ResponseWhole
    <3> HIDE DEF k, q, h, x
    <3> QED
      BY <2>3, <3>2, <3>3, Zenon
  <2>11. CASE CloseStdin(c)
    <3>1. k.state = "CGI_TRANSMIT_BODY" /\ Become(c, Collect(k))
      BY <2>11 DEF CloseStdin
    <3> HIDE DEF k, q
    <3>2. Whole(Collect(k))
      BY <2>2, <3>1, AnswersWhole
    <3> QED
      BY <2>3, <3>1, <3>2, Zenon
  <2>12. CASE Timeout(c)
    <3> DEFINE late == [k EXCEPT !.status = "408"]
    <3>1. \/ /\ k.state \in {"REQ_LINE", "REQ_HEADERS", "REQ_BODY"}
             /\ Become(c, handle_setup(late, q, disk))
          \/ k.state = "DISCARD_BODY" /\ Become(c, AnswerPage(k, disk))
          \/ Become(c, Drop(k))
      BY <2>12, Zenon DEF Timeout
    <3> HIDE DEF k, q
    <3>2. ASSUME Ready(k) PROVE Whole(handle_setup(late, q, disk))
      <4>1. DOMAIN late = Fields /\ late.buf = k.buf /\ late.stream = k.stream /\ late.end = k.end
        BY <2>1 DEF Shaped, Fields
      <4> HIDE DEF late
      <4>2. Ready(late)
        BY <3>2, <4>1, SameReady, Zenon
      <4> QED
        BY <2>1, <4>2, SetupWhole
    <3>3. ASSUME Ready(k) PROVE Whole(AnswerPage(k, disk))
      BY <3>3, AnswersWhole
    <3> HIDE DEF late
    <3>4. CASE k.state \in {"REQ_LINE", "REQ_HEADERS", "REQ_BODY"} /\ Become(c, handle_setup(late, q, disk))
      BY <2>2, <2>3, <3>2, <3>4
    <3>5. CASE k.state = "DISCARD_BODY" /\ Become(c, AnswerPage(k, disk))
      BY <2>2, <2>3, <3>3, <3>5
    <3>6. CASE Become(c, Drop(k))
      BY <2>3, <2>4, <3>6, Zenon
    <3> QED
      BY <3>1, <3>4, <3>5, <3>6
  <2>13. CASE Leave(c)
    <3>1. Become(c, Drop(k))
      BY <2>13 DEF Leave
    <3> HIDE DEF k, q
    <3> QED
      BY <2>3, <2>4, <3>1, Zenon
  <2>14. CASE Flush(c)
    <3> DEFINE s == k.stream
    <3>1. s.mode = "out" /\ DOMAIN s = StreamFields /\ DOMAIN k = Fields
      BY <2>1, <2>14 DEF Flush, Writes, Shaped, StreamIs
    <3>2. PICK n \in 1..Len(s.pending) :
             Set(c, [k EXCEPT !.stream.pos = @ + n, !.stream.pending = SubSeq(@, n + 1, Len(@))],
                 [disk EXCEPT ![s.file] = Overlay(@, s.pos, SubSeq(s.pending, 1, n))])
      BY <2>14 DEF Flush
    <3> DEFINE r == [k EXCEPT !.stream.pos = @ + n, !.stream.pending = SubSeq(@, n + 1, Len(@))]
               files == [disk EXCEPT ![s.file] = Overlay(@, s.pos, SubSeq(s.pending, 1, n))]
    <3>3. Whole(r)
      <4> HIDE DEF k
      <4> QED
        BY <2>1, <3>1, FlushWhole
    <3>4. Set(c, r, files)
      BY <3>2
    <3> HIDE DEF k, r, files
    <3> QED
      BY <3>3, <3>4, SetWhole
  <2> QED
    BY <1>2, <2>5, <2>6, <2>7, <2>8, <2>9, <2>10, <2>11, <2>12, <2>13, <2>14 DEF Handle
<1> QED
  BY <1>1, <1>2 DEF TransferNext

LEMMA WholeSaysSo == AllWhole => EndsWhole
<1> SUFFICES ASSUME AllWhole, NEW c \in Present
             PROVE  /\ (conn[c].end = "sent" /\ ~conn[c].torn) => conn[c].answer = conn[c].plan
                    /\ conn[c].end = "stuck" => Stuck(conn[c])
  BY Zenon DEF EndsWhole, Stuck
<1> DEFINE k == conn[c]
<1>1. Whole(k)
  BY DEF AllWhole
<1> HIDE DEF k
<1>2. CASE k.state = "CLOSED"
  BY <1>1, <1>2 DEF Whole, Ended, k
<1>3. CASE k.state # "CLOSED"
  <2>1. k.end = "none"
    BY <1>1, <1>3 DEF Whole, Ready, Roomy
  <2> QED
    BY <2>1 DEF k
<1> QED
  BY <1>2, <1>3

\* Whatever the capacity of the buffer, the requests, the files and the scripts,
\* and whatever is read and taken at a time: a client that handle_response() lets
\* go has had the whole answer, unless an upload replaced the file meanwhile, or
\* the next header line is as long as the empty buffer (handle_response(), which
\* takes an empty buffer after fill_res_buffer() for the end of the answer).
THEOREM AnswersEndWhole == TransferSpec => []EndsWhole
<1>1. TransferSpec => []BodiesInOrder
  BY InitInOrder, StepInOrder, PTL DEF TransferSpec
<1>2. TransferSpec => []AnswersOwed
  BY <1>1, InitOwes, StepOwes, PTL DEF TransferSpec
<1>3. TransferSpec => []AllWhole
  BY <1>1, <1>2, InitWhole, StepWhole, PTL DEF TransferSpec
<1> QED
  BY <1>3, WholeSaysSo, PTL

-----------------------------------------------------------------------------
(* What is stored of an upload                                                *)

\* What the client is told of an upload: until it is answered, the bytes that were
\* written are counted; it is acknowledged when none is missing.
Told(k, q) ==
    /\ Writes(k.stream) => q.route = "upload"
    /\ k.state = "CGI_TRANSMIT_BODY" => q.route = "script"
    /\ k.state = "DISCARD_BODY" => k.status = "413"
    /\ k.state = "REQ_BODY" /\ Writes(k.stream) => k.written = Len(k.given)
    /\ k.state = "RESPONSE" /\ Writes(k.stream) /\ k.status \in {"201", "204"}
          => Len(k.given) >= q.length

\* The file holds what has left the stream, and the stream is at its end.
Laid(k, files) ==
    Writes(k.stream) =>
        /\ k.stream.file \in DOMAIN files
        /\ ~k.torn => /\ files[k.stream.file] \o k.stream.pending = k.given
                      /\ Len(files[k.stream.file]) = k.stream.pos

\* A handler that opens an upload, or adds x to what is pending.
Adds(r, k, x) ==
    /\ r.stream.file = k.stream.file /\ r.stream.pos = k.stream.pos /\ (~r.torn => ~k.torn)
    /\ r.stream.pending = k.stream.pending \o x /\ r.given = k.given \o x

Loads(r, k) ==
    Writes(r.stream) =>
        \/ ~Writes(k.stream) /\ r.stream.pos = 0 /\ r.stream.pending = r.given
        \/ Writes(k.stream) /\ \E x \in Seq(STRING) : Adds(r, k, x)

\* A handler that leaves the stream and what was given.
Leaves(r, k) ==
    DOMAIN r = Fields /\ r.stream = k.stream /\ r.given = k.given /\ r.torn = k.torn

\* One that goes on to a state with the status it has, or to a file.
Goes(r, k, state) == Leaves(r, k) /\ r.state = state /\ r.status = k.status
Serves(r) == r.state = "RESPONSE" /\ ~Writes(r.stream)

LEMMA LeavesLoads ==
  ASSUME NEW k, NEW r, Leaves(r, k), k.given \in Seq(STRING), k.stream.pending \in Seq(STRING)
  PROVE  Loads(r, k)
<1>1. /\ <<>> \in Seq(STRING)
      /\ \A g \in Seq(STRING) : g \o <<>> = g
  OBVIOUS
<1>2. Adds(r, k, <<>>)
  BY <1>1, Zenon DEF Leaves, Adds
<1>3. Writes(r.stream) => Writes(k.stream)
  BY Zenon DEF Leaves
<1> QED
  BY <1>1, <1>2, <1>3 DEF Loads

LEMMA LeavesTwice ==
  ASSUME NEW k, NEW h, Leaves(h, k), NEW r, Leaves(r, h)
  PROVE  Leaves(r, k)
  BY Zenon DEF Leaves

LEMMA AnswersLeave ==
  ASSUME NEW k, DOMAIN k = Fields, NEW q, NEW files
  PROVE  /\ Goes(AnswerPage(k, files), k, "RESPONSE")
         /\ Goes(AnswerUpload(k, files), k, "RESPONSE")
         /\ Goes(Collect(k), k, "CGI_HEADERS")
         /\ Leaves(BadGateway(k, files), k)
         /\ BadGateway(k, files).state = "RESPONSE" /\ BadGateway(k, files).status = "502"
         /\ Serves(AnswerListing(k, q, files))
         /\ \A f : Serves(AnswerFile(k, f, files))
<1> DEFINE Same(h) == Leaves(h, k) /\ h.status = k.status
<1>1. ASSUME NEW n PROVE Same(Headed(k, n))
  BY DEF Headed, Leaves, Fields
<1>2. ASSUME NEW h, DOMAIN h = Fields PROVE Goes(Respond(h, files), h, "RESPONSE")
  BY <1>2 DEF Respond, Goes, Leaves, Fields
<1>3. ASSUME NEW h, Same(h), NEW t PROVE Same([h EXCEPT !.body = t])
  BY <1>3 DEF Leaves, Fields
<1>4. ASSUME NEW h, Same(h) PROVE Goes(Respond(h, files), k, "RESPONSE")
  <2> DEFINE r == Respond(h, files)
  <2>1. Goes(r, h, "RESPONSE")
    BY <1>2, <1>4 DEF Leaves
  <2> HIDE DEF r
  <2>2. Goes(r, k, "RESPONSE")
    BY <1>4, <2>1, LeavesTwice DEF Goes
  <2> QED
    BY <2>2 DEF r
<1>5. ASSUME NEW h, DOMAIN h = Fields, ~Writes(h.stream) PROVE Serves(Respond(h, files))
  <2> DEFINE r == Respond(h, files)
  <2>1. Goes(r, h, "RESPONSE")
    BY <1>2, <1>5
  <2> HIDE DEF r
  <2>2. Serves(r)
    BY <1>5, <2>1 DEF Goes, Leaves, Serves
  <2> QED
    BY <2>2 DEF r
<1>6. ~Writes(NoStream) /\ \A f : ~Writes(Stream("in", f))
  BY DEF Writes, Stream, NoStream
<1>7. Goes(AnswerPage(k, files), k, "RESPONSE") /\ Goes(AnswerUpload(k, files), k, "RESPONSE")
  <2>1. \E h : Same(h) /\ AnswerPage(k, files) = Respond(h, files)
    BY <1>1, <1>3, Zenon DEF AnswerPage
  <2>2. \E h : Same(h) /\ AnswerUpload(k, files) = Respond(h, files)
    BY <1>1, Zenon DEF AnswerUpload
  <2> HIDE DEF Same
  <2> QED
    BY <1>4, <2>1, <2>2
<1>8. /\ Leaves(BadGateway(k, files), k)
      /\ BadGateway(k, files).state = "RESPONSE" /\ BadGateway(k, files).status = "502"
  <2> DEFINE l == Lines(<<"502", "date">>) \o Blank
             b == Clear(k.buf)
             h == [k EXCEPT !.status = "502", !.headers = l, !.buf = b]
             r == BadGateway(k, files)
  <2>1. r = Respond(h, files)
    BY Zenon DEF BadGateway
  <2> HIDE DEF l, b, r
  <2>2. Leaves(h, k) /\ h.status = "502"
    BY DEF Leaves, Fields
  <2> HIDE DEF h
  <2>3. Leaves(r, h) /\ r.state = "RESPONSE" /\ r.status = "502"
    BY <1>2, <2>1, <2>2 DEF Leaves, Goes
  <2>4. Leaves(r, k)
    BY <2>2, <2>3, LeavesTwice
  <2> QED
    BY <2>3, <2>4 DEF r
<1>9. Goes(Collect(k), k, "CGI_HEADERS")
  BY DEF Collect, Goes, Leaves, Fields
<1>10. Serves(AnswerListing(k, q, files))
  <2> DEFINE s == Stream("in", "temp")
             g == Headed(k, <<"length">>)
             h == [g EXCEPT !.temp = q.output, !.stream = s]
  <2>1. AnswerListing(k, q, files) = Respond(h, files)
    BY Zenon DEF AnswerListing
  <2>2. DOMAIN g = Fields
    BY <1>1 DEF Leaves
  <2> HIDE DEF s, g
  <2>3. DOMAIN h = Fields /\ h.stream = s
    BY <2>2 DEF Fields
  <2> HIDE DEF h
  <2>4. ~Writes(h.stream)
    BY <1>6, <2>3 DEF s
  <2> QED
    BY <1>5, <2>1, <2>3, <2>4
<1>11. ASSUME NEW f PROVE Serves(AnswerFile(k, f, files))
  <2> DEFINE s == Stream("in", f)
             g == Headed(k, <<"length">>)
             h == [g EXCEPT !.stream = s]
             e == InternalError(k)
  <2>1. AnswerFile(k, f, files) = Respond(h, files) \/ AnswerFile(k, f, files) = e
    BY Zenon DEF AnswerFile
  <2>2. e.state = "RESPONSE" /\ e.stream = NoStream
    BY DEF InternalError, Fields
  <2>3. DOMAIN g = Fields
    BY <1>1 DEF Leaves
  <2> HIDE DEF s, g, e
  <2>4. DOMAIN h = Fields /\ h.stream = s
    BY <2>3 DEF Fields
  <2> HIDE DEF h
  <2>5. ~Writes(h.stream)
    BY <1>6, <2>4 DEF s
  <2>6. Serves(e)
    BY <1>6, <2>2 DEF Serves
  <2>7. Serves(Respond(h, files))
    BY <1>5, <2>4, <2>5
  <2> QED
    BY <2>1, <2>6, <2>7
<1> QED
  BY <1>7, <1>8, <1>9, <1>10, <1>11

LEMMA AnswerErrorLeaves ==
  ASSUME NEW k, DOMAIN k = Fields, NEW q, NEW files
  PROVE  LET r == AnswerError(k, q, files)
         IN /\ Leaves(r, k) /\ r.status = k.status
            /\ r.state \in {"CGI_HEADERS", "RESPONSE", "DISCARD_BODY"}
            /\ r.state = "DISCARD_BODY" => r.status = "413"
<1> DEFINE w == [k EXCEPT !.written = 0]
           h == [k EXCEPT !.written = FeedCapacity(k.buf), !.buf = Clear(@)]
           d == [h EXCEPT !.state = "DISCARD_BODY"]
           r == AnswerError(k, q, files)
<1>1. \/ r = Collect(w)
      \/ r = AnswerPage(k, files)
      \/ r = AnswerPage(h, files)
      \/ r = d /\ k.status = "413"
  <2>1. setup_cgi(k, 0) = Collect(w)
    <3>1. ~(0 > 0)
      OBVIOUS
    <3> QED
      BY <3>1, Zenon DEF setup_cgi
  <2> QED
    BY <2>1, Zenon DEF AnswerError
<1>2. /\ Leaves(w, k) /\ w.status = k.status
      /\ Leaves(h, k) /\ h.status = k.status
      /\ Leaves(d, k) /\ d.status = k.status /\ d.state = "DISCARD_BODY"
  BY DEF Leaves, Fields
<1> HIDE DEF w, h, d, r
<1>3. Goes(Collect(w), w, "CGI_HEADERS")
  BY <1>2, AnswersLeave DEF Leaves
<1>4. ASSUME NEW g, DOMAIN g = Fields PROVE Goes(AnswerPage(g, files), g, "RESPONSE")
  BY <1>4, AnswersLeave
<1>5. CASE r = Collect(w)
  <2>1. Goes(r, k, "CGI_HEADERS")
    BY <1>2, <1>3, <1>5, LeavesTwice DEF Goes
  <2> QED
    BY <2>1 DEF Goes, r
<1>6. CASE r = AnswerPage(k, files)
  <2>1. Goes(r, k, "RESPONSE")
    BY <1>4, <1>6
  <2> QED
    BY <2>1 DEF Goes, r
<1>7. CASE r = AnswerPage(h, files)
  <2>1. Goes(r, h, "RESPONSE")
    BY <1>2, <1>4, <1>7 DEF Leaves
  <2>2. Goes(r, k, "RESPONSE")
    BY <1>2, <2>1, LeavesTwice DEF Goes
  <2> QED
    BY <2>2 DEF Goes, r
<1>8. CASE r = d /\ k.status = "413"
  BY <1>2, <1>8 DEF r
<1> QED
  BY <1>1, <1>5, <1>6, <1>7, <1>8

LEMMA SolidUnfed ==
  ASSUME NEW b, Solid(b)
  PROVE  /\ Unfed(b) \in Seq(STRING) /\ FeedCapacity(b) \in Nat
         /\ Len(Unfed(b)) = FeedCapacity(b)
<1>1. FeedCapacity(b) \in Nat
  BY DEF Solid, FeedCapacity
<1>2. Unfed(b) \in Seq(STRING)
  BY SolidIs
<1>3. DOMAIN Unfed(b) = 1..FeedCapacity(b)
  BY Zenon DEF Unfed
<1> DEFINE u == Unfed(b)
           n == FeedCapacity(b)
<1>4. u \in Seq(STRING) /\ n \in Nat /\ DOMAIN u = 1..n
  BY <1>1, <1>2, <1>3
<1> HIDE DEF u, n
<1>5. Len(u) = n
  BY <1>4
<1> QED
  BY <1>4, <1>5 DEF u, n

\* The bytes in the buffer are stored: they are counted, and the upload is
\* acknowledged when the count is the length.
LEMMA StoreLoads ==
  ASSUME NEW k, DOMAIN k = Fields, DOMAIN k.stream = StreamFields, Solid(k.buf),
         k.given \in Seq(STRING), Writes(k.stream) => k.written = Len(k.given),
         NEW q \in Requests, Writes(k.stream) => q.route = "upload", NEW files
  PROVE  LET r == StoreBody(k, q, files)
         IN /\ Told(r, q) /\ Adds(r, k, Unfed(k.buf)) /\ r.stream.mode = k.stream.mode
            /\ r.stream.file = k.stream.file
<1> DEFINE u == Unfed(k.buf)
           s == [k.stream EXCEPT !.pending = @ \o u]
           h == Stored(k)
           d == [h EXCEPT !.state = "REQ_BODY"]
           r == StoreBody(k, q, files)
<1>1. u \in Seq(STRING) /\ FeedCapacity(k.buf) \in Nat /\ Len(u) = FeedCapacity(k.buf)
  BY SolidUnfed
<1>2. /\ DOMAIN h = Fields /\ h.stream = s /\ h.given = k.given \o u /\ h.torn = k.torn
      /\ h.written = k.written + FeedCapacity(k.buf)
  <2> HIDE DEF u
  <2>1. h = [k EXCEPT !.stream.pending = @ \o u, !.given = @ \o u,
                      !.written = @ + FeedCapacity(k.buf), !.buf = Clear(@)]
    BY Zenon DEF Stored, u
  <2> HIDE DEF h
  <2> QED
    BY <2>1 DEF Fields, StreamFields
<1>3. /\ s.mode = k.stream.mode /\ s.file = k.stream.file /\ s.pos = k.stream.pos
      /\ s.pending = k.stream.pending \o u
  <2> HIDE DEF u
  <2> QED
    BY DEF StreamFields
<1>4. \/ r = AnswerUpload(h, files) /\ h.written >= q.length
      \/ r = d
  BY Zenon DEF StoreBody, Acknowledged
<1> HIDE DEF u, s, h, r
<1>5. Writes(k.stream) => h.written = Len(h.given)
  <2>1. Len(k.given \o u) = Len(k.given) + Len(u)
    BY <1>1
  <2> QED
    BY <1>1, <1>2, <2>1
<1>6. ASSUME NEW x, Leaves(x, h)
      PROVE  /\ Adds(x, k, u) /\ x.stream.mode = k.stream.mode /\ x.stream.file = k.stream.file
             /\ Writes(x.stream) => Writes(k.stream) /\ q.route = "upload"
  <2>1. x.stream = s /\ x.given = k.given \o u /\ x.torn = k.torn
    BY <1>2, <1>6 DEF Leaves
  <2>2. Writes(x.stream) => Writes(k.stream)
    BY <1>3, <2>1, Zenon DEF Writes
  <2> QED
    BY <1>3, <2>1, <2>2 DEF Adds
<1>7. CASE r = AnswerUpload(h, files) /\ h.written >= q.length
  <2>1. Leaves(r, h) /\ r.state = "RESPONSE"
    BY <1>2, <1>7, AnswersLeave DEF Goes
  <2>2. Writes(k.stream) => Len(r.given) >= q.length
    BY <1>5, <1>7, <2>1 DEF Leaves
  <2>3. Told(r, q)
    BY <1>6, <2>1, <2>2 DEF Told
  <2> QED
    BY <1>6, <2>1, <2>3 DEF r, u
<1>8. CASE r = d
  <2>1. Leaves(d, h) /\ d.state = "REQ_BODY" /\ d.written = h.written
    BY <1>2 DEF Leaves, Fields
  <2> HIDE DEF d
  <2>2. Writes(k.stream) => d.written = Len(d.given)
    BY <1>5, <2>1 DEF Leaves
  <2>3. Told(d, q)
    BY <1>6, <2>1, <2>2 DEF Told
  <2> QED
    BY <1>6, <1>8, <2>1, <2>3 DEF r, u
<1> QED
  BY <1>4, <1>7, <1>8

\* handle_setup() opens no stream but that of an upload, for which nothing was
\* given before.
LEMMA SetupLoads ==
  ASSUME NEW k, DOMAIN k = Fields, k.stream.mode = "none", Solid(k.buf), k.given = <<>>,
         NEW q \in Requests, NEW files
  PROVE  LET r == handle_setup(k, q, files) IN Told(r, q) /\ Loads(r, k)
<1> DEFINE r == handle_setup(k, q, files)
           ok == [k EXCEPT !.status = "200"]
           st == PostStatus(q.file, files)
           s == Stream("out", q.file)
           up == [k EXCEPT !.status = st, !.written = 0, !.stream = s]
<1>1. ~Writes(k.stream)
  BY DEF Writes
<1>2. ASSUME NEW x, ~Writes(x.stream), x.state \in {"CGI_HEADERS", "RESPONSE", "DISCARD_BODY"},
             x.state = "DISCARD_BODY" => x.status = "413"
      PROVE  Told(x, q) /\ Loads(x, k)
  BY <1>2 DEF Told, Loads
<1>3. ASSUME NEW g, DOMAIN g = Fields, g.stream = k.stream
      PROVE  Told(AnswerError(g, q, files), q) /\ Loads(AnswerError(g, q, files), k)
  <2> DEFINE x == AnswerError(g, q, files)
  <2>1. /\ Leaves(x, g) /\ x.state \in {"CGI_HEADERS", "RESPONSE", "DISCARD_BODY"}
        /\ x.state = "DISCARD_BODY" => x.status = "413"
    BY <1>3, AnswerErrorLeaves
  <2> HIDE DEF x
  <2>2. ~Writes(x.stream)
    BY <1>1, <1>3, <2>1 DEF Leaves
  <2>3. Told(x, q) /\ Loads(x, k)
    BY <1>2, <2>1, <2>2
  <2> QED
    BY <2>3 DEF x
<1>4. ASSUME NEW x PROVE Told(Refuse(k, x, q, files), q) /\ Loads(Refuse(k, x, q, files), k)
  <2> DEFINE g == [k EXCEPT !.status = x]
  <2>1. DOMAIN g = Fields /\ g.stream = k.stream
    BY DEF Fields
  <2>2. Refuse(k, x, q, files) = AnswerError(g, q, files)
    BY Zenon DEF Refuse
  <2> HIDE DEF g
  <2> QED
    BY <1>3, <2>1, <2>2
<1>5. DOMAIN ok = Fields /\ ok.stream = k.stream
  BY DEF Fields
<1> HIDE DEF ok
<1>6. ASSUME NEW n, q.route = "script"
      PROVE  Told(setup_cgi(ok, n), q) /\ Loads(setup_cgi(ok, n), k)
  <2> DEFINE p == [ok EXCEPT !.state = "CGI_TRANSMIT_BODY", !.written = 0]
             w == [ok EXCEPT !.written = 0]
  <2>1. setup_cgi(ok, n) = p \/ setup_cgi(ok, n) = Collect(w)
    BY Zenon DEF setup_cgi
  <2>2. /\ DOMAIN w = Fields /\ w.stream = k.stream
        /\ p.stream = k.stream /\ p.state = "CGI_TRANSMIT_BODY"
    BY <1>5 DEF Fields
  <2> HIDE DEF p, w
  <2>3. Told(p, q) /\ Loads(p, k)
    BY <1>1, <1>6, <2>2 DEF Told, Loads
  <2>4. Leaves(Collect(w), w) /\ Collect(w).state = "CGI_HEADERS"
    BY <2>2, AnswersLeave DEF Goes
  <2>5. ~Writes(Collect(w).stream)
    BY <1>1, <2>2, <2>4 DEF Leaves
  <2>6. Told(Collect(w), q) /\ Loads(Collect(w), k)
    BY <1>2, <2>4, <2>5
  <2> QED
    BY <2>1, <2>3, <2>6
<1>7. /\ Told(AnswerListing(ok, q, files), q) /\ Loads(AnswerListing(ok, q, files), k)
      /\ Told(AnswerFile(ok, q.file, files), q) /\ Loads(AnswerFile(ok, q.file, files), k)
  <2> DEFINE a == AnswerListing(ok, q, files)
             b == AnswerFile(ok, q.file, files)
  <2>1. a.state = "RESPONSE" /\ ~Writes(a.stream) /\ b.state = "RESPONSE" /\ ~Writes(b.stream)
    BY <1>5, AnswersLeave DEF Serves
  <2> HIDE DEF a, b
  <2>2. Told(a, q) /\ Loads(a, k) /\ Told(b, q) /\ Loads(b, k)
    BY <1>2, <2>1
  <2> QED
    BY <2>2 DEF a, b
<1>8. ASSUME q.route = "upload" PROVE Told(StoreBody(up, q, files), q) /\ Loads(StoreBody(up, q, files), k)
  <2> DEFINE x == StoreBody(up, q, files)
             u == Unfed(up.buf)
  <2>1. DOMAIN s = StreamFields /\ s.pos = 0 /\ s.pending = <<>>
    BY DEF Stream, NoStream, StreamFields
  <2> HIDE DEF s, st
  <2>2. /\ DOMAIN up = Fields /\ up.buf = k.buf /\ up.stream = s /\ up.given = k.given
        /\ up.written = 0
    BY DEF Fields
  <2> HIDE DEF up
  <2>3. up.given = <<>> /\ up.given \in Seq(STRING) /\ up.written = Len(up.given)
    BY <2>2
  <2>4. Solid(up.buf) /\ DOMAIN up.stream = StreamFields
    BY <2>1, <2>2
  <2>5. Told(x, q) /\ Adds(x, up, u)
    BY <1>8, <2>2, <2>3, <2>4, StoreLoads
  <2> HIDE DEF x, u
  <2>6. x.stream.pos = 0 /\ x.stream.pending = x.given
    BY <2>1, <2>2, <2>3, <2>5 DEF Adds
  <2>7. Loads(x, k)
    BY <1>1, <2>6 DEF Loads
  <2> QED
    BY <2>5, <2>7 DEF x
<1>9. \/ r = AnswerError(k, q, files)
      \/ \E x : r = Refuse(k, x, q, files)
      \/ r = StoreBody(up, q, files) /\ q.route = "upload"
      \/ (\E n : r = setup_cgi(ok, n)) /\ q.route = "script"
      \/ r = AnswerListing(ok, q, files)
      \/ r = AnswerFile(ok, q.file, files)
  <2>1. CASE k.status # "none"
    BY <2>1, Zenon DEF handle_setup
  <2>2. CASE k.status = "none" /\ q.route = "large"
    BY <2>2 DEF handle_setup
  <2>3. CASE k.status = "none" /\ q.route = "upload"
    <3>1. r = setup_post(k, q, files)
      BY <2>3 DEF handle_setup
    <3> QED
      BY <2>3, <3>1, Zenon DEF setup_post
  <2>4. CASE k.status = "none" /\ q.route = "script"
    BY <2>4 DEF handle_setup, ok
  <2>5. CASE k.status = "none" /\ q.route = "listing"
    BY <2>5 DEF handle_setup, ok
  <2>6. CASE k.status = "none" /\ q.route = "file"
    BY <2>6 DEF handle_setup, ok
  <2>7. q.route \in Routes
    BY DEF Requests
  <2> HIDE DEF r, up
  <2> QED
    BY <2>1, <2>2, <2>3, <2>4, <2>5, <2>6, <2>7, Zenon DEF Routes
<1>10. Told(AnswerError(k, q, files), q) /\ Loads(AnswerError(k, q, files), k)
  BY <1>3
<1> HIDE DEF r, up
<1>11. Told(r, q) /\ Loads(r, k)
  BY <1>4, <1>6, <1>7, <1>8, <1>9, <1>10
<1> QED
  BY <1>11 DEF r

\* A handler that leaves no upload open,
LEMMA UnwrittenStows ==
  ASSUME NEW r, NEW k, NEW q, ~Writes(r.stream), r.state # "DISCARD_BODY",
         r.state = "CGI_TRANSMIT_BODY" => q.route = "script"
  PROVE  Told(r, q) /\ Loads(r, k)
  BY DEF Told, Loads

\* and one that leaves it as it is and does not acknowledge it.
LEMMA LeftStows ==
  ASSUME NEW r, NEW k, NEW q, Leaves(r, k), k.given \in Seq(STRING), k.stream.pending \in Seq(STRING),
         Told(k, q), r.state \in {"DISCARD_BODY", "CGI_HEADERS", "CGI_BODY", "RESPONSE"},
         r.state = "DISCARD_BODY" => r.status = "413",
         r.state = "RESPONSE" => r.status \notin {"201", "204"}
  PROVE  Told(r, q) /\ Loads(r, k)
<1>1. Loads(r, k)
  BY LeavesLoads
<1>2. r.stream = k.stream
  BY DEF Leaves
<1>3. Told(r, q)
  BY <1>2 DEF Told
<1> QED
  BY <1>1, <1>3

LEMMA HeadStows ==
  ASSUME NEW q \in Requests, NEW k, NEW files, Starts(k, q, files), Reads(k, q),
         k.state \in {"REQ_LINE", "REQ_HEADERS"},
         NEW n \in Nat, k.taken + n <= Len(Sent(q))
  PROVE  Told(handle_head(k, q, n, files), q) /\ Loads(handle_head(k, q, n, files), k)
<1> DEFINE cleared == [k EXCEPT !.buf = IF FeedCapacity(@) = 0 THEN Clear(@) ELSE @]
           filled == FillRequest(cleared, q, n)
           lined == IF k.state = "REQ_LINE" THEN handle_req_line(filled) ELSE filled
           headed == IF lined.state = "REQ_HEADERS" THEN handle_req_headers(lined, q) ELSE lined
           judged == Judged(headed)
<1>1. Starts(cleared, q, files) /\ Reads(cleared, q) /\ cleared.taken = k.taken
  <2>1. /\ DOMAIN cleared = Fields /\ cleared.headers = k.headers /\ cleared.body = k.body
        /\ cleared.temp = k.temp /\ cleared.answer = k.answer /\ cleared.status = k.status
        /\ cleared.heard = k.heard /\ cleared.stream = k.stream /\ cleared.taken = k.taken
        /\ cleared.buf \in {k.buf, Clear(k.buf)} /\ cleared.state = k.state
        /\ cleared.start = k.start /\ cleared.given = k.given
    BY DEF Starts, Begun, Shaped, Fields
  <2>2. Solid(Clear(k.buf)) /\ Clear(k.buf).writepos = 0 /\ Solid(k.buf) /\ k.buf.writepos = 0
    BY SolidClear DEF Starts, Begun, Shaped, Solid, Clear, BufferFields
  <2>3. Lastly(k.buf, Sent(q), k.taken) /\ Lastly(Clear(k.buf), Sent(q), k.taken)
    <3>1. DOMAIN k.buf = BufferFields
      BY DEF Reads, Lastly
    <3> QED
      BY <3>1, LastlyClear, SentIs, Zenon DEF Reads
  <2> HIDE DEF cleared
  <2>4. Solid(cleared.buf) /\ cleared.buf.writepos = 0 /\ Lastly(cleared.buf, Sent(q), k.taken)
    BY <2>1, <2>2, <2>3
  <2>5. Begun(cleared, q, files)
    BY <2>1, <2>4, Zenon DEF Starts, Begun, Shaped, Silent
  <2>6. Starts(cleared, q, files)
    BY <2>1, <2>4, <2>5, Zenon DEF Starts
  <2>7. Reads(cleared, q)
    BY <2>1, <2>4 DEF Reads
  <2> QED
    BY <2>1, <2>6, <2>7
<1> HIDE DEF cleared
<1>2. Starts(filled, q, files) /\ Reads(filled, q)
  <2>1. DOMAIN cleared = Fields /\ cleared.taken \in 0..Len(Sent(q)) /\ Begun(cleared, q, files)
    BY <1>1 DEF Reads, Starts
  <2>2. /\ Begun(filled, q, files) /\ filled.stream = cleared.stream
        /\ filled.state = cleared.state /\ filled.buf.writepos = cleared.buf.writepos
    BY <1>1, <2>1, ReadMoreBegun
  <2>3. Reads(filled, q)
    BY <1>1, <2>1, ReadMore, Zenon
  <2> HIDE DEF filled
  <2> QED
    BY <1>1, <2>2, <2>3 DEF Starts
<1> HIDE DEF filled
<1>3. Starts(lined, q, files) /\ Reads(lined, q)
  <2>1. Starts(handle_req_line(filled), q, files) /\ Reads(handle_req_line(filled), q)
    BY <1>2, LineStarts, LineReads, Zenon
  <2> QED
    BY <1>2, <2>1
<1> HIDE DEF lined
<1>4. Starts(headed, q, files) /\ Reads(headed, q)
  <2>1. Starts(handle_req_headers(lined, q), q, files) /\ Reads(handle_req_headers(lined, q), q)
    BY <1>3, HeadersStart, HeadersRead, Zenon
  <2> QED
    BY <1>3, <2>1
<1> HIDE DEF headed
<1>5. CASE headed.state = "REQ_SETUP"
  <2> DEFINE r == handle_setup(judged, q, files)
  <2>1. /\ DOMAIN judged = Fields /\ judged.buf = headed.buf /\ judged.stream = headed.stream
        /\ judged.given = headed.given
    BY <1>4, <1>5 DEF Judged, Starts, Begun, Shaped, Fields
  <2> HIDE DEF judged
  <2>2. Solid(judged.buf) /\ judged.stream.mode = "none" /\ judged.given = <<>>
    BY <1>4, <2>1 DEF Starts, Begun, Shaped, Reads
  <2>3. Told(r, q) /\ Loads(r, judged)
    BY <2>1, <2>2, SetupLoads
  <2>4. handle_head(k, q, n, files) = r
    BY <1>5, Zenon DEF handle_head, judged, headed, lined, filled, cleared
  <2> HIDE DEF r
  <2>5. ~Writes(judged.stream) /\ ~Writes(k.stream)
    BY <2>2 DEF Writes, Starts
  <2>6. Loads(r, k)
    BY <2>3, <2>5 DEF Loads
  <2> QED
    BY <2>3, <2>4, <2>6
<1>6. CASE headed.state # "REQ_SETUP"
  <2>1. handle_head(k, q, n, files) = headed
    BY <1>6, Zenon DEF handle_head, headed, lined, filled, cleared
  <2>2. headed.state \in {"REQ_LINE", "REQ_HEADERS"} /\ ~Writes(headed.stream)
    BY <1>4, <1>6 DEF Starts, Writes
  <2>3. Told(headed, q) /\ Loads(headed, k)
    BY <2>2, UnwrittenStows
  <2> QED
    BY <2>1, <2>3
<1> QED
  BY <1>5, <1>6

LEMMA DiscardStows ==
  ASSUME NEW q, NEW k, DOMAIN k = Fields, k.given \in Seq(STRING), k.stream.pending \in Seq(STRING),
         Told(k, q), k.state = "DISCARD_BODY", NEW n, NEW files
  PROVE  Told(handle_discard(k, q, n, files), q) /\ Loads(handle_discard(k, q, n, files), k)
<1> DEFINE h == [k EXCEPT !.buf = Clear(@), !.taken = @ + n, !.written = @ + n]
           p == AnswerPage(h, files)
<1>1. Leaves(h, k) /\ h.status = "413" /\ h.state = "DISCARD_BODY"
  BY DEF Leaves, Told, Fields
<1>2. handle_discard(k, q, n, files) = p \/ handle_discard(k, q, n, files) = h
  BY Zenon DEF handle_discard
<1> HIDE DEF h
<1>3. Goes(p, h, "RESPONSE")
  BY <1>1, AnswersLeave DEF Leaves
<1> HIDE DEF p
<1>4. Leaves(p, k) /\ p.status = "413" /\ p.state = "RESPONSE"
  BY <1>1, <1>3, LeavesTwice DEF Goes
<1>5. Told(p, q) /\ Loads(p, k)
  BY <1>4, LeftStows
<1>6. Told(h, q) /\ Loads(h, k)
  BY <1>1, LeftStows
<1> QED
  BY <1>2, <1>5, <1>6

LEMMA BodyStows ==
  ASSUME NEW q \in Requests, NEW k, NEW files, Begun(k, q, files), k.given \in Seq(STRING),
         Told(k, q), k.state = "REQ_BODY",
         k.taken \in 0..Len(Sent(q)), NEW n \in Nat, k.taken + n <= Len(Sent(q))
  PROVE  /\ Told(handle_post(k, q, n, files), q) /\ Loads(handle_post(k, q, n, files), k)
         /\ q.route = "script" =>
               Told(read_cgi_body(k, q, n), q) /\ Loads(read_cgi_body(k, q, n), k)
<1> DEFINE h == FillRequest(k, q, n)
           u == Unfed(h.buf)
           r == StoreBody(h, q, files)
           p == [h EXCEPT !.state = "CGI_TRANSMIT_BODY"]
<1>1. Begun(h, q, files) /\ h.stream = k.stream
  BY ReadMoreBegun
<1>2. h.given = k.given /\ h.torn = k.torn /\ h.written = k.written /\ h.state = k.state
  BY DEF FillRequest, Begun, Shaped, Fields
<1>3. handle_post(k, q, n, files) = r /\ read_cgi_body(k, q, n) = p
  BY Zenon DEF handle_post, read_cgi_body
<1> HIDE DEF h
<1>4. /\ DOMAIN h = Fields /\ DOMAIN h.stream = StreamFields /\ Solid(h.buf)
      /\ h.given \in Seq(STRING)
      /\ Writes(h.stream) => h.written = Len(h.given)
  BY <1>1, <1>2 DEF Begun, Shaped, StreamIs, Told
<1>5. Writes(h.stream) => q.route = "upload"
  BY <1>1 DEF Told
<1>6. Told(r, q) /\ Adds(r, h, u) /\ r.stream.mode = h.stream.mode /\ r.stream.file = h.stream.file
  BY <1>4, <1>5, StoreLoads
<1>7. u \in Seq(STRING)
  BY <1>4, SolidUnfed
<1> HIDE DEF r, u
<1>8. Writes(r.stream) => Writes(k.stream)
  BY <1>1, <1>6 DEF Writes
<1>9. Adds(r, k, u)
  BY <1>1, <1>2, <1>6 DEF Adds
<1>10. Loads(r, k)
  BY <1>7, <1>8, <1>9 DEF Loads
<1>11. ASSUME q.route = "script" PROVE Told(p, q) /\ Loads(p, k)
  <2>1. p.stream = k.stream /\ p.state = "CGI_TRANSMIT_BODY"
    BY <1>1, <1>4 DEF Fields
  <2> HIDE DEF p
  <2>2. ~Writes(p.stream)
    BY <1>11, <2>1 DEF Told
  <2> QED
    BY <1>11, <2>1, <2>2, UnwrittenStows
<1> QED
  BY <1>3, <1>6, <1>10, <1>11

\* A script reads the body, or closes its end.
LEMMA InputStows ==
  ASSUME NEW q, NEW k, DOMAIN k = Fields, Told(k, q), k.state = "CGI_TRANSMIT_BODY", NEW n
  PROVE  /\ Told(handle_cgi_input(k, q, n), q) /\ Loads(handle_cgi_input(k, q, n), k)
         /\ Told(Collect(k), q) /\ Loads(Collect(k), k)
<1> DEFINE u == SubSeq(Unfed(k.buf), 1, n)
           fed == [k EXCEPT !.given = @ \o u, !.buf = Feed(@, n), !.written = @ + n]
           empty == [fed EXCEPT !.buf = Clear(@)]
           back == [empty EXCEPT !.state = "REQ_BODY"]
           r == handle_cgi_input(k, q, n)
<1>1. q.route = "script" /\ ~Writes(k.stream)
  BY DEF Told
<1>2. r = fed \/ r = Collect(empty) \/ r = back
  BY Zenon DEF handle_cgi_input
<1> HIDE DEF u
<1>3. DOMAIN fed = Fields /\ fed.stream = k.stream /\ fed.state = k.state
  BY DEF Fields
<1> HIDE DEF fed
<1>4. DOMAIN empty = Fields /\ empty.stream = k.stream
  BY <1>3 DEF Fields
<1> HIDE DEF empty
<1>5. back.stream = k.stream /\ back.state = "REQ_BODY"
  BY <1>4 DEF Fields
<1> HIDE DEF back, r
<1>6. ASSUME NEW h, DOMAIN h = Fields, h.stream = k.stream
      PROVE  Told(Collect(h), q) /\ Loads(Collect(h), k)
  <2>1. Collect(h).stream = k.stream /\ Collect(h).state = "CGI_HEADERS"
    BY <1>6, AnswersLeave DEF Goes, Leaves
  <2> QED
    BY <1>1, <2>1, UnwrittenStows
<1>7. Told(fed, q) /\ Loads(fed, k)
  BY <1>1, <1>3, UnwrittenStows
<1>8. Told(back, q) /\ Loads(back, k)
  BY <1>1, <1>5, UnwrittenStows
<1>9. Told(Collect(empty), q) /\ Loads(Collect(empty), k)
  BY <1>4, <1>6
<1>10. Told(r, q) /\ Loads(r, k)
  BY <1>2, <1>7, <1>8, <1>9
<1> QED
  BY <1>6, <1>10 DEF r

LEMMA LateStows ==
  ASSUME NEW q \in Requests, NEW k, DOMAIN k = Fields, k.given \in Seq(STRING),
         k.stream.pending \in Seq(STRING), Told(k, q), NEW files
  PROVE  LET r == handle_setup([k EXCEPT !.status = "408"], q, files)
         IN Told(r, q) /\ Loads(r, k)
<1> DEFINE late == [k EXCEPT !.status = "408"]
           r == AnswerError(late, q, files)
<1>1. Leaves(late, k) /\ late.status = "408"
  BY DEF Leaves, Fields
<1>2. handle_setup(late, q, files) = r
  BY <1>1 DEF handle_setup
<1> HIDE DEF late
<1>3. /\ Leaves(r, late) /\ r.status = "408"
      /\ r.state \in {"CGI_HEADERS", "RESPONSE", "DISCARD_BODY"}
      /\ r.state = "DISCARD_BODY" => r.status = "413"
  BY <1>1, AnswerErrorLeaves DEF Leaves
<1> HIDE DEF r
<1>4. Leaves(r, k)
  BY <1>1, <1>3, LeavesTwice
<1>5. Told(r, q) /\ Loads(r, k)
  BY <1>3, <1>4, LeftStows
<1> QED
  BY <1>2, <1>5 DEF late

\* The output of a script: a stream that is open for an upload fails, and stays.
LEMMA OutputStows ==
  ASSUME NEW q, NEW k, DOMAIN k = Fields, DOMAIN k.stream = StreamFields,
         k.given \in Seq(STRING), k.stream.pending \in Seq(STRING),
         Told(k, q), k.state \in {"CGI_HEADERS", "CGI_BODY"}, NEW n, NEW eof, NEW files
  PROVE  /\ Told(handle_cgi_output(k, q, n, eof, files), q)
         /\ Loads(handle_cgi_output(k, q, n, eof, files), k)
<1> DEFINE x == SubSeq(q.output, k.heard + 1, k.heard + n)
           filled == [k EXCEPT !.buf = Fill(@, x), !.heard = @ + n]
           begun == IF k.state = "CGI_HEADERS" THEN BeginBody(filled) ELSE filled
           spooled == SpoolBody(begun)
           r == handle_cgi_output(k, q, n, eof, files)
           Goon(h) == /\ DOMAIN h = Fields /\ h.state = "CGI_BODY"
                      /\ h.given = k.given /\ h.torn = k.torn
                      /\ \/ ~Writes(h.stream)
                         \/ h.stream = k.stream
                         \/ h.stream = [k.stream EXCEPT !.good = FALSE]
<1>1. Leaves(filled, k) /\ filled.state = k.state
  <2> HIDE DEF x
  <2> QED
    BY DEF Leaves, Fields
<1>2. \/ k.state = "CGI_HEADERS" /\ r = BadGateway(filled, files)
      \/ k.state = "CGI_HEADERS" /\ r = filled
      \/ r = finalize_cgi(spooled, files)
      \/ r = spooled
  BY Zenon DEF handle_cgi_output
<1> HIDE DEF x, filled, r
<1>3. Goon(begun)
  <2> DEFINE h == BeginBody(filled)
             d == filled.buf.data
             t == IF filled.stream.mode = "none" THEN Stream("out", "temp")
                  ELSE [filled.stream EXCEPT !.good = FALSE]
             l == Lines(<<ScriptStatus(d)>>) \o ScriptFields(d)
             b == Erase(filled.buf, HeadEnd(d))
             g == [filled EXCEPT !.state = "CGI_BODY", !.status = ScriptStatus(d), !.headers = l,
                                 !.buf = b, !.temp = <<>>, !.stream = t]
  <2>1. h = g
    BY Zenon DEF BeginBody
  <2>2. ~Writes(t) \/ t = [k.stream EXCEPT !.good = FALSE]
    <3>1. ~Writes(Stream("out", "temp"))
      BY DEF Writes, Stream, NoStream
    <3>2. filled.stream = k.stream
      BY <1>1 DEF Leaves
    <3> QED
      BY <3>1, <3>2
  <2> HIDE DEF t, l, b, h
  <2>3. /\ DOMAIN g = Fields /\ g.stream = t /\ g.state = "CGI_BODY"
        /\ g.given = filled.given /\ g.torn = filled.torn
    BY <1>1 DEF Leaves, Fields
  <2> HIDE DEF g
  <2>4. Goon(g)
    <3>1. g.given = k.given /\ g.torn = k.torn
      BY <1>1, <2>3 DEF Leaves
    <3> QED
      BY <2>2, <2>3, <3>1
  <2>5. CASE k.state = "CGI_HEADERS"
    BY <2>1, <2>4, <2>5 DEF h
  <2>6. CASE k.state # "CGI_HEADERS"
    <3>1. Goon(filled)
      BY <1>1, <2>6 DEF Leaves
    <3> QED
      BY <2>6, <3>1
  <2> QED
    BY <2>5, <2>6
<1> HIDE DEF begun
<1>4. Goon(spooled)
  <2> DEFINE y == IF begun.stream.good THEN begun.temp \o Unfed(begun.buf) ELSE begun.temp
             h == [begun EXCEPT !.temp = y, !.buf = Clear(@)]
  <2>1. spooled = begun \/ spooled = h
    BY Zenon DEF SpoolBody
  <2> HIDE DEF y
  <2>2. /\ DOMAIN h = Fields /\ h.stream = begun.stream /\ h.state = begun.state
        /\ h.given = begun.given /\ h.torn = begun.torn
    BY <1>3 DEF Fields
  <2> HIDE DEF h, spooled
  <2>3. Goon(h)
    BY <1>3, <2>2
  <2> HIDE DEF Goon
  <2> QED
    BY <1>3, <2>1, <2>3
<1> HIDE DEF spooled
<1>5. CASE r = spooled
  <2>1. Loads(r, k)
    <3>1. CASE ~Writes(r.stream)
      BY <3>1 DEF Loads
    <3>2. CASE Writes(r.stream)
      <4>1. /\ r.stream.mode = k.stream.mode /\ r.stream.file = k.stream.file
            /\ r.stream.pos = k.stream.pos /\ r.stream.pending = k.stream.pending
        BY <1>4, <1>5, <3>2 DEF StreamFields
      <4>2. r.given = k.given /\ r.torn = k.torn
        BY <1>4, <1>5
      <4>3. /\ <<>> \in Seq(STRING)
            /\ \A g \in Seq(STRING) : g \o <<>> = g
        OBVIOUS
      <4>4. Adds(r, k, <<>>)
        BY <4>1, <4>2, <4>3, Zenon DEF Adds
      <4>5. Writes(k.stream)
        BY <3>2, <4>1 DEF Writes
      <4> QED
        BY <4>3, <4>4, <4>5 DEF Loads
    <3> QED
      BY <3>1, <3>2
  <2>2. Writes(r.stream) => Writes(k.stream)
    BY <1>4, <1>5 DEF Writes, StreamFields
  <2>3. r.state = "CGI_BODY"
    BY <1>4, <1>5
  <2>4. Told(r, q)
    BY <2>2, <2>3 DEF Told
  <2> QED
    BY <2>1, <2>4 DEF r
<1>6. CASE r = finalize_cgi(spooled, files)
  <2> DEFINE s == Stream("in", "temp")
             l == spooled.headers \o Blank
             h == [spooled EXCEPT !.stream = s, !.headers = l, !.buf = Clear(@)]
  <2>1. r = Respond(h, files)
    BY <1>6, Zenon DEF finalize_cgi
  <2>2. ~Writes(s)
    BY DEF Stream, NoStream, Writes
  <2> HIDE DEF s, l
  <2>3. DOMAIN h = Fields /\ h.stream = s
    BY <1>4 DEF Fields
  <2> HIDE DEF h
  <2>4. r.stream = s /\ r.state = "RESPONSE"
    BY <2>1, <2>3 DEF Respond, Fields
  <2>5. Told(r, q) /\ Loads(r, k)
    BY <2>2, <2>4, UnwrittenStows
  <2> QED
    BY <2>5 DEF r
<1>7. CASE k.state = "CGI_HEADERS" /\ r = filled
  <2>1. Told(r, q) /\ Loads(r, k)
    BY <1>1, <1>7, LeftStows
  <2> QED
    BY <2>1 DEF r
<1>8. CASE r = BadGateway(filled, files)
  <2>1. Leaves(r, filled) /\ r.state = "RESPONSE" /\ r.status = "502"
    BY <1>1, <1>8, AnswersLeave DEF Leaves
  <2>2. Leaves(r, k)
    BY <1>1, <2>1, LeavesTwice
  <2>3. Told(r, q) /\ Loads(r, k)
    BY <2>1, <2>2, LeftStows
  <2> QED
    BY <2>3 DEF r
<1> QED
  BY <1>2, <1>5, <1>6, <1>7, <1>8

\* handle_response() leaves an upload's stream where it is.
Still(r, k) ==
    /\ DOMAIN r = Fields /\ DOMAIN r.stream = StreamFields
    /\ r.given = k.given /\ r.torn = k.torn /\ r.status = k.status /\ r.state = k.state
    /\ r.stream.mode = k.stream.mode /\ r.stream.file = k.stream.file
    /\ r.stream.pending = k.stream.pending
    /\ Writes(k.stream) => r.stream.pos = k.stream.pos

LEMMA StillTwice ==
  ASSUME NEW k, NEW h, Still(h, k), NEW r, Still(r, h)
  PROVE  Still(r, k)
<1>1. Writes(k.stream) => Writes(h.stream)
  BY Zenon DEF Still, Writes
<1> QED
  BY <1>1, Zenon DEF Still

\* A file that is written has nothing to read.
LEMMA FileStill ==
  ASSUME NEW q, NEW k, NEW files, Shaped(k, q, files)
  PROVE  Still(BufferFile(k, files), k)
<1> DEFINE left == Unread(k, files)
           room == FillCapacity(k.buf)
           n == IF Len(left) < room THEN Len(left) ELSE room
           a == SubSeq(left, 1, n)
           t == [k.stream EXCEPT !.pos = @ + n, !.eof = n < room]
           h == [k EXCEPT !.buf = Fill(@, a), !.stream.pos = @ + n, !.stream.eof = n < room]
<1>1. Still(k, k)
  BY DEF Still, Shaped, StreamIs
<1>2. \/ BufferFile(k, files) = k
      \/ ~(room <= 1) /\ BufferFile(k, files) = h
  BY Zenon DEF BufferFile
<1>3. room \in Int
  BY DEF FillCapacity, Shaped, Solid
<1>4. ASSUME Writes(k.stream), ~(room <= 1) PROVE k.stream.pos + n = k.stream.pos
  <2>1. left = <<>>
    BY <1>4 DEF Unread, Writes
  <2> HIDE DEF left, room
  <2>2. n = 0
    BY <1>3, <1>4, <2>1
  <2> HIDE DEF n
  <2> QED
    BY <2>2 DEF Shaped, StreamIs
<1> HIDE DEF left, room, n, a
<1>5. /\ DOMAIN t = StreamFields /\ t.mode = k.stream.mode /\ t.file = k.stream.file
      /\ t.pending = k.stream.pending /\ t.pos = k.stream.pos + n
  BY DEF Shaped, StreamIs, StreamFields
<1>6. /\ DOMAIN h = Fields /\ h.stream = t /\ h.given = k.given /\ h.torn = k.torn
      /\ h.status = k.status /\ h.state = k.state
  BY DEF Shaped, StreamIs, StreamFields, Fields
<1> HIDE DEF h, t
<1>7. ~(room <= 1) => Still(h, k)
  BY <1>4, <1>5, <1>6, Zenon DEF Still
<1> QED
  BY <1>1, <1>2, <1>7

LEMMA RefilledStill ==
  ASSUME NEW q, NEW k, NEW files, Filed(files), Shaped(k, q, files), Orderly(k.buf),
         k.stream.mode = "in" => k.body = <<>>
  PROVE  Still(Refilled(k, files), k)
<1> DEFINE c == [k EXCEPT !.buf = Clear(@)]
           b == BufferHeaders(c)
           f == BufferFile(b, files)
           h == BufferBody(f)
<1>1. Still(k, k)
  BY DEF Still, Shaped, StreamIs
<1>2. Refilled(k, files) = k \/ Refilled(k, files) = h
  BY Zenon DEF Refilled, fill_res_buffer
<1>3. Still(c, k)
  BY DEF Still, Shaped, StreamIs, Fields
<1>4. Shaped(c, q, files) /\ Orderly(c.buf) /\ (c.stream.mode = "in" => c.body = <<>>)
  <2>1. /\ DOMAIN c = Fields /\ c.buf = Clear(k.buf) /\ c.headers = k.headers /\ c.body = k.body
        /\ c.temp = k.temp /\ c.answer = k.answer /\ c.status = k.status /\ c.heard = k.heard
        /\ c.stream = k.stream
    BY DEF Shaped, Fields
  <2>2. Solid(Clear(k.buf)) /\ Orderly(Clear(k.buf))
    BY SolidClear DEF Shaped
  <2> HIDE DEF c
  <2> QED
    BY <2>1, <2>2, Zenon DEF Shaped
<1> HIDE DEF c
<1>5. Still(b, c)
  <2> DEFINE n == Max({0} \cup FittingLines(c))
             x == SubSeq(c.headers, 1, n)
             y == SubSeq(c.headers, n + 1, Len(c.headers))
  <2>1. b = [c EXCEPT !.buf = Fill(@, x), !.headers = y]
    BY Zenon DEF BufferHeaders
  <2> HIDE DEF x, y, b
  <2>2. /\ DOMAIN b = Fields /\ b.stream = c.stream /\ b.given = c.given /\ b.torn = c.torn
        /\ b.status = c.status /\ b.state = c.state
    BY <1>4, <2>1 DEF Shaped, Fields
  <2> QED
    BY <1>4, <2>2, Zenon DEF Still, Shaped, StreamIs
<1>6. Shaped(b, q, files) /\ Orderly(b.buf) /\ (b.stream.mode = "in" => b.body = <<>>)
  BY <1>4, HeadersMove DEF Moves
<1> HIDE DEF b
<1>7. Still(f, b) /\ Shaped(f, q, files)
  BY <1>6, FileStill, FileMoves DEF Moves
<1> HIDE DEF f
<1>8. Still(h, f)
  <2> DEFINE room == FillCapacity(f.buf) - 1
             n == IF room < Len(f.body) THEN room ELSE Len(f.body)
             x == SubSeq(f.body, 1, n)
             y == SubSeq(f.body, n + 1, Len(f.body))
             g == [f EXCEPT !.buf = Fill(@, x), !.body = y]
  <2>1. h = f \/ h = g
    BY Zenon DEF BufferBody
  <2> HIDE DEF x, y, h
  <2>2. /\ DOMAIN g = Fields /\ g.stream = f.stream /\ g.given = f.given /\ g.torn = f.torn
        /\ g.status = f.status /\ g.state = f.state
    BY <1>7 DEF Shaped, Fields
  <2> HIDE DEF g
  <2>3. Still(g, f)
    BY <1>7, <2>2, Zenon DEF Still, Shaped, StreamIs
  <2>4. Still(f, f)
    BY <1>7 DEF Still, Shaped, StreamIs
  <2> QED
    BY <2>1, <2>3, <2>4
<1> HIDE DEF h
<1> QED
  BY <1>1, <1>2, <1>3, <1>5, <1>7, <1>8, StillTwice

LEMMA ResponseStows ==
  ASSUME NEW q, NEW k, NEW h, Still(h, k), k.given \in Seq(STRING),
         k.stream.pending \in Seq(STRING), Told(k, q), k.state = "RESPONSE", NEW n
  PROVE  /\ \A x : Told(Delete(h, x), q) /\ Loads(Delete(h, x), k)
         /\ LET r == [h EXCEPT !.answer = @ \o SubSeq(Unfed(h.buf), 1, n), !.buf = Feed(@, n)]
            IN Told(r, q) /\ Loads(r, k)
<1> DEFINE y == SubSeq(Unfed(h.buf), 1, n)
           r == [h EXCEPT !.answer = @ \o y, !.buf = Feed(@, n)]
<1>1. ASSUME NEW x PROVE Told(Delete(h, x), q) /\ Loads(Delete(h, x), k)
  <2>1. Delete(h, x).state = "CLOSED" /\ Delete(h, x).stream = NoStream
    BY DEF Delete, Still, Fields
  <2>2. ~Writes(NoStream)
    BY DEF NoStream, Writes
  <2> HIDE DEF Delete
  <2> QED
    BY <2>1, <2>2, UnwrittenStows
<1>2. /\ r.stream = h.stream /\ r.given = k.given /\ r.torn = k.torn
      /\ r.status = k.status /\ r.state = "RESPONSE"
  <2> HIDE DEF y
  <2> QED
    BY DEF Still, Fields
<1> HIDE DEF r
<1>3. Writes(r.stream) <=> Writes(k.stream)
  BY <1>2, Zenon DEF Still, Writes
<1>4. Told(r, q)
  BY <1>2, <1>3 DEF Told
<1>5. Loads(r, k)
  <2>1. /\ <<>> \in Seq(STRING)
        /\ \A g \in Seq(STRING) : g \o <<>> = g
    OBVIOUS
  <2>2. Writes(k.stream) => Adds(r, k, <<>>)
    BY <1>2, <2>1, Zenon DEF Adds, Still
  <2> QED
    BY <1>3, <2>1, <2>2 DEF Loads
<1> QED
  BY <1>1, <1>4, <1>5 DEF r

\* What is written at the end of a file comes after what it holds.
LEMMA OverlayEnd ==
  ASSUME NEW old \in Seq(STRING), NEW bytes \in Seq(STRING)
  PROVE  Overlay(old, Len(old), bytes) = old \o bytes
<1> DEFINE p == Len(old)
           m == Len(bytes)
           e == [i \in 1..p + m |-> IF i > p /\ i <= p + m THEN bytes[i - p]
                                    ELSE IF i <= p THEN old[i] ELSE NUL]
           j == old \o bytes
<1>1. p \in Nat /\ m \in Nat
  OBVIOUS
<1>2. Overlay(old, p, bytes) = e
  <2>1. ~(p > p + m) \/ p + m = p
    BY <1>1
  <2> QED
    BY <2>1 DEF Overlay
<1>3. j \in Seq(STRING) /\ Len(j) = p + m /\ DOMAIN j = 1..p + m
  OBVIOUS
<1>4. \A i \in 1..p + m : j[i] = IF i <= p THEN old[i] ELSE bytes[i - p]
  OBVIOUS
<1>5. DOMAIN e = 1..p + m
  OBVIOUS
<1>6. \A i \in 1..p + m : e[i] = IF i <= p THEN old[i] ELSE bytes[i - p]
  BY <1>1
<1>7. \A i \in 1..p + m : j[i] = e[i]
  BY <1>4, <1>6
<1>8. e \in Seq(STRING) /\ DOMAIN e = 1..p + m
  BY <1>1, <1>2, <1>5, OverlayTyped
<1> DEFINE w == p + m
<1>9. w \in Nat /\ j \in Seq(STRING) /\ Len(j) = w /\ e \in Seq(STRING) /\ DOMAIN e = 1..w
      /\ \A i \in 1..w : j[i] = e[i]
  BY <1>1, <1>3, <1>7, <1>8
<1> HIDE DEF e, j, w
<1>10. j \in [1..w -> STRING] /\ e \in [1..w -> STRING]
  BY <1>9
<1>11. j = e
  BY <1>9, <1>10
<1> QED
  BY <1>2, <1>11 DEF j, p

LEMMA LaidTorn ==
  ASSUME NEW k, DOMAIN k = Fields, NEW old, Laid(k, old), NEW files, DOMAIN old \subseteq DOMAIN files
  PROVE  Laid([k EXCEPT !.torn = TRUE], files)
<1> DEFINE r == [k EXCEPT !.torn = TRUE]
<1>1. r.stream = k.stream /\ r.torn = TRUE
  BY DEF Fields
<1> HIDE DEF r
<1>2. Laid(r, files)
  BY <1>1 DEF Laid
<1> QED
  BY <1>2 DEF r

AllLaid == \A c \in Present : Laid(conn[c], disk)

\* A step of one connection leaves the uploads of the others, or tears them.
LEMMA SetLaid ==
  ASSUME AnswersOwed, AllLaid, NEW c \in Present, NEW k, NEW files, Laid(k, files),
         DOMAIN disk \subseteq DOMAIN files, Set(c, k, files)
  PROVE  AllLaid'
<1>1. asked' = asked /\ disk' = files
  BY DEF Set
<1>2. conn'[c] = k
  BY DEF Set
<1>3. ASSUME NEW d \in Present, d # c
      PROVE  \/ conn'[d] = [conn[d] EXCEPT !.torn = TRUE]
             \/ /\ conn'[d] = conn[d]
                /\ conn[d].stream.mode = "none"
                      \/ \A f \in DOMAIN disk : f = conn[d].stream.file => disk[f] = files[f]
  BY <1>3, Zenon DEF Set
<1>4. ASSUME NEW d \in Present, d # c PROVE Laid(conn'[d], files)
  <2> DEFINE h == conn[d]
  <2>1. Laid(h, disk) /\ DOMAIN h = Fields
    BY DEF AllLaid, AnswersOwed, Owes, Shaped
  <2>2. Laid([h EXCEPT !.torn = TRUE], files)
    BY <2>1, LaidTorn
  <2>3. ASSUME h.stream.mode = "none" \/ \A f \in DOMAIN disk : f = h.stream.file => disk[f] = files[f]
        PROVE  Laid(h, files)
    <3> HIDE DEF h
    <3>1. CASE h.stream.mode = "none"
      BY <3>1 DEF Laid, Writes
    <3>2. CASE \A f \in DOMAIN disk : f = h.stream.file => disk[f] = files[f]
      BY <2>1, <3>2 DEF Laid
    <3> QED
      BY <2>3, <3>1, <3>2
  <2> QED
    BY <1>3, <1>4, <2>2, <2>3
<1>5. \A d \in Present : Laid(conn'[d], files)
  BY <1>2, <1>4
<1> QED
  BY <1>1, <1>5 DEF AllLaid, Present

LEMMA BecomeLaid ==
  ASSUME AnswersOwed, AllLaid, NEW c \in Present, conn[c].given \in Seq(STRING),
         NEW r, Loads(r, conn[c]), r.given \in Seq(STRING), Become(c, r)
  PROVE  AllLaid'
<1> DEFINE k == conn[c]
           s == k.stream
           files == DiskAfter(s, r.stream)
<1>1. Filed(disk) /\ s.pos \in Nat /\ s.pending \in Seq(STRING)
  BY DEF AnswersOwed, Owes, Shaped, StreamIs
<1>2. DOMAIN disk \subseteq DOMAIN files
  BY <1>1, DiskFiled
<1>3. Laid(k, disk)
  BY DEF AllLaid
<1>4. Set(c, r, files)
  BY Zenon DEF Become
<1>5. Laid(r, files)
  <2>1. CASE ~Writes(r.stream)
    BY <2>1 DEF Laid
  <2>2. CASE Writes(r.stream) /\ ~Writes(s)
    <3>1. r.stream.pos = 0 /\ r.stream.pending = r.given
      BY <2>2 DEF Loads
    <3>2. files = Truncated(r.stream.file)
      BY <2>2 DEF DiskAfter
    <3>3. r.stream.file \in DOMAIN files /\ files[r.stream.file] = <<>>
      BY <3>2 DEF Truncated
    <3>4. <<>> \o r.given = r.given /\ Len(<<>>) = 0
      OBVIOUS
    <3> HIDE DEF files
    <3> QED
      BY <3>1, <3>3, <3>4 DEF Laid
  <2>3. CASE Writes(r.stream) /\ Writes(s)
    <3>1. PICK x \in Seq(STRING) : Adds(r, k, x)
      BY <2>3 DEF Loads
    <3>2. files = disk
      BY <2>3, Zenon DEF DiskAfter
    <3> HIDE DEF files
    <3>3. k.given \in Seq(STRING)
      OBVIOUS
    <3> HIDE DEF k
    <3>4. s.file \in DOMAIN disk /\ disk[s.file] \in Seq(STRING)
      BY <1>1, <1>3, <2>3 DEF Laid, Filed
    <3>5. disk[s.file] \o (s.pending \o x) = (disk[s.file] \o s.pending) \o x
      BY <1>1, <3>4, Associative, Zenon
    <3>6. ~r.torn => /\ disk[s.file] \o r.stream.pending = r.given
                     /\ Len(disk[s.file]) = r.stream.pos
      <4> SUFFICES ASSUME ~r.torn PROVE /\ disk[s.file] \o r.stream.pending = r.given
                                        /\ Len(disk[s.file]) = r.stream.pos
        OBVIOUS
      <4>1. ~k.torn
        BY <3>1 DEF Adds
      <4>2. disk[s.file] \o s.pending = k.given /\ Len(disk[s.file]) = s.pos
        BY <1>3, <2>3, <4>1 DEF Laid
      <4>3. /\ r.stream.pending = s.pending \o x /\ r.given = k.given \o x
            /\ r.stream.pos = s.pos
        BY <3>1 DEF Adds
      <4> HIDE DEF s
      <4> QED
        BY <3>5, <4>2, <4>3, Zenon
    <3>7. r.stream.file = s.file
      BY <3>1 DEF Adds
    <3> HIDE DEF s
    <3> QED
      BY <3>2, <3>4, <3>6, <3>7 DEF Laid
  <2> QED
    BY <2>1, <2>2, <2>3
<1> HIDE DEF files
<1> QED
  BY <1>2, <1>4, <1>5, SetLaid

\* What of the pending bytes is written out comes after what the file holds.
LEMMA FlushLaid ==
  ASSUME Filed(disk), NEW k, DOMAIN k = Fields, DOMAIN k.stream = StreamFields,
         k.stream.pos \in Nat, k.stream.pending \in Seq(STRING), Laid(k, disk), Writes(k.stream),
         NEW n \in 1..Len(k.stream.pending)
  PROVE  LET s == k.stream
             r == [k EXCEPT !.stream.pos = @ + n, !.stream.pending = SubSeq(@, n + 1, Len(@))]
             files == [disk EXCEPT ![s.file] = Overlay(@, s.pos, SubSeq(s.pending, 1, n))]
         IN Laid(r, files)
<1> DEFINE s == k.stream
           a == SubSeq(s.pending, 1, n)
           b == SubSeq(s.pending, n + 1, Len(s.pending))
           t == [s EXCEPT !.pos = @ + n, !.pending = b]
           r == [k EXCEPT !.stream.pos = @ + n, !.stream.pending = SubSeq(@, n + 1, Len(@))]
           old == disk[s.file]
           over == Overlay(old, s.pos, a)
           files == [disk EXCEPT ![s.file] = Overlay(@, s.pos, a)]
<1>1. s.file \in DOMAIN disk /\ old \in Seq(STRING)
  BY DEF Laid, Filed
<1>2. files[s.file] = over /\ s.file \in DOMAIN files
  BY <1>1
<1>3. /\ a \in Seq(STRING) /\ b \in Seq(STRING) /\ a \o b = s.pending /\ Len(a) = n
  <2>1. n \in 0..Len(s.pending)
    OBVIOUS
  <2> HIDE DEF s
  <2>2. s.pending \in Seq(STRING)
    BY DEF s
  <2> DEFINE d == s.pending
  <2> HIDE DEF d
  <2>3. d \in Seq(STRING) /\ n \in 0..Len(d)
    BY <2>1, <2>2 DEF d
  <2>4. /\ SubSeq(d, 1, n) \in Seq(STRING) /\ SubSeq(d, n + 1, Len(d)) \in Seq(STRING)
        /\ SubSeq(d, 1, n) \o SubSeq(d, n + 1, Len(d)) = d
    BY <2>3, Pieces
  <2>5. Len(SubSeq(d, 1, n)) = n
    BY <2>3
  <2> QED
    BY <2>4, <2>5 DEF d
<1>4. /\ r.stream = t /\ r.given = k.given /\ r.torn = k.torn
  BY DEF Fields, StreamFields
<1>5. t.file = s.file /\ t.pos = s.pos + n /\ t.pending = b
  <2> HIDE DEF b
  <2> QED
    BY DEF StreamFields
<1> HIDE DEF r, t, files, over, a, b
<1>6. ASSUME ~k.torn PROVE over \o b = k.given /\ Len(over) = s.pos + n
  <2>1. old \o s.pending = k.given /\ Len(old) = s.pos
    BY <1>6 DEF Laid
  <2>2. over = old \o a
    BY <1>1, <1>3, <2>1, OverlayEnd DEF over
  <2> HIDE DEF s, old
  <2>3. (old \o a) \o b = old \o (a \o b)
    BY <1>1, <1>3, Associative, Zenon
  <2>4. Len(old \o a) = Len(old) + Len(a)
    BY <1>1, <1>3
  <2> QED
    BY <1>3, <2>1, <2>2, <2>3, <2>4
<1>7. Laid(r, files)
  BY <1>2, <1>4, <1>5, <1>6 DEF Laid
<1> QED
  BY <1>7 DEF r, files, a

\* The inductive invariant.
AllStored == (\A c \in Present : Told(conn[c], asked[c])) /\ AllLaid

LEMMA InitStored == TransferInit => AllStored
<1> SUFFICES ASSUME TransferInit PROVE AllStored
  OBVIOUS
<1>1. \A c \in Present : conn[c] = Fresh
  BY DEF TransferInit
<1>2. ~Writes(Fresh.stream) /\ Fresh.state = "REQ_LINE"
  BY DEF Fresh, NoStream, Writes
<1>3. \A q : Told(Fresh, q) /\ Laid(Fresh, disk)
  BY <1>2 DEF Told, Laid
<1> QED
  BY <1>1, <1>3 DEF AllStored, AllLaid

LEMMA SetTold ==
  ASSUME AnswersOwed, AllStored, NEW c \in Present, NEW k, Told(k, asked[c]), NEW files, Set(c, k, files)
  PROVE  \A d \in Present' : Told(conn'[d], asked'[d])
<1>1. asked' = asked /\ conn'[c] = k
  BY DEF Set
<1>2. ASSUME NEW d \in Present, d # c PROVE Told(conn'[d], asked[d])
  <2> DEFINE h == conn[d]
             r == [h EXCEPT !.torn = TRUE]
  <2>1. Told(h, asked[d]) /\ DOMAIN h = Fields
    BY DEF AllStored, AnswersOwed, Owes, Shaped
  <2>2. conn'[d] = r \/ conn'[d] = h
    BY <1>2, Zenon DEF Set
  <2>3. /\ r.stream = h.stream /\ r.state = h.state /\ r.status = h.status
        /\ r.written = h.written /\ r.given = h.given
    BY <2>1 DEF Fields
  <2> HIDE DEF r, h
  <2>4. Told(r, asked[d])
    BY <2>1, <2>3 DEF Told
  <2> QED
    BY <2>1, <2>2, <2>4
<1>3. \A d \in Present : Told(conn'[d], asked[d])
  BY <1>1, <1>2
<1> QED
  BY <1>1, <1>3 DEF Present

LEMMA BecomeStored ==
  ASSUME BodiesInOrder, BodiesInOrder', AnswersOwed, AllStored, NEW c \in Present,
         NEW r, Told(r, asked[c]), Loads(r, conn[c]), Become(c, r)
  PROVE  AllStored'
<1>1. asked' = asked /\ conn'[c] = r
  BY DEF Become, Set
<1>2. conn[c].given \in Seq(STRING)
  BY DEF BodiesInOrder, InOrder
<1>3. conn'[c].given \in Seq(STRING)
  <2>1. c \in Present'
    BY <1>1 DEF Present
  <2>2. InOrder(conn'[c], asked'[c])
    BY <2>1 DEF BodiesInOrder
  <2> QED
    BY <2>2 DEF InOrder
<1>4. AllLaid'
  BY <1>1, <1>2, <1>3, BecomeLaid DEF AllStored
<1>5. \A d \in Present' : Told(conn'[d], asked'[d])
  BY SetTold DEF Become
<1> QED
  BY <1>4, <1>5 DEF AllStored

\* Part of what is pending is written out.
LEMMA FlushStored ==
  ASSUME BodiesInOrder, AnswersOwed, AllStored, NEW c \in Present, Flush(c)
  PROVE  AllStored'
<1> DEFINE k == conn[c]
           s == k.stream
<1>1. /\ DOMAIN k = Fields /\ DOMAIN s = StreamFields /\ s.pos \in Nat
      /\ s.pending \in Seq(STRING) /\ Filed(disk) /\ Laid(k, disk) /\ Told(k, asked[c])
  BY DEF AnswersOwed, Owes, Shaped, StreamIs, AllStored, AllLaid
<1>2. Writes(s)
  BY DEF Flush
<1>3. PICK n \in 1..Len(s.pending) :
         Set(c, [k EXCEPT !.stream.pos = @ + n, !.stream.pending = SubSeq(@, n + 1, Len(@))],
             [disk EXCEPT ![s.file] = Overlay(@, s.pos, SubSeq(s.pending, 1, n))])
  BY DEF Flush
<1> DEFINE r == [k EXCEPT !.stream.pos = @ + n, !.stream.pending = SubSeq(@, n + 1, Len(@))]
           files == [disk EXCEPT ![s.file] = Overlay(@, s.pos, SubSeq(s.pending, 1, n))]
<1>4. Laid(r, files)
  <2> HIDE DEF k
  <2> QED
    BY <1>1, <1>2, FlushLaid
<1>5. DOMAIN disk \subseteq DOMAIN files
  OBVIOUS
<1>6. Told(r, asked[c])
  <2> DEFINE p == SubSeq(s.pending, n + 1, Len(s.pending))
             t == [s EXCEPT !.pos = @ + n, !.pending = p]
  <2>1. /\ r.stream = t /\ r.state = k.state /\ r.status = k.status
        /\ r.written = k.written /\ r.given = k.given
    BY <1>1 DEF Fields, StreamFields
  <2>2. Writes(t) => Writes(s)
    <3> HIDE DEF p
    <3> QED
      BY <1>1 DEF Writes, StreamFields
  <2> HIDE DEF r, t, k
  <2> QED
    BY <1>1, <2>1, <2>2 DEF Told
<1>7. Set(c, r, files)
  BY <1>3
<1> HIDE DEF r, files
<1>8. AllLaid'
  BY <1>4, <1>5, <1>7, SetLaid DEF AllStored
<1>9. \A d \in Present' : Told(conn'[d], asked'[d])
  BY <1>6, <1>7, SetTold
<1> QED
  BY <1>8, <1>9 DEF AllStored

\* What a step of c makes of it is told and loaded.
LEMMA HandlersStow ==
  ASSUME BodiesInOrder, AnswersOwed, AllStored, NEW c \in Present,
         \/ Handle(c) \/ CloseSide(c) \/ CloseStdin(c) \/ Timeout(c) \/ Leave(c)
  PROVE  \E r : Told(r, asked[c]) /\ Loads(r, conn[c]) /\ Become(c, r)
<1> DEFINE k == conn[c]
           q == asked[c]
           Stows(r) == Told(r, q) /\ Loads(r, k)
<1>1. /\ q \in Requests /\ k.taken \in 0..Len(Sent(q)) /\ k.state \in States
      /\ k.given \in Seq(STRING) /\ Owes(k, q, disk) /\ Filed(disk) /\ Told(k, q)
      /\ InOrder(k, q)
  BY DEF BodiesInOrder, InOrder, AnswersOwed, AllStored
<1>2. /\ Shaped(k, q, disk) /\ (k.state \notin {"RESPONSE", "CLOSED"} => Begun(k, q, disk))
      /\ DOMAIN k = Fields /\ DOMAIN k.stream = StreamFields /\ k.stream.pending \in Seq(STRING)
  BY <1>1 DEF Owes, Begun, Shaped, StreamIs
<1>3. ASSUME NEW room, NEW n \in Readable(c, room)
      PROVE  n \in Nat /\ k.taken + n <= Len(Sent(q))
  <2>1. Len(Sent(q)) \in Nat
    BY <1>1, SentIs
  <2> QED
    BY <1>1, <1>3, <2>1 DEF Readable
<1>4. Stows(Drop(k))
  <2>1. Drop(k).state = "CLOSED" /\ ~Writes(Drop(k).stream)
    BY DEF Drop, Fresh, NoStream, Writes
  <2> QED
    BY <2>1, UnwrittenStows
<1> SUFFICES \E r : Stows(r) /\ Become(c, r)
  OBVIOUS
<1>5. CASE HandleHead(c)
  <2>1. k.state \in {"REQ_LINE", "REQ_HEADERS"}
    BY <1>5 DEF HandleHead
  <2>2. PICK n \in Readable(c, FillCapacity(k.buf)) : Become(c, handle_head(k, q, n, disk))
    BY <1>5 DEF HandleHead
  <2>3. n \in Nat /\ k.taken + n <= Len(Sent(q))
    BY <1>3
  <2> HIDE DEF k, q
  <2>4. Starts(k, q, disk) /\ Reads(k, q)
    BY <1>1, <1>2, <2>1 DEF Owes, Starts, InOrder
  <2>5. Stows(handle_head(k, q, n, disk))
    BY <1>1, <2>1, <2>3, <2>4, HeadStows
  <2> HIDE DEF Stows
  <2> QED
    BY <2>2, <2>5
<1>6. CASE HandleDiscard(c) \/ CloseSide(c)
  <2>1. PICK n : k.state = "DISCARD_BODY" /\ Become(c, handle_discard(k, q, n, disk))
    BY <1>6, Zenon DEF HandleDiscard, CloseSide
  <2> HIDE DEF k, q
  <2>2. Stows(handle_discard(k, q, n, disk))
    BY <1>1, <1>2, <2>1, DiscardStows
  <2> HIDE DEF Stows
  <2> QED
    BY <2>1, <2>2
<1>7. CASE HandleBody(c)
  <2>1. k.state = "REQ_BODY"
    BY <1>7 DEF HandleBody
  <2>2. PICK n \in Readable(c, FillCapacity(k.buf)) :
           Become(c, IF q.route = "script" THEN read_cgi_body(k, q, n) ELSE handle_post(k, q, n, disk))
    BY <1>7 DEF HandleBody
  <2>3. n \in Nat /\ k.taken + n <= Len(Sent(q))
    BY <1>3
  <2> HIDE DEF k, q
  <2>4. /\ Stows(handle_post(k, q, n, disk))
        /\ q.route = "script" => Stows(read_cgi_body(k, q, n))
    BY <1>1, <1>2, <2>1, <2>3, BodyStows
  <2> HIDE DEF Stows
  <2>5. CASE q.route = "script"
    BY <2>2, <2>4, <2>5
  <2>6. CASE q.route # "script"
    BY <2>2, <2>4, <2>6
  <2> QED
    BY <2>5, <2>6
<1>8. CASE HandleCgiInput(c)
  <2>1. PICK n : k.state = "CGI_TRANSMIT_BODY" /\ Become(c, handle_cgi_input(k, q, n))
    BY <1>8, Zenon DEF HandleCgiInput
  <2> HIDE DEF k, q
  <2>2. Stows(handle_cgi_input(k, q, n))
    BY <1>1, <1>2, <2>1, InputStows
  <2> HIDE DEF Stows
  <2> QED
    BY <2>1, <2>2
<1>9. CASE HandleCgiOutput(c)
  <2>1. k.state \in {"CGI_HEADERS", "CGI_BODY"}
    BY <1>9 DEF HandleCgiOutput
  <2>2. \E n, eof : Become(c, handle_cgi_output(k, q, n, eof, disk))
    BY <1>9, Zenon DEF HandleCgiOutput
  <2>3. PICK n, eof : Become(c, handle_cgi_output(k, q, n, eof, disk))
    BY <2>2, Zenon
  <2> HIDE DEF k, q
  <2>4. Stows(handle_cgi_output(k, q, n, eof, disk))
    BY <1>1, <1>2, <2>1, OutputStows
  <2> HIDE DEF Stows
  <2> QED
    BY <2>3, <2>4
<1>10. CASE HandleResponse(c)
  <2> DEFINE h == Refilled(k, disk)
             After(n) == [h EXCEPT !.answer = @ \o SubSeq(Unfed(h.buf), 1, n), !.buf = Feed(@, n)]
  <2>1. k.state = "RESPONSE"
    BY <1>10 DEF HandleResponse
  <2>2. \/ \E x : Become(c, Delete(h, x))
        \/ \E n : Become(c, After(n))
    BY <1>10, Zenon DEF HandleResponse
  <2>3. Still(h, k)
    <3>1. Orderly(k.buf) /\ (k.stream.mode = "in" => k.body = <<>>)
      BY <1>1, <2>1 DEF Owes, Answers
    <3> HIDE DEF k, q
    <3> QED
      BY <1>1, <1>2, <3>1, RefilledStill
  <2> HIDE DEF k, q, h
  <2>4. (\A x : Stows(Delete(h, x))) /\ (\A n : Stows(After(n)))
    BY <1>1, <1>2, <2>1, <2>3, ResponseStows
  <2> HIDE DEF Stows, After
  <2> QED
    BY <2>2, <2>4
<1>11. CASE CloseStdin(c)
  <2>1. k.state = "CGI_TRANSMIT_BODY" /\ Become(c, Collect(k))
    BY <1>11 DEF CloseStdin
  <2> HIDE DEF k, q
  <2>2. Stows(Collect(k))
    BY <1>1, <1>2, <2>1, InputStows
  <2> HIDE DEF Stows
  <2> QED
    BY <2>1, <2>2
<1>12. CASE Timeout(c)
  <2> DEFINE late == [k EXCEPT !.status = "408"]
  <2>1. \/ Become(c, handle_setup(late, q, disk))
        \/ k.state = "DISCARD_BODY" /\ Become(c, AnswerPage(k, disk))
        \/ Become(c, Drop(k))
    BY <1>12, Zenon DEF Timeout
  <2> HIDE DEF k, q
  <2>2. Stows(handle_setup(late, q, disk))
    BY <1>1, <1>2, LateStows
  <2>3. ASSUME k.state = "DISCARD_BODY" PROVE Stows(AnswerPage(k, disk))
    <3> DEFINE p == AnswerPage(k, disk)
    <3>1. Goes(p, k, "RESPONSE") /\ k.status = "413"
      BY <1>1, <1>2, <2>3, AnswersLeave DEF Told
    <3> HIDE DEF p
    <3>2. Stows(p)
      BY <1>1, <1>2, <3>1, LeftStows DEF Goes
    <3> QED
      BY <3>2 DEF p
  <2> HIDE DEF Stows, late
  <2> QED
    BY <1>4, <2>1, <2>2, <2>3
<1>13. CASE Leave(c)
  <2>1. Become(c, Drop(k))
    BY <1>13 DEF Leave
  <2> HIDE DEF k, q, Stows
  <2> QED
    BY <1>4, <2>1
<1> QED
  BY <1>5, <1>6, <1>7, <1>8, <1>9, <1>10, <1>11, <1>12, <1>13 DEF Handle

LEMMA StepStored ==
    BodiesInOrder /\ BodiesInOrder' /\ AnswersOwed /\ AllStored /\ [TransferNext]_vars => AllStored'
<1> SUFFICES ASSUME BodiesInOrder, BodiesInOrder', AnswersOwed, AllStored, [TransferNext]_vars
             PROVE  AllStored'
  OBVIOUS
<1>1. CASE UNCHANGED vars
  BY <1>1 DEF vars, AllStored, AllLaid, Present
<1>2. ASSUME NEW c \in Present,
             \/ Handle(c) \/ CloseSide(c) \/ CloseStdin(c) \/ Timeout(c) \/ Leave(c)
      PROVE  AllStored'
  <2>1. PICK r : Told(r, asked[c]) /\ Loads(r, conn[c]) /\ Become(c, r)
    BY <1>2, HandlersStow
  <2> QED
    BY <2>1, BecomeStored
<1>3. ASSUME NEW c \in Present, Flush(c) PROVE AllStored'
  BY <1>3, FlushStored
<1> QED
  BY <1>1, <1>2, <1>3 DEF TransferNext

LEMMA StoredSaysSo == AllStored => BodyWhole
  BY DEF AllStored, Told, BodyWhole

\* Whatever the length of the body and the reads it comes by: a client is told that
\* its upload is done when all of it was given to the stream, and not before
\* (handle_post() and handle_post_leftover(), which count what was written, and
\* every other way to an answer while the stream is open).
THEOREM UploadsAcknowledgedWhole == TransferSpec => []BodyWhole
<1>1. TransferSpec => []BodiesInOrder
  BY InitInOrder, StepInOrder, PTL DEF TransferSpec
<1>2. TransferSpec => []AnswersOwed
  BY <1>1, InitOwes, StepOwes, PTL DEF TransferSpec
<1>3. TransferSpec => []AllStored
  BY <1>1, <1>2, InitStored, StepStored, PTL DEF TransferSpec
<1> QED
  BY <1>3, StoredSaysSo, PTL

\* The connection whose upload ends is the one that takes the step: nobody else
\* closes it, and the stream is flushed where the file ends.
LEMMA EndStores ==
    AnswersOwed /\ AllWhole /\ AllWhole' /\ AllStored /\ [TransferNext]_vars
      => [\A c \in Present :
             (/\ Writes(conn[c].stream) /\ ~conn[c].torn
              /\ conn'[c].state = "CLOSED")
             => disk'[conn[c].stream.file] = conn[c].given]_vars
<1> SUFFICES ASSUME AnswersOwed, AllWhole, AllWhole', AllStored, TransferNext,
                    NEW c \in Present, Writes(conn[c].stream), ~conn[c].torn,
                    conn'[c].state = "CLOSED"
             PROVE  disk'[conn[c].stream.file] = conn[c].given
  OBVIOUS
<1> DEFINE k == conn[c]
           s == k.stream
<1>1. /\ Whole(k) /\ Laid(k, disk) /\ DOMAIN k = Fields /\ Filed(disk) /\ s.pending \in Seq(STRING)
      /\ DOMAIN s = StreamFields
  BY DEF AllWhole, AllStored, AllLaid, AnswersOwed, Owes, Shaped, StreamIs
<1>2. k.state # "CLOSED"
  <2>1. s.mode # "none"
    BY DEF Writes
  <2> HIDE DEF k, s
  <2> QED
    BY <1>1, <2>1 DEF Whole, Ended, s
<1>3. PICK d \in Present :
         \/ Handle(d) \/ CloseSide(d) \/ CloseStdin(d) \/ Timeout(d) \/ Leave(d) \/ Flush(d)
  BY DEF TransferNext
<1>4. (\E r : Become(d, r)) \/ Flush(d)
  BY <1>3, Zenon DEF Handle, HandleHead, HandleDiscard, CloseSide, HandleBody, HandleCgiInput,
     HandleCgiOutput, HandleResponse, CloseStdin, Timeout, Leave
<1>5. ASSUME NEW r, NEW files, Set(d, r, files), d # c PROVE FALSE
  <2>1. conn'[c] = k \/ conn'[c] = [k EXCEPT !.torn = TRUE]
    BY <1>5, Zenon DEF Set
  <2>2. conn'[c].state = k.state
    BY <1>1, <2>1 DEF Fields
  <2> QED
    BY <1>2, <2>2
<1>6. CASE Flush(d)
  <2> DEFINE h == conn[d]
  <2>1. PICK n : \E files : Set(d, [h EXCEPT !.stream.pos = @ + n,
                                             !.stream.pending = SubSeq(@, n + 1, Len(@))], files)
    BY <1>6, Zenon DEF Flush
  <2> DEFINE r == [h EXCEPT !.stream.pos = @ + n, !.stream.pending = SubSeq(@, n + 1, Len(@))]
  <2>2. d = c
    BY <1>5, <2>1
  <2>3. conn'[c] = r
    BY <2>1, <2>2 DEF Set
  <2>4. r.state = k.state
    BY <1>1, <2>2 DEF Fields
  <2> QED
    BY <1>2, <2>3, <2>4
<1>7. CASE \E r : Become(d, r)
  <2>1. PICK r : Become(d, r)
    BY <1>7
  <2>2. d = c
    BY <1>5, <2>1 DEF Become
  <2>3. conn'[c] = r /\ disk' = DiskAfter(s, r.stream) /\ asked' = asked
    BY <2>1, <2>2 DEF Become, Set
  <2>4. ~Writes(r.stream)
    <3>1. c \in Present' /\ Whole(conn'[c])
      BY <2>3 DEF AllWhole, Present
    <3>2. Ended(conn'[c])
      BY <3>1, Zenon DEF Whole
    <3> QED
      BY <2>3, <3>2 DEF Ended, Writes
  <2>5. disk' = [disk EXCEPT ![s.file] = Overlay(@, s.pos, s.pending)]
    BY <2>3, <2>4, Zenon DEF DiskAfter
  <2>6. /\ s.file \in DOMAIN disk /\ disk[s.file] \in Seq(STRING)
        /\ disk[s.file] \o s.pending = k.given /\ Len(disk[s.file]) = s.pos
    BY <1>1 DEF Laid, Filed
  <2>7. disk'[s.file] = Overlay(disk[s.file], s.pos, s.pending)
    BY <2>5, <2>6
  <2> HIDE DEF k, s
  <2>8. disk'[s.file] = k.given
    BY <1>1, <2>6, <2>7, OverlayEnd
  <2> QED
    BY <2>8 DEF k, s
<1> QED
  BY <1>4, <1>6, <1>7

\* Whatever is read and written at a time, and whichever way the connection ends:
\* the file of an upload then holds what was given to its stream, unless somebody
\* else wrote to the file meanwhile (the destructor of ClientConnection, which
\* flushes the stream, after the library wrote out any part of it before).
THEOREM UploadsReachTheFile == TransferSpec => UploadStored
<1>1. TransferSpec => []BodiesInOrder
  BY InitInOrder, StepInOrder, PTL DEF TransferSpec
<1>2. TransferSpec => []AnswersOwed
  BY <1>1, InitOwes, StepOwes, PTL DEF TransferSpec
<1>3. TransferSpec => []AllWhole
  BY <1>1, <1>2, InitWhole, StepWhole, PTL DEF TransferSpec
<1>4. TransferSpec => []AllStored
  BY <1>1, <1>2, InitStored, StepStored, PTL DEF TransferSpec
<1> QED
  BY <1>2, <1>3, <1>4, EndStores, PTL DEF TransferSpec, UploadStored

-----------------------------------------------------------------------------
(* What a script is answered by                                               *)

\* The first n bytes.
LEMMA Prefix ==
  ASSUME NEW o \in Seq(STRING), NEW n \in 0..Len(o)
  PROVE  LET d == SubSeq(o, 1, n)
         IN d \in Seq(STRING) /\ Len(d) = n /\ \A i \in 1..n : d[i] = o[i]
<1> DEFINE d == SubSeq(o, 1, n)
<1>1. d \in Seq(STRING) /\ Len(d) = n
  OBVIOUS
<1>2. \A i \in 1..n : d[i] = o[i]
  OBVIOUS
<1> QED
  BY <1>1, <1>2

\* A head that is there is read in the same way whatever comes after it.
LEMMA PrefixFeeds ==
  ASSUME NEW o \in Seq(STRING), NEW n \in 0..Len(o), NEW e \in 1..n
  PROVE  e \in Feeds(SubSeq(o, 1, n)) <=> e \in Feeds(o)
<1> DEFINE d == SubSeq(o, 1, n)
<1>1. d \in Seq(STRING) /\ Len(d) = n /\ \A i \in 1..n : d[i] = o[i]
  BY Prefix
<1> HIDE DEF d
<1>2. e \in 1..Len(o) /\ e \in 1..Len(d) /\ d[e] = o[e]
  BY <1>1
<1>3. \A j \in 1..e - 1 : d[j] = o[j]
  BY <1>1
<1>4. e \in Feeds(d) <=> e \in Feeds(o)
  BY <1>2, <1>3, Zenon DEF Feeds
<1> QED
  BY <1>4 DEF d

LEMMA PrefixLine ==
  ASSUME NEW o \in Seq(STRING), NEW n \in 0..Len(o), NEW e \in 1..n
  PROVE  ScriptLine(SubSeq(o, 1, n), e) = ScriptLine(o, e)
<1> DEFINE d == SubSeq(o, 1, n)
           before == {i \in Feeds(o) : i < e}
           first == IF before = {} THEN 1 ELSE Max(before) + 1
           last == IF e > first /\ o[e - 1] = CR THEN e - 2 ELSE e - 1
<1>1. d \in Seq(STRING) /\ Len(d) = n /\ \A i \in 1..n : d[i] = o[i]
  BY Prefix
<1>2. Len(o) \in Nat /\ n \in Nat /\ n <= Len(o)
  OBVIOUS
<1>3. {i \in Feeds(d) : i < e} = before
  <2>1. \A i : i \in Feeds(o) /\ i < e => i \in 1..n
    BY FeedsAre
  <2>2. \A i : i \in Feeds(d) => i \in 1..n
    BY <1>1, FeedsAre, Zenon
  <2>3. \A i \in 1..n : i \in Feeds(d) <=> i \in Feeds(o)
    BY PrefixFeeds
  <2> HIDE DEF d
  <2> QED
    BY <2>1, <2>2, <2>3
<1>4. before \subseteq 0..Len(o) /\ \A i \in before : i < e
  BY FeedsAre
<1>5. first \in Nat /\ first > 0
  <2>1. before # {} => Max(before) \in 0..Len(o)
    <3> HIDE DEF before
    <3> QED
      BY <1>2, <1>4, LastExists
  <2> HIDE DEF before
  <2> QED
    BY <2>1
<1> HIDE DEF before, first, d
<1>6. e > first => d[e - 1] = o[e - 1]
  BY <1>1, <1>5
<1>7. ScriptLine(d, e) = SubSeq(d, first, last)
  <2>1. ScriptLine(d, e) = SubSeq(d, first, IF e > first /\ d[e - 1] = CR THEN e - 2 ELSE e - 1)
    BY <1>3, Zenon DEF ScriptLine, first
  <2>2. (IF e > first /\ d[e - 1] = CR THEN e - 2 ELSE e - 1) = last
    BY <1>6, Zenon
  <2> QED
    BY <2>1, <2>2, Zenon
<1>8. ScriptLine(o, e) = SubSeq(o, first, last)
  BY Zenon DEF ScriptLine, first, before
<1>9. last \in Int /\ last <= n
  BY <1>2
<1> HIDE DEF last
<1>10. SubSeq(d, first, last) = SubSeq(o, first, last)
  <2>1. \A i \in 1..last - first + 1 : first + i - 1 \in 1..n /\ d[first + i - 1] = o[first + i - 1]
    BY <1>1, <1>2, <1>5, <1>9
  <2>2. SubSeq(d, first, last) = [i \in 1..last - first + 1 |-> d[first + i - 1]]
    BY <1>1, <1>2, <1>5, <1>9
  <2>3. SubSeq(o, first, last) = [i \in 1..last - first + 1 |-> o[first + i - 1]]
    BY <1>2, <1>5, <1>9
  <2> QED
    BY <2>1, <2>2, <2>3, Zenon
<1> QED
  BY <1>7, <1>8, <1>10 DEF d

LEMMA PrefixHead ==
  ASSUME NEW o \in Seq(STRING), NEW n \in 0..Len(o)
  PROVE  LET h == HeadEnd(SubSeq(o, 1, n))
         IN /\ h \in 0..n
            /\ h # 0 => HeadEnd(o) = h
            /\ h = 0 => HeadEnd(o) \notin 1..n
<1> DEFINE d == SubSeq(o, 1, n)
           D == {e \in Feeds(d) : ScriptLine(d, e) = <<>>}
           O == {e \in Feeds(o) : ScriptLine(o, e) = <<>>}
<1>1. d \in Seq(STRING) /\ Len(d) = n /\ n \in Nat /\ Len(o) \in Nat /\ n <= Len(o)
  BY Prefix
<1>2. \A e \in 1..n : e \in D <=> e \in O
  BY PrefixFeeds, PrefixLine, Zenon
<1>3. HeadEnd(d) = IF D = {} THEN 0 ELSE Min(D)
  BY Zenon DEF HeadEnd
<1>4. HeadEnd(o) = IF O = {} THEN 0 ELSE Min(O)
  BY Zenon DEF HeadEnd
<1>5. D \subseteq 1..n /\ O \subseteq 1..Len(o) /\ D \subseteq Nat /\ O \subseteq Nat
  <2>1. D \subseteq Feeds(d) /\ O \subseteq Feeds(o)
    BY Zenon
  <2>2. Feeds(d) \subseteq 1..n /\ Feeds(o) \subseteq 1..Len(o)
    BY <1>1, FeedsAre, Zenon
  <2> HIDE DEF d, D, O
  <2> QED
    BY <1>1, <2>1, <2>2
<1> HIDE DEF d, D, O
<1>6. D # {} => Min(D) \in D /\ \A y \in D : Min(D) <= y
  BY <1>5, FirstExists
<1>7. O # {} => Min(O) \in O /\ \A y \in O : Min(O) <= y
  BY <1>5, FirstExists
<1>8. HeadEnd(d) \in 0..n
  <2>1. D # {} => Min(D) \in 1..n
    BY <1>5, <1>6
  <2>2. \A x : x \in 1..n => x \in 0..n
    OBVIOUS
  <2>3. 0 \in 0..n
    BY <1>1
  <2> QED
    BY <1>3, <2>1, <2>2, <2>3, Zenon
<1>9. ASSUME HeadEnd(d) # 0 PROVE HeadEnd(o) = HeadEnd(d)
  <2>1. D # {} /\ HeadEnd(d) = Min(D) /\ Min(D) \in O
    BY <1>2, <1>3, <1>5, <1>6, <1>9
  <2>2. O # {} /\ HeadEnd(o) = Min(O) /\ Min(O) <= Min(D)
    BY <1>4, <1>7, <2>1
  <2>3. Min(O) \in D
    <3> DEFINE x == Min(O)
               y == Min(D)
    <3>1. x \in O /\ O \subseteq 1..Len(o) /\ y \in D /\ D \subseteq 1..n /\ x <= y
      BY <1>5, <1>6, <1>7, <2>1, <2>2
    <3> HIDE DEF x, y
    <3>2. x \in 1..n
      BY <1>1, <3>1
    <3>3. x \in D
      BY <1>2, <3>1, <3>2
    <3> QED
      BY <3>3 DEF x
  <2> QED
    <3> DEFINE x == Min(O)
               y == Min(D)
    <3>1. x \in Nat /\ y \in Nat /\ x <= y /\ y <= x
      BY <1>5, <1>6, <1>7, <2>1, <2>2, <2>3
    <3>2. HeadEnd(o) = x /\ HeadEnd(d) = y
      BY <2>1, <2>2
    <3> HIDE DEF x, y
    <3> QED
      BY <3>1, <3>2
<1>10. ASSUME HeadEnd(d) = 0 PROVE HeadEnd(o) \notin 1..n
  <2>1. D = {}
    BY <1>3, <1>5, <1>6, <1>10
  <2>2. HeadEnd(o) # 0 => HeadEnd(o) \in O
    BY <1>4, <1>7
  <2> QED
    BY <1>2, <2>1, <2>2
<1> QED
  BY <1>8, <1>9, <1>10 DEF d

LEMMA PrefixStatus ==
  ASSUME NEW o \in Seq(STRING), NEW n \in 0..Len(o), NEW d, d = SubSeq(o, 1, n),
         HeadEnd(d) = HeadEnd(o)
  PROVE  ScriptStatus(d) = ScriptStatus(o) /\ ScriptFields(d) = ScriptFields(o)
<1> DEFINE N == HeadEnd(o)
<1>1. N \in 0..n /\ n \in Nat
  BY PrefixHead
<1>2. \A e \in 1..n : (e \in Feeds(d) <=> e \in Feeds(o)) /\ ScriptLine(d, e) = ScriptLine(o, e)
  BY PrefixFeeds, PrefixLine
<1>3. d \in Seq(STRING) /\ Len(d) = n
  BY Prefix
<1>4. ScriptStatus(d) = ScriptStatus(o)
  <2> DEFINE Named(x) == {e \in Feeds(x) : e <= HeadEnd(x) /\ Colons(ScriptLine(x, e)) # {}
                                     /\ Name(ScriptLine(x, e)) = "status"}
             value(x) == Value(ScriptLine(x, Max(Named(x))))
  <2>1. \A x : Named(x) = {} => ScriptStatus(x) = "200"
    BY Zenon DEF ScriptStatus
  <2>2. \A x : Named(x) # {} => ScriptStatus(x) = IF value(x) = <<>> THEN "0" ELSE value(x)[1]
    BY Zenon DEF ScriptStatus
  <2>3. Named(d) = Named(o)
    <3>1. \A e : e \in Feeds(d) => e \in 1..n
      BY <1>3, FeedsAre, Zenon
    <3>2. \A e : e \in Feeds(o) /\ e <= N => e \in 1..n
      <4> HIDE DEF N
      <4> QED
        BY <1>1, FeedsAre
    <3> QED
      BY <1>2, <3>1, <3>2, Zenon
  <2>4. ASSUME Named(o) # {} PROVE ScriptLine(d, Max(Named(o))) = ScriptLine(o, Max(Named(o)))
    <3>1. \A e \in Named(o) : e \in 1..n /\ e \in 0..n
      <4>1. \A e : e \in Feeds(o) /\ e <= N => e \in 1..n /\ e \in 0..n
        <5> HIDE DEF N
        <5> QED
          BY <1>1, FeedsAre
      <4> QED
        BY <4>1, Zenon
    <3> HIDE DEF Named
    <3>2. Named(o) \subseteq 0..n
      BY <3>1
    <3>3. Max(Named(o)) \in Named(o)
      BY <1>1, <2>4, <3>2, LastExists
    <3> QED
      BY <1>2, <3>1, <3>3
  <2> HIDE DEF Named
  <2> QED
    BY <2>1, <2>2, <2>3, <2>4, Zenon
<1>5. ScriptFields(d) = ScriptFields(o)
  <2> DEFINE Passed(x, e) == e \in Feeds(x) /\ Colons(ScriptLine(x, e)) # {} /\ Name(ScriptLine(x, e)) # "status"
             Body(x, g, e) == IF e = 0 THEN <<>>
                              ELSE IF Passed(x, e) THEN g[e - 1] \o ScriptLine(x, e) \o Blank
                              ELSE g[e - 1]
             Collects(x, g) == g = [e \in 0..N |-> Body(x, g, e)]
  <2>1. \A e \in 0..N : e = 0 \/ e \in 1..n
    <3> HIDE DEF N
    <3> QED
      BY <1>1
  <2>2. \A g : \A e \in 0..N : Body(d, g, e) = Body(o, g, e)
    BY <1>2, <2>1, Zenon
  <2>3. ScriptFields(d) = (CHOOSE g : Collects(d, g))[N]
    BY Zenon DEF ScriptFields
  <2>4. ScriptFields(o) = (CHOOSE g : Collects(o, g))[N]
    BY Zenon DEF ScriptFields
  <2> HIDE DEF N, Body
  <2>5. \A g : Collects(d, g) <=> Collects(o, g)
    BY <2>2, Zenon
  <2> HIDE DEF Collects
  <2>6. (CHOOSE g : Collects(d, g)) = (CHOOSE g : Collects(o, g))
    BY <2>5, Zenon
  <2> QED
    BY <2>3, <2>4, <2>6, Zenon
<1> QED
  BY <1>4, <1>5

Answered(k, q) ==
    \/ HeadEnd(q.output) \in 1..Capacity - 1 /\ k.plan = AnswerOf(q.output)
    \/ HeadEnd(q.output) \notin 1..Capacity - 2 /\ k.plan = NoGateway

\* All that was heard of a script is in the buffer, and its head is not there yet.
Listens(k, q) ==
    /\ k.stream.mode = "none" /\ k.buf.writepos = 0 /\ k.heard < Capacity
    /\ k.buf.data = SubSeq(q.output, 1, k.heard) /\ HeadEnd(k.buf.data) = 0

\* The head is passed on, and the file and the buffer hold what came after it.
Spools(k, q) ==
    LET o == q.output
    IN /\ k.stream.mode = "out" /\ k.stream.file = "temp" /\ k.stream.good = TRUE
       /\ k.buf.writepos = 0
       /\ HeadEnd(o) \in 1..Capacity - 1 /\ HeadEnd(o) <= k.heard
       /\ k.headers = Lines(<<ScriptStatus(o)>>) \o ScriptFields(o)
       /\ k.temp \o k.buf.data = SubSeq(o, HeadEnd(o) + 1, k.heard)

\* The inductive invariant of a connection.
Hears(k, q) ==
    /\ k.state \notin {"CGI_HEADERS", "CGI_BODY", "RESPONSE", "CLOSED"} => k.clean = FALSE
    /\ k.clean =>
           /\ k.state = "CGI_HEADERS" => Listens(k, q)
           /\ k.state = "CGI_BODY" => Spools(k, q)
           /\ k.state = "RESPONSE" => Answered(k, q)

\* A connection that listens to no script yet.
Deaf(k) == DOMAIN k = Fields /\ k.clean = FALSE /\ Orderly(k.buf)

LEMMA DeafHears ==
  ASSUME NEW k, k.clean = FALSE, NEW q
  PROVE  Hears(k, q)
BY DEF Hears

\* It begins to listen with nothing heard.
LEMMA CollectHears ==
  ASSUME NEW k, DOMAIN k = Fields, Orderly(k.buf), NEW q \in Requests
  PROVE  Hears(Collect(k), q)
<1> DEFINE r == Collect(k)
<1>1. /\ r.state = "CGI_HEADERS" /\ r.heard = 0 /\ r.buf = k.buf /\ r.stream = k.stream
      /\ r.clean => k.buf.data = <<>> /\ k.stream.mode = "none"
  BY DEF Collect, Fields
<1>2. q.output \in Seq(STRING)
  BY DEF Requests
<1>3. SubSeq(q.output, 1, 0) = <<>>
  BY <1>2
<1>4. HeadEnd(<<>>) = 0
  <2> DEFINE e == HeadEnd(SubSeq(q.output, 1, 0))
  <2>1. e \in 0..0
    BY <1>2, PrefixHead
  <2> HIDE DEF e
  <2>2. e = 0
    BY <2>1
  <2> QED
    BY <1>3, <2>2, Zenon DEF e
<1>5. k.buf.data = <<>> => k.buf.writepos = 0
  BY DEF Orderly
<1> HIDE DEF r
<1>6. ASSUME r.clean PROVE Listens(r, q)
  <2>1. r.buf.data = <<>> /\ r.buf.writepos = 0 /\ r.stream.mode = "none" /\ r.heard = 0
    BY <1>1, <1>5, <1>6
  <2>2. 0 < Capacity
    BY TransferAssumption
  <2> QED
    BY <1>3, <1>4, <2>1, <2>2, Zenon DEF Listens
<1>7. Hears(r, q)
  BY <1>1, <1>6, Zenon DEF Hears
<1> QED
  BY <1>7 DEF r

\* An answer that is not a script's is given without one.
LEMMA AnswersDeaf ==
  ASSUME NEW k, DOMAIN k = Fields, k.clean = FALSE, NEW q, NEW files
  PROVE  /\ AnswerPage(k, files).clean = FALSE
         /\ AnswerUpload(k, files).clean = FALSE
         /\ AnswerListing(k, q, files).clean = FALSE
         /\ \A f : AnswerFile(k, f, files).clean = FALSE
<1>1. AnswerPage(k, files).clean = FALSE
  BY DEF AnswerPage, Headed, Respond, Fields
<1>2. AnswerUpload(k, files).clean = FALSE
  BY DEF AnswerUpload, Headed, Respond, Fields
<1>3. AnswerListing(k, q, files).clean = FALSE
  BY DEF AnswerListing, Headed, Respond, Fields
<1>4. ASSUME NEW f PROVE AnswerFile(k, f, files).clean = FALSE
  BY DEF AnswerFile, InternalError, Headed, Respond, Fields
<1> QED
  BY <1>1, <1>2, <1>3, <1>4

LEMMA SetupCgiHears ==
  ASSUME NEW k, Deaf(k), NEW q \in Requests, NEW length
  PROVE  Hears(setup_cgi(k, length), q)
<1> DEFINE h == [k EXCEPT !.written = 0]
           g == [k EXCEPT !.state = "CGI_TRANSMIT_BODY", !.written = 0]
<1>1. DOMAIN h = Fields /\ h.buf = k.buf
  BY DEF Deaf, Fields
<1>2. g.clean = FALSE
  BY DEF Deaf, Fields
<1>3. setup_cgi(k, length) = g \/ setup_cgi(k, length) = Collect(h)
  BY Zenon DEF setup_cgi
<1> HIDE DEF h, g
<1>4. Hears(Collect(h), q)
  BY <1>1, CollectHears, Zenon DEF Deaf
<1>5. Hears(g, q)
  BY <1>2, DeafHears, Zenon
<1> QED
  BY <1>3, <1>4, <1>5, Zenon

LEMMA AnswerErrorHears ==
  ASSUME NEW k, Deaf(k), NEW q \in Requests, NEW files
  PROVE  Hears(AnswerError(k, q, files), q)
<1> DEFINE h == [k EXCEPT !.written = FeedCapacity(k.buf), !.buf = Clear(@)]
           g == [h EXCEPT !.state = "DISCARD_BODY"]
<1>1. DOMAIN h = Fields /\ h.clean = FALSE /\ g.clean = FALSE
  BY DEF Deaf, Fields
<1>2. \/ AnswerError(k, q, files) = setup_cgi(k, 0)
      \/ AnswerError(k, q, files) = AnswerPage(k, files)
      \/ AnswerError(k, q, files) = AnswerPage(h, files)
      \/ AnswerError(k, q, files) = g
  BY Zenon DEF AnswerError
<1> HIDE DEF h, g
<1>3. AnswerPage(h, files).clean = FALSE /\ AnswerPage(k, files).clean = FALSE
  BY <1>1, AnswersDeaf, Zenon DEF Deaf
<1>4. Hears(setup_cgi(k, 0), q)
  BY SetupCgiHears, Zenon
<1> QED
  BY <1>1, <1>2, <1>3, <1>4, DeafHears

LEMMA StoreBodyDeaf ==
  ASSUME NEW k, DOMAIN k = Fields, k.clean = FALSE, NEW q, NEW files
  PROVE  StoreBody(k, q, files).clean = FALSE
<1> DEFINE h == Stored(k)
           g == [h EXCEPT !.state = "REQ_BODY"]
<1>1. DOMAIN h = Fields /\ h.clean = FALSE
  BY DEF Stored, Fields
<1>2. StoreBody(k, q, files) = AnswerUpload(h, files) \/ StoreBody(k, q, files) = g
  BY Zenon DEF StoreBody
<1> HIDE DEF h
<1>3. g.clean = FALSE
  BY <1>1 DEF Fields
<1>4. AnswerUpload(h, files).clean = FALSE
  BY <1>1, AnswersDeaf, Zenon
<1> QED
  BY <1>2, <1>3, <1>4

LEMMA SetupHears ==
  ASSUME NEW k, Deaf(k), NEW q \in Requests, NEW files
  PROVE  Hears(handle_setup(k, q, files), q)
<1> DEFINE r == handle_setup(k, q, files)
           ok == [k EXCEPT !.status = "200"]
<1>1. Deaf(ok)
  BY DEF Deaf, Fields
<1>2. ASSUME NEW x PROVE Hears(Refuse(k, x, q, files), q)
  <2> DEFINE h == [k EXCEPT !.status = x]
  <2>1. Deaf(h)
    BY DEF Deaf, Fields
  <2>2. Refuse(k, x, q, files) = AnswerError(h, q, files)
    BY Zenon DEF Refuse
  <2> HIDE DEF h
  <2> QED
    BY <2>1, <2>2, AnswerErrorHears
<1> HIDE DEF ok
<1>3. CASE k.status # "none"
  BY <1>3, AnswerErrorHears DEF handle_setup
<1>4. CASE k.status = "none" /\ q.route = "large"
  BY <1>2, <1>4 DEF handle_setup
<1>5. CASE k.status = "none" /\ q.route = "upload"
  <2>1. r = setup_post(k, q, files)
    BY <1>5 DEF handle_setup
  <2> DEFINE h == [k EXCEPT !.status = PostStatus(q.file, files), !.written = 0,
                            !.stream = Stream("out", q.file)]
  <2>2. DOMAIN h = Fields /\ h.clean = FALSE
    BY DEF Deaf, Fields
  <2>3. setup_post(k, q, files) = Refuse(k, "500", q, files) \/ setup_post(k, q, files) = StoreBody(h, q, files)
    BY Zenon DEF setup_post
  <2> HIDE DEF h, r
  <2>4. Hears(StoreBody(h, q, files), q)
    BY <2>2, StoreBodyDeaf, DeafHears, Zenon
  <2>5. Hears(r, q)
    BY <1>2, <2>1, <2>3, <2>4, Zenon
  <2> QED
    BY <2>5 DEF r
<1>6. CASE k.status = "none" /\ q.route = "script"
  <2>1. PICK n : r = setup_cgi(ok, n)
    BY <1>6 DEF handle_setup, ok
  <2> HIDE DEF r
  <2>2. Hears(r, q)
    BY <1>1, <2>1, SetupCgiHears
  <2> QED
    BY <2>2 DEF r
<1>7. CASE k.status = "none" /\ q.route = "listing"
  <2>1. r = AnswerListing(ok, q, files)
    BY <1>7 DEF handle_setup, ok
  <2> HIDE DEF r
  <2>2. Hears(r, q)
    BY <1>1, <2>1, AnswersDeaf, DeafHears DEF Deaf
  <2> QED
    BY <2>2 DEF r
<1>8. CASE k.status = "none" /\ q.route = "file"
  <2>1. r = AnswerFile(ok, q.file, files) \/ r = Refuse(k, "404", q, files)
    BY <1>8 DEF handle_setup, ok
  <2> HIDE DEF r
  <2>2. AnswerFile(ok, q.file, files).clean = FALSE
    BY <1>1, AnswersDeaf DEF Deaf
  <2>3. Hears(AnswerFile(ok, q.file, files), q)
    BY <2>2, DeafHears
  <2>4. Hears(r, q)
    BY <1>2, <2>1, <2>3, Zenon
  <2> QED
    BY <2>4 DEF r
<1>9. q.route \in Routes
  BY DEF Requests
<1> QED
  BY <1>3, <1>4, <1>5, <1>6, <1>7, <1>8, <1>9 DEF Routes

\* The parser of the head begins no script.
LEMMA HeadHears ==
  ASSUME NEW q \in Requests, NEW k, Reads(k, q), k.clean = FALSE,
         NEW n \in Nat, k.taken + n <= Len(Sent(q)), NEW files
  PROVE  Hears(handle_head(k, q, n, files), q)
<1> DEFINE cleared == [k EXCEPT !.buf = IF FeedCapacity(@) = 0 THEN Clear(@) ELSE @]
           filled == FillRequest(cleared, q, n)
           lined == IF k.state = "REQ_LINE" THEN handle_req_line(filled) ELSE filled
           headed == IF lined.state = "REQ_HEADERS" THEN handle_req_headers(lined, q) ELSE lined
           judged == Judged(headed)
           Quiet(h) == Reads(h, q) /\ h.clean = FALSE
<1>1. Quiet(cleared) /\ cleared.taken = k.taken
  <2>1. /\ DOMAIN cleared = Fields /\ cleared.taken = k.taken /\ cleared.start = k.start
        /\ cleared.given = k.given /\ cleared.clean = k.clean
        /\ (cleared.buf = k.buf \/ cleared.buf = Clear(k.buf))
    BY DEF Reads, Fields
  <2>2. Lastly(Clear(k.buf), Sent(q), k.taken)
    BY SentIs, LastlyClear DEF Reads, Lastly
  <2> HIDE DEF cleared
  <2> QED
    BY <2>1, <2>2, Zenon DEF Reads
<1> HIDE DEF cleared
<1>2. Quiet(filled)
  <2>1. Reads(filled, q)
    BY <1>1, ReadMore DEF Reads
  <2>2. filled.clean = cleared.clean
    BY <1>1 DEF FillRequest, Reads, Fields
  <2> QED
    BY <1>1, <2>1, <2>2
<1> HIDE DEF filled
<1>3. ASSUME NEW h, Quiet(h) PROVE Quiet(handle_req_line(h))
  <2>1. handle_req_line(h).clean = h.clean
    BY <1>3 DEF handle_req_line, Fail, Reads, Fields
  <2> QED
    BY <1>3, <2>1, LineReads
<1>4. ASSUME NEW h, Quiet(h) PROVE Quiet(handle_req_headers(h, q))
  <2> DEFINE d == h.buf.data
             stops == Stops(h, d)
             read == {e \in Ends(d) : stops = {} \/ e < Min(stops)}
             rest == [h EXCEPT !.fields = Insert(@, d, read),
                               !.buf = IF read = {} THEN @ ELSE Erase(@, Max(read) + 1)]
             body == [rest EXCEPT !.buf = Erase(@, 2), !.written = 0]
             r == handle_req_headers(h, q)
  <2>1. DOMAIN rest = Fields /\ rest.clean = FALSE
    <3> HIDE DEF read, d
    <3> QED
      BY <1>4 DEF Reads, Fields
  <2>2. \/ r = rest
        \/ \E x : r = Fail(rest, x)
        \/ r = parse_req_headers(body, q)
    BY Zenon DEF handle_req_headers
  <2> HIDE DEF rest, r
  <2>3. DOMAIN body = Fields /\ body.clean = FALSE
    BY <2>1 DEF Fields
  <2>4. ASSUME NEW g, DOMAIN g = Fields, g.clean = FALSE, NEW x PROVE Fail(g, x).clean = FALSE
    BY <2>4 DEF Fail, Fields
  <2> HIDE DEF body
  <2>5. \E x : parse_req_headers(body, q) = Fail(body, x)
    BY Zenon DEF parse_req_headers
  <2>6. r.clean = FALSE
    BY <2>1, <2>2, <2>3, <2>4, <2>5, Zenon
  <2> QED
    BY <1>4, <2>6, HeadersRead DEF r
<1>5. Quiet(lined)
  <2> HIDE DEF Quiet
  <2> QED
    BY <1>2, <1>3, Zenon
<1> HIDE DEF lined
<1>6. Quiet(headed)
  <2> HIDE DEF Quiet
  <2> QED
    BY <1>4, <1>5, Zenon
<1> HIDE DEF headed
<1>7. Deaf(judged)
  <2>1. DOMAIN judged = Fields /\ judged.clean = FALSE /\ judged.buf = headed.buf
    BY <1>6 DEF Judged, Reads, Fields
  <2>2. Orderly(headed.buf)
    BY <1>6 DEF Reads, Lastly, Orderly
  <2> HIDE DEF judged
  <2> QED
    BY <2>1, <2>2, Zenon DEF Deaf
<1>8. \/ handle_head(k, q, n, files) = handle_setup(judged, q, files)
      \/ handle_head(k, q, n, files) = headed
  BY Zenon DEF handle_head, headed, lined, filled, cleared
<1> HIDE DEF judged
<1> QED
  BY <1>6, <1>7, <1>8, SetupHears, DeafHears

\* The handlers of a body.
LEMMA BodyHears ==
  ASSUME NEW k, DOMAIN k = Fields, k.clean = FALSE, NEW q \in Requests, NEW n, NEW files
  PROVE  /\ Hears(handle_discard(k, q, n, files), q)
         /\ Hears(handle_post(k, q, n, files), q)
         /\ Hears(read_cgi_body(k, q, n), q)
<1> DEFINE dropped == [k EXCEPT !.buf = Clear(@), !.taken = @ + n, !.written = @ + n]
           filled == FillRequest(k, q, n)
           passed == [filled EXCEPT !.state = "CGI_TRANSMIT_BODY"]
<1>1. DOMAIN dropped = Fields /\ dropped.clean = FALSE
  BY DEF Fields
<1>2. DOMAIN filled = Fields /\ filled.clean = FALSE
  BY DEF FillRequest, Fields
<1>3. handle_discard(k, q, n, files) = AnswerPage(dropped, files) \/ handle_discard(k, q, n, files) = dropped
  BY Zenon DEF handle_discard
<1>4. handle_post(k, q, n, files) = StoreBody(filled, q, files) /\ read_cgi_body(k, q, n) = passed
  BY Zenon DEF handle_post, read_cgi_body
<1> HIDE DEF dropped, filled
<1>5. AnswerPage(dropped, files).clean = FALSE
  BY <1>1, AnswersDeaf, Zenon
<1>6. StoreBody(filled, q, files).clean = FALSE
  BY <1>2, StoreBodyDeaf, Zenon
<1>7. passed.clean = FALSE
  BY <1>2 DEF Fields
<1> HIDE DEF passed
<1> QED
  BY <1>1, <1>3, <1>4, <1>5, <1>6, <1>7, DeafHears

LEMMA InputHears ==
  ASSUME NEW k, Deaf(k), NEW q \in Requests, NEW n
  PROVE  Hears(handle_cgi_input(k, q, n), q)
<1> DEFINE fed == [k EXCEPT !.given = @ \o SubSeq(Unfed(k.buf), 1, n), !.buf = Feed(@, n),
                            !.written = @ + n]
           empty == [fed EXCEPT !.buf = Clear(@)]
           back == [empty EXCEPT !.state = "REQ_BODY"]
<1>1. DOMAIN fed = Fields /\ fed.clean = FALSE /\ fed.buf = Feed(k.buf, n)
  BY DEF Deaf, Fields
<1>2. DOMAIN Feed(k.buf, n) = BufferFields
  BY DEF Feed, Deaf, Orderly, BufferFields
<1>3. \/ handle_cgi_input(k, q, n) = fed
      \/ handle_cgi_input(k, q, n) = Collect(empty)
      \/ handle_cgi_input(k, q, n) = back
  BY Zenon DEF handle_cgi_input
<1> HIDE DEF fed
<1>4. DOMAIN empty = Fields /\ empty.clean = FALSE /\ empty.buf = Clear(fed.buf)
  BY <1>1 DEF Fields
<1>5. Orderly(Clear(fed.buf))
  BY <1>1, <1>2, ClearIs, Zenon
<1> HIDE DEF empty
<1>6. back.clean = FALSE
  BY <1>4 DEF Fields
<1> HIDE DEF back
<1>7. Hears(Collect(empty), q)
  BY <1>4, <1>5, CollectHears, Zenon
<1> QED
  BY <1>1, <1>3, <1>6, <1>7, DeafHears

-----------------------------------------------------------------------------
\* The head of a script is there: what came after it is in the buffer.
LEMMA BeginBodySpools ==
  ASSUME NEW q \in Requests, NEW k, NEW files, Begun(k, q, files),
         k.stream.mode = "none", k.buf.writepos = 0, k.heard < Capacity,
         k.buf.data = SubSeq(q.output, 1, k.heard), HeadEnd(k.buf.data) # 0
  PROVE  Spools(BeginBody(k), q)
<1> DEFINE o == q.output
           m == k.heard
           d == k.buf.data
           N == HeadEnd(d)
           r == BeginBody(k)
<1>1. o \in Seq(STRING) /\ m \in 0..Len(o) /\ d \in Seq(STRING)
  BY DEF Requests, Begun, Shaped, Solid
<1>2. /\ r.buf = Erase(k.buf, N)
      /\ r.headers = Lines(<<ScriptStatus(d)>>) \o ScriptFields(d)
      /\ r.temp = <<>> /\ r.heard = k.heard
      /\ r.stream = Stream("out", "temp")
  BY DEF BeginBody, Begun, Shaped, Fields
<1>3. r.buf.data = SubSeq(d, N + 1, Len(d)) /\ r.buf.writepos = 0
  <2>1. /\ Erase(k.buf, N).data = SubSeq(d, N + 1, Len(d))
        /\ Erase(k.buf, N).writepos = 0
    <3>1. DOMAIN k.buf = BufferFields /\ k.buf.writepos = 0
      BY DEF Begun, Shaped, Solid
    <3> HIDE DEF N, r
    <3>2. Erase(k.buf, N).writepos = IF 0 > 0 THEN 0 - N ELSE 0
      BY <3>1, Zenon DEF Erase, BufferFields
    <3>3. Erase(k.buf, N).data = SubSeq(d, N + 1, Len(d))
      BY <3>1, Zenon DEF Erase, BufferFields
    <3>4. ~(0 > 0)
      OBVIOUS
    <3> QED
      BY <3>2, <3>3, <3>4, Zenon
  <2> QED
    BY <1>2, <2>1, Zenon
<1>4. r.stream.mode = "out" /\ r.stream.file = "temp" /\ r.stream.good = TRUE
  <2>1. Stream("out", "temp").mode = "out" /\ Stream("out", "temp").file = "temp" /\ Stream("out", "temp").good = TRUE
    BY DEF Stream, NoStream
  <2> QED
    BY <1>2, <2>1, Zenon
<1> HIDE DEF r
<1>5. N \in 0..m /\ N # 0 /\ N = HeadEnd(o)
  BY <1>1, PrefixHead
<1>6. ScriptStatus(d) = ScriptStatus(o) /\ ScriptFields(d) = ScriptFields(o)
  BY <1>1, <1>5, PrefixStatus
<1>7. N \in Nat /\ N > 0 /\ N <= m /\ m \in Nat /\ m <= Len(o) /\ m < Capacity /\ Capacity \in Nat
  <2> HIDE DEF N, o, m
  <2>1. m < Capacity
    BY DEF m
  <2> QED
    BY <1>1, <1>5, <2>1, TransferAssumption
<1>8. SubSeq(d, N + 1, Len(d)) = SubSeq(o, N + 1, m)
  <2> DEFINE e == SubSeq(o, 0 + 1, m)
             g == IF 0 + N <= m THEN 0 + N ELSE m
  <2>1. SubSeq(e, N + 1, Len(e)) = SubSeq(o, g + 1, m)
    <3> HIDE DEF N
    <3> QED
      BY <1>1, <1>7, MiddleDropped
  <2>2. d = e
    BY <1>1
  <2>3. g = N
    <3> HIDE DEF N, m
    <3> QED
      BY <1>7
  <2> HIDE DEF e, g
  <2> QED
    BY <2>1, <2>2, <2>3, Zenon
<1>9. r.temp \o r.buf.data = SubSeq(o, N + 1, m)
  <2> DEFINE u == SubSeq(o, N + 1, m)
  <2>1. u \in Seq(STRING)
    <3> HIDE DEF N, m
    <3> QED
      BY <1>1, <1>7, Middle
  <2> HIDE DEF u
  <2>2. <<>> \o u = u
    BY <2>1
  <2>3. r.temp \o r.buf.data = <<>> \o u
    BY <1>2, <1>3, <1>8, Zenon DEF u
  <2> QED
    BY <2>2, <2>3, Zenon DEF u
<1>10. N \in 1..Capacity - 1
  <2> HIDE DEF N, m
  <2> QED
    BY <1>7
<1> HIDE DEF d
<1>11. /\ HeadEnd(o) \in 1..Capacity - 1 /\ HeadEnd(o) <= r.heard
       /\ r.temp \o r.buf.data = SubSeq(o, HeadEnd(o) + 1, r.heard)
       /\ r.headers = Lines(<<ScriptStatus(o)>>) \o ScriptFields(o)
  BY <1>2, <1>5, <1>6, <1>7, <1>9, <1>10, Zenon
<1>12. Spools(r, q)
  BY <1>3, <1>4, <1>11, Zenon DEF Spools
<1> QED
  BY <1>12 DEF r

\* What is in the buffer goes to the file,
LEMMA SpoolBodySpools ==
  ASSUME NEW q, NEW k, NEW files, Begun(k, q, files), Spools(k, q)
  PROVE  /\ Spools(SpoolBody(k), q) /\ SpoolBody(k).buf.data = <<>>
         /\ SpoolBody(k).heard = k.heard /\ SpoolBody(k).clean = k.clean
<1> DEFINE r == SpoolBody(k)
           d == k.buf.data
           h == [k EXCEPT !.temp = IF k.stream.good THEN @ \o Unfed(k.buf) ELSE @, !.buf = Clear(@)]
<1>1. d \in Seq(STRING) /\ k.temp \in Seq(STRING) /\ k.buf.writepos = 0 /\ k.stream.good = TRUE
  BY DEF Begun, Shaped, Solid, Spools
<1>2. FeedCapacity(k.buf) = Len(d)
  BY <1>1 DEF FeedCapacity
<1>3. Unfed(k.buf) = d
  <2>1. 0 \in 0..Len(d) /\ 0 + 1 = 1
    BY <1>1
  <2>2. Unfed(k.buf) = SubSeq(d, 0 + 1, Len(d))
    BY <1>1, <2>1, UnfedEnds, Zenon
  <2> HIDE DEF d
  <2>3. SubSeq(d, 0 + 1, Len(d)) = d
    BY <1>1
  <2> QED
    BY <2>2, <2>3
<1>4. CASE FeedCapacity(k.buf) = 0
  <2>1. r = k
    BY <1>4, Zenon DEF SpoolBody
  <2>2. d = <<>>
    <3> HIDE DEF d, h, r
    <3>1. d \in Seq(STRING) /\ Len(d) = 0
      BY <1>1, <1>2, <1>4, Zenon
    <3> QED
      BY <3>1
  <2> HIDE DEF r
  <2> QED
    BY <2>1, <2>2 DEF r
<1>5. CASE FeedCapacity(k.buf) # 0
  <2>1. r = h
    BY <1>5, Zenon DEF SpoolBody
  <2>2. /\ h.temp = k.temp \o d /\ h.buf = Clear(k.buf) /\ h.heard = k.heard
        /\ h.headers = k.headers /\ h.stream = k.stream /\ h.clean = k.clean
    BY <1>1, <1>3 DEF Begun, Shaped, Fields
  <2>3. Clear(k.buf).data = <<>> /\ Clear(k.buf).writepos = 0
    BY DEF Clear, Begun, Shaped, Solid, BufferFields
  <2> HIDE DEF h, r
  <2>4. h.temp \o h.buf.data = k.temp \o d
    <3> DEFINE u == k.temp \o d
    <3>1. u \in Seq(STRING)
      BY <1>1, Appended, Zenon
    <3> HIDE DEF u
    <3>2. u \o <<>> = u
      BY <3>1
    <3> QED
      BY <2>2, <2>3, <3>2, Zenon DEF u
  <2>5. h.buf.data = <<>> /\ h.buf.writepos = 0
    BY <2>2, <2>3, Zenon
  <2>6. Spools(h, q)
    BY <2>2, <2>4, <2>5, Zenon DEF Spools
  <2> QED
    BY <2>1, <2>2, <2>5, <2>6, Zenon DEF r
<1> QED
  BY <1>4, <1>5

\* of which the answer is made,
LEMMA FinalizeAnswers ==
  ASSUME NEW q \in Requests, NEW k, NEW files, Begun(k, q, files), Spools(k, q),
         k.buf.data = <<>>, k.heard = Len(q.output)
  PROVE  Answered(finalize_cgi(k, files), q) /\ finalize_cgi(k, files).state = "RESPONSE"
<1> DEFINE t == Stream("in", "temp")
           h == [k EXCEPT !.stream = t, !.headers = @ \o Blank, !.buf = Clear(@)]
           r == finalize_cgi(k, files)
           rest == Rest(h, files)
<1>1. /\ t.mode = "in" /\ t.file = "temp" /\ t.pos = 0 /\ t.eof = FALSE
  BY DEF Stream, NoStream
<1> HIDE DEF t
<1>2. /\ DOMAIN h = Fields /\ h.stream = t /\ h.headers = k.headers \o Blank /\ h.body = k.body
      /\ h.temp = k.temp
  BY DEF Begun, Shaped, Fields
<1>3. r = Respond(h, files)
  BY Zenon DEF finalize_cgi, t
<1> HIDE DEF h
<1>4. r.plan = Rest(h, files) /\ r.state = "RESPONSE"
  <2> HIDE DEF r
  <2> QED
    BY <1>2, <1>3 DEF Respond, Fields
<1>5. k.temp \in Seq(STRING) /\ k.headers \in Seq(STRING) /\ k.body = <<>>
  BY DEF Begun, Shaped, Silent
<1>6. k.temp = SubSeq(q.output, HeadEnd(q.output) + 1, Len(q.output))
  <2> DEFINE u == SubSeq(q.output, HeadEnd(q.output) + 1, Len(q.output))
  <2>1. k.temp \o <<>> = u
    BY Zenon DEF Spools
  <2> HIDE DEF u
  <2>2. k.temp \o <<>> = k.temp
    BY <1>5
  <2> QED
    BY <2>1, <2>2, Zenon DEF u
<1>7. Unread(h, files) = k.temp
  <2>1. Unread(h, files) = SubSeq(k.temp, 0 + 1, Len(k.temp))
    BY <1>1, <1>2 DEF Unread
  <2>2. SubSeq(k.temp, 0 + 1, Len(k.temp)) = k.temp
    BY <1>5
  <2> QED
    BY <2>1, <2>2, Zenon
<1>8. rest = ((k.headers \o Blank) \o k.temp) \o <<>>
  BY <1>2, <1>5, <1>7, Zenon DEF Rest
<1>9. rest = (k.headers \o Blank) \o k.temp
  <2> DEFINE u == (k.headers \o Blank) \o k.temp
  <2>1. u \in Seq(STRING)
    <3>1. Blank \in Seq(STRING)
      BY WordsAssumption DEF Blank
    <3>2. k.headers \o Blank \in Seq(STRING)
      BY <1>5, <3>1, Appended, Zenon
    <3> QED
      BY <1>5, <3>2, Appended, Zenon
  <2> HIDE DEF u
  <2>2. u \o <<>> = u
    BY <2>1
  <2> QED
    BY <1>8, <2>2, Zenon DEF u
<1> HIDE DEF rest, r
<1>10. rest = AnswerOf(q.output)
  BY <1>6, <1>9, Zenon DEF AnswerOf, Spools
<1>11. Answered(r, q)
  BY <1>4, <1>10, Zenon DEF Answered, Spools, rest
<1> QED
  BY <1>4, <1>11 DEF r

\* or the script is given up.
LEMMA GivenUpAnswers ==
  ASSUME NEW q, NEW k, NEW files, Begun(k, q, files), k.stream.mode = "none",
         HeadEnd(q.output) \notin 1..Capacity - 2
  PROVE  Answered(BadGateway(k, files), q) /\ BadGateway(k, files).state = "RESPONSE"
<1> DEFINE y == Lines(<<"502", "date">>) \o Blank
           h == [k EXCEPT !.status = "502", !.headers = y, !.buf = Clear(@)]
           r == BadGateway(k, files)
<1>1. DOMAIN h = Fields /\ h.headers = y /\ h.body = <<>> /\ h.stream = k.stream
  <2> HIDE DEF y
  <2> QED
    BY DEF Begun, Shaped, Silent, Fields
<1>2. r = Respond(h, files)
  BY Zenon DEF BadGateway
<1>3. y \in Seq(STRING)
  <2>1. <<"502", "date">> \in Seq(STRING) /\ Blank \in Seq(STRING)
    BY WordsAssumption DEF Blank
  <2> QED
    BY <2>1, LinesTyped, Appended, Zenon
<1> HIDE DEF h
<1>4. r.plan = Rest(h, files) /\ r.state = "RESPONSE"
  <2> HIDE DEF r
  <2> QED
    BY <1>1, <1>2 DEF Respond, Fields
<1>5. Unread(h, files) = <<>>
  BY <1>1 DEF Unread
<1>6. Rest(h, files) = (y \o <<>>) \o <<>>
  BY <1>1, <1>5, Zenon DEF Rest
<1>7. (y \o <<>>) \o <<>> = y
  <2> HIDE DEF y
  <2> QED
    BY <1>3
<1>8. y = NoGateway
  BY Zenon DEF NoGateway
<1> HIDE DEF y, r
<1>9. Answered(r, q)
  BY <1>4, <1>6, <1>7, <1>8, Zenon DEF Answered
<1> QED
  BY <1>4, <1>9 DEF r

\* What comes from a script changes nothing of whether it was cleanly begun.
LEMMA OutputClean ==
  ASSUME NEW k, DOMAIN k = Fields, k.state \in {"CGI_HEADERS", "CGI_BODY"},
         NEW q, NEW n, NEW eof, NEW files
  PROVE  LET r == handle_cgi_output(k, q, n, eof, files)
         IN r.clean = k.clean /\ r.state \in {"CGI_HEADERS", "CGI_BODY", "RESPONSE"}
<1> DEFINE filled == [k EXCEPT !.buf = Fill(@, SubSeq(q.output, k.heard + 1, k.heard + n)),
                               !.heard = @ + n]
           begun == IF k.state = "CGI_HEADERS" THEN BeginBody(filled) ELSE filled
           spooled == SpoolBody(begun)
           r == handle_cgi_output(k, q, n, eof, files)
           Same(h) == DOMAIN h = Fields /\ h.clean = k.clean /\ h.state \in {"CGI_HEADERS", "CGI_BODY"}
<1>1. Same(filled)
  BY DEF Fields
<1>2. \/ r = BadGateway(filled, files)
      \/ r = filled
      \/ r = finalize_cgi(spooled, files)
      \/ r = spooled
  BY Zenon DEF handle_cgi_output
<1> HIDE DEF filled, r
<1>3. Same(BeginBody(filled))
  BY <1>1 DEF BeginBody, Fields
<1>4. Same(begun)
  <2> HIDE DEF Same
  <2> QED
    BY <1>1, <1>3, Zenon
<1> HIDE DEF begun
<1>5. Same(spooled)
  BY <1>4 DEF SpoolBody, Fields
<1> HIDE DEF spooled
<1>6. BadGateway(filled, files).clean = k.clean /\ BadGateway(filled, files).state = "RESPONSE"
  BY <1>1 DEF BadGateway, Respond, Fields
<1>7. finalize_cgi(spooled, files).clean = k.clean /\ finalize_cgi(spooled, files).state = "RESPONSE"
  BY <1>5 DEF finalize_cgi, Respond, Fields
<1> QED
  BY <1>1, <1>2, <1>5, <1>6, <1>7 DEF r

\* What was heard of a script that was cleanly begun is kept whole.
LEMMA OutputHears ==
  ASSUME NEW q \in Requests, NEW k, NEW files, Begun(k, q, files), Hears(k, q),
         k.state \in {"CGI_HEADERS", "CGI_BODY"}, k.buf.capacity = Capacity,
         NEW n \in 0..Len(q.output) - k.heard,
         IF FillCapacity(k.buf) > 1
         THEN n <= FillCapacity(k.buf) /\ (n = 0 => Len(q.output) - k.heard = 0)
         ELSE n = 0
  PROVE  Hears(handle_cgi_output(k, q, n, FillCapacity(k.buf) > 1 /\ n = 0, files), q)
<1> DEFINE o == q.output
           m == k.heard + n
           x == SubSeq(o, k.heard + 1, m)
           filled == [k EXCEPT !.buf = Fill(@, x), !.heard = @ + n]
           d == filled.buf.data
           begun == IF k.state = "CGI_HEADERS" THEN BeginBody(filled) ELSE filled
           spooled == SpoolBody(begun)
           eof == FillCapacity(k.buf) > 1 /\ n = 0
           r == handle_cgi_output(k, q, n, eof, files)
<1>1. CASE ~k.clean
  <2>1. r.clean = k.clean /\ r.state \in {"CGI_HEADERS", "CGI_BODY", "RESPONSE"}
    BY OutputClean DEF Begun, Shaped
  <2> HIDE DEF r
  <2>2. Hears(r, q)
    BY <1>1, <2>1 DEF Hears
  <2> QED
    BY <2>2 DEF r
<1>2. CASE k.clean
  <2>1. /\ DOMAIN filled = Fields /\ filled.buf = Fill(k.buf, x) /\ filled.headers = k.headers
        /\ filled.body = k.body /\ filled.temp = k.temp /\ filled.answer = k.answer
        /\ filled.status = k.status /\ filled.heard = m /\ filled.stream = k.stream
        /\ filled.state = k.state
    <3> HIDE DEF x
    <3> QED
      BY DEF Begun, Shaped, Fields
  <2>2. /\ o \in Seq(STRING) /\ Len(o) \in Nat /\ k.heard \in Nat /\ n \in Nat /\ k.heard <= Len(o)
        /\ m \in 0..Len(o) /\ k.heard + 1 \in Nat /\ k.heard + 1 > 0 /\ m \in Nat /\ m <= Len(o)
        /\ k.heard <= m
    <3>1. o \in Seq(STRING)
      BY DEF Requests
    <3>2. k.heard \in 0..Len(o) /\ Len(o) \in Nat
      BY <3>1 DEF Begun, Shaped
    <3> QED
      BY <3>1, <3>2
  <2>3. x \in Seq(STRING)
    <3> HIDE DEF m, o
    <3> QED
      BY <2>2, Piece
  <2>4. d = k.buf.data \o x /\ filled.buf.writepos = k.buf.writepos /\ filled.buf.capacity = Capacity
    <3>1. /\ Fill(k.buf, x).data = k.buf.data \o x /\ Fill(k.buf, x).writepos = k.buf.writepos
          /\ Fill(k.buf, x).capacity = k.buf.capacity
      <4> HIDE DEF x
      <4> QED
        BY DEF Fill, Begun, Shaped, Solid, BufferFields
    <3> HIDE DEF filled, x
    <3> QED
      BY <2>1, <3>1
  <2>5. Solid(Fill(k.buf, x))
    BY <2>3, SolidFill DEF Begun, Shaped
  <2> HIDE DEF x, filled
  <2>6. Begun(filled, q, files)
    BY <2>1, <2>2, <2>5, Zenon DEF Begun, Shaped, Silent
  <2>7. /\ k.heard \in Nat /\ SubSeq(o, 0 + 1, k.heard) \o x = SubSeq(o, 0 + 1, m)
    <3> HIDE DEF o, m
    <3>1. 0 \in Nat /\ 0 <= k.heard
      BY <2>2
    <3>2. SubSeq(o, 0 + 1, k.heard) \o SubSeq(o, k.heard + 1, m) = SubSeq(o, 0 + 1, m)
      BY <2>2, <3>1, Adjacent, Zenon
    <3> QED
      BY <2>2, <3>2, Zenon DEF x
  <2>8. FillCapacity(k.buf) = Capacity - Len(k.buf.data) - 1 /\ FillCapacity(filled.buf) = Capacity - Len(d) - 1
    BY <2>4, Zenon DEF FillCapacity
  <2>9. r.clean = k.clean
    BY OutputClean DEF Begun, Shaped
  <2>10. ASSUME eof PROVE m = Len(o)
    BY <2>2, <2>10
  <2>11. r = IF k.state = "CGI_HEADERS" /\ HeadEnd(d) = 0
            THEN IF eof \/ FillCapacity(filled.buf) <= 1 THEN BadGateway(filled, files) ELSE filled
            ELSE IF eof THEN finalize_cgi(spooled, files) ELSE spooled
    BY Zenon DEF handle_cgi_output, filled, x
  \* The head was there, or it is now.
  <2>12. ASSUME Spools(begun, q), Begun(begun, q, files), begun.state = "CGI_BODY", begun.heard = m,
                begun.clean = k.clean,
                r = IF eof THEN finalize_cgi(spooled, files) ELSE spooled
         PROVE  Hears(r, q)
    <3> HIDE DEF begun, d
    <3>1. /\ Spools(spooled, q) /\ spooled.buf.data = <<>> /\ spooled.heard = m
          /\ spooled.clean = k.clean
      BY <2>12, SpoolBodySpools
    <3>2. Begun(spooled, q, files) /\ spooled.state = "CGI_BODY"
      BY <2>12, SpoolBodyBegun
    <3> HIDE DEF spooled, r
    <3>3. ASSUME eof PROVE Answered(finalize_cgi(spooled, files), q) /\ finalize_cgi(spooled, files).state = "RESPONSE"
      <4>1. spooled.heard = Len(q.output)
        BY <2>10, <3>1, <3>3
      <4> QED
        BY <3>1, <3>2, <4>1, FinalizeAnswers
    <3> HIDE DEF eof
    <3>4. CASE eof
      <4>1. r.state = "RESPONSE" /\ Answered(r, q)
        BY <2>12, <3>3, <3>4, Zenon
      <4> QED
        BY <4>1 DEF Hears
    <3>5. CASE ~eof
      <4>1. r.state = "CGI_BODY" /\ Spools(r, q)
        BY <2>12, <3>1, <3>2, <3>5, Zenon
      <4> QED
        BY <4>1 DEF Hears
    <3> QED
      BY <3>4, <3>5
  <2>13. CASE k.state = "CGI_BODY"
    <3>1. Spools(k, q)
      BY <1>2, <2>13 DEF Hears
    <3>2. begun = filled /\ r = IF eof THEN finalize_cgi(spooled, files) ELSE spooled
      <4> HIDE DEF r, spooled, eof, d
      <4> QED
        BY <2>11, <2>13
    <3>3. k.temp \in Seq(STRING) /\ k.buf.data \in Seq(STRING)
      BY DEF Begun, Shaped, Solid
    <3> DEFINE N == HeadEnd(o)
    <3>4. N \in Nat /\ N <= k.heard /\ k.temp \o k.buf.data = SubSeq(o, N + 1, k.heard)
      <4> HIDE DEF o
      <4>1. o = q.output
        BY DEF o
      <4> QED
        BY <3>1, <4>1, TransferAssumption DEF Spools
    <3>5. filled.temp \o d = SubSeq(o, N + 1, m)
      <4>1. filled.temp \o d = k.temp \o (k.buf.data \o x)
        BY <2>1, <2>4, Zenon
      <4>2. k.temp \o (k.buf.data \o x) = (k.temp \o k.buf.data) \o x
        BY <2>3, <3>3, Associative
      <4>3. SubSeq(o, N + 1, k.heard) \o SubSeq(o, k.heard + 1, m) = SubSeq(o, N + 1, m)
        <5> HIDE DEF o, m, N
        <5> QED
          BY <2>2, <3>4, Adjacent, Zenon
      <4> QED
        BY <3>4, <4>1, <4>2, <4>3, Zenon DEF x
    <3>6. N <= m
      <4> HIDE DEF N, m, o
      <4> QED
        BY <2>2, <3>4
    <3>7. Spools(filled, q)
      <4>1. /\ filled.stream.mode = "out" /\ filled.stream.file = "temp" /\ filled.stream.good = TRUE
            /\ filled.buf.writepos = 0 /\ HeadEnd(o) \in 1..Capacity - 1
            /\ filled.headers = Lines(<<ScriptStatus(o)>>) \o ScriptFields(o)
        BY <2>1, <2>4, <3>1, Zenon DEF Spools
      <4>2. HeadEnd(o) <= filled.heard
        BY <2>1, <3>6, Zenon
      <4>3. filled.temp \o filled.buf.data = SubSeq(o, HeadEnd(o) + 1, filled.heard)
        BY <2>1, <3>5, Zenon
      <4> QED
        BY <4>1, <4>2, <4>3, Zenon DEF Spools
    <3>8. filled.clean = k.clean
      <4> HIDE DEF o
      <4> QED
        BY DEF filled, Begun, Shaped, Fields
    <3>9. Hears(r, q)
      <4> HIDE DEF r, spooled
      <4> QED
        BY <2>1, <2>6, <2>12, <2>13, <3>2, <3>7, <3>8, Zenon
    <3> QED
      BY <3>9 DEF r
  <2>14. CASE k.state = "CGI_HEADERS"
    <3>1. Listens(k, q)
      BY <1>2, <2>14 DEF Hears
    <3>2. d = SubSeq(o, 1, m)
      <4>1. k.buf.data = SubSeq(o, 0 + 1, k.heard)
        BY <3>1 DEF Listens
      <4>2. d = SubSeq(o, 0 + 1, m)
        BY <2>4, <2>7, <4>1, Zenon
      <4> QED
        BY <4>2
    <3>3. Len(d) = m /\ Len(k.buf.data) = k.heard
      <4>1. Len(d) = m
        BY <2>2, <3>2, Prefix
      <4>2. Len(k.buf.data) = k.heard
        BY <2>2, <3>1, Prefix DEF Listens
      <4> QED
        BY <4>1, <4>2
    <3>4. m < Capacity /\ Capacity \in Nat /\ k.heard < Capacity
      <4>1. k.heard < Capacity
        BY <3>1 DEF Listens
      <4>2. Capacity \in Nat /\ FillCapacity(k.buf) = Capacity - k.heard - 1
        BY <2>8, <3>3, TransferAssumption
      <4>3. k.heard \in Nat /\ n \in Nat /\ m = k.heard + n
        BY <2>2
      <4> HIDE DEF d, o, m
      <4>4. CASE FillCapacity(k.buf) > 1
        <5>1. n <= FillCapacity(k.buf)
          BY <4>4
        <5> QED
          BY <4>1, <4>2, <4>3, <5>1
      <4>5. CASE ~(FillCapacity(k.buf) > 1)
        <5>1. n = 0
          BY <4>5
        <5> QED
          BY <4>1, <4>2, <4>3, <5>1
      <4> QED
        BY <4>4, <4>5
    <3>5. filled.stream.mode = "none" /\ filled.buf.writepos = 0
      BY <2>1, <2>4, <3>1, Zenon DEF Listens
    <3>6. /\ HeadEnd(d) # 0 => HeadEnd(o) = HeadEnd(d)
          /\ HeadEnd(d) = 0 => HeadEnd(o) \notin 1..m
          /\ HeadEnd(d) \in 0..m
      BY <2>2, <3>2, PrefixHead
    <3>7. CASE HeadEnd(d) # 0
      <4>1. begun = BeginBody(filled) /\ r = IF eof THEN finalize_cgi(spooled, files) ELSE spooled
        <5> HIDE DEF r, spooled, eof, d
        <5> QED
          BY <2>11, <2>14, <3>7
      <4>2. Spools(BeginBody(filled), q)
        <5>1. filled.heard < Capacity /\ filled.buf.data = SubSeq(q.output, 1, filled.heard)
          BY <2>1, <3>2, <3>4, Zenon
        <5> QED
          BY <2>6, <3>5, <3>7, <5>1, BeginBodySpools
      <4>3. Begun(BeginBody(filled), q, files) /\ BeginBody(filled).state = "CGI_BODY"
        BY <2>6, BeginBodyBegun
      <4>4. BeginBody(filled).heard = m /\ BeginBody(filled).clean = k.clean
        <5>1. filled.clean = k.clean
          <6> HIDE DEF o
          <6> QED
            BY DEF filled, Begun, Shaped, Fields
        <5> QED
          BY <2>1, <5>1 DEF BeginBody, Fields
      <4>5. Hears(r, q)
        <5> HIDE DEF r, spooled
        <5> QED
          BY <2>12, <4>1, <4>2, <4>3, <4>4, Zenon
      <4> QED
        BY <4>5 DEF r
    <3>8. CASE HeadEnd(d) = 0
      <4>1. r = IF eof \/ FillCapacity(filled.buf) <= 1 THEN BadGateway(filled, files) ELSE filled
        <5> HIDE DEF r, spooled, begun, eof, d
        <5> QED
          BY <2>11, <2>14, <3>8
      <4>2. ASSUME eof \/ FillCapacity(filled.buf) <= 1 PROVE HeadEnd(o) \notin 1..Capacity - 2
        <5> DEFINE N == HeadEnd(o)
        <5>1. N \notin 1..m
          BY <3>6, <3>8
        <5>2. N \in 0..Len(o)
          BY <2>2, HeadEndIs
        <5>3. m = Len(o) \/ m >= Capacity - 2
          <6>1. CASE eof
            BY <2>10, <6>1
          <6>2. CASE FillCapacity(filled.buf) <= 1
            <7> HIDE DEF d, o, m
            <7> QED
              BY <2>2, <2>8, <3>3, <3>4, <6>2
          <6> HIDE DEF eof
          <6> QED
            BY <4>2, <6>1, <6>2
        <5> HIDE DEF N, m, o
        <5>4. N \notin 1..Capacity - 2
          BY <2>2, <3>4, <5>1, <5>2, <5>3
        <5> QED
          BY <5>4 DEF N
      <4>3. CASE eof \/ FillCapacity(filled.buf) <= 1
        <5>1. Answered(BadGateway(filled, files), q) /\ BadGateway(filled, files).state = "RESPONSE"
          BY <2>6, <3>5, <4>2, <4>3, GivenUpAnswers
        <5> HIDE DEF r, eof
        <5>2. r.state = "RESPONSE" /\ Answered(r, q)
          BY <4>1, <4>3, <5>1, Zenon
        <5>3. Hears(r, q)
          BY <5>2 DEF Hears
        <5> QED
          BY <5>3 DEF r, eof
      <4>4. CASE ~(eof \/ FillCapacity(filled.buf) <= 1)
        <5>1. Listens(filled, q)
          <6> HIDE DEF m
          <6> QED
            BY <2>1, <3>2, <3>4, <3>5, <3>8, Zenon DEF Listens
        <5> HIDE DEF r, eof
        <5>2. r = filled
          BY <4>1, <4>4, Zenon
        <5>3. Hears(r, q)
          BY <2>1, <2>14, <5>1, <5>2 DEF Hears
        <5> QED
          BY <5>3 DEF r, eof
      <4> HIDE DEF r, eof
      <4>5. Hears(r, q)
        BY <4>3, <4>4 DEF r, eof
      <4> QED
        BY <4>5 DEF r, eof
    <3> HIDE DEF r, d
    <3> QED
      BY <3>7, <3>8 DEF r
  <2> HIDE DEF r
  <2>15. Hears(r, q)
    BY <2>13, <2>14 DEF r
  <2> QED
    BY <2>15 DEF r
<1> HIDE DEF r
<1> QED
  BY <1>1, <1>2 DEF r

\* Filling the buffer leaves the answer that was decided.
LEMMA RefilledHears ==
  ASSUME NEW k, DOMAIN k = Fields, NEW files
  PROVE  /\ Refilled(k, files).plan = k.plan /\ Refilled(k, files).clean = k.clean
         /\ DOMAIN Refilled(k, files) = Fields
<1> DEFINE Same(r) == DOMAIN r = Fields /\ r.plan = k.plan /\ r.clean = k.clean
<1>1. Same(k) /\ Same([k EXCEPT !.buf = Clear(@)])
  BY DEF Fields
<1>2. ASSUME NEW h, Same(h) PROVE Same(BufferHeaders(h))
  BY <1>2 DEF BufferHeaders, Fields
<1>3. ASSUME NEW h, Same(h) PROVE Same(BufferBody(h))
  BY <1>3 DEF BufferBody, Fields
<1>4. ASSUME NEW h, Same(h) PROVE Same(BufferFile(h, files))
  BY <1>4 DEF BufferFile, Fields
<1>5. \/ Refilled(k, files) = k
      \/ Refilled(k, files) =
            BufferBody(BufferFile(BufferHeaders([k EXCEPT !.buf = Clear(@)]), files))
  BY Zenon DEF Refilled, fill_res_buffer
<1>6. Same(Refilled(k, files))
  <2> HIDE DEF Same
  <2> QED
    BY <1>1, <1>2, <1>3, <1>4, <1>5, Zenon
<1> QED
  BY <1>6

LEMMA ResponseHears ==
  ASSUME NEW q, NEW k, DOMAIN k = Fields, Hears(k, q), k.state = "RESPONSE", NEW files, NEW n, NEW end
  PROVE  LET h == Refilled(k, files)
         IN /\ Hears(Delete(h, end), q)
            /\ Hears([h EXCEPT !.answer = @ \o SubSeq(Unfed(h.buf), 1, n), !.buf = Feed(@, n)], q)
<1> DEFINE h == Refilled(k, files)
           x == Unfed(h.buf)
           y == SubSeq(x, 1, n)
           r == [h EXCEPT !.answer = @ \o y, !.buf = Feed(@, n)]
<1>1. DOMAIN h = Fields /\ h.plan = k.plan /\ h.clean = k.clean /\ h.state = k.state
  BY RefilledHears, RefilledKeeps
<1> HIDE DEF h, y
<1>2. Delete(h, end).state = "CLOSED"
  BY <1>1 DEF Delete, Fields
<1>3. r.plan = k.plan /\ r.clean = k.clean /\ r.state = "RESPONSE"
  BY <1>1 DEF Fields
<1> HIDE DEF r
<1>4. Hears(Delete(h, end), q)
  BY <1>2 DEF Hears
<1>5. Hears(r, q)
  BY <1>3, Zenon DEF Hears, Answered
<1> QED
  BY <1>4, <1>5 DEF r, y, x, h

LEMMA ClosedHears ==
  ASSUME NEW q, NEW k
  PROVE  Hears(Drop(k), q) /\ Hears(Fresh, q)
<1>1. Drop(k).clean = FALSE /\ Fresh.clean = FALSE
  BY DEF Drop, Fresh
<1> QED
  BY <1>1, DeafHears, Zenon

LEMMA TornHears ==
  ASSUME NEW q, NEW k, DOMAIN k = Fields, Hears(k, q)
  PROVE  Hears([k EXCEPT !.torn = TRUE], q)
<1> DEFINE r == [k EXCEPT !.torn = TRUE]
<1>1. /\ r.state = k.state /\ r.buf = k.buf /\ r.headers = k.headers /\ r.stream = k.stream
      /\ r.temp = k.temp /\ r.heard = k.heard /\ r.clean = k.clean /\ r.plan = k.plan
  BY DEF Fields
<1> HIDE DEF r
<1>2. Hears(r, q)
  BY <1>1, Zenon DEF Hears, Listens, Spools, Answered
<1> QED
  BY <1>2 DEF r

\* While a script is heard, no upload is open.
LEMMA FlushHears ==
  ASSUME NEW q, NEW k, DOMAIN k = Fields, Hears(k, q), Writes(k.stream), NEW n
  PROVE  Hears([k EXCEPT !.stream.pos = @ + n, !.stream.pending = SubSeq(@, n + 1, Len(@))], q)
<1> DEFINE r == [k EXCEPT !.stream.pos = @ + n, !.stream.pending = SubSeq(@, n + 1, Len(@))]
<1>1. r.state = k.state /\ r.clean = k.clean /\ r.plan = k.plan
  BY DEF Fields
<1> HIDE DEF r
<1>2. ~Listens(k, q) /\ ~Spools(k, q)
  BY DEF Writes, Listens, Spools
<1>3. Hears(r, q)
  BY <1>1, <1>2, Zenon DEF Hears, Answered
<1> QED
  BY <1>3 DEF r

AllHeard == \A c \in Present : Hears(conn[c], asked[c])

LEMMA InitHeard == TransferInit => AllHeard
<1> SUFFICES ASSUME TransferInit PROVE AllHeard
  OBVIOUS
<1>1. \A c \in Present : conn[c] = Fresh
  BY DEF TransferInit
<1> QED
  BY <1>1, ClosedHears, Zenon DEF AllHeard

LEMMA SetHeard ==
  ASSUME AnswersOwed, AllHeard, NEW c \in Present, NEW k, Hears(k, asked[c]), NEW files, Set(c, k, files)
  PROVE  AllHeard'
<1>1. asked' = asked /\ conn'[c] = k
  BY DEF Set
<1>2. ASSUME NEW d \in Present, d # c PROVE Hears(conn'[d], asked[d])
  <2>1. Hears(conn[d], asked[d]) /\ DOMAIN conn[d] = Fields
    BY DEF AllHeard, AnswersOwed, Owes, Shaped
  <2>2. conn'[d] = [conn[d] EXCEPT !.torn = TRUE] \/ conn'[d] = conn[d]
    BY <1>2, Zenon DEF Set
  <2>3. Hears([conn[d] EXCEPT !.torn = TRUE], asked[d])
    BY <2>1, TornHears
  <2> QED
    BY <2>1, <2>2, <2>3
<1>3. \A d \in Present : Hears(conn'[d], asked[d])
  BY <1>1, <1>2
<1> QED
  BY <1>1, <1>3 DEF AllHeard, Present

LEMMA StepHeard ==
    BodiesInOrder /\ AnswersOwed /\ AllWhole /\ AllHeard /\ [TransferNext]_vars => AllHeard'
<1> SUFFICES ASSUME BodiesInOrder, AnswersOwed, AllWhole, AllHeard, [TransferNext]_vars PROVE AllHeard'
  OBVIOUS
<1>1. CASE UNCHANGED vars
  BY <1>1 DEF vars, AllHeard, Present
<1>2. ASSUME NEW c \in Present,
             \/ Handle(c) \/ CloseSide(c) \/ CloseStdin(c) \/ Timeout(c) \/ Leave(c) \/ Flush(c)
      PROVE  AllHeard'
  <2> DEFINE k == conn[c]
             q == asked[c]
  <2>1. /\ q \in Requests /\ Shaped(k, q, disk) /\ Filed(disk) /\ Hears(k, q) /\ DOMAIN k = Fields
        /\ k.state \notin {"RESPONSE", "CLOSED"} => Begun(k, q, disk)
        /\ k.state \in {"REQ_LINE", "REQ_HEADERS"} => Reads(k, q)
    BY DEF BodiesInOrder, InOrder, AnswersOwed, Owes, Begun, Shaped, AllHeard
  <2>2. k.state \in {"REQ_LINE", "REQ_HEADERS", "REQ_BODY", "DISCARD_BODY", "CGI_TRANSMIT_BODY"}
           => k.clean = FALSE
    BY <2>1 DEF Hears
  <2>3. ASSUME NEW r, Hears(r, q), Become(c, r) PROVE AllHeard'
    BY <2>3, SetHeard DEF Become
  <2>4. Hears(Drop(k), q)
    BY ClosedHears
  \* A connection that reads has its buffer in order.
  <2>5. /\ k.state \in {"REQ_LINE", "REQ_HEADERS", "REQ_BODY", "CGI_TRANSMIT_BODY"} => Orderly(k.buf)
        /\ k.state \in {"CGI_HEADERS", "CGI_BODY"} => k.buf.capacity = Capacity
    <3>1. InOrder(k, q) /\ Whole(k)
      BY DEF BodiesInOrder, AllWhole
    <3> HIDE DEF k, q
    <3>2. Reads(k, q) => Orderly(k.buf)
      BY DEF Reads, Lastly, Orderly
    <3>3. k.state \in {"CGI_HEADERS", "CGI_BODY"} => k.buf.capacity = Capacity
      BY <3>1 DEF Whole, Ready, Roomy
    <3>4. k.state \in {"REQ_BODY", "CGI_TRANSMIT_BODY"} => Orderly(k.buf)
      BY <3>1 DEF InOrder, Passes
    <3> QED
      BY <2>1, <3>2, <3>3, <3>4
  <2>6. CASE HandleHead(c)
    <3>1. k.state \in {"REQ_LINE", "REQ_HEADERS"}
      BY <2>6 DEF HandleHead
    <3>2. PICK n \in Readable(c, FillCapacity(k.buf)) : Become(c, handle_head(k, q, n, disk))
      BY <2>6 DEF HandleHead
    <3>3. n \in Nat /\ k.taken + n <= Len(Sent(q))
      <4>1. Len(Sent(q)) \in Nat /\ k.taken \in Nat
        BY <2>1, <3>1, SentIs DEF Reads
      <4>2. n \in 1..Len(Sent(q)) - k.taken
        BY DEF Readable
      <4> HIDE DEF k, q
      <4> QED
        BY <4>1, <4>2
    <3> HIDE DEF k, q
    <3>4. Hears(handle_head(k, q, n, disk), q)
      BY <2>1, <2>2, <3>1, <3>3, HeadHears
    <3> QED
      BY <2>3, <3>2, <3>4, Zenon
  <2>7. CASE HandleDiscard(c) \/ CloseSide(c)
    <3>1. PICK n : k.state = "DISCARD_BODY" /\ Become(c, handle_discard(k, q, n, disk))
      BY <2>7, Zenon DEF HandleDiscard, CloseSide
    <3> HIDE DEF k, q
    <3>2. Hears(handle_discard(k, q, n, disk), q)
      BY <2>1, <2>2, <3>1, BodyHears
    <3> QED
      BY <2>3, <3>1, <3>2, Zenon
  <2>8. CASE HandleBody(c)
    <3>1. PICK n :
             /\ k.state = "REQ_BODY"
             /\ Become(c, IF q.route = "script" THEN read_cgi_body(k, q, n) ELSE handle_post(k, q, n, disk))
      BY <2>8, Zenon DEF HandleBody
    <3> HIDE DEF k, q
    <3>2. Hears(handle_post(k, q, n, disk), q) /\ Hears(read_cgi_body(k, q, n), q)
      BY <2>1, <2>2, <3>1, BodyHears
    <3> QED
      BY <2>3, <3>1, <3>2, Zenon
  <2>9. CASE HandleCgiInput(c)
    <3>1. PICK n : k.state = "CGI_TRANSMIT_BODY" /\ Become(c, handle_cgi_input(k, q, n))
      BY <2>9, Zenon DEF HandleCgiInput
    <3> HIDE DEF k, q
    <3>2. Hears(handle_cgi_input(k, q, n), q)
      BY <2>1, <2>2, <2>5, <3>1, InputHears DEF Deaf
    <3> QED
      BY <2>3, <3>1, <3>2, Zenon
  <2>10. CASE HandleCgiOutput(c)
    <3> DEFINE room == FillCapacity(k.buf)
               left == Len(q.output) - k.heard
    <3>1. k.state \in {"CGI_HEADERS", "CGI_BODY"}
      BY <2>10 DEF HandleCgiOutput
    <3>2. PICK n \in 0..left :
             /\ IF room > 1 THEN n <= room /\ (n = 0 => left = 0) ELSE n = 0
             /\ Become(c, handle_cgi_output(k, q, n, room > 1 /\ n = 0, disk))
      BY <2>10, Zenon DEF HandleCgiOutput
    <3> HIDE DEF k, q
    <3>3. Hears(handle_cgi_output(k, q, n, room > 1 /\ n = 0, disk), q)
      BY <2>1, <2>5, <3>1, <3>2, OutputHears
    <3> QED
      BY <2>3, <3>2, <3>3, Zenon
  <2>11. CASE HandleResponse(c)
    <3> DEFINE h == Refilled(k, disk)
               x == IF Finished(h) THEN "sent" ELSE "stuck"
    <3>1. k.state = "RESPONSE"
      BY <2>11 DEF HandleResponse
    <3>2. \/ Become(c, Delete(h, x))
          \/ \E n : Become(c, [h EXCEPT !.answer = @ \o SubSeq(Unfed(h.buf), 1, n), !.buf = Feed(@, n)])
      BY <2>11, Zenon DEF HandleResponse
    <3> HIDE DEF k, q, x
    <3>3. /\ Hears(Delete(h, x), q)
          /\ \A n : Hears([h EXCEPT !.answer = @ \o SubSeq(Unfed(h.buf), 1, n), !.buf = Feed(@, n)], q)
      BY <2>1, <3>1, ResponseHears
    <3> HIDE DEF h
    <3> QED
      BY <2>3, <3>2, <3>3, Zenon
  <2>12. CASE CloseStdin(c)
    <3>1. k.state = "CGI_TRANSMIT_BODY" /\ Become(c, Collect(k))
      BY <2>12 DEF CloseStdin
    <3> HIDE DEF k, q
    <3>2. Hears(Collect(k), q)
      BY <2>1, <2>5, <3>1, CollectHears
    <3> QED
      BY <2>3, <3>1, <3>2, Zenon
  <2>13. CASE Timeout(c)
    <3> DEFINE late == [k EXCEPT !.status = "408"]
    <3>1. \/ /\ k.state \in {"REQ_LINE", "REQ_HEADERS", "REQ_BODY"}
             /\ Become(c, handle_setup(late, q, disk))
          \/ k.state = "DISCARD_BODY" /\ Become(c, AnswerPage(k, disk))
          \/ Become(c, Drop(k))
      BY <2>13, Zenon DEF Timeout
    <3> HIDE DEF k, q
    <3>2. CASE k.state \in {"REQ_LINE", "REQ_HEADERS", "REQ_BODY"} /\ Become(c, handle_setup(late, q, disk))
      <4>1. DOMAIN late = Fields /\ late.buf = k.buf /\ late.clean = k.clean
        BY <2>1 DEF Fields
      <4> HIDE DEF late
      <4>2. Deaf(late)
        BY <2>2, <2>5, <3>2, <4>1 DEF Deaf
      <4>3. Hears(handle_setup(late, q, disk), q)
        BY <2>1, <4>2, SetupHears
      <4> QED
        BY <2>3, <3>2, <4>3, Zenon
    <3>3. CASE k.state = "DISCARD_BODY" /\ Become(c, AnswerPage(k, disk))
      <4>1. AnswerPage(k, disk).clean = FALSE
        BY <2>1, <2>2, <3>3, AnswersDeaf
      <4>2. Hears(AnswerPage(k, disk), q)
        BY <4>1, DeafHears
      <4> QED
        BY <2>3, <3>3, <4>2, Zenon
    <3>4. CASE Become(c, Drop(k))
      BY <2>3, <2>4, <3>4, Zenon
    <3> HIDE DEF late
    <3> QED
      BY <3>1, <3>2, <3>3, <3>4 DEF late
  <2>14. CASE Leave(c)
    <3>1. Become(c, Drop(k))
      BY <2>14 DEF Leave
    <3> HIDE DEF k, q
    <3> QED
      BY <2>3, <2>4, <3>1, Zenon
  <2>15. CASE Flush(c)
    <3> DEFINE s == k.stream
    <3>1. Writes(s)
      BY <2>15 DEF Flush
    <3>2. PICK n \in 1..Len(s.pending) :
             Set(c, [k EXCEPT !.stream.pos = @ + n, !.stream.pending = SubSeq(@, n + 1, Len(@))],
                 [disk EXCEPT ![s.file] = Overlay(@, s.pos, SubSeq(s.pending, 1, n))])
      BY <2>15 DEF Flush
    <3> DEFINE r == [k EXCEPT !.stream.pos = @ + n, !.stream.pending = SubSeq(@, n + 1, Len(@))]
               files == [disk EXCEPT ![s.file] = Overlay(@, s.pos, SubSeq(s.pending, 1, n))]
    <3>3. Hears(r, q)
      <4> HIDE DEF k, q
      <4> QED
        BY <2>1, <3>1, FlushHears
    <3>4. Set(c, r, files)
      BY <3>2
    <3> HIDE DEF k, r, files
    <3> QED
      BY <3>3, <3>4, SetHeard DEF q
  <2> QED
    BY <1>2, <2>6, <2>7, <2>8, <2>9, <2>10, <2>11, <2>12, <2>13, <2>14, <2>15 DEF Handle
<1> QED
  BY <1>1, <1>2 DEF TransferNext

LEMMA HeardSaysSo == AllHeard => ScriptAnswers
<1> SUFFICES ASSUME AllHeard, NEW c \in Present, conn[c].state = "RESPONSE", conn[c].clean
             PROVE  AnswersScript(c)
  BY DEF ScriptAnswers
<1>1. Answered(conn[c], asked[c])
  BY DEF AllHeard, Hears
<1> QED
  BY <1>1, Zenon DEF Answered, AnswersScript

\* Whatever a script writes, the size of the buffer and the reads it comes by: the
\* answer is made of all of it in one piece, its header lines first, or is a 502
\* when the end of its head is missing or leaves no room in the buffer, if the
\* buffer was empty and no stream open when the script was first listened to
\* (handle_cgi_output(), parse_cgi_headers() and finalize_cgi()).
THEOREM ScriptsAnswerWhole == TransferSpec => []ScriptAnswers
<1>1. TransferInit => BodiesInOrder /\ AnswersOwed /\ AllWhole /\ AllHeard
  BY InitInOrder, InitOwes, InitWhole, InitHeard
<1>2. BodiesInOrder /\ AnswersOwed /\ AllWhole /\ AllHeard /\ [TransferNext]_vars
        => (BodiesInOrder /\ AnswersOwed /\ AllWhole /\ AllHeard)'
  BY StepInOrder, StepOwes, StepWhole, StepHeard
<1> QED
  BY <1>1, <1>2, HeardSaysSo, PTL DEF TransferSpec

-----------------------------------------------------------------------------
(* The types                                                                  *)

\* A buffer with room for the NUL after its bytes.
Room(b) ==
    /\ DOMAIN b = BufferFields
    /\ b.data \in Seq(STRING) /\ b.capacity \in Nat /\ Len(b.data) < b.capacity

\* The stream: closed, or open on a file or on the temporary one.
Streamed(s) ==
    /\ DOMAIN s = StreamFields
    /\ s.mode \in {"none", "in", "out"} /\ s.file \in Files \cup {"temp"}
    /\ s.mode = "none" => s.file = "temp"
    /\ s.eof \in BOOLEAN /\ s.good \in BOOLEAN

\* A connection, but for its buffer,
Kinds(k) ==
    /\ DOMAIN k = Fields
    /\ k.plan \in Seq(STRING) /\ k.written \in Nat
    /\ k.verdict \in STRING /\ k.end \in STRING
    /\ k.clean \in BOOLEAN /\ k.torn \in BOOLEAN
    /\ Streamed(k.stream)

\* and with it.
Fine(k) == Kinds(k) /\ Room(k.buf)

\* The inductive invariant of a connection.
Typed(k) ==
    /\ Kinds(k)
    /\ k.state \notin {"RESPONSE", "CLOSED"} => Room(k.buf)
    /\ k.state = "RESPONSE" => k.buf.capacity \in Nat /\ Len(k.buf.data) <= k.buf.capacity
    /\ k.state = "CLOSED" => k.buf.capacity \in Nat
    /\ k.state = "DISCARD_BODY" => k.buf.writepos = 0

\* Room is left by every operation on the buffer, if no more is filled in than it takes.
LEMMA RoomIs ==
  ASSUME NEW b, Room(b)
  PROVE  /\ Room(Clear(b)) /\ Clear(b).writepos = 0
         /\ \A n \in Nat : Room(Erase(b, n))
         /\ \A n : Room(Feed(b, n))
         /\ \A x \in Seq(STRING) : Len(x) <= FillCapacity(b) => Room(Fill(b, x))
<1> DEFINE d == b.data
<1>0. d \in Seq(STRING) /\ Len(d) \in Nat /\ b.capacity \in Nat /\ Len(d) < b.capacity
  BY DEF Room
<1>1. Room(Clear(b)) /\ Clear(b).writepos = 0
  <2>1. /\ DOMAIN Clear(b) = BufferFields /\ Clear(b).data = <<>> /\ Clear(b).capacity = b.capacity
        /\ Clear(b).writepos = 0
    BY DEF Clear, Room, BufferFields
  <2>2. Len(<<>>) = 0 /\ <<>> \in Seq(STRING)
    OBVIOUS
  <2>3. 0 < b.capacity
    <3> HIDE DEF d
    <3> QED
      BY <1>0
  <2> QED
    BY <1>0, <2>1, <2>2, <2>3, Zenon DEF Room
<1>2. ASSUME NEW n \in Nat PROVE Room(Erase(b, n))
  <2>1. /\ DOMAIN Erase(b, n) = BufferFields /\ Erase(b, n).data = SubSeq(d, n + 1, Len(d))
        /\ Erase(b, n).capacity = b.capacity
    BY Zenon DEF Erase, Room, BufferFields
  <2> DEFINE x == SubSeq(d, n + 1, Len(d))
  <2>2. x \in Seq(STRING) /\ Len(x) = IF n <= Len(d) THEN Len(d) - n ELSE 0
    BY <1>0, Dropped, Zenon
  <2>3. Len(x) < b.capacity
    <3> HIDE DEF x, d
    <3> QED
      BY <1>0, <2>2
  <2> HIDE DEF x
  <2> QED
    BY <1>0, <2>1, <2>2, <2>3, Zenon DEF Room, x
<1>3. ASSUME NEW n PROVE Room(Feed(b, n))
  <2>1. DOMAIN Feed(b, n) = BufferFields /\ Feed(b, n).data = d /\ Feed(b, n).capacity = b.capacity
    BY DEF Feed, Room, BufferFields
  <2> QED
    BY <2>1, Zenon DEF Room
<1>4. ASSUME NEW x \in Seq(STRING), Len(x) <= FillCapacity(b) PROVE Room(Fill(b, x))
  <2>1. DOMAIN Fill(b, x) = BufferFields /\ Fill(b, x).data = d \o x /\ Fill(b, x).capacity = b.capacity
    BY DEF Fill, Room, BufferFields
  <2>2. d \o x \in Seq(STRING) /\ Len(d \o x) = Len(d) + Len(x)
    BY <1>0, Appended, Zenon
  <2>3. FillCapacity(b) = b.capacity - Len(d) - 1
    BY Zenon DEF FillCapacity
  <2>4. Len(d \o x) < b.capacity
    <3> HIDE DEF d
    <3> QED
      BY <1>0, <1>4, <2>2, <2>3
  <2> QED
    BY <1>0, <2>1, <2>2, <2>4, Zenon DEF Room
<1> QED
  BY <1>1, <1>2, <1>3, <1>4

\* No stream, and one just opened.
LEMMA NewStream ==
  /\ Streamed(NoStream)
  /\ \A m \in {"in", "out"}, f \in Files \cup {"temp"} : Streamed(Stream(m, f))
<1>1. Streamed(NoStream)
  BY DEF Streamed, NoStream, StreamFields
<1>2. ASSUME NEW m \in {"in", "out"}, NEW f \in Files \cup {"temp"} PROVE Streamed(Stream(m, f))
  BY DEF Streamed, Stream, NoStream, StreamFields
<1> QED
  BY <1>1, <1>2

\* A connection in a state that is no end of it.
LEMMA FineTyped ==
  ASSUME NEW k, Fine(k), k.state = "DISCARD_BODY" => k.buf.writepos = 0
  PROVE  Typed(k)
<1>1. k.buf.capacity \in Nat /\ Len(k.buf.data) <= k.buf.capacity
  BY DEF Fine, Room
<1> QED
  BY <1>1, Zenon DEF Fine, Typed, Room

\* An answer is decided.
LEMMA RespondFine ==
  ASSUME NEW h, Fine(h), NEW q, NEW files, Filed(files), Shaped(Respond(h, files), q, files)
  PROVE  Fine(Respond(h, files)) /\ Respond(h, files).state = "RESPONSE"
<1> DEFINE r == Respond(h, files)
           rest == Rest(h, files)
<1>1. /\ DOMAIN r = Fields /\ r.state = "RESPONSE" /\ r.plan = rest
      /\ r.headers = h.headers /\ r.body = h.body /\ r.stream = h.stream /\ r.temp = h.temp
      /\ r.buf = h.buf /\ r.written = h.written /\ r.verdict = h.verdict /\ r.end = h.end
      /\ r.clean = h.clean /\ r.torn = h.torn
  <2> HIDE DEF rest
  <2>1. r = [h EXCEPT !.state = "RESPONSE", !.plan = rest]
    BY Zenon DEF Respond, rest
  <2> HIDE DEF r
  <2> QED
    BY <2>1 DEF Fine, Kinds, Fields
<1> HIDE DEF r
<1>2. Rest(r, files) \in Seq(STRING)
  BY RestTyped DEF r
<1>3. Rest(r, files) = rest
  BY <1>1, RestSame, Zenon
<1>4. Fine(r)
  BY <1>1, <1>2, <1>3, Zenon DEF Fine, Kinds
<1> QED
  BY <1>1, <1>4 DEF r

\* The lines of an answer are begun.
LEMMA HeadedFine ==
  ASSUME NEW k, Fine(k), NEW names
  PROVE  Fine(Headed(k, names))
<1> DEFINE l == Lines(<<k.status, "date">> \o names) \o Blank
           h == Headed(k, names)
<1>1. h = [k EXCEPT !.headers = l, !.buf = Clear(@), !.body = <<>>]
  BY Zenon DEF Headed
<1> HIDE DEF l, h
<1>2. /\ DOMAIN h = Fields /\ h.buf = Clear(k.buf) /\ h.stream = k.stream /\ h.plan = k.plan
      /\ h.written = k.written /\ h.verdict = k.verdict /\ h.end = k.end
      /\ h.clean = k.clean /\ h.torn = k.torn
  BY <1>1 DEF Fine, Kinds, Fields
<1>3. Fine(h)
  BY <1>2, RoomIs, Zenon DEF Fine, Kinds
<1> QED
  BY <1>3 DEF h

\* An answer made without a file of the site,
LEMMA AnswersFine ==
  ASSUME NEW k, Fine(k), NEW q \in Requests, NEW files, Filed(files), Begun(k, q, files)
  PROVE  /\ Fine(AnswerPage(k, files)) /\ AnswerPage(k, files).state = "RESPONSE"
         /\ Fine(AnswerUpload(k, files)) /\ AnswerUpload(k, files).state = "RESPONSE"
         /\ Fine(AnswerListing(k, q, files)) /\ AnswerListing(k, q, files).state = "RESPONSE"
<1>1. /\ Shaped(AnswerPage(k, files), q, files)
      /\ Shaped(AnswerUpload(k, files), q, files)
      /\ Shaped(AnswerListing(k, q, files), q, files)
  BY AnswersFit DEF Fits, Owes
<1>2. Fine(AnswerPage(k, files)) /\ AnswerPage(k, files).state = "RESPONSE"
  <2> DEFINE g == Headed(k, <<"length">>)
             h == [g EXCEPT !.body = <<"page", k.status>>]
  <2>1. AnswerPage(k, files) = Respond(h, files)
    BY Zenon DEF AnswerPage
  <2>2. Fine(g)
    BY HeadedFine
  <2> HIDE DEF g
  <2>3. /\ DOMAIN h = Fields /\ h.buf = g.buf /\ h.stream = g.stream /\ h.plan = g.plan
        /\ h.written = g.written /\ h.verdict = g.verdict /\ h.end = g.end
        /\ h.clean = g.clean /\ h.torn = g.torn
    BY <2>2 DEF Fine, Kinds, Fields
  <2> HIDE DEF h
  <2>4. Fine(h)
    BY <2>2, <2>3, Zenon DEF Fine, Kinds
  <2> QED
    BY <1>1, <2>1, <2>4, RespondFine, Zenon
<1>3. Fine(AnswerUpload(k, files)) /\ AnswerUpload(k, files).state = "RESPONSE"
  BY <1>1, HeadedFine, RespondFine, Zenon DEF AnswerUpload
<1>4. Fine(AnswerListing(k, q, files)) /\ AnswerListing(k, q, files).state = "RESPONSE"
  <2> DEFINE g == Headed(k, <<"length">>)
             t == Stream("in", "temp")
             h == [g EXCEPT !.temp = q.output, !.stream = t]
  <2>1. AnswerListing(k, q, files) = Respond(h, files)
    BY Zenon DEF AnswerListing
  <2>2. Fine(g)
    BY HeadedFine
  <2> HIDE DEF g, t
  <2>3. /\ DOMAIN h = Fields /\ h.buf = g.buf /\ h.stream = t /\ h.plan = g.plan
        /\ h.written = g.written /\ h.verdict = g.verdict /\ h.end = g.end
        /\ h.clean = g.clean /\ h.torn = g.torn
    BY <2>2 DEF Fine, Kinds, Fields
  <2>4. Streamed(t)
    BY NewStream DEF t
  <2> HIDE DEF h
  <2>5. Fine(h)
    BY <2>2, <2>3, <2>4, Zenon DEF Fine, Kinds
  <2> QED
    BY <1>1, <2>1, <2>5, RespondFine, Zenon
<1> QED
  BY <1>2, <1>3, <1>4

\* and one that is such a file.
LEMMA AnswerFileTyped ==
  ASSUME NEW k, Fine(k), NEW q \in Requests, NEW files, Filed(files), Begun(k, q, files),
         k.stream.mode = "none", NEW f \in DOMAIN files, f \in Files
  PROVE  Typed(AnswerFile(k, f, files))
<1>1. Shaped(AnswerFile(k, f, files), q, files)
  BY AnswersFit DEF Fits, Owes
<1>2. CASE f \in Locked
  <2> DEFINE page == Lines(<<"500">>) \o Blank
             b == SetData(page)
             r == [k EXCEPT !.state = "RESPONSE", !.plan = page, !.buf = b,
                            !.stream = NoStream, !.headers = <<>>, !.body = <<>>]
  <2>1. AnswerFile(k, f, files) = r
    BY <1>2, Zenon DEF AnswerFile, InternalError
  <2>2. page \in Seq(STRING)
    <3>1. <<"500">> \in Seq(STRING) /\ Blank \in Seq(STRING)
      BY WordsAssumption DEF Blank
    <3> QED
      BY <3>1, LinesTyped, Appended, Zenon
  <2>3. b.data = page /\ b.capacity = Len(page)
    BY DEF SetData
  <2> HIDE DEF page, b
  <2>4. /\ DOMAIN r = Fields /\ r.state = "RESPONSE" /\ r.plan = page /\ r.buf = b
        /\ r.stream = NoStream /\ r.written = k.written /\ r.verdict = k.verdict /\ r.end = k.end
        /\ r.clean = k.clean /\ r.torn = k.torn
    BY DEF Fine, Kinds, Fields
  <2> HIDE DEF r
  <2>5. r.buf.capacity \in Nat /\ Len(r.buf.data) <= r.buf.capacity
    <3>1. Len(page) \in Nat
      BY <2>2
    <3>2. Len(page) <= Len(page)
      BY <3>1
    <3> QED
      BY <2>3, <2>4, <3>1, <3>2, Zenon
  <2>6. Kinds(r)
    BY <2>2, <2>4, NewStream, Zenon DEF Fine, Kinds
  <2>7. Typed(r)
    BY <2>4, <2>5, <2>6 DEF Typed
  <2> QED
    BY <2>1, <2>7
<1>3. CASE f \notin Locked
  <2> DEFINE g == Headed(k, <<"length">>)
             t == Stream("in", f)
             h == [g EXCEPT !.stream = t]
  <2>1. AnswerFile(k, f, files) = Respond(h, files)
    BY <1>3, Zenon DEF AnswerFile
  <2>2. Fine(g)
    BY HeadedFine
  <2> HIDE DEF g, t
  <2>3. /\ DOMAIN h = Fields /\ h.buf = g.buf /\ h.stream = t /\ h.plan = g.plan
        /\ h.written = g.written /\ h.verdict = g.verdict /\ h.end = g.end
        /\ h.clean = g.clean /\ h.torn = g.torn
    BY <2>2 DEF Fine, Kinds, Fields
  <2>4. Streamed(t)
    BY NewStream DEF t
  <2> HIDE DEF h
  <2>5. Fine(h)
    BY <2>2, <2>3, <2>4, Zenon DEF Fine, Kinds
  <2>6. Fine(Respond(h, files)) /\ Respond(h, files).state = "RESPONSE"
    BY <1>1, <2>1, <2>5, RespondFine, Zenon
  <2> QED
    BY <2>1, <2>6, FineTyped
<1> QED
  BY <1>2, <1>3

\* A connection that may be answered, and is fit to be.
Sound(k, q, files) == Begun(k, q, files) /\ Fine(k)

\* The output of a script is waited for.
LEMMA CollectFine ==
  ASSUME NEW k, Fine(k)
  PROVE  Fine(Collect(k)) /\ Collect(k).state = "CGI_HEADERS"
<1> DEFINE x == k.buf.data = <<>> /\ k.stream.mode = "none"
           r == [k EXCEPT !.state = "CGI_HEADERS", !.heard = 0, !.clean = x]
<1>1. Collect(k) = r
  BY Zenon DEF Collect
<1>2. x \in BOOLEAN
  OBVIOUS
<1> HIDE DEF x
<1>3. /\ DOMAIN r = Fields /\ r.state = "CGI_HEADERS" /\ r.buf = k.buf /\ r.stream = k.stream
      /\ r.plan = k.plan /\ r.written = k.written /\ r.verdict = k.verdict /\ r.end = k.end
      /\ r.clean = x /\ r.torn = k.torn
  BY DEF Fine, Kinds, Fields
<1> HIDE DEF r
<1>4. Fine(r)
  BY <1>2, <1>3, Zenon DEF Fine, Kinds
<1> QED
  BY <1>1, <1>3, <1>4

\* A script is started.
LEMMA SetupCgiTyped ==
  ASSUME NEW k, Fine(k), NEW length
  PROVE  Typed(setup_cgi(k, length))
<1> DEFINE h == [k EXCEPT !.written = 0]
           g == [k EXCEPT !.state = "CGI_TRANSMIT_BODY", !.written = 0]
<1>1. /\ DOMAIN h = Fields /\ h.buf = k.buf /\ h.stream = k.stream
      /\ h.plan = k.plan /\ h.written = 0 /\ h.verdict = k.verdict /\ h.end = k.end
      /\ h.clean = k.clean /\ h.torn = k.torn
  BY DEF Fine, Kinds, Fields
<1>2. /\ DOMAIN g = Fields /\ g.state = "CGI_TRANSMIT_BODY" /\ g.buf = k.buf /\ g.stream = k.stream
      /\ g.plan = k.plan /\ g.written = 0 /\ g.verdict = k.verdict /\ g.end = k.end
      /\ g.clean = k.clean /\ g.torn = k.torn
  BY DEF Fine, Kinds, Fields
<1>3. setup_cgi(k, length) = g \/ setup_cgi(k, length) = Collect(h)
  BY Zenon DEF setup_cgi
<1>4. 0 \in Nat
  OBVIOUS
<1> HIDE DEF h, g
<1>5. Fine(h) /\ Fine(g)
  BY <1>1, <1>2, <1>4, Zenon DEF Fine, Kinds
<1>6. Typed(g) /\ Typed(Collect(h))
  <2>1. g.state # "DISCARD_BODY" /\ Collect(h).state # "DISCARD_BODY" /\ Fine(Collect(h))
    BY <1>2, <1>5, CollectFine
  <2> QED
    BY <1>5, <2>1, FineTyped
<1> QED
  BY <1>3, <1>6, Zenon

\* An error is answered, after its body was discarded if it has one.
LEMMA AnswerErrorTyped ==
  ASSUME NEW k, NEW q \in Requests, NEW files, Filed(files), Sound(k, q, files)
  PROVE  Typed(AnswerError(k, q, files))
<1> DEFINE m == FeedCapacity(k.buf)
           h == [k EXCEPT !.written = m, !.buf = Clear(@)]
           r == [h EXCEPT !.state = "DISCARD_BODY"]
<1>1. /\ DOMAIN h = Fields /\ h.buf = Clear(k.buf) /\ h.headers = k.headers /\ h.body = k.body
      /\ h.temp = k.temp /\ h.answer = k.answer /\ h.status = k.status /\ h.heard = k.heard
      /\ h.stream = k.stream /\ h.written = m /\ h.plan = k.plan /\ h.verdict = k.verdict
      /\ h.end = k.end /\ h.clean = k.clean /\ h.torn = k.torn
  BY DEF Sound, Begun, Shaped, Fields
<1>2. m \in Nat
  BY SolidUnfed DEF Sound, Begun, Shaped
<1>3. \/ AnswerError(k, q, files) = setup_cgi(k, 0)
      \/ AnswerError(k, q, files) = AnswerPage(k, files)
      \/ AnswerError(k, q, files) = AnswerPage(h, files)
      \/ AnswerError(k, q, files) = r
  BY Zenon DEF AnswerError
<1>4. Solid(Clear(k.buf)) /\ Room(Clear(k.buf)) /\ Clear(k.buf).writepos = 0
  BY SolidClear, RoomIs DEF Sound, Begun, Shaped, Fine
<1> HIDE DEF h, m
<1>5. /\ DOMAIN r = Fields /\ r.state = "DISCARD_BODY" /\ r.buf = h.buf /\ r.stream = h.stream
      /\ r.written = h.written /\ r.plan = h.plan /\ r.verdict = h.verdict
      /\ r.end = h.end /\ r.clean = h.clean /\ r.torn = h.torn
  BY <1>1 DEF Fields
<1> HIDE DEF r
<1>6. Begun(h, q, files)
  BY <1>1, <1>4, Zenon DEF Sound, Begun, Shaped, Silent
<1>7. Fine(h) /\ Typed(r)
  <2>1. Fine(h)
    BY <1>1, <1>2, <1>4, Zenon DEF Sound, Fine, Kinds
  <2>2. Fine(r)
    BY <1>5, <2>1, Zenon DEF Fine, Kinds
  <2>3. r.buf.writepos = 0
    BY <1>1, <1>4, <1>5, Zenon
  <2> QED
    BY <2>1, <2>2, <2>3, FineTyped
<1>8. Typed(AnswerPage(h, files)) /\ Typed(AnswerPage(k, files))
  <2>1. /\ Fine(AnswerPage(h, files)) /\ AnswerPage(h, files).state = "RESPONSE"
        /\ Fine(AnswerPage(k, files)) /\ AnswerPage(k, files).state = "RESPONSE"
    BY <1>6, <1>7, AnswersFine DEF Sound
  <2> QED
    BY <2>1, FineTyped
<1>9. Typed(setup_cgi(k, 0))
  BY SetupCgiTyped DEF Sound
<1> QED
  BY <1>3, <1>7, <1>8, <1>9, Zenon

\* The part of a body that came with the head is stored.
LEMMA StoreBodyTyped ==
  ASSUME NEW k, NEW q \in Requests, NEW files, Filed(files), Sound(k, q, files)
  PROVE  Typed(StoreBody(k, q, files))
<1> DEFINE p == k.stream.pending \o Unfed(k.buf)
           t == [k.stream EXCEPT !.pending = p]
           m == k.written + FeedCapacity(k.buf)
           h == Stored(k)
           r == [h EXCEPT !.state = "REQ_BODY"]
<1>1. /\ DOMAIN h = Fields /\ h.buf = Clear(k.buf) /\ h.headers = k.headers /\ h.body = k.body
      /\ h.temp = k.temp /\ h.answer = k.answer /\ h.status = k.status /\ h.heard = k.heard
      /\ h.stream = t /\ h.written = m /\ h.plan = k.plan /\ h.verdict = k.verdict
      /\ h.end = k.end /\ h.clean = k.clean /\ h.torn = k.torn
  BY DEF Stored, Sound, Begun, Shaped, Fields
<1>2. /\ DOMAIN t = StreamFields /\ t.mode = k.stream.mode /\ t.file = k.stream.file
      /\ t.pos = k.stream.pos /\ t.pending = p /\ t.eof = k.stream.eof /\ t.good = k.stream.good
  BY DEF Sound, Begun, Shaped, StreamIs, StreamFields
<1>3. p \in Seq(STRING)
  <2>1. Unfed(k.buf) \in Seq(STRING) /\ k.stream.pending \in Seq(STRING)
    BY SolidIs DEF Sound, Begun, Shaped, StreamIs
  <2> QED
    BY <2>1, Appended, Zenon
<1>4. Solid(Clear(k.buf)) /\ Room(Clear(k.buf))
  BY SolidClear, RoomIs DEF Sound, Begun, Shaped, Fine
<1>5. m \in Nat
  <2> DEFINE x == FeedCapacity(k.buf)
  <2>1. x \in Nat /\ k.written \in Nat
    BY SolidUnfed DEF Sound, Begun, Shaped, Fine, Kinds
  <2> HIDE DEF x
  <2> QED
    BY <2>1 DEF x
<1>6. StoreBody(k, q, files) = r \/ StoreBody(k, q, files) = AnswerUpload(h, files)
  BY Zenon DEF StoreBody
<1> HIDE DEF h, t, p, m
<1>7. StreamIs(t, files) /\ Streamed(t)
  <2>1. StreamIs(t, files)
    BY <1>2, <1>3 DEF Sound, Begun, Shaped, StreamIs
  <2>2. Streamed(t)
    BY <1>2, Zenon DEF Sound, Fine, Kinds, Streamed
  <2> QED
    BY <2>1, <2>2
<1>8. Begun(h, q, files) /\ Fine(h)
  <2>1. Begun(h, q, files)
    BY <1>1, <1>2, <1>4, <1>7, Zenon DEF Sound, Begun, Shaped, Silent
  <2>2. Fine(h)
    BY <1>1, <1>4, <1>5, <1>7, Zenon DEF Sound, Fine, Kinds
  <2> QED
    BY <2>1, <2>2
<1>9. /\ DOMAIN r = Fields /\ r.buf = h.buf /\ r.stream = h.stream /\ r.state = "REQ_BODY"
      /\ r.written = h.written /\ r.plan = h.plan /\ r.verdict = h.verdict
      /\ r.end = h.end /\ r.clean = h.clean /\ r.torn = h.torn
  BY <1>1 DEF Fields
<1> HIDE DEF r
<1>10. Fine(r)
  BY <1>8, <1>9, Zenon DEF Fine, Kinds
<1>11. Typed(r)
  BY <1>9, <1>10, FineTyped
<1>12. Typed(AnswerUpload(h, files))
  <2>1. Fine(AnswerUpload(h, files)) /\ AnswerUpload(h, files).state = "RESPONSE"
    BY <1>8, AnswersFine
  <2> QED
    BY <2>1, FineTyped
<1> QED
  BY <1>6, <1>11, <1>12, Zenon

\* handle_setup(), with no stream open yet.
LEMMA SetupTyped ==
  ASSUME NEW k, NEW q \in Requests, NEW files, Filed(files), Sound(k, q, files),
         k.stream.mode = "none"
  PROVE  Typed(handle_setup(k, q, files))
<1> DEFINE r == handle_setup(k, q, files)
           ok == [k EXCEPT !.status = "200"]
<1>0. q.file \in Files /\ q.route \in Routes
  BY DEF Requests
<1>1. ASSUME NEW x \in STRING
      PROVE  LET h == [k EXCEPT !.status = x] IN Sound(h, q, files) /\ h.stream = k.stream
  <2> DEFINE h == [k EXCEPT !.status = x]
  <2>1. /\ DOMAIN h = Fields /\ h.buf = k.buf /\ h.headers = k.headers /\ h.body = k.body
        /\ h.temp = k.temp /\ h.answer = k.answer /\ h.status = x /\ h.heard = k.heard
        /\ h.stream = k.stream /\ h.written = k.written /\ h.plan = k.plan /\ h.verdict = k.verdict
        /\ h.end = k.end /\ h.clean = k.clean /\ h.torn = k.torn
    BY DEF Sound, Begun, Shaped, Fields
  <2> HIDE DEF h
  <2>2. Begun(h, q, files)
    BY <2>1, Zenon DEF Sound, Begun, Shaped, Silent
  <2>3. Fine(h)
    BY <2>1, Zenon DEF Sound, Fine, Kinds
  <2> QED
    BY <2>1, <2>2, <2>3 DEF Sound, h
<1>2. ASSUME NEW x \in STRING PROVE Typed(Refuse(k, x, q, files))
  BY <1>1, AnswerErrorTyped DEF Refuse
<1>3. Sound(ok, q, files) /\ ok.stream.mode = "none"
  BY <1>1, WordsAssumption
<1> HIDE DEF ok
<1>4. CASE k.status # "none"
  BY <1>4, AnswerErrorTyped DEF handle_setup
<1>5. CASE k.status = "none" /\ q.route = "large"
  BY <1>2, <1>5, WordsAssumption DEF handle_setup
<1>6. CASE k.status = "none" /\ q.route = "upload"
  <2>1. r = setup_post(k, q, files)
    BY <1>6 DEF handle_setup
  <2> DEFINE s == PostStatus(q.file, files)
             t == Stream("out", q.file)
             h == [k EXCEPT !.status = s, !.written = 0, !.stream = t]
  <2>2. s \in STRING
    BY WordsAssumption DEF PostStatus
  <2>3. Streamed(t) /\ StreamIs(t, files) /\ t.mode = "out"
    <3>1. Streamed(t)
      BY <1>0, NewStream
    <3>2. StreamIs(t, files)
      BY StreamNewIs
    <3>3. t.mode = "out"
      BY DEF Stream, NoStream
    <3> QED
      BY <3>1, <3>2, <3>3
  <2>4. setup_post(k, q, files) = Refuse(k, "500", q, files) \/ setup_post(k, q, files) = StoreBody(h, q, files)
    BY Zenon DEF setup_post
  <2> HIDE DEF s, t
  <2>5. /\ DOMAIN h = Fields /\ h.buf = k.buf /\ h.headers = k.headers /\ h.body = k.body
        /\ h.temp = k.temp /\ h.answer = k.answer /\ h.status = s /\ h.heard = k.heard
        /\ h.stream = t /\ h.written = 0 /\ h.plan = k.plan /\ h.verdict = k.verdict
        /\ h.end = k.end /\ h.clean = k.clean /\ h.torn = k.torn
    BY DEF Sound, Begun, Shaped, Fields
  <2>6. 0 \in Nat
    OBVIOUS
  <2> HIDE DEF h, r
  <2>7. Begun(h, q, files)
    BY <2>2, <2>3, <2>5 DEF Sound, Begun, Shaped, Silent
  <2>8. Fine(h)
    BY <2>3, <2>5, <2>6, Zenon DEF Sound, Fine, Kinds
  <2>9. Typed(StoreBody(h, q, files))
    BY <2>7, <2>8, StoreBodyTyped DEF Sound
  <2>10. "500" \in STRING
    BY WordsAssumption
  <2>11. Typed(r)
    BY <1>2, <2>1, <2>4, <2>9, <2>10, Zenon
  <2> QED
    BY <2>11 DEF r
<1>7. CASE k.status = "none" /\ q.route = "script"
  <2>1. PICK n : r = setup_cgi(ok, n)
    BY <1>7 DEF handle_setup, ok
  <2> HIDE DEF r
  <2>2. Typed(r)
    BY <1>3, <2>1, SetupCgiTyped DEF Sound
  <2> QED
    BY <2>2 DEF r
<1>8. CASE k.status = "none" /\ q.route = "listing"
  <2>1. r = AnswerListing(ok, q, files)
    BY <1>8 DEF handle_setup, ok
  <2> HIDE DEF r
  <2>2. Fine(r) /\ r.state = "RESPONSE"
    BY <1>3, <2>1, AnswersFine DEF Sound
  <2>3. Typed(r)
    BY <2>2, FineTyped
  <2> QED
    BY <2>3 DEF r
<1>9. CASE k.status = "none" /\ q.route = "file"
  <2>1. \/ q.file \in DOMAIN files /\ r = AnswerFile(ok, q.file, files)
        \/ r = Refuse(k, "404", q, files)
    BY <1>9 DEF handle_setup, ok
  <2>2. "404" \in STRING
    BY WordsAssumption
  <2> HIDE DEF r
  <2>3. q.file \in DOMAIN files => Typed(AnswerFile(ok, q.file, files))
    BY <1>0, <1>3, AnswerFileTyped DEF Sound
  <2>4. Typed(r)
    BY <1>2, <2>1, <2>2, <2>3, Zenon
  <2> QED
    BY <2>4 DEF r
<1> QED
  BY <1>0, <1>4, <1>5, <1>6, <1>7, <1>8, <1>9 DEF Routes

\* The parser of the head leaves a connection fit to be answered.
LEMMA FailFine ==
  ASSUME NEW k, Fine(k), NEW x
  PROVE  Fine(Fail(k, x))
<1> DEFINE r == Fail(k, x)
<1>1. /\ DOMAIN r = Fields /\ r.buf = k.buf /\ r.stream = k.stream /\ r.written = k.written
      /\ r.plan = k.plan /\ r.verdict = k.verdict
      /\ r.end = k.end /\ r.clean = k.clean /\ r.torn = k.torn
  BY DEF Fail, Fine, Kinds, Fields
<1> HIDE DEF r
<1>2. Fine(r)
  BY <1>1, Zenon DEF Fine, Kinds
<1> QED
  BY <1>2 DEF r

\* So do the request line
LEMMA LineFine ==
  ASSUME NEW k, Fine(k)
  PROVE  Fine(handle_req_line(k))
<1> DEFINE r == handle_req_line(k)
           S == Ends(k.buf.data)
           b == Erase(k.buf, Min(S) + 1)
           h == [k EXCEPT !.state = "REQ_HEADERS", !.buf = b]
<1>1. ASSUME S # {} PROVE Room(b)
  <2>1. S \subseteq Nat
    BY DEF Ends, Fine, Room
  <2>2. Min(S) \in Nat
    BY <1>1, <2>1, FirstExists, Zenon
  <2> HIDE DEF S
  <2>3. Min(S) + 1 \in Nat
    BY <2>2
  <2> QED
    BY <2>3, RoomIs, Zenon DEF Fine
<1>2. /\ DOMAIN h = Fields /\ h.buf = b /\ h.stream = k.stream /\ h.written = k.written
      /\ h.plan = k.plan /\ h.verdict = k.verdict
      /\ h.end = k.end /\ h.clean = k.clean /\ h.torn = k.torn
  BY DEF Fine, Kinds, Fields
<1>3. \/ \E x : r = Fail(k, x)
      \/ r = k
      \/ S # {} /\ r = h
  BY Zenon DEF handle_req_line
<1> HIDE DEF r, h, b, S
<1>4. S # {} => Fine(h)
  BY <1>1, <1>2, Zenon DEF Fine, Kinds
<1>5. Fine(r)
  BY <1>3, <1>4, FailFine
<1> QED
  BY <1>5 DEF r

\* and the header lines.
LEMMA HeadersFine ==
  ASSUME NEW k, Fine(k), NEW q
  PROVE  Fine(handle_req_headers(k, q))
<1> DEFINE r == handle_req_headers(k, q)
           d == k.buf.data
           stops == Stops(k, d)
           read == {e \in Ends(d) : stops = {} \/ e < Min(stops)}
           b == IF read = {} THEN k.buf ELSE Erase(k.buf, Max(read) + 1)
           rest == [k EXCEPT !.fields = Insert(@, d, read),
                             !.buf = IF read = {} THEN @ ELSE Erase(@, Max(read) + 1)]
           h == [rest EXCEPT !.buf = Erase(@, 2), !.written = 0]
<1>1. Room(b)
  <2>1. CASE read = {}
    BY <2>1 DEF Fine
  <2>2. CASE read # {}
    <3>1. d \in Seq(STRING)
      BY DEF Fine, Room
    <3>2. Ends(d) \subseteq 0..Len(d) /\ Len(d) \in Nat
      <4> HIDE DEF d
      <4> QED
        BY <3>1 DEF Ends
    <3>3. read \subseteq 0..Len(d)
      BY <3>2
    <3>4. Max(read) \in 0..Len(d)
      <4> HIDE DEF read, d
      <4> QED
        BY <2>2, <3>2, <3>3, LastExists
    <3> HIDE DEF read
    <3>5. Max(read) + 1 \in Nat
      BY <3>2, <3>4
    <3> QED
      BY <2>2, <3>5, RoomIs DEF Fine
  <2> QED
    BY <2>1, <2>2
<1>2. /\ DOMAIN rest = Fields /\ rest.buf = b /\ rest.stream = k.stream /\ rest.written = k.written
      /\ rest.plan = k.plan /\ rest.verdict = k.verdict
      /\ rest.end = k.end /\ rest.clean = k.clean /\ rest.torn = k.torn
  <2> HIDE DEF read, d
  <2> QED
    BY DEF Fine, Kinds, Fields
<1>3. \/ \E x : r = Fail(rest, x)
      \/ r = rest
      \/ r = parse_req_headers(h, q)
  BY Zenon DEF handle_req_headers
<1> HIDE DEF b, rest, r
<1>4. Fine(rest)
  BY <1>1, <1>2, Zenon DEF Fine, Kinds
<1>5. /\ DOMAIN h = Fields /\ h.buf = Erase(rest.buf, 2) /\ h.stream = rest.stream /\ h.written = 0
      /\ h.plan = rest.plan /\ h.verdict = rest.verdict
      /\ h.end = rest.end /\ h.clean = rest.clean /\ h.torn = rest.torn
  BY <1>2 DEF Fields
<1>6. Room(Erase(rest.buf, 2)) /\ 0 \in Nat
  <2>1. 2 \in Nat /\ 0 \in Nat
    OBVIOUS
  <2> QED
    BY <1>1, <1>2, <2>1, RoomIs, Zenon
<1> HIDE DEF h, read, stops
<1>7. Fine(h)
  BY <1>4, <1>5, <1>6, Zenon DEF Fine, Kinds
<1>8. \E x : parse_req_headers(h, q) = Fail(h, x)
  BY Zenon DEF parse_req_headers
<1>9. Fine(r)
  BY <1>3, <1>4, <1>7, <1>8, FailFine
<1> QED
  BY <1>9 DEF r

\* As many bytes are read as there is room for.
LEMMA FilledFine ==
  ASSUME NEW k, Fine(k), NEW q \in Requests, k.taken \in 0..Len(Sent(q)),
         NEW n \in Nat, k.taken + n <= Len(Sent(q)), n <= FillCapacity(k.buf)
  PROVE  Fine(FillRequest(k, q, n)) /\ FillRequest(k, q, n).state = k.state
<1> DEFINE s == Sent(q)
           x == SubSeq(s, k.taken + 1, k.taken + n)
           r == FillRequest(k, q, n)
<1>1. /\ DOMAIN r = Fields /\ r.buf = Fill(k.buf, x) /\ r.stream = k.stream /\ r.written = k.written
      /\ r.plan = k.plan /\ r.verdict = k.verdict /\ r.state = k.state
      /\ r.end = k.end /\ r.clean = k.clean /\ r.torn = k.torn
  BY DEF FillRequest, Fine, Kinds, Fields
<1>2. x \in Seq(STRING) /\ Len(x) = n
  <2>1. s \in Seq(STRING)
    BY SentIs
  <2> DEFINE f == k.taken
             t == k.taken + n
  <2> HIDE DEF s
  <2>2. f \in Nat /\ t \in Nat /\ f <= t /\ t <= Len(s) /\ t - f = n
    BY <2>1 DEF s
  <2> HIDE DEF f, t
  <2>3. SubSeq(s, f + 1, t) \in Seq(STRING) /\ Len(SubSeq(s, f + 1, t)) = t - f
    BY <2>1, <2>2, Middle
  <2> QED
    BY <2>2, <2>3 DEF f, t
<1> HIDE DEF x, r
<1>3. Room(Fill(k.buf, x))
  BY <1>2, RoomIs DEF Fine
<1>4. Fine(r)
  BY <1>1, <1>3, Zenon DEF Fine, Kinds
<1> QED
  BY <1>1, <1>4 DEF r

\* The handler of the two, which goes on to answer when the head is complete.
LEMMA HeadTyped ==
  ASSUME NEW q \in Requests, NEW k, NEW files, Filed(files), Starts(k, q, files), Fine(k),
         k.state \in {"REQ_LINE", "REQ_HEADERS"},
         k.taken \in 0..Len(Sent(q)), NEW n \in Nat, k.taken + n <= Len(Sent(q)),
         n <= FillCapacity(k.buf)
  PROVE  Typed(handle_head(k, q, n, files))
<1> DEFINE cleared == [k EXCEPT !.buf = IF FeedCapacity(@) = 0 THEN Clear(@) ELSE @]
           filled == FillRequest(cleared, q, n)
           lined == IF k.state = "REQ_LINE" THEN handle_req_line(filled) ELSE filled
           headed == IF lined.state = "REQ_HEADERS" THEN handle_req_headers(lined, q) ELSE lined
           judged == Judged(headed)
           Both(h) == Starts(h, q, files) /\ Fine(h)
<1>1. Both(cleared) /\ cleared.taken = k.taken /\ n <= FillCapacity(cleared.buf)
  <2>1. /\ DOMAIN cleared = Fields /\ cleared.headers = k.headers /\ cleared.body = k.body
        /\ cleared.temp = k.temp /\ cleared.answer = k.answer /\ cleared.status = k.status
        /\ cleared.heard = k.heard /\ cleared.stream = k.stream /\ cleared.taken = k.taken
        /\ cleared.buf \in {k.buf, Clear(k.buf)} /\ cleared.state = k.state
        /\ cleared.written = k.written /\ cleared.plan = k.plan /\ cleared.verdict = k.verdict
        /\ cleared.end = k.end /\ cleared.clean = k.clean /\ cleared.torn = k.torn
    BY DEF Starts, Begun, Shaped, Fields
  <2>2. Solid(Clear(k.buf)) /\ Clear(k.buf).writepos = 0 /\ Solid(k.buf) /\ k.buf.writepos = 0
    BY SolidClear DEF Starts, Begun, Shaped, Solid, Clear, BufferFields
  <2>3. Room(Clear(k.buf)) /\ Room(k.buf)
    BY RoomIs DEF Fine
  <2>4. n <= FillCapacity(Clear(k.buf))
    <3> DEFINE l == Len(k.buf.data)
               m == k.buf.capacity
    <3>1. l \in Nat /\ m \in Nat
      BY DEF Fine, Room
    <3>2. FillCapacity(k.buf) = m - l - 1
      BY DEF FillCapacity
    <3>3. FillCapacity(Clear(k.buf)) = m - 0 - 1
      <4>1. Clear(k.buf).data = <<>> /\ Clear(k.buf).capacity = m /\ Len(<<>>) = 0
        BY DEF Fine, Room, Clear, BufferFields
      <4> QED
        BY <4>1, Zenon DEF FillCapacity
    <3> HIDE DEF l, m
    <3> QED
      BY <3>1, <3>2, <3>3
  <2> HIDE DEF cleared
  <2>5. Solid(cleared.buf) /\ cleared.buf.writepos = 0 /\ Room(cleared.buf) /\ n <= FillCapacity(cleared.buf)
    BY <2>1, <2>2, <2>3, <2>4
  <2>6. Begun(cleared, q, files)
    BY <2>1, <2>5, Zenon DEF Starts, Begun, Shaped, Silent
  <2>7. Fine(cleared)
    BY <2>1, <2>5, Zenon DEF Fine, Kinds
  <2> QED
    BY <2>1, <2>5, <2>6, <2>7, Zenon DEF Starts
<1> HIDE DEF cleared
<1>2. Both(filled)
  <2>1. /\ Begun(filled, q, files) /\ filled.stream = cleared.stream
        /\ filled.state = cleared.state /\ filled.buf.writepos = cleared.buf.writepos
    BY <1>1, ReadMoreBegun DEF Starts
  <2>2. Fine(filled)
    BY <1>1, FilledFine
  <2> HIDE DEF filled
  <2> QED
    BY <1>1, <2>1, <2>2 DEF Starts
<1> HIDE DEF filled
<1>3. Both(lined)
  BY <1>2, LineStarts, LineFine
<1> HIDE DEF lined
<1>4. Both(headed)
  BY <1>3, HeadersStart, HeadersFine
<1> HIDE DEF headed
<1>5. CASE headed.state = "REQ_SETUP"
  <2> DEFINE v == IF headed.status = "none" THEN "ok" ELSE headed.status
  <2>1. /\ DOMAIN judged = Fields /\ judged.buf = headed.buf /\ judged.headers = headed.headers
        /\ judged.body = headed.body /\ judged.temp = headed.temp /\ judged.answer = headed.answer
        /\ judged.status = headed.status /\ judged.heard = headed.heard /\ judged.stream = headed.stream
        /\ judged.written = headed.written /\ judged.plan = headed.plan /\ judged.verdict = v
        /\ judged.end = headed.end /\ judged.clean = headed.clean /\ judged.torn = headed.torn
    BY <1>4, <1>5 DEF Judged, Starts, Begun, Shaped, Fields
  <2>2. v \in STRING
    BY <1>4, WordsAssumption DEF Starts, Begun, Shaped
  <2> HIDE DEF judged, v
  <2>3. Begun(judged, q, files) /\ judged.stream.mode = "none"
    BY <1>4, <2>1, Zenon DEF Starts, Begun, Shaped, Silent
  <2>4. Fine(judged)
    BY <1>4, <2>1, <2>2, Zenon DEF Fine, Kinds
  <2>5. Typed(handle_setup(judged, q, files))
    BY <2>3, <2>4, SetupTyped DEF Sound
  <2>6. handle_head(k, q, n, files) = handle_setup(judged, q, files)
    BY <1>5, Zenon DEF handle_head, judged, headed, lined, filled, cleared
  <2> QED
    BY <2>5, <2>6
<1>6. CASE headed.state # "REQ_SETUP"
  <2>1. handle_head(k, q, n, files) = headed
    BY <1>6, Zenon DEF handle_head, headed, lined, filled, cleared
  <2>2. headed.state # "DISCARD_BODY"
    BY <1>4 DEF Starts
  <2>3. Typed(headed)
    BY <1>4, <2>2, FineTyped
  <2> QED
    BY <2>1, <2>3
<1> QED
  BY <1>5, <1>6

\* The handlers of a body,
LEMMA DiscardTyped ==
  ASSUME NEW q \in Requests, NEW k, NEW files, Filed(files), Sound(k, q, files),
         k.state = "DISCARD_BODY", NEW n \in Nat
  PROVE  Typed(handle_discard(k, q, n, files))
<1> DEFINE m == k.written + n
           h == [k EXCEPT !.buf = Clear(@), !.taken = @ + n, !.written = @ + n]
<1>1. /\ DOMAIN h = Fields /\ h.buf = Clear(k.buf) /\ h.headers = k.headers /\ h.body = k.body
      /\ h.temp = k.temp /\ h.answer = k.answer /\ h.status = k.status /\ h.heard = k.heard
      /\ h.stream = k.stream /\ h.written = m /\ h.plan = k.plan /\ h.verdict = k.verdict
      /\ h.end = k.end /\ h.clean = k.clean /\ h.torn = k.torn
  BY DEF Sound, Begun, Shaped, Fields
<1>2. m \in Nat
  BY DEF Sound, Fine, Kinds
<1>3. Solid(Clear(k.buf)) /\ Room(Clear(k.buf)) /\ Clear(k.buf).writepos = 0
  BY SolidClear, RoomIs DEF Sound, Begun, Shaped, Fine
<1>4. handle_discard(k, q, n, files) = AnswerPage(h, files) \/ handle_discard(k, q, n, files) = h
  BY Zenon DEF handle_discard
<1> HIDE DEF h, m
<1>5. Begun(h, q, files)
  BY <1>1, <1>3, Zenon DEF Sound, Begun, Shaped, Silent
<1>6. Fine(h)
  BY <1>1, <1>2, <1>3, Zenon DEF Sound, Fine, Kinds
<1>7. Typed(h)
  BY <1>1, <1>3, <1>6, FineTyped
<1>8. Typed(AnswerPage(h, files))
  <2>1. Fine(AnswerPage(h, files)) /\ AnswerPage(h, files).state = "RESPONSE"
    BY <1>5, <1>6, AnswersFine
  <2> QED
    BY <2>1, FineTyped
<1> QED
  BY <1>4, <1>7, <1>8

\* of one that is stored or read for a script,
LEMMA BodyTyped ==
  ASSUME NEW q \in Requests, NEW k, NEW files, Filed(files), Sound(k, q, files),
         k.taken \in 0..Len(Sent(q)), NEW n \in Nat, k.taken + n <= Len(Sent(q)),
         n <= FillCapacity(k.buf)
  PROVE  Typed(handle_post(k, q, n, files)) /\ Typed(read_cgi_body(k, q, n))
<1> DEFINE h == FillRequest(k, q, n)
           r == [h EXCEPT !.state = "CGI_TRANSMIT_BODY"]
<1>1. Begun(h, q, files) /\ Fine(h)
  BY ReadMoreBegun, FilledFine DEF Sound
<1>2. handle_post(k, q, n, files) = StoreBody(h, q, files) /\ read_cgi_body(k, q, n) = r
  BY Zenon DEF handle_post, read_cgi_body
<1> HIDE DEF h
<1>3. Typed(StoreBody(h, q, files))
  BY <1>1, StoreBodyTyped DEF Sound
<1>4. /\ DOMAIN r = Fields /\ r.buf = h.buf /\ r.stream = h.stream /\ r.state = "CGI_TRANSMIT_BODY"
      /\ r.written = h.written /\ r.plan = h.plan /\ r.verdict = h.verdict
      /\ r.end = h.end /\ r.clean = h.clean /\ r.torn = h.torn
  BY <1>1 DEF Fine, Kinds, Fields
<1> HIDE DEF r
<1>5. Fine(r)
  BY <1>1, <1>4, Zenon DEF Fine, Kinds
<1>6. Typed(r)
  BY <1>4, <1>5, FineTyped
<1> QED
  BY <1>2, <1>3, <1>6

\* of one that is passed on to the script,
LEMMA InputTyped ==
  ASSUME NEW q, NEW k, Fine(k), k.state = "CGI_TRANSMIT_BODY", NEW n \in Nat
  PROVE  Typed(handle_cgi_input(k, q, n))
<1> DEFINE x == k.given \o SubSeq(Unfed(k.buf), 1, n)
           m == k.written + n
           fed == [k EXCEPT !.given = @ \o SubSeq(Unfed(k.buf), 1, n), !.buf = Feed(@, n),
                            !.written = @ + n]
           empty == [fed EXCEPT !.buf = Clear(@)]
           back == [empty EXCEPT !.state = "REQ_BODY"]
<1>1. /\ DOMAIN fed = Fields /\ fed.buf = Feed(k.buf, n) /\ fed.stream = k.stream
      /\ fed.state = k.state /\ fed.written = m /\ fed.plan = k.plan /\ fed.verdict = k.verdict
      /\ fed.end = k.end /\ fed.clean = k.clean /\ fed.torn = k.torn
  BY DEF Fine, Kinds, Fields
<1>2. m \in Nat
  BY DEF Fine, Kinds
<1>3. \/ handle_cgi_input(k, q, n) = fed
      \/ handle_cgi_input(k, q, n) = Collect(empty)
      \/ handle_cgi_input(k, q, n) = back
  BY Zenon DEF handle_cgi_input
<1> HIDE DEF fed, m
<1>4. Room(Feed(k.buf, n))
  BY RoomIs DEF Fine
<1>5. Fine(fed)
  BY <1>1, <1>2, <1>4, Zenon DEF Fine, Kinds
<1>6. /\ DOMAIN empty = Fields /\ empty.buf = Clear(fed.buf) /\ empty.stream = fed.stream
      /\ empty.state = fed.state /\ empty.written = fed.written /\ empty.plan = fed.plan
      /\ empty.verdict = fed.verdict
      /\ empty.end = fed.end /\ empty.clean = fed.clean /\ empty.torn = fed.torn
  BY <1>1 DEF Fields
<1> HIDE DEF empty
<1>7. Fine(empty)
  BY <1>5, <1>6, RoomIs, Zenon DEF Fine, Kinds
<1>8. /\ DOMAIN back = Fields /\ back.buf = empty.buf /\ back.stream = empty.stream
      /\ back.state = "REQ_BODY" /\ back.written = empty.written /\ back.plan = empty.plan
      /\ back.verdict = empty.verdict
      /\ back.end = empty.end /\ back.clean = empty.clean /\ back.torn = empty.torn
  BY <1>6 DEF Fields
<1> HIDE DEF back
<1>9. Fine(back)
  BY <1>7, <1>8, Zenon DEF Fine, Kinds
<1>10. Typed(fed) /\ Typed(back) /\ Typed(Collect(empty))
  <2>1. Fine(Collect(empty)) /\ Collect(empty).state = "CGI_HEADERS"
    BY <1>7, CollectFine
  <2> QED
    BY <1>1, <1>5, <1>8, <1>9, <2>1, FineTyped
<1> QED
  BY <1>3, <1>10, Zenon

\* and of what a script writes.
LEMMA BeginBodyFine ==
  ASSUME NEW k, Fine(k)
  PROVE  Fine(BeginBody(k))
<1> DEFINE d == k.buf.data
           n == HeadEnd(d)
           u == [k.stream EXCEPT !.good = FALSE]
           t == IF k.stream.mode = "none" THEN Stream("out", "temp") ELSE u
           b == Erase(k.buf, n)
           r == BeginBody(k)
<1>1. /\ DOMAIN r = Fields /\ r.buf = b /\ r.stream = t
      /\ r.written = k.written /\ r.plan = k.plan /\ r.verdict = k.verdict
      /\ r.end = k.end /\ r.clean = k.clean /\ r.torn = k.torn
  BY DEF BeginBody, Fine, Kinds, Fields
<1>2. n \in Nat
  <2>1. d \in Seq(STRING)
    BY DEF Fine, Room
  <2> HIDE DEF d
  <2>2. n \in 0..Len(d) /\ Len(d) \in Nat
    BY <2>1, HeadEndIs
  <2> HIDE DEF n
  <2> QED
    BY <2>2
<1>3. Streamed(t)
  <2>1. Streamed(Stream("out", "temp"))
    BY NewStream
  <2>2. /\ DOMAIN u = StreamFields /\ u.mode = k.stream.mode /\ u.file = k.stream.file
        /\ u.eof = k.stream.eof /\ u.good = FALSE
    BY DEF Fine, Kinds, Streamed, StreamFields
  <2> HIDE DEF u
  <2>3. Streamed(u)
    BY <2>2, Zenon DEF Fine, Kinds, Streamed
  <2> QED
    BY <2>1, <2>3
<1> HIDE DEF n
<1>4. Room(b)
  BY <1>2, RoomIs DEF Fine
<1> HIDE DEF r, b, t
<1>5. Fine(r)
  BY <1>1, <1>3, <1>4, Zenon DEF Fine, Kinds
<1> QED
  BY <1>5 DEF r

\* What was read goes to the temporary file.
LEMMA SpoolBodyFine ==
  ASSUME NEW k, Fine(k)
  PROVE  Fine(SpoolBody(k))
<1> DEFINE x == IF k.stream.good THEN k.temp \o Unfed(k.buf) ELSE k.temp
           h == [k EXCEPT !.temp = IF k.stream.good THEN @ \o Unfed(k.buf) ELSE @, !.buf = Clear(@)]
<1>1. /\ DOMAIN h = Fields /\ h.buf = Clear(k.buf) /\ h.stream = k.stream
      /\ h.written = k.written /\ h.plan = k.plan /\ h.verdict = k.verdict
      /\ h.end = k.end /\ h.clean = k.clean /\ h.torn = k.torn
  BY DEF Fine, Kinds, Fields
<1>2. SpoolBody(k) = k \/ SpoolBody(k) = h
  BY Zenon DEF SpoolBody
<1> HIDE DEF h
<1>3. Fine(h)
  BY <1>1, RoomIs, Zenon DEF Fine, Kinds
<1> QED
  BY <1>2, <1>3

\* The script ended, with an answer or without.
LEMMA GivenUpFine ==
  ASSUME NEW q, NEW k, NEW files, Filed(files), Sound(k, q, files)
  PROVE  /\ Fine(BadGateway(k, files)) /\ BadGateway(k, files).state = "RESPONSE"
         /\ Fine(finalize_cgi(k, files)) /\ finalize_cgi(k, files).state = "RESPONSE"
<1>1. Shaped(BadGateway(k, files), q, files) /\ Shaped(finalize_cgi(k, files), q, files)
  BY GivenUpFits DEF Fits, Owes, Sound
<1>2. Room(Clear(k.buf))
  BY RoomIs DEF Sound, Fine
<1>3. Fine(BadGateway(k, files)) /\ BadGateway(k, files).state = "RESPONSE"
  <2> DEFINE y == Lines(<<"502", "date">>) \o Blank
             h == [k EXCEPT !.status = "502", !.headers = y, !.buf = Clear(@)]
  <2>1. BadGateway(k, files) = Respond(h, files)
    BY Zenon DEF BadGateway
  <2> HIDE DEF y
  <2>2. /\ DOMAIN h = Fields /\ h.buf = Clear(k.buf) /\ h.stream = k.stream
        /\ h.written = k.written /\ h.plan = k.plan /\ h.verdict = k.verdict
        /\ h.end = k.end /\ h.clean = k.clean /\ h.torn = k.torn
    BY DEF Sound, Fine, Kinds, Fields
  <2> HIDE DEF h
  <2>3. Fine(h)
    BY <1>2, <2>2, Zenon DEF Sound, Fine, Kinds
  <2> QED
    BY <1>1, <2>1, <2>3, RespondFine, Zenon
<1>4. Fine(finalize_cgi(k, files)) /\ finalize_cgi(k, files).state = "RESPONSE"
  <2> DEFINE t == Stream("in", "temp")
             h == [k EXCEPT !.stream = t, !.headers = @ \o Blank, !.buf = Clear(@)]
  <2>1. finalize_cgi(k, files) = Respond(h, files)
    BY Zenon DEF finalize_cgi
  <2>2. Streamed(t)
    BY NewStream
  <2> HIDE DEF t
  <2>3. /\ DOMAIN h = Fields /\ h.buf = Clear(k.buf) /\ h.stream = t
        /\ h.written = k.written /\ h.plan = k.plan /\ h.verdict = k.verdict
        /\ h.end = k.end /\ h.clean = k.clean /\ h.torn = k.torn
    BY DEF Sound, Fine, Kinds, Fields
  <2> HIDE DEF h
  <2>4. Fine(h)
    BY <1>2, <2>2, <2>3, Zenon DEF Sound, Fine, Kinds
  <2> QED
    BY <1>1, <2>1, <2>4, RespondFine, Zenon
<1> QED
  BY <1>3, <1>4

\* The handler as a whole.
LEMMA OutputTyped ==
  ASSUME NEW q \in Requests, NEW k, NEW files, Filed(files), Sound(k, q, files),
         k.state \in {"CGI_HEADERS", "CGI_BODY"},
         NEW n \in 0..Len(q.output) - k.heard, n <= FillCapacity(k.buf), NEW eof
  PROVE  Typed(handle_cgi_output(k, q, n, eof, files))
<1> DEFINE f == k.heard
           t == k.heard + n
           x == SubSeq(q.output, k.heard + 1, k.heard + n)
           filled == [k EXCEPT !.buf = Fill(@, x), !.heard = @ + n]
           begun == IF k.state = "CGI_HEADERS" THEN BeginBody(filled) ELSE filled
           spooled == SpoolBody(begun)
           r == handle_cgi_output(k, q, n, eof, files)
<1>1. /\ DOMAIN filled = Fields /\ filled.buf = Fill(k.buf, x) /\ filled.headers = k.headers
      /\ filled.body = k.body /\ filled.temp = k.temp /\ filled.answer = k.answer
      /\ filled.status = k.status /\ filled.heard = k.heard + n /\ filled.stream = k.stream
      /\ filled.written = k.written /\ filled.plan = k.plan /\ filled.verdict = k.verdict
      /\ filled.end = k.end /\ filled.clean = k.clean /\ filled.torn = k.torn
      /\ filled.state = k.state
  <2> HIDE DEF x
  <2> QED
    BY DEF Sound, Begun, Shaped, Fields
<1>2. /\ t \in 0..Len(q.output) /\ f \in Nat /\ t \in Nat /\ f <= t /\ t <= Len(q.output)
      /\ t - f = n /\ q.output \in Seq(STRING)
  <2>1. q.output \in Seq(STRING)
    BY DEF Requests
  <2>2. k.heard \in 0..Len(q.output) /\ Len(q.output) \in Nat
    BY <2>1 DEF Sound, Begun, Shaped
  <2> QED
    BY <2>1, <2>2
<1>3. x \in Seq(STRING) /\ Len(x) = n
  <2> DEFINE o == q.output
  <2> HIDE DEF f, t, o
  <2>1. SubSeq(o, f + 1, t) \in Seq(STRING) /\ Len(SubSeq(o, f + 1, t)) = t - f
    BY <1>2, Middle DEF o
  <2> QED
    BY <1>2, <2>1 DEF f, t, o
<1>4. Solid(Fill(k.buf, x)) /\ Room(Fill(k.buf, x))
  <2> HIDE DEF x
  <2> QED
    BY <1>3, SolidFill, RoomIs DEF Sound, Begun, Shaped, Fine
<1> HIDE DEF x, filled
<1>5. Sound(filled, q, files)
  <2>1. Begun(filled, q, files)
    BY <1>1, <1>2, <1>4, Zenon DEF Sound, Begun, Shaped, Silent
  <2>2. Fine(filled)
    BY <1>1, <1>4, Zenon DEF Sound, Fine, Kinds
  <2> QED
    BY <2>1, <2>2 DEF Sound
<1>6. Sound(begun, q, files) /\ begun.state \in {"CGI_HEADERS", "CGI_BODY"}
  BY <1>1, <1>5, BeginBodyBegun, BeginBodyFine DEF Sound
<1> HIDE DEF begun
<1>7. Sound(spooled, q, files) /\ spooled.state \in {"CGI_HEADERS", "CGI_BODY"}
  BY <1>6, SpoolBodyBegun, SpoolBodyFine DEF Sound
<1> HIDE DEF spooled
<1>8. Typed(finalize_cgi(spooled, files)) /\ Typed(BadGateway(filled, files))
  <2>1. /\ Fine(finalize_cgi(spooled, files)) /\ finalize_cgi(spooled, files).state = "RESPONSE"
        /\ Fine(BadGateway(filled, files)) /\ BadGateway(filled, files).state = "RESPONSE"
    BY <1>5, <1>7, GivenUpFine
  <2> QED
    BY <2>1, FineTyped
<1>9. Typed(filled) /\ Typed(spooled)
  <2>1. filled.state # "DISCARD_BODY" /\ spooled.state # "DISCARD_BODY"
    BY <1>1, <1>7
  <2> QED
    BY <1>5, <1>7, <2>1, FineTyped DEF Sound
<1>10. \/ r = BadGateway(filled, files)
       \/ r = filled
       \/ r = finalize_cgi(spooled, files)
       \/ r = spooled
  BY Zenon DEF handle_cgi_output, spooled, begun, filled, x
<1> HIDE DEF r
<1>11. Typed(r)
  BY <1>8, <1>9, <1>10, Zenon
<1> QED
  BY <1>11 DEF r

\* A connection whose buffer holds no more than its memory.
Brimful(k) ==
    /\ Kinds(k) /\ DOMAIN k.buf = BufferFields
    /\ k.buf.data \in Seq(STRING) /\ k.buf.capacity \in Nat /\ Len(k.buf.data) <= k.buf.capacity

\* No more is filled in than there is room for.
LEMMA FillBrimful ==
  ASSUME NEW k, Brimful(k), NEW x \in Seq(STRING), Len(x) = 0 \/ Len(x) <= FillCapacity(k.buf),
         NEW r, DOMAIN r = Fields, r.buf = Fill(k.buf, x), Streamed(r.stream),
         r.written = k.written, r.plan = k.plan, r.verdict = k.verdict, r.end = k.end,
         r.clean = k.clean, r.torn = k.torn
  PROVE  Brimful(r)
<1> DEFINE b == k.buf
           d == k.buf.data
           m == k.buf.capacity
<1>1. DOMAIN Fill(b, x) = BufferFields /\ Fill(b, x).data = d \o x /\ Fill(b, x).capacity = m
  BY DEF Fill, Brimful, BufferFields
<1>2. d \in Seq(STRING) /\ m \in Nat /\ Len(d) <= m /\ FillCapacity(b) = m - Len(d) - 1
  BY Zenon DEF Brimful, FillCapacity
<1>3. Len(x) = 0 \/ Len(x) <= FillCapacity(b)
  OBVIOUS
<1> HIDE DEF b, d, m
<1>4. d \o x \in Seq(STRING) /\ Len(d \o x) = Len(d) + Len(x)
  BY <1>2, Appended, Zenon
<1>5. Len(d \o x) <= m
  <2>1. Len(d) \in Nat /\ Len(x) \in Nat
    BY <1>2
  <2> QED
    BY <1>2, <1>3, <1>4, <2>1
<1>6. Kinds(r)
  BY Zenon DEF Brimful, Kinds
<1> QED
  BY <1>1, <1>2, <1>4, <1>5, <1>6, Zenon DEF Brimful, b

\* As many headers as fit,
LEMMA HeadersBrimful ==
  ASSUME NEW k, Brimful(k), k.headers \in Seq(STRING)
  PROVE  Brimful(BufferHeaders(k))
<1> DEFINE S == {0} \cup FittingLines(k)
           n == Max(S)
           a == SubSeq(k.headers, 1, n)
           r == BufferHeaders(k)
<1>1. n \in 0..Len(k.headers) /\ n \in S
  <2>1. FittingLines(k) \subseteq 0..Len(k.headers) /\ Len(k.headers) \in Nat
    BY FeedsAre DEF FittingLines
  <2>2. S \subseteq 0..Len(k.headers) /\ S # {}
    BY <2>1
  <2>3. n \in S
    <3> HIDE DEF S
    <3> QED
      BY <2>1, <2>2, LastExists
  <2> HIDE DEF S, n
  <2> QED
    BY <2>2, <2>3
<1>2. n = 0 \/ n < FillCapacity(k.buf)
  <2> HIDE DEF n
  <2> QED
    BY <1>1 DEF FittingLines
<1>3. a \in Seq(STRING) /\ Len(a) = n
  <2> HIDE DEF n
  <2> DEFINE h == k.headers
  <2>1. h \in Seq(STRING) /\ n \in 0..Len(h)
    BY <1>1
  <2> HIDE DEF h
  <2>2. SubSeq(h, 1, n) \in Seq(STRING) /\ Len(SubSeq(h, 1, n)) = n
    BY <2>1, Prefix
  <2> QED
    BY <2>2 DEF h
<1>4. /\ DOMAIN r = Fields /\ r.buf = Fill(k.buf, a) /\ r.stream = k.stream
      /\ r.written = k.written /\ r.plan = k.plan /\ r.verdict = k.verdict
      /\ r.end = k.end /\ r.clean = k.clean /\ r.torn = k.torn
  <2> DEFINE b == SubSeq(k.headers, n + 1, Len(k.headers))
  <2> HIDE DEF n
  <2>1. r = [k EXCEPT !.buf = Fill(@, a), !.headers = b]
    BY Zenon DEF BufferHeaders, n, S
  <2> HIDE DEF a, b, r
  <2> QED
    BY <2>1 DEF Brimful, Kinds, Fields
<1>5. Len(a) = 0 \/ Len(a) <= FillCapacity(k.buf)
  <2> DEFINE f == FillCapacity(k.buf)
  <2>1. f \in Int /\ n \in Int
    <3>1. k.buf.capacity \in Nat /\ Len(k.buf.data) \in Nat
      BY DEF Brimful
    <3>2. n \in Int
      <4> HIDE DEF n
      <4> QED
        BY <1>1
    <3> HIDE DEF n
    <3> QED
      BY <3>1, <3>2 DEF FillCapacity
  <2>2. n = 0 \/ n < f
    BY <1>2
  <2>3. Len(a) = n
    BY <1>3
  <2> HIDE DEF f, n, a
  <2>4. Len(a) = 0 \/ Len(a) <= f
    BY <2>1, <2>2, <2>3
  <2> QED
    BY <2>4 DEF f
<1>6. Streamed(r.stream)
  BY <1>4 DEF Brimful, Kinds
<1> HIDE DEF r, a
<1>7. Brimful(r)
  BY <1>3, <1>4, <1>5, <1>6, FillBrimful
<1> QED
  BY <1>7 DEF r

\* as much of a body in memory,
LEMMA BodyBrimful ==
  ASSUME NEW k, Brimful(k), k.body \in Seq(STRING)
  PROVE  Brimful(BufferBody(k))
<1> DEFINE f == FillCapacity(k.buf)
           room == FillCapacity(k.buf) - 1
           n == IF room < Len(k.body) THEN room ELSE Len(k.body)
           a == SubSeq(k.body, 1, n)
           b == SubSeq(k.body, n + 1, Len(k.body))
           h == [k EXCEPT !.buf = Fill(@, a), !.body = b]
           r == BufferBody(k)
<1>1. ASSUME ~(FillCapacity(k.buf) <= 1) PROVE Brimful(h)
  <2>1. n \in 0..Len(k.body) /\ n <= f
    <3>1. f \in Int
      <4>1. k.buf.capacity \in Nat /\ Len(k.buf.data) \in Nat
        BY DEF Brimful
      <4> QED
        BY <4>1 DEF FillCapacity
    <3>2. Len(k.body) \in Nat /\ ~(f <= 1) /\ room = f - 1
      BY <1>1
    <3> HIDE DEF f, room
    <3> QED
      BY <3>1, <3>2
  <2>2. a \in Seq(STRING) /\ Len(a) = n
    <3> HIDE DEF n
    <3> DEFINE y == k.body
    <3>1. y \in Seq(STRING) /\ n \in 0..Len(y)
      BY <2>1
    <3> HIDE DEF y
    <3>2. SubSeq(y, 1, n) \in Seq(STRING) /\ Len(SubSeq(y, 1, n)) = n
      BY <3>1, Prefix
    <3> QED
      BY <3>2 DEF y
  <2> HIDE DEF a, b, n
  <2>3. /\ DOMAIN h = Fields /\ h.buf = Fill(k.buf, a) /\ h.stream = k.stream
        /\ h.written = k.written /\ h.plan = k.plan /\ h.verdict = k.verdict
        /\ h.end = k.end /\ h.clean = k.clean /\ h.torn = k.torn
    BY DEF Brimful, Kinds, Fields
  <2>4. Streamed(h.stream)
    BY <2>3 DEF Brimful, Kinds
  <2>5. Len(a) <= FillCapacity(k.buf)
    BY <2>1, <2>2
  <2> HIDE DEF h
  <2> QED
    BY <2>2, <2>3, <2>4, <2>5, FillBrimful
<1>2. \/ r = k
      \/ ~(FillCapacity(k.buf) <= 1) /\ r = h
  BY Zenon DEF BufferBody
<1> HIDE DEF h, r
<1>3. Brimful(r)
  BY <1>1, <1>2
<1> QED
  BY <1>3 DEF r

\* as much of a file,
LEMMA FileBrimful ==
  ASSUME NEW k, Brimful(k), NEW files, Unread(k, files) \in Seq(STRING)
  PROVE  Brimful(BufferFile(k, files))
<1> DEFINE left == Unread(k, files)
           f == FillCapacity(k.buf)
           n == IF Len(left) < f THEN Len(left) ELSE f
           e == n < f
           a == SubSeq(left, 1, n)
           t == [k.stream EXCEPT !.pos = @ + n, !.eof = e]
           h == [k EXCEPT !.buf = Fill(@, a), !.stream.pos = @ + n, !.stream.eof = e]
           r == BufferFile(k, files)
<1>1. ASSUME ~(f <= 1) PROVE Brimful(h)
  <2>1. n \in 0..Len(left) /\ n <= f
    <3>1. f \in Int
      <4>1. k.buf.capacity \in Nat /\ Len(k.buf.data) \in Nat
        BY DEF Brimful
      <4> QED
        BY <4>1 DEF FillCapacity
    <3>2. Len(left) \in Nat /\ ~(f <= 1)
      BY <1>1
    <3> HIDE DEF f, left
    <3> QED
      BY <3>1, <3>2
  <2>2. a \in Seq(STRING) /\ Len(a) = n
    <3>1. left \in Seq(STRING)
      OBVIOUS
    <3> HIDE DEF n, left
    <3> QED
      BY <2>1, <3>1, Prefix
  <2>3. e \in BOOLEAN
    OBVIOUS
  <2>4. /\ DOMAIN h = Fields /\ h.buf = Fill(k.buf, a) /\ h.stream = t
        /\ h.written = k.written /\ h.plan = k.plan /\ h.verdict = k.verdict
        /\ h.end = k.end /\ h.clean = k.clean /\ h.torn = k.torn
    <3> HIDE DEF n, a, e
    <3> QED
      BY DEF Brimful, Kinds, Streamed, StreamFields, Fields
  <2>5. /\ DOMAIN t = StreamFields /\ t.mode = k.stream.mode /\ t.file = k.stream.file
        /\ t.eof = e /\ t.good = k.stream.good
    <3> HIDE DEF n, e
    <3> QED
      BY DEF Brimful, Kinds, Streamed, StreamFields
  <2>6. Len(a) <= FillCapacity(k.buf)
    BY <2>1, <2>2
  <2> HIDE DEF h, t, e, a
  <2>7. Streamed(t)
    BY <2>3, <2>5, Zenon DEF Brimful, Kinds, Streamed
  <2> QED
    BY <2>2, <2>4, <2>6, <2>7, FillBrimful
<1>2. \/ r = k
      \/ ~(f <= 1) /\ r = h
  BY Zenon DEF BufferFile
<1> HIDE DEF h, r
<1>3. Brimful(r)
  BY <1>1, <1>2
<1> QED
  BY <1>3 DEF r

\* one after another.
LEMMA RefilledBrimful ==
  ASSUME NEW q, NEW k, NEW files, Filed(files), Shaped(k, q, files), Orderly(k.buf),
         k.stream.mode = "in" => k.body = <<>>, Brimful(k)
  PROVE  Brimful(Refilled(k, files))
<1> DEFINE c == [k EXCEPT !.buf = Clear(@)]
           b == BufferHeaders(c)
           f == BufferFile(b, files)
           r == Refilled(k, files)
<1>1. /\ DOMAIN c = Fields /\ c.buf = Clear(k.buf) /\ c.headers = k.headers /\ c.body = k.body
      /\ c.temp = k.temp /\ c.answer = k.answer /\ c.status = k.status /\ c.heard = k.heard
      /\ c.stream = k.stream /\ c.written = k.written /\ c.plan = k.plan /\ c.verdict = k.verdict
      /\ c.end = k.end /\ c.clean = k.clean /\ c.torn = k.torn
  BY DEF Shaped, Fields
<1>2. Solid(Clear(k.buf)) /\ Orderly(Clear(k.buf))
  BY SolidClear DEF Shaped
<1>3. /\ DOMAIN Clear(k.buf) = BufferFields /\ Clear(k.buf).data = <<>>
      /\ Clear(k.buf).capacity = k.buf.capacity
  BY DEF Clear, Brimful, BufferFields
<1>4. r = k \/ r = BufferBody(f)
  BY Zenon DEF Refilled, fill_res_buffer
<1> HIDE DEF c
<1>5. Shaped(c, q, files) /\ Orderly(c.buf) /\ (c.stream.mode = "in" => c.body = <<>>)
  BY <1>1, <1>2, Zenon DEF Shaped
<1>6. Brimful(c)
  <2>1. Len(<<>>) = 0 /\ <<>> \in Seq(STRING) /\ 0 <= k.buf.capacity
    BY DEF Brimful
  <2>2. Kinds(c)
    BY <1>1, Zenon DEF Brimful, Kinds
  <2> QED
    BY <1>1, <1>3, <2>1, <2>2, Zenon DEF Brimful
<1>7. Moves(b, c, q, files) /\ Brimful(b)
  <2>1. Moves(b, c, q, files)
    BY <1>5, HeadersMove
  <2>2. Brimful(b)
    BY <1>5, <1>6, HeadersBrimful DEF Shaped
  <2> QED
    BY <2>1, <2>2
<1> HIDE DEF b
<1>8. Shaped(b, q, files) /\ Orderly(b.buf) /\ (b.stream.mode = "in" => b.body = <<>>)
  BY <1>7 DEF Moves
<1>9. Moves(f, b, q, files) /\ Brimful(f)
  <2>1. Moves(f, b, q, files)
    BY <1>8, FileMoves
  <2>2. Unread(b, files) \in Seq(STRING)
    BY <1>8, UnreadTyped
  <2>3. Brimful(f)
    BY <1>7, <2>2, FileBrimful
  <2> QED
    BY <2>1, <2>3
<1> HIDE DEF f, r
<1>10. Brimful(BufferBody(f))
  BY <1>9, BodyBrimful DEF Moves, Shaped
<1>11. Brimful(r)
  BY <1>4, <1>10
<1> QED
  BY <1>11 DEF r

\* The client takes n bytes, or is let go.
LEMMA ResponseTyped ==
  ASSUME NEW q, NEW k, NEW files, Filed(files), Shaped(k, q, files), Answers(k, files),
         k.state = "RESPONSE", Typed(k), NEW n, NEW end \in STRING
  PROVE  LET h == Refilled(k, files)
         IN /\ Typed(Delete(h, end))
            /\ Typed([h EXCEPT !.answer = @ \o SubSeq(Unfed(h.buf), 1, n), !.buf = Feed(@, n)])
<1> DEFINE h == Refilled(k, files)
           x == SubSeq(Unfed(h.buf), 1, n)
           r == [h EXCEPT !.answer = @ \o x, !.buf = Feed(@, n)]
           g == Delete(h, end)
<1>1. Brimful(k)
  BY DEF Brimful, Typed, Shaped, Solid
<1>2. Brimful(h)
  BY <1>1, RefilledBrimful DEF Answers
<1>3. h.state = "RESPONSE"
  BY RefilledKeeps DEF Shaped
<1> HIDE DEF h, x
<1>4. Typed(g)
  <2>1. /\ DOMAIN g = Fields /\ g.state = "CLOSED" /\ g.buf = h.buf /\ g.stream = NoStream
        /\ g.written = h.written /\ g.plan = h.plan /\ g.verdict = h.verdict
        /\ g.end = end /\ g.clean = h.clean /\ g.torn = h.torn
    BY <1>2 DEF Delete, Brimful, Kinds, Fields
  <2> HIDE DEF g
  <2>2. Kinds(g)
    BY <1>2, <2>1, NewStream, Zenon DEF Brimful, Kinds
  <2> QED
    BY <1>2, <2>1, <2>2 DEF Typed, Brimful
<1>5. Typed(r)
  <2>1. /\ DOMAIN r = Fields /\ r.state = "RESPONSE" /\ r.buf = Feed(h.buf, n) /\ r.stream = h.stream
        /\ r.written = h.written /\ r.plan = h.plan /\ r.verdict = h.verdict
        /\ r.end = h.end /\ r.clean = h.clean /\ r.torn = h.torn
    BY <1>2, <1>3 DEF Brimful, Kinds, Fields
  <2> HIDE DEF r
  <2>2. Kinds(r)
    BY <1>2, <2>1, Zenon DEF Brimful, Kinds
  <2>3. Feed(h.buf, n).data = h.buf.data /\ Feed(h.buf, n).capacity = h.buf.capacity
    BY <1>2 DEF Feed, Brimful, BufferFields
  <2> QED
    BY <1>2, <2>1, <2>2, <2>3 DEF Typed, Brimful
<1> QED
  BY <1>4, <1>5 DEF g, r, x, h

\* A connection just accepted,
LEMMA FreshTyped == Fine(Fresh) /\ Typed(Fresh)
<1> DEFINE r == Fresh
           b == Buffer(Capacity)
<1>1. /\ DOMAIN r = Fields /\ r.state = "REQ_LINE" /\ r.buf = b /\ r.stream = NoStream
      /\ r.written = 0 /\ r.plan = <<>> /\ r.verdict = "none"
      /\ r.end = "none" /\ r.clean = FALSE /\ r.torn = FALSE
  BY DEF Fresh, Fields
<1>2. Room(b)
  <2>1. DOMAIN b = BufferFields /\ b.data = <<>> /\ b.capacity = Capacity
    BY DEF Buffer, BufferFields
  <2> HIDE DEF b
  <2> QED
    BY <2>1, TransferAssumption DEF Room
<1>3. <<>> \in Seq(STRING) /\ "none" \in STRING /\ 0 \in Nat
  BY WordsAssumption
<1> HIDE DEF r, b
<1>4. Fine(r)
  BY <1>1, <1>2, <1>3, NewStream DEF Fine, Kinds
<1>5. Typed(r)
  BY <1>1, <1>4, FineTyped
<1> QED
  BY <1>4, <1>5 DEF r

\* one that was let go,
LEMMA DropTyped ==
  ASSUME NEW k
  PROVE  Typed(Drop(k))
<1> DEFINE r == Drop(k)
           f == Fresh
<1>1. Fine(f)
  BY FreshTyped
<1>2. r = [f EXCEPT !.state = "CLOSED", !.status = k.status, !.end = "dropped"]
  BY Zenon DEF Drop
<1> HIDE DEF f
<1>3. /\ DOMAIN r = Fields /\ r.state = "CLOSED" /\ r.buf = f.buf /\ r.stream = f.stream
      /\ r.written = f.written /\ r.plan = f.plan /\ r.verdict = f.verdict
      /\ r.end = "dropped" /\ r.clean = f.clean /\ r.torn = f.torn
  BY <1>1, <1>2 DEF Fine, Kinds, Fields
<1>4. "dropped" \in STRING
  BY WordsAssumption
<1> HIDE DEF r
<1>5. Fine(r)
  BY <1>1, <1>3, <1>4, Zenon DEF Fine, Kinds
<1>6. Typed(r)
  BY <1>3, <1>5, FineTyped
<1> QED
  BY <1>6 DEF r

\* one whose answer was cut,
LEMMA TornTyped ==
  ASSUME NEW k, Typed(k)
  PROVE  Typed([k EXCEPT !.torn = TRUE])
<1> DEFINE r == [k EXCEPT !.torn = TRUE]
<1>1. /\ DOMAIN r = Fields /\ r.state = k.state /\ r.buf = k.buf /\ r.stream = k.stream
      /\ r.written = k.written /\ r.plan = k.plan /\ r.verdict = k.verdict
      /\ r.end = k.end /\ r.clean = k.clean /\ r.torn = TRUE
  BY DEF Typed, Kinds, Fields
<1> HIDE DEF r
<1>2. Kinds(r)
  BY <1>1, Zenon DEF Typed, Kinds
<1>3. Typed(r)
  BY <1>1, <1>2, Zenon DEF Typed
<1> QED
  BY <1>3 DEF r

\* and one whose pending bytes reach the file.
LEMMA FlushTyped ==
  ASSUME NEW k, Typed(k), NEW n
  PROVE  Typed([k EXCEPT !.stream.pos = @ + n, !.stream.pending = SubSeq(@, n + 1, Len(@))])
<1> DEFINE p == SubSeq(k.stream.pending, n + 1, Len(k.stream.pending))
           t == [k.stream EXCEPT !.pos = @ + n, !.pending = p]
           r == [k EXCEPT !.stream.pos = @ + n, !.stream.pending = SubSeq(@, n + 1, Len(@))]
<1>1. /\ DOMAIN r = Fields /\ r.state = k.state /\ r.buf = k.buf /\ r.stream = t
      /\ r.written = k.written /\ r.plan = k.plan /\ r.verdict = k.verdict
      /\ r.end = k.end /\ r.clean = k.clean /\ r.torn = k.torn
  BY DEF Typed, Kinds, Streamed, StreamFields, Fields
<1>2. /\ DOMAIN t = StreamFields /\ t.mode = k.stream.mode /\ t.file = k.stream.file
      /\ t.eof = k.stream.eof /\ t.good = k.stream.good
  <2> HIDE DEF p
  <2> QED
    BY DEF Typed, Kinds, Streamed, StreamFields
<1> HIDE DEF r, t
<1>3. Streamed(t)
  BY <1>2, Zenon DEF Typed, Kinds, Streamed
<1>4. Kinds(r)
  BY <1>1, <1>3, Zenon DEF Typed, Kinds
<1>5. Typed(r)
  BY <1>1, <1>4, Zenon DEF Typed
<1> QED
  BY <1>5 DEF r

\* Every connection is typed, and the files are files of the site.
AllTyped ==
    /\ asked \in {w.asked : w \in Worlds}
    /\ DOMAIN disk \subseteq Files
    /\ \A c \in Present : Typed(conn[c])

\* They are at the start,
LEMMA InitTyped == TransferInit => AllTyped
<1> SUFFICES ASSUME TransferInit PROVE AllTyped
  OBVIOUS
<1>1. PICK w \in Worlds : asked = w.asked /\ disk = w.disk
  BY DEF TransferInit
<1>2. DOMAIN disk \subseteq Files
  BY <1>1, TransferAssumption
<1>3. \A c \in Present : conn[c] = Fresh
  BY DEF TransferInit
<1> QED
  BY <1>1, <1>2, <1>3, FreshTyped, Zenon DEF AllTyped

\* when a handler leaves its connection typed,
LEMMA SetTyped ==
  ASSUME AllTyped, NEW c \in Present, NEW k, Typed(k), NEW files, DOMAIN files \subseteq Files,
         Set(c, k, files)
  PROVE  AllTyped'
<1>1. asked' = asked /\ disk' = files /\ conn'[c] = k
  BY DEF Set
<1>2. ASSUME NEW d \in Present, d # c PROVE Typed(conn'[d])
  <2>1. Typed(conn[d])
    BY DEF AllTyped
  <2>2. conn'[d] = [conn[d] EXCEPT !.torn = TRUE] \/ conn'[d] = conn[d]
    BY <1>2, Zenon DEF Set
  <2>3. Typed([conn[d] EXCEPT !.torn = TRUE])
    BY <2>1, TornTyped
  <2> QED
    BY <2>1, <2>2, <2>3
<1>3. \A d \in Present : Typed(conn'[d])
  BY <1>1, <1>2
<1> QED
  BY <1>1, <1>3 DEF AllTyped, Present

\* A file that is opened is one of the files.
LEMMA BecomeTyped ==
  ASSUME AnswersOwed, AllTyped, NEW c \in Present, NEW r, Typed(r), Become(c, r)
  PROVE  AllTyped'
<1> DEFINE s == conn[c].stream
           t == r.stream
           files == DiskAfter(s, t)
           over == [disk EXCEPT ![s.file] = Overlay(@, s.pos, s.pending)]
           new == Truncated(t.file)
<1>1. DOMAIN disk \subseteq Files
  BY DEF AllTyped
<1>2. DOMAIN over = DOMAIN disk
  OBVIOUS
<1>3. DOMAIN new = {t.file} \cup DOMAIN disk
  BY DEF Truncated
<1>4. \/ files = over
      \/ Writes(t) /\ files = new
      \/ files = disk
  BY Zenon DEF DiskAfter
<1>5. Writes(t) => t.file \in Files
  BY DEF Writes, Typed, Kinds, Streamed
<1>6. Set(c, r, files)
  BY DEF Become
<1> HIDE DEF over, new, files
<1>7. DOMAIN files \subseteq Files
  BY <1>1, <1>2, <1>3, <1>4, <1>5
<1> QED
  BY <1>6, <1>7, SetTyped

\* Every step leaves them typed.
LEMMA StepTyped ==
    BodiesInOrder /\ AnswersOwed /\ AllTyped /\ [TransferNext]_vars => AllTyped'
<1> SUFFICES ASSUME BodiesInOrder, AnswersOwed, AllTyped, [TransferNext]_vars PROVE AllTyped'
  OBVIOUS
<1>1. CASE UNCHANGED vars
  BY <1>1 DEF vars, AllTyped, Present
<1>2. ASSUME NEW c \in Present,
             \/ Handle(c) \/ CloseSide(c) \/ CloseStdin(c) \/ Timeout(c) \/ Leave(c) \/ Flush(c)
      PROVE  AllTyped'
  <2> DEFINE k == conn[c]
             q == asked[c]
  <2>1. /\ q \in Requests /\ Filed(disk) /\ Typed(k)
        /\ Owes(k, q, disk) /\ Shaped(k, q, disk)
        /\ k.taken \in 0..Len(Sent(q)) /\ k.taken \in Nat /\ Len(Sent(q)) \in Nat
    <3>1. /\ q \in Requests /\ Filed(disk) /\ Typed(k)
          /\ Owes(k, q, disk) /\ Shaped(k, q, disk)
          /\ k.taken \in 0..Len(Sent(q))
      BY DEF BodiesInOrder, InOrder, AnswersOwed, Owes, AllTyped
    <3>2. Len(Sent(q)) \in Nat
      BY <3>1, SentIs
    <3> HIDE DEF k, q
    <3> QED
      BY <3>1, <3>2
  <2>2. k.state \notin {"RESPONSE", "CLOSED"} => Sound(k, q, disk) /\ Fine(k)
    <3> HIDE DEF k, q
    <3> QED
      BY <2>1 DEF Owes, Begun, Typed, Fine, Sound
  <2>3. ASSUME NEW r, Typed(r), Become(c, r) PROVE AllTyped'
    BY <2>3, BecomeTyped
  <2>4. ASSUME NEW room, NEW n \in Readable(c, room)
        PROVE  n \in Nat /\ k.taken + n <= Len(Sent(q)) /\ n <= room
    <3>1. n \in 1..Len(Sent(q)) - k.taken /\ n <= room
      BY <2>4 DEF Readable
    <3> HIDE DEF k, q
    <3> QED
      BY <2>1, <3>1
  <2>5. CASE HandleHead(c)
    <3>1. k.state \in {"REQ_LINE", "REQ_HEADERS"}
      BY <2>5 DEF HandleHead
    <3>2. PICK n \in Readable(c, FillCapacity(k.buf)) : Become(c, handle_head(k, q, n, disk))
      BY <2>5 DEF HandleHead
    <3>3. n \in Nat /\ k.taken + n <= Len(Sent(q)) /\ n <= FillCapacity(k.buf)
      BY <2>4
    <3> HIDE DEF k, q
    <3>4. Starts(k, q, disk)
      BY <2>1, <2>2, <3>1 DEF Owes, Sound, Starts
    <3>5. Typed(handle_head(k, q, n, disk))
      BY <2>1, <2>2, <3>1, <3>3, <3>4, HeadTyped
    <3> QED
      BY <2>3, <3>2, <3>5, Zenon
  <2>6. CASE HandleDiscard(c) \/ CloseSide(c)
    <3>1. PICK n \in Nat : k.state = "DISCARD_BODY" /\ Become(c, handle_discard(k, q, n, disk))
      <4>1. ASSUME HandleDiscard(c)
            PROVE  \E n \in Nat : k.state = "DISCARD_BODY" /\ Become(c, handle_discard(k, q, n, disk))
        <5>1. PICK n \in Readable(c, Capacity - 1) :
                 k.state = "DISCARD_BODY" /\ Become(c, handle_discard(k, q, n, disk))
          BY <4>1, Zenon DEF HandleDiscard
        <5>2. n \in Nat
          BY <2>4
        <5> QED
          BY <5>1, <5>2, Zenon
      <4>2. ASSUME CloseSide(c)
            PROVE  \E n \in Nat : k.state = "DISCARD_BODY" /\ Become(c, handle_discard(k, q, n, disk))
        <5>1. 0 \in Nat /\ k.state = "DISCARD_BODY" /\ Become(c, handle_discard(k, q, 0, disk))
          BY <4>2 DEF CloseSide
        <5> QED
          BY <5>1, Zenon
      <4> QED
        BY <2>6, <4>1, <4>2
    <3> HIDE DEF k, q
    <3>2. Typed(handle_discard(k, q, n, disk))
      BY <2>1, <2>2, <3>1, DiscardTyped
    <3> QED
      BY <2>3, <3>1, <3>2, Zenon
  <2>7. CASE HandleBody(c)
    <3>1. k.state = "REQ_BODY"
      BY <2>7 DEF HandleBody
    <3>2. PICK n \in Readable(c, FillCapacity(k.buf)) :
             Become(c, IF q.route = "script" THEN read_cgi_body(k, q, n) ELSE handle_post(k, q, n, disk))
      BY <2>7 DEF HandleBody
    <3>3. n \in Nat /\ k.taken + n <= Len(Sent(q)) /\ n <= FillCapacity(k.buf)
      BY <2>4
    <3> HIDE DEF k, q
    <3>4. Typed(handle_post(k, q, n, disk)) /\ Typed(read_cgi_body(k, q, n))
      BY <2>1, <2>2, <3>1, <3>3, BodyTyped
    <3> QED
      BY <2>3, <3>2, <3>4, Zenon
  <2>8. CASE HandleCgiInput(c)
    <3>1. k.state = "CGI_TRANSMIT_BODY"
      BY <2>8 DEF HandleCgiInput
    <3>2. PICK n \in 0..FeedCapacity(k.buf) : Become(c, handle_cgi_input(k, q, n))
      BY <2>8 DEF HandleCgiInput
    <3> HIDE DEF k, q
    <3>3. n \in Nat
      BY <3>2
    <3>4. Typed(handle_cgi_input(k, q, n))
      BY <2>2, <3>1, <3>3, InputTyped
    <3> QED
      BY <2>3, <3>2, <3>4, Zenon
  <2>9. CASE HandleCgiOutput(c)
    <3> DEFINE room == FillCapacity(k.buf)
               left == Len(q.output) - k.heard
    <3>1. k.state \in {"CGI_HEADERS", "CGI_BODY"}
      BY <2>9 DEF HandleCgiOutput
    <3>2. PICK n \in 0..left :
             /\ IF room > 1 THEN n <= room /\ (n = 0 => left = 0) ELSE n = 0
             /\ Become(c, handle_cgi_output(k, q, n, room > 1 /\ n = 0, disk))
      BY <2>9, Zenon DEF HandleCgiOutput
    <3> HIDE DEF k, q
    <3>3. n <= room
      <4>1. k.buf.capacity \in Nat /\ Len(k.buf.data) \in Nat /\ Len(k.buf.data) < k.buf.capacity
        BY <2>2, <3>1 DEF Fine, Room
      <4>2. room \in Int /\ 0 <= room
        BY <4>1 DEF FillCapacity
      <4>3. n <= room \/ n = 0
        BY <3>2, Zenon
      <4> HIDE DEF room
      <4> QED
        BY <4>2, <4>3
    <3>4. Typed(handle_cgi_output(k, q, n, room > 1 /\ n = 0, disk))
      BY <2>1, <2>2, <3>1, <3>3, OutputTyped
    <3> QED
      BY <2>3, <3>2, <3>4, Zenon
  <2>10. CASE HandleResponse(c)
    <3> DEFINE h == Refilled(k, disk)
               x == IF Finished(h) THEN "sent" ELSE "stuck"
    <3>1. k.state = "RESPONSE"
      BY <2>10 DEF HandleResponse
    <3>2. \/ Become(c, Delete(h, x))
          \/ \E n : Become(c, [h EXCEPT !.answer = @ \o SubSeq(Unfed(h.buf), 1, n), !.buf = Feed(@, n)])
      BY <2>10, Zenon DEF HandleResponse
    <3>3. x \in STRING
      BY WordsAssumption
    <3> HIDE DEF k, q, x
    <3>4. Answers(k, disk)
      BY <2>1, <3>1 DEF Owes
    <3>5. /\ Typed(Delete(h, x))
          /\ \A n : Typed([h EXCEPT !.answer = @ \o SubSeq(Unfed(h.buf), 1, n), !.buf = Feed(@, n)])
      BY <2>1, <3>1, <3>3, <3>4, ResponseTyped
    <3> HIDE DEF h
    <3> QED
      BY <2>3, <3>2, <3>5, Zenon
  <2>11. CASE CloseStdin(c)
    <3>1. k.state = "CGI_TRANSMIT_BODY" /\ Become(c, Collect(k))
      BY <2>11 DEF CloseStdin
    <3> HIDE DEF k, q
    <3>2. Typed(Collect(k))
      BY <2>2, <3>1, CollectFine, FineTyped
    <3> QED
      BY <2>3, <3>1, <3>2, Zenon
  <2>12. CASE Timeout(c)
    <3> DEFINE late == [k EXCEPT !.status = "408"]
    <3>1. \/ /\ k.state \in {"REQ_LINE", "REQ_HEADERS", "REQ_BODY"}
             /\ Become(c, handle_setup(late, q, disk))
          \/ k.state = "DISCARD_BODY" /\ Become(c, AnswerPage(k, disk))
          \/ Become(c, Drop(k))
      BY <2>12, Zenon DEF Timeout
    <3> HIDE DEF k, q
    <3>2. CASE k.state \in {"REQ_LINE", "REQ_HEADERS", "REQ_BODY"} /\ Become(c, handle_setup(late, q, disk))
      <4>1. /\ DOMAIN late = Fields /\ late.buf = k.buf /\ late.headers = k.headers /\ late.body = k.body
            /\ late.temp = k.temp /\ late.answer = k.answer /\ late.status = "408" /\ late.heard = k.heard
            /\ late.stream = k.stream /\ late.written = k.written /\ late.plan = k.plan
            /\ late.verdict = k.verdict
            /\ late.end = k.end /\ late.clean = k.clean /\ late.torn = k.torn
        BY <2>1 DEF Shaped, Fields
      <4>2. "408" \in STRING
        BY WordsAssumption
      <4>3. Begun(k, q, disk) /\ Fine(k)
        BY <2>2, <3>2 DEF Sound
      <4> HIDE DEF late
      <4>4. Begun(late, q, disk)
        BY <4>1, <4>2, <4>3, Zenon DEF Begun, Shaped, Silent
      <4>5. Fine(late)
        BY <4>1, <4>3, Zenon DEF Fine, Kinds
      <4>6. handle_setup(late, q, disk) = AnswerError(late, q, disk)
        BY <4>1 DEF handle_setup
      <4>7. Typed(handle_setup(late, q, disk))
        BY <2>1, <4>4, <4>5, <4>6, AnswerErrorTyped DEF Sound
      <4> QED
        BY <2>3, <3>2, <4>7, Zenon
    <3>3. CASE k.state = "DISCARD_BODY" /\ Become(c, AnswerPage(k, disk))
      <4>1. Begun(k, q, disk) /\ Fine(k)
        BY <2>2, <3>3 DEF Sound
      <4>2. Fine(AnswerPage(k, disk)) /\ AnswerPage(k, disk).state = "RESPONSE"
        BY <2>1, <4>1, AnswersFine
      <4>3. Typed(AnswerPage(k, disk))
        BY <4>2, FineTyped
      <4> QED
        BY <2>3, <3>3, <4>3, Zenon
    <3>4. CASE Become(c, Drop(k))
      BY <2>3, <3>4, DropTyped, Zenon
    <3> HIDE DEF late
    <3> QED
      BY <3>1, <3>2, <3>3, <3>4 DEF late
  <2>13. CASE Leave(c)
    <3>1. Become(c, Drop(k))
      BY <2>13 DEF Leave
    <3> HIDE DEF k, q
    <3> QED
      BY <2>3, <3>1, DropTyped, Zenon
  <2>14. CASE Flush(c)
    <3> DEFINE s == k.stream
    <3>1. PICK n \in 1..Len(s.pending) :
             Set(c, [k EXCEPT !.stream.pos = @ + n, !.stream.pending = SubSeq(@, n + 1, Len(@))],
                 [disk EXCEPT ![s.file] = Overlay(@, s.pos, SubSeq(s.pending, 1, n))])
      BY <2>14 DEF Flush
    <3> DEFINE r == [k EXCEPT !.stream.pos = @ + n, !.stream.pending = SubSeq(@, n + 1, Len(@))]
               files == [disk EXCEPT ![s.file] = Overlay(@, s.pos, SubSeq(s.pending, 1, n))]
    <3>2. Typed(r)
      <4> HIDE DEF k, q
      <4> QED
        BY <2>1, FlushTyped
    <3>3. DOMAIN files \subseteq Files
      <4>1. DOMAIN files = DOMAIN disk
        OBVIOUS
      <4> HIDE DEF files
      <4> QED
        BY <4>1 DEF AllTyped
    <3>4. Set(c, r, files)
      BY <3>1
    <3> HIDE DEF k, r, files
    <3> QED
      BY <3>2, <3>3, <3>4, SetTyped
  <2> QED
    BY <1>2, <2>5, <2>6, <2>7, <2>8, <2>9, <2>10, <2>11, <2>12, <2>13, <2>14 DEF Handle
<1> QED
  BY <1>1, <1>2 DEF TransferNext

\* The buffer is in bounds where positions are taken from it, and a stream that is
\* open has its file.
LEMMA TypedSaysSo == BodiesInOrder /\ AnswersOwed /\ AllStored /\ AllTyped => TransferTypeOK
<1> SUFFICES ASSUME BodiesInOrder, AnswersOwed, AllStored, AllTyped PROVE TransferTypeOK
  OBVIOUS
<1>1. asked \in {w.asked : w \in Worlds} /\ DOMAIN disk \subseteq Files
  BY DEF AllTyped
<1>2. \A f \in DOMAIN disk : disk[f] \in Seq(STRING)
  BY DEF AnswersOwed, Filed
<1>3. DOMAIN conn = Present
  BY DEF AnswersOwed
<1>4. ASSUME NEW c \in Present
      PROVE  /\ ConnOK(conn[c])
             /\ conn[c].state \notin {"CGI_HEADERS", "CGI_BODY", "CLOSED"} => InBounds(conn[c].buf)
             /\ conn[c].state \notin {"RESPONSE", "CLOSED"} =>
                   Len(conn[c].buf.data) < conn[c].buf.capacity
             /\ conn[c].stream.file # "temp" => conn[c].stream.file \in DOMAIN disk
  <2> DEFINE k == conn[c]
             q == asked[c]
  <2>1. q \in Requests /\ InOrder(k, q) /\ Owes(k, q, disk) /\ Laid(k, disk) /\ Typed(k)
    BY DEF BodiesInOrder, AnswersOwed, AllStored, AllLaid, AllTyped
  <2> HIDE DEF k, q
  <2>2. Shaped(k, q, disk) /\ Solid(k.buf) /\ Kinds(k) /\ Streamed(k.stream) /\ StreamIs(k.stream, disk)
    BY <2>1 DEF Owes, Shaped, Typed, Kinds
  <2>3. ConnOK(k)
    <3>1. k.state \in States /\ k.taken \in Nat /\ k.start \in Nat /\ k.given \in Seq(STRING)
      <4>1. Len(Sent(q)) \in Nat
        BY <2>1, SentIs
      <4> QED
        BY <2>1, <4>1 DEF InOrder
    <3>2. /\ k.headers \in Seq(STRING) /\ k.body \in Seq(STRING) /\ k.temp \in Seq(STRING)
          /\ k.answer \in Seq(STRING) /\ k.status \in STRING /\ k.heard \in Nat
      <4>1. Len(q.output) \in Nat
        BY <2>1 DEF Requests
      <4> QED
        BY <2>2, <4>1 DEF Shaped
    <3>3. k.plan \in Seq(STRING) /\ k.written \in Nat /\ k.verdict \in STRING /\ k.end \in STRING
      BY <2>2 DEF Kinds
    <3>4. k.buf.data \in Seq(STRING) /\ k.buf.writepos \in Int /\ k.buf.capacity \in Nat
      BY <2>1, <2>2 DEF Solid, Typed, Room
    <3>5. {k.clean, k.torn} \subseteq BOOLEAN
      BY <2>2 DEF Kinds
    <3>6. {k.stream.eof, k.stream.good} \subseteq BOOLEAN
      BY <2>2 DEF Streamed
    <3>7. k.stream.mode \in {"none", "in", "out"} /\ k.stream.file \in Files \cup {"temp"}
      BY <2>2 DEF Streamed
    <3>8. k.stream.pos \in Nat /\ k.stream.pending \in Seq(STRING)
      BY <2>2 DEF StreamIs
    <3>9. {k.headers, k.body, k.temp, k.given, k.answer, k.plan} \subseteq Seq(STRING)
      BY <3>1, <3>2, <3>3
    <3>10. {k.written, k.heard, k.taken, k.start} \subseteq Nat
      BY <3>1, <3>2, <3>3
    <3>11. {k.status, k.verdict, k.end} \subseteq STRING
      BY <3>2, <3>3
    <3> QED
      BY <3>1, <3>4, <3>5, <3>6, <3>7, <3>8, <3>9, <3>10, <3>11, Zenon DEF ConnOK
  <2>4. k.state \notin {"CGI_HEADERS", "CGI_BODY", "CLOSED"} =>
           Orderly(k.buf) /\ Len(k.buf.data) <= k.buf.capacity
    <3>1. CASE k.state \in {"REQ_LINE", "REQ_HEADERS", "REQ_BODY", "CGI_TRANSMIT_BODY"}
      <4>1. Orderly(k.buf)
        <5>1. Reads(k, q) => Orderly(k.buf)
          BY DEF Reads, Lastly, Orderly
        <5>2. k.state \in {"REQ_LINE", "REQ_HEADERS"} => Reads(k, q)
          BY <2>1 DEF InOrder
        <5>3. k.state \in {"REQ_BODY", "CGI_TRANSMIT_BODY"} => Orderly(k.buf)
          BY <2>1 DEF InOrder, Passes
        <5> QED
          BY <3>1, <5>1, <5>2, <5>3
      <4>2. Room(k.buf)
        BY <2>1, <3>1 DEF Typed
      <4> QED
        BY <4>1, <4>2 DEF Room
    <3>2. CASE k.state = "DISCARD_BODY"
      <4>1. Room(k.buf) /\ k.buf.writepos = 0
        BY <2>1, <3>2 DEF Typed
      <4> QED
        BY <4>1 DEF Room, Orderly
    <3>3. CASE k.state = "RESPONSE"
      BY <2>1, <3>3 DEF Owes, Answers, Typed
    <3>4. k.state \in States
      BY <2>1 DEF InOrder
    <3> QED
      BY <3>1, <3>2, <3>3, <3>4 DEF States
  <2>5. k.state \notin {"CGI_HEADERS", "CGI_BODY", "CLOSED"} => InBounds(k.buf)
    <3>1. ASSUME Orderly(k.buf), Len(k.buf.data) <= k.buf.capacity PROVE InBounds(k.buf)
      <4>1. k.buf.writepos \in 0..Len(k.buf.data) /\ Len(k.buf.data) \in Nat
        BY <3>1 DEF Orderly
      <4> QED
        BY <3>1, <4>1 DEF InBounds
    <3> QED
      BY <2>4, <3>1
  <2>6. k.state \notin {"RESPONSE", "CLOSED"} => Len(k.buf.data) < k.buf.capacity
    BY <2>1 DEF Typed, Room
  <2>7. k.stream.file # "temp" => k.stream.file \in DOMAIN disk
    BY <2>1, <2>2 DEF Laid, Writes, StreamIs, Streamed
  <2> QED
    BY <2>3, <2>5, <2>6, <2>7 DEF k
<1> QED
  BY <1>1, <1>2, <1>3, <1>4, Zenon DEF TransferTypeOK

\* Whatever the size of the buffer, the files, the requests and the scripts, and
\* whatever is read and written at a time: everything has its type; where a request
\* is read or answered the positions of the buffer are in order and in its memory,
\* with room for the NUL after what was read (fill() and fill_capacity()); and a
\* stream is open on a file that exists.
THEOREM TransferTypeCorrect == TransferSpec => []TransferTypeOK
<1>1. TransferSpec => []BodiesInOrder
  BY InitInOrder, StepInOrder, PTL DEF TransferSpec
<1>2. TransferSpec => []AnswersOwed
  BY <1>1, InitOwes, StepOwes, PTL DEF TransferSpec
<1>3. TransferSpec => []AllStored
  BY <1>1, <1>2, InitStored, StepStored, PTL DEF TransferSpec
<1>4. TransferSpec => []AllTyped
  BY <1>1, <1>2, InitTyped, StepTyped, PTL DEF TransferSpec
<1> QED
  BY <1>1, <1>2, <1>3, <1>4, TypedSaysSo, PTL
=============================================================================
