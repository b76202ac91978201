----------------------------- MODULE ScratchBuffer -----------------------------
(* ScratchBuffer: the one buffer of a connection. readpos, where the next byte  *)
(* read goes, is the length of data; the bytes from writepos on have not been   *)
(* written yet. A position is an integer here: in the code both are size_t and  *)
(* their difference is taken as an int.                                         *)
EXTENDS Integers, Sequences, FiniteSetsExt

\* Bytes are strings, of which the code compares these three with others.
CR == "cr"
LF == "lf"
NUL == "nul"

\* What a position before the buffer holds: any byte.
Stray == "stray"

Buffer(size) == [data |-> <<>>, writepos |-> 0, capacity |-> size]

\* Mutant of FillCapacity: no room for the NUL after the bytes.
FillCapacityAll(b) == b.capacity - Len(b.data)

FillCapacity(b) == b.capacity - Len(b.data) - 1
FeedCapacity(b) == Len(b.data) - b.writepos

\* What feed() writes, if all of it is taken.
Unfed(b) ==
    [i \in 1..FeedCapacity(b) |->
        IF b.writepos + i \in DOMAIN b.data THEN b.data[b.writepos + i] ELSE Stray]

Fill(b, bytes) == [b EXCEPT !.data = @ \o bytes]
Feed(b, n) == [b EXCEPT !.writepos = @ + n]
Clear(b) == [b EXCEPT !.data = <<>>, !.writepos = 0]

\* erase(0, n); what was written of these bytes is taken off all the same.
Erase(b, n) ==
    [b EXCEPT !.data = SubSeq(@, n + 1, Len(@)),
              !.writepos = IF @ > 0 THEN @ - n ELSE @]

\* set_data(): the bytes are not the buffer's own, and fill it to its end.
SetData(bytes) == [data |-> bytes, writepos |-> 0, capacity |-> Len(bytes)]

\* find("\r\n"), every place of it: the search ends at a NUL.
Ends(d) ==
    {i \in 1..Len(d) - 1 : /\ d[i] = CR /\ d[i + 1] = LF
                           /\ \A j \in 1..i - 1 : d[j] # NUL}

\* find('\n'), every place of it.
Feeds(d) == {i \in 1..Len(d) : d[i] = LF /\ \A j \in 1..i - 1 : d[j] # NUL}

\* The positions are in order and inside the memory.
InBounds(b) == 0 <= b.writepos /\ b.writepos <= Len(b.data) /\ Len(b.data) <= b.capacity

=============================================================================
