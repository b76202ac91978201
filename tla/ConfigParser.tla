----------------------------- MODULE ConfigParser -----------------------------
(* Lexer and Grouper: from the text of the configuration to the tree of        *)
(* directives that Http is built from. A file is a sequence of lines, a line a *)
(* sequence of characters. Of the characters only the classes matter that the  *)
(* lexer tells apart: "u" stands for a scheme with its colon, "^" for a        *)
(* character that is neither printable nor a space, every letter for a class.  *)
(* The values of numbers and their units are not modelled.                     *)
EXTENDS Integers, Sequences, SequencesExt, FiniteSetsExt

CONSTANTS
    Lines,      \* the lines a file may be made of
    MaxLines    \* how many it may have

Chars == {" ", ";", "{", "}", "#", "/", "u", "1", "k", "a", "^"}

ASSUME ParserAssumption == Lines \subseteq Seq(Chars) /\ MaxLines \in Nat

VARIABLES
    lines,      \* the file
    ended,      \* whether its last line ends in a newline
    phase,      \* "lex", "group" and "done"
    nline, lineit,              \* Lexer: the line read, the character in it
    tokens,     \* Lexer::tokens
    it, stack, tokenline,       \* Grouper::group()'s variables of these names
    blocks,     \* the BodyDirectives made so far, by the token that opened them
    said,       \* an error was printed
    ret         \* what group() returned

fileVars == <<lines, ended>>
lexVars == <<nline, lineit, tokens>>
groupVars == <<it, stack, tokenline, blocks, said, ret>>
vars == <<fileVars, phase, lexVars, groupVars>>

Main == 0
Block(words) == [words |-> words, simple |-> <<>>, bodies |-> <<>>]

\* One file of up to MaxLines lines.
ParserInit ==
    /\ \E n \in 0..MaxLines : lines \in [1..n -> Lines]
    /\ ended \in BOOLEAN
    /\ phase = "lex"
    /\ nline = 1 /\ lineit = 1      \* load() has read the first line
    /\ tokens = <<>>
    /\ it = 1 /\ stack = <<Main>> /\ tokenline = <<>>
    /\ blocks = [b \in {Main} |-> Block(<<>>)]
    /\ said = FALSE /\ ret = "none"

-----------------------------------------------------------------------------
(* Lexer                                                                      *)

Line(n) == IF n \in DOMAIN lines THEN lines[n] ELSE <<>>

\* stream.eof() after line n was read.
Eof(n) == IF ended THEN n > Len(lines) ELSE n >= Len(lines)

\* The first character of a line, from i on, that is not in S; past the end
\* when there is none.
Past(line, i, S) ==
    Min({j \in i..Len(line) : line[j] \notin S} \cup {Len(line) + 1})

\* The first character, from i on, that is in S.
UpTo(line, i, S) == Past(line, i, Chars \ S)

PastSpaces(line, i) == Past(line, i, {" "})
Blank(n) == PastSpaces(Line(n), 1) > Len(Line(n))

\* The number at i ends before j: digits, a unit, then a space or a semicolon.
\* The end of the line is neither.
NumberEnd(line, i) ==
    LET d == Past(line, i, {"1"}) IN
    IF d <= Len(line) /\ line[d] = "k" THEN d + 1 ELSE d
IsNumber(line, i) ==
    /\ line[i] = "1"
    /\ NumberEnd(line, i) <= Len(line)
    /\ line[NumberEnd(line, i)] \in {" ", ";"}

\* Lexer::lex(): the patterns in the order of their precedence.
Lex(line, i) ==
    LET word == UpTo(line, i, {" ", ";", "^"})
        Token(type, end) == [type |-> type, end |-> end]
    IN  CASE line[i] = ";" -> Token("semicolon", i + 1)
          [] line[i] = "{" -> Token("lcurly", i + 1)
          [] line[i] = "}" -> Token("rcurly", i + 1)
          [] line[i] = "/" -> Token("path", word)
          [] line[i] = "u" -> Token("url", UpTo(line, i, {" ", ";"}))
          [] line[i] = "^" -> Token("invalid", i)
          [] OTHER -> IF IsNumber(line, i) THEN Token("number", NumberEnd(line, i))
                                           ELSE Token("string", word)

\* Where the next character that is no space is read: on this line or on one
\* after it.
NextLine ==
    IF PastSpaces(Line(nline), lineit) <= Len(Line(nline)) THEN nline
    ELSE Min({n \in nline + 1..Len(lines) : ~Blank(n)} \cup {Len(lines) + 1})
NextChar == PastSpaces(Line(NextLine), IF NextLine = nline THEN lineit ELSE 1)

StartGrouping ==
    /\ phase' = "group"
    /\ UNCHANGED <<fileVars, lexVars, groupVars>>

\* lex_file() ends where the file has, or was read to its end. load() does not
\* ask whether it returned true.
LexEnd ==
    /\ phase = "lex"
    /\ Eof(nline) \/ NextLine > Len(lines)
    /\ StartGrouping

LexInvalid ==
    /\ phase = "lex" /\ ~Eof(nline) /\ NextLine <= Len(lines)
    /\ Lex(Line(NextLine), NextChar).type = "invalid"
    /\ StartGrouping

\* Mutant of LexComment: only the mark is skipped.
LexCommentMark ==
    /\ phase = "lex" /\ ~Eof(nline) /\ NextLine <= Len(lines)
    /\ Line(NextLine)[NextChar] = "#"
    /\ nline' = NextLine /\ lineit' = NextChar + 1
    /\ UNCHANGED <<fileVars, phase, tokens, groupVars>>

LexComment ==
    /\ phase = "lex" /\ ~Eof(nline) /\ NextLine <= Len(lines)
    /\ Line(NextLine)[NextChar] = "#"
    /\ nline' = NextLine /\ lineit' = Len(Line(NextLine)) + 1
    /\ UNCHANGED <<fileVars, phase, tokens, groupVars>>

LexToken ==
    /\ phase = "lex" /\ ~Eof(nline) /\ NextLine <= Len(lines)
    /\ Line(NextLine)[NextChar] # "#"
    /\ LET token == Lex(Line(NextLine), NextChar) IN
       /\ token.type # "invalid"
       /\ nline' = NextLine /\ lineit' = token.end
       /\ tokens' = Append(tokens, token.type)
    /\ UNCHANGED <<fileVars, phase, groupVars>>

-----------------------------------------------------------------------------
(* Grouper::group(). A word is known by its place among the tokens; the block  *)
(* that a parent receives a copy of when it is closed is not changed any more, *)
(* and is known by the place of its brace.                                     *)

Top == stack[Len(stack)]
Return(r) ==
    /\ phase' = "done" /\ ret' = r
    /\ UNCHANGED <<fileVars, lexVars, it, stack, tokenline, blocks>>
Step == it' = it + 1 /\ UNCHANGED <<fileVars, phase, lexVars, ret>>
At(types) == phase = "group" /\ it <= Len(tokens) /\ tokens[it] \in types

NamedByString == tokenline # <<>> /\ tokens[tokenline[1]] = "string"

\* A directive of a name only, or whose name is no string, is reported and
\* dropped.
Semicolon ==
    /\ At({"semicolon"})
    /\ IF Len(tokenline) > 1 /\ NamedByString
       THEN /\ blocks' = [blocks EXCEPT ![Top].simple = Append(@, tokenline)]
            /\ UNCHANGED said
       ELSE said' = TRUE /\ UNCHANGED blocks
    /\ tokenline' = <<>>
    /\ Step /\ UNCHANGED stack

OpenBlock ==
    /\ At({"lcurly"}) /\ NamedByString
    /\ stack' = Append(stack, it)
    /\ blocks' = [b \in DOMAIN blocks \cup {it} |->
                      IF b = it THEN Block(tokenline) ELSE blocks[b]]
    /\ tokenline' = <<>>
    /\ Step /\ UNCHANGED said

\* A block whose name is no string is reported and not opened. The brace of a
\* block without a name asks for the front of an empty vector: what is found is
\* the type of a token that was there, or nothing that can be read.
RefuseBlock ==
    /\ At({"lcurly"}) /\ ~NamedByString /\ it > 1
    /\ said' = TRUE /\ tokenline' = <<>>
    /\ Step /\ UNCHANGED <<stack, blocks>>
NamelessBlock ==
    /\ At({"lcurly"}) /\ tokenline = <<>>
    /\ Return("died") /\ UNCHANGED said

\* Mutant of CloseBlock: the words before the brace are not looked at.
CloseBlockUnfinished ==
    /\ At({"rcurly"}) /\ Len(stack) > 1
    /\ blocks' = [blocks EXCEPT ![stack[Len(stack) - 1]].bodies = Append(@, Top)]
    /\ stack' = SubSeq(stack, 1, Len(stack) - 1)
    /\ Step /\ UNCHANGED <<said, tokenline>>

\* Mutant of CloseBlock: the block goes to the outermost one.
CloseBlockInMain ==
    /\ At({"rcurly"}) /\ Len(stack) > 1 /\ tokenline = <<>>
    /\ blocks' = [blocks EXCEPT ![Main].bodies = Append(@, Top)]
    /\ stack' = SubSeq(stack, 1, Len(stack) - 1)
    /\ Step /\ UNCHANGED <<said, tokenline>>

CloseBlock ==
    /\ At({"rcurly"}) /\ Len(stack) > 1 /\ tokenline = <<>>
    /\ blocks' = [blocks EXCEPT ![stack[Len(stack) - 1]].bodies = Append(@, Top)]
    /\ stack' = SubSeq(stack, 1, Len(stack) - 1)
    /\ Step /\ UNCHANGED <<said, tokenline>>

\* Mutant of BadClose: a brace too many is passed over.
SkipBadClose ==
    /\ At({"rcurly"}) /\ (Len(stack) = 1 \/ tokenline # <<>>)
    /\ IF Len(stack) = 1
       THEN Step /\ said' = TRUE /\ UNCHANGED <<stack, tokenline, blocks>>
       ELSE Return("false") /\ said' = TRUE

BadClose ==
    /\ At({"rcurly"}) /\ (Len(stack) = 1 \/ tokenline # <<>>)
    /\ Return("false") /\ said' = TRUE

Word ==
    /\ At({"string", "number", "path", "url"})
    /\ tokenline' = Append(tokenline, it)
    /\ Step /\ UNCHANGED <<stack, blocks, said>>

GroupEnd ==
    /\ phase = "group" /\ it > Len(tokens)
    /\ IF tokenline # <<>> \/ Len(stack) > 1
       THEN Return("false") /\ said' = TRUE
       ELSE Return("true") /\ UNCHANGED said

ParserNext ==
    \/ LexEnd \/ LexInvalid \/ LexComment \/ LexToken
    \/ Semicolon \/ OpenBlock \/ RefuseBlock \/ NamelessBlock
    \/ CloseBlock \/ BadClose \/ Word \/ GroupEnd
    \/ phase = "done" /\ UNCHANGED vars

ParserSpec == ParserInit /\ [][ParserNext]_vars

-----------------------------------------------------------------------------
(* What a reader of the file sees                                              *)

\* The file read from left to right, one character after the other: the tokens
\* that ended so far and what the next character is part of.
Begin(out, c) ==
    LET class == CASE c \in {"a", "k"} -> "string"
                   [] c = "1" -> "number"
                   [] c = "/" -> "path"
                   [] c = "u" -> "url"
                   [] c = "#" -> "comment"
                   [] c = "^" -> "stuck"
                   [] OTHER -> "gap"
        mark == CASE c = ";" -> <<"semicolon">>
                  [] c = "{" -> <<"lcurly">>
                  [] c = "}" -> <<"rcurly">>
                  [] OTHER -> <<>>
    IN  [out |-> out \o mark, in |-> class]

\* A word ends at a space or a semicolon, and but for a url at what cannot be
\* read. A number is one only if a space or a semicolon ends it, with its unit.
InWord == {"string", "number", "unit", "path", "url"}
EndsWord(in, c) == c \in {" ", ";"} \/ (c = "^" /\ in # "url")
TypeOf(in, c) ==
    IF in \in {"number", "unit"}
    THEN IF c \in {" ", ";"} THEN "number" ELSE "string"
    ELSE in
GoesOn(in, c) ==
    CASE in \in {"path", "url"} -> in
      [] in = "number" /\ c = "1" -> "number"
      [] in = "number" /\ c = "k" -> "unit"
      [] OTHER -> "string"

Read(state, c) ==
    LET in == state.in IN
    CASE in \in {"comment", "stuck"} -> state
      [] in = "gap" -> Begin(state.out, c)
      [] in \in InWord /\ EndsWord(in, c) -> Begin(Append(state.out, TypeOf(in, c)), c)
      [] in \in InWord /\ ~EndsWord(in, c) -> [state EXCEPT !.in = GoesOn(in, c)]

\* The end of a line ends what is on it, but not what cannot be read.
ReadEnd(state) ==
    IF state.in = "stuck" THEN state
    ELSE [out |-> IF state.in \in InWord THEN Append(state.out, TypeOf(state.in, "newline"))
                                        ELSE state.out,
          in |-> "gap"]

\* After each character of a line, and after each line of a file.
InLine(state, line) ==
    LET read[i \in 0..Len(line)] == IF i = 0 THEN state ELSE Read(read[i - 1], line[i])
    IN  read
InFile(file) ==
    LET read[n \in 0..Len(file)] ==
            IF n = 0 THEN [out |-> <<>>, in |-> "gap"]
            ELSE ReadEnd(InLine(read[n - 1], file[n])[Len(file[n])])
    IN  read
ReadFile == InFile(lines)[Len(lines)].out

Delimiters == {i \in DOMAIN tokens : tokens[i] \in {"semicolon", "lcurly", "rcurly"}}
Braces(type, upTo) == Cardinality({i \in 1..upTo : tokens[i] = type})
Depth(i) == Braces("lcurly", i) - Braces("rcurly", i)

\* The words between a delimiter and the one before it.
Words(i) ==
    LET first == Max({d + 1 : d \in {0} \cup {j \in Delimiters : j < i}}) IN
    [k \in 1..i - first |-> first + k - 1]

\* A delimiter stands after as many words as it may, the first of them a string.
WellPlaced(i) ==
    LET n == Len(Words(i)) IN
    /\ tokens[i] = "semicolon" => n > 1
    /\ tokens[i] = "lcurly" => n > 0
    /\ tokens[i] = "rcurly" => n = 0
    /\ n > 0 => tokens[Words(i)[1]] = "string"

WellFormed ==
    /\ \A i \in DOMAIN tokens : Depth(i) >= 0
    /\ Depth(Len(tokens)) = 0
    /\ Words(Len(tokens) + 1) = <<>>
    /\ \A i \in Delimiters : WellPlaced(i)

\* The blocks around token i, and the innermost of them.
Around(i) ==
    {j \in 1..i - 1 : tokens[j] = "lcurly" /\ \A k \in j..i - 1 : Depth(k) >= Depth(j)}
Home(i) == Max({Main} \cup Around(i))

\* The numbers of S in their order.
InOrder(S) ==
    [k \in 1..Cardinality(S) |-> CHOOSE i \in S : Cardinality({j \in S : j <= i}) = k]

-----------------------------------------------------------------------------
(* Properties                                                                 *)

Types == {"semicolon", "lcurly", "rcurly", "path", "url", "string", "number"}

\* The variables have their types, and the stack always holds the main block
\* and blocks that were made: top() and pop() never meet an empty stack.
ParserTypeOK ==
    /\ phase \in {"lex", "group", "done"}
    /\ Range(tokens) \subseteq Types
    /\ it \in 1..Len(tokens) + 1
    /\ stack # <<>> /\ stack[1] = Main /\ Range(stack) \subseteq DOMAIN blocks
    /\ ret \in {"none", "true", "false", "died"}
    /\ said \in BOOLEAN

\* Lexer: the tokens of a file whose last line is ended are the words and marks
\* a reader finds from left to right, up to a character that cannot be read:
\* none is dropped, cut or read twice, whatever stands at the end of a line.
TokensAreTheText == ended /\ phase = "done" => tokens = ReadFile

\* Grouper: a file is taken without a complaint exactly when its braces match,
\* every directive ends, and every name is a string.
QuietIffWellFormed ==
    phase = "done" => (ret = "true" /\ ~said <=> WellFormed)

\* Grouper: in a file taken without a complaint every directive stands in the
\* innermost block around it, once, in the order of the file, with its words.
TreeMatchesBraces ==
    phase = "done" /\ ret = "true" /\ ~said =>
        LET In(b, type) == InOrder({i \in DOMAIN tokens : tokens[i] = type /\ Home(i) = b})
        IN  /\ DOMAIN blocks = {Main} \cup {i \in DOMAIN tokens : tokens[i] = "lcurly"}
            /\ \A b \in DOMAIN blocks :
                  LET ends == In(b, "semicolon") IN
                  /\ b # Main => blocks[b].words = Words(b)
                  /\ blocks[b].simple = [k \in DOMAIN ends |-> Words(ends[k])]
                  /\ blocks[b].bodies = In(b, "lcurly")

\* Grouper: a block that was refused for its name does not go unnoticed, though
\* the parse goes on and its directives fall to the block around it: as long as
\* there are as many closing braces as opening ones, the file is refused.
RefusedBlockRefusesFile ==
    phase = "done" /\ ret = "true" /\ Depth(Len(tokens)) = 0 =>
        \A i \in DOMAIN tokens : tokens[i] = "lcurly" => i \in DOMAIN blocks

=============================================================================
