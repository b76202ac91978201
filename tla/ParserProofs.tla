------------------------------ MODULE ParserProofs ------------------------------
(* The grouper, for every sequence of tokens: when a file is taken, and what  *)
(* tree is made of it. The lexer, for every file: what the tokens are.        *)
EXTENDS ConfigParser, FiniteSetTheorems, WellFoundedInduction, TLAPS

\* The variables while the tokens are grouped. Nothing is grouped before all of
\* them were read.
BlockRecords == [words : Seq(Nat), simple : Seq(Seq(Nat)), bodies : Seq(Nat)]
Grouping ==
    /\ phase \in {"lex", "group", "done"}
    /\ tokens \in Seq(Types) /\ it \in 1..Len(tokens) + 1
    /\ tokenline \in Seq(Nat) /\ \A k \in DOMAIN tokenline : tokenline[k] \in 1..it - 1
    /\ stack \in Seq(Nat) /\ stack # <<>> /\ stack[1] = Main
    /\ \A d \in DOMAIN stack : stack[d] \in DOMAIN blocks
    /\ Main \in DOMAIN blocks
    /\ \A b \in DOMAIN blocks : b # Main => b \in 1..it - 1 /\ tokens[b] = "lcurly"
    /\ \A b \in DOMAIN blocks : blocks[b] \in BlockRecords
    /\ said \in BOOLEAN /\ ret \in {"none", "true", "false", "died"}
    /\ phase = "lex" => /\ it = 1 /\ stack = <<Main>> /\ tokenline = <<>> /\ ~said
                        /\ DOMAIN blocks = {Main} /\ blocks[Main] = Block(<<>>)

\* The words that wait are those since the last delimiter.
WordsWait == tokenline = Words(it)

\* An error was printed for every delimiter that is out of place.
FaultsSaid == said <=> \E i \in Delimiters : i < it /\ ~WellPlaced(i)

\* Of the blocks that are open by their braces, those not on the stack were
\* refused.
Refused == {i \in 1..it - 1 : tokens[i] = "lcurly" /\ i \notin DOMAIN blocks}
BracesCount == Depth(it - 1) = Len(stack) - 1 + Cardinality(Refused)

\* As long as no error was printed, the stack holds the blocks around, each in
\* the one below it,
OnStack == {stack[d] : d \in 2..Len(stack)}
StackIsAround ==
    /\ \A i \in 1..it - 1 : Depth(i) >= 0
    /\ DOMAIN blocks = {Main} \cup {i \in 1..it - 1 : tokens[i] = "lcurly"}
    /\ Around(it) = OnStack
    /\ \A d, e \in 1..Len(stack) : d < e => stack[d] < stack[e]
    /\ \A d \in 2..Len(stack) : Depth(stack[d]) = d - 1 /\ Home(stack[d]) = stack[d - 1]

\* and every block has what has ended in it.
Ended(b, type) == {i \in 1..it - 1 : tokens[i] = type /\ Home(i) = b}
Holds(b) ==
    LET ends == InOrder(Ended(b, "semicolon")) IN
    /\ b # Main => blocks[b].words = Words(b)
    /\ blocks[b].simple = [k \in DOMAIN ends |-> Words(ends[k])]
    /\ blocks[b].bodies = InOrder(Ended(b, "lcurly") \ OnStack)

GroupInv ==
    phase = "group" =>
        /\ WordsWait /\ FaultsSaid /\ BracesCount
        /\ ~said => StackIsAround /\ \A b \in DOMAIN blocks : Holds(b)

-----------------------------------------------------------------------------
(* The operators, and one token more                                          *)

LEMMA SameTokens ==
    ASSUME tokens' = tokens
    PROVE  /\ \A i : Words(i)' = Words(i)
           /\ \A i : Depth(i)' = Depth(i)
           /\ \A i : Around(i)' = Around(i)
           /\ \A i : Home(i)' = Home(i)
           /\ \A i : WellPlaced(i)' <=> WellPlaced(i)
           /\ Delimiters' = Delimiters
<1>1. Delimiters' = Delimiters /\ \A i : Words(i)' = Words(i)
  BY DEF Words, Delimiters
<1>2. \A i : Depth(i)' = Depth(i)
  BY DEF Depth, Braces
<1>3. \A i : Around(i)' = Around(i)
  BY <1>2 DEF Around
<1>4. \A i : Home(i)' = Home(i)
  BY <1>3 DEF Home
<1>5. \A i : WellPlaced(i)' <=> WellPlaced(i)
  BY <1>1 DEF WellPlaced
<1> QED
  BY <1>1, <1>2, <1>3, <1>4, <1>5

\* A set of numbers up to n has a last one.
LEMMA LastOf ==
    ASSUME NEW n \in Nat, NEW S, S \subseteq 0..n, S # {}
    PROVE  Max(S) \in S /\ \A y \in S : Max(S) >= y
<1> DEFINE R == {n - x : x \in S}
<1>0. \A x \in S : x \in Int /\ 0 <= x /\ x <= n
  OBVIOUS
<1>1. R \subseteq Nat /\ R # {}
  <2>1. \A r \in R : r \in Nat
    BY <1>0
  <2>2. PICK x \in S : TRUE
    OBVIOUS
  <2>3. n - x \in R
    OBVIOUS
  <2> HIDE DEF R
  <2> QED
    BY <2>1, <2>3
<1>2. PICK m \in R : \A k \in R : <<k, m>> \notin OpToRel(<, Nat)
  BY <1>1, WFMin, NatLessThanWellFounded, Zenon
<1>3. \A k \in R : ~(k < m)
  BY <1>1, <1>2, Zenon DEF OpToRel
<1>4. PICK x \in S : m = n - x
  OBVIOUS
<1>5. \A y \in S : x >= y
  <2> SUFFICES ASSUME NEW y \in S PROVE x >= y
    OBVIOUS
  <2>1. n - y \in R
    OBVIOUS
  <2> HIDE DEF R
  <2>2. ~(n - y < n - x)
    BY <1>3, <1>4, <2>1
  <2> QED
    BY <2>2
<1> QED
  BY <1>5, Zenon DEF Max

LEMMA MaxIs ==
    ASSUME NEW n \in Nat, NEW S, S \subseteq 0..n, NEW m \in S, \A y \in S : m >= y
    PROVE  Max(S) = m
<1>1. Max(S) \in S /\ \A y \in S : Max(S) >= y
  BY LastOf
<1>2. Max(S) \in 0..n /\ m \in 0..n /\ Max(S) >= m /\ m >= Max(S)
  BY <1>1
<1> QED
  BY <1>2

LEMMA BracesTyped ==
    ASSUME NEW type, NEW n \in Nat
    PROVE  /\ Braces(type, n) \in Nat
           /\ Braces(type, n + 1) =
                  IF tokens[n + 1] = type THEN Braces(type, n) + 1 ELSE Braces(type, n)
<1> DEFINE S == {i \in 1..n : tokens[i] = type}
           T == {i \in 1..n + 1 : tokens[i] = type}
<1>1. IsFiniteSet(S)
  <2>1. IsFiniteSet(1..n) /\ S \in SUBSET (1..n)
    BY FS_Interval
  <2> QED
    BY <2>1, FS_Subset
<1>2. Cardinality(S) \in Nat
  BY <1>1, FS_CardinalityType
<1>3. T = IF tokens[n + 1] = type THEN S \cup {n + 1} ELSE S
  <2>1. 1..n + 1 = 1..n \cup {n + 1}
    OBVIOUS
  <2> QED
    BY <2>1
<1>4. n + 1 \notin S
  OBVIOUS
<1>5. Braces(type, n) = Cardinality(S) /\ Braces(type, n + 1) = Cardinality(T)
  BY DEF Braces
<1> HIDE DEF S, T
<1>6. Cardinality(S \cup {n + 1}) = Cardinality(S) + 1
  BY <1>1, <1>4, FS_AddElement
<1> QED
  BY <1>2, <1>3, <1>5, <1>6

\* The depth before the first token, and from one to the next.
LEMMA DepthFirst == Depth(0) = 0
<1>1. \A type : {i \in 1..0 : tokens[i] = type} = {}
  OBVIOUS
<1>2. \A type : Braces(type, 0) = 0
  BY <1>1, FS_EmptySet DEF Braces
<1> QED
  BY <1>2 DEF Depth

LEMMA DepthNext ==
    ASSUME NEW i \in Nat \ {0}
    PROVE  /\ Depth(i - 1) \in Int
           /\ Depth(i) = IF tokens[i] = "lcurly" THEN Depth(i - 1) + 1
                         ELSE IF tokens[i] = "rcurly" THEN Depth(i - 1) - 1
                         ELSE Depth(i - 1)
<1>1. i - 1 \in Nat /\ (i - 1) + 1 = i
  OBVIOUS
<1>2. \A type : /\ Braces(type, i - 1) \in Nat
                /\ Braces(type, i) =
                       IF tokens[i] = type THEN Braces(type, i - 1) + 1 ELSE Braces(type, i - 1)
  BY <1>1, BracesTyped
<1> QED
  BY <1>2 DEF Depth

\* The words that wait at the first token, after a delimiter and after a word.
Since(i) == {d + 1 : d \in {0} \cup {j \in Delimiters : j < i}}

LEMMA SinceLast ==
    ASSUME tokens \in Seq(Types), NEW i \in 1..Len(tokens) + 1
    PROVE  Since(i) \subseteq 0..i /\ Max(Since(i)) \in Since(i) /\ Max(Since(i)) \in 1..i
<1>1. \A j \in Delimiters : j \in 1..Len(tokens)
  BY DEF Delimiters
<1>2. \A x \in Since(i) : x \in 1..i
  BY <1>1 DEF Since
<1>3. 1 \in Since(i)
  BY DEF Since
<1>4. Since(i) \subseteq 0..i /\ Since(i) # {} /\ i \in Nat
  BY <1>2, <1>3
<1>5. Max(Since(i)) \in Since(i)
  BY <1>4, LastOf
<1> QED
  BY <1>2, <1>4, <1>5

LEMMA WordsFirst ==
    ASSUME tokens \in Seq(Types)
    PROVE  Words(1) = <<>>
<1>1. 1 \in 1..Len(tokens) + 1
  OBVIOUS
<1>2. Max(Since(1)) = 1
  BY <1>1, SinceLast
<1> DEFINE f == Max(Since(1))
<1>3. Words(1) = [k \in 1..1 - f |-> f + k - 1]
  BY DEF Words, Since
<1> HIDE DEF f
<1>4. Words(1) = [k \in 1..0 |-> f + k - 1]
  BY <1>2, <1>3 DEF f
<1> QED
  BY <1>4

LEMMA RunNext ==
    ASSUME NEW i \in Nat, NEW f \in 1..i
    PROVE  Append([k \in 1..i - f |-> f + k - 1], i) = [k \in 1..(i + 1) - f |-> f + k - 1]
<1> DEFINE s == [k \in 1..i - f |-> f + k - 1]
           t == [k \in 1..(i + 1) - f |-> f + k - 1]
<1>1. s \in Seq(Nat) /\ Len(s) = i - f
  OBVIOUS
<1>2. \A k \in 1..i - f : s[k] = f + k - 1
  OBVIOUS
<1> HIDE DEF s
<1>3. /\ Append(s, i) \in Seq(Nat) /\ Len(Append(s, i)) = (i + 1) - f
      /\ \A k \in 1..i - f : Append(s, i)[k] = s[k]
      /\ Append(s, i)[(i + 1) - f] = i
  BY <1>1
<1>4. t \in Seq(Nat) /\ Len(t) = (i + 1) - f
  OBVIOUS
<1>5. ASSUME NEW k \in 1..(i + 1) - f PROVE  Append(s, i)[k] = t[k]
  <2>1. t[k] = f + k - 1
    OBVIOUS
  <2>2. k \in 1..i - f \/ k = (i + 1) - f
    OBVIOUS
  <2> HIDE DEF t
  <2>3. CASE k \in 1..i - f
    BY <1>2, <1>3, <2>1, <2>3
  <2>4. CASE k = (i + 1) - f
    <3>1. f + k - 1 = i
      BY <2>4
    <3> QED
      BY <1>3, <2>1, <2>4, <3>1
  <2> QED
    BY <2>2, <2>3, <2>4
<1> HIDE DEF t
<1>6. Append(s, i) = t
  BY <1>3, <1>4, <1>5
<1> QED
  BY <1>6 DEF s, t

LEMMA WordsNext ==
    ASSUME tokens \in Seq(Types), NEW i \in 1..Len(tokens)
    PROVE  Words(i + 1) = IF i \in Delimiters THEN <<>> ELSE Append(Words(i), i)
<1> DEFINE f == Max(Since(i))
           g == Max(Since(i + 1))
<1>1. /\ Words(i) = [k \in 1..i - f |-> f + k - 1]
      /\ Words(i + 1) = [k \in 1..(i + 1) - g |-> g + k - 1]
  BY DEF Words, Since
<1>2. i + 1 \in 1..Len(tokens) + 1 /\ i \in 1..Len(tokens) + 1
  OBVIOUS
<1>3. f \in 1..i /\ g \in Since(i + 1) /\ Since(i + 1) \subseteq 0..i + 1
  BY <1>2, SinceLast
<1>4. CASE i \in Delimiters
  <2>1. i + 1 \in Since(i + 1) /\ i + 1 \in Nat /\ \A y \in Since(i + 1) : i + 1 >= y
    BY <1>3, <1>4 DEF Since
  <2>2. g = i + 1
    BY <1>3, <2>1, MaxIs
  <2> HIDE DEF g
  <2>3. Words(i + 1) = [k \in 1..0 |-> g + k - 1]
    BY <1>1, <2>2
  <2> QED
    BY <1>4, <2>3
<1>5. CASE i \notin Delimiters
  <2>1. \A j \in Delimiters : j \in Nat
    BY DEF Delimiters
  <2>2. {j \in Delimiters : j < i + 1} = {j \in Delimiters : j < i}
    BY <1>5, <2>1
  <2>3. g = f
    BY <2>2 DEF Since
  <2> HIDE DEF f, g
  <2>4. Words(i + 1) = [k \in 1..(i + 1) - f |-> f + k - 1]
    BY <1>1, <2>3
  <2> QED
    <3>1. i \in Nat /\ f \in 1..i
      BY <1>3
    <3>2. Append([k \in 1..i - f |-> f + k - 1], i) = [k \in 1..(i + 1) - f |-> f + k - 1]
      BY <3>1, RunNext
    <3> QED
      BY <1>1, <1>5, <2>4, <3>2, Zenon
<1> QED
  BY <1>4, <1>5

\* The blocks around the first token, and around the one after it.
LEMMA AroundFirst == Around(1) = {}
  BY DEF Around

LEMMA AroundNext ==
    ASSUME NEW i \in Nat \ {0}
    PROVE  Around(i + 1) = {j \in Around(i) : Depth(i) >= Depth(j)}
                           \cup (IF tokens[i] = "lcurly" THEN {i} ELSE {})
<1>1. Depth(i) \in Int
  BY DepthNext
<1>2. ASSUME NEW j \in 1..i - 1
      PROVE  j..i = j..i - 1 \cup {i}
  OBVIOUS
<1>3. 1..(i + 1) - 1 = 1..i - 1 \cup {i} /\ i..(i + 1) - 1 = {i} /\ i \notin 1..i - 1
  OBVIOUS
<1>4. ASSUME NEW j \in 1..i - 1
      PROVE  j \in Around(i + 1) <=> j \in Around(i) /\ Depth(i) >= Depth(j)
  <2>1. (i + 1) - 1 = i /\ j \in 1..(i + 1) - 1
    OBVIOUS
  <2> QED
    BY <1>2, <2>1 DEF Around
<1>5. i \in Around(i + 1) <=> tokens[i] = "lcurly"
  BY <1>1, <1>3 DEF Around
<1>6. Around(i) \subseteq 1..i - 1 /\ Around(i + 1) \subseteq 1..i - 1 \cup {i}
  BY <1>3 DEF Around
<1> QED
  BY <1>3, <1>4, <1>5, <1>6

\* Numbers in their order, and one more at the end.
LEMMA InOrderNone == InOrder({}) = <<>>
  BY FS_EmptySet DEF InOrder

LEMMA InOrderNext ==
    ASSUME NEW S, S \subseteq Nat, IsFiniteSet(S), NEW m \in Nat, \A j \in S : j < m
    PROVE  /\ Cardinality(S) \in Nat /\ DOMAIN InOrder(S) = 1..Cardinality(S)
           /\ DOMAIN InOrder(S \cup {m}) = 1..Cardinality(S) + 1
           /\ \A k \in 1..Cardinality(S) : InOrder(S \cup {m})[k] = InOrder(S)[k]
           /\ InOrder(S \cup {m})[Cardinality(S) + 1] = m
<1> DEFINE T == S \cup {m}
           c == Cardinality(S)
<1>1. c \in Nat /\ Cardinality(T) = c + 1
  <2>1. m \notin S
    OBVIOUS
  <2> QED
    BY <2>1, FS_CardinalityType, FS_AddElement
<1>2. ASSUME NEW i \in S PROVE  {j \in T : j <= i} = {j \in S : j <= i}
  OBVIOUS
<1>3. {j \in T : j <= m} = T
  <2>1. \A j \in T : j <= m
    OBVIOUS
  <2> QED
    BY <2>1
<1>4. ASSUME NEW i \in S PROVE  Cardinality({j \in S : j <= i}) <= c /\ Cardinality({j \in S : j <= i}) \in Nat
  <2>1. {j \in S : j <= i} \in SUBSET S
    OBVIOUS
  <2> QED
    BY <2>1, FS_Subset, FS_CardinalityType
<1>5. InOrder(T) = [k \in 1..c + 1 |-> CHOOSE i \in T : Cardinality({j \in T : j <= i}) = k]
  BY <1>1 DEF InOrder
<1>6. InOrder(S) = [k \in 1..c |-> CHOOSE i \in S : Cardinality({j \in S : j <= i}) = k]
  BY DEF InOrder
<1>7. ASSUME NEW k \in 1..c
      PROVE  (CHOOSE i \in T : Cardinality({j \in T : j <= i}) = k)
                 = CHOOSE i \in S : Cardinality({j \in S : j <= i}) = k
  <2>1. \A i : (i \in T /\ Cardinality({j \in T : j <= i}) = k)
                   <=> (i \in S /\ Cardinality({j \in S : j <= i}) = k)
    <3>1. Cardinality({j \in T : j <= m}) # k
      BY <1>1, <1>3
    <3> QED
      BY <1>2, <3>1
  <2> QED
    BY <2>1, Zenon
<1>8. (CHOOSE i \in T : Cardinality({j \in T : j <= i}) = c + 1) = m
  <2>1. m \in T /\ Cardinality({j \in T : j <= m}) = c + 1
    BY <1>1, <1>3
  <2>2. \A i \in T : Cardinality({j \in T : j <= i}) = c + 1 => i = m
    BY <1>1, <1>2, <1>4
  <2> QED
    BY <2>1, <2>2, Zenon
<1>9. ASSUME NEW k \in 1..c PROVE  InOrder(T)[k] = InOrder(S)[k]
  <2>1. k \in 1..c + 1
    BY <1>1
  <2> HIDE DEF T, c
  <2> QED
    BY <1>5, <1>6, <1>7, <2>1 DEF T
<1>10. InOrder(T)[c + 1] = m
  <2>1. c + 1 \in 1..c + 1
    BY <1>1
  <2> HIDE DEF T, c
  <2> QED
    BY <1>5, <1>8, <2>1
<1>11. DOMAIN InOrder(T) = 1..c + 1 /\ DOMAIN InOrder(S) = 1..c
  <2> HIDE DEF T, c
  <2> QED
    BY <1>5, <1>6
<1> QED
  BY <1>1, <1>9, <1>10, <1>11

-----------------------------------------------------------------------------
(* The types                                                                  *)

LEMMA LexTyped ==
    ASSUME NEW line, NEW i
    PROVE  Lex(line, i).type \in Types \cup {"invalid"}
  BY DEF Lex, Types

LEMMA TopTyped ==
    ASSUME Grouping
    PROVE  /\ Len(stack) \in Nat \ {0} /\ DOMAIN stack = 1..Len(stack)
           /\ Top = stack[Len(stack)] /\ Top \in DOMAIN blocks /\ Top \in Nat
           /\ it \in Nat \ {0} /\ Len(tokens) \in Nat /\ DOMAIN tokens = 1..Len(tokens)
<1>1. Len(stack) \in Nat \ {0} /\ DOMAIN stack = 1..Len(stack)
  BY DEF Grouping
<1>2. Top = stack[Len(stack)] /\ Top \in DOMAIN blocks /\ Top \in Nat
  BY <1>1 DEF Grouping, Top
<1>3. it \in Nat \ {0} /\ Len(tokens) \in Nat /\ DOMAIN tokens = 1..Len(tokens)
  <2>1. Len(tokens) \in Nat /\ DOMAIN tokens = 1..Len(tokens)
    BY DEF Grouping
  <2> QED
    BY <2>1 DEF Grouping
<1> QED
  BY <1>1, <1>2, <1>3

LEMMA GroupingInit ==
    ASSUME ParserInit
    PROVE  Grouping
<1>1. /\ phase = "lex" /\ tokens = <<>> /\ it = 1 /\ stack = <<Main>> /\ tokenline = <<>>
      /\ blocks = [b \in {Main} |-> Block(<<>>)] /\ said = FALSE /\ ret = "none"
  BY DEF ParserInit
<1>2. tokens \in Seq(Types) /\ Len(tokens) = 0 /\ tokenline \in Seq(Nat) /\ DOMAIN tokenline = {}
  BY <1>1
<1>3. stack \in Seq(Nat) /\ DOMAIN stack = {1} /\ stack[1] = Main /\ stack # <<>>
  BY <1>1 DEF Main
<1>4. DOMAIN blocks = {Main} /\ blocks[Main] = Block(<<>>)
  BY <1>1
<1>5. Block(<<>>) \in BlockRecords
  BY DEF Block, BlockRecords
<1>6. it \in 1..Len(tokens) + 1
  BY <1>1, <1>2
<1>7. /\ \A d \in DOMAIN stack : stack[d] \in DOMAIN blocks
      /\ \A b \in DOMAIN blocks : b = Main /\ blocks[b] \in BlockRecords
  BY <1>3, <1>4, <1>5
<1>8. phase \in {"lex", "group", "done"} /\ said \in BOOLEAN /\ ret \in {"none", "true", "false", "died"}
  BY <1>1
<1> QED
  BY <1>1, <1>2, <1>3, <1>4, <1>6, <1>7, <1>8, Zenon DEF Grouping

\* What the lexer does, and what ends the grouper, leaves the grouper's variables
\* alone.
LEMMA GroupingLex ==
    ASSUME Grouping, LexEnd \/ LexInvalid \/ LexComment \/ LexToken
    PROVE  Grouping'
<1>1. /\ phase = "lex" /\ phase' \in {"lex", "group"}
      /\ it' = it /\ stack' = stack /\ tokenline' = tokenline /\ blocks' = blocks
      /\ said' = said /\ ret' = ret
  BY DEF LexEnd, LexInvalid, LexComment, LexToken, StartGrouping, groupVars
<1>2. it = 1 /\ tokenline = <<>> /\ DOMAIN blocks = {Main}
  BY <1>1 DEF Grouping
<1>3. tokens' \in Seq(Types)
  <2>1. CASE LexEnd \/ LexInvalid \/ LexComment
    BY <2>1 DEF LexEnd, LexInvalid, LexComment, StartGrouping, lexVars, Grouping
  <2>2. CASE LexToken
    <3>1. PICK type \in Types : tokens' = Append(tokens, type)
      <4> DEFINE token == Lex(Line(NextLine), NextChar)
      <4>1. token.type # "invalid" /\ tokens' = Append(tokens, token.type)
        BY <2>2 DEF LexToken
      <4>2. token.type \in Types \cup {"invalid"}
        BY LexTyped
      <4> QED
        BY <4>1, <4>2
    <3> QED
      BY <3>1 DEF Grouping
  <2> QED
    BY <2>1, <2>2
<1>4. it' \in 1..Len(tokens') + 1
  BY <1>1, <1>2, <1>3
<1> QED
  BY <1>1, <1>2, <1>3, <1>4 DEF Grouping

LEMMA GroupingReturn ==
    ASSUME Grouping, NamelessBlock \/ BadClose \/ GroupEnd \/ UNCHANGED vars
    PROVE  Grouping'
<1>1. CASE UNCHANGED vars
  BY <1>1 DEF vars, fileVars, lexVars, groupVars, Grouping
<1>2. CASE NamelessBlock \/ BadClose \/ GroupEnd
  <2>1. /\ phase' = "done" /\ ret' \in {"died", "false", "true"} /\ said' \in BOOLEAN
        /\ tokens' = tokens /\ it' = it /\ stack' = stack /\ tokenline' = tokenline
        /\ blocks' = blocks
    BY <1>2 DEF NamelessBlock, BadClose, GroupEnd, Return, lexVars, Grouping
  <2> QED
    BY <2>1 DEF Grouping
<1> QED
  BY <1>1, <1>2

\* A step of the grouper goes to the next token.
LEMMA GroupingStep ==
    ASSUME Grouping, phase = "group", it <= Len(tokens), Step,
           tokenline' \in Seq(Nat), \A k \in DOMAIN tokenline' : tokenline'[k] \in 1..it,
           stack' \in Seq(Nat), stack' # <<>>, stack'[1] = Main,
           \A d \in DOMAIN stack' : stack'[d] \in DOMAIN blocks',
           DOMAIN blocks \subseteq DOMAIN blocks',
           \A b \in DOMAIN blocks' :
              /\ b \in DOMAIN blocks \/ (b = it /\ tokens[it] = "lcurly")
              /\ blocks'[b] \in BlockRecords,
           said' \in BOOLEAN
    PROVE  /\ Grouping'
           /\ phase' = "group" /\ tokens' = tokens /\ it' = it + 1 /\ ret' = ret
           /\ it \in 1..Len(tokens) /\ it \in DOMAIN tokens
<1>1. phase' = "group" /\ tokens' = tokens /\ it' = it + 1 /\ ret' = ret
  BY DEF Step, lexVars
<1>2. it \in Nat \ {0} /\ Len(tokens) \in Nat /\ DOMAIN tokens = 1..Len(tokens)
  BY TopTyped
<1>3. it' \in 1..Len(tokens') + 1 /\ it \in 1..Len(tokens) /\ it' - 1 = it
  BY <1>1, <1>2
<1>4. 1..it - 1 \subseteq 1..it /\ it \in 1..it
  BY <1>2
<1>5. Grouping'
  BY <1>1, <1>2, <1>3, <1>4 DEF Grouping
<1> QED
  BY <1>1, <1>2, <1>3, <1>5

-----------------------------------------------------------------------------
(* One token more                                                             *)

\* A step of the grouper that keeps the types.
Moves ==
    /\ Grouping /\ Grouping'
    /\ phase = "group" /\ phase' = "group" /\ GroupInv
    /\ tokens' = tokens /\ it' = it + 1 /\ it \in DOMAIN tokens

LEMMA MovesFacts ==
    ASSUME Moves
    PROVE  /\ it \in Nat \ {0} /\ it \in 1..Len(tokens) /\ tokens \in Seq(Types)
           /\ it' - 1 = it /\ 1..it = 1..it - 1 \cup {it} /\ it \notin 1..it - 1
           /\ it \notin DOMAIN blocks
           /\ WordsWait /\ FaultsSaid /\ BracesCount
           /\ Depth(it - 1) \in Int /\ Depth(it) \in Int
           /\ Words(it)' = Words(it + 1) /\ Depth(it - 1)' = Depth(it)
           /\ Delimiters' = Delimiters /\ Around(it)' = Around(it + 1)
<1>1. it \in Nat \ {0} /\ it \in 1..Len(tokens) /\ tokens \in Seq(Types)
  BY TopTyped DEF Moves, Grouping
<1>2. it' - 1 = it /\ 1..it = 1..it - 1 \cup {it} /\ it \notin 1..it - 1
  BY <1>1 DEF Moves
<1>3. it \notin DOMAIN blocks
  BY <1>1, <1>2 DEF Moves, Grouping, Main
<1>4. WordsWait /\ FaultsSaid /\ BracesCount
  BY DEF Moves, GroupInv
<1>5. Depth(it - 1) \in Int /\ Depth(it) \in Int
  <2>1. /\ Depth(it - 1) \in Int
        /\ Depth(it) = IF tokens[it] = "lcurly" THEN Depth(it - 1) + 1
                       ELSE IF tokens[it] = "rcurly" THEN Depth(it - 1) - 1
                       ELSE Depth(it - 1)
    BY <1>1, DepthNext
  <2> QED
    BY <2>1
<1>6. /\ Words(it)' = Words(it + 1) /\ Depth(it - 1)' = Depth(it)
      /\ Delimiters' = Delimiters /\ Around(it)' = Around(it + 1)
  <2>1. tokens' = tokens /\ it' = it + 1
    BY DEF Moves
  <2> QED
    BY <1>2, <2>1, SameTokens
<1> QED
  BY <1>1, <1>2, <1>3, <1>4, <1>5, <1>6

\* The words that wait, and the errors printed.
LEMMA WordsAndFaults ==
    ASSUME Moves,
           tokenline' = IF it \in Delimiters THEN <<>> ELSE Append(tokenline, it),
           said' <=> said \/ (it \in Delimiters /\ ~WellPlaced(it))
    PROVE  WordsWait' /\ FaultsSaid'
<1>1. WordsWait'
  <2>1. Words(it + 1) = IF it \in Delimiters THEN <<>> ELSE Append(Words(it), it)
    BY MovesFacts, WordsNext
  <2>2. tokenline = Words(it) /\ Words(it)' = Words(it + 1)
    BY MovesFacts DEF WordsWait
  <2> QED
    BY <2>1, <2>2 DEF WordsWait
<1>2. FaultsSaid'
  <2>1. \A i \in Delimiters : i \in Nat
    BY MovesFacts DEF Delimiters
  <2>2. /\ it \in Nat /\ it' = it + 1 /\ Delimiters' = Delimiters
        /\ \A i : WellPlaced(i)' <=> WellPlaced(i)
    BY MovesFacts, SameTokens DEF Moves
  <2>3. said <=> \E i \in Delimiters : i < it /\ ~WellPlaced(i)
    BY MovesFacts DEF FaultsSaid
  <2>4. \A i \in Delimiters : i < it + 1 <=> i < it \/ i = it
    BY <2>1, <2>2
  <2>5. said' <=> \E i \in Delimiters : i < it + 1 /\ ~WellPlaced(i)
    BY <2>3, <2>4
  <2> QED
    BY <2>2, <2>5 DEF FaultsSaid
<1> QED
  BY <1>1, <1>2

\* Whether a delimiter is well placed, seen from the words that wait.
LEMMA PlacedByWords ==
    ASSUME Moves, it \in Delimiters
    PROVE  WellPlaced(it) <=>
               /\ tokens[it] = "semicolon" => Len(tokenline) > 1 /\ NamedByString
               /\ tokens[it] = "lcurly" => NamedByString
               /\ tokens[it] = "rcurly" => tokenline = <<>>
<1>1. tokenline = Words(it) /\ tokenline \in Seq(Nat)
  BY MovesFacts DEF WordsWait, Moves, Grouping
<1>2. tokens[it] \in {"semicolon", "lcurly", "rcurly"}
  BY DEF Delimiters
<1>3. Len(tokenline) \in Nat /\ (tokenline = <<>> <=> Len(tokenline) = 0)
  BY <1>1
<1> QED
  BY <1>1, <1>2, <1>3 DEF WellPlaced, NamedByString

\* The blocks that were refused are counted.
LEMMA RefusedCount ==
    ASSUME Moves,
           DOMAIN blocks' = DOMAIN blocks \/ DOMAIN blocks' = DOMAIN blocks \cup {it}
    PROVE  /\ Refused' = IF tokens[it] = "lcurly" /\ it \notin DOMAIN blocks'
                         THEN Refused \cup {it} ELSE Refused
           /\ Cardinality(Refused) \in Nat
           /\ Cardinality(Refused \cup {it}) = Cardinality(Refused) + 1
           /\ Refused = {} <=> Cardinality(Refused) = 0
<1>1. it \in Nat \ {0} /\ 1..it = 1..it - 1 \cup {it} /\ it \notin 1..it - 1 /\ it' - 1 = it
  BY MovesFacts
<1>2. Refused' = {i \in 1..it : tokens[i] = "lcurly" /\ i \notin DOMAIN blocks'}
  BY <1>1 DEF Refused, Moves
<1>3. Refused \subseteq 1..it - 1 /\ IsFiniteSet(1..it - 1)
  BY <1>1, FS_Interval DEF Refused
<1>4. IsFiniteSet(Refused) /\ Cardinality(Refused) \in Nat
  BY <1>3, FS_Subset, FS_CardinalityType
<1>5. Cardinality(Refused \cup {it}) = Cardinality(Refused) + 1
  <2>1. it \notin Refused
    BY <1>1, <1>3
  <2> QED
    BY <1>4, <2>1, FS_AddElement
<1>6. Refused' = IF tokens[it] = "lcurly" /\ it \notin DOMAIN blocks'
                 THEN Refused \cup {it} ELSE Refused
  <2>1. \A i \in 1..it - 1 : i \in DOMAIN blocks' <=> i \in DOMAIN blocks
    BY <1>1
  <2> QED
    BY <1>1, <1>2, <2>1 DEF Refused
<1> QED
  BY <1>4, <1>5, <1>6, FS_EmptySet

\* The block a token stands in is the one on top of the stack.
LEMMA HomeIsTop ==
    ASSUME Grouping, StackIsAround
    PROVE  Home(it) = Top
<1>1. /\ Len(stack) \in Nat \ {0} /\ DOMAIN stack = 1..Len(stack)
      /\ Top = stack[Len(stack)] /\ it \in Nat \ {0} /\ stack[1] = Main
  BY TopTyped DEF Grouping
<1>2. Around(it) = OnStack
  BY DEF StackIsAround
<1> DEFINE S == {Main} \cup OnStack
<1>3. S = {stack[d] : d \in 1..Len(stack)}
  <2>1. 1..Len(stack) = {1} \cup 2..Len(stack)
    BY <1>1
  <2> QED
    BY <1>1, <2>1 DEF OnStack
<1>4. S \subseteq 0..it
  BY <1>1, <1>2 DEF Around, Main
<1>5. Top \in S
  BY <1>1, <1>3
<1>6. ASSUME NEW d \in 1..Len(stack) PROVE  Top >= stack[d]
  <2>1. stack[d] \in Nat /\ Top \in Nat
    BY <1>1 DEF Grouping
  <2>2. d < Len(stack) \/ d = Len(stack)
    <3>1. Len(stack) \in Nat
      BY <1>1
    <3> QED
      BY <3>1
  <2>3. CASE d = Len(stack)
    BY <1>1, <2>1, <2>3
  <2>4. CASE d < Len(stack)
    <3>1. Len(stack) \in 1..Len(stack)
      BY <1>1
    <3>2. stack[d] < Top
      BY <1>1, <2>4, <3>1 DEF StackIsAround
    <3> QED
      BY <2>1, <3>2
  <2> QED
    BY <2>2, <2>3, <2>4
<1>7. \A y \in S : Top >= y
  BY <1>3, <1>6
<1>8. Home(it) = Max(S)
  BY <1>2 DEF Home
<1> HIDE DEF S
<1> QED
  BY <1>1, <1>4, <1>5, <1>7, <1>8, MaxIs

\* What has ended in a block with one token more.
LEMMA EndedNext ==
    ASSUME Moves, StackIsAround, NEW b, NEW type
    PROVE  /\ Ended(b, type)' = IF tokens[it] = type /\ b = Top
                                THEN Ended(b, type) \cup {it} ELSE Ended(b, type)
           /\ Ended(b, type) \subseteq 1..it - 1 /\ IsFiniteSet(Ended(b, type))
<1>1. it \in Nat \ {0} /\ 1..it = 1..it - 1 \cup {it} /\ it \notin 1..it - 1 /\ it' - 1 = it
  BY MovesFacts
<1>2. Home(it) = Top
  BY HomeIsTop DEF Moves
<1>3. Ended(b, type)' = {i \in 1..it : tokens[i] = type /\ Home(i) = b}
  <2>1. tokens' = tokens /\ \A i : Home(i)' = Home(i)
    BY SameTokens DEF Moves
  <2> QED
    BY <1>1, <2>1 DEF Ended
<1>4. Ended(b, type) \subseteq 1..it - 1 /\ IsFiniteSet(1..it - 1)
  BY <1>1, FS_Interval DEF Ended
<1>5. IsFiniteSet(Ended(b, type))
  BY <1>4, FS_Subset
<1>6. Ended(b, type)' = IF tokens[it] = type /\ b = Top
                        THEN Ended(b, type) \cup {it} ELSE Ended(b, type)
  BY <1>1, <1>2, <1>3 DEF Ended
<1> QED
  BY <1>4, <1>5, <1>6

\* The parts of the invariant that hold without an error, after a step.
LEMMA StackIsAroundNext ==
    ASSUME Moves,
           \A i \in 1..it : Depth(i) >= 0,
           DOMAIN blocks' = {Main} \cup {i \in 1..it : tokens[i] = "lcurly"},
           Around(it + 1) = {stack'[d] : d \in 2..Len(stack')},
           \A d, e \in 1..Len(stack') : d < e => stack'[d] < stack'[e],
           \A d \in 2..Len(stack') : /\ Depth(stack'[d]) = d - 1
                                     /\ Home(stack'[d]) = stack'[d - 1]
    PROVE  StackIsAround'
<1>1. it' - 1 = it /\ Around(it)' = Around(it + 1) /\ tokens' = tokens
  BY MovesFacts DEF Moves
<1>2. (\A i : Depth(i)' = Depth(i)) /\ (\A i : Home(i)' = Home(i))
  BY <1>1, SameTokens
<1> QED
  BY <1>1, <1>2 DEF StackIsAround, OnStack

LEMMA HoldsNext ==
    ASSUME Moves, NEW b, NEW ends, NEW inner,
           Ended(b, "semicolon")' = ends, Ended(b, "lcurly")' \ OnStack' = inner,
           b # Main => blocks'[b].words = Words(b),
           blocks'[b].simple = [k \in DOMAIN InOrder(ends) |-> Words(InOrder(ends)[k])],
           blocks'[b].bodies = InOrder(inner)
    PROVE  Holds(b)'
<1>1. \A i : Words(i)' = Words(i)
  BY SameTokens DEF Moves
<1>2. InOrder(Ended(b, "semicolon"))' = InOrder(ends)
  OBVIOUS
<1>3. InOrder(Ended(b, "lcurly") \ OnStack)' = InOrder(inner)
  OBVIOUS
<1> QED
  BY <1>1, <1>2, <1>3 DEF Holds

LEMMA QuietBefore ==
    ASSUME Moves, ~said
    PROVE  /\ StackIsAround /\ \A b \in DOMAIN blocks : Holds(b)
           /\ Refused = {} /\ Depth(it - 1) = Len(stack) - 1
           /\ Home(it) = Top
<1>1. StackIsAround /\ \A b \in DOMAIN blocks : Holds(b)
  BY DEF Moves, GroupInv
<1>2. Refused = {}
  BY <1>1 DEF Refused, StackIsAround
<1>3. Cardinality(Refused) = 0
  BY <1>2, FS_EmptySet
<1>4. Len(stack) \in Nat
  BY TopTyped DEF Moves
<1>5. Depth(it - 1) = Len(stack) - 1
  BY <1>3, <1>4, MovesFacts DEF BracesCount
<1>6. Home(it) = Top
  BY <1>1, HomeIsTop DEF Moves
<1> QED
  BY <1>1, <1>2, <1>5, <1>6

\* A token that is no brace leaves the stack as it is.
LEMMA StackStays ==
    ASSUME Moves, ~said, tokens[it] \notin {"lcurly", "rcurly"},
           stack' = stack, DOMAIN blocks' = DOMAIN blocks
    PROVE  StackIsAround'
<1>1. /\ it \in Nat \ {0} /\ 1..it = 1..it - 1 \cup {it} /\ it \notin 1..it - 1
      /\ Depth(it - 1) \in Int
  BY MovesFacts
<1>2. StackIsAround /\ Depth(it - 1) = Len(stack) - 1
  BY QuietBefore
<1>3. Len(stack) \in Nat \ {0}
  BY TopTyped DEF Moves
<1>4. Depth(it) = Len(stack) - 1
  BY <1>1, <1>2, DepthNext
<1>5. \A i \in 1..it : Depth(i) >= 0
  BY <1>1, <1>2, <1>3, <1>4 DEF StackIsAround
<1>6. DOMAIN blocks' = {Main} \cup {i \in 1..it : tokens[i] = "lcurly"}
  BY <1>1, <1>2 DEF StackIsAround
<1>7. Around(it + 1) = OnStack
  <2>1. \A j \in OnStack : Depth(it) >= Depth(j)
    BY <1>2, <1>3, <1>4 DEF OnStack, StackIsAround
  <2> QED
    BY <1>1, <1>2, <2>1, AroundNext DEF StackIsAround
<1> QED
  BY <1>2, <1>5, <1>6, <1>7, StackIsAroundNext DEF StackIsAround, OnStack

-----------------------------------------------------------------------------
(* The steps of the grouper                                                   *)

LEMMA WordStep ==
    ASSUME Grouping, GroupInv, Word
    PROVE  Grouping' /\ GroupInv'
<1>1. /\ phase = "group" /\ it <= Len(tokens) /\ tokens[it] \in {"string", "number", "path", "url"}
      /\ tokenline' = Append(tokenline, it) /\ Step
      /\ stack' = stack /\ blocks' = blocks /\ said' = said
  BY DEF Word, At
<1>2. it \in Nat \ {0} /\ tokenline \in Seq(Nat) /\ \A k \in DOMAIN tokenline : tokenline[k] \in 1..it - 1
  BY TopTyped DEF Grouping
<1>3. tokenline' \in Seq(Nat) /\ \A k \in DOMAIN tokenline' : tokenline'[k] \in 1..it
  <2>1. /\ tokenline' \in Seq(Nat) /\ DOMAIN tokenline' = 1..Len(tokenline) + 1
        /\ \A k \in 1..Len(tokenline) : tokenline'[k] = tokenline[k]
        /\ tokenline'[Len(tokenline) + 1] = it
    BY <1>1, <1>2
  <2>2. \A k \in 1..Len(tokenline) + 1 : k \in 1..Len(tokenline) \/ k = Len(tokenline) + 1
    <3>1. Len(tokenline) \in Nat
      BY <1>2
    <3> QED
      BY <3>1
  <2>3. DOMAIN tokenline = 1..Len(tokenline)
    BY <1>2
  <2>4. 1..it - 1 \subseteq 1..it /\ it \in 1..it
    BY <1>2
  <2> QED
    BY <1>2, <2>1, <2>2, <2>3, <2>4
<1>4. Moves
  BY <1>1, <1>3, GroupingStep DEF Moves, Grouping
<1>5. it \notin Delimiters
  BY <1>1 DEF Delimiters
<1>6. WordsWait' /\ FaultsSaid'
  BY <1>1, <1>4, <1>5, WordsAndFaults
<1>7. BracesCount'
  <2>1. Refused' = Refused
    BY <1>1, <1>4, RefusedCount
  <2>2. Depth(it - 1)' = Depth(it) /\ Depth(it) = Depth(it - 1) /\ BracesCount
    BY <1>1, <1>2, <1>4, MovesFacts, DepthNext
  <2> QED
    BY <1>1, <2>1, <2>2 DEF BracesCount
<1>8. ASSUME ~said' PROVE  StackIsAround' /\ \A b \in DOMAIN blocks' : Holds(b)'
  <2>1. StackIsAround /\ \A b \in DOMAIN blocks : Holds(b)
    BY <1>1, <1>4, <1>8, QuietBefore
  <2>2. StackIsAround'
    BY <1>1, <1>4, <1>8, StackStays
  <2>3. ASSUME NEW b \in DOMAIN blocks' PROVE  Holds(b)'
    <3>1. Ended(b, "semicolon")' = Ended(b, "semicolon") /\ Ended(b, "lcurly")' = Ended(b, "lcurly")
      BY <1>1, <1>4, <2>1, EndedNext
    <3>2. OnStack' = OnStack
      BY <1>1 DEF OnStack
    <3>3. /\ b # Main => blocks'[b].words = Words(b)
          /\ blocks'[b].simple = [k \in DOMAIN InOrder(Ended(b, "semicolon")) |->
                                      Words(InOrder(Ended(b, "semicolon"))[k])]
          /\ blocks'[b].bodies = InOrder(Ended(b, "lcurly") \ OnStack)
      BY <1>1, <2>1 DEF Holds
    <3> QED
      BY <1>4, <3>1, <3>2, <3>3, HoldsNext
  <2> QED
    BY <2>2, <2>3
<1> QED
  BY <1>4, <1>6, <1>7, <1>8 DEF Moves, GroupInv

LEMMA SeqIsFunction ==
    ASSUME NEW T, NEW t \in Seq(T)
    PROVE  t = [k \in 1..Len(t) |-> t[k]]
  OBVIOUS

LEMMA SemicolonStep ==
    ASSUME Grouping, GroupInv, Semicolon
    PROVE  Grouping' /\ GroupInv'
<1> DEFINE kept == Len(tokenline) > 1 /\ NamedByString
<1>1. /\ phase = "group" /\ it <= Len(tokens) /\ tokens[it] = "semicolon"
      /\ tokenline' = <<>> /\ Step /\ stack' = stack
      /\ kept => /\ blocks' = [blocks EXCEPT ![Top].simple = Append(@, tokenline)]
                 /\ said' = said
      /\ ~kept => said' = TRUE /\ blocks' = blocks
  BY DEF Semicolon, At
<1> HIDE DEF kept
<1>2. /\ Top \in DOMAIN blocks /\ tokenline \in Seq(Nat)
      /\ \A b \in DOMAIN blocks : blocks[b] \in BlockRecords
  BY TopTyped DEF Grouping
<1>3. /\ DOMAIN blocks' = DOMAIN blocks
      /\ \A b \in DOMAIN blocks : b # Top => blocks'[b] = blocks[b]
      /\ blocks'[Top].words = blocks[Top].words /\ blocks'[Top].bodies = blocks[Top].bodies
      /\ kept => blocks'[Top].simple = Append(blocks[Top].simple, tokenline)
      /\ blocks'[Top] \in BlockRecords
  <2>1. CASE kept
    <3>1. blocks[Top] \in BlockRecords
      BY <1>2
    <3>2. Append(blocks[Top].simple, tokenline) \in Seq(Seq(Nat))
      BY <1>2, <3>1 DEF BlockRecords
    <3>3. blocks' = [blocks EXCEPT ![Top] =
                        [blocks[Top] EXCEPT !.simple = Append(blocks[Top].simple, tokenline)]]
      BY <1>1, <2>1
    <3> QED
      BY <1>2, <2>1, <3>1, <3>2, <3>3 DEF BlockRecords
  <2>2. CASE ~kept
    BY <1>1, <1>2, <2>2
  <2> QED
    BY <2>1, <2>2
<1>4. \A b \in DOMAIN blocks' : b \in DOMAIN blocks /\ blocks'[b] \in BlockRecords
  BY <1>2, <1>3
<1>5. Moves
  <2>1. tokenline' \in Seq(Nat) /\ \A k \in DOMAIN tokenline' : tokenline'[k] \in 1..it
    BY <1>1
  <2>2. said' \in BOOLEAN
    BY <1>1 DEF Grouping
  <2> QED
    BY <1>1, <1>3, <1>4, <2>1, <2>2, GroupingStep DEF Moves, Grouping
<1>6. it \in Delimiters
  BY <1>1, <1>5 DEF Delimiters, Moves
<1>7. WellPlaced(it) <=> kept
  BY <1>1, <1>5, <1>6, PlacedByWords DEF kept
<1>8. WordsWait' /\ FaultsSaid'
  BY <1>1, <1>5, <1>6, <1>7, WordsAndFaults
<1>9. BracesCount'
  <2>1. Refused' = Refused
    BY <1>1, <1>3, <1>5, RefusedCount
  <2>2. it \in Nat \ {0}
    BY TopTyped
  <2>3. Depth(it - 1)' = Depth(it) /\ Depth(it) = Depth(it - 1) /\ BracesCount
    BY <1>1, <1>5, <2>2, MovesFacts, DepthNext
  <2> QED
    BY <1>1, <2>1, <2>3 DEF BracesCount
<1>10. ASSUME ~said' PROVE  StackIsAround' /\ \A b \in DOMAIN blocks' : Holds(b)'
  <2>1. kept /\ ~said
    BY <1>1, <1>10
  <2>2. StackIsAround /\ \A b \in DOMAIN blocks : Holds(b)
    BY <1>5, <2>1, QuietBefore
  <2>3. StackIsAround'
    BY <1>1, <1>3, <1>5, <2>1, StackStays
  <2>4. ASSUME NEW b \in DOMAIN blocks' PROVE  Holds(b)'
    <3> DEFINE E == Ended(b, "semicolon")
               F == IF b = Top THEN E \cup {it} ELSE E
    <3>1. /\ Ended(b, "semicolon")' = F /\ E \subseteq 1..it - 1 /\ IsFiniteSet(E)
          /\ Ended(b, "lcurly")' = Ended(b, "lcurly")
      BY <1>1, <1>5, <2>2, EndedNext
    <3>2. OnStack' = OnStack
      BY <1>1 DEF OnStack
    <3>3. /\ b \in DOMAIN blocks
          /\ b # Main => blocks[b].words = Words(b)
          /\ blocks[b].simple = [k \in DOMAIN InOrder(E) |-> Words(InOrder(E)[k])]
          /\ blocks[b].bodies = InOrder(Ended(b, "lcurly") \ OnStack)
      BY <1>3, <2>2 DEF Holds
    <3> HIDE DEF E
    <3>4. blocks'[b].simple = [k \in DOMAIN InOrder(F) |-> Words(InOrder(F)[k])]
      <4>1. CASE b # Top
        BY <1>3, <3>3, <4>1
      <4>2. CASE b = Top
        <5> DEFINE c == Cardinality(E)
                   s == blocks[Top].simple
        <5>1. E \subseteq Nat /\ it \in Nat /\ \A j \in E : j < it
          <6>1. it \in Nat \ {0}
            BY TopTyped
          <6> QED
            BY <3>1, <6>1
        <5>2. /\ c \in Nat /\ DOMAIN InOrder(E) = 1..c /\ DOMAIN InOrder(E \cup {it}) = 1..c + 1
              /\ \A k \in 1..c : InOrder(E \cup {it})[k] = InOrder(E)[k]
              /\ InOrder(E \cup {it})[c + 1] = it
          BY <3>1, <5>1, InOrderNext
        <5>3. s \in Seq(Seq(Nat)) /\ tokenline = Words(it)
          BY <1>2, <1>5, MovesFacts DEF BlockRecords, WordsWait
        <5> HIDE DEF c, s
        <5>4. s = [k \in 1..c |-> Words(InOrder(E)[k])]
          BY <3>3, <4>2, <5>2 DEF s
        <5>5. Len(s) = c
          BY <5>2, <5>3, <5>4
        <5>6. /\ Append(s, tokenline) \in Seq(Seq(Nat)) /\ DOMAIN Append(s, tokenline) = 1..c + 1
              /\ Len(Append(s, tokenline)) = c + 1
              /\ \A k \in 1..c : Append(s, tokenline)[k] = s[k]
              /\ Append(s, tokenline)[c + 1] = tokenline
          BY <1>2, <5>2, <5>3, <5>5
        <5>7. ASSUME NEW k \in 1..c + 1
              PROVE  Append(s, tokenline)[k] = Words(InOrder(E \cup {it})[k])
          <6>1. k \in 1..c \/ k = c + 1
            BY <5>2
          <6>2. CASE k \in 1..c
            <7>1. s[k] = Words(InOrder(E)[k])
              BY <5>4, <6>2
            <7> QED
              BY <5>2, <5>6, <6>2, <7>1
          <6>3. CASE k = c + 1
            BY <5>2, <5>3, <5>6, <6>3
          <6> QED
            BY <6>1, <6>2, <6>3
        <5>8. Append(s, tokenline) = [k \in 1..c + 1 |-> Words(InOrder(E \cup {it})[k])]
          <6> DEFINE t == Append(s, tokenline)
          <6>1. t = [k \in 1..c + 1 |-> t[k]]
            <7>1. t \in Seq(Seq(Nat)) /\ Len(t) = c + 1
              BY <5>6
            <7> HIDE DEF t
            <7> QED
              BY <7>1, SeqIsFunction
          <6> QED
            BY <5>7, <6>1, Zenon
        <5>9. F = E \cup {it} /\ blocks'[b].simple = Append(s, tokenline)
          BY <1>3, <2>1, <4>2 DEF s
        <5> HIDE DEF F
        <5> QED
          BY <5>2, <5>8, <5>9
      <4> QED
        BY <4>1, <4>2
    <3> HIDE DEF F
    <3>5. (b # Main => blocks'[b].words = Words(b)) /\ blocks'[b].bodies = blocks[b].bodies
      BY <1>3, <3>3
    <3>6. Ended(b, "lcurly")' \ OnStack' = Ended(b, "lcurly") \ OnStack
      BY <3>1, <3>2
    <3> QED
      BY <1>5, <3>1, <3>3, <3>4, <3>5, <3>6, HoldsNext
  <2> QED
    BY <2>3, <2>4
<1> QED
  BY <1>5, <1>8, <1>9, <1>10 DEF Moves, GroupInv

LEMMA RefuseBlockStep ==
    ASSUME Grouping, GroupInv, RefuseBlock
    PROVE  Grouping' /\ GroupInv'
<1>1. /\ phase = "group" /\ it <= Len(tokens) /\ tokens[it] = "lcurly" /\ ~NamedByString
      /\ said' = TRUE /\ tokenline' = <<>> /\ Step /\ stack' = stack /\ blocks' = blocks
  BY DEF RefuseBlock, At
<1>2. Moves
  <2>1. tokenline' \in Seq(Nat) /\ \A k \in DOMAIN tokenline' : tokenline'[k] \in 1..it
    BY <1>1
  <2> QED
    BY <1>1, <2>1, GroupingStep DEF Moves, Grouping
<1>3. it \in Delimiters
  BY <1>1, <1>2 DEF Delimiters, Moves
<1>4. ~WellPlaced(it)
  BY <1>1, <1>2, <1>3, PlacedByWords
<1>5. WordsWait' /\ FaultsSaid'
  BY <1>1, <1>2, <1>3, <1>4, WordsAndFaults
<1>6. BracesCount'
  <2>1. it \notin DOMAIN blocks' /\ it \in Nat \ {0} /\ Len(stack) \in Nat
    BY <1>1, <1>2, MovesFacts, TopTyped
  <2>2. /\ Refused' = Refused \cup {it} /\ Cardinality(Refused) \in Nat
        /\ Cardinality(Refused \cup {it}) = Cardinality(Refused) + 1
    BY <1>1, <1>2, <2>1, RefusedCount
  <2>3. Depth(it - 1)' = Depth(it) /\ Depth(it) = Depth(it - 1) + 1 /\ BracesCount
    BY <1>1, <1>2, <2>1, MovesFacts, DepthNext
  <2>4. Depth(it) = Len(stack) - 1 + Cardinality(Refused \cup {it})
    BY <2>1, <2>2, <2>3 DEF BracesCount
  <2> QED
    BY <1>1, <2>2, <2>3, <2>4 DEF BracesCount
<1> QED
  BY <1>1, <1>2, <1>5, <1>6 DEF Moves, GroupInv

\* A token stands in a block whose brace came before it, and no further out than
\* any block around it.
LEMMA HomeBefore ==
    ASSUME NEW i \in Nat \ {0}
    PROVE  Home(i) \in 0..i - 1 /\ \A j \in Around(i) : Home(i) >= j
<1> DEFINE S == {Main} \cup Around(i)
<1>1. S \subseteq 0..i - 1 /\ S # {} /\ i - 1 \in Nat
  BY DEF Around, Main
<1>2. Home(i) = Max(S)
  BY DEF Home
<1>3. Max(S) \in S /\ \A j \in S : Max(S) >= j
  BY <1>1, LastOf
<1> QED
  BY <1>1, <1>2, <1>3

LEMMA OpenBlockStep ==
    ASSUME Grouping, GroupInv, OpenBlock
    PROVE  Grouping' /\ GroupInv'
<1> DEFINE n == Len(stack)
<1>1. /\ phase = "group" /\ it <= Len(tokens) /\ tokens[it] = "lcurly" /\ NamedByString
      /\ stack' = Append(stack, it)
      /\ blocks' = [b \in DOMAIN blocks \cup {it} |-> IF b = it THEN Block(tokenline) ELSE blocks[b]]
      /\ tokenline' = <<>> /\ Step /\ said' = said
  BY DEF OpenBlock, At
<1>2. /\ n \in Nat \ {0} /\ DOMAIN stack = 1..n /\ Top = stack[n] /\ it \in Nat \ {0}
      /\ stack \in Seq(Nat) /\ stack[1] = Main /\ tokenline \in Seq(Nat)
      /\ Top \in DOMAIN blocks
  BY TopTyped DEF Grouping
<1>3. \A d \in 1..n : stack[d] \in DOMAIN blocks /\ stack[d] \in Nat /\ stack[d] < it
  <2>1. \A b \in DOMAIN blocks : b \in Nat /\ b < it
    BY <1>2 DEF Grouping, Main
  <2> QED
    BY <1>2, <2>1 DEF Grouping
<1> HIDE DEF n
<1>4. /\ stack' \in Seq(Nat) /\ Len(stack') = n + 1 /\ DOMAIN stack' = 1..n + 1
      /\ stack'[n + 1] = it /\ \A d \in 1..n : stack'[d] = stack[d]
  BY <1>1, <1>2 DEF n
<1>5. /\ DOMAIN blocks' = DOMAIN blocks \cup {it} /\ it \notin DOMAIN blocks
      /\ blocks'[it] = Block(tokenline) /\ \A b \in DOMAIN blocks : blocks'[b] = blocks[b]
  <2>1. it \notin DOMAIN blocks
    BY <1>2 DEF Grouping, Main
  <2> QED
    BY <1>1, <2>1
<1>6. Moves
  <2>1. tokenline' \in Seq(Nat) /\ \A k \in DOMAIN tokenline' : tokenline'[k] \in 1..it
    BY <1>1
  <2>2. Block(tokenline) \in BlockRecords
    BY <1>2 DEF Block, BlockRecords
  <2>3. \A b \in DOMAIN blocks' : /\ b \in DOMAIN blocks \/ (b = it /\ tokens[it] = "lcurly")
                                  /\ blocks'[b] \in BlockRecords
    BY <1>1, <1>5, <2>2 DEF Grouping
  <2>4. \A d \in 1..n + 1 : d \in 1..n \/ d = n + 1
    BY <1>2
  <2>5. \A d \in DOMAIN stack' : stack'[d] \in DOMAIN blocks'
    BY <1>3, <1>4, <1>5, <2>4
  <2>6. stack' # <<>> /\ stack'[1] = Main
    BY <1>2, <1>4
  <2>7. said' \in BOOLEAN /\ DOMAIN blocks \subseteq DOMAIN blocks'
    BY <1>1, <1>5 DEF Grouping
  <2> QED
    BY <1>1, <1>4, <2>1, <2>3, <2>5, <2>6, <2>7, GroupingStep DEF Moves
<1>7. it \in Delimiters
  BY <1>1, <1>6 DEF Delimiters, Moves
<1>8. WellPlaced(it)
  BY <1>1, <1>6, <1>7, PlacedByWords
<1>9. WordsWait' /\ FaultsSaid'
  BY <1>1, <1>6, <1>7, <1>8, WordsAndFaults
<1>10. Depth(it - 1)' = Depth(it) /\ Depth(it) = Depth(it - 1) + 1 /\ BracesCount
  BY <1>1, <1>2, <1>6, MovesFacts, DepthNext
<1>11. BracesCount'
  <2>1. Refused' = Refused /\ Cardinality(Refused) \in Nat
    BY <1>5, <1>6, RefusedCount
  <2>2. Depth(it) = Len(stack') - 1 + Cardinality(Refused)
    BY <1>2, <1>4, <1>10, <2>1 DEF BracesCount, n
  <2> QED
    BY <1>10, <2>1, <2>2 DEF BracesCount
<1>12. ASSUME ~said' PROVE  StackIsAround' /\ \A b \in DOMAIN blocks' : Holds(b)'
  <2>1. /\ StackIsAround /\ \A b \in DOMAIN blocks : Holds(b)
        /\ Depth(it - 1) = n - 1 /\ Home(it) = Top
    BY <1>1, <1>6, <1>12, QuietBefore DEF n
  <2>2. Depth(it) = n
    BY <1>2, <1>10, <2>1
  <2>3. \A d \in 1..n + 1 : d \in 1..n \/ d = n + 1
    BY <1>2
  <2>4. {stack'[d] : d \in 2..n + 1} = OnStack \cup {it}
    <3>1. 2..n + 1 = 2..n \cup {n + 1} /\ 2..n \subseteq 1..n
      BY <1>2
    <3> QED
      BY <1>4, <3>1 DEF OnStack, n
  <2>5. StackIsAround'
    <3>1. 1..it = 1..it - 1 \cup {it}
      BY <1>2
    <3>2. \A i \in 1..it : Depth(i) >= 0
      BY <1>2, <2>1, <2>2, <3>1 DEF StackIsAround
    <3>3. DOMAIN blocks' = {Main} \cup {i \in 1..it : tokens[i] = "lcurly"}
      BY <1>1, <1>5, <2>1, <3>1 DEF StackIsAround
    <3>4. Around(it + 1) = OnStack \cup {it}
      <4>1. \A j \in OnStack : Depth(it) >= Depth(j)
        BY <1>2, <2>1, <2>2 DEF OnStack, StackIsAround, n
      <4> QED
        BY <1>1, <1>2, <2>1, <4>1, AroundNext DEF StackIsAround
    <3>5. \A d, e \in 1..n + 1 : d < e => stack'[d] < stack'[e]
      <4> SUFFICES ASSUME NEW d \in 1..n + 1, NEW e \in 1..n + 1, d < e
                   PROVE  stack'[d] < stack'[e]
        OBVIOUS
      <4>1. d \in 1..n
        BY <1>2
      <4>2. CASE e \in 1..n
        BY <1>4, <2>1, <4>1, <4>2 DEF StackIsAround, n
      <4>3. CASE e = n + 1
        BY <1>3, <1>4, <4>1, <4>3
      <4> QED
        BY <2>3, <4>2, <4>3
    <3>6. ASSUME NEW d \in 2..n + 1
          PROVE  Depth(stack'[d]) = d - 1 /\ Home(stack'[d]) = stack'[d - 1]
      <4>1. CASE d = n + 1
        <5>1. n \in 1..n /\ d - 1 = n
          BY <1>2, <4>1
        <5> QED
          BY <1>2, <1>4, <2>1, <2>2, <4>1, <5>1
      <4>2. CASE d # n + 1
        <5>1. d \in 2..n /\ d \in 1..n /\ d - 1 \in 1..n
          BY <1>2, <4>2
        <5> QED
          BY <1>4, <2>1, <5>1 DEF StackIsAround, n
      <4> QED
        BY <4>1, <4>2
    <3> QED
      BY <1>4, <1>6, <2>4, <3>2, <3>3, <3>4, <3>5, <3>6, StackIsAroundNext
  <2>6. OnStack' = OnStack \cup {it}
    BY <1>4, <2>4 DEF OnStack
  <2>7. ASSUME NEW b \in DOMAIN blocks PROVE  Holds(b)'
    <3>1. /\ Ended(b, "semicolon")' = Ended(b, "semicolon")
          /\ Ended(b, "lcurly")' = IF b = Top THEN Ended(b, "lcurly") \cup {it}
                                   ELSE Ended(b, "lcurly")
          /\ Ended(b, "lcurly") \subseteq 1..it - 1
      BY <1>1, <1>6, <2>1, EndedNext
    <3>2. it \notin 1..it - 1
      BY <1>2
    <3>3. Ended(b, "lcurly")' \ OnStack' = Ended(b, "lcurly") \ OnStack
      BY <2>6, <3>1, <3>2
    <3>4. /\ b # Main => blocks'[b].words = Words(b)
          /\ blocks'[b].simple = [k \in DOMAIN InOrder(Ended(b, "semicolon")) |->
                                      Words(InOrder(Ended(b, "semicolon"))[k])]
          /\ blocks'[b].bodies = InOrder(Ended(b, "lcurly") \ OnStack)
      BY <1>5, <2>1 DEF Holds
    <3> QED
      BY <1>6, <3>1, <3>3, <3>4, HoldsNext
  <2>8. ASSUME NEW b \in DOMAIN blocks', b = it PROVE  Holds(b)'
    <3>1. \A i \in 1..it - 1 : Home(i) # it
      <4> SUFFICES ASSUME NEW i \in 1..it - 1 PROVE Home(i) # it
        OBVIOUS
      <4>1. i \in Nat \ {0} /\ i < it
        BY <1>2
      <4>2. Home(i) \in 0..i - 1
        BY <4>1, HomeBefore
      <4> QED
        BY <1>2, <4>1, <4>2
    <3>2. b # Top
      BY <1>2, <1>5, <2>8
    <3>3. \A type : Ended(b, type) = {}
      BY <2>8, <3>1 DEF Ended
    <3>4. tokenline = Words(it)
      BY <1>6, MovesFacts DEF WordsWait
    <3>5. /\ blocks'[b].words = Words(b) /\ blocks'[b].simple = <<>>
          /\ blocks'[b].bodies = <<>>
      BY <1>5, <2>8, <3>4 DEF Block
    <3>6. Ended(b, "semicolon")' = {} /\ Ended(b, "lcurly")' \ OnStack' = {}
      BY <1>1, <1>6, <2>1, <3>2, <3>3, EndedNext
    <3>7. blocks'[b].simple = [k \in DOMAIN InOrder({}) |-> Words(InOrder({})[k])]
      <4>1. DOMAIN InOrder({}) = {}
        BY InOrderNone
      <4> QED
        BY <3>5, <4>1
    <3> QED
      BY <1>6, <3>5, <3>6, <3>7, HoldsNext, InOrderNone
  <2> QED
    BY <1>5, <2>5, <2>7, <2>8
<1> QED
  BY <1>6, <1>9, <1>11, <1>12 DEF Moves, GroupInv

LEMMA CloseBlockStep ==
    ASSUME Grouping, GroupInv, CloseBlock
    PROVE  Grouping' /\ GroupInv'
<1> DEFINE n == Len(stack)
           p == stack[n - 1]
<1>1. /\ phase = "group" /\ it <= Len(tokens) /\ tokens[it] = "rcurly"
      /\ n > 1 /\ tokenline = <<>>
      /\ blocks' = [blocks EXCEPT ![p].bodies = Append(@, Top)]
      /\ stack' = SubSeq(stack, 1, n - 1)
      /\ tokenline' = tokenline /\ Step /\ said' = said
  BY DEF CloseBlock, At
<1>2. /\ n \in Nat /\ DOMAIN stack = 1..n /\ Top = stack[n] /\ it \in Nat \ {0}
      /\ Top \in DOMAIN blocks /\ Top \in Nat
      /\ stack \in Seq(Nat) /\ stack[1] = Main
      /\ \A b \in DOMAIN blocks : blocks[b] \in BlockRecords
      /\ \A d \in DOMAIN stack : stack[d] \in DOMAIN blocks
  BY TopTyped DEF Grouping
<1>3. /\ stack' \in Seq(Nat) /\ Len(stack') = n - 1
      /\ \A d \in 1..n - 1 : stack'[d] = stack[d]
  BY <1>1, <1>2
<1> HIDE DEF n
<1>4. /\ n - 1 \in 1..n /\ 1 \in 1..n - 1 /\ DOMAIN stack' = 1..n - 1
      /\ \A d \in 1..n - 1 : d \in 1..n
  BY <1>1, <1>2, <1>3
<1>5. p \in DOMAIN blocks /\ p \in Nat
  BY <1>2, <1>4
<1> HIDE DEF p
<1>6. /\ DOMAIN blocks' = DOMAIN blocks
      /\ \A b \in DOMAIN blocks : b # p => blocks'[b] = blocks[b]
      /\ blocks'[p].words = blocks[p].words /\ blocks'[p].simple = blocks[p].simple
      /\ blocks'[p].bodies = Append(blocks[p].bodies, Top)
      /\ blocks'[p] \in BlockRecords
  <2>1. blocks[p] \in BlockRecords
    BY <1>2, <1>5
  <2>2. Append(blocks[p].bodies, Top) \in Seq(Nat)
    BY <1>2, <2>1 DEF BlockRecords
  <2>3. blocks' = [blocks EXCEPT ![p] =
                      [blocks[p] EXCEPT !.bodies = Append(blocks[p].bodies, Top)]]
    BY <1>1
  <2> QED
    BY <1>5, <2>1, <2>2, <2>3 DEF BlockRecords
<1>7. Moves
  <2>1. tokenline' \in Seq(Nat) /\ \A k \in DOMAIN tokenline' : tokenline'[k] \in 1..it
    BY <1>1
  <2>2. \A b \in DOMAIN blocks' : b \in DOMAIN blocks /\ blocks'[b] \in BlockRecords
    BY <1>2, <1>6
  <2>3. \A d \in DOMAIN stack' : stack'[d] \in DOMAIN blocks'
    BY <1>2, <1>3, <1>4, <1>6
  <2>4. stack' # <<>> /\ stack'[1] = Main
    BY <1>2, <1>3, <1>4
  <2>5. said' \in BOOLEAN
    BY <1>1 DEF Grouping
  <2> QED
    BY <1>1, <1>3, <1>6, <2>1, <2>2, <2>3, <2>4, <2>5, GroupingStep DEF Moves
<1>8. it \in Delimiters
  BY <1>1, <1>7 DEF Delimiters, Moves
<1>9. WellPlaced(it)
  BY <1>1, <1>7, <1>8, PlacedByWords
<1>10. WordsWait' /\ FaultsSaid'
  BY <1>1, <1>7, <1>8, <1>9, WordsAndFaults
<1>11. Depth(it - 1)' = Depth(it) /\ Depth(it) = Depth(it - 1) - 1 /\ BracesCount
  BY <1>1, <1>2, <1>7, MovesFacts, DepthNext
<1>12. BracesCount'
  <2>1. Refused' = Refused /\ Cardinality(Refused) \in Nat
    BY <1>1, <1>6, <1>7, RefusedCount
  <2>2. Depth(it) = Len(stack') - 1 + Cardinality(Refused)
    BY <1>2, <1>3, <1>11, <2>1 DEF BracesCount, n
  <2> QED
    BY <1>11, <2>1, <2>2 DEF BracesCount
<1>13. ASSUME ~said' PROVE  StackIsAround' /\ \A b \in DOMAIN blocks' : Holds(b)'
  <2>1. /\ StackIsAround /\ \A b \in DOMAIN blocks : Holds(b)
        /\ Depth(it - 1) = n - 1
    BY <1>1, <1>7, <1>13, QuietBefore DEF n
  <2>2. Depth(it) = n - 2 /\ n >= 2
    BY <1>1, <1>2, <1>11, <2>1
  <2>3. /\ \A d, e \in 1..n : d < e => stack[d] < stack[e]
        /\ \A d \in 2..n : Depth(stack[d]) = d - 1 /\ Home(stack[d]) = stack[d - 1]
        /\ OnStack = {stack[d] : d \in 2..n}
    BY <2>1 DEF StackIsAround, OnStack, n
  <2>4. 2..n = 2..n - 1 \cup {n} /\ n \in 2..n /\ n \in 1..n /\ n \notin 2..n - 1 /\ n - 1 < n
    BY <2>2, <1>2
  <2>5. p < Top /\ Home(Top) = p
    BY <1>2, <1>4, <2>3, <2>4 DEF p
  <2>6. {stack'[d] : d \in 2..n - 1} = OnStack \ {Top}
    <3>1. \A d \in 2..n - 1 : d \in 1..n - 1 /\ d \in 1..n /\ d < n
      BY <1>2
    <3>2. ASSUME NEW d \in 2..n - 1 PROVE  stack'[d] = stack[d] /\ stack[d] # Top
      <4>1. stack'[d] = stack[d]
        BY <1>3, <3>1
      <4>2. stack[d] < stack[n] /\ stack[d] \in Nat
        BY <1>2, <2>3, <2>4, <3>1
      <4> QED
        BY <1>2, <4>1, <4>2
    <3>3. {stack'[d] : d \in 2..n - 1} = {stack[d] : d \in 2..n - 1}
      BY <3>2
    <3>4. OnStack = {stack[d] : d \in 2..n - 1} \cup {Top}
      BY <1>2, <2>3, <2>4
    <3> QED
      BY <3>2, <3>3, <3>4
  <2>7. OnStack' = OnStack \ {Top}
    BY <1>3, <2>6 DEF OnStack
  <2>8. Top \in OnStack
    BY <1>2, <2>3, <2>4
  <2>9. StackIsAround'
    <3>1. 1..it = 1..it - 1 \cup {it}
      BY <1>2
    <3>2. \A i \in 1..it : Depth(i) >= 0
      BY <1>2, <2>1, <2>2, <3>1 DEF StackIsAround
    <3>3. DOMAIN blocks' = {Main} \cup {i \in 1..it : tokens[i] = "lcurly"}
      BY <1>1, <1>6, <2>1, <3>1 DEF StackIsAround
    <3>4. Around(it + 1) = OnStack \ {Top}
      <4>1. ASSUME NEW d \in 2..n PROVE  Depth(it) >= Depth(stack[d]) <=> d # n
        BY <1>2, <2>2, <2>3
      <4>2. ASSUME NEW d \in 2..n PROVE  d # n <=> stack[d] # Top
        <5>1. CASE d = n
          BY <1>2, <5>1
        <5>2. CASE d # n
          <6>1. d \in 1..n /\ d < n
            BY <1>2, <5>2
          <6>2. stack[d] < Top /\ stack[d] \in Nat
            BY <1>2, <2>3, <2>4, <6>1
          <6> QED
            BY <1>2, <5>2, <6>2
        <5> QED
          BY <5>1, <5>2
      <4>3. \A j \in OnStack : Depth(it) >= Depth(j) <=> j # Top
        BY <2>3, <4>1, <4>2
      <4>4. Around(it + 1) = {j \in OnStack : Depth(it) >= Depth(j)}
        BY <1>1, <1>2, <2>1, AroundNext DEF StackIsAround
      <4> QED
        BY <4>3, <4>4
    <3>5. \A d, e \in 1..n - 1 : d < e => stack'[d] < stack'[e]
      BY <1>3, <1>4, <2>3
    <3>6. ASSUME NEW d \in 2..n - 1
          PROVE  Depth(stack'[d]) = d - 1 /\ Home(stack'[d]) = stack'[d - 1]
      <4>1. d \in 2..n /\ d \in 1..n - 1 /\ d - 1 \in 1..n - 1
        BY <1>2
      <4> QED
        BY <1>3, <2>3, <4>1
    <3> QED
      BY <1>3, <1>7, <2>6, <3>2, <3>3, <3>4, <3>5, <3>6, StackIsAroundNext
  <2>10. Top \in 1..it - 1 /\ tokens[Top] = "lcurly"
    BY <2>1, <2>8 DEF StackIsAround, Around
  <2>11. ASSUME NEW j \in Ended(p, "lcurly") \ OnStack PROVE  j < Top
    <3>1. j \in 1..it - 1 /\ Home(j) = p /\ j # Top
      BY <2>8 DEF Ended
    <3>2. j \in Nat \ {0}
      BY <3>1
    <3> SUFFICES ASSUME Top < j PROVE FALSE
      BY <1>2, <3>1, <3>2
    <3>3. Top \in Around(it)
      BY <2>1, <2>8 DEF StackIsAround
    <3>4. Top \in 1..j - 1 /\ \A k \in Top..j - 1 : k \in Top..it - 1
      BY <1>2, <2>10, <3>1
    <3>5. Top \in Around(j)
      BY <3>3, <3>4 DEF Around
    <3>6. Home(j) >= Top
      BY <3>2, <3>5, HomeBefore
    <3> QED
      BY <1>2, <1>5, <2>5, <3>1, <3>6
  <2>12. ASSUME NEW b \in DOMAIN blocks' PROVE  Holds(b)'
    <3>1. /\ Ended(b, "semicolon")' = Ended(b, "semicolon")
          /\ Ended(b, "lcurly")' = Ended(b, "lcurly")
          /\ Ended(b, "lcurly") \subseteq 1..it - 1 /\ IsFiniteSet(Ended(b, "lcurly"))
      BY <1>1, <1>7, <2>1, EndedNext
    <3> DEFINE S == Ended(b, "lcurly") \ OnStack
    <3>2. /\ b \in DOMAIN blocks
          /\ b # Main => blocks[b].words = Words(b)
          /\ blocks[b].simple = [k \in DOMAIN InOrder(Ended(b, "semicolon")) |->
                                     Words(InOrder(Ended(b, "semicolon"))[k])]
          /\ blocks[b].bodies = InOrder(S)
      BY <1>6, <2>1 DEF Holds
    <3>3. Top \in Ended(b, "lcurly") <=> b = p
      BY <2>5, <2>10 DEF Ended
    <3>4. Ended(b, "lcurly")' \ OnStack' = IF b = p THEN S \cup {Top} ELSE S
      BY <2>7, <2>8, <3>1, <3>3
    <3>5. blocks'[b].bodies = InOrder(IF b = p THEN S \cup {Top} ELSE S)
      <4>1. CASE b # p
        BY <1>6, <3>2, <4>1
      <4>2. CASE b = p
        <5> DEFINE c == Cardinality(S)
                   s == blocks[p].bodies
        <5>1. S \subseteq Nat /\ IsFiniteSet(S) /\ \A j \in S : j < Top
          <6>1. S \in SUBSET Ended(b, "lcurly")
            OBVIOUS
          <6> QED
            BY <2>11, <3>1, <4>2, <6>1, FS_Subset
        <5> HIDE DEF S
        <5>2. /\ c \in Nat /\ DOMAIN InOrder(S) = 1..c /\ DOMAIN InOrder(S \cup {Top}) = 1..c + 1
              /\ \A k \in 1..c : InOrder(S \cup {Top})[k] = InOrder(S)[k]
              /\ InOrder(S \cup {Top})[c + 1] = Top
          BY <1>2, <5>1, InOrderNext
        <5>3. s \in Seq(Nat) /\ s = InOrder(S)
          BY <1>2, <1>5, <3>2, <4>2 DEF BlockRecords
        <5> HIDE DEF c, s
        <5>4. Len(s) = c
          BY <5>2, <5>3
        <5>5. /\ Append(s, Top) \in Seq(Nat) /\ Len(Append(s, Top)) = c + 1
              /\ \A k \in 1..c : Append(s, Top)[k] = s[k]
              /\ Append(s, Top)[c + 1] = Top
          BY <1>2, <5>2, <5>3, <5>4
        <5>6. ASSUME NEW k \in 1..c + 1
              PROVE  Append(s, Top)[k] = InOrder(S \cup {Top})[k]
          <6>1. k \in 1..c \/ k = c + 1
            BY <5>2
          <6> QED
            BY <5>2, <5>3, <5>5, <6>1
        <5>7. Append(s, Top) = InOrder(S \cup {Top})
          <6> DEFINE t == Append(s, Top)
                     o == InOrder(S \cup {Top})
          <6>1. t = [k \in 1..c + 1 |-> t[k]]
            <7>1. t \in Seq(Nat) /\ Len(t) = c + 1
              BY <5>5
            <7> HIDE DEF t
            <7> QED
              BY <7>1, SeqIsFunction
          <6>2. o = [k \in 1..c + 1 |-> o[k]]
            <7>1. o = [k \in 1..Cardinality(S \cup {Top}) |-> o[k]]
              BY DEF InOrder
            <7>2. DOMAIN o = 1..c + 1
              BY <5>2
            <7> HIDE DEF o
            <7> QED
              BY <7>1, <7>2
          <6> QED
            BY <5>6, <6>1, <6>2, Zenon
        <5> QED
          BY <1>6, <4>2, <5>7 DEF s
      <4> QED
        BY <4>1, <4>2
    <3>6. (b # Main => blocks'[b].words = Words(b)) /\ blocks'[b].simple = blocks[b].simple
      BY <1>6, <3>2
    <3> HIDE DEF S
    <3> QED
      BY <1>7, <3>1, <3>2, <3>4, <3>5, <3>6, HoldsNext
  <2> QED
    BY <2>9, <2>12
<1> QED
  BY <1>7, <1>10, <1>12, <1>13 DEF Moves, GroupInv

LEMMA StartStep ==
    ASSUME Grouping, phase = "lex", phase' = "group", Grouping',
           tokens' = tokens, it' = it, stack' = stack, tokenline' = tokenline,
           blocks' = blocks, said' = said
    PROVE  GroupInv'
<1>1. /\ it = 1 /\ stack = <<Main>> /\ tokenline = <<>> /\ ~said
      /\ DOMAIN blocks = {Main} /\ blocks[Main] = Block(<<>>) /\ tokens \in Seq(Types)
  BY DEF Grouping
<1>2. it - 1 = 0 /\ 1..0 = {} /\ Len(stack) = 1 /\ 2..1 = {}
  BY <1>1
<1>3. WordsWait
  BY <1>1, WordsFirst DEF WordsWait
<1>4. FaultsSaid
  <2>1. \A i \in Delimiters : ~(i < 1)
    BY <1>1 DEF Delimiters
  <2> QED
    BY <1>1, <2>1 DEF FaultsSaid
<1>5. Refused = {} /\ OnStack = {} /\ \A b, type : Ended(b, type) = {}
  BY <1>2 DEF Refused, OnStack, Ended
<1>6. BracesCount
  <2>1. Cardinality(Refused) = 0
    BY <1>5, FS_EmptySet
  <2> QED
    BY <1>2, <2>1, DepthFirst DEF BracesCount
<1>7. StackIsAround
  <2>1. Around(it) = {}
    BY <1>1, AroundFirst
  <2>2. \A d, e \in 1..Len(stack) : ~(d < e)
    BY <1>2
  <2> QED
    BY <1>1, <1>2, <1>5, <2>1, <2>2 DEF StackIsAround
<1>8. Holds(Main)
  <2>1. InOrder({}) = <<>> /\ DOMAIN InOrder({}) = {} /\ {} \ OnStack = {}
    BY InOrderNone
  <2>2. [k \in DOMAIN InOrder({}) |-> Words(InOrder({})[k])] = <<>>
    BY <2>1
  <2>3. blocks[Main].simple = <<>> /\ blocks[Main].bodies = <<>>
    BY <1>1 DEF Block
  <2> QED
    BY <1>5, <2>1, <2>2, <2>3 DEF Holds
<1>9. (\A i : Words(i)' = Words(i)) /\ (\A i : Depth(i)' = Depth(i)) /\ (\A i : Home(i)' = Home(i))
      /\ (\A i : Around(i)' = Around(i)) /\ (\A i : WellPlaced(i)' <=> WellPlaced(i))
      /\ Delimiters' = Delimiters
  BY SameTokens
<1>10. WordsWait' /\ FaultsSaid'
  BY <1>3, <1>4, <1>9 DEF WordsWait, FaultsSaid
<1>11. Refused' = Refused /\ OnStack' = OnStack /\ \A b, type : Ended(b, type)' = Ended(b, type)
  BY <1>9 DEF Refused, OnStack, Ended
<1>12. BracesCount'
  BY <1>6, <1>9, <1>11 DEF BracesCount
<1>13. StackIsAround'
  BY <1>7, <1>9, <1>11 DEF StackIsAround
<1>14. ASSUME NEW b \in DOMAIN blocks' PROVE  Holds(b)'
  BY <1>1, <1>8, <1>9, <1>11, <1>14 DEF Holds
<1> QED
  BY <1>10, <1>12, <1>13, <1>14 DEF GroupInv

-----------------------------------------------------------------------------
(* The end of the grouper                                                     *)

\* What is known of a file all of whose tokens were read without an error.
Standing(b, type) == {i \in DOMAIN tokens : tokens[i] = type /\ Home(i) = b}
InBlock(b, type) == InOrder(Standing(b, type))
HoldsAll(b) ==
    LET ends == InBlock(b, "semicolon") IN
    /\ b # Main => blocks[b].words = Words(b)
    /\ blocks[b].simple = [k \in DOMAIN ends |-> Words(ends[k])]
    /\ blocks[b].bodies = InBlock(b, "lcurly")
TreeOfTokens ==
    /\ DOMAIN blocks = {Main} \cup {i \in DOMAIN tokens : tokens[i] = "lcurly"}
    /\ \A b \in DOMAIN blocks : HoldsAll(b)

\* The properties of a file that was grouped.
Judged == QuietIffWellFormed /\ TreeMatchesBraces /\ RefusedBlockRefusesFile

LEMMA JudgedAfter ==
    ASSUME tokens' = tokens, blocks' = blocks,
           phase' = "done" => (ret' = "true" /\ ~said' <=> WellFormed),
           phase' = "done" /\ ret' = "true" /\ ~said' => TreeOfTokens,
           phase' = "done" /\ ret' = "true" /\ Depth(Len(tokens)) = 0 =>
               \A i \in DOMAIN tokens : tokens[i] = "lcurly" => i \in DOMAIN blocks
    PROVE  Judged'
<1>1. (\A i : Words(i)' = Words(i)) /\ (\A i : Depth(i)' = Depth(i)) /\ (\A i : Home(i)' = Home(i))
      /\ (\A i : WellPlaced(i)' <=> WellPlaced(i)) /\ Delimiters' = Delimiters
  BY SameTokens
<1>2. WellFormed' <=> WellFormed
  BY <1>1 DEF WellFormed
<1>3. QuietIffWellFormed'
  BY <1>2 DEF QuietIffWellFormed
<1>4. TreeMatchesBraces'
  <2>1. ASSUME NEW b, NEW type PROVE  InBlock(b, type)' = InBlock(b, type)
    <3>1. Standing(b, type)' = Standing(b, type)
      BY <1>1 DEF Standing
    <3>2. InOrder(Standing(b, type)') = InOrder(Standing(b, type))
      BY <3>1
    <3> QED
      BY <3>2 DEF InBlock
  <2>2. \A b : HoldsAll(b)' <=> HoldsAll(b)
    BY <1>1, <2>1 DEF HoldsAll
  <2>3. TreeOfTokens' <=> TreeOfTokens
    BY <2>2 DEF TreeOfTokens
  <2>4. TreeMatchesBraces <=> (phase = "done" /\ ret = "true" /\ ~said => TreeOfTokens)
    BY DEF TreeMatchesBraces, TreeOfTokens, HoldsAll, InBlock, Standing
  <2>5. TreeMatchesBraces' <=> (phase' = "done" /\ ret' = "true" /\ ~said' => TreeOfTokens')
    BY DEF TreeMatchesBraces, TreeOfTokens, HoldsAll, InBlock, Standing
  <2> QED
    BY <2>3, <2>5
<1>5. RefusedBlockRefusesFile'
  BY <1>1 DEF RefusedBlockRefusesFile
<1> QED
  BY <1>3, <1>4, <1>5 DEF Judged

\* A delimiter out of place spoils the file.
LEMMA FaultSpoils ==
    ASSUME Grouping, GroupInv, phase = "group", said
    PROVE  ~WellFormed
  BY DEF GroupInv, FaultsSaid, WellFormed

LEMMA NamelessBlockStep ==
    ASSUME Grouping, GroupInv, NamelessBlock
    PROVE  Judged'
<1>1. /\ phase = "group" /\ it <= Len(tokens) /\ tokens[it] = "lcurly" /\ tokenline = <<>>
      /\ ret' = "died" /\ tokens' = tokens /\ blocks' = blocks
  BY DEF NamelessBlock, At, Return, lexVars
<1>2. it \in Delimiters
  BY <1>1, TopTyped DEF Delimiters
<1>3. Words(it) = <<>>
  BY <1>1 DEF GroupInv, WordsWait
<1>4. ~WellPlaced(it)
  BY <1>1, <1>3 DEF WellPlaced
<1>5. ~WellFormed
  BY <1>2, <1>4 DEF WellFormed
<1> QED
  BY <1>1, <1>5, JudgedAfter

LEMMA BadCloseStep ==
    ASSUME Grouping, GroupInv, BadClose
    PROVE  Judged'
<1>1. /\ phase = "group" /\ it <= Len(tokens) /\ tokens[it] = "rcurly"
      /\ Len(stack) = 1 \/ tokenline # <<>>
      /\ ret' = "false" /\ tokens' = tokens /\ blocks' = blocks
  BY DEF BadClose, At, Return, lexVars
<1>2. it \in Delimiters /\ it \in DOMAIN tokens /\ it \in Nat \ {0}
  BY <1>1, TopTyped DEF Delimiters
<1>3. CASE tokenline # <<>>
  <2>1. Words(it) = tokenline /\ tokenline \in Seq(Nat)
    BY <1>1 DEF GroupInv, WordsWait, Grouping
  <2>2. Len(Words(it)) # 0
    BY <1>3, <2>1
  <2>3. ~WellPlaced(it)
    BY <1>1, <2>2 DEF WellPlaced
  <2>4. ~WellFormed
    BY <1>2, <2>3 DEF WellFormed
  <2> QED
    BY <1>1, <2>4, JudgedAfter
<1>4. CASE Len(stack) = 1 /\ said
  BY <1>1, <1>4, FaultSpoils, JudgedAfter
<1>5. CASE Len(stack) = 1 /\ ~said
  <2>1. StackIsAround /\ BracesCount
    BY <1>1, <1>5 DEF GroupInv
  <2>2. Refused = {}
    BY <2>1 DEF Refused, StackIsAround
  <2>3. Depth(it - 1) = 0
    BY <1>5, <2>1, <2>2, FS_EmptySet DEF BracesCount
  <2>4. Depth(it) = 0 - 1
    BY <1>1, <1>2, <2>3, DepthNext
  <2>5. ~WellFormed
    BY <1>2, <2>4 DEF WellFormed
  <2> QED
    BY <1>1, <2>5, JudgedAfter
<1> QED
  BY <1>1, <1>3, <1>4, <1>5 DEF Grouping

LEMMA GroupEndStep ==
    ASSUME Grouping, GroupInv, GroupEnd
    PROVE  Judged'
<1>1. /\ phase = "group" /\ it > Len(tokens) /\ tokens' = tokens /\ blocks' = blocks
      /\ (tokenline # <<>> \/ Len(stack) > 1) => ret' = "false" /\ said' = TRUE
      /\ ~(tokenline # <<>> \/ Len(stack) > 1) => ret' = "true" /\ said' = said
  BY DEF GroupEnd, Return, lexVars
<1>2. /\ it = Len(tokens) + 1 /\ it - 1 = Len(tokens) /\ DOMAIN tokens = 1..it - 1
      /\ Len(stack) \in Nat \ {0} /\ Len(tokens) \in Nat
  <2>1. /\ Len(stack) \in Nat \ {0} /\ Len(tokens) \in Nat /\ DOMAIN tokens = 1..Len(tokens)
    BY TopTyped
  <2>2. it \in 1..Len(tokens) + 1
    BY DEF Grouping
  <2>3. it = Len(tokens) + 1
    BY <1>1, <2>1, <2>2
  <2> QED
    BY <2>1, <2>3
<1>3. WordsWait /\ FaultsSaid /\ BracesCount
  BY <1>1 DEF GroupInv
<1>4. IsFiniteSet(Refused) /\ Cardinality(Refused) \in Nat
  <2>1. Refused \in SUBSET (1..it - 1) /\ IsFiniteSet(1..it - 1)
    BY <1>2, FS_Interval DEF Refused
  <2> QED
    BY <2>1, FS_Subset, FS_CardinalityType
<1>5. Depth(Len(tokens)) = Len(stack) - 1 + Cardinality(Refused)
  BY <1>2, <1>3 DEF BracesCount
<1>6. CASE tokenline # <<>> \/ Len(stack) > 1
  <2>1. ~WellFormed
    <3>1. CASE tokenline # <<>>
      BY <1>2, <1>3, <3>1 DEF WellFormed, WordsWait
    <3>2. CASE Len(stack) > 1
      <4>1. Depth(Len(tokens)) # 0
        BY <1>2, <1>4, <1>5, <3>2
      <4> QED
        BY <4>1 DEF WellFormed
    <3> QED
      BY <1>6, <3>1, <3>2
  <2> QED
    BY <1>1, <1>6, <2>1, JudgedAfter
<1>7. CASE ~(tokenline # <<>> \/ Len(stack) > 1)
  <2>1. ret' = "true" /\ said' = said /\ tokenline = <<>> /\ Len(stack) = 1
    <3>1. Len(stack) \in Nat \ {0} /\ ~(Len(stack) > 1)
      BY <1>2, <1>7
    <3>2. \A n \in Nat \ {0} : ~(n > 1) => n = 1
      OBVIOUS
    <3>3. Len(stack) = 1
      BY <3>1, <3>2
    <3> QED
      BY <1>1, <1>7, <3>3
  <2>2. ASSUME Depth(Len(tokens)) = 0, NEW i \in DOMAIN tokens, tokens[i] = "lcurly"
        PROVE  i \in DOMAIN blocks
    <3>1. Cardinality(Refused) = 0
      BY <1>4, <1>5, <2>1, <2>2
    <3>2. Refused = {}
      BY <1>4, <3>1, FS_EmptySet
    <3> QED
      BY <1>2, <2>2, <3>2 DEF Refused
  <2>3. CASE said
    BY <1>1, <2>1, <2>2, <2>3, FaultSpoils, JudgedAfter
  <2>4. CASE ~said
    <3>1. StackIsAround /\ \A b \in DOMAIN blocks : Holds(b)
      BY <1>1, <2>4 DEF GroupInv
    <3>2. OnStack = {}
      BY <2>1 DEF OnStack
    <3>3. Refused = {}
      BY <3>1 DEF Refused, StackIsAround
    <3>4. Depth(Len(tokens)) = 0
      BY <1>5, <2>1, <3>3, FS_EmptySet
    <3>5. \A i \in Delimiters : i < it
      BY <1>2 DEF Delimiters
    <3>6. WellFormed
      BY <1>2, <1>3, <2>1, <2>4, <3>1, <3>4, <3>5
         DEF WellFormed, WordsWait, FaultsSaid, StackIsAround
    <3>7. ASSUME NEW b, NEW type
          PROVE  /\ Ended(b, type) = Standing(b, type)
                 /\ Ended(b, type) \ OnStack = Ended(b, type)
      BY <1>2, <3>2 DEF Ended, Standing
    <3>8. TreeOfTokens
      <4>1. \A b, type : InBlock(b, type) = InOrder(Ended(b, type))
        BY <3>7 DEF InBlock
      <4>2. ASSUME NEW b \in DOMAIN blocks PROVE  HoldsAll(b)
        BY <3>1, <3>7, <4>1 DEF HoldsAll, Holds
      <4> QED
        BY <1>2, <3>1, <4>2 DEF TreeOfTokens, StackIsAround
    <3> QED
      BY <1>1, <2>1, <2>2, <2>4, <3>6, <3>8, JudgedAfter
  <2> QED
    BY <2>3, <2>4 DEF Grouping
<1> QED
  BY <1>6, <1>7

-----------------------------------------------------------------------------
(* The parser                                                                 *)

Parsed == Grouping /\ GroupInv /\ Judged

\* What is said of a file that is read to its end waits for that end, and what is
\* said of the grouper for its beginning.
LEMMA NotDone ==
    ASSUME phase' # "done"
    PROVE  Judged'
BY DEF Judged, QuietIffWellFormed, TreeMatchesBraces, RefusedBlockRefusesFile

LEMMA ParsedInit ==
    ASSUME ParserInit
    PROVE  Parsed
<1>1. phase = "lex"
  BY DEF ParserInit
<1>2. GroupInv
  BY <1>1 DEF GroupInv
<1>3. Judged
  BY <1>1 DEF Judged, QuietIffWellFormed, TreeMatchesBraces, RefusedBlockRefusesFile
<1> QED
  BY <1>2, <1>3, GroupingInit DEF Parsed

LEMMA LexerStep ==
    ASSUME Parsed, LexEnd \/ LexInvalid \/ LexComment \/ LexToken
    PROVE  Parsed'
<1>1. Grouping'
  BY GroupingLex DEF Parsed
<1>2. CASE LexEnd \/ LexInvalid
  <2>1. /\ phase = "lex" /\ phase' = "group"
        /\ tokens' = tokens /\ it' = it /\ stack' = stack /\ tokenline' = tokenline
        /\ blocks' = blocks /\ said' = said
    BY <1>2 DEF LexEnd, LexInvalid, StartGrouping, lexVars, groupVars
  <2> QED
    BY <1>1, <2>1, StartStep, NotDone DEF Parsed
<1>3. CASE LexComment \/ LexToken
  <2>1. phase' = "lex"
    BY <1>3 DEF LexComment, LexToken
  <2>2. GroupInv'
    BY <2>1 DEF GroupInv
  <2> QED
    BY <1>1, <2>1, <2>2, NotDone DEF Parsed
<1> QED
  BY <1>2, <1>3

LEMMA GrouperStep ==
    ASSUME Parsed, Word \/ Semicolon \/ OpenBlock \/ RefuseBlock \/ CloseBlock
    PROVE  Parsed'
<1>1. phase = "group" /\ phase' = phase
  BY DEF Word, Semicolon, OpenBlock, RefuseBlock, CloseBlock, At, Step
<1>2. Judged'
  BY <1>1, NotDone
<1>3. Grouping' /\ GroupInv'
  BY WordStep, SemicolonStep, OpenBlockStep, RefuseBlockStep, CloseBlockStep DEF Parsed
<1> QED
  BY <1>2, <1>3 DEF Parsed

LEMMA ReturnStep ==
    ASSUME Parsed, NamelessBlock \/ BadClose \/ GroupEnd
    PROVE  Parsed'
<1>1. phase' = "done"
  BY DEF NamelessBlock, BadClose, GroupEnd, Return
<1>2. GroupInv'
  BY <1>1 DEF GroupInv
<1>3. Judged'
  BY NamelessBlockStep, BadCloseStep, GroupEndStep DEF Parsed
<1> QED
  BY <1>2, <1>3, GroupingReturn DEF Parsed

LEMMA StutterStep ==
    ASSUME Parsed, UNCHANGED vars
    PROVE  Parsed'
<1>1. /\ phase' = phase /\ tokens' = tokens /\ it' = it /\ stack' = stack
      /\ tokenline' = tokenline /\ blocks' = blocks /\ said' = said /\ ret' = ret
  BY DEF vars, fileVars, lexVars, groupVars
<1>2. (\A i : Words(i)' = Words(i)) /\ (\A i : Depth(i)' = Depth(i)) /\ (\A i : Home(i)' = Home(i))
      /\ (\A i : Around(i)' = Around(i)) /\ (\A i : WellPlaced(i)' <=> WellPlaced(i))
      /\ Delimiters' = Delimiters
  BY <1>1, SameTokens
<1>3. GroupInv'
  <2>1. Refused' = Refused /\ OnStack' = OnStack
    BY <1>1 DEF Refused, OnStack
  <2>2. (WordsWait' <=> WordsWait) /\ (FaultsSaid' <=> FaultsSaid)
        /\ (BracesCount' <=> BracesCount) /\ (StackIsAround' <=> StackIsAround)
    BY <1>1, <1>2, <2>1 DEF WordsWait, FaultsSaid, BracesCount, StackIsAround
  <2>3. \A b, type : Ended(b, type)' = Ended(b, type)
    BY <1>1, <1>2 DEF Ended
  <2>4. \A b : Holds(b)' <=> Holds(b)
    BY <1>1, <1>2, <2>1, <2>3 DEF Holds
  <2> QED
    BY <1>1, <2>2, <2>4 DEF Parsed, GroupInv
<1>4. Judged'
  <2>1. Judged
    BY DEF Parsed
  <2>2. phase = "done" => (ret = "true" /\ ~said <=> WellFormed)
    BY <2>1 DEF Judged, QuietIffWellFormed
  <2>3. phase = "done" /\ ret = "true" /\ ~said => TreeOfTokens
    BY <2>1 DEF Judged, TreeMatchesBraces, TreeOfTokens, HoldsAll, InBlock, Standing
  <2>4. phase = "done" /\ ret = "true" /\ Depth(Len(tokens)) = 0 =>
            \A i \in DOMAIN tokens : tokens[i] = "lcurly" => i \in DOMAIN blocks
    BY <2>1 DEF Judged, RefusedBlockRefusesFile
  <2> QED
    BY <1>1, <2>2, <2>3, <2>4, JudgedAfter
<1> QED
  BY <1>3, <1>4, GroupingReturn DEF Parsed

\* Whatever the tokens are, the grouper knows where it stands: which words wait,
\* which blocks are open, and what every block has taken.
THEOREM ParserSound == ParserSpec => []Parsed
<1>1. Parsed /\ [ParserNext]_vars => Parsed'
  BY LexerStep, GrouperStep, ReturnStep, StutterStep DEF ParserNext
<1> QED
  BY <1>1, ParsedInit, PTL DEF ParserSpec

\* top() and pop() never meet an empty stack, and every block on it was made.
THEOREM ParserTypeCorrect == ParserSpec => []ParserTypeOK
<1>1. ASSUME Parsed PROVE  ParserTypeOK
  <2>1. Grouping
    BY <1>1 DEF Parsed
  <2>2. Range(tokens) \subseteq Types
    BY <2>1 DEF Grouping, Range
  <2>3. Range(stack) \subseteq DOMAIN blocks
    BY <2>1 DEF Grouping, Range
  <2> QED
    BY <2>1, <2>2, <2>3 DEF Grouping, ParserTypeOK
<1> QED
  BY <1>1, ParserSound, PTL

\* A file of any length is taken without a complaint exactly when its braces match,
\* its directives end and its names are strings.
THEOREM QuietHolds == ParserSpec => []QuietIffWellFormed
<1>1. Parsed => QuietIffWellFormed
  BY DEF Parsed, Judged
<1> QED
  BY <1>1, ParserSound, PTL

\* A directive of a file taken without a complaint stands in the innermost block
\* around it, however deep, once and in the order of the file.
THEOREM TreeHolds == ParserSpec => []TreeMatchesBraces
<1>1. Parsed => TreeMatchesBraces
  BY DEF Parsed, Judged
<1> QED
  BY <1>1, ParserSound, PTL

\* A file with a block refused for its name is refused, as long as its opening
\* braces are as many as its closing ones.
THEOREM RefusalsNoticed == ParserSpec => []RefusedBlockRefusesFile
<1>1. Parsed => RefusedBlockRefusesFile
  BY DEF Parsed, Judged
<1> QED
  BY <1>1, ParserSound, PTL

-----------------------------------------------------------------------------
(* What a reader of the file does at every character                          *)

\* What a word, a line and a file are read as.
Classes == InWord \cup {"comment", "stuck", "gap"}
States == [out : Seq(Types), in : Classes]

LEMMA LeastOf ==
    ASSUME NEW S, S \subseteq Nat, S # {}
    PROVE  \E m \in S : \A y \in S : m <= y
<1>1. PICK m \in S : \A k \in S : <<k, m>> \notin OpToRel(<, Nat)
  BY WFMin, NatLessThanWellFounded, Zenon
<1>2. \A k \in S : ~(k < m)
  BY <1>1, Zenon DEF OpToRel
<1>3. \A k \in S : m <= k
  BY <1>2
<1> QED
  BY <1>3

LEMMA MinOf ==
    ASSUME NEW S, S \subseteq Nat, S # {}
    PROVE  Min(S) \in S /\ \A y \in S : Min(S) <= y
  BY LeastOf, Zenon DEF Min

\* A function that is defined by what it was one before exists.
Iterated(g, N, S, a, F) ==
    /\ g \in [0..N -> S] /\ g[0] = a
    /\ \A e \in 1..N : g[e] = F[e][g[e - 1]]

LEMMA Iterates ==
    ASSUME NEW N \in Nat, NEW S, NEW a \in S, NEW F \in [1..N -> [S -> S]]
    PROVE  \E g : Iterated(g, N, S, a, F)
<1> DEFINE Upto(n, g) == /\ g \in [0..n -> S] /\ g[0] = a
                         /\ \A e \in 1..n : g[e] = F[e][g[e - 1]]
           bad == {n \in 0..N : ~ \E g : Upto(n, g)}
<1>1. ASSUME bad # {} PROVE FALSE
  <2>1. bad \subseteq Nat
    OBVIOUS
  <2>2. PICK m \in bad : \A n \in bad : m <= n
    <3> HIDE DEF bad
    <3> QED
      BY <1>1, <2>1, LeastOf, Zenon
  <2>3. m \in 0..N /\ m \in Nat /\ ~ \E g : Upto(m, g)
    OBVIOUS
  <2>4. Upto(0, [e \in 0..0 |-> a])
    OBVIOUS
  <2>5. m # 0
    BY <2>3, <2>4
  <2>6. m - 1 \in 0..N /\ ~(m <= m - 1)
    BY <2>3, <2>5
  <2>7. PICK g : Upto(m - 1, g)
    BY <2>2, <2>6, Zenon
  <2> DEFINE h == [e \in 0..m |-> IF e = m THEN F[m][g[m - 1]] ELSE g[e]]
  <2>8. g[m - 1] \in S
    BY <2>3, <2>5, <2>7
  <2>9. F[m][g[m - 1]] \in S
    BY <2>3, <2>5, <2>8
  <2>10. h \in [0..m -> S]
    <3>1. \A e \in 0..m : e = m \/ e \in 0..m - 1
      BY <2>3
    <3>2. \A e \in 0..m - 1 : g[e] \in S
      BY <2>7, Zenon
    <3> QED
      BY <2>9, <3>1, <3>2, Zenon
  <2>11. h[0] = a
    BY <2>3, <2>5, <2>7
  <2>12. ASSUME NEW e \in 1..m PROVE h[e] = F[e][h[e - 1]]
    <3>1. e - 1 \in 0..m - 1 /\ e - 1 \in 0..m /\ e - 1 # m /\ e \in 0..m
      BY <2>3
    <3>2. h[e - 1] = g[e - 1]
      BY <3>1
    <3>3. CASE e = m
      BY <3>1, <3>2, <3>3
    <3>4. CASE e # m
      <4>1. e \in 1..m - 1
        BY <2>3, <3>4
      <4>2. g[e] = F[e][g[e - 1]]
        BY <2>7, <4>1
      <4> QED
        BY <3>1, <3>2, <3>4, <4>2
    <3> QED
      BY <3>3, <3>4
  <2>13. Upto(m, h)
    <3> HIDE DEF h
    <3> QED
      BY <2>10, <2>11, <2>12, Zenon
  <2> QED
    BY <2>3, <2>13, Zenon
<1>2. \E g : Upto(N, g)
  <2>1. N \in 0..N
    OBVIOUS
  <2> QED
    BY <1>1, <2>1, Zenon
<1> QED
  BY <1>2, Zenon DEF Iterated

-----------------------------------------------------------------------------
(* Reading on by one character                                                *)

LEMMA BeginTyped ==
    ASSUME NEW out \in Seq(Types), NEW c
    PROVE  Begin(out, c) \in States
<1> DEFINE class == Begin(out, c).in
           mark == CASE c = ";" -> <<"semicolon">>
                     [] c = "{" -> <<"lcurly">>
                     [] c = "}" -> <<"rcurly">>
                     [] OTHER -> <<>>
<1>1. Begin(out, c) = [out |-> out \o mark, in |-> class]
  BY Zenon DEF Begin
<1>2. class \in Classes
  BY DEF Begin, Classes, InWord
<1>3. mark \in Seq(Types)
  <2>1. <<>> \in Seq(Types) /\ <<"semicolon">> \in Seq(Types)
        /\ <<"lcurly">> \in Seq(Types) /\ <<"rcurly">> \in Seq(Types)
    BY DEF Types
  <2> QED
    BY <2>1
<1> HIDE DEF class, mark
<1>4. out \o mark \in Seq(Types)
  BY <1>3
<1> QED
  BY <1>1, <1>2, <1>4 DEF States

\* What a character begins.
LEMMA Begins ==
    ASSUME NEW out \in Seq(Types)
    PROVE  /\ Begin(out, " ") = [out |-> out, in |-> "gap"]
           /\ Begin(out, "a") = [out |-> out, in |-> "string"]
           /\ Begin(out, "k") = [out |-> out, in |-> "string"]
           /\ Begin(out, "1") = [out |-> out, in |-> "number"]
           /\ Begin(out, "/") = [out |-> out, in |-> "path"]
           /\ Begin(out, "u") = [out |-> out, in |-> "url"]
           /\ Begin(out, "#") = [out |-> out, in |-> "comment"]
           /\ Begin(out, "^") = [out |-> out, in |-> "stuck"]
           /\ Begin(out, ";") = [out |-> Append(out, "semicolon"), in |-> "gap"]
           /\ Begin(out, "{") = [out |-> Append(out, "lcurly"), in |-> "gap"]
           /\ Begin(out, "}") = [out |-> Append(out, "rcurly"), in |-> "gap"]
<1>1. out \o <<>> = out
  OBVIOUS
<1>2. \A t : out \o <<t>> = Append(out, t)
  OBVIOUS
<1> QED
  BY <1>1, <1>2 DEF Begin

\* What a character does to what is read already.
LEMMA Reads ==
    ASSUME NEW s \in States, NEW c
    PROVE  /\ s.in \in {"comment", "stuck"} => Read(s, c) = s
           /\ s.in = "gap" => Read(s, c) = Begin(s.out, c)
           /\ s.in \in InWord /\ EndsWord(s.in, c) =>
                  Read(s, c) = Begin(Append(s.out, TypeOf(s.in, c)), c)
           /\ s.in \in InWord /\ ~EndsWord(s.in, c) =>
                  Read(s, c) = [out |-> s.out, in |-> GoesOn(s.in, c)]
<1> DEFINE t == Append(s.out, TypeOf(s.in, c))
           u == GoesOn(s.in, c)
           in == s.in
<1>1. [s EXCEPT !.in = u] = [out |-> s.out, in |-> u]
  <2> HIDE DEF u
  <2> QED
    BY DEF States
<1>2. Read(s, c) = CASE in \in {"comment", "stuck"} -> s
                     [] in = "gap" -> Begin(s.out, c)
                     [] in \in InWord /\ EndsWord(in, c) -> Begin(t, c)
                     [] in \in InWord /\ ~EndsWord(in, c) -> [s EXCEPT !.in = u]
  BY Zenon DEF Read
<1> HIDE DEF t, u, in
<1>3. /\ in \in {"comment", "stuck"} => Read(s, c) = s
      /\ in = "gap" => Read(s, c) = Begin(s.out, c)
      /\ in \in InWord /\ EndsWord(in, c) => Read(s, c) = Begin(t, c)
      /\ in \in InWord /\ ~EndsWord(in, c) => Read(s, c) = [s EXCEPT !.in = u]
  BY <1>2 DEF InWord
<1> QED
  BY <1>1, <1>3, Zenon DEF t, u, in

LEMMA ReadTyped ==
    ASSUME NEW s \in States, NEW c
    PROVE  Read(s, c) \in States
<1>1. s.out \in Seq(Types) /\ s.in \in Classes
  BY DEF States
<1>2. CASE s.in \in {"comment", "stuck"}
  BY <1>2, Reads
<1>3. CASE s.in = "gap"
  <2>1. Read(s, c) = Begin(s.out, c)
    BY <1>3, Reads
  <2> QED
    BY <1>1, <2>1, BeginTyped
<1>4. CASE s.in \in InWord /\ EndsWord(s.in, c)
  <2>1. TypeOf(s.in, c) \in Types
    BY <1>4 DEF TypeOf, Types, InWord
  <2>2. Append(s.out, TypeOf(s.in, c)) \in Seq(Types)
    BY <1>1, <2>1
  <2>3. Read(s, c) = Begin(Append(s.out, TypeOf(s.in, c)), c)
    BY <1>4, Reads, Zenon
  <2> QED
    BY <2>2, <2>3, BeginTyped, Zenon
<1>5. CASE s.in \in InWord /\ ~EndsWord(s.in, c)
  <2>1. GoesOn(s.in, c) \in Classes
    BY <1>5 DEF GoesOn, Classes, InWord
  <2>2. [out |-> s.out, in |-> GoesOn(s.in, c)] \in States
    BY <1>1, <2>1 DEF States
  <2> QED
    BY <1>5, <2>2, Reads
<1> QED
  BY <1>1, <1>2, <1>3, <1>4, <1>5 DEF Classes

LEMMA ReadEndTyped ==
    ASSUME NEW s \in States
    PROVE  ReadEnd(s) \in States
<1>1. s.out \in Seq(Types) /\ s.in \in Classes
  BY DEF States
<1>2. s.in \in InWord => Append(s.out, TypeOf(s.in, "newline")) \in Seq(Types)
  <2>1. s.in \in InWord => TypeOf(s.in, "newline") \in Types
    BY DEF TypeOf, Types, InWord
  <2> QED
    BY <1>1, <2>1
<1> DEFINE t == IF s.in \in InWord THEN Append(s.out, TypeOf(s.in, "newline")) ELSE s.out
<1>3. t \in Seq(Types)
  BY <1>1, <1>2
<1>4. ReadEnd(s) = IF s.in = "stuck" THEN s ELSE [out |-> t, in |-> "gap"]
  BY Zenon DEF ReadEnd
<1> HIDE DEF t
<1>5. [out |-> t, in |-> "gap"] \in States
  BY <1>3 DEF States, Classes
<1> QED
  BY <1>4, <1>5

\* The line is read character by character,
LEMMA InLineIs ==
    ASSUME NEW s \in States, NEW line \in Seq(Chars)
    PROVE  /\ InLine(s, line) \in [0..Len(line) -> States]
           /\ InLine(s, line)[0] = s
           /\ \A i \in 1..Len(line) : InLine(s, line)[i] = Read(InLine(s, line)[i - 1], line[i])
<1> DEFINE N == Len(line)
           F == [i \in 1..N |-> [t \in States |-> Read(t, line[i])]]
           Is(g) == g = [i \in 0..N |-> IF i = 0 THEN s ELSE Read(g[i - 1], line[i])]
<1>1. N \in Nat /\ F \in [1..N -> [States -> States]]
  BY ReadTyped
<1>2. PICK g \in [0..N -> States] : g[0] = s /\ \A e \in 1..N : g[e] = F[e][g[e - 1]]
  <2>1. \E g : Iterated(g, N, States, s, F)
    <3> HIDE DEF N, F
    <3> QED
      BY <1>1, Iterates
  <2> QED
    BY <2>1, Zenon DEF Iterated
<1>3. \A e \in 1..N : g[e] = Read(g[e - 1], line[e])
  <2> SUFFICES ASSUME NEW e \in 1..N PROVE g[e] = Read(g[e - 1], line[e])
    OBVIOUS
  <2>1. e - 1 \in 0..N
    BY <1>1
  <2>2. g[e - 1] \in States
    BY <1>2, <2>1
  <2>3. g[e] = F[e][g[e - 1]]
    BY <1>2
  <2> QED
    BY <2>2, <2>3
<1> HIDE DEF F
<1>4. Is(g)
  <2>1. g = [i \in 0..N |-> g[i]]
    BY <1>2
  <2>2. \A i \in 0..N : g[i] = IF i = 0 THEN s ELSE Read(g[i - 1], line[i])
    <3>1. \A i \in 0..N : i = 0 \/ i \in 1..N
      BY <1>1
    <3> QED
      BY <1>2, <1>3, <3>1
  <2> HIDE DEF N
  <2> QED
    BY <2>1, <2>2, Zenon
<1>5. InLine(s, line) = CHOOSE f : Is(f)
  BY Zenon DEF InLine
<1> DEFINE f == InLine(s, line)
<1>6. Is(f)
  <2> HIDE DEF Is
  <2> QED
    BY <1>4, <1>5, Zenon
<1> HIDE DEF f
<1>7. /\ f = [i \in 0..N |-> f[i]] /\ f[0] = s
      /\ \A i \in 1..N : f[i] = Read(f[i - 1], line[i])
  <2>1. 0 \in 0..N /\ \A i \in 1..N : i \in 0..N /\ i # 0
    BY <1>1
  <2> HIDE DEF N
  <2> QED
    BY <1>6, <2>1
<1>8. \A i \in 0..N : f[i] \in States
  <2> DEFINE bad == {i \in 0..N : f[i] \notin States}
  <2> SUFFICES ASSUME bad # {} PROVE FALSE
    OBVIOUS
  <2>1. bad \subseteq Nat
    OBVIOUS
  <2>2. PICK m \in bad : \A n \in bad : m <= n
    <3> HIDE DEF bad
    <3> QED
      BY <2>1, LeastOf
  <2>3. m \in 0..N /\ f[m] \notin States
    OBVIOUS
  <2>4. m \in 1..N /\ m - 1 \in 0..N /\ ~(m <= m - 1)
    BY <1>1, <1>7, <2>3
  <2>5. f[m - 1] \in States
    BY <2>2, <2>4
  <2> QED
    BY <1>7, <2>3, <2>4, <2>5, ReadTyped
<1> QED
  BY <1>7, <1>8, Zenon DEF f

\* and the file line by line.
LEMMA InFileIs ==
    ASSUME NEW file \in Seq(Seq(Chars))
    PROVE  /\ InFile(file) \in [0..Len(file) -> States]
           /\ InFile(file)[0] = [out |-> <<>>, in |-> "gap"]
           /\ \A n \in 1..Len(file) :
                 InFile(file)[n] = ReadEnd(InLine(InFile(file)[n - 1], file[n])[Len(file[n])])
<1> DEFINE N == Len(file)
           s == [out |-> <<>>, in |-> "gap"]
           After(t, n) == ReadEnd(InLine(t, file[n])[Len(file[n])])
           F == [n \in 1..N |-> [t \in States |-> After(t, n)]]
           Is(g) == g = [n \in 0..N |-> IF n = 0 THEN s ELSE After(g[n - 1], n)]
<1>1. ASSUME NEW n \in 1..N, NEW t \in States PROVE After(t, n) \in States
  <2>1. file[n] \in Seq(Chars)
    OBVIOUS
  <2>2. Len(file[n]) \in 0..Len(file[n])
    BY <2>1
  <2>3. InLine(t, file[n])[Len(file[n])] \in States
    BY <2>1, <2>2, InLineIs
  <2> QED
    BY <2>3, ReadEndTyped
<1>2. s \in States
  BY DEF States, Classes
<1> HIDE DEF After, s
<1>3. N \in Nat /\ F \in [1..N -> [States -> States]]
  BY <1>1
<1>4. PICK g \in [0..N -> States] : g[0] = s /\ \A e \in 1..N : g[e] = F[e][g[e - 1]]
  <2>1. \E g : Iterated(g, N, States, s, F)
    <3> HIDE DEF N, F
    <3> QED
      BY <1>2, <1>3, Iterates
  <2> QED
    BY <2>1, Zenon DEF Iterated
<1>5. \A e \in 1..N : g[e] = After(g[e - 1], e)
  <2> SUFFICES ASSUME NEW e \in 1..N PROVE g[e] = After(g[e - 1], e)
    OBVIOUS
  <2>1. e - 1 \in 0..N
    BY <1>3
  <2>2. g[e - 1] \in States
    BY <1>4, <2>1
  <2>3. g[e] = F[e][g[e - 1]]
    BY <1>4
  <2> QED
    BY <2>2, <2>3
<1> HIDE DEF F
<1>6. Is(g)
  <2>1. g = [n \in 0..N |-> g[n]]
    BY <1>4
  <2>2. \A n \in 0..N : g[n] = IF n = 0 THEN s ELSE After(g[n - 1], n)
    <3>1. \A n \in 0..N : n = 0 \/ n \in 1..N
      BY <1>3
    <3> QED
      BY <1>4, <1>5, <3>1
  <2> HIDE DEF N
  <2> QED
    BY <2>1, <2>2, Zenon
<1>7. InFile(file) = CHOOSE f : Is(f)
  BY Zenon DEF InFile, After, s
<1> DEFINE f == InFile(file)
<1>8. Is(f)
  <2> HIDE DEF Is
  <2> QED
    BY <1>6, <1>7, Zenon
<1> HIDE DEF f
<1>9. /\ f = [n \in 0..N |-> f[n]] /\ f[0] = s
      /\ \A n \in 1..N : f[n] = After(f[n - 1], n)
  <2>1. 0 \in 0..N /\ \A n \in 1..N : n \in 0..N /\ n # 0
    BY <1>3
  <2> HIDE DEF N
  <2> QED
    BY <1>8, <2>1
<1>10. \A n \in 0..N : f[n] \in States
  <2> DEFINE bad == {n \in 0..N : f[n] \notin States}
  <2> SUFFICES ASSUME bad # {} PROVE FALSE
    OBVIOUS
  <2>1. bad \subseteq Nat
    OBVIOUS
  <2>2. PICK m \in bad : \A n \in bad : m <= n
    <3> HIDE DEF bad
    <3> QED
      BY <2>1, LeastOf
  <2>3. m \in 0..N /\ f[m] \notin States
    OBVIOUS
  <2>4. m \in 1..N /\ m - 1 \in 0..N /\ ~(m <= m - 1)
    BY <1>2, <1>3, <1>9, <2>3
  <2>5. f[m - 1] \in States
    BY <2>2, <2>4
  <2> QED
    BY <1>1, <1>9, <2>3, <2>4, <2>5
<1> QED
  BY <1>9, <1>10, Zenon DEF f, After, s

-----------------------------------------------------------------------------
(* A line from one token to the next                                          *)

\* The reader goes on at i as if the tokens before it were out and no word open.
Gap(out) == [out |-> out, in |-> "gap"]
Fits(s, line, i, out) ==
    IF i <= Len(line) THEN Read(s, line[i]) = Begin(out, line[i])
                      ELSE ReadEnd(s) = Gap(out)

LEMMA GapTyped ==
    ASSUME NEW out \in Seq(Types)
    PROVE  Gap(out) \in States /\ Gap(out).in = "gap" /\ Gap(out).out = out
  BY DEF Gap, States, Classes

LEMMA GapReads ==
    ASSUME NEW out \in Seq(Types), NEW c
    PROVE  Read(Gap(out), c) = Begin(out, c)
  BY GapTyped, Reads

LEMMA GapFits ==
    ASSUME NEW out \in Seq(Types), NEW line, NEW i
    PROVE  Fits(Gap(out), line, i, out)
<1>1. \A c : Read(Gap(out), c) = Begin(out, c)
  BY GapReads
<1>2. ReadEnd(Gap(out)) = Gap(out)
  <2>1. Gap(out).in = "gap" /\ Gap(out).out = out
    BY GapTyped
  <2> QED
    BY <2>1 DEF ReadEnd, InWord, Gap
<1> QED
  BY <1>1, <1>2 DEF Fits

\* The end of a line, by what it ends.
LEMMA Ends ==
    ASSUME NEW s \in States
    PROVE  /\ s.in = "stuck" => ReadEnd(s) = s
           /\ s.in \in {"gap", "comment"} => ReadEnd(s) = Gap(s.out)
           /\ s.in \in InWord => ReadEnd(s) = Gap(Append(s.out, TypeOf(s.in, "newline")))
<1> DEFINE t == Append(s.out, TypeOf(s.in, "newline"))
<1> HIDE DEF t
<1>1. ReadEnd(s) = IF s.in = "stuck" THEN s
                   ELSE Gap(IF s.in \in InWord THEN t ELSE s.out)
  BY Zenon DEF ReadEnd, Gap, t
<1>2. "stuck" \notin InWord /\ "gap" \notin InWord /\ "comment" \notin InWord
  BY DEF InWord
<1> QED
  BY <1>1, <1>2, Zenon DEF t

\* What does not change at one character does not change at many.
Fixed(t, line, i, j) == \A k \in i + 1..j : Read(t, line[k]) = t

LEMMA Stays ==
    ASSUME NEW s \in States, NEW line \in Seq(Chars), NEW t,
           NEW i \in 0..Len(line), NEW j \in 0..Len(line), InLine(s, line)[i] = t,
           Fixed(t, line, i, j)
    PROVE  \A k \in i..j : InLine(s, line)[k] = t
<1> DEFINE f == InLine(s, line)
           bad == {k \in i..j : f[k] # t}
<1> SUFFICES ASSUME bad # {} PROVE FALSE
  OBVIOUS
<1>1. /\ f[i] = t
      /\ \A k \in 1..Len(line) : f[k] = Read(f[k - 1], line[k])
  BY InLineIs
<1> HIDE DEF f
<1>2. bad \subseteq Nat /\ Len(line) \in Nat
  OBVIOUS
<1>3. PICK m \in bad : \A n \in bad : m <= n
  <2> HIDE DEF bad
  <2> QED
    BY <1>2, LeastOf
<1>4. m \in i..j /\ f[m] # t
  OBVIOUS
<1>5. m # i
  BY <1>1, <1>4
<1>6. m \in i + 1..j /\ m \in 1..Len(line) /\ m - 1 \in i..j /\ ~(m <= m - 1)
  BY <1>2, <1>4, <1>5
<1>7. f[m - 1] = t
  BY <1>3, <1>6
<1> QED
  BY <1>1, <1>4, <1>6, <1>7 DEF Fixed

LEMMA PastIs ==
    ASSUME NEW line \in Seq(Chars), NEW i \in 1..Len(line) + 1, NEW S
    PROVE  /\ Past(line, i, S) \in i..Len(line) + 1 /\ Past(line, i, S) \in Nat
           /\ \A k \in i..Past(line, i, S) - 1 : line[k] \in S
           /\ Past(line, i, S) <= Len(line) => line[Past(line, i, S)] \notin S
<1> DEFINE R == {j \in i..Len(line) : line[j] \notin S} \cup {Len(line) + 1}
<1>1. R \subseteq Nat /\ R # {} /\ R \subseteq i..Len(line) + 1
  OBVIOUS
<1>2. Min(R) \in R /\ \A y \in R : Min(R) <= y
  <2> HIDE DEF R
  <2> QED
    BY <1>1, MinOf
<1>3. Past(line, i, S) = Min(R)
  BY DEF Past
<1> DEFINE m == Min(R)
<1>4. m \in R /\ \A y \in R : m <= y
  BY <1>2
<1> HIDE DEF m
<1>5. m \in i..Len(line) + 1 /\ m \in Nat /\ (m <= Len(line) => line[m] \notin S)
  BY <1>4
<1>6. ASSUME NEW k \in i..m - 1 PROVE line[k] \in S
  <2>1. k \in i..Len(line) /\ ~(m <= k)
    BY <1>5
  <2> QED
    BY <1>4, <2>1
<1> QED
  BY <1>3, <1>5, <1>6 DEF m

LEMMA UpToIs ==
    ASSUME NEW line \in Seq(Chars), NEW i \in 1..Len(line) + 1, NEW S
    PROVE  /\ UpTo(line, i, S) \in i..Len(line) + 1 /\ UpTo(line, i, S) \in Nat
           /\ \A k \in i..UpTo(line, i, S) - 1 : line[k] \notin S
           /\ UpTo(line, i, S) <= Len(line) => line[UpTo(line, i, S)] \in S
<1> DEFINE u == UpTo(line, i, S)
<1>1. u = Past(line, i, Chars \ S)
  BY DEF UpTo
<1> HIDE DEF u
<1>2. /\ u \in i..Len(line) + 1 /\ u \in Nat
      /\ \A k \in i..u - 1 : line[k] \in Chars \ S
      /\ u <= Len(line) => line[u] \notin Chars \ S
  BY <1>1, PastIs
<1>3. u <= Len(line) => line[u] \in Chars
  BY <1>2
<1> QED
  BY <1>2, <1>3 DEF u

\* Spaces are passed over.
Spaced(line, i, j) == \A k \in i..j - 1 : line[k] = " "

LEMMA Spaces ==
    ASSUME NEW s \in States, NEW line \in Seq(Chars), NEW out \in Seq(Types),
           NEW i \in 1..Len(line) + 1, NEW j \in i..Len(line) + 1,
           Spaced(line, i, j), Fits(InLine(s, line)[i - 1], line, i, out)
    PROVE  Fits(InLine(s, line)[j - 1], line, j, out)
<1>1. CASE i = j
  BY <1>1
<1>2. CASE i # j
  <2>0. Len(line) \in Nat /\ i \in Nat /\ j \in Nat /\ i < j /\ 1 <= i /\ j <= Len(line) + 1
    BY <1>2
  <2>1. i \in i..j - 1 /\ i \in 1..Len(line) /\ i <= Len(line)
    BY <2>0
  <2>2. i \in 0..Len(line) /\ j - 1 \in 0..Len(line) /\ j - 1 \in i..j - 1
    BY <2>0
  <2>3. InLine(s, line)[i] = Gap(out)
    <3>1. InLine(s, line)[i] = Read(InLine(s, line)[i - 1], line[i])
      BY <2>1, InLineIs
    <3>2. line[i] = " "
      BY <2>1 DEF Spaced
    <3> QED
      BY <2>1, <3>1, <3>2, Begins DEF Fits, Gap
  <2>4. Fixed(Gap(out), line, i, j - 1)
    <3>1. Read(Gap(out), " ") = Gap(out)
      <4>1. Read(Gap(out), " ") = Begin(out, " ")
        BY GapReads, Zenon
      <4> QED
        BY <4>1, Begins DEF Gap
    <3>2. \A k \in i + 1..j - 1 : k \in i..j - 1
      BY <2>0
    <3> QED
      BY <3>1, <3>2 DEF Spaced, Fixed
  <2>5. InLine(s, line)[j - 1] = Gap(out)
    <3>1. \A k \in i..j - 1 : InLine(s, line)[k] = Gap(out)
      BY <2>2, <2>3, <2>4, Stays
    <3> QED
      BY <2>2, <3>1
  <2> QED
    BY <2>5, GapFits
<1> QED
  BY <1>1, <1>2

-----------------------------------------------------------------------------
(* A token as the lexer finds it is one as the reader sees it                 *)

\* A word that is what it looked like when it began: up to where it ends.
Runs(in, line, i, w) ==
    /\ \A k \in i + 1..w - 1 : ~EndsWord(in, line[k])
    /\ w <= Len(line) => EndsWord(in, line[w])

LEMMA WordEnds ==
    ASSUME NEW out \in Seq(Types), NEW in \in InWord, NEW type, NEW line, NEW w,
           w <= Len(line) => EndsWord(in, line[w]) /\ TypeOf(in, line[w]) = type,
           ~(w <= Len(line)) => TypeOf(in, "newline") = type
    PROVE  Fits([out |-> out, in |-> in], line, w, Append(out, type))
<1> DEFINE s == [out |-> out, in |-> in]
<1>1. s \in States /\ s.out = out /\ s.in = in
  BY DEF States, Classes
<1> HIDE DEF s
<1>2. CASE w <= Len(line)
  <2>1. Read(s, line[w]) = Begin(Append(out, TypeOf(in, line[w])), line[w])
    BY <1>1, <1>2, Reads
  <2> QED
    BY <1>2, <2>1, Zenon DEF Fits, s
<1>3. CASE ~(w <= Len(line))
  <2>1. ReadEnd(s) = Gap(Append(out, TypeOf(in, "newline")))
    BY <1>1, Ends
  <2> QED
    BY <1>3, <2>1, Zenon DEF Fits, s
<1> QED
  BY <1>2, <1>3

LEMMA WordRuns ==
    ASSUME NEW s \in States, NEW line \in Seq(Chars), NEW out \in Seq(Types),
           NEW in \in {"path", "url", "string"}, NEW i \in 1..Len(line),
           NEW w \in i + 1..Len(line) + 1, Runs(in, line, i, w),
           InLine(s, line)[i] = [out |-> out, in |-> in]
    PROVE  Fits(InLine(s, line)[w - 1], line, w, Append(out, in))
<1> DEFINE t == [out |-> out, in |-> in]
<1>1. t \in States /\ t.out = out /\ t.in = in /\ in \in InWord
  BY DEF States, Classes, InWord
<1>2. \A c : TypeOf(in, c) = in /\ GoesOn(in, c) = in
  BY DEF TypeOf, GoesOn
<1>3. /\ Len(line) \in Nat /\ w \in Nat /\ i \in 0..Len(line) /\ w - 1 \in 0..Len(line)
      /\ w - 1 \in i..w - 1
  OBVIOUS
<1>4. Fixed(t, line, i, w - 1)
  <2> SUFFICES ASSUME NEW k \in i + 1..w - 1 PROVE Read(t, line[k]) = t
    BY DEF Fixed
  <2>1. ~EndsWord(in, line[k])
    BY DEF Runs
  <2> HIDE DEF t
  <2>2. Read(t, line[k]) = [out |-> t.out, in |-> GoesOn(t.in, line[k])]
    BY <1>1, <2>1, Reads
  <2> QED
    BY <1>1, <1>2, <2>2, Zenon DEF t
<1>5. InLine(s, line)[w - 1] = t
  <2> HIDE DEF t
  <2>1. InLine(s, line)[i] = t
    BY DEF t
  <2> QED
    BY <1>3, <1>4, <2>1, Stays
<1>6. w <= Len(line) => EndsWord(in, line[w])
  BY DEF Runs
<1> QED
  BY <1>1, <1>2, <1>5, <1>6, WordEnds, Zenon

\* A mark.
LEMMA MarkRead ==
    ASSUME NEW s \in States, NEW line \in Seq(Chars), NEW out \in Seq(Types),
           NEW type \in Types, NEW i \in 1..Len(line),
           InLine(s, line)[i] = Gap(Append(out, type))
    PROVE  Fits(InLine(s, line)[(i + 1) - 1], line, i + 1, Append(out, type))
<1>1. (i + 1) - 1 = i
  OBVIOUS
<1>2. Append(out, type) \in Seq(Types)
  OBVIOUS
<1> QED
  BY <1>1, <1>2, GapFits, Zenon

\* Digits and a unit.
LEMMA Digits ==
    ASSUME NEW s \in States, NEW line \in Seq(Chars), NEW out \in Seq(Types),
           NEW i \in 1..Len(line), line[i] = "1",
           InLine(s, line)[i] = [out |-> out, in |-> "number"]
    PROVE  LET e == NumberEnd(line, i)
               t == InLine(s, line)[e - 1]
           IN /\ e \in i + 1..Len(line) + 1 /\ e \in Nat
              /\ \A k \in i..e - 1 : line[k] \in {"1", "k"}
              /\ \/ t = [out |-> out, in |-> "unit"]
                 \/ /\ t = [out |-> out, in |-> "number"]
                    /\ e <= Len(line) => line[e] \notin {"1", "k"}
<1> DEFINE d == Past(line, i, {"1"})
           e == NumberEnd(line, i)
           f == InLine(s, line)
           t == [out |-> out, in |-> "number"]
<1>1. /\ d \in i..Len(line) + 1 /\ d \in Nat
      /\ \A k \in i..d - 1 : line[k] = "1"
      /\ d <= Len(line) => line[d] # "1"
  <2>1. i \in 1..Len(line) + 1
    OBVIOUS
  <2> QED
    BY <2>1, PastIs
<1>2. e = IF d <= Len(line) /\ line[d] = "k" THEN d + 1 ELSE d
  BY Zenon DEF NumberEnd
<1> HIDE DEF d, e
<1>3. d # i /\ d \in i + 1..Len(line) + 1
  <2>1. d # i
    BY <1>1
  <2> QED
    BY <1>1, <2>1
<1>4. t \in States /\ t.out = out /\ t.in = "number" /\ "number" \in InWord
  BY DEF States, Classes, InWord
<1>5. ~EndsWord("number", "1") /\ ~EndsWord("number", "k")
  BY DEF EndsWord
<1>6. GoesOn("number", "1") = "number" /\ GoesOn("number", "k") = "unit"
  BY DEF GoesOn
<1> HIDE DEF t
<1>7. f[d - 1] = t
  <2>1. Read(t, "1") = t
    <3>1. Read(t, "1") = [out |-> t.out, in |-> GoesOn(t.in, "1")]
      BY <1>4, <1>5, Reads
    <3> QED
      BY <1>4, <1>6, <3>1, Zenon DEF t
  <2>2. Fixed(t, line, i, d - 1)
    BY <1>1, <2>1 DEF Fixed
  <2>3. i \in 0..Len(line) /\ d - 1 \in 0..Len(line) /\ d - 1 \in i..d - 1
    BY <1>1, <1>3
  <2>4. f[i] = t
    BY DEF t
  <2> HIDE DEF f
  <2>5. \A k \in i..d - 1 : f[k] = t
    BY <2>2, <2>3, <2>4, Stays DEF f
  <2> QED
    BY <2>3, <2>5
<1>8. CASE d <= Len(line) /\ line[d] = "k"
  <2>1. e = d + 1 /\ d \in 1..Len(line) /\ e - 1 = d
    BY <1>1, <1>2, <1>8
  <2>2. f[d] = Read(f[d - 1], line[d])
    BY <2>1, InLineIs
  <2>3. Read(t, "k") = [out |-> t.out, in |-> GoesOn(t.in, "k")]
    BY <1>4, <1>5, Reads
  <2>4. f[e - 1] = [out |-> out, in |-> "unit"]
    BY <1>4, <1>6, <1>7, <1>8, <2>1, <2>2, <2>3, Zenon
  <2>5. \A k \in i..e - 1 : line[k] \in {"1", "k"}
    BY <1>1, <1>8, <2>1
  <2>6. e \in i + 1..Len(line) + 1 /\ e \in Nat
    BY <1>3, <2>1
  <2> QED
    BY <2>4, <2>5, <2>6, Zenon DEF e, f
<1>9. CASE ~(d <= Len(line) /\ line[d] = "k")
  <2>1. e = d
    BY <1>2, <1>9
  <2>2. \A k \in i..e - 1 : line[k] \in {"1", "k"}
    BY <1>1, <2>1
  <2>3. e <= Len(line) => line[e] \notin {"1", "k"}
    BY <1>1, <1>9, <2>1
  <2>4. f[e - 1] = [out |-> out, in |-> "number"]
    BY <1>7, <2>1 DEF t
  <2> QED
    BY <1>1, <1>3, <2>1, <2>2, <2>3, <2>4, Zenon DEF e, f
<1> QED
  BY <1>8, <1>9

\* A number, and what only begins like one.
LEMMA NumberRead ==
    ASSUME NEW s \in States, NEW line \in Seq(Chars), NEW out \in Seq(Types),
           NEW i \in 1..Len(line), line[i] = "1",
           InLine(s, line)[i] = [out |-> out, in |-> "number"], IsNumber(line, i)
    PROVE  /\ NumberEnd(line, i) \in i + 1..Len(line) + 1
           /\ Fits(InLine(s, line)[NumberEnd(line, i) - 1], line, NumberEnd(line, i),
                   Append(out, "number"))
<1> DEFINE e == NumberEnd(line, i)
           t == InLine(s, line)[e - 1]
<1>1. /\ e \in i + 1..Len(line) + 1
      /\ t = [out |-> out, in |-> "unit"] \/ t = [out |-> out, in |-> "number"]
  BY Digits
<1>2. e <= Len(line) /\ line[e] \in {" ", ";"}
  BY DEF IsNumber
<1> HIDE DEF e, t
<1>3. ASSUME NEW in \in {"unit", "number"}
      PROVE  Fits([out |-> out, in |-> in], line, e, Append(out, "number"))
  <2>1. in \in InWord /\ EndsWord(in, line[e]) /\ TypeOf(in, line[e]) = "number"
    BY <1>2 DEF InWord, EndsWord, TypeOf
  <2> QED
    BY <1>2, <2>1, WordEnds
<1> QED
  BY <1>1, <1>3 DEF e, t

LEMMA NumberlikeRead ==
    ASSUME NEW s \in States, NEW line \in Seq(Chars), NEW out \in Seq(Types),
           NEW i \in 1..Len(line), line[i] = "1",
           InLine(s, line)[i] = [out |-> out, in |-> "number"], ~IsNumber(line, i),
           NEW w \in i..Len(line) + 1, Runs("string", line, i, w), w # i
    PROVE  Fits(InLine(s, line)[w - 1], line, w, Append(out, "string"))
<1> DEFINE e == NumberEnd(line, i)
           f == InLine(s, line)
           t == f[e - 1]
<1>1. /\ e \in i + 1..Len(line) + 1 /\ e \in Nat
      /\ \A k \in i..e - 1 : line[k] \in {"1", "k"}
      /\ \/ t = [out |-> out, in |-> "unit"]
         \/ /\ t = [out |-> out, in |-> "number"]
            /\ e <= Len(line) => line[e] \notin {"1", "k"}
  BY Digits
<1>2. e <= Len(line) => line[e] \notin {" ", ";"}
  BY DEF IsNumber
<1> HIDE DEF e, t
<1>3. /\ w \in Nat /\ Len(line) \in Nat /\ i \in Nat
      /\ \A k \in i + 1..w - 1 : ~EndsWord("string", line[k])
      /\ w <= Len(line) => EndsWord("string", line[w])
  BY DEF Runs
<1>4. e <= w
  <2> SUFFICES ASSUME ~(e <= w) PROVE FALSE
    OBVIOUS
  <2>1. w \in i..e - 1 /\ w <= Len(line)
    BY <1>1, <1>3
  <2>2. line[w] \in {"1", "k"} /\ EndsWord("string", line[w])
    BY <1>1, <1>3, <2>1
  <2> QED
    BY <2>2 DEF EndsWord
<1>5. CASE w = e
  <2>1. ASSUME NEW in \in {"unit", "number"}
        PROVE  Fits([out |-> out, in |-> in], line, e, Append(out, "string"))
    <3>1. in \in InWord /\ TypeOf(in, "newline") = "string"
      BY DEF InWord, TypeOf
    <3>2. ASSUME e <= Len(line)
          PROVE  EndsWord(in, line[e]) /\ TypeOf(in, line[e]) = "string"
      <4>1. EndsWord("string", line[e]) /\ line[e] \notin {" ", ";"}
        BY <1>2, <1>3, <1>5, <3>2
      <4>2. line[e] = "^"
        BY <4>1 DEF EndsWord
      <4> QED
        BY <4>2 DEF EndsWord, TypeOf
    <3> QED
      BY <3>1, <3>2, WordEnds
  <2> QED
    BY <1>1, <1>5, <2>1 DEF t, f
<1>6. CASE w # e
  <2>1. e \in i + 1..w - 1 /\ e \in 1..Len(line) /\ e <= Len(line) /\ w \in e + 1..Len(line) + 1
    BY <1>1, <1>3, <1>4, <1>6
  <2>2. ~EndsWord("string", line[e])
    BY <1>3, <2>1
  <2>3. f[e] = Read(t, line[e])
    BY <2>1, InLineIs DEF t
  <2>4. ASSUME NEW in \in {"unit", "number"}, in = "number" => line[e] \notin {"1", "k"}
        PROVE  Read([out |-> out, in |-> in], line[e]) = [out |-> out, in |-> "string"]
    <3> DEFINE u == [out |-> out, in |-> in]
    <3>1. u \in States /\ u.out = out /\ u.in = in /\ in \in InWord
      BY DEF States, Classes, InWord
    <3>2. ~EndsWord(in, line[e])
      BY <2>2 DEF EndsWord
    <3>3. GoesOn(in, line[e]) = "string"
      BY <2>4 DEF GoesOn
    <3> HIDE DEF u
    <3>4. Read(u, line[e]) = [out |-> u.out, in |-> GoesOn(u.in, line[e])]
      BY <3>1, <3>2, Reads
    <3> QED
      BY <3>1, <3>3, <3>4, Zenon DEF u
  <2>5. f[e] = [out |-> out, in |-> "string"]
    BY <1>1, <2>1, <2>3, <2>4
  <2>6. Runs("string", line, e, w)
    <3>1. \A k \in e + 1..w - 1 : k \in i + 1..w - 1
      BY <1>1, <1>3
    <3> QED
      BY <1>3, <3>1 DEF Runs
  <2> QED
    BY <2>1, <2>5, <2>6, WordRuns DEF f
<1> QED
  BY <1>5, <1>6

\* The end of a word.
LEMMA WordStops ==
    ASSUME NEW line \in Seq(Chars), NEW i \in 1..Len(line), NEW in \in InWord, NEW S,
           \A c : c \in S <=> EndsWord(in, c), line[i] \notin S
    PROVE  /\ UpTo(line, i, S) \in i + 1..Len(line) + 1
           /\ Runs(in, line, i, UpTo(line, i, S))
<1> DEFINE w == UpTo(line, i, S)
<1>1. i \in 1..Len(line) + 1 /\ i \in Nat /\ i <= Len(line)
  OBVIOUS
<1>2. /\ w \in i..Len(line) + 1 /\ w \in Nat
      /\ \A k \in i..w - 1 : line[k] \notin S
      /\ w <= Len(line) => line[w] \in S
  BY <1>1, UpToIs
<1> HIDE DEF w
<1>3. w # i
  BY <1>1, <1>2
<1>4. w \in i + 1..Len(line) + 1 /\ \A k \in i + 1..w - 1 : k \in i..w - 1
  BY <1>1, <1>2, <1>3
<1>5. Runs(in, line, i, w)
  BY <1>2, <1>4 DEF Runs
<1> QED
  BY <1>4, <1>5 DEF w

\* The lexer's token is the reader's.
BeginsToken(c) == c \notin {" ", "#", "^"}

LEMMA TokenRead ==
    ASSUME NEW s \in States, NEW line \in Seq(Chars), NEW out \in Seq(Types),
           NEW i \in 1..Len(line), BeginsToken(line[i]),
           InLine(s, line)[i] = Begin(out, line[i])
    PROVE  LET token == Lex(line, i) IN
           /\ token.type \in Types /\ token.end \in i + 1..Len(line) + 1
           /\ Fits(InLine(s, line)[token.end - 1], line, token.end, Append(out, token.type))
<1> DEFINE f == InLine(s, line)
           c == line[i]
           word == UpTo(line, i, {" ", ";", "^"})
           end == UpTo(line, i, {" ", ";"})
           Read0(type, e) == /\ type \in Types /\ e \in i + 1..Len(line) + 1
                             /\ Fits(f[e - 1], line, e, Append(out, type))
<1>1. c \in Chars /\ i + 1 \in i + 1..Len(line) + 1
  <2>1. i \in Nat /\ Len(line) \in Nat /\ i <= Len(line)
    OBVIOUS
  <2>2. i + 1 \in i + 1..Len(line) + 1
    BY <2>1
  <2> QED
    BY <2>2
<1>2. /\ c = ";" => Lex(line, i) = [type |-> "semicolon", end |-> i + 1]
      /\ c = "{" => Lex(line, i) = [type |-> "lcurly", end |-> i + 1]
      /\ c = "}" => Lex(line, i) = [type |-> "rcurly", end |-> i + 1]
      /\ c = "/" => Lex(line, i) = [type |-> "path", end |-> word]
      /\ c = "u" => Lex(line, i) = [type |-> "url", end |-> end]
      /\ c \in {"1", "k", "a"} =>
            Lex(line, i) = IF IsNumber(line, i)
                           THEN [type |-> "number", end |-> NumberEnd(line, i)]
                           ELSE [type |-> "string", end |-> word]
  BY DEF Lex
<1>3. f[i] = Begin(out, c)
  OBVIOUS
<1>4. ASSUME NEW in \in {"path", "string"}, c \notin {" ", ";", "^"}
      PROVE  word \in i + 1..Len(line) + 1 /\ Runs(in, line, i, word)
  <2>1. \A x : x \in {" ", ";", "^"} <=> EndsWord(in, x)
    BY DEF EndsWord
  <2> QED
    BY <1>4, <2>1, WordStops DEF InWord
<1>5. c = "u" => end \in i + 1..Len(line) + 1 /\ Runs("url", line, i, end)
  <2>1. \A x : x \in {" ", ";"} <=> EndsWord("url", x)
    BY DEF EndsWord
  <2> QED
    BY <2>1, WordStops DEF InWord
<1> HIDE DEF f, word, end
<1>6. ASSUME NEW type \in {"semicolon", "lcurly", "rcurly"}, f[i] = Gap(Append(out, type))
      PROVE  Read0(type, i + 1)
  <2>1. type \in Types
    BY DEF Types
  <2> QED
    BY <1>1, <1>6, <2>1, MarkRead DEF f
<1>7. CASE c \in {";", "{", "}"}
  <2>1. /\ c = ";" => Read0("semicolon", i + 1)
        /\ c = "{" => Read0("lcurly", i + 1)
        /\ c = "}" => Read0("rcurly", i + 1)
    <3> HIDE DEF Read0
    <3>1. \A type \in {"semicolon", "lcurly", "rcurly"} :
             f[i] = Gap(Append(out, type)) => Read0(type, i + 1)
      BY <1>6
    <3>2. /\ c = ";" => f[i] = Gap(Append(out, "semicolon"))
          /\ c = "{" => f[i] = Gap(Append(out, "lcurly"))
          /\ c = "}" => f[i] = Gap(Append(out, "rcurly"))
      BY <1>3, Begins, Zenon DEF Gap
    <3> QED
      BY <3>1, <3>2
  <2>2. PICK type \in {"semicolon", "lcurly", "rcurly"} :
           Read0(type, i + 1) /\ Lex(line, i) = [type |-> type, end |-> i + 1]
    <3> HIDE DEF Read0
    <3> QED
      BY <1>2, <1>7, <2>1
  <2> QED
    BY <2>2 DEF f
<1>8. CASE c = "/"
  <2>1. f[i] = [out |-> out, in |-> "path"]
    BY <1>3, <1>8, Begins
  <2>2. Read0("path", word)
    BY <1>4, <1>8, <2>1, WordRuns DEF Types, f
  <2> QED
    BY <1>2, <1>8, <2>2 DEF f
<1>9. CASE c = "u"
  <2>1. f[i] = [out |-> out, in |-> "url"]
    BY <1>3, <1>9, Begins
  <2>2. Read0("url", end)
    BY <1>5, <1>9, <2>1, WordRuns DEF Types, f
  <2> QED
    BY <1>2, <1>9, <2>2 DEF f
<1>10. CASE c \in {"a", "k"}
  <2>1. f[i] = [out |-> out, in |-> "string"]
    BY <1>3, <1>10, Begins
  <2>2. Read0("string", word)
    BY <1>4, <1>10, <2>1, WordRuns DEF Types, f
  <2>3. ~IsNumber(line, i)
    BY <1>10 DEF IsNumber
  <2>4. Lex(line, i) = [type |-> "string", end |-> word]
    BY <1>2, <1>10, <2>3
  <2> QED
    BY <2>2, <2>4 DEF f
<1>11. CASE c = "1"
  <2>1. f[i] = [out |-> out, in |-> "number"]
    BY <1>3, <1>11, Begins
  <2>2. CASE IsNumber(line, i)
    <3>1. Read0("number", NumberEnd(line, i))
      BY <1>11, <2>1, <2>2, NumberRead DEF Types, f
    <3> QED
      BY <1>2, <1>11, <2>2, <3>1 DEF f
  <2>3. CASE ~IsNumber(line, i)
    <3>1. word \in i..Len(line) + 1 /\ word # i /\ word \in i + 1..Len(line) + 1
          /\ Runs("string", line, i, word)
      BY <1>4, <1>11
    <3>2. Read0("string", word)
      BY <1>11, <2>1, <2>3, <3>1, NumberlikeRead DEF Types, f
    <3> QED
      BY <1>2, <1>11, <2>3, <3>2 DEF f
  <2> QED
    BY <2>2, <2>3
<1> QED
  BY <1>1, <1>7, <1>8, <1>9, <1>10, <1>11 DEF Chars, BeginsToken

-----------------------------------------------------------------------------
(* The rest of a line, and of a file                                          *)

LEMMA Remains ==
    ASSUME NEW s \in States, NEW line \in Seq(Chars), NEW out \in Seq(Types),
           NEW in \in {"comment", "stuck"}, NEW i \in 0..Len(line),
           InLine(s, line)[i] = [out |-> out, in |-> in]
    PROVE  InLine(s, line)[Len(line)] = [out |-> out, in |-> in]
<1> DEFINE t == [out |-> out, in |-> in]
<1>1. t \in States /\ t.in \in {"comment", "stuck"}
  BY DEF States, Classes
<1> HIDE DEF t
<1>2. Fixed(t, line, i, Len(line))
  BY <1>1, Reads DEF Fixed
<1>3. Len(line) \in 0..Len(line) /\ Len(line) \in i..Len(line)
  OBVIOUS
<1>4. InLine(s, line)[i] = t
  BY DEF t
<1>5. InLine(s, line)[Len(line)] = t
  BY <1>2, <1>3, <1>4, Stays
<1> QED
  BY <1>5 DEF t

LEMMA CommentRead ==
    ASSUME NEW s \in States, NEW line \in Seq(Chars), NEW out \in Seq(Types),
           NEW i \in 1..Len(line), InLine(s, line)[i] = Begin(out, "#")
    PROVE  Fits(InLine(s, line)[(Len(line) + 1) - 1], line, Len(line) + 1, out)
<1> DEFINE t == [out |-> out, in |-> "comment"]
<1>1. InLine(s, line)[i] = t /\ i \in 0..Len(line)
  <2>1. i \in 0..Len(line)
    OBVIOUS
  <2>2. InLine(s, line)[i] = t
    BY Begins
  <2> QED
    BY <2>1, <2>2
<1>2. InLine(s, line)[Len(line)] = t
  BY <1>1, Remains
<1>3. t \in States /\ t.in = "comment" /\ t.out = out
  BY DEF States, Classes
<1> HIDE DEF t
<1>4. ReadEnd(t) = Gap(out)
  BY <1>3, Ends
<1>5. (Len(line) + 1) - 1 = Len(line) /\ ~(Len(line) + 1 <= Len(line))
  OBVIOUS
<1> QED
  BY <1>2, <1>4, <1>5, Zenon DEF Fits

\* Nothing but spaces.
OnlySpaces(line, i) == PastSpaces(line, i) > Len(line)

LEMMA PastSpacesIs ==
    ASSUME NEW line \in Seq(Chars), NEW i \in 1..Len(line) + 1
    PROVE  /\ PastSpaces(line, i) \in i..Len(line) + 1 /\ PastSpaces(line, i) \in Nat
           /\ Spaced(line, i, PastSpaces(line, i))
           /\ PastSpaces(line, i) <= Len(line) => line[PastSpaces(line, i)] # " "
<1> DEFINE p == PastSpaces(line, i)
<1>1. p = Past(line, i, {" "})
  BY DEF PastSpaces
<1> HIDE DEF p
<1>2. /\ p \in i..Len(line) + 1 /\ p \in Nat
      /\ \A k \in i..p - 1 : line[k] = " "
      /\ p <= Len(line) => line[p] # " "
  BY <1>1, PastIs
<1> QED
  BY <1>2 DEF p, Spaced

LEMMA LineOver ==
    ASSUME NEW s \in States, NEW line \in Seq(Chars), NEW out \in Seq(Types),
           NEW i \in 1..Len(line) + 1, OnlySpaces(line, i),
           Fits(InLine(s, line)[i - 1], line, i, out)
    PROVE  ReadEnd(InLine(s, line)[Len(line)]) = Gap(out)
<1> DEFINE p == PastSpaces(line, i)
<1>1. p \in i..Len(line) + 1 /\ p \in Nat /\ Spaced(line, i, p)
  BY PastSpacesIs
<1>2. Fits(InLine(s, line)[p - 1], line, p, out)
  <2> HIDE DEF p
  <2> QED
    BY <1>1, Spaces
<1>3. p = Len(line) + 1 /\ p - 1 = Len(line) /\ ~(p <= Len(line))
  <2>1. p \in i..Len(line) + 1 /\ p > Len(line)
    BY <1>1 DEF OnlySpaces
  <2> HIDE DEF p
  <2> QED
    BY <2>1
<1> HIDE DEF p
<1> QED
  BY <1>2, <1>3 DEF Fits

\* What cannot be read ends the reading of the file.
LEMMA StuckFile ==
    ASSUME NEW file \in Seq(Seq(Chars)), NEW n \in 1..Len(file), NEW out \in Seq(Types),
           InFile(file)[n] = [out |-> out, in |-> "stuck"]
    PROVE  InFile(file)[Len(file)].out = out
<1> DEFINE f == InFile(file)
           t == [out |-> out, in |-> "stuck"]
           bad == {k \in n..Len(file) : f[k] # t}
<1>1. t \in States /\ t.in = "stuck" /\ t.out = out /\ f[n] = t
  BY DEF States, Classes
<1>2. \A k \in 1..Len(file) : f[k] = ReadEnd(InLine(f[k - 1], file[k])[Len(file[k])])
  BY InFileIs
<1>3. Len(file) \in n..Len(file) /\ bad \subseteq Nat
  OBVIOUS
<1> HIDE DEF f
<1>4. ASSUME bad # {} PROVE FALSE
  <2>1. PICK m \in bad : \A k \in bad : m <= k
    <3> HIDE DEF bad
    <3> QED
      BY <1>3, <1>4, LeastOf
  <2>2. m \in n..Len(file) /\ f[m] # t
    OBVIOUS
  <2>3. m # n
    BY <1>1, <2>2
  <2>4. m - 1 \in n..Len(file) /\ m \in 1..Len(file) /\ ~(m <= m - 1)
    BY <2>2, <2>3
  <2>5. f[m - 1] = t
    BY <2>1, <2>4
  <2>6. file[m] \in Seq(Chars)
    BY <2>4
  <2>7. 0 \in 0..Len(file[m])
    BY <2>6
  <2> DEFINE line == file[m]
  <2>8. InLine(t, line)[0] = t
    BY <1>1, <2>6, InLineIs
  <2>9. InLine(t, line)[Len(line)] = t
    <3>1. line \in Seq(Chars) /\ 0 \in 0..Len(line) /\ InLine(t, line)[0] = t
      BY <2>6, <2>7, <2>8
    <3> HIDE DEF line
    <3> QED
      BY <1>1, <3>1, Remains
  <2>10. ReadEnd(t) = t
    BY <1>1, Ends
  <2>11. f[m] = ReadEnd(InLine(t, line)[Len(line)])
    BY <1>2, <2>4, <2>5
  <2> HIDE DEF line, t
  <2> QED
    BY <2>2, <2>9, <2>10, <2>11
<1>5. f[Len(file)] = t
  BY <1>3, <1>4
<1> QED
  BY <1>1, <1>5 DEF f

-----------------------------------------------------------------------------
(* The lexer                                                                  *)

\* The lexer is at a character of the file, and what it has found is what a
\* reader has who came there.
LexAt ==
    /\ nline \in 1..Len(lines) + 1 /\ lineit \in 1..Len(Line(nline)) + 1
    /\ nline > Len(lines) => lines = <<>> /\ tokens = <<>>
    /\ nline <= Len(lines) =>
          Fits(InLine(InFile(lines)[nline - 1], lines[nline])[lineit - 1],
               lines[nline], lineit, tokens)

Lexing ==
    /\ lines \in Seq(Seq(Chars)) /\ tokens \in Seq(Types) /\ ended \in BOOLEAN
    /\ phase = "lex" => LexAt
    /\ phase # "lex" /\ ended => tokens = ReadFile

LEMMA LineIs ==
    ASSUME lines \in Seq(Seq(Chars)), NEW n \in Nat \ {0}
    PROVE  /\ Line(n) \in Seq(Chars) /\ Len(Line(n)) \in Nat
           /\ n <= Len(lines) => Line(n) = lines[n] /\ n \in 1..Len(lines)
           /\ n > Len(lines) => Line(n) = <<>>
<1>1. Line(n) \in Seq(Chars)
  BY DEF Line
<1>2. /\ n <= Len(lines) => Line(n) = lines[n] /\ n \in 1..Len(lines)
      /\ n > Len(lines) => Line(n) = <<>>
  BY DEF Line
<1> QED
  BY <1>1, <1>2

LEMMA NextLineIs ==
    ASSUME lines \in Seq(Seq(Chars)), nline \in 1..Len(lines) + 1,
           lineit \in 1..Len(Line(nline)) + 1
    PROVE  LET p == PastSpaces(Line(nline), lineit) IN
           /\ NextLine \in nline..Len(lines) + 1
           /\ p <= Len(Line(nline)) => NextLine = nline
           /\ p > Len(Line(nline)) =>
                 /\ NextLine # nline \/ nline > Len(lines)
                 /\ \A n \in nline + 1..NextLine - 1 : Blank(n)
                 /\ NextLine <= Len(lines) => ~Blank(NextLine)
<1> DEFINE p == PastSpaces(Line(nline), lineit)
           R == {n \in nline + 1..Len(lines) : ~Blank(n)} \cup {Len(lines) + 1}
           m == Min(R)
<1>1. nline \in Nat \ {0} /\ Len(lines) \in Nat /\ Line(nline) \in Seq(Chars)
      /\ Len(Line(nline)) \in Nat
  BY LineIs
<1>2. p \in Nat
  BY <1>1, PastSpacesIs
<1>3. R \subseteq Nat /\ R # {}
  BY <1>1
<1>4. m \in R /\ \A y \in R : m <= y
  <2> HIDE DEF R
  <2> QED
    BY <1>3, MinOf
<1>5. NextLine = IF p <= Len(Line(nline)) THEN nline ELSE m
  BY Zenon DEF NextLine
<1> HIDE DEF m, p
<1>6. m \in nline..Len(lines) + 1 /\ (m # nline \/ nline > Len(lines))
  BY <1>1, <1>4
<1>7. ASSUME NEW n \in nline + 1..m - 1 PROVE Blank(n)
  <2>1. n \in nline + 1..Len(lines) /\ ~(m <= n)
    BY <1>1, <1>6
  <2> QED
    BY <1>4, <2>1
<1>8. m <= Len(lines) => ~Blank(m)
  BY <1>1, <1>4
<1>9. nline \in nline..Len(lines) + 1
  BY <1>1
<1> HIDE DEF R
<1>10. CASE p <= Len(Line(nline))
  <2>1. NextLine = nline
    BY <1>5, <1>10
  <2>2. ~(p > Len(Line(nline)))
    BY <1>1, <1>2, <1>10
  <2> QED
    BY <1>9, <2>1, <2>2, Zenon DEF p
<1>11. CASE ~(p <= Len(Line(nline)))
  <2>1. NextLine = m
    BY <1>5, <1>11
  <2> QED
    BY <1>6, <1>7, <1>8, <1>11, <2>1, Zenon DEF p
<1> QED
  BY <1>10, <1>11

\* The lines that are passed over.
LEMMA LinesOver ==
    ASSUME lines \in Seq(Seq(Chars)), tokens \in Seq(Types), LexAt, nline <= Len(lines),
           OnlySpaces(Line(nline), lineit)
    PROVE  \A n \in nline..NextLine - 1 : InFile(lines)[n] = Gap(tokens)
<1> DEFINE f == InFile(lines)
           bad == {n \in nline..NextLine - 1 : f[n] # Gap(tokens)}
<1> SUFFICES ASSUME bad # {} PROVE FALSE
  OBVIOUS
<1>1. /\ nline \in 1..Len(lines) + 1 /\ lineit \in 1..Len(Line(nline)) + 1
      /\ Fits(InLine(f[nline - 1], lines[nline])[lineit - 1], lines[nline], lineit, tokens)
  BY DEF LexAt
<1>2. /\ NextLine \in nline..Len(lines) + 1
      /\ \A n \in nline + 1..NextLine - 1 : Blank(n)
  BY <1>1, NextLineIs DEF OnlySpaces
<1>3. /\ f \in [0..Len(lines) -> States]
      /\ \A n \in 1..Len(lines) : f[n] = ReadEnd(InLine(f[n - 1], lines[n])[Len(lines[n])])
  BY InFileIs
<1> HIDE DEF f
<1>4. bad \subseteq Nat /\ Len(lines) \in Nat /\ nline \in Nat \ {0} /\ NextLine \in Nat
  BY <1>1, <1>2
<1>5. PICK m \in bad : \A n \in bad : m <= n
  <2> HIDE DEF bad
  <2> QED
    BY <1>4, LeastOf
<1>6. m \in nline..NextLine - 1 /\ f[m] # Gap(tokens)
  OBVIOUS
<1>7. m \in 1..Len(lines) /\ m - 1 \in 0..Len(lines) /\ m <= Len(lines) /\ m \in Nat \ {0}
  BY <1>2, <1>4, <1>6
<1>8. f[m - 1] \in States /\ lines[m] \in Seq(Chars) /\ Line(m) = lines[m]
  BY <1>3, <1>7, LineIs
<1>9. f[m] = ReadEnd(InLine(f[m - 1], lines[m])[Len(lines[m])])
  BY <1>3, <1>7
<1>10. CASE m = nline
  <2>1. lineit \in 1..Len(lines[m]) + 1 /\ OnlySpaces(lines[m], lineit)
    BY <1>1, <1>8, <1>10
  <2>2. Fits(InLine(f[m - 1], lines[m])[lineit - 1], lines[m], lineit, tokens)
    BY <1>1, <1>10
  <2>3. ReadEnd(InLine(f[m - 1], lines[m])[Len(lines[m])]) = Gap(tokens)
    BY <1>8, <2>1, <2>2, LineOver
  <2> QED
    BY <1>6, <1>9, <2>3
<1>11. CASE m # nline
  <2>1. m \in nline + 1..NextLine - 1 /\ m - 1 \in nline..NextLine - 1 /\ ~(m <= m - 1)
    BY <1>4, <1>6, <1>11
  <2>2. f[m - 1] = Gap(tokens)
    BY <1>5, <2>1
  <2>3. 1 \in 1..Len(lines[m]) + 1 /\ 1 - 1 = 0
    BY <1>8
  <2>4. OnlySpaces(lines[m], 1)
    BY <1>2, <1>8, <2>1 DEF Blank, OnlySpaces
  <2>5. InLine(f[m - 1], lines[m])[1 - 1] = Gap(tokens)
    BY <1>8, <2>2, <2>3, InLineIs
  <2>6. Fits(InLine(f[m - 1], lines[m])[1 - 1], lines[m], 1, tokens)
    BY <2>5, GapFits
  <2>7. ReadEnd(InLine(f[m - 1], lines[m])[Len(lines[m])]) = Gap(tokens)
    BY <1>8, <2>3, <2>4, <2>6, LineOver
  <2> QED
    BY <1>6, <1>9, <2>7
<1> QED
  BY <1>10, <1>11

\* The next character that is no space, and that a reader is there too.
LEMMA NextAt ==
    ASSUME lines \in Seq(Seq(Chars)), tokens \in Seq(Types), LexAt, nline <= Len(lines),
           NextLine <= Len(lines)
    PROVE  LET line == lines[NextLine]
               s == InFile(lines)[NextLine - 1]
           IN /\ NextLine \in 1..Len(lines) /\ Line(NextLine) = line
              /\ line \in Seq(Chars) /\ s \in States
              /\ NextChar \in 1..Len(line) /\ line[NextChar] # " "
              /\ InLine(s, line)[NextChar] = Begin(tokens, line[NextChar])
<1> DEFINE f == InFile(lines)
           line == lines[NextLine]
           s == f[NextLine - 1]
           from == IF NextLine = nline THEN lineit ELSE 1
           p == PastSpaces(Line(nline), lineit)
<1>1. /\ nline \in 1..Len(lines) + 1 /\ lineit \in 1..Len(Line(nline)) + 1
      /\ Fits(InLine(f[nline - 1], lines[nline])[lineit - 1], lines[nline], lineit, tokens)
  BY DEF LexAt
<1>2. /\ NextLine \in nline..Len(lines) + 1
      /\ p <= Len(Line(nline)) => NextLine = nline
      /\ p > Len(Line(nline)) => NextLine # nline /\ ~Blank(NextLine)
  BY <1>1, NextLineIs
<1>3. f \in [0..Len(lines) -> States]
  BY InFileIs
<1>4. /\ Len(lines) \in Nat /\ nline \in Nat \ {0} /\ NextLine \in Nat \ {0}
      /\ NextLine \in 1..Len(lines) /\ NextLine - 1 \in 0..Len(lines)
  BY <1>1, <1>2
<1>5. /\ s \in States /\ line \in Seq(Chars) /\ Line(NextLine) = line
      /\ Line(nline) \in Seq(Chars) /\ Len(Line(nline)) \in Nat /\ Len(line) \in Nat
  BY <1>3, <1>4, LineIs
<1>6. p \in Nat
  BY <1>1, <1>5, PastSpacesIs
<1> HIDE DEF f, p
<1>7. /\ from \in 1..Len(line) + 1 /\ PastSpaces(line, from) <= Len(line)
      /\ Fits(InLine(s, line)[from - 1], line, from, tokens)
  <2>1. CASE NextLine = nline
    <3>1. ~(p > Len(Line(nline)))
      BY <1>2, <2>1
    <3>2. p <= Len(Line(nline))
      BY <1>5, <1>6, <3>1
    <3> QED
      BY <1>1, <1>5, <2>1, <3>2, Zenon DEF p
  <2>2. CASE NextLine # nline
    <3>1. p > Len(Line(nline))
      BY <1>2, <1>5, <1>6, <2>2
    <3>2. ~Blank(NextLine) /\ from = 1
      BY <1>2, <2>2, <3>1
    <3>3. 1 \in 1..Len(line) + 1 /\ 1 - 1 = 0
      BY <1>5
    <3>4. PastSpaces(line, 1) <= Len(line)
      <4>1. PastSpaces(line, 1) \in Nat
        BY <1>5, <3>3, PastSpacesIs
      <4>2. ~(PastSpaces(line, 1) > Len(line))
        BY <1>5, <3>2, Zenon DEF Blank
      <4> QED
        BY <1>5, <4>1, <4>2
    <3>5. s = Gap(tokens)
      <4>1. OnlySpaces(Line(nline), lineit)
        BY <3>1, Zenon DEF OnlySpaces, p
      <4>2. NextLine - 1 \in nline..NextLine - 1
        BY <1>2, <1>4, <2>2
      <4> QED
        BY <4>1, <4>2, LinesOver DEF f
    <3>6. InLine(s, line)[1 - 1] = Gap(tokens)
      <4>1. InLine(s, line)[0] = s
        BY <1>5, InLineIs
      <4> QED
        BY <3>3, <3>5, <4>1
    <3>7. Fits(InLine(s, line)[1 - 1], line, 1, tokens)
      BY <3>6, GapFits
    <3> QED
      BY <3>2, <3>3, <3>4, <3>7, Zenon
  <2> QED
    BY <2>1, <2>2
<1>8. NextChar = PastSpaces(line, from)
  BY <1>5, Zenon DEF NextChar
<1> DEFINE i == NextChar
<1> HIDE DEF from, line, s
<1>9. i \in from..Len(line) + 1 /\ i \in Nat /\ i <= Len(line)
  BY <1>5, <1>7, <1>8, PastSpacesIs
<1>10. Spaced(line, from, i) /\ line[i] # " "
  BY <1>5, <1>7, <1>8, PastSpacesIs DEF Spaced
<1> HIDE DEF i
<1>11. i \in 1..Len(line)
  BY <1>7, <1>9
<1>12. Fits(InLine(s, line)[i - 1], line, i, tokens)
  BY <1>5, <1>7, <1>9, <1>10, Spaces
<1>13. InLine(s, line)[i] = Begin(tokens, line[i])
  BY <1>5, <1>9, <1>11, <1>12, InLineIs DEF Fits
<1> QED
  BY <1>4, <1>5, <1>9, <1>11, <1>13, <1>10, Zenon DEF i, line, s, f

-----------------------------------------------------------------------------
(* The steps of the lexer                                                     *)

LEMMA LexingInit ==
    ASSUME ParserInit
    PROVE  Lexing
<1>1. lines \in Seq(Seq(Chars)) /\ tokens \in Seq(Types) /\ ended \in BOOLEAN
  <2>1. PICK n \in 0..MaxLines : lines \in [1..n -> Lines]
    BY DEF ParserInit
  <2>2. Lines \subseteq Seq(Chars) /\ n \in Nat
    BY ParserAssumption
  <2>3. lines \in [1..n -> Seq(Chars)]
    BY <2>1, <2>2
  <2>4. lines \in Seq(Seq(Chars))
    BY <2>2, <2>3
  <2> QED
    BY <2>4 DEF ParserInit
<1>2. phase = "lex" /\ nline = 1 /\ lineit = 1 /\ tokens = <<>>
  BY DEF ParserInit
<1>3. LexAt
  <2>1. 1 \in 1..Len(lines) + 1 /\ Len(lines) \in Nat
    BY <1>1
  <2>2. 1 > Len(lines) => lines = <<>>
    BY <1>1
  <2>3. Line(1) \in Seq(Chars) /\ 1 \in 1..Len(Line(1)) + 1
    <3>1. Line(1) \in Seq(Chars) /\ Len(Line(1)) \in Nat
      BY <1>1, LineIs
    <3> QED
      BY <3>1
  <2>4. ASSUME 1 <= Len(lines)
        PROVE  Fits(InLine(InFile(lines)[1 - 1], lines[1])[1 - 1], lines[1], 1, tokens)
    <3>1. lines[1] \in Seq(Chars) /\ 1 - 1 = 0
      BY <1>1, <2>1, <2>4
    <3>2. InFile(lines)[0] = Gap(tokens)
      BY <1>1, <1>2, InFileIs DEF Gap
    <3>3. Gap(tokens) \in States
      BY <1>1, GapTyped
    <3>4. InLine(Gap(tokens), lines[1])[0] = Gap(tokens)
      BY <3>1, <3>3, InLineIs
    <3> QED
      BY <1>1, <3>1, <3>2, <3>4, GapFits
  <2> QED
    BY <1>2, <2>1, <2>2, <2>3, <2>4, Zenon DEF LexAt
<1> QED
  BY <1>1, <1>2, <1>3 DEF Lexing

LEMMA LexEndStep ==
    ASSUME Lexing, LexEnd
    PROVE  Lexing'
<1>1. /\ lines \in Seq(Seq(Chars)) /\ tokens \in Seq(Types) /\ ended \in BOOLEAN
      /\ phase = "lex" /\ LexAt /\ phase' = "group"
      /\ lines' = lines /\ tokens' = tokens /\ ended' = ended
  BY DEF Lexing, LexEnd, StartGrouping, fileVars, lexVars
<1>2. ASSUME ended PROVE tokens = ReadFile
  <2>1. nline > Len(lines) \/ NextLine > Len(lines)
    BY <1>2 DEF LexEnd, Eof
  <2>2. /\ nline \in 1..Len(lines) + 1 /\ lineit \in 1..Len(Line(nline)) + 1
        /\ nline > Len(lines) => lines = <<>> /\ tokens = <<>>
        /\ Len(lines) \in Nat /\ nline \in Nat \ {0}
    BY <1>1 DEF LexAt
  <2>3. CASE nline > Len(lines)
    <3>1. lines = <<>> /\ tokens = <<>> /\ Len(lines) = 0
      BY <2>2, <2>3
    <3>2. InFile(lines)[0] = [out |-> <<>>, in |-> "gap"]
      BY <1>1, InFileIs
    <3> QED
      BY <3>1, <3>2 DEF ReadFile
  <2>4. CASE ~(nline > Len(lines))
    <3>1. nline <= Len(lines) /\ NextLine > Len(lines) /\ NextLine # nline
      BY <2>1, <2>2, <2>4
    <3>2. OnlySpaces(Line(nline), lineit) /\ NextLine \in nline..Len(lines) + 1
      <4> DEFINE p == PastSpaces(Line(nline), lineit)
      <4>1. /\ NextLine \in nline..Len(lines) + 1
            /\ p <= Len(Line(nline)) => NextLine = nline
        BY <1>1, <2>2, NextLineIs
      <4>2. p \in Nat /\ Len(Line(nline)) \in Nat
        BY <1>1, <2>2, LineIs, PastSpacesIs
      <4> HIDE DEF p
      <4>3. p > Len(Line(nline))
        BY <3>1, <4>1, <4>2
      <4> QED
        BY <4>1, <4>3, Zenon DEF OnlySpaces, p
    <3>3. Len(lines) \in nline..NextLine - 1
      BY <2>2, <3>1, <3>2
    <3>4. InFile(lines)[Len(lines)] = Gap(tokens)
      BY <1>1, <3>1, <3>2, <3>3, LinesOver
    <3> QED
      BY <1>1, <3>4, GapTyped DEF ReadFile
  <2> QED
    BY <2>3, <2>4
<1>3. ReadFile' = ReadFile
  BY <1>1 DEF ReadFile
<1> QED
  BY <1>1, <1>2, <1>3 DEF Lexing

\* A character that cannot be read ends the reading; what is behind it does not
\* count.
LEMMA LexInvalidStep ==
    ASSUME Lexing, LexInvalid
    PROVE  Lexing'
<1>1. /\ lines \in Seq(Seq(Chars)) /\ tokens \in Seq(Types) /\ ended \in BOOLEAN
      /\ phase = "lex" /\ LexAt /\ phase' = "group"
      /\ lines' = lines /\ tokens' = tokens /\ ended' = ended
      /\ NextLine <= Len(lines) /\ Lex(Line(NextLine), NextChar).type = "invalid"
  BY DEF Lexing, LexInvalid, StartGrouping, fileVars, lexVars
<1>2. ASSUME ended PROVE tokens = ReadFile
  <2> DEFINE line == lines[NextLine]
             s == InFile(lines)[NextLine - 1]
  <2>1. nline <= Len(lines)
    <3>1. ~(nline > Len(lines)) /\ nline \in 1..Len(lines) + 1
      BY <1>1, <1>2 DEF LexInvalid, Eof, LexAt
    <3> QED
      BY <1>1, <3>1
  <2>2. /\ NextLine \in 1..Len(lines) /\ Line(NextLine) = line
        /\ line \in Seq(Chars) /\ s \in States /\ NextChar \in 1..Len(line)
        /\ InLine(s, line)[NextChar] = Begin(tokens, line[NextChar])
    BY <1>1, <2>1, NextAt
  <2> HIDE DEF line, s
  <2>3. line[NextChar] = "^"
    <3>1. Lex(line, NextChar).type = "invalid" /\ line[NextChar] \in Chars
      BY <1>1, <2>2
    <3> QED
      BY <3>1 DEF Lex, Chars
  <2>4. InLine(s, line)[NextChar] = [out |-> tokens, in |-> "stuck"]
    BY <1>1, <2>2, <2>3, Begins, Zenon
  <2>5. InLine(s, line)[Len(line)] = [out |-> tokens, in |-> "stuck"]
    <3>1. NextChar \in 0..Len(line)
      BY <2>2
    <3> QED
      BY <1>1, <2>2, <2>4, <3>1, Remains
  <2>6. InFile(lines)[NextLine] = [out |-> tokens, in |-> "stuck"]
    <3>1. InFile(lines)[NextLine] = ReadEnd(InLine(s, line)[Len(line)])
      BY <1>1, <2>2, InFileIs DEF s, line
    <3>2. ReadEnd([out |-> tokens, in |-> "stuck"]) = [out |-> tokens, in |-> "stuck"]
      BY DEF ReadEnd
    <3> QED
      BY <2>5, <3>1, <3>2, Zenon
  <2>7. InFile(lines)[Len(lines)].out = tokens
    BY <1>1, <2>2, <2>6, StuckFile
  <2> QED
    BY <2>7, Zenon DEF ReadFile
<1>3. ReadFile' = ReadFile
  BY <1>1 DEF ReadFile
<1> QED
  BY <1>1, <1>2, <1>3 DEF Lexing

LEMMA LexOnStep ==
    ASSUME Lexing, LexComment \/ LexToken
    PROVE  Lexing'
<1> DEFINE line == lines[NextLine]
           s == InFile(lines)[NextLine - 1]
           i == NextChar
           token == Lex(line, i)
<1>1. /\ lines \in Seq(Seq(Chars)) /\ tokens \in Seq(Types) /\ ended \in BOOLEAN
      /\ phase = "lex" /\ LexAt /\ phase' = "lex"
      /\ lines' = lines /\ ended' = ended /\ nline' = NextLine
      /\ NextLine <= Len(lines) /\ ~Eof(nline)
  BY DEF Lexing, LexComment, LexToken, fileVars
<1>2. nline <= Len(lines)
  <2>1. nline \in 1..Len(lines) + 1 /\ Len(lines) \in Nat
    BY <1>1 DEF LexAt
  <2>2. ~(nline > Len(lines)) \/ ~(nline >= Len(lines))
    BY <1>1 DEF Eof
  <2> QED
    BY <2>1, <2>2
<1>3. /\ NextLine \in 1..Len(lines) /\ Line(NextLine) = line
      /\ line \in Seq(Chars) /\ s \in States /\ i \in 1..Len(line)
      /\ InLine(s, line)[i] = Begin(tokens, line[i])
  BY <1>1, <1>2, NextAt
<1>4. line[i] # " "
  BY <1>1, <1>2, NextAt
<1> HIDE DEF line, s, i
<1>5. /\ tokens' \in Seq(Types) /\ lineit' \in 1..Len(line) + 1
      /\ Fits(InLine(s, line)[lineit' - 1], line, lineit', tokens')
  <2>1. CASE LexComment
    <3>1. line[i] = "#" /\ lineit' = Len(line) + 1 /\ tokens' = tokens
      BY <1>3, <2>1 DEF LexComment, i
    <3>2. Fits(InLine(s, line)[(Len(line) + 1) - 1], line, Len(line) + 1, tokens)
      BY <1>1, <1>3, <3>1, CommentRead
    <3>3. Len(line) + 1 \in 1..Len(line) + 1
      BY <1>3
    <3> QED
      BY <1>1, <3>1, <3>2, <3>3
  <2>2. CASE LexToken
    <3>1. /\ line[i] # "#" /\ token.type # "invalid"
          /\ lineit' = token.end /\ tokens' = Append(tokens, token.type)
      BY <1>3, <2>2, Zenon DEF LexToken, i
    <3>2. line[i] # "^"
      <4>1. line[i] = "^" => token.type = "invalid"
        BY DEF Lex
      <4> QED
        BY <3>1, <4>1
    <3>3. BeginsToken(line[i])
      BY <1>4, <3>1, <3>2 DEF BeginsToken
    <3>4. /\ token.type \in Types /\ token.end \in i + 1..Len(line) + 1
          /\ Fits(InLine(s, line)[token.end - 1], line, token.end, Append(tokens, token.type))
      BY <1>1, <1>3, <3>3, TokenRead
    <3> HIDE DEF token
    <3>5. Append(tokens, token.type) \in Seq(Types)
      BY <1>1, <3>4
    <3>6. token.end \in 1..Len(line) + 1
      <4>1. i \in 1..Len(line)
        BY <1>3
      <4> QED
        BY <3>4, <4>1
    <3> QED
      BY <3>1, <3>4, <3>5, <3>6
  <2> QED
    BY <2>1, <2>2
<1>6. LexAt'
  <2>1. NextLine \in 1..Len(lines) + 1 /\ ~(NextLine > Len(lines))
    BY <1>1, <1>3
  <2>2. Line(nline)' = line
    BY <1>1, <1>3 DEF Line
  <2>3. lines'[nline'] = line /\ InFile(lines')[nline' - 1] = s
    BY <1>1 DEF line, s
  <2>4. nline' \in 1..Len(lines') + 1 /\ lineit' \in 1..Len(Line(nline)') + 1
    BY <1>1, <1>5, <2>1, <2>2
  <2>5. ~(nline' > Len(lines'))
    BY <1>1, <2>1
  <2>6. Fits(InLine(InFile(lines')[nline' - 1], lines'[nline'])[lineit' - 1],
             lines'[nline'], lineit', tokens')
    BY <1>5, <2>3
  <2> QED
    BY <2>4, <2>5, <2>6, Zenon DEF LexAt
<1> QED
  BY <1>1, <1>5, <1>6 DEF Lexing

\* The grouper reads the tokens and does not change them.
LEMMA LexedStep ==
    ASSUME Lexing,
           \/ Semicolon \/ OpenBlock \/ RefuseBlock \/ NamelessBlock
           \/ CloseBlock \/ BadClose \/ Word \/ GroupEnd
    PROVE  Lexing'
<1>1. phase = "group" /\ phase' # "lex" /\ lines' = lines /\ ended' = ended /\ tokens' = tokens
  BY DEF Semicolon, OpenBlock, RefuseBlock, NamelessBlock, CloseBlock, BadClose, Word, GroupEnd,
         At, Step, Return, fileVars, lexVars
<1>2. ReadFile' = ReadFile
  BY <1>1 DEF ReadFile
<1> QED
  BY <1>1, <1>2 DEF Lexing

LEMMA LexingStutter ==
    ASSUME Lexing, UNCHANGED vars
    PROVE  Lexing'
<1>1. /\ phase' = phase /\ lines' = lines /\ ended' = ended /\ tokens' = tokens
      /\ nline' = nline /\ lineit' = lineit
  BY DEF vars, fileVars, lexVars
<1>2. ReadFile' = ReadFile
  BY <1>1 DEF ReadFile
<1>3. Line(nline)' = Line(nline)
  BY <1>1 DEF Line
<1>4. LexAt => LexAt'
  BY <1>1, <1>3, Zenon DEF LexAt
<1> QED
  BY <1>1, <1>2, <1>4 DEF Lexing

\* The tokens of a file of any length are its words and marks from left to right, up
\* to a character that cannot be read.
THEOREM TokensHold == ParserSpec => []TokensAreTheText
<1>1. Lexing /\ [ParserNext]_vars => Lexing'
  BY LexEndStep, LexInvalidStep, LexOnStep, LexedStep, LexingStutter DEF ParserNext
<1>2. Lexing => TokensAreTheText
  BY DEF Lexing, TokensAreTheText
<1> QED
  BY <1>1, <1>2, LexingInit, PTL DEF ParserSpec

=============================================================================
