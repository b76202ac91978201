------------------------------ MODULE BlocksProofs ------------------------------
(* What a block takes over from the blocks around it, for every file.         *)
EXTENDS Blocks, FiniteSetTheorems, TLAPS

\* The facts about what is said, for any set S of pairs of a block and a
\* directive or an option: said before a step and after it.
SaysIn(S, b, fields) == \E k \in fields : <<b, k>> \in S
On(line) == {line[d] : d \in DOMAIN line}
InnermostIn(S, line, fields) ==
    {b \in On(line) : /\ SaysIn(S, b, fields)
                      /\ \A c \in On(line) : SaysIn(S, c, fields) => c <= b}

\* The settings are those that the blocks of the line call for.
OneWins(S, settings, line) ==
    \A k \in Fields \ {"index", "autoindex", "cgi_param"} :
        settings[k] = IF InnermostIn(S, line, {k}) = {} THEN Initially[k]
                      ELSE InnermostIn(S, line, {k})
Gathered(S, settings, line) ==
    settings["cgi_param"] = {c \in On(line) : SaysIn(S, c, {"cgi_param"})}
Decided(S, settings, line) ==
    LET at == InnermostIn(S, line, {"index", "autoindex"})
    IN IF at = {} THEN settings["index"] = {0} /\ settings["autoindex"] = {}
       ELSE \A c \in at :
               IF SaysIn(S, c, {"index"}) THEN settings["index"] = {c}
               ELSE settings["index"] = {} /\ settings["autoindex"] \subseteq {c}
InEffect(S, settings, line) ==
    OneWins(S, settings, line) /\ Gathered(S, settings, line) /\ Decided(S, settings, line)

Outwards(line) ==
    /\ line \in Seq(Nat) /\ line # <<>>
    /\ \A d, e \in DOMAIN line : d < e => line[d] < line[e]

Settings == [Fields -> SUBSET Nat]

\* What only locations say.
OnlyLocations == OfLocation \cup {"return_code"}
Objects == [type : Types, settings : Settings, was_set : SUBSET Kinds,
            stage : {"simple", "types", "blocks"}, line : Seq(Nat)]

\* A block that is being read at depth d.
OpenSound(S, o, d) ==
    /\ o \in Objects
    /\ Outwards(o.line) /\ Len(o.line) = d
    /\ o.type = "http" <=> d = 1
    /\ \A k \in Kinds : k \in o.was_set <=> <<o.line[d], k>> \in S
    /\ o.type # "location" => ~\E c \in On(o.line) : SaysIn(S, c, OnlyLocations)
    /\ InEffect(S, o.settings, o.line)

\* The blocks being read lie in each other; one with another in it has no more
\* directives to come.
Nested ==
    /\ nested \in Seq(Objects)
    /\ \A d \in DOMAIN nested : OpenSound(said, nested[d], d)
    /\ \A d, e \in DOMAIN nested : d < e => /\ nested[d].stage = "blocks"
                                         /\ \A i \in 1..d : nested[e].line[i] = nested[d].line[i]
    /\ progress = "reading" => nested # <<>>

\* A block that was read, and those around it, have nothing more to say.
ReadSound(o) ==
    /\ o.line \in Seq(Nat)
    /\ InEffect(said, o.settings, o.line)
    /\ \A d \in DOMAIN nested : nested[d].stage # "blocks" => nested[d].line[d] \notin On(o.line)

\* The blocks are numbered in their order.
Numbered ==
    \E n \in Nat :
        /\ DOMAIN objects \cup {nested[d].line[d] : d \in DOMAIN nested} = 1..n
        /\ \A b \in DOMAIN objects : On(objects[b].line) \subseteq 1..n
        /\ said \subseteq (1..n) \X Fields

BlocksInv ==
    /\ Nested
    /\ \A b \in DOMAIN objects : ReadSound(objects[b])
    /\ Numbered
\* The options: each belongs to one directive, and is none.
LEMMA FieldsOf ==
    /\ Fields = Kinds \cup {"create_path", "return_code"}
    /\ "create_path" \notin Kinds /\ "return_code" \notin Kinds
    /\ \A k \in Kinds : /\ Options(k) \subseteq {"create_path", "return_code"}
                        /\ "return_code" \in Options(k) => k = "return"
    /\ "create_path" \in Options("upload_directory")
    /\ "upload_directory" \in Shared
<1>1. \A k : Options(k) = IF k = "upload_directory" THEN {"create_path"}
                          ELSE IF k = "return" THEN {"return_code"} ELSE {}
  BY DEF Options
<1>2. "upload_directory" \in Kinds /\ "return" \in Kinds /\ "upload_directory" \in Shared
  BY DEF Kinds, Shared, OfLocation
<1>3. "create_path" \notin Kinds /\ "return_code" \notin Kinds
  BY DEF Kinds, Shared, OfLocation, OfClientHeader
<1>4. UNION {Options(k) : k \in Kinds} = {"create_path", "return_code"}
  BY <1>1, <1>2
<1> QED
  BY <1>1, <1>2, <1>3, <1>4 DEF Fields

LEMMA GivesOf ==
    ASSUME NEW k \in Kinds, NEW given \in BOOLEAN
    PROVE  /\ Gives(k, given) \subseteq Fields /\ k \in Gives(k, given)
           /\ \A f \in Kinds : f \in Gives(k, given) => f = k
           /\ k \notin OfLocation => \A f \in Gives(k, given) : f \notin OnlyLocations
<1>1. Gives(k, given) \subseteq {k} \cup {"create_path", "return_code"} /\ k \in Gives(k, given)
  BY FieldsOf DEF Gives
<1>2. ASSUME NEW f \in Kinds, f \in Gives(k, given) PROVE  f = k
  BY <1>1, <1>2, FieldsOf
<1>3. ASSUME k \notin OfLocation, NEW f \in Gives(k, given) PROVE  f \notin OnlyLocations
  <2>1. f # "return_code"
    <3>1. k # "return"
      BY <1>3 DEF OfLocation
    <3> QED
      BY <1>3, <3>1, FieldsOf DEF Gives
  <2>2. f \notin OfLocation
    BY <1>2, <1>3 DEF Kinds
  <2> QED
    BY <2>1, <2>2 DEF OnlyLocations
<1> QED
  BY <1>1, <1>2, <1>3, FieldsOf

-----------------------------------------------------------------------------
(* What a line of blocks says                                                 *)

\* Who says what innermost does not change with what others say.
LEMMA SameSaid ==
    ASSUME NEW S, NEW R, NEW line, NEW settings,
           \A c \in On(line) : \A k \in Fields : <<c, k>> \in R <=> <<c, k>> \in S,
           InEffect(S, settings, line)
    PROVE  InEffect(R, settings, line)
<1>1. ASSUME NEW c \in On(line), NEW fields \in SUBSET Fields
      PROVE  SaysIn(R, c, fields) <=> SaysIn(S, c, fields)
  BY <1>1 DEF SaysIn
<1>2. ASSUME NEW fields \in SUBSET Fields
      PROVE  InnermostIn(R, line, fields) = InnermostIn(S, line, fields)
  BY <1>1 DEF InnermostIn
<1>3. {"index", "autoindex"} \in SUBSET Fields /\ {"index"} \in SUBSET Fields
      /\ {"cgi_param"} \in SUBSET Fields
  BY DEF Fields, Kinds, Shared, OfLocation
<1>4. OneWins(R, settings, line)
  BY <1>2 DEF InEffect, OneWins
<1>5. Gathered(R, settings, line)
  BY <1>1, <1>3 DEF InEffect, Gathered
<1>6. Decided(R, settings, line)
  <2>1. InnermostIn(S, line, {"index", "autoindex"}) \subseteq On(line)
    BY DEF InnermostIn
  <2> QED
    BY <1>1, <1>2, <1>3, <2>1 DEF InEffect, Decided
<1> QED
  BY <1>4, <1>5, <1>6 DEF InEffect

\* What the innermost block of a line says, counts.
LEMMA LastCounts ==
    ASSUME NEW S, NEW line, Outwards(line), NEW fields, SaysIn(S, line[Len(line)], fields)
    PROVE  InnermostIn(S, line, fields) = {line[Len(line)]}
<1>1. Len(line) \in DOMAIN line /\ DOMAIN line = 1..Len(line)
  BY DEF Outwards
<1>2. ASSUME NEW d \in DOMAIN line PROVE  line[d] <= line[Len(line)] /\ line[d] \in Nat
  BY <1>1 DEF Outwards
<1>3. ASSUME NEW d \in DOMAIN line, line[Len(line)] <= line[d] PROVE  line[d] = line[Len(line)]
  BY <1>1, <1>2, <1>3
<1> QED
  BY <1>1, <1>2, <1>3 DEF InnermostIn, On

LEMMA OnLonger ==
    ASSUME NEW line \in Seq(Nat), NEW n \in Nat
    PROVE  /\ Append(line, n) \in Seq(Nat)
           /\ Len(Append(line, n)) = Len(line) + 1
           /\ Append(line, n)[Len(line) + 1] = n
           /\ \A i \in 1..Len(line) : Append(line, n)[i] = line[i]
           /\ On(Append(line, n)) = On(line) \cup {n}
<1>1. /\ Append(line, n) \in Seq(Nat)
      /\ Len(Append(line, n)) = Len(line) + 1
      /\ Append(line, n)[Len(line) + 1] = n
      /\ \A i \in 1..Len(line) : Append(line, n)[i] = line[i]
  OBVIOUS
<1>2. DOMAIN Append(line, n) = 1..Len(line) + 1 /\ DOMAIN line = 1..Len(line) /\ Len(line) \in Nat
  BY <1>1
<1>3. DOMAIN Append(line, n) = DOMAIN line \cup {Len(line) + 1}
  BY <1>2
<1> QED
  BY <1>1, <1>2, <1>3 DEF On

LEMMA LongerOutwards ==
    ASSUME NEW line, Outwards(line), NEW n \in Nat, \A c \in On(line) : c < n
    PROVE  Outwards(Append(line, n))
<1>1. line \in Seq(Nat) /\ DOMAIN line = 1..Len(line) /\ Len(line) \in Nat
  BY DEF Outwards
<1>2. ASSUME NEW d \in DOMAIN line PROVE  line[d] < n
  BY DEF On
<1>3. DOMAIN Append(line, n) = 1..Len(line) + 1
  BY <1>1, OnLonger
<1>4. ASSUME NEW d \in 1..Len(line) + 1, NEW e \in 1..Len(line) + 1, d < e
      PROVE  Append(line, n)[d] < Append(line, n)[e]
  <2>1. d \in DOMAIN line /\ Append(line, n)[d] = line[d]
    BY <1>1, <1>4, OnLonger
  <2>2. CASE e = Len(line) + 1
    BY <1>1, <1>2, <2>1, <2>2, OnLonger
  <2>3. CASE e \in DOMAIN line
    BY <1>1, <1>4, <2>1, <2>3, OnLonger DEF Outwards
  <2> QED
    BY <1>1, <2>2, <2>3
<1> QED
  BY <1>1, <1>3, <1>4, OnLonger DEF Outwards

\* A block that has said nothing yet is as the block around it is.
LEMMA NothingSaid ==
    ASSUME NEW S, NEW line \in Seq(Nat), NEW n \in Nat, NEW settings,
           \A k \in Fields : <<n, k>> \notin S,
           InEffect(S, settings, line)
    PROVE  InEffect(S, settings, Append(line, n))
<1> DEFINE longer == Append(line, n)
<1>1. On(longer) = On(line) \cup {n}
  BY OnLonger
<1>2. ASSUME NEW fields \in SUBSET Fields PROVE  ~SaysIn(S, n, fields)
  BY <1>2 DEF SaysIn
<1> HIDE DEF longer
<1>3. ASSUME NEW fields \in SUBSET Fields
      PROVE  InnermostIn(S, longer, fields) = InnermostIn(S, line, fields)
  BY <1>1, <1>2 DEF InnermostIn
<1>4. {"index", "autoindex"} \in SUBSET Fields /\ {"index"} \in SUBSET Fields
      /\ {"cgi_param"} \in SUBSET Fields
  BY DEF Fields, Kinds, Shared, OfLocation
<1>5. OneWins(S, settings, longer)
  BY <1>3 DEF InEffect, OneWins
<1>6. Gathered(S, settings, longer)
  BY <1>1, <1>2, <1>4 DEF InEffect, Gathered
<1>7. Decided(S, settings, longer)
  BY <1>3, <1>4 DEF InEffect, Decided
<1> QED
  BY <1>5, <1>6, <1>7 DEF InEffect, longer

\* FromHttp() and FromServer() leave nothing behind: what they do not copy has not
\* been said.
LEMMA CopiedAll ==
    ASSUME NEW S, NEW line, NEW settings \in Settings,
           InEffect(S, settings, line),
           ~\E c \in On(line) : SaysIn(S, c, OnlyLocations)
    PROVE  Copied(Shared \cup OfClientHeader, settings) = settings
<1> DEFINE copied == (Shared \cup OfClientHeader) \cup UNION {Options(k) : k \in Shared \cup OfClientHeader}
<1>1. ASSUME NEW k \in Fields, k \notin copied
      PROVE  settings[k] = Initially[k]
  <2>1. k \in OnlyLocations
    BY <1>1, FieldsOf DEF OnlyLocations, Kinds
  <2>2. ASSUME NEW c \in On(line) PROVE  ~SaysIn(S, c, {k})
    BY <2>1 DEF SaysIn
  <2>3. CASE k = "cgi_param"
    <3>1. {c \in On(line) : SaysIn(S, c, {"cgi_param"})} = {}
      BY <2>2, <2>3
    <3> QED
      BY <2>3, <3>1 DEF InEffect, Gathered, Initially
  <2>4. CASE k # "cgi_param"
    <3>1. InnermostIn(S, line, {k}) = {}
      BY <2>2 DEF InnermostIn
    <3>2. k \in Fields \ {"index", "autoindex", "cgi_param"}
      BY <1>1, <2>1, <2>4 DEF OnlyLocations, OfLocation
    <3> QED
      BY <3>1, <3>2 DEF InEffect, OneWins
  <2> QED
    BY <2>3, <2>4
<1>2. settings = [k \in Fields |-> settings[k]]
  BY DEF Settings
<1> QED
  BY <1>1, <1>2 DEF Copied

-----------------------------------------------------------------------------
(* Directives                                                                 *)

LEMMA OverriddenFields ==
    ASSUME NEW o, o.settings \in Settings, NEW k \in Kinds, NEW given \in BOOLEAN, Self \in Nat
    PROVE  /\ Overridden(o, k, given) \in Settings
           /\ \A f \in Fields :
                 /\ f \notin Gives(k, given) /\ (k = "autoindex" => f # "index")
                       => Overridden(o, k, given)[f] = o.settings[f]
                 /\ f \in Gives(k, given) /\ f # k => Overridden(o, k, given)[f] = {Self}
           /\ Overridden(o, k, given)[k] = Given(o, k, given)
           /\ k = "autoindex" => Overridden(o, k, given)["index"] = {}
<1>1. Given(o, k, given) \in SUBSET Nat
  BY FieldsOf DEF Settings, Given
<1>2. "index" \in Fields /\ k \in Fields /\ k \in Gives(k, given)
  BY FieldsOf DEF Kinds, Shared, Gives
<1>3. k = "autoindex" => "index" \notin Gives(k, given)
  BY FieldsOf DEF Gives, Kinds, Shared
<1>4. \A f \in Fields :
          Overridden(o, k, given)[f] =
              IF f \in Gives(k, given) THEN IF f = k THEN Given(o, k, given) ELSE {Self}
              ELSE IF k = "autoindex" /\ f = "index" THEN {} ELSE o.settings[f]
  BY DEF Overridden
<1>5. \A f \in Fields : Overridden(o, k, given)[f] \in SUBSET Nat
  BY <1>1, <1>4 DEF Settings
<1>6. Overridden(o, k, given) \in Settings
  BY <1>5 DEF Overridden, Settings
<1> QED
  BY <1>2, <1>3, <1>4, <1>6

\* What a block says replaces what the blocks around it say, each directive by
\* its own rule.
LEMMA DirectiveInEffect ==
    ASSUME NEW o \in Objects, Outwards(o.line), Self = o.line[Len(o.line)],
           InEffect(said, o.settings, o.line),
           \A l \in Kinds : l \in o.was_set <=> <<Self, l>> \in said,
           NEW k \in Kinds, NEW given \in BOOLEAN,
           k = "autoindex" => "index" \notin o.was_set
    PROVE  /\ Overridden(o, k, given) \in Settings
           /\ InEffect(said \cup {<<Self, f>> : f \in Gives(k, given)}, Overridden(o, k, given), o.line)
<1> DEFINE new == Overridden(o, k, given)
           R == said \cup {<<Self, f>> : f \in Gives(k, given)}
<1>1. Self \in On(o.line) /\ Self \in Nat
  BY DEF Outwards, On
<1>2. o.settings \in Settings
  BY DEF Objects
<1>3. /\ new \in Settings
      /\ \A f \in Fields :
            /\ f \notin Gives(k, given) /\ (k = "autoindex" => f # "index") => new[f] = o.settings[f]
            /\ f \in Gives(k, given) /\ f # k => new[f] = {Self}
      /\ new[k] = Given(o, k, given)
      /\ k = "autoindex" => new["index"] = {}
  BY <1>1, <1>2, OverriddenFields
<1>4. ASSUME NEW fields, NEW f \in fields, f \in Gives(k, given)
      PROVE  InnermostIn(R, o.line, fields) = {Self}
  <2>1. SaysIn(R, Self, fields)
    BY <1>4 DEF SaysIn
  <2> QED
    BY <2>1, LastCounts
<1>5. ASSUME NEW fields, \A f \in fields : f \notin Gives(k, given), NEW c
      PROVE  SaysIn(R, c, fields) <=> SaysIn(said, c, fields)
  BY <1>5 DEF SaysIn
<1>6. ASSUME NEW fields, \A f \in fields : f \notin Gives(k, given)
      PROVE  InnermostIn(R, o.line, fields) = InnermostIn(said, o.line, fields)
  BY <1>5, <1>6 DEF InnermostIn
<1>7. /\ {"index", "autoindex", "cgi_param"} \subseteq Fields
      /\ k \in Gives(k, given)
      /\ \A f \in {"index", "autoindex", "cgi_param"} : f \in Gives(k, given) => f = k
  BY FieldsOf DEF Kinds, Shared, OfLocation, Gives
<1>11. \A c, f : <<c, f>> \in R <=> <<c, f>> \in said \/ (c = Self /\ f \in Gives(k, given))
  OBVIOUS
<1> HIDE DEF new, R
<1>8. OneWins(R, new, o.line)
  <2> SUFFICES ASSUME NEW l \in Fields \ {"index", "autoindex", "cgi_param"}
               PROVE  new[l] = IF InnermostIn(R, o.line, {l}) = {} THEN Initially[l]
                               ELSE InnermostIn(R, o.line, {l})
    BY DEF OneWins
  <2>1. CASE l \notin Gives(k, given)
    <3>1. InnermostIn(R, o.line, {l}) = InnermostIn(said, o.line, {l})
      BY <1>6, <2>1
    <3>2. new[l] = o.settings[l]
      BY <1>3, <2>1
    <3>3. OneWins(said, o.settings, o.line)
      BY DEF InEffect
    <3> QED
      BY <3>1, <3>2, <3>3 DEF OneWins
  <2>3. CASE l \in Gives(k, given) /\ l # k
    BY <1>3, <1>4, <2>3
  <2>2. CASE l = k
    <3>1. InnermostIn(R, o.line, {l}) = {Self}
      BY <1>4, <1>7, <2>2
    <3>2. CASE k = "error_page" /\ k \in o.was_set
      <4>1. SaysIn(said, Self, {k})
        BY <3>2 DEF SaysIn
      <4>2. InnermostIn(said, o.line, {k}) = {Self}
        BY <4>1, LastCounts
      <4>3. o.settings[k] = {Self}
        BY <2>2, <4>2 DEF InEffect, OneWins
      <4> QED
        BY <1>3, <2>2, <3>1, <3>2, <4>3 DEF Given
    <3>3. CASE ~(k = "error_page" /\ k \in o.was_set)
      BY <1>3, <2>2, <3>1, <3>3 DEF Given
    <3> QED
      BY <3>2, <3>3
  <2> QED
    BY <2>1, <2>2, <2>3
<1>9. Gathered(R, new, o.line)
  <2>1. Gathered(said, o.settings, o.line)
    BY DEF InEffect
  <2>2. CASE k # "cgi_param"
    BY <1>3, <1>5, <1>7, <2>1, <2>2 DEF Gathered
  <2>3. CASE k = "cgi_param"
    <3>1. ASSUME NEW c
          PROVE  SaysIn(R, c, {"cgi_param"}) <=> SaysIn(said, c, {"cgi_param"}) \/ c = Self
      BY <1>7, <1>11, <2>3 DEF SaysIn
    <3>2. {c \in On(o.line) : SaysIn(R, c, {"cgi_param"})} =
              {c \in On(o.line) : SaysIn(said, c, {"cgi_param"})} \cup {Self}
      BY <1>1, <3>1
    <3> QED
      BY <1>3, <2>1, <2>3, <3>2 DEF Gathered, Given
  <2> QED
    BY <2>2, <2>3
<1>10. Decided(R, new, o.line)
  <2>1. Decided(said, o.settings, o.line)
    BY DEF InEffect
  <2>2. CASE k \notin {"index", "autoindex"}
    <3>1. new["index"] = o.settings["index"] /\ new["autoindex"] = o.settings["autoindex"]
      BY <1>3, <1>7, <2>2
    <3>2. InnermostIn(R, o.line, {"index", "autoindex"}) =
              InnermostIn(said, o.line, {"index", "autoindex"})
      BY <1>6, <1>7, <2>2
    <3>3. \A c : SaysIn(R, c, {"index"}) <=> SaysIn(said, c, {"index"})
      BY <1>5, <1>7, <2>2
    <3> QED
      BY <2>1, <3>1, <3>2, <3>3 DEF Decided
  <2>3. CASE k \in {"index", "autoindex"}
    <3>1. InnermostIn(R, o.line, {"index", "autoindex"}) = {Self}
      BY <1>4, <1>7, <2>3
    <3>2. CASE k = "index"
      <4>1. SaysIn(R, Self, {"index"}) /\ new["index"] = {Self}
        BY <1>3, <1>7, <1>11, <3>2 DEF SaysIn, Given
      <4> QED
        BY <3>1, <4>1 DEF Decided
    <3>3. CASE k = "autoindex"
      <4>1. ~SaysIn(R, Self, {"index"})
        <5>1. "index" \in Kinds /\ "index" \notin Gives(k, given)
          BY <1>7, <3>3 DEF Kinds, Shared
        <5>2. <<Self, "index">> \notin said
          BY <3>3, <5>1
        <5> QED
          BY <1>11, <5>1, <5>2 DEF SaysIn
      <4>2. new["index"] = {} /\ new["autoindex"] \subseteq {Self}
        BY <1>3, <3>3 DEF Given
      <4> QED
        BY <3>1, <4>1, <4>2 DEF Decided
    <3> QED
      BY <2>3, <3>2, <3>3
  <2> QED
    BY <2>2, <2>3
<1> QED
  BY <1>3, <1>8, <1>9, <1>10 DEF InEffect, new, R

-----------------------------------------------------------------------------
(* The block being read, and a block within it                                *)

LEMMA TopSound ==
    ASSUME Nested, progress = "reading"
    PROVE  /\ Len(nested) \in Nat \ {0} /\ DOMAIN nested = 1..Len(nested)
           /\ Current = nested[Len(nested)] /\ OpenSound(said, Current, Len(nested))
           /\ Self = Current.line[Len(nested)] /\ Self \in Nat /\ Self \in On(Current.line)
           /\ DOMAIN Current.line = 1..Len(nested)
<1>1. Len(nested) \in Nat \ {0} /\ DOMAIN nested = 1..Len(nested)
  BY DEF Nested
<1>2. Current = nested[Len(nested)] /\ OpenSound(said, Current, Len(nested))
  BY <1>1 DEF Nested, Current
<1>3. Self = Current.line[Len(nested)] /\ DOMAIN Current.line = 1..Len(nested)
  BY <1>2 DEF Self, OpenSound, Outwards
<1> QED
  BY <1>1, <1>2, <1>3 DEF OpenSound, Outwards, On

LEMMA FreshIsNext ==
    ASSUME Numbered
    PROVE  \E n \in Nat : /\ Known = 1..n /\ Fresh = n + 1
                          /\ \A b \in DOMAIN objects : On(objects[b].line) \subseteq 1..n
                          /\ said \subseteq (1..n) \X Fields
<1>1. PICK n \in Nat : /\ Known = 1..n
                       /\ \A b \in DOMAIN objects : On(objects[b].line) \subseteq 1..n
                       /\ said \subseteq (1..n) \X Fields
  BY DEF Numbered, Known
<1>2. Cardinality(1..n) = n
  BY FS_Interval
<1> QED
  BY <1>1, <1>2 DEF Fresh

\* The numbers of a block and of those around it are known.
LEMMA LineKnown ==
    ASSUME Nested, NEW d \in DOMAIN nested
    PROVE  On(nested[d].line) \subseteq Known
<1>1. Len(nested) \in Nat /\ DOMAIN nested = 1..Len(nested) /\ OpenSound(said, nested[d], d)
  BY DEF Nested
<1>2. DOMAIN nested[d].line = 1..d
  BY <1>1 DEF OpenSound, Outwards
<1>3. ASSUME NEW i \in 1..d PROVE  nested[d].line[i] = nested[i].line[i] /\ i \in DOMAIN nested
  BY <1>1, <1>3 DEF Nested
<1> QED
  BY <1>2, <1>3 DEF On, Known

LEMMA InnerSound ==
    ASSUME Nested, Numbered, progress = "reading"
    PROVE  /\ Inner(Current) \in Objects
           /\ Inner(Current).line = Append(Current.line, Fresh)
           /\ Inner(Current).settings = Current.settings
           /\ Inner(Current).stage = "simple"
           /\ OpenSound(said, Inner(Current), Len(nested) + 1)
<1>1. /\ Len(nested) \in Nat \ {0} /\ DOMAIN nested = 1..Len(nested)
      /\ Current = nested[Len(nested)] /\ OpenSound(said, Current, Len(nested))
  BY TopSound
<1>2. /\ Current \in Objects /\ Outwards(Current.line) /\ Len(Current.line) = Len(nested)
      /\ Current.line \in Seq(Nat) /\ InEffect(said, Current.settings, Current.line)
      /\ Current.settings \in Settings /\ Current.type \in Types
      /\ Current.type # "location" => ~\E c \in On(Current.line) : SaysIn(said, c, OnlyLocations)
  BY <1>1 DEF OpenSound, Outwards, Objects
<1>3. PICK n \in Nat : /\ Known = 1..n /\ Fresh = n + 1
                       /\ said \subseteq (1..n) \X Fields
  BY FreshIsNext
<1>4. On(Current.line) \subseteq 1..n
  BY <1>1, <1>3, LineKnown
<1>5. Fresh \in Nat /\ \A c \in On(Current.line) : c < Fresh
  BY <1>3, <1>4
<1>6. \A k \in Fields : <<Fresh, k>> \notin said
  BY <1>3
<1> DEFINE line == Append(Current.line, Fresh)
           type == IF Current.type = "http" THEN "server" ELSE "location"
<1>7. Copied(Shared \cup OfClientHeader, Current.settings) = Current.settings \/ Current.type = "location"
  BY <1>2, CopiedAll
<1>8. Inner(Current) = New(type, Current.settings, line)
  BY <1>2, <1>7 DEF Inner, FromHttp, FromServer, FromLocation, Types
<1>9. /\ line \in Seq(Nat) /\ Len(line) = Len(nested) + 1 /\ line[Len(nested) + 1] = Fresh
      /\ On(line) = On(Current.line) \cup {Fresh}
  BY <1>2, <1>5, OnLonger
<1>10. Outwards(line)
  BY <1>2, <1>5, LongerOutwards
<1>11. InEffect(said, Current.settings, line)
  BY <1>2, <1>5, <1>6, NothingSaid
<1>12. type # "location" => ~\E c \in On(line) : SaysIn(said, c, OnlyLocations)
  BY <1>2, <1>6, <1>9, FieldsOf DEF SaysIn, OnlyLocations, Kinds
<1> DEFINE o == Inner(Current)
<1>13. /\ o.type = type /\ o.settings = Current.settings /\ o.was_set = {}
       /\ o.stage = "simple" /\ o.line = line /\ type \in {"server", "location"}
       /\ o = [type |-> type, settings |-> Current.settings, was_set |-> {},
               stage |-> "simple", line |-> line]
  BY <1>8 DEF New
<1> HIDE DEF o, type, line
<1>14. o \in Objects
  BY <1>2, <1>9, <1>13 DEF Objects, Types
<1>15. OpenSound(said, o, Len(nested) + 1)
  BY <1>1, <1>6, <1>9, <1>10, <1>11, <1>12, <1>13, <1>14, FieldsOf DEF OpenSound
<1> QED
  BY <1>13, <1>14, <1>15 DEF o, line

-----------------------------------------------------------------------------
(* The steps                                                                  *)

LEMMA BlocksInitInv ==
    ASSUME BlocksInit
    PROVE  BlocksInv
<1> DEFINE o == New("http", Initially, <<1>>)
<1>1. /\ nested = <<o>> /\ said = {} /\ DOMAIN objects = {} /\ progress = "reading"
  BY DEF BlocksInit
<1>2. /\ o.type = "http" /\ o.settings = Initially /\ o.was_set = {}
      /\ o.stage = "simple" /\ o.line = <<1>>
      /\ o = [type |-> "http", settings |-> Initially, was_set |-> {},
              stage |-> "simple", line |-> <<1>>]
  BY DEF New
<1>3. Initially \in Settings
  BY DEF Initially, Settings
<1> HIDE DEF o
<1>4. <<1>> \in Seq(Nat) /\ Len(<<1>>) = 1 /\ <<1>>[1] = 1 /\ DOMAIN <<1>> = 1..1
  OBVIOUS
<1>5. o \in Objects
  BY <1>2, <1>3, <1>4 DEF Objects, Types
<1>6. \A c, fields : ~SaysIn({}, c, fields)
  BY DEF SaysIn
<1>7. InEffect({}, Initially, <<1>>)
  <2>1. \A fields : InnermostIn({}, <<1>>, fields) = {}
    BY <1>6 DEF InnermostIn
  <2>2. OneWins({}, Initially, <<1>>)
    BY <2>1 DEF OneWins
  <2>3. Gathered({}, Initially, <<1>>)
    <3>1. Initially["cgi_param"] = {}
      BY DEF Initially, Fields, Kinds, OfLocation
    <3> QED
      BY <1>6, <3>1 DEF Gathered
  <2>4. Decided({}, Initially, <<1>>)
    <3>1. Initially["index"] = {0} /\ Initially["autoindex"] = {}
      BY DEF Initially, Fields, Kinds, Shared
    <3> QED
      BY <2>1, <3>1 DEF Decided
  <2> QED
    BY <2>2, <2>3, <2>4 DEF InEffect
<1>8. Outwards(<<1>>)
  BY <1>4 DEF Outwards
<1>9. OpenSound(said, o, 1)
  BY <1>1, <1>2, <1>4, <1>5, <1>6, <1>7, <1>8 DEF OpenSound
<1>10. nested \in Seq(Objects) /\ Len(nested) = 1 /\ nested[1] = o /\ DOMAIN nested = {1}
  BY <1>1, <1>5
<1>11. Nested
  <2>1. \A d \in DOMAIN nested : OpenSound(said, nested[d], d)
    BY <1>9, <1>10
  <2>2. \A d, e \in DOMAIN nested : ~(d < e)
    BY <1>10
  <2>3. nested # <<>>
    BY <1>10
  <2> QED
    BY <1>10, <2>1, <2>2, <2>3 DEF Nested
<1>12. DOMAIN objects \cup {nested[d].line[d] : d \in DOMAIN nested} = 1..1
  BY <1>1, <1>2, <1>4, <1>10
<1>13. Numbered
  BY <1>1, <1>12 DEF Numbered
<1> QED
  BY <1>1, <1>11, <1>13 DEF BlocksInv

LEMMA RefuseDirectiveStep ==
    ASSUME BlocksInv, RefuseDirective
    PROVE  BlocksInv'
<1>1. /\ progress' = "refused"
      /\ nested' = nested /\ objects' = objects /\ directives' = directives /\ said' = said
  BY DEF RefuseDirective
<1>2. Nested'
  <2>1. Nested /\ progress' # "reading"
    BY <1>1 DEF BlocksInv
  <2>2. \A d : OpenSound(said, nested[d], d)' <=> OpenSound(said, nested[d], d)
    BY <1>1 DEF OpenSound
  <2> QED
    BY <1>1, <2>1, <2>2 DEF Nested
<1>3. Numbered' /\ \A b \in DOMAIN objects' : ReadSound(objects[b])'
  BY <1>1 DEF BlocksInv, Numbered, ReadSound
<1> QED
  BY <1>2, <1>3 DEF BlocksInv

\* A block that stands beside the one being read, or around it, hears nothing of
\* what that one says.
LEMMA OthersHearNothing ==
    ASSUME NEW line, NEW settings, NEW b, NEW fields, b \notin On(line),
           InEffect(said, settings, line)
    PROVE  InEffect(said \cup {<<b, f>> : f \in fields}, settings, line)
<1>1. \A c \in On(line) : \A l \in Fields : <<c, l>> \in said \cup {<<b, f>> : f \in fields} <=> <<c, l>> \in said
  OBVIOUS
<1> QED
  BY <1>1, SameSaid

LEMMA OneReplaced ==
    ASSUME NEW T, NEW s \in Seq(T), NEW n \in 1..Len(s), NEW x \in T,
           NEW t, t = [s EXCEPT ![n] = x]
    PROVE  /\ t \in Seq(T) /\ Len(t) = Len(s) /\ DOMAIN t = 1..Len(s)
           /\ t[n] = x /\ \A i \in 1..Len(s) : i # n => t[i] = s[i]
  OBVIOUS

LEMMA DirectiveStep ==
    ASSUME BlocksInv, Directive
    PROVE  BlocksInv'
<1>1. PICK k \in Kinds, given \in BOOLEAN :
          /\ Visits(k) /\ ~Refused(k)
          /\ nested' = [nested EXCEPT ![Len(nested)] =
                         [Current EXCEPT !.settings = Overridden(Current, k, given),
                                     !.was_set = @ \cup {k},
                                     !.stage = StageOf(k)]]
          /\ said' = said \cup {<<Self, f>> : f \in Gives(k, given)}
  BY DEF Directive
<1>2. progress = "reading" /\ progress' = progress /\ objects' = objects
  BY <1>1 DEF Directive, Visits
<1> DEFINE n == Len(nested)
           new == [Current EXCEPT !.settings = Overridden(Current, k, given),
                              !.was_set = @ \cup {k},
                              !.stage = StageOf(k)]
<1>3. /\ n \in Nat \ {0} /\ DOMAIN nested = 1..n
      /\ Current = nested[n] /\ OpenSound(said, Current, n)
      /\ Self = Current.line[n] /\ Self \in Nat /\ Self \in On(Current.line)
      /\ DOMAIN Current.line = 1..n
  BY <1>2, TopSound DEF BlocksInv
<1>4. /\ Current \in Objects /\ Outwards(Current.line) /\ Len(Current.line) = n
      /\ Current.type = "http" <=> n = 1
      /\ \A l \in Kinds : l \in Current.was_set <=> <<Self, l>> \in said
      /\ Current.type # "location" => ~\E c \in On(Current.line) : SaysIn(said, c, OnlyLocations)
      /\ InEffect(said, Current.settings, Current.line)
      /\ Current.type \in Types /\ Current.was_set \subseteq Kinds /\ Current.line \in Seq(Nat)
  BY <1>3 DEF OpenSound, Objects
<1>5. k = "autoindex" => "index" \notin Current.was_set
  BY <1>1 DEF Refused, Contradicts
<1>6. /\ Overridden(Current, k, given) \in Settings
      /\ InEffect(said', Overridden(Current, k, given), Current.line)
  BY <1>1, <1>3, <1>4, <1>5, DirectiveInEffect
<1>7. StageOf(k) \in {"simple", "types"} /\ Current.stage # "blocks"
  BY <1>1 DEF Visits, StageOf, Stage
<1>8. /\ new.type = Current.type /\ new.settings = Overridden(Current, k, given)
      /\ new.was_set = Current.was_set \cup {k} /\ new.stage = StageOf(k) /\ new.line = Current.line
      /\ new \in Objects
  BY <1>3, <1>4, <1>6, <1>7 DEF Objects
<1>9. nested' = [nested EXCEPT ![n] = new]
  BY <1>1
<1> HIDE DEF n, new
<1>10. /\ nested' \in Seq(Objects) /\ Len(nested') = n /\ DOMAIN nested' = 1..n /\ nested'[n] = new
       /\ \A d \in 1..n - 1 : nested'[d] = nested[d]
  <2>1. nested \in Seq(Objects)
    BY DEF BlocksInv, Nested
  <2>2. /\ nested' \in Seq(Objects) /\ Len(nested') = n /\ DOMAIN nested' = 1..n
        /\ nested'[n] = new /\ \A i \in 1..n : i # n => nested'[i] = nested[i]
    <3>1. n \in 1..Len(nested)
      BY <1>3 DEF n
    <3> QED
      BY <1>8, <1>9, <2>1, <3>1, OneReplaced DEF n
  <2>3. \A d \in 1..n - 1 : d \in 1..n /\ d # n
    BY <1>3
  <2> QED
    BY <2>2, <2>3
<1>11. OpenSound(said', new, n)
  <2>1. Current.type # "location" => k \notin OfLocation
    BY <1>1 DEF Refused, Misplaced, Allowed, Shared, OfClientHeader, OfLocation
  <2>2. new.type # "location" => ~\E c \in On(new.line) : SaysIn(said', c, OnlyLocations)
    <3>1. ASSUME Current.type # "location", NEW f \in Gives(k, given) PROVE  f \notin OnlyLocations
      BY <2>1, <3>1, GivesOf
    <3>2. ASSUME Current.type # "location", NEW c \in On(Current.line), NEW f \in OnlyLocations
          PROVE  <<c, f>> \notin said'
      <4>1. <<c, f>> \notin said
        BY <1>4, <3>2 DEF SaysIn
      <4> QED
        BY <1>1, <3>1, <3>2, <4>1
    <3> QED
      BY <1>8, <3>2 DEF SaysIn
  <2>3. \A l \in Kinds : l \in new.was_set <=> <<new.line[n], l>> \in said'
    BY <1>1, <1>3, <1>4, <1>8, GivesOf
  <2> QED
    BY <1>4, <1>6, <1>8, <2>2, <2>3 DEF OpenSound
<1>12. ASSUME NEW d \in 1..n - 1
       PROVE  /\ OpenSound(said, nested[d], d) /\ nested[d].stage = "blocks" /\ Self \notin On(nested[d].line)
              /\ \A i \in 1..d : Current.line[i] = nested[d].line[i]
  <2>1. /\ OpenSound(said, nested[d], d) /\ nested[d].stage = "blocks"
        /\ \A i \in 1..d : Current.line[i] = nested[d].line[i]
    BY <1>3 DEF BlocksInv, Nested
  <2>2. DOMAIN nested[d].line = 1..d
    BY <2>1 DEF OpenSound, Outwards
  <2>3. ASSUME NEW i \in 1..d PROVE  Current.line[i] # Self
    <3>1. i \in DOMAIN Current.line /\ n \in DOMAIN Current.line /\ i < n
      BY <1>3
    <3>2. Current.line[i] < Current.line[n] /\ Current.line[i] \in Nat
      BY <1>4, <3>1 DEF Outwards
    <3> QED
      BY <1>3, <3>2
  <2> QED
    BY <2>1, <2>2, <2>3 DEF On
<1>13. ASSUME NEW d \in 1..n - 1 PROVE  OpenSound(said', nested'[d], d)
  <2>1. /\ OpenSound(said, nested[d], d) /\ Self \notin On(nested[d].line) /\ nested'[d] = nested[d]
    BY <1>10, <1>12
  <2>2. InEffect(said', nested[d].settings, nested[d].line)
    BY <1>1, <2>1, OthersHearNothing DEF OpenSound
  <2>3. nested[d].line[d] \in On(nested[d].line)
    BY <2>1 DEF OpenSound, Outwards, On
  <2>4. \A l \in Kinds : l \in nested[d].was_set <=> <<nested[d].line[d], l>> \in said'
    BY <1>1, <2>1, <2>3 DEF OpenSound
  <2>5. nested[d].type # "location" => ~\E c \in On(nested[d].line) : SaysIn(said', c, OnlyLocations)
    BY <1>1, <2>1 DEF OpenSound, SaysIn
  <2> QED
    BY <2>1, <2>2, <2>4, <2>5 DEF OpenSound
<1>14. Nested'
  <2>1. \A d \in DOMAIN nested' : OpenSound(said', nested'[d], d)
    BY <1>10, <1>11, <1>13, <1>3
  <2>2. ASSUME NEW d \in 1..n, NEW e \in 1..n, d < e
        PROVE  nested'[d].stage = "blocks" /\ \A i \in 1..d : nested'[e].line[i] = nested'[d].line[i]
    <3>1. d \in 1..n - 1 /\ nested'[d] = nested[d]
      BY <1>3, <1>10, <2>2
    <3>2. CASE e = n
      BY <1>8, <1>10, <1>12, <3>1, <3>2
    <3>3. CASE e # n
      <4>1. nested'[e] = nested[e] /\ d \in DOMAIN nested /\ e \in DOMAIN nested
        BY <1>3, <1>10, <3>3
      <4>2. nested[d].stage = "blocks" /\ \A i \in 1..d : nested[e].line[i] = nested[d].line[i]
        BY <2>2, <4>1 DEF BlocksInv, Nested
      <4> QED
        BY <3>1, <4>1, <4>2
    <3> QED
      BY <3>2, <3>3
  <2>3. nested' # <<>>
    BY <1>3, <1>10
  <2> QED
    BY <1>10, <2>1, <2>2, <2>3 DEF Nested
<1>15. ASSUME NEW b \in DOMAIN objects' PROVE  ReadSound(objects[b])'
  <2>1. ReadSound(objects[b]) /\ objects'[b] = objects[b]
    BY <1>2 DEF BlocksInv
  <2>2. Self \notin On(objects[b].line)
    BY <1>3, <1>7, <2>1 DEF ReadSound
  <2>3. InEffect(said', objects[b].settings, objects[b].line)
    BY <1>1, <2>1, <2>2, OthersHearNothing DEF ReadSound
  <2>4. ASSUME NEW d \in DOMAIN nested', nested'[d].stage # "blocks"
        PROVE  nested'[d].line[d] \notin On(objects[b].line)
    <3>1. d = n
      BY <1>3, <1>10, <1>12, <2>4
    <3> QED
      BY <1>3, <1>8, <1>10, <2>2, <3>1
  <2> QED
    BY <2>1, <2>3, <2>4 DEF ReadSound
<1>16. Numbered'
  <2>1. \A d \in DOMAIN nested : nested'[d].line[d] = nested[d].line[d]
    BY <1>3, <1>8, <1>10
  <2>2. {nested'[d].line[d] : d \in DOMAIN nested'} = {nested[d].line[d] : d \in DOMAIN nested}
    BY <1>3, <1>10, <2>1
  <2>3. PICK m \in Nat : /\ DOMAIN objects \cup {nested[d].line[d] : d \in DOMAIN nested} = 1..m
                         /\ \A b \in DOMAIN objects : On(objects[b].line) \subseteq 1..m
                         /\ said \subseteq (1..m) \X Fields
    BY DEF BlocksInv, Numbered
  <2>4. Self \in 1..m
    BY <1>3, <2>3
  <2>5. said' \subseteq (1..m) \X Fields
    BY <1>1, <2>3, <2>4, GivesOf
  <2> QED
    BY <1>2, <2>2, <2>3, <2>5 DEF Numbered
<1> QED
  BY <1>14, <1>15, <1>16 DEF BlocksInv

LEMMA OneAppended ==
    ASSUME NEW T, NEW s \in Seq(T), NEW x \in T
    PROVE  /\ Append(s, x) \in Seq(T) /\ Len(Append(s, x)) = Len(s) + 1
           /\ DOMAIN Append(s, x) = 1..Len(s) + 1
           /\ Append(s, x)[Len(s) + 1] = x /\ \A i \in 1..Len(s) : Append(s, x)[i] = s[i]
  OBVIOUS

LEMMA OpenBlockStep ==
    ASSUME BlocksInv, OpenBlock
    PROVE  BlocksInv'
<1> DEFINE n == Len(nested)
           outer == [Current EXCEPT !.stage = "blocks"]
           inner == Inner(Current)
           around == [nested EXCEPT ![n] = outer]
<1>1. /\ progress = "reading" /\ progress' = progress /\ objects' = objects /\ said' = said
      /\ nested' = Append(around, inner)
  BY DEF OpenBlock, Current
<1>2. /\ n \in Nat \ {0} /\ DOMAIN nested = 1..n
      /\ Current = nested[n] /\ OpenSound(said, Current, n)
      /\ Self = Current.line[n] /\ DOMAIN Current.line = 1..n
  BY <1>1, TopSound DEF BlocksInv
<1>3. /\ inner \in Objects /\ inner.line = Append(Current.line, Fresh)
      /\ inner.stage = "simple" /\ OpenSound(said, inner, n + 1)
  BY <1>1, InnerSound DEF BlocksInv
<1>4. Current \in Objects /\ Current.line \in Seq(Nat) /\ Len(Current.line) = n
  BY <1>2 DEF OpenSound, Objects
<1>5. /\ outer \in Objects /\ outer.stage = "blocks" /\ outer.line = Current.line
      /\ OpenSound(said, outer, n)
  <2>1. /\ outer \in Objects /\ outer.stage = "blocks" /\ outer.line = Current.line
        /\ outer.type = Current.type /\ outer.settings = Current.settings /\ outer.was_set = Current.was_set
    BY <1>4 DEF Objects
  <2> QED
    BY <1>2, <2>1 DEF OpenSound
<1>6. nested \in Seq(Objects)
  BY DEF BlocksInv, Nested
<1> HIDE DEF outer, inner
<1>7. /\ around \in Seq(Objects) /\ Len(around) = n /\ around[n] = outer
      /\ \A i \in 1..n : i # n => around[i] = nested[i]
  <2>1. n \in 1..Len(nested)
    BY <1>2
  <2> QED
    BY <1>5, <1>6, <2>1, OneReplaced
<1> HIDE DEF n, around
<1>8. /\ nested' \in Seq(Objects) /\ Len(nested') = n + 1 /\ DOMAIN nested' = 1..n + 1
      /\ nested'[n + 1] = inner /\ \A i \in 1..n : nested'[i] = around[i]
  BY <1>1, <1>3, <1>7, OneAppended
<1>9. nested'[n] = outer /\ \A i \in 1..n - 1 : nested'[i] = nested[i]
  <2>1. n \in 1..n /\ \A i \in 1..n - 1 : i \in 1..n /\ i # n
    BY <1>2
  <2> QED
    BY <1>7, <1>8, <2>1
<1>10. \A d \in 1..n : nested'[d].line = nested[d].line
  <2>1. \A d \in 1..n : d = n \/ d \in 1..n - 1
    BY <1>2
  <2> QED
    BY <1>2, <1>5, <1>9, <2>1
<1>11. PICK m \in Nat : /\ Known = 1..m /\ Fresh = m + 1
                        /\ \A b \in DOMAIN objects : On(objects[b].line) \subseteq 1..m
                        /\ said \subseteq (1..m) \X Fields
  BY FreshIsNext DEF BlocksInv
<1>12. /\ inner.line[n + 1] = Fresh
       /\ \A i \in 1..n : inner.line[i] = Current.line[i]
  BY <1>3, <1>4, <1>11, OnLonger
<1>13. Nested'
  <2>1. ASSUME NEW d \in DOMAIN nested' PROVE  OpenSound(said', nested'[d], d)
    <3>1. CASE d = n + 1
      BY <1>1, <1>3, <1>8, <3>1
    <3>2. CASE d = n
      BY <1>1, <1>5, <1>9, <3>2
    <3>3. CASE d \in 1..n - 1
      <4>1. d \in DOMAIN nested
        BY <1>2, <3>3
      <4> QED
        BY <1>1, <1>9, <3>3, <4>1 DEF BlocksInv, Nested
    <3> QED
      BY <1>2, <1>8, <3>1, <3>2, <3>3
  <2>2. ASSUME NEW d \in 1..n + 1, NEW e \in 1..n + 1, d < e
        PROVE  nested'[d].stage = "blocks" /\ \A i \in 1..d : nested'[e].line[i] = nested'[d].line[i]
    <3>1. d \in 1..n /\ d \in DOMAIN nested /\ nested'[d].line = nested[d].line
      BY <1>2, <1>10, <2>2
    <3>2. nested'[d].stage = "blocks"
      <4>1. CASE d = n
        BY <1>5, <1>9, <4>1
      <4>2. CASE d # n
        <5>1. d \in 1..n - 1 /\ n \in DOMAIN nested /\ d < n
          BY <1>2, <3>1, <4>2
        <5> QED
          BY <1>9, <5>1, <3>1 DEF BlocksInv, Nested
      <4> QED
        BY <4>1, <4>2
    <3>3. CASE e \in 1..n
      <4>1. e \in DOMAIN nested /\ nested'[e].line = nested[e].line
        BY <1>2, <1>10, <3>3
      <4> QED
        BY <2>2, <3>1, <3>2, <4>1 DEF BlocksInv, Nested
    <3>4. CASE e = n + 1
      <4>1. \A i \in 1..d : i \in 1..n
        BY <1>2, <3>1
      <4>2. \A i \in 1..d : nested'[e].line[i] = Current.line[i]
        BY <1>8, <1>12, <3>4, <4>1
      <4>3. \A i \in 1..d : Current.line[i] = nested[d].line[i]
        <5>1. CASE d = n
          BY <1>2, <5>1
        <5>2. CASE d # n
          <6>1. n \in DOMAIN nested /\ d < n
            BY <1>2, <3>1, <5>2
          <6> QED
            BY <1>2, <3>1, <6>1 DEF BlocksInv, Nested
        <5> QED
          BY <5>1, <5>2
      <4> QED
        BY <3>1, <3>2, <4>2, <4>3
    <3> QED
      BY <1>2, <2>2, <3>3, <3>4
  <2>3. nested' # <<>>
    BY <1>2, <1>8
  <2> QED
    BY <1>8, <2>1, <2>2, <2>3 DEF Nested
<1>14. ASSUME NEW b \in DOMAIN objects' PROVE  ReadSound(objects[b])'
  <2>1. ReadSound(objects[b]) /\ objects'[b] = objects[b] /\ b \in DOMAIN objects
    BY <1>1 DEF BlocksInv
  <2>2. ASSUME NEW d \in DOMAIN nested', nested'[d].stage # "blocks"
        PROVE  nested'[d].line[d] \notin On(objects[b].line)
    <3>1. CASE d = n + 1
      BY <1>8, <1>11, <1>12, <2>1, <3>1
    <3>2. CASE d = n
      BY <1>5, <1>9, <2>2, <3>2
    <3>3. CASE d \in 1..n - 1
      <4>1. n \in DOMAIN nested /\ d \in DOMAIN nested /\ d < n
        BY <1>2, <3>3
      <4> QED
        BY <1>9, <2>2, <3>3, <4>1 DEF BlocksInv, Nested
    <3> QED
      BY <1>2, <1>8, <3>1, <3>2, <3>3
  <2> QED
    BY <1>1, <2>1, <2>2 DEF ReadSound
<1>15. Numbered'
  <2>1. {nested'[d].line[d] : d \in 1..n + 1} = {nested[d].line[d] : d \in 1..n} \cup {Fresh}
    <3>1. \A d \in 1..n : nested'[d].line[d] = nested[d].line[d]
      BY <1>10
    <3>2. nested'[n + 1].line[n + 1] = Fresh
      BY <1>8, <1>12
    <3>3. 1..n + 1 = 1..n \cup {n + 1}
      BY <1>2
    <3> QED
      BY <3>1, <3>2, <3>3
  <2>2. DOMAIN objects' \cup {nested'[d].line[d] : d \in DOMAIN nested'} = 1..m + 1
    <3>1. DOMAIN objects' \cup {nested'[d].line[d] : d \in DOMAIN nested'} = Known \cup {Fresh}
      BY <1>1, <1>2, <1>8, <2>1 DEF Known
    <3>2. 1..m \cup {m + 1} = 1..m + 1
      OBVIOUS
    <3> QED
      BY <1>11, <3>1, <3>2
  <2>3. 1..m \subseteq 1..m + 1
    OBVIOUS
  <2>4. m + 1 \in Nat /\ said' \subseteq (1..m + 1) \X Fields
        /\ \A b \in DOMAIN objects' : On(objects'[b].line) \subseteq 1..m + 1
    BY <1>1, <1>11, <2>3
  <2> QED
    BY <2>2, <2>4 DEF Numbered
<1> QED
  BY <1>13, <1>14, <1>15 DEF BlocksInv

\* The stack without the block that was read: only blocks that have nothing more
\* to say are left.
LEMMA CloseNested ==
    ASSUME Nested, BlockEnds, progress' = "reading" => Len(nested) > 1
    PROVE  /\ Nested' /\ said' = said
           /\ \A d \in DOMAIN nested' : nested'[d].stage = "blocks"
           /\ {nested'[d].line[d] : d \in DOMAIN nested'} \cup {Self} =
                  {nested[d].line[d] : d \in DOMAIN nested}
<1> DEFINE n == Len(nested)
<1>1. progress = "reading" /\ nested' = SubSeq(nested, 1, n - 1) /\ said' = said
  BY DEF BlockEnds
<1>2. n \in Nat \ {0} /\ DOMAIN nested = 1..n /\ Self = nested[n].line[n]
  BY <1>1, TopSound
<1>3. nested \in Seq(Objects)
  BY DEF Nested
<1>4. /\ nested' \in Seq(Objects) /\ Len(nested') = n - 1
      /\ \A i \in 1..n - 1 : nested'[i] = nested[i]
  BY <1>1, <1>2, <1>3
<1> HIDE DEF n
<1>5. DOMAIN nested' = 1..n - 1
  BY <1>4
<1>6. \A d \in 1..n - 1 : d \in DOMAIN nested /\ n \in DOMAIN nested /\ d < n
  BY <1>2
<1>7. ASSUME NEW d \in 1..n - 1 PROVE  nested'[d].stage = "blocks" /\ OpenSound(said', nested'[d], d)
  BY <1>1, <1>4, <1>6 DEF Nested
<1>8. ASSUME NEW d \in 1..n - 1, NEW e \in 1..n - 1, d < e
      PROVE  \A i \in 1..d : nested'[e].line[i] = nested'[d].line[i]
  BY <1>4, <1>6, <1>8 DEF Nested
<1>9. progress' = "reading" => nested' # <<>>
  BY <1>2, <1>4 DEF n
<1>10. Nested'
  BY <1>4, <1>5, <1>7, <1>8, <1>9 DEF Nested
<1>11. 1..n = 1..n - 1 \cup {n}
  BY <1>2
<1>12. {nested'[d].line[d] : d \in DOMAIN nested'} = {nested[d].line[d] : d \in 1..n - 1}
  BY <1>4, <1>5
<1>13. {nested'[d].line[d] : d \in DOMAIN nested'} \cup {Self} = {nested[d].line[d] : d \in DOMAIN nested}
  BY <1>2, <1>11, <1>12
<1> QED
  BY <1>1, <1>5, <1>7, <1>10, <1>13

LEMMA CloseStep ==
    ASSUME BlocksInv, BlockEnds, progress' = "reading" => Len(nested) > 1,
           \/ objects' = With(objects, Self, Current)
           \/ objects' = With(With(objects, Self, Current), Fresh, Inner(Current))
    PROVE  BlocksInv'
<1> DEFINE n == Len(nested)
           read == {Self} \cup IF objects' = With(objects, Self, Current) THEN {} ELSE {Fresh}
<1>1. /\ Nested /\ Numbered /\ progress = "reading"
      /\ \A b \in DOMAIN objects : ReadSound(objects[b])
  BY DEF BlocksInv, BlockEnds
<1>2. /\ Nested' /\ said' = said
      /\ \A d \in DOMAIN nested' : nested'[d].stage = "blocks"
      /\ {nested'[d].line[d] : d \in DOMAIN nested'} \cup {Self} =
             {nested[d].line[d] : d \in DOMAIN nested}
  BY <1>1, CloseNested
<1>3. PICK m \in Nat : /\ Known = 1..m /\ Fresh = m + 1
                       /\ \A b \in DOMAIN objects : On(objects[b].line) \subseteq 1..m
                       /\ said \subseteq (1..m) \X Fields
  BY <1>1, FreshIsNext
<1>4. /\ n \in Nat \ {0} /\ DOMAIN nested = 1..n /\ Current = nested[n] /\ OpenSound(said, Current, n)
  BY <1>1, TopSound
<1>5. OpenSound(said, Inner(Current), n + 1) /\ Inner(Current).line = Append(Current.line, Fresh)
  BY <1>1, InnerSound
<1> HIDE DEF n
<1>6. /\ Current.line \in Seq(Nat) /\ InEffect(said, Current.settings, Current.line)
      /\ Inner(Current).line \in Seq(Nat) /\ InEffect(said, Inner(Current).settings, Inner(Current).line)
  BY <1>4, <1>5 DEF OpenSound, Outwards
<1>7. On(Current.line) \subseteq 1..m
  <2>1. n \in DOMAIN nested
    BY <1>4
  <2> QED
    BY <1>1, <1>3, <1>4, <2>1, LineKnown
<1>8. On(Inner(Current).line) = On(Current.line) \cup {Fresh}
  BY <1>3, <1>5, <1>6, OnLonger
<1>9. Self \in Known /\ DOMAIN objects \subseteq Known
  BY <1>2 DEF Known
<1>10. /\ DOMAIN objects' = DOMAIN objects \cup read
       /\ \A b \in DOMAIN objects' :
             \/ objects'[b] = Current
             \/ objects'[b] = Inner(Current) /\ Fresh \in read
             \/ b \in DOMAIN objects /\ objects'[b] = objects[b]
  <2> DEFINE f == With(objects, Self, Current)
             g == With(f, Fresh, Inner(Current))
  <2>1. /\ DOMAIN f = DOMAIN objects \cup {Self}
        /\ \A b \in DOMAIN f : f[b] = Current \/ (b \in DOMAIN objects /\ f[b] = objects[b])
    BY DEF With
  <2>2. /\ DOMAIN g = DOMAIN f \cup {Fresh}
        /\ \A b \in DOMAIN g : g[b] = Inner(Current) \/ (b \in DOMAIN f /\ g[b] = f[b])
    BY DEF With
  <2>3. \/ objects' = f /\ read = {Self}
        \/ objects' = g /\ read = {Self, Fresh}
    OBVIOUS
  <2> HIDE DEF f, g, read
  <2>4. CASE objects' = f /\ read = {Self}
    BY <2>1, <2>4
  <2>5. CASE objects' = g /\ read = {Self, Fresh}
    BY <2>1, <2>2, <2>5
  <2> QED
    BY <2>3, <2>4, <2>5
<1>11. ASSUME NEW b \in DOMAIN objects' PROVE  ReadSound(objects[b])'
  <2>1. objects'[b].line \in Seq(Nat) /\ InEffect(said, objects'[b].settings, objects'[b].line)
    BY <1>1, <1>6, <1>10 DEF ReadSound
  <2> QED
    BY <1>2, <2>1 DEF ReadSound
<1>12. Numbered'
  <2> DEFINE numbers == DOMAIN objects' \cup {nested'[d].line[d] : d \in DOMAIN nested'}
  <2>1. numbers = Known \cup read
    BY <1>2, <1>10 DEF Known
  <2>2. CASE Fresh \notin read
    <3>1. numbers = 1..m
      BY <1>3, <1>9, <2>1, <2>2
    <3>2. \A b \in DOMAIN objects' : On(objects'[b].line) \subseteq 1..m
      BY <1>3, <1>7, <1>10, <2>2
    <3> QED
      BY <1>2, <1>3, <3>1, <3>2 DEF Numbered
  <2>3. CASE Fresh \in read
    <3>1. 1..m \cup {m + 1} = 1..m + 1 /\ m + 1 \in Nat /\ 1..m \subseteq 1..m + 1
      OBVIOUS
    <3>2. numbers = 1..m + 1
      BY <1>3, <1>9, <2>1, <2>3, <3>1
    <3>3. \A b \in DOMAIN objects' : On(objects'[b].line) \subseteq 1..m + 1
      BY <1>3, <1>7, <1>8, <1>10, <3>1
    <3>4. said' \subseteq (1..m + 1) \X Fields
      BY <1>2, <1>3, <3>1
    <3> QED
      BY <3>1, <3>2, <3>3, <3>4 DEF Numbered
  <2> QED
    BY <2>2, <2>3
<1> QED
  BY <1>2, <1>11, <1>12 DEF BlocksInv

-----------------------------------------------------------------------------
(* What every block of every file is given                                    *)

LEMMA BlocksStepInv ==
    ASSUME BlocksInv, [BlocksNext]_blocksVars
    PROVE  BlocksInv'
<1>1. CASE Directive
  BY <1>1, DirectiveStep
<1>2. CASE RefuseDirective
  BY <1>2, RefuseDirectiveStep
<1>3. CASE OpenBlock
  BY <1>3, OpenBlockStep
<1>4. ASSUME Current.type # "http", progress = "reading" PROVE  Len(nested) > 1
  BY <1>4, TopSound DEF BlocksInv, OpenSound
<1>5. CASE LocationEnds
  BY <1>4, <1>5, CloseStep DEF LocationEnds, BlockEnds
<1>6. CASE ServerEnds
  BY <1>4, <1>6, CloseStep DEF ServerEnds, BlockEnds
<1>7. CASE HttpEnds
  BY <1>7, CloseStep DEF HttpEnds
<1>8. CASE UNCHANGED blocksVars
  <2>1. /\ progress' = progress /\ nested' = nested /\ objects' = objects /\ said' = said
    BY <1>8 DEF blocksVars
  <2>2. Nested' /\ Numbered' /\ \A b \in DOMAIN objects' : ReadSound(objects[b])'
    BY <2>1 DEF BlocksInv, Nested, Numbered, ReadSound
  <2> QED
    BY <2>2 DEF BlocksInv
<1> QED
  BY <1>1, <1>2, <1>3, <1>5, <1>6, <1>7, <1>8 DEF BlocksNext

\* In every object that was read the directives of the blocks around it are in
\* effect, each by its own rule, unless it says otherwise: what Server::from_http(),
\* Location::from_server() and the copy of a location take over, and what
\* from_directive() overrides. No block hears what one beside it says.
THEOREM BlocksInherit == BlocksSpec => []Inheritance
<1>1. BlocksInit => BlocksInv
  BY BlocksInitInv
<1>2. BlocksInv /\ [BlocksNext]_blocksVars => BlocksInv'
  BY BlocksStepInv
<1>3. ASSUME BlocksInv PROVE  Inheritance
  <2>1. \A b \in DOMAIN objects : InEffect(said, objects[b].settings, objects[b].line)
    BY <1>3 DEF BlocksInv, ReadSound
  <2>2. \A line, fields : Innermost(line, fields) = InnermostIn(said, line, fields)
    BY DEF Innermost, InnermostIn, On, Says, SaysIn
  <2>3. InnermostWins
    BY <2>1, <2>2 DEF InnermostWins, InEffect, OneWins
  <2>4. ParamsGather
    BY <2>1 DEF ParamsGather, InEffect, Gathered, On, Says, SaysIn
  <2>5. IndexDecided
    BY <2>1, <2>2 DEF IndexDecided, InEffect, Decided, Says, SaysIn
  <2> QED
    BY <2>3, <2>4, <2>5 DEF Inheritance
<1> QED
  BY <1>1, <1>2, <1>3, PTL DEF BlocksSpec

=============================================================================
