------------------------------- MODULE Locations -------------------------------
(* The tree of locations of a server, as Server::from_directive() and         *)
(* Location::from_directive() build it, and the search of get_location() for  *)
(* the one that serves a path. Paths are sequences of parts of names.         *)
EXTENDS Integers, Sequences

CONSTANTS
    Params,         \* the parameters of location directives
    Uris,           \* the paths of requests
    Root,           \* "/"
    MaxLocations,   \* bound: location directives in the file
    MaxDepth        \* bound: how deep they are nested

\* The lexer makes no empty token.
ASSUME LocationsAssumption ==
    /\ Params \cup {Root} \subseteq Seq(STRING) \ {<<>>}
    /\ Uris \subseteq Seq(STRING)
    /\ MaxLocations \in Nat /\ MaxDepth \in Nat

IsPrefixOf(p, u) == Len(p) <= Len(u) /\ SubSeq(u, 1, Len(p)) = p
IsSuffixOf(p, u) == Len(p) <= Len(u) /\ SubSeq(u, Len(u) - Len(p) + 1, Len(u)) = p

VARIABLES
    pc,         \* "building", "refused", "ready", "search", "answered"
    open,       \* the blocks being read, the server first
    count,      \* location directives read
    uri,        \* the path looked for
    at,         \* the server or location whose get_location() runs
    it,          \* its iterator
    best,       \* its longest_prefix
    result      \* what it returns

building == <<open, count>>
search == <<uri, at, it, best, result>>
locationVars == <<pc, building, search>>

\* A Server or Location. How many of its locations it has from the copy of its
\* parent it was made from is not in the code.
Block(path, isPrefix, under) ==
    [path |-> path, is_prefix |-> isPrefix, under |-> under, copied |-> Len(under)]
Server == Block(<<>>, TRUE, <<>>)
Nothing == Block(<<>>, FALSE, <<>>)

Top == open[Len(open)]

LocationsInit ==
    /\ pc = "building"
    /\ open = <<Server>>
    /\ count = 0
    /\ uri = <<>>
    /\ at = Server
    /\ it = 1
    /\ best = Nothing
    /\ result = Nothing

-----------------------------------------------------------------------------
(* Building                                                                   *)

\* Mutant of Made: the path of the parent is not put before that of the location.
MadeAlone(parent, ext, param) ==
    Block(param, parent.is_prefix /\ ~ext,
          IF Len(open) = 1 THEN <<>> ELSE parent.under)

\* A location in `parent`, with or without the "\": made from the server, or as
\* a copy of the location around it with all that was put there before.
Made(parent, ext, param) ==
    Block(IF parent.is_prefix /\ ~ext THEN parent.path \o param ELSE param,
          parent.is_prefix /\ ~ext,
          IF Len(open) = 1 THEN <<>> ELSE parent.under)

OpenLocation ==
    /\ pc = "building"
    /\ count < MaxLocations /\ Len(open) <= MaxDepth
    /\ \E ext \in BOOLEAN, param \in Params :
          open' = Append(open, Made(Top, ext, param))
    /\ count' = count + 1
    /\ UNCHANGED <<pc, search>>

Parent == open[Len(open) - 1]
Taken == \E k \in DOMAIN Parent.under : Parent.under[k].path = Top.path

CloseLocation ==
    /\ pc = "building" /\ Len(open) > 1 /\ ~Taken
    /\ open' = [SubSeq(open, 1, Len(open) - 1) EXCEPT
                   ![Len(open) - 1].under = Append(@, Top)]
    /\ UNCHANGED <<pc, count, search>>

\* Two locations with the same path.
RefuseLocation ==
    /\ pc = "building" /\ Len(open) > 1 /\ Taken
    /\ pc' = "refused"
    /\ UNCHANGED <<building, search>>

HasRoot == \E k \in DOMAIN Top.under : Top.under[k].path = Root

\* A server without a location for "/" is given one.
CloseServer ==
    /\ pc = "building" /\ Len(open) = 1
    /\ open' = IF HasRoot THEN open
               ELSE [open EXCEPT ![1].under = Append(@, Block(Root, TRUE, <<>>))]
    /\ pc' = "ready"
    /\ UNCHANGED <<count, search>>

-----------------------------------------------------------------------------
(* Searching                                                                  *)

Ask ==
    /\ pc = "ready"
    /\ uri' \in Uris
    /\ at' = open[1]
    /\ it' = 1
    /\ best' = Nothing
    /\ pc' = "search"
    /\ UNCHANGED <<building, result>>

Seen == at.under[it]
Searching == pc = "search" /\ it <= Len(at.under) /\ UNCHANGED <<building, uri, at>>

Better ==
    /\ Seen.is_prefix
    /\ IsPrefixOf(Seen.path, uri)
    /\ best = Nothing \/ Len(Seen.path) > Len(best.path)

Keep ==
    /\ Searching
    /\ Better
    /\ best' = Seen
    /\ it' = it + 1
    /\ UNCHANGED <<pc, result>>

\* Mutant of MatchEnd: a prefix found before takes precedence.
MatchEndAfterPrefix ==
    /\ Searching
    /\ ~Better /\ IsSuffixOf(Seen.path, uri)
    /\ result' = IF best = Nothing THEN Seen ELSE best
    /\ pc' = "answered"
    /\ UNCHANGED <<it, best>>

\* What the path ends in is taken at once. The code compares regular locations
\* like this, too.
MatchEnd ==
    /\ Searching
    /\ ~Better /\ IsSuffixOf(Seen.path, uri)
    /\ result' = Seen
    /\ pc' = "answered"
    /\ UNCHANGED <<it, best>>

Skip ==
    /\ Searching
    /\ ~Better /\ ~IsSuffixOf(Seen.path, uri)
    /\ it' = it + 1
    /\ UNCHANGED <<pc, best, result>>

Descend ==
    /\ pc = "search" /\ it > Len(at.under) /\ best # Nothing
    /\ at' = best
    /\ it' = 1
    /\ best' = Nothing
    /\ UNCHANGED <<pc, building, uri, result>>

\* Nothing better: the location itself, or the first one of the server.
Settle ==
    /\ pc = "search" /\ it > Len(at.under) /\ best = Nothing
    /\ result' = IF at = open[1] THEN at.under[1] ELSE at
    /\ pc' = "answered"
    /\ UNCHANGED <<building, uri, at, it, best>>

LocationsNext ==
    \/ OpenLocation \/ CloseLocation \/ RefuseLocation \/ CloseServer
    \/ Ask \/ Keep \/ MatchEnd \/ Skip \/ Descend \/ Settle
LocationsSpec == LocationsInit /\ [][LocationsNext]_locationVars

-----------------------------------------------------------------------------
(* Properties                                                                 *)

PrefixFits(l) == l.is_prefix /\ IsPrefixOf(l.path, uri)
EndFits(l) == ~l.is_prefix /\ IsSuffixOf(l.path, uri)
Matches(l) == IsSuffixOf(l.path, uri) \/ PrefixFits(l)

\* The locations of the server itself.
OfServer == {open[1].under[k] : k \in DOMAIN open[1].under}

RootIsRegular == \A l \in OfServer : l.path = Root => l.is_prefix

\* What serves a path is a location the path begins or ends with, if "/" is not
\* declared as an extension.
AnswerMatches ==
    pc = "answered" /\ IsPrefixOf(Root, uri) /\ RootIsRegular => Matches(result)

\* The path ends in a regular location of the server, and is more than it. The
\* code takes it for an extension.
EndsInRegular ==
    \E l \in OfServer : l.is_prefix /\ l.path # uri /\ IsSuffixOf(l.path, uri)

\* When an extension location of the server fits, one of those that fit is taken.
ExtensionsFirst ==
    pc = "answered" /\ ~EndsInRegular /\ (\E l \in OfServer : EndFits(l)) =>
        result \in OfServer /\ EndFits(result)

\* Otherwise the search ends in the longest of the server's locations that the
\* path begins with or in a longer one within it, and what serves the path is that
\* location, or one directly in it that the path ends in.
LongestOtherwise ==
    pc = "answered" /\ ~EndsInRegular /\ (\E l \in OfServer : PrefixFits(l)) =>
        \/ \E l \in OfServer : EndFits(l)
        \/ /\ PrefixFits(at)
           /\ \A l \in OfServer : PrefixFits(l) => Len(l.path) <= Len(at.path)
           /\ \/ result = at
              \/ /\ \E k \in DOMAIN at.under : result = at.under[k]
                 /\ IsSuffixOf(result.path, uri)

\* What serves a path is a location it begins or ends with; and unless the path
\* ends in a regular location of the server, it is an extension of the server's
\* when one fits, or else found in the longest location that the path begins with,
\* whatever the order and the nesting of the locations.
AnswerIsBest == AnswerMatches /\ ExtensionsFirst /\ LongestOtherwise

\* "Normally locations are resolved by looking for the longest match in the request
\* uri against the available locations uris" (CONFIGURATION.md): a regular location
\* serves what begins with it, and there is no longer one.
LongestMatch ==
    pc = "answered" /\ result.is_prefix =>
        \A l \in OfServer : PrefixFits(l) =>
            PrefixFits(result) /\ Len(l.path) <= Len(result.path)

\* The resolver "will look through a list of the extension matching locations during
\* request resolution and pick the longest matching one" (CONFIGURATION.md).
LongestExtension ==
    pc = "answered" /\ EndFits(result) =>
        \A l \in OfServer : EndFits(l) => Len(l.path) <= Len(result.path)

\* The search only goes on to a better match. In a location that began as a copy
\* of others it may not.
Narrows ==
    [][at' # at /\ pc = "search" /\ at.copied = 0 => Len(at'.path) > Len(at.path)]_locationVars

\* The lookup "is repeated with an updated set of locations until there is no better
\* match than the current location" (CONFIGURATION.md), wherever it is.
OnlyToBetter ==
    [][at' # at /\ pc = "search" => Len(at'.path) > Len(at.path)]_locationVars

=============================================================================
