--------------------------------- MODULE Blocks ---------------------------------
(* Reading the directives of http, server and location blocks into Http,      *)
(* Server and Location objects: what each block takes over from the block     *)
(* around it, what it overrides, and which directives are refused. What the   *)
(* directives say is abstracted to the block that said it.                    *)
EXTENDS Integers, Sequences, FiniteSets

CONSTANTS
    Words,          \* the directives that occur in the file
    MaxDirectives,  \* bound: directives in the file
    MaxBlocks       \* bound: blocks in the file

Shared == {"root", "client_body_buffer_size", "client_body_timeout",
           "client_max_body_size", "default_type", "index", "autoindex",
           "error_page", "upload_directory", "output_buffer", "types"}
OfClientHeader == {"client_header_buffer_size", "client_header_timeout"}
OfLocation == {"return", "cgi_pass", "cgi_param", "limit_except"}
Kinds == UNION {Shared, OfClientHeader, OfLocation}

\* What a directive may say besides, and leaves as it was when it does not: the
\* create_path of an upload directory, the code a redirection answers with.
Options(k) ==
    CASE k = "upload_directory" -> {"create_path"}
      [] k = "return" -> {"return_code"}
      [] OTHER -> {}
Fields == Kinds \cup UNION {Options(k) : k \in Kinds}

Types == {"http", "server", "location"}
Allowed(type) == Shared \cup IF type = "location" THEN OfLocation ELSE OfClientHeader

\* Directives a block may have more than once. The last one counts; for error_page
\* and cgi_param all of them do.
Repeatable == {"error_page", "upload_directory", "output_buffer", "types",
               "cgi_param", "limit_except"}

\* What is in effect when nothing is said: 0 stands for a built-in value, {} for
\* none.
Initially ==
    [f \in Fields |->
        IF f \in {"autoindex", "error_page", "cgi_pass", "cgi_param", "create_path",
                  "return", "return_code"}
        THEN {} ELSE {0}]

ASSUME BlocksAssumption ==
    /\ Words \subseteq Kinds
    /\ MaxDirectives \in Nat /\ MaxBlocks \in Nat \ {0}

VARIABLES
    progress,       \* "reading", "refused", "read"
    nested,         \* the blocks being read, the outermost first
    objects,        \* the blocks that were read, by number
    directives,     \* directives read
    said            \* history: which directives and options which block has said

blocksVars == <<progress, nested, objects, directives, said>>

\* An object and how far its from_directive() is: simple directives, then types,
\* then the blocks within. `was_set` are the directives met, `line` the numbers of
\* the blocks around it and its own.
New(type, settings, line) ==
    [type |-> type, settings |-> settings, was_set |-> {},
     stage |-> "simple", line |-> line]

Current == nested[Len(nested)]
Self == Current.line[Len(Current.line)]
Known == DOMAIN objects \cup {nested[d].line[d] : d \in DOMAIN nested}
Fresh == Cardinality(Known) + 1

-----------------------------------------------------------------------------
(* Inheritance                                                                *)

Copied(kinds, settings) ==
    [f \in Fields |-> IF f \in kinds \cup UNION {Options(k) : k \in kinds}
                      THEN settings[f] ELSE Initially[f]]

\* Server::from_http(), Location::from_server(), Location(const Location &)
FromHttp(s) == Copied(Shared \cup OfClientHeader, s)
FromServer(s) == Copied(Shared \cup OfClientHeader, s)
FromLocation(s) == s

\* The object a block within object o starts as.
Inner(o) ==
    CASE o.type = "http"     -> New("server", FromHttp(o.settings), Append(o.line, Fresh))
      [] o.type = "server"   -> New("location", FromServer(o.settings), Append(o.line, Fresh))
      [] o.type = "location" -> New("location", FromLocation(o.settings), Append(o.line, Fresh))

BlocksInit ==
    /\ progress = "reading"
    /\ nested = <<New("http", Initially, <<1>>)>>
    /\ objects = [b \in {} |-> New("http", Initially, <<1>>)]
    /\ directives = 0
    /\ said = {}

-----------------------------------------------------------------------------
(* Directives                                                                 *)

Stage == [simple |-> 1, types |-> 2, blocks |-> 3]
StageOf(k) == IF k = "types" THEN "types" ELSE "simple"

\* The next directive, in the order from_directive() visits them.
Visits(k) ==
    /\ progress = "reading"
    /\ directives < MaxDirectives
    /\ k \in Words
    /\ Stage[Current.stage] <= Stage[StageOf(k)]

Misplaced(k) == k \notin Allowed(Current.type)
Repeated(k) == k \in Current.was_set /\ k \notin Repeatable
Contradicts(k) == \E l \in Current.was_set : {k, l} = {"index", "autoindex"}

\* Before output_buffer the code looks for a default_type.
Refused(k) ==
    \/ Misplaced(k) \/ Repeated(k) \/ Contradicts(k)
    \/ k = "output_buffer" /\ "default_type" \in Current.was_set

\* What directive k gives, `given` telling whether autoindex is on and whether the
\* options of the directive are there. The first error_page of a block clears those
\* of the blocks around it.
Given(o, k, given) ==
    IF k = "cgi_param" \/ (k = "error_page" /\ k \in o.was_set)
    THEN o.settings[k] \cup {Self}
    ELSE IF k = "autoindex" /\ ~given THEN {} ELSE {Self}
Gives(k, given) == {k} \cup IF given THEN Options(k) ELSE {}

\* Mutant of Overridden: autoindex leaves the index alone.
OverriddenKeepsIndex(o, k, given) ==
    [f \in Fields |-> IF f \in Gives(k, given)
                      THEN IF f = k THEN Given(o, k, given) ELSE {Self}
                      ELSE o.settings[f]]

\* The settings with directive k. Nothing takes back an option.
Overridden(o, k, given) ==
    [f \in Fields |-> IF f \in Gives(k, given)
                      THEN IF f = k THEN Given(o, k, given) ELSE {Self}
                      ELSE IF k = "autoindex" /\ f = "index" THEN {}
                      ELSE o.settings[f]]

Directive ==
    /\ \E k \in Kinds, given \in BOOLEAN :
          /\ Visits(k) /\ ~Refused(k)
          /\ nested' = [nested EXCEPT ![Len(nested)] =
                         [Current EXCEPT !.settings = Overridden(Current, k, given),
                                     !.was_set = @ \cup {k},
                                     !.stage = StageOf(k)]]
          /\ said' = said \cup {<<Self, f>> : f \in Gives(k, given)}
    /\ directives' = directives + 1
    /\ UNCHANGED <<progress, objects>>

\* The exception ends the program.
RefuseDirective ==
    /\ \E k \in Kinds : Visits(k) /\ Refused(k)
    /\ progress' = "refused"
    /\ UNCHANGED <<nested, objects, directives, said>>

-----------------------------------------------------------------------------
(* Blocks                                                                     *)

OpenBlock ==
    /\ progress = "reading"
    /\ Cardinality(Known) < MaxBlocks
    /\ nested' = Append([nested EXCEPT ![Len(nested)].stage = "blocks"], Inner(Current))
    /\ UNCHANGED <<progress, objects, directives, said>>

With(f, b, o) == [c \in DOMAIN f \cup {b} |-> IF c = b THEN o ELSE f[c]]

BlockEnds ==
    /\ progress = "reading"
    /\ nested' = SubSeq(nested, 1, Len(nested) - 1)
    /\ UNCHANGED <<directives, said>>

LocationEnds ==
    /\ BlockEnds
    /\ Current.type = "location"
    /\ objects' = With(objects, Self, Current)
    /\ UNCHANGED progress

\* A server is given a location for "/" unless one of its locations is for that.
ServerEnds ==
    /\ BlockEnds
    /\ Current.type = "server"
    /\ \/ Current.stage = "blocks" /\ objects' = With(objects, Self, Current)
       \/ objects' = With(With(objects, Self, Current), Fresh, Inner(Current))
    /\ UNCHANGED progress

\* http is given a server if it has none.
HttpEnds ==
    /\ BlockEnds
    /\ Current.type = "http"
    /\ objects' = IF Current.stage = "blocks" THEN With(objects, Self, Current)
                  ELSE With(With(objects, Self, Current), Fresh, Inner(Current))
    /\ progress' = "read"

BlocksNext ==
    \/ Directive \/ RefuseDirective
    \/ OpenBlock \/ LocationEnds \/ ServerEnds \/ HttpEnds
BlocksSpec == BlocksInit /\ [][BlocksNext]_blocksVars

-----------------------------------------------------------------------------
(* Properties                                                                 *)

Says(b, fields) == \E f \in fields : <<b, f>> \in said

\* Where on a line of blocks one of these is said innermost.
Innermost(line, fields) ==
    {b \in {line[d] : d \in DOMAIN line} :
        /\ Says(b, fields)
        /\ \A c \in {line[d] : d \in DOMAIN line} : Says(c, fields) => c <= b}

\* In every block a directive has the value that the innermost block around it,
\* or it itself, gives it, or else the built-in one; wherever in the block the
\* directive stands, and whatever other blocks say. An option has the value of the
\* innermost block that gives the option, which need not be the one whose directive
\* counts.
InnermostWins ==
    \A b \in DOMAIN objects : \A f \in Fields \ {"index", "autoindex", "cgi_param"} :
        LET o == objects[b]
            at == Innermost(o.line, {f})
        IN o.settings[f] = IF at = {} THEN Initially[f] ELSE at

\* The parameters of scripts gather from all the locations around.
ParamsGather ==
    \A b \in DOMAIN objects :
        objects[b].settings["cgi_param"] =
            {c \in {objects[b].line[d] : d \in DOMAIN objects[b].line} : Says(c, {"cgi_param"})}

\* Whether a directory has an index or may have a listing is decided by the
\* innermost of the two directives.
IndexDecided ==
    \A b \in DOMAIN objects :
        LET o == objects[b]
            at == Innermost(o.line, {"index", "autoindex"})
        IN IF at = {} THEN o.settings["index"] = {0} /\ o.settings["autoindex"] = {}
           ELSE \A c \in at :
                   IF Says(c, {"index"}) THEN o.settings["index"] = {c}
                   ELSE o.settings["index"] = {} /\ o.settings["autoindex"] \subseteq {c}

\* What a block says reaches all the blocks in it that do not say otherwise, by
\* each directive's own rule, and no block beside it.
Inheritance == InnermostWins /\ ParamsGather /\ IndexDecided

\* "If the optinal `response` parameter is given the default response code [...] is
\* overwritten with the given response code" (CONFIGURATION.md:187): a `return`
\* without one answers with the default.
ReturnDefaults ==
    \A b \in DOMAIN objects :
        objects[b].settings["return_code"] \subseteq objects[b].settings["return"]

=============================================================================
