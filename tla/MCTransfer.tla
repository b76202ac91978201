------------------------------ MODULE MCTransfer ------------------------------
(* Requests for TLC, through a buffer of which five bytes can be used.          *)
EXTENDS Transfer

CONSTANTS c1, c2        \* the connections

MCFiles == {"f", "locked"}
Empty == ("locked" :> <<>>)
Holding == Empty @@ ("f" :> <<"1", CR, "2", "3", "4", "5">>)

Line(bytes) == bytes \o Blank
Get == Line(<<"get">>)
Host == Line(<<"host", ":", "a">>)      \* as long as a line can be
Length == Line(<<"len", ":", "3">>)

Request == [head |-> Get \o Host \o Blank, body |-> <<>>, length |-> 0, post |-> FALSE,
            version |-> "HTTP/1.1", route |-> "file", file |-> "f", page |-> "inline", output |-> <<>>]
Post == [Request EXCEPT !.head = Get \o Host \o Length \o Blank, !.post = TRUE,
                        !.route = "upload", !.length = 3, !.body = <<"b1", "b2", "b3">>]

\* Heads that are refused, or that fit just so.
Starts == {
    Line(<<"get", "x", "y">>), Line(<<"get", "x", "y", "z">>), Line(<<>>),
    Line(<<"get", "501">>), Line(<<"get", NUL>>) }
Fields == {
    <<>>, Host \o Host, Line(<<":", "a">>), Line(<<"junk">>) \o Host, Line(<<"host", ":">>),
    Line(<<"host", ":", "bad">>), Host \o Line(<<"x", ":", "y", "z">>),
    Host \o Line(<<"x", NUL>>), Host \o Line(<<"len", ":", "bad">>) \o Length,
    Length \o Line(<<"len", ":", "bad">>) \o Host }
Heads ==
    {[Request EXCEPT !.head = l \o Host \o Blank, !.page = p, !.output = <<LF, "o">>] :
        l \in Starts, p \in {"inline", "script"}}
    \cup {[Request EXCEPT !.head = Get \o l \o Blank, !.post = b, !.version = v] :
            l \in Fields, b \in BOOLEAN, v \in {"HTTP/1.0", "HTTP/1.1"}}
    \cup {[Request EXCEPT !.head = Get \o Host]}

\* Bodies that are longer or shorter than they say, or empty.
Bodies ==
    {[Post EXCEPT !.route = r, !.file = f, !.body = b, !.page = p,
                  !.output = <<"s", ":", LF, LF, "o">>] :
        r \in {"upload", "script", "large"}, f \in MCFiles, p \in {"inline", "script"},
        b \in {<<"b1", "b2", "b3">>, <<"b1">>, <<"b1", "b2", "b3", CR, LF, "b6", "b7", "b8", "b9">>}}
    \cup {[Post EXCEPT !.route = r, !.length = 0, !.output = <<LF, "o">>] :
            r \in {"upload", "script", "large"}}
    \cup {[Post EXCEPT !.route = "script", !.output = <<LF, LF, "o">>]}

\* What scripts write: heads of every kind and of the lengths that matter.
Outputs == {
    <<>>, <<"o1", "o2">>, <<LF>>, <<CR, LF, "o1", LF, "o2", "o3", "o4", "o5", "o6">>,
    <<"s", ":", LF, LF, "o1">>, <<"s", ":", CR, LF, LF, "o1">>, <<"s", LF, CR, LF, "o1">>,
    <<"status", ":", "404", LF, LF>>, <<"status", ":", "404", CR, LF, LF>>,
    <<"s", ":", "t", LF, LF, "o1">>, <<"s", LF, "t", LF, LF>>, <<"s", LF, LF>> }
Scripts ==
    {[Request EXCEPT !.route = "script", !.output = o, !.body = b] :
        o \in Outputs, b \in {<<>>, <<"b1", ":", LF, LF>>}}

Gets == {[Request EXCEPT !.file = f] : f \in MCFiles}
        \cup {[Request EXCEPT !.route = "listing", !.output = <<"o1", "o2", "o3", "o4", "o5">>]}

Alone == [disk : {Empty, Holding}, asked : {(c1 :> q) : q \in Heads \cup Bodies \cup Scripts \cup Gets}]

\* Two uploads of one file, or an upload and a download of it, at the same time.
Upload == [Post EXCEPT !.head = Get \o Length \o Host \o Blank]
Pairs == {
    [disk |-> Empty, asked |-> (c1 :> Upload) @@ (c2 :> [Post EXCEPT !.body = <<"d1", "d2", "d3">>])],
    [disk |-> Holding, asked |-> (c1 :> Upload) @@ (c2 :> Request)] }

MCWorlds == Alone \cup Pairs
=============================================================================
