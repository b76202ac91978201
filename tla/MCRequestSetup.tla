---------------------------- MODULE MCRequestSetup ----------------------------
(* A site for TLC: "/" with an index, a file and a page for errors that has a *)
(* location of its own. Each run picks the configurations it asks about.      *)
EXTENDS RequestSetup

MCResources == {"top", "doc", "index", "error"}
MCLocs == {"main", "extra"}
MCServes == [r \in MCResources |-> IF r = "error" THEN "extra" ELSE "main"]

\* The index of "/" may be a directory with an index of its own.
MCIndexOf == [r \in MCResources |-> IF r = "top" THEN "doc" ELSE "index"]

Codes == {400, 404, 405, 408, 413, 500}
NoPages == [s \in {} |-> NoReturn]
Page(here, code, res) == [internal |-> here, code |-> code, page |-> res]
OwnPages == [s \in Codes |-> Page(TRUE, s, "error")]
LoopingPages == [s \in Codes |-> Page(TRUE, s, "doc")]
PagesAs200 == [s \in {404} |-> Page(TRUE, 200, "error")]
PagesElsewhere == [s \in Codes |-> Page(FALSE, 302, "error")]

Location(a, r, i, l, c, p) ==
    [allowed |-> a, return |-> r, index |-> i,
     autoindex |-> l, cgi |-> c, pages |-> p]

Sites(main, extra) == {[main |-> m, extra |-> e] : m \in main, e \in extra}

Mains(indexing, pages) ==
    {Location(a, NoReturn, i[1], i[2], c, p) :
        a \in {Methods, {"GET"}, {"POST"}}, i \in indexing, c \in BOOLEAN, p \in pages}
    \cup {Location(Methods, 0, TRUE, FALSE, c, OwnPages) : c \in BOOLEAN}
Extras ==
    {Location(a, NoReturn, TRUE, FALSE, c, OwnPages) :
        a \in {Methods, {"POST"}}, c \in BOOLEAN}
    \cup {Location(Methods, 301, TRUE, FALSE, FALSE, NoPages)}

Indexed == <<TRUE, FALSE>>
Listed == <<FALSE, TRUE>>
Neither == <<FALSE, FALSE>>

AllSites == Sites(Mains({Indexed, Listed, Neither}, {NoPages, OwnPages})
                  \cup Mains({Indexed}, {LoopingPages, PagesAs200, PagesElsewhere}), Extras)
UnlistedSites == Sites({Location(Methods, NoReturn, FALSE, FALSE, FALSE, NoPages)},
                       {Location(Methods, NoReturn, FALSE, FALSE, FALSE, NoPages)})
\* A site that is only posted to.
PostSites == Sites({Location({"POST"}, NoReturn, TRUE, FALSE, FALSE, NoPages)},
                   {Location({"POST"}, NoReturn, TRUE, FALSE, FALSE, NoPages)})
AllDisks == {[top |-> "dir", doc |-> d, index |-> "file", error |-> e] :
                d \in {"file", "dir", "none"}, e \in {"file", "none"}}

=============================================================================
