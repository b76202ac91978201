----------------------------- MODULE RequestSetup -----------------------------
(* ClientConnection::handle_setup(): from a request, or from the error that   *)
(* ended it, to the file, script, upload, listing or page that answers it. A  *)
(* path is a resource with or without a trailing slash; what the locations    *)
(* say and what is on the disk is chosen in the initial state and fixed.      *)
EXTENDS Integers, FiniteSets

CONSTANTS
    Resources,      \* what paths name
    Top,            \* the resource of "/"
    Locs,           \* the locations of the server
    Serves,         \* Server::get_location(), of a resource
    IndexOf,        \* the resource that `index` names in a directory
    Confs,          \* what the locations may say: functions on Locs
    Disks,          \* what the disk may hold: functions on Resources
    RedirectLimit   \* REDIRECT_LIMIT

Methods == {"GET", "POST", "DELETE"}
Kinds == {"file", "dir", "none"}
Paths == [res : Resources, slash : BOOLEAN]

\* An errorpageinfo. The code -1 stands for `error_page ... = page`.
Pages == [internal : BOOLEAN, code : Int, page : Resources]

\* The part of a Location that handle_setup() reads. `return` is the status of
\* the directive, 0 when it names none, NoReturn when there is no directive.
NoReturn == -1
IsLocation(l) ==
    /\ DOMAIN l = {"allowed", "return", "index", "autoindex", "cgi", "pages"}
    /\ l.allowed \subseteq Methods
    /\ l.return \in Int
    /\ {l.index, l.autoindex, l.cgi} \subseteq BOOLEAN
    /\ DOMAIN l.pages \subseteq Int
    /\ \A code \in DOMAIN l.pages : l.pages[code] \in Pages

NoLoc == "none"

ASSUME SetupAssumption ==
    /\ Top \in Resources
    /\ NoLoc \notin Locs
    /\ Serves \in [Resources -> Locs]
    /\ IndexOf \in [Resources -> Resources]
    /\ \A c \in Confs : DOMAIN c = Locs /\ \A l \in Locs : IsLocation(c[l])
    /\ Disks \subseteq [Resources -> Kinds]
    /\ RedirectLimit \in Nat

VARIABLES
    conf,       \* what the locations say
    disk,       \* what stat() finds
    asked,      \* the method of the client
    wanted,     \* the resource of the client
    entry,      \* the status the call starts with: 0, or that of an error
    tooLarge,   \* content_length > max_size
    pc,         \* where in handle_setup()
    method, status, path, internal, noFile,     \* fields of _req
    loc,        \* _loc
    denied,     \* _denied_loc
    redirects,
    answer,     \* what answers the client
    touched     \* what the call did to the disk: <<verb, resource>>

given == <<conf, disk, asked, wanted, entry, tooLarge>>
target == <<method, status, path, internal, noFile, loc>>
vars == <<given, pc, target, denied, redirects, answer, touched>>

Answers == {"none", "stored", "listing", "script", "file", "page", "bare", "internal"}

SetupTypeOK ==
    /\ conf \in Confs
    /\ disk \in Disks
    /\ {asked, method} \subseteq Methods
    /\ wanted \in Resources
    /\ {entry, status} \subseteq Int
    /\ {tooLarge, internal, noFile} \subseteq BOOLEAN
    /\ pc \in {"start", "method", "post", "loop", "delete", "cgi", "drain", "respond", "done"}
    /\ path \in Paths
    /\ loc \in Locs \cup {NoLoc}
    /\ pc # "start" => loc \in Locs
    /\ denied \in Locs \cup {NoLoc}
    /\ redirects \in Nat
    /\ answer \in Answers
    /\ touched \subseteq {"stored", "deleted", "drained"} \X Resources

\* Errors the parser leaves, and the 408 of handle_timeout(). The path of a
\* parsed request is normalized: only "/" ends in a slash.
SetupInit ==
    /\ conf \in Confs
    /\ disk \in Disks
    /\ disk[Top] = "dir"
    /\ asked \in Methods
    /\ entry \in {0, 400, 408}
    /\ tooLarge \in BOOLEAN
    /\ tooLarge => asked = "POST"
    /\ wanted \in Resources
    /\ path = [res |-> wanted, slash |-> wanted = Top]
    /\ pc = "start"
    /\ method = asked
    /\ status = entry
    /\ internal = TRUE
    /\ noFile = FALSE
    /\ loc = NoLoc
    /\ denied = NoLoc
    /\ redirects = 0
    /\ answer = "none"
    /\ touched = {}

-----------------------------------------------------------------------------
\* Mutant of PageStatus: the status is that of the page.
PageStatusOfFile(s, info) == 200

\* The status that goes with the page of status s.
PageStatus(s, info) == IF info.code # 0 THEN info.code ELSE s

\* What location `from` has for status s: a page here, one elsewhere, or none.
LookUpPage(s, from) ==
    LET pages == conf[from].pages
    IN IF s \in DOMAIN pages
       THEN /\ status' = PageStatus(s, pages[s])
            /\ path' = [res |-> pages[s].page, slash |-> FALSE]
            /\ internal' = pages[s].internal
            /\ noFile' = ~pages[s].internal
            /\ loc' = IF pages[s].internal THEN Serves[pages[s].page] ELSE from
       ELSE /\ status' = s
            /\ noFile' = TRUE
            /\ loc' = from
            /\ UNCHANGED <<path, internal>>

\* The answer becomes the page for status s, which is fetched like by a GET.
EpiRedirect(s, from) == LookUpPage(s, from) /\ method' = "GET"

MethodAllowed == method \in conf[loc].allowed

\* stat() of the path: a slash after a regular file is an error.
FileExists(p) == disk[p.res] = "dir" \/ (disk[p.res] = "file" /\ ~p.slash)

At(here, next) ==
    /\ pc = here
    /\ pc' = next
    /\ UNCHANGED given

Untouched == UNCHANGED <<answer, touched>>

Redirect(s) == EpiRedirect(s, loc) /\ redirects' = redirects + 1

-----------------------------------------------------------------------------
\* An error looks for its page in the location of "/", a request in its own.
Begin ==
    /\ At("start", "method")
    /\ \/ /\ status # 0
          /\ EpiRedirect(status, Serves[Top])
          /\ redirects' = redirects + 1
       \/ /\ status = 0
          /\ status' = IF method = "POST" THEN 201 ELSE 200
          /\ loc' = Serves[path.res]
          /\ UNCHANGED <<method, path, internal, noFile, redirects>>
    /\ Untouched /\ UNCHANGED denied

\* Mutant of Refuse: the location is recorded after the redirection.
RefuseRecordsLate ==
    /\ ~MethodAllowed
    /\ Redirect(405)
    /\ denied' = loc'

\* The method is refused; Allow is to list what this location allows.
Refuse ==
    /\ ~MethodAllowed
    /\ Redirect(405)
    /\ denied' = loc

CheckMethod ==
    /\ At("method", "post")
    /\ \/ Refuse
       \/ MethodAllowed /\ UNCHANGED <<target, denied, redirects>>
    /\ Untouched

\* setup_post() opens the file of the upload, in a directory of its own: 201 when
\* it is new, 204 when it replaces one. The body follows.
StoreUpload ==
    /\ At("post", "done")
    /\ method = "POST" /\ ~tooLarge /\ ~conf[loc].cgi /\ ~path.slash
    /\ status' \in {201, 204}
    /\ answer' = "stored"
    /\ touched' = touched \cup {<<"stored", path.res>>}
    /\ UNCHANGED <<method, path, internal, noFile, loc, denied, redirects>>

\* A POST that is too large or cannot be stored has become the GET of a page;
\* one for a script goes on.
RoutePost ==
    /\ At("post", "loop")
    /\ \/ method # "POST" /\ UNCHANGED <<target, redirects>>
       \/ method = "POST" /\ tooLarge /\ Redirect(413)
       \/ /\ method = "POST" /\ ~tooLarge
          /\ IF conf[loc].cgi THEN UNCHANGED <<target, redirects>>
             ELSE Redirect(IF path.slash THEN 400 ELSE 500)
    /\ Untouched /\ UNCHANGED denied

-----------------------------------------------------------------------------
(* The loop: one action per branch. Every branch is a step of its own.        *)

Round ==
    /\ At("loop", "loop")
    /\ ~noFile /\ internal /\ redirects < RedirectLimit
    /\ UNCHANGED touched

\* `return` answers with a redirection that the client follows.
FollowReturn ==
    /\ Round
    /\ conf[loc].return # NoReturn
    /\ status' = IF conf[loc].return # 0 THEN conf[loc].return ELSE 302
    /\ noFile' = TRUE
    /\ internal' = FALSE
    /\ redirects' = redirects + 1
    /\ UNCHANGED <<method, path, loc, denied, answer>>

RefuseAgain ==
    /\ Round
    /\ conf[loc].return = NoReturn
    /\ Refuse
    /\ UNCHANGED answer

Reachable == conf[loc].return = NoReturn /\ MethodAllowed

\* Mutant of Missing: looking for the page of a 404 is not counted.
MissingUncounted ==
    /\ Round
    /\ Reachable /\ ~FileExists(path)
    /\ EpiRedirect(404, loc)
    /\ UNCHANGED <<redirects, denied, answer>>

Missing ==
    /\ Round
    /\ Reachable /\ ~FileExists(path)
    /\ Redirect(404)
    /\ UNCHANGED <<denied, answer>>

\* The index is served by the location of its directory.
AppendIndex ==
    /\ Round
    /\ Reachable /\ FileExists(path) /\ path.slash
    /\ conf[loc].index
    /\ path' = [res |-> IndexOf[path.res], slash |-> FALSE]
    /\ redirects' = redirects + 1
    /\ UNCHANGED <<method, status, internal, noFile, loc, denied, answer>>

Unindexed == Reachable /\ FileExists(path) /\ path.slash /\ ~conf[loc].index

\* setup_autoindex() writes the listing and ends the call.
ListDirectory ==
    /\ At("loop", "done")
    /\ ~noFile /\ internal /\ redirects < RedirectLimit
    /\ Unindexed /\ conf[loc].autoindex
    /\ answer' = "listing"
    /\ UNCHANGED <<target, denied, redirects, touched>>

\* The directory cannot be read, or the listing not written.
ListingFails ==
    /\ Round
    /\ Unindexed /\ conf[loc].autoindex
    /\ Redirect(500)
    /\ UNCHANGED <<denied, answer>>

\* With neither an index nor a listing no branch is taken.
NoBranch ==
    /\ Round
    /\ Unindexed /\ ~conf[loc].autoindex
    /\ UNCHANGED <<target, denied, redirects, answer>>

AppendSlash ==
    /\ Round
    /\ Reachable /\ disk[path.res] = "dir" /\ ~path.slash
    /\ path' = [path EXCEPT !.slash = TRUE]
    /\ UNCHANGED <<method, status, internal, noFile, loc, denied, redirects, answer>>

\* The loop breaks on a file that may be answered with.
Found ==
    /\ At("loop", "delete")
    /\ ~noFile /\ internal /\ redirects < RedirectLimit
    /\ Reachable /\ disk[path.res] = "file" /\ ~path.slash
    /\ UNCHANGED <<target, denied, redirects>> /\ Untouched

\* Without a file to look for, or at the limit, the loop ends; at the limit
\* there is one last redirection, whose target is not looked at.
LeaveLoop ==
    /\ At("loop", "delete")
    /\ \/ (noFile \/ ~internal) /\ UNCHANGED target
       \/ ~noFile /\ internal /\ redirects >= RedirectLimit /\ EpiRedirect(500, loc)
    /\ Untouched /\ UNCHANGED <<denied, redirects>>

-----------------------------------------------------------------------------
\* Mutant of Delete: an error page is deleted like what was asked for.
DeleteWhatAnswers ==
    /\ At("delete", "cgi")
    /\ asked = "DELETE" /\ internal /\ ~noFile
    /\ status' = 204
    /\ noFile' = TRUE
    /\ touched' = touched \cup {<<"deleted", path.res>>}
    /\ UNCHANGED <<method, path, internal, loc, denied, redirects, answer>>

Deletes == method = "DELETE" /\ internal /\ ~noFile /\ status = 200

\* remove() of what a DELETE found, or its failure.
Delete ==
    /\ At("delete", "cgi")
    /\ Deletes
    /\ \/ /\ status' = 204
          /\ noFile' = TRUE
          /\ touched' = touched \cup {<<"deleted", path.res>>}
          /\ UNCHANGED <<method, path, internal, loc>>
       \/ EpiRedirect(500, loc) /\ UNCHANGED touched
    /\ UNCHANGED <<denied, redirects, answer>>

SkipDelete ==
    /\ At("delete", "cgi")
    /\ ~Deletes
    /\ UNCHANGED <<target, denied, redirects>> /\ Untouched

RunsScript == ~noFile /\ internal /\ conf[loc].cgi

\* setup_cgi() starts the script and ends the call.
RunScript ==
    /\ At("cgi", "done")
    /\ RunsScript
    /\ answer' = "script"
    /\ UNCHANGED <<target, denied, redirects, touched>>

\* setup_cgi() fails: the page for 500 is answered with, whatever it is.
ScriptFails ==
    /\ At("cgi", "respond")
    /\ RunsScript
    /\ EpiRedirect(500, loc)
    /\ Untouched /\ UNCHANGED <<denied, redirects>>

NoScript ==
    /\ At("cgi", "drain")
    /\ ~RunsScript
    /\ UNCHANGED <<target, denied, redirects>> /\ Untouched

\* A body that is too large is read before it is answered for.
Drain ==
    /\ At("drain", "respond")
    /\ touched' = IF status = 413 THEN touched \cup {<<"drained", path.res>>} ELSE touched
    /\ UNCHANGED <<target, denied, redirects, answer>>

\* setup_res(): the file, the built-in page of an error, or no body. A file that
\* cannot be opened is an internal error.
Respond ==
    /\ At("respond", "done")
    /\ IF noFile THEN answer' = IF status >= 400 THEN "page" ELSE "bare"
       ELSE \/ disk[path.res] = "file" /\ answer' = "file"
            \/ answer' = "internal"
    /\ UNCHANGED <<target, denied, redirects, touched>>

SetupNext ==
    \/ Begin \/ CheckMethod \/ StoreUpload \/ RoutePost
    \/ FollowReturn \/ RefuseAgain \/ Missing \/ AppendIndex
    \/ ListDirectory \/ ListingFails \/ NoBranch \/ AppendSlash
    \/ Found \/ LeaveLoop
    \/ Delete \/ SkipDelete \/ RunScript \/ ScriptFails \/ NoScript
    \/ Drain \/ Respond

SetupSpec == SetupInit /\ [][SetupNext]_vars
\* The call is not interrupted.
FairSetup == SetupSpec /\ WF_vars(SetupNext)

-----------------------------------------------------------------------------
(* Properties                                                                 *)

\* The pages keep the status they are for, and no location redirects.
Honest ==
    \A l \in Locs :
        /\ conf[l].return = NoReturn
        /\ \A s \in DOMAIN conf[l].pages : conf[l].pages[s].code \in {0, s}

Refused ==
    \/ entry # 0
    \/ denied # NoLoc
    \/ tooLarge /\ pc \notin {"start", "method", "post"}

\* A request that was in error, refused or too large is not answered as if it
\* had been served, whatever pages, indexes and redirections it goes through,
\* and changes nothing on the disk.
RefusalsStayRefused ==
    Honest /\ Refused =>
        /\ pc # "start" => status >= 400
        /\ touched \subseteq {"drained"} \X Resources

\* "A server must respond with 400 to a HTTP/1.1 request without host header"
\* (ClientConnection.cpp), whichever methods its locations allow.
BadRequestIs400 == Honest /\ entry = 400 /\ pc = "done" => status = 400

\* Following indexes from resource r, directory after directory, leads to t.
IndexLeads(r, t) ==
    \A S \in SUBSET Resources :
        r \in S /\ (\A d \in S : IndexOf[d] \in S) => t \in S

\* Only what the client asked for, or the file that its indexes lead to, is
\* deleted or stored, by a location that allows it; never the page of an error.
TouchesTheAsked ==
    \A t \in touched :
        t[1] # "drained" =>
            /\ IF t[1] = "deleted" THEN IndexLeads(wanted, t[2]) ELSE t[2] = wanted
            /\ (IF t[1] = "deleted" THEN "DELETE" ELSE "POST")
                   \in conf[Serves[wanted]].allowed
            /\ asked = (IF t[1] = "deleted" THEN "DELETE" ELSE "POST")
            /\ entry = 0 /\ ~tooLarge

\* The Allow header of a 405 describes a location that refused what was tried:
\* the method of the client, or the GET of an error page.
AllowDescribesRefusal ==
    Honest /\ pc = "done" /\ status = 405 =>
        /\ denied # NoLoc
        /\ ~({asked, "GET"} \subseteq conf[denied].allowed)

\* With an index or a listing for every directory the call returns, also when the
\* pages of errors are missing or lead back to an error.
Terminates ==
    (\A l \in Locs : conf[l].index \/ conf[l].autoindex) => <>(pc = "done")

\* The redirection limit ends every call.
AlwaysTerminates == <>(pc = "done")

=============================================================================
