------------------------------ MODULE SetupProofs ------------------------------
(* A request that was refused stays refused, for every configuration.         *)
EXTENDS RequestSetup, TLAPS

\* Once an error or a refusal has been met the method is GET and the status an
\* error; until then the method is that of the client.
Chastened ==
    /\ pc = "start" =>
        /\ method = asked
        /\ denied = NoLoc
        /\ status = entry
    /\ entry = 0 \/ entry >= 400
    /\ tooLarge => asked = "POST"
    /\ pc # "start" /\ (entry # 0 \/ denied # NoLoc) => method = "GET"
    /\ pc \in {"method", "post"} =>
        method = asked \/ entry # 0 \/ denied # NoLoc
    /\ pc \in {"start", "method", "post", "loop", "delete"} => touched = {}

\* The inductive invariant.
SetupSound == SetupTypeOK /\ Chastened /\ RefusalsStayRefused

LEMMA InitSound == SetupInit => SetupSound
<1> SUFFICES ASSUME SetupInit PROVE SetupSound
  OBVIOUS
<1>1. SetupTypeOK
  <2>1. path \in Paths
    BY DEF SetupInit, Paths
  <2>2. touched \subseteq {"stored", "deleted", "drained"} \X Resources
    BY DEF SetupInit
  <2>3. redirects \in Nat /\ status \in Int /\ entry \in Int
    BY DEF SetupInit
  <2>4. {tooLarge, internal, noFile} \subseteq BOOLEAN
    BY DEF SetupInit
  <2>5. {asked, method} \subseteq Methods
    BY DEF SetupInit
  <2> QED BY <2>1, <2>2, <2>3, <2>4, <2>5 DEF SetupInit, SetupTypeOK, Answers
<1>2. Chastened
  BY DEF SetupInit, Chastened
<1>3. RefusalsStayRefused
  BY DEF SetupInit, RefusalsStayRefused
<1> QED BY <1>1, <1>2, <1>3 DEF SetupSound

\* What a location says is what its type says.
LEMMA LocationType ==
  ASSUME SetupTypeOK, NEW l \in Locs
  PROVE  /\ conf[l].allowed \subseteq Methods
         /\ conf[l].return \in Int
         /\ DOMAIN conf[l].pages \subseteq Int
         /\ \A s \in DOMAIN conf[l].pages : conf[l].pages[s] \in Pages
  BY SetupAssumption DEF SetupTypeOK, IsLocation

\* Looking for the page of an error: the types, and that an honest
\* configuration keeps the status.
LEMMA EpiRedirectFacts ==
  ASSUME SetupTypeOK, NEW s \in Int, NEW from \in Locs, EpiRedirect(s, from)
  PROVE  /\ method' = "GET"
         /\ status' \in Int
         /\ path' \in Paths
         /\ {internal', noFile'} \subseteq BOOLEAN
         /\ loc' \in Locs
         /\ Honest => status' = s
<1>1. CASE s \in DOMAIN conf[from].pages
  <2>1. conf[from].pages[s] \in Pages
    BY <1>1, LocationType
  <2> DEFINE info == conf[from].pages[s]
  <2>2. /\ method' = "GET"
        /\ status' = IF info.code # 0 THEN info.code ELSE s
        /\ path' = [res |-> info.page, slash |-> FALSE]
        /\ internal' = info.internal
        /\ noFile' = ~info.internal
        /\ loc' = IF info.internal THEN Serves[info.page] ELSE from
    BY <1>1 DEF EpiRedirect, LookUpPage, PageStatus
  <2>3. Honest => info.code \in {0, s}
    BY <1>1 DEF Honest
  <2> HIDE DEF info
  <2>4. info \in Pages
    BY <2>1 DEF info
  <2> QED BY <2>2, <2>3, <2>4, SetupAssumption DEF Pages, Paths
<1>2. CASE s \notin DOMAIN conf[from].pages
  BY <1>2 DEF EpiRedirect, LookUpPage, SetupTypeOK
<1> QED BY <1>1, <1>2

-----------------------------------------------------------------------------
\* The steps, grouped by what they do to the request. Each group is a lemma.

\* An error is redirected to its page from location loc.
LEMMA RedirectSound ==
  ASSUME SetupSound, pc # "start", pc' # "start",
         NEW s \in Int, s >= 400, EpiRedirect(s, loc),
         UNCHANGED given, redirects' \in Nat,
         denied' \in Locs \cup {NoLoc}, answer' \in Answers,
         pc' \in {"start", "method", "post", "loop", "delete", "cgi", "drain", "respond", "done"},
         UNCHANGED touched,
         pc' \in {"method", "post"} => denied' # NoLoc,
         pc' \in {"method", "post", "loop", "delete"} => touched = {},
         Honest /\ Refused' => touched \subseteq {"drained"} \X Resources
  PROVE  SetupSound'
<1>1. loc \in Locs /\ SetupTypeOK
  BY DEF SetupSound, SetupTypeOK
<1>2. /\ method' = "GET"
      /\ status' \in Int
      /\ path' \in Paths
      /\ {internal', noFile'} \subseteq BOOLEAN
      /\ loc' \in Locs
      /\ Honest => status' = s
  BY <1>1, EpiRedirectFacts
<1>3. SetupTypeOK'
  BY <1>1, <1>2 DEF SetupTypeOK, given, Methods
<1>4. Chastened'
  BY <1>2 DEF SetupSound, Chastened, given
<1>5. Honest' = Honest
  BY DEF Honest, given
<1>6. RefusalsStayRefused'
  BY <1>2, <1>5 DEF RefusalsStayRefused
<1> QED BY <1>3, <1>4, <1>6 DEF SetupSound

\* The request, the refusals and the disk stay as they are.
LEMMA PassSound ==
  ASSUME SetupSound, pc # "start", pc' # "start",
         UNCHANGED <<given, method, status, denied>>,
         path' \in Paths, loc' \in Locs, {internal', noFile'} \subseteq BOOLEAN,
         redirects' \in Nat, answer' \in Answers,
         pc' \in {"start", "method", "post", "loop", "delete", "cgi", "drain", "respond", "done"},
         UNCHANGED touched,
         pc' \in {"method", "post"} => pc \in {"method", "post"},
         pc' \in {"loop", "delete"} => pc \in {"method", "post", "loop", "delete"},
         pc \in {"method", "post"} /\ pc' \notin {"method", "post"} =>
             (tooLarge => method # "POST")
  PROVE  SetupSound'
<1>1. SetupTypeOK'
  BY DEF SetupSound, SetupTypeOK, given
<1>2. Chastened'
  BY DEF SetupSound, Chastened, given
<1>3. Honest' = Honest
  BY DEF Honest, given
<1>4. Refused' => Refused
  BY DEF SetupSound, Chastened, Refused, given
<1>5. RefusalsStayRefused'
  BY <1>3, <1>4 DEF SetupSound, RefusalsStayRefused
<1> QED BY <1>1, <1>2, <1>5 DEF SetupSound

LEMMA BeginSound == SetupSound /\ Begin => SetupSound'
<1> SUFFICES ASSUME SetupSound, Begin PROVE SetupSound'
  OBVIOUS
<1>1. /\ SetupTypeOK /\ Serves[Top] \in Locs /\ Serves[path.res] \in Locs
      /\ pc = "start" /\ pc' = "method" /\ UNCHANGED given
      /\ method = asked /\ status = entry /\ denied = NoLoc /\ touched = {}
  BY SetupAssumption
  DEF SetupSound, SetupTypeOK, Begin, At, Paths, Chastened
<1>2. Honest' = Honest
  BY <1>1 DEF Honest, given
<1>3. CASE status # 0
  <2>1. /\ EpiRedirect(status, Serves[Top])
        /\ redirects' = redirects + 1
        /\ UNCHANGED <<answer, touched, denied>>
    BY <1>1, <1>3 DEF Begin, Untouched
  <2>2. status \in Int /\ status >= 400
    BY <1>1, <1>3 DEF SetupSound, Chastened, SetupTypeOK
  <2>3. /\ method' = "GET"
        /\ status' \in Int
        /\ path' \in Paths
        /\ {internal', noFile'} \subseteq BOOLEAN
        /\ loc' \in Locs
        /\ Honest => status' = status
    BY <1>1, <2>1, <2>2, EpiRedirectFacts
  <2>4. SetupTypeOK'
    BY <1>1, <2>1, <2>3 DEF SetupTypeOK, given, Methods
  <2>5. Chastened'
    <3>1. /\ entry' # 0 /\ method' = "GET" /\ touched' = {} /\ pc' = "method"
          /\ entry' = 0 \/ entry' >= 400
          /\ tooLarge' => asked' = "POST"
      BY <1>1, <1>3, <2>1, <2>3 DEF SetupSound, Chastened, given
    <3> QED BY <3>1 DEF Chastened
  <2>6. RefusalsStayRefused'
    BY <1>1, <1>2, <2>1, <2>2, <2>3 DEF RefusalsStayRefused
  <2> QED BY <2>4, <2>5, <2>6 DEF SetupSound
<1>4. CASE status = 0
  <2>1. /\ status' \in Int
        /\ loc' \in Locs
        /\ UNCHANGED <<method, path, internal, noFile, redirects, answer, touched, denied>>
    BY <1>1, <1>4 DEF Begin, Untouched
  <2>2. SetupTypeOK'
    BY <1>1, <2>1 DEF SetupTypeOK, given
  <2>3. Chastened'
    <3>1. /\ entry' = 0 /\ denied' = NoLoc /\ touched' = {} /\ pc' = "method"
          /\ method' = asked'
          /\ tooLarge' => asked' = "POST"
      BY <1>1, <1>4, <2>1 DEF SetupSound, Chastened, given
    <3> QED BY <3>1 DEF Chastened
  <2>4. RefusalsStayRefused'
    BY <1>1, <1>4, <2>1 DEF RefusalsStayRefused, Refused, given
  <2> QED BY <2>2, <2>3, <2>4 DEF SetupSound
<1> QED BY <1>3, <1>4

LEMMA StoreUploadSound == SetupSound /\ StoreUpload => SetupSound'
<1> SUFFICES ASSUME SetupSound, StoreUpload PROVE SetupSound'
  OBVIOUS
<1>1. /\ pc = "post" /\ pc' = "done" /\ UNCHANGED given
      /\ method = "POST" /\ ~tooLarge
      /\ UNCHANGED <<method, path, internal, noFile, loc, denied, redirects>>
      /\ status' \in Int /\ answer' = "stored"
      /\ touched' = touched \cup {<<"stored", path.res>>}
  BY DEF StoreUpload, At
<1>2. SetupTypeOK'
  <2>1. path.res \in Resources
    BY DEF SetupSound, SetupTypeOK, Paths
  <2>2. touched' \subseteq {"stored", "deleted", "drained"} \X Resources
    BY <1>1, <2>1 DEF SetupSound, SetupTypeOK
  <2> QED BY <1>1, <2>2 DEF SetupSound, SetupTypeOK, given, Answers
<1>3. Chastened'
  BY <1>1 DEF SetupSound, Chastened, given
<1>4. ~Refused'
  BY <1>1 DEF SetupSound, Chastened, Refused, given
<1> QED BY <1>2, <1>3, <1>4 DEF SetupSound, RefusalsStayRefused

LEMMA DeleteSound == SetupSound /\ Delete => SetupSound'
<1> SUFFICES ASSUME SetupSound, Delete PROVE SetupSound'
  OBVIOUS
<1>1. /\ pc = "delete" /\ pc' = "cgi" /\ UNCHANGED given
      /\ UNCHANGED <<denied, redirects, answer>>
      /\ status = 200
      /\ SetupTypeOK /\ loc \in Locs /\ path.res \in Resources
  BY DEF Delete, Deletes, At, SetupSound, SetupTypeOK, Paths
<1>2. Honest => ~Refused
  BY <1>1 DEF SetupSound, RefusalsStayRefused
<1>3. Honest' = Honest /\ Refused' = Refused
  BY <1>1 DEF Honest, Refused, given
<1>4. CASE EpiRedirect(500, loc) /\ UNCHANGED touched
  BY <1>1, <1>2, <1>3, <1>4, RedirectSound DEF SetupTypeOK
<1>5. CASE /\ status' = 204
           /\ noFile' = TRUE
           /\ touched' = touched \cup {<<"deleted", path.res>>}
           /\ UNCHANGED <<method, path, internal, loc>>
  <2>1. touched' \subseteq {"stored", "deleted", "drained"} \X Resources
    BY <1>1, <1>5 DEF SetupTypeOK
  <2>2. SetupTypeOK'
    BY <1>1, <1>5, <2>1 DEF SetupTypeOK, given
  <2>3. Chastened'
    BY <1>1, <1>5 DEF SetupSound, Chastened, given
  <2> QED BY <1>2, <1>3, <2>2, <2>3 DEF SetupSound, RefusalsStayRefused
<1> QED BY <1>4, <1>5 DEF Delete

LEMMA DrainSound == SetupSound /\ Drain => SetupSound'
<1> SUFFICES ASSUME SetupSound, Drain PROVE SetupSound'
  OBVIOUS
<1>1. /\ pc = "drain" /\ pc' = "respond"
      /\ UNCHANGED <<given, target, denied, redirects, answer>>
      /\ touched' \subseteq touched \cup {<<"drained", path.res>>}
  BY DEF Drain, At
<1>2. path.res \in Resources
  BY DEF SetupSound, SetupTypeOK, Paths
<1>3. SetupTypeOK'
  <2>1. touched' \subseteq {"stored", "deleted", "drained"} \X Resources
    BY <1>1, <1>2 DEF SetupSound, SetupTypeOK
  <2> QED BY <1>1, <2>1 DEF SetupSound, SetupTypeOK, given, target
<1>4. Chastened'
  BY <1>1 DEF SetupSound, Chastened, given, target
<1>5. Honest' = Honest /\ Refused' = Refused
  BY <1>1 DEF Honest, Refused, given
<1>6. RefusalsStayRefused'
  BY <1>1, <1>2, <1>5 DEF SetupSound, RefusalsStayRefused, target
<1> QED BY <1>3, <1>4, <1>6 DEF SetupSound

-----------------------------------------------------------------------------
\* The rest of the actions are a redirection, or leave the request alone.

LEMMA CheckMethodSound == SetupSound /\ CheckMethod => SetupSound'
<1> SUFFICES ASSUME SetupSound, CheckMethod PROVE SetupSound'
  OBVIOUS
<1>1. /\ pc = "method" /\ pc' = "post" /\ UNCHANGED given /\ Untouched
      /\ SetupTypeOK /\ loc \in Locs /\ touched = {}
  BY DEF CheckMethod, At, SetupSound, SetupTypeOK, Chastened
<1>2. CASE Refuse
  <2>1. EpiRedirect(405, loc) /\ redirects' \in Nat /\ denied' = loc
    BY <1>1, <1>2 DEF Refuse, Redirect, SetupTypeOK
  <2>2. loc # NoLoc
    BY <1>1, SetupAssumption
  <2> QED BY <1>1, <2>1, <2>2, RedirectSound DEF SetupTypeOK, Untouched
<1>3. CASE UNCHANGED <<target, denied, redirects>>
  BY <1>1, <1>3, PassSound DEF SetupTypeOK, target, Untouched
<1> QED BY <1>2, <1>3 DEF CheckMethod

LEMMA RoutePostSound == SetupSound /\ RoutePost => SetupSound'
<1> SUFFICES ASSUME SetupSound, RoutePost PROVE SetupSound'
  OBVIOUS
<1>1. /\ pc = "post" /\ pc' = "loop" /\ UNCHANGED given /\ Untouched
      /\ UNCHANGED denied
      /\ SetupTypeOK /\ loc \in Locs /\ touched = {}
  BY DEF RoutePost, At, SetupSound, SetupTypeOK, Chastened
<1>2. ASSUME NEW s \in {400, 413, 500}, Redirect(s) PROVE SetupSound'
  <2>1. EpiRedirect(s, loc) /\ redirects' \in Nat
    BY <1>1, <1>2 DEF Redirect, SetupTypeOK
  <2> QED BY <1>1, <2>1, RedirectSound DEF SetupTypeOK, Untouched
<1>3. CASE UNCHANGED <<target, redirects>> /\ (method = "POST" => ~tooLarge)
  BY <1>1, <1>3, PassSound DEF SetupTypeOK, target, Untouched
<1> QED BY <1>2, <1>3 DEF RoutePost

\* A round of the loop that redirects to the page of an error.
LEMMA RoundRedirectSound ==
  ASSUME SetupSound, Round, NEW s \in Int, s >= 400, Redirect(s),
         denied' \in {denied, loc}, answer' = answer
  PROVE  SetupSound'
<1>1. /\ pc = "loop" /\ pc' = "loop" /\ UNCHANGED <<given, touched>>
      /\ SetupTypeOK /\ loc \in Locs /\ touched = {}
  BY DEF Round, At, SetupSound, SetupTypeOK, Chastened
<1>2. EpiRedirect(s, loc) /\ redirects' \in Nat
  BY <1>1 DEF Redirect, SetupTypeOK
<1> QED BY <1>1, <1>2, RedirectSound DEF SetupTypeOK

\* `return` ends in no error: a honest configuration has none.
LEMMA FollowReturnSound == SetupSound /\ FollowReturn => SetupSound'
<1> SUFFICES ASSUME SetupSound, FollowReturn PROVE SetupSound'
  OBVIOUS
<1>1. /\ pc = "loop" /\ pc' = "loop"
      /\ UNCHANGED <<given, touched, method, path, loc, denied, answer>>
      /\ SetupTypeOK /\ loc \in Locs
      /\ internal' = FALSE /\ noFile' = TRUE /\ redirects' \in Nat
  BY DEF FollowReturn, Round, At, SetupSound, SetupTypeOK
<1>2. ~Honest /\ Honest' = Honest
  BY <1>1 DEF FollowReturn, Honest, given
<1>3. conf[loc].return \in Int
  BY <1>1, LocationType
<1>4. status' \in Int
  BY <1>3 DEF FollowReturn
<1>5. SetupTypeOK'
  BY <1>1, <1>4 DEF SetupTypeOK, given
<1>6. Chastened'
  BY <1>1 DEF SetupSound, Chastened, given
<1> QED BY <1>2, <1>5, <1>6 DEF SetupSound, RefusalsStayRefused

\* The branches of the loop that leave the method and the status alone.
LEMMA RoundPassSound ==
  ASSUME SetupSound,
         AppendIndex \/ NoBranch \/ AppendSlash \/ Found \/ ListDirectory
  PROVE  SetupSound'
<1>1. /\ pc = "loop" /\ pc' \in {"loop", "delete", "done"}
      /\ UNCHANGED <<given, method, status, internal, noFile, loc, denied, touched>>
      /\ SetupTypeOK /\ loc \in Locs /\ path \in Paths
  BY DEF AppendIndex, NoBranch, AppendSlash, Found, ListDirectory, Round, At,
         target, Untouched, SetupSound, SetupTypeOK
<1>2. path' \in Paths
  <2>1. CASE AppendIndex
    BY <1>1, <2>1, SetupAssumption DEF AppendIndex, Paths
  <2>2. CASE AppendSlash
    BY <1>1, <2>2 DEF AppendSlash, Paths
  <2>3. CASE path' = path
    BY <1>1, <2>3
  <2> QED BY <2>1, <2>2, <2>3 DEF NoBranch, Found, ListDirectory, target
<1>3. redirects' \in Nat /\ answer' \in Answers
  BY <1>1 DEF AppendIndex, NoBranch, AppendSlash, Found, ListDirectory,
              Untouched, SetupTypeOK, Answers
<1> QED BY <1>1, <1>2, <1>3, PassSound DEF SetupTypeOK

LEMMA LeaveLoopSound == SetupSound /\ LeaveLoop => SetupSound'
<1> SUFFICES ASSUME SetupSound, LeaveLoop PROVE SetupSound'
  OBVIOUS
<1>1. /\ pc = "loop" /\ pc' = "delete"
      /\ UNCHANGED <<given, answer, touched, denied, redirects>>
      /\ SetupTypeOK /\ loc \in Locs /\ touched = {}
  BY DEF LeaveLoop, At, Untouched, SetupSound, SetupTypeOK, Chastened
<1>2. CASE UNCHANGED target
  BY <1>1, <1>2, PassSound DEF SetupTypeOK, target
<1>3. CASE EpiRedirect(500, loc)
  BY <1>1, <1>3, RedirectSound DEF SetupTypeOK
<1> QED BY <1>2, <1>3 DEF LeaveLoop

\* What follows the loop, but for the deletion and the body that is drained.
LEMMA AnswerSound ==
  ASSUME SetupSound, SkipDelete \/ RunScript \/ NoScript \/ Respond
  PROVE  SetupSound'
<1>1. /\ pc \in {"delete", "cgi", "respond"} /\ pc' \in {"cgi", "done", "drain"}
      /\ UNCHANGED <<given, target, denied, redirects, touched>>
      /\ SetupTypeOK /\ loc \in Locs
  BY DEF SkipDelete, RunScript, NoScript, Respond, At, Untouched, SetupSound,
         SetupTypeOK
<1>2. answer' \in Answers
  BY <1>1 DEF SkipDelete, RunScript, NoScript, Respond, Untouched, SetupTypeOK,
              Answers
<1> QED BY <1>1, <1>2, PassSound DEF SetupTypeOK, target

LEMMA ScriptFailsSound == SetupSound /\ ScriptFails => SetupSound'
<1> SUFFICES ASSUME SetupSound, ScriptFails PROVE SetupSound'
  OBVIOUS
<1>1. /\ pc = "cgi" /\ pc' = "respond"
      /\ UNCHANGED <<given, answer, touched, denied, redirects>>
      /\ SetupTypeOK /\ loc \in Locs /\ EpiRedirect(500, loc)
  BY DEF ScriptFails, At, Untouched, SetupSound, SetupTypeOK
<1>2. Honest /\ Refused' => touched \subseteq {"drained"} \X Resources
  BY <1>1 DEF SetupSound, RefusalsStayRefused, Refused, given
<1> QED BY <1>1, <1>2, RedirectSound DEF SetupTypeOK

-----------------------------------------------------------------------------
LEMMA SetupStep == SetupSound /\ [SetupNext]_vars => SetupSound'
<1> SUFFICES ASSUME SetupSound, [SetupNext]_vars PROVE SetupSound'
  OBVIOUS
<1>1. CASE Begin
  BY <1>1, BeginSound
<1>2. CASE CheckMethod
  BY <1>2, CheckMethodSound
<1>3. CASE StoreUpload
  BY <1>3, StoreUploadSound
<1>4. CASE RoutePost
  BY <1>4, RoutePostSound
<1>5. CASE FollowReturn
  BY <1>5, FollowReturnSound
<1>6. CASE RefuseAgain
  <2>1. Redirect(405) /\ Round /\ denied' = loc /\ answer' = answer
    BY <1>6 DEF RefuseAgain, Refuse
  <2> QED BY <2>1, RoundRedirectSound
<1>7. CASE Missing
  <2>1. Redirect(404) /\ Round /\ denied' = denied /\ answer' = answer
    BY <1>7 DEF Missing
  <2> QED BY <2>1, RoundRedirectSound
<1>8. CASE ListingFails
  <2>1. Redirect(500) /\ Round /\ denied' = denied /\ answer' = answer
    BY <1>8 DEF ListingFails
  <2> QED BY <2>1, RoundRedirectSound
<1>9. CASE AppendIndex \/ NoBranch \/ AppendSlash \/ Found \/ ListDirectory
  BY <1>9, RoundPassSound
<1>10. CASE LeaveLoop
  BY <1>10, LeaveLoopSound
<1>11. CASE Delete
  BY <1>11, DeleteSound
<1>12. CASE SkipDelete \/ RunScript \/ NoScript \/ Respond
  BY <1>12, AnswerSound
<1>13. CASE ScriptFails
  BY <1>13, ScriptFailsSound
<1>14. CASE Drain
  BY <1>14, DrainSound
<1>15. CASE UNCHANGED vars
  BY <1>15 DEF vars, given, target, SetupSound, SetupTypeOK, Chastened,
               RefusalsStayRefused, Honest, Refused
<1> QED BY <1>1, <1>2, <1>3, <1>4, <1>5, <1>6, <1>7, <1>8, <1>9, <1>10, <1>11,
           <1>12, <1>13, <1>14, <1>15 DEF SetupNext

\* The invariant holds of every call of handle_setup().
THEOREM SetupCorrect == SetupSpec => []SetupSound
<1>1. SetupInit => SetupSound
  BY InitSound
<1>2. SetupSound /\ [SetupNext]_vars => SetupSound'
  BY SetupStep
<1> QED BY <1>1, <1>2, PTL DEF SetupSpec

\* A request in error, refused or too large is never answered as if it had been
\* served, nor does it change the disk, whatever the locations, the pages, the
\* disk and the limit of redirections are.
THEOREM RefusalsHold == SetupSpec => []RefusalsStayRefused
<1>1. SetupSound => RefusalsStayRefused
  BY DEF SetupSound
<1> QED BY <1>1, SetupCorrect, PTL

\* Every field of the request keeps its type.
THEOREM SetupTyped == SetupSpec => []SetupTypeOK
<1>1. SetupSound => SetupTypeOK
  BY DEF SetupSound
<1> QED BY <1>1, SetupCorrect, PTL

-----------------------------------------------------------------------------
\* A request that was never sent to the page of an error is the client's: its
\* method, the location of what it asked for, and a path its indexes lead to.
Own ==
    /\ pc = "start" => method = asked
    /\ pc \in {"start", "method", "post"} /\ (pc = "start" \/ method # "GET") =>
          path.res = wanted
    /\ pc # "start" /\ method # "GET" =>
          /\ entry = 0
          /\ method = asked
          /\ loc = Serves[wanted]
          /\ IndexLeads(wanted, path.res)
          /\ pc # "method" => method \in conf[loc].allowed
          /\ pc \notin {"method", "post"} => ~tooLarge

\* Whoever refused did so to the method of the client or to a GET.
Denials ==
    /\ entry # 405
    /\ denied # NoLoc => ~({asked, "GET"} \subseteq conf[denied].allowed)
    /\ Honest /\ pc # "start" /\ status = 405 => denied # NoLoc

TouchSound == SetupSound /\ Own /\ TouchesTheAsked /\ Denials

LEMMA LeadsHere == \A r : IndexLeads(r, r)
  BY DEF IndexLeads

LEMMA LeadsOn ==
  \A r, t : IndexLeads(r, t) => IndexLeads(r, IndexOf[t])
  BY DEF IndexLeads

LEMMA InitTouch == SetupInit => TouchSound
<1> SUFFICES ASSUME SetupInit PROVE TouchSound
  OBVIOUS
<1>1. path.res = wanted /\ pc = "start" /\ method = asked /\ touched = {}
      /\ denied = NoLoc /\ entry # 405
  BY DEF SetupInit
<1> QED BY <1>1, InitSound DEF TouchSound, Own, TouchesTheAsked, Denials

\* A step that drains a body or touches nothing keeps what was touched right.
LEMMA TouchedKept ==
  ASSUME TouchesTheAsked, UNCHANGED given, NEW r, touched' \subseteq touched \cup {<<"drained", r>>}
  PROVE  TouchesTheAsked'
  BY DEF TouchesTheAsked, given, IndexLeads

\* Looking for the page of an error.
LEMMA GetStep ==
  ASSUME TouchSound, SetupSound', UNCHANGED <<given, touched>>, pc' # "start",
         NEW s \in Int, NEW from \in Locs, EpiRedirect(s, from),
         \/ denied' = denied /\ s # 405
         \/ denied' = loc /\ loc \in Locs /\ ~MethodAllowed /\ pc # "start"
  PROVE  TouchSound'
<1>1. method' = "GET" /\ (Honest => status' = s)
  BY EpiRedirectFacts DEF TouchSound, SetupSound
<1>2. Own'
  BY <1>1 DEF Own
<1>3. TouchesTheAsked'
  BY TouchedKept DEF TouchSound
<1>4. Honest' = Honest
  BY DEF Honest, given
<1>5. Denials'
  <2>1. CASE denied' = denied /\ s # 405
    BY <1>1, <1>4, <2>1 DEF TouchSound, Denials, given
  <2>2. CASE denied' = loc /\ loc \in Locs /\ ~MethodAllowed /\ pc # "start"
    <3>1. method = asked \/ method = "GET"
      BY <2>2 DEF TouchSound, Own
    <3>2. loc # NoLoc
      BY <2>2, SetupAssumption
    <3>3. ~({asked, "GET"} \subseteq conf[loc].allowed)
      BY <2>2, <3>1 DEF MethodAllowed
    <3> QED BY <2>2, <3>2, <3>3 DEF TouchSound, Denials, given
  <2> QED BY <2>1, <2>2
<1> QED BY <1>2, <1>3, <1>5 DEF TouchSound

\* The request stays what it is, but for its path.
LEMMA KeepStep ==
  ASSUME TouchSound, SetupSound', UNCHANGED <<given, method, loc, status, denied>>,
         pc # "start", pc' # "start",
         NEW r, touched' \subseteq touched \cup {<<"drained", r>>},
         path'.res \in {path.res, IndexOf[path.res]},
         pc' \in {"method", "post"} =>
             pc = "method" /\ pc' = "post" /\ path' = path /\ MethodAllowed,
         pc \in {"method", "post"} /\ pc' \notin {"method", "post"} =>
             pc = "post" /\ (tooLarge => method # "POST")
  PROVE  TouchSound'
<1>1. TouchesTheAsked'
  BY TouchedKept DEF TouchSound
<1>2. Honest' = Honest
  BY DEF Honest, given
<1>3. Denials'
  BY <1>2 DEF TouchSound, Denials, given
<1>4. Own'
  <2>1. SUFFICES ASSUME method # "GET" PROVE Own'
    BY DEF Own
  <2>2. /\ entry = 0 /\ method = asked /\ loc = Serves[wanted]
        /\ IndexLeads(wanted, path.res)
        /\ pc # "method" => method \in conf[loc].allowed
        /\ pc \notin {"method", "post"} => ~tooLarge
        /\ pc \in {"method", "post"} => path.res = wanted
    BY <2>1 DEF TouchSound, Own
  <2>3. IndexLeads(wanted, path'.res)
    BY <2>2, LeadsOn
  <2>4. IndexLeads(wanted, path.res)'
    BY <2>3 DEF IndexLeads, given
  <2>5. tooLarge => asked = "POST"
    BY DEF TouchSound, SetupSound, Chastened
  <2>6. pc' # "method" /\ method \in conf[loc].allowed
    BY <2>2 DEF MethodAllowed
  <2>7. pc' \notin {"method", "post"} => ~tooLarge
    BY <2>2, <2>5
  <2>8. pc' \in {"method", "post"} => path'.res = wanted
    BY <2>2
  <2> QED BY <2>2, <2>4, <2>6, <2>7, <2>8 DEF Own, given
<1> QED BY <1>1, <1>3, <1>4 DEF TouchSound

LEMMA BeginTouch == TouchSound /\ SetupSound' /\ Begin => TouchSound'
<1> SUFFICES ASSUME TouchSound, SetupSound', Begin PROVE TouchSound'
  OBVIOUS
<1>1. /\ pc = "start" /\ pc' = "method" /\ UNCHANGED <<given, touched, denied>>
      /\ method = asked /\ status = entry /\ denied = NoLoc /\ path.res = wanted
      /\ status \in Int /\ Serves[Top] \in Locs
  BY SetupAssumption DEF TouchSound, SetupSound, SetupTypeOK, Chastened, Own, Begin, At, Untouched
<1>2. CASE status # 0
  <2>1. EpiRedirect(status, Serves[Top]) /\ status # 405
    BY <1>1, <1>2 DEF Begin, TouchSound, Denials
  <2> QED BY <1>1, <2>1, GetStep
<1>3. CASE status = 0
  <2>1. status' \in {200, 201} /\ loc' = Serves[wanted] /\ method' = method /\ path' = path
    BY <1>1, <1>3 DEF Begin
  <2>2. Own'
    BY <1>1, <1>3, <2>1, LeadsHere DEF Own, given, IndexLeads
  <2>3. TouchesTheAsked'
    BY <1>1, TouchedKept DEF TouchSound
  <2>4. Denials'
    BY <1>1, <2>1 DEF TouchSound, Denials, given
  <2> QED BY <2>2, <2>3, <2>4 DEF TouchSound
<1> QED BY <1>2, <1>3

LEMMA StoreUploadTouch == TouchSound /\ SetupSound' /\ StoreUpload => TouchSound'
<1> SUFFICES ASSUME TouchSound, SetupSound', StoreUpload PROVE TouchSound'
  OBVIOUS
<1>1. /\ pc = "post" /\ pc' = "done" /\ UNCHANGED <<given, method, path, loc, denied>>
      /\ method = "POST" /\ ~tooLarge /\ status' \in {201, 204}
      /\ touched' = touched \cup {<<"stored", path.res>>}
  BY DEF StoreUpload, At
<1>2. /\ entry = 0 /\ asked = "POST" /\ path.res = wanted
      /\ "POST" \in conf[Serves[wanted]].allowed
      /\ loc = Serves[wanted] /\ IndexLeads(wanted, path.res)
  BY <1>1 DEF TouchSound, Own
<1>3. TouchesTheAsked'
  <2>1. \A t \in touched' : t \in touched \/ t = <<"stored", path.res>>
    BY <1>1
  <2> QED BY <1>1, <1>2, <2>1 DEF TouchSound, TouchesTheAsked, given, IndexLeads
<1>4. Own'
  BY <1>1, <1>2 DEF Own, given, IndexLeads
<1>5. Denials'
  BY <1>1 DEF TouchSound, Denials, given
<1> QED BY <1>3, <1>4, <1>5 DEF TouchSound

LEMMA DeleteTouch == TouchSound /\ SetupSound' /\ Delete => TouchSound'
<1> SUFFICES ASSUME TouchSound, SetupSound', Delete PROVE TouchSound'
  OBVIOUS
<1>1. /\ pc = "delete" /\ pc' = "cgi" /\ UNCHANGED <<given, denied>>
      /\ method = "DELETE" /\ loc \in Locs
  BY DEF Delete, Deletes, At, TouchSound, SetupSound, SetupTypeOK
<1>2. CASE EpiRedirect(500, loc) /\ UNCHANGED touched
  BY <1>1, <1>2, GetStep
<1>3. CASE /\ status' = 204
           /\ touched' = touched \cup {<<"deleted", path.res>>}
           /\ UNCHANGED <<method, path, loc>>
  <2>1. /\ entry = 0 /\ asked = "DELETE" /\ ~tooLarge
        /\ "DELETE" \in conf[Serves[wanted]].allowed
        /\ loc = Serves[wanted] /\ IndexLeads(wanted, path.res)
    BY <1>1 DEF TouchSound, Own
  <2>2. TouchesTheAsked'
    <3>1. \A t \in touched' : t \in touched \/ t = <<"deleted", path.res>>
      BY <1>3
    <3> QED BY <1>1, <2>1, <3>1 DEF TouchSound, TouchesTheAsked, given, IndexLeads
  <2>3. Own'
    BY <1>1, <1>3, <2>1 DEF Own, given, IndexLeads
  <2>4. Denials'
    BY <1>1, <1>3 DEF TouchSound, Denials, given
  <2> QED BY <2>2, <2>3, <2>4 DEF TouchSound
<1> QED BY <1>2, <1>3 DEF Delete

\* `return` changes the status, which an honest configuration has none of.
LEMMA FollowReturnTouch == TouchSound /\ SetupSound' /\ FollowReturn => TouchSound'
<1> SUFFICES ASSUME TouchSound, SetupSound', FollowReturn PROVE TouchSound'
  OBVIOUS
<1>1. /\ pc = "loop" /\ pc' = "loop"
      /\ UNCHANGED <<given, touched, method, path, loc, denied>>
      /\ loc \in Locs
  BY DEF FollowReturn, Round, At, TouchSound, SetupSound, SetupTypeOK
<1>2. ~Honest /\ Honest' = Honest
  BY <1>1 DEF FollowReturn, Honest, given
<1>3. Own'
  BY <1>1 DEF TouchSound, Own, given, IndexLeads
<1>4. TouchesTheAsked'
  BY <1>1, TouchedKept DEF TouchSound
<1>5. Denials'
  BY <1>1, <1>2 DEF TouchSound, Denials, given
<1> QED BY <1>3, <1>4, <1>5 DEF TouchSound

\* The steps that are a redirection to the page of an error.
LEMMA RedirectTouch ==
  ASSUME TouchSound, SetupSound',
         \/ CheckMethod /\ Refuse
         \/ RoutePost /\ ~UNCHANGED target
         \/ RefuseAgain \/ Missing \/ ListingFails \/ ScriptFails
         \/ LeaveLoop /\ ~UNCHANGED target
  PROVE  TouchSound'
<1>1. /\ pc # "start" /\ pc' # "start" /\ UNCHANGED <<given, touched>> /\ loc \in Locs
  BY DEF CheckMethod, RoutePost, RefuseAgain, Missing, ListingFails, ScriptFails,
         LeaveLoop, Round, At, Untouched, TouchSound, SetupSound, SetupTypeOK
<1>2. CASE Refuse
  BY <1>1, <1>2, GetStep DEF Refuse, Redirect
<1>3. ASSUME NEW s \in {400, 404, 413, 500}, EpiRedirect(s, loc), denied' = denied
      PROVE  TouchSound'
  BY <1>1, <1>3, GetStep
<1>4. \/ Refuse
      \/ \E s \in {400, 404, 413, 500} : EpiRedirect(s, loc) /\ denied' = denied
  BY DEF CheckMethod, RoutePost, RefuseAgain, Missing, ListingFails, ScriptFails,
         LeaveLoop, Redirect, Untouched, target
<1> QED BY <1>2, <1>3, <1>4

\* The steps that go on with the request.
LEMMA KeepTouch ==
  ASSUME TouchSound, SetupSound',
         \/ CheckMethod /\ ~Refuse
         \/ RoutePost /\ UNCHANGED target
         \/ AppendIndex \/ NoBranch \/ AppendSlash \/ Found \/ ListDirectory
         \/ LeaveLoop /\ UNCHANGED target
         \/ SkipDelete \/ RunScript \/ NoScript \/ Drain \/ Respond
  PROVE  TouchSound'
<1>1. path \in Paths
  BY DEF TouchSound, SetupSound, SetupTypeOK
<1>2. CASE CheckMethod /\ ~Refuse
  BY <1>2, KeepStep DEF CheckMethod, At, Untouched, target
<1>3. CASE RoutePost /\ UNCHANGED target
  <2>1. /\ pc = "post" /\ pc' = "loop" /\ UNCHANGED <<given, touched, denied>>
        /\ UNCHANGED <<method, loc, status, path>>
    BY <1>3 DEF RoutePost, At, Untouched, target
  <2>2. tooLarge => method # "POST"
    BY <1>3 DEF RoutePost, Redirect, EpiRedirect, target
  <2> QED BY <2>1, <2>2, KeepStep
<1>4. CASE AppendIndex
  <2>1. path'.res = IndexOf[path.res]
    BY <1>4 DEF AppendIndex
  <2> QED BY <1>4, <2>1, KeepStep DEF AppendIndex, Round, At
<1>5. CASE AppendSlash
  <2>1. path'.res = path.res
    BY <1>1, <1>5 DEF AppendSlash, Paths
  <2> QED BY <1>5, <2>1, KeepStep DEF AppendSlash, Round, At
<1>6. CASE NoBranch \/ Found \/ ListDirectory \/ (LeaveLoop /\ UNCHANGED target)
  <2>1. /\ pc = "loop" /\ pc' \in {"loop", "delete", "done"}
        /\ UNCHANGED <<given, touched, denied, method, loc, status, path>>
    BY <1>6 DEF NoBranch, Found, ListDirectory, LeaveLoop, Round, At, Untouched, target
  <2> QED BY <2>1, KeepStep
<1>7. CASE SkipDelete \/ RunScript \/ NoScript \/ Respond
  <2>1. /\ pc \in {"delete", "cgi", "respond"} /\ pc' \in {"cgi", "done", "drain"}
        /\ UNCHANGED <<given, touched, denied, method, loc, status, path>>
    BY <1>7 DEF SkipDelete, RunScript, NoScript, Respond, At, Untouched, target
  <2> QED BY <2>1, KeepStep
<1>8. CASE Drain
  <2>1. /\ pc = "drain" /\ pc' = "respond"
        /\ UNCHANGED <<given, denied, method, loc, status, path>>
        /\ touched' \subseteq touched \cup {<<"drained", path.res>>}
    BY <1>8 DEF Drain, At, target
  <2> QED BY <2>1, KeepStep
<1> QED BY <1>2, <1>3, <1>4, <1>5, <1>6, <1>7, <1>8

LEMMA TouchStep == TouchSound /\ [SetupNext]_vars => TouchSound'
<1> SUFFICES ASSUME TouchSound, [SetupNext]_vars PROVE TouchSound'
  OBVIOUS
<1>1. SetupSound'
  BY SetupStep DEF TouchSound
<1>2. CASE Begin
  BY <1>1, <1>2, BeginTouch
<1>3. CASE StoreUpload
  BY <1>1, <1>3, StoreUploadTouch
<1>4. CASE Delete
  BY <1>1, <1>4, DeleteTouch
<1>5. CASE FollowReturn
  BY <1>1, <1>5, FollowReturnTouch
<1>6. CASE \/ CheckMethod \/ RoutePost \/ LeaveLoop
           \/ RefuseAgain \/ Missing \/ ListingFails \/ ScriptFails
           \/ AppendIndex \/ NoBranch \/ AppendSlash \/ Found \/ ListDirectory
           \/ SkipDelete \/ RunScript \/ NoScript \/ Drain \/ Respond
  BY <1>1, <1>6, RedirectTouch, KeepTouch
<1>7. CASE UNCHANGED vars
  BY <1>1, <1>7 DEF vars, given, target, TouchSound, Own, TouchesTheAsked, Denials,
                    Honest, IndexLeads
<1> QED BY <1>2, <1>3, <1>4, <1>5, <1>6, <1>7 DEF SetupNext

\* The invariant of what a call of handle_setup() does to the disk.
THEOREM TouchCorrect == SetupSpec => []TouchSound
<1>1. SetupInit => TouchSound
  BY InitTouch
<1>2. TouchSound /\ [SetupNext]_vars => TouchSound'
  BY TouchStep
<1> QED BY <1>1, <1>2, PTL DEF SetupSpec

\* What is deleted or stored is what the client asked for, or what its indexes
\* lead to, where the location of the request allows it, whatever the locations,
\* the pages, the disk and the limit of redirections are.
THEOREM TouchesHold == SetupSpec => []TouchesTheAsked
<1>1. TouchSound => TouchesTheAsked
  BY DEF TouchSound
<1> QED BY <1>1, TouchCorrect, PTL

\* The Allow header of a 405 is that of a location that refused what was tried.
THEOREM AllowHolds == SetupSpec => []AllowDescribesRefusal
<1>1. TouchSound => AllowDescribesRefusal
  BY DEF TouchSound, Denials, AllowDescribesRefusal
<1> QED BY <1>1, TouchCorrect, PTL

=============================================================================
