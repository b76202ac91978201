---------------------------- MODULE WebservProofs ----------------------------
(* Theorems about the server, for any number of connections, descriptors and  *)
(* processes, and with every fault.                                           *)
EXTENDS Webserv, TLAPS

-----------------------------------------------------------------------------
(* What a handler does to its request. The handlers and the timeout compose   *)
(* the same few pieces, so that each piece need only be considered once.      *)

\* The states that wait for the same event on the same descriptor.
SameWatch(s, t) ==
    \/ s = t
    \/ s = "REQ_LINE" /\ t = "REQ_HEADERS"
    \/ {s, t} \subseteq {"CGI_HEADERS", "CGI_BODY"}

\* Reads and writes that touch neither descriptor nor registration.
Advance(c) ==
    /\ \E s \in States : SameWatch(st[c], s) /\ st' = [st EXCEPT ![c] = s]
    /\ room' \in [Conns -> 0..Units]
    /\ UNCHANGED <<locCgi, pipeVars, kernelVars, registryVars, childVars>>

\* The body read from the client goes to the script.
FeedScript(c) ==
    /\ st' = [st EXCEPT ![c] = "CGI_TRANSMIT_BODY"]
    /\ Rearm(c, "OUT", stdinFd[c])
    /\ UNCHANGED <<locCgi, room, pipeVars, kernelVars, childVars>>

Move(c) ==
    \/ KeepRequest
    \/ Advance(c)
    \/ st[c] \in Receiving \cup {"DISCARD_BODY"} /\ Answer(c)
    \/ st[c] \in Receiving /\ AwaitBody(c, "DISCARD_BODY")
    \/ st[c] \in Receiving /\ AwaitBody(c, "REQ_BODY")
    \/ /\ \/ st[c] \in {"REQ_LINE", "REQ_HEADERS"}
          \/ st[c] \in Receiving /\ "timeout_page_cgi" \in Faults
       /\ \E body \in BOOLEAN : SpawnCgi(c, body)
    \/ st[c] = "REQ_BODY" /\ locCgi[c] /\ FeedScript(c)
    \/ st[c] = "CGI_TRANSMIT_BODY" /\ FetchMoreBody(c)
    \/ st[c] = "CGI_TRANSMIT_BODY" /\ CloseStdin(c)
    \/ st[c] \in {"CGI_HEADERS", "CGI_BODY"} /\ \E kill \in BOOLEAN : LeaveCgi(c, kill)

\* A handler's verdict on the connection: kept or queued for deletion.
Verdict(c) ==
    /\ deletionQueue' \in {deletionQueue, deletionQueue \cup {c}}
    /\ age' \in {age, [age EXCEPT ![c] = 0]}

\* Progress within a state is an Advance.
LEMMA ProgressAdvances ==
    ASSUME ClientTypeOK, NEW c \in Conns, NEW s \in States,
           SameWatch(st[c], s), Progress(c, s)
    PROVE  Advance(c)
<1>1. room' \in [Conns -> 0..Units]
  BY ClientAssumption DEF ClientTypeOK, Progress
<1> QED
  BY <1>1 DEF Advance, Progress

\* So is taking output of a script.
LEMMA OutputAdvances ==
    ASSUME ClientTypeOK, NEW c \in Conns, NEW s \in States,
           SameWatch(st[c], s), TakeOutput(c, s)
    PROVE  Advance(c)
<1>1. room' \in [Conns -> 0..Units]
  BY ClientAssumption DEF ClientTypeOK, TakeOutput
<1> QED
  BY <1>1 DEF Advance, TakeOutput

\* The routes of handle_setup() are moves.
LEMMA SetupMoves ==
    ASSUME NEW c \in Conns, NEW outcome, Setup(c, outcome),
           \/ st[c] \in {"REQ_LINE", "REQ_HEADERS"}
           \/ st[c] \in Receiving /\ outcome = "timeout"
    PROVE  Move(c)
BY DEF Setup, Move, Receiving

\* Every handler makes one move and gives one verdict.
LEMMA HandlerMoves ==
    ASSUME ClientTypeOK, NEW c \in Conns, Handle(c)
    PROVE  Dispatch(c) /\ Move(c) /\ Verdict(c) /\ UNCHANGED <<objs, clientFd, reserveFd>>
<1> USE DEF GiveUp, Served, Stamp, Unserved, Verdict, Del
<1>1. CASE HandleRequest(c)
  <2>1. CASE GiveUp(c)
    BY <1>1, <2>1 DEF HandleRequest, Move
  <2>2. CASE Served(c) /\ (Progress(c, st[c]) \/ NextLines(c))
    <3>0. st[c] \in {"REQ_LINE", "REQ_HEADERS"} /\ st[c] \in States
      BY <1>1 DEF HandleRequest, States, Receiving
    <3>1. ASSUME Progress(c, st[c]) PROVE Advance(c)
      BY <3>0, <3>1, ProgressAdvances DEF SameWatch
    <3>2. ASSUME NextLines(c) PROVE Advance(c)
      <4>1. room' \in [Conns -> 0..Units]
        BY <3>2, ClientAssumption DEF NextLines, Enter, ClientTypeOK
      <4>2. SameWatch(st[c], "REQ_HEADERS") /\ "REQ_HEADERS" \in States
        BY <3>0 DEF SameWatch, States, Receiving
      <4> QED
        BY <3>2, <4>1, <4>2 DEF NextLines, Enter, Advance
    <3>3. Advance(c)
      BY <2>2, <3>1, <3>2
    <3> QED
      BY <1>1, <2>2, <3>3 DEF HandleRequest, Move
  <2>3. CASE Served(c) /\ \E outcome \in {"parsed", "error"} : Setup(c, outcome)
    <3>1. Move(c)
      BY <1>1, <2>3, SetupMoves DEF HandleRequest, Receiving
    <3> QED
      BY <1>1, <2>3, <3>1 DEF HandleRequest
  <2> QED
    BY <1>1, <2>1, <2>2, <2>3 DEF HandleRequest
<1>2. CASE HandlePost(c)
  <2>1. ASSUME Progress(c, "REQ_BODY") PROVE Advance(c)
    BY <1>2, <2>1, ProgressAdvances DEF HandlePost, SameWatch, States, Receiving
  <2> QED
    BY <1>2, <2>1 DEF HandlePost, Move, Receiving
<1>3. CASE HandleCgiBody(c)
  BY <1>3 DEF HandleCgiBody, Move, FeedScript
<1>4. CASE HandleCgiInput(c)
  <2>1. ASSUME Progress(c, "CGI_TRANSMIT_BODY") PROVE Advance(c)
    BY <1>4, <2>1, ProgressAdvances DEF HandleCgiInput, SameWatch, States
  <2> QED
    BY <1>4, <2>1 DEF HandleCgiInput, Move
<1>5. CASE HandleCgiHeaders(c)
  <2>1. ASSUME NEW s \in {"CGI_HEADERS", "CGI_BODY"}, TakeOutput(c, s) PROVE Advance(c)
    BY <1>5, <2>1, OutputAdvances DEF HandleCgiHeaders, SameWatch, States
  <2>2. ASSUME Enter(c, "CGI_BODY"),
               UNCHANGED <<locCgi, pipeVars, kernelVars, registryVars, childVars>>
        PROVE  Advance(c)
    <3>1. room' \in [Conns -> 0..Units]
      BY <2>2, ClientAssumption DEF Enter, ClientTypeOK
    <3>2. SameWatch(st[c], "CGI_BODY") /\ "CGI_BODY" \in States
      BY <1>5 DEF HandleCgiHeaders, SameWatch, States
    <3> QED
      BY <2>2, <3>1, <3>2 DEF Enter, Advance
  <2> QED
    BY <1>5, <2>1, <2>2 DEF HandleCgiHeaders, Move
<1>6. CASE HandleCgiOutput(c)
  <2>1. ASSUME TakeOutput(c, "CGI_BODY") PROVE Advance(c)
    BY <1>6, <2>1, OutputAdvances DEF HandleCgiOutput, SameWatch, States
  <2> QED
    BY <1>6, <2>1 DEF HandleCgiOutput, Move
<1>7. CASE HandleDiscard(c)
  <2>1. ASSUME Progress(c, "DISCARD_BODY") PROVE Advance(c)
    BY <1>7, <2>1, ProgressAdvances DEF HandleDiscard, SameWatch, States
  <2> QED
    BY <1>7, <2>1 DEF HandleDiscard, Move
<1>8. CASE HandleResponse(c)
  <2>1. ASSUME Progress(c, "RESPONSE") PROVE Advance(c)
    BY <1>8, <2>1, ProgressAdvances DEF HandleResponse, SameWatch, States
  <2> QED
    BY <1>8, <2>1 DEF HandleResponse, Move
<1> QED
  BY <1>1, <1>2, <1>3, <1>4, <1>5, <1>6, <1>7, <1>8 DEF Handle

\* So does the timeout.
LEMMA TimeoutMoves ==
    ASSUME NEW c \in Conns, HandleTimeout(c)
    PROVE  Move(c) /\ Verdict(c)
<1>1. CASE st[c] \in Receiving /\ Served(c) /\ Setup(c, "timeout")
  BY <1>1, SetupMoves DEF Verdict, Served, Stamp
<1>2. CASE ~(st[c] \in Receiving /\ Served(c) /\ Setup(c, "timeout"))
  BY <1>2 DEF HandleTimeout, Move, Verdict, Served, Stamp, GiveUp, Del
<1> QED
  BY <1>1, <1>2

-----------------------------------------------------------------------------
(* Type correctness                                                           *)

\* The variables that a move may change, well typed.
MoveTypeOK ==
    /\ KernelTypeOK
    /\ /\ connections \in [Fds -> Objs \cup {Null}]
       /\ epollPtr \in [Fds -> Objs \cup {Null}]
       /\ interest \in [Fds -> {"IN", "OUT", "NONE"}]
       /\ fd \in [Objs -> Fds \cup {NoFd}]
    /\ /\ children \subseteq Pids
       /\ left \in [Pids -> Nat]
       /\ signalled \in [Pids -> BOOLEAN]
    /\ /\ st \in [Conns -> States]
       /\ locCgi \in [Conns -> BOOLEAN]
       /\ room \in [Conns -> 0..Units]
    /\ /\ stdinFd \in [Conns -> Fds \cup {NoFd}]
       /\ stdoutFd \in [Conns -> Fds \cup {NoFd}]
       /\ cgiPid \in [Conns -> Pids \cup {NoPid}]

\* What an open or a pipe returns was free, and is a descriptor.
LEMMA NextFreeIsFree ==
    ASSUME NEW n, NEW f \in NextFree(n)
    PROVE  f \in Free /\ f \in Fds /\ f \notin openFds
BY DEF NextFree, Nth, Free

LEMMA RearmType ==
    ASSUME MoveTypeOK, NEW o \in Objs, NEW e \in {"IN", "OUT", "NONE"},
           NEW f \in Fds \cup {NoFd}, Rearm(o, e, f)
    PROVE  /\ connections' \in [Fds -> Objs \cup {Null}]
           /\ epollPtr' \in [Fds -> Objs \cup {Null}]
           /\ interest' \in [Fds -> {"IN", "OUT", "NONE"}]
           /\ fd' \in [Objs -> Fds \cup {NoFd}]
BY DEF MoveTypeOK, Rearm

LEMMA EnterType ==
    ASSUME MoveTypeOK, NEW c \in Conns, NEW s \in States, Enter(c, s)
    PROVE  st' \in [Conns -> States] /\ room' \in [Conns -> 0..Units]
BY ClientAssumption DEF MoveTypeOK, Enter

LEMMA KillChildrenType ==
    ASSUME MoveTypeOK, NEW P, KillChildren(P)
    PROVE  children' \subseteq Pids /\ left' \in [Pids -> Nat] /\ signalled' \in [Pids -> BOOLEAN]
BY DEF MoveTypeOK, KillChildren

LEMMA MoveType ==
    ASSUME MoveTypeOK, NEW c \in Conns, clientFd[c] \in Fds \cup {NoFd}, Move(c)
    PROVE  MoveTypeOK'
<1> USE DEF kernelVars, registryVars, childVars, pipeVars, flowVars
<1>0. c \in Objs
  BY DEF Objs
<1>1. CASE KeepRequest
  BY <1>1 DEF KeepRequest, MoveTypeOK, KernelTypeOK
<1>2. CASE Advance(c)
  BY <1>2 DEF Advance, MoveTypeOK, KernelTypeOK
<1>3. CASE Answer(c)
  <2>1. st' \in [Conns -> States] /\ room' \in [Conns -> 0..Units]
    BY <1>3, EnterType DEF Answer, States
  <2>2. locCgi' \in [Conns -> BOOLEAN] /\ interest' \in [Fds -> {"IN", "OUT", "NONE"}]
    BY <1>3 DEF Answer, Mod, MoveTypeOK
  <2> QED
    BY <1>3, <2>1, <2>2 DEF Answer, Mod, MoveTypeOK, KernelTypeOK
<1>4. ASSUME NEW s \in {"DISCARD_BODY", "REQ_BODY"}, AwaitBody(c, s)
      PROVE  MoveTypeOK'
  <2>1. st' \in [Conns -> States] /\ room' \in [Conns -> 0..Units]
    BY <1>4, EnterType DEF AwaitBody, States, Receiving
  <2> QED
    BY <1>4, <2>1 DEF AwaitBody, MoveTypeOK, KernelTypeOK
<1>5. ASSUME NEW body \in BOOLEAN, SpawnCgi(c, body)
      PROVE  MoveTypeOK'
  <2>1. PICK out \in NextFree(0), in \in NextFree(3), p \in Pids :
               /\ procs' = [procs EXCEPT ![p] = "running"]
               /\ serves' = [serves EXCEPT ![p] = c]
               /\ cgiPid' = [cgiPid EXCEPT ![c] = p]
               /\ TrackChild(p)
               /\ stdoutFd' = [stdoutFd EXCEPT ![c] = out]
               /\ stdinFd' = [stdinFd EXCEPT ![c] = IF body THEN in ELSE NoFd]
               /\ openFds' = openFds \cup {out} \cup (IF body THEN {in} ELSE {})
               /\ Enter(c, IF body THEN "CGI_TRANSMIT_BODY" ELSE "CGI_HEADERS")
               /\ IF body THEN Rearm(c, "OUT", in) ELSE Rearm(c, "IN", out)
               /\ locCgi' = [locCgi EXCEPT ![c] = TRUE]
               /\ UNCHANGED backlog
    BY <1>5 DEF SpawnCgi
  <2>2. out \in Fds /\ in \in Fds
    BY NextFreeIsFree
  <2>3. st' \in [Conns -> States] /\ room' \in [Conns -> 0..Units]
    BY <2>1, EnterType DEF States
  <2>4. /\ connections' \in [Fds -> Objs \cup {Null}]
        /\ epollPtr' \in [Fds -> Objs \cup {Null}]
        /\ interest' \in [Fds -> {"IN", "OUT", "NONE"}]
        /\ fd' \in [Objs -> Fds \cup {NoFd}]
    BY <1>0, <2>1, <2>2, RearmType
  <2>5. KernelTypeOK'
    BY <2>1, <2>2 DEF KernelTypeOK, MoveTypeOK
  <2>6. children' \subseteq Pids /\ left' \in [Pids -> Nat] /\ signalled' \in [Pids -> BOOLEAN]
    BY <2>1, LoopAssumption DEF TrackChild, MoveTypeOK
  <2>7. /\ locCgi' \in [Conns -> BOOLEAN]
        /\ stdinFd' \in [Conns -> Fds \cup {NoFd}]
        /\ stdoutFd' \in [Conns -> Fds \cup {NoFd}]
        /\ cgiPid' \in [Conns -> Pids \cup {NoPid}]
    BY <2>1, <2>2 DEF MoveTypeOK
  <2> QED
    BY <2>3, <2>4, <2>5, <2>6, <2>7 DEF MoveTypeOK
<1>6. CASE FeedScript(c)
  <2>1. st' \in [Conns -> States]
    BY <1>6 DEF FeedScript, States, MoveTypeOK
  <2>2. stdinFd[c] \in Fds \cup {NoFd}
    BY DEF MoveTypeOK
  <2> QED
    BY <1>0, <1>6, <2>1, <2>2, RearmType DEF FeedScript, MoveTypeOK, KernelTypeOK
<1>7. CASE FetchMoreBody(c)
  <2>1. st' \in [Conns -> States] /\ room' \in [Conns -> 0..Units]
    BY <1>7, ClientAssumption DEF FetchMoreBody, States, Receiving, MoveTypeOK
  <2> QED
    BY <1>0, <1>7, <2>1, RearmType DEF FetchMoreBody, MoveTypeOK, KernelTypeOK
<1>8. CASE CloseStdin(c)
  <2>1. st' \in [Conns -> States] /\ room' \in [Conns -> 0..Units]
    BY <1>8, EnterType DEF CloseStdin, States
  <2>2. stdoutFd[c] \in Fds \cup {NoFd}
    BY DEF MoveTypeOK
  <2>3. stdinFd' \in [Conns -> Fds \cup {NoFd}]
    BY <1>8 DEF CloseStdin, MoveTypeOK
  <2>4. KernelTypeOK'
    BY <1>8 DEF CloseStdin, MoveTypeOK, KernelTypeOK
  <2> QED
    BY <1>0, <1>8, <2>1, <2>2, <2>3, <2>4, RearmType DEF CloseStdin, MoveTypeOK
<1>9. ASSUME NEW kill \in BOOLEAN, LeaveCgi(c, kill)
      PROVE  MoveTypeOK'
  <2>1. st' \in [Conns -> States] /\ room' \in [Conns -> 0..Units]
    BY <1>9, EnterType DEF LeaveCgi, States
  <2>2. children' \subseteq Pids /\ left' \in [Pids -> Nat] /\ signalled' \in [Pids -> BOOLEAN]
    BY <1>9, KillChildrenType DEF LeaveCgi
  <2>3. cgiPid' \in [Conns -> Pids \cup {NoPid}]
    BY <1>9 DEF LeaveCgi, MoveTypeOK
  <2> QED
    BY <1>0, <1>9, <2>1, <2>2, <2>3, RearmType DEF LeaveCgi, MoveTypeOK, KernelTypeOK
<1> QED
  BY <1>1, <1>2, <1>3, <1>4, <1>5, <1>6, <1>7, <1>8, <1>9 DEF Move

\* Dispatching one event and sweeping one connection are type correct.
LEMMA HandleType ==
    ASSUME TypeOK, NEW c \in Conns, Handle(c)
    PROVE  TypeOK'
<1>1. Dispatch(c) /\ Move(c) /\ Verdict(c) /\ UNCHANGED <<objs, clientFd, reserveFd>>
  BY HandlerMoves DEF TypeOK
<1>2. MoveTypeOK'
  BY <1>1, MoveType DEF TypeOK, MoveTypeOK, LoopTypeOK, ClientTypeOK
<1>3. age' \in [Conns -> 0..(Timeout + 1)] /\ deletionQueue' \subseteq Objs
  BY <1>1, ClientAssumption DEF Verdict, TypeOK, LoopTypeOK, ClientTypeOK, Objs
<1> QED
  BY <1>1, <1>2, <1>3 DEF Dispatch, TypeOK, MoveTypeOK, LoopTypeOK, ClientTypeOK

LEMMA SweepType ==
    ASSUME TypeOK, SweepOne
    PROVE  TypeOK'
<1>1. PICK c \in sweep :
        /\ HandleTimeout(c)
        /\ IF connections' = connections THEN sweep' = sweep \ {c}
                                         ELSE sweep' \in SUBSET (sweep \ {c})
        /\ UNCHANGED <<phase, batch, reserveFd, objs, clientFd>>
  BY DEF SweepOne
<1>2. c \in Conns /\ sweep' \subseteq Conns
  BY <1>1 DEF TypeOK, LoopTypeOK
<1>3. Move(c) /\ Verdict(c)
  BY <1>1, <1>2, TimeoutMoves
<1>4. MoveTypeOK'
  BY <1>2, <1>3, MoveType DEF TypeOK, MoveTypeOK, LoopTypeOK, ClientTypeOK
<1>5. age' \in [Conns -> 0..(Timeout + 1)] /\ deletionQueue' \subseteq Objs
  BY <1>2, <1>3, ClientAssumption DEF Verdict, TypeOK, LoopTypeOK, ClientTypeOK, Objs
<1> QED
  BY <1>1, <1>2, <1>4, <1>5 DEF TypeOK, MoveTypeOK, LoopTypeOK, ClientTypeOK

\* Every outcome of accept() is type correct.
LEMMA ReserveTaken ==
    ASSUME TypeOK, AcceptOutOfFds
    PROVE  /\ OtherConnectionsKept
           /\ reserveFd' \in {NoFd} \cup Free \cup {reserveFd}
           /\ openFds' = (openFds \ {reserveFd}) \cup ({reserveFd'} \ {NoFd})
           /\ backlog' \in {backlog, backlog - 1}
<1>1. PICK tmp \in Opens(Released) :
        Shed(Released, tmp) /\ Reclaim(With(Released, tmp) \ {tmp})
  BY DEF AcceptOutOfFds
<1>2. tmp \notin Released
  BY KernelAssumption DEF Opens, Nth, Released, TypeOK, KernelTypeOK, NoFd
<1>3. With(Released, tmp) \ {tmp} = Released
  BY <1>2 DEF With
<1>4. PICK f \in Opens(Released) : reserveFd' = f /\ openFds' = With(Released, f)
  BY <1>1, <1>3 DEF Reclaim
<1>5. f \in {NoFd} \cup Free \cup {reserveFd}
  BY DEF Opens, Nth, Released, Free
<1> QED
  BY <1>1, <1>4, <1>5 DEF AcceptOutOfFds, With, Released, Shed

\* Unless the system's table is full, the client is closed and the reserve is back:
\* the descriptor released serves the one and then the other.
LEMMA ReserveComesBack ==
    ASSUME "enfile" \notin Faults, TypeOK, reserveFd # NoFd, AcceptOutOfFds
    PROVE  reserveFd' # NoFd /\ backlog' = backlog - 1
<1>1. reserveFd \in Fds \ Released /\ NoFd \notin Fds
  BY KernelAssumption DEF TypeOK, LoopTypeOK, Released, NoFd
<1>2. \A f \in Opens(Released) : f \in Fds \ Released
  BY <1>1 DEF Opens, Nth
<1>3. PICK tmp \in Opens(Released) :
        Shed(Released, tmp) /\ Reclaim(With(Released, tmp) \ {tmp})
  BY DEF AcceptOutOfFds
<1>4. With(Released, tmp) \ {tmp} = Released
  BY <1>2 DEF With
<1>5. reserveFd' \in Opens(Released)
  BY <1>3, <1>4 DEF Reclaim
<1> QED
  BY <1>1, <1>2, <1>3, <1>5 DEF Shed

LEMMA ListenerType ==
    ASSUME TypeOK, HandleListener
    PROVE  TypeOK'
<1> USE DEF kernelVars, registryVars, childVars, pipeVars, flowVars
<1> USE DEF TypeOK, KernelTypeOK, LoopTypeOK, ClientTypeOK
<1>0. Listener \in Objs /\ Dispatch(Listener)
  BY DEF HandleListener, Objs
<1>1. CASE Del(Listener) /\ KeepRequest /\ UNCHANGED <<objs, clientFd, age, reserveFd>>
  BY <1>0, <1>1 DEF Dispatch, Del, KeepRequest
<1>2. ASSUME backlog > 0, NEW f \in NextFree(0), AcceptClient(f)
      PROVE  TypeOK'
  <2>1. PICK c \in Conns \ objs : Construct(c, f) /\ Add(c, f)
    BY <1>2 DEF AcceptClient
  <2>2. f \in Fds /\ c \in Objs
    BY NextFreeIsFree DEF Objs
  <2>3. /\ connections' \in [Fds -> Objs \cup {Null}]
        /\ epollPtr' \in [Fds -> Objs \cup {Null}]
        /\ interest' \in [Fds -> {"IN", "OUT", "NONE"}]
        /\ fd' \in [Objs -> Fds \cup {NoFd}]
    BY <2>1, <2>2 DEF Add
  <2>4. /\ objs' \subseteq Objs
        /\ clientFd' \in [Conns -> Fds \cup {NoFd}]
        /\ age' \in [Conns -> 0..(Timeout + 1)]
        /\ room' \in [Conns -> 0..Units]
    BY <2>1, <2>2, ClientAssumption DEF Construct
  <2>5. openFds' \subseteq Fds /\ backlog' \in Nat
    BY <1>2, <2>2 DEF AcceptClient
  <2> QED
    BY <1>0, <1>2, <2>1, <2>3, <2>4, <2>5 DEF AcceptClient, Construct, Dispatch
<1>3. CASE backlog > 0 /\ DropClient
  BY <1>0, <1>3 DEF DropClient, OtherConnectionsKept, Dispatch
<1>4. CASE backlog > 0 /\ AcceptOutOfFds
  <2>1. reserveFd' \in Fds \cup {NoFd} /\ openFds' \subseteq Fds
    BY ReserveTaken, <1>4 DEF Free
  <2>2. backlog' \in Nat
    BY ReserveTaken, <1>4
  <2> QED
    BY <1>0, <1>4, <2>1, <2>2, ReserveTaken DEF OtherConnectionsKept, Dispatch
<1> QED
  BY <1>1, <1>2, <1>3, <1>4 DEF HandleListener

\* clear() is type correct.
LEMMA ClearType ==
    ASSUME TypeOK, Clear
    PROVE  TypeOK'
<1> USE DEF TypeOK, KernelTypeOK, LoopTypeOK, ClientTypeOK
<1>1. /\ connections' \in [Fds -> Objs \cup {Null}]
      /\ epollPtr' \in [Fds -> Objs \cup {Null}]
      /\ interest' \in [Fds -> {"IN", "OUT", "NONE"}]
      /\ fd' \in [Objs -> Fds \cup {NoFd}]
  BY DEF Clear, Unregister
<1>2. children' \subseteq Pids /\ left' \in [Pids -> Nat] /\ signalled' \in [Pids -> BOOLEAN]
  BY KillChildrenType DEF Clear, Destroy, MoveTypeOK
<1>3. openFds' \subseteq Fds /\ objs' \subseteq Objs /\ serves' \in [Pids -> Conns \cup {Null}]
  BY DEF Clear, Destroy
<1>4. /\ clientFd' \in [Conns -> Fds \cup {NoFd}]
      /\ stdinFd' \in [Conns -> Fds \cup {NoFd}]
      /\ stdoutFd' \in [Conns -> Fds \cup {NoFd}]
      /\ cgiPid' \in [Conns -> Pids \cup {NoPid}]
  BY DEF Clear, Destroy
<1>5. st' \in [Conns -> States] /\ locCgi' \in [Conns -> BOOLEAN]
  <2>1. "REQ_LINE" \in States
    BY DEF States, Receiving
  <2> QED
    BY <2>1 DEF Clear, Destroy
<1>6. age' \in [Conns -> 0..(Timeout + 1)] /\ room' \in [Conns -> 0..Units]
  <2>1. 0 \in 0..(Timeout + 1) /\ 0 \in 0..Units
    BY ClientAssumption
  <2> QED
    BY <2>1 DEF Clear, Destroy
<1> QED
  BY <1>1, <1>2, <1>3, <1>4, <1>5, <1>6 DEF Clear

\* reap_children() is type correct.
LEMMA ReapType ==
    ASSUME TypeOK, Reap
    PROVE  TypeOK'
<1> USE DEF TypeOK, KernelTypeOK, LoopTypeOK, ClientTypeOK
<1> USE DEF kernelVars, registryVars, pipeVars, flowVars
<1>1. children' \subseteq Pids /\ phase' = "wait"
  BY DEF Reap, ReapChildren
<1>2. left' \in [Pids -> Nat] /\ signalled' \in [Pids -> BOOLEAN]
  BY LoopAssumption DEF Reap, ReapChildren
<1>3. procs' \in [Pids -> {"none", "running", "zombie"}] /\ serves' \in [Pids -> Conns \cup {Null}]
  BY DEF Reap, ReapChildren
<1> QED
  BY <1>1, <1>2, <1>3 DEF Reap, ReapChildren

\* The variables keep their types, whatever the order of events, timeouts,
\* deletions and signals: in particular a registration, a deadline or a timestamp
\* is never computed from a descriptor, pid or age outside its range.
THEOREM TypeCorrect == Spec => []TypeOK
<1> USE DEF kernelVars, cycleVars, registryVars, childVars, pipeVars, flowVars
<1>1. Init => TypeOK
  BY KernelAssumption, ClientAssumption
  DEF Init, KernelInit, LoopInit, ClientInit, TypeOK, KernelTypeOK, LoopTypeOK,
      ClientTypeOK, Objs, States, Receiving
<1>2. TypeOK /\ [Next]_vars => TypeOK'
  <2> SUFFICES ASSUME TypeOK, [Next]_vars PROVE TypeOK'
    OBVIOUS
  <2> USE DEF TypeOK, KernelTypeOK, LoopTypeOK, ClientTypeOK
  <2>1. CASE EpollWait
    BY <2>1 DEF EpollWait, Reportable
  <2>2. CASE HandleClient
    BY <2>2, HandleType DEF HandleClient
  <2>3. CASE HandleListener
    BY <2>3, ListenerType
  <2>4. CASE BeginSweep
    BY <2>4 DEF BeginSweep, Expired
  <2>5. CASE SweepOne
    BY <2>5, SweepType
  <2>6. CASE Clear
    BY <2>6, ClearType
  <2>7. CASE Reap
    BY <2>7, ReapType
  <2>8. CASE Shutdown
    BY <2>8 DEF Shutdown, StopChildren
  <2>9. CASE Connect
    BY <2>9 DEF Connect, EnvironmentKept
  <2>10. CASE ScriptExit
    BY <2>10 DEF ScriptExit, EnvironmentKept
  <2>11. CASE Tick
    <3>1. age' \in [Conns -> 0..(Timeout + 1)]
      BY <2>11, ClientAssumption DEF Tick
    <3>2. left' \in [Pids -> Nat]
      BY <2>11 DEF Tick
    <3> QED
      BY <2>11, <3>1, <3>2 DEF Tick, EnvironmentKept
  <2>12. CASE UNCHANGED vars
    BY <2>12 DEF vars
  <2> QED
    BY <2>1, <2>2, <2>3, <2>4, <2>5, <2>6, <2>7, <2>8, <2>9, <2>10, <2>11, <2>12
    DEF Next, Loop, Stopped
<1> QED
  BY <1>1, <1>2, PTL DEF Spec

-----------------------------------------------------------------------------
(* The safety of a running server: Sound is inductive.                        *)

\* The parts of Sound a move can disturb.
Wired ==
    /\ RegistryMatches /\ FdsNotShared /\ InterestMatchesState
    /\ OwnedOpen /\ FieldsMatchState

-----------------------------------------------------------------------------
(* Where the object of a connection is registered                             *)

\* A live connection is watched under a descriptor of its own.
LEMMA WatchedIsHeld ==
    ASSUME TypeOK, Running, Wired, NEW c \in objs \cap Conns
    PROVE  fd[c] \in Held(c) /\ fd[c] \in Fds
<1>1. st[c] \in States /\ fd[c] \in Fds
  BY DEF TypeOK, ClientTypeOK, Wired, RegistryMatches
<1>2. NoFd \notin Fds
  BY KernelAssumption DEF NoFd
<1>3. fd[c] \in {clientFd[c], stdinFd[c], stdoutFd[c]}
  BY <1>1 DEF Wired, InterestMatchesState, States, Receiving
<1> QED
  BY <1>1, <1>2, <1>3 DEF Held

\* A descriptor a connection holds is watched for no other object.
LEMMA HeldIsNotOthers ==
    ASSUME TypeOK, Running, Wired, NEW c \in objs \cap Conns, NEW f \in Held(c),
           NEW o \in objs \ {c}
    PROVE  fd[o] # f
<1>1. CASE o = Listener
  BY <1>1 DEF Wired, FdsNotShared
<1>2. CASE o # Listener
  <2>1. o \in objs \cap Conns
    BY <1>2 DEF TypeOK, ClientTypeOK, Objs
  <2>2. fd[o] \in Held(o)
    BY <2>1, WatchedIsHeld
  <2>3. Held(c) \cap Held(o) = {}
    BY <2>1 DEF Wired, FdsNotShared
  <2> QED
    BY <2>2, <2>3
<1> QED
  BY <1>1, <1>2

\* A descriptor that is not open is watched for no object.
LEMMA ClosedIsNotWatched ==
    ASSUME TypeOK, Running, Wired, NEW f, f \notin openFds, NEW o \in objs
    PROVE  fd[o] # f
<1>1. CASE o = Listener
  BY <1>1 DEF Wired, OwnedOpen
<1>2. CASE o # Listener
  <2>1. o \in objs \cap Conns
    BY <1>2 DEF TypeOK, ClientTypeOK, Objs
  <2> QED
    BY <2>1, WatchedIsHeld DEF Wired, OwnedOpen
<1> QED
  BY <1>1, <1>2

\* rearm() to a descriptor no other object is watched under keeps map, epoll set
\* and objects together, and leaves the other objects' registrations alone.
LEMMA RearmKeepsRegistry ==
    ASSUME TypeOK, Running, RegistryMatches, NEW o \in objs, NEW e, NEW f \in Fds,
           \A x \in objs \ {o} : fd[x] # f,
           Rearm(o, e, f), objs' = objs
    PROVE  /\ RegistryMatches'
           /\ fd'[o] = f /\ interest'[f] = e
           /\ \A x \in objs \ {o} : fd'[x] = fd[x] /\ interest'[fd[x]] = interest[fd[x]]
<1> USE DEF TypeOK, LoopTypeOK, ClientTypeOK
<1>1. o \in Objs /\ objs \subseteq Objs /\ Null \notin Objs
  BY KernelAssumption DEF Objs
<1>2. /\ \A x \in objs : fd[x] \in Fds /\ connections[fd[x]] = x /\ epollPtr[fd[x]] = x
      /\ \A g \in Fds : connections[g] # Null => connections[g] \in objs /\ fd[connections[g]] = g
      /\ \A g \in Fds : epollPtr[g] # Null => epollPtr[g] \in objs /\ fd[epollPtr[g]] = g
  BY DEF RegistryMatches
<1>3. fd' = [fd EXCEPT ![o] = f]
  BY DEF Rearm
<1>4. /\ fd'[o] = f
      /\ \A x \in objs \ {o} : fd'[x] = fd[x] /\ fd[x] \notin {fd[o], f}
  BY <1>1, <1>2, <1>3
<1>5. \A g \in Fds : interest'[g] = IF g = f THEN e ELSE IF g = fd[o] THEN "NONE" ELSE interest[g]
  BY DEF Rearm
<1>6. \A g \in Fds : connections'[g] = IF g = f THEN o ELSE IF g = fd[o] THEN Null ELSE connections[g]
  BY DEF Rearm
<1>7. \A g \in Fds : epollPtr'[g] = IF g = f THEN o ELSE IF g = fd[o] THEN Null ELSE epollPtr[g]
  BY DEF Rearm
<1>8. \A x \in objs : fd'[x] \in Fds /\ connections'[fd'[x]] = x /\ epollPtr'[fd'[x]] = x
  BY <1>2, <1>4, <1>6, <1>7
<1>9. \A g \in Fds : connections'[g] # Null => connections'[g] \in objs /\ fd'[connections'[g]] = g
  BY <1>2, <1>4, <1>6
<1>10. \A g \in Fds : epollPtr'[g] # Null => epollPtr'[g] \in objs /\ fd'[epollPtr'[g]] = g
  BY <1>2, <1>4, <1>7
<1> QED
  BY <1>2, <1>4, <1>5, <1>8, <1>9, <1>10 DEF RegistryMatches

-----------------------------------------------------------------------------
(* The moves                                                                  *)

\* What a move leaves alone around it.
Around == UNCHANGED <<phase, objs, clientFd, reserveFd>>

\* Descriptors and registrations stay as they are.
LEMMA QuietMoveWired ==
    ASSUME TypeOK, Running, Wired, Around, NEW c \in objs \cap Conns,
           UNCHANGED <<pipeVars, openFds, registryVars>>,
           NEW s \in States, st' = [st EXCEPT ![c] = s],
           \/ SameWatch(st[c], s) /\ locCgi' = locCgi
           \/ /\ st[c] \in Receiving /\ s \in {"DISCARD_BODY", "REQ_BODY"}
              /\ locCgi' = [locCgi EXCEPT ![c] = FALSE]
    PROVE  Wired'
<1> USE DEF Around, pipeVars, registryVars, TypeOK, ClientTypeOK
<1>1. \A d \in Conns : Held(d)' = Held(d)
  BY DEF Held
<1>2. RegistryMatches'
  BY DEF Wired, RegistryMatches, Running
<1>3. FdsNotShared'
  BY <1>1 DEF Wired, FdsNotShared, Running
<1>4. OwnedOpen'
  BY <1>1 DEF Wired, OwnedOpen
<1>5. InterestMatchesState'
  BY DEF Wired, InterestMatchesState, SameWatch, Receiving
<1>6. FieldsMatchState'
  BY <1>1 DEF Wired, FieldsMatchState, SameWatch, Receiving
<1> QED
  BY <1>2, <1>3, <1>4, <1>5, <1>6 DEF Wired

\* The events change, the descriptor does not.
LEMMA AnswerWired ==
    ASSUME TypeOK, Running, Wired, Around, NEW c \in objs \cap Conns,
           st[c] \in Receiving \cup {"DISCARD_BODY"}, Answer(c)
    PROVE  Wired'
<1> USE DEF Around, pipeVars, kernelVars, TypeOK, ClientTypeOK
<1>1. /\ \A d \in Conns : Held(d)' = Held(d)
      /\ UNCHANGED <<connections, epollPtr, fd, openFds, stdinFd, stdoutFd>>
  BY DEF Held, Answer, Mod
<1>2. RegistryMatches'
  BY <1>1 DEF Wired, RegistryMatches, Running
<1>3. FdsNotShared'
  BY <1>1 DEF Wired, FdsNotShared, Running
<1>4. OwnedOpen'
  BY <1>1 DEF Wired, OwnedOpen
<1>5. InterestMatchesState'
  <2>1. fd[c] \in Fds /\ fd[c] = clientFd[c] /\ interest'[fd[c]] = "OUT" /\ st'[c] = "RESPONSE"
    BY WatchedIsHeld DEF Wired, InterestMatchesState, Answer, Mod, Enter, LoopTypeOK
  <2>2. ASSUME NEW d \in objs \cap Conns, d # c
        PROVE  fd'[d] = fd[d] /\ interest'[fd[d]] = interest[fd[d]] /\ st'[d] = st[d]
    <3>1. fd[d] # fd[c]
      BY <2>2 DEF Wired, RegistryMatches
    <3> QED
      BY <1>1, <2>2, <3>1, WatchedIsHeld DEF Answer, Mod, Enter, LoopTypeOK
  <2> QED
    BY <1>1, <2>1, <2>2 DEF Wired, InterestMatchesState, Receiving
<1>6. FieldsMatchState'
  BY <1>1 DEF Wired, FieldsMatchState, Answer, Enter
<1> QED
  BY <1>2, <1>3, <1>4, <1>5, <1>6 DEF Wired

\* The registration moves between descriptors the connection holds and keeps: to
\* the script's stdin and back while the body is relayed, to the client's socket
\* when the script is done.
LEMMA RelayMoveWired ==
    ASSUME TypeOK, Running, Wired, Around, NEW c \in objs \cap Conns,
           UNCHANGED <<stdinFd, stdoutFd, openFds, locCgi>>,
           NEW s, NEW e, NEW f,
           \/ s = "CGI_TRANSMIT_BODY" /\ e = "OUT" /\ f = stdinFd[c]
           \/ s = "REQ_BODY" /\ e = "IN" /\ f = clientFd[c]
           \/ s = "RESPONSE" /\ e = "OUT" /\ f = clientFd[c],
           s \in {"CGI_TRANSMIT_BODY", "REQ_BODY"}
              => stdinFd[c] # NoFd /\ stdoutFd[c] # NoFd,
           st' = [st EXCEPT ![c] = s], Rearm(c, e, f)
    PROVE  Wired'
<1> USE DEF Around, TypeOK, ClientTypeOK
<1>1. \A d \in Conns : Held(d)' = Held(d)
  BY DEF Held
<1>2. f \in Held(c) /\ f \in Fds
  BY DEF Held, Wired, FieldsMatchState
<1>3. \A x \in objs \ {c} : fd[x] # f
  BY <1>2, HeldIsNotOthers
<1>4. /\ RegistryMatches'
      /\ fd'[c] = f /\ interest'[f] = e
      /\ \A x \in objs \ {c} : fd'[x] = fd[x] /\ interest'[fd[x]] = interest[fd[x]]
  BY <1>2, <1>3, RearmKeepsRegistry DEF Wired
<1>5. Listener \notin Conns
  BY KernelAssumption
<1>6. FdsNotShared'
  BY <1>1, <1>4, <1>5 DEF Wired, FdsNotShared, Running
<1>7. OwnedOpen'
  BY <1>1, <1>4, <1>5 DEF Wired, OwnedOpen
<1>8. InterestMatchesState'
  BY <1>4 DEF Wired, InterestMatchesState, Receiving
<1>9. FieldsMatchState'
  BY <1>1 DEF Wired, FieldsMatchState
<1> QED
  BY <1>4, <1>6, <1>7, <1>8, <1>9 DEF Wired

\* The script's stdin is closed and the registration moves to its stdout.
LEMMA CloseStdinWired ==
    ASSUME TypeOK, Running, Wired, Around, NEW c \in objs \cap Conns,
           st[c] = "CGI_TRANSMIT_BODY", CloseStdin(c)
    PROVE  Wired'
<1> USE DEF Around, TypeOK, ClientTypeOK
<1>1. /\ stdinFd' = [stdinFd EXCEPT ![c] = NoFd]
      /\ openFds' = openFds \ {stdinFd[c]}
      /\ UNCHANGED <<stdoutFd, locCgi>>
      /\ st' = [st EXCEPT ![c] = "CGI_HEADERS"]
      /\ Rearm(c, "IN", stdoutFd[c])
  BY DEF CloseStdin, Enter, Wired, InterestMatchesState
<1>2. /\ \A d \in Conns \ {c} : Held(d)' = Held(d)
      /\ stdinFd[c] \in Held(c) /\ stdoutFd[c] \in Held(c) /\ stdoutFd[c] \in Fds
      /\ Held(c)' = Held(c) \ {stdinFd[c]}
  <2>1. stdinFd[c] # NoFd /\ stdoutFd[c] # NoFd
    BY DEF Wired, FieldsMatchState
  <2>2. stdinFd[c] \notin {clientFd[c], stdoutFd[c]}
    BY <2>1 DEF Wired, FdsNotShared
  <2> QED
    BY <1>1, <2>1, <2>2 DEF Held
<1>3. \A x \in objs \ {c} : fd[x] # stdoutFd[c]
  BY <1>2, HeldIsNotOthers
<1>4. /\ RegistryMatches'
      /\ fd'[c] = stdoutFd[c] /\ interest'[stdoutFd[c]] = "IN"
      /\ \A x \in objs \ {c} : fd'[x] = fd[x] /\ interest'[fd[x]] = interest[fd[x]]
  BY <1>1, <1>2, <1>3, RearmKeepsRegistry DEF Wired
<1>5. Listener \notin Conns
  BY KernelAssumption
<1>6. FdsNotShared'
  <2>1. \A d, e \in Conns : d # e => Held(d)' \cap Held(e)' = {}
    BY <1>2 DEF Wired, FdsNotShared
  <2>2. \A d \in Conns :
          /\ stdinFd'[d] # NoFd => stdinFd'[d] \notin {clientFd'[d], stdoutFd'[d]}
          /\ stdoutFd'[d] # NoFd => stdoutFd'[d] # clientFd'[d]
    BY <1>1 DEF Wired, FdsNotShared
  <2>3. \A d \in Conns : Held(d)' \cap {reserveFd} = {}
    BY <1>2 DEF Wired, FdsNotShared
  <2>4. Listener \in objs => /\ fd'[Listener] = fd[Listener]
                             /\ fd[Listener] # reserveFd
                             /\ \A d \in Conns : fd[Listener] \notin Held(d)'
    BY <1>2, <1>4, <1>5 DEF Wired, FdsNotShared
  <2> QED
    BY <2>1, <2>2, <2>3, <2>4 DEF FdsNotShared
<1>7. OwnedOpen'
  <2>1. \A d \in Conns : Held(d)' \subseteq openFds'
    BY <1>1, <1>2 DEF Wired, OwnedOpen, FdsNotShared
  <2>2. Listener \in objs => fd'[Listener] \in openFds'
    BY <1>1, <1>2, <1>4, <1>5 DEF Wired, OwnedOpen, FdsNotShared
  <2>3. reserveFd # NoFd => reserveFd \in openFds'
    BY <1>1, <1>2 DEF Wired, OwnedOpen, FdsNotShared
  <2> QED
    BY <2>1, <2>2, <2>3 DEF OwnedOpen
<1>8. InterestMatchesState'
  BY <1>1, <1>4 DEF Wired, InterestMatchesState, Receiving
<1>9. FieldsMatchState'
  BY <1>1, <1>2 DEF Wired, FieldsMatchState
<1> QED
  BY <1>4, <1>6, <1>7, <1>8, <1>9 DEF Wired

\* The first and the fourth free descriptor are two.
LEMMA PipeEndsDiffer ==
    ASSUME NEW out \in NextFree(0), NEW in \in NextFree(3)
    PROVE  out # in
<1>1. Cardinality({g \in Free : g < out}) = 0 /\ Cardinality({g \in Free : g < in}) = 3
  BY DEF NextFree, Nth
<1> QED
  BY <1>1

\* A script is started: its pipes take free descriptors, and the registration
\* moves to one of them. What the fields held before may be lost.
LEMMA SpawnWired ==
    ASSUME TypeOK, Running, Wired, Around, NEW c \in objs \cap Conns,
           NEW body \in BOOLEAN, SpawnCgi(c, body)
    PROVE  Wired'
<1> USE DEF Around, TypeOK, ClientTypeOK
<1>1. PICK out \in NextFree(0), in \in NextFree(3) :
        /\ stdoutFd' = [stdoutFd EXCEPT ![c] = out]
        /\ stdinFd' = [stdinFd EXCEPT ![c] = IF body THEN in ELSE NoFd]
        /\ openFds' = openFds \cup {out} \cup (IF body THEN {in} ELSE {})
        /\ st' = [st EXCEPT ![c] = IF body THEN "CGI_TRANSMIT_BODY" ELSE "CGI_HEADERS"]
        /\ IF body THEN Rearm(c, "OUT", in) ELSE Rearm(c, "IN", out)
        /\ locCgi' = [locCgi EXCEPT ![c] = TRUE]
  BY DEF SpawnCgi, Enter
<1> DEFINE f == IF body THEN in ELSE out
           e == IF body THEN "OUT" ELSE "IN"
<1>2. /\ out \in Fds /\ out \notin openFds
      /\ in \in Fds /\ in \notin openFds
      /\ out # in /\ out # NoFd /\ in # NoFd
  BY NextFreeIsFree, PipeEndsDiffer, KernelAssumption DEF NoFd
<1>3. f \in Fds /\ f \notin openFds /\ Rearm(c, e, f)
  BY <1>1, <1>2
<1>4. \A x \in objs \ {c} : fd[x] # f
  BY <1>3, ClosedIsNotWatched
<1> HIDE DEF f, e
<1>5. /\ RegistryMatches'
      /\ fd'[c] = f /\ interest'[f] = e
      /\ \A x \in objs \ {c} : fd'[x] = fd[x] /\ interest'[fd[x]] = interest[fd[x]]
  BY <1>3, <1>4, RearmKeepsRegistry DEF Wired
<1>6. Listener \notin Conns
  BY KernelAssumption
<1>7. /\ \A d \in Conns \ {c} : Held(d)' = Held(d)
      /\ Held(c)' \subseteq {clientFd[c], out} \cup (IF body THEN {in} ELSE {})
      /\ Held(c)' \subseteq Held(c) \cup {out, in}
  BY <1>1, <1>2 DEF Held
<1>8. FdsNotShared'
  <2>1. \A d, g \in Conns : d # g => Held(d)' \cap Held(g)' = {}
    BY <1>2, <1>7 DEF Wired, FdsNotShared, OwnedOpen
  <2>2. \A d \in Conns :
          /\ stdinFd'[d] # NoFd => stdinFd'[d] \notin {clientFd'[d], stdoutFd'[d]}
          /\ stdoutFd'[d] # NoFd => stdoutFd'[d] # clientFd'[d]
    <3>1. clientFd[c] \in openFds
      BY DEF Wired, OwnedOpen, FieldsMatchState, Held
    <3> QED
      BY <1>1, <1>2, <3>1 DEF Wired, FdsNotShared
  <2>3. \A d \in Conns : Held(d)' \cap {reserveFd} = {}
    <3>1. \A d \in Conns : NoFd \notin Held(d)'
      BY DEF Held
    <3> QED
      BY <1>2, <1>7, <3>1 DEF Wired, FdsNotShared, OwnedOpen
  <2>4. Listener \in objs => /\ fd'[Listener] = fd[Listener]
                             /\ fd[Listener] # reserveFd
                             /\ \A d \in Conns : fd[Listener] \notin Held(d)'
    BY <1>2, <1>5, <1>6, <1>7 DEF Wired, FdsNotShared, OwnedOpen
  <2> QED
    BY <2>1, <2>2, <2>3, <2>4 DEF FdsNotShared
<1>9. OwnedOpen'
  <2>1. \A d \in Conns : Held(d)' \subseteq openFds'
    <3>1. clientFd[c] \in openFds
      BY DEF Wired, OwnedOpen, FieldsMatchState, Held
    <3> QED
      BY <1>1, <1>7, <3>1 DEF Wired, OwnedOpen
  <2>2. Listener \in objs => fd'[Listener] \in openFds'
    BY <1>1, <1>5, <1>6 DEF Wired, OwnedOpen
  <2> QED
    BY <1>1, <2>1, <2>2 DEF Wired, OwnedOpen
<1>10. InterestMatchesState'
  <2>1. ASSUME NEW d \in objs \cap Conns, d # c
        PROVE  /\ fd'[d] = fd[d] /\ interest'[fd[d]] = interest[fd[d]] /\ st'[d] = st[d]
               /\ clientFd'[d] = clientFd[d] /\ stdinFd'[d] = stdinFd[d]
               /\ stdoutFd'[d] = stdoutFd[d]
    BY <1>1, <1>5, <2>1
  <2>2. CASE body
    BY <1>1, <1>5, <2>1, <2>2 DEF f, e, Wired, InterestMatchesState, Receiving
  <2>3. CASE ~body
    BY <1>1, <1>5, <2>1, <2>3 DEF f, e, Wired, InterestMatchesState, Receiving
  <2> QED
    BY <2>2, <2>3
<1>11. FieldsMatchState'
  BY <1>1, <1>2, <1>7 DEF Wired, FieldsMatchState
<1> QED
  BY <1>5, <1>8, <1>9, <1>10, <1>11 DEF Wired

\* Whatever the handler or the timeout of a live connection does.
LEMMA MoveWired ==
    ASSUME TypeOK, Running, Wired, Around, NEW c \in objs \cap Conns, Move(c)
    PROVE  Wired'
<1> USE DEF kernelVars, registryVars, pipeVars, flowVars
<1>1. CASE KeepRequest
  <2>1. st[c] \in States /\ st' = [st EXCEPT ![c] = st[c]]
    BY <1>1 DEF KeepRequest, TypeOK, ClientTypeOK
  <2> QED
    BY <1>1, <2>1, QuietMoveWired DEF KeepRequest, SameWatch
<1>2. CASE Advance(c)
  <2>1. PICK s \in States : SameWatch(st[c], s) /\ st' = [st EXCEPT ![c] = s]
    BY <1>2 DEF Advance
  <2> QED
    BY <1>2, <2>1, QuietMoveWired DEF Advance
<1>3. CASE st[c] \in Receiving \cup {"DISCARD_BODY"} /\ Answer(c)
  BY <1>3, AnswerWired
<1>4. ASSUME st[c] \in Receiving, NEW s \in {"DISCARD_BODY", "REQ_BODY"}, AwaitBody(c, s)
      PROVE  Wired'
  <2>1. s \in States
    BY DEF States, Receiving
  <2> QED
    BY <1>4, <2>1, QuietMoveWired DEF AwaitBody, Enter
<1>5. ASSUME NEW body \in BOOLEAN, SpawnCgi(c, body)
      PROVE  Wired'
  BY <1>5, SpawnWired
<1>6. CASE st[c] = "REQ_BODY" /\ locCgi[c] /\ FeedScript(c)
  <2>1. stdinFd[c] # NoFd /\ stdoutFd[c] # NoFd
    BY <1>6 DEF Wired, FieldsMatchState
  <2> QED
    BY <1>6, <2>1, RelayMoveWired DEF FeedScript
<1>7. CASE st[c] = "CGI_TRANSMIT_BODY" /\ FetchMoreBody(c)
  <2>1. stdinFd[c] # NoFd /\ stdoutFd[c] # NoFd
    BY <1>7 DEF Wired, FieldsMatchState
  <2> QED
    BY <1>7, <2>1, RelayMoveWired DEF FetchMoreBody
<1>8. CASE st[c] = "CGI_TRANSMIT_BODY" /\ CloseStdin(c)
  BY <1>8, CloseStdinWired
<1>9. ASSUME NEW kill \in BOOLEAN, LeaveCgi(c, kill)
      PROVE  Wired'
  BY <1>9, RelayMoveWired DEF LeaveCgi, Enter
<1> QED
  BY <1>1, <1>2, <1>3, <1>4, <1>5, <1>6, <1>7, <1>8, <1>9 DEF Move

-----------------------------------------------------------------------------
(* The listening socket                                                       *)

\* A new client takes a free descriptor and a blank object.
LEMMA AcceptWired ==
    ASSUME TypeOK, Running, Wired, UNCHANGED phase, NEW f \in NextFree(0), AcceptClient(f)
    PROVE  Wired'
<1> USE DEF TypeOK, ClientTypeOK, LoopTypeOK
<1>1. PICK c \in Conns \ objs : Construct(c, f) /\ Add(c, f)
  BY DEF AcceptClient
<1>2. f \in Fds /\ f \notin openFds /\ f # NoFd
  BY NextFreeIsFree, KernelAssumption DEF NoFd
<1>3. \A x \in objs : fd[x] # f
  BY <1>2, ClosedIsNotWatched
<1>4. /\ Listener \notin Conns /\ c \in Objs /\ Null \notin Objs /\ c # Listener
      /\ objs \subseteq Objs
  BY KernelAssumption DEF Objs
<1>5. /\ objs' = objs \cup {c} /\ c \notin objs
      /\ openFds' = openFds \cup {f}
      /\ clientFd' = [clientFd EXCEPT ![c] = f]
      /\ UNCHANGED <<st, locCgi, stdinFd, stdoutFd, reserveFd>>
  BY <1>1 DEF Construct, AcceptClient, pipeVars
<1>6. /\ fd' = [fd EXCEPT ![c] = f]
      /\ \A g \in Fds : interest'[g] = IF g = f THEN "IN" ELSE interest[g]
      /\ \A g \in Fds : connections'[g] = IF g = f THEN c ELSE connections[g]
      /\ \A g \in Fds : epollPtr'[g] = IF g = f THEN c ELSE epollPtr[g]
  BY <1>1 DEF Add
<1>7. /\ fd'[c] = f /\ interest'[f] = "IN" /\ clientFd'[c] = f
      /\ st[c] = "REQ_LINE" /\ ~locCgi[c]
      /\ stdinFd[c] = NoFd /\ stdoutFd[c] = NoFd
  BY <1>2, <1>4, <1>5, <1>6 DEF Wired, FieldsMatchState, Held
<1>8. \A x \in objs : fd'[x] = fd[x] /\ fd[x] \in Fds /\ interest'[fd[x]] = interest[fd[x]]
  BY <1>3, <1>4, <1>5, <1>6 DEF Wired, RegistryMatches
<1>9. /\ \A d \in Conns \ {c} : Held(d)' = Held(d)
      /\ Held(c)' = {f}
  BY <1>2, <1>5, <1>7 DEF Held
<1>10. RegistryMatches'
  <2>1. \A x \in objs' : fd'[x] \in Fds /\ connections'[fd'[x]] = x /\ epollPtr'[fd'[x]] = x
    BY <1>2, <1>3, <1>5, <1>6, <1>7, <1>8 DEF Wired, RegistryMatches
  <2>2. \A g \in Fds : connections'[g] # Null =>
              connections'[g] \in objs' /\ fd'[connections'[g]] = g
    BY <1>5, <1>6, <1>7, <1>8 DEF Wired, RegistryMatches
  <2>3. \A g \in Fds : epollPtr'[g] # Null =>
              epollPtr'[g] \in objs' /\ fd'[epollPtr'[g]] = g
    BY <1>5, <1>6, <1>7, <1>8 DEF Wired, RegistryMatches
  <2> QED
    BY <2>1, <2>2, <2>3 DEF RegistryMatches
<1>11. FdsNotShared'
  <2>1. \A d, e \in Conns : d # e => Held(d)' \cap Held(e)' = {}
    BY <1>2, <1>9 DEF Wired, FdsNotShared, OwnedOpen
  <2>2. \A d \in Conns :
          /\ stdinFd'[d] # NoFd => stdinFd'[d] \notin {clientFd'[d], stdoutFd'[d]}
          /\ stdoutFd'[d] # NoFd => stdoutFd'[d] # clientFd'[d]
    BY <1>5, <1>7 DEF Wired, FdsNotShared
  <2>3. \A d \in Conns : Held(d)' \cap {reserveFd} = {}
    BY <1>2, <1>9 DEF Wired, FdsNotShared, OwnedOpen
  <2>4. Listener \in objs => /\ fd'[Listener] = fd[Listener]
                             /\ fd[Listener] # reserveFd
                             /\ \A d \in Conns : fd[Listener] \notin Held(d)'
    BY <1>3, <1>8, <1>9 DEF Wired, FdsNotShared
  <2> QED
    BY <1>4, <1>5, <2>1, <2>2, <2>3, <2>4 DEF FdsNotShared
<1>12. OwnedOpen'
  BY <1>4, <1>5, <1>8, <1>9 DEF Wired, OwnedOpen
<1>13. InterestMatchesState'
  BY <1>5, <1>7, <1>8 DEF Wired, InterestMatchesState, Receiving
<1>14. FieldsMatchState'
  BY <1>2, <1>5, <1>7, <1>9 DEF Wired, FieldsMatchState
<1> QED
  BY <1>10, <1>11, <1>12, <1>13, <1>14 DEF Wired

\* Spending the reserve, and having it back under a free number or not at all.
LEMMA ReserveWired ==
    ASSUME TypeOK, Running, Wired, UNCHANGED phase, OtherConnectionsKept,
           NEW f \in {NoFd} \cup Free \cup {reserveFd},
           reserveFd' = f, openFds' = (openFds \ {reserveFd}) \cup ({f} \ {NoFd})
    PROVE  Wired'
<1> USE DEF OtherConnectionsKept, registryVars, pipeVars, flowVars
<1>1. \A d \in Conns : Held(d)' = Held(d) /\ NoFd \notin Held(d)
  BY DEF Held
<1>2. RegistryMatches' /\ InterestMatchesState'
  BY DEF Wired, RegistryMatches, InterestMatchesState, Running
<1>3. \A d \in Conns : Held(d) \cap {f} = {}
  BY <1>1 DEF Wired, FdsNotShared, OwnedOpen, Free
<1>4. Listener \in objs => fd[Listener] # f
  <2>1. Listener \in objs => fd[Listener] \in Fds /\ NoFd \notin Fds
    BY KernelAssumption DEF Wired, RegistryMatches, NoFd
  <2> QED
    BY <2>1 DEF Wired, FdsNotShared, OwnedOpen, Free
<1>5. FdsNotShared'
  BY <1>1, <1>3, <1>4 DEF Wired, FdsNotShared, Running
<1>6. OwnedOpen'
  BY <1>1, <1>3, <1>4 DEF Wired, OwnedOpen, FdsNotShared
<1>7. FieldsMatchState'
  BY <1>1 DEF Wired, FieldsMatchState
<1> QED
  BY <1>2, <1>5, <1>6, <1>7 DEF Wired

-----------------------------------------------------------------------------
(* clear()                                                                    *)

\* The queued objects go with all they own, and nothing else goes.
LEMMA ClearWired ==
    ASSUME TypeOK, Running, Wired, deletionQueue \subseteq objs, Clear
    PROVE  Wired'
<1> USE DEF TypeOK, ClientTypeOK, LoopTypeOK
<1> DEFINE D == deletionQueue
<1>1. /\ objs' = objs \ D /\ D \subseteq objs /\ objs \subseteq Objs /\ Null \notin Objs
      /\ openFds' = openFds \ OwnedBy(D)
      /\ clientFd' = [c \in Conns |-> IF c \in D THEN NoFd ELSE clientFd[c]]
      /\ stdinFd' = [c \in Conns |-> IF c \in D THEN NoFd ELSE stdinFd[c]]
      /\ stdoutFd' = [c \in Conns |-> IF c \in D THEN NoFd ELSE stdoutFd[c]]
      /\ st' = [c \in Conns |-> IF c \in D THEN "REQ_LINE" ELSE st[c]]
      /\ locCgi' = [c \in Conns |-> IF c \in D THEN FALSE ELSE locCgi[c]]
      /\ UNCHANGED reserveFd
  BY KernelAssumption DEF Clear, Destroy, Objs
<1>2. /\ \A o \in objs : fd'[o] = IF o \in D THEN NoFd ELSE fd[o]
      /\ \A g \in Fds : /\ interest'[g] = IF \E o \in D : fd[o] = g THEN "NONE" ELSE interest[g]
                        /\ connections'[g] = IF \E o \in D : fd[o] = g THEN Null ELSE connections[g]
                        /\ epollPtr'[g] = IF \E o \in D : fd[o] = g THEN Null ELSE epollPtr[g]
  BY DEF Clear, Unregister
<1> HIDE DEF D
<1>3. \A d \in Conns : Held(d)' = IF d \in D THEN {} ELSE Held(d)
  BY <1>1 DEF Held
<1>4. \A x \in objs, y \in objs : fd[x] \in Fds /\ (x # y => fd[x] # fd[y])
  BY DEF Wired, RegistryMatches
<1>5. \A x \in objs \ D : fd'[x] = fd[x] /\ ~\E o \in D : fd[o] = fd[x]
  BY <1>1, <1>2, <1>4
<1>6. RegistryMatches'
  <2>1. \A x \in objs' : fd'[x] \in Fds /\ connections'[fd'[x]] = x /\ epollPtr'[fd'[x]] = x
    BY <1>1, <1>2, <1>4, <1>5 DEF Wired, RegistryMatches
  <2>2. ASSUME NEW g \in Fds, connections'[g] # Null
        PROVE  connections'[g] \in objs' /\ fd'[connections'[g]] = g
    <3>1. connections'[g] = connections[g] /\ ~\E o \in D : fd[o] = g
      BY <1>2, <2>2
    <3>2. connections[g] \in objs /\ fd[connections[g]] = g
      BY <2>2, <3>1 DEF Wired, RegistryMatches
    <3> QED
      BY <1>1, <1>5, <3>1, <3>2
  <2>3. ASSUME NEW g \in Fds, epollPtr'[g] # Null
        PROVE  epollPtr'[g] \in objs' /\ fd'[epollPtr'[g]] = g
    <3>1. epollPtr'[g] = epollPtr[g] /\ ~\E o \in D : fd[o] = g
      BY <1>2, <2>3
    <3>2. epollPtr[g] \in objs /\ fd[epollPtr[g]] = g
      BY <2>3, <3>1 DEF Wired, RegistryMatches
    <3> QED
      BY <1>1, <1>5, <3>1, <3>2
  <2> QED
    BY <2>1, <2>2, <2>3 DEF RegistryMatches
<1>7. Listener \in objs' => fd'[Listener] = fd[Listener] /\ Listener \in objs /\ Listener \notin D
  BY <1>1, <1>5
<1>8. FdsNotShared'
  BY <1>1, <1>3, <1>7 DEF Wired, FdsNotShared, Running
<1>9. OwnedOpen'
  <2>1. \A g \in OwnedBy(D) : \/ \E c \in D \cap Conns : g \in Held(c)
                              \/ Listener \in D /\ g = fd[Listener]
    BY DEF OwnedBy
  <2>2. \A d \in Conns : Held(d)' \cap OwnedBy(D) = {}
    <3>1. \A d \in Conns \ D, c \in D \cap Conns : Held(d) \cap Held(c) = {}
      BY DEF Wired, FdsNotShared
    <3>2. Listener \in D => \A d \in Conns : fd[Listener] \notin Held(d)
      BY <1>1 DEF Wired, FdsNotShared
    <3> QED
      BY <1>3, <2>1, <3>1, <3>2
  <2>3. Listener \in objs' => fd[Listener] \notin OwnedBy(D)
    <3>1. Listener \in objs => \A d \in Conns : fd[Listener] \notin Held(d)
      BY DEF Wired, FdsNotShared
    <3> QED
      BY <1>7, <2>1, <3>1
  <2>4. reserveFd \notin OwnedBy(D)
    <3>1. \A d \in Conns : reserveFd \notin Held(d)
      BY DEF Wired, FdsNotShared
    <3>2. Listener \in D => fd[Listener] # reserveFd
      BY <1>1 DEF Wired, FdsNotShared
    <3> QED
      BY <2>1, <3>1, <3>2
  <2> QED
    BY <1>1, <1>3, <1>7, <2>2, <2>3, <2>4 DEF Wired, OwnedOpen
<1>10. InterestMatchesState'
  <2>1. ASSUME NEW c \in objs' \cap Conns
        PROVE  /\ c \in objs \cap Conns
               /\ fd'[c] = fd[c] /\ interest'[fd[c]] = interest[fd[c]] /\ st'[c] = st[c]
               /\ clientFd'[c] = clientFd[c] /\ stdinFd'[c] = stdinFd[c]
               /\ stdoutFd'[c] = stdoutFd[c]
    BY <1>1, <1>2, <1>4, <1>5
  <2> QED
    BY <2>1 DEF Wired, InterestMatchesState
<1>11. FieldsMatchState'
  BY <1>1, <1>3 DEF Wired, FieldsMatchState
<1> QED
  BY <1>6, <1>8, <1>9, <1>10, <1>11 DEF Wired

-----------------------------------------------------------------------------
(* The theorem                                                                *)

\* What the loop does to its pointers in the dispatch of one event.
LEMMA HandleSound ==
    ASSUME TypeOK, Running, Sound, NEW c \in Conns, Handle(c)
    PROVE  Sound'
<1>1. Dispatch(c) /\ Move(c) /\ Verdict(c) /\ UNCHANGED <<objs, clientFd, reserveFd>>
  BY HandlerMoves DEF TypeOK
<1>2. c \in objs \cap Conns
  BY <1>1 DEF Dispatch, Sound, NoDanglingPointer
<1>3. Wired'
  BY <1>1, <1>2, MoveWired DEF Dispatch, Around, Sound, Wired
<1>4. NoDanglingPointer'
  BY <1>1, <1>2 DEF Dispatch, Verdict, Sound, NoDanglingPointer
<1>5. PhasesClean'
  BY <1>1 DEF Dispatch, Sound, PhasesClean
<1> QED
  BY <1>3, <1>4, <1>5 DEF Wired, Sound

LEMMA SweepSound ==
    ASSUME TypeOK, Running, Sound, SweepOne
    PROVE  Sound'
<1>1. PICK c \in sweep :
        /\ phase = "sweep"
        /\ HandleTimeout(c)
        /\ IF connections' = connections THEN sweep' = sweep \ {c}
                                         ELSE sweep' \in SUBSET (sweep \ {c})
        /\ UNCHANGED <<phase, batch, reserveFd, objs, clientFd>>
  BY DEF SweepOne
<1>2. c \in objs \cap Conns /\ sweep' \subseteq sweep
  BY <1>1 DEF Sound, NoDanglingPointer, TypeOK, LoopTypeOK
<1>3. Move(c) /\ Verdict(c)
  BY <1>1, <1>2, TimeoutMoves
<1>4. Wired'
  BY <1>1, <1>2, <1>3, MoveWired DEF Around, Sound, Wired
<1>5. NoDanglingPointer'
  BY <1>1, <1>2, <1>3 DEF Verdict, Sound, NoDanglingPointer
<1>6. PhasesClean'
  BY <1>1 DEF Sound, PhasesClean
<1> QED
  BY <1>4, <1>5, <1>6 DEF Wired, Sound

LEMMA ListenerSound ==
    ASSUME TypeOK, Running, Sound, HandleListener
    PROVE  Sound'
<1> USE DEF kernelVars, registryVars, childVars, pipeVars, flowVars
<1>1. Dispatch(Listener) /\ Listener \in objs
  BY DEF HandleListener, Dispatch, Sound, NoDanglingPointer
<1>2. /\ PhasesClean' \/ ~UNCHANGED phase
      /\ UNCHANGED phase /\ phase = "dispatch"
  BY <1>1 DEF Dispatch, Sound, PhasesClean
<1>3. Wired
  BY DEF Sound, Wired
<1>4. CASE Del(Listener) /\ KeepRequest /\ UNCHANGED <<objs, clientFd, age, reserveFd>>
  <2>1. /\ UNCHANGED <<objs, clientFd, stdinFd, stdoutFd, st, locCgi, openFds, reserveFd>>
        /\ UNCHANGED <<connections, epollPtr, interest, fd>>
    BY <1>4 DEF KeepRequest
  <2>2. \A d \in Conns : Held(d)' = Held(d)
    BY <2>1 DEF Held
  <2>3. Wired'
    BY <1>2, <1>3, <2>1, <2>2
    DEF Wired, RegistryMatches, FdsNotShared, InterestMatchesState, OwnedOpen,
        FieldsMatchState, Running
  <2>4. NoDanglingPointer'
    BY <1>1, <1>4, <2>1 DEF Dispatch, Del, Sound, NoDanglingPointer
  <2> QED
    BY <1>2, <2>3, <2>4 DEF Wired, Sound
<1>5. ASSUME NEW f \in NextFree(0), AcceptClient(f)
      PROVE  Sound'
  <2>1. Wired'
    BY <1>2, <1>3, <1>5, AcceptWired
  <2>2. NoDanglingPointer'
    BY <1>1, <1>5 DEF AcceptClient, Construct, Dispatch, Sound, NoDanglingPointer
  <2> QED
    BY <1>2, <2>1, <2>2 DEF Wired, Sound
<1>6. ASSUME OtherConnectionsKept,
             NEW f \in {NoFd} \cup Free \cup {reserveFd},
             reserveFd' = f, openFds' = (openFds \ {reserveFd}) \cup ({f} \ {NoFd})
      PROVE  Sound'
  <2>1. Wired'
    BY <1>2, <1>3, <1>6, ReserveWired
  <2>2. NoDanglingPointer'
    BY <1>1, <1>6 DEF OtherConnectionsKept, Dispatch, Sound, NoDanglingPointer
  <2> QED
    BY <1>2, <2>1, <2>2 DEF Wired, Sound
<1>7. CASE OtherConnectionsKept /\ UNCHANGED <<openFds, reserveFd>>
  <2>1. openFds' = (openFds \ {reserveFd}) \cup ({reserveFd} \ {NoFd})
    BY <1>3, <1>7, KernelAssumption DEF Wired, OwnedOpen, TypeOK, KernelTypeOK, NoFd
  <2> QED
    BY <1>6, <1>7, <2>1
<1>8. CASE AcceptOutOfFds
  BY <1>6, <1>8, ReserveTaken
<1> QED
  BY <1>4, <1>5, <1>7, <1>8 DEF HandleListener, DropClient

LEMMA ClearSound ==
    ASSUME TypeOK, Running, Sound, Clear
    PROVE  Sound'
<1>1. Wired'
  BY ClearWired DEF Sound, Wired, NoDanglingPointer
<1>2. batch = {} /\ sweep = {} /\ UNCHANGED <<batch, sweep>> /\ deletionQueue' = {}
      /\ phase' = "reap"
  BY DEF Clear, Sound, PhasesClean
<1>3. NoDanglingPointer' /\ PhasesClean'
  BY <1>2 DEF NoDanglingPointer, PhasesClean
<1> QED
  BY <1>1, <1>3 DEF Wired, Sound

\* A step of the environment, or of the loop between its handlers, that leaves
\* objects and descriptors alone.
LEMMA QuietStepSound ==
    ASSUME TypeOK, Running, Sound, Running',
           UNCHANGED <<objs, clientFd, pipeVars, st, locCgi, openFds, reserveFd, registryVars>>,
           PhasesClean', NoDanglingPointer'
    PROVE  Sound'
<1> USE DEF pipeVars, registryVars
<1>1. \A d \in Conns : Held(d)' = Held(d)
  BY DEF Held
<1>2. RegistryMatches' /\ InterestMatchesState'
  BY DEF Sound, RegistryMatches, InterestMatchesState
<1>3. FdsNotShared' /\ OwnedOpen' /\ FieldsMatchState'
  BY <1>1 DEF Sound, FdsNotShared, OwnedOpen, FieldsMatchState
<1> QED
  BY <1>2, <1>3 DEF Sound

\* A server that has stopped does nothing more.
LEMMA StoppedStays ==
    ASSUME TypeOK, ~Running, [Next]_vars
    PROVE  ~Running'
<1>1. ~HandleClient
  BY HandlerMoves DEF HandleClient, Dispatch, Running, TypeOK
<1> QED
  BY <1>1 DEF Next, Loop, Running, EpollWait, HandleListener, Dispatch, BeginSweep, SweepOne,
              Clear, Reap, ReapChildren, Shutdown, Stopped, Connect, ScriptExit, Tick,
              vars, cycleVars

\* Sound holds in every state of the server: the map, the epoll set and the
\* objects agree, the loop holds no dangling pointer, no descriptor has two
\* owners, and every connection waits for what its state needs, whatever the
\* interleaving of events, timeouts and deletions and whatever goes wrong.
THEOREM ServerSound == Spec => []Sound
<1> USE DEF kernelVars, cycleVars, registryVars, childVars, pipeVars, flowVars
<1>1. Init => Sound
  BY KernelAssumption
  DEF Init, KernelInit, LoopInit, ClientInit, Sound, RegistryMatches, NoDanglingPointer,
      FdsNotShared, InterestMatchesState, PhasesClean, OwnedOpen, FieldsMatchState,
      Held, Objs, NoFd
<1>2. TypeOK /\ Sound /\ [Next]_vars => Sound'
  <2> SUFFICES ASSUME TypeOK, Sound, [Next]_vars, Running, Running' PROVE Sound'
    BY StoppedStays DEF Sound
  <2>1. CASE EpollWait
    <3>1. batch' \subseteq objs
      <4>1. Null \notin Objs
        BY KernelAssumption DEF Objs
      <4> QED
        BY <2>1, <4>1 DEF EpollWait, Reportable, Sound, RegistryMatches
    <3>2. NoDanglingPointer' /\ PhasesClean'
      BY <2>1, <3>1 DEF EpollWait, Sound, NoDanglingPointer, PhasesClean
    <3> QED
      BY <2>1, <3>2, QuietStepSound DEF EpollWait
  <2>2. CASE HandleClient
    BY <2>2, HandleSound DEF HandleClient
  <2>3. CASE HandleListener
    BY <2>3, ListenerSound
  <2>4. CASE BeginSweep
    <3>1. sweep' \subseteq objs
      <4>1. Null \notin Conns
        BY KernelAssumption
      <4> QED
        BY <2>4, <4>1 DEF BeginSweep, Expired, Sound, RegistryMatches
    <3>2. NoDanglingPointer' /\ PhasesClean'
      BY <2>4, <3>1 DEF BeginSweep, Sound, NoDanglingPointer, PhasesClean
    <3> QED
      BY <2>4, <3>2, QuietStepSound DEF BeginSweep
  <2>5. CASE SweepOne
    BY <2>5, SweepSound
  <2>6. CASE Clear
    BY <2>6, ClearSound
  <2>7. CASE Reap
    <3>1. NoDanglingPointer' /\ PhasesClean'
      BY <2>7 DEF Reap, ReapChildren, Sound, NoDanglingPointer, PhasesClean
    <3> QED
      BY <2>7, <3>1, QuietStepSound DEF Reap, ReapChildren
  <2>8. CASE Shutdown
    BY <2>8 DEF Shutdown, Running
  <2>9. CASE Connect \/ ScriptExit \/ Tick
    <3>1. UNCHANGED <<phase, batch, sweep, deletionQueue>>
      BY <2>9 DEF Connect, ScriptExit, Tick, EnvironmentKept
    <3>2. NoDanglingPointer' /\ PhasesClean'
      BY <2>9, <3>1
      DEF Connect, ScriptExit, Tick, EnvironmentKept, Sound, NoDanglingPointer, PhasesClean
    <3> QED
      BY <2>9, <3>2, QuietStepSound DEF Connect, ScriptExit, Tick, EnvironmentKept
  <2>10. CASE UNCHANGED vars
    <3>1. NoDanglingPointer' /\ PhasesClean'
      BY <2>10 DEF vars, Sound, NoDanglingPointer, PhasesClean
    <3> QED
      BY <2>10, <3>1, QuietStepSound DEF vars
  <2> QED
    BY <2>1, <2>2, <2>3, <2>4, <2>5, <2>6, <2>7, <2>8, <2>9, <2>10 DEF Next, Loop, Stopped
<1> QED
  BY <1>1, <1>2, TypeCorrect, PTL DEF Spec

\* The parts of Sound that the runs check on small instances, for every instance:
\* the map, the epoll set and the objects name each other,
THEOREM RegistryHolds == Spec => []RegistryMatches
<1>1. Sound => RegistryMatches
  BY DEF Sound, RegistryMatches
<1> QED
  BY <1>1, ServerSound, PTL

\* no handler is called on a deleted object,
THEOREM PointersHold == Spec => []NoDanglingPointer
<1>1. Sound => NoDanglingPointer
  BY DEF Sound, NoDanglingPointer
<1> QED
  BY <1>1, ServerSound, PTL

\* no descriptor has two owners,
THEOREM OwnersDiffer == Spec => []FdsNotShared
<1>1. Sound => FdsNotShared
  BY DEF Sound, FdsNotShared
<1> QED
  BY <1>1, ServerSound, PTL

\* and a connection waits for what its state needs.
THEOREM InterestHolds == Spec => []InterestMatchesState
<1>1. Sound => InterestMatchesState
  BY DEF Sound, InterestMatchesState
<1> QED
  BY <1>1, ServerSound, PTL

-----------------------------------------------------------------------------
(* Nothing leaks: open descriptors and forked processes are accounted for, no *)
(* script is left alone, and the reserve is there when it is needed.          *)

\* The descriptors of the objects, and the invariant that keeps the account: a
\* connection that has not started a script has no pipe to lose.
Accounted ==
    Running =>
        /\ FdsAccounted
        /\ \A c \in Conns : st[c] \in {"REQ_LINE", "REQ_HEADERS"}
                                => stdinFd[c] = NoFd /\ stdoutFd[c] = NoFd

\* What a move does to the descriptors of its connection c, and to no other: it
\* keeps them, closes the script's stdin, or opens pipes where there were none.
FdsMove(c) ==
    /\ \A d \in Conns \ {c} : Held(d)' = Held(d)
    /\ Listener \in objs => fd'[Listener] = fd[Listener]
    /\ \/ Held(c)' = Held(c) /\ openFds' = openFds
       \/ \E f \in Held(c) : Held(c)' = Held(c) \ {f} /\ openFds' = openFds \ {f}
       \/ \E F \in SUBSET Fds : Held(c)' = Held(c) \cup F /\ openFds' = openFds \cup F

LEMMA SpawnFds ==
    ASSUME TypeOK, Running, Wired, NEW c \in objs \cap Conns, UNCHANGED <<objs, clientFd>>,
           stdinFd[c] = NoFd, stdoutFd[c] = NoFd,
           NEW body \in BOOLEAN, SpawnCgi(c, body)
    PROVE  FdsMove(c) /\ st'[c] \notin {"REQ_LINE", "REQ_HEADERS"}
<1> USE DEF TypeOK, ClientTypeOK
<1>1. PICK out \in NextFree(0), in \in NextFree(3) :
        /\ stdoutFd' = [stdoutFd EXCEPT ![c] = out]
        /\ stdinFd' = [stdinFd EXCEPT ![c] = IF body THEN in ELSE NoFd]
        /\ openFds' = openFds \cup {out} \cup (IF body THEN {in} ELSE {})
        /\ st' = [st EXCEPT ![c] = IF body THEN "CGI_TRANSMIT_BODY" ELSE "CGI_HEADERS"]
        /\ IF body THEN Rearm(c, "OUT", in) ELSE Rearm(c, "IN", out)
  BY DEF SpawnCgi, Enter
<1> DEFINE F == IF body THEN {out, in} ELSE {out}
<1>2. F \subseteq Fds /\ NoFd \notin F /\ in # NoFd
  BY NextFreeIsFree, KernelAssumption DEF NoFd
<1>3. Held(c)' = Held(c) \cup F /\ openFds' = openFds \cup F
  BY <1>1, <1>2 DEF Held
<1>4. \A d \in Conns \ {c} : Held(d)' = Held(d)
  BY <1>1 DEF Held
<1>5. fd'[Listener] = fd[Listener]
  BY <1>1, KernelAssumption DEF Rearm, LoopTypeOK, Objs
<1> QED
  BY <1>1, <1>2, <1>3, <1>4, <1>5 DEF FdsMove

LEMMA MoveFds ==
    ASSUME TypeOK, Running, Wired, Accounted, NEW c \in objs \cap Conns,
           "timeout_page_cgi" \notin Faults,
           UNCHANGED <<objs, clientFd>>, Move(c)
    PROVE  /\ FdsMove(c)
           /\ st'[c] \in {"REQ_LINE", "REQ_HEADERS"}
                => stdinFd'[c] = NoFd /\ stdoutFd'[c] = NoFd
           /\ \A d \in Conns \ {c} : UNCHANGED <<st[d], stdinFd[d], stdoutFd[d]>>
<1> USE DEF kernelVars, registryVars, pipeVars, flowVars, TypeOK, ClientTypeOK
<1>0. c # Listener
  BY KernelAssumption
<1>1. ASSUME UNCHANGED <<stdinFd, stdoutFd, openFds>>, fd'[Listener] = fd[Listener]
      PROVE  FdsMove(c)
  <2>1. \A d \in Conns : Held(d)' = Held(d)
    BY <1>1 DEF Held
  <2> QED
    BY <1>1, <2>1 DEF FdsMove
<1>2. CASE KeepRequest
  BY <1>1, <1>2 DEF KeepRequest, Accounted
<1>3. CASE Advance(c)
  BY <1>1, <1>3 DEF Advance, Accounted, SameWatch
<1>4. CASE Answer(c)
  BY <1>1, <1>4 DEF Answer, Mod, Enter
<1>5. ASSUME NEW s \in {"DISCARD_BODY", "REQ_BODY"}, AwaitBody(c, s)
      PROVE  /\ FdsMove(c) /\ st'[c] = s
             /\ \A d \in Conns \ {c} : UNCHANGED <<st[d], stdinFd[d], stdoutFd[d]>>
  BY <1>1, <1>5 DEF AwaitBody, Enter
<1>6. ASSUME NEW body \in BOOLEAN, SpawnCgi(c, body), st[c] \in {"REQ_LINE", "REQ_HEADERS"}
      PROVE  /\ FdsMove(c) /\ st'[c] \notin {"REQ_LINE", "REQ_HEADERS"}
             /\ \A d \in Conns \ {c} : UNCHANGED <<st[d], stdinFd[d], stdoutFd[d]>>
  <2>1. stdinFd[c] = NoFd /\ stdoutFd[c] = NoFd
    BY <1>6 DEF Accounted
  <2> QED
    BY <1>6, <2>1, SpawnFds DEF SpawnCgi, Enter
<1>7. ASSUME NEW e, NEW f, Rearm(c, e, f)
      PROVE  fd'[Listener] = fd[Listener]
  BY <1>0, <1>7 DEF Rearm, LoopTypeOK, Objs
<1>8. CASE FeedScript(c)
  BY <1>1, <1>7, <1>8 DEF FeedScript
<1>9. CASE FetchMoreBody(c)
  BY <1>1, <1>7, <1>9 DEF FetchMoreBody
<1>10. CASE st[c] = "CGI_TRANSMIT_BODY" /\ CloseStdin(c)
  <2>1. /\ stdinFd' = [stdinFd EXCEPT ![c] = NoFd]
        /\ openFds' = openFds \ {stdinFd[c]}
        /\ UNCHANGED stdoutFd
        /\ st' = [st EXCEPT ![c] = "CGI_HEADERS"]
    BY <1>10 DEF CloseStdin, Enter, Wired, InterestMatchesState
  <2>2. /\ stdinFd[c] # NoFd
        /\ stdinFd[c] \notin {clientFd[c], stdoutFd[c]}
    BY <1>10 DEF Wired, FieldsMatchState, FdsNotShared
  <2>3. /\ stdinFd[c] \in Held(c) /\ Held(c)' = Held(c) \ {stdinFd[c]}
        /\ \A d \in Conns \ {c} : Held(d)' = Held(d)
    BY <2>1, <2>2 DEF Held
  <2>4. fd'[Listener] = fd[Listener]
    BY <1>7, <1>10 DEF CloseStdin
  <2> QED
    BY <2>1, <2>3, <2>4 DEF FdsMove
<1>11. ASSUME NEW kill \in BOOLEAN, LeaveCgi(c, kill)
       PROVE  /\ FdsMove(c) /\ st'[c] = "RESPONSE"
              /\ \A d \in Conns \ {c} : UNCHANGED <<st[d], stdinFd[d], stdoutFd[d]>>
  BY <1>1, <1>7, <1>11 DEF LeaveCgi, Enter
<1> QED
  BY <1>2, <1>3, <1>4, <1>5, <1>6, <1>8, <1>9, <1>10, <1>11 DEF Move

\* The account stays balanced over such a move.
LEMMA FdsMoveAccounted ==
    ASSUME TypeOK, Running, Wired, FdsAccounted, NEW c \in objs \cap Conns,
           UNCHANGED <<objs, reserveFd>>, FdsMove(c)
    PROVE  FdsAccounted'
<1>1. openFds = OwnedBy(objs) \cup ({reserveFd} \ {NoFd})
  BY DEF FdsAccounted
<1>2. \A d \in Conns : Held(d) \subseteq Fds
  BY DEF Wired, OwnedOpen, TypeOK, KernelTypeOK
<1>3. CASE Held(c)' = Held(c) /\ openFds' = openFds
  <2>1. OwnedBy(objs)' = OwnedBy(objs)
    BY <1>3 DEF FdsMove, OwnedBy
  <2> QED
    BY <1>1, <1>3, <2>1 DEF FdsAccounted
<1>4. ASSUME NEW f \in Held(c), Held(c)' = Held(c) \ {f}, openFds' = openFds \ {f}
      PROVE  FdsAccounted'
  <2>1. /\ f # reserveFd /\ (Listener \in objs => fd[Listener] # f)
        /\ \A d \in Conns \ {c} : f \notin Held(d)
    BY <1>4 DEF Wired, FdsNotShared
  <2>2. OwnedBy(objs)' = OwnedBy(objs) \ {f}
    BY <1>4, <2>1 DEF FdsMove, OwnedBy
  <2> QED
    BY <1>1, <1>4, <2>1, <2>2 DEF FdsAccounted
<1>5. ASSUME NEW F \in SUBSET Fds, Held(c)' = Held(c) \cup F, openFds' = openFds \cup F
      PROVE  FdsAccounted'
  <2>1. OwnedBy(objs)' = OwnedBy(objs) \cup F
    BY <1>5 DEF FdsMove, OwnedBy
  <2> QED
    BY <1>1, <1>5, <2>1 DEF FdsAccounted
<1> QED
  BY <1>3, <1>4, <1>5 DEF FdsMove

\* accept() adds a descriptor and its owner, and moves the reserve about.
LEMMA ListenerAccounted ==
    ASSUME TypeOK, Running, Sound, Accounted, HandleListener
    PROVE  Accounted'
<1> USE DEF kernelVars, registryVars, pipeVars, flowVars
<1>1. Wired /\ openFds = OwnedBy(objs) \cup ({reserveFd} \ {NoFd})
  BY DEF Sound, Wired, Accounted, FdsAccounted
<1>2. CASE Del(Listener) /\ KeepRequest /\ UNCHANGED <<objs, clientFd, age, reserveFd>>
  <2>1. /\ UNCHANGED <<objs, clientFd, stdinFd, stdoutFd, st, openFds, reserveFd, fd>>
    BY <1>2 DEF KeepRequest
  <2>2. OwnedBy(objs)' = OwnedBy(objs)
    BY <2>1 DEF OwnedBy, Held
  <2> QED
    BY <1>1, <2>1, <2>2 DEF Accounted, FdsAccounted
<1>3. ASSUME NEW f \in NextFree(0), AcceptClient(f)
      PROVE  Accounted'
  <2>1. PICK c \in Conns \ objs : Construct(c, f) /\ Add(c, f)
    BY <1>3 DEF AcceptClient
  <2>2. f \in Fds /\ f # NoFd
    BY NextFreeIsFree, KernelAssumption DEF NoFd
  <2>3. /\ objs' = objs \cup {c} /\ c \notin objs /\ c \in Conns /\ c # Listener
        /\ openFds' = openFds \cup {f}
        /\ clientFd' = [clientFd EXCEPT ![c] = f]
        /\ fd' = [fd EXCEPT ![c] = f]
        /\ UNCHANGED <<st, stdinFd, stdoutFd, reserveFd>>
    BY <1>3, <2>1, KernelAssumption DEF Construct, Add, AcceptClient
  <2>4. Held(c) = {} /\ Held(c)' = {f} /\ \A d \in Conns \ {c} : Held(d)' = Held(d)
    <3>1. Held(c) = {}
      BY <2>3 DEF Sound, FieldsMatchState
    <3> QED
      BY <2>2, <2>3, <3>1 DEF Held, TypeOK, ClientTypeOK
  <2>5. fd'[Listener] = fd[Listener]
    BY <2>3 DEF TypeOK, LoopTypeOK, Objs
  <2>6. OwnedBy(objs)' = OwnedBy(objs) \cup {f}
    BY <2>2, <2>3, <2>4, <2>5 DEF OwnedBy
  <2> QED
    BY <1>1, <2>3, <2>6 DEF Accounted, FdsAccounted
<1>4. ASSUME OtherConnectionsKept,
             NEW f \in {NoFd} \cup Free \cup {reserveFd},
             reserveFd' = f, openFds' = (openFds \ {reserveFd}) \cup ({f} \ {NoFd})
      PROVE  Accounted'
  <2>1. UNCHANGED <<objs, clientFd, stdinFd, stdoutFd, st, fd>>
    BY <1>4 DEF OtherConnectionsKept
  <2>2. OwnedBy(objs)' = OwnedBy(objs)
    BY <2>1 DEF OwnedBy, Held
  <2>3. reserveFd \notin OwnedBy(objs)
    BY <1>1 DEF OwnedBy, Wired, FdsNotShared
  <2> QED
    BY <1>1, <1>4, <2>1, <2>2, <2>3 DEF Accounted, FdsAccounted
<1>5. CASE OtherConnectionsKept /\ UNCHANGED <<openFds, reserveFd>>
  <2>1. openFds' = (openFds \ {reserveFd}) \cup ({reserveFd} \ {NoFd})
    BY <1>1, <1>5, KernelAssumption DEF TypeOK, KernelTypeOK, NoFd
  <2> QED
    BY <1>4, <1>5, <2>1
<1>6. CASE AcceptOutOfFds
  BY <1>4, <1>6, ReserveTaken
<1> QED
  BY <1>2, <1>3, <1>5, <1>6 DEF HandleListener, DropClient

\* clear() closes what the queued objects own.
LEMMA ClearAccounted ==
    ASSUME TypeOK, Running, Sound, Accounted, Clear
    PROVE  Accounted'
<1> USE DEF TypeOK, ClientTypeOK, LoopTypeOK
<1> DEFINE D == deletionQueue
<1>1. /\ objs' = objs \ D
      /\ openFds' = openFds \ OwnedBy(D)
      /\ clientFd' = [c \in Conns |-> IF c \in D THEN NoFd ELSE clientFd[c]]
      /\ stdinFd' = [c \in Conns |-> IF c \in D THEN NoFd ELSE stdinFd[c]]
      /\ stdoutFd' = [c \in Conns |-> IF c \in D THEN NoFd ELSE stdoutFd[c]]
      /\ st' = [c \in Conns |-> IF c \in D THEN "REQ_LINE" ELSE st[c]]
      /\ UNCHANGED reserveFd
      /\ Listener \notin D => fd'[Listener] = fd[Listener]
  BY DEF Clear, Destroy, Unregister, Objs
<1>2. D \subseteq objs
  BY DEF Sound, NoDanglingPointer
<1> HIDE DEF D
<1>3. Wired /\ openFds = OwnedBy(objs) \cup ({reserveFd} \ {NoFd})
  BY DEF Sound, Wired, Accounted, FdsAccounted
<1>4. \A d \in Conns : Held(d)' = IF d \in D THEN {} ELSE Held(d)
  BY <1>1 DEF Held
<1>5. OwnedBy(objs)' = OwnedBy(objs) \ OwnedBy(D)
  <2>1. \A f \in Fds : f \in OwnedBy(objs)' <=>
           \/ \E c \in (objs \ D) \cap Conns : f \in Held(c)
           \/ Listener \in objs \ D /\ f = fd[Listener]
    BY <1>1, <1>4 DEF OwnedBy
  <2>2. \A c \in (objs \ D) \cap Conns, d \in D \cap Conns : Held(c) \cap Held(d) = {}
    BY <1>3 DEF Wired, FdsNotShared
  <2>3. Listener \in objs => \A c \in Conns : fd[Listener] \notin Held(c)
    BY <1>3 DEF Wired, FdsNotShared
  <2>4. \A f \in Fds : f \in OwnedBy(objs)' <=> f \in OwnedBy(objs) /\ f \notin OwnedBy(D)
    BY <1>2, <2>1, <2>2, <2>3 DEF OwnedBy
  <2> QED
    BY <2>4 DEF OwnedBy
<1>6. reserveFd \notin OwnedBy(D)
  BY <1>2, <1>3 DEF OwnedBy, Wired, FdsNotShared
<1>7. FdsAccounted'
  BY <1>1, <1>3, <1>5, <1>6 DEF FdsAccounted
<1> QED
  BY <1>1, <1>7 DEF Accounted

-----------------------------------------------------------------------------
(* Processes                                                                  *)

\* A move tracks the child it forks and forks no other.
LEMMA MoveChildren ==
    ASSUME TypeOK, children = {p \in Pids : procs[p] # "none"}, NEW c \in Conns, Move(c)
    PROVE  children' = {p \in Pids : procs'[p] # "none"}
<1> USE DEF kernelVars, childVars, TypeOK, KernelTypeOK
<1>1. ASSUME NEW body \in BOOLEAN, SpawnCgi(c, body)
      PROVE  children' = {p \in Pids : procs'[p] # "none"}
  <2>1. PICK p \in Pids : procs' = [procs EXCEPT ![p] = "running"] /\ TrackChild(p)
    BY <1>1 DEF SpawnCgi
  <2> QED
    BY <2>1 DEF TrackChild
<1>2. UNCHANGED <<procs, children>> \/ \E body \in BOOLEAN : SpawnCgi(c, body)
  BY DEF Move, KeepRequest, Advance, Answer, AwaitBody, FeedScript, FetchMoreBody, CloseStdin,
         LeaveCgi, KillChildren
<1> QED
  BY <1>1, <1>2

\* Collecting the dead empties exactly their entries.
LEMMA ReapChildrenTracked ==
    ASSUME TypeOK, children = {p \in Pids : procs[p] # "none"}, ReapChildren
    PROVE  children' = {p \in Pids : procs'[p] # "none"}
<1> USE DEF TypeOK, KernelTypeOK
<1>1. Killed \subseteq children \ Reaped
  BY DEF Killed, Overdue
<1>2. Reaped = {p \in Pids : procs[p] = "zombie"}
  BY DEF Reaped
<1>3. \A p \in Pids : procs'[p] = IF p \in Killed THEN "zombie"
                                  ELSE IF p \in children /\ procs[p] = "zombie" THEN "none"
                                  ELSE procs[p]
  BY DEF ReapChildren
<1>4. children' = children \ Reaped
  BY DEF ReapChildren
<1> QED
  BY <1>1, <1>2, <1>3, <1>4

\* So the account of processes stays balanced.
LEMMA ProcessesStep ==
    ASSUME TypeOK, ChildrenTracked, [Next]_vars
    PROVE  ChildrenTracked'
<1> USE DEF kernelVars, cycleVars, childVars
<1> SUFFICES ASSUME Running, Running' PROVE ChildrenTracked'
  BY StoppedStays DEF ChildrenTracked
<1>0. children = {p \in Pids : procs[p] # "none"}
  BY DEF ChildrenTracked
<1>1. CASE HandleClient
  BY <1>0, <1>1, HandlerMoves, MoveChildren DEF HandleClient, ChildrenTracked, TypeOK
<1>2. CASE SweepOne
  <2>1. PICK c \in Conns : HandleTimeout(c)
    BY <1>2 DEF SweepOne, TypeOK, LoopTypeOK
  <2> QED
    BY <1>0, <2>1, TimeoutMoves, MoveChildren DEF ChildrenTracked
<1>3. CASE Reap
  BY <1>0, <1>3, ReapChildrenTracked DEF Reap, ChildrenTracked
<1>4. CASE ScriptExit
  BY <1>0, <1>4 DEF ScriptExit, ChildrenTracked, TypeOK, KernelTypeOK
<1>5. CASE UNCHANGED <<children, procs>>
  BY <1>0, <1>5 DEF ChildrenTracked
<1>6. EpollWait \/ HandleListener \/ BeginSweep \/ Clear \/ Connect \/ Tick \/ UNCHANGED vars
        => UNCHANGED <<children, procs>>
  BY DEF EpollWait, HandleListener, KeepRequest, AcceptClient, DropClient, AcceptOutOfFds,
         OtherConnectionsKept, BeginSweep, Clear, Destroy, KillChildren,
         Connect, Tick, vars
<1>7. ~Shutdown /\ ~Stopped
  BY DEF Shutdown, Stopped, Running
<1> QED
  BY <1>1, <1>2, <1>3, <1>4, <1>5, <1>6, <1>7 DEF Next, Loop

\* The registry of children is the set of processes the server has to collect: no
\* path through timeouts, 502s, abandoned requests and signals forgets one, and
\* reap_children() keeps no entry of one that is gone.
THEOREM ChildrenNeverForgotten == Spec => []ChildrenTracked
<1>1. Init => ChildrenTracked
  BY DEF Init, KernelInit, LoopInit, ChildrenTracked
<1>2. TypeOK /\ ChildrenTracked /\ [Next]_vars => ChildrenTracked'
  BY ProcessesStep
<1> QED
  BY <1>1, <1>2, TypeCorrect, PTL DEF Spec

-----------------------------------------------------------------------------
(* Descriptors, without a script as the page of a timeout                     *)

LEMMA AccountedStep ==
    ASSUME "timeout_page_cgi" \notin Faults, TypeOK, Sound, Accounted, [Next]_vars
    PROVE  Accounted'
<1> USE DEF kernelVars, cycleVars, registryVars, childVars, pipeVars, flowVars
<1> SUFFICES ASSUME Running, Running' PROVE Accounted'
  BY StoppedStays DEF Accounted
<1>1. Wired
  BY DEF Sound, Wired
<1>2. ASSUME NEW c \in objs \cap Conns, Move(c), UNCHANGED <<objs, clientFd, reserveFd>>
      PROVE  Accounted'
  <2>1. /\ FdsMove(c)
        /\ st'[c] \in {"REQ_LINE", "REQ_HEADERS"}
             => stdinFd'[c] = NoFd /\ stdoutFd'[c] = NoFd
        /\ \A d \in Conns \ {c} : UNCHANGED <<st[d], stdinFd[d], stdoutFd[d]>>
    BY <1>1, <1>2, MoveFds
  <2>2. FdsAccounted'
    BY <1>1, <1>2, <2>1, FdsMoveAccounted DEF Accounted
  <2> QED
    BY <2>1, <2>2 DEF Accounted
<1>3. CASE HandleClient
  <2>1. PICK c \in Conns : Handle(c)
    BY <1>3 DEF HandleClient
  <2>2. Dispatch(c) /\ Move(c) /\ UNCHANGED <<objs, clientFd, reserveFd>>
    BY <2>1, HandlerMoves DEF TypeOK
  <2> QED
    BY <1>2, <2>2 DEF Dispatch, Sound, NoDanglingPointer
<1>4. CASE SweepOne
  <2>1. PICK c \in sweep : HandleTimeout(c) /\ UNCHANGED <<reserveFd, objs, clientFd>>
    BY <1>4 DEF SweepOne
  <2>2. c \in objs \cap Conns
    BY DEF Sound, NoDanglingPointer, TypeOK, LoopTypeOK
  <2> QED
    BY <1>2, <2>1, <2>2, TimeoutMoves
<1>5. CASE HandleListener
  BY <1>5, ListenerAccounted
<1>6. CASE Clear
  BY <1>6, ClearAccounted
<1>7. CASE UNCHANGED <<openFds, objs, fd, reserveFd, clientFd, stdinFd, stdoutFd, st>>
  <2>1. OwnedBy(objs)' = OwnedBy(objs)
    BY <1>7 DEF OwnedBy, Held
  <2> QED
    BY <1>7, <2>1 DEF Accounted, FdsAccounted
<1>8. EpollWait \/ BeginSweep \/ Reap \/ Connect \/ ScriptExit \/ Tick \/ UNCHANGED vars
        => UNCHANGED <<openFds, objs, fd, reserveFd, clientFd, stdinFd, stdoutFd, st>>
  BY DEF EpollWait, BeginSweep, Reap, ReapChildren, Connect, ScriptExit, Tick, EnvironmentKept,
         vars
<1>9. ~Shutdown /\ ~Stopped
  BY DEF Shutdown, Stopped, Running
<1> QED
  BY <1>3, <1>4, <1>5, <1>6, <1>7, <1>8, <1>9 DEF Next, Loop

\* The shutdown leaves nothing, if the accounts are right when it comes.
LEMMA CleanStopStep ==
    ASSUME TypeOK, Sound, Accounted, ChildrenTracked, CleanStop, [Next]_vars
    PROVE  CleanStop'
<1> SUFFICES ASSUME ~Running' PROVE CleanStop'
  BY DEF CleanStop, Running
<1>1. CASE ~Running
  <2>1. ~HandleClient
    BY <1>1, HandlerMoves DEF HandleClient, Dispatch, Running, TypeOK
  <2>2. UNCHANGED vars
    BY <1>1, <2>1
    DEF Next, Loop, Running, EpollWait, HandleListener, Dispatch, BeginSweep, SweepOne,
        Clear, Reap, ReapChildren, Shutdown, Stopped, Connect, ScriptExit, Tick
  <2> QED
    BY <2>2 DEF CleanStop, vars, cycleVars, kernelVars
<1>2. CASE Running /\ Shutdown
  <2>1. objs \subseteq {connections[f] : f \in Fds}
    BY <1>2 DEF Sound, RegistryMatches
  <2>2. objs' = {}
    BY <1>2, <2>1 DEF Shutdown
  <2>3. OwnedBy(objs) \subseteq OwnedBy({connections[f] : f \in Fds})
    BY <2>1 DEF OwnedBy
  <2>4. openFds' = {}
    BY <1>2, <2>3 DEF Shutdown, Accounted, FdsAccounted
  <2>5. \A p \in Pids : procs'[p] = "none"
    BY <1>2 DEF Shutdown, StopChildren, ChildrenTracked, TypeOK, KernelTypeOK
  <2> QED
    BY <2>2, <2>4, <2>5 DEF CleanStop
<1>3. CASE Running /\ ~Shutdown
  <2>1. ~HandleClient
    BY <1>3, HandlerMoves DEF HandleClient, Dispatch, Running, TypeOK
  <2>2. FALSE
    BY <1>3, <2>1
    DEF Next, Loop, Running, EpollWait, HandleListener, Dispatch, BeginSweep, SweepOne,
        Clear, Reap, ReapChildren, Stopped, Connect, ScriptExit, Tick, EnvironmentKept,
        cycleVars, vars
  <2> QED
    BY <2>2
<1> QED
  BY <1>1, <1>2, <1>3

\* Unless a script serves the page of a timeout, no descriptor leaks and none is
\* closed twice, and the end of the process leaves nothing behind: aborted
\* requests, timeouts, failed accepts and relayed bodies all give back what they
\* took.
THEOREM NothingLeaks ==
    ASSUME "timeout_page_cgi" \notin Faults
    PROVE  Spec => [](FdsAccounted /\ CleanStop)
<1>1. Init => Accounted /\ CleanStop
  <2>1. ASSUME Init PROVE openFds = OwnedBy(objs) \cup ({reserveFd} \ {NoFd})
    <3>1. /\ openFds = {ListenFd, ReserveFd} /\ objs = {Listener} /\ fd[Listener] = ListenFd
          /\ reserveFd = ReserveFd
      BY <2>1 DEF Init, KernelInit, LoopInit, ClientInit, Objs
    <3>2. OwnedBy(objs) = {ListenFd}
      BY <3>1, KernelAssumption DEF OwnedBy
    <3> QED
      BY <3>1, <3>2, KernelAssumption DEF NoFd
  <2> QED
    BY <2>1 DEF Init, LoopInit, ClientInit, Accounted, FdsAccounted, CleanStop
<1>2. TypeOK /\ Sound /\ Accounted /\ ChildrenTracked /\ CleanStop /\ [Next]_vars
        => Accounted' /\ CleanStop'
  BY AccountedStep, CleanStopStep
<1>3. Accounted => FdsAccounted
  BY DEF Accounted, FdsAccounted
<1> QED
  BY <1>1, <1>2, <1>3, TypeCorrect, ServerSound, ChildrenNeverForgotten, PTL DEF Spec

\* Under the same condition, the shutdown leaves no child, object or descriptor.
THEOREM ShutdownIsClean ==
    ASSUME "timeout_page_cgi" \notin Faults
    PROVE  Spec => []CleanStop
<1> QED
  BY NothingLeaks, PTL

\* Every late connection the timeout loop has not come to is still ahead of it.
LateAwaited == phase = "sweep" => Expired \subseteq sweep \cup deletionQueue

\* The visit of one stamps it or queues it, and leaves the map alone, in every
\* state it may be in.
LEMMA VisitKeepsLate ==
    ASSUME "timeout_page_cgi" \notin Faults, TypeOK, LateAwaited, SweepOne
    PROVE  LateAwaited'
<1>1. PICK c \in sweep :
        /\ phase = "sweep"
        /\ HandleTimeout(c)
        /\ connections' = connections => sweep' = sweep \ {c}
  BY DEF SweepOne
<1>2. c \in Conns
  BY DEF TypeOK, LoopTypeOK
<1>3. connections' = connections
  BY <1>1 DEF HandleTimeout, Setup, Answer, Mod, AwaitBody, GiveUp, KeepRequest, registryVars
<1>4. CASE age' = age /\ deletionQueue' = deletionQueue \cup {c}
  BY <1>1, <1>3, <1>4 DEF LateAwaited, Expired
<1>5. CASE age' = [age EXCEPT ![c] = 0] /\ deletionQueue' = deletionQueue
  <2>1. c \notin Expired'
    BY <1>2, <1>5, ClientAssumption DEF Expired, TypeOK, ClientTypeOK
  <2>2. Expired' \subseteq Expired
    BY <1>3, <1>5, <2>1 DEF Expired, TypeOK, ClientTypeOK
  <2> QED
    BY <1>1, <1>3, <1>5, <2>1, <2>2 DEF LateAwaited
<1> QED
  BY <1>1, <1>4, <1>5 DEF HandleTimeout, Served, Stamp, GiveUp, Del

\* Unless a script serves the page of a timeout, the timeout loop reaches every
\* late connection, in whatever state events left it: when the loop is through,
\* those still late are the ones being given up.
THEOREM SweepIsComplete ==
    ASSUME "timeout_page_cgi" \notin Faults
    PROVE  Spec => []SweepReachesAll
<1>1. Init => LateAwaited
  BY DEF Init, LoopInit, LateAwaited
<1>2. ASSUME TypeOK, LateAwaited, [Next]_vars PROVE LateAwaited'
  <2> SUFFICES ASSUME Next, phase' = "sweep" PROVE LateAwaited'
    BY <1>2 DEF LateAwaited, Expired, vars, cycleVars, registryVars
  <2>1. CASE SweepOne
    BY <1>2, <2>1, VisitKeepsLate
  <2>2. CASE BeginSweep
    BY <2>2 DEF BeginSweep, LateAwaited, Expired, registryVars
  <2>3. ~HandleClient
    BY <1>2, HandlerMoves DEF HandleClient, Dispatch, TypeOK
  <2> QED
    BY <2>1, <2>2, <2>3
    DEF Next, Loop, EpollWait, HandleListener, Dispatch, Clear, Reap, ReapChildren,
        Shutdown, Stopped, Connect, ScriptExit, Tick, EnvironmentKept, cycleVars, vars
<1>3. LateAwaited => SweepReachesAll
  BY DEF LateAwaited, SweepReachesAll
<1> QED
  BY <1>1, <1>2, <1>3, TypeCorrect, PTL DEF Spec

-----------------------------------------------------------------------------
\* Abandoned scripts, without a script as the page of a timeout and without
\* scripts that close their output and run on

\* A running script has a connection that names it, or is due for a signal, or
\* has had one; a connection whose request is still read names none.
Attached ==
    Running =>
        /\ children = {p \in Pids : procs[p] # "none"}
        /\ \A p \in Pids : procs[p] = "running" =>
              \/ serves[p] \in Conns /\ cgiPid[serves[p]] = p
              \/ left[p] = 0 \/ signalled[p]
        /\ \A c \in Conns : st[c] \in {"REQ_LINE", "REQ_HEADERS"} => cgiPid[c] = NoPid

\* What a handler or timeout does to the children.
ScriptMove(c) ==
    /\ \A d \in Conns \ {c} : st'[d] = st[d] /\ cgiPid'[d] = cgiPid[d]
    /\ \/ /\ UNCHANGED <<procs, serves, cgiPid, childVars>>
          /\ st'[c] \in {"REQ_LINE", "REQ_HEADERS"} => st[c] \in {"REQ_LINE", "REQ_HEADERS"}
       \/ st[c] \in {"REQ_LINE", "REQ_HEADERS"} /\ \E body \in BOOLEAN : SpawnCgi(c, body)
       \/ \E kill \in BOOLEAN : LeaveCgi(c, kill) /\ (kill \/ ~ScriptRuns(c))

LEMMA LeaveScript ==
    ASSUME TypeOK, NEW c \in Conns, NEW kill \in BOOLEAN, LeaveCgi(c, kill),
           kill \/ ~ScriptRuns(c)
    PROVE  ScriptMove(c)
<1>1. \A d \in Conns \ {c} : st'[d] = st[d] /\ cgiPid'[d] = cgiPid[d]
  BY DEF LeaveCgi, Enter, TypeOK, ClientTypeOK
<1> QED
  BY <1>1 DEF ScriptMove

LEMMA MoveScript ==
    ASSUME TypeOK, "timeout_page_cgi" \notin Faults, NEW c \in Conns, Move(c),
           st[c] \notin {"CGI_HEADERS", "CGI_BODY"}
    PROVE  ScriptMove(c)
<1> USE DEF kernelVars, pipeVars, flowVars, childVars, TypeOK, ClientTypeOK
<1>1. CASE KeepRequest
  BY <1>1 DEF KeepRequest, ScriptMove
<1>2. CASE Advance(c)
  <2>1. PICK s \in States : SameWatch(st[c], s) /\ st' = [st EXCEPT ![c] = s]
    BY <1>2 DEF Advance
  <2>2. s \in {"REQ_LINE", "REQ_HEADERS"} => st[c] \in {"REQ_LINE", "REQ_HEADERS"}
    BY <2>1 DEF SameWatch
  <2> QED
    BY <1>2, <2>1, <2>2 DEF Advance, ScriptMove
<1>3. CASE Answer(c)
  BY <1>3 DEF Answer, Enter, ScriptMove
<1>4. CASE AwaitBody(c, "DISCARD_BODY") \/ AwaitBody(c, "REQ_BODY")
  BY <1>4 DEF AwaitBody, Enter, ScriptMove
<1>5. ASSUME NEW body \in BOOLEAN, SpawnCgi(c, body), st[c] \in {"REQ_LINE", "REQ_HEADERS"}
      PROVE  ScriptMove(c)
  BY <1>5 DEF SpawnCgi, Enter, ScriptMove
<1>6. CASE FeedScript(c) \/ FetchMoreBody(c) \/ CloseStdin(c)
  BY <1>6 DEF FeedScript, FetchMoreBody, CloseStdin, Enter, ScriptMove
<1> QED
  BY <1>1, <1>2, <1>3, <1>4, <1>5, <1>6 DEF Move

\* Only a 502 leaves a script that runs, and has it killed.
LEMMA HandlerScript ==
    ASSUME TypeOK, "timeout_page_cgi" \notin Faults, "early_eof" \notin Faults,
           NEW c \in Conns, Handle(c)
    PROVE  ScriptMove(c)
<1> USE DEF kernelVars, pipeVars, childVars, TypeOK, ClientTypeOK
<1>1. CASE st[c] \notin {"CGI_HEADERS", "CGI_BODY"}
  BY <1>1, HandlerMoves, MoveScript
<1>2. ASSUME NEW s \in {"CGI_HEADERS", "CGI_BODY"}, st' = [st EXCEPT ![c] = s],
             UNCHANGED <<procs, serves, cgiPid, children, left, signalled>>
      PROVE  ScriptMove(c)
  BY <1>2 DEF ScriptMove
<1>3. CASE UNCHANGED <<st, procs, serves, cgiPid, children, left, signalled>>
           /\ st[c] \in {"CGI_HEADERS", "CGI_BODY"}
  BY <1>3 DEF ScriptMove
<1>4. CASE HandleCgiHeaders(c)
  <2>1. \/ \E s \in {"CGI_HEADERS", "CGI_BODY"} :
               /\ st' = [st EXCEPT ![c] = s]
               /\ UNCHANGED <<procs, serves, cgiPid, children, left, signalled>>
        \/ LeaveCgi(c, TRUE)
        \/ KeepRequest
        \/ ~ScriptRuns(c) /\ LeaveCgi(c, FALSE)
    BY <1>4 DEF HandleCgiHeaders, TakeOutput, OutputEnds, Enter
  <2> QED
    BY <1>2, <1>3, <1>4, <2>1, LeaveScript DEF KeepRequest, HandleCgiHeaders, flowVars
<1>5. CASE HandleCgiOutput(c)
  <2>1. \/ /\ st' = [st EXCEPT ![c] = "CGI_BODY"]
           /\ UNCHANGED <<procs, serves, cgiPid, children, left, signalled>>
        \/ KeepRequest
        \/ ~ScriptRuns(c) /\ LeaveCgi(c, FALSE)
    BY <1>5 DEF HandleCgiOutput, TakeOutput, OutputEnds
  <2> QED
    BY <1>2, <1>3, <1>5, <2>1, LeaveScript DEF KeepRequest, HandleCgiOutput, flowVars
<1> QED
  BY <1>1, <1>4, <1>5
  DEF Handle, HandleRequest, HandlePost, HandleCgiBody, HandleCgiInput, HandleDiscard,
      HandleResponse

LEMMA TimeoutScript ==
    ASSUME TypeOK, "timeout_page_cgi" \notin Faults, NEW c \in Conns, HandleTimeout(c)
    PROVE  ScriptMove(c)
<1>1. CASE st[c] \notin {"CGI_HEADERS", "CGI_BODY"}
  BY <1>1, TimeoutMoves, MoveScript
<1>2. CASE st[c] \in {"CGI_HEADERS", "CGI_BODY"}
  BY <1>2 DEF HandleTimeout, Receiving, GiveUp, KeepRequest, ScriptMove,
              kernelVars, pipeVars, flowVars, childVars
<1> QED
  BY <1>1, <1>2

\* A move attaches the script it starts, and lets go of none that runs unsignalled.
LEMMA MoveAttached ==
    ASSUME TypeOK, Running, Attached, NEW c \in Conns, ScriptMove(c),
           children' = {p \in Pids : procs'[p] # "none"}
    PROVE  Attached'
<1> USE DEF childVars, TypeOK, KernelTypeOK, ClientTypeOK, LoopTypeOK
<1>0. \A d \in Conns \ {c} : st'[d] = st[d] /\ cgiPid'[d] = cgiPid[d]
  BY DEF ScriptMove
<1>1. CASE /\ UNCHANGED <<procs, serves, cgiPid, childVars>>
           /\ st'[c] \in {"REQ_LINE", "REQ_HEADERS"} => st[c] \in {"REQ_LINE", "REQ_HEADERS"}
  BY <1>0, <1>1 DEF Attached
<1>2. ASSUME NEW body \in BOOLEAN, SpawnCgi(c, body), st[c] \in {"REQ_LINE", "REQ_HEADERS"}
      PROVE  Attached'
  <2>1. PICK q \in Pids :
           /\ procs[q] = "none"
           /\ procs' = [procs EXCEPT ![q] = "running"]
           /\ serves' = [serves EXCEPT ![q] = c]
           /\ cgiPid' = [cgiPid EXCEPT ![c] = q]
           /\ left' = [left EXCEPT ![q] = CgiTimeout]
           /\ signalled' = [signalled EXCEPT ![q] = FALSE]
    BY <1>2 DEF SpawnCgi, NewPid, TrackChild
  <2>2. st'[c] \notin {"REQ_LINE", "REQ_HEADERS"}
    BY <1>2 DEF SpawnCgi, Enter
  <2>3. cgiPid[c] = NoPid
    BY <1>2 DEF Attached
  <2>4. ASSUME NEW p \in Pids, procs'[p] = "running"
        PROVE  \/ serves'[p] \in Conns /\ cgiPid'[serves'[p]] = p
               \/ left'[p] = 0 \/ signalled'[p]
    <3>1. CASE p = q
      BY <2>1, <3>1
    <3>2. CASE p # q
      <4>1. /\ procs[p] = "running" /\ serves'[p] = serves[p]
            /\ left'[p] = left[p] /\ signalled'[p] = signalled[p]
        BY <2>1, <2>4, <3>2
      <4>2. serves[p] \in Conns /\ cgiPid[serves[p]] = p => serves[p] # c
        BY <2>3, KernelAssumption
      <4> QED
        BY <1>0, <4>1, <4>2 DEF Attached
    <3> QED
      BY <3>1, <3>2
  <2> QED
    BY <1>0, <2>2, <2>4 DEF Attached
<1>3. ASSUME NEW kill \in BOOLEAN, LeaveCgi(c, kill), kill \/ ~ScriptRuns(c)
      PROVE  Attached'
  <2>1. /\ UNCHANGED <<procs, serves, signalled>>
        /\ \A p \in Pids : left'[p] = IF kill /\ p = cgiPid[c] /\ p \in children
                                      THEN 0 ELSE left[p]
        /\ st'[c] = "RESPONSE"
    BY <1>3 DEF LeaveCgi, KillChildren, Enter, kernelVars
  <2>2. ASSUME NEW p \in Pids, procs[p] = "running"
        PROVE  \/ serves[p] \in Conns /\ cgiPid'[serves[p]] = p
               \/ left'[p] = 0 \/ signalled[p]
    <3>1. CASE serves[p] = c /\ cgiPid[c] = p
      <4>1. kill /\ p \in children
        BY <1>3, <2>2, <3>1 DEF ScriptRuns, Attached
      <4> QED
        BY <2>1, <3>1, <4>1
    <3>2. CASE ~(serves[p] = c /\ cgiPid[c] = p)
      BY <1>0, <2>1, <2>2, <3>2 DEF Attached
    <3> QED
      BY <3>1, <3>2
  <2> QED
    BY <1>0, <2>1, <2>2 DEF Attached
<1> QED
  BY <1>1, <1>2, <1>3 DEF ScriptMove

\* The destructor of a connection has its script killed.
LEMMA ClearAttached ==
    ASSUME TypeOK, Running, Attached, Clear
    PROVE  Attached'
<1> USE DEF TypeOK, KernelTypeOK, ClientTypeOK, LoopTypeOK
<1> DEFINE gone == deletionQueue \cap Conns
<1>1. /\ UNCHANGED <<procs, children, signalled>>
      /\ left' = [p \in Pids |-> IF p \in {cgiPid[c] : c \in gone} \cap children
                                 THEN 0 ELSE left[p]]
      /\ serves' = [p \in Pids |-> IF serves[p] \in gone THEN Null ELSE serves[p]]
      /\ cgiPid' = [c \in Conns |-> IF c \in gone THEN NoPid ELSE cgiPid[c]]
      /\ st' = [c \in Conns |-> IF c \in gone THEN "REQ_LINE" ELSE st[c]]
  BY DEF Clear, Destroy, KillChildren
<1> HIDE DEF gone
<1>2. ASSUME NEW p \in Pids, procs'[p] = "running"
      PROVE  \/ serves'[p] \in Conns /\ cgiPid'[serves'[p]] = p
             \/ left'[p] = 0 \/ signalled'[p]
  <2>1. /\ procs[p] = "running" /\ p \in children
        /\ \/ serves[p] \in Conns /\ cgiPid[serves[p]] = p
           \/ left[p] = 0 \/ signalled[p]
    BY <1>1, <1>2 DEF Attached
  <2>2. CASE serves[p] \in gone /\ cgiPid[serves[p]] = p
    BY <1>1, <2>1, <2>2
  <2>3. CASE serves[p] \notin gone
    BY <1>1, <2>1, <2>3
  <2>4. CASE left[p] = 0 \/ signalled[p]
    BY <1>1, <2>4
  <2> QED
    BY <2>1, <2>2, <2>3, <2>4
<1> QED
  BY <1>1, <1>2 DEF Attached

\* Reaping signals every script that is due.
LEMMA ReapAttached ==
    ASSUME TypeOK, Running, Attached, Reap, children' = {p \in Pids : procs'[p] # "none"}
    PROVE  Attached'
<1> USE DEF TypeOK, KernelTypeOK, ClientTypeOK, LoopTypeOK
<1>1. /\ UNCHANGED <<st, cgiPid>>
      /\ \A p \in Pids :
            /\ procs'[p] = "running" => procs[p] = "running" /\ p \notin Killed
            /\ p \notin Reaped => signalled'[p] = (signalled[p] \/ p \in Overdue)
            /\ p \notin Killed => serves'[p] = serves[p]
  BY DEF Reap, ReapChildren, flowVars, pipeVars
<1>2. ASSUME NEW p \in Pids, procs'[p] = "running"
      PROVE  \/ serves'[p] \in Conns /\ cgiPid'[serves'[p]] = p
             \/ left'[p] = 0 \/ signalled'[p]
  <2>1. procs[p] = "running" /\ p \notin Killed /\ p \in children \ Reaped
    BY <1>1, <1>2 DEF Attached, Reaped
  <2>2. left[p] = 0 => p \in Overdue
    BY <2>1 DEF Overdue
  <2> QED
    BY <1>1, <2>1, <2>2 DEF Attached
<1> QED
  BY <1>1, <1>2 DEF Attached

LEMMA AttachedStep ==
    ASSUME "timeout_page_cgi" \notin Faults, "early_eof" \notin Faults,
           TypeOK, ChildrenTracked, Attached, [Next]_vars
    PROVE  Attached'
<1> USE DEF kernelVars, cycleVars, childVars, pipeVars, flowVars
<1> SUFFICES ASSUME Running, Running' PROVE Attached'
  BY StoppedStays DEF Attached
<1>0. children' = {p \in Pids : procs'[p] # "none"}
  BY ProcessesStep DEF ChildrenTracked
<1>1. CASE HandleClient
  BY <1>0, <1>1, HandlerScript, MoveAttached DEF HandleClient
<1>2. CASE SweepOne
  <2>1. PICK c \in Conns : HandleTimeout(c)
    BY <1>2 DEF SweepOne, TypeOK, LoopTypeOK
  <2> QED
    BY <1>0, <2>1, TimeoutScript, MoveAttached
<1>3. CASE Clear
  BY <1>3, ClearAttached
<1>4. CASE Reap
  BY <1>0, <1>4, ReapAttached
<1>5. CASE ScriptExit
  BY <1>0, <1>5 DEF ScriptExit, EnvironmentKept, Attached, TypeOK, KernelTypeOK
<1>6. CASE Tick
  BY <1>6 DEF Tick, EnvironmentKept, Attached, TypeOK, LoopTypeOK
<1>7. CASE UNCHANGED <<procs, serves, cgiPid, children, left, signalled, st>>
  BY <1>7 DEF Attached
<1>8. EpollWait \/ HandleListener \/ BeginSweep \/ Connect \/ UNCHANGED vars
        => UNCHANGED <<procs, serves, cgiPid, children, left, signalled, st>>
  BY DEF EpollWait, HandleListener, KeepRequest, AcceptClient, Construct, DropClient,
         AcceptOutOfFds, OtherConnectionsKept, BeginSweep, Connect,
         EnvironmentKept, vars
<1>9. ~Shutdown /\ ~Stopped
  BY DEF Shutdown, Stopped, Running
<1> QED
  BY <1>1, <1>2, <1>3, <1>4, <1>5, <1>6, <1>7, <1>8, <1>9 DEF Next, Loop

\* Unless a script serves the page of a timeout or closes its output and runs on,
\* every script without a connection is due for a signal or has had one, whatever
\* the pids the kernel uses again.
THEOREM AbandonedAreCondemned ==
    ASSUME "timeout_page_cgi" \notin Faults, "early_eof" \notin Faults
    PROVE  Spec => []AbandonedScriptsCondemned
<1> DEFINE Inv == Attached /\ (~Running => children = {})
<1>1. Init => Inv
  BY DEF Init, KernelInit, LoopInit, ClientInit, Attached, Running
<1>2. TypeOK /\ ChildrenTracked /\ Inv /\ [Next]_vars => Inv'
  <2> SUFFICES ASSUME TypeOK, ChildrenTracked, Inv, [Next]_vars PROVE Inv'
    OBVIOUS
  <2>1. Attached'
    BY AttachedStep
  <2>2. ~Running' => children' = {}
    <3> SUFFICES ASSUME ~Running' PROVE children' = {}
      OBVIOUS
    <3>1. ~HandleClient
      BY HandlerMoves DEF HandleClient, Dispatch, Running, TypeOK
    <3> QED
      BY <3>1 DEF Next, Loop, Running, EpollWait, HandleListener, Dispatch, BeginSweep,
                  SweepOne, Clear, Reap, ReapChildren, Shutdown, StopChildren, Stopped,
                  Connect, ScriptExit, Tick, EnvironmentKept, cycleVars, childVars, vars
  <2> QED
    BY <2>1, <2>2
<1>3. Inv => AbandonedScriptsCondemned
  BY KernelAssumption DEF Attached, AbandonedScriptsCondemned
<1> QED
  BY <1>1, <1>2, <1>3, TypeCorrect, ChildrenNeverForgotten, PTL DEF Spec

-----------------------------------------------------------------------------
\* The reserve, without a full file table or a broken listening socket

ReserveHeld == reserveFd # NoFd

LEMMA ReserveStep ==
    ASSUME "enfile" \notin Faults, TypeOK, ReserveHeld, [Next]_vars
    PROVE  ReserveHeld'
<1>1. AcceptOutOfFds => reserveFd' # NoFd
  BY ReserveComesBack DEF ReserveHeld
<1>2. HandleClient => UNCHANGED reserveFd
  BY HandlerMoves DEF HandleClient, TypeOK
<1> QED
  BY <1>1, <1>2
  DEF ReserveHeld, Next, Loop, EpollWait, HandleListener, AcceptClient, DropClient,
      BeginSweep, SweepOne, Clear, Reap, ReapChildren, Shutdown, Stopped,
      Connect, ScriptExit, Tick, EnvironmentKept, vars

LEMMA ReserveKept ==
    ASSUME "enfile" \notin Faults
    PROVE  Spec => []ReserveHeld
<1>1. Init => ReserveHeld
  BY KernelAssumption DEF Init, LoopInit, NoFd, ReserveHeld
<1>2. TypeOK /\ ReserveHeld /\ [Next]_vars => ReserveHeld'
  BY ReserveStep
<1> QED
  BY <1>1, <1>2, TypeCorrect, PTL DEF Spec

\* Unless the system's table is full, the reserve is there whenever the server's
\* own descriptors have run out.
THEOREM ReserveIsReady ==
    ASSUME "enfile" \notin Faults
    PROVE  Spec => []ReserveReady
<1>1. ReserveHeld => ReserveReady
  BY DEF ReserveHeld, ReserveReady
<1> QED
  BY <1>1, ReserveKept, PTL

\* Unless the system's table is full or the listening socket breaks, every event
\* on it takes a client off the backlog, however few descriptors there are.
THEOREM AcceptProgresses ==
    ASSUME "enfile" \notin Faults, "listen_error" \notin Faults
    PROVE  Spec => AcceptMakesProgress
<1>1. ASSUME TypeOK, Sound, ReserveHeld, [Next]_vars
      PROVE  [(Listener \in batch \ batch') => backlog' < backlog]_vars
  <2> SUFFICES ASSUME Next, Listener \in batch \ batch' PROVE backlog' < backlog
    BY <1>1
  <2>1. ~HandleClient
    <3> SUFFICES ASSUME NEW c \in Conns, Handle(c) PROVE FALSE
      BY DEF HandleClient
    <3>1. batch' = batch \ {c} /\ c # Listener
      BY <1>1, HandlerMoves, KernelAssumption DEF Dispatch, TypeOK
    <3> QED
      BY <3>1
  <2>2. phase # "wait"
    BY <1>1 DEF Sound, PhasesClean, Running
  <2>3. HandleListener
    BY <2>1, <2>2
    DEF Next, Loop, EpollWait, BeginSweep, SweepOne, Clear, Reap, ReapChildren, Shutdown,
        Stopped, Connect, ScriptExit, Tick, vars, cycleVars
  <2>4. backlog \in Nat /\ backlog' = backlog - 1
    BY <1>1, <2>3, ReserveComesBack
    DEF HandleListener, AcceptClient, DropClient, TypeOK, KernelTypeOK, ReserveHeld
  <2> QED
    BY <2>4
<1> QED
  BY <1>1, TypeCorrect, ServerSound, ReserveKept, PTL DEF Spec, AcceptMakesProgress

-----------------------------------------------------------------------------
(* The server implements Lifecycle: its initial state maps to an initial      *)
(* state, and each of its steps to a step or a stutter.                       *)

StageMap == [c \in Conns |-> StageOf(c)]

\* A client goes forward by one of the abstract moves.
Forward(c) ==
    \/ StageOf(c) = "heading" /\ StageOf(c)' = "receiving"
    \/ StageOf(c) \in {"heading", "receiving"} /\ StageOf(c)' = "working"
    \/ StageOf(c) \in {"heading", "receiving", "working"} /\ StageOf(c)' = "answering"

\* A step that changes one client's stage, by one of the abstract moves.
LEMMA OneClientStep ==
    ASSUME NEW c \in Conns,
           \A d \in Conns \ {c} : StageOf(d)' = StageOf(d),
           \/ StageOf(c)' = StageOf(c)
           \/ StageOf(c) = "none" /\ StageOf(c)' = "heading"
           \/ Forward(c)
    PROVE  Abstract!Next \/ UNCHANGED StageMap
<1>1. StageMap' = [StageMap EXCEPT ![c] = StageOf(c)']
  BY DEF StageMap
<1>2. CASE StageOf(c)' = StageOf(c)
  BY <1>1, <1>2 DEF StageMap
<1>3. CASE StageOf(c) = "none" /\ StageOf(c)' = "heading"
  BY <1>1, <1>3 DEF StageMap, Abstract!Next, Abstract!Arrive, Abstract!Move
<1>4. CASE StageOf(c) = "heading" /\ StageOf(c)' = "receiving"
  BY <1>1, <1>4 DEF StageMap, Abstract!Next, Abstract!Receive, Abstract!Move
<1>5. CASE StageOf(c) \in {"heading", "receiving"} /\ StageOf(c)' = "working"
  BY <1>1, <1>5 DEF StageMap, Abstract!Next, Abstract!Delegate, Abstract!Move
<1>6. CASE StageOf(c) \in {"heading", "receiving", "working"} /\ StageOf(c)' = "answering"
  BY <1>1, <1>6 DEF StageMap, Abstract!Next, Abstract!Reply, Abstract!Move
<1> QED
  BY <1>2, <1>3, <1>4, <1>5, <1>6 DEF Forward

\* A handler and a timeout take their client forward, or nowhere.
LEMMA MoveRefines ==
    ASSUME TypeOK, NEW c \in objs \cap Conns, Move(c), UNCHANGED objs
    PROVE  Abstract!Next \/ UNCHANGED StageMap
<1> USE DEF TypeOK, ClientTypeOK, flowVars
<1>1. ASSUME NEW s \in States, st' = [st EXCEPT ![c] = s],
             \/ SameWatch(st[c], s)
             \/ /\ st[c] \in Receiving \cup {"CGI_TRANSMIT_BODY"}
                /\ s \notin {"REQ_LINE", "REQ_HEADERS"}
             \/ s = "RESPONSE" /\ st[c] # "RESPONSE"
      PROVE  Abstract!Next \/ UNCHANGED StageMap
  <2>1. \A d \in Conns \ {c} : StageOf(d)' = StageOf(d)
    BY <1>1 DEF StageOf
  <2>2. st[c] \in States /\ c \in objs' /\ st'[c] = s
    BY <1>1
  <2>3. StageOf(c)' = StageOf(c) \/ Forward(c)
    <3>1. CASE SameWatch(st[c], s)
      BY <2>2, <3>1 DEF Forward, StageOf, States, Receiving, SameWatch
    <3>2. CASE st[c] \in Receiving \cup {"CGI_TRANSMIT_BODY"} /\ s \notin {"REQ_LINE", "REQ_HEADERS"}
      BY <1>1, <2>2, <3>2 DEF Forward, StageOf, States, Receiving
    <3>3. CASE s = "RESPONSE" /\ st[c] # "RESPONSE"
      BY <2>2, <3>3 DEF Forward, StageOf, States, Receiving
    <3> QED
      BY <1>1, <3>1, <3>2, <3>3
  <2> QED
    BY <2>1, <2>3, OneClientStep
<1>2. CASE UNCHANGED st
  BY <1>2 DEF StageMap, StageOf
<1>3. CASE Advance(c)
  BY <1>1, <1>3 DEF Advance
<1>4. CASE st[c] \in Receiving \cup {"DISCARD_BODY"} /\ Answer(c)
  BY <1>1, <1>4 DEF Answer, Enter, States, Receiving
<1>5. ASSUME st[c] \in Receiving, NEW s \in {"DISCARD_BODY", "REQ_BODY"}, AwaitBody(c, s)
      PROVE  Abstract!Next \/ UNCHANGED StageMap
  BY <1>1, <1>5 DEF AwaitBody, Enter, States, Receiving
<1>6. ASSUME st[c] \in Receiving, NEW body \in BOOLEAN, SpawnCgi(c, body)
      PROVE  Abstract!Next \/ UNCHANGED StageMap
  BY <1>1, <1>6 DEF SpawnCgi, Enter, States
<1>7. CASE st[c] = "REQ_BODY" /\ FeedScript(c)
  BY <1>1, <1>7 DEF FeedScript, States, Receiving
<1>8. CASE st[c] = "CGI_TRANSMIT_BODY" /\ FetchMoreBody(c)
  BY <1>1, <1>8 DEF FetchMoreBody, States, Receiving
<1>9. CASE st[c] = "CGI_TRANSMIT_BODY" /\ CloseStdin(c)
  BY <1>1, <1>9 DEF CloseStdin, Enter, States
<1>10. ASSUME st[c] \in {"CGI_HEADERS", "CGI_BODY"}, NEW kill \in BOOLEAN, LeaveCgi(c, kill)
       PROVE  Abstract!Next \/ UNCHANGED StageMap
  BY <1>1, <1>10 DEF LeaveCgi, Enter, States
<1> QED
  BY <1>2, <1>3, <1>4, <1>5, <1>6, <1>7, <1>8, <1>9, <1>10 DEF Move, KeepRequest, Receiving

\* Deleting clients releases them.
LEMMA ReleaseRefines ==
    ASSUME objs' \subseteq objs, \A c \in objs' \cap Conns : st'[c] = st[c]
    PROVE  Abstract!Next \/ UNCHANGED StageMap
<1> DEFINE D == (objs \ objs') \cap Conns
<1>1. StageMap' = [c \in Conns |-> IF c \in D THEN "none" ELSE StageMap[c]]
  BY DEF StageMap, StageOf
<1>2. Abstract!Release(D)
  BY <1>1 DEF Abstract!Release, StageMap
<1> QED
  BY <1>2 DEF Abstract!Next

LEMMA StepRefines ==
    ASSUME TypeOK, Sound, [Next]_vars
    PROVE  Abstract!Next \/ UNCHANGED StageMap
<1> USE DEF kernelVars, cycleVars, registryVars, childVars, pipeVars, flowVars
<1>0. Running \/ UNCHANGED vars
  <2>1. ~Running => ~HandleClient
    BY HandlerMoves DEF HandleClient, Dispatch, Running, TypeOK
  <2> QED
    BY <2>1 DEF Next, Loop, Running, EpollWait, HandleListener, Dispatch, BeginSweep, SweepOne,
                Clear, Reap, ReapChildren, Shutdown, Stopped, Connect, ScriptExit, Tick
<1>1. CASE Running /\ HandleClient
  <2>1. PICK c \in Conns : Handle(c)
    BY <1>1 DEF HandleClient
  <2>2. Dispatch(c) /\ Move(c) /\ UNCHANGED objs
    BY <2>1, HandlerMoves DEF TypeOK
  <2> QED
    BY <1>1, <2>2, MoveRefines DEF Dispatch, Sound, NoDanglingPointer
<1>2. CASE Running /\ SweepOne
  <2>1. PICK c \in sweep : HandleTimeout(c) /\ UNCHANGED objs
    BY <1>2 DEF SweepOne
  <2>2. c \in objs \cap Conns
    BY <1>2 DEF Sound, NoDanglingPointer, TypeOK, LoopTypeOK
  <2> QED
    BY <2>1, <2>2, TimeoutMoves, MoveRefines
<1>3. ASSUME Running, NEW f \in NextFree(0), AcceptClient(f)
      PROVE  Abstract!Next \/ UNCHANGED StageMap
  <2>1. PICK c \in Conns \ objs : Construct(c, f)
    BY <1>3 DEF AcceptClient
  <2>2. objs' = objs \cup {c} /\ st' = st /\ st[c] = "REQ_LINE"
    BY <1>3, <2>1 DEF Construct, Sound, FieldsMatchState
  <2>3. StageOf(c) = "none" /\ StageOf(c)' = "heading"
    BY <2>1, <2>2 DEF StageOf
  <2>4. \A d \in Conns \ {c} : StageOf(d)' = StageOf(d)
    BY <2>2 DEF StageOf
  <2> QED
    BY <2>1, <2>3, <2>4, OneClientStep
<1>4. CASE UNCHANGED <<objs, st>>
  BY <1>4 DEF StageMap, StageOf
<1>5. CASE Clear
  BY <1>5, ReleaseRefines DEF Clear, Destroy
<1>6. CASE Shutdown
  BY <1>6, ReleaseRefines DEF Shutdown
<1>7. HandleListener => UNCHANGED <<objs, st>> \/ \E f \in NextFree(0) : AcceptClient(f)
  BY DEF HandleListener, KeepRequest, DropClient, AcceptOutOfFds,
         OtherConnectionsKept
<1>8. EpollWait \/ BeginSweep \/ Reap \/ Connect \/ ScriptExit \/ Tick \/ Stopped \/ UNCHANGED vars
        => UNCHANGED <<objs, st>>
  BY DEF EpollWait, BeginSweep, Reap, Connect, ScriptExit, Tick, EnvironmentKept, Stopped, vars
<1> QED
  BY <1>0, <1>1, <1>2, <1>3, <1>4, <1>5, <1>6, <1>7, <1>8 DEF Next, Loop

\* A client is answered at most once, never goes back to an earlier stage, and is
\* not answered before it was received: no order of events, late scripts, timeouts
\* and deletions can break the order of its stages.
THEOREM ServerRefinesLifecycle == Spec => LifecycleSpec
<1>1. Init => Abstract!Init
  <2>1. ASSUME Init PROVE \A c \in Conns : c \notin objs
    BY <2>1, KernelAssumption DEF Init, ClientInit
  <2> QED
    BY <2>1 DEF Abstract!Init, StageOf
<1>2. TypeOK /\ Sound /\ [Next]_vars => [Abstract!Next]_StageMap
  BY StepRefines
<1> QED
  BY <1>1, <1>2, TypeCorrect, ServerSound, PTL DEF Spec, LifecycleSpec, Abstract!Spec, StageMap

=============================================================================
