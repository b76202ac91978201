------------------------------- MODULE Webserv -------------------------------
(* The running server: the event loop of EpollLoop::run() over the listening  *)
(* socket, the client connections and the CGI children, in an environment of  *)
(* clients, scripts and the clock.                                            *)
EXTENDS ServerConnection

Init == KernelInit /\ LoopInit /\ ClientInit

-----------------------------------------------------------------------------
(* run()                                                                      *)

\* What epoll_wait() may report: the listening socket when a client waits or it
\* is broken, any other registered object for its interest or a hang-up.
Reportable ==
    {o \in Objs :
        /\ \E f \in Fds : epollPtr[f] = o
        /\ o = Listener => backlog > 0 \/ "listen_error" \in Faults}

\* epoll_wait(): some of what is reportable.
EpollWait ==
    /\ phase = "wait"
    /\ phase' = "dispatch"
    /\ batch' \in SUBSET Reportable
    /\ UNCHANGED <<sweep, deletionQueue, registryVars, reserveFd, childVars,
                   kernelVars, objs, clientFd, pipeVars, flowVars, age>>

HandleClient == \E c \in Conns : Handle(c)

\* Mutant of Expired: the clock starts with the first header.
ExpiredAfterLine ==
    {c \in Conns : (\E f \in Fds : connections[f] = c) /\ age[c] > Timeout
                   /\ st[c] # "REQ_LINE"}

\* The connections the timeout loop finds expired.
Expired == {c \in Conns : (\E f \in Fds : connections[f] = c) /\ age[c] > Timeout}

\* The batch is done and the clock is read.
BeginSweep ==
    /\ phase = "dispatch" /\ batch = {}
    /\ phase' = "sweep"
    /\ sweep' = Expired
    /\ UNCHANGED <<batch, deletionQueue, registryVars, reserveFd, childVars,
                   kernelVars, objs, clientFd, pipeVars, flowVars, age>>

\* One expired connection. When its handler moves it to another descriptor the
\* loop's iterator points at the erased map entry, and the increment that
\* follows may skip any of the others.
SweepOne ==
    \E c \in sweep :
        /\ phase = "sweep"
        /\ HandleTimeout(c)
        /\ IF connections' = connections THEN sweep' = sweep \ {c}
                                         ELSE sweep' \in SUBSET (sweep \ {c})
        /\ UNCHANGED <<phase, batch, reserveFd, objs, clientFd>>

\* The descriptors the destructor of c closes.
Held(c) == {clientFd[c], stdinFd[c], stdoutFd[c]} \ {NoFd}

\* The descriptors the objects in D own: deleting them closes these.
OwnedBy(D) ==
    {f \in Fds : \/ \E c \in D \cap Conns : f \in Held(c)
                 \/ Listener \in D /\ f = fd[Listener]}

\* The destructors of the objects in D: their children are handed to the next
\* reap, their descriptors closed. The fields of the freed client objects take
\* the initial values of the objects to be allocated there.
Destroy(D) ==
    LET gone == D \cap Conns
        Reset(field, value) == [c \in Conns |-> IF c \in gone THEN value ELSE field[c]]
    IN /\ objs' = objs \ D
       /\ openFds' = openFds \ OwnedBy(D)
       /\ KillChildren({cgiPid[c] : c \in gone})
       /\ serves' = [p \in Pids |-> IF serves[p] \in gone THEN Null ELSE serves[p]]
       /\ clientFd' = Reset(clientFd, NoFd)
       /\ stdinFd' = Reset(stdinFd, NoFd)
       /\ stdoutFd' = Reset(stdoutFd, NoFd)
       /\ cgiPid' = Reset(cgiPid, NoPid)
       /\ st' = Reset(st, "REQ_LINE")
       /\ locCgi' = Reset(locCgi, FALSE)
       /\ age' = Reset(age, 0)
       /\ room' = Reset(room, 0)

\* Mutant of Clear: the queue is not emptied.
ClearKeepsQueue ==
    /\ phase = "sweep" /\ sweep = {}
    /\ phase' = "reap"
    /\ Unregister(deletionQueue)
    /\ Destroy(deletionQueue)
    /\ UNCHANGED <<batch, sweep, deletionQueue, reserveFd, procs, backlog>>

\* clear(), after the timeout loop: delete_conn() on everything queued.
Clear ==
    /\ phase = "sweep" /\ sweep = {}
    /\ phase' = "reap"
    /\ Unregister(deletionQueue)
    /\ Destroy(deletionQueue)
    /\ deletionQueue' = {}
    /\ UNCHANGED <<batch, sweep, reserveFd, procs, backlog>>

\* reap_children(): the connections are not told.
Reap == ReapChildren /\ UNCHANGED <<objs, clientFd, pipeVars, flowVars, age>>

\* Mutant of StopChildren: they are left to themselves.
AbandonChildren == UNCHANGED <<procs, serves>> /\ children' = {}

\* The destructor of the loop kills and waits for every child it knows.
StopChildren ==
    /\ procs' = [p \in Pids |-> IF p \in children THEN "none" ELSE procs[p]]
    /\ serves' = [p \in Pids |-> IF p \in children THEN Null ELSE serves[p]]
    /\ children' = {}

\* SIGINT, or a failing epoll_wait(), ends run(); the destructor of the loop then
\* kills its children, deletes every connection and closes the reserve.
Shutdown ==
    /\ phase = "wait"
    /\ phase' = "stopped"
    /\ objs' = objs \ {connections[f] : f \in Fds}
    /\ openFds' = openFds \ (OwnedBy({connections[f] : f \in Fds}) \cup {reserveFd})
    /\ StopChildren
    /\ UNCHANGED <<batch, sweep, deletionQueue, registryVars, reserveFd, left,
                   signalled, backlog, clientFd, pipeVars, flowVars, age>>

-----------------------------------------------------------------------------
(* The environment. What clients and scripts do during a round reaches the    *)
(* server at its next system call on the descriptor concerned, and a round    *)
(* makes one per descriptor: it is taken to happen between two rounds. Time   *)
(* passes there too, in epoll_wait(), since the handlers do not block.        *)

EnvironmentKept ==
    UNCHANGED <<cycleVars, registryVars, reserveFd, objs, clientFd, pipeVars, flowVars>>

\* A client completes the handshake. Bound: as many clients as objects.
Connect ==
    /\ phase = "wait" /\ Listener \in objs
    /\ backlog + Cardinality(objs \cap Conns) < Cardinality(Conns)
    /\ backlog' = backlog + 1
    /\ EnvironmentKept
    /\ UNCHANGED <<openFds, procs, serves, childVars, age>>

\* A script ends, by itself or by SIGTERM.
ScriptExit ==
    \E p \in Pids :
        /\ phase = "wait"
        /\ procs[p] = "running"
        /\ procs' = [procs EXCEPT ![p] = "zombie"]
        /\ serves' = [serves EXCEPT ![p] = Null]
        /\ EnvironmentKept
        /\ UNCHANGED <<openFds, backlog, childVars, age>>

\* A second passes.
Tick ==
    /\ phase = "wait"
    /\ age' = [c \in Conns |-> IF c \in objs /\ age[c] <= Timeout
                               THEN age[c] + 1 ELSE age[c]]
    /\ left' = [p \in Pids |-> IF p \in children /\ left[p] > 0
                               THEN left[p] - 1 ELSE left[p]]
    /\ EnvironmentKept
    /\ UNCHANGED <<kernelVars, children, signalled>>

\* The process has ended.
Stopped == phase = "stopped" /\ UNCHANGED vars

-----------------------------------------------------------------------------

\* One step of run().
Loop ==
    \/ EpollWait \/ HandleClient \/ HandleListener
    \/ BeginSweep \/ SweepOne \/ Clear \/ Reap

Next ==
    \/ Loop
    \/ Shutdown \/ Stopped
    \/ Connect \/ ScriptExit \/ Tick

Spec == Init /\ [][Next]_vars

TypeOK == KernelTypeOK /\ LoopTypeOK /\ ClientTypeOK

\* run() never rests while the process lives, and the clock never stops: between
\* two rounds time passes in epoll_wait(), whose timeout is 5 ms. Clients and
\* scripts are promised nothing.
FairSpec == Spec /\ WF_vars(Loop) /\ SF_vars(Tick)

-----------------------------------------------------------------------------
(* Properties                                                                 *)

Running == phase # "stopped"

\* The map, the epoll set and the objects name each other: every live object is
\* found under its descriptor in both, and neither holds anything else. A stale
\* entry is a dangling pointer or an object no event and no timeout can reach.
RegistryMatches ==
    Running =>
        /\ \A o \in objs : fd[o] \in Fds /\ connections[fd[o]] = o /\ epollPtr[fd[o]] = o
        /\ \A f \in Fds : connections[f] # Null =>
                connections[f] \in objs /\ fd[connections[f]] = f
        /\ \A f \in Fds : epollPtr[f] # Null =>
                epollPtr[f] \in objs /\ fd[epollPtr[f]] = f

\* What the loop still holds pointers to is alive: the rest of the batch, the
\* rest of the sweep and the deletion queue, whatever the handlers that ran
\* before in the same round gave up (deferred deletion, del() and clear()).
NoDanglingPointer ==
    Running =>
        /\ batch \subseteq objs
        /\ sweep \subseteq objs
        /\ deletionQueue \subseteq objs

\* No descriptor has two owners: not two connections, not two roles in one, not a
\* connection and the listening socket or the reserve. A descriptor closed but
\* still named, reused by the kernel, would break this.
FdsNotShared ==
    Running =>
        /\ \A c, d \in Conns : c # d => Held(c) \cap Held(d) = {}
        /\ \A c \in Conns :
              /\ stdinFd[c] # NoFd => stdinFd[c] \notin {clientFd[c], stdoutFd[c]}
              /\ stdoutFd[c] # NoFd => stdoutFd[c] # clientFd[c]
              /\ Held(c) \cap {reserveFd} = {}
              /\ Listener \in objs => fd[Listener] \notin Held(c)
        /\ Listener \in objs => fd[Listener] # reserveFd

\* Every open descriptor has an owner that will close it, and every owned one is
\* open: nothing leaks, nothing is closed twice. "An aborted CGI request releases
\* its socket and both pipe ends" (cgi_lifecycle_test.clj).
FdsAccounted == Running => openFds = OwnedBy(objs) \cup ({reserveFd} \ {NoFd})

\* What a connection waits for is what its state needs: the client's bytes while
\* receiving, room in the script's stdin, the script's output, or room in the
\* client's socket. Otherwise it would spin or never be woken.
InterestMatchesState ==
    Running =>
        \A c \in objs \cap Conns :
            LET Watches(f, event) == fd[c] = f /\ interest[f] = event
            IN /\ st[c] \in Receiving \cup {"DISCARD_BODY"} => Watches(clientFd[c], "IN")
               /\ st[c] = "RESPONSE" => Watches(clientFd[c], "OUT")
               /\ st[c] = "CGI_TRANSMIT_BODY" => Watches(stdinFd[c], "OUT")
               /\ st[c] \in {"CGI_HEADERS", "CGI_BODY"} => Watches(stdoutFd[c], "IN")

\* The registry of children is the set of processes the kernel holds for the
\* server, running or zombie: none is forgotten, and no entry is stale.
ChildrenTracked == Running => children = {p \in Pids : procs[p] # "none"}

\* A script whose connection is gone is due for a signal or has had one: "children
\* must not outlive the connection that forked them" (cgi_lifecycle_test.clj).
AbandonedScriptsCondemned ==
    \A p \in children :
        procs[p] = "running" /\ serves[p] = Null => left[p] = 0 \/ signalled[p]

\* When the table is full the reserve is there to be surrendered
\* (ServerConnection::handle).
ReserveReady == Running /\ Free = {} => reserveFd # NoFd

\* When the process ends nothing outlives it: no child runs or waits to be
\* collected, no object and no descriptor is left (~EpollLoop).
CleanStop ==
    phase = "stopped" => /\ objs = {} /\ openFds = {}
                         /\ \A p \in Pids : procs[p] = "none"

\* Every event on the listening socket takes a client off the backlog, even with
\* the table full; otherwise the loop would spin on it at full speed.
AcceptMakesProgress ==
    [][(Listener \in batch \ batch') => backlog' < backlog]_vars

\* "EpollLoop::run() sweeps every connection each tick" (timeout_test.clj): when
\* the timeout loop is through, every connection that is still late, in whatever
\* state, is one that is being given up. A handler that moves the connection in
\* the map it is called from, or does nothing in its state, would leave one.
SweepReachesAll == phase = "sweep" /\ sweep = {} => Expired \subseteq deletionQueue

\* Every script is collected, even one that ignores SIGTERM.
ScriptsCollected == \A p \in Pids : p \in children ~> p \notin children

-----------------------------------------------------------------------------
(* What the safety invariants rest on. Each of them assumes the others in the *)
(* step before: the registry is right because descriptors are not shared,     *)
(* which they are not because every owned one is open, and so on.             *)

\* Outside their phases nothing is left of the batch and of the sweep, and the
\* deletion queue is empty between two rounds.
PhasesClean ==
    /\ phase # "dispatch" => batch = {}
    /\ phase # "sweep" => sweep = {}
    /\ phase \in {"wait", "reap"} => deletionQueue = {}

\* What a connection, the listening socket and the loop hold is open.
OwnedOpen ==
    /\ \A c \in Conns : Held(c) \subseteq openFds
    /\ Listener \in objs => fd[Listener] \in openFds
    /\ reserveFd # NoFd => reserveFd \in openFds

\* A connection that is not allocated is blank; an allocated one has a socket,
\* and the ends of the pipes its state will use.
FieldsMatchState ==
    /\ \A c \in Conns \ objs : Held(c) = {} /\ st[c] = "REQ_LINE" /\ ~locCgi[c]
    /\ \A c \in objs \cap Conns :
        /\ clientFd[c] # NoFd
        /\ st[c] = "REQ_BODY" /\ locCgi[c] => stdinFd[c] # NoFd /\ stdoutFd[c] # NoFd
        /\ st[c] = "CGI_TRANSMIT_BODY" => stdinFd[c] # NoFd /\ stdoutFd[c] # NoFd
        /\ st[c] \in {"CGI_HEADERS", "CGI_BODY"} => stdoutFd[c] # NoFd

\* The inductive invariant of a running server.
Sound ==
    Running => /\ RegistryMatches /\ NoDanglingPointer
               /\ FdsNotShared /\ InterestMatchesState
               /\ PhasesClean /\ OwnedOpen /\ FieldsMatchState

-----------------------------------------------------------------------------
(* The abstract specification                                                 *)

\* The stage of a client, for the abstract specification.
StageOf(c) ==
    IF c \notin objs THEN "none"
    ELSE CASE st[c] = "RESPONSE"                   -> "answering"
           [] st[c] \in {"CGI_HEADERS", "CGI_BODY"} -> "working"
           [] st[c] \in {"REQ_LINE", "REQ_HEADERS"} -> "heading"
           [] OTHER                                -> "receiving"

Abstract == INSTANCE Lifecycle WITH stage <- [c \in Conns |-> StageOf(c)]

\* The server implements Lifecycle: whatever the interleaving of events, timeouts
\* and deletions, a client is answered at most once and never goes back.
LifecycleSpec == Abstract!Spec

\* And it lets go of every client whose head it has read: the timeouts, the
\* content length and the deadline of its script see to that, whatever client and
\* script do.
LifecycleFairSpec == Abstract!FairSpec

\* "408 if the header is not complete in time" (showcase.conf): no client stays
\* in its head for ever.
HeadInTime == \A c \in Conns : StageOf(c) = "heading" ~> StageOf(c) # "heading"

\* A client that stays in its head for ever keeps completing lines: a line that
\* does not end, and silence, are ended by the buffer (414, 431) and the timeout.
SilentHeadEnds ==
    \A c \in Conns :
        <>[][~(HandleRequest(c) /\ NextLines(c))]_vars
            => (StageOf(c) = "heading" ~> StageOf(c) # "heading")

=============================================================================
