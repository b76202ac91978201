------------------------------ MODULE EpollLoop ------------------------------
(* class EpollLoop: the map of connections, the epoll set that mirrors it,   *)
(* the deferred deletion queue, and the registry of CGI children. One pass of *)
(* run() is the phases wait, dispatch, sweep (which ends in clear()), reap.   *)
EXTENDS Kernel

CONSTANTS
    CgiTimeout, \* CGI_TIMEOUT, in ticks
    KillGrace   \* CGI_KILL_GRACE, in ticks

ASSUME LoopAssumption ==
    /\ CgiTimeout \in Nat \ {0}
    /\ KillGrace \in Nat \ {0}

VARIABLES
    phase,        \* where run() is
    batch,        \* the objects with an event of this round not yet dispatched
    sweep,        \* the expired connections the timeout loop has yet to visit
    deletionQueue,\* _deletion_queue
    connections,  \* _connections, from descriptor to object
    epollPtr,     \* data.ptr of the epoll registration of a descriptor
    interest,     \* events of that registration, ERR and HUP being implied
    fd,           \* Connection::fd of each object
    reserveFd,    \* _reserve_fd
    children,     \* the keys of _children
    left,         \* ticks until the deadline of a child
    signalled     \* whether the child was sent SIGTERM

registryVars == <<connections, epollPtr, interest, fd>>
childVars == <<children, left, signalled>>
cycleVars == <<phase, batch, sweep, deletionQueue>>

LoopTypeOK ==
    /\ phase \in {"wait", "dispatch", "sweep", "reap", "stopped"}
    /\ batch \subseteq Objs
    /\ sweep \subseteq Conns
    /\ deletionQueue \subseteq Objs
    /\ connections \in [Fds -> Objs \cup {Null}]
    /\ epollPtr \in [Fds -> Objs \cup {Null}]
    /\ interest \in [Fds -> {"IN", "OUT", "NONE"}]
    /\ fd \in [Objs -> Fds \cup {NoFd}]
    /\ reserveFd \in Fds \cup {NoFd}
    /\ children \subseteq Pids
    /\ left \in [Pids -> Nat]
    /\ signalled \in [Pids -> BOOLEAN]

LoopInit ==
    /\ phase = "wait" /\ batch = {} /\ sweep = {} /\ deletionQueue = {}
    /\ connections = [f \in Fds |-> IF f = ListenFd THEN Listener ELSE Null]
    /\ epollPtr = [f \in Fds |-> IF f = ListenFd THEN Listener ELSE Null]
    /\ interest = [f \in Fds |-> IF f = ListenFd THEN "IN" ELSE "NONE"]
    /\ fd = [o \in Objs |-> IF o = Listener THEN ListenFd ELSE NoFd]
    /\ reserveFd = ReserveFd
    /\ children = {}
    /\ left = [p \in Pids |-> 0]
    /\ signalled = [p \in Pids |-> FALSE]

-----------------------------------------------------------------------------
(* Registration: add, mod, rearm, del                                        *)

\* add(): f becomes the descriptor of o, watched for input.
Add(o, f) ==
    /\ fd' = [fd EXCEPT ![o] = f]
    /\ epollPtr' = [epollPtr EXCEPT ![f] = o]
    /\ interest' = [interest EXCEPT ![f] = "IN"]
    /\ connections' = [connections EXCEPT ![f] = o]

\* mod(): the same descriptor, other events.
Mod(o, events) ==
    /\ interest' = [interest EXCEPT ![fd[o]] = events]
    /\ UNCHANGED <<connections, epollPtr, fd>>

\* Mutant of Rearm: the map keeps the entry of the old descriptor.
RearmKeepsOldEntry(o, events, f) ==
    /\ epollPtr' = [epollPtr EXCEPT ![fd[o]] = Null, ![f] = o]
    /\ interest' = [interest EXCEPT ![fd[o]] = "NONE", ![f] = events]
    /\ connections' = [connections EXCEPT ![f] = o]
    /\ fd' = [fd EXCEPT ![o] = f]

\* rearm(): the object moves from its old descriptor to f.
Rearm(o, events, f) ==
    /\ epollPtr' = [epollPtr EXCEPT ![fd[o]] = Null, ![f] = o]
    /\ interest' = [interest EXCEPT ![fd[o]] = "NONE", ![f] = events]
    /\ connections' = [connections EXCEPT ![fd[o]] = Null, ![f] = o]
    /\ fd' = [fd EXCEPT ![o] = f]

\* del(): the object is only queued; clear() frees it after the batch.
Del(o) == deletionQueue' = deletionQueue \cup {o}

\* What delete_conn() does to the registry for every object of D.
Unregister(D) ==
    LET old == {fd[o] : o \in D}
    IN /\ epollPtr' = [f \in Fds |-> IF f \in old THEN Null ELSE epollPtr[f]]
       /\ interest' = [f \in Fds |-> IF f \in old THEN "NONE" ELSE interest[f]]
       /\ connections' = [f \in Fds |-> IF f \in old THEN Null ELSE connections[f]]
       /\ fd' = [o \in Objs |-> IF o \in D THEN NoFd ELSE fd[o]]

-----------------------------------------------------------------------------
(* The descriptor in reserve                                                 *)

\* What a call that opens a descriptor may return when those of T are open: the
\* lowest free one, or NoFd when the process has none left or the system's table
\* is full.
Opens(T) ==
    Nth(Fds \ T, 0) \cup {f \in {NoFd} : Fds \subseteq T \/ "enfile" \in Faults}

\* The open descriptors once such a call has returned f.
With(T, f) == T \cup ({f} \ {NoFd})

\* release_reserve_fd(): what is open afterwards.
Released == openFds \ {reserveFd}

\* reclaim_reserve_fd(), with the descriptors of T open and none in reserve.
Reclaim(T) ==
    \E f \in Opens(T) :
        /\ reserveFd' = f
        /\ openFds' = With(T, f)

-----------------------------------------------------------------------------
(* The registry of children                                                  *)

\* track_child(): a fresh entry with its deadline ahead.
TrackChild(p) ==
    /\ children' = children \cup {p}
    /\ left' = [left EXCEPT ![p] = CgiTimeout]
    /\ signalled' = [signalled EXCEPT ![p] = FALSE]

\* Mutant of KillChildren: the clock of the child starts again instead.
RestartDeadlines(P) ==
    /\ left' = [p \in Pids |-> IF p \in P \cap children THEN CgiTimeout ELSE left[p]]
    /\ UNCHANGED <<children, signalled>>

\* kill_child() on each pid of P: unknown pids are ignored, the others are due
\* at the next reap.
KillChildren(P) ==
    /\ left' = [p \in Pids |-> IF p \in P \cap children THEN 0 ELSE left[p]]
    /\ UNCHANGED <<children, signalled>>

\* Mutant of Reaped: a child that was sent SIGTERM is forgotten.
ReapedOrSignalled == {p \in children : procs[p] # "running" \/ signalled[p]}

\* The children a non-blocking waitpid() collects, or no longer knows.
Reaped == {p \in children : procs[p] # "running"}

\* The others that are past their deadline.
Overdue == {p \in children \ Reaped : left[p] = 0}

\* Mutant of Killed: no escalation beyond SIGTERM.
NeverKilled == {}

\* Those of them that were sent SIGTERM before, and are sent SIGKILL now.
Killed == {p \in Overdue : signalled[p]}

\* reap_children(): collect the dead and signal the overdue. The fields of an
\* erased entry take their initial values.
ReapChildren ==
    /\ phase = "reap"
    /\ phase' = "wait"
    /\ children' = children \ Reaped
    /\ left' = [p \in Pids |-> IF p \in Reaped THEN 0
                                ELSE IF p \in Overdue THEN KillGrace ELSE left[p]]
    /\ signalled' = [p \in Pids |-> p \notin Reaped /\ (signalled[p] \/ p \in Overdue)]
    /\ procs' = [p \in Pids |-> IF p \in Killed THEN "zombie"
                                ELSE IF p \in children /\ procs[p] = "zombie" THEN "none"
                                ELSE procs[p]]
    /\ serves' = [p \in Pids |-> IF p \in Killed THEN Null ELSE serves[p]]
    /\ UNCHANGED <<batch, sweep, deletionQueue, registryVars, reserveFd,
                   openFds, backlog>>

=============================================================================
