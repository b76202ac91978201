--------------------------- MODULE ServerConnection ---------------------------
(* class ServerConnection: accepting clients, with the descriptor held in     *)
(* reserve for the moment the table is full.                                  *)
EXTENDS ClientConnection

\* The handler ran without touching any connection.
OtherConnectionsKept ==
    UNCHANGED <<deletionQueue, registryVars, childVars, procs, serves, objs,
                clientFd, pipeVars, flowVars, age>>

\* accept() returned f, which becomes a watched ClientConnection.
AcceptClient(f) ==
    /\ backlog' = backlog - 1
    /\ openFds' = openFds \cup {f}
    /\ \E c \in Conns \ objs : Construct(c, f) /\ Add(c, f)
    /\ UNCHANGED <<deletionQueue, childVars, procs, serves, reserveFd>>

\* The socket flags could not be set and the client is closed again at once, or
\* it had gone before accept() (ECONNABORTED).
DropClient ==
    /\ backlog' = backlog - 1
    /\ OtherConnectionsKept
    /\ UNCHANGED <<openFds, reserveFd>>

\* A second accept() with the descriptors of T open: tmp is what it returns.
Shed(T, tmp) ==
    /\ tmp \in Opens(T)
    /\ backlog' = IF tmp # NoFd THEN backlog - 1 ELSE backlog

\* Mutant of AcceptOutOfFds: the client is accepted before the reserve is released.
AcceptBeforeRelease ==
    /\ \E tmp \in Opens(openFds) : Shed(openFds, tmp) /\ Reclaim(Released)
    /\ OtherConnectionsKept

\* Mutant of AcceptOutOfFds: the reserve is taken back before the client is closed.
ReclaimBeforeClose ==
    /\ \E tmp \in Opens(Released) :
        /\ Shed(Released, tmp)
        /\ \E f \in Opens(With(Released, tmp)) :
            /\ reserveFd' = f
            /\ openFds' = With(With(Released, tmp), f) \ {tmp}
    /\ OtherConnectionsKept

\* accept() failed with EMFILE or ENFILE. The reserve is released, accept() is
\* tried again, what it returns is closed, and the reserve is taken back. Each
\* of the two calls that open may fail: the system's table is not the server's own.
AcceptOutOfFds ==
    /\ \E tmp \in Opens(Released) :
        /\ Shed(Released, tmp)
        /\ Reclaim(With(Released, tmp) \ {tmp})
    /\ OtherConnectionsKept

\* handle() of the listening socket.
HandleListener ==
    /\ Dispatch(Listener)
    /\ \/ /\ "listen_error" \in Faults
          /\ Del(Listener)
          /\ KeepRequest
          /\ UNCHANGED <<objs, clientFd, age, reserveFd>>
       \/ /\ backlog > 0
          /\ \/ \E f \in NextFree(0) : AcceptClient(f)
             \/ NextFree(0) # {} /\ DropClient
             \/ NoFd \in Opens(openFds) /\ AcceptOutOfFds

=============================================================================
