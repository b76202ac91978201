SPECIFICATION Spec
CONSTANTS
    Conns = {c1, c2}
    Listener = listener
    Null = Null
    Fds = {3, 4, 5}
    ListenFd = 3
    ReserveFd = 4
    Pids = {p1}
    NoPid = NoPid
    Faults = {}
    CgiTimeout = 1
    KillGrace = 1
    Timeout = 1
    Units = 1
INVARIANTS
    ReserveReady
PROPERTIES
    AcceptMakesProgress
