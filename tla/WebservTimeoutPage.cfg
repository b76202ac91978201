SPECIFICATION Spec
CONSTANTS
    Conns = {c1}
    Listener = listener
    Null = Null
    Fds = {3, 4, 5, 6, 7, 8, 9, 10, 11}
    ListenFd = 3
    ReserveFd = 4
    Pids = {p1, p2}
    NoPid = NoPid
    Faults = {"timeout_page_cgi"}
    CgiTimeout = 2
    KillGrace = 1
    Timeout = 1
    Units = 1
INVARIANTS
    FdsAccounted
