SPECIFICATION Spec
CONSTANTS
    Conns = {c1, c2}
    Listener = listener
    Null = Null
    Fds = {3, 4, 5, 6, 7, 8, 9, 10, 11}
    ListenFd = 3
    ReserveFd = 4
    Pids = {p1, p2}
    NoPid = NoPid
    Faults = {}
    CgiTimeout = 1
    KillGrace = 1
    Timeout = 0
    Units = 1
SYMMETRY Symmetry
INVARIANTS
    TypeOK
    RegistryMatches
    NoDanglingPointer
    FdsNotShared
    FdsAccounted
    InterestMatchesState
    ChildrenTracked
    AbandonedScriptsCondemned
    CleanStop
    SweepReachesAll
PROPERTIES
    LifecycleSpec
