CONSTANTS
    c1 = c1
    c2 = c2
    Conns = {c1, c2}
    Files <- MCFiles
    Locked = {"locked"}
    Worlds <- MCWorlds
    Capacity = 6
SPECIFICATION TransferSpec
INVARIANTS
    EveryScriptAnswers
CHECK_DEADLOCK FALSE
