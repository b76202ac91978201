CONSTANTS
    c1 = c1
    c2 = c2
    Conns = {c1, c2}
    Files <- MCFiles
    Locked = {"locked"}
    Worlds <- MCWorlds
    Capacity = 6
SPECIFICATION TransferSpec
INVARIANTS
    TransferTypeOK
    BodyInOrder
    BodyWhole
    AnswerInOrder
    EndsWhole
    ScriptAnswers
    HeadReadAsSent
    NobodyWaits
PROPERTIES
    UploadStored
CHECK_DEADLOCK FALSE
