SPECIFICATION ProgressSpec
CONSTANTS
    None = None
    c1 = c1
    c2 = c2
    chat1 = chat1
    n1 = n1
    n2 = n2
    k1 = k1
    f1 = f1
    r1 = r1
    r2 = r2
    Call = {c1, c2}
    Transfer = {}
    Chat = {chat1}
    Nonce = {n1, n2}
    Key = {k1}
    Turn <- AnswerTurn
    ChatOf <- NoTransfer
    MaxQueuedTurns = 1
    Parts = {"answer", "end", "drain", "commit", "tree"}
CHECK_DEADLOCK FALSE
PROPERTIES
    EveryTurnEnds
    ClosedIsWiped
    CommitsSettle
    TreesRead
