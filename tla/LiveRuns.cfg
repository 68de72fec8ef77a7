SPECIFICATION PartSpec
CONSTANTS
    None = None
    c1 = c1
    c2 = c2
    c3 = c3
    r1 = r1
    r2 = r2
    r3 = r3
    r4 = r4
    d1 = d1
    d2 = d2
    d3 = d3
    t1 = t1
    chat1 = chat1
    m1 = m1
    m2 = m2
    m3 = m3
    n1 = n1
    n2 = n2
    Call = {c1, c2, c3, r1, r2, r3, r4, d1, d2, d3}
    Transfer = {t1}
    Chat = {chat1}
    Nonce = {m1, m2, m3, n1, n2}
    Key = {"k1", "k2"}
    Turn <- Requests
    ChatOf <- Moved
    MaxQueuedTurns = 2
    Parts = {"queue", "full", "retried", "asked", "followed", "compacted", "unseeded"}
SYMMETRY Symmetry
CHECK_DEADLOCK FALSE
INVARIANTS OneReplyPerChat QueueBehindReply FinishedOnce StopReachesReply WaitCoversRuns RegistryExact MovingChatIsIdle DeletedNotHeld
PROPERTY QueueEndsAsAsked
