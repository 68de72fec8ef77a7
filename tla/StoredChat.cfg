SPECIFICATION ChatSpec
CONSTANTS
    None = None
    r1 = r1
    r2 = r2
    r3 = r3
    r4 = r4
    r5 = r5
    e1 = e1
    d1 = d1
    n1 = n1
    n2 = n2
    n3 = n3
    n4 = n4
    Run = {r1, r2, r3, r4, r5}
    Editor = {e1}
    Deleter = {d1}
    Nonce = {n1, n2, n3, n4}
    Instance = {"a", "b"}
    Turn <- Requests
    On <- Apart
    MaxCommitAttempts = 2
    MaxSends = 2
CHECK_DEADLOCK FALSE
INVARIANTS ChatStaysSound AnswersAreTrue
PROPERTIES ImplementsAtomicChat NeverRecreates
