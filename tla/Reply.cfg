SPECIFICATION ReplySpec
CONSTANTS
    None = None
    c1 = c1  c2 = c2  c3 = c3  o1 = o1  o2 = o2
    Request = {o1, o2}
    Token = {1, 2, 3}
    Expires <- TokenExpiry
    Leeway = 1
    CredentialTTL = 3
    FreeKeyTTL = 2
    Timeout = 1
    MaxNow = 4
    Budgets <- Calls
    LoopBudgets <- Turns
    StreamBudgets <- Replies
    GateBudgets <- Embeddings
    FoldDocuments <- Texts
    EditBudgets <- Changes
    UploadBudgets <- Attached
INVARIANTS
    LoopKeepsLimits
    StreamTellsCalls
    GateKeepsShares
    FoldReadsAll
    UploadsAreTaken
    ScreensReply
PROPERTIES
    EditsKeepAnswers
    CallersAreKnown
SYMMETRY Symmetry
CHECK_DEADLOCK FALSE
