SPECIFICATION Spec
CONSTANTS
    a = a
    b = b
    c = c
    fork = fork
    None = None
    Conversations <- MCConversations
    Branches <- MCBranches
    Recorders = {"router"}
    MaxExchanges = 3
    Watched = 2
    MaxMoves = 2
INVARIANTS EventsStoredOnce HalvesAgree ModelReadsUnlessMoved
PROPERTIES TurnsKeptUnlessSkipped QuestionReachesTheFile
CHECK_DEADLOCK FALSE
