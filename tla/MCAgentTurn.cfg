SPECIFICATION Spec
CONSTANTS
    reader = reader
    writer = writer
    Tools <- MCTools
    Risk <- MCRisk
    Modes <- MCModes
    Remember = "session"
    Named = TRUE
    Histories <- MCHistories
    MaxSteps = 3
    MaxToolCalls = 3
    MaxRepeatedCalls = 2
    MaxProtocolRepairs = 1
    MaxFinalClaimRepairs = 1
    WarnAt = 1
    TerminateAfter = 1
    MaxPerReply = 2
    MaxTurns = 1
INVARIANTS StallsEnd OneAfterAbort
PROPERTIES EndsAnswered TurnEnds
CHECK_DEADLOCK FALSE
