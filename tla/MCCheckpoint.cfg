SPECIFICATION CheckpointSpec
CONSTANTS
    userEdit = userEdit
    userFile = userFile
    agentEdit = agentEdit
    agentFile = agentFile
    UserChanges <- MCUserChanges
    AgentChanges <- MCAgentChanges
    NewFiles <- MCNewFiles
    MaxCommits = 1
    MaxStashes = 3
INVARIANTS UserWorkKept AgentWorkUndoableUnlessDropped
PROPERTIES UndoRestoresUnstaged
