---------------------------- MODULE MCCheckpoint ----------------------------
(* Checkpoint with two changes of the user and two of the agent, one of    *)
(* each in a new file.                                                     *)
EXTENDS Checkpoint

CONSTANTS userEdit, userFile, agentEdit, agentFile

MCUserChanges == {userEdit, userFile}
MCAgentChanges == {agentEdit, agentFile}
MCNewFiles == {userFile, agentFile}
=============================================================================
