---------------------------- MODULE MCAgentTurn -----------------------------
(* AgentTurn with a reader and a writer and the policies that ask.         *)
EXTENDS AgentTurn

CONSTANTS reader, writer

MCTools == {reader, writer}
MCRisk == [t \in MCTools |-> IF t = reader THEN 0 ELSE 1]
\* Nothing, or a turn cut after the first of two calls.
MCHistories == {<<>>, <<Text, Calling(<<1, 2>>), ResultOf(1)>>}
MCModes == {"safe", "balanced"}
=============================================================================
