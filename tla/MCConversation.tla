--------------------------- MODULE MCConversation ---------------------------
(* Conversation with one branch besides main.                              *)
EXTENDS Conversation

CONSTANTS a, b, c, fork

MCConversations == {a, b, c}
MCBranches == {fork}
=============================================================================
