----------------------------- MODULE MCChatView -----------------------------
(***************************************************************************)
(* ChatView for TLC, with three handlers.                                  *)
(***************************************************************************)
EXTENDS ChatView, TLC

CONSTANTS f1, h1, h2, h3

MCFiles == {f1}
MCHandlers == {h1, h2, h3}
\* The handlers are told apart by nothing but what they handle.
Symmetry == Permutations(MCHandlers)
=============================================================================
