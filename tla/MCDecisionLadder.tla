-------------------------- MODULE MCDecisionLadder --------------------------
(***************************************************************************)
(* DecisionLadder for TLC: three answers, with the pairs in the             *)
(* order of decide()'s loops.                                               *)
(***************************************************************************)
EXTENDS DecisionLadder

CONSTANTS draftA, draftB, draftC

MCThree    == {draftA, draftB, draftC}
MCAllPairs == << <<draftA, draftB>>, <<draftA, draftC>>, <<draftB, draftC>> >>

=============================================================================
