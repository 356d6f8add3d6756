--------------------------- MODULE MCRunLifecycle ---------------------------
(***************************************************************************)
(* RunLifecycle for TLC: two seeds, two rounds of refinement.               *)
(***************************************************************************)
EXTENDS RunLifecycle

CONSTANTS seedA, seedB, refined1, refined2

MCSeeds      == {seedA, seedB}
MCNeighbours == <<refined1, refined2>>

=============================================================================
