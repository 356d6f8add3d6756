--------------------------- MODULE MCMeasurements ---------------------------
(***************************************************************************)
(* Two models, two operations at a time, two keys, two providers.          *)
(***************************************************************************)
EXTENDS Measurements

CONSTANTS m1, m2, c1, c2
MCModels == {m1, m2}
MCOps == {c1, c2}
=============================================================================
