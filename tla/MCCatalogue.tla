---------------------------- MODULE MCCatalogue -----------------------------
(***************************************************************************)
(* Catalogue for TLC: two callers and two models.                          *)
(***************************************************************************)
EXTENDS Catalogue

CONSTANTS panel, turn, modelA, modelB

MCCallers == {panel, turn}
MCModels  == {modelA, modelB}
\* A dead key; a key for all models, one of them not routed; for one; for none.
MCGateways ==
    {[works |-> FALSE, granted |-> {}, routed |-> MCModels],
     [works |-> TRUE, granted |-> MCModels, routed |-> {modelB}],
     [works |-> TRUE, granted |-> {modelA}, routed |-> MCModels],
     [works |-> TRUE, granted |-> {}, routed |-> MCModels]}
=============================================================================
