------------------------- MODULE MCFusionAutomation -------------------------
(* Small Groups for the model checker.                                     *)
EXTENDS FusionAutomation


=============================================================================
