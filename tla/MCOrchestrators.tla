--------------------------- MODULE MCOrchestrators ---------------------------
(* Instances of the two orchestrators for TLC. *)
EXTENDS Orchestrators, MCInputs

OneTrigger == {ThermalAlert}
=============================================================================
