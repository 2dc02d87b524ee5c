--------------------------- MODULE MCInvestigation ---------------------------
(* Instances of the pipeline for TLC. *)
EXTENDS Investigation, MCInputs

AllTriggers == {PaymentsAlert, ThermalAlert, PaymentsErrors, GatewayAlert, StrayAlert}
TwoTriggers == {PaymentsAlert, StrayAlert}
OneTrigger == {ThermalAlert}
=============================================================================
