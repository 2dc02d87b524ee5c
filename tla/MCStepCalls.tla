----------------------------- MODULE MCStepCalls -----------------------------
(* Instances of the freely called steps for TLC. *)
EXTENDS StepCalls, MCInputs

TwoTriggers == {PaymentsAlert, StrayAlert}
=============================================================================
