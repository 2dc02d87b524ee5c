------------------------------- MODULE Examples -------------------------------
(***************************************************************************)
(* The example programs: run_investigation on the canned backend, then a   *)
(* report printed from the returned dict, section by section.  A section   *)
(* gets a key of the dict, is left out when there is nothing under it, and *)
(* raises AttributeError when it reads an attribute the object has not.    *)
(***************************************************************************)
EXTENDS Investigation, Backends

CONSTANT Script      \* the example that runs: "synthetic" or "thermal"

VARIABLES
  printed,           \* keys of the sections printed or left out so far
  report             \* "none" before the report, "printing", "done" or "crashed"

exampleVars == <<vars, printed, report>>

(***************************************************************************)
(* The pipeline on the canned backend.                                     *)
(***************************************************************************)
(* The phrases of the finding collected at place i. *)
CollectedSays(i) ==
  LET f == telemetry_findings[i]
  IN  CASE f.source = "deploy_log" -> {"deploy"}
        [] f.source = "logs"       -> {}
        [] f.source = "prometheus" ->
             (IF i = 1 THEN NameSays(trigger.metric) ELSE {"dependency"})
               \cup (IF f.subject = "db-proxy" /\ (i = 1 => trigger.metric = "utilization")
                     THEN {"connection pool", "connection", "pool"} ELSE {})
               \cup (IF f.subject = "inventory-service" /\ f.severity = "warning"
                     THEN {"thermal"} ELSE {})
Told == UNION {CollectedSays(i) : i \in DOMAIN telemetry_findings}

CannedReasoning ==
  Completes("reasoning") /\ \E findings \in {Told} : fake_reasoning(findings)
CannedFalsifier ==
  Completes("falsifier") /\ \E findings \in {Told} : fake_falsifier(findings)
CannedCounterfactual ==
  Completes("counterfactual") /\ (counterfactual_rule \/ fake_counterfactual)

RunPipeline ==
  /\ \/ pc = "fresh" /\ Invoke
     \/ RunSupervisor
     \/ RunTelemetry
     \/ CannedReasoning
     \/ CannedFalsifier
     \/ CannedCounterfactual
     \/ RunAction
  /\ UNCHANGED <<printed, report>>

(***************************************************************************)
(* The dataclasses of agents/state.py and the keys of the dict, as far as  *)
(* a report reads them.                                                    *)
(***************************************************************************)
Fields ==
  [InvestigationBudget     |-> {"initial_depth", "remaining", "extensions_granted"},
   Finding                 |-> {"source", "description", "severity", "raw", "timestamp"},
   Hypothesis              |-> {"summary", "claims", "confidence", "supporting_finding_ids"},
   CalibratedConfidence    |-> {"raw_llm", "prior", "falsification_modifier", "final",
                                "components"},
   Claim                   |-> {"statement", "supporting_finding_ids"},
   FalsificationResult     |-> {"verdict", "contradictions", "falsification_score",
                                "contested_claim_indices"},
   CounterfactualPrediction |-> {"action_description", "predicted_deltas",
                                 "prediction_confidence", "simulator_method"},
   PredictedDelta          |-> {"target", "metric", "expected_change", "lower_bound",
                                "upper_bound"},
   Action                  |-> {"description", "risk_level", "requires_approval", "rationale"},
   AgentStep               |-> {"agent", "description", "timestamp"}]

(* state.get(key): what there is under it, by what its sections iterate. *)
Present(key) ==
  CASE key = "budget"              -> TRUE
    [] key = "telemetry_findings"  -> telemetry_findings # <<>>
    [] key = "causal_hypothesis"   -> causal_hypothesis # None
    [] key = "falsification"       -> falsification # None
    [] key = "counterfactual"      -> counterfactual # None
    [] key = "recommended_actions" -> recommended_actions # <<>>
    [] key = "audit_trail"         -> TRUE
    [] OTHER                       -> FALSE

(* Claims are read only when the hypothesis has some. *)
Section(key, reads) == [key |-> key, reads |-> reads]
Has(read) == \/ read[1] = "Claim" /\ causal_hypothesis.claims = {}
             \/ read[2] \in Fields[read[1]]

BudgetRead == Section("budget",
  {<<"InvestigationBudget", "initial_depth">>, <<"InvestigationBudget", "extensions_granted">>})
FindingsRead == Section("telemetry_findings",
  {<<"Finding", "source">>, <<"Finding", "severity">>, <<"Finding", "description">>})
ConfidenceRead ==
  {<<"Hypothesis", "summary">>, <<"Hypothesis", "confidence">>, <<"Hypothesis", "claims">>}
    \cup {<<"CalibratedConfidence", f>> :
            f \in {"final", "raw_llm", "prior", "falsification_modifier"}}

(* Mutated form: the verdict looked for under another key. *)
SyntheticMisspelt ==
  <<BudgetRead, FindingsRead,
    Section("causal_hypothesis", ConfidenceRead),
    Section("falsification_result", {}), Section("counterfactual", {}),
    Section("recommended_actions", {}), Section("audit_trail", {})>>

SyntheticReport ==
  <<BudgetRead, FindingsRead,
    Section("causal_hypothesis",
      ConfidenceRead \cup {<<"Claim", "statement">>, <<"Claim", "supporting_finding_ids">>}),
    Section("falsification",
      {<<"FalsificationResult", "verdict">>, <<"FalsificationResult", "falsification_score">>,
       <<"FalsificationResult", "contradictions">>}),
    Section("counterfactual",
      {<<"CounterfactualPrediction", "simulator_method">>,
       <<"CounterfactualPrediction", "prediction_confidence">>,
       <<"CounterfactualPrediction", "predicted_deltas">>}
        \cup {<<"PredictedDelta", f>> : f \in Fields["PredictedDelta"]}),
    Section("recommended_actions",
      {<<"Action", "risk_level">>, <<"Action", "description">>,
       <<"Action", "rationale">>, <<"Action", "requires_approval">>}),
    Section("audit_trail",
      {<<"AgentStep", "timestamp">>, <<"AgentStep", "agent">>, <<"AgentStep", "description">>})>>

ThermalReport ==
  <<BudgetRead, FindingsRead,
    Section("causal_hypothesis",
      ConfidenceRead \cup {<<"Claim", "text">>, <<"Claim", "confidence">>,
                           <<"Hypothesis", "supported_by_finding_ids">>}),
    Section("falsification_result",
      {<<"FalsificationResult", "verdict">>, <<"FalsificationResult", "contested_claims">>,
       <<"FalsificationResult", "supporting_evidence">>}),
    Section("counterfactual_prediction",
      {<<"CounterfactualPrediction", "method">>, <<"CounterfactualPrediction", "predicted_state">>,
       <<"CounterfactualPrediction", "confidence">>, <<"CounterfactualPrediction", "caveats">>}),
    Section("action_recommendation",
      {<<"Action", "action_type">>, <<"Action", "description">>, <<"Action", "risk_level">>,
       <<"Action", "auto_executable">>, <<"Action", "rationale">>})>>

Sections == IF Script = "synthetic" THEN SyntheticReport ELSE ThermalReport
Reached == Len(printed) + 1

(***************************************************************************)
(* main: one section per step.                                             *)
(***************************************************************************)
StartReport ==
  /\ pc = "returned"
  /\ report = "none"
  /\ report' = "printing"
  /\ UNCHANGED <<vars, printed>>

PrintSection ==
  /\ report = "printing"
  /\ Reached <= Len(Sections)
  /\ LET section == Sections[Reached]
     IN  IF ~Present(section.key) THEN
           /\ printed' = Append(printed, "nothing")
           /\ UNCHANGED report
         ELSE IF \A read \in section.reads : Has(read) THEN
           /\ printed' = Append(printed, section.key)
           /\ UNCHANGED report
         ELSE
           /\ report' = "crashed"
           /\ UNCHANGED printed
  /\ UNCHANGED vars

EndReport ==
  /\ report = "printing"
  /\ Reached > Len(Sections)
  /\ report' = "done"
  /\ UNCHANGED <<vars, printed>>

ExampleInit ==
  /\ Init
  /\ printed = <<>>
  /\ report = "none"

ExampleNext == RunPipeline \/ StartReport \/ PrintSection \/ EndReport

ExampleSpec == ExampleInit /\ [][ExampleNext]_exampleVars

(***************************************************************************)
(* Properties.                                                             *)
(***************************************************************************)

(* The report leaves out nothing a human approver has to see: whatever the *)
(* investigation concluded is under the key the report looks it up by, so  *)
(* a finished report shows the hypothesis, the verdict, the prediction,    *)
(* the actions and the trail; and it reads no attribute an object lacks.   *)
ReportShowsAll ==
  /\ report # "crashed"
  /\ report = "done" =>
       \A key \in {"telemetry_findings", "causal_hypothesis", "falsification",
                   "counterfactual", "recommended_actions", "audit_trail"} :
         \E i \in DOMAIN printed : printed[i] = key

(***************************************************************************)
(* What documents of the repository say, and the code does not do.         *)
(***************************************************************************)

(* Makefile:55 and the usage line of examples/run_thermal_incident.py:13:  *)
(* the program runs the thermal incident example.                          *)
ReportNeverCrashes == report # "crashed"
=============================================================================
