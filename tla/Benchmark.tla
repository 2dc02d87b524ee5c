------------------------------ MODULE Benchmark ------------------------------
(***************************************************************************)
(* bench/run_benchmark.py: for every scenario of the corpus a fresh state, *)
(* the findings of the scenario put into it, five steps on the canned      *)
(* backend with the action before the prediction, and one row of scores.   *)
(***************************************************************************)
EXTENDS Backends, Corpus, Metrics

CONSTANTS
  Scenarios,    \* incidents the corpus may hold
  MaxLimit      \* bound on the scenarios of a run

ASSUME BenchmarkAssumption ==
  /\ Scenarios \subseteq Incidents
  /\ \A s \in Scenarios : s.trigger \in Trigger /\ s.findings \in Seq(Finding)
  /\ Scenarios # {}
  /\ MaxLimit \in Nat

VARIABLES
  pc,           \* the line of run() about to be executed
  scenarios,    \* load_corpus(limit)
  scored        \* the parallel lists run() appends to, as one list of records

vars == <<state, pc, scenarios, scored>>

(* Mutated form: the prediction before the action, as in the pipeline. *)
PipelineOrder ==
  <<"open", "supervisor", "reasoning", "falsifier", "counterfactual", "action", "score">>

Order ==
  <<"open", "supervisor", "reasoning", "falsifier", "action", "counterfactual", "score">>

Goes(stage) ==
  /\ pc = stage
  /\ pc' = IF stage = "score" THEN "open"
           ELSE Order[1 + CHOOSE i \in DOMAIN Order : Order[i] = stage]
  /\ UNCHANGED scenarios

Current == scenarios[Len(scored) + 1]
Told(s) == FindingsSay(s.findings)

(* The dict before the first scenario is not there; any one stands for it. *)
Init ==
  /\ scenarios \in UNION {[1..n -> Scenarios] : n \in 0..MaxLimit}
  /\ scored = <<>>
  /\ pc = "open"
  /\ new_state(CHOOSE t \in {s.trigger : s \in Scenarios} : TRUE)

(* Mutated form: the dict of the last scenario used again. *)
Reuse(s) ==
  /\ trigger' = s.trigger
  /\ telemetry_findings' = s.findings
  /\ UNCHANGED <<routed_to, budget, causal_hypothesis, falsification, counterfactual,
                 recommended_actions, confidence_score, audit_trail,
                 requires_human_approval, revision>>

(* new_state, and the findings of the scenario in place of the empty list. *)
Renew(s) ==
  /\ trigger' = s.trigger
  /\ routed_to' = <<>>
  /\ budget' = NewBudget(s.trigger.severity)
  /\ telemetry_findings' = s.findings
  /\ causal_hypothesis' = None
  /\ falsification' = None
  /\ counterfactual' = None
  /\ recommended_actions' = <<>>
  /\ confidence_score' = 0
  /\ audit_trail' = <<Step("system", "opened")>>
  /\ requires_human_approval' = TRUE
  /\ revision' = 0

(* Mutated form: the last scenario left out. *)
OpenAllButLast ==
  /\ Goes("open")
  /\ Len(scored) + 1 < Len(scenarios)
  /\ Renew(Current)
  /\ UNCHANGED scored

Open ==
  /\ Goes("open")
  /\ Len(scored) < Len(scenarios)
  /\ Renew(Current)
  /\ UNCHANGED scored

RunSupervisor == Goes("supervisor") /\ supervisor_step /\ UNCHANGED scored
RunReasoning ==
  /\ Goes("reasoning")
  /\ \E findings \in {Told(Current)} : fake_reasoning(findings)
  /\ UNCHANGED scored
RunFalsifier ==
  /\ Goes("falsifier")
  /\ \E findings \in {Told(Current)} : fake_falsifier(findings)
  /\ UNCHANGED scored
RunAction == Goes("action") /\ action_step /\ UNCHANGED scored
RunCounterfactual ==
  /\ Goes("counterfactual")
  /\ counterfactual_rule \/ fake_counterfactual
  /\ UNCHANGED scored

ScoreOf(s) ==
  [confidence   |-> confidence_score,
   correct      |-> IF Mentions(causal_hypothesis.summary, s.true_cause_pattern)
                    THEN 1 ELSE 0,
   predicted    |-> falsification.verdict,
   expected     |-> s.expected_falsifier_verdict,
   recommended  |-> recommended_actions[1].description,
   ground_truth |-> s.ground_truth_action,
   summary      |-> causal_hypothesis.summary,
   cause        |-> s.true_cause_pattern]

Score ==
  /\ Goes("score")
  /\ scored' = Append(scored, ScoreOf(Current))
  /\ UNCHANGED state

(* run() returns the metrics over everything scored. *)
Report ==
  /\ pc = "open"
  /\ Len(scored) = Len(scenarios)
  /\ pc' = "reported"
  /\ UNCHANGED <<state, scenarios, scored>>

Next ==
  \/ Open
  \/ RunSupervisor
  \/ RunReasoning
  \/ RunFalsifier
  \/ RunAction
  \/ RunCounterfactual
  \/ Score
  \/ Report

(* A command that runs until it returns. *)
Spec == Init /\ [][Next]_vars /\ WF_vars(Next)

results ==
  [hypothesis_accuracy |-> hypothesis_accuracy(scored),
   falsifier_precision |-> falsifier_precision(scored),
   falsifier_recall    |-> falsifier_recall(scored),
   action_precision    |-> action_precision(scored)]

(***************************************************************************)
(* Properties.                                                             *)
(***************************************************************************)

(* The two scores of a calibration agree whatever is scored: an expected   *)
(* calibration error is at most the root of the Brier score of the same    *)
(* rows and, as each row is in exactly one bin, at least the distance of   *)
(* the mean confidence from the accuracy; and both, like every ratio       *)
(* reported, lie between 0 and 1 (bench/metrics.py;                        *)
(* tests/test_benchmark.py tests ten scenarios).                           *)
CalibrationCoherent ==
  LET n   == Len(scored)
      ece == expected_calibration_error(scored)
  IN  /\ ece <= 10000 * n
      /\ ece * ece <= n * brier_score(scored)
      /\ Abs(Total([i \in DOMAIN scored |-> Gap(scored[i])])) <= ece
      /\ brier_score(scored) <= 100000000 * n
      /\ \A metric \in DOMAIN results : results[metric].hits <= results[metric].of

(* A scenario is scored on its own: the same incident met twice in a run   *)
(* gets the same row whatever was investigated between, and the action a   *)
(* row is scored with (the first of the dict, run_benchmark.py:77) is the  *)
(* one drafted for the hypothesis of the row, not for an earlier one's.    *)
DraftedFor(summary) ==
  LET matching == Matching(REMEDIATION_PATTERNS, summary)
  IN  IF matching = {} THEN DEFAULT_ACTION
      ELSE REMEDIATION_PATTERNS[FirstMatch(REMEDIATION_PATTERNS, summary)]
ScenariosIsolated ==
  /\ \A i, j \in DOMAIN scored : scenarios[i] = scenarios[j] => scored[i] = scored[j]
  /\ \A i \in DOMAIN scored :
       scored[i].recommended = DraftedFor(scored[i].summary).description

(* The canned claims fit the injected evidence: no claim and no citation   *)
(* of a canned reply is dropped, whichever row the words of the prompt     *)
(* select for whichever incident (agents/llm.py against corpus/generate.py).*)
CannedClaimsCited ==
  causal_hypothesis # None =>
    /\ causal_hypothesis.dropped = {}
    /\ \E i \in DOMAIN REASONING_RESPONSES \cup {0} :
         LET row == IF i = 0 THEN REASONING_FALLBACK ELSE REASONING_RESPONSES[i]
         IN  /\ row.summary = causal_hypothesis.summary
             /\ {c.supporting_finding_ids : c \in causal_hypothesis.claims}
                  = {row.claims[n].supports : n \in DOMAIN row.claims}

(* With the action drafted first, the prediction a scenario is scored with *)
(* is about the action it recommends and about the reviewed hypothesis     *)
(* (agents/counterfactual.py:240 reads the action drafted so far).         *)
PredictionConcernsAction ==
  pc = "score" =>
    /\ Reviewed
    /\ counterfactual.action_description = recommended_actions[1].description
    /\ recommended_actions[1].of = counterfactual.of

(* Every run reports, having scored every scenario it loaded. *)
BenchmarkReports == <>(pc = "reported" /\ Len(scored) = Len(scenarios))

(***************************************************************************)
(* What documents and comments of the repository say, and the code does    *)
(* not do.                                                                 *)
(***************************************************************************)

(* docs/walkthrough.html:480: "when the falsifier says "confirmed," the    *)
(* hypothesis is correct in every case".                                   *)
ConfirmedMeansCorrect ==
  \A i \in DOMAIN scored : scored[i].predicted = "confirmed" => scored[i].correct = 1
=============================================================================
