------------------------------- MODULE Agents -------------------------------
(***************************************************************************)
(* The six agents of the pipeline as operations on the one                 *)
(* InvestigationState dict they all mutate in place (agents/state.py).     *)
(* Each action is one agent's step function, whole.  Which step runs when, *)
(* and what happens when a model backend raises, belongs to the drivers:   *)
(* Investigation (agents/graph.py) and StepCalls (steps called directly).  *)
(*                                                                         *)
(* A model reply is free: the parsers of the agents are applied to any     *)
(* member of the sets of replies.  A reply is what the last line of each   *)
(* kind says, as the parsers keep the last one.                            *)
(*                                                                         *)
(* Ghost data, which no agent reads: the revision of a hypothesis (how     *)
(* many hypotheses the investigation has had), the claim lines dropped on  *)
(* the way to it (dropped_claims, a local of _parse_claims), and the       *)
(* revision "of" which a verdict, a prediction or an action was made.      *)
(***************************************************************************)
EXTENDS Confidence, Telemetry, FiniteSets

CONSTANTS
  None,                        \* Python's None
  ReasoningReplies,            \* replies of the backend to the reasoning agent
  FalsifierReplies,            \* ... to the falsifier
  PredictionReplies,           \* ... to the counterfactual simulator
  ENABLE_AUTONOMOUS_LOW_RISK   \* agents/action.py: FALSE as shipped

VARIABLES
  trigger, routed_to, budget, telemetry_findings, causal_hypothesis,
  falsification, counterfactual, recommended_actions, confidence_score,
  audit_trail, requires_human_approval,
  revision                     \* ghost: hypotheses formed so far

state == <<trigger, routed_to, budget, telemetry_findings, causal_hypothesis,
           falsification, counterfactual, recommended_actions, confidence_score,
           audit_trail, requires_human_approval, revision>>

(***************************************************************************)
(* Replies.  A claim line supports a set of indices, empty when it has no  *)
(* SUPPORTS field; a contradiction names a finding or is Garbled there.  A *)
(* list read from a reply is the set of its entries, each with the number  *)
(* of its line, so that entries that say the same stay apart.              *)
(***************************************************************************)
ClaimLine == [line : Nat, supports : SUBSET Nat]
ReasoningReply ==
  [summary : SUBSET STRING, claims : SUBSET ClaimLine, raw_confidence : Readings]
FalsifierReply ==
  [verdict : Verdicts \cup {Garbled},
   contradictions : SUBSET [line : Nat, finding : Int \cup {Garbled}],
   falsification_score : Readings]
PredictionReply ==
  [deltas : SUBSET [line : Nat, lower : Readings, upper : Readings],
   prediction_confidence : Readings]

ASSUME ReplyAssumption ==
  /\ ReasoningReplies \subseteq ReasoningReply
  /\ \A r \in ReasoningReplies : IsSummary(r.summary)
  /\ FalsifierReplies \subseteq FalsifierReply
  /\ PredictionReplies \subseteq PredictionReply
  /\ ENABLE_AUTONOMOUS_LOW_RISK \in BOOLEAN

(***************************************************************************)
(* The values of the dict.                                                 *)
(***************************************************************************)
AgentNames ==
  {"system", "supervisor", "telemetry", "logs", "deploy", "reasoning", "falsifier",
   "counterfactual", "action"}
Events ==
  {"opened", "routed", "collected", "fallback", "hypothesis", "extension", "skipped",
   "predicted", "vetoed", "recommended"} \cup Verdicts
Descriptions ==
  {REMEDIATION_PATTERNS[i].description : i \in DOMAIN REMEDIATION_PATTERNS}
    \cup {DEFAULT_ACTION.description, REFUTED_ACTION.description}

Trigger ==
  [service : STRING, metric : STRING, classification : STRING, severity : STRING]
Budget == [initial_depth : Nat, remaining : Nat, extensions_granted : Nat]
Claim == [line : Nat, supporting_finding_ids : (SUBSET Nat) \ {{}}]
CalibratedConfidence ==
  [raw_llm : Unit, prior : Unit, falsification_modifier : Unit, final : 0..10000]
Hypothesis ==
  [summary : SUBSET STRING, claims : SUBSET Claim, confidence : CalibratedConfidence,
   revision : Nat, dropped : SUBSET Nat]
FalsificationResult ==
  [verdict : Verdicts, contradictions : SUBSET Nat, falsification_score : Unit,
   contested_claim_indices : SUBSET [line : Nat, finding : Int], of : Nat]
CounterfactualPrediction ==
  [action_description : Descriptions \cup {"proposed remediation"},
   predicted_deltas : SUBSET [lower_bound : Floats, upper_bound : Floats],
   prediction_confidence : Unit, simulator_method : {"rule_based", "llm_assisted"}, of : Nat]
Action ==
  [description : Descriptions, risk_level : Risks, requires_approval : BOOLEAN, of : Nat]
AgentStep == [agent : AgentNames, event : Events]

ASSUME NoneAssumption ==
  None \notin Hypothesis \cup FalsificationResult \cup CounterfactualPrediction

TypeOK ==
  /\ trigger \in Trigger
  /\ routed_to \in Seq(AgentNames)
  /\ budget \in Budget
  /\ telemetry_findings \in Seq(Finding)
  /\ causal_hypothesis \in Hypothesis \cup {None}
  /\ falsification \in FalsificationResult \cup {None}
  /\ counterfactual \in CounterfactualPrediction \cup {None}
  /\ recommended_actions \in Seq(Action)
  /\ confidence_score \in 0..10000
  /\ audit_trail \in Seq(AgentStep)
  /\ requires_human_approval \in BOOLEAN
  /\ revision \in Nat

(***************************************************************************)
(* new_state                                                               *)
(***************************************************************************)
Depth(severity) ==
  IF severity \in DOMAIN BUDGET_MAP THEN BUDGET_MAP[severity] ELSE 3
NewBudget(severity) ==
  [initial_depth |-> Depth(severity), remaining |-> Depth(severity),
   extensions_granted |-> 0]
Step(agent, event) == [agent |-> agent, event |-> event]

new_state(t) ==
  /\ trigger = t
  /\ routed_to = <<>>
  /\ budget = NewBudget(t.severity)
  /\ telemetry_findings = <<>>
  /\ causal_hypothesis = None
  /\ falsification = None
  /\ counterfactual = None
  /\ recommended_actions = <<>>
  /\ confidence_score = 0
  /\ audit_trail = <<Step("system", "opened")>>
  /\ requires_human_approval = TRUE
  /\ revision = 0

Record(agent, event) == audit_trail' = Append(audit_trail, Step(agent, event))

(***************************************************************************)
(* supervisor_step: route by table and replace the budget.                 *)
(***************************************************************************)
Routed(classification) ==
  ROUTING_TABLE[IF classification \in DOMAIN ROUTING_TABLE
                THEN classification ELSE "unknown"]

(* Mutated form: a budget once in use is kept. *)
SupervisorKeepsBudget ==
  /\ routed_to' = Routed(trigger.classification)
  /\ budget' = IF routed_to # <<>> THEN budget ELSE NewBudget(trigger.severity)
  /\ Record("supervisor", "routed")
  /\ UNCHANGED <<trigger, telemetry_findings, causal_hypothesis, falsification,
                 counterfactual, recommended_actions, confidence_score,
                 requires_human_approval, revision>>

supervisor_step ==
  /\ routed_to' = Routed(trigger.classification)
  /\ budget' = NewBudget(trigger.severity)
  /\ Record("supervisor", "routed")
  /\ UNCHANGED <<trigger, telemetry_findings, causal_hypothesis, falsification,
                 counterfactual, recommended_actions, confidence_score,
                 requires_human_approval, revision>>

(***************************************************************************)
(* telemetry_step: append to the findings already there.                   *)
(***************************************************************************)
telemetry_step ==
  /\ telemetry_findings' = telemetry_findings \o Collected(trigger)
  /\ Record("telemetry", "collected")
  /\ UNCHANGED <<trigger, routed_to, budget, causal_hypothesis, falsification,
                 counterfactual, recommended_actions, confidence_score,
                 requires_human_approval, revision>>

(***************************************************************************)
(* reasoning_step: keep the claims that cite a finding there is; with none *)
(* left, one claim citing the anomalous findings (else the first one).     *)
(* Finding ids are indices from 0.                                         *)
(***************************************************************************)
FindingIds == 0..(Len(telemetry_findings) - 1)

(* Mutated forms: indices not checked, and a bound that is off by one. *)
UncheckedClaims(lines) ==
  {[line |-> c.line, supporting_finding_ids |-> c.supports] :
     c \in {d \in lines : d.supports # {}}}
OffByOneClaims(lines) ==
  LET upTo == 0..Len(telemetry_findings)
  IN  {[line |-> c.line, supporting_finding_ids |-> c.supports \cap upTo] :
         c \in {d \in lines : d.supports \cap upTo # {}}}

GroundedClaims(lines) ==
  {[line |-> c.line, supporting_finding_ids |-> c.supports \cap FindingIds] :
     c \in {d \in lines : d.supports \cap FindingIds # {}}}

AnomalousIds == {i \in FindingIds : telemetry_findings[i + 1].severity # "info"}
FallbackIds == IF AnomalousIds # {} THEN AnomalousIds ELSE {0} \cap FindingIds
FallbackClaims ==
  IF FallbackIds = {} THEN {}
  ELSE {[line |-> 0, supporting_finding_ids |-> FallbackIds]}

reasoning_step(reply) ==
  LET grounded   == GroundedClaims(reply.claims)
      confidence == calibrate(trigger.classification,
                              ReadUnit(reply.raw_confidence, 0), reply.summary)
      fallback   == IF grounded = {} THEN <<Step("reasoning", "fallback")>> ELSE <<>>
  IN  /\ causal_hypothesis' =
           [summary    |-> reply.summary,
            claims     |-> IF grounded = {} THEN FallbackClaims ELSE grounded,
            confidence |-> confidence,
            revision   |-> revision + 1,
            dropped    |-> {c.line : c \in reply.claims} \ {c.line : c \in grounded}]
      /\ confidence_score' = confidence.final
      /\ audit_trail' = audit_trail \o fallback \o <<Step("reasoning", "hypothesis")>>
      /\ revision' = revision + 1
      /\ UNCHANGED <<trigger, routed_to, budget, telemetry_findings, falsification,
                     counterfactual, recommended_actions, requires_human_approval>>

(* The corpus cannot be read: calibrate raises, after the note on a        *)
(* fallback.  A table once read is cached, so not after a hypothesis.      *)
reasoning_raises(reply) ==
  /\ revision = 0
  /\ audit_trail' = audit_trail \o
       (IF GroundedClaims(reply.claims) = {} THEN <<Step("reasoning", "fallback")>>
        ELSE <<>>)
  /\ UNCHANGED <<trigger, routed_to, budget, telemetry_findings, causal_hypothesis,
                 falsification, counterfactual, recommended_actions, confidence_score,
                 requires_human_approval, revision>>

(***************************************************************************)
(* falsifier_step: the verdict is the one the reply names; the hypothesis  *)
(* is re-scored; a verdict other than refuted extends the budget.          *)
(***************************************************************************)
SkippedFalsification ==
  [verdict |-> "contested", contradictions |-> {1}, falsification_score |-> 500,
   contested_claim_indices |-> {}, of |-> 0]

ParseFalsification(reply) ==
  [verdict |-> IF reply.verdict = Garbled THEN "contested" ELSE reply.verdict,
   contradictions |-> {c.line : c \in reply.contradictions},
   falsification_score |-> ReadUnit(reply.falsification_score, 450),
   contested_claim_indices |-> {c \in reply.contradictions : c.finding # Garbled},
   of |-> causal_hypothesis.revision]

(* Mutated form: the hard cap forgotten. *)
ExtendUncapped(verdict) == verdict # "refuted" /\ budget.remaining > 0

CanExtend(verdict) ==
  /\ verdict # "refuted"
  /\ budget.extensions_granted < MAX_EXTENSIONS
  /\ budget.remaining > 0

falsifier_skip ==
  /\ causal_hypothesis = None
  /\ falsification' = SkippedFalsification
  /\ Record("falsifier", "skipped")
  /\ UNCHANGED <<trigger, routed_to, budget, telemetry_findings, causal_hypothesis,
                 counterfactual, recommended_actions, confidence_score,
                 requires_human_approval, revision>>

falsifier_review(reply) ==
  LET result    == ParseFalsification(reply)
      updated   == update_with_falsification(causal_hypothesis.confidence,
                                             result.falsification_score)
      extending == CanExtend(result.verdict)
      extension == IF extending THEN <<Step("falsifier", "extension")>> ELSE <<>>
  IN  /\ causal_hypothesis # None
      /\ falsification' = result
      /\ causal_hypothesis' = [causal_hypothesis EXCEPT !.confidence = updated]
      /\ confidence_score' = updated.final
      /\ budget' = IF extending THEN [budget EXCEPT !.extensions_granted = @ + 1]
                   ELSE budget
      /\ audit_trail' = audit_trail \o extension \o <<Step("falsifier", result.verdict)>>
      /\ UNCHANGED <<trigger, routed_to, telemetry_findings, counterfactual,
                     recommended_actions, requires_human_approval, revision>>

(***************************************************************************)
(* counterfactual_step: the rule of the first key in the summary, else the *)
(* backend.  The action it is about is the first one recommended so far.   *)
(***************************************************************************)
ProposedAction ==
  IF recommended_actions = <<>> THEN "proposed remediation"
  ELSE recommended_actions[1].description

Bound(x, default) == IF x = Garbled THEN default ELSE x

ParsePrediction(reply) ==
  Rule("", IF reply.deltas = {} THEN {Delta(0, 1000)}
           ELSE {Delta(Bound(d.lower, 0), Bound(d.upper, 1000)) : d \in reply.deltas},
       ReadUnit(reply.prediction_confidence, 300))

counterfactual_skip ==
  /\ causal_hypothesis = None
  /\ Record("counterfactual", "skipped")
  /\ UNCHANGED <<trigger, routed_to, budget, telemetry_findings, causal_hypothesis,
                 falsification, counterfactual, recommended_actions, confidence_score,
                 requires_human_approval, revision>>

(* Mutated form: a prediction once made is kept. *)
PredictOnce(rule, method) ==
  /\ counterfactual' =
       IF counterfactual # None THEN counterfactual
       ELSE [action_description |-> ProposedAction, predicted_deltas |-> rule.deltas,
             prediction_confidence |-> rule.confidence, simulator_method |-> method,
             of |-> causal_hypothesis.revision]
  /\ Record("counterfactual", "predicted")
  /\ UNCHANGED <<trigger, routed_to, budget, telemetry_findings, causal_hypothesis,
                 falsification, recommended_actions, confidence_score,
                 requires_human_approval, revision>>

Predict(rule, method) ==
  /\ counterfactual' =
       [action_description |-> ProposedAction, predicted_deltas |-> rule.deltas,
        prediction_confidence |-> rule.confidence, simulator_method |-> method,
        of |-> causal_hypothesis.revision]
  /\ Record("counterfactual", "predicted")
  /\ UNCHANGED <<trigger, routed_to, budget, telemetry_findings, causal_hypothesis,
                 falsification, recommended_actions, confidence_score,
                 requires_human_approval, revision>>

(* Mutated form: the rules only asked for a first prediction. *)
HasRuleAtFirst ==
  counterfactual = None /\ Matching(CAUSAL_RULES, causal_hypothesis.summary) # {}

HasRule == Matching(CAUSAL_RULES, causal_hypothesis.summary) # {}

counterfactual_rule ==
  /\ causal_hypothesis # None
  /\ HasRule
  /\ Predict(CAUSAL_RULES[FirstMatch(CAUSAL_RULES, causal_hypothesis.summary)],
             "rule_based")

counterfactual_ask(reply) ==
  /\ causal_hypothesis # None
  /\ ~HasRule
  /\ Predict(ParsePrediction(reply), "llm_assisted")

(***************************************************************************)
(* action_step: a refuted verdict vetoes; otherwise the first pattern in   *)
(* the summary is drafted, and needs approval unless every gate is open.   *)
(***************************************************************************)
(* Mutated form: a floor relaxed to 0.90. *)
RelaxedFloor == 9000

AUTONOMOUS_CONFIDENCE_FLOOR == 9500
CounterfactualFloor == 700

HypothesisRevision == IF causal_hypothesis = None THEN 0 ELSE causal_hypothesis.revision

(* Mutated form: a veto by score instead of by verdict. *)
RefutedByScore == falsification # None /\ falsification.falsification_score >= 500

Refuted == falsification # None /\ falsification.verdict = "refuted"

Draft(template, approval) ==
  [description |-> template.description, risk_level |-> template.risk_level,
   requires_approval |-> approval, of |-> HypothesisRevision]

(* Mutated form: the list replaced. *)
RecommendOnly(action, event) ==
  /\ recommended_actions' = <<action>>
  /\ requires_human_approval' = action.requires_approval
  /\ Record("action", event)
  /\ UNCHANGED <<trigger, routed_to, budget, telemetry_findings, causal_hypothesis,
                 falsification, counterfactual, confidence_score, revision>>

Recommend(action, event) ==
  /\ recommended_actions' = Append(recommended_actions, action)
  /\ requires_human_approval' = action.requires_approval
  /\ Record("action", event)
  /\ UNCHANGED <<trigger, routed_to, budget, telemetry_findings, causal_hypothesis,
                 falsification, counterfactual, confidence_score, revision>>

Selected ==
  IF causal_hypothesis = None THEN DEFAULT_ACTION
  ELSE LET summary == causal_hypothesis.summary
       IN  IF Matching(REMEDIATION_PATTERNS, summary) = {} THEN DEFAULT_ACTION
           ELSE REMEDIATION_PATTERNS[FirstMatch(REMEDIATION_PATTERNS, summary)]

(* Mutated form: the falsifier left out of the gate. *)
AutonomousUnconfirmed ==
  /\ ENABLE_AUTONOMOUS_LOW_RISK
  /\ Selected.risk_level = "low"
  /\ confidence_score >= AUTONOMOUS_CONFIDENCE_FLOOR
  /\ counterfactual # None /\ counterfactual.prediction_confidence >= CounterfactualFloor

Autonomous ==
  /\ ENABLE_AUTONOMOUS_LOW_RISK
  /\ Selected.risk_level = "low"
  /\ confidence_score >= AUTONOMOUS_CONFIDENCE_FLOOR
  /\ falsification # None /\ falsification.verdict = "confirmed"
  /\ counterfactual # None /\ counterfactual.prediction_confidence >= CounterfactualFloor

action_veto ==
  /\ Refuted
  /\ Recommend(Draft(REFUTED_ACTION, TRUE), "vetoed")

action_draft ==
  /\ ~Refuted
  /\ Recommend(Draft(Selected, ~Autonomous), "recommended")

(***************************************************************************)
(* The step functions, any one of them, and any call, also one that raises *)
(* after it has written to the trail.                                      *)
(***************************************************************************)
reasoning == \E reply \in ReasoningReplies : reasoning_step(reply)
corpus_raises == \E reply \in ReasoningReplies : reasoning_raises(reply)
falsifier_step ==
  falsifier_skip \/ \E reply \in FalsifierReplies : falsifier_review(reply)
counterfactual_step ==
  \/ counterfactual_skip
  \/ counterfactual_rule
  \/ \E reply \in PredictionReplies : counterfactual_ask(reply)
action_step == action_veto \/ action_draft

AnyStep ==
  \/ supervisor_step
  \/ telemetry_step
  \/ reasoning
  \/ falsifier_step
  \/ counterfactual_step
  \/ action_step

AnyCall == AnyStep \/ corpus_raises

(***************************************************************************)
(* Properties that hold in whatever order the steps are called.            *)
(***************************************************************************)

(* The verdict in the state is about the hypothesis in the state. *)
Reviewed ==
  /\ causal_hypothesis # None
  /\ falsification # None
  /\ falsification.of = causal_hypothesis.revision

(* Provenance: every id a claim cites is the index of a finding of the     *)
(* state, now and after any later step, whatever indices the model named   *)
(* (agents/reasoning.py _parse_claims against agents/state.py Claim).      *)
ClaimsGrounded ==
  causal_hypothesis # None =>
    \A c \in causal_hypothesis.claims : c.supporting_finding_ids \subseteq FindingIds

(* The score shown is the final confidence of the hypothesis shown, and    *)
(* that is computed from its prior and from the verdict on this very       *)
(* hypothesis: a new hypothesis starts from the neutral modifier and never *)
(* inherits the score of the verdict on an earlier one.                    *)
ConfidenceConsistent ==
  causal_hypothesis # None =>
    LET c == causal_hypothesis.confidence
    IN  /\ confidence_score = c.final
        /\ c = Calibrated(c.raw_llm,
                          prior_for(trigger.classification, causal_hypothesis.summary),
                          IF Reviewed THEN 1000 - falsification.falsification_score
                          ELSE 500)

(* The trail alone explains the recommendations: it has one action entry   *)
(* for each, in order, and an action is the escalation of a veto exactly   *)
(* when the latest falsifier outcome on the trail before it is "refuted".  *)
EntriesOf(agent) == {i \in DOMAIN audit_trail : audit_trail[i].agent = agent}
OutcomesBefore(i) ==
  {j \in EntriesOf("falsifier") : j < i /\ audit_trail[j].event # "extension"}
VetoedAt(i) ==
  \E j \in OutcomesBefore(i) :
    /\ audit_trail[j].event = "refuted"
    /\ \A k \in OutcomesBefore(i) : k <= j

TrailExplainsActions ==
  /\ Len(recommended_actions) = Cardinality(EntriesOf("action"))
  /\ \A i \in EntriesOf("action") :
       LET action == recommended_actions[Cardinality({j \in EntriesOf("action") : j <= i})]
       IN  /\ VetoedAt(i) <=> action.description = REFUTED_ACTION.description
           /\ VetoedAt(i) <=> audit_trail[i].event = "vetoed"

(* The extensions granted are those on the trail since the supervisor last *)
(* assigned a budget, and never more than the hard cap.                    *)
ExtensionsOnTrail ==
  /\ budget.extensions_granted =
       Cardinality({i \in EntriesOf("falsifier") :
                      /\ audit_trail[i].event = "extension"
                      /\ \A j \in EntriesOf("supervisor") : j < i})
  /\ budget.extensions_granted <= MAX_EXTENSIONS

(* Evidence, recommendations and trail only grow: an index a claim cites   *)
(* keeps naming the finding it named, an action once shown stays shown.    *)
Extends(new, old) == \E n \in 0..Len(new) : old = SubSeq(new, 1, n)
EvidenceKept ==
  [][/\ Extends(telemetry_findings', telemetry_findings)
     /\ Extends(recommended_actions', recommended_actions)
     /\ Extends(audit_trail', audit_trail)]_state

(* With autonomy disabled, or with a corpus whose priors stay below 0.875, *)
(* no reply of the models lets an action through without a human: the      *)
(* confidence cannot reach the floor of agents/action.py.                  *)
PriorsBelowGate ==
  /\ UniformPrior < 875
  /\ \A c \in DOMAIN FrequencyTable :
       \A cause \in DOMAIN FrequencyTable[c] : FrequencyTable[c][cause] < 875
GateShut == ~ENABLE_AUTONOMOUS_LOW_RISK \/ PriorsBelowGate
HumanAlwaysAsked ==
  GateShut =>
    /\ requires_human_approval
    /\ \A i \in DOMAIN recommended_actions : recommended_actions[i].requires_approval
=============================================================================
