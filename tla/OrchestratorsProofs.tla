------------------------- MODULE OrchestratorsProofs -------------------------
(***************************************************************************)
(* The two orchestrators return the same, and what a caller of LangGraph   *)
(* holds is whole.  The argument is by stage: each assigns its keys from   *)
(* keys on which the two dicts agree by then.                              *)
(***************************************************************************)
EXTENDS Orchestrators, InvestigationProofs

(* The keys both share, or have assigned by a stage. *)
SharedAgree ==
  /\ l_trigger = trigger
  /\ l_telemetry_findings = telemetry_findings
  /\ l_recommended_actions = recommended_actions
  /\ l_audit_trail = audit_trail
  /\ l_revision = revision
RoutesAgree == l_routed_to = routed_to /\ l_budget = budget
HypothesesAgree ==
  l_causal_hypothesis = causal_hypothesis /\ l_confidence_score = confidence_score

Agreement ==
  /\ SharedAgree
  /\ pc \in {"telemetry", "reasoning", "falsifier", "counterfactual", "action", "returned"} =>
       RoutesAgree
  /\ pc \in {"falsifier", "counterfactual", "action", "returned"} => HypothesesAgree
  /\ pc \in {"counterfactual", "action", "returned"} => l_falsification = falsification
  /\ pc \in {"action", "returned"} => l_counterfactual = counterfactual
  /\ pc = "returned" => l_requires_human_approval = requires_human_approval

(* The same claim lines leave the same claims. *)
LEMMA SameClaims ==
  ASSUME SharedAgree, NEW lines
  PROVE  /\ Lang!GroundedClaims(lines) = GroundedClaims(lines)
         /\ Lang!FallbackClaims = FallbackClaims
<1>1. Lang!FindingIds = FindingIds
  BY DEF SharedAgree, FindingIds, Lang!FindingIds
<1>2. Lang!GroundedClaims(lines) = GroundedClaims(lines)
  BY <1>1 DEF GroundedClaims, Lang!GroundedClaims
<1>3. Lang!AnomalousIds = AnomalousIds
  BY <1>1 DEF SharedAgree, AnomalousIds, Lang!AnomalousIds
<1>4. Lang!FallbackIds = FallbackIds
  BY <1>1, <1>3 DEF FallbackIds, Lang!FallbackIds
<1>5. Lang!FallbackClaims = FallbackClaims
  BY <1>4 DEF FallbackClaims, Lang!FallbackClaims
<1> QED
  BY <1>2, <1>5

(* The tables, the corpus and the readings are one for both. *)
LEMMA SameTables ==
  /\ \A c, x, summary : Lang!calibrate(c, x, summary) = calibrate(c, x, summary)
  /\ \A x, default : Lang!ReadUnit(x, default) = ReadUnit(x, default)
  /\ \A agent, event : Lang!Step(agent, event) = Step(agent, event)
  /\ \A c : Lang!Routed(c) = Routed(c)
  /\ \A severity : Lang!NewBudget(severity) = NewBudget(severity)
  /\ \A t : Lang!Collected(t) = Collected(t)
<1>1. ASSUME NEW c, NEW x, NEW summary
      PROVE  Lang!calibrate(c, x, summary) = calibrate(c, x, summary)
  BY DEF calibrate, Calibrated, Compute, prior_for, PriorOf, MatchedPriors, Named, Causes,
         Mentions, UniformPrior, Lang!calibrate, Lang!Calibrated, Lang!Compute,
         Lang!prior_for, Lang!PriorOf, Lang!MatchedPriors, Lang!Named, Lang!Causes,
         Lang!Mentions, Lang!UniformPrior
<1>2. ASSUME NEW x, NEW default
      PROVE  Lang!ReadUnit(x, default) = ReadUnit(x, default)
  BY DEF ReadUnit, Clamp, Lang!ReadUnit, Lang!Clamp
<1>3. ASSUME NEW agent, NEW event
      PROVE  Lang!Step(agent, event) = Step(agent, event)
  BY DEF Step, Lang!Step
<1>4. ASSUME NEW c
      PROVE  Lang!Routed(c) = Routed(c)
  BY DEF Routed, ROUTING_TABLE, Lang!Routed, Lang!ROUTING_TABLE
<1>5. ASSUME NEW severity
      PROVE  Lang!NewBudget(severity) = NewBudget(severity)
  BY DEF NewBudget, Depth, BUDGET_MAP, Lang!NewBudget, Lang!Depth, Lang!BUDGET_MAP
<1>6. ASSUME NEW t
      PROVE  Lang!Collected(t) = Collected(t)
  BY DEF Collected, query_metric, SCENARIOS, Series, recent_deploys, DEPLOYS, Metric,
         Observed, search_logs, LEVEL_ORDER, LOG_FIXTURES,
         Lang!Collected, Lang!query_metric, Lang!SCENARIOS, Lang!Series,
         Lang!recent_deploys, Lang!DEPLOYS, Lang!Metric, Lang!Observed,
         Lang!search_logs, Lang!LEVEL_ORDER, Lang!LOG_FIXTURES
<1> QED
  BY <1>1, <1>2, <1>3, <1>4, <1>5, <1>6

(* The same reply leaves the same hypothesis. *)
LEMMA SameHypothesis ==
  ASSUME SharedAgree, RoutesAgree, NEW r,
         reasoning_step(r), Lang!reasoning_step(r)
  PROVE  SharedAgree' /\ RoutesAgree' /\ HypothesesAgree'
<1> DEFINE grounded == GroundedClaims(r.claims)
           raw      == ReadUnit(r.raw_confidence, 0)
           fallback == IF grounded = {} THEN <<Step("reasoning", "fallback")>> ELSE <<>>
           Formed(c, v) ==
             [summary    |-> r.summary,
              claims     |-> IF grounded = {} THEN FallbackClaims ELSE grounded,
              confidence |-> c,
              revision   |-> v + 1,
              dropped    |-> {d.line : d \in r.claims} \ {d.line : d \in grounded}]
           cal == calibrate(trigger.classification, raw, r.summary)
           entry == <<Step("reasoning", "hypothesis")>>
<1>1. /\ l_trigger = trigger /\ l_audit_trail = audit_trail /\ l_revision = revision
      /\ l_telemetry_findings = telemetry_findings
      /\ l_recommended_actions = recommended_actions
  BY DEF SharedAgree
<1>2. /\ Lang!GroundedClaims(r.claims) = grounded
      /\ Lang!FallbackClaims = FallbackClaims
  BY SameClaims
<1>3. /\ causal_hypothesis' = Formed(cal, revision)
      /\ confidence_score' = cal.final
      /\ audit_trail' = audit_trail \o fallback \o entry
      /\ revision' = revision + 1
      /\ UNCHANGED <<trigger, routed_to, budget, telemetry_findings, falsification,
                     counterfactual, recommended_actions, requires_human_approval>>
  BY Zenon DEF reasoning_step
<1> DEFINE lGrounded == Lang!GroundedClaims(r.claims)
           lRaw      == Lang!ReadUnit(r.raw_confidence, 0)
           lFallback == IF lGrounded = {} THEN <<Lang!Step("reasoning", "fallback")>> ELSE <<>>
           lCal == Lang!calibrate(l_trigger.classification, lRaw, r.summary)
           lEntry == <<Lang!Step("reasoning", "hypothesis")>>
<1>4. /\ l_causal_hypothesis' =
           [summary    |-> r.summary,
            claims     |-> IF lGrounded = {} THEN Lang!FallbackClaims ELSE lGrounded,
            confidence |-> lCal,
            revision   |-> l_revision + 1,
            dropped    |-> {d.line : d \in r.claims} \ {d.line : d \in lGrounded}]
      /\ l_confidence_score' = lCal.final
      /\ l_audit_trail' = l_audit_trail \o lFallback \o lEntry
      /\ l_revision' = l_revision + 1
      /\ UNCHANGED <<l_trigger, l_routed_to, l_budget, l_telemetry_findings, l_falsification,
                     l_counterfactual, l_recommended_actions, l_requires_human_approval>>
  BY Zenon DEF Lang!reasoning_step
<1>5. /\ lRaw = raw /\ lEntry = entry
      /\ lFallback = fallback
  BY <1>2, SameTables
<1>6. lCal = cal
  BY <1>1, <1>5, SameTables
<1> HIDE DEF cal, raw, entry, fallback, lCal, lRaw, lEntry, lFallback
<1>7. l_causal_hypothesis' = causal_hypothesis'
  <2> HIDE DEF grounded, lGrounded
  <2>1. lGrounded = grounded
    BY <1>2 DEF grounded, lGrounded
  <2> QED
    BY <1>1, <1>2, <1>3, <1>4, <1>6, <2>1, Zenon
<1>8. /\ l_confidence_score' = confidence_score'
      /\ l_audit_trail' = audit_trail' /\ l_revision' = revision'
  BY <1>1, <1>3, <1>4, <1>5, <1>6
<1> QED
  BY <1>1, <1>3, <1>4, <1>7, <1>8 DEF SharedAgree, RoutesAgree, HypothesesAgree

(* The supervisor routes both alike. *)
LEMMA SameRoutes ==
  ASSUME SharedAgree, supervisor_step, Lang!supervisor_step
  PROVE  SharedAgree' /\ RoutesAgree'
<1>1. /\ l_routed_to' = routed_to' /\ l_budget' = budget'
      /\ l_audit_trail' = audit_trail'
  BY SameTables DEF SharedAgree, supervisor_step, Lang!supervisor_step, Record, Lang!Record
<1> QED
  BY <1>1 DEF SharedAgree, RoutesAgree, supervisor_step, Lang!supervisor_step

(* The telemetry agent collects the same for both. *)
LEMMA SameFindings ==
  ASSUME SharedAgree, RoutesAgree, telemetry_step, Lang!telemetry_step
  PROVE  SharedAgree' /\ RoutesAgree'
<1>1. /\ l_telemetry_findings' = telemetry_findings' /\ l_audit_trail' = audit_trail'
  BY SameTables DEF SharedAgree, telemetry_step, Lang!telemetry_step, Record, Lang!Record
<1> QED
  BY <1>1 DEF SharedAgree, RoutesAgree, telemetry_step, Lang!telemetry_step

(* The falsifier reads the same verdict out of the same reply. *)
LEMMA SameVerdict ==
  ASSUME HypothesesAgree, NEW r
  PROVE  /\ Lang!ParseFalsification(r) = ParseFalsification(r)
         /\ \A cal, score : Lang!update_with_falsification(cal, score)
                              = update_with_falsification(cal, score)
<1>1. ASSUME NEW cal, NEW score
      PROVE  Lang!update_with_falsification(cal, score)
               = update_with_falsification(cal, score)
  BY DEF update_with_falsification, Calibrated, Compute,
         Lang!update_with_falsification, Lang!Calibrated, Lang!Compute
<1>2. Lang!ParseFalsification(r) = ParseFalsification(r)
  BY SameTables DEF HypothesesAgree, ParseFalsification, Lang!ParseFalsification
<1> QED
  BY <1>1, <1>2

(* The same review, of the same hypothesis. *)
LEMMA SameReview ==
  ASSUME SharedAgree, RoutesAgree, HypothesesAgree, NEW r,
         falsifier_review(r), Lang!falsifier_review(r)
  PROVE  /\ SharedAgree' /\ RoutesAgree' /\ HypothesesAgree'
         /\ l_falsification' = falsification'
<1> DEFINE result    == ParseFalsification(r)
           updated   == update_with_falsification(causal_hypothesis.confidence,
                                                  result.falsification_score)
           extending == CanExtend(result.verdict)
           extension == IF extending THEN <<Step("falsifier", "extension")>> ELSE <<>>
           entry     == <<Step("falsifier", result.verdict)>>
           lResult    == Lang!ParseFalsification(r)
           lUpdated   == Lang!update_with_falsification(l_causal_hypothesis.confidence,
                                                        lResult.falsification_score)
           lExtending == Lang!CanExtend(lResult.verdict)
           lExtension == IF lExtending THEN <<Lang!Step("falsifier", "extension")>> ELSE <<>>
           lEntry     == <<Lang!Step("falsifier", lResult.verdict)>>
<1>1. /\ falsification' = result
      /\ causal_hypothesis' = [causal_hypothesis EXCEPT !.confidence = updated]
      /\ confidence_score' = updated.final
      /\ budget' = IF extending THEN [budget EXCEPT !.extensions_granted = @ + 1]
                   ELSE budget
      /\ audit_trail' = audit_trail \o extension \o entry
      /\ UNCHANGED <<trigger, routed_to, telemetry_findings, counterfactual,
                     recommended_actions, requires_human_approval, revision>>
  BY Zenon DEF falsifier_review
<1>2. /\ l_falsification' = lResult
      /\ l_causal_hypothesis' = [l_causal_hypothesis EXCEPT !.confidence = lUpdated]
      /\ l_confidence_score' = lUpdated.final
      /\ l_budget' = IF lExtending THEN [l_budget EXCEPT !.extensions_granted = @ + 1]
                     ELSE l_budget
      /\ l_audit_trail' = l_audit_trail \o lExtension \o lEntry
      /\ UNCHANGED <<l_trigger, l_routed_to, l_telemetry_findings, l_counterfactual,
                     l_recommended_actions, l_requires_human_approval, l_revision>>
  BY Zenon DEF Lang!falsifier_review
<1>3. /\ l_causal_hypothesis = causal_hypothesis /\ l_budget = budget
      /\ l_audit_trail = audit_trail
  BY DEF SharedAgree, RoutesAgree, HypothesesAgree
<1>4. lResult = result
  BY SameVerdict
<1>5. lUpdated = updated
  BY <1>3, <1>4, SameVerdict
<1>6. lExtending = extending
  BY <1>3, <1>4 DEF CanExtend, Lang!CanExtend, MAX_EXTENSIONS, Lang!MAX_EXTENSIONS
<1>7. lEntry = entry
  BY <1>4, SameTables
<1>8. lExtension = extension
  BY <1>6, SameTables
<1> HIDE DEF result, updated, extending, extension, entry,
             lResult, lUpdated, lExtending, lExtension, lEntry
<1>9. /\ l_falsification' = falsification'
      /\ l_causal_hypothesis' = causal_hypothesis'
      /\ l_confidence_score' = confidence_score'
      /\ l_audit_trail' = audit_trail'
  BY <1>1, <1>2, <1>3, <1>4, <1>5, <1>7, <1>8
<1>10. l_budget' = budget'
  BY <1>1, <1>2, <1>3, <1>6, Zenon
<1> QED
  BY <1>1, <1>2, <1>9, <1>10 DEF SharedAgree, RoutesAgree, HypothesesAgree

(* The same prediction, for the same hypothesis. *)
LEMMA SamePrediction ==
  ASSUME SharedAgree, RoutesAgree, HypothesesAgree,
         NEW rule, NEW lRule, lRule = rule, NEW method,
         Predict(rule, method), Lang!Predict(lRule, method)
  PROVE  /\ SharedAgree' /\ RoutesAgree' /\ HypothesesAgree'
         /\ l_counterfactual' = counterfactual'
<1>1. Lang!ProposedAction = ProposedAction
  BY DEF SharedAgree, ProposedAction, Lang!ProposedAction
<1>2. l_counterfactual' = counterfactual'
  BY <1>1 DEF HypothesesAgree, Predict, Lang!Predict
<1>3. l_audit_trail' = audit_trail'
  BY SameTables DEF SharedAgree, Predict, Lang!Predict, Record, Lang!Record
<1> QED
  BY <1>2, <1>3 DEF SharedAgree, RoutesAgree, HypothesesAgree, Predict, Lang!Predict

(* The rules and the parser of predictions are one for both. *)
LEMMA SameRules ==
  /\ Lang!CAUSAL_RULES = CAUSAL_RULES
  /\ \A table, summary : Lang!Matching(table, summary) = Matching(table, summary)
  /\ \A table, summary : Lang!FirstMatch(table, summary) = FirstMatch(table, summary)
  /\ \A r : Lang!ParsePrediction(r) = ParsePrediction(r)
<1>1. Lang!CAUSAL_RULES = CAUSAL_RULES
  BY DEF CAUSAL_RULES, Rule, Delta, Lang!CAUSAL_RULES, Lang!Rule, Lang!Delta
<1>2. ASSUME NEW table, NEW summary
      PROVE  /\ Lang!Matching(table, summary) = Matching(table, summary)
             /\ Lang!FirstMatch(table, summary) = FirstMatch(table, summary)
  BY DEF Matching, FirstMatch, Lang!Matching, Lang!FirstMatch
<1>3. ASSUME NEW r
      PROVE  Lang!ParsePrediction(r) = ParsePrediction(r)
  BY DEF ParsePrediction, Bound, Rule, Delta, ReadUnit, Clamp, Lang!ParsePrediction,
         Lang!Bound, Lang!Rule, Lang!Delta, Lang!ReadUnit, Lang!Clamp
<1> QED
  BY <1>1, <1>2, <1>3

(* The simulator predicts the same for both, and asks the backend for both *)
(* or for neither. *)
LEMMA SameSimulation ==
  ASSUME SharedAgree, RoutesAgree, HypothesesAgree,
         \/ counterfactual_rule /\ Lang!counterfactual_rule
         \/ \E r \in PredictionReplies : counterfactual_ask(r) /\ Lang!counterfactual_ask(r)
  PROVE  /\ SharedAgree' /\ RoutesAgree' /\ HypothesesAgree'
         /\ l_counterfactual' = counterfactual'
         /\ UNCHANGED <<falsification, l_falsification>>
<1>1. CASE counterfactual_rule /\ Lang!counterfactual_rule
  <2> DEFINE rule == CAUSAL_RULES[FirstMatch(CAUSAL_RULES, causal_hypothesis.summary)]
             lRule == Lang!CAUSAL_RULES[Lang!FirstMatch(Lang!CAUSAL_RULES,
                                                        l_causal_hypothesis.summary)]
  <2>1. lRule = rule
    BY SameRules DEF HypothesesAgree
  <2>2. Predict(rule, "rule_based") /\ Lang!Predict(lRule, "rule_based")
    BY <1>1 DEF counterfactual_rule, Lang!counterfactual_rule
  <2> HIDE DEF rule, lRule
  <2>3. UNCHANGED <<falsification, l_falsification>>
    BY <2>2 DEF Predict, Lang!Predict
  <2> QED
    BY <2>1, <2>2, <2>3, SamePrediction
<1>2. ASSUME NEW r, counterfactual_ask(r), Lang!counterfactual_ask(r)
      PROVE  /\ SharedAgree' /\ RoutesAgree' /\ HypothesesAgree'
             /\ l_counterfactual' = counterfactual'
             /\ UNCHANGED <<falsification, l_falsification>>
  <2>1. Lang!ParsePrediction(r) = ParsePrediction(r)
    BY SameRules
  <2>2. /\ Predict(ParsePrediction(r), "llm_assisted")
        /\ Lang!Predict(Lang!ParsePrediction(r), "llm_assisted")
    BY <1>2 DEF counterfactual_ask, Lang!counterfactual_ask
  <2>3. UNCHANGED <<falsification, l_falsification>>
    BY <2>2 DEF Predict, Lang!Predict
  <2> QED
    BY <2>1, <2>2, <2>3, SamePrediction
<1> QED
  BY <1>1, <1>2

(* The action agent selects the same remediation for both. *)
LEMMA SameSelection ==
  ASSUME HypothesesAgree
  PROVE  Lang!Selected = Selected /\ Lang!REFUTED_ACTION = REFUTED_ACTION
<1>1. /\ Lang!DEFAULT_ACTION = DEFAULT_ACTION
      /\ Lang!REFUTED_ACTION = REFUTED_ACTION
      /\ Lang!REMEDIATION_PATTERNS = REMEDIATION_PATTERNS
  BY DEF DEFAULT_ACTION, REFUTED_ACTION, REMEDIATION_PATTERNS, Template,
         Lang!DEFAULT_ACTION, Lang!REFUTED_ACTION, Lang!REMEDIATION_PATTERNS, Lang!Template
<1>2. l_causal_hypothesis = causal_hypothesis
  BY DEF HypothesesAgree
<1>3. Lang!Selected = Selected
  BY <1>1, <1>2, SameRules, Zenon DEF Selected, Lang!Selected
<1> QED
  BY <1>1, <1>3

(* The same draft of the same template, appended to both lists. *)
LEMMA SameRecommendation ==
  ASSUME SharedAgree, HypothesesAgree,
         NEW template, NEW lTemplate, lTemplate = template,
         NEW approval, NEW lApproval, lApproval = approval, NEW event,
         Recommend(Draft(template, approval), event),
         Lang!Recommend(Lang!Draft(lTemplate, lApproval), event)
  PROVE  /\ SharedAgree' /\ HypothesesAgree'
         /\ l_requires_human_approval' = requires_human_approval'
         /\ UNCHANGED <<routed_to, budget, falsification, counterfactual,
                        l_routed_to, l_budget, l_falsification, l_counterfactual>>
<1>1. Lang!Draft(lTemplate, lApproval) = Draft(template, approval)
  <2>1. Lang!HypothesisRevision = HypothesisRevision
    BY DEF HypothesesAgree, HypothesisRevision, Lang!HypothesisRevision
  <2> QED
    BY <2>1, Zenon DEF Draft, Lang!Draft
<1>2. /\ l_recommended_actions' = recommended_actions'
      /\ l_requires_human_approval' = requires_human_approval'
  BY <1>1, Zenon DEF SharedAgree, Recommend, Lang!Recommend
<1>3. l_audit_trail' = audit_trail'
  BY SameTables DEF SharedAgree, Recommend, Lang!Recommend, Record, Lang!Record
<1>4. UNCHANGED <<trigger, routed_to, budget, telemetry_findings, causal_hypothesis,
                  falsification, counterfactual, confidence_score, revision>>
  BY Zenon DEF Recommend
<1>5. UNCHANGED <<l_trigger, l_routed_to, l_budget, l_telemetry_findings,
                  l_causal_hypothesis, l_falsification, l_counterfactual,
                  l_confidence_score, l_revision>>
  BY Zenon DEF Lang!Recommend
<1> QED
  BY <1>2, <1>3, <1>4, <1>5 DEF SharedAgree, HypothesesAgree

(* The action agent decides the same for both. *)
LEMMA SameDecision ==
  ASSUME SharedAgree, RoutesAgree, HypothesesAgree, l_falsification = falsification,
         l_counterfactual = counterfactual, action_step, Lang!action_step
  PROVE  /\ SharedAgree' /\ RoutesAgree' /\ HypothesesAgree'
         /\ l_falsification' = falsification' /\ l_counterfactual' = counterfactual'
         /\ l_requires_human_approval' = requires_human_approval'
<1>1. Lang!Refuted <=> Refuted
  BY DEF Refuted, Lang!Refuted
<1>2. Lang!Selected = Selected /\ Lang!REFUTED_ACTION = REFUTED_ACTION
  BY SameSelection
<1>3. Lang!Autonomous <=> Autonomous
  BY <1>2 DEF HypothesesAgree, Autonomous, AUTONOMOUS_CONFIDENCE_FLOOR, CounterfactualFloor,
              Lang!Autonomous, Lang!AUTONOMOUS_CONFIDENCE_FLOOR, Lang!CounterfactualFloor
<1>4. (~Lang!Autonomous) = (~Autonomous)
  BY <1>3, Zenon DEF Autonomous, Lang!Autonomous
<1>5. CASE Refuted
  <2>1. /\ Recommend(Draft(REFUTED_ACTION, TRUE), "vetoed")
        /\ Lang!Recommend(Lang!Draft(Lang!REFUTED_ACTION, TRUE), "vetoed")
    BY <1>1, <1>5, Zenon DEF action_step, action_veto, action_draft,
       Lang!action_step, Lang!action_veto, Lang!action_draft
  <2> QED
    BY <1>2, <2>1, SameRecommendation DEF RoutesAgree
<1>6. CASE ~Refuted
  <2>1. /\ Recommend(Draft(Selected, ~Autonomous), "recommended")
        /\ Lang!Recommend(Lang!Draft(Lang!Selected, ~Lang!Autonomous), "recommended")
    BY <1>1, <1>6, Zenon DEF action_step, action_veto, action_draft,
       Lang!action_step, Lang!action_veto, Lang!action_draft
  <2> DEFINE approval == ~Autonomous
             lApproval == ~Lang!Autonomous
  <2>2. lApproval = approval
    BY <1>4
  <2>3. /\ Recommend(Draft(Selected, approval), "recommended")
        /\ Lang!Recommend(Lang!Draft(Lang!Selected, lApproval), "recommended")
    BY <2>1
  <2> HIDE DEF approval, lApproval
  <2> QED
    BY <1>2, <2>2, <2>3, SameRecommendation DEF RoutesAgree
<1> QED
  BY <1>5, <1>6

(* The note of a fallback, where the corpus cannot be read. *)
LEMMA SameNote ==
  ASSUME SharedAgree, RoutesAgree, NEW r, reasoning_raises(r), Lang!reasoning_raises(r)
  PROVE  SharedAgree' /\ RoutesAgree'
<1>1. Lang!GroundedClaims(r.claims) = GroundedClaims(r.claims)
  BY SameClaims
<1>2. l_audit_trail' = audit_trail'
  BY <1>1, SameTables DEF SharedAgree, reasoning_raises, Lang!reasoning_raises
<1> QED
  BY <1>2 DEF SharedAgree, RoutesAgree, reasoning_raises, Lang!reasoning_raises

(***************************************************************************)
(* The agreement is kept.                                                  *)
(***************************************************************************)
(* Both begin alike. *)
LEMMA AgreementAtFirst == BothInit => Agreement
<1> SUFFICES ASSUME BothInit
             PROVE  Agreement
  OBVIOUS
<1>1. pc = "fresh"
  BY DEF BothInit
<1>2. PICK t \in Triggers : new_state(t) /\ Lang!new_state(t)
  BY DEF BothInit
<1>3. SharedAgree
  BY <1>2, SameTables DEF SharedAgree, new_state, Lang!new_state
<1> QED
  BY <1>1, <1>3 DEF Agreement

(* What a call of the caller leaves. *)
LEMMA AgreementInvoked ==
  ASSUME Agreement, InvokeBoth
  PROVE  Agreement'
<1>1. pc' = "supervisor" /\ UNCHANGED state
  BY DEF InvokeBoth, Invoke
<1>2. UNCHANGED <<l_trigger, l_telemetry_findings, l_recommended_actions,
                  l_audit_trail, l_revision>>
  BY DEF InvokeBoth, GoOn, StartOver, langState
<1>3. SharedAgree'
  BY <1>1, <1>2 DEF Agreement, SharedAgree, state
<1> QED
  BY <1>1, <1>3 DEF Agreement

(* What a stage of both leaves. *)
LEMMA AgreementRun ==
  ASSUME Agreement, BothRunning
  PROVE  Agreement'
<1>1. CASE RunSupervisor /\ Lang!supervisor_step
  <2>1. pc' = "telemetry" /\ supervisor_step
    BY <1>1, FollowingIs DEF RunSupervisor, Completes
  <2> QED
    BY <1>1, <2>1, SameRoutes DEF Agreement
<1>2. CASE RunTelemetry /\ Lang!telemetry_step
  <2>1. pc = "telemetry" /\ pc' = "reasoning" /\ telemetry_step
    BY <1>2, FollowingIs DEF RunTelemetry, Completes
  <2> QED
    BY <1>2, <2>1, SameFindings DEF Agreement
<1>3. ASSUME Completes("reasoning"),
             \E r \in ReasoningReplies : reasoning_step(r) /\ Lang!reasoning_step(r)
      PROVE  Agreement'
  <2>1. pc = "reasoning" /\ pc' = "falsifier"
    BY <1>3, FollowingIs DEF Completes
  <2>2. PICK r \in ReasoningReplies : reasoning_step(r) /\ Lang!reasoning_step(r)
    BY <1>3
  <2> QED
    BY <2>1, <2>2, SameHypothesis DEF Agreement
<1>4. ASSUME Completes("falsifier"),
             \E r \in FalsifierReplies : falsifier_review(r) /\ Lang!falsifier_review(r)
      PROVE  Agreement'
  <2>1. pc = "falsifier" /\ pc' = "counterfactual"
    BY <1>4, FollowingIs DEF Completes
  <2>2. PICK r \in FalsifierReplies : falsifier_review(r) /\ Lang!falsifier_review(r)
    BY <1>4
  <2> QED
    BY <2>1, <2>2, SameReview DEF Agreement
<1>5. ASSUME Completes("counterfactual"),
             \/ counterfactual_rule /\ Lang!counterfactual_rule
             \/ \E r \in PredictionReplies :
                  counterfactual_ask(r) /\ Lang!counterfactual_ask(r)
      PROVE  Agreement'
  <2>1. pc = "counterfactual" /\ pc' = "action"
    BY <1>5, FollowingIs DEF Completes
  <2>2. /\ SharedAgree' /\ RoutesAgree' /\ HypothesesAgree'
        /\ l_counterfactual' = counterfactual'
        /\ UNCHANGED <<falsification, l_falsification>>
    BY <1>5, <2>1, SameSimulation DEF Agreement
  <2> QED
    BY <2>1, <2>2 DEF Agreement
<1>6. CASE RunAction /\ Lang!action_step
  <2>1. pc = "action" /\ pc' = "returned" /\ action_step
    BY <1>6, FollowingIs DEF RunAction, Completes
  <2> QED
    BY <1>6, <2>1, SameDecision DEF Agreement
<1>7. CASE BackendRaises /\ UNCHANGED langState
  <2>1. pc' = "raised" /\ SharedAgree'
    BY <1>7 DEF BackendRaises, Agreement, SharedAgree, state, langState
  <2> QED
    BY <2>1 DEF Agreement
<1>8. ASSUME pc = "reasoning", pc' = "raised",
             \E r \in ReasoningReplies : reasoning_raises(r) /\ Lang!reasoning_raises(r)
      PROVE  Agreement'
  <2>1. PICK r \in ReasoningReplies : reasoning_raises(r) /\ Lang!reasoning_raises(r)
    BY <1>8
  <2> QED
    BY <1>8, <2>1, SameNote DEF Agreement
<1>9. RunCounterfactual => Completes("counterfactual")
  BY DEF RunCounterfactual
<1> QED
  BY <1>1, <1>2, <1>3, <1>4, <1>5, <1>6, <1>7, <1>8, <1>9 DEF BothRunning

(* Every step of both keeps it. *)
LEMMA AgreementKept == Agreement /\ [BothNext]_bothVars => Agreement'
<1> SUFFICES ASSUME Agreement, [BothNext]_bothVars
             PROVE  Agreement'
  OBVIOUS
<1>1. CASE UNCHANGED bothVars
  <2>1. UNCHANGED state /\ UNCHANGED langState /\ pc' = pc
    BY <1>1 DEF bothVars, vars
  <2> QED
    BY <2>1 DEF Agreement, SharedAgree, RoutesAgree, HypothesesAgree, state, langState
<1> QED
  BY <1>1, AgreementInvoked, AgreementRun DEF BothNext

(* Both orchestrators return the same state dict, whatever earlier         *)
(* invocations raised (agents/graph.py, docs/architecture.md:72).          *)
THEOREM OrchestratorsAgree == BothSpec => []SameResult
<1>1. Agreement => SameResult
  BY DEF Agreement, SharedAgree, RoutesAgree, HypothesesAgree, SameResult, state, langState
<1> QED
  BY <1>1, AgreementAtFirst, AgreementKept, PTL DEF BothSpec

(***************************************************************************)
(* What the caller of LangGraph holds.                                     *)
(***************************************************************************)
NewlyHeld ==
  pc = "fresh" =>
    /\ l_causal_hypothesis = None /\ l_falsification = None /\ l_counterfactual = None
    /\ l_requires_human_approval

BothInvariant ==
  InvestigationInvariant /\ StageInvariant /\ Agreement /\ NewlyHeld

(* The pure-Python side of both is an investigation. *)
LEMMA BothInvestigate ==
  /\ BothInit => Init
  /\ [BothNext]_bothVars => [Next]_vars
<1>1. BothInit => Init
  BY DEF BothInit, Init
<1>2. ASSUME BothRunning
      PROVE  Running
  BY <1>2 DEF BothRunning, Running, RunReasoning, reasoning, RunFalsifier, falsifier_step,
              RunCounterfactual, counterfactual_step, CorpusRaises, corpus_raises
<1>3. ASSUME [BothNext]_bothVars
      PROVE  [Next]_vars
  BY <1>2, <1>3 DEF BothNext, InvokeBoth, Next, bothVars
<1> QED
  BY <1>1, <1>3

(* A pipeline under way is never fresh again. *)
LEMMA NeverFreshAgain ==
  ASSUME BothNext
  PROVE  pc' # "fresh"
<1>1. CASE InvokeBoth
  BY <1>1 DEF InvokeBoth, Invoke
<1>2. CASE BothRunning
  BY <1>2, FollowingIs
     DEF BothRunning, RunSupervisor, RunTelemetry, RunCounterfactual, RunAction,
         Completes, BackendRaises
<1> QED
  BY <1>1, <1>2 DEF BothNext

(* The invariant of both. *)
LEMMA BothInductive ==
  /\ BothInit => BothInvariant
  /\ BothInvariant /\ [BothNext]_bothVars => BothInvariant'
<1>1. BothInit => BothInvariant
  <2>1. BothInit => NewlyHeld
    BY DEF BothInit, NewlyHeld, Lang!new_state
  <2> QED
    BY <2>1, BothInvestigate, InvestigationInductive, StagesAtFirst, AgreementAtFirst
       DEF BothInvariant
<1>2. ASSUME BothInvariant, [BothNext]_bothVars
      PROVE  BothInvariant'
  <2>1. InvestigationInvariant' /\ StageInvariant'
    BY <1>2, BothInvestigate, InvestigationInductive, StagesInductive DEF BothInvariant
  <2>2. Agreement'
    BY <1>2, AgreementKept DEF BothInvariant
  <2>3. NewlyHeld'
    <3>1. CASE BothNext
      BY <3>1, NeverFreshAgain DEF NewlyHeld
    <3>2. CASE UNCHANGED bothVars
      BY <1>2, <3>2 DEF bothVars, vars, langState, BothInvariant, NewlyHeld
    <3> QED
      BY <1>2, <3>1, <3>2
  <2> QED
    BY <2>1, <2>2, <2>3 DEF BothInvariant
<1> QED
  BY <1>1, <1>2

(* Recommendations stay where they are. *)
LEMMA RecommendationsStay ==
  ASSUME BothInvariant, [BothNext]_bothVars, NEW i \in DOMAIN l_recommended_actions
  PROVE  /\ i \in DOMAIN l_recommended_actions'
         /\ l_recommended_actions'[i] = l_recommended_actions[i]
<1>1. /\ l_recommended_actions = recommended_actions
      /\ l_recommended_actions' = recommended_actions'
      /\ TypeOK
  BY AgreementKept
     DEF BothInvariant, Agreement, SharedAgree, InvestigationInvariant, StepInvariant
<1>2. [Next]_vars
  BY BothInvestigate
<1>3. CASE RunAction
  <2>1. PICK action \in Action : recommended_actions' = Append(recommended_actions, action)
    BY <1>1, <1>3, ActionEffect DEF RunAction
  <2>2. recommended_actions \in Seq(Action)
    BY <1>1 DEF TypeOK
  <2> QED
    BY <1>1, <2>1, <2>2, Appended
<1>4. CASE ~RunAction
  <2>1. recommended_actions' = recommended_actions
    BY <1>2, <1>4, OthersKeepActions
       DEF Next, Running, Invoke, RunSupervisor, RunTelemetry, RunReasoning, RunFalsifier,
           RunCounterfactual, BackendRaises, CorpusRaises, corpus_raises,
           reasoning_raises, vars, state
  <2> QED
    BY <1>1, <2>1
<1> QED
  BY <1>3, <1>4

(* What an invocation returns is whole. *)
LEMMA ReturnIsWhole ==
  ASSUME BothInvariant, GoOn, pc # "raised", pc \in Endings,
         l_recommended_actions' = l_recommended_actions
  PROVE  HeldIsWhole'
<1>1. CASE pc = "fresh"
  BY <1>1 DEF GoOn, Assigned, BothInvariant, NewlyHeld, HeldIsWhole
<1>2. CASE pc = "returned"
  <2>1. /\ Reviewed /\ counterfactual # None /\ counterfactual.of = revision
        /\ causal_hypothesis # None /\ causal_hypothesis.revision = revision
        /\ confidence_score = causal_hypothesis.confidence.final
    BY <1>2, ScoreIsFinal DEF BothInvariant, StageInvariant, ReviewedInTurn,
       InvestigationInvariant, StepInvariant, Numbered, Reviewed
  <2>2. /\ l_causal_hypothesis = causal_hypothesis /\ l_falsification = falsification
        /\ l_counterfactual = counterfactual /\ l_confidence_score = confidence_score
        /\ l_requires_human_approval = requires_human_approval
        /\ l_recommended_actions = recommended_actions
    BY <1>2 DEF BothInvariant, Agreement, SharedAgree, HypothesesAgree
  <2> DEFINE n == Len(recommended_actions)
  <2>3. /\ recommended_actions \in Seq(Action) /\ recommended_actions # <<>>
        /\ recommended_actions[n].of = revision
        /\ recommended_actions[n].requires_approval = requires_human_approval
    BY <1>2 DEF BothInvariant, StageInvariant, ReturnedStateIsCoherent,
       InvestigationInvariant, StepInvariant, FlagOfLastAction, TypeOK
  <2>4. n \in DOMAIN recommended_actions
    <3>1. n \in Nat /\ n # 0 /\ DOMAIN recommended_actions = 1..n
      BY <2>3, EmptySeq, LenProperties
    <3> QED
      BY <3>1
  <2>5. held' = Assigned
    BY DEF GoOn
  <2>6. /\ held'.causal_hypothesis = causal_hypothesis
        /\ held'.falsification = falsification
        /\ held'.counterfactual = counterfactual
        /\ held'.confidence_score = confidence_score
        /\ held'.requires_human_approval = requires_human_approval
    BY <2>2, <2>5 DEF Assigned
  <2>7. falsification # None /\ falsification.of = causal_hypothesis.revision
    BY <2>1 DEF Reviewed
  <2> QED
    BY <2>1, <2>2, <2>3, <2>4, <2>6, <2>7 DEF HeldIsWhole
<1> QED
  BY <1>1, <1>2 DEF Endings

(* After any number of invocations, of which any may have raised, a caller *)
(* of LangGraph holds the conclusion of one of them or of none             *)
(* (agents/graph.py). *)
THEOREM CallerHoldsWhole == BothSpec => []HeldIsWhole
<1>1. BothInit => HeldIsWhole
  BY DEF BothInit, Assigned, Lang!new_state, HeldIsWhole
<1>2. ASSUME BothInvariant, HeldIsWhole, [BothNext]_bothVars
      PROVE  HeldIsWhole'
  <2>1. CASE held' = held
    BY <1>2, <2>1, RecommendationsStay DEF HeldIsWhole
  <2>2. CASE held' # held
    <3>1. Invoke /\ pc # "raised" /\ GoOn
      BY <1>2, <2>2 DEF BothNext, BothRunning, InvokeBoth, StartOver, bothVars
    <3>2. l_recommended_actions' = l_recommended_actions
      BY <3>1 DEF GoOn, langState
    <3> QED
      BY <1>2, <3>1, <3>2, ReturnIsWhole DEF Invoke
  <2> QED
    BY <2>1, <2>2
<1> QED
  BY <1>1, <1>2, BothInductive, PTL DEF BothSpec
=============================================================================
