------------------------- MODULE InvestigationProofs -------------------------
(***************************************************************************)
(* The pipeline: what holds of every state of an investigation, however    *)
(* often it is invoked and wherever its backend raises.                    *)
(***************************************************************************)
EXTENDS Investigation, AgentsProofs

InvestigationInvariant ==
  /\ StepInvariant
  /\ pc \in Stages \cup Endings
  /\ invocations \in 0..MaxInvocations

(* The stages of the pipeline. *)
LEMMA StagesAre ==
  Stages = {"supervisor", "telemetry", "reasoning", "falsifier", "counterfactual", "action"}
BY DEF Stages, Pipeline

(* The stage after a stage is a stage, or the return. *)
LEMMA FollowingType ==
  ASSUME NEW stage \in Stages
  PROVE  Following(stage) \in Stages \cup Endings
<1> USE DEF Endings
<1>1. CASE stage = "action"
  BY <1>1 DEF Following
<1>2. CASE stage # "action"
  <2>1. DOMAIN Pipeline = 1..6 /\ Pipeline[6] = "action"
    BY DEF Pipeline
  <2>2. \E i \in DOMAIN Pipeline : Pipeline[i] = stage
    BY DEF Stages
  <2>3. Position(stage) \in DOMAIN Pipeline /\ Pipeline[Position(stage)] = stage
    BY <2>2 DEF Position
  <2>4. Position(stage) # 6
    BY <1>2, <2>1, <2>3
  <2>5. Position(stage) + 1 \in DOMAIN Pipeline
    BY <2>1, <2>3, <2>4
  <2>6. Following(stage) = Pipeline[Position(stage) + 1]
    BY <1>2 DEF Following
  <2> QED
    BY <2>5, <2>6 DEF Stages
<1> QED
  BY <1>1, <1>2

(* A step of the orchestrator calls a step function or changes no state. *)
LEMMA RunningSteps ==
  ASSUME Running
  PROVE  AnyStep \/ corpus_raises \/ UNCHANGED state
BY DEF Running, RunSupervisor, RunTelemetry, RunReasoning, RunFalsifier,
       RunCounterfactual, RunAction, BackendRaises, CorpusRaises, AnyStep

(* A step of the orchestrator leads to a stage or to an ending. *)
LEMMA RunningProgress ==
  ASSUME Running
  PROVE  pc' \in Stages \cup Endings /\ invocations' = invocations
<1>1. CASE BackendRaises \/ CorpusRaises
  BY <1>1 DEF BackendRaises, CorpusRaises, Endings
<1>2. CASE \E stage \in Stages : Completes(stage)
  BY <1>2, FollowingType DEF Completes
<1> QED
  BY <1>1, <1>2, StagesAre
     DEF Running, RunSupervisor, RunTelemetry, RunReasoning, RunFalsifier,
         RunCounterfactual, RunAction

(* The inductive invariant of the pipeline. *)
LEMMA InvestigationInductive ==
  /\ Init => InvestigationInvariant
  /\ InvestigationInvariant /\ [Next]_vars => InvestigationInvariant'
<1>1. Init => InvestigationInvariant
  <2>1. Init => StepInvariant
    BY InvestigationAssumption, NewStateInvariant DEF Init
  <2>2. Init => pc \in Stages \cup Endings /\ invocations \in 0..MaxInvocations
    BY InvestigationAssumption DEF Init, Endings
  <2> QED
    BY <2>1, <2>2 DEF InvestigationInvariant
<1>2. ASSUME InvestigationInvariant, [Next]_vars
      PROVE  InvestigationInvariant'
  <2>1. CASE Invoke
    <3>1. StepInvariant'
      BY <1>2, <2>1, StutterKeepsInvariant DEF Invoke, InvestigationInvariant
    <3>2. pc' \in Stages \cup Endings
      BY <2>1, StagesAre DEF Invoke
    <3>3. invocations' \in 0..MaxInvocations
      BY <1>2, <2>1, InvestigationAssumption DEF Invoke, InvestigationInvariant
    <3> QED
      BY <3>1, <3>2, <3>3 DEF InvestigationInvariant
  <2>2. CASE Running
    <3>1. StepInvariant'
      BY <1>2, <2>2, RunningSteps, StepKeepsInvariant, RaisingKeepsInvariant,
         StutterKeepsInvariant
         DEF InvestigationInvariant
    <3> QED
      BY <1>2, <2>2, <3>1, RunningProgress DEF InvestigationInvariant
  <2>3. CASE UNCHANGED vars
    <3>1. UNCHANGED state /\ pc' = pc /\ invocations' = invocations
      BY <2>3 DEF vars
    <3>2. StepInvariant'
      BY <1>2, <3>1, StutterKeepsInvariant DEF InvestigationInvariant
    <3> QED
      BY <1>2, <3>1, <3>2 DEF InvestigationInvariant
  <2> QED
    BY <1>2, <2>1, <2>2, <2>3 DEF Next
<1> QED
  BY <1>1, <1>2

(* It holds throughout. *)
LEMMA Invariant == Spec => []InvestigationInvariant
BY InvestigationInductive, PTL DEF Spec

(* The state dict and the stage always have their types (agents/state.py,  *)
(* agents/graph.py).                                                       *)
THEOREM PipelineTyped == Spec => []InvestigationTypeOK
<1>1. InvestigationInvariant => InvestigationTypeOK
  BY DEF InvestigationInvariant, InvestigationTypeOK, StepInvariant
<1> QED
  BY <1>1, Invariant, PTL

(* With autonomy disabled, or with every prior of the corpus below 0.875,  *)
(* no reply of any model leads to an action that does not ask for a human  *)
(* (agents/action.py).                                                     *)
THEOREM PipelineAsksHuman == Spec => []HumanAlwaysAsked
<1>1. InvestigationInvariant => HumanAlwaysAsked
  BY DEF InvestigationInvariant, StepInvariant
<1> QED
  BY <1>1, Invariant, PTL

(* The score returned is the confidence in the hypothesis returned, from   *)
(* its own prior and its own verdict (agents/confidence.py).               *)
THEOREM PipelineKeepsConfidence == Spec => []ConfidenceConsistent
<1>1. InvestigationInvariant => ConfidenceConsistent
  BY DEF InvestigationInvariant, StepInvariant
<1> QED
  BY <1>1, Invariant, PTL

(***************************************************************************)
(* What each stage leaves for the next.                                    *)
(***************************************************************************)
(* The stages in their order. *)
LEMMA FollowingIs ==
  /\ Following("supervisor") = "telemetry"
  /\ Following("telemetry") = "reasoning"
  /\ Following("reasoning") = "falsifier"
  /\ Following("falsifier") = "counterfactual"
  /\ Following("counterfactual") = "action"
  /\ Following("action") = "returned"
<1>1. DOMAIN Pipeline = 1..6
  BY DEF Pipeline
<1>2. /\ Pipeline[1] = "supervisor" /\ Pipeline[2] = "telemetry"
      /\ Pipeline[3] = "reasoning" /\ Pipeline[4] = "falsifier"
      /\ Pipeline[5] = "counterfactual" /\ Pipeline[6] = "action"
  BY DEF Pipeline
<1>3. /\ Position("supervisor") = 1 /\ Position("telemetry") = 2
      /\ Position("reasoning") = 3 /\ Position("falsifier") = 4
      /\ Position("counterfactual") = 5
  BY <1>1, <1>2 DEF Position
<1> QED
  BY <1>2, <1>3 DEF Following

(* Every recommendation is an action of a numbered hypothesis. *)
LEMMA ActionsNumbered ==
  ASSUME recommended_actions \in Seq(Action)
  PROVE  \A i \in DOMAIN recommended_actions :
           recommended_actions[i] \in Action /\ recommended_actions[i].of \in Nat
<1> SUFFICES ASSUME NEW i \in DOMAIN recommended_actions
             PROVE  recommended_actions[i] \in Action
  BY DEF Action
<1>1. i \in 1..Len(recommended_actions)
  BY LenProperties
<1> QED
  BY <1>1, ElementOfSeq

(* The action agent appends one action, for the hypothesis there is. *)
LEMMA ActionEffect ==
  ASSUME TypeOK, action_step
  PROVE  \E action \in Action :
           /\ recommended_actions' = Append(recommended_actions, action)
           /\ action.of = HypothesisRevision
           /\ requires_human_approval' = action.requires_approval
           /\ Refuted <=> action.description = REFUTED_ACTION.description
           /\ Refuted => action.requires_approval
           /\ ~action.requires_approval => Autonomous /\ action.risk_level = "low"
           /\ UNCHANGED <<telemetry_findings, causal_hypothesis, falsification,
                          counterfactual, confidence_score, revision>>
<1>1. HypothesisRevision \in Nat
  BY DEF HypothesisRevision, TypeOK, Hypothesis
<1>2. CASE action_veto
  <2> DEFINE action == Draft(REFUTED_ACTION, TRUE)
  <2>1. REFUTED_ACTION \in TemplateSet
    BY DEF REFUTED_ACTION, Template, TemplateSet, TemplateKeys, Descriptions, Risks
  <2>2. action \in Action /\ action.of = HypothesisRevision /\ action.requires_approval
          /\ action.description = REFUTED_ACTION.description
    BY <1>1, <2>1 DEF Draft, TemplateSet, Action
  <2>3. Refuted /\ Recommend(action, "vetoed")
    BY <1>2 DEF action_veto
  <2> HIDE DEF action
  <2> QED
    BY <2>2, <2>3 DEF Recommend
<1>3. CASE action_draft
  <2> DEFINE action == Draft(Selected, ~Autonomous)
  <2>1. action \in Action /\ action.of = HypothesisRevision
          /\ action.description = Selected.description
          /\ action.risk_level = Selected.risk_level
          /\ action.requires_approval = ~Autonomous
    BY <1>1, SelectedType DEF Draft, TemplateSet, Action
  <2>2. ~Refuted /\ Recommend(action, "recommended")
    BY <1>3 DEF action_draft
  <2>3. Autonomous => Selected.risk_level = "low"
    BY DEF Autonomous
  <2> HIDE DEF action
  <2> QED
    BY <2>1, <2>2, <2>3, SelectedIsNoVeto DEF Recommend
<1> QED
  BY <1>2, <1>3 DEF action_step
(***************************************************************************)
(* The invariant by stage: what the stages that have run have concluded is *)
(* about the hypothesis of this invocation, and its decision is to come.   *)
(***************************************************************************)
EvidenceFirst ==
  /\ pc \in {"reasoning", "falsifier", "counterfactual", "action", "returned"} =>
       telemetry_findings # <<>>
  /\ causal_hypothesis # None => causal_hypothesis.claims # {}

ReviewedInTurn ==
  /\ causal_hypothesis # None => revision > 0
  /\ pc \in {"falsifier", "counterfactual", "action", "returned"} =>
       causal_hypothesis # None
  /\ pc = "falsifier" => ~Reviewed
  /\ pc \in {"counterfactual", "action", "returned"} => Reviewed
  /\ pc \in {"action", "returned"} => counterfactual # None /\ counterfactual.of = revision

DecidedOnce ==
  \A i \in DOMAIN recommended_actions :
    /\ recommended_actions[i].of <= revision
    /\ pc \in {"falsifier", "counterfactual", "action"} =>
         recommended_actions[i].of < revision

StageInvariant ==
  /\ EvidenceFirst
  /\ ReviewedInTurn
  /\ DecidedOnce
  /\ ReturnedStateIsCoherent
  /\ AutonomyJustified

(* A new investigation. *)
LEMMA StagesAtFirst == Init => StageInvariant
<1> SUFFICES ASSUME Init
             PROVE  StageInvariant
  OBVIOUS
<1>1. /\ pc = "fresh" /\ causal_hypothesis = None /\ recommended_actions = <<>>
  BY DEF Init, new_state
<1> QED
  BY <1>1 DEF StageInvariant, EvidenceFirst, ReviewedInTurn, DecidedOnce,
              ReturnedStateIsCoherent, AutonomyJustified

(* A step that changes neither evidence nor conclusions, to a stage that   *)
(* asks for no more of them. *)
LEMMA StagesKept ==
  ASSUME StageInvariant,
         UNCHANGED <<telemetry_findings, causal_hypothesis, falsification, counterfactual,
                     recommended_actions, requires_human_approval, revision>>,
         pc' = pc \/ pc' \in {"supervisor", "telemetry", "raised"}
  PROVE  StageInvariant'
<1> USE DEF StageInvariant
<1>1. EvidenceFirst'
  BY DEF EvidenceFirst
<1>2. ReviewedInTurn'
  BY DEF ReviewedInTurn, Reviewed
<1>3. DecidedOnce'
  BY DEF DecidedOnce
<1>4. ReturnedStateIsCoherent'
  BY DEF ReturnedStateIsCoherent, Reviewed, Refuted
<1>5. AutonomyJustified'
  BY DEF AutonomyJustified, Reviewed
<1> QED
  BY <1>1, <1>2, <1>3, <1>4, <1>5

(* The telemetry agent leaves evidence. *)
LEMMA TelemetryStage ==
  ASSUME TypeOK, StageInvariant, RunTelemetry
  PROVE  StageInvariant'
<1>1. pc = "telemetry" /\ pc' = "reasoning"
  BY FollowingIs DEF RunTelemetry, Completes
<1>2. /\ telemetry_findings' = telemetry_findings \o Collected(trigger)
      /\ UNCHANGED <<causal_hypothesis, falsification, counterfactual,
                     recommended_actions, requires_human_approval, revision>>
  BY DEF RunTelemetry, telemetry_step
<1>3. telemetry_findings' # <<>>
  <2>1. telemetry_findings \in Seq(Finding) /\ trigger \in Trigger
    BY DEF TypeOK
  <2>2. Collected(trigger) \in Seq(Finding) /\ Len(Collected(trigger)) >= 1
    BY <2>1, CollectedType
  <2>3. Len(telemetry_findings') >= 1
    BY <1>2, <2>1, <2>2, ConcatProperties, LenProperties
  <2> QED
    BY <2>3
<1> QED
  BY <1>1, <1>2, <1>3
     DEF StageInvariant, EvidenceFirst, ReviewedInTurn, DecidedOnce,
         ReturnedStateIsCoherent, AutonomyJustified

(* With evidence, the fallback leaves a claim. *)
LEMMA FallbackLeavesClaim ==
  ASSUME telemetry_findings \in Seq(Finding), telemetry_findings # <<>>
  PROVE  FallbackClaims # {}
<1>1. 0 \in FindingIds
  <2>1. Len(telemetry_findings) \in Nat /\ Len(telemetry_findings) # 0
    BY EmptySeq, LenProperties
  <2> QED
    BY <2>1 DEF FindingIds
<1>2. FallbackIds # {}
  BY <1>1 DEF FallbackIds
<1> QED
  BY <1>2 DEF FallbackClaims

(* The reasoning agent leaves a new hypothesis, not yet reviewed. *)
LEMMA ReasoningStage ==
  ASSUME TypeOK, Numbered, StageInvariant, RunReasoning
  PROVE  StageInvariant'
<1>1. pc = "reasoning" /\ pc' = "falsifier"
  BY FollowingIs DEF RunReasoning, Completes
<1>2. PICK reply \in ReasoningReplies : reasoning_step(reply)
  BY DEF RunReasoning, reasoning
<1>3. causal_hypothesis' # None
  BY <1>2, HypothesisFormed
<1>4. /\ telemetry_findings' = telemetry_findings /\ falsification' = falsification
      /\ revision' = revision + 1 /\ revision \in Nat
      /\ causal_hypothesis'.revision = revision + 1
  BY <1>2, ReasoningEffect DEF TypeOK
<1>5. causal_hypothesis'.claims # {}
  <2>1. \/ GroundedClaims(reply.claims) # {}
              /\ causal_hypothesis'.claims = GroundedClaims(reply.claims)
        \/ causal_hypothesis'.claims = FallbackClaims
    BY <1>2, ReasoningEffect
  <2>2. FallbackClaims # {}
    BY <1>1, FallbackLeavesClaim DEF TypeOK, StageInvariant, EvidenceFirst
  <2> QED
    BY <2>1, <2>2
<1>6. EvidenceFirst'
  BY <1>1, <1>4, <1>5 DEF StageInvariant, EvidenceFirst
<1>7. ReviewedInTurn'
  <2>1. falsification # None => falsification.of <= revision /\ falsification.of \in Nat
    BY DEF Numbered, TypeOK, FalsificationResult
  <2> QED
    BY <1>1, <1>3, <1>4, <2>1 DEF ReviewedInTurn, Reviewed
<1>8. DecidedOnce'
  <2>1. recommended_actions' = recommended_actions
    BY <1>2, OthersKeepActions DEF reasoning
  <2>2. \A i \in DOMAIN recommended_actions : recommended_actions[i].of \in Nat
    BY ActionsNumbered DEF TypeOK
  <2> QED
    BY <1>4, <2>1, <2>2 DEF StageInvariant, DecidedOnce
<1> QED
  BY <1>1, <1>6, <1>7, <1>8
     DEF StageInvariant, ReturnedStateIsCoherent, AutonomyJustified

(* The falsifier leaves a verdict on that hypothesis. *)
LEMMA FalsifierStage ==
  ASSUME TypeOK, StageInvariant, RunFalsifier
  PROVE  StageInvariant'
<1>1. pc = "falsifier" /\ pc' = "counterfactual"
  BY FollowingIs DEF RunFalsifier, Completes
<1>2. causal_hypothesis # None
  BY <1>1 DEF StageInvariant, ReviewedInTurn
<1>3. PICK reply \in FalsifierReplies : falsifier_review(reply)
  BY <1>2 DEF RunFalsifier, falsifier_step, falsifier_skip
<1>4. /\ causal_hypothesis \in Hypothesis
      /\ falsification'.of = causal_hypothesis.revision
      /\ causal_hypothesis'.revision = causal_hypothesis.revision
      /\ causal_hypothesis'.claims = causal_hypothesis.claims
      /\ revision' = revision /\ telemetry_findings' = telemetry_findings
  BY <1>3, ReviewEffect DEF Hypothesis
<1>5. causal_hypothesis' # None /\ falsification' # None
  BY <1>3, HypothesisStays
<1>6. recommended_actions' = recommended_actions
  BY OthersKeepActions DEF RunFalsifier
<1>7. EvidenceFirst' /\ ReviewedInTurn' /\ DecidedOnce'
  BY <1>1, <1>2, <1>4, <1>5, <1>6
     DEF StageInvariant, EvidenceFirst, ReviewedInTurn, DecidedOnce, Reviewed
<1> QED
  BY <1>1, <1>7 DEF StageInvariant, ReturnedStateIsCoherent, AutonomyJustified

(* The simulator leaves a prediction for that hypothesis. *)
LEMMA CounterfactualStage ==
  ASSUME TypeOK, Numbered, StageInvariant, RunCounterfactual
  PROVE  StageInvariant'
<1>1. pc = "counterfactual" /\ pc' = "action"
  BY FollowingIs DEF RunCounterfactual, Completes
<1>2. causal_hypothesis # None /\ causal_hypothesis.revision = revision
  BY <1>1 DEF StageInvariant, ReviewedInTurn, Numbered
<1>3. /\ counterfactual'.of = revision
      /\ UNCHANGED <<telemetry_findings, causal_hypothesis, falsification,
                     recommended_actions, revision>>
  BY <1>2 DEF RunCounterfactual, counterfactual_step, counterfactual_skip,
              counterfactual_rule, counterfactual_ask, Predict
<1>4. counterfactual' # None
  BY <1>2, CounterfactualTyped, NoneAssumption DEF RunCounterfactual
<1>7. EvidenceFirst' /\ ReviewedInTurn' /\ DecidedOnce'
  BY <1>1, <1>2, <1>3, <1>4
     DEF StageInvariant, EvidenceFirst, ReviewedInTurn, DecidedOnce, Reviewed
<1> QED
  BY <1>1, <1>7 DEF StageInvariant, ReturnedStateIsCoherent, AutonomyJustified

(* The confidence an investigation returns is that of its hypothesis. *)
LEMMA ScoreIsFinal ==
  ASSUME ConfidenceConsistent, causal_hypothesis # None
  PROVE  confidence_score = causal_hypothesis.confidence.final
BY DEF ConfidenceConsistent

(* The action agent decides, once, on that hypothesis. *)
LEMMA ActionStage ==
  ASSUME TypeOK, Numbered, ConfidenceConsistent, StageInvariant, RunAction
  PROVE  StageInvariant'
<1>1. pc = "action" /\ pc' = "returned"
  BY FollowingIs DEF RunAction, Completes
<1>2. PICK action \in Action :
         /\ recommended_actions' = Append(recommended_actions, action)
         /\ action.of = HypothesisRevision
         /\ requires_human_approval' = action.requires_approval
         /\ Refuted <=> action.description = REFUTED_ACTION.description
         /\ Refuted => action.requires_approval
         /\ ~action.requires_approval => Autonomous /\ action.risk_level = "low"
         /\ UNCHANGED <<telemetry_findings, causal_hypothesis, falsification,
                        counterfactual, confidence_score, revision>>
  BY ActionEffect DEF RunAction
<1>3. /\ Reviewed /\ counterfactual # None /\ counterfactual.of = revision
      /\ causal_hypothesis # None /\ causal_hypothesis.revision = revision
  BY <1>1 DEF StageInvariant, ReviewedInTurn, Numbered
<1>4. action.of = revision /\ revision \in Nat
  BY <1>2, <1>3 DEF HypothesisRevision, TypeOK
<1> DEFINE before == recommended_actions
           after == recommended_actions'
           n == Len(recommended_actions)
<1>5. /\ n \in Nat /\ DOMAIN before = 1..n
      /\ Len(after) = n + 1 /\ DOMAIN after = 1..(n + 1)
      /\ \A i \in 1..n : after[i] = before[i]
      /\ after[n + 1] = action
      /\ after # <<>>
  <2>1. /\ before \in Seq(Action) /\ action \in Action
        /\ after = Append(before, action) /\ n = Len(before)
    BY <1>2 DEF TypeOK
  <2> HIDE DEF before, after, n
  <2>2. /\ Len(before) \in Nat /\ DOMAIN before = 1..Len(before)
        /\ Len(after) = Len(before) + 1 /\ DOMAIN after = 1..(Len(before) + 1)
        /\ \A i \in 1..Len(before) : after[i] = before[i]
        /\ after[Len(before) + 1] = action
        /\ after # <<>>
    BY <2>1, Appended
  <2> QED
    BY <2>1, <2>2, Zenon
<1>6. \A i \in 1..n : before[i].of \in Nat /\ before[i].of < revision
  BY <1>1, <1>5, ActionsNumbered DEF StageInvariant, DecidedOnce, TypeOK
<1>7. EvidenceFirst'
  BY <1>1, <1>2 DEF StageInvariant, EvidenceFirst
<1>8. ReviewedInTurn'
  BY <1>1, <1>2, <1>3 DEF StageInvariant, ReviewedInTurn, Reviewed
<1>9. DecidedOnce'
  <2>1. \A i \in 1..(n + 1) : after[i].of <= revision
    BY <1>4, <1>5, <1>6
  <2> QED
    BY <1>1, <1>2, <1>5, <2>1 DEF DecidedOnce
<1>10. ReturnedStateIsCoherent'
  <2>1. {i \in DOMAIN after : after[i].of = revision} = {n + 1}
    BY <1>4, <1>5, <1>6
  <2>2. Cardinality({i \in DOMAIN after : after[i].of = revision}) = 1
    BY <2>1, FS_Singleton
  <2>3. (Refuted <=> action.description = REFUTED_ACTION.description)
    BY <1>2
  <2>4. Refuted' <=> Refuted
    BY <1>2 DEF Refuted
  <2>5. Reviewed'
    BY <1>2, <1>3 DEF Reviewed
  <2> QED
    BY <1>2, <1>3, <1>4, <1>5, <2>2, <2>3, <2>4, <2>5 DEF ReturnedStateIsCoherent
<1>11. AutonomyJustified'
  <2> SUFFICES ASSUME ~requires_human_approval'
               PROVE  /\ after[Len(after)].risk_level = "low"
                      /\ Reviewed' /\ falsification'.verdict = "confirmed"
                      /\ counterfactual'.of = revision'
                      /\ counterfactual'.prediction_confidence >= 700
                      /\ causal_hypothesis'.confidence.final >= 9500
    BY DEF AutonomyJustified
  <2>1. Autonomous /\ action.risk_level = "low"
    BY <1>2
  <2>2. /\ falsification.verdict = "confirmed"
        /\ counterfactual.prediction_confidence >= 700
        /\ confidence_score >= 9500
    BY <2>1 DEF Autonomous, CounterfactualFloor, AUTONOMOUS_CONFIDENCE_FLOOR
  <2>3. Reviewed'
    BY <1>2, <1>3 DEF Reviewed
  <2> QED
    BY <1>2, <1>3, <1>5, <2>1, <2>2, <2>3, ScoreIsFinal
<1> QED
  BY <1>7, <1>8, <1>9, <1>10, <1>11 DEF StageInvariant

(* Every step of an investigation keeps the invariant by stage. *)
LEMMA StagesInductive ==
  ASSUME InvestigationInvariant, StageInvariant, [Next]_vars
  PROVE  StageInvariant'
<1>1. TypeOK /\ Numbered /\ ConfidenceConsistent
  BY DEF InvestigationInvariant, StepInvariant
<1>2. CASE Invoke \/ BackendRaises \/ UNCHANGED vars
  BY <1>2, StagesKept DEF Invoke, BackendRaises, vars, state
<1>3. CASE RunSupervisor
  <2>1. pc' = "telemetry"
    BY <1>3, FollowingIs DEF RunSupervisor, Completes
  <2> QED
    BY <1>3, <2>1, StagesKept DEF RunSupervisor, supervisor_step
<1>4. CASE CorpusRaises
  BY <1>4, StagesKept DEF CorpusRaises, corpus_raises, reasoning_raises
<1> QED
  BY <1>1, <1>2, <1>3, <1>4, TelemetryStage, ReasoningStage, FalsifierStage,
     CounterfactualStage, ActionStage DEF Next, Running

(* It holds throughout. *)
LEMMA Staged == Spec => [](InvestigationInvariant /\ StageInvariant)
<1>1. Init => InvestigationInvariant /\ StageInvariant
  BY InvestigationInductive, StagesAtFirst
<1>2. InvestigationInvariant /\ StageInvariant /\ [Next]_vars
        => (InvestigationInvariant /\ StageInvariant)'
  BY InvestigationInductive, StagesInductive
<1> QED
  BY <1>1, <1>2, PTL DEF Spec

(* Whatever the models reply, the hypothesis of an investigation has a     *)
(* claim, and each cites a finding there is (agents/reasoning.py).         *)
THEOREM PipelineGroundsHypotheses == Spec => []HypothesisGrounded
<1>1. InvestigationInvariant /\ StageInvariant => HypothesisGrounded
  BY DEF InvestigationInvariant, StepInvariant, StageInvariant, EvidenceFirst,
         HypothesisGrounded
<1> QED
  BY <1>1, Staged, PTL

(* What an invocation returns is about one hypothesis, decided once, also  *)
(* after invocations that raised (agents/graph.py).                        *)
THEOREM PipelineReturnsCoherentState == Spec => []ReturnedStateIsCoherent
<1>1. InvestigationInvariant /\ StageInvariant => ReturnedStateIsCoherent
  BY DEF StageInvariant
<1> QED
  BY <1>1, Staged, PTL

(* An action let through without a human passed every gate, on the verdict *)
(* and the prediction of the hypothesis returned (agents/action.py).       *)
THEOREM PipelineJustifiesAutonomy == Spec => []AutonomyJustified
<1>1. InvestigationInvariant /\ StageInvariant => AutonomyJustified
  BY DEF StageInvariant
<1> QED
  BY <1>1, Staged, PTL

(***************************************************************************)
(* The pipeline implements the review gate, step by step.                  *)
(***************************************************************************)
ReviewShown == IF Reviewed THEN falsification.verdict ELSE "none"
DecisionShown(action) ==
  [of          |-> action.of,
   escalated   |-> action.description = REFUTED_ACTION.description,
   needs_human |-> action.requires_approval]
DecisionsShown(actions) == [i \in DOMAIN actions |-> DecisionShown(actions[i])]

(* One more action is one more decision. *)
LEMMA OneMoreDecision ==
  ASSUME NEW actions \in Seq(Action), NEW action \in Action
  PROVE  DecisionsShown(Append(actions, action))
           = Append(DecisionsShown(actions), DecisionShown(action))
<1> DEFINE D(a) == DecisionShown(a)
           S == {D(a) : a \in Action}
           n == Len(actions)
           shown == DecisionsShown(actions)
           longer == Append(actions, action)
<1>1. /\ n \in Nat /\ DOMAIN actions = 1..n
      /\ DOMAIN longer = 1..(n + 1)
      /\ \A i \in 1..n : longer[i] = actions[i]
      /\ longer[n + 1] = action
  BY Appended
<1>2. \A i \in 1..n : actions[i] \in Action
  BY ElementOfSeq
<1>3. shown = [i \in 1..n |-> D(actions[i])]
  BY <1>1 DEF DecisionsShown
<1> HIDE DEF D
<1>4. shown \in [1..n -> S] /\ D(action) \in S
  BY <1>2, <1>3
<1>5. shown \in Seq(S)
  BY <1>1, <1>4, MappedSeq
<1>6. Len(shown) = n
  BY <1>1, <1>3, <1>5, LenProperties
<1> HIDE DEF S, shown
<1>7. /\ DOMAIN Append(shown, D(action)) = 1..(n + 1)
      /\ \A i \in 1..n : Append(shown, D(action))[i] = shown[i]
      /\ Append(shown, D(action))[n + 1] = D(action)
      /\ Append(shown, D(action)) \in [1..(n + 1) -> S]
  <2>1. /\ Append(shown, D(action)) \in Seq(S)
        /\ Len(Append(shown, D(action))) = n + 1
    BY <1>4, <1>5, <1>6, AppendProperties
  <2>2. Append(shown, D(action)) \in [1..(n + 1) -> S]
    BY <2>1, LenProperties
  <2> QED
    BY <1>4, <1>5, <1>6, <2>2, Appended
<1>8. DecisionsShown(longer) = [i \in 1..(n + 1) |-> D(longer[i])]
  BY <1>1 DEF DecisionsShown, D
<1>9. \A i \in 1..(n + 1) : Append(shown, D(action))[i] = D(longer[i])
  BY <1>1, <1>3, <1>7
<1>10. Append(shown, D(action)) = [i \in 1..(n + 1) |-> D(longer[i])]
  BY <1>1, <1>7, <1>9
<1> QED
  BY <1>8, <1>10 DEF D, shown

(* A new investigation shows a new gate. *)
LEMMA GateAtFirst == Init => Gate!Init
<1> SUFFICES ASSUME Init
             PROVE  Gate!Init
  OBVIOUS
<1>1. revision = 0 /\ causal_hypothesis = None /\ recommended_actions = <<>>
  BY DEF Init, new_state
<1>2. ~Reviewed
  BY <1>1 DEF Reviewed
<1>3. DecisionsShown(recommended_actions) = <<>>
  BY <1>1 DEF DecisionsShown
<1> QED
  BY <1>1, <1>2, <1>3 DEF Gate!Init, DecisionsShown, DecisionShown

(* A step that changes neither hypothesis, verdict nor recommendations     *)
(* leaves the gate as it is. *)
LEMMA GateKept ==
  ASSUME UNCHANGED <<causal_hypothesis, falsification, recommended_actions, revision>>
  PROVE  UNCHANGED Gate!vars
<1>1. ReviewShown' = ReviewShown
  BY DEF ReviewShown, Reviewed
<1>2. DecisionsShown(recommended_actions)' = DecisionsShown(recommended_actions)
  BY DEF DecisionsShown, DecisionShown
<1> QED
  BY <1>1, <1>2 DEF Gate!vars, ReviewShown, DecisionsShown, DecisionShown

(* The reasoning agent proposes. *)
LEMMA ReasoningProposes ==
  ASSUME TypeOK, Numbered, RunReasoning
  PROVE  Gate!Propose
<1>1. PICK reply \in ReasoningReplies : reasoning_step(reply)
  BY DEF RunReasoning, reasoning
<1>2. /\ falsification' = falsification
      /\ revision' = revision + 1 /\ revision \in Nat
      /\ causal_hypothesis'.revision = revision + 1
  BY <1>1, ReasoningEffect DEF TypeOK
<1>3. ~Reviewed'
  <2>1. falsification # None => falsification.of <= revision /\ falsification.of \in Nat
    BY DEF Numbered, TypeOK, FalsificationResult
  <2> QED
    BY <1>2, <2>1 DEF Reviewed
<1>4. recommended_actions' = recommended_actions
  BY OthersKeepActions DEF RunReasoning
<1> QED
  BY <1>2, <1>3, <1>4 DEF Gate!Propose, DecisionsShown, DecisionShown

(* The falsifier reviews. *)
LEMMA FalsifierReviews ==
  ASSUME TypeOK, StageInvariant, RunFalsifier
  PROVE  Gate!Review
<1>1. causal_hypothesis # None /\ ~Reviewed /\ revision > 0
  BY DEF RunFalsifier, Completes, StageInvariant, ReviewedInTurn
<1>2. PICK reply \in FalsifierReplies : falsifier_review(reply)
  BY <1>1 DEF RunFalsifier, falsifier_step, falsifier_skip
<1>3. /\ falsification'.verdict \in {"confirmed", "contested", "refuted"}
      /\ revision' = revision
      /\ Reviewed'
  <2>1. /\ falsification' \in FalsificationResult
        /\ falsification'.of = causal_hypothesis.revision
        /\ causal_hypothesis'.revision = causal_hypothesis.revision
        /\ revision' = revision
    BY <1>2, ReviewEffect DEF Hypothesis
  <2>2. causal_hypothesis' # None /\ falsification' # None
    BY <1>2, HypothesisStays
  <2> QED
    BY <2>1, <2>2 DEF Reviewed, FalsificationResult, Verdicts
<1>4. recommended_actions' = recommended_actions
  BY OthersKeepActions DEF RunFalsifier
<1> QED
  BY <1>1, <1>3, <1>4 DEF Gate!Review, DecisionsShown, DecisionShown

(* The action agent decides. *)
LEMMA ActionDecides ==
  ASSUME TypeOK, Numbered, StageInvariant, RunAction
  PROVE  Gate!Decide
<1>1. PICK action \in Action :
         /\ recommended_actions' = Append(recommended_actions, action)
         /\ action.of = HypothesisRevision
         /\ requires_human_approval' = action.requires_approval
         /\ Refuted <=> action.description = REFUTED_ACTION.description
         /\ Refuted => action.requires_approval
         /\ ~action.requires_approval => Autonomous /\ action.risk_level = "low"
         /\ UNCHANGED <<telemetry_findings, causal_hypothesis, falsification,
                        counterfactual, confidence_score, revision>>
  BY ActionEffect DEF RunAction
<1>2. pc = "action" /\ Reviewed /\ causal_hypothesis # None
        /\ causal_hypothesis.revision = revision
  BY DEF RunAction, Completes, StageInvariant, ReviewedInTurn, Numbered, Reviewed
<1>3. Reviewed' /\ falsification' = falsification /\ revision' = revision
  BY <1>1, <1>2 DEF Reviewed
<1>4. action.of = revision /\ action.requires_approval \in BOOLEAN
  BY <1>1, <1>2 DEF HypothesisRevision, Action
<1>5. falsification.verdict \in {"confirmed", "contested", "refuted"}
  BY <1>2 DEF Reviewed, TypeOK, FalsificationResult, Verdicts
<1> DEFINE verdict == falsification.verdict
<1>6. (verdict = "refuted") <=> (action.description = REFUTED_ACTION.description)
  BY <1>1, <1>2 DEF Refuted, Reviewed
<1>7. verdict = "refuted" => action.requires_approval
  BY <1>1, <1>2 DEF Refuted, Reviewed
<1>8. DecisionShown(action) = [of          |-> revision,
                               escalated   |-> verdict = "refuted",
                               needs_human |-> action.requires_approval]
  <2>1. (action.description = REFUTED_ACTION.description) = (verdict = "refuted")
    BY <1>6
  <2> QED
    BY <1>4, <2>1, Zenon DEF DecisionShown
<1>9. DecisionsShown(recommended_actions')
        = Append(DecisionsShown(recommended_actions), DecisionShown(action))
  BY <1>1, OneMoreDecision DEF TypeOK
<1>10. \A i \in DOMAIN DecisionsShown(recommended_actions) :
         DecisionsShown(recommended_actions)[i].of < revision
  BY <1>2 DEF StageInvariant, DecidedOnce, DecisionsShown, DecisionShown
<1>11. ReviewShown = verdict /\ ReviewShown' = verdict
  BY <1>2, <1>3 DEF ReviewShown
<1>12. ReviewShown # "none"
  BY <1>5, <1>11
<1>13. Gate!Decide <=>
         /\ ReviewShown # "none"
         /\ \A i \in DOMAIN DecisionsShown(recommended_actions) :
              DecisionsShown(recommended_actions)[i].of < revision
         /\ \E human \in BOOLEAN :
              /\ ReviewShown = "refuted" => human
              /\ DecisionsShown(recommended_actions)' =
                   Append(DecisionsShown(recommended_actions),
                          [of |-> revision, escalated |-> ReviewShown = "refuted",
                           needs_human |-> human])
         /\ UNCHANGED <<revision, ReviewShown>>
  BY Zenon DEF Gate!Decide, ReviewShown, DecisionsShown, DecisionShown
<1>14. \E human \in BOOLEAN :
              /\ ReviewShown = "refuted" => human
              /\ DecisionsShown(recommended_actions)' =
                   Append(DecisionsShown(recommended_actions),
                          [of |-> revision, escalated |-> ReviewShown = "refuted",
                           needs_human |-> human])
  <2> action.requires_approval \in BOOLEAN
    BY <1>4
  <2> WITNESS action.requires_approval \in BOOLEAN
  <2>1. DecisionsShown(recommended_actions)' = DecisionsShown(recommended_actions')
    BY DEF DecisionsShown, DecisionShown
  <2> QED
    BY <1>7, <1>8, <1>9, <1>11, <2>1
<1>15. UNCHANGED <<revision, ReviewShown>>
  BY <1>3, <1>11
<1> QED
  BY <1>10, <1>12, <1>13, <1>14, <1>15

(* Every step of the pipeline is a step of the gate, or none. *)
LEMMA StepsOfGate ==
  ASSUME InvestigationInvariant, StageInvariant, [Next]_vars
  PROVE  [Gate!Next]_(Gate!vars)
<1>1. TypeOK /\ Numbered
  BY DEF InvestigationInvariant, StepInvariant
<1>2. CASE Invoke \/ BackendRaises \/ UNCHANGED vars
  BY <1>2, GateKept DEF Invoke, BackendRaises, vars, state
<1>3. CASE RunSupervisor \/ RunTelemetry \/ CorpusRaises
  BY <1>3, GateKept DEF RunSupervisor, RunTelemetry, supervisor_step, telemetry_step,
                        CorpusRaises, corpus_raises, reasoning_raises
<1>4. CASE RunCounterfactual
  BY <1>4, GateKept DEF RunCounterfactual, counterfactual_step, counterfactual_skip,
                        counterfactual_rule, counterfactual_ask, Predict
<1>5. CASE RunReasoning \/ RunFalsifier \/ RunAction
  BY <1>1, <1>5, ReasoningProposes, FalsifierReviews, ActionDecides DEF Gate!Next
<1> QED
  BY <1>2, <1>3, <1>4, <1>5 DEF Next, Running

(* However often an investigation is invoked and wherever it raises, a     *)
(* decision is on a reviewed hypothesis, at most one for each, and a       *)
(* refuted one is escalated (agents/graph.py, agents/action.py).           *)
THEOREM PipelineImplementsGate == Spec => ImplementsGate
<1>1. Init => Gate!Init
  BY GateAtFirst
<1>2. InvestigationInvariant /\ StageInvariant /\ [Next]_vars
        => [Gate!Next]_(Gate!vars)
  BY StepsOfGate
<1> QED
  BY <1>1, <1>2, Staged, PTL DEF Spec, ImplementsGate, Gate!Spec

(***************************************************************************)
(* The trail follows the pipeline.                                         *)
(***************************************************************************)
(* On a trail t: the entries since the supervisor last ran, and the agents *)
(* that completed since.                                                   *)
Since(t) ==
  {i \in DOMAIN t :
     \E j \in At(t, "supervisor") : j <= i /\ \A k \in At(t, "supervisor") : k <= j}
Completed(t) == {t[i].agent : i \in {j \in Since(t) : t[j].event # "fallback"}}
InOrder(t) ==
  \A i, j \in Since(t) : i <= j => Position(t[i].agent) <= Position(t[j].agent)

(* A pass that has come to a stage, with so many agents completed. *)
Pass(t, stage, completed) ==
  /\ Since(t) # {}
  /\ InOrder(t)
  /\ \A i \in Since(t) : Position(t[i].agent) \in 1..Position(stage)
  /\ Completed(t) = completed

(* The stages have numbers, in their order. *)
LEMMA Positions ==
  /\ Position("supervisor") = 1 /\ Position("telemetry") = 2
  /\ Position("reasoning") = 3 /\ Position("falsifier") = 4
  /\ Position("counterfactual") = 5 /\ Position("action") = 6
<1>1. DOMAIN Pipeline = 1..6
  BY DEF Pipeline
<1>2. /\ Pipeline[1] = "supervisor" /\ Pipeline[2] = "telemetry"
      /\ Pipeline[3] = "reasoning" /\ Pipeline[4] = "falsifier"
      /\ Pipeline[5] = "counterfactual" /\ Pipeline[6] = "action"
  BY DEF Pipeline
<1> QED
  BY <1>1, <1>2 DEF Position

(* The stages before one, and after it. *)
LEMMA StagesBeforeAre ==
  /\ StagesBefore("supervisor") = {}
  /\ StagesBefore("telemetry") = {"supervisor"}
  /\ StagesBefore("reasoning") = {"supervisor", "telemetry"}
  /\ StagesBefore("falsifier") = {"supervisor", "telemetry", "reasoning"}
  /\ StagesBefore("counterfactual") = {"supervisor", "telemetry", "reasoning", "falsifier"}
  /\ StagesBefore("action") =
       {"supervisor", "telemetry", "reasoning", "falsifier", "counterfactual"}
<1>1. /\ Pipeline[1] = "supervisor" /\ Pipeline[2] = "telemetry"
      /\ Pipeline[3] = "reasoning" /\ Pipeline[4] = "falsifier"
      /\ Pipeline[5] = "counterfactual"
  BY DEF Pipeline
<1>2. /\ 1..0 = {} /\ 1..1 = {1} /\ 1..2 = {1, 2} /\ 1..3 = {1, 2, 3}
      /\ 1..4 = {1, 2, 3, 4} /\ 1..5 = {1, 2, 3, 4, 5}
  OBVIOUS
<1> QED
  BY <1>1, <1>2, Positions DEF StagesBefore

(* The supervisor starts a pass. *)
LEMMA PassStarts ==
  ASSUME NEW t, NEW entry, NEW u, FollowedBy(t, entry, u),
         entry.agent = "supervisor", entry.event # "fallback"
  PROVE  Pass(u, "supervisor", {"supervisor"})
<1> DEFINE n == Len(t)
<1>1. /\ n \in Nat /\ DOMAIN u = 1..(n + 1) /\ u[n + 1] = entry
      /\ At(t, "supervisor") \subseteq 1..n
      /\ At(u, "supervisor") = At(t, "supervisor") \cup {n + 1}
  BY SupervisorPlaces DEF FollowedBy
<1> HIDE DEF n
<1>2. Since(u) = {n + 1}
  BY <1>1 DEF Since
<1>3. Completed(u) = {"supervisor"}
  BY <1>1, <1>2 DEF Completed
<1>4. InOrder(u)
  BY <1>1, <1>2, Positions DEF InOrder
<1> QED
  BY <1>1, <1>2, <1>3, <1>4, Positions DEF Pass

(* Another agent goes on with it, without completing its stage if the      *)
(* entry is only the note on a fallback.                                   *)
LEMMA PassGoesOn ==
  ASSUME NEW t, NEW entry, NEW u, FollowedBy(t, entry, u),
         NEW stage \in Stages \ {"supervisor"}, entry.agent = stage,
         NEW completed, Pass(t, stage, completed)
  PROVE  Pass(u, stage, IF entry.event = "fallback" THEN completed
                        ELSE completed \cup {stage})
<1> DEFINE n == Len(t)
<1>1. /\ n \in Nat /\ DOMAIN t = 1..n /\ DOMAIN u = 1..(n + 1) /\ u[n + 1] = entry
      /\ \A i \in 1..n : u[i] = t[i]
  BY DEF FollowedBy
<1>2. At(t, "supervisor") \subseteq 1..n /\ At(u, "supervisor") = At(t, "supervisor")
  <2>1. /\ At(t, "supervisor") \subseteq 1..n
        /\ entry.agent # "supervisor" => At(u, "supervisor") = At(t, "supervisor")
    BY SupervisorPlaces, Zenon
  <2>2. entry.agent # "supervisor"
    OBVIOUS
  <2> QED
    BY <2>1, <2>2, Zenon
<1>3. /\ Since(t) # {} /\ InOrder(t) /\ Completed(t) = completed
      /\ \A i \in Since(t) : Position(t[i].agent) \in 1..Position(stage)
  BY DEF Pass
<1>4. Position(stage) \in Nat /\ Position(stage) >= 1
  BY Positions, StagesAre
<1> HIDE DEF n
<1>5. Since(t) \subseteq 1..n
  BY <1>1 DEF Since
<1>6. Since(u) = Since(t) \cup {n + 1} /\ n + 1 \notin Since(t)
  <2>1. PICK j \in At(t, "supervisor") : \A k \in At(t, "supervisor") : k <= j
    BY <1>3 DEF Since
  <2>2. n + 1 \in Since(u)
    BY <1>1, <1>2, <2>1 DEF Since
  <2>3. \A i \in 1..n : i \in Since(u) <=> i \in Since(t)
    BY <1>1, <1>2 DEF Since
  <2>4. Since(u) \subseteq 1..(n + 1)
    BY <1>1 DEF Since
  <2> QED
    BY <1>1, <1>5, <2>2, <2>3, <2>4
<1>7. \A i \in Since(t) : u[i] = t[i] /\ i <= n /\ ~(n + 1 <= i)
  BY <1>1, <1>5
<1>8. \A i \in Since(u) : Position(u[i].agent) \in 1..Position(stage)
  BY <1>1, <1>3, <1>4, <1>6, <1>7
<1>9. InOrder(u)
  BY <1>1, <1>3, <1>4, <1>6, <1>7 DEF InOrder
<1>10. Completed(u) = IF entry.event = "fallback" THEN completed ELSE completed \cup {stage}
  BY <1>1, <1>3, <1>6, <1>7 DEF Completed
<1> QED
  BY <1>6, <1>8, <1>9, <1>10, Zenon DEF Pass

(* The strengthening: at which stage the pass is. *)
PassInvariant ==
  /\ InOrder(audit_trail)
  /\ pc \in Stages \ {"supervisor"} => Pass(audit_trail, pc, StagesBefore(pc))
  /\ pc = "returned" => Completed(audit_trail) = Stages
  /\ pc = "raised" =>
       \E s \in {"reasoning", "falsifier", "counterfactual"} :
         Completed(audit_trail) = StagesBefore(s)

(* A stage that completed leads to the next. *)
LEMMA PassedOn ==
  ASSUME NEW stage \in Stages, pc' = Following(stage),
         Pass(audit_trail', stage, StagesBefore(stage) \cup {stage})
  PROVE  PassInvariant'
<1>1. /\ Since(audit_trail') # {} /\ InOrder(audit_trail')
      /\ \A i \in Since(audit_trail') :
           Position(audit_trail'[i].agent) \in 1..Position(stage)
      /\ Completed(audit_trail') = StagesBefore(stage) \cup {stage}
  BY DEF Pass
<1>2. CASE stage = "action"
  <2>1. pc' = "returned"
    BY <1>2, FollowingIs
  <2>2. Completed(audit_trail') = Stages
    BY <1>1, <1>2, StagesBeforeAre, StagesAre
  <2> QED
    BY <1>1, <2>1, <2>2, StagesAre DEF PassInvariant
<1>3. CASE stage # "action"
  <2>1. /\ pc' \in Stages \ {"supervisor"}
        /\ Position(pc') = Position(stage) + 1
        /\ StagesBefore(pc') = StagesBefore(stage) \cup {stage}
        /\ Position(stage) \in Int
    BY <1>3, FollowingIs, StagesAre, Positions, StagesBeforeAre
  <2>2. \A i \in Since(audit_trail') :
          Position(audit_trail'[i].agent) \in 1..Position(pc')
    BY <1>1, <2>1
  <2> QED
    BY <1>1, <2>1, <2>2, StagesAre DEF PassInvariant, Pass
<1> QED
  BY <1>2, <1>3

(* A stage that writes one entry completes. *)
LEMMA StageOfOne ==
  ASSUME TypeOK, PassInvariant, NEW stage \in Stages \ {"supervisor"}, Completes(stage),
         NEW entry \in AgentStep, entry.agent = stage, entry.event # "fallback",
         audit_trail' = Append(audit_trail, entry)
  PROVE  PassInvariant'
<1>1. FollowedBy(audit_trail, entry, audit_trail')
  BY Followed DEF TypeOK
<1>2. Pass(audit_trail, stage, StagesBefore(stage)) /\ pc' = Following(stage)
  BY DEF PassInvariant, Completes
<1>3. Pass(audit_trail', stage, StagesBefore(stage) \cup {stage})
  BY <1>1, <1>2, PassGoesOn
<1> QED
  BY <1>2, <1>3, PassedOn

(* So does one that writes a note before it. *)
LEMMA StageOfTwo ==
  ASSUME TypeOK, PassInvariant, NEW stage \in Stages \ {"supervisor"}, Completes(stage),
         NEW note \in AgentStep, NEW entry \in AgentStep, note.agent = stage,
         entry.agent = stage, entry.event # "fallback",
         audit_trail' = Append(Append(audit_trail, note), entry)
  PROVE  PassInvariant'
<1> DEFINE noted == Append(audit_trail, note)
<1>1. audit_trail \in Seq(AgentStep) /\ noted \in Seq(AgentStep)
  BY AppendProperties DEF TypeOK
<1>2. FollowedBy(audit_trail, note, noted) /\ FollowedBy(noted, entry, audit_trail')
  BY <1>1, Followed
<1>3. Pass(audit_trail, stage, StagesBefore(stage)) /\ pc' = Following(stage)
  BY DEF PassInvariant, Completes
<1> HIDE DEF noted
<1>4. PICK completed \in {StagesBefore(stage), StagesBefore(stage) \cup {stage}} :
        Pass(noted, stage, completed)
  BY <1>2, <1>3, PassGoesOn
<1>5. Pass(audit_trail', stage, completed \cup {stage})
  BY <1>2, <1>4, PassGoesOn
<1>6. completed \cup {stage} = StagesBefore(stage) \cup {stage}
  BY <1>4
<1> QED
  BY <1>3, <1>5, <1>6, PassedOn

(* Every step keeps the pass in step with the pipeline. *)
LEMMA PassInductive ==
  ASSUME TypeOK, PassInvariant, [Next]_vars
  PROVE  PassInvariant'
<1> USE StagesAre
<1>1. \A agent, event : Step(agent, event).agent = agent /\ Step(agent, event).event = event
  BY DEF Step
<1>2. CASE Invoke
  <2>1. audit_trail' = audit_trail /\ pc' = "supervisor"
    BY <1>2 DEF Invoke, state
  <2> QED
    BY <2>1 DEF PassInvariant
<1>3. CASE UNCHANGED vars
  <2>1. audit_trail' = audit_trail /\ pc' = pc
    BY <1>3 DEF vars, state
  <2> QED
    BY <2>1 DEF PassInvariant
<1>4. CASE RunSupervisor
  <2> DEFINE entry == Step("supervisor", "routed")
  <2>1. audit_trail' = Append(audit_trail, entry) /\ pc' = Following("supervisor")
    BY <1>4, SupervisorWrites DEF RunSupervisor, Completes
  <2>2. FollowedBy(audit_trail, entry, audit_trail')
    BY <2>1, EntryTypes, Followed DEF TypeOK
  <2>3. entry.agent = "supervisor" /\ entry.event # "fallback"
    BY <1>1
  <2> HIDE DEF entry
  <2>4. Pass(audit_trail', "supervisor", {"supervisor"})
    BY <2>2, <2>3, PassStarts
  <2>5. {"supervisor"} = StagesBefore("supervisor") \cup {"supervisor"}
    BY StagesBeforeAre
  <2>6. Pass(audit_trail', "supervisor", StagesBefore("supervisor") \cup {"supervisor"})
    BY <2>4, <2>5
  <2> QED
    BY <2>1, <2>6, PassedOn
<1>5. CASE RunTelemetry
  BY <1>1, <1>5, TelemetryWrites, EntryTypes, StageOfOne DEF RunTelemetry
<1>6. CASE RunReasoning
  <2>1. PICK reply \in ReasoningReplies : reasoning_step(reply)
    BY <1>6 DEF RunReasoning, reasoning
  <2>2. Completes("reasoning")
    BY <1>6 DEF RunReasoning
  <2>3. \/ audit_trail' = Append(audit_trail, Step("reasoning", "hypothesis"))
        \/ audit_trail' = Append(Append(audit_trail, Step("reasoning", "fallback")),
                                 Step("reasoning", "hypothesis"))
    BY <2>1, ReasoningWrites
  <2> QED
    BY <1>1, <2>2, <2>3, EntryTypes, StageOfOne, StageOfTwo
<1>7. CASE RunFalsifier
  <2>1. Completes("falsifier")
    BY <1>7 DEF RunFalsifier
  <2>2. CASE falsifier_skip
    BY <1>1, <2>1, <2>2, SkipWrites, EntryTypes, StageOfOne
  <2>3. ASSUME NEW reply \in FalsifierReplies, falsifier_review(reply)
        PROVE  PassInvariant'
    <3>1. PICK verdict \in Verdicts :
            \/ audit_trail' = Append(audit_trail, Step("falsifier", verdict))
            \/ audit_trail' = Append(Append(audit_trail, Step("falsifier", "extension")),
                                     Step("falsifier", verdict))
      BY <2>3, ReviewWrites
    <3>2. verdict # "fallback" /\ Step("falsifier", verdict) \in AgentStep
      BY EntryTypes DEF Verdicts
    <3> QED
      BY <1>1, <2>1, <3>1, <3>2, EntryTypes, StageOfOne, StageOfTwo
  <2> QED
    BY <1>7, <2>2, <2>3 DEF RunFalsifier, falsifier_step
<1>8. CASE RunCounterfactual
  BY <1>1, <1>8, CounterfactualWrites, EntryTypes, StageOfOne DEF RunCounterfactual
<1>9. CASE RunAction
  <2>1. Completes("action") /\ action_step
    BY <1>9 DEF RunAction
  <2>2. PICK event \in {"vetoed", "recommended"} :
          audit_trail' = Append(audit_trail, Step("action", event))
    BY <2>1, ActionWrites
  <2> QED
    BY <1>1, <2>1, <2>2, EntryTypes, StageOfOne
<1>10. CASE BackendRaises
  <2>1. audit_trail' = audit_trail /\ pc' = "raised"
    BY <1>10 DEF BackendRaises, state
  <2>2. pc \in {"reasoning", "falsifier", "counterfactual"}
    BY <1>10 DEF BackendRaises, CallsBackend
  <2> QED
    BY <2>1, <2>2 DEF PassInvariant, Pass
<1>11. CASE CorpusRaises
  <2> DEFINE note == Step("reasoning", "fallback")
  <2>1. pc = "reasoning" /\ pc' = "raised"
    BY <1>11 DEF CorpusRaises
  <2>2. audit_trail' = audit_trail \/ audit_trail' = Append(audit_trail, note)
    BY <1>11, RaisingWrites DEF CorpusRaises
  <2>3. Pass(audit_trail, "reasoning", StagesBefore("reasoning"))
    BY <2>1 DEF PassInvariant
  <2>4. FollowedBy(audit_trail, note, Append(audit_trail, note))
    BY EntryTypes, Followed DEF TypeOK
  <2>5. note.agent = "reasoning" /\ note.event = "fallback"
    BY <1>1
  <2> HIDE DEF note
  <2>6. Pass(audit_trail', "reasoning", StagesBefore("reasoning"))
    BY <2>2, <2>3, <2>4, <2>5, PassGoesOn
  <2> QED
    BY <2>1, <2>6 DEF PassInvariant, Pass
<1> QED
  BY <1>2, <1>3, <1>4, <1>5, <1>6, <1>7, <1>8, <1>9, <1>10, <1>11 DEF Next, Running

(* The trail of a new investigation has no pass yet. *)
LEMMA PassAtFirst == Init => PassInvariant
<1> SUFFICES ASSUME Init
             PROVE  PassInvariant
  OBVIOUS
<1>1. pc = "fresh" /\ audit_trail = <<Step("system", "opened")>>
  BY DEF Init, new_state
<1>2. At(audit_trail, "supervisor") = {}
  BY <1>1 DEF At, Step
<1>3. Since(audit_trail) = {}
  BY <1>2 DEF Since
<1> QED
  BY <1>1, <1>3, StagesAre DEF PassInvariant, InOrder

(* On a trail t: a note on a fallback that is not its last entry has been  *)
(* answered, by a hypothesis or by the next invocation; and the note that  *)
(* is its last.                                                            *)
Answers == {"hypothesis", "routed"}
Answered(t) ==
  \A i \in DOMAIN t : i # Len(t) /\ t[i].event = "fallback" => t[i + 1].event \in Answers
Noted(t) == \E i \in DOMAIN t : i = Len(t) /\ t[i].event = "fallback"

NoteInvariant ==
  /\ Answered(audit_trail)
  /\ Noted(audit_trail) => pc \in {"raised", "supervisor"}

(* One more entry answers a note that was the last. *)
LEMMA NoteAnswered ==
  ASSUME NEW t, NEW entry, NEW u, FollowedBy(t, entry, u), Answered(t),
         Noted(t) => entry.event \in Answers
  PROVE  Answered(u) /\ (Noted(u) <=> entry.event = "fallback")
<1> DEFINE n == Len(t)
<1>1. /\ n \in Nat /\ Len(u) = n + 1 /\ u[n + 1] = entry
      /\ DOMAIN t = 1..n /\ DOMAIN u = 1..(n + 1)
      /\ \A i \in 1..n : u[i] = t[i]
  BY DEF FollowedBy
<1>2. \A i \in 1..n : i # n /\ t[i].event = "fallback" => t[i + 1].event \in Answers
  BY <1>1 DEF Answered
<1>3. n \in 1..n /\ t[n].event = "fallback" => entry.event \in Answers
  BY <1>1 DEF Noted
<1> HIDE DEF n
<1>4. ASSUME NEW i \in 1..(n + 1), i # n + 1, u[i].event = "fallback"
      PROVE  u[i + 1].event \in Answers
  <2>1. i \in 1..n /\ u[i] = t[i]
    BY <1>1, <1>4
  <2>2. CASE i = n
    BY <1>1, <1>3, <1>4, <2>1, <2>2
  <2>3. CASE i # n
    <3>1. i + 1 \in 1..n /\ t[i + 1].event \in Answers
      BY <1>1, <1>2, <1>4, <2>1, <2>3
    <3> QED
      BY <1>1, <3>1
  <2> QED
    BY <2>2, <2>3
<1>5. n + 1 \in 1..(n + 1)
  BY <1>1
<1> QED
  BY <1>1, <1>4, <1>5 DEF Answered, Noted

(* A call that writes one entry, none of them a note. *)
LEMMA OneEntryAnswers ==
  ASSUME TypeOK, Answered(audit_trail), NEW entry \in AgentStep, entry.event # "fallback",
         Noted(audit_trail) => entry.event \in Answers,
         audit_trail' = Append(audit_trail, entry)
  PROVE  NoteInvariant'
<1>1. FollowedBy(audit_trail, entry, audit_trail')
  BY Followed DEF TypeOK
<1>2. Answered(audit_trail') /\ (Noted(audit_trail') <=> entry.event = "fallback")
  BY <1>1, NoteAnswered
<1> QED
  BY <1>2 DEF NoteInvariant

(* A call that writes two, the first perhaps a note the second answers. *)
LEMMA TwoEntriesAnswer ==
  ASSUME TypeOK, Answered(audit_trail), ~Noted(audit_trail),
         NEW first \in AgentStep, NEW entry \in AgentStep, entry.event # "fallback",
         first.event = "fallback" => entry.event \in Answers,
         audit_trail' = Append(Append(audit_trail, first), entry)
  PROVE  NoteInvariant'
<1> DEFINE longer == Append(audit_trail, first)
<1>1. audit_trail \in Seq(AgentStep) /\ longer \in Seq(AgentStep)
  BY AppendProperties DEF TypeOK
<1>2. FollowedBy(audit_trail, first, longer) /\ FollowedBy(longer, entry, audit_trail')
  BY <1>1, Followed
<1> HIDE DEF longer
<1>3. Answered(longer) /\ (Noted(longer) <=> first.event = "fallback")
  BY <1>2, NoteAnswered
<1>4. Answered(audit_trail') /\ (Noted(audit_trail') <=> entry.event = "fallback")
  BY <1>2, <1>3, NoteAnswered
<1> QED
  BY <1>4 DEF NoteInvariant

(* Every step answers the note before it, or is an exception that leaves   *)
(* one.                                                                    *)
LEMMA NotesInductive ==
  ASSUME TypeOK, NoteInvariant, [Next]_vars
  PROVE  NoteInvariant'
<1>1. \A agent, event : Step(agent, event).event = event
  BY DEF Step
<1>2. Answered(audit_trail) /\ (Noted(audit_trail) => pc \in {"raised", "supervisor"})
  BY DEF NoteInvariant
<1>3. CASE Invoke \/ BackendRaises \/ UNCHANGED vars
  <2>1. /\ audit_trail' = audit_trail
        /\ pc' = pc \/ pc' \in {"raised", "supervisor"}
    BY <1>3 DEF Invoke, BackendRaises, vars, state
  <2> QED
    BY <1>2, <2>1 DEF NoteInvariant
<1>4. CASE RunSupervisor
  BY <1>1, <1>2, <1>4, SupervisorWrites, EntryTypes, OneEntryAnswers DEF RunSupervisor, Answers
<1>5. CASE RunTelemetry
  BY <1>1, <1>2, <1>5, TelemetryWrites, EntryTypes, OneEntryAnswers
     DEF RunTelemetry, Completes
<1>6. CASE RunReasoning
  <2>1. PICK reply \in ReasoningReplies : reasoning_step(reply)
    BY <1>6 DEF RunReasoning, reasoning
  <2>2. \/ audit_trail' = Append(audit_trail, Step("reasoning", "hypothesis"))
        \/ audit_trail' = Append(Append(audit_trail, Step("reasoning", "fallback")),
                                 Step("reasoning", "hypothesis"))
    BY <2>1, ReasoningWrites
  <2>3. ~Noted(audit_trail)
    BY <1>2, <1>6 DEF RunReasoning, Completes
  <2> QED
    BY <1>1, <1>2, <2>2, <2>3, EntryTypes, OneEntryAnswers, TwoEntriesAnswer DEF Answers
<1>7. CASE RunFalsifier
  <2>1. ~Noted(audit_trail)
    BY <1>2, <1>7 DEF RunFalsifier, Completes
  <2>2. CASE falsifier_skip
    BY <1>1, <1>2, <2>1, <2>2, SkipWrites, EntryTypes, OneEntryAnswers
  <2>3. ASSUME NEW reply \in FalsifierReplies, falsifier_review(reply)
        PROVE  NoteInvariant'
    <3>1. PICK verdict \in Verdicts :
            \/ audit_trail' = Append(audit_trail, Step("falsifier", verdict))
            \/ audit_trail' = Append(Append(audit_trail, Step("falsifier", "extension")),
                                     Step("falsifier", verdict))
      BY <2>3, ReviewWrites
    <3>2. verdict # "fallback" /\ Step("falsifier", verdict) \in AgentStep
      BY EntryTypes DEF Verdicts
    <3> QED
      BY <1>1, <1>2, <2>1, <3>1, <3>2, EntryTypes, OneEntryAnswers, TwoEntriesAnswer
  <2> QED
    BY <1>7, <2>2, <2>3 DEF RunFalsifier, falsifier_step
<1>8. CASE RunCounterfactual
  BY <1>1, <1>2, <1>8, CounterfactualWrites, EntryTypes, OneEntryAnswers
     DEF RunCounterfactual, Completes
<1>9. CASE RunAction
  <2>1. PICK event \in {"vetoed", "recommended"} :
          audit_trail' = Append(audit_trail, Step("action", event))
    BY <1>9, ActionWrites DEF RunAction
  <2> QED
    BY <1>1, <1>2, <1>9, <2>1, EntryTypes, OneEntryAnswers DEF RunAction, Completes
<1>10. CASE CorpusRaises
  <2> DEFINE note == Step("reasoning", "fallback")
  <2>1. pc' = "raised" /\ ~Noted(audit_trail)
    BY <1>2, <1>10 DEF CorpusRaises
  <2>2. audit_trail' = audit_trail \/ audit_trail' = Append(audit_trail, note)
    BY <1>10, RaisingWrites DEF CorpusRaises
  <2>3. FollowedBy(audit_trail, note, Append(audit_trail, note))
    BY EntryTypes, Followed DEF TypeOK
  <2> HIDE DEF note
  <2>4. Answered(audit_trail')
    BY <1>2, <2>1, <2>2, <2>3, NoteAnswered
  <2> QED
    BY <2>1, <2>4 DEF NoteInvariant
<1> QED
  BY <1>3, <1>4, <1>5, <1>6, <1>7, <1>8, <1>9, <1>10 DEF Next, Running

(* The trail of a new investigation has no note. *)
LEMMA NotesAtFirst == Init => NoteInvariant
<1> SUFFICES ASSUME Init
             PROVE  NoteInvariant
  OBVIOUS
<1>1. audit_trail = <<Step("system", "opened")>>
  BY DEF Init, new_state
<1>2. DOMAIN audit_trail = {1} /\ Len(audit_trail) = 1 /\ audit_trail[1].event = "opened"
  BY <1>1 DEF Step
<1> QED
  BY <1>2 DEF NoteInvariant, Answered, Noted

(* The trail of the invocation under way names exactly the stages that     *)
(* have completed, in the order of the pipeline, and a note on a fallback  *)
(* has its hypothesis after it unless the stage raised, however many       *)
(* invocations came before and whichever of them raised (agents/graph.py). *)
THEOREM PipelineLeavesTrail == Spec => []TrailFollowsPipeline
<1>1. PassInvariant /\ NoteInvariant => TrailFollowsPipeline
  <2> SUFFICES ASSUME PassInvariant, NoteInvariant
               PROVE  TrailFollowsPipeline
    OBVIOUS
  <2>1. /\ PassEntries = Since(audit_trail)
        /\ PassAgents = Completed(audit_trail)
    BY DEF PassEntries, PassAgents, EntriesOf, At, Since, Completed
  <2>2. \A i \in DOMAIN audit_trail :
          audit_trail[i].event = "fallback" =>
            IF i = Len(audit_trail) THEN pc \in {"raised", "supervisor"}
            ELSE audit_trail[i + 1].event \in {"hypothesis", "routed"}
    BY DEF NoteInvariant, Answered, Noted, Answers
  <2> QED
    BY <2>1, <2>2, Zenon DEF PassInvariant, Pass, InOrder, TrailFollowsPipeline
<1>2. InvestigationInvariant => TypeOK
  BY DEF InvestigationInvariant, StepInvariant
<1> QED
  BY <1>1, <1>2, Invariant, PassAtFirst, PassInductive, NotesAtFirst, NotesInductive, PTL
     DEF Spec

(***************************************************************************)
(* The trail justifies every action let through without a human.           *)
(***************************************************************************)
(* On a trail t: it ends in a hypothesis and, after it, these events; and  *)
(* the action at a place has what it needs between it and a hypothesis.    *)
Ground(t, events) ==
  \E h \in DOMAIN t :
    /\ t[h].event = "hypothesis"
    /\ {t[j].event : j \in (h + 1)..Len(t)} \ {"extension"} = events
Earned(t, i) ==
  \E h \in 1..(i - 1) :
    /\ t[h].event = "hypothesis"
    /\ {t[j].event : j \in (h + 1)..(i - 1)} \ {"extension"} = {"confirmed", "predicted"}

(* A hypothesis is ground. *)
LEMMA GroundStarts ==
  ASSUME NEW t, NEW entry, NEW u, FollowedBy(t, entry, u), entry.event = "hypothesis"
  PROVE  Ground(u, {})
<1> DEFINE n == Len(t)
<1>1. n \in Nat /\ Len(u) = n + 1 /\ u[n + 1] = entry /\ DOMAIN u = 1..(n + 1)
  BY DEF FollowedBy
<1> HIDE DEF n
<1>2. ((n + 1) + 1)..Len(u) = {} /\ n + 1 \in DOMAIN u
  BY <1>1
<1> QED
  BY <1>1, <1>2 DEF Ground

(* What follows adds to it. *)
LEMMA GroundGrows ==
  ASSUME NEW t, NEW entry, NEW u, FollowedBy(t, entry, u), NEW events, Ground(t, events)
  PROVE  Ground(u, events \cup ({entry.event} \ {"extension"}))
<1> DEFINE n == Len(t)
<1>1. /\ n \in Nat /\ Len(u) = n + 1 /\ u[n + 1] = entry
      /\ DOMAIN t = 1..n /\ DOMAIN u = 1..(n + 1)
      /\ \A i \in 1..n : u[i] = t[i]
  BY DEF FollowedBy
<1>2. PICK h \in 1..n : /\ t[h].event = "hypothesis"
                        /\ {t[j].event : j \in (h + 1)..n} \ {"extension"} = events
  BY <1>1 DEF Ground
<1> HIDE DEF n
<1>3. (h + 1)..(n + 1) = ((h + 1)..n) \cup {n + 1}
  BY <1>1
<1>4. \A j \in (h + 1)..n : u[j].event = t[j].event
  BY <1>1
<1>5. {u[j].event : j \in (h + 1)..(n + 1)} = {t[j].event : j \in (h + 1)..n} \cup {entry.event}
  BY <1>1, <1>3, <1>4
<1>6. {u[j].event : j \in (h + 1)..(n + 1)} \ {"extension"}
        = events \cup ({entry.event} \ {"extension"})
  BY <1>2, <1>5
<1>7. h \in DOMAIN u /\ u[h].event = "hypothesis"
  BY <1>1, <1>2
<1> QED
  BY <1>1, <1>6, <1>7 DEF Ground

(* An action after a confirmed review and a prediction has earned it. *)
LEMMA GroundEarns ==
  ASSUME NEW t, NEW entry, NEW u, FollowedBy(t, entry, u),
         Ground(t, {"confirmed", "predicted"})
  PROVE  Earned(u, Len(t) + 1)
<1> DEFINE n == Len(t)
<1>1. n \in Nat /\ DOMAIN t = 1..n /\ \A i \in 1..n : u[i] = t[i]
  BY DEF FollowedBy
<1>2. PICK h \in 1..n :
         /\ t[h].event = "hypothesis"
         /\ {t[j].event : j \in (h + 1)..n} \ {"extension"} = {"confirmed", "predicted"}
  BY <1>1 DEF Ground
<1> HIDE DEF n
<1>3. (n + 1) - 1 = n
  BY <1>1
<1>4. \A j \in (h + 1)..n : u[j].event = t[j].event
  BY <1>1
<1>5. {u[j].event : j \in (h + 1)..n} = {t[j].event : j \in (h + 1)..n}
  BY <1>4
<1>6. u[h].event = "hypothesis"
  BY <1>1, <1>2
<1>7. Earned(u, n + 1)
  BY <1>2, <1>3, <1>5, <1>6 DEF Earned
<1> QED
  BY <1>7 DEF n

(* Later entries take nothing from it. *)
LEMMA EarnedStays ==
  ASSUME NEW t, NEW entry, NEW u, FollowedBy(t, entry, u),
         NEW i \in 1..Len(t), Earned(t, i)
  PROVE  Earned(u, i)
<1>1. Len(t) \in Nat /\ \A j \in 1..Len(t) : u[j] = t[j]
  BY DEF FollowedBy
<1>2. PICK h \in 1..(i - 1) :
         /\ t[h].event = "hypothesis"
         /\ {t[j].event : j \in (h + 1)..(i - 1)} \ {"extension"} = {"confirmed", "predicted"}
  BY DEF Earned
<1>3. u[h].event = "hypothesis" /\ \A j \in (h + 1)..(i - 1) : u[j].event = t[j].event
  BY <1>1, <1>2
<1>4. {u[j].event : j \in (h + 1)..(i - 1)} = {t[j].event : j \in (h + 1)..(i - 1)}
  BY <1>3
<1> QED
  BY <1>2, <1>3, <1>4 DEF Earned

(* Every action that asks for no human has earned it, and so has the last  *)
(* one when the flag is down.                                              *)
Justified(t, actions, flag) ==
  /\ Len(actions) = Cardinality(At(t, "action"))
  /\ \A i \in At(t, "action") :
       ~actions[Cardinality(ActionsTo(t, i))].requires_approval => Earned(t, i)
  /\ ~flag => \E i \in At(t, "action") : Earned(t, i) /\ \A j \in At(t, "action") : j <= i

(* An entry of another agent. *)
LEMMA JustifiedStays ==
  ASSUME NEW t, NEW entry, NEW u, FollowedBy(t, entry, u), entry.agent # "action",
         NEW actions, NEW flag, Justified(t, actions, flag)
  PROVE  Justified(u, actions, flag)
<1>1. At(t, "action") \subseteq 1..Len(t) /\ At(u, "action") = At(t, "action")
  BY ActionPlaces
<1>2. \A i \in 1..Len(t) : ActionsTo(u, i) = ActionsTo(t, i)
  BY ActionsBefore
<1>3. \A i \in At(t, "action") : Earned(t, i) => Earned(u, i)
  BY <1>1, EarnedStays
<1> QED
  BY <1>1, <1>2, <1>3 DEF Justified

(* The entry of an action, and the action. *)
LEMMA JustifiedDecides ==
  ASSUME NEW t, NEW entry, NEW u, FollowedBy(t, entry, u), entry.agent = "action",
         NEW actions, NEW action, NEW longer, FollowedBy(actions, action, longer),
         NEW flag, Justified(t, actions, flag),
         ~action.requires_approval => Earned(u, Len(t) + 1)
  PROVE  Justified(u, longer, action.requires_approval)
<1> DEFINE n == Len(t)
<1>1. /\ n \in Nat /\ At(t, "action") \subseteq 1..n
      /\ At(u, "action") = At(t, "action") \cup {n + 1}
  <2>1. n \in Nat /\ n = Len(t)
    BY DEF FollowedBy
  <2>2. /\ At(t, "action") \subseteq 1..n
        /\ entry.agent = "action" => At(u, "action") = At(t, "action") \cup {n + 1}
    BY ActionPlaces
  <2> QED
    BY <2>1, <2>2, Zenon
<1>2. /\ Len(longer) = Cardinality(At(u, "action"))
      /\ longer[Cardinality(ActionsTo(u, n + 1))] = action
      /\ \A i \in At(t, "action") :
           longer[Cardinality(ActionsTo(u, i))] = actions[Cardinality(ActionsTo(t, i))]
  BY ActionCounted DEF Justified
<1>3. \A i \in At(t, "action") : Earned(t, i) => Earned(u, i)
  BY <1>1, EarnedStays
<1>4. ~action.requires_approval => Earned(u, n + 1)
  OBVIOUS
<1> HIDE DEF n
<1>5. ASSUME NEW i \in At(u, "action"),
             ~longer[Cardinality(ActionsTo(u, i))].requires_approval
      PROVE  Earned(u, i)
  <2>1. CASE i = n + 1
    BY <1>2, <1>4, <1>5, <2>1
  <2>2. CASE i \in At(t, "action")
    BY <1>2, <1>3, <1>5, <2>2 DEF Justified
  <2> QED
    BY <1>1, <1>5, <2>1, <2>2
<1>6. n + 1 \in At(u, "action") /\ \A j \in At(u, "action") : j <= n + 1
  BY <1>1
<1> QED
  BY <1>2, <1>4, <1>5, <1>6 DEF Justified

(* What the trail ends in at each stage, and that it justifies the         *)
(* recommendations.                                                        *)
GroundInvariant ==
  /\ pc = "falsifier" => Ground(audit_trail, {})
  /\ pc = "counterfactual" => Ground(audit_trail, {falsification.verdict})
  /\ pc = "action" => Ground(audit_trail, {falsification.verdict, "predicted"})
EarnedInvariant ==
  /\ GroundInvariant
  /\ Justified(audit_trail, recommended_actions, requires_human_approval)

(* One entry of an agent other than the last, and two.                     *)
LEMMA OneEntryJustified ==
  ASSUME TypeOK, EarnedInvariant, NEW entry \in AgentStep, entry.agent # "action",
         UNCHANGED <<recommended_actions, requires_human_approval>>,
         audit_trail' = Append(audit_trail, entry)
  PROVE  /\ FollowedBy(audit_trail, entry, audit_trail')
         /\ Justified(audit_trail, recommended_actions, requires_human_approval)'
<1>1. FollowedBy(audit_trail, entry, audit_trail')
  BY Followed DEF TypeOK
<1>2. Justified(audit_trail', recommended_actions, requires_human_approval)
  BY <1>1, JustifiedStays DEF EarnedInvariant
<1> QED
  BY <1>1, <1>2

LEMMA TwoEntriesJustified ==
  ASSUME TypeOK, EarnedInvariant,
         NEW first \in AgentStep, first.agent # "action",
         NEW entry \in AgentStep, entry.agent # "action",
         UNCHANGED <<recommended_actions, requires_human_approval>>,
         audit_trail' = Append(Append(audit_trail, first), entry)
  PROVE  /\ FollowedBy(audit_trail, first, Append(audit_trail, first))
         /\ FollowedBy(Append(audit_trail, first), entry, audit_trail')
         /\ Justified(audit_trail, recommended_actions, requires_human_approval)'
<1> DEFINE longer == Append(audit_trail, first)
<1>1. audit_trail \in Seq(AgentStep) /\ longer \in Seq(AgentStep)
  BY AppendProperties DEF TypeOK
<1>2. FollowedBy(audit_trail, first, longer) /\ FollowedBy(longer, entry, audit_trail')
  BY <1>1, Followed
<1> HIDE DEF longer
<1>3. Justified(longer, recommended_actions, requires_human_approval)
  BY <1>2, JustifiedStays DEF EarnedInvariant
<1>4. Justified(audit_trail', recommended_actions, requires_human_approval)
  BY <1>2, <1>3, JustifiedStays
<1> QED
  BY <1>2, <1>4 DEF longer

(* A new hypothesis.                                                       *)
LEMMA ReasoningEarns ==
  ASSUME TypeOK, EarnedInvariant, RunReasoning
  PROVE  EarnedInvariant'
<1> DEFINE formed == Step("reasoning", "hypothesis")
           note   == Step("reasoning", "fallback")
<1>1. /\ formed \in AgentStep /\ formed.agent # "action" /\ formed.event = "hypothesis"
      /\ note \in AgentStep /\ note.agent # "action"
  BY EntryTypes DEF Step
<1>2. pc' = "falsifier"
  BY FollowingIs DEF RunReasoning, Completes
<1>3. UNCHANGED <<recommended_actions, requires_human_approval>>
  BY OthersKeepActions DEF RunReasoning
<1>4. \/ audit_trail' = Append(audit_trail, formed)
      \/ audit_trail' = Append(Append(audit_trail, note), formed)
  BY ReasoningWrites DEF RunReasoning, reasoning
<1> HIDE DEF formed, note
<1>5. /\ \/ FollowedBy(audit_trail, formed, audit_trail')
         \/ FollowedBy(Append(audit_trail, note), formed, audit_trail')
      /\ Justified(audit_trail, recommended_actions, requires_human_approval)'
  BY <1>1, <1>3, <1>4, OneEntryJustified, TwoEntriesJustified
<1>6. Ground(audit_trail', {})
  BY <1>1, <1>5, GroundStarts
<1> QED
  BY <1>2, <1>5, <1>6 DEF EarnedInvariant, GroundInvariant

(* Its review. *)
LEMMA FalsifierEarns ==
  ASSUME TypeOK, StageInvariant, EarnedInvariant, RunFalsifier
  PROVE  EarnedInvariant'
<1>1. pc = "falsifier" /\ pc' = "counterfactual"
  BY FollowingIs DEF RunFalsifier, Completes
<1>2. Ground(audit_trail, {})
  BY <1>1 DEF EarnedInvariant, GroundInvariant
<1>3. causal_hypothesis # None
  BY <1>1 DEF StageInvariant, ReviewedInTurn
<1>4. PICK reply \in FalsifierReplies : falsifier_review(reply)
  BY <1>3 DEF RunFalsifier, falsifier_step, falsifier_skip
<1>5. UNCHANGED <<recommended_actions, requires_human_approval>>
  BY OthersKeepActions DEF RunFalsifier
<1>6. PICK verdict \in Verdicts :
         /\ falsification'.verdict = verdict
         /\ \/ audit_trail' = Append(audit_trail, Step("falsifier", verdict))
            \/ audit_trail' = Append(Append(audit_trail, Step("falsifier", "extension")),
                                     Step("falsifier", verdict))
  BY <1>4, ReviewWrites
<1> DEFINE reviewed == Step("falsifier", verdict)
           note     == Step("falsifier", "extension")
           longer   == Append(audit_trail, note)
<1>7. /\ reviewed \in AgentStep /\ reviewed.agent # "action" /\ reviewed.event = verdict
      /\ note \in AgentStep /\ note.agent # "action" /\ note.event = "extension"
      /\ {verdict} \ {"extension"} = {verdict}
  BY EntryTypes DEF Step, Verdicts
<1>8. audit_trail' = Append(audit_trail, reviewed) \/ audit_trail' = Append(longer, reviewed)
  BY <1>6
<1> HIDE DEF reviewed, note
<1>9. CASE audit_trail' = Append(audit_trail, reviewed)
  <2>1. /\ FollowedBy(audit_trail, reviewed, audit_trail')
        /\ Justified(audit_trail, recommended_actions, requires_human_approval)'
    BY <1>5, <1>7, <1>9, OneEntryJustified
  <2>2. Ground(audit_trail', {} \cup ({verdict} \ {"extension"}))
    BY <1>2, <1>7, <2>1, GroundGrows
  <2>3. Ground(audit_trail', {verdict})
    BY <1>7, <2>2
  <2> QED
    BY <1>1, <1>6, <2>1, <2>3 DEF EarnedInvariant, GroundInvariant
<1>10. CASE audit_trail' = Append(longer, reviewed)
  <2>1. /\ FollowedBy(audit_trail, note, longer) /\ FollowedBy(longer, reviewed, audit_trail')
        /\ Justified(audit_trail, recommended_actions, requires_human_approval)'
    BY <1>5, <1>7, <1>10, TwoEntriesJustified
  <2> HIDE DEF longer
  <2>2. Ground(longer, {} \cup ({"extension"} \ {"extension"}))
    BY <1>2, <1>7, <2>1, GroundGrows
  <2>3. Ground(longer, {})
    BY <2>2
  <2>4. Ground(audit_trail', {} \cup ({verdict} \ {"extension"}))
    BY <1>7, <2>1, <2>3, GroundGrows
  <2>5. Ground(audit_trail', {verdict})
    BY <1>7, <2>4
  <2> QED
    BY <1>1, <1>6, <2>1, <2>5 DEF EarnedInvariant, GroundInvariant
<1> QED
  BY <1>8, <1>9, <1>10

(* Its prediction. *)
LEMMA CounterfactualEarns ==
  ASSUME TypeOK, StageInvariant, EarnedInvariant, RunCounterfactual
  PROVE  EarnedInvariant'
<1> DEFINE predicted == Step("counterfactual", "predicted")
<1>1. pc = "counterfactual" /\ pc' = "action"
  BY FollowingIs DEF RunCounterfactual, Completes
<1>2. Ground(audit_trail, {falsification.verdict})
  BY <1>1 DEF EarnedInvariant, GroundInvariant
<1>3. causal_hypothesis # None
  BY <1>1 DEF StageInvariant, ReviewedInTurn
<1>4. /\ audit_trail' = Append(audit_trail, predicted)
      /\ UNCHANGED <<falsification, recommended_actions, requires_human_approval>>
  BY <1>3 DEF RunCounterfactual, counterfactual_step, counterfactual_skip,
              counterfactual_rule, counterfactual_ask, Predict, Record
<1>5. predicted \in AgentStep /\ predicted.agent # "action" /\ predicted.event = "predicted"
  BY EntryTypes DEF Step
<1> HIDE DEF predicted
<1>6. /\ FollowedBy(audit_trail, predicted, audit_trail')
      /\ Justified(audit_trail, recommended_actions, requires_human_approval)'
  BY <1>4, <1>5, OneEntryJustified
<1>7. Ground(audit_trail', {falsification.verdict} \cup ({"predicted"} \ {"extension"}))
  BY <1>2, <1>5, <1>6, GroundGrows
<1>8. {falsification.verdict} \cup ({"predicted"} \ {"extension"})
        = {falsification.verdict, "predicted"}
  OBVIOUS
<1>9. Ground(audit_trail', {falsification.verdict, "predicted"})
  BY <1>7, <1>8
<1> QED
  BY <1>1, <1>4, <1>6, <1>9 DEF EarnedInvariant, GroundInvariant

(* The action: it asks for no human on a confirmed verdict only. *)
LEMMA ActionEarns ==
  ASSUME TypeOK, EarnedInvariant, RunAction
  PROVE  EarnedInvariant'
<1>1. pc = "action" /\ pc' = "returned"
  BY FollowingIs DEF RunAction, Completes
<1>2. Ground(audit_trail, {falsification.verdict, "predicted"})
  BY <1>1 DEF EarnedInvariant, GroundInvariant
<1>3. PICK action \in Action :
         /\ recommended_actions' = Append(recommended_actions, action)
         /\ requires_human_approval' = action.requires_approval
         /\ ~action.requires_approval => Autonomous
  BY ActionEffect DEF RunAction
<1>4. PICK event \in {"vetoed", "recommended"} :
         audit_trail' = Append(audit_trail, Step("action", event))
  BY ActionWrites DEF RunAction
<1> DEFINE entry == Step("action", event)
<1>5. entry \in AgentStep /\ entry.agent = "action"
  BY EntryTypes DEF Step
<1>6. FollowedBy(audit_trail, entry, audit_trail')
  BY <1>4, <1>5, Followed DEF TypeOK
<1>7. FollowedBy(recommended_actions, action, recommended_actions')
  BY <1>3, Followed DEF TypeOK
<1> HIDE DEF entry
<1>8. ASSUME ~action.requires_approval
      PROVE  Earned(audit_trail', Len(audit_trail) + 1)
  <2>1. falsification.verdict = "confirmed"
    BY <1>3, <1>8 DEF Autonomous
  <2>2. Ground(audit_trail, {"confirmed", "predicted"})
    BY <1>2, <2>1
  <2> QED
    BY <1>6, <2>2, GroundEarns
<1>9. Justified(audit_trail, recommended_actions, requires_human_approval)
  BY DEF EarnedInvariant
<1>10. Justified(audit_trail', recommended_actions', action.requires_approval)
  BY <1>5, <1>6, <1>7, <1>8, <1>9, JustifiedDecides
<1>11. Justified(audit_trail, recommended_actions, requires_human_approval)'
  BY <1>3, <1>10
<1> QED
  BY <1>1, <1>11 DEF EarnedInvariant, GroundInvariant

(* Every step of an investigation keeps its actions justified. *)
LEMMA EarnedInductive ==
  ASSUME TypeOK, StageInvariant, EarnedInvariant, [Next]_vars
  PROVE  EarnedInvariant'
<1>1. \A agent, event : Step(agent, event).agent = agent
  BY DEF Step
<1>2. CASE Invoke \/ BackendRaises
  <2>1. /\ UNCHANGED <<audit_trail, recommended_actions, requires_human_approval>>
        /\ pc' \in {"supervisor", "raised"}
    BY <1>2 DEF Invoke, BackendRaises, state
  <2> QED
    BY <2>1 DEF EarnedInvariant, GroundInvariant, Justified
<1>3. CASE UNCHANGED vars
  <2>1. UNCHANGED <<audit_trail, recommended_actions, requires_human_approval, pc,
                    falsification>>
    BY <1>3 DEF vars, state
  <2> QED
    BY <2>1 DEF EarnedInvariant, GroundInvariant, Justified
<1>4. CASE RunSupervisor
  <2>1. /\ pc' = "telemetry"
        /\ UNCHANGED <<recommended_actions, requires_human_approval>>
    BY <1>4, FollowingIs, OthersKeepActions DEF RunSupervisor, Completes
  <2>2. Justified(audit_trail, recommended_actions, requires_human_approval)'
    BY <1>1, <1>4, <2>1, SupervisorWrites, EntryTypes, OneEntryJustified DEF RunSupervisor
  <2> QED
    BY <2>1, <2>2 DEF EarnedInvariant, GroundInvariant
<1>5. CASE RunTelemetry
  <2>1. /\ pc' = "reasoning"
        /\ UNCHANGED <<recommended_actions, requires_human_approval>>
    BY <1>5, FollowingIs, OthersKeepActions DEF RunTelemetry, Completes
  <2>2. Justified(audit_trail, recommended_actions, requires_human_approval)'
    BY <1>1, <1>5, <2>1, TelemetryWrites, EntryTypes, OneEntryJustified DEF RunTelemetry
  <2> QED
    BY <2>1, <2>2 DEF EarnedInvariant, GroundInvariant
<1>6. CASE CorpusRaises
  <2>1. pc' = "raised"
    BY <1>6 DEF CorpusRaises
  <2>2. UNCHANGED <<recommended_actions, requires_human_approval>>
    BY <1>6 DEF CorpusRaises, corpus_raises, reasoning_raises
  <2>3. \/ audit_trail' = audit_trail
        \/ audit_trail' = Append(audit_trail, Step("reasoning", "fallback"))
    BY <1>6, RaisingWrites DEF CorpusRaises
  <2>4. Justified(audit_trail, recommended_actions, requires_human_approval)'
    <3>1. CASE audit_trail' = audit_trail
      BY <2>2, <3>1 DEF EarnedInvariant, Justified
    <3>2. CASE audit_trail' = Append(audit_trail, Step("reasoning", "fallback"))
      BY <1>1, <2>2, <3>2, EntryTypes, OneEntryJustified
    <3> QED
      BY <2>3, <3>1, <3>2
  <2> QED
    BY <2>1, <2>4 DEF EarnedInvariant, GroundInvariant
<1> QED
  BY <1>2, <1>3, <1>4, <1>5, <1>6, ReasoningEarns, FalsifierEarns, CounterfactualEarns,
     ActionEarns DEF Next, Running

(* A new investigation has recommended nothing, and asks for a human. *)
LEMMA EarnedAtFirst == Init => EarnedInvariant
<1> SUFFICES ASSUME Init
             PROVE  EarnedInvariant
  OBVIOUS
<1>1. /\ pc = "fresh" /\ recommended_actions = <<>> /\ requires_human_approval = TRUE
      /\ audit_trail = <<Step("system", "opened")>>
  BY DEF Init, new_state
<1>2. At(audit_trail, "action") = {}
  BY <1>1 DEF At, Step
<1>3. Len(recommended_actions) = Cardinality(At(audit_trail, "action"))
  BY <1>1, <1>2, FS_EmptySet
<1> QED
  BY <1>1, <1>2, <1>3 DEF EarnedInvariant, GroundInvariant, Justified

(* An action let through without a human, in this invocation or an earlier *)
(* one, had a confirmed review and a prediction of the hypothesis before   *)
(* it on the trail, and nothing else between them (agents/action.py        *)
(* against what invocations that raised leave in the dict).                *)
THEOREM PipelineEarnsAutonomy == Spec => []UnattendedOnTrail
<1>1. EarnedInvariant => UnattendedOnTrail
  <2> SUFFICES ASSUME EarnedInvariant
               PROVE  UnattendedOnTrail
    OBVIOUS
  <2>1. EntriesOf("action") = At(audit_trail, "action")
    BY DEF EntriesOf, At
  <2>2. \A i : Earned(audit_trail, i) => EarnedAt(i)
    BY Zenon DEF Earned, EarnedAt, EventsBetween
  <2>3. \A i : RecommendedAt(i) = recommended_actions[Cardinality(ActionsTo(audit_trail, i))]
    BY <2>1, Zenon DEF RecommendedAt, ActionsTo
  <2> QED
    BY <2>1, <2>2, <2>3, Zenon DEF EarnedInvariant, Justified, UnattendedOnTrail
<1>2. InvestigationInvariant /\ StageInvariant => TypeOK /\ StageInvariant
  BY DEF InvestigationInvariant, StepInvariant
<1> QED
  BY <1>1, <1>2, Staged, EarnedAtFirst, EarnedInductive, PTL DEF Spec
=============================================================================
