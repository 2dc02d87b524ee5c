---------------------------- MODULE Orchestrators ----------------------------
(***************************************************************************)
(* build_investigation_graph (agents/graph.py) picks one of two            *)
(* orchestrators by whether langgraph can be imported.  Here both run side *)
(* by side on the same alert, with the same replies and exceptions: the    *)
(* pure-Python one of Investigation on its dict, and a compiled LangGraph  *)
(* on another.                                                             *)
(*                                                                         *)
(* LangGraph is a library: what is said of it is how this code uses it.    *)
(* invoke gives every node a dict of its own, with the values the node     *)
(* before returned, and returns the last one.  The caller's dict is not    *)
(* assigned to, but the lists in it are shared and appended to in place.   *)
(* The graph is one that builds: build_investigation_graph names a node    *)
(* "counterfactual", like a key of the state, and a release of langgraph   *)
(* may refuse that in add_node, before there is anything to invoke.        *)
(***************************************************************************)
EXTENDS Investigation

VARIABLES
  l_trigger, l_routed_to, l_budget, l_telemetry_findings, l_causal_hypothesis,
  l_falsification, l_counterfactual, l_recommended_actions, l_confidence_score,
  l_audit_trail, l_requires_human_approval, l_revision,
  held              \* the caller's dict, less the lists it shares

Lang ==
  INSTANCE Agents WITH
    trigger <- l_trigger, routed_to <- l_routed_to, budget <- l_budget,
    telemetry_findings <- l_telemetry_findings,
    causal_hypothesis <- l_causal_hypothesis, falsification <- l_falsification,
    counterfactual <- l_counterfactual,
    recommended_actions <- l_recommended_actions,
    confidence_score <- l_confidence_score, audit_trail <- l_audit_trail,
    requires_human_approval <- l_requires_human_approval, revision <- l_revision

langState ==
  <<l_trigger, l_routed_to, l_budget, l_telemetry_findings, l_causal_hypothesis,
    l_falsification, l_counterfactual, l_recommended_actions, l_confidence_score,
    l_audit_trail, l_requires_human_approval, l_revision>>

bothVars == <<vars, langState, held>>

(* The keys a step assigns a new value to. *)
Assigned ==
  [routed_to |-> l_routed_to, budget |-> l_budget,
   causal_hypothesis |-> l_causal_hypothesis, falsification |-> l_falsification,
   counterfactual |-> l_counterfactual, confidence_score |-> l_confidence_score,
   requires_human_approval |-> l_requires_human_approval]

BothInit ==
  /\ \E t \in Triggers : new_state(t) /\ Lang!new_state(t)
  /\ pc = "fresh"
  /\ invocations = 0
  /\ held = Assigned

(***************************************************************************)
(* The caller invokes again: on what invoke returned, or on the dict it    *)
(* passed before, which is all it has after an exception.                  *)
(***************************************************************************)
GoOn == held' = Assigned /\ UNCHANGED langState

StartOver ==
  /\ l_routed_to' = held.routed_to
  /\ l_budget' = held.budget
  /\ l_causal_hypothesis' = held.causal_hypothesis
  /\ l_falsification' = held.falsification
  /\ l_counterfactual' = held.counterfactual
  /\ l_confidence_score' = held.confidence_score
  /\ l_requires_human_approval' = held.requires_human_approval
  /\ UNCHANGED <<l_trigger, l_telemetry_findings, l_recommended_actions,
                 l_audit_trail, l_revision, held>>

(* Mutated form: an exception leaves the caller with the dict of the node. *)
InvokeBothPartly == Invoke /\ (GoOn \/ (pc = "returned" /\ StartOver))

InvokeBoth ==
  /\ Invoke
  /\ \/ pc # "raised" /\ GoOn
     \/ pc # "fresh" /\ StartOver

(***************************************************************************)
(* A stage of both.  None is skipped, as reasoning comes before the two    *)
(* that may be.                                                            *)
(***************************************************************************)
BothRunning ==
  /\ \/ RunSupervisor /\ Lang!supervisor_step
     \/ RunTelemetry /\ Lang!telemetry_step
     \/ /\ Completes("reasoning")
        /\ \E r \in ReasoningReplies : reasoning_step(r) /\ Lang!reasoning_step(r)
     \/ /\ Completes("falsifier")
        /\ \E r \in FalsifierReplies : falsifier_review(r) /\ Lang!falsifier_review(r)
     \/ RunCounterfactual /\ counterfactual_rule /\ Lang!counterfactual_rule
     \/ /\ Completes("counterfactual")
        /\ \E r \in PredictionReplies : counterfactual_ask(r) /\ Lang!counterfactual_ask(r)
     \/ RunAction /\ Lang!action_step
     \/ /\ BackendRaises
        /\ pc = "counterfactual" => ~Lang!HasRule
        /\ UNCHANGED langState
     \/ /\ pc = "reasoning" /\ pc' = "raised"
        /\ \E r \in ReasoningReplies : reasoning_raises(r) /\ Lang!reasoning_raises(r)
        /\ UNCHANGED invocations
  /\ UNCHANGED held

BothNext == InvokeBoth \/ BothRunning

BothSpec == BothInit /\ [][BothNext]_bothVars /\ WF_bothVars(BothRunning)

(***************************************************************************)
(* Properties.                                                             *)
(***************************************************************************)

(* docs/architecture.md:72, "Both produce identical final state": when an  *)
(* invocation returns, the two dicts agree in every key, whatever earlier  *)
(* invocations raised and whichever dict the LangGraph caller went on      *)
(* with.  In between they differ.                                          *)
SameResult == pc = "returned" => state = langState

(* What a caller of LangGraph holds is the conclusion of one invocation or *)
(* of none, though an invocation may stop after any stage: verdict,        *)
(* prediction, score and approval flag are those of its hypothesis.        *)
HeldIsWhole ==
  LET h == held.causal_hypothesis
  IN  IF h = None
      THEN held.falsification = None /\ held.counterfactual = None
           /\ held.requires_human_approval
      ELSE /\ held.falsification # None /\ held.falsification.of = h.revision
           /\ held.counterfactual # None /\ held.counterfactual.of = h.revision
           /\ held.confidence_score = h.confidence.final
           /\ \E i \in DOMAIN l_recommended_actions :
                /\ l_recommended_actions[i].of = h.revision
                /\ l_recommended_actions[i].requires_approval
                     = held.requires_human_approval

(* The two never disagree on how a stage goes: while one is under way some *)
(* step of both is possible, so that the invocation ends for both.         *)
BothEnd == pc \in Stages ~> pc \in Endings
=============================================================================
