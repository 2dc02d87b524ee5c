---------------------------- MODULE Investigation ----------------------------
(***************************************************************************)
(* run_investigation (agents/graph.py): the six steps in pipeline order on *)
(* one state, as the pure-Python orchestrator runs them.  An exception of  *)
(* the model backend, or of the corpus loader, propagates out of invoke    *)
(* and leaves the state as it is then; the caller may invoke again on that *)
(* state, or on the state a finished invocation returned.                  *)
(***************************************************************************)
EXTENDS Agents

CONSTANTS
  Triggers,         \* alerts an investigation may be opened for
  MaxInvocations    \* bound on the calls of invoke

ASSUME InvestigationAssumption ==
  /\ Triggers \subseteq Trigger
  /\ MaxInvocations \in Nat

VARIABLES
  pc,               \* the stage about to run, or how the last invocation ended
  invocations       \* calls of invoke so far

vars == <<state, pc, invocations>>

Pipeline ==
  <<"supervisor", "telemetry", "reasoning", "falsifier", "counterfactual", "action">>
Stages == {Pipeline[i] : i \in DOMAIN Pipeline}
Endings == {"fresh", "returned", "raised"}

Position(stage) == CHOOSE i \in DOMAIN Pipeline : Pipeline[i] = stage
(* Mutated form: the falsifier left out of the pipeline. *)
FollowingUnreviewed(stage) ==
  CASE stage = "action"    -> "returned"
    [] stage = "reasoning" -> "counterfactual"
    [] OTHER               -> Pipeline[Position(stage) + 1]

Following(stage) ==
  IF stage = "action" THEN "returned" ELSE Pipeline[Position(stage) + 1]

Init ==
  /\ \E t \in Triggers : new_state(t)
  /\ pc = "fresh"
  /\ invocations = 0

(* The caller. *)
Invoke ==
  /\ pc \in Endings
  /\ invocations < MaxInvocations
  /\ pc' = "supervisor"
  /\ invocations' = invocations + 1
  /\ UNCHANGED state

(* The orchestrator. *)
Completes(stage) ==
  /\ pc = stage
  /\ pc' = Following(stage)
  /\ UNCHANGED invocations

RunSupervisor == Completes("supervisor") /\ supervisor_step
RunTelemetry == Completes("telemetry") /\ telemetry_step
RunReasoning == Completes("reasoning") /\ reasoning
RunFalsifier == Completes("falsifier") /\ falsifier_step
RunCounterfactual == Completes("counterfactual") /\ counterfactual_step
RunAction == Completes("action") /\ action_step

(* backend.complete raises; every step calls it before it changes anything. *)
CallsBackend ==
  \/ pc = "reasoning"
  \/ pc = "falsifier" /\ causal_hypothesis # None
  \/ pc = "counterfactual" /\ causal_hypothesis # None /\ ~HasRule

(* Mutated form: the exception swallowed and the pipeline continued. *)
BackendSkips ==
  /\ CallsBackend
  /\ pc' = Following(pc)
  /\ UNCHANGED <<state, invocations>>

(* Mutated form: a prediction that fails left out and the action drafted. *)
PredictionSkips ==
  /\ CallsBackend
  /\ pc' = IF pc = "counterfactual" THEN Following(pc) ELSE "raised"
  /\ UNCHANGED <<state, invocations>>

BackendRaises ==
  /\ CallsBackend
  /\ pc' = "raised"
  /\ UNCHANGED <<state, invocations>>

(* The corpus cannot be loaded. *)
CorpusRaises ==
  /\ pc = "reasoning"
  /\ corpus_raises
  /\ pc' = "raised"
  /\ UNCHANGED invocations

Running ==
  \/ RunSupervisor
  \/ RunTelemetry
  \/ RunReasoning
  \/ RunFalsifier
  \/ RunCounterfactual
  \/ RunAction
  \/ BackendRaises
  \/ CorpusRaises

Next == Invoke \/ Running

Spec == Init /\ [][Next]_vars

(***************************************************************************)
(* Properties of the pipeline.                                             *)
(***************************************************************************)
InvestigationTypeOK ==
  /\ TypeOK
  /\ pc \in Stages \cup Endings
  /\ invocations \in 0..MaxInvocations

(* The pipeline never holds a hypothesis without a claim, whatever the     *)
(* reply was: evidence is always collected before the reasoning agent.     *)
HypothesisGrounded ==
  /\ ClaimsGrounded
  /\ causal_hypothesis # None => causal_hypothesis.claims # {}

(* The trail of the invocation under way names exactly the stages that     *)
(* have completed, in pipeline order; all six when it returns              *)
(* (tests/test_end_to_end.py), and a proper prefix when it raised.  The    *)
(* note on a fallback does not count, as its stage may still raise: it did *)
(* if no hypothesis follows the note, but the end of the trail or the      *)
(* supervisor of the next invocation.                                      *)
PassEntries ==
  {i \in DOMAIN audit_trail :
     \E j \in EntriesOf("supervisor") :
       j <= i /\ \A k \in EntriesOf("supervisor") : k <= j}
PassAgents ==
  {audit_trail[i].agent : i \in {j \in PassEntries : audit_trail[j].event # "fallback"}}
StagesBefore(stage) == {Pipeline[i] : i \in 1..(Position(stage) - 1)}

TrailFollowsPipeline ==
  /\ \A i, j \in PassEntries :
       i <= j => Position(audit_trail[i].agent) <= Position(audit_trail[j].agent)
  /\ pc \in Stages \ {"supervisor"} => PassAgents = StagesBefore(pc)
  /\ pc = "returned" => PassAgents = Stages
  /\ pc = "raised" =>
       \E s \in {"reasoning", "falsifier", "counterfactual"} : PassAgents = StagesBefore(s)
  /\ \A i \in DOMAIN audit_trail :
       audit_trail[i].event = "fallback" =>
         IF i = Len(audit_trail) THEN pc \in {"raised", "supervisor"}
         ELSE audit_trail[i + 1].event \in {"hypothesis", "routed"}

(* What an invocation returns is about one hypothesis: verdict, prediction *)
(* and last action are of the current one even when earlier invocations    *)
(* raised half-way, a refuted one is escalated, and exactly one action was *)
(* recommended for it.                                                     *)
ReturnedStateIsCoherent ==
  pc = "returned" =>
    /\ Reviewed
    /\ counterfactual # None /\ counterfactual.of = revision
    /\ recommended_actions # <<>>
    /\ LET last == recommended_actions[Len(recommended_actions)]
       IN  /\ last.of = revision
           /\ Refuted <=> last.description = REFUTED_ACTION.description
    /\ Cardinality({i \in DOMAIN recommended_actions :
                      recommended_actions[i].of = revision}) = 1

(* An action let through without a human is a low-risk one, on a confirmed *)
(* verdict, a confident prediction and a confidence at the floor, all of   *)
(* the hypothesis the state returns.                                       *)
AutonomyJustified ==
  pc = "returned" /\ ~requires_human_approval =>
    /\ recommended_actions[Len(recommended_actions)].risk_level = "low"
    /\ Reviewed /\ falsification.verdict = "confirmed"
    /\ counterfactual.of = revision
    /\ counterfactual.prediction_confidence >= 700
    /\ causal_hypothesis.confidence.final >= 9500

(* The trail alone justifies each action ever let through without a human, *)
(* those of invocations later ones have overwritten included: between the  *)
(* hypothesis before it and the action there is a confirmed review and a   *)
(* prediction and nothing else, so that neither a verdict nor a prediction *)
(* an earlier invocation left in the dict has let it through.  When the    *)
(* flag is down, the last action is such a one, whatever verdict stands    *)
(* beside the flag.                                                        *)
RecommendedAt(i) ==
  recommended_actions[Cardinality({j \in EntriesOf("action") : j <= i})]
EventsBetween(h, i) == {audit_trail[j].event : j \in (h + 1)..(i - 1)}
EarnedAt(i) ==
  \E h \in 1..(i - 1) :
    /\ audit_trail[h].event = "hypothesis"
    /\ EventsBetween(h, i) \ {"extension"} = {"confirmed", "predicted"}

UnattendedOnTrail ==
  /\ \A i \in EntriesOf("action") : ~RecommendedAt(i).requires_approval => EarnedAt(i)
  /\ ~requires_human_approval =>
       \E i \in EntriesOf("action") : EarnedAt(i) /\ \A j \in EntriesOf("action") : j <= i

(* The pipeline implements the review gate. *)
Gate ==
  INSTANCE ReviewGate WITH
    proposed  <- revision,
    review    <- IF Reviewed THEN falsification.verdict ELSE "none",
    decisions <- [i \in DOMAIN recommended_actions |->
                    [of          |-> recommended_actions[i].of,
                     escalated   |-> recommended_actions[i].description
                                       = REFUTED_ACTION.description,
                     needs_human |-> recommended_actions[i].requires_approval]]
ImplementsGate == Gate!Spec

(***************************************************************************)
(* What documents and comments of the repository say, and the code does    *)
(* not do.                                                                 *)
(***************************************************************************)

(* agents/falsifier.py:13-15: "confirmed" is no contradicting evidence     *)
(* found, "contested" is contradicted by info findings only, "refuted" by  *)
(* a warning or critical finding.                                          *)
SeverityOf(i) ==
  IF i \in FindingIds THEN telemetry_findings[i + 1].severity ELSE "info"
VerdictFollowsEvidence ==
  Reviewed =>
    LET cited == {SeverityOf(c.finding) : c \in falsification.contested_claim_indices}
    IN  CASE falsification.verdict = "confirmed" -> falsification.contradictions = {}
          [] falsification.verdict = "contested" -> cited \subseteq {"info"}
          [] falsification.verdict = "refuted"   -> ~(cited \subseteq {"info"})

(* agents/state.py:123-126: the approver sees the prediction alongside the *)
(* proposed action, to know what will happen if they approve it.           *)
PredictionConcernsRecommendation ==
  pc = "returned" =>
    counterfactual.action_description
      = recommended_actions[Len(recommended_actions)].description
=============================================================================
