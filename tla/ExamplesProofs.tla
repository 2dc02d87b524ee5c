---------------------------- MODULE ExamplesProofs ----------------------------
(***************************************************************************)
(* The examples: their pipeline is one of Investigation's, whichever row   *)
(* of the canned tables its prompts select, and the synthetic example      *)
(* reports all of what it concluded.                                       *)
(***************************************************************************)
EXTENDS Examples, InvestigationProofs

(***************************************************************************)
(* The canned replies are replies.                                         *)
(***************************************************************************)
LEMMA RowIsRow ==
  ASSUME NEW table, DOMAIN table \subseteq Nat, NEW fallback, NEW prompt
  PROVE  Row(table, fallback, prompt) \in RowsOf(table, fallback)
<1>1. Hits(table, prompt) \subseteq DOMAIN table
  BY DEF Hits
<1>2. CASE Hits(table, prompt) = {}
  BY <1>2 DEF Row, RowsOf
<1>3. CASE Hits(table, prompt) # {}
  <2>1. \E i \in Hits(table, prompt) : \A j \in Hits(table, prompt) : i <= j
    BY <1>1, <1>3, LeastElement
  <2> QED
    BY <1>1, <1>3, <2>1 DEF Row, RowsOf
<1> QED
  BY <1>2, <1>3

LEMMA TableDomains ==
  /\ DOMAIN REASONING_RESPONSES \subseteq Nat
  /\ DOMAIN FALSIFIER_RESPONSES \subseteq Nat
  /\ DOMAIN COUNTERFACTUAL_RESPONSES \subseteq Nat
<1>1. DOMAIN REASONING_RESPONSES = 1..8
  BY DEF REASONING_RESPONSES
<1>2. DOMAIN FALSIFIER_RESPONSES = 1..8
  BY DEF FALSIFIER_RESPONSES
<1>3. DOMAIN COUNTERFACTUAL_RESPONSES = 1..8
  BY DEF COUNTERFACTUAL_RESPONSES
<1> QED
  BY <1>1, <1>2, <1>3

LEMMA CannedReplies ==
  ASSUME NEW prompt
  PROVE  /\ ReadHypothesis(Row(REASONING_RESPONSES, REASONING_FALLBACK, prompt))
              \in ReasoningReplies
         /\ ReadReview(Row(FALSIFIER_RESPONSES, FALSIFIER_FALLBACK, prompt))
              \in FalsifierReplies
         /\ ReadPrediction(Row(COUNTERFACTUAL_RESPONSES, COUNTERFACTUAL_FALLBACK, prompt))
              \in PredictionReplies
         /\ NoPrediction \in PredictionReplies
<1>1. /\ Row(REASONING_RESPONSES, REASONING_FALLBACK, prompt)
           \in RowsOf(REASONING_RESPONSES, REASONING_FALLBACK)
      /\ Row(FALSIFIER_RESPONSES, FALSIFIER_FALLBACK, prompt)
           \in RowsOf(FALSIFIER_RESPONSES, FALSIFIER_FALLBACK)
      /\ Row(COUNTERFACTUAL_RESPONSES, COUNTERFACTUAL_FALLBACK, prompt)
           \in RowsOf(COUNTERFACTUAL_RESPONSES, COUNTERFACTUAL_FALLBACK)
  BY TableDomains, RowIsRow, Zenon
<1>2. ReadHypothesis(Row(REASONING_RESPONSES, REASONING_FALLBACK, prompt))
        \in CannedReasoningReplies
  BY <1>1, Zenon DEF CannedReasoningReplies
<1>3. ReadReview(Row(FALSIFIER_RESPONSES, FALSIFIER_FALLBACK, prompt))
        \in CannedFalsifierReplies
  BY <1>1, Zenon DEF CannedFalsifierReplies
<1>4. /\ ReadPrediction(Row(COUNTERFACTUAL_RESPONSES, COUNTERFACTUAL_FALLBACK, prompt))
           \in CannedPredictionReplies
      /\ NoPrediction \in CannedPredictionReplies
  BY <1>1, Zenon DEF CannedPredictionReplies
<1> QED
  BY <1>2, <1>3, <1>4, CannedAssumption, Zenon

(***************************************************************************)
(* Every step of an example is one of the pipeline, or leaves it alone.    *)
(***************************************************************************)
LEMMA CannedSteps ==
  /\ CannedReasoning => RunReasoning
  /\ CannedFalsifier => RunFalsifier
  /\ CannedCounterfactual => RunCounterfactual
<1>1. \A findings : fake_reasoning(findings) => reasoning
  BY CannedReplies, Zenon DEF fake_reasoning, reasoning
<1>2. \A findings : fake_falsifier(findings) => falsifier_step
  BY CannedReplies, Zenon DEF fake_falsifier, falsifier_step
<1>3. fake_counterfactual => counterfactual_step
  <2> SUFFICES ASSUME fake_counterfactual
               PROVE  counterfactual_step
    OBVIOUS
  <2> DEFINE read  == ReadPrediction(Row(COUNTERFACTUAL_RESPONSES, COUNTERFACTUAL_FALLBACK,
                                         prediction_prompt))
             reply == IF Route(prediction_prompt) = "counterfactual" THEN read
                      ELSE NoPrediction
  <2>1. counterfactual_ask(reply)
    BY Zenon DEF fake_counterfactual
  <2>2. read \in PredictionReplies /\ NoPrediction \in PredictionReplies
    BY CannedReplies, Zenon
  <2> HIDE DEF read
  <2>3. reply \in PredictionReplies
    BY <2>2
  <2> HIDE DEF reply
  <2> QED
    BY <2>1, <2>3, Zenon DEF counterfactual_step
<1>4. counterfactual_rule => counterfactual_step
  BY Zenon DEF counterfactual_step
<1> QED
  BY <1>1, <1>2, <1>3, <1>4, Zenon
     DEF CannedReasoning, CannedFalsifier, CannedCounterfactual, RunReasoning, RunFalsifier,
         RunCounterfactual

LEMMA PipelineSteps == [ExampleNext]_exampleVars => [Next]_vars
<1>1. RunPipeline => Next
  BY CannedSteps, Zenon DEF RunPipeline, Next, Running
<1>2. StartReport \/ PrintSection \/ EndReport => UNCHANGED vars
  BY DEF StartReport, PrintSection, EndReport
<1>3. UNCHANGED exampleVars => UNCHANGED vars
  BY DEF exampleVars
<1> QED
  BY <1>1, <1>2, <1>3, Zenon DEF ExampleNext

(***************************************************************************)
(* The report of the synthetic example.                                    *)
(***************************************************************************)
(* Its sections. *)
LEMMA SyntheticSections ==
  /\ Len(SyntheticReport) = 7
  /\ SyntheticReport[1].key = "budget"
  /\ SyntheticReport[2].key = "telemetry_findings"
  /\ SyntheticReport[3].key = "causal_hypothesis"
  /\ SyntheticReport[4].key = "falsification"
  /\ SyntheticReport[5].key = "counterfactual"
  /\ SyntheticReport[6].key = "recommended_actions"
  /\ SyntheticReport[7].key = "audit_trail"
BY DEF SyntheticReport, Section, BudgetRead, FindingsRead

(* Each attribute it reads is one of the dataclass. *)
LEMMA SyntheticReads ==
  \A i \in 1..7 : \A read \in SyntheticReport[i].reads : read[2] \in Fields[read[1]]
<1>1. \A read \in SyntheticReport[1].reads : read[2] \in Fields[read[1]]
  BY DEF SyntheticReport, Section, BudgetRead, Fields
<1>2. \A read \in SyntheticReport[2].reads : read[2] \in Fields[read[1]]
  BY DEF SyntheticReport, Section, FindingsRead, Fields
<1>3. \A read \in SyntheticReport[3].reads : read[2] \in Fields[read[1]]
  BY DEF SyntheticReport, Section, ConfidenceRead, Fields
<1>4. \A read \in SyntheticReport[4].reads : read[2] \in Fields[read[1]]
  BY DEF SyntheticReport, Section, Fields
<1>5. \A read \in SyntheticReport[5].reads : read[2] \in Fields[read[1]]
  BY DEF SyntheticReport, Section, Fields
<1>6. \A read \in SyntheticReport[6].reads : read[2] \in Fields[read[1]]
  BY DEF SyntheticReport, Section, Fields
<1>7. \A read \in SyntheticReport[7].reads : read[2] \in Fields[read[1]]
  BY DEF SyntheticReport, Section, Fields
<1> QED
  BY <1>1, <1>2, <1>3, <1>4, <1>5, <1>6, <1>7

(* The report so far: every section passed is printed under its key.       *)
ReportKeys == {SyntheticReport[i].key : i \in 1..7}
Shown ==
  /\ Len(printed) \in 0..7
  /\ DOMAIN printed = 1..Len(printed)
  /\ \A i \in 1..Len(printed) : printed[i] = SyntheticReport[i].key
ReportInvariant ==
  /\ report \in {"none", "printing", "done"}
  /\ report = "none" => printed = <<>>
  /\ report # "none" => pc = "returned" /\ Shown
  /\ report = "done" => Len(printed) = 7
ExampleInvariant ==
  /\ InvestigationInvariant
  /\ StageInvariant
  /\ printed \in Seq(ReportKeys)
  /\ ReportInvariant

(* An investigation that has returned has something under every key. *)
LEMMA AllPresent ==
  ASSUME StageInvariant, pc = "returned", NEW i \in 1..7
  PROVE  Present(SyntheticReport[i].key)
<1>1. /\ telemetry_findings # <<>> /\ causal_hypothesis # None /\ falsification # None
      /\ counterfactual # None /\ recommended_actions # <<>>
  BY DEF StageInvariant, EvidenceFirst, ReviewedInTurn, Reviewed, ReturnedStateIsCoherent
<1>2. /\ Present("budget") /\ Present("telemetry_findings") /\ Present("causal_hypothesis")
      /\ Present("falsification") /\ Present("counterfactual")
      /\ Present("recommended_actions") /\ Present("audit_trail")
  BY <1>1 DEF Present
<1>3. i = 1 \/ i = 2 \/ i = 3 \/ i = 4 \/ i = 5 \/ i = 6 \/ i = 7
  OBVIOUS
<1> QED
  BY <1>2, <1>3, SyntheticSections

LEMMA ExampleInductive ==
  ASSUME Script = "synthetic"
  PROVE  /\ ExampleInit => ExampleInvariant
         /\ ExampleInvariant /\ [ExampleNext]_exampleVars => ExampleInvariant'
<1>1. ASSUME ExampleInit
      PROVE  ExampleInvariant
  <2>1. Init /\ printed = <<>> /\ report = "none"
    BY <1>1 DEF ExampleInit
  <2>2. InvestigationInvariant /\ StageInvariant
    BY <2>1, InvestigationInductive, StagesAtFirst
  <2> QED
    BY <2>1, <2>2 DEF ExampleInvariant, ReportInvariant
<1>2. ASSUME ExampleInvariant, [ExampleNext]_exampleVars
      PROVE  ExampleInvariant'
  <2>1. (InvestigationInvariant /\ StageInvariant)'
    BY <1>2, PipelineSteps, InvestigationInductive, StagesInductive DEF ExampleInvariant
  <2>2. /\ StageInvariant /\ ReportInvariant /\ printed \in Seq(ReportKeys)
        /\ Sections = SyntheticReport
    BY <1>2 DEF ExampleInvariant, Sections
  <2>3. CASE RunPipeline
    <3>1. printed' = printed /\ report' = report
      BY <2>3 DEF RunPipeline
    <3>2. pc # "returned"
      BY <2>3 DEF RunPipeline, RunSupervisor, RunTelemetry, CannedReasoning, CannedFalsifier,
                  CannedCounterfactual, RunAction, Completes
    <3>3. report' = "none" /\ printed' = <<>>
      BY <2>2, <3>1, <3>2 DEF ReportInvariant
    <3> QED
      BY <2>1, <3>3 DEF ExampleInvariant, ReportInvariant
  <2>4. CASE StartReport
    <3>1. pc' = "returned" /\ report' = "printing" /\ printed' = <<>>
      BY <2>2, <2>4 DEF StartReport, ReportInvariant, vars
    <3>2. Shown'
      BY <3>1 DEF Shown
    <3> QED
      BY <2>1, <3>1, <3>2 DEF ExampleInvariant, ReportInvariant
  <2>5. CASE PrintSection
    <3>1. /\ report = "printing" /\ pc = "returned" /\ pc' = pc /\ Shown
          /\ Len(printed) + 1 <= 7
      BY <2>2, <2>5, SyntheticSections DEF PrintSection, Reached, ReportInvariant, vars
    <3> DEFINE at  == Len(printed) + 1
               key == SyntheticReport[at].key
    <3>2. at \in 1..7
      BY <3>1 DEF Shown
    <3>3. Present(key)
      BY <2>2, <3>1, <3>2, AllPresent
    <3>4. \A read \in SyntheticReport[at].reads : Has(read)
      BY <3>2, SyntheticReads DEF Has
    <3>5. printed' = Append(printed, key) /\ report' = report
      BY <2>2, <2>5, <3>3, <3>4 DEF PrintSection, Reached
    <3>6. key \in ReportKeys
      BY <3>2 DEF ReportKeys
    <3> HIDE DEF key
    <3>7. /\ printed' \in Seq(ReportKeys)
          /\ Len(printed') = at /\ DOMAIN printed' = 1..at
          /\ printed'[at] = key
          /\ \A i \in 1..Len(printed) : printed'[i] = printed[i]
      BY <2>2, <3>5, <3>6, AppendProperties
    <3>8. \A i \in 1..at : i \in 1..Len(printed) \/ i = at
      BY <3>1 DEF Shown
    <3>9. \A i \in 1..at : printed'[i] = SyntheticReport[i].key
      BY <3>1, <3>7, <3>8 DEF Shown, key
    <3>10. Shown'
      BY <3>2, <3>7, <3>9 DEF Shown
    <3> QED
      BY <2>1, <3>1, <3>5, <3>7, <3>10 DEF ExampleInvariant, ReportInvariant
  <2>6. CASE EndReport
    <3>1. /\ report = "printing" /\ report' = "done" /\ printed' = printed /\ pc' = pc
          /\ Len(printed) + 1 > 7
      BY <2>2, <2>6, SyntheticSections DEF EndReport, Reached, vars
    <3>2. pc = "returned" /\ Shown
      BY <2>2, <3>1 DEF ReportInvariant
    <3>3. Shown' /\ Len(printed') = 7
      BY <3>1, <3>2 DEF Shown
    <3> QED
      BY <2>1, <2>2, <3>1, <3>2, <3>3 DEF ExampleInvariant, ReportInvariant
  <2>7. CASE UNCHANGED exampleVars
    <3>1. printed' = printed /\ report' = report /\ pc' = pc
      BY <2>7 DEF exampleVars, vars
    <3> QED
      BY <2>1, <2>2, <3>1 DEF ExampleInvariant, ReportInvariant, Shown
  <2> QED
    BY <1>2, <2>3, <2>4, <2>5, <2>6, <2>7 DEF ExampleNext
<1> QED
  BY <1>1, <1>2

(* For every alert: the synthetic example never crashes in its report, and *)
(* a finished report shows the hypothesis, the verdict, the prediction,    *)
(* the actions and the trail (examples/run_synthetic_incident.py main).    *)
THEOREM SyntheticReportsAll ==
  ASSUME Script = "synthetic"
  PROVE  ExampleSpec => []ReportShowsAll
<1>1. ExampleInvariant => ReportShowsAll
  <2> SUFFICES ASSUME ExampleInvariant
               PROVE  ReportShowsAll
    OBVIOUS
  <2>1. report # "crashed"
    BY DEF ExampleInvariant, ReportInvariant
  <2>2. ASSUME report = "done"
        PROVE  \A key \in {"telemetry_findings", "causal_hypothesis", "falsification",
                           "counterfactual", "recommended_actions", "audit_trail"} :
                 \E i \in DOMAIN printed : printed[i] = key
    <3>1. DOMAIN printed = 1..7 /\ \A i \in 1..7 : printed[i] = SyntheticReport[i].key
      BY <2>2 DEF ExampleInvariant, ReportInvariant, Shown
    <3>2. /\ printed[2] = "telemetry_findings" /\ printed[3] = "causal_hypothesis"
          /\ printed[4] = "falsification" /\ printed[5] = "counterfactual"
          /\ printed[6] = "recommended_actions" /\ printed[7] = "audit_trail"
      BY <3>1, SyntheticSections
    <3> QED
      BY <3>1, <3>2
  <2> QED
    BY <2>1, <2>2 DEF ReportShowsAll
<1>2. /\ ExampleInit => ExampleInvariant
      /\ ExampleInvariant /\ [ExampleNext]_exampleVars => ExampleInvariant'
  BY ExampleInductive
<1> QED
  BY <1>1, <1>2, PTL DEF ExampleSpec
=============================================================================
