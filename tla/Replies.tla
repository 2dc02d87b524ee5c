------------------------------- MODULE Replies -------------------------------
(***************************************************************************)
(* How a reply becomes what Agents takes for one: the loops over the lines *)
(* of a text in _parse_claims, parse_hypothesis, _parse_falsification and  *)
(* _llm_predict.  The same text is given to all four, as the agents share  *)
(* a backend that does not know who asks; one step is one round of each    *)
(* loop, and a text may end after any line.                                *)
(*                                                                         *)
(* A line is its kind, the value after its keyword, and the phrases it     *)
(* contains.  A keyword with nothing after it has the value Blank.  Empty  *)
(* lines, which every loop skips, are not lines here.                      *)
(***************************************************************************)
EXTENDS Agents

CONSTANTS
  Blank,           \* the empty string
  Phrases,         \* sets of phrases a line may contain
  SupportLists,    \* index sets a CLAIM line may cite, {} without SUPPORTS
  Numbers,         \* numbers a line may give, with NaN and Garbled
  FindingNumbers,  \* what may follow FINDING:
  DeltaParts,      \* the parts of a DELTA line
  Triggers,
  MaxLines         \* bound on the lines of a text

DeltaPart == [short : BOOLEAN, lower : Readings, upper : Readings]

ASSUME RepliesAssumption ==
  /\ Blank \notin Phrases
  /\ Phrases \subseteq SUBSET STRING
  /\ \A says \in Phrases : IsSummary(says)
  /\ SupportLists \subseteq SUBSET Nat
  /\ Numbers \subseteq Readings
  /\ FindingNumbers \subseteq Int \cup {Garbled}
  /\ DeltaParts \subseteq DeltaPart
  /\ Triggers \subseteq Trigger
  /\ MaxLines \in Nat

VARIABLES
  text,                                           \* the lines read so far
  summary, raw_confidence, claims,                \* _parse_claims
  flat_summary, flat_confidence,                  \* parse_hypothesis
  verdict, contradictions, contested, score,      \* _parse_falsification
  deltas, prediction_confidence                   \* _llm_predict

reasoningLoop == <<summary, raw_confidence, claims>>
flatLoop == <<flat_summary, flat_confidence>>
falsifierLoop == <<verdict, contradictions, contested, score>>
predictionLoop == <<deltas, prediction_confidence>>
vars == <<state, text, reasoningLoop, flatLoop, falsifierLoop, predictionLoop>>

Init ==
  /\ \E t \in Triggers : new_state(t)
  /\ text = <<>>
  /\ summary = Blank /\ raw_confidence = 0 /\ claims = {}
  /\ flat_summary = Blank /\ flat_confidence = 0
  /\ verdict = "contested" /\ contradictions = {} /\ contested = {} /\ score = 450
  /\ deltas = {} /\ prediction_confidence = 300

(* The agents that have run before the text comes. *)
Prepare ==
  /\ text = <<>>
  /\ \/ telemetry_findings = <<>> /\ telemetry_step
     \/ causal_hypothesis = None /\ reasoning
  /\ UNCHANGED <<text, reasoningLoop, flatLoop, falsifierLoop, predictionLoop>>

(***************************************************************************)
(* One round of the loops, by the kind of the line.                        *)
(***************************************************************************)
Here == Len(text) + 1
Reads(kind, value, says) ==
  /\ Len(text) < MaxLines
  /\ text' = Append(text, [kind |-> kind, value |-> value, says |-> says])
  /\ UNCHANGED state

ReadHypothesis ==
  /\ \E says \in Phrases, value \in Phrases \cup {Blank} :
       /\ value \in {says, Blank}
       /\ Reads("HYPOTHESIS", value, IF value = Blank THEN {} ELSE says)
       /\ summary' = value
       /\ flat_summary' = value
  /\ UNCHANGED <<raw_confidence, claims, flat_confidence, falsifierLoop, predictionLoop>>

(* Mutated form: the claims without a valid index kept. *)
ReadAnyClaim ==
  /\ \E says \in Phrases, supports \in SupportLists :
       /\ Reads("CLAIM", supports, says)
       /\ claims' = claims \cup
            {[line |-> Here, supporting_finding_ids |-> supports \cap FindingIds]}
  /\ UNCHANGED <<summary, raw_confidence, flatLoop, falsifierLoop, predictionLoop>>

ReadClaim ==
  /\ \E says \in Phrases, supports \in SupportLists :
       /\ Reads("CLAIM", supports, says)
       /\ claims' =
            IF supports \cap FindingIds = {} THEN claims
            ELSE claims \cup
                   {[line |-> Here, supporting_finding_ids |-> supports \cap FindingIds]}
  /\ UNCHANGED <<summary, raw_confidence, flatLoop, falsifierLoop, predictionLoop>>

(* Mutated form: a bad number ignored by one of the two parsers. *)
ReadConfidenceApart ==
  /\ \E x \in Numbers :
       /\ Reads("CONFIDENCE", x, {})
       /\ raw_confidence' = (IF x = Garbled THEN 0 ELSE x)
       /\ flat_confidence' = (IF x = Garbled THEN flat_confidence ELSE x)
  /\ UNCHANGED <<summary, claims, flat_summary, falsifierLoop, predictionLoop>>

(* RAW_CONFIDENCE or CONFIDENCE: a bad number is 0.0, not ignored. *)
ReadConfidence ==
  /\ \E x \in Numbers :
       /\ Reads("CONFIDENCE", x, {})
       /\ raw_confidence' = (IF x = Garbled THEN 0 ELSE x)
       /\ flat_confidence' = (IF x = Garbled THEN 0 ELSE x)
  /\ UNCHANGED <<summary, claims, flat_summary, falsifierLoop, predictionLoop>>

(* A verdict that is none of the three words is Garbled, and ignored. *)
ReadVerdict ==
  /\ \E word \in Verdicts \cup {Garbled} :
       /\ Reads("VERDICT", word, {})
       /\ verdict' = IF word = Garbled THEN verdict ELSE word
  /\ UNCHANGED <<contradictions, contested, score, reasoningLoop, flatLoop, predictionLoop>>

ReadContradiction ==
  /\ \E says \in Phrases, finding \in FindingNumbers :
       /\ Reads("CONTRADICTION", finding, says)
       /\ contradictions' = contradictions \cup {Here}
       /\ contested' =
            IF finding = Garbled THEN contested
            ELSE contested \cup {[line |-> Here, finding |-> finding]}
  /\ UNCHANGED <<verdict, score, reasoningLoop, flatLoop, predictionLoop>>

(* Mutated form: a bad score resets to the default. *)
ReadScoreAnew ==
  /\ \E x \in Numbers :
       /\ Reads("SCORE", x, {})
       /\ score' = ReadUnit(x, 450)
  /\ UNCHANGED <<verdict, contradictions, contested, reasoningLoop, flatLoop, predictionLoop>>

ReadScore ==
  /\ \E x \in Numbers :
       /\ Reads("SCORE", x, {})
       /\ score' = ReadUnit(x, score)
  /\ UNCHANGED <<verdict, contradictions, contested, reasoningLoop, flatLoop, predictionLoop>>

(* Mutated form: a line with too few parts taken as well. *)
ReadAnyDelta ==
  /\ \E parts \in DeltaParts :
       /\ Reads("DELTA", parts, {})
       /\ deltas' = deltas \cup {Delta(Bound(parts.lower, 0), Bound(parts.upper, 1000))}
  /\ UNCHANGED <<prediction_confidence, reasoningLoop, flatLoop, falsifierLoop>>

(* A line of fewer than three parts is ignored; a bound is the last one    *)
(* that reads as a number.                                                 *)
ReadDelta ==
  /\ \E parts \in DeltaParts :
       /\ Reads("DELTA", parts, {})
       /\ deltas' =
            IF parts.short THEN deltas
            ELSE deltas \cup {Delta(Bound(parts.lower, 0), Bound(parts.upper, 1000))}
  /\ UNCHANGED <<prediction_confidence, reasoningLoop, flatLoop, falsifierLoop>>

ReadPrediction ==
  /\ \E x \in Numbers :
       /\ Reads("PREDICTION", x, {})
       /\ prediction_confidence' = (IF x = Garbled THEN prediction_confidence ELSE x)
  /\ UNCHANGED <<deltas, reasoningLoop, flatLoop, falsifierLoop>>

(* RATIONALE, UNFALSIFIABLE, METHOD and any other prose. *)
ReadOther ==
  /\ \E says \in Phrases : Reads("OTHER", Blank, says)
  /\ UNCHANGED <<reasoningLoop, flatLoop, falsifierLoop, predictionLoop>>

ReadLine ==
  \/ ReadHypothesis
  \/ ReadClaim
  \/ ReadConfidence
  \/ ReadVerdict
  \/ ReadContradiction
  \/ ReadScore
  \/ ReadDelta
  \/ ReadPrediction
  \/ ReadOther

Next == Prepare \/ ReadLine

Spec == Init /\ [][Next]_vars

(***************************************************************************)
(* After the loops.                                                        *)
(***************************************************************************)
(* "if not summary": the first line of the text instead. *)
Headline(value) ==
  IF value # Blank THEN value ELSE IF text = <<>> THEN {} ELSE text[1].says

PredictedDeltas == IF deltas = {} THEN {Delta(0, 1000)} ELSE deltas

(***************************************************************************)
(* The reply of Agents a text stands for: of each kind of line the last    *)
(* one, where a bad one is ignored the last good one.                      *)
(***************************************************************************)
Of(kind) == {i \in DOMAIN text : text[i].kind = kind}
Readable(kind) == {i \in Of(kind) : text[i].value # Garbled}
Latest(lines) == CHOOSE i \in lines : \A j \in lines : j <= i
ValueOf(lines, default) == IF lines = {} THEN default ELSE text[Latest(lines)].value

reasoning_reply ==
  [summary        |-> Headline(ValueOf(Of("HYPOTHESIS"), Blank)),
   claims         |-> {[line |-> i, supports |-> text[i].value] : i \in Of("CLAIM")},
   raw_confidence |-> ValueOf(Of("CONFIDENCE"), Garbled)]

falsifier_reply ==
  [verdict             |-> ValueOf(Readable("VERDICT"), Garbled),
   contradictions      |-> {[line |-> i, finding |-> text[i].value] : i \in Of("CONTRADICTION")},
   falsification_score |-> ValueOf(Readable("SCORE"), Garbled)]

prediction_reply ==
  [deltas |-> {[line |-> i, lower |-> text[i].value.lower, upper |-> text[i].value.upper] :
                 i \in {j \in Of("DELTA") : ~text[j].value.short}},
   prediction_confidence |-> ValueOf(Readable("PREDICTION"), Garbled)]

(***************************************************************************)
(* Properties.                                                             *)
(***************************************************************************)

(* Whatever lines come in whatever order, _parse_claims computes what      *)
(* reasoning_step of Agents makes of the reply the text stands for: the    *)
(* claims that cite an existing finding and nothing else, the last summary *)
(* and the last confidence, where a bad number counts as 0.                *)
ClaimsParsed ==
  /\ claims = GroundedClaims(reasoning_reply.claims)
  /\ Headline(summary) = reasoning_reply.summary
  /\ Clamp(raw_confidence) = ReadUnit(reasoning_reply.raw_confidence, 0)

(* The fallback takes its confidence from parse_hypothesis and its summary *)
(* from _parse_claims (agents/reasoning.py:131): on every text the two     *)
(* parsers agree on both.                                                  *)
FlatParseAgrees ==
  /\ Headline(flat_summary) = Headline(summary)
  /\ Clamp(flat_confidence) = Clamp(raw_confidence)

(* _parse_falsification returns the result falsifier_review of Agents      *)
(* records: an unknown verdict or a bad score does not undo an earlier     *)
(* good one, and every index stored is one a CONTRADICTION line names.     *)
FalsificationParsed ==
  causal_hypothesis # None =>
    ParseFalsification(falsifier_reply) =
      [verdict                 |-> verdict,
       contradictions          |-> contradictions,
       falsification_score     |-> score,
       contested_claim_indices |-> contested,
       of                      |-> causal_hypothesis.revision]

(* _llm_predict returns the deltas and the confidence counterfactual_ask   *)
(* of Agents takes: short lines leave no delta, and without any delta      *)
(* there is exactly the one that says nothing.                             *)
PredictionParsed ==
  LET rule == ParsePrediction(prediction_reply)
  IN  /\ PredictedDeltas = rule.deltas
      /\ Clamp(prediction_confidence) = rule.confidence
=============================================================================
