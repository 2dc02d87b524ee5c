------------------------------ MODULE Backends ------------------------------
(***************************************************************************)
(* The default model backend, DeterministicFake (agents/llm.py), and the   *)
(* agents as they run on it.  A prompt is the set of phrases it contains   *)
(* among those some table looks for; a reply is a row of a table.          *)
(*                                                                         *)
(* The fake does not know who asks: it chooses a table by words of the     *)
(* prompt and a row by the first pattern found anywhere in the prompt, the *)
(* findings and the claims included.                                       *)
(***************************************************************************)
EXTENDS Agents

(* A regular expression is the set of its alternatives.  "recent deploy"   *)
(* stands for deploy.*recent|recent.*deploy, the two words in one line.    *)
Says(text, supports) == [says |-> text, supports |-> supports]
Hypothesizes(keys, summary, claims, raw) ==
  [keys |-> keys, summary |-> summary, claims |-> claims, raw_confidence |-> raw]

REASONING_RESPONSES ==
  <<Hypothesizes({"connection pool"},
      {"connection pool", "connection", "pool", "exhaustion", "deploy", "recent deploy"},
      <<Says({"connection pool", "connection", "pool"}, {0, 1}), Says({"deploy"}, {1, 2})>>,
      720),
    Hypothesizes({"recent deploy"},
      {"regression", "recent deployment", "deploy", "recent deploy"},
      <<Says({"deploy"}, {0, 2}), Says({"dependency"}, {0})>>, 650),
    Hypothesizes({"thermal"},
      {"thermal throttling", "thermal", "throttling"},
      <<Says({}, {0, 1})>>, 550),
    Hypothesizes({"dns", "resolution failure"},
      {"dns resolution", "resolution failure", "dns", "resolution", "failure", "connection"},
      <<Says({}, {0, 1}), Says({"deploy"}, {0})>>, 600),
    Hypothesizes({"memory", "oom"},
      {"memory pressure", "memory", "pressure", "oom"},
      <<Says({"memory", "oom"}, {0, 1})>>, 680),
    Hypothesizes({"certificate", "cert", "expir"},
      {"certificate", "cert", "expiry", "expir", "failure"},
      <<Says({"certificate", "cert", "expiry", "expir"}, {0}),
        Says({"regression", "deploy"}, {0})>>, 700),
    Hypothesizes({"disk", "io_wait", "disk pressure"},
      {"disk pressure", "disk", "pressure"},
      <<Says({"disk", "io_wait"}, {0, 1})>>, 650),
    Hypothesizes({"dependency", "cascade", "downstream"},
      {"dependency cascade", "dependency", "cascade", "failure"},
      <<Says({"dependency"}, {0}), Says({}, {0, 1})>>, 620)>>

REASONING_FALLBACK == Hypothesizes({}, {}, <<Says({}, {0})>>, 300)

(* Every reply has one CONTRADICTION line; two of them name a finding. *)
Reviews(keys, verdict, finding, score) ==
  [keys |-> keys, verdict |-> verdict,
   contradictions |-> {[line |-> 1, finding |-> finding]}, falsification_score |-> score]

FALSIFIER_RESPONSES ==
  <<Reviews({"connection pool"},                  "confirmed", Garbled, 80),
    Reviews({"thermal throttling"},               "confirmed", Garbled, 100),
    Reviews({"dns resolution"},                   "contested", 2,       420),
    Reviews({"regression", "recent deployment"},  "confirmed", Garbled, 120),
    Reviews({"memory pressure", "oom"},           "confirmed", Garbled, 50),
    Reviews({"certificate", "cert", "expir"},     "confirmed", Garbled, 90),
    Reviews({"disk", "io_wait"},                  "confirmed", Garbled, 70),
    Reviews({"dependency", "cascade"},            "contested", 1,       380)>>

FALSIFIER_FALLBACK == Reviews({}, "contested", Garbled, 450)

DeltaLine(n, lower, upper) == [line |-> n, lower |-> lower, upper |-> upper]
Predicts(keys, deltas, confidence) ==
  [keys |-> keys, deltas |-> deltas, prediction_confidence |-> confidence]

COUNTERFACTUAL_RESPONSES ==
  <<Predicts({"connection pool"},
      {DeltaLine(1, 600, 800), DeltaLine(2, 550, 750), DeltaLine(3, -50, 50)}, 780),
    Predicts({"thermal throttling"},
      {DeltaLine(1, 800, 950), DeltaLine(2, 600, 850)}, 700),
    Predicts({"dns", "resolution"},
      {DeltaLine(1, 300, 500), DeltaLine(2, 100, 600)}, 480),
    Predicts({"regression", "deploy"}, {DeltaLine(1, 650, 850)}, 750),
    Predicts({"memory", "oom"},
      {DeltaLine(1, 550, 800), DeltaLine(2, 900, 1000)}, 720),
    Predicts({"certificate", "cert", "expir"}, {DeltaLine(1, 900, 1000)}, 850),
    Predicts({"disk", "io_wait"}, {DeltaLine(1, 500, 700)}, 680),
    Predicts({"dependency", "cascade"},
      {DeltaLine(1, 400, 600), DeltaLine(2, 0, 100)}, 580)>>

COUNTERFACTUAL_FALLBACK == Predicts({}, {DeltaLine(1, 0, 1000)}, 300)

(***************************************************************************)
(* complete: a table by the words of the prompt, a row by the first match. *)
(***************************************************************************)
RowsOf(table, fallback) == {table[i] : i \in DOMAIN table} \cup {fallback}
Hits(table, prompt) == {i \in DOMAIN table : table[i].keys \cap prompt # {}}
Row(table, fallback, prompt) ==
  IF Hits(table, prompt) = {} THEN fallback
  ELSE table[CHOOSE i \in Hits(table, prompt) : \A j \in Hits(table, prompt) : i <= j]

ReviewWords == {"falsif", "disprove", "contradict"}
PredictionWords == {"counterfactual", "predict", "post-action"}

Route(prompt) ==
  IF prompt \cap ReviewWords # {} THEN "falsifier"
  ELSE IF prompt \cap PredictionWords # {} THEN "counterfactual"
  ELSE "reasoning"

(***************************************************************************)
(* The prompts.  findings is what the FINDINGS block of the prompt says.   *)
(***************************************************************************)
(* What a name says: only some metrics contain a phrase of a table. *)
NameSays(name) ==
  CASE name = "disk_io_wait"       -> {"disk", "io_wait"}
    [] name = "memory_utilization" -> {"memory"}
    [] name = "dns_latency_ms"     -> {"dns"}
    [] OTHER                       -> {}

reasoning_prompt(findings) ==
  NameSays(trigger.service) \cup NameSays(trigger.metric) \cup findings

(* The statement of a claim: line n of the reply that made the hypothesis, *)
(* or the summary itself in a fallback claim.                              *)
Statement(summary, line) ==
  IF line = 0 THEN summary
  ELSE LET rows == RowsOf(REASONING_RESPONSES, REASONING_FALLBACK)
           row  == CHOOSE r \in rows : r.summary = summary
       IN  row.claims[line].says

falsifier_prompt(findings) ==
  ReviewWords \cup causal_hypothesis.summary \cup findings
    \cup UNION {Statement(causal_hypothesis.summary, c.line) : c \in causal_hypothesis.claims}

ActionSays(description) ==
  CASE description \in {"roll back the most recent deploy",
                        "roll back and re-investigate"} -> {"deploy"}
    [] description = "drain hosts and open a ticket"    -> {"thermal"}
    [] description = "flush the DNS cache"              -> {"dns"}
    [] description = "restart the service"              -> {"memory"}
    [] description = REFUTED_ACTION.description         -> {"falsif"}
    [] OTHER                                            -> {}

prediction_prompt ==
  PredictionWords \cup causal_hypothesis.summary \cup ActionSays(ProposedAction)

(***************************************************************************)
(* What each agent reads in the row it is given.  The simulator finds no   *)
(* DELTA line in a row of another table; the other two agents are always   *)
(* given a row of their own, as no canned verdict is "refuted".             *)
(***************************************************************************)
ReadHypothesis(row) ==
  [summary |-> row.summary, raw_confidence |-> row.raw_confidence,
   claims  |-> {[line |-> n, supports |-> row.claims[n].supports] : n \in DOMAIN row.claims}]
ReadReview(row) ==
  [verdict |-> row.verdict, contradictions |-> row.contradictions,
   falsification_score |-> row.falsification_score]
ReadPrediction(row) ==
  [deltas |-> row.deltas, prediction_confidence |-> row.prediction_confidence]
NoPrediction == [deltas |-> {}, prediction_confidence |-> Garbled]

CannedReasoningReplies ==
  {ReadHypothesis(row) : row \in RowsOf(REASONING_RESPONSES, REASONING_FALLBACK)}
CannedFalsifierReplies ==
  {ReadReview(row) : row \in RowsOf(FALSIFIER_RESPONSES, FALSIFIER_FALLBACK)}
CannedPredictionReplies ==
  {ReadPrediction(row) : row \in RowsOf(COUNTERFACTUAL_RESPONSES, COUNTERFACTUAL_FALLBACK)}
    \cup {NoPrediction}

(* The fake is one of the backends whose replies the agents are given. *)
ASSUME CannedAssumption ==
  /\ CannedReasoningReplies \subseteq ReasoningReplies
  /\ CannedFalsifierReplies \subseteq FalsifierReplies
  /\ CannedPredictionReplies \subseteq PredictionReplies

fake_reasoning(findings) ==
  \E row \in {Row(REASONING_RESPONSES, REASONING_FALLBACK, reasoning_prompt(findings))} :
    reasoning_step(ReadHypothesis(row))

fake_falsifier(findings) ==
  \E row \in {Row(FALSIFIER_RESPONSES, FALSIFIER_FALLBACK, falsifier_prompt(findings))} :
    falsifier_review(ReadReview(row))

fake_counterfactual ==
  \E prompt \in {prediction_prompt} :
    \E reply \in {IF Route(prompt) = "counterfactual"
                  THEN ReadPrediction(Row(COUNTERFACTUAL_RESPONSES,
                                          COUNTERFACTUAL_FALLBACK, prompt))
                  ELSE NoPrediction} :
      counterfactual_ask(reply)
=============================================================================
