----------------------------- MODULE Confidence -----------------------------
(***************************************************************************)
(* Numbers read out of model replies, the corpus prior and the calibrated  *)
(* confidence: agents/confidence.py, corpus/causal_prior.py and the float  *)
(* parsing of the agents.                                                  *)
(*                                                                         *)
(* Probabilities are in thousandths.  A final confidence is in ten-        *)
(* thousandths, so that 0.4 * raw + 0.4 * prior + 0.2 * modifier is exact. *)
(***************************************************************************)
EXTENDS Vocabulary

CONSTANTS
  NaN, Inf, NegInf, \* float("nan"), "inf" and "-inf", which a reply may spell
  Garbled,          \* a text float() or int() rejects
  FrequencyTable    \* _load_frequency_table(): classification -> cause -> thousandths

ASSUME ReadingAssumption ==
  /\ NaN \notin Int /\ Inf \notin Int /\ NegInf \notin Int /\ Garbled \notin Int
  /\ NaN # Inf /\ NaN # NegInf /\ Inf # NegInf
  /\ Garbled \notin {NaN, Inf, NegInf}

ASSUME TableAssumption ==
  \A c \in DOMAIN FrequencyTable :
    \A cause \in DOMAIN FrequencyTable[c] : FrequencyTable[c][cause] \in 0..1000

Unit == 0..1000
Floats == Int \cup {NaN, Inf, NegInf}
Readings == Floats \cup {Garbled}

(* Mutated forms, for checking that the properties can fail. *)
ClampWithoutFloor(x) ==
  IF x \in {NaN, Inf} THEN 1000 ELSE IF x = NegInf THEN x ELSE IF x > 1000 THEN 1000 ELSE x
ClampWithoutCeiling(x) ==
  IF x = NaN THEN 1000 ELSE IF x = Inf THEN x ELSE IF x = NegInf \/ x < 0 THEN 0 ELSE x

(* max(0.0, min(1.0, x)): every comparison with NaN is false, so NaN is 1. *)
Clamp(x) ==
  IF x \in {NaN, Inf} THEN 1000
  ELSE IF x = NegInf THEN 0
  ELSE IF x > 1000 THEN 1000
  ELSE IF x < 0 THEN 0 ELSE x

(* try: float(text) clamped, except ValueError: the given default. *)
ReadUnit(x, default) == IF x = Garbled THEN default ELSE Clamp(x)

(* A cause pattern is the tuple of its words, cause_pattern.split(). *)
Mentions(summary, cause) == \E i \in DOMAIN cause : cause[i] \in summary

UniformPrior == 125

(* The causes of a classification that a summary is taken to name. *)
Causes(classification) ==
  IF classification \in DOMAIN FrequencyTable THEN DOMAIN FrequencyTable[classification]
  ELSE {}
Named(classification, summary) ==
  {c \in Causes(classification) : Mentions(summary, c)}

(* Their probabilities. *)
MatchedPriors(classification, causes) ==
  {FrequencyTable[classification][c] : c \in causes} \ {0}

(* The largest of them, or the uniform fallback. *)
PriorOf(matched) ==
  IF matched = {} THEN UniformPrior
  ELSE CHOOSE p \in matched : \A q \in matched : q <= p

prior_for(classification, summary) ==
  PriorOf(MatchedPriors(classification, Named(classification, summary)))

(* CalibratedConfidence without its display components. *)
Compute(raw, prior, modifier) ==
  LET sum == 4 * raw + 4 * prior + 2 * modifier
  IN  IF sum > 10000 THEN 10000 ELSE IF sum < 0 THEN 0 ELSE sum

Calibrated(raw, prior, modifier) ==
  [raw_llm |-> raw, prior |-> prior, falsification_modifier |-> modifier,
   final |-> Compute(raw, prior, modifier)]

(* Mutated form: an optimistic start. *)
CalibrateOptimistic(classification, raw, summary) ==
  Calibrated(raw, prior_for(classification, summary), 1000)

calibrate(classification, raw, summary) ==
  Calibrated(raw, prior_for(classification, summary), 500)

update_with_falsification(cal, score) ==
  Calibrated(cal.raw_llm, cal.prior, IF score > 1000 THEN 0 ELSE 1000 - score)
=============================================================================
