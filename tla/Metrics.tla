------------------------------- MODULE Metrics -------------------------------
(***************************************************************************)
(* bench/metrics.py over a sequence of scored scenarios.  Confidences are  *)
(* in ten-thousandths and outcomes 0 or 1.  A metric is its exact          *)
(* numerator: over n the mean, over n * 10^4 (ECE) or n * 10^8 (Brier) the *)
(* score; no metric divides by zero, each being 0 on an empty list.        *)
(***************************************************************************)
EXTENDS Vocabulary, FiniteSets

Abs(x) == IF x < 0 THEN -x ELSE x

Total(terms) ==
  LET sum[i \in 0..Len(terms)] == IF i = 0 THEN 0 ELSE sum[i - 1] + terms[i]
  IN  sum[Len(terms)]

(* Signed distance of a confidence from its outcome. *)
Gap(s) == s.confidence - 10000 * s.correct

brier_score(scored) == Total([i \in DOMAIN scored |-> Gap(scored[i]) * Gap(scored[i])])

(* Bins of 0.1; the last one is closed. *)
Bin(s) == IF s.confidence \div 1000 > 9 THEN 9 ELSE s.confidence \div 1000

(* Distance of the confidences from the outcomes, summed over a bin. *)
BinGap(scored, b) ==
  Abs(Total([i \in DOMAIN scored |-> IF Bin(scored[i]) = b THEN Gap(scored[i]) ELSE 0]))

(* Mutated form: the bins not weighted by their share of the scenarios. *)
UnweightedError(scored) ==
  Len(scored) *
    Total([b \in 1..10 |->
             LET bin == {i \in DOMAIN scored : Bin(scored[i]) = b - 1}
             IN  IF bin = {} THEN 0 ELSE BinGap(scored, b - 1) \div Cardinality(bin)])

expected_calibration_error(scored) == Total([b \in 1..10 |-> BinGap(scored, b - 1)])

Ratio(hits, of) == [hits |-> Cardinality(hits), of |-> Cardinality(of)]

PredictedPositive(scored) == {i \in DOMAIN scored : scored[i].predicted = "confirmed"}
ActualPositive(scored) == {i \in DOMAIN scored : scored[i].expected = "confirmed"}
TruePositive(scored) == PredictedPositive(scored) \cap ActualPositive(scored)

falsifier_precision(scored) == Ratio(TruePositive(scored), PredictedPositive(scored))
falsifier_recall(scored) == Ratio(TruePositive(scored), ActualPositive(scored))

(* _action_matches: the true action of which a recommendation has a word. *)
ActionNamed(description) ==
  CASE description \in {"roll back the most recent deploy",
                        "roll back and re-investigate"} -> "rollback_deploy"
    [] description = "drain hosts and open a ticket"    -> "drain_and_ticket"
    [] description = "flush the DNS cache"              -> "flush_dns_cache"
    [] description = "restart the service"              -> "restart_service"
    [] description \in {DEFAULT_ACTION.description,
                        REFUTED_ACTION.description}     -> "isolate_dependency"

action_precision(scored) ==
  Ratio({i \in DOMAIN scored :
           ActionNamed(scored[i].recommended) = scored[i].ground_truth}, DOMAIN scored)

hypothesis_accuracy(scored) ==
  Ratio({i \in DOMAIN scored :
           \E w \in DOMAIN scored[i].cause : scored[i].cause[w] \in scored[i].summary},
        DOMAIN scored)
=============================================================================
