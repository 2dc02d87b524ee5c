------------------------------ MODULE MCInputs ------------------------------
(***************************************************************************)
(* Values for the constants of the checked instances: the frequency table  *)
(* of corpus/incidents.jsonl, alerts, and sets of model replies.           *)
(***************************************************************************)
EXTENDS Agents, TLC

(* The 100 incidents of corpus/incidents.jsonl, counted per classification *)
(* and cause, in thousandths.                                              *)
Share(count, total) == (1000 * count) \div total

ShippedTable ==
  [application |-> <<"connection", "pool", "exhaustion">> :> Share(6, 24)
                   @@ <<"dependency", "cascade">> :> Share(11, 24)
                   @@ <<"deploy", "regression">> :> Share(7, 24),
   network     |-> <<"dns", "resolution", "failure">> :> Share(12, 31)
                   @@ <<"dependency", "cascade">> :> Share(10, 31)
                   @@ <<"certificate", "expiry">> :> Share(9, 31),
   infra       |-> <<"disk", "pressure">> :> Share(6, 22)
                   @@ <<"thermal", "throttling">> :> Share(8, 22)
                   @@ <<"memory", "pressure">> :> Share(8, 22),
   unknown     |-> <<"deploy", "regression">> :> Share(4, 23)
                   @@ <<"dns", "resolution", "failure">> :> Share(4, 23)
                   @@ <<"memory", "pressure">> :> Share(6, 23)
                   @@ <<"certificate", "expiry">> :> Share(2, 23)
                   @@ <<"connection", "pool", "exhaustion">> :> Share(2, 23)
                   @@ <<"dependency", "cascade">> :> Share(2, 23)
                   @@ <<"disk", "pressure">> :> Share(2, 23)
                   @@ <<"thermal", "throttling">> :> Share(1, 23)]

(* A corpus in which one cause explains every incident of its class: the   *)
(* only kind that can open the autonomous gate.                            *)
SkewedTable ==
  [infra |-> (<<"memory", "pressure">> :> 1000 @@ <<"disk", "pressure">> :> 874)]

(* A corpus as skewed as it can be without opening that gate. *)
NearTable ==
  [infra |-> (<<"memory", "pressure">> :> 874 @@ <<"disk", "pressure">> :> 126)]

(* The shipped corpus with its incidents of infra that skewed. *)
NearShippedTable == [ShippedTable EXCEPT !.infra = NearTable.infra]

(* Alerts: an anomaly with and without a dependency anomaly, a service with *)
(* a deploy and error logs but no anomaly, one with no fixture at all, and a *)
(* classification no table knows.                                          *)
Alert(service, metric, classification, severity) ==
  [service |-> service, metric |-> metric,
   classification |-> classification, severity |-> severity]

PaymentsAlert == Alert("payments-service", "p99_latency_ms", "application", "critical")
ThermalAlert == Alert("inventory-service", "p99_latency_ms", "infra", "warning")
PaymentsErrors == Alert("payments-service", "error_rate", "unknown", "info")
GatewayAlert == Alert("api-gateway", "dns_latency_ms", "network", "page")
StrayAlert == Alert("db-proxy", "utilization", "", "debug")

(* Summaries, as the phrases they contain. *)
PoolSummary == {"connection", "pool", "connection pool", "exhaustion", "deploy"}
ThermalSummary == {"thermal", "throttling", "thermal throttling"}
DnsSummary == {"dns", "resolution", "dns resolution", "failure", "connection"}
MemorySummary == {"memory", "pressure", "memory pressure"}
CertificateSummary == {"certificate", "expiry", "failure"}
DeploySummary == {"deploy"}
NoSummary == {}

Line(n, supports) == [line |-> n, supports |-> supports]
Hypothesized(summary, claims, raw) ==
  [summary |-> summary, claims |-> claims, raw_confidence |-> raw]
Cites(n, finding) == [line |-> n, finding |-> finding]
Reviewing(verdict, contradictions, score) ==
  [verdict |-> verdict, contradictions |-> contradictions, falsification_score |-> score]
Bounds(n, lower, upper) == [line |-> n, lower |-> lower, upper |-> upper]
Predicting(deltas, confidence) ==
  [deltas |-> deltas, prediction_confidence |-> confidence]

(* Every kind of reply: indices in and out of range, lines without a       *)
(* SUPPORTS field, numbers that are out of range, NaN or no number.        *)
AllReasoning ==
  {Hypothesized(s, c, r) :
     s \in {PoolSummary, ThermalSummary, DnsSummary, MemorySummary,
            CertificateSummary, NoSummary},
     c \in {{}, {Line(1, {0, 1}), Line(2, {1, 9})}, {Line(1, {0}), Line(2, {})},
            {Line(1, {9}), Line(2, {})}},
     r \in {720, 1700, NaN, Garbled}}
AllFalsifier ==
  {Reviewing(v, c, s) :
     v \in {"confirmed", "contested", "refuted", Garbled},
     c \in {{}, {Cites(1, 0)}, {Cites(1, Garbled), Cites(2, -1)}},
     s \in {80, -200, Garbled}}
AllPrediction ==
  {Predicting({}, Garbled), Predicting({Bounds(1, 0, Garbled)}, 700),
   Predicting({Bounds(1, 900, 200), Bounds(2, Garbled, NaN), Bounds(3, NegInf, Inf)}, Inf)}

(* A few replies, for many invocations. *)
FewReasoning ==
  {Hypothesized(PoolSummary, {Line(1, {0, 1})}, 720),
   Hypothesized(NoSummary, {Line(1, {}), Line(2, {2, 7})}, 1700)}
FewFalsifier ==
  {Reviewing("confirmed", {Cites(1, Garbled)}, 80), Reviewing("refuted", {Cites(1, 0)}, 900)}
FewPrediction == {Predicting({}, 300)}

(* Replies sure enough of themselves to reach the autonomous gate. *)
SureReasoning ==
  {Hypothesized(s, {Line(1, {0})}, r) :
     s \in {MemorySummary, {"memory"}, {"disk", "pressure", "disk pressure"}, ThermalSummary},
     r \in {1000, 900, NaN}}
SureFalsifier ==
  {Reviewing(v, {}, s) : v \in {"confirmed", "contested", "refuted"}, s \in {0, 300}}
SurePrediction ==
  {Predicting({}, 699), Predicting({}, 700), Predicting({}, NaN)}
=============================================================================
