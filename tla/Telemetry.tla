------------------------------ MODULE Telemetry ------------------------------
(***************************************************************************)
(* What the telemetry agent collects for a trigger: agents/telemetry.py    *)
(* over the fixtures of tools/.  A finding keeps its source, the subject it *)
(* is about and its severity; samples and wording are left out.            *)
(***************************************************************************)
EXTENDS Vocabulary

Sources == {"prometheus", "deploy_log", "logs"}
Dependencies == {"db-proxy", "auth-service", "object-store"}
Subjects == STRING \cup Dependencies     \* the alerting service, or one it depends on
Finding == [source : Sources, subject : Subjects, severity : Severities]
Observed(source, subject, severity) ==
  [source |-> source, subject |-> subject, severity |-> severity]

(* tools/prometheus_mock.py: a series without a fixture is benign. *)
Series(service, metric, anomaly, dependencies) ==
  [key |-> <<service, metric>>, anomaly |-> anomaly, dependencies |-> dependencies]

SCENARIOS ==
  {Series("payments-service", "p99_latency_ms", TRUE, <<"db-proxy", "auth-service">>),
   Series("db-proxy", "utilization", TRUE, <<>>),
   Series("auth-service", "utilization", FALSE, <<>>),
   Series("inventory-service", "p99_latency_ms", TRUE, <<"object-store">>),
   Series("object-store", "utilization", FALSE, <<>>)}

query_metric(service, metric) ==
  IF \E r \in SCENARIOS : r.key = <<service, metric>>
  THEN CHOOSE r \in SCENARIOS : r.key = <<service, metric>>
  ELSE Series(service, metric, FALSE, <<>>)

(* tools/deploy_log_mock.py: ages in minutes.  The window is not applied. *)
DEPLOYS(service) ==
  CASE service = "db-proxy"         -> <<[age |-> 18]>>
    [] service = "payments-service" -> <<[age |-> 180]>>
    [] OTHER                        -> <<>>

recent_deploys(service, window_minutes) == DEPLOYS(service)

(* tools/logs_mock.py: the levels logged by each service. *)
LEVEL_ORDER == [DEBUG |-> 10, INFO |-> 20, WARN |-> 30, ERROR |-> 40, FATAL |-> 50]

LOG_FIXTURES(service) ==
  CASE service = "payments-service"  -> <<"ERROR", "ERROR", "WARN">>
    [] service = "inventory-service" -> <<"WARN", "WARN">>
    [] service = "auth-service"      -> <<"INFO">>
    [] OTHER                         -> <<>>

search_logs(service, level_at_least) ==
  {i \in DOMAIN LOG_FIXTURES(service) :
     LEVEL_ORDER[LOG_FIXTURES(service)[i]] >= LEVEL_ORDER[level_at_least]}

Metric(service, metric) ==
  Observed("prometheus", service,
           IF query_metric(service, metric).anomaly THEN "warning" ELSE "info")

(* The findings one pass appends, in their order: the alerting metric, the *)
(* dependencies of an anomaly, the deploys and the error logs.             *)
Collected(trigger) ==
  LET primary == query_metric(trigger.service, trigger.metric)
      deps    == IF primary.anomaly THEN primary.dependencies ELSE <<>>
      deploys == recent_deploys(trigger.service, 60)
  IN  <<Metric(trigger.service, trigger.metric)>>
        \o [i \in DOMAIN deps |-> Metric(deps[i], "utilization")]
        \o [i \in DOMAIN deploys |-> Observed("deploy_log", trigger.service, "info")]
        \o (IF search_logs(trigger.service, "ERROR") = {} THEN <<>>
            ELSE <<Observed("logs", trigger.service, "warning")>>)
=============================================================================
