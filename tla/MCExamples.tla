------------------------------ MODULE MCExamples ------------------------------
(* Instances of the example programs for TLC. *)
EXTENDS Examples, MCInputs

(* The alerts of the two examples, and any alert on the services and       *)
(* metrics the mock tools know.                                            *)
SyntheticAlert == Alert("payments-service", "p99_latency_ms", "application", "warning")
ComputeAlert == Alert("compute-service", "p99_latency_ms", "infra", "critical")
ComputeAlerts == {ComputeAlert}
ManyAlerts ==
  {Alert(s, m, c, "warning") :
     s \in {"payments-service", "inventory-service", "db-proxy", "auth-service"},
     m \in {"p99_latency_ms", "utilization", "memory_utilization"},
     c \in {"application", "infra"}}
=============================================================================
