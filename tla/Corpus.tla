-------------------------------- MODULE Corpus --------------------------------
(***************************************************************************)
(* The synthetic incidents: corpus/generate.py writes them, corpus/        *)
(* causal_prior.py counts them and bench/scenarios.py reads them back.     *)
(* The seeded random choices are any choice; a cause pattern is the tuple  *)
(* of its words, and an injected finding is told by its subject.           *)
(***************************************************************************)
EXTENDS Telemetry, FiniteSets

ConnectionPool    == <<"connection", "pool", "exhaustion">>
DeployRegression  == <<"deploy", "regression">>
ThermalThrottling == <<"thermal", "throttling">>
DnsResolution     == <<"dns", "resolution", "failure">>
CertificateExpiry == <<"certificate", "expiry">>
DiskPressure      == <<"disk", "pressure">>
MemoryPressure    == <<"memory", "pressure">>
DependencyCascade == <<"dependency", "cascade">>

CAUSE_PATTERNS ==
  {ConnectionPool, DeployRegression, ThermalThrottling, DnsResolution,
   CertificateExpiry, DiskPressure, MemoryPressure, DependencyCascade}

CLASSIFICATION_MAP ==
  [application |-> {ConnectionPool, DeployRegression, DependencyCascade},
   infra       |-> {ThermalThrottling, DiskPressure, MemoryPressure},
   network     |-> {DnsResolution, CertificateExpiry, DependencyCascade},
   unknown     |-> CAUSE_PATTERNS]

SERVICES ==
  {"payments-service", "auth-service", "inventory-service", "api-gateway",
   "db-proxy", "cache-cluster", "notification-service", "order-service"}

METRICS ==
  [application |-> {"p99_latency_ms", "error_rate", "request_throughput"},
   infra       |-> {"cpu_throttle_ratio", "disk_io_wait", "memory_utilization"},
   network     |-> {"dns_latency_ms", "tcp_retransmit_rate", "packet_loss_rate"},
   unknown     |-> {"p99_latency_ms", "cpu_throttle_ratio", "dns_latency_ms"}]

GROUND_TRUTH_ACTIONS(cause) ==
  CASE cause \in {ConnectionPool, DeployRegression} -> "rollback_deploy"
    [] cause = ThermalThrottling -> "drain_and_ticket"
    [] cause = DnsResolution     -> "flush_dns_cache"
    [] cause = CertificateExpiry -> "rotate_certificate"
    [] cause = DiskPressure      -> "expand_volume"
    [] cause = MemoryPressure    -> "restart_service"
    [] cause = DependencyCascade -> "isolate_dependency"

FALSIFIER_OUTCOMES(cause) ==
  IF cause \in {DnsResolution, DependencyCascade} THEN "contested" ELSE "confirmed"

(***************************************************************************)
(* _make_findings: a primary signal, what supports it, and noise.          *)
(***************************************************************************)
Noise == Observed("prometheus", "unrelated metric", "info")

Supporting(cause) ==
  CASE cause = ConnectionPool    -> <<Observed("prometheus", "pool utilization", "warning"),
                                      Observed("deploy_log", "db-proxy deploy", "info")>>
    [] cause = ThermalThrottling -> <<Observed("prometheus", "rack throttle ratio", "warning")>>
    [] cause = DnsResolution     -> <<Observed("logs", "NXDOMAIN errors", "warning")>>
    [] cause = MemoryPressure    -> <<Observed("prometheus", "OOM events", "warning")>>
    [] OTHER                     -> <<>>

(* Mutated form: the noise finding left out. *)
FindingsWithoutNoise(cause) ==
  <<Observed("prometheus", cause[1], "warning")>> \o Supporting(cause)

make_findings(cause) ==
  <<Observed("prometheus", cause[1], "warning")>> \o Supporting(cause) \o <<Noise>>

(* The phrases of the sentence "... consistent with <cause>" among those   *)
(* some table looks for.                                                   *)
CauseSays(cause) ==
  LET words == {cause[i] : i \in DOMAIN cause}
  IN  words \cup {c.phrase : c \in {d \in CompoundPhrases : d.words \subseteq words}}
        \cup (IF cause = DnsResolution THEN {"resolution failure"} ELSE {})
        \cup (IF cause = CertificateExpiry THEN {"cert", "expir"} ELSE {})

(* What each finding says. *)
FindingSays(f) ==
  CASE f.subject = "pool utilization" -> {"connection pool", "connection", "pool"}
    [] f.subject = "db-proxy deploy"    -> {"deploy"}
    [] f.subject = "OOM events"       -> {"memory", "oom"}
    [] \E c \in CAUSE_PATTERNS : c[1] = f.subject ->
         CauseSays(CHOOSE c \in CAUSE_PATTERNS : c[1] = f.subject)
    [] OTHER                          -> {}

FindingsSay(findings) == UNION {FindingSays(findings[i]) : i \in DOMAIN findings}

(***************************************************************************)
(* generate: the incidents it can write.  Values and thresholds are read   *)
(* by nothing but a printed line.                                          *)
(***************************************************************************)
Incident(classification, metric, service, severity, cause) ==
  [trigger |-> [service |-> service, metric |-> metric,
                classification |-> classification, severity |-> severity],
   true_cause_pattern |-> cause,
   ground_truth_action |-> GROUND_TRUTH_ACTIONS(cause),
   expected_falsifier_verdict |-> FALSIFIER_OUTCOMES(cause),
   findings |-> make_findings(cause)]

Generated(services, severities) ==
  UNION {{Incident(c, m, s, v, cause) :
            m \in METRICS[c], s \in services, v \in severities,
            cause \in CLASSIFICATION_MAP[c]} : c \in DOMAIN CLASSIFICATION_MAP}

Incidents == Generated(SERVICES, {"warning", "critical", "page"})

(***************************************************************************)
(* What _load_frequency_table computes from a file, whose lines tell a     *)
(* classification and a cause: P(cause | classification) in thousandths.   *)
(***************************************************************************)
Classes(file) == {file[i].classification : i \in DOMAIN file}
Lines(file, classification) ==
  {i \in DOMAIN file : file[i].classification = classification}
CausesIn(file, lines) == {file[i].cause : i \in lines}
Frequency(file, lines, cause) ==
  (1000 * Cardinality({i \in lines : file[i].cause = cause})) \div Cardinality(lines)

load_frequency_table(file) ==
  [c \in Classes(file) |->
     [cause \in CausesIn(file, Lines(file, c)) |-> Frequency(file, Lines(file, c), cause)]]
=============================================================================
