----------------------------- MODULE MCPriorCache -----------------------------
(* Instances of the cached prior for TLC. *)
EXTENDS PriorCache

Line(classification, cause) == [classification |-> classification, cause |-> cause]
FiveLines ==
  <<Line("network", DnsResolution), Line("network", DnsResolution),
    Line("application", DeployRegression), Line("network", DependencyCascade),
    Line("application", DependencyCascade)>>
=============================================================================
