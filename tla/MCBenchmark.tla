------------------------------ MODULE MCBenchmark ------------------------------
(* Instances of the benchmark for TLC. *)
EXTENDS Benchmark, MCInputs

(* Every class, metric and cause, for one service and one severity.        *)
AllKinds == Generated({"db-proxy"}, {"critical"})
================================================================================
