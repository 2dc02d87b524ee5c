----------------------------- MODULE Vocabulary -----------------------------
(***************************************************************************)
(* The names and tables of the investigation pipeline: the literal types   *)
(* of agents/state.py and the constant tables of agents/supervisor.py,     *)
(* agents/action.py and agents/counterfactual.py.                          *)
(*                                                                         *)
(* A hypothesis summary is free text that the code only ever tests with    *)
(* "phrase in summary.lower()".  Here it is the set of phrases it contains.*)
(* Probabilities are integers in thousandths.                              *)
(***************************************************************************)
EXTENDS Integers, Sequences

Severities == {"info", "warning", "critical", "page"}
Classifications == {"network", "application", "infra", "unknown"}
Verdicts == {"confirmed", "contested", "refuted"}
Risks == {"low", "medium", "high"}

(* Supervisor tables. *)
ROUTING_TABLE ==
  LET tail == <<"reasoning", "falsifier", "counterfactual", "action">>
  IN  [network     |-> <<"telemetry">> \o tail,
       application |-> <<"telemetry", "logs">> \o tail,
       infra       |-> <<"telemetry", "logs", "deploy">> \o tail,
       unknown     |-> <<"telemetry", "logs", "deploy">> \o tail]

BUDGET_MAP == [page |-> 5, critical |-> 5, warning |-> 3, info |-> 2]

MAX_EXTENSIONS == 2

(* The phrases of two words that some table looks for, with their words. *)
CompoundPhrases ==
  {[phrase |-> "connection pool",    words |-> {"connection", "pool"}],
   [phrase |-> "thermal throttling", words |-> {"thermal", "throttling"}],
   [phrase |-> "dns resolution",     words |-> {"dns", "resolution"}],
   [phrase |-> "deploy regression",  words |-> {"deploy", "regression"}],
   [phrase |-> "memory pressure",    words |-> {"memory", "pressure"}],
   [phrase |-> "disk pressure",      words |-> {"disk", "pressure"}],
   [phrase |-> "dependency cascade", words |-> {"dependency", "cascade"}]}

(* A text that contains a phrase contains the words of the phrase. *)
IsSummary(s) == \A c \in CompoundPhrases : c.phrase \in s => c.words \subseteq s

(* The entry a "for key, ... in TABLE: if key in summary" loop stops at. *)
Matching(table, summary) == {i \in DOMAIN table : table[i].key \in summary}
FirstMatch(table, summary) ==
  CHOOSE i \in Matching(table, summary) : \A j \in Matching(table, summary) : i <= j

(* Action tables.  A description stands for its sentence. *)
Template(key, description, risk) ==
  [key |-> key, description |-> description, risk_level |-> risk]

REMEDIATION_PATTERNS ==
  <<Template("connection pool", "roll back the most recent deploy", "medium"),
    Template("thermal",         "drain hosts and open a ticket",    "medium"),
    Template("deploy",          "roll back and re-investigate",     "medium"),
    Template("dns",             "flush the DNS cache",              "low"),
    Template("memory",          "restart the service",              "low")>>

DEFAULT_ACTION == Template("", "escalate to the on-call engineer", "low")
REFUTED_ACTION == Template("", "escalate immediately", "high")

(* Counterfactual rules: bounds of each predicted fractional change. *)
Delta(lower, upper) == [lower_bound |-> lower, upper_bound |-> upper]
Rule(key, deltas, confidence) ==
  [key |-> key, deltas |-> deltas, confidence |-> confidence]

CAUSAL_RULES ==
  <<Rule("connection pool",    {Delta(600, 800), Delta(550, 750), Delta(-50, 50)}, 780),
    Rule("thermal throttling", {Delta(800, 950), Delta(600, 850)}, 700),
    Rule("dns resolution",     {Delta(300, 500), Delta(100, 600)}, 480),
    Rule("deploy regression",  {Delta(650, 850)}, 750),
    Rule("regression",         {Delta(650, 850)}, 750),
    Rule("memory pressure",    {Delta(550, 800), Delta(900, 1000)}, 720),
    Rule("certificate",        {Delta(900, 1000)}, 850),
    Rule("disk pressure",      {Delta(500, 700)}, 680),
    Rule("dependency cascade", {Delta(400, 600)}, 580)>>
=============================================================================
