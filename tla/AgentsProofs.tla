---------------------------- MODULE AgentsProofs ----------------------------
(***************************************************************************)
(* What each agent's step preserves, whatever the constants: the lemmas    *)
(* the proofs about the pipeline and about freely called steps rest on.    *)
(***************************************************************************)
EXTENDS Agents, SequenceTheorems, FiniteSetTheorems, WellFoundedInduction, TLAPS

(***************************************************************************)
(* Extrema of bounded sets of naturals.                                    *)
(***************************************************************************)
(* A non-empty set of naturals has a least element. *)
LEMMA LeastElement ==
  ASSUME NEW S, S \subseteq Nat, S # {}
  PROVE  \E m \in S : \A k \in S : m <= k
<1>1. PICK m \in S : \A k \in S : ~ (<<k, m>> \in OpToRel(<, Nat))
  BY NatLessThanWellFounded, WFMin, Zenon
<1>2. ASSUME NEW k \in S
      PROVE  m <= k
  <2>1. <<k, m>> \in Nat \X Nat
    OBVIOUS
  <2>2. ~ (k < m)
    BY <1>1, <2>1 DEF OpToRel
  <2> QED
    BY <2>2
<1> QED
  BY <1>2

(* A non-empty set of probabilities has a greatest element. *)
LEMMA GreatestElement ==
  ASSUME NEW S, S \subseteq Unit, S # {}
  PROVE  \E m \in S : \A k \in S : k <= m
<1> DEFINE T == {1000 - k : k \in S}
<1>1. \A k \in S : k \in Int /\ 0 <= k /\ k <= 1000
  BY DEF Unit
<1>2. T \subseteq Nat
  BY <1>1
<1>3. T # {}
  OBVIOUS
<1>4. PICK n \in T : \A k \in T : n <= k
  BY <1>2, <1>3, LeastElement
<1>5. PICK m \in S : n = 1000 - m
  OBVIOUS
<1>6. ASSUME NEW k \in S
      PROVE  k <= m
  <2>1. n <= 1000 - k
    BY <1>4
  <2> QED
    BY <1>1, <1>5, <2>1
<1> QED
  BY <1>6

(***************************************************************************)
(* The first match of a table.                                             *)
(***************************************************************************)
(* A table with a match has a first one. *)
LEMMA FirstMatchMatches ==
  ASSUME NEW table, DOMAIN table \subseteq Nat, NEW summary,
         Matching(table, summary) # {}
  PROVE  FirstMatch(table, summary) \in DOMAIN table
<1>1. Matching(table, summary) \subseteq Nat
  BY DEF Matching
<1>2. \E i \in Matching(table, summary) :
        \A j \in Matching(table, summary) : i <= j
  BY <1>1, LeastElement
<1>3. FirstMatch(table, summary) \in Matching(table, summary)
  BY <1>2 DEF FirstMatch
<1> QED
  BY <1>3 DEF Matching

(***************************************************************************)
(* Numbers read from a reply.                                              *)
(***************************************************************************)
(* Whatever a reply spells for a number, a probability is read. *)
LEMMA ReadUnitInUnit ==
  ASSUME NEW x \in Readings, NEW default \in Unit
  PROVE  ReadUnit(x, default) \in Unit
BY ReadingAssumption DEF ReadUnit, Clamp, Readings, Floats, Unit

(***************************************************************************)
(* The prior.                                                              *)
(***************************************************************************)
(* The prior is one of the probabilities matched, or the uniform one. *)
LEMMA PriorOfMatched ==
  ASSUME NEW matched, matched \subseteq Unit
  PROVE  PriorOf(matched) \in matched \cup {UniformPrior}
<1>1. CASE matched = {}
  BY <1>1 DEF PriorOf
<1>2. CASE matched # {}
  <2>1. \E p \in matched : \A q \in matched : q <= p
    BY <1>2, GreatestElement
  <2> QED
    BY <1>2, <2>1 DEF PriorOf
<1> QED
  BY <1>1, <1>2

(* A probability matched is an entry of the classification in the table. *)
LEMMA MatchedInTable ==
  ASSUME NEW classification, NEW summary,
         NEW p \in MatchedPriors(classification, Named(classification, summary))
  PROVE  /\ classification \in DOMAIN FrequencyTable
         /\ \E cause \in DOMAIN FrequencyTable[classification] :
              p = FrequencyTable[classification][cause]
BY DEF MatchedPriors, Named, Causes

(* The probabilities matched are probabilities. *)
LEMMA MatchedInUnit ==
  ASSUME NEW classification, NEW summary
  PROVE  MatchedPriors(classification, Named(classification, summary)) \subseteq Unit
BY MatchedInTable, TableAssumption DEF Unit

(* So is the prior. *)
LEMMA PriorInUnit ==
  ASSUME NEW classification, NEW summary
  PROVE  prior_for(classification, summary) \in Unit
<1>1. UniformPrior \in Unit
  BY DEF UniformPrior, Unit
<1>2. MatchedPriors(classification, Named(classification, summary)) \subseteq Unit
  BY MatchedInUnit
<1> QED
  BY <1>1, <1>2, PriorOfMatched DEF prior_for

(***************************************************************************)
(* The calibrated confidence.                                              *)
(***************************************************************************)
(* The final confidence is the weighted sum itself: its clamp never acts. *)
LEMMA ComputeRange ==
  ASSUME NEW raw \in Unit, NEW prior \in Unit, NEW modifier \in Unit
  PROVE  /\ Compute(raw, prior, modifier) \in 0..10000
         /\ Compute(raw, prior, modifier) = 4 * raw + 4 * prior + 2 * modifier
<1> DEFINE sum == 4 * raw + 4 * prior + 2 * modifier
<1>1. /\ raw \in Int /\ 0 <= raw /\ raw <= 1000
      /\ prior \in Int /\ 0 <= prior /\ prior <= 1000
      /\ modifier \in Int /\ 0 <= modifier /\ modifier <= 1000
  BY DEF Unit
<1>2. sum \in Int /\ 0 <= sum /\ sum <= 10000
  BY <1>1
<1> HIDE DEF sum
<1>3. Compute(raw, prior, modifier) = sum
  BY <1>2 DEF Compute, sum
<1>4. sum \in 0..10000
  BY <1>2
<1> QED
  BY <1>3, <1>4 DEF sum

(* The confidence of agents/confidence.py reaches the floor of             *)
(* agents/action.py only with a prior of at least 0.875, however sure the  *)
(* model is and however little contradicts the hypothesis.                 *)
THEOREM FloorNeedsPrior ==
  ASSUME NEW raw \in Unit, NEW prior \in Unit, NEW modifier \in Unit,
         Compute(raw, prior, modifier) >= 9500
  PROVE  prior >= 875
<1>1. 4 * raw + 4 * prior + 2 * modifier >= 9500
  BY ComputeRange
<1>2. /\ raw \in Int /\ raw <= 1000
      /\ modifier \in Int /\ modifier <= 1000
      /\ prior \in Int
  BY DEF Unit
<1> QED
  BY <1>1, <1>2

(***************************************************************************)
(* Literal sequences.                                                      *)
(***************************************************************************)
(* A function on 1..n is a sequence. *)
LEMMA MappedSeq ==
  ASSUME NEW S, NEW n \in Nat, NEW f \in [1..n -> S]
  PROVE  f \in Seq(S)
BY SeqDef

(* A tuple of one member of S is a sequence over S of length one. *)
LEMMA Single ==
  ASSUME NEW S, NEW a \in S
  PROVE  <<a>> \in Seq(S) /\ Len(<<a>>) = 1
OBVIOUS

(* A tuple of two members of S is a sequence over S. *)
LEMMA Pair ==
  ASSUME NEW S, NEW a \in S, NEW b \in S
  PROVE  <<a, b>> \in Seq(S)
OBVIOUS

(* A tuple of three. *)
LEMMA Triple ==
  ASSUME NEW S, NEW a \in S, NEW b \in S, NEW c \in S
  PROVE  <<a, b, c>> \in Seq(S)
OBVIOUS

(* A tuple of four. *)
LEMMA Quadruple ==
  ASSUME NEW S, NEW a \in S, NEW b \in S, NEW c \in S, NEW d \in S
  PROVE  <<a, b, c, d>> \in Seq(S)
OBVIOUS

(***************************************************************************)
(* The tables and the tools return what their types say.                   *)
(***************************************************************************)
(* A route is a sequence of agent names, for any classification. *)
LEMMA RoutedType ==
  ASSUME NEW classification
  PROVE  Routed(classification) \in Seq(AgentNames)
<1> DEFINE tail == <<"reasoning", "falsifier", "counterfactual", "action">>
<1>1. tail \in Seq(AgentNames)
  BY Quadruple DEF AgentNames
<1>2. /\ <<"telemetry">> \in Seq(AgentNames)
      /\ <<"telemetry", "logs">> \in Seq(AgentNames)
      /\ <<"telemetry", "logs", "deploy">> \in Seq(AgentNames)
  BY Single, Pair, Triple DEF AgentNames
<1> HIDE DEF tail
<1>3. /\ <<"telemetry">> \o tail \in Seq(AgentNames)
      /\ <<"telemetry", "logs">> \o tail \in Seq(AgentNames)
      /\ <<"telemetry", "logs", "deploy">> \o tail \in Seq(AgentNames)
  BY <1>1, <1>2, ConcatProperties
<1>4. ROUTING_TABLE = [network     |-> <<"telemetry">> \o tail,
                       application |-> <<"telemetry", "logs">> \o tail,
                       infra       |-> <<"telemetry", "logs", "deploy">> \o tail,
                       unknown     |-> <<"telemetry", "logs", "deploy">> \o tail]
  BY DEF ROUTING_TABLE, tail
<1>5. \A c \in DOMAIN ROUTING_TABLE :
        c \in {"network", "application", "infra", "unknown"}
  BY <1>4
<1>6. /\ ROUTING_TABLE["network"] \in Seq(AgentNames)
      /\ ROUTING_TABLE["application"] \in Seq(AgentNames)
      /\ ROUTING_TABLE["infra"] \in Seq(AgentNames)
      /\ ROUTING_TABLE["unknown"] \in Seq(AgentNames)
  BY <1>3, <1>4
<1> QED
  BY <1>5, <1>6 DEF Routed

(* The depth of a budget is a natural number, for any severity. *)
LEMMA DepthType ==
  ASSUME NEW severity
  PROVE  Depth(severity) \in Nat
BY DEF Depth, BUDGET_MAP

(* A new budget is a budget. *)
LEMMA BudgetType ==
  ASSUME NEW severity
  PROVE  NewBudget(severity) \in Budget
BY DepthType DEF NewBudget, Budget

(* A metric query answers with a flag and the names of dependencies. *)
LEMMA QueryType ==
  ASSUME NEW service, NEW metric
  PROVE  /\ query_metric(service, metric).anomaly \in BOOLEAN
         /\ query_metric(service, metric).dependencies \in Seq(Dependencies)
<1> DEFINE Typed(r) == r.anomaly \in BOOLEAN /\ r.dependencies \in Seq(Dependencies)
<1>1. ASSUME NEW s, NEW m, NEW a \in BOOLEAN, NEW d \in Seq(Dependencies)
      PROVE  Typed(Series(s, m, a, d))
  BY DEF Series
<1>2. /\ <<>> \in Seq(Dependencies)
      /\ <<"db-proxy", "auth-service">> \in Seq(Dependencies)
      /\ <<"object-store">> \in Seq(Dependencies)
  BY Single, Pair DEF Dependencies
<1> HIDE DEF Typed
<1>3. \A r \in SCENARIOS : Typed(r)
  BY <1>1, <1>2 DEF SCENARIOS
<1>4. Typed(Series(service, metric, FALSE, <<>>))
  BY <1>1, <1>2
<1>5. Typed(query_metric(service, metric))
  BY <1>3, <1>4 DEF query_metric
<1> QED
  BY <1>5 DEF Typed

(* The deploy log answers with a sequence. *)
LEMMA DeploysType ==
  ASSUME NEW service
  PROVE  recent_deploys(service, 60) \in Seq([age : Nat])
<1>1. /\ <<[age |-> 18]>> \in Seq([age : Nat])
      /\ <<[age |-> 180]>> \in Seq([age : Nat])
      /\ <<>> \in Seq([age : Nat])
  <2>1. [age |-> 18] \in [age : Nat] /\ [age |-> 180] \in [age : Nat]
    OBVIOUS
  <2> QED
    BY <2>1, Single
<1>2. CASE service = "db-proxy"
  BY <1>1, <1>2 DEF recent_deploys, DEPLOYS
<1>3. CASE service # "db-proxy" /\ service = "payments-service"
  BY <1>1, <1>3 DEF recent_deploys, DEPLOYS
<1>4. CASE service # "db-proxy" /\ service # "payments-service"
  BY <1>1, <1>4 DEF recent_deploys, DEPLOYS
<1> QED
  BY <1>2, <1>3, <1>4

(* A metric finding is a finding. *)
LEMMA MetricType ==
  ASSUME NEW service \in Subjects, NEW metric
  PROVE  Metric(service, metric) \in Finding
BY DEF Metric, Observed, Finding, Sources, Severities

(* A pass of the telemetry agent collects at least one finding, about the *)
(* alerting metric itself.                                                  *)
LEMMA CollectedType ==
  ASSUME NEW t \in Trigger
  PROVE  /\ Collected(t) \in Seq(Finding)
         /\ Len(Collected(t)) >= 1
<1> DEFINE primary == query_metric(t.service, t.metric)
           deps    == IF primary.anomaly THEN primary.dependencies ELSE <<>>
           deploys == recent_deploys(t.service, 60)
           first   == <<Metric(t.service, t.metric)>>
           second  == [i \in DOMAIN deps |-> Metric(deps[i], "utilization")]
           third   == [i \in DOMAIN deploys |-> Observed("deploy_log", t.service, "info")]
           fourth  == IF search_logs(t.service, "ERROR") = {} THEN <<>>
                      ELSE <<Observed("logs", t.service, "warning")>>
<1>0. t.service \in Subjects
  BY DEF Trigger, Subjects
<1>1. first \in Seq(Finding) /\ Len(first) = 1
  <2>1. Metric(t.service, t.metric) \in Finding
    BY <1>0, MetricType
  <2> QED
    BY <2>1, Single
<1>2. second \in Seq(Finding)
  <2>1. deps \in Seq(Dependencies)
    <3>1. primary.dependencies \in Seq(Dependencies)
      BY QueryType
    <3>2. CASE primary.anomaly
      BY <3>1, <3>2
    <3>3. CASE ~primary.anomaly
      <4>1. deps = <<>>
        BY <3>3
      <4>2. <<>> \in Seq(Dependencies)
        OBVIOUS
      <4> QED
        BY <4>1, <4>2
    <3> QED
      BY <3>2, <3>3
  <2>2. DOMAIN deps = 1..Len(deps) /\ Len(deps) \in Nat
    BY <2>1
  <2> HIDE DEF deps
  <2>3. \A i \in DOMAIN deps : Metric(deps[i], "utilization") \in Finding
    <3>1. \A i \in DOMAIN deps : deps[i] \in Dependencies
      BY <2>1, <2>2
    <3> QED
      BY <3>1, MetricType DEF Subjects
  <2>4. second \in [1..Len(deps) -> Finding]
    BY <2>2, <2>3
  <2> QED
    BY <2>2, <2>4, MappedSeq
<1>3. third \in Seq(Finding)
  <2>1. Observed("deploy_log", t.service, "info") \in Finding
    BY <1>0 DEF Observed, Finding, Sources, Severities
  <2>2. DOMAIN deploys = 1..Len(deploys) /\ Len(deploys) \in Nat
    BY DeploysType
  <2> HIDE DEF deploys
  <2>3. third \in [1..Len(deploys) -> Finding]
    BY <2>1, <2>2
  <2> QED
    BY <2>2, <2>3, MappedSeq
<1>4. fourth \in Seq(Finding)
  <2>1. Observed("logs", t.service, "warning") \in Finding
    BY <1>0 DEF Observed, Finding, Sources, Severities
  <2> QED
    BY <2>1, Single
<1>5. Collected(t) = first \o second \o third \o fourth
  BY DEF Collected
<1> HIDE DEF primary, deps, deploys, first, second, third, fourth
<1>6. first \o second \in Seq(Finding) /\ Len(first \o second) >= 1
  BY <1>1, <1>2, ConcatProperties, LenProperties
<1>7. first \o second \o third \in Seq(Finding) /\ Len(first \o second \o third) >= 1
  BY <1>3, <1>6, ConcatProperties, LenProperties
<1> QED
  BY <1>4, <1>5, <1>7, ConcatProperties, LenProperties

(***************************************************************************)
(* Rules and templates.                                                    *)
(***************************************************************************)
DeltaSet == [lower_bound : Floats, upper_bound : Floats]
RuleKeys ==
  {"", "connection pool", "thermal throttling", "dns resolution", "deploy regression",
   "regression", "memory pressure", "certificate", "disk pressure", "dependency cascade"}
RuleSet == [key : RuleKeys, deltas : SUBSET DeltaSet, confidence : Unit]
TemplateKeys == {"", "connection pool", "thermal", "deploy", "dns", "memory"}
TemplateSet == [key : TemplateKeys, description : Descriptions, risk_level : Risks]

(* A rule is typed when its parts are. *)
LEMMA RuleType ==
  ASSUME NEW key \in RuleKeys, NEW deltas \in SUBSET DeltaSet, NEW confidence \in Unit
  PROVE  Rule(key, deltas, confidence) \in RuleSet
BY DEF RuleSet, Rule

(* A delta between numbers is a delta. *)
LEMMA DeltaType ==
  ASSUME NEW lower \in Floats, NEW upper \in Floats
  PROVE  Delta(lower, upper) \in DeltaSet
BY DEF Delta, DeltaSet

(* The entries of a tuple of nine members of S. *)
LEMMA NineEntries ==
  ASSUME NEW S, NEW a \in S, NEW b \in S, NEW c \in S, NEW d \in S, NEW e \in S,
         NEW f \in S, NEW g \in S, NEW h \in S, NEW k \in S
  PROVE  /\ DOMAIN <<a, b, c, d, e, f, g, h, k>> = 1..9
         /\ \A i \in 1..9 : <<a, b, c, d, e, f, g, h, k>>[i] \in S
OBVIOUS

(* Every causal rule is typed. *)
LEMMA CausalRulesType ==
  /\ DOMAIN CAUSAL_RULES = 1..9
  /\ \A i \in 1..9 : CAUSAL_RULES[i] \in RuleSet
<1> DEFINE
  a == Rule("connection pool", {Delta(600, 800), Delta(550, 750), Delta(-50, 50)}, 780)
  b == Rule("thermal throttling", {Delta(800, 950), Delta(600, 850)}, 700)
  c == Rule("dns resolution", {Delta(300, 500), Delta(100, 600)}, 480)
  d == Rule("deploy regression", {Delta(650, 850)}, 750)
  e == Rule("regression", {Delta(650, 850)}, 750)
  f == Rule("memory pressure", {Delta(550, 800), Delta(900, 1000)}, 720)
  g == Rule("certificate", {Delta(900, 1000)}, 850)
  h == Rule("disk pressure", {Delta(500, 700)}, 680)
  k == Rule("dependency cascade", {Delta(400, 600)}, 580)
<1>1. /\ a \in RuleSet /\ b \in RuleSet /\ c \in RuleSet /\ d \in RuleSet
      /\ e \in RuleSet /\ f \in RuleSet /\ g \in RuleSet /\ h \in RuleSet
      /\ k \in RuleSet
  <2>1. a \in RuleSet
    BY DEF Rule, RuleSet, RuleKeys, Unit, Delta, DeltaSet, Floats
  <2>2. b \in RuleSet
    BY DEF Rule, RuleSet, RuleKeys, Unit, Delta, DeltaSet, Floats
  <2>3. c \in RuleSet
    BY DEF Rule, RuleSet, RuleKeys, Unit, Delta, DeltaSet, Floats
  <2>4. d \in RuleSet
    BY DEF Rule, RuleSet, RuleKeys, Unit, Delta, DeltaSet, Floats
  <2>5. e \in RuleSet
    BY DEF Rule, RuleSet, RuleKeys, Unit, Delta, DeltaSet, Floats
  <2>6. f \in RuleSet
    BY DEF Rule, RuleSet, RuleKeys, Unit, Delta, DeltaSet, Floats
  <2>7. g \in RuleSet
    BY DEF Rule, RuleSet, RuleKeys, Unit, Delta, DeltaSet, Floats
  <2>8. h \in RuleSet
    BY DEF Rule, RuleSet, RuleKeys, Unit, Delta, DeltaSet, Floats
  <2>9. k \in RuleSet
    BY DEF Rule, RuleSet, RuleKeys, Unit, Delta, DeltaSet, Floats
  <2> HIDE DEF a, b, c, d, e, f, g, h, k
  <2> QED
    BY <2>1, <2>2, <2>3, <2>4, <2>5, <2>6, <2>7, <2>8, <2>9
<1>2. CAUSAL_RULES = <<a, b, c, d, e, f, g, h, k>>
  BY DEF CAUSAL_RULES
<1> HIDE DEF a, b, c, d, e, f, g, h, k
<1> QED
  BY <1>1, <1>2, NineEntries

(* A prediction read from a reply is typed. *)
LEMMA PredictionType ==
  ASSUME NEW reply \in PredictionReplies
  PROVE  ParsePrediction(reply) \in RuleSet
<1>1. reply \in PredictionReply
  BY ReplyAssumption
<1>2. ReadUnit(reply.prediction_confidence, 300) \in Unit
  <2>1. reply.prediction_confidence \in Readings /\ 300 \in Unit
    BY <1>1 DEF PredictionReply, Unit
  <2> QED
    BY <2>1, ReadUnitInUnit
<1>3. {Delta(Bound(d.lower, 0), Bound(d.upper, 1000)) : d \in reply.deltas}
        \in SUBSET DeltaSet
  <2>1. ASSUME NEW d \in reply.deltas
        PROVE  Delta(Bound(d.lower, 0), Bound(d.upper, 1000))
                 \in DeltaSet
    <3>1. d.lower \in Readings /\ d.upper \in Readings
      BY <1>1 DEF PredictionReply
    <3>2. Bound(d.lower, 0) \in Floats /\ Bound(d.upper, 1000) \in Floats
      BY <3>1 DEF Bound, Readings, Floats
    <3> QED
      BY <3>2, DeltaType
  <2> QED
    BY <2>1
<1>4. {Delta(0, 1000)} \in SUBSET DeltaSet
  BY DeltaType DEF Floats
<1> DEFINE parsed == IF reply.deltas = {} THEN {Delta(0, 1000)}
                     ELSE {Delta(Bound(d.lower, 0), Bound(d.upper, 1000)) : d \in reply.deltas}
           confidence == ReadUnit(reply.prediction_confidence, 300)
<1>5. parsed \in SUBSET DeltaSet
  BY <1>3, <1>4
<1>6. ParsePrediction(reply) = Rule("", parsed, confidence)
  BY DEF ParsePrediction
<1>7. "" \in RuleKeys
  BY DEF RuleKeys
<1> HIDE DEF parsed, confidence
<1>8. confidence \in Unit
  BY <1>2 DEF confidence
<1> QED
  BY <1>5, <1>6, <1>7, <1>8, RuleType

(* The entries of a tuple of five members of S. *)
LEMMA FiveEntries ==
  ASSUME NEW S, NEW a \in S, NEW b \in S, NEW c \in S, NEW d \in S, NEW e \in S
  PROVE  /\ DOMAIN <<a, b, c, d, e>> = 1..5
         /\ \A i \in 1..5 : <<a, b, c, d, e>>[i] \in S
OBVIOUS

(* The template of the remediation drafted is typed. *)
LEMMA SelectedType == Selected \in TemplateSet
<1>1. DOMAIN REMEDIATION_PATTERNS = 1..5
  BY DEF REMEDIATION_PATTERNS
<1>2. DEFAULT_ACTION \in TemplateSet
  BY DEF DEFAULT_ACTION, Template, TemplateSet, TemplateKeys, Descriptions, Risks
<1>3. \A i \in 1..5 : REMEDIATION_PATTERNS[i] \in TemplateSet
  <2> DEFINE
    a == Template("connection pool", "roll back the most recent deploy", "medium")
    b == Template("thermal", "drain hosts and open a ticket", "medium")
    c == Template("deploy", "roll back and re-investigate", "medium")
    d == Template("dns", "flush the DNS cache", "low")
    e == Template("memory", "restart the service", "low")
  <2>1. REMEDIATION_PATTERNS = <<a, b, c, d, e>>
    BY DEF REMEDIATION_PATTERNS
  <2>2. /\ a.description \in Descriptions /\ b.description \in Descriptions
        /\ c.description \in Descriptions /\ d.description \in Descriptions
        /\ e.description \in Descriptions
    <3>1. \A i \in 1..5 : REMEDIATION_PATTERNS[i].description \in Descriptions
      BY <1>1 DEF Descriptions
    <3> HIDE DEF a, b, c, d, e
    <3> QED
      BY <2>1, <3>1
  <2>3. /\ a \in TemplateSet /\ b \in TemplateSet /\ c \in TemplateSet
        /\ d \in TemplateSet /\ e \in TemplateSet
    BY <2>2 DEF Template, TemplateSet, TemplateKeys, Risks
  <2> HIDE DEF a, b, c, d, e
  <2> QED
    BY <2>1, <2>3, FiveEntries
<1> QED
  BY <1>1, <1>2, <1>3, FirstMatchMatches DEF Selected

(***************************************************************************)
(* Every step keeps the types.                                             *)
(***************************************************************************)
(* An entry recorded on a trail gives a trail. *)
LEMMA StepType ==
  ASSUME NEW agent \in AgentNames, NEW event \in Events
  PROVE  Step(agent, event) \in AgentStep
BY DEF Step, AgentStep

(* So does any sequence of entries. *)
LEMMA TrailType ==
  ASSUME NEW trail \in Seq(AgentStep), NEW more \in Seq(AgentStep)
  PROVE  trail \o more \in Seq(AgentStep)
BY ConcatProperties

(* A new investigation is well typed. *)
LEMMA NewStateTyped ==
  ASSUME NEW t \in Trigger, new_state(t)
  PROVE  TypeOK
<1>1. Step("system", "opened") \in AgentStep
  BY StepType DEF AgentNames, Events
<1>2. <<Step("system", "opened")>> \in Seq(AgentStep)
  BY <1>1, Single
<1>3. /\ <<>> \in Seq(AgentNames) /\ <<>> \in Seq(Finding) /\ <<>> \in Seq(Action)
  OBVIOUS
<1> QED
  BY <1>2, <1>3, BudgetType DEF TypeOK, new_state

(* The supervisor keeps the types. *)
LEMMA SupervisorTyped ==
  ASSUME TypeOK, supervisor_step
  PROVE  TypeOK'
<1>1. Step("supervisor", "routed") \in AgentStep
  BY StepType DEF AgentNames, Events
<1>2. audit_trail' \in Seq(AgentStep)
  <2>1. audit_trail' = Append(audit_trail, Step("supervisor", "routed"))
    BY DEF supervisor_step, Record
  <2>2. audit_trail \in Seq(AgentStep)
    BY DEF TypeOK
  <2> QED
    BY <1>1, <2>1, <2>2, AppendProperties
<1>3. routed_to' \in Seq(AgentNames) /\ budget' \in Budget
  BY RoutedType, BudgetType DEF supervisor_step
<1> QED
  BY <1>2, <1>3 DEF TypeOK, supervisor_step

(* The telemetry agent keeps the types. *)
LEMMA TelemetryTyped ==
  ASSUME TypeOK, telemetry_step
  PROVE  TypeOK'
<1>1. Step("telemetry", "collected") \in AgentStep
  BY StepType DEF AgentNames, Events
<1>2. audit_trail' \in Seq(AgentStep)
  <2>1. audit_trail' = Append(audit_trail, Step("telemetry", "collected"))
    BY DEF telemetry_step, Record
  <2>2. audit_trail \in Seq(AgentStep)
    BY DEF TypeOK
  <2> QED
    BY <1>1, <2>1, <2>2, AppendProperties
<1>3. telemetry_findings' \in Seq(Finding)
  <2>1. telemetry_findings' = telemetry_findings \o Collected(trigger)
    BY DEF telemetry_step
  <2>2. telemetry_findings \in Seq(Finding) /\ trigger \in Trigger
    BY DEF TypeOK
  <2> QED
    BY <2>1, <2>2, CollectedType, ConcatProperties
<1> QED
  BY <1>2, <1>3 DEF TypeOK, telemetry_step

(* A calibrated confidence is one, whatever the table holds. *)
LEMMA CalibratedType ==
  ASSUME NEW raw \in Unit, NEW prior \in Unit, NEW modifier \in Unit
  PROVE  Calibrated(raw, prior, modifier) \in CalibratedConfidence
<1> DEFINE final == Compute(raw, prior, modifier)
           range == 0..10000
<1>1. final \in range
  BY ComputeRange
<1>2. CalibratedConfidence =
        [raw_llm : Unit, prior : Unit, falsification_modifier : Unit, final : range]
  BY DEF CalibratedConfidence
<1>3. Calibrated(raw, prior, modifier) =
        [raw_llm |-> raw, prior |-> prior, falsification_modifier |-> modifier,
         final |-> final]
  BY DEF Calibrated
<1> HIDE DEF final, range
<1> QED
  BY <1>1, <1>2, <1>3

LEMMA FinalInRange == \A c \in CalibratedConfidence : c.final \in 0..10000
<1> DEFINE range == 0..10000
<1>1. CalibratedConfidence =
        [raw_llm : Unit, prior : Unit, falsification_modifier : Unit, final : range]
  BY DEF CalibratedConfidence
<1> HIDE DEF range
<1>2. \A c \in CalibratedConfidence : c.final \in range
  BY <1>1
<1> QED
  BY <1>2 DEF range

(* The claims of a hypothesis cite findings by number, at least one each. *)
LEMMA ClaimsType ==
  ASSUME TypeOK, NEW lines \in SUBSET ClaimLine
  PROVE  GroundedClaims(lines) \in SUBSET Claim /\ FallbackClaims \in SUBSET Claim
<1>1. FindingIds \subseteq Nat
  BY DEF FindingIds, TypeOK
<1>2. GroundedClaims(lines) \in SUBSET Claim
  BY <1>1 DEF GroundedClaims, Claim, ClaimLine
<1>3. FallbackIds \subseteq Nat
  BY <1>1 DEF FallbackIds, AnomalousIds
<1>4. FallbackClaims \in SUBSET Claim
  <2>1. FallbackIds # {} => [line |-> 0, supporting_finding_ids |-> FallbackIds] \in Claim
    BY <1>3 DEF Claim
  <2> QED
    BY <2>1 DEF FallbackClaims
<1> QED
  BY <1>2, <1>4

(* A hypothesis is made of its parts. *)
LEMMA HypothesisMade ==
  ASSUME NEW summary \in SUBSET STRING, NEW claims \in SUBSET Claim,
         NEW confidence \in CalibratedConfidence, NEW number \in Nat,
         NEW dropped \in SUBSET Nat
  PROVE  [summary |-> summary, claims |-> claims, confidence |-> confidence,
          revision |-> number, dropped |-> dropped] \in Hypothesis
BY DEF Hypothesis

(* A hypothesis with another confidence is one. *)
LEMMA HypothesisRescored ==
  ASSUME NEW h \in Hypothesis, NEW c \in CalibratedConfidence
  PROVE  [h EXCEPT !.confidence = c] \in Hypothesis
BY DEF Hypothesis

(* The reasoning agent keeps the types, and leaves a hypothesis. *)
LEMMA ReasoningTyped ==
  ASSUME TypeOK, NEW reply \in ReasoningReplies, reasoning_step(reply)
  PROVE  TypeOK' /\ causal_hypothesis' \in Hypothesis
<1> DEFINE grounded   == GroundedClaims(reply.claims)
           raw        == ReadUnit(reply.raw_confidence, 0)
           confidence == calibrate(trigger.classification, raw, reply.summary)
           fallback   == IF grounded = {} THEN <<Step("reasoning", "fallback")>> ELSE <<>>
           dropped    == {c.line : c \in reply.claims} \ {c.line : c \in grounded}
<1>1. reply \in ReasoningReply
  BY ReplyAssumption
<1>2. confidence \in CalibratedConfidence
  <2>1. raw \in Unit
    <3>1. reply.raw_confidence \in Readings /\ 0 \in Unit
      BY <1>1 DEF ReasoningReply, Unit
    <3> QED
      BY <3>1, ReadUnitInUnit
  <2>2. 500 \in Unit
    BY DEF Unit
  <2> HIDE DEF raw
  <2> QED
    BY <2>1, <2>2, PriorInUnit, CalibratedType DEF calibrate
<1>3. grounded \in SUBSET Claim /\ FallbackClaims \in SUBSET Claim
  BY <1>1, ClaimsType DEF ReasoningReply
<1>4. dropped \in SUBSET Nat
  BY <1>1 DEF ReasoningReply, ClaimLine
<1>5. audit_trail' \in Seq(AgentStep)
  <2>1. /\ Step("reasoning", "fallback") \in AgentStep
        /\ Step("reasoning", "hypothesis") \in AgentStep
    BY StepType DEF AgentNames, Events
  <2>2. /\ <<Step("reasoning", "fallback")>> \in Seq(AgentStep)
        /\ <<Step("reasoning", "hypothesis")>> \in Seq(AgentStep)
        /\ <<>> \in Seq(AgentStep)
    BY <2>1, Single
  <2>3. fallback \in Seq(AgentStep)
    BY <2>2
  <2>4. audit_trail \in Seq(AgentStep)
    BY DEF TypeOK
  <2>5. audit_trail' = audit_trail \o fallback \o <<Step("reasoning", "hypothesis")>>
    BY DEF reasoning_step
  <2> HIDE DEF fallback
  <2> QED
    BY <2>2, <2>3, <2>4, <2>5, TrailType
<1>6. causal_hypothesis' =
        [summary |-> reply.summary,
         claims |-> IF grounded = {} THEN FallbackClaims ELSE grounded,
         confidence |-> confidence, revision |-> revision + 1, dropped |-> dropped]
  BY DEF reasoning_step
<1>7. confidence_score' = confidence.final
  BY DEF reasoning_step
<1>8. reply.summary \in SUBSET STRING
  BY <1>1 DEF ReasoningReply
<1>9. revision' = revision + 1 /\ revision \in Nat
  <2>1. revision' = revision + 1
    BY Zenon DEF reasoning_step
  <2> QED
    BY <2>1 DEF TypeOK
<1>10. UNCHANGED <<trigger, routed_to, budget, telemetry_findings, falsification,
                   counterfactual, recommended_actions, requires_human_approval>>
  BY Zenon DEF reasoning_step
<1> HIDE DEF grounded, raw, confidence, fallback, dropped
<1>11. causal_hypothesis' \in Hypothesis
  <2> DEFINE claims == IF grounded = {} THEN FallbackClaims ELSE grounded
             number == revision + 1
  <2>1. claims \in SUBSET Claim
    BY <1>3, Zenon
  <2>2. number \in Nat
    BY <1>9
  <2>3. causal_hypothesis' =
          [summary |-> reply.summary, claims |-> claims, confidence |-> confidence,
           revision |-> number, dropped |-> dropped]
    BY <1>6, Zenon
  <2> HIDE DEF claims, number
  <2> QED
    BY <1>2, <1>4, <1>8, <2>1, <2>2, <2>3, HypothesisMade, Zenon
<1>12. confidence_score' \in 0..10000
  BY <1>2, <1>7, FinalInRange
<1> QED
  BY <1>5, <1>9, <1>10, <1>11, <1>12 DEF TypeOK

(* The updated confidence of a hypothesis is a confidence. *)
LEMMA UpdatedType ==
  ASSUME NEW cal \in CalibratedConfidence, NEW score \in Unit
  PROVE  update_with_falsification(cal, score) \in CalibratedConfidence
<1> DEFINE modifier == IF score > 1000 THEN 0 ELSE 1000 - score
<1>1. modifier \in Unit
  BY DEF Unit
<1>2. cal.raw_llm \in Unit /\ cal.prior \in Unit
  BY DEF CalibratedConfidence
<1> HIDE DEF modifier
<1>3. Calibrated(cal.raw_llm, cal.prior, modifier) \in CalibratedConfidence
  BY <1>1, <1>2, CalibratedType
<1> QED
  BY <1>3 DEF update_with_falsification, modifier

(* A falsification read from a reply is one. *)
LEMMA ParsedFalsificationType ==
  ASSUME TypeOK, causal_hypothesis # None, NEW reply \in FalsifierReplies
  PROVE  ParseFalsification(reply) \in FalsificationResult
<1>1. reply \in FalsifierReply
  BY ReplyAssumption
<1>2. ReadUnit(reply.falsification_score, 450) \in Unit
  <2>1. reply.falsification_score \in Readings /\ 450 \in Unit
    BY <1>1 DEF FalsifierReply, Unit
  <2> QED
    BY <2>1, ReadUnitInUnit
<1>3. (IF reply.verdict = Garbled THEN "contested" ELSE reply.verdict) \in Verdicts
  BY <1>1 DEF FalsifierReply, Verdicts
<1>4. /\ {c.line : c \in reply.contradictions} \in SUBSET Nat
      /\ {c \in reply.contradictions : c.finding # Garbled}
           \in SUBSET [line : Nat, finding : Int]
  BY <1>1 DEF FalsifierReply
<1>5. causal_hypothesis.revision \in Nat
  BY DEF TypeOK, Hypothesis
<1> QED
  BY <1>2, <1>3, <1>4, <1>5 DEF ParseFalsification, FalsificationResult

(* The falsifier keeps the types when there is nothing to review. *)
LEMMA FalsifierSkipTyped ==
  ASSUME TypeOK, falsifier_skip
  PROVE  TypeOK'
<1>1. Step("falsifier", "skipped") \in AgentStep
  BY StepType DEF AgentNames, Events
<1>2. audit_trail' \in Seq(AgentStep)
  BY <1>1, AppendProperties DEF falsifier_skip, Record, TypeOK
<1>3. SkippedFalsification \in FalsificationResult
  BY DEF SkippedFalsification, FalsificationResult, Verdicts, Unit
<1> QED
  BY <1>2, <1>3 DEF TypeOK, falsifier_skip

(* The falsifier keeps the types when it reviews a hypothesis, and leaves   *)
(* that hypothesis.                                                        *)
LEMMA FalsifierReviewTyped ==
  ASSUME TypeOK, NEW reply \in FalsifierReplies, falsifier_review(reply)
  PROVE  TypeOK' /\ causal_hypothesis' \in Hypothesis
<1> DEFINE result    == ParseFalsification(reply)
           updated   == update_with_falsification(causal_hypothesis.confidence,
                                                  result.falsification_score)
           extending == CanExtend(result.verdict)
           extension == IF extending THEN <<Step("falsifier", "extension")>> ELSE <<>>
<1>0. causal_hypothesis # None
  BY Zenon DEF falsifier_review
<1>1. causal_hypothesis \in Hypothesis
  BY <1>0 DEF TypeOK
<1>2. result \in FalsificationResult
  BY <1>0, ParsedFalsificationType
<1>3. updated \in CalibratedConfidence
  <2>1. result.falsification_score \in Unit
    BY <1>2 DEF FalsificationResult
  <2>2. causal_hypothesis.confidence \in CalibratedConfidence
    BY <1>1 DEF Hypothesis
  <2> HIDE DEF result
  <2> QED
    BY <2>1, <2>2, UpdatedType
<1>4. audit_trail' \in Seq(AgentStep)
  <2>1. result.verdict \in Events
    BY <1>2 DEF FalsificationResult, Events
  <2>2. audit_trail' = audit_trail \o extension \o <<Step("falsifier", result.verdict)>>
    BY Zenon DEF falsifier_review
  <2> HIDE DEF result, extending
  <2>3. /\ Step("falsifier", "extension") \in AgentStep
        /\ Step("falsifier", result.verdict) \in AgentStep
    BY <2>1, StepType DEF AgentNames, Events
  <2>4. /\ <<Step("falsifier", "extension")>> \in Seq(AgentStep)
        /\ <<Step("falsifier", result.verdict)>> \in Seq(AgentStep)
        /\ <<>> \in Seq(AgentStep)
    BY <2>3, Single
  <2>5. extension \in Seq(AgentStep)
    BY <2>4
  <2>6. audit_trail \in Seq(AgentStep)
    BY DEF TypeOK
  <2> HIDE DEF extension
  <2> QED
    BY <2>2, <2>4, <2>5, <2>6, TrailType
<1>5. /\ falsification' = result
      /\ causal_hypothesis' = [causal_hypothesis EXCEPT !.confidence = updated]
      /\ confidence_score' = updated.final
      /\ budget' = IF extending THEN [budget EXCEPT !.extensions_granted = @ + 1] ELSE budget
      /\ UNCHANGED <<trigger, routed_to, telemetry_findings, counterfactual,
                     recommended_actions, requires_human_approval, revision>>
  BY Zenon DEF falsifier_review
<1> HIDE DEF result, updated, extending, extension
<1>6. causal_hypothesis' \in Hypothesis
  BY <1>1, <1>3, <1>5, HypothesisRescored, Zenon
<1>7. confidence_score' \in 0..10000
  <2>1. confidence_score' = updated.final
    BY <1>5, Zenon
  <2> QED
    BY <1>3, <2>1, FinalInRange
<1>8. budget' \in Budget
  <2>1. budget \in Budget
    BY DEF TypeOK
  <2>2. [budget EXCEPT !.extensions_granted = @ + 1] \in Budget
    BY <2>1 DEF Budget
  <2>3. CASE extending
    BY <1>5, <2>2, <2>3
  <2>4. CASE ~extending
    BY <1>5, <2>1, <2>4
  <2> QED
    BY <2>3, <2>4
<1>9. /\ trigger' = trigger /\ routed_to' = routed_to
      /\ telemetry_findings' = telemetry_findings /\ counterfactual' = counterfactual
      /\ recommended_actions' = recommended_actions
      /\ requires_human_approval' = requires_human_approval /\ revision' = revision
  BY <1>5, Zenon
<1>10. falsification' \in FalsificationResult
  BY <1>2, <1>5, Zenon
<1> QED
  BY <1>4, <1>6, <1>7, <1>8, <1>9, <1>10 DEF TypeOK

(* The counterfactual simulator keeps the types when it has nothing to do. *)
LEMMA CounterfactualSkipTyped ==
  ASSUME TypeOK, counterfactual_skip
  PROVE  TypeOK'
<1>1. Step("counterfactual", "skipped") \in AgentStep
  BY StepType DEF AgentNames, Events
<1>2. audit_trail' \in Seq(AgentStep)
  BY <1>1, AppendProperties DEF counterfactual_skip, Record, TypeOK
<1> QED
  BY <1>2 DEF TypeOK, counterfactual_skip

(* A prediction, by rule or by a model, keeps the types. *)
LEMMA PredictTyped ==
  ASSUME TypeOK, causal_hypothesis # None, NEW rule \in RuleSet,
         NEW method \in {"rule_based", "llm_assisted"}, Predict(rule, method)
  PROVE  TypeOK' /\ counterfactual' \in CounterfactualPrediction
<1>1. Step("counterfactual", "predicted") \in AgentStep
  BY StepType DEF AgentNames, Events
<1>2. audit_trail' \in Seq(AgentStep)
  BY <1>1, AppendProperties DEF Predict, Record, TypeOK
<1>3. ProposedAction \in Descriptions \cup {"proposed remediation"}
  <2>1. CASE recommended_actions = <<>>
    BY <2>1 DEF ProposedAction
  <2>2. CASE recommended_actions # <<>>
    <3>1. recommended_actions[1] \in Action
      BY <2>2 DEF TypeOK
    <3> QED
      BY <2>2, <3>1 DEF ProposedAction, Action
  <2> QED
    BY <2>1, <2>2
<1>4. causal_hypothesis.revision \in Nat
  BY DEF TypeOK, Hypothesis
<1>5. counterfactual' \in CounterfactualPrediction
  BY <1>3, <1>4 DEF Predict, RuleSet, DeltaSet, CounterfactualPrediction
<1> QED
  BY <1>2, <1>5 DEF TypeOK, Predict

(* The counterfactual simulator keeps the types, and leaves a prediction   *)
(* where there is a hypothesis. *)
LEMMA CounterfactualTyped ==
  ASSUME TypeOK, counterfactual_step
  PROVE  /\ TypeOK'
         /\ causal_hypothesis # None => counterfactual' \in CounterfactualPrediction
<1>1. CASE counterfactual_skip
  BY <1>1, CounterfactualSkipTyped DEF counterfactual_skip
<1>2. CASE counterfactual_rule
  <2> DEFINE rule == CAUSAL_RULES[FirstMatch(CAUSAL_RULES, causal_hypothesis.summary)]
  <2>1. rule \in RuleSet
    BY <1>2, CausalRulesType, FirstMatchMatches DEF counterfactual_rule, HasRule
  <2>2. causal_hypothesis # None /\ Predict(rule, "rule_based")
    BY <1>2 DEF counterfactual_rule
  <2> HIDE DEF rule
  <2> QED
    BY <2>1, <2>2, PredictTyped
<1>3. ASSUME NEW reply \in PredictionReplies, counterfactual_ask(reply)
      PROVE  TypeOK' /\ counterfactual' \in CounterfactualPrediction
  <2>1. ParsePrediction(reply) \in RuleSet
    BY PredictionType
  <2> QED
    BY <1>3, <2>1, PredictTyped DEF counterfactual_ask
<1> QED
  BY <1>1, <1>2, <1>3 DEF counterfactual_step

(* An action added to the recommendations keeps the types. *)
LEMMA RecommendTyped ==
  ASSUME TypeOK, NEW template \in TemplateSet, NEW approval \in BOOLEAN,
         NEW event \in Events, Recommend(Draft(template, approval), event)
  PROVE  TypeOK'
<1>1. Step("action", event) \in AgentStep
  BY StepType DEF AgentNames
<1>2. audit_trail' \in Seq(AgentStep)
  BY <1>1, AppendProperties DEF Recommend, Record, TypeOK
<1>3. HypothesisRevision \in Nat
  BY DEF HypothesisRevision, TypeOK, Hypothesis
<1>4. Draft(template, approval) \in Action
  BY <1>3 DEF Draft, TemplateSet, Action
<1>5. recommended_actions' \in Seq(Action)
  BY <1>4, AppendProperties DEF Recommend, TypeOK
<1>6. requires_human_approval' \in BOOLEAN
  BY <1>4 DEF Recommend, Action
<1> QED
  BY <1>2, <1>5, <1>6 DEF TypeOK, Recommend

(* The action agent keeps the types. *)
LEMMA ActionTyped ==
  ASSUME TypeOK, action_step
  PROVE  TypeOK'
<1>1. CASE action_veto
  <2>1. REFUTED_ACTION \in TemplateSet
    BY DEF REFUTED_ACTION, Template, TemplateSet, TemplateKeys, Descriptions, Risks
  <2>2. "vetoed" \in Events
    BY DEF Events
  <2> QED
    BY <1>1, <2>1, <2>2, RecommendTyped DEF action_veto
<1>2. CASE action_draft
  <2>1. (~Autonomous) \in BOOLEAN /\ "recommended" \in Events
    BY DEF Events
  <2> QED
    BY <1>2, <2>1, SelectedType, RecommendTyped DEF action_draft
<1> QED
  BY <1>1, <1>2 DEF action_step

(* So does any step, in any order. *)
LEMMA AnyStepTyped ==
  ASSUME TypeOK, AnyStep
  PROVE  TypeOK'
<1>1. CASE reasoning
  BY <1>1, ReasoningTyped DEF reasoning
<1>2. CASE falsifier_step
  BY <1>2, FalsifierSkipTyped, FalsifierReviewTyped DEF falsifier_step
<1> QED
  BY <1>1, <1>2, SupervisorTyped, TelemetryTyped, CounterfactualTyped, ActionTyped
     DEF AnyStep

(***************************************************************************)
(* The inductive invariant of the agents' steps: it holds of a new state   *)
(* and every step keeps it, in whatever order the steps are called and     *)
(* whatever the models reply.                                              *)
(***************************************************************************)
(* What makes the properties inductive: a verdict is never about a         *)
(* hypothesis to come, and no hypothesis means no confidence.              *)
Numbered ==
  /\ causal_hypothesis # None => causal_hypothesis.revision = revision
  /\ causal_hypothesis = None => confidence_score = 0
  /\ falsification # None => falsification.of <= revision

(* The flag of the state is the one of the action recommended last.        *)
FlagOfLastAction ==
  requires_human_approval =
    IF recommended_actions = <<>> THEN TRUE
    ELSE recommended_actions[Len(recommended_actions)].requires_approval

StepInvariant ==
  /\ TypeOK
  /\ Numbered
  /\ ClaimsGrounded
  /\ ConfidenceConsistent
  /\ FlagOfLastAction
  /\ HumanAlwaysAsked

(***************************************************************************)
(* What the steps other than the one concerned leave alone.                *)
(***************************************************************************)
(* A step that is not the reasoning agent's, nor a review, keeps the       *)
(* hypothesis and its confidence.                                          *)
LEMMA OthersKeepHypothesis ==
  ASSUME supervisor_step \/ telemetry_step \/ falsifier_skip
           \/ counterfactual_step \/ action_step
  PROVE  UNCHANGED <<trigger, causal_hypothesis, confidence_score, revision>>
<1>1. CASE supervisor_step
  BY <1>1 DEF supervisor_step
<1>2. CASE telemetry_step
  BY <1>2 DEF telemetry_step
<1>3. CASE falsifier_skip
  BY <1>3 DEF falsifier_skip
<1>4. CASE counterfactual_step
  BY <1>4 DEF counterfactual_step, counterfactual_skip, counterfactual_rule,
              counterfactual_ask, Predict
<1>5. CASE action_step
  BY <1>5 DEF action_step, action_veto, action_draft, Recommend
<1> QED
  BY <1>1, <1>2, <1>3, <1>4, <1>5

(* A step that is not the falsifier's keeps the verdict. *)
LEMMA OthersKeepVerdict ==
  ASSUME supervisor_step \/ telemetry_step \/ reasoning
           \/ counterfactual_step \/ action_step
  PROVE  falsification' = falsification
<1>1. CASE supervisor_step
  BY <1>1 DEF supervisor_step
<1>2. CASE telemetry_step
  BY <1>2 DEF telemetry_step
<1>3. CASE reasoning
  <2>1. PICK reply \in ReasoningReplies : reasoning_step(reply)
    BY <1>3 DEF reasoning
  <2> QED
    BY <2>1, Zenon DEF reasoning_step
<1>4. CASE counterfactual_step
  BY <1>4 DEF counterfactual_step, counterfactual_skip, counterfactual_rule,
              counterfactual_ask, Predict
<1>5. CASE action_step
  BY <1>5 DEF action_step, action_veto, action_draft, Recommend
<1> QED
  BY <1>1, <1>2, <1>3, <1>4, <1>5

(* A step that is not the action agent's keeps the recommendations. *)
LEMMA OthersKeepActions ==
  ASSUME supervisor_step \/ telemetry_step \/ reasoning
           \/ falsifier_step \/ counterfactual_step
  PROVE  UNCHANGED <<recommended_actions, requires_human_approval>>
<1>1. CASE supervisor_step
  BY <1>1 DEF supervisor_step
<1>2. CASE telemetry_step
  BY <1>2 DEF telemetry_step
<1>3. CASE reasoning
  <2>1. PICK reply \in ReasoningReplies : reasoning_step(reply)
    BY <1>3 DEF reasoning
  <2>2. UNCHANGED <<trigger, routed_to, budget, telemetry_findings, falsification,
                    counterfactual, recommended_actions, requires_human_approval>>
    BY <2>1, Zenon DEF reasoning_step
  <2> QED
    BY <2>2
<1>4. CASE falsifier_step
  <2>1. CASE falsifier_skip
    BY <2>1 DEF falsifier_skip
  <2>2. ASSUME NEW reply \in FalsifierReplies, falsifier_review(reply)
        PROVE  UNCHANGED <<recommended_actions, requires_human_approval>>
    <3>1. UNCHANGED <<trigger, routed_to, telemetry_findings, counterfactual,
                      recommended_actions, requires_human_approval, revision>>
      BY <2>2, Zenon DEF falsifier_review
    <3> QED
      BY <3>1
  <2> QED
    BY <1>4, <2>1, <2>2 DEF falsifier_step
<1>5. CASE counterfactual_step
  BY <1>5 DEF counterfactual_step, counterfactual_skip, counterfactual_rule,
              counterfactual_ask, Predict
<1> QED
  BY <1>1, <1>2, <1>3, <1>4, <1>5

(***************************************************************************)
(* A new hypothesis and a review, field by field.                          *)
(***************************************************************************)
(* The hypothesis the reasoning agent leaves. *)
LEMMA ReasoningEffect ==
  ASSUME NEW reply \in ReasoningReplies, reasoning_step(reply)
  PROVE  LET grounded == GroundedClaims(reply.claims)
             h        == causal_hypothesis'
         IN  /\ h.summary = reply.summary
             /\ h.claims = IF grounded = {} THEN FallbackClaims ELSE grounded
             /\ h.confidence = calibrate(trigger.classification,
                                         ReadUnit(reply.raw_confidence, 0), reply.summary)
             /\ h.revision = revision + 1
             /\ confidence_score' = h.confidence.final
             /\ revision' = revision + 1
             /\ trigger' = trigger /\ telemetry_findings' = telemetry_findings
             /\ falsification' = falsification
<1> DEFINE grounded   == GroundedClaims(reply.claims)
           claims     == IF grounded = {} THEN FallbackClaims ELSE grounded
           confidence == calibrate(trigger.classification,
                                   ReadUnit(reply.raw_confidence, 0), reply.summary)
           dropped    == {c.line : c \in reply.claims} \ {c.line : c \in grounded}
<1>1. /\ causal_hypothesis' = [summary |-> reply.summary, claims |-> claims,
                               confidence |-> confidence, revision |-> revision + 1,
                               dropped |-> dropped]
      /\ confidence_score' = confidence.final
      /\ revision' = revision + 1
  BY Zenon DEF reasoning_step
<1>2. UNCHANGED <<trigger, routed_to, budget, telemetry_findings, falsification,
                  counterfactual, recommended_actions, requires_human_approval>>
  BY Zenon DEF reasoning_step
<1> HIDE DEF grounded, claims, confidence, dropped
<1>3. /\ causal_hypothesis'.summary = reply.summary
      /\ causal_hypothesis'.claims = claims
      /\ causal_hypothesis'.confidence = confidence
      /\ causal_hypothesis'.revision = revision + 1
      /\ confidence_score' = causal_hypothesis'.confidence.final
  BY <1>1
<1> QED
  BY <1>1, <1>2, <1>3 DEF grounded, claims, confidence

(* The hypothesis and the verdict the falsifier leaves. *)
LEMMA ReviewEffect ==
  ASSUME TypeOK, NEW reply \in FalsifierReplies, falsifier_review(reply)
  PROVE  LET h     == causal_hypothesis
             score == falsification'.falsification_score
             c     == h.confidence
         IN  /\ h \in Hypothesis
             /\ falsification' \in FalsificationResult
             /\ falsification'.of = h.revision
             /\ causal_hypothesis' =
                  [h EXCEPT !.confidence = Calibrated(c.raw_llm, c.prior, 1000 - score)]
             /\ confidence_score' = Calibrated(c.raw_llm, c.prior, 1000 - score).final
             /\ revision' = revision /\ trigger' = trigger
             /\ telemetry_findings' = telemetry_findings
<1> DEFINE result    == ParseFalsification(reply)
           updated   == update_with_falsification(causal_hypothesis.confidence,
                                                  result.falsification_score)
<1>1. /\ causal_hypothesis # None
      /\ falsification' = result
      /\ causal_hypothesis' = [causal_hypothesis EXCEPT !.confidence = updated]
      /\ confidence_score' = updated.final
      /\ UNCHANGED <<trigger, routed_to, telemetry_findings, counterfactual,
                     recommended_actions, requires_human_approval, revision>>
  BY Zenon DEF falsifier_review
<1>2. result \in FalsificationResult
  BY <1>1, ParsedFalsificationType
<1>3. result.of = causal_hypothesis.revision
  BY DEF ParseFalsification
<1> HIDE DEF result
<1>4. result.falsification_score \in Unit
  BY <1>2 DEF FalsificationResult
<1>5. ~(result.falsification_score > 1000)
  BY <1>4 DEF Unit
<1>6. updated = Calibrated(causal_hypothesis.confidence.raw_llm,
                           causal_hypothesis.confidence.prior,
                           1000 - result.falsification_score)
  BY <1>5 DEF update_with_falsification
<1> HIDE DEF updated
<1>7. causal_hypothesis \in Hypothesis
  BY <1>1 DEF TypeOK
<1> QED
  BY <1>1, <1>2, <1>3, <1>6, <1>7

(* After the reasoning agent there is a hypothesis. *)
LEMMA HypothesisFormed ==
  ASSUME TypeOK, NEW reply \in ReasoningReplies, reasoning_step(reply)
  PROVE  causal_hypothesis' # None
BY ReasoningTyped, NoneAssumption

(* After a review there still is, and a verdict with it. *)
LEMMA HypothesisStays ==
  ASSUME TypeOK, NEW reply \in FalsifierReplies, falsifier_review(reply)
  PROVE  causal_hypothesis' # None /\ falsification' # None
BY FalsifierReviewTyped, ReviewEffect, NoneAssumption

(***************************************************************************)
(* Each part of the invariant.                                             *)
(***************************************************************************)
(* The numbering of hypotheses and verdicts is kept. *)
LEMMA NumberedKept ==
  ASSUME TypeOK, Numbered, AnyStep
  PROVE  Numbered'
<1>0. revision \in Nat
  BY DEF TypeOK
<1>1. CASE supervisor_step \/ telemetry_step \/ counterfactual_step \/ action_step
  BY <1>1, OthersKeepHypothesis, OthersKeepVerdict DEF Numbered
<1>2. CASE falsifier_skip
  <2>1. UNCHANGED <<causal_hypothesis, confidence_score, revision>>
    BY <1>2, OthersKeepHypothesis
  <2>2. falsification'.of = 0
    BY <1>2 DEF falsifier_skip, SkippedFalsification
  <2> QED
    BY <1>0, <2>1, <2>2 DEF Numbered
<1>3. ASSUME NEW reply \in FalsifierReplies, falsifier_review(reply)
      PROVE  Numbered'
  <2>1. causal_hypothesis # None
    BY <1>3, Zenon DEF falsifier_review
  <2>2. causal_hypothesis.revision = revision
    BY <2>1 DEF Numbered
  <2>3. falsification'.of = revision /\ revision' = revision
    BY <1>3, <2>2, ReviewEffect
  <2>4. causal_hypothesis'.revision = revision
    <3>1. causal_hypothesis \in Hypothesis
      BY <1>3, ReviewEffect
    <3>2. PICK c : causal_hypothesis' = [causal_hypothesis EXCEPT !.confidence = c]
      BY <1>3, ReviewEffect
    <3> QED
      BY <2>2, <3>1, <3>2 DEF Hypothesis
  <2>5. causal_hypothesis' # None
    BY <1>3, HypothesisStays
  <2> QED
    BY <1>0, <2>3, <2>4, <2>5 DEF Numbered
<1>4. ASSUME NEW reply \in ReasoningReplies, reasoning_step(reply)
      PROVE  Numbered'
  <2>1. /\ causal_hypothesis'.revision = revision'
        /\ revision' = revision + 1
        /\ falsification' = falsification
    BY <1>4, ReasoningEffect
  <2>2. causal_hypothesis' # None
    BY <1>4, HypothesisFormed
  <2>3. falsification # None => falsification.of \in Nat
    BY DEF TypeOK, FalsificationResult
  <2> QED
    BY <1>0, <2>1, <2>2, <2>3 DEF Numbered
<1> QED
  BY <1>1, <1>2, <1>3, <1>4 DEF AnyStep, reasoning, falsifier_step

(* A claim keeps citing findings that are there. *)
LEMMA ClaimsGroundedKept ==
  ASSUME TypeOK, ClaimsGrounded, AnyStep
  PROVE  ClaimsGrounded'
<1>1. CASE supervisor_step \/ falsifier_skip \/ counterfactual_step \/ action_step
  <2>1. causal_hypothesis' = causal_hypothesis
    BY <1>1, OthersKeepHypothesis
  <2>2. telemetry_findings' = telemetry_findings
    BY <1>1 DEF supervisor_step, falsifier_skip, counterfactual_step, counterfactual_skip,
                counterfactual_rule, counterfactual_ask, Predict, action_step,
                action_veto, action_draft, Recommend
  <2> QED
    BY <2>1, <2>2 DEF ClaimsGrounded, FindingIds
<1>2. CASE telemetry_step
  <2>1. causal_hypothesis' = causal_hypothesis
    BY <1>2, OthersKeepHypothesis
  <2>2. FindingIds \subseteq FindingIds'
    <3>1. telemetry_findings \in Seq(Finding) /\ Collected(trigger) \in Seq(Finding)
      BY CollectedType DEF TypeOK
    <3>2. Len(telemetry_findings') = Len(telemetry_findings) + Len(Collected(trigger))
      BY <1>2, <3>1, ConcatProperties DEF telemetry_step
    <3>3. Len(telemetry_findings) \in Nat /\ Len(Collected(trigger)) \in Nat
      BY <3>1, LenProperties
    <3> QED
      BY <3>2, <3>3 DEF FindingIds
  <2> QED
    BY <2>1, <2>2 DEF ClaimsGrounded
<1>3. ASSUME NEW reply \in ReasoningReplies, reasoning_step(reply)
      PROVE  ClaimsGrounded'
  <2>1. \A c \in GroundedClaims(reply.claims) : c.supporting_finding_ids \subseteq FindingIds
    BY DEF GroundedClaims
  <2>2. \A c \in FallbackClaims : c.supporting_finding_ids \subseteq FindingIds
    <3>1. FallbackIds \subseteq FindingIds
      BY DEF FallbackIds, AnomalousIds
    <3> QED
      BY <3>1 DEF FallbackClaims
  <2>3. \/ causal_hypothesis'.claims = GroundedClaims(reply.claims)
        \/ causal_hypothesis'.claims = FallbackClaims
    BY <1>3, ReasoningEffect
  <2>4. FindingIds' = FindingIds
    BY <1>3, ReasoningEffect DEF FindingIds
  <2> QED
    BY <2>1, <2>2, <2>3, <2>4 DEF ClaimsGrounded
<1>4. ASSUME NEW reply \in FalsifierReplies, falsifier_review(reply)
      PROVE  ClaimsGrounded'
  <2>1. causal_hypothesis # None
    BY <1>4, Zenon DEF falsifier_review
  <2>2. FindingIds' = FindingIds
    BY <1>4, ReviewEffect DEF FindingIds
  <2>3. causal_hypothesis'.claims = causal_hypothesis.claims
    <3>1. causal_hypothesis \in Hypothesis
      BY <1>4, ReviewEffect
    <3>2. PICK c : causal_hypothesis' = [causal_hypothesis EXCEPT !.confidence = c]
      BY <1>4, ReviewEffect
    <3> QED
      BY <3>1, <3>2 DEF Hypothesis
  <2> QED
    BY <2>1, <2>2, <2>3 DEF ClaimsGrounded
<1> QED
  BY <1>1, <1>2, <1>3, <1>4 DEF AnyStep, reasoning, falsifier_step

(* The confidence stays the one of the hypothesis and of the verdict on it. *)
LEMMA ConfidenceKept ==
  ASSUME TypeOK, Numbered, ConfidenceConsistent, AnyStep
  PROVE  ConfidenceConsistent'
<1>1. CASE supervisor_step \/ telemetry_step \/ counterfactual_step \/ action_step
  <2>1. /\ UNCHANGED <<trigger, causal_hypothesis, confidence_score, revision>>
        /\ falsification' = falsification
    BY <1>1, OthersKeepHypothesis, OthersKeepVerdict
  <2>2. Reviewed' <=> Reviewed
    BY <2>1 DEF Reviewed
  <2> QED
    BY <2>1, <2>2 DEF ConfidenceConsistent
<1>2. CASE falsifier_skip
  BY <1>2 DEF falsifier_skip, ConfidenceConsistent
<1>3. ASSUME NEW reply \in ReasoningReplies, reasoning_step(reply)
      PROVE  ConfidenceConsistent'
  <2> DEFINE raw == ReadUnit(reply.raw_confidence, 0)
             prior == prior_for(trigger.classification, reply.summary)
  <2>1. ~Reviewed'
    <3>1. /\ falsification' = falsification
          /\ causal_hypothesis'.revision = revision + 1
      BY <1>3, ReasoningEffect
    <3>2. falsification # None => falsification.of <= revision /\ falsification.of \in Nat
      BY DEF Numbered, TypeOK, FalsificationResult
    <3>3. revision \in Nat
      BY DEF TypeOK
    <3> QED
      BY <3>1, <3>2, <3>3 DEF Reviewed
  <2>2. /\ causal_hypothesis'.confidence = Calibrated(raw, prior, 500)
        /\ causal_hypothesis'.summary = reply.summary
        /\ confidence_score' = causal_hypothesis'.confidence.final
        /\ trigger' = trigger
    BY <1>3, ReasoningEffect DEF calibrate
  <2> HIDE DEF raw
  <2>3. causal_hypothesis'.confidence.raw_llm = raw
    BY <2>2 DEF Calibrated
  <2> QED
    BY <2>1, <2>2, <2>3 DEF ConfidenceConsistent
<1>4. ASSUME NEW reply \in FalsifierReplies, falsifier_review(reply)
      PROVE  ConfidenceConsistent'
  <2> DEFINE h        == causal_hypothesis
             modifier == 1000 - falsification'.falsification_score
             updated  == Calibrated(h.confidence.raw_llm, h.confidence.prior, modifier)
             prior    == prior_for(trigger.classification, h.summary)
  <2>1. h # None
    BY <1>4, Zenon DEF falsifier_review
  <2>2. /\ h \in Hypothesis
        /\ causal_hypothesis' = [h EXCEPT !.confidence = updated]
        /\ falsification'.of = h.revision
        /\ confidence_score' = updated.final
        /\ trigger' = trigger
    BY <1>4, ReviewEffect
  <2>3. h.confidence.prior = prior
    BY <2>1 DEF ConfidenceConsistent, Calibrated
  <2>4. updated.raw_llm = h.confidence.raw_llm /\ updated.prior = h.confidence.prior
    BY DEF Calibrated
  <2>5. updated = Calibrated(updated.raw_llm, prior, modifier)
    BY <2>3, <2>4
  <2> HIDE DEF updated, h, modifier
  <2>6. /\ causal_hypothesis'.confidence = updated
        /\ causal_hypothesis'.summary = h.summary
        /\ causal_hypothesis'.revision = h.revision
    BY <2>2 DEF Hypothesis
  <2>7. Reviewed'
    BY <1>4, <2>2, <2>6, HypothesisStays DEF Reviewed
  <2> QED
    BY <2>2, <2>5, <2>6, <2>7 DEF ConfidenceConsistent, modifier
<1> QED
  BY <1>1, <1>2, <1>3, <1>4 DEF AnyStep, reasoning, falsifier_step

(* The flag of the state stays the flag of the last action. *)
LEMMA ApprovalKept ==
  ASSUME TypeOK, FlagOfLastAction, AnyStep
  PROVE  FlagOfLastAction'
<1>1. CASE action_step
  <2>1. PICK action, event : Recommend(action, event)
    BY <1>1 DEF action_step, action_veto, action_draft
  <2>2. /\ recommended_actions' = Append(recommended_actions, action)
        /\ requires_human_approval' = action.requires_approval
    BY <2>1 DEF Recommend
  <2>3. recommended_actions \in Seq(Action)
    BY DEF TypeOK
  <2>4. recommended_actions' # <<>>
    BY <2>2, <2>3
  <2>5. recommended_actions'[Len(recommended_actions')] = action
    BY <2>2, <2>3
  <2> QED
    BY <2>2, <2>4, <2>5 DEF FlagOfLastAction
<1>2. CASE ~action_step
  BY <1>2, OthersKeepActions DEF AnyStep, FlagOfLastAction
<1> QED
  BY <1>1, <1>2

(* With priors below 0.875 the confidence stays under the floor, because   *)
(* it is the one computed from the prior of the hypothesis.                *)
LEMMA ConfidenceBelowFloor ==
  ASSUME TypeOK, Numbered, ConfidenceConsistent, PriorsBelowGate
  PROVE  ~(confidence_score >= AUTONOMOUS_CONFIDENCE_FLOOR)
<1>1. CASE causal_hypothesis = None
  BY <1>1 DEF Numbered, AUTONOMOUS_CONFIDENCE_FLOOR
<1>2. CASE causal_hypothesis # None
  <2> DEFINE c       == causal_hypothesis.confidence
             matched == MatchedPriors(trigger.classification,
                                      Named(trigger.classification,
                                            causal_hypothesis.summary))
  <2>1. c \in CalibratedConfidence
    BY <1>2 DEF TypeOK, Hypothesis
  <2>2. c.prior = prior_for(trigger.classification, causal_hypothesis.summary)
    BY <1>2 DEF ConfidenceConsistent, Calibrated
  <2>3. \A p \in matched : p < 875
    BY MatchedInTable DEF PriorsBelowGate
  <2>4. prior_for(trigger.classification, causal_hypothesis.summary)
          \in matched \cup {UniformPrior}
    BY MatchedInUnit, PriorOfMatched DEF prior_for
  <2>5. c.prior < 875
    BY <2>2, <2>3, <2>4 DEF PriorsBelowGate
  <2>6. confidence_score = c.final
    BY <1>2 DEF ConfidenceConsistent
  <2>7. c.final = Compute(c.raw_llm, c.prior, c.falsification_modifier)
    BY <1>2 DEF ConfidenceConsistent, Calibrated
  <2> HIDE DEF c, matched
  <2>8. c.raw_llm \in Unit /\ c.prior \in Unit /\ c.falsification_modifier \in Unit
    BY <2>1 DEF CalibratedConfidence
  <2>9. ~(Compute(c.raw_llm, c.prior, c.falsification_modifier) >= 9500)
    <3>1. c.prior \in Int
      <4>1. Unit \subseteq Int
        BY DEF Unit
      <4> QED
        BY <2>8, <4>1
    <3>2. ~(c.prior >= 875)
      BY <2>5, <3>1
    <3> QED
      BY <2>8, <3>2, FloorNeedsPrior
  <2> QED
    BY <2>6, <2>7, <2>9 DEF AUTONOMOUS_CONFIDENCE_FLOOR
<1> QED
  BY <1>1, <1>2

(* While the gate is shut, every action recommended asks for a human. *)
LEMMA HumanAskedKept ==
  ASSUME TypeOK, Numbered, ConfidenceConsistent, HumanAlwaysAsked, AnyStep
  PROVE  HumanAlwaysAsked'
<1>1. CASE action_step /\ GateShut
  <2>1. ~Autonomous
    BY <1>1, ConfidenceBelowFloor DEF GateShut, Autonomous
  <2>2. PICK template, event : Recommend(Draft(template, TRUE), event)
    BY <1>1, <2>1 DEF action_step, action_veto, action_draft
  <2>3. /\ recommended_actions' = Append(recommended_actions, Draft(template, TRUE))
        /\ requires_human_approval' = TRUE
        /\ Draft(template, TRUE).requires_approval = TRUE
    BY <2>2 DEF Recommend, Draft
  <2>4. recommended_actions \in Seq(Action)
    BY DEF TypeOK
  <2>5. \A i \in DOMAIN recommended_actions : recommended_actions[i].requires_approval
    BY <1>1 DEF HumanAlwaysAsked
  <2>6. ASSUME NEW i \in DOMAIN recommended_actions'
        PROVE  recommended_actions'[i].requires_approval
    <3> DEFINE n == Len(recommended_actions)
    <3>1. n \in Nat /\ DOMAIN recommended_actions = 1..n
      BY <2>4
    <3>2. i \in 1..(n + 1)
      BY <2>3, <2>4
    <3>3. CASE i = n + 1
      <4> DEFINE draft == Draft(template, TRUE)
      <4> HIDE DEF draft
      <4>1. Append(recommended_actions, draft)[Len(recommended_actions) + 1] = draft
        BY <2>4
      <4>2. recommended_actions'[i] = Append(recommended_actions, draft)[i]
        BY <2>3 DEF draft
      <4> QED
        BY <2>3, <3>3, <4>1, <4>2 DEF draft
    <3>4. CASE i # n + 1
      <4>1. i \in 1..n
        BY <3>1, <3>2, <3>4
      <4>2. recommended_actions'[i] = recommended_actions[i]
        BY <2>3, <2>4, <4>1
      <4> QED
        BY <2>5, <3>1, <4>1, <4>2
    <3> QED
      BY <3>3, <3>4
  <2> QED
    BY <2>3, <2>6 DEF HumanAlwaysAsked
<1>2. CASE ~action_step
  <2>1. UNCHANGED <<recommended_actions, requires_human_approval>>
    BY <1>2, OthersKeepActions DEF AnyStep
  <2> QED
    BY <2>1 DEF HumanAlwaysAsked, GateShut, PriorsBelowGate
<1>3. CASE ~GateShut
  BY <1>3 DEF HumanAlwaysAsked, GateShut, PriorsBelowGate
<1> QED
  BY <1>1, <1>2, <1>3

(***************************************************************************)
(* The invariant.                                                          *)
(***************************************************************************)
(* It holds of a new state. *)
LEMMA NewStateInvariant ==
  ASSUME NEW t \in Trigger, new_state(t)
  PROVE  StepInvariant
<1>1. TypeOK
  BY NewStateTyped
<1>2. Numbered /\ ClaimsGrounded /\ ConfidenceConsistent
  BY DEF new_state, Numbered, ClaimsGrounded, ConfidenceConsistent
<1>3. FlagOfLastAction /\ HumanAlwaysAsked
  BY DEF new_state, FlagOfLastAction, HumanAlwaysAsked
<1> QED
  BY <1>1, <1>2, <1>3 DEF StepInvariant

(* Every step keeps it. *)
LEMMA StepKeepsInvariant ==
  ASSUME StepInvariant, AnyStep
  PROVE  StepInvariant'
BY AnyStepTyped, NumberedKept, ClaimsGroundedKept, ConfidenceKept, ApprovalKept,
   HumanAskedKept DEF StepInvariant

(* So does a step that writes to the trail only. *)
LEMMA TrailOnlyKeepsInvariant ==
  ASSUME StepInvariant, audit_trail' \in Seq(AgentStep),
         UNCHANGED <<trigger, routed_to, budget, telemetry_findings, causal_hypothesis,
                     falsification, counterfactual, recommended_actions,
                     confidence_score, requires_human_approval, revision>>
  PROVE  StepInvariant'
<1>1. TypeOK'
  BY DEF StepInvariant, TypeOK
<1>2. Numbered'
  BY DEF StepInvariant, Numbered
<1>3. ClaimsGrounded'
  BY DEF StepInvariant, ClaimsGrounded, FindingIds
<1>4. ConfidenceConsistent'
  <2>1. Reviewed' <=> Reviewed
    BY DEF Reviewed
  <2> QED
    BY <2>1 DEF StepInvariant, ConfidenceConsistent
<1>5. FlagOfLastAction'
  BY DEF StepInvariant, FlagOfLastAction
<1>6. HumanAlwaysAsked'
  BY DEF StepInvariant, HumanAlwaysAsked, GateShut, PriorsBelowGate
<1> QED
  BY <1>1, <1>2, <1>3, <1>4, <1>5, <1>6 DEF StepInvariant

(* So does a call of the reasoning agent that raises. *)
LEMMA RaisingKeepsInvariant ==
  ASSUME StepInvariant, corpus_raises
  PROVE  StepInvariant'
<1>1. audit_trail \in Seq(AgentStep)
  BY DEF StepInvariant, TypeOK
<1>2. Step("reasoning", "fallback") \in AgentStep
  BY DEF Step, AgentStep, AgentNames, Events
<1>3. <<Step("reasoning", "fallback")>> \in Seq(AgentStep)
  BY <1>2, Single
<1>4. <<>> \in Seq(AgentStep)
  OBVIOUS
<1>5. PICK reply \in ReasoningReplies : reasoning_raises(reply)
  BY DEF corpus_raises
<1>6. audit_trail' \in Seq(AgentStep)
  <2>1. CASE GroundedClaims(reply.claims) = {}
    BY <1>1, <1>3, <1>5, <2>1, ConcatProperties DEF reasoning_raises
  <2>2. CASE GroundedClaims(reply.claims) # {}
    BY <1>1, <1>4, <1>5, <2>2, ConcatProperties DEF reasoning_raises
  <2> QED
    BY <2>1, <2>2
<1> QED
  BY <1>5, <1>6, TrailOnlyKeepsInvariant DEF reasoning_raises

(* And a step that changes nothing of the state. *)
LEMMA StutterKeepsInvariant ==
  ASSUME StepInvariant, UNCHANGED state
  PROVE  StepInvariant'
<1>1. /\ trigger' = trigger /\ routed_to' = routed_to /\ budget' = budget
      /\ telemetry_findings' = telemetry_findings
      /\ causal_hypothesis' = causal_hypothesis /\ falsification' = falsification
      /\ counterfactual' = counterfactual /\ recommended_actions' = recommended_actions
      /\ confidence_score' = confidence_score /\ audit_trail' = audit_trail
      /\ requires_human_approval' = requires_human_approval /\ revision' = revision
  BY DEF state
<1>2. audit_trail' \in Seq(AgentStep)
  BY <1>1 DEF StepInvariant, TypeOK
<1> QED
  BY <1>1, <1>2, TrailOnlyKeepsInvariant

(***************************************************************************)
(* For the proofs about recommendations and trails.                        *)
(***************************************************************************)
(* A remediation is never worded as the escalation of a refuted one. *)
LEMMA SelectedIsNoVeto == Selected.description # REFUTED_ACTION.description
<1>1. DOMAIN REMEDIATION_PATTERNS = 1..5
  BY DEF REMEDIATION_PATTERNS
<1>2. \A i \in 1..5 : REMEDIATION_PATTERNS[i].description # REFUTED_ACTION.description
  <2>1. /\ REMEDIATION_PATTERNS[1].description = "roll back the most recent deploy"
        /\ REMEDIATION_PATTERNS[2].description = "drain hosts and open a ticket"
        /\ REMEDIATION_PATTERNS[3].description = "roll back and re-investigate"
        /\ REMEDIATION_PATTERNS[4].description = "flush the DNS cache"
        /\ REMEDIATION_PATTERNS[5].description = "restart the service"
    BY DEF REMEDIATION_PATTERNS, Template
  <2>2. REFUTED_ACTION.description = "escalate immediately"
    BY DEF REFUTED_ACTION, Template
  <2>3. \A i \in 1..5 : i = 1 \/ i = 2 \/ i = 3 \/ i = 4 \/ i = 5
    OBVIOUS
  <2> QED
    BY <2>1, <2>2, <2>3, Zenon
<1>3. DEFAULT_ACTION.description # REFUTED_ACTION.description
  BY DEF DEFAULT_ACTION, REFUTED_ACTION, Template
<1> QED
  BY <1>1, <1>2, <1>3, FirstMatchMatches DEF Selected

(* The entries of a sequence with one more at its end. *)
LEMMA Appended ==
  ASSUME NEW S, NEW seq \in Seq(S), NEW last \in S, NEW longer,
         longer = Append(seq, last)
  PROVE  /\ Len(seq) \in Nat /\ DOMAIN seq = 1..Len(seq)
         /\ Len(longer) = Len(seq) + 1 /\ DOMAIN longer = 1..(Len(seq) + 1)
         /\ \A i \in 1..Len(seq) : longer[i] = seq[i]
         /\ longer[Len(seq) + 1] = last
         /\ longer # <<>>
<1>1. longer \in Seq(S) /\ longer # <<>> /\ Len(longer) = Len(seq) + 1
  BY AppendProperties
<1> QED
  BY <1>1, AppendProperties, LenProperties

(***************************************************************************)
(* What each call writes to the trail, the budget, the verdict and the     *)
(* recommendations.                                                        *)
(***************************************************************************)
(* A note, or none, and an entry after it. *)
LEMMA NoteAndEntry ==
  ASSUME NEW S, NEW trail \in Seq(S), NEW note \in S, NEW entry \in S
  PROVE  /\ trail \o <<>> \o <<entry>> = Append(trail, entry)
         /\ trail \o <<note>> \o <<entry>> = Append(Append(trail, note), entry)
<1>1. trail \o <<>> = trail /\ trail \o <<note>> = Append(trail, note)
  BY ConcatEmptySeq, AppendIsConcat
<1>2. Append(trail, note) \in Seq(S)
  BY AppendProperties
<1> QED
  BY <1>1, <1>2, AppendIsConcat

(* The entries of a trail are steps. *)
LEMMA EntryTypes ==
  /\ Step("supervisor", "routed") \in AgentStep
  /\ Step("telemetry", "collected") \in AgentStep
  /\ Step("reasoning", "fallback") \in AgentStep
  /\ Step("reasoning", "hypothesis") \in AgentStep
  /\ Step("falsifier", "extension") \in AgentStep
  /\ Step("falsifier", "skipped") \in AgentStep
  /\ Step("counterfactual", "skipped") \in AgentStep
  /\ Step("counterfactual", "predicted") \in AgentStep
  /\ Step("action", "vetoed") \in AgentStep
  /\ Step("action", "recommended") \in AgentStep
  /\ \A v \in Verdicts : Step("falsifier", v) \in AgentStep
<1>1. {"supervisor", "telemetry", "reasoning", "falsifier", "counterfactual", "action"}
        \subseteq AgentNames
  BY DEF AgentNames
<1>2. {"routed", "collected", "fallback", "hypothesis", "extension", "skipped", "predicted",
       "vetoed", "recommended"} \cup Verdicts \subseteq Events
  BY DEF Events
<1> QED
  BY <1>1, <1>2 DEF Step, AgentStep

(* The supervisor writes one entry and a budget without extensions. *)
LEMMA SupervisorWrites ==
  ASSUME supervisor_step
  PROVE  /\ audit_trail' = Append(audit_trail, Step("supervisor", "routed"))
         /\ budget'.extensions_granted = 0
         /\ UNCHANGED <<telemetry_findings, falsification, recommended_actions>>
BY DEF supervisor_step, Record, NewBudget

(* The telemetry agent writes one entry and appends findings. *)
LEMMA TelemetryWrites ==
  ASSUME telemetry_step
  PROVE  /\ audit_trail' = Append(audit_trail, Step("telemetry", "collected"))
         /\ telemetry_findings' = telemetry_findings \o Collected(trigger)
         /\ UNCHANGED <<budget, falsification, recommended_actions>>
BY DEF telemetry_step, Record

(* The reasoning agent writes an entry, perhaps after the note on a        *)
(* fallback.                                                               *)
LEMMA ReasoningWrites ==
  ASSUME TypeOK, NEW reply, reasoning_step(reply)
  PROVE  /\ LET formed == Step("reasoning", "hypothesis")
                noted  == Append(audit_trail, Step("reasoning", "fallback"))
            IN  \/ audit_trail' = Append(audit_trail, formed)
                \/ audit_trail' = Append(noted, formed)
         /\ UNCHANGED <<budget, telemetry_findings, falsification, recommended_actions>>
<1>1. UNCHANGED <<trigger, routed_to, budget, telemetry_findings, falsification,
                  counterfactual, recommended_actions, requires_human_approval>>
  BY Zenon DEF reasoning_step
<1>2. audit_trail' =
        audit_trail \o (IF GroundedClaims(reply.claims) = {}
                        THEN <<Step("reasoning", "fallback")>> ELSE <<>>)
          \o <<Step("reasoning", "hypothesis")>>
  BY Zenon DEF reasoning_step
<1>3. audit_trail \in Seq(AgentStep)
  BY DEF TypeOK
<1>4. CASE GroundedClaims(reply.claims) = {}
  <2>1. audit_trail' = audit_trail \o <<Step("reasoning", "fallback")>>
                         \o <<Step("reasoning", "hypothesis")>>
    BY <1>2, <1>4, Zenon
  <2> QED
    BY <1>1, <1>3, <2>1, EntryTypes, NoteAndEntry
<1>5. CASE GroundedClaims(reply.claims) # {}
  <2>1. audit_trail' = audit_trail \o <<>> \o <<Step("reasoning", "hypothesis")>>
    BY <1>2, <1>5, Zenon
  <2> QED
    BY <1>1, <1>3, <2>1, EntryTypes, NoteAndEntry
<1> QED
  BY <1>4, <1>5

(* A reasoning agent whose corpus is missing may leave the note alone. *)
LEMMA RaisingWrites ==
  ASSUME TypeOK, corpus_raises
  PROVE  /\ \/ audit_trail' = audit_trail
            \/ audit_trail' = Append(audit_trail, Step("reasoning", "fallback"))
         /\ UNCHANGED <<budget, telemetry_findings, falsification, recommended_actions>>
<1>1. PICK reply \in ReasoningReplies : reasoning_raises(reply)
  BY DEF corpus_raises
<1>2. audit_trail' =
        audit_trail \o (IF GroundedClaims(reply.claims) = {}
                        THEN <<Step("reasoning", "fallback")>> ELSE <<>>)
  BY <1>1, Zenon DEF reasoning_raises
<1>3. UNCHANGED <<budget, telemetry_findings, falsification, recommended_actions>>
  BY <1>1 DEF reasoning_raises
<1>4. audit_trail \in Seq(AgentStep)
  BY DEF TypeOK
<1>5. CASE GroundedClaims(reply.claims) = {}
  <2>1. audit_trail' = audit_trail \o <<Step("reasoning", "fallback")>>
    BY <1>2, <1>5, Zenon
  <2> QED
    BY <1>3, <1>4, <2>1, EntryTypes, AppendIsConcat
<1>6. CASE GroundedClaims(reply.claims) # {}
  <2>1. audit_trail' = audit_trail \o <<>>
    BY <1>2, <1>6, Zenon
  <2> QED
    BY <1>3, <1>4, <2>1, ConcatEmptySeq
<1> QED
  BY <1>5, <1>6

(* A review writes its verdict, and before it the extension it grants. *)
LEMMA ReviewWrites ==
  ASSUME TypeOK, NEW reply \in FalsifierReplies, falsifier_review(reply)
  PROVE  \E verdict \in Verdicts :
           /\ falsification' # None /\ falsification'.verdict = verdict
           /\ LET extended == Append(audit_trail, Step("falsifier", "extension"))
                  reviewed == Step("falsifier", verdict)
              IN  \/ /\ audit_trail' = Append(audit_trail, reviewed)
                     /\ budget' = budget
                  \/ /\ audit_trail' = Append(extended, reviewed)
                     /\ budget'.extensions_granted = budget.extensions_granted + 1
                     /\ budget'.extensions_granted <= MAX_EXTENSIONS
           /\ UNCHANGED <<telemetry_findings, recommended_actions>>
<1> DEFINE result    == ParseFalsification(reply)
           extending == CanExtend(result.verdict)
<1>1. /\ falsification' = result
      /\ audit_trail' = audit_trail
           \o (IF extending THEN <<Step("falsifier", "extension")>> ELSE <<>>)
           \o <<Step("falsifier", result.verdict)>>
      /\ budget' = IF extending THEN [budget EXCEPT !.extensions_granted = @ + 1] ELSE budget
      /\ UNCHANGED <<trigger, routed_to, telemetry_findings, counterfactual,
                     recommended_actions, requires_human_approval, revision>>
  BY Zenon DEF falsifier_review
<1>2. falsification' \in FalsificationResult
  BY ReviewEffect
<1>3. falsification' # None
  BY <1>2, NoneAssumption
<1>4. extending => budget.extensions_granted < MAX_EXTENSIONS
  BY DEF CanExtend
<1> HIDE DEF result, extending
<1>5. result.verdict \in Verdicts
  BY <1>1, <1>2 DEF FalsificationResult
<1>6. Step("falsifier", result.verdict) \in AgentStep
  BY <1>5, EntryTypes
<1>7. audit_trail \in Seq(AgentStep) /\ budget \in Budget
  BY DEF TypeOK
<1>8. CASE extending
  <2>1. audit_trail' = audit_trail \o <<Step("falsifier", "extension")>>
                         \o <<Step("falsifier", result.verdict)>>
    BY <1>1, <1>8, Zenon
  <2>2. audit_trail' = Append(Append(audit_trail, Step("falsifier", "extension")),
                              Step("falsifier", result.verdict))
    BY <1>6, <1>7, <2>1, EntryTypes, NoteAndEntry
  <2>3. budget' = [budget EXCEPT !.extensions_granted = @ + 1]
    BY <1>1, <1>8, Zenon
  <2>4. /\ budget'.extensions_granted = budget.extensions_granted + 1
        /\ budget'.extensions_granted <= MAX_EXTENSIONS
    BY <1>4, <1>7, <1>8, <2>3 DEF Budget, MAX_EXTENSIONS
  <2> QED
    BY <1>1, <1>3, <1>5, <2>2, <2>4
<1>9. CASE ~extending
  <2>1. audit_trail' = audit_trail \o <<>> \o <<Step("falsifier", result.verdict)>>
    BY <1>1, <1>9, Zenon
  <2>2. audit_trail' = Append(audit_trail, Step("falsifier", result.verdict))
    BY <1>6, <1>7, <2>1, NoteAndEntry
  <2>3. budget' = budget
    BY <1>1, <1>9, Zenon
  <2> QED
    BY <1>1, <1>3, <1>5, <2>2, <2>3
<1> QED
  BY <1>8, <1>9

(* Without a hypothesis the falsifier writes that it skipped. *)
LEMMA SkipWrites ==
  ASSUME falsifier_skip
  PROVE  /\ audit_trail' = Append(audit_trail, Step("falsifier", "skipped"))
         /\ falsification' # None /\ falsification'.verdict = "contested"
         /\ UNCHANGED <<budget, telemetry_findings, recommended_actions>>
<1>1. SkippedFalsification \in FalsificationResult
  BY DEF SkippedFalsification, FalsificationResult, Verdicts, Unit
<1> QED
  BY <1>1, NoneAssumption DEF falsifier_skip, Record, SkippedFalsification

(* The simulator writes one entry. *)
LEMMA CounterfactualWrites ==
  ASSUME counterfactual_step
  PROVE  /\ \/ audit_trail' = Append(audit_trail, Step("counterfactual", "skipped"))
            \/ audit_trail' = Append(audit_trail, Step("counterfactual", "predicted"))
         /\ UNCHANGED <<budget, telemetry_findings, falsification, recommended_actions>>
BY DEF counterfactual_step, counterfactual_skip, counterfactual_rule, counterfactual_ask,
       Predict, Record

(* The action agent writes one entry and one action, the escalation if and *)
(* only if the verdict is "refuted".                                       *)
LEMMA ActionWrites ==
  ASSUME TypeOK, action_step
  PROVE  \E action \in Action, event \in {"vetoed", "recommended"} :
           /\ audit_trail' = Append(audit_trail, Step("action", event))
           /\ recommended_actions' = Append(recommended_actions, action)
           /\ Refuted <=> action.description = REFUTED_ACTION.description
           /\ Refuted <=> event = "vetoed"
           /\ UNCHANGED <<budget, telemetry_findings, falsification>>
<1>1. HypothesisRevision \in Nat
  BY DEF HypothesisRevision, TypeOK, Hypothesis
<1>2. CASE action_veto
  <2> DEFINE action == Draft(REFUTED_ACTION, TRUE)
  <2>1. REFUTED_ACTION \in TemplateSet
    BY DEF REFUTED_ACTION, Template, TemplateSet, TemplateKeys, Descriptions, Risks
  <2>2. action \in Action /\ action.description = REFUTED_ACTION.description
    BY <1>1, <2>1 DEF Draft, TemplateSet, Action
  <2>3. Refuted /\ Recommend(action, "vetoed")
    BY <1>2 DEF action_veto
  <2> HIDE DEF action
  <2> QED
    BY <2>2, <2>3 DEF Recommend, Record
<1>3. CASE action_draft
  <2> DEFINE action == Draft(Selected, ~Autonomous)
  <2>1. action \in Action /\ action.description = Selected.description
    BY <1>1, SelectedType DEF Draft, TemplateSet, Action
  <2>2. ~Refuted /\ Recommend(action, "recommended")
    BY <1>3 DEF action_draft
  <2> HIDE DEF action
  <2> QED
    BY <2>1, <2>2, SelectedIsNoVeto DEF Recommend, Record
<1> QED
  BY <1>2, <1>3 DEF action_step

(***************************************************************************)
(* A trail, one entry at a time.                                           *)
(***************************************************************************)
(* The places of the entries of an agent. *)
At(t, agent) == {i \in DOMAIN t : t[i].agent = agent}

(* u is t with one more entry. *)
FollowedBy(t, entry, u) ==
  /\ Len(t) \in Nat /\ Len(u) = Len(t) + 1 /\ u[Len(t) + 1] = entry
  /\ DOMAIN t = 1..Len(t) /\ DOMAIN u = 1..(Len(t) + 1)
  /\ \A i \in 1..Len(t) : u[i] = t[i]

(* As Append makes it. *)
LEMMA Followed ==
  ASSUME NEW S, NEW t \in Seq(S), NEW entry \in S
  PROVE  FollowedBy(t, entry, Append(t, entry))
BY Appended DEF FollowedBy

(* The places of the entries of the supervisor. *)
LEMMA SupervisorPlaces ==
  ASSUME NEW t, NEW entry, NEW u, FollowedBy(t, entry, u), NEW n, n = Len(t)
  PROVE  /\ At(t, "supervisor") \subseteq 1..n
         /\ entry.agent = "supervisor" => At(u, "supervisor") = At(t, "supervisor") \cup {n + 1}
         /\ entry.agent # "supervisor" => At(u, "supervisor") = At(t, "supervisor")
BY DEF FollowedBy, At

(* The entries of the action agent up to a place. *)
ActionsTo(t, i) == {j \in At(t, "action") : j <= i}

(* The places of the entries of the action agent. *)
LEMMA ActionPlaces ==
  ASSUME NEW t, NEW entry, NEW u, FollowedBy(t, entry, u), NEW n, n = Len(t)
  PROVE  /\ At(t, "action") \subseteq 1..n
         /\ entry.agent = "action" => At(u, "action") = At(t, "action") \cup {n + 1}
         /\ entry.agent # "action" => At(u, "action") = At(t, "action")
BY DEF FollowedBy, At

(* They are as many after one more entry. *)
LEMMA ActionsBefore ==
  ASSUME NEW t, NEW entry, NEW u, FollowedBy(t, entry, u), NEW n, n = Len(t)
  PROVE  \A i \in 1..n : ActionsTo(u, i) = ActionsTo(t, i)
<1>1. /\ n \in Nat /\ At(t, "action") \subseteq 1..n
      /\ entry.agent = "action" => At(u, "action") = At(t, "action") \cup {n + 1}
      /\ entry.agent # "action" => At(u, "action") = At(t, "action")
  BY ActionPlaces DEF FollowedBy
<1> SUFFICES ASSUME NEW i \in 1..n
             PROVE  ActionsTo(u, i) = ActionsTo(t, i)
  OBVIOUS
<1>2. \A j : j \in At(u, "action") /\ j <= i <=> j \in At(t, "action") /\ j <= i
  BY <1>1
<1> QED
  BY <1>2 DEF ActionsTo

(* One more entry of the action agent goes with one more action, and the   *)
(* entries before it with the actions before.                              *)
LEMMA ActionCounted ==
  ASSUME NEW t, NEW entry, NEW u, FollowedBy(t, entry, u), entry.agent = "action",
         NEW actions, NEW action, NEW longer, FollowedBy(actions, action, longer),
         Len(actions) = Cardinality(At(t, "action"))
  PROVE  /\ Len(longer) = Cardinality(At(u, "action"))
         /\ longer[Cardinality(ActionsTo(u, Len(t) + 1))] = action
         /\ \A i \in At(t, "action") :
              longer[Cardinality(ActionsTo(u, i))] = actions[Cardinality(ActionsTo(t, i))]
<1> DEFINE n == Len(t)
           k == Len(actions)
<1>1. /\ n \in Nat /\ At(t, "action") \subseteq 1..n
      /\ At(u, "action") = At(t, "action") \cup {n + 1}
  <2>1. n \in Nat /\ n = Len(t)
    BY DEF FollowedBy
  <2>2. /\ At(t, "action") \subseteq 1..n
        /\ entry.agent = "action" => At(u, "action") = At(t, "action") \cup {n + 1}
    BY ActionPlaces
  <2> QED
    BY <2>1, <2>2, Zenon
<1>2. \A i \in 1..n : ActionsTo(u, i) = ActionsTo(t, i)
  BY ActionsBefore
<1>3. /\ k \in Nat /\ Len(longer) = k + 1 /\ longer[k + 1] = action
      /\ \A i \in 1..k : longer[i] = actions[i]
  BY DEF FollowedBy
<1>4. k = Cardinality(At(t, "action"))
  OBVIOUS
<1> HIDE DEF n, k
<1>5. IsFiniteSet(At(t, "action"))
  <2>1. n \in Int /\ 1 \in Int
    BY <1>1
  <2>2. IsFiniteSet(1..n)
    BY <2>1, FS_Interval, Zenon
  <2>3. At(t, "action") \in SUBSET (1..n)
    BY <1>1
  <2> QED
    BY <2>2, <2>3, FS_Subset, Zenon
<1>6. At(u, "action") = At(t, "action") \cup {n + 1} /\ n + 1 \notin At(t, "action")
  BY <1>1
<1>7. Cardinality(At(u, "action")) = k + 1
  BY <1>4, <1>5, <1>6, FS_AddElement
<1>8. longer[Cardinality(ActionsTo(u, n + 1))] = action
  <2>1. \A j \in At(u, "action") : j <= n + 1
    BY <1>1
  <2>2. ActionsTo(u, n + 1) = At(u, "action")
    BY <2>1 DEF ActionsTo
  <2> QED
    BY <1>3, <1>7, <2>2
<1>9. ASSUME NEW i \in At(t, "action")
      PROVE  longer[Cardinality(ActionsTo(u, i))] = actions[Cardinality(ActionsTo(t, i))]
  <2>1. i \in 1..n /\ ActionsTo(u, i) = ActionsTo(t, i)
    BY <1>1, <1>2
  <2>2. /\ ActionsTo(t, i) \in SUBSET At(t, "action")
        /\ i \in ActionsTo(t, i)
    BY <2>1 DEF ActionsTo
  <2>3. /\ IsFiniteSet(ActionsTo(t, i))
        /\ Cardinality(ActionsTo(t, i)) <= Cardinality(At(t, "action"))
    BY <1>5, <2>2, FS_Subset
  <2>4. Cardinality(ActionsTo(t, i)) \in Nat /\ Cardinality(ActionsTo(t, i)) # 0
    BY <2>2, <2>3, FS_CardinalityType, FS_EmptySet
  <2>5. Cardinality(ActionsTo(t, i)) \in 1..k
    BY <1>3, <1>4, <2>3, <2>4
  <2> QED
    BY <1>3, <2>1, <2>5
<1> QED
  BY <1>3, <1>7, <1>8, <1>9 DEF n
=============================================================================
