# A TLA+ model of the incident-investigation pipeline

This directory models the multi-agent investigation pipeline of this repository in
TLA+, checks the model with TLC on small instances, and proves its main safety
properties with TLAPS for every corpus, every alert and every model reply. It covers
the agents (`agents/`), both orchestrators, the parsers of model replies, the canned
backend, the incident corpus with its generator and its cached prior, the benchmark and
the examples.

Paths below are relative to the repository root.

## 1. The system

An alert opens an *investigation*: one Python dict, `InvestigationState`, that six
agents mutate in place, one after the other. Three of the agents ask a language
model; its reply is text that the agent parses line by line.

| Component | State it keeps | Operations | Talks to |
|---|---|---|---|
| `agents/state.py` | the shape of the dict | `new_state` | all agents |
| `agents/supervisor.py` | routing and budget tables | `supervisor_step`: `routed_to`, `budget` | dict |
| `agents/telemetry.py` | none | `telemetry_step`: appends findings | `tools/*`, dict |
| `tools/*_mock.py` | fixture tables | `query_metric`, `recent_deploys`, `search_logs` | telemetry agent |
| `agents/reasoning.py` | none | `reasoning_step`: hypothesis with grounded claims, confidence | model, `confidence`, dict |
| `agents/confidence.py` | weights | `calibrate`, `update_with_falsification` | `corpus/causal_prior.py` |
| `corpus/causal_prior.py` | a process-wide cached frequency table | `prior_for` | `corpus/incidents.jsonl` |
| `agents/falsifier.py` | none | `falsifier_step`: verdict, re-scored confidence, budget extension | model, dict |
| `agents/counterfactual.py` | rule table | `counterfactual_step`: prediction, by rule or by model | model, dict |
| `agents/action.py` | remediation table, autonomy constants | `action_step`: a recommended action, approval flag | dict |
| `agents/graph.py` | the order of the steps | `invoke`, `run_investigation` (pure Python or LangGraph) | all agents |
| `agents/llm.py` | the chosen backend, canned tables | `complete`: a canned reply, or a network call that may raise | reasoning, falsifier, simulator |
| `corpus/generate.py` | tables of causes and findings | rewrites the incident corpus in place | `causal_prior` and `bench` read it |
| `bench/*` | parallel lists of scores | runs the steps in an order of its own, scores them | all agents |
| `examples/*` | none | one investigation and a printed report | `graph`, dict |

All communication inside an investigation is through the one dict. There are no threads;
what makes the system hard is

- *reuse and interruption of the dict*: every list is appended to and never reset, every
  scalar is overwritten, a backend exception stops the pipeline between two agents, the
  caller may invoke again on the same dict, and the tests, the examples and the benchmark
  call the steps in orders the pipeline never uses;
- *two orchestrators*: LangGraph gives each node a dict of its own which shares the
  lists, so an invocation that raises leaves other things behind than the pure-Python
  one does;
- *numbers out of free text* (`NaN`, out of range, not a number, indices that name
  nothing), which feed a safety gate: the decision whether a human must approve;
- *a file shared by two processes*: the corpus is rewritten in place while another
  process may be reading it, and what was read is cached for the life of that process.

What makes each component correct:

- reasoning: a claim cites only findings that exist, whatever the model wrote, and a
  pipeline hypothesis always cites something;
- parsers: four loops over the same text agree on what the text says;
- confidence: the score shown is that of the hypothesis and of the verdict shown, with
  nothing left over from an earlier hypothesis; it never leaves [0, 1];
- falsifier and action: a refuted hypothesis is escalated and nothing else is; each
  hypothesis is decided at most once, after its review;
- action: no action skips the human unless every gate is open, for this hypothesis;
- supervisor and falsifier: extensions of the budget stay under the hard cap;
- orchestrators: the audit trail tells which agents ran, and why an action was let
  through; the two return the same state;
- prior: a cached prior is a probability, from one version of the corpus;
- benchmark: a row depends on its scenario alone, the scores agree with each other;
- examples: the report shows every conclusion.

The hazards, each at its line, are listed in `PROJECT.json` with the properties that
cover them.

## 2. The modules

| Module | What it is |
|---|---|
| `Vocabulary` | literal types and the constant tables (routing, budget, remediation patterns, causal rules) |
| `Confidence` | numbers read from text, the corpus prior, the calibrated confidence |
| `Telemetry` | the three mock tools and the findings one telemetry pass collects |
| `Agents` | the dict as variables, `new_state`, one action per outcome of each agent's step, and the properties that hold in any order of steps |
| `Investigation` | `run_investigation`: the six steps in order, exceptions, repeated invocation; properties of the pipeline |
| `Orchestrators` | the pure-Python orchestrator and LangGraph side by side, on the same alert, replies and exceptions |
| `StepCalls` | the step functions called directly, in any order |
| `ReviewGate` | abstract specification: propose, review, decide |
| `Replies` | a reply read line by line by `_parse_claims`, `parse_hypothesis`, `_parse_falsification` and `_llm_predict` at once |
| `Backends` | `DeterministicFake`: its three tables and how words of a prompt select a row |
| `Corpus` | the incidents `corpus/generate.py` can write, and the frequency table of a file |
| `PriorCache` | loading and caching that table while the file is rewritten, cut or left half-written |
| `Metrics`, `Benchmark` | `bench/metrics.py` in exact integers; the loop of `bench/run_benchmark.py` |
| `Examples` | the example programs: one investigation on the canned backend and its report |
| `MCInputs` and `MC*` | values of the constants for TLC, one module per driver |
| `AgentsProofs` | what each agent's step preserves, the invariant of the steps in any order, and the lemmas on numbers, sets and sequences the other proofs use |
| `StepCallsProofs`, `InvestigationProofs`, `OrchestratorsProofs`, `RepliesProofs`, `PriorCacheProofs`, `BenchmarkProofs`, `ExamplesProofs` | the theorems about these modules and their proofs |

`Agents` is driven in five ways: by `Investigation`, `StepCalls`, `Benchmark`, by
`Replies` (which needs the findings and the hypothesis in front of a parser) and by
`Orchestrators`, which extends `Investigation` and instantiates `Agents` a second time on
the dict of LangGraph. `Examples` composes `Investigation` with `Backends`; `Benchmark`
composes the agents with `Backends`, `Corpus` and `Metrics`. `Investigation`
instantiates `ReviewGate` with a refinement mapping.

### How the model corresponds to the code

- **State.** The variables are the fields of `InvestigationState`. `incident_id`,
  timestamps, prose and display components are left out. The trail keeps, for every
  entry, its agent and what kind of entry it is.
- **Actions.** Each action is a whole step function with everything it writes. A step
  has one action per way through it: `falsifier_skip` / `falsifier_review`,
  `counterfactual_skip` / `_rule` / `_ask`, `action_veto` / `action_draft`,
  `reasoning_step` / `reasoning_raises`.
- **Replies.** To `Agents`, a reply is a record of what its lines say, chosen from a
  constant set, as a model may write anything. The agents' defaults, filters and clamps
  are applied to it. `Replies` justifies the record: it runs the loops of the code over
  texts of lines and shows that they compute what `Agents` makes of the record the text
  stands for (the last readable line of each kind).
- **Numbers read from text.** `Garbled` is a text `float()` or `int()` rejects. `NaN`,
  `Inf` and `NegInf` are what `float()` makes of "nan", "inf" and "-inf".
  `max(0.0, min(1.0, x))` turns the first into 1.0, as every comparison with it is false,
  and the other two into 1.0 and 0.0. The bounds of a delta are not clamped and keep all
  three.
- **Lists read from a reply** are sets of entries with the number of their line, so that
  two lines that say the same stay two, in `contested_claim_indices` too. Of predicted
  deltas only the bounds are kept, as a set.
- **Summaries and prompts.** The code only asks whether a phrase occurs in lower-cased
  text, so a summary, a finding or a prompt is the set of the phrases it contains among
  those some table looks for; `IsSummary` ties two-word phrases to their words. A regular
  expression of a canned table is the set of its alternatives.
- **Numbers.** Probabilities are thousandths, a final confidence is in ten-thousandths,
  which makes `0.4 raw + 0.4 prior + 0.2 modifier` exact. The rounding of the code's
  binary floats is not modelled. The frequency table holds probabilities rounded down
  to thousandths. `Metrics` keeps numerators over a common denominator.
- **Ghost data.** `revision` counts hypotheses. A hypothesis, a verdict, a prediction
  and an action carry the revision they were made for (`of`), and a hypothesis the
  claim lines that were dropped on the way to it. No guard reads ghost data, with one
  exception: `reasoning_raises` asks for `revision = 0`, which says that the frequency
  table has not been loaded (a loaded one is cached and cannot fail any more). It takes
  a process to serve one investigation; with several, the corpus raises only less often.
- **The orchestrator.** `pc` is the stage about to run, or how the last invocation
  ended. `BackendRaises` is an exception of `backend.complete`; each agent calls the
  backend before its first assignment, so the dict is as the earlier steps left it.
  `CorpusRaises` is one of the corpus loader; it comes after the note on a fallback.
- **LangGraph** is a library and is modelled as `agents/graph.py` uses it: a node gets a
  dict with the values the node before returned; lists are shared by reference and
  appended to in place. The `l_` variables are the dict of the current node; `held` is
  the caller's dict without the shared lists. After `invoke` returned, the caller goes on
  with what it got (`GoOn`) or with the dict it passed (`StartOver`); after an exception
  it has only the latter. The model takes it that the graph builds: `build_graph` names a
  node "counterfactual", which is also a key of the state, and some releases that the
  requirement `langgraph>=0.2.0` admits may refuse such a node.
- **The corpus file** is the number of complete lines on disk and whether a cut line
  follows, since the generator is seeded and always writes the same corpus. `Truncate`
  is `open(..., "w")`, `Flush` any number of buffered writes, `Close` the end of the
  `with` block, `GeneratorDies` a process killed between them. The loader reads ahead:
  `Fill` takes any part of what the file has beyond what was read before, and `ReadLine`
  counts one line of what was taken, which the file may have lost meanwhile;
  `ReadTornLine` is the exception of `json.loads` on a cut line, in the buffer or not. A
  cut between a line and its newline counts as one after the line.
- **The benchmark** goes `open, supervisor, reasoning, falsifier, action, counterfactual,
  score`: telemetry is replaced by the findings of the scenario, and the action comes
  before the prediction. Randomly chosen scenarios are any scenarios.
- **The reports** are lists of sections, each with the key it looks up and the attributes
  it reads of the objects under it; what a section prints is left out.

The rows of the canned tables were compared with the program: for 51 kinds of incident
the hypothesis, verdict, confidence, action and prediction method of the model's benchmark
row, and for 24 alerts the outcome of the model's example run, are those the Python code
produces.

## 3. What is checked

Twelve runs: eight that pass, four that show a disagreement between a text of the
repository and its code. Every property of a passing run has a mutant in
`PROJECT.json`: a plausible bug in a mapped definition under which TLC finds the property
violated.

| Run | Question and instance | Distinct states |
|---|---|---|
| `pipeline` | One invocation, autonomy enabled over a table whose largest prior is 0.874. Five alerts (anomaly with and without an anomalous dependency, deploy and errors without anomaly, no fixture, unknown class), 96 reasoning, 36 falsifier, 3 prediction replies. `InvestigationTypeOK`, `HypothesisGrounded`, `HumanAlwaysAsked` | 36 thousand |
| `retries` | Three invocations on one dict, each of which the backend or the corpus loader may end. `TrailFollowsPipeline`, `ReturnedStateIsCoherent`, `ImplementsGate` | 3 thousand |
| `orchestrators` | Both orchestrators on the same replies and exceptions, two invocations, autonomy enabled over a table with a prior of 1. `SameResult`, `HeldIsWhole`, `AutonomyJustified`, `UnattendedOnTrail`, `BothEnd` | 21 thousand |
| `step_calls` | Steps in any order, until the trail has eight entries. `TypeOK`, `ClaimsGrounded`, `ConfidenceConsistent`, `TrailExplainsActions`, `ExtensionsOnTrail`, `EvidenceKept` | 1.25 million |
| `replies` | Every text of up to three lines of every kind. `ClaimsParsed`, `FlatParseAgrees`, `FalsificationParsed`, `PredictionParsed` | 328 thousand |
| `prior_cache` | A corpus of five lines, any interleaving of loads that read ahead, rewrites, deaths and restarts. `PriorCacheTypeOK`, `PriorsAreShares`, `CacheIsOfAPrefix`, `LoadEnds` | 1056 |
| `benchmark` | Up to two scenarios of the 51 kinds of incident the generator writes. `CalibrationCoherent`, `CannedClaimsCited`, `PredictionConcernsAction`, `ScenariosIsolated`, `BenchmarkReports` | 42 thousand |
| `example_reports` | 24 alerts through `run_investigation` on the canned backend and through the report. `ReportShowsAll` | 408 |

### Bounds

- `MaxInvocations` bounds the calls of `invoke`. Three are the least with which an
  invocation that raised lies between one that returned and one that runs, so that
  verdict, prediction and action of three hypotheses meet in one dict. Two are enough for
  `orchestrators`, whose question is what one interrupted invocation leaves to the next.
- `MaxTrail` bounds the trail of `step_calls`. Seven steps after `new_state` reach two
  full rounds of review and decision, a skipped review followed by a real one, and the
  cap of two extensions with a third attempt.
- `MaxLines` bounds the texts of `replies`: two lines of a kind of which the first is
  undone by the second, with a line of another kind anywhere.
- `MaxLimit` bounds the scenarios of a benchmark run: two, to let one leave something
  behind for the next and to have two scores to compare and to bin.
- The reply sets hold every kind of line (in range, out of range, missing field) and
  every kind of number (ordinary, too large, negative, NaN, infinite, garbled).
- The corpus of `prior_cache` has a class that occurs once, one that changes position,
  and a cause in two classes.

No other counter is bounded: findings, actions and revisions grow only with the steps.
Where the theorems of section 4 apply, they remove the bounds altogether.

Deadlock checking is off wherever the system may stop: nobody has to invoke again, a
benchmark and an example end, and the bounds above end every behaviour. `prior_cache`, in
which a process may restart at any time, needs no such exception.

### Properties worth a word

- `ReturnedStateIsCoherent`: what an invocation returns is about one hypothesis; nothing
  an interrupted invocation left behind shows through.
- `TrailExplainsActions` reads only the trail: an action is an escalation exactly when
  the latest outcome of the falsifier before it is "refuted", in any order of calls.
- `ConfidenceConsistent` relates the score, the hypothesis, the corpus and the verdict: a
  second run of the reasoning agent must fall back to the neutral modifier although the
  old verdict is still in the dict.
- `HumanAlwaysAsked`: either of two facts, the constant
  `ENABLE_AUTONOMOUS_LOW_RISK = False` or priors below 0.875, is enough for every action
  to ask a human. The shipped corpus has no prior above 0.458, so that enabling the
  constant alone would change nothing. `AutonomyJustified` is the other half: over a
  corpus that opens the gate, only a confirmed, confident and predicted hypothesis
  passes it.
- `UnattendedOnTrail` asks the same of the record. Between the hypothesis and the action
  that was let through the trail holds a confirmed review and a prediction, at most an
  extension besides, and nothing a second invocation or an interrupted one has left. It
  covers what `AutonomyJustified` cannot see: an unattended action that later invocations
  have buried, and the state in which a later invocation has refuted its hypothesis and
  raised, so that a lowered flag stands beside "refuted".
- `TrailFollowsPipeline`: the note on a fallback is written before the corpus is asked,
  which may raise. A note with no hypothesis after it, but the end of the trail or the
  supervisor of the next invocation, tells of a stage that did not complete.
- `SameResult` and `HeldIsWhole`: the two orchestrators return the same, but what a
  caller holds after an exception differs. Under LangGraph its scalars are of the last
  invocation that returned, or of none, while the shared lists already hold the entries of
  the interrupted one.
- `CacheIsOfAPrefix`: whatever the generator does meanwhile, the cached table is the one
  of some beginning of the corpus. This rests on the generator being seeded: each rewrite
  writes the same bytes.
- `ScenariosIsolated`: the rows of a benchmark run depend on their scenario alone, which
  is what its use of `recommended_actions[0]` needs.

### Abstract specifications

`ReviewGate` knows hypotheses by number, the verdict on the current one, and decisions.
The mapping takes `revision` for the hypotheses, the verdict when it is about the current
hypothesis and "none" otherwise, and the recommended actions for the decisions.
`ImplementsGate` holds of the pipeline and not of `StepCalls`, where an action may be taken
before a review.

`PriorCache` compares the counting loop with `load_frequency_table`, a reference
definition over a whole file, and `Replies` compares the parsing loops with what the last
line of each kind says.

### Fairness

A Python function that was called runs until it returns or raises, and each step is a
finite loop: `WF_vars(BothRunning)` in `Orchestrators`, `WF_vars(Loading)` in
`PriorCache`, `WF_vars(Next)` in `Benchmark`. Calling `invoke` is not fair, nor is an
exception, a rewrite of the corpus, a crash or a restart. Under it the two orchestrators
never wait on each other at a stage only one of them can complete (`BothEnd`), each load
returns or raises even while the file shrinks under it (`LoadEnds`), and the benchmark
reports (`BenchmarkReports`). `Investigation` and `Examples` state no fairness: that six
straight-line steps or a list of print statements end says nothing about the code.

### Where texts and code disagree

| Run | The text says | The code does |
|---|---|---|
| `verdict_semantics` | a verdict follows from the severity of the contradicting findings (`agents/falsifier.py:13`) | it is the word of the model |
| `prediction_subject` | the prediction is about the proposed action (`agents/state.py:123`) | it is made before there is one |
| `confirmed_correct` | a confirmed hypothesis "is correct in every case" (`docs/walkthrough.html:480`) | for a deploy regression the canned falsifier confirms "unable to confidently classify" |
| `demo_crash` | the thermal example is the demo (`Makefile:55`) | it raises `AttributeError` at the first claim |

Modelling showed more that a property would only restate, so there is no run for it:

- claims without support are dropped silently, where `agents/reasoning.py:7` has them
  recorded in the trail; the note "no CLAIM lines in LLM response"
  (`agents/reasoning.py:146`) is also written when all claim lines were dropped;
- nothing reads `routed_to`: the supervisor does not decide which agents run
  (`docs/architecture.md:19`);
- any word of a cause is matched, not its first significant one
  (`corpus/causal_prior.py:57`); all deploys are returned, not those of the window
  (`tools/deploy_log_mock.py:21`);
- the corpus prior is one of the file as it was when the process first asked
  (`corpus/causal_prior.py:3`);
- rows of the canned falsifier are selected by any word of the prompt, findings included
  (`agents/llm.py:100`);
- no fixture has a temperature or knows the service of the thermal example, whose
  telemetry agent "finds elevated temperature readings"
  (`examples/run_thermal_incident.py:8`).

`docs/architecture.md:72`, "Both produce identical final state", holds of what the two
orchestrators return (`SameResult`); a caller that ignores the return value or catches an
exception holds different things.

## 4. What is proved

TLAPS checks the following for every value of the constants: any frequency table with
entries in [0, 1], any alerts, any reply sets of the reply types, any number of
invocations, any corpus, texts of any length, benchmark runs over any number of
incidents.

| Theorem | Statement |
|---|---|
| `StepCallsProofs!StepsTyped` | `Spec => []TypeOK`, in any order of steps, exceptions included |
| `StepCallsProofs!StepsGroundClaims` | `Spec => []ClaimsGrounded` |
| `StepCallsProofs!StepsKeepConfidence` | `Spec => []ConfidenceConsistent` |
| `StepCallsProofs!StepsKeepEvidence` | `Spec => EvidenceKept`, an action property |
| `StepCallsProofs!StepsExplainActions` | `Spec => []TrailExplainsActions` |
| `StepCallsProofs!StepsCountExtensions` | `Spec => []ExtensionsOnTrail` |
| `InvestigationProofs!PipelineTyped` | `Spec => []InvestigationTypeOK` |
| `InvestigationProofs!PipelineAsksHuman` | `Spec => []HumanAlwaysAsked` |
| `InvestigationProofs!PipelineKeepsConfidence` | `Spec => []ConfidenceConsistent` |
| `InvestigationProofs!PipelineGroundsHypotheses` | `Spec => []HypothesisGrounded` |
| `InvestigationProofs!PipelineReturnsCoherentState` | `Spec => []ReturnedStateIsCoherent` |
| `InvestigationProofs!PipelineJustifiesAutonomy` | `Spec => []AutonomyJustified` |
| `InvestigationProofs!PipelineEarnsAutonomy` | `Spec => []UnattendedOnTrail` |
| `InvestigationProofs!PipelineImplementsGate` | `Spec => ImplementsGate`: the refinement of `ReviewGate` |
| `InvestigationProofs!PipelineLeavesTrail` | `Spec => []TrailFollowsPipeline` |
| `OrchestratorsProofs!OrchestratorsAgree` | `BothSpec => []SameResult` |
| `OrchestratorsProofs!CallerHoldsWhole` | `BothSpec => []HeldIsWhole` |
| `RepliesProofs!ReasoningParserCorrect` | `Spec => []ClaimsParsed`, for texts of any length |
| `RepliesProofs!FlatParserAgrees` | `Spec => []FlatParseAgrees` |
| `RepliesProofs!FalsifierParserCorrect` | `Spec => []FalsificationParsed` |
| `RepliesProofs!PredictionParserCorrect` | `Spec => []PredictionParsed` |
| `PriorCacheProofs!CacheTypes` | `Spec => []PriorCacheTypeOK` |
| `PriorCacheProofs!SharesOfClasses` | `Spec => []PriorsAreShares` |
| `PriorCacheProofs!CachedTables` | `Spec => []CacheIsOfAPrefix` |
| `BenchmarkProofs!RunCorrect` | `Spec => []RunInvariant`: the dict and the rows of a run, at every line of its loop |
| `BenchmarkProofs!ScenariosScoredAlone` | `Spec => []ScenariosIsolated`, for corpora and runs of any length |
| `BenchmarkProofs!PredictionFollowsAction` | `Spec => []PredictionConcernsAction` |
| `BenchmarkProofs!CannedClaimsKept` | `Spec => []CannedClaimsCited`, for every incident the generator can write |
| `BenchmarkProofs!CalibrationAgrees` | `Spec => []CalibrationCoherent`, for any number of rows |
| `ExamplesProofs!SyntheticReportsAll` | `ExampleSpec => []ReportShowsAll` when `Script = "synthetic"` |
| `AgentsProofs!FloorNeedsPrior` | a confidence of 0.95 needs a prior of 0.875 |

### The arguments

*Steps in any order.* `AgentsProofs!StepInvariant` is inductive for every step of every
agent: it joins `TypeOK`, `ClaimsGrounded`, `ConfidenceConsistent`,
`FlagOfLastAction`, `HumanAlwaysAsked` and the strengthening `Numbered`.
`Numbered` says that a verdict is never about a hypothesis to come, so that a new
hypothesis is unreviewed and has the neutral modifier, and that no hypothesis means no
confidence. `HumanAlwaysAsked` is not inductive alone: that the gate stays shut needs the
score to be the one computed from the prior (`ConfidenceConsistent`), the prior to be in
the table or uniform (`PriorOfMatched`, by the existence of a greatest element of a set
of probabilities), and `FloorNeedsPrior`.

*The trail.* `StepCallsProofs!Accounts` says what a trail tells of the budget, the latest
verdict and the recommendations, as a relation on sequences, so that it can be followed
entry by entry: `GrantedAfter`, `LatestAfter` and `ActionTold` say what one entry more
does to each part, by the agent that wrote it. `TrailExplainsActions` is not inductive
alone, because it says nothing of the verdict the next action will read; `Accounts` adds
that the verdict in the state is the latest outcome on the trail. For the pipeline,
`InvestigationProofs!Pass` says the same of the entries since the supervisor last ran: to
which stage they have come, which agents they complete, and that they are in order;
`NoteInvariant` that a note is answered by the next entry, or is the last of a trail whose
stage raised.

*Unattended actions on the trail.* `UnattendedOnTrail` is not inductive: that an action
has earned its freedom must be known before it is recommended. `Ground` says of the end of
a trail what follows its last hypothesis, and `EarnedInvariant` ties it to the stage:
before the falsifier nothing, after it exactly the verdict in the dict, after the simulator
a prediction as well. An invocation that raised leaves ground behind, but the
next one begins with an entry of the supervisor and must make a hypothesis of its own
(`GroundStarts`) before any action. What was earned stays so, as the trail only grows
(`EarnedStays`).

*The pipeline.* A step of it is a step of some agent or leaves the dict alone, so
`StepInvariant` carries over. What needs its order is in
`InvestigationProofs!StageInvariant`: from the stage about to run follows which of
verdict, prediction and action are of the current hypothesis (`EvidenceFirst`,
`ReviewedInTurn`), and that all actions are of earlier hypotheses from its proposal to
its decision (`DecidedOnce`). After an exception only the part without `pc` is left, and
it is enough for the next invocation, which first proposes a hypothesis of its own. The
refinement of `ReviewGate` follows step by step from the same invariant.

*Two orchestrators.* The invariant of `OrchestratorsProofs` says, stage by stage, which
parts of the two dicts agree while both run, and what the caller's copy holds meanwhile;
the steps of the two are the same operators, instantiated twice.

*Parsers.* The loops keep the best line so far. The invariants of `RepliesProofs` say
that what a loop holds after a line is what the reference definition makes of the last
readable line of each kind among those read; "the last line of a kind" after one more
line is either that line or the one before.

*The prior.* `PriorCacheProofs!Counted` says that counts and totals are those of the first
`position` lines of the corpus, wherever the file ends at the moment.

*The benchmark.* The properties are about the end of an investigation, but what holds
there comes from its beginning. `BenchmarkProofs!RunInvariant` therefore names, for a
scenario alone, the row of each canned table (`Reasons`, `Judges`), the hypothesis
`Formed` from it, the verdict `Judged`, the confidence `Rescored` and the row `Expected`,
none of which mentions the dict, and says at each line of the loop which of them the dict
holds by then (`StageInvariant`). `Open` establishes it from whatever was there before,
which is what makes the scenarios independent. `Unabridged`, the part about dropped
claims, rests on `RowFits`: a canned reply cites a third finding only if the prompt says
"connection pool" or "recent deploy"; no name, finding or cause other than an exhausted
connection pool says the first and none says the second (`CausePhrases`,
`FindingPhrases`), and an incident of that cause has four findings (`IncidentFindings`).

*The scores.* `ScoresAgree` is arithmetic on sums of any length. A sum is characterised by
the sequence of its partial sums, and induction over them is done with `UpTo`: a set of
naturals that holds 0 and with each number its successor holds all of them. Row by row,
`BinsWithinDistances` bounds the bins' gaps by the distances of the rows, and
`SumsOfSquares` the square of a sum of n terms by n times the sum of their squares
(Cauchy-Schwarz): so the square of the calibration error is at most the Brier score. From
below, `BinsOfTotal` says that the sums of the bins are together the sum of all rows, as
each row is in one bin, and `DistanceOverBins` that its distance is at most that of the
bins: no row is lost from the calibration error.

*The examples.* `CannedSteps` maps each step on the canned backend to one with arbitrary
replies, by `CannedAssumption`, so that the invariants of the pipeline hold of an example
(`PipelineSteps`). With them, a returned dict has something under each key the report looks
up (`AllPresent`); `SyntheticReads` compares each attribute the report reads with the
fields of the dataclass, which is where the thermal example fails.

### Assumptions

`ReadingAssumption` (NaN, the infinities and Garbled are distinct and no integers), `TableAssumption` (probabilities),
`ReplyAssumption` (reply types), `NoneAssumption` (None is none of the records),
`InvestigationAssumption`, `StepCallsAssumption`, `RepliesAssumption`, `LinesAssumption`
and `BenchmarkAssumption` (the types of the instance's alerts, lines, incidents and
bounds; an incident is one `corpus/generate.py` can write) and `CannedAssumption` (the
replies of `DeterministicFake`, read by the agents, are among the replies agents are
given). TLC evaluates each of them in the runs. Names are typed by finite sets, not
`STRING`, as the provers do not know that a string literal is a `STRING`; only fields of
alerts and summaries are.

### Only model-checked

Every safety invariant and action property of the passing runs is proved. What stays
with TLC:

- Liveness: `BothEnd`, `LoadEnds`, `BenchmarkReports`. Fairness and `ENABLED` are out of
  the prover's reach.

The library's induction theorems take an operator as a parameter, which no installed
prover can instantiate. Induction is instead over sets: the least element of a set of
naturals (`AgentsProofs!LeastElement`) and `BenchmarkProofs!UpTo`.

## 5. What is not modelled

- The network clients of model providers, and the choice of a backend by environment
  variables: external, modelled as any reply or an exception at any call.
- Packaging, CI and containers: no program logic.
- Prose, display components of the confidence, printing, timestamps and elapsed time.
- The rounding of binary floats. The gates are compared in exact thousandths, and a
  score that lies on a threshold only by rounding is not told apart.
- The characters of a line. Lines of a reply are classified by kind and value, the
  regular expressions of the canned tables by their alternatives. Induction over the
  characters of a string is beyond both tools.

## 6. Running

Every `.cfg` belongs to one of the `MC` modules:

| Configurations | Module |
|---|---|
| `pipeline`, `retries`, `verdict_semantics`, `prediction_subject` | `MCInvestigation` |
| `orchestrators` | `MCOrchestrators` |
| `step_calls` | `MCStepCalls` |
| `replies` | `MCReplies` |
| `benchmark`, `confirmed_correct` | `MCBenchmark` |
| `example_reports`, `demo_crash` | `MCExamples` |
| `prior_cache` | `MCPriorCache` |

    tlc -workers 2 -config pipeline.cfg MCInvestigation
    tlc -workers 2 -config step_calls.cfg MCStepCalls
    tlapm InvestigationProofs.tla

`step_calls` and `replies` take about a minute each, the others seconds.
