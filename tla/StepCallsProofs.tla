--------------------------- MODULE StepCallsProofs ---------------------------
(***************************************************************************)
(* The step functions called in any order: what holds of every state, for  *)
(* every corpus, every set of replies and every alert.                     *)
(***************************************************************************)
EXTENDS StepCalls, AgentsProofs

(* The inductive invariant holds throughout. *)
LEMMA Invariant == Spec => []StepInvariant
<1>1. Init => StepInvariant
  BY StepCallsAssumption, NewStateInvariant DEF Init
<1>2. StepInvariant /\ [Next]_state => StepInvariant'
  BY StepKeepsInvariant, RaisingKeepsInvariant, StutterKeepsInvariant DEF Next, AnyCall
<1> QED
  BY <1>1, <1>2, PTL DEF Spec

(* The fields of the state dict always have their declared types           *)
(* (agents/state.py), however the steps are called.                        *)
THEOREM StepsTyped == Spec => []TypeOK
<1>1. StepInvariant => TypeOK
  BY DEF StepInvariant
<1> QED
  BY <1>1, Invariant, PTL

(* Every finding id a claim cites is the index of a finding of the state   *)
(* (agents/reasoning.py).                                                  *)
THEOREM StepsGroundClaims == Spec => []ClaimsGrounded
<1>1. StepInvariant => ClaimsGrounded
  BY DEF StepInvariant
<1> QED
  BY <1>1, Invariant, PTL

(* The confidence shown is computed from the prior of the hypothesis shown *)
(* and from the verdict on it, never from one on an earlier hypothesis     *)
(* (agents/confidence.py, agents/falsifier.py).                            *)
THEOREM StepsKeepConfidence == Spec => []ConfidenceConsistent
<1>1. StepInvariant => ConfidenceConsistent
  BY DEF StepInvariant
<1> QED
  BY <1>1, Invariant, PTL

(***************************************************************************)
(* Evidence, recommendations and trail only grow.                          *)
(***************************************************************************)
(* What is appended to extends. *)
LEMMA ConcatExtends ==
  ASSUME NEW S, NEW old \in Seq(S), NEW more \in Seq(S)
  PROVE  Extends(old \o more, old)
<1>1. /\ Len(old) \in Nat /\ Len(more) \in Nat
      /\ Len(old \o more) = Len(old) + Len(more)
  BY ConcatProperties, LenProperties
<1>2. SubSeq(old \o more, 1, Len(old)) = old
  <2>1. CASE Len(old) = 0
    BY <2>1, SubSeqEmpty, EmptySeq
  <2>2. CASE Len(old) > 0
    BY <1>1, <2>2, SubSeqOfConcat1, SubSeqFull
  <2> QED
    BY <1>1, <2>1, <2>2
<1>3. Len(old) \in 0..Len(old \o more)
  BY <1>1
<1> QED
  BY <1>2, <1>3, Zenon DEF Extends

(* One more entry. *)
LEMMA AppendExtends ==
  ASSUME NEW S, NEW old \in Seq(S), NEW last \in S
  PROVE  Extends(Append(old, last), old)
<1>1. <<last>> \in Seq(S) /\ Append(old, last) = old \o <<last>>
  BY Single, AppendIsConcat
<1> QED
  BY <1>1, ConcatExtends

(* And a sequence extends itself. *)
LEMMA SameExtends ==
  ASSUME NEW S, NEW old \in Seq(S)
  PROVE  Extends(old, old)
<1>1. Len(old) \in 0..Len(old) /\ SubSeq(old, 1, Len(old)) = old
  BY LenProperties, SubSeqFull
<1> QED
  BY <1>1, Zenon DEF Extends

(***************************************************************************)
(* Nothing shown is taken back.                                            *)
(***************************************************************************)
Grown ==
  /\ Extends(telemetry_findings', telemetry_findings)
  /\ Extends(recommended_actions', recommended_actions)
  /\ Extends(audit_trail', audit_trail)

(* Two entries more extend a sequence, too. *)
LEMMA TwiceExtends ==
  ASSUME NEW S, NEW old \in Seq(S), NEW note \in S, NEW entry \in S
  PROVE  Extends(Append(Append(old, note), entry), old)
<1>1. <<note>> \in Seq(S) /\ <<entry>> \in Seq(S)
  BY Single
<1>2. Append(Append(old, note), entry) = old \o <<note>> \o <<entry>>
  <2>1. old \o <<note>> = Append(old, note)
    BY AppendIsConcat
  <2>2. Append(old, note) \in Seq(S)
    BY AppendProperties
  <2> QED
    BY <2>1, <2>2, AppendIsConcat
<1>3. old \o <<note>> \o <<entry>> = old \o (<<note>> \o <<entry>>)
  BY <1>1, ConcatAssociative
<1>4. <<note>> \o <<entry>> \in Seq(S)
  BY <1>1, ConcatProperties
<1> QED
  BY <1>2, <1>3, <1>4, ConcatExtends

(* Every call, also one that raises, only appends. *)
LEMMA CallsGrow ==
  ASSUME TypeOK, AnyCall
  PROVE  Grown
<1>1. /\ telemetry_findings \in Seq(Finding) /\ recommended_actions \in Seq(Action)
      /\ audit_trail \in Seq(AgentStep)
  BY DEF TypeOK
<1>2. /\ Extends(telemetry_findings, telemetry_findings)
      /\ Extends(recommended_actions, recommended_actions)
      /\ Extends(audit_trail, audit_trail)
  BY <1>1, SameExtends
<1>3. \A entry \in AgentStep : Extends(Append(audit_trail, entry), audit_trail)
  BY <1>1, AppendExtends
<1>4. \A note, entry \in AgentStep :
        Extends(Append(Append(audit_trail, note), entry), audit_trail)
  BY <1>1, TwiceExtends
<1>5. CASE supervisor_step
  BY <1>2, <1>3, <1>5, SupervisorWrites, EntryTypes DEF Grown
<1>6. CASE telemetry_step
  <2>1. Extends(telemetry_findings \o Collected(trigger), telemetry_findings)
    BY <1>1, CollectedType, ConcatExtends DEF TypeOK
  <2> QED
    BY <1>2, <1>3, <1>6, <2>1, TelemetryWrites, EntryTypes DEF Grown
<1>7. CASE reasoning
  <2>1. PICK reply \in ReasoningReplies : reasoning_step(reply)
    BY <1>7 DEF reasoning
  <2> QED
    BY <1>2, <1>3, <1>4, <2>1, ReasoningWrites, EntryTypes DEF Grown
<1>8. CASE falsifier_step
  <2>1. CASE falsifier_skip
    BY <1>2, <1>3, <2>1, SkipWrites, EntryTypes DEF Grown
  <2>2. ASSUME NEW reply \in FalsifierReplies, falsifier_review(reply)
        PROVE  Grown
    BY <1>2, <1>3, <1>4, <2>2, ReviewWrites, EntryTypes DEF Grown
  <2> QED
    BY <1>8, <2>1, <2>2 DEF falsifier_step
<1>9. CASE counterfactual_step
  BY <1>2, <1>3, <1>9, CounterfactualWrites, EntryTypes DEF Grown
<1>10. CASE action_step
  <2>1. \A action \in Action :
          Extends(Append(recommended_actions, action), recommended_actions)
    BY <1>1, AppendExtends
  <2> QED
    BY <1>2, <1>3, <1>10, <2>1, ActionWrites, EntryTypes DEF Grown
<1>11. CASE corpus_raises
  BY <1>2, <1>3, <1>11, RaisingWrites, EntryTypes DEF Grown
<1> QED
  BY <1>5, <1>6, <1>7, <1>8, <1>9, <1>10, <1>11 DEF AnyCall, AnyStep

(* However the steps are called, findings, recommendations and trail only  *)
(* grow (the list.append of every agent): what a claim cites or an         *)
(* operator has seen stays where it was.                                   *)
THEOREM StepsKeepEvidence == Spec => EvidenceKept
<1>1. StepInvariant /\ [Next]_state => [Grown]_state
  BY CallsGrow DEF StepInvariant, Next
<1> QED
  BY <1>1, Invariant, PTL DEF Spec, EvidenceKept, Grown

(***************************************************************************)
(* What a trail tells of extensions, verdicts and actions, as operators on *)
(* a trail t, so that an entry can be added at a time.                     *)
(***************************************************************************)
Outcomes(t, i) == {j \in At(t, "falsifier") : j < i /\ t[j].event # "extension"}
Vetoed(t, i) ==
  \E j \in Outcomes(t, i) : t[j].event = "refuted" /\ \A k \in Outcomes(t, i) : k <= j
Granted(t) ==
  {i \in At(t, "falsifier") : t[i].event = "extension"
                                /\ \A j \in At(t, "supervisor") : j < i}
Explained(t, actions, i) ==
  /\ Vetoed(t, i) <=> actions[Cardinality(ActionsTo(t, i))].description
                        = REFUTED_ACTION.description
  /\ Vetoed(t, i) <=> t[i].event = "vetoed"

(* A trail that accounts for so many extensions, a latest verdict and a    *)
(* list of recommendations.                                                *)
Accounts(t, extensions, verdict, actions) ==
  /\ extensions = Cardinality(Granted(t))
  /\ verdict = "refuted" <=> Vetoed(t, Len(t) + 1)
  /\ Len(actions) = Cardinality(At(t, "action"))
  /\ \A i \in At(t, "action") : Explained(t, actions, i)

(* The entries of an agent are finitely many positions of the trail. *)
LEMMA PositionsFinite ==
  ASSUME NEW t, DOMAIN t = 1..Len(t), Len(t) \in Nat, NEW agent
  PROVE  /\ At(t, agent) \subseteq 1..Len(t)
         /\ IsFiniteSet(At(t, agent)) /\ Cardinality(At(t, agent)) \in Nat
         /\ IsFiniteSet(Granted(t))
<1>1. Len(t) \in Nat /\ DOMAIN t = 1..Len(t)
  OBVIOUS
<1>2. At(t, agent) \subseteq 1..Len(t) /\ Granted(t) \subseteq 1..Len(t)
  BY <1>1 DEF At, Granted
<1>3. IsFiniteSet(1..Len(t))
  BY <1>1, FS_Interval
<1> QED
  BY <1>2, <1>3, FS_Subset, FS_CardinalityType

(* The places of the entries of the falsifier. *)
LEMMA FalsifierPlaces ==
  ASSUME NEW t, NEW entry, NEW u, FollowedBy(t, entry, u), NEW n, n = Len(t)
  PROVE  /\ At(t, "falsifier") \subseteq 1..n
         /\ entry.agent = "falsifier" => At(u, "falsifier") = At(t, "falsifier") \cup {n + 1}
         /\ entry.agent # "falsifier" => At(u, "falsifier") = At(t, "falsifier")
BY DEF FollowedBy, At

(* What was told of a place is told after one more entry. *)
LEMMA ToldBefore ==
  ASSUME NEW t, NEW entry, NEW u, FollowedBy(t, entry, u), NEW n, n = Len(t)
  PROVE  /\ \A i \in 1..(n + 1) : Vetoed(u, i) <=> Vetoed(t, i)
         /\ \A i \in 1..n : ActionsTo(u, i) = ActionsTo(t, i)
<1>1. /\ n \in Nat
      /\ \A i \in 1..n : u[i] = t[i]
      /\ At(t, "falsifier") \subseteq 1..n
      /\ entry.agent = "falsifier" =>
           At(u, "falsifier") = At(t, "falsifier") \cup {n + 1}
      /\ entry.agent # "falsifier" => At(u, "falsifier") = At(t, "falsifier")
  BY FalsifierPlaces DEF FollowedBy
<1>2. /\ At(t, "action") \subseteq 1..n
      /\ entry.agent = "action" => At(u, "action") = At(t, "action") \cup {n + 1}
      /\ entry.agent # "action" => At(u, "action") = At(t, "action")
  BY ActionPlaces
<1>3. \A j \in At(t, "falsifier") : u[j] = t[j]
  BY <1>1
<1>4. ASSUME NEW i \in 1..(n + 1)
      PROVE  Vetoed(u, i) <=> Vetoed(t, i)
  <2>1. \A j : j \in At(u, "falsifier") /\ j < i <=> j \in At(t, "falsifier") /\ j < i
    BY <1>1
  <2>2. Outcomes(u, i) = Outcomes(t, i)
    BY <1>3, <2>1 DEF Outcomes
  <2>3. \A j \in Outcomes(t, i) : u[j] = t[j]
    BY <1>3 DEF Outcomes
  <2> QED
    BY <2>2, <2>3 DEF Vetoed
<1>5. ASSUME NEW i \in 1..n
      PROVE  ActionsTo(u, i) = ActionsTo(t, i)
  <2>1. \A j : j \in At(u, "action") /\ j <= i <=> j \in At(t, "action") /\ j <= i
    BY <1>1, <1>2
  <2> QED
    BY <2>1 DEF ActionsTo
<1> QED
  BY <1>4, <1>5

(* What one more entry does to the latest verdict of the trail. *)
LEMMA LatestAfter ==
  ASSUME NEW t, NEW entry, NEW u, FollowedBy(t, entry, u)
  PROVE  IF entry.agent = "falsifier" /\ entry.event # "extension"
         THEN Vetoed(u, Len(u) + 1) <=> entry.event = "refuted"
         ELSE Vetoed(u, Len(u) + 1) <=> Vetoed(t, Len(t) + 1)
<1> DEFINE n == Len(t)
<1>1. /\ n \in Nat /\ Len(u) = n + 1 /\ u[n + 1] = entry
      /\ \A i \in 1..n : u[i] = t[i]
      /\ At(t, "falsifier") \subseteq 1..n
      /\ entry.agent = "falsifier" =>
           At(u, "falsifier") = At(t, "falsifier") \cup {n + 1}
      /\ entry.agent # "falsifier" => At(u, "falsifier") = At(t, "falsifier")
  BY FalsifierPlaces DEF FollowedBy
<1> HIDE DEF n
<1>2. \A j \in At(t, "falsifier") : j < n + 1 /\ j < n + 2 /\ j <= n + 1 /\ u[j] = t[j]
  BY <1>1
<1>3. Len(u) + 1 = n + 2 /\ n + 1 < n + 2
  BY <1>1
<1>4. CASE entry.agent = "falsifier" /\ entry.event # "extension"
  <2>1. n + 1 \in Outcomes(u, n + 2)
    BY <1>1, <1>3, <1>4 DEF Outcomes
  <2>2. \A j \in Outcomes(u, n + 2) : j <= n + 1
    BY <1>1, <1>2, <1>3 DEF Outcomes
  <2>3. \A j \in Outcomes(u, n + 2) : n + 1 <= j => j = n + 1
    BY <1>1, <1>2, <1>3 DEF Outcomes
  <2>4. Vetoed(u, n + 2) <=> u[n + 1].event = "refuted"
    BY <2>1, <2>2, <2>3 DEF Vetoed
  <2> QED
    BY <1>1, <1>3, <1>4, <2>4
<1>5. CASE ~(entry.agent = "falsifier" /\ entry.event # "extension")
  <2>1. Outcomes(u, n + 2) = Outcomes(t, n + 1)
    BY <1>1, <1>2, <1>5 DEF Outcomes
  <2>2. \A j \in Outcomes(t, n + 1) : u[j] = t[j]
    BY <1>2 DEF Outcomes
  <2>3. Vetoed(u, n + 2) <=> Vetoed(t, n + 1)
    BY <2>1, <2>2 DEF Vetoed
  <2> QED
    BY <1>3, <1>5, <2>3 DEF n
<1> QED
  BY <1>4, <1>5

(* And to the extensions granted since the supervisor last ran. *)
LEMMA GrantedAfter ==
  ASSUME NEW t, NEW entry, NEW u, FollowedBy(t, entry, u)
  PROVE  CASE entry.agent = "supervisor" -> Cardinality(Granted(u)) = 0
           [] entry.agent = "falsifier" /\ entry.event = "extension" ->
                Cardinality(Granted(u)) = Cardinality(Granted(t)) + 1
           [] OTHER -> Granted(u) = Granted(t)
<1> DEFINE n == Len(t)
<1>0. /\ At(t, "supervisor") \subseteq 1..n
      /\ entry.agent = "supervisor" =>
           At(u, "supervisor") = At(t, "supervisor") \cup {n + 1}
      /\ entry.agent # "supervisor" => At(u, "supervisor") = At(t, "supervisor")
  BY SupervisorPlaces
<1>1. /\ n \in Nat /\ u[n + 1] = entry
      /\ \A i \in 1..n : u[i] = t[i]
      /\ At(t, "falsifier") \subseteq 1..n
      /\ entry.agent = "falsifier" =>
           At(u, "falsifier") = At(t, "falsifier") \cup {n + 1}
      /\ entry.agent # "falsifier" => At(u, "falsifier") = At(t, "falsifier")
  BY FalsifierPlaces DEF FollowedBy
<1>2. IsFiniteSet(Granted(t))
  BY PositionsFinite DEF FollowedBy
<1> HIDE DEF n
<1>3. CASE entry.agent = "supervisor"
  <2>1. n + 1 \in At(u, "supervisor") /\ \A j \in At(u, "falsifier") : j <= n
    BY <1>0, <1>1, <1>3
  <2>2. Granted(u) = {}
    BY <1>1, <2>1 DEF Granted
  <2> QED
    BY <1>3, <2>2, FS_EmptySet
<1>4. CASE entry.agent = "falsifier" /\ entry.event = "extension"
  <2>1. At(u, "supervisor") = At(t, "supervisor")
          /\ At(u, "falsifier") = At(t, "falsifier") \cup {n + 1}
    BY <1>0, <1>1, <1>4
  <2>2. \A j \in At(t, "supervisor") : j < n + 1
    BY <1>0, <1>1
  <2>3. \A i \in At(t, "falsifier") : u[i] = t[i] /\ i < n + 1
    BY <1>1
  <2>4. Granted(u) = Granted(t) \cup {n + 1} /\ n + 1 \notin Granted(t)
    BY <1>1, <1>4, <2>1, <2>2, <2>3 DEF Granted
  <2>5. Cardinality(Granted(u)) = Cardinality(Granted(t)) + 1
    BY <1>2, <2>4, FS_AddElement
  <2> QED
    BY <1>4, <2>5
<1>5. CASE /\ entry.agent # "supervisor"
           /\ ~(entry.agent = "falsifier" /\ entry.event = "extension")
  <2>1. At(u, "supervisor") = At(t, "supervisor")
    BY <1>0, <1>5
  <2>2. \A i \in At(t, "falsifier") : u[i] = t[i]
    BY <1>1
  <2>3. Granted(u) = Granted(t)
    BY <1>1, <1>5, <2>1, <2>2 DEF Granted
  <2> QED
    BY <1>5, <2>3
<1> QED
  BY <1>3, <1>4, <1>5

(* An entry of another agent changes nothing of what actions are told. *)
LEMMA ActionsUntold ==
  ASSUME NEW t, NEW entry, NEW u, NEW actions, FollowedBy(t, entry, u), entry.agent # "action",
         \A i \in At(t, "action") : Explained(t, actions, i)
  PROVE  /\ At(u, "action") = At(t, "action")
         /\ \A i \in At(u, "action") : Explained(u, actions, i)
<1> DEFINE n == Len(t)
<1>1. /\ n \in Nat /\ At(t, "action") \subseteq 1..n
      /\ \A i \in 1..n : u[i] = t[i]
  BY ActionPlaces DEF FollowedBy
<1>2. At(u, "action") = At(t, "action")
  BY ActionPlaces DEF FollowedBy
<1>4. /\ \A i \in 1..(n + 1) : Vetoed(u, i) <=> Vetoed(t, i)
      /\ \A i \in 1..n : ActionsTo(u, i) = ActionsTo(t, i)
  BY ToldBefore
<1> HIDE DEF n
<1>3. \A i \in At(t, "action") : i \in 1..n /\ i \in 1..(n + 1)
  BY <1>1
<1> QED
  BY <1>1, <1>2, <1>3, <1>4 DEF Explained

(* An entry of the action agent accounts for the action with it. *)
LEMMA ActionTold ==
  ASSUME NEW t, NEW entry, NEW u, FollowedBy(t, entry, u), entry.agent = "action",
         NEW actions, NEW action, NEW longer, FollowedBy(actions, action, longer),
         Len(actions) = Cardinality(At(t, "action")),
         Vetoed(t, Len(t) + 1) <=> action.description = REFUTED_ACTION.description,
         Vetoed(t, Len(t) + 1) <=> entry.event = "vetoed",
         \A i \in At(t, "action") : Explained(t, actions, i)
  PROVE  /\ Len(longer) = Cardinality(At(u, "action"))
         /\ \A i \in At(u, "action") : Explained(u, longer, i)
<1> DEFINE n == Len(t)
<1>1. /\ n \in Nat /\ At(t, "action") \subseteq 1..n /\ u[n + 1] = entry
      /\ At(u, "action") = At(t, "action") \cup {n + 1}
      /\ \A i \in 1..n : u[i] = t[i]
  <2>1. /\ n \in Nat /\ u[n + 1] = entry
        /\ \A i \in 1..n : u[i] = t[i]
    BY DEF FollowedBy
  <2>2. /\ At(t, "action") \subseteq 1..n
        /\ entry.agent = "action" => At(u, "action") = At(t, "action") \cup {n + 1}
    BY ActionPlaces
  <2> QED
    BY <2>1, <2>2, Zenon
<1>2. /\ \A i \in 1..(n + 1) : Vetoed(u, i) <=> Vetoed(t, i)
      /\ \A i \in 1..n : ActionsTo(u, i) = ActionsTo(t, i)
  BY ToldBefore
<1>3. /\ Len(longer) = Cardinality(At(u, "action"))
      /\ longer[Cardinality(ActionsTo(u, n + 1))] = action
      /\ \A i \in At(t, "action") :
           longer[Cardinality(ActionsTo(u, i))] = actions[Cardinality(ActionsTo(t, i))]
  BY ActionCounted
<1>4. Vetoed(t, n + 1) <=> action.description = REFUTED_ACTION.description
  OBVIOUS
<1>5. Vetoed(t, n + 1) <=> entry.event = "vetoed"
  OBVIOUS
<1> HIDE DEF n
<1>6. Explained(u, longer, n + 1)
  <2>1. Vetoed(u, n + 1) <=> Vetoed(t, n + 1)
    BY <1>1, <1>2
  <2> QED
    BY <1>1, <1>3, <1>4, <1>5, <2>1 DEF Explained
<1>7. ASSUME NEW i \in At(t, "action")
      PROVE  Explained(u, longer, i)
  <2>1. i \in 1..n /\ i \in 1..(n + 1)
    BY <1>1
  <2>2. u[i] = t[i] /\ (Vetoed(u, i) <=> Vetoed(t, i))
    BY <1>1, <1>2, <2>1
  <2>3. longer[Cardinality(ActionsTo(u, i))] = actions[Cardinality(ActionsTo(t, i))]
    BY <1>3
  <2>4. Explained(t, actions, i)
    OBVIOUS
  <2> QED
    BY <2>2, <2>3, <2>4 DEF Explained
<1> QED
  BY <1>1, <1>3, <1>6, <1>7

(***************************************************************************)
(* One entry more, by the agent that wrote it.                             *)
(***************************************************************************)
(* An agent that neither grants, reviews, decides nor sets a budget. *)
LEMMA SilentEntry ==
  ASSUME NEW t, NEW entry, NEW u, FollowedBy(t, entry, u),
         NEW x, NEW v, NEW actions, Accounts(t, x, v, actions),
         entry.agent \notin {"supervisor", "falsifier", "action"}
  PROVE  Accounts(u, x, v, actions)
<1>1. Granted(u) = Granted(t)
  BY GrantedAfter
<1>2. Vetoed(u, Len(u) + 1) <=> Vetoed(t, Len(t) + 1)
  BY LatestAfter
<1>3. At(u, "action") = At(t, "action") /\ \A i \in At(u, "action") : Explained(u, actions, i)
  BY ActionsUntold DEF Accounts
<1> QED
  BY <1>1, <1>2, <1>3 DEF Accounts

(* The supervisor, which sets a budget. *)
LEMMA SupervisorEntry ==
  ASSUME NEW t, NEW entry, NEW u, FollowedBy(t, entry, u),
         NEW x, NEW v, NEW actions, Accounts(t, x, v, actions),
         entry.agent = "supervisor"
  PROVE  Accounts(u, 0, v, actions)
<1>1. Cardinality(Granted(u)) = 0
  BY GrantedAfter
<1>2. Vetoed(u, Len(u) + 1) <=> Vetoed(t, Len(t) + 1)
  BY LatestAfter
<1>3. At(u, "action") = At(t, "action") /\ \A i \in At(u, "action") : Explained(u, actions, i)
  BY ActionsUntold DEF Accounts
<1> QED
  BY <1>1, <1>2, <1>3 DEF Accounts

(* The falsifier, when it grants an extension. *)
LEMMA ExtensionEntry ==
  ASSUME NEW t, NEW entry, NEW u, FollowedBy(t, entry, u),
         NEW x, NEW v, NEW actions, Accounts(t, x, v, actions),
         entry.agent = "falsifier", entry.event = "extension"
  PROVE  Accounts(u, x + 1, v, actions)
<1>1. Cardinality(Granted(u)) = Cardinality(Granted(t)) + 1
  BY GrantedAfter
<1>2. Vetoed(u, Len(u) + 1) <=> Vetoed(t, Len(t) + 1)
  BY LatestAfter
<1>3. At(u, "action") = At(t, "action") /\ \A i \in At(u, "action") : Explained(u, actions, i)
  BY ActionsUntold DEF Accounts
<1> QED
  BY <1>1, <1>2, <1>3 DEF Accounts

(* The falsifier, with an outcome. *)
LEMMA OutcomeEntry ==
  ASSUME NEW t, NEW entry, NEW u, FollowedBy(t, entry, u),
         NEW x, NEW v, NEW actions, Accounts(t, x, v, actions),
         entry.agent = "falsifier", entry.event # "extension",
         NEW w, w = "refuted" <=> entry.event = "refuted"
  PROVE  Accounts(u, x, w, actions)
<1>1. Granted(u) = Granted(t)
  BY GrantedAfter
<1>2. Vetoed(u, Len(u) + 1) <=> entry.event = "refuted"
  BY LatestAfter
<1>3. At(u, "action") = At(t, "action") /\ \A i \in At(u, "action") : Explained(u, actions, i)
  BY ActionsUntold DEF Accounts
<1> QED
  BY <1>1, <1>2, <1>3 DEF Accounts

(* The action agent, with one more action. *)
LEMMA ActionEntry ==
  ASSUME NEW t, NEW entry, NEW u, FollowedBy(t, entry, u),
         NEW x, NEW v, NEW actions, Accounts(t, x, v, actions),
         NEW action, NEW longer, FollowedBy(actions, action, longer),
         entry.agent = "action",
         v = "refuted" <=> action.description = REFUTED_ACTION.description,
         v = "refuted" <=> entry.event = "vetoed"
  PROVE  Accounts(u, x, v, longer)
<1>1. Granted(u) = Granted(t)
  BY GrantedAfter
<1>2. Vetoed(u, Len(u) + 1) <=> Vetoed(t, Len(t) + 1)
  BY LatestAfter
<1>3. /\ Vetoed(t, Len(t) + 1) <=> action.description = REFUTED_ACTION.description
      /\ Vetoed(t, Len(t) + 1) <=> entry.event = "vetoed"
      /\ Len(actions) = Cardinality(At(t, "action"))
      /\ \A i \in At(t, "action") : Explained(t, actions, i)
  BY DEF Accounts
<1>4. /\ Len(longer) = Cardinality(At(u, "action"))
      /\ \A i \in At(u, "action") : Explained(u, longer, i)
  BY <1>3, ActionTold
<1> QED
  BY <1>1, <1>2, <1>4 DEF Accounts

(***************************************************************************)
(* The trail accounts for the state.                                       *)
(***************************************************************************)
LatestVerdict == IF falsification = None THEN "none" ELSE falsification.verdict
TrailInvariant ==
  /\ Accounts(audit_trail, budget.extensions_granted, LatestVerdict, recommended_actions)
  /\ budget.extensions_granted <= MAX_EXTENSIONS

(* The trail of a new investigation tells of nothing yet. *)
LEMMA TrailAtFirst == Init => TrailInvariant
<1> SUFFICES ASSUME NEW trig \in Triggers, new_state(trig)
             PROVE  TrailInvariant
  BY DEF Init
<1>1. /\ audit_trail = <<Step("system", "opened")>> /\ recommended_actions = <<>>
      /\ budget.extensions_granted = 0 /\ falsification = None
  BY DEF new_state, NewBudget
<1>2. At(audit_trail, "falsifier") = {} /\ At(audit_trail, "action") = {}
  BY <1>1 DEF At, Step
<1>3. Granted(audit_trail) = {} /\ ~Vetoed(audit_trail, Len(audit_trail) + 1)
  BY <1>2 DEF Granted, Vetoed, Outcomes
<1>4. LatestVerdict # "refuted"
  BY <1>1 DEF LatestVerdict
<1>5. Cardinality(Granted(audit_trail)) = 0
  BY <1>3, FS_EmptySet
<1>6. Len(recommended_actions) = Cardinality(At(audit_trail, "action"))
  BY <1>1, <1>2, FS_EmptySet
<1>7. \A i \in At(audit_trail, "action") : Explained(audit_trail, recommended_actions, i)
  BY <1>2
<1>8. Accounts(audit_trail, 0, LatestVerdict, recommended_actions)
  BY <1>3, <1>4, <1>5, <1>6, <1>7, Zenon DEF Accounts
<1>9. 0 <= MAX_EXTENSIONS
  BY DEF MAX_EXTENSIONS
<1> QED
  BY <1>1, <1>8, <1>9 DEF TrailInvariant

(* A call that writes one silent entry, and nothing else the trail tells   *)
(* of, keeps the account.                                                  *)
LEMMA SilentCall ==
  ASSUME TrailInvariant, NEW entry, FollowedBy(audit_trail, entry, audit_trail'),
         entry.agent \notin {"supervisor", "falsifier", "action"},
         UNCHANGED <<budget, falsification, recommended_actions>>
  PROVE  TrailInvariant'
<1>1. Accounts(audit_trail', budget.extensions_granted, LatestVerdict, recommended_actions)
  BY SilentEntry DEF TrailInvariant
<1> QED
  BY <1>1 DEF TrailInvariant, LatestVerdict

(* So does one that writes two. *)
LEMMA SilentCallTwice ==
  ASSUME TrailInvariant, NEW note, NEW entry, NEW noted,
         FollowedBy(audit_trail, note, noted), FollowedBy(noted, entry, audit_trail'),
         note.agent \notin {"supervisor", "falsifier", "action"},
         entry.agent \notin {"supervisor", "falsifier", "action"},
         UNCHANGED <<budget, falsification, recommended_actions>>
  PROVE  TrailInvariant'
<1>1. Accounts(noted, budget.extensions_granted, LatestVerdict, recommended_actions)
  BY SilentEntry DEF TrailInvariant
<1>2. Accounts(audit_trail', budget.extensions_granted, LatestVerdict, recommended_actions)
  BY <1>1, SilentEntry
<1> QED
  BY <1>2 DEF TrailInvariant, LatestVerdict

(* A review: the extension it may grant, then the verdict. *)
LEMMA ReviewKeepsTrail ==
  ASSUME TypeOK, TrailInvariant, NEW reply \in FalsifierReplies, falsifier_review(reply)
  PROVE  TrailInvariant'
<1> DEFINE note    == Step("falsifier", "extension")
           noted   == Append(audit_trail, note)
           granted == budget.extensions_granted
<1>1. PICK verdict \in Verdicts :
        /\ falsification' # None /\ falsification'.verdict = verdict
        /\ \/ /\ audit_trail' = Append(audit_trail, Step("falsifier", verdict))
              /\ budget' = budget
           \/ /\ audit_trail' = Append(noted, Step("falsifier", verdict))
              /\ budget'.extensions_granted = granted + 1
              /\ budget'.extensions_granted <= MAX_EXTENSIONS
        /\ UNCHANGED <<telemetry_findings, recommended_actions>>
  BY ReviewWrites
<1> DEFINE entry == Step("falsifier", verdict)
<1>2. audit_trail \in Seq(AgentStep) /\ note \in AgentStep /\ entry \in AgentStep
  BY EntryTypes DEF TypeOK
<1>3. noted \in Seq(AgentStep)
  BY <1>2, AppendProperties
<1>4. /\ FollowedBy(audit_trail, note, noted)
      /\ FollowedBy(audit_trail, entry, Append(audit_trail, entry))
      /\ FollowedBy(noted, entry, Append(noted, entry))
  BY <1>2, <1>3, Followed
<1>5. /\ note.agent = "falsifier" /\ note.event = "extension"
      /\ entry.agent = "falsifier" /\ entry.event = verdict
      /\ verdict # "extension"
  BY DEF Step, Verdicts
<1>6. Accounts(audit_trail, granted, LatestVerdict, recommended_actions)
          /\ granted <= MAX_EXTENSIONS
  BY DEF TrailInvariant
<1>7. LatestVerdict' = verdict
  BY <1>1 DEF LatestVerdict
<1> HIDE DEF note, noted, entry, granted
<1>8. CASE audit_trail' = Append(audit_trail, entry) /\ budget' = budget
  <2>1. Accounts(audit_trail', granted, verdict, recommended_actions)
    BY <1>4, <1>5, <1>6, <1>8, OutcomeEntry
  <2> QED
    BY <1>1, <1>6, <1>7, <1>8, <2>1 DEF TrailInvariant, granted
<1>9. CASE /\ audit_trail' = Append(noted, entry)
           /\ budget'.extensions_granted = granted + 1
           /\ budget'.extensions_granted <= MAX_EXTENSIONS
  <2>1. Accounts(noted, granted + 1, LatestVerdict, recommended_actions)
    BY <1>4, <1>5, <1>6, ExtensionEntry
  <2>2. Accounts(audit_trail', granted + 1, verdict, recommended_actions)
    BY <1>4, <1>5, <1>9, <2>1, OutcomeEntry
  <2> QED
    BY <1>1, <1>7, <1>9, <2>2 DEF TrailInvariant
<1> QED
  BY <1>1, <1>8, <1>9 DEF entry

(* An action: the entry and the recommendation it tells of. *)
LEMMA ActionKeepsTrail ==
  ASSUME TypeOK, TrailInvariant, action_step
  PROVE  TrailInvariant'
<1>1. PICK action \in Action, event \in {"vetoed", "recommended"} :
        /\ audit_trail' = Append(audit_trail, Step("action", event))
        /\ recommended_actions' = Append(recommended_actions, action)
        /\ Refuted <=> action.description = REFUTED_ACTION.description
        /\ Refuted <=> event = "vetoed"
        /\ UNCHANGED <<budget, telemetry_findings, falsification>>
  BY ActionWrites
<1> DEFINE entry == Step("action", event)
<1>2. /\ audit_trail \in Seq(AgentStep) /\ recommended_actions \in Seq(Action)
      /\ entry \in AgentStep
  BY EntryTypes DEF TypeOK
<1>3. /\ FollowedBy(audit_trail, entry, audit_trail')
      /\ FollowedBy(recommended_actions, action, recommended_actions')
  BY <1>1, <1>2, Followed
<1>4. entry.agent = "action" /\ entry.event = event
  BY DEF Step
<1>5. LatestVerdict = "refuted" <=> Refuted
  BY DEF LatestVerdict, Refuted
<1>6. Accounts(audit_trail, budget.extensions_granted, LatestVerdict, recommended_actions)
  BY DEF TrailInvariant
<1>7. /\ LatestVerdict = "refuted" <=> action.description = REFUTED_ACTION.description
      /\ LatestVerdict = "refuted" <=> entry.event = "vetoed"
  BY <1>1, <1>4, <1>5
<1> HIDE DEF entry
<1>8. Accounts(audit_trail', budget.extensions_granted, LatestVerdict, recommended_actions')
  BY <1>3, <1>4, <1>6, <1>7, ActionEntry
<1> QED
  BY <1>1, <1>8 DEF TrailInvariant, LatestVerdict

(* Every call keeps the account, with the entries it writes. *)
LEMMA CallsKeepTrail ==
  ASSUME TypeOK, TrailInvariant, AnyCall
  PROVE  TrailInvariant'
<1>1. /\ audit_trail \in Seq(AgentStep)
      /\ Accounts(audit_trail, budget.extensions_granted, LatestVerdict, recommended_actions)
      /\ budget.extensions_granted <= MAX_EXTENSIONS
  BY DEF TypeOK, TrailInvariant
<1>2. /\ \A entry \in AgentStep : FollowedBy(audit_trail, entry, Append(audit_trail, entry))
      /\ \A note, entry \in AgentStep :
           FollowedBy(Append(audit_trail, note), entry, Append(Append(audit_trail, note), entry))
  <2>1. \A note \in AgentStep : Append(audit_trail, note) \in Seq(AgentStep)
    BY <1>1, AppendProperties
  <2> QED
    BY <1>1, <2>1, Followed
<1>3. \A agent, event : Step(agent, event).agent = agent /\ Step(agent, event).event = event
  BY DEF Step
<1>4. CASE supervisor_step
  <2> DEFINE entry == Step("supervisor", "routed")
  <2>1. /\ audit_trail' = Append(audit_trail, entry) /\ budget'.extensions_granted = 0
        /\ falsification' = falsification /\ recommended_actions' = recommended_actions
    BY <1>4, SupervisorWrites
  <2>2. FollowedBy(audit_trail, entry, Append(audit_trail, entry))
          /\ entry.agent = "supervisor"
    BY <1>2, <1>3, EntryTypes
  <2> HIDE DEF entry
  <2>3. Accounts(audit_trail', 0, LatestVerdict, recommended_actions)
    BY <1>1, <2>1, <2>2, SupervisorEntry
  <2> QED
    BY <2>1, <2>3 DEF TrailInvariant, LatestVerdict, MAX_EXTENSIONS
<1>5. CASE telemetry_step
  <2> DEFINE entry == Step("telemetry", "collected")
  <2>1. /\ audit_trail' = Append(audit_trail, entry)
        /\ UNCHANGED <<budget, falsification, recommended_actions>>
    BY <1>5, TelemetryWrites
  <2>2. /\ FollowedBy(audit_trail, entry, Append(audit_trail, entry))
        /\ entry.agent \notin {"supervisor", "falsifier", "action"}
    BY <1>2, <1>3, EntryTypes
  <2> HIDE DEF entry
  <2> QED
    BY <2>1, <2>2, SilentCall
<1>6. CASE reasoning
  <2> DEFINE note  == Step("reasoning", "fallback")
             entry == Step("reasoning", "hypothesis")
  <2>1. PICK reply \in ReasoningReplies : reasoning_step(reply)
    BY <1>6 DEF reasoning
  <2>2. /\ \/ audit_trail' = Append(audit_trail, entry)
           \/ audit_trail' = Append(Append(audit_trail, note), entry)
        /\ UNCHANGED <<budget, falsification, recommended_actions>>
    BY <2>1, ReasoningWrites
  <2>3. /\ FollowedBy(audit_trail, entry, Append(audit_trail, entry))
        /\ FollowedBy(audit_trail, note, Append(audit_trail, note))
        /\ FollowedBy(Append(audit_trail, note), entry,
                      Append(Append(audit_trail, note), entry))
        /\ note.agent \notin {"supervisor", "falsifier", "action"}
        /\ entry.agent \notin {"supervisor", "falsifier", "action"}
    BY <1>2, <1>3, EntryTypes
  <2> HIDE DEF note, entry
  <2>4. CASE audit_trail' = Append(audit_trail, entry)
    BY <2>2, <2>3, <2>4, SilentCall
  <2>5. CASE audit_trail' = Append(Append(audit_trail, note), entry)
    BY <2>2, <2>3, <2>5, SilentCallTwice
  <2> QED
    BY <2>2, <2>4, <2>5
<1>7. CASE falsifier_skip
  <2> DEFINE entry == Step("falsifier", "skipped")
  <2>1. /\ audit_trail' = Append(audit_trail, entry)
        /\ falsification' # None /\ falsification'.verdict = "contested"
        /\ UNCHANGED <<budget, recommended_actions>>
    BY <1>7, SkipWrites
  <2>2. /\ FollowedBy(audit_trail, entry, Append(audit_trail, entry))
        /\ entry.agent = "falsifier" /\ entry.event = "skipped"
    BY <1>2, <1>3, EntryTypes
  <2> HIDE DEF entry
  <2>3. Accounts(audit_trail', budget.extensions_granted, "contested", recommended_actions)
    BY <1>1, <2>1, <2>2, OutcomeEntry
  <2> QED
    BY <1>1, <2>1, <2>3 DEF TrailInvariant, LatestVerdict
<1>8. CASE \E reply \in FalsifierReplies : falsifier_review(reply)
  BY <1>8, ReviewKeepsTrail
<1>9. CASE counterfactual_step
  <2>1. PICK event \in {"skipped", "predicted"} :
          /\ audit_trail' = Append(audit_trail, Step("counterfactual", event))
          /\ UNCHANGED <<budget, falsification, recommended_actions>>
    BY <1>9, CounterfactualWrites
  <2> DEFINE entry == Step("counterfactual", event)
  <2>2. /\ FollowedBy(audit_trail, entry, Append(audit_trail, entry))
        /\ entry.agent \notin {"supervisor", "falsifier", "action"}
    BY <1>2, <1>3, EntryTypes
  <2> HIDE DEF entry
  <2> QED
    BY <2>1, <2>2, SilentCall DEF entry
<1>10. CASE action_step
  BY <1>10, ActionKeepsTrail
<1>11. CASE corpus_raises
  <2> DEFINE note == Step("reasoning", "fallback")
  <2>1. /\ audit_trail' = audit_trail \/ audit_trail' = Append(audit_trail, note)
        /\ UNCHANGED <<budget, falsification, recommended_actions>>
    BY <1>11, RaisingWrites
  <2>2. /\ FollowedBy(audit_trail, note, Append(audit_trail, note))
        /\ note.agent \notin {"supervisor", "falsifier", "action"}
    BY <1>2, <1>3, EntryTypes
  <2> HIDE DEF note
  <2>3. CASE audit_trail' = audit_trail
    BY <2>1, <2>3 DEF TrailInvariant, LatestVerdict
  <2>4. CASE audit_trail' = Append(audit_trail, note)
    BY <2>1, <2>2, <2>4, SilentCall
  <2> QED
    BY <2>1, <2>3, <2>4
<1> QED
  BY <1>4, <1>5, <1>6, <1>7, <1>8, <1>9, <1>10, <1>11 DEF AnyCall, AnyStep, falsifier_step

(* So the trail accounts for every state. *)
LEMMA TrailKept == Spec => []TrailInvariant
<1>1. StepInvariant /\ TrailInvariant /\ [Next]_state => TrailInvariant'
  <2>1. ASSUME StepInvariant, TrailInvariant, Next
        PROVE  TrailInvariant'
    BY <2>1, CallsKeepTrail DEF StepInvariant, Next
  <2>2. ASSUME TrailInvariant, UNCHANGED state
        PROVE  TrailInvariant'
    <3>1. UNCHANGED <<audit_trail, budget, falsification, recommended_actions>>
      BY <2>2 DEF state
    <3> QED
      BY <2>2, <3>1 DEF TrailInvariant, LatestVerdict
  <2> QED
    BY <2>1, <2>2
<1> QED
  BY <1>1, TrailAtFirst, Invariant, PTL DEF Spec

(* The audit trail tells for every recommendation whether the falsifier    *)
(* had refuted the hypothesis when it was made, in whatever order the      *)
(* steps are called (agents/action.py, the entries of agents/falsifier.py).*)
THEOREM StepsExplainActions == Spec => []TrailExplainsActions
<1>1. TrailInvariant => TrailExplainsActions
  <2>1. /\ \A agent : EntriesOf(agent) = At(audit_trail, agent)
        /\ \A i : OutcomesBefore(i) = Outcomes(audit_trail, i)
    BY DEF EntriesOf, At, OutcomesBefore, Outcomes
  <2>2. \A i : VetoedAt(i) <=> Vetoed(audit_trail, i)
    BY <2>1 DEF VetoedAt, Vetoed
  <2>3. \A i : {j \in EntriesOf("action") : j <= i} = ActionsTo(audit_trail, i)
    BY <2>1 DEF ActionsTo
  <2> QED
    BY <2>1, <2>2, <2>3 DEF TrailInvariant, Accounts, Explained, TrailExplainsActions
<1> QED
  BY <1>1, TrailKept, PTL

(* The extensions granted are those on the trail since the supervisor last *)
(* ran, and at most MAX_EXTENSIONS (agents/falsifier.py:151).              *)
THEOREM StepsCountExtensions == Spec => []ExtensionsOnTrail
<1>1. TrailInvariant => ExtensionsOnTrail
  <2>1. \A agent : EntriesOf(agent) = At(audit_trail, agent)
    BY DEF EntriesOf, At
  <2>2. {i \in EntriesOf("falsifier") :
            /\ audit_trail[i].event = "extension"
            /\ \A j \in EntriesOf("supervisor") : j < i} = Granted(audit_trail)
    BY <2>1 DEF Granted
  <2> QED
    BY <2>2 DEF TrailInvariant, Accounts, ExtensionsOnTrail
<1> QED
  BY <1>1, TrailKept, PTL
=============================================================================
