---------------------------- MODULE RepliesProofs ----------------------------
(***************************************************************************)
(* The line loops of Replies compute what Agents makes of the reply a text *)
(* stands for, for texts of any length in any order of lines.  A register  *)
(* is described by the text read so far with no CHOOSE in it (LastOf), so  *)
(* that one more line disturbs only the registers of its kind.             *)
(***************************************************************************)
EXTENDS Replies, SequenceTheorems, TLAPS

(***************************************************************************)
(* The lines of a text, and of each kind the ones there are.               *)
(***************************************************************************)
LineOf(kind, values) == [kind : {kind}, value : values, says : Phrases \cup {{}}]
TextLine ==
  LineOf("HYPOTHESIS", Phrases \cup {Blank}) \cup LineOf("CLAIM", SupportLists)
    \cup LineOf("CONFIDENCE", Numbers) \cup LineOf("VERDICT", Verdicts \cup {Garbled})
    \cup LineOf("CONTRADICTION", FindingNumbers) \cup LineOf("SCORE", Numbers)
    \cup LineOf("DELTA", DeltaParts) \cup LineOf("PREDICTION", Numbers)
    \cup LineOf("OTHER", {Blank})

OfIn(t, kind) == {i \in 1..Len(t) : t[i].kind = kind}
ReadableIn(t, kind) == {i \in OfIn(t, kind) : t[i].value # Garbled}

(* The value is that of the last of the lines, or the default.             *)
LastOf(t, lines, value, default) ==
  \/ lines = {} /\ value = default
  \/ \E i \in lines : (\A j \in lines : j <= i) /\ value = t[i].value

(***************************************************************************)
(* What one more line changes.                                             *)
(***************************************************************************)

(* The lines before stay where they are, and the new one is the last.      *)
LEMMA LineAppended ==
  ASSUME NEW t \in Seq(TextLine), NEW ln \in TextLine
  PROVE  /\ Append(t, ln) \in Seq(TextLine)
         /\ Len(t) \in Nat
         /\ Len(Append(t, ln)) = Len(t) + 1
         /\ \A i \in 1..Len(t) : Append(t, ln)[i] = t[i]
         /\ Append(t, ln)[Len(t) + 1] = ln
  BY AppendProperties, LenProperties

(* A line of another kind leaves the lines of a kind alone.                *)
LEMMA OtherKind ==
  ASSUME NEW t \in Seq(TextLine), NEW ln \in TextLine, NEW kind, ln.kind # kind
  PROVE  /\ OfIn(Append(t, ln), kind) = OfIn(t, kind)
         /\ ReadableIn(Append(t, ln), kind) = ReadableIn(t, kind)
  <1>1. OfIn(Append(t, ln), kind) = OfIn(t, kind)
    BY LineAppended DEF OfIn
  <1>2. \A i \in OfIn(t, kind) : Append(t, ln)[i] = t[i]
    BY LineAppended DEF OfIn
  <1> QED BY <1>1, <1>2 DEF ReadableIn

(* A line of the kind is added, and to the readable ones if it can be read. *)
LEMMA SameKind ==
  ASSUME NEW t \in Seq(TextLine), NEW ln \in TextLine
  PROVE  /\ OfIn(Append(t, ln), ln.kind) = OfIn(t, ln.kind) \cup {Len(t) + 1}
         /\ ln.value = Garbled =>
              ReadableIn(Append(t, ln), ln.kind) = ReadableIn(t, ln.kind)
         /\ ln.value # Garbled =>
              ReadableIn(Append(t, ln), ln.kind)
                = ReadableIn(t, ln.kind) \cup {Len(t) + 1}
  <1>1. OfIn(Append(t, ln), ln.kind) = OfIn(t, ln.kind) \cup {Len(t) + 1}
    BY LineAppended DEF OfIn
  <1>2. \A i \in OfIn(t, ln.kind) : Append(t, ln)[i] = t[i]
    BY LineAppended DEF OfIn
  <1>3. Append(t, ln)[Len(t) + 1] = ln
    BY LineAppended
  <1> QED BY <1>1, <1>2, <1>3 DEF ReadableIn

(* A value stays the last one of the same lines.                           *)
LEMMA LastKept ==
  ASSUME NEW t \in Seq(TextLine), NEW ln \in TextLine,
         NEW lines \in SUBSET (1..Len(t)), NEW value, NEW default,
         LastOf(t, lines, value, default)
  PROVE  LastOf(Append(t, ln), lines, value, default)
  BY LineAppended DEF LastOf

(* The value of the new line is the last one, whatever was before.         *)
LEMMA LastRead ==
  ASSUME NEW t \in Seq(TextLine), NEW ln \in TextLine,
         NEW lines \in SUBSET (1..Len(t)), NEW default
  PROVE  LastOf(Append(t, ln), lines \cup {Len(t) + 1}, ln.value, default)
  BY LineAppended DEF LastOf

(* What LastOf says is the value Replies chooses.                          *)
LEMMA LastIsValue ==
  ASSUME NEW lines \in SUBSET Nat, NEW value, NEW default,
         LastOf(text, lines, value, default)
  PROVE  ValueOf(lines, default) = value
  <1>1. CASE lines = {}
    BY <1>1 DEF LastOf, ValueOf
  <1>2. CASE lines # {}
    <2>1. PICK i \in lines : (\A j \in lines : j <= i) /\ value = text[i].value
      BY <1>2 DEF LastOf
    <2>2. \A k \in lines : (\A j \in lines : j <= k) => k = i
      BY <2>1
    <2>3. Latest(lines) = i
      BY <2>1, <2>2 DEF Latest
    <2> QED BY <1>2, <2>1, <2>3 DEF ValueOf
  <1> QED BY <1>1, <1>2

(***************************************************************************)
(* The registers of the loops, as functions of the text.                   *)
(***************************************************************************)
SummaryIs(t, x) == LastOf(t, OfIn(t, "HYPOTHESIS"), x, Blank)
ConfidenceIs(t, x) ==
  \E v : LastOf(t, OfIn(t, "CONFIDENCE"), v, Garbled) /\ x = IF v = Garbled THEN 0 ELSE v
VerdictIs(t, x) ==
  \E v : /\ LastOf(t, ReadableIn(t, "VERDICT"), v, Garbled)
         /\ x = IF v = Garbled THEN "contested" ELSE v
ScoreIs(t, x) ==
  \E v : LastOf(t, ReadableIn(t, "SCORE"), v, Garbled) /\ x = ReadUnit(v, 450)
PredictionIs(t, x) ==
  \E v : /\ LastOf(t, ReadableIn(t, "PREDICTION"), v, Garbled)
         /\ x = IF v = Garbled THEN 300 ELSE v

ClaimsAre(t, ids, cs) ==
  cs = {[line |-> i, supporting_finding_ids |-> t[i].value \cap ids] :
          i \in {j \in OfIn(t, "CLAIM") : t[j].value \cap ids # {}}}
ContradictionsAre(t, cs, fs) ==
  /\ cs = OfIn(t, "CONTRADICTION")
  /\ fs = {[line |-> i, finding |-> t[i].value] :
             i \in {j \in OfIn(t, "CONTRADICTION") : t[j].value # Garbled}}
IsShort(ln) == ln.value.short = TRUE
DeltasAre(t, ds) ==
  ds = {Delta(Bound(t[i].value.lower, 0), Bound(t[i].value.upper, 1000)) :
          i \in {j \in OfIn(t, "DELTA") : ~IsShort(t[j])}}

IInv ==
  /\ text \in Seq(TextLine)
  /\ SummaryIs(text, summary) /\ SummaryIs(text, flat_summary)
  /\ ConfidenceIs(text, raw_confidence) /\ flat_confidence = raw_confidence
  /\ ClaimsAre(text, FindingIds, claims)
  /\ VerdictIs(text, verdict)
  /\ ContradictionsAre(text, contradictions, contested)
  /\ ScoreIs(text, score)
  /\ DeltasAre(text, deltas)
  /\ PredictionIs(text, prediction_confidence)

(* The values that are the last of their kind are kept by other lines.     *)
LEMMA OtherLineLast ==
  ASSUME NEW t \in Seq(TextLine), NEW ln \in TextLine, NEW x
  PROVE  /\ ln.kind # "HYPOTHESIS" /\ SummaryIs(t, x) => SummaryIs(Append(t, ln), x)
         /\ ln.kind # "CONFIDENCE" /\ ConfidenceIs(t, x) => ConfidenceIs(Append(t, ln), x)
         /\ ln.kind # "VERDICT" /\ VerdictIs(t, x) => VerdictIs(Append(t, ln), x)
         /\ ln.kind # "SCORE" /\ ScoreIs(t, x) => ScoreIs(Append(t, ln), x)
         /\ ln.kind # "PREDICTION" /\ PredictionIs(t, x) => PredictionIs(Append(t, ln), x)
  <1>1. ASSUME NEW kind, ln.kind # kind, NEW v, NEW d
        PROVE  /\ LastOf(t, OfIn(t, kind), v, d)
                    => LastOf(Append(t, ln), OfIn(Append(t, ln), kind), v, d)
               /\ LastOf(t, ReadableIn(t, kind), v, d)
                    => LastOf(Append(t, ln), ReadableIn(Append(t, ln), kind), v, d)
    <2>1. OfIn(t, kind) \in SUBSET (1..Len(t)) /\ ReadableIn(t, kind) \in SUBSET (1..Len(t))
      BY DEF OfIn, ReadableIn
    <2> QED BY <1>1, <2>1, OtherKind, LastKept
  <1>2. ln.kind # "HYPOTHESIS" /\ SummaryIs(t, x) => SummaryIs(Append(t, ln), x)
    BY <1>1 DEF SummaryIs
  <1>3. ln.kind # "CONFIDENCE" /\ ConfidenceIs(t, x) => ConfidenceIs(Append(t, ln), x)
    BY <1>1 DEF ConfidenceIs
  <1>4. ln.kind # "VERDICT" /\ VerdictIs(t, x) => VerdictIs(Append(t, ln), x)
    BY <1>1 DEF VerdictIs
  <1>5. ln.kind # "SCORE" /\ ScoreIs(t, x) => ScoreIs(Append(t, ln), x)
    BY <1>1 DEF ScoreIs
  <1>6. ln.kind # "PREDICTION" /\ PredictionIs(t, x) => PredictionIs(Append(t, ln), x)
    BY <1>1 DEF PredictionIs
  <1> QED BY <1>2, <1>3, <1>4, <1>5, <1>6

(* So are the collections.                                                 *)
LEMMA OtherLineSets ==
  ASSUME NEW t \in Seq(TextLine), NEW ln \in TextLine, NEW x, NEW y
  PROVE  /\ ln.kind # "CLAIM" /\ ClaimsAre(t, y, x) => ClaimsAre(Append(t, ln), y, x)
         /\ ln.kind # "CONTRADICTION" /\ ContradictionsAre(t, x, y)
              => ContradictionsAre(Append(t, ln), x, y)
         /\ ln.kind # "DELTA" /\ DeltasAre(t, x) => DeltasAre(Append(t, ln), x)
  <1>1. ASSUME NEW kind, ln.kind # kind
        PROVE  /\ OfIn(Append(t, ln), kind) = OfIn(t, kind)
               /\ \A i \in OfIn(t, kind) : Append(t, ln)[i] = t[i]
    BY <1>1, OtherKind, LineAppended DEF OfIn
  <1>2. ln.kind # "CLAIM" /\ ClaimsAre(t, y, x) => ClaimsAre(Append(t, ln), y, x)
    <2> SUFFICES ASSUME ln.kind # "CLAIM", ClaimsAre(t, y, x)
                 PROVE  ClaimsAre(Append(t, ln), y, x)
      OBVIOUS
    <2> DEFINE u == Append(t, ln)
               Cited(w) == {j \in OfIn(w, "CLAIM") : w[j].value \cap y # {}}
    <2>1. Cited(u) = Cited(t) /\ \A i \in Cited(t) : u[i] = t[i]
      <3>1. /\ OfIn(u, "CLAIM") = OfIn(t, "CLAIM")
            /\ \A i \in OfIn(t, "CLAIM") : u[i] = t[i]
        BY <1>1, Zenon
      <3> HIDE DEF u
      <3> QED BY <3>1
    <2>2. x = {[line |-> i, supporting_finding_ids |-> t[i].value \cap y] : i \in Cited(t)}
      BY DEF ClaimsAre
    <2>3. x = {[line |-> i, supporting_finding_ids |-> u[i].value \cap y] : i \in Cited(u)}
      <3> HIDE DEF u, Cited
      <3> QED BY <2>1, <2>2
    <2> QED BY <2>3 DEF ClaimsAre
  <1>3. ln.kind # "CONTRADICTION" /\ ContradictionsAre(t, x, y)
          => ContradictionsAre(Append(t, ln), x, y)
    <2> SUFFICES ASSUME ln.kind # "CONTRADICTION", ContradictionsAre(t, x, y)
                 PROVE  ContradictionsAre(Append(t, ln), x, y)
      OBVIOUS
    <2> DEFINE u == Append(t, ln)
    <2>1. /\ OfIn(u, "CONTRADICTION") = OfIn(t, "CONTRADICTION")
          /\ \A i \in OfIn(t, "CONTRADICTION") : u[i] = t[i]
      BY <1>1, Zenon
    <2> HIDE DEF u
    <2> DEFINE WithNumber(w) == {j \in OfIn(w, "CONTRADICTION") : w[j].value # Garbled}
    <2>2. WithNumber(u) = WithNumber(t) /\ \A i \in WithNumber(t) : u[i] = t[i]
      BY <2>1
    <2>3. /\ x = OfIn(t, "CONTRADICTION")
          /\ y = {[line |-> i, finding |-> t[i].value] : i \in WithNumber(t)}
      BY DEF ContradictionsAre
    <2>4. y = {[line |-> i, finding |-> u[i].value] : i \in WithNumber(u)}
      <3> HIDE DEF WithNumber
      <3> QED BY <2>2, <2>3
    <2>5. ContradictionsAre(u, x, y)
      BY <2>1, <2>3, <2>4 DEF ContradictionsAre
    <2> QED BY <2>5 DEF u
  <1>4. ln.kind # "DELTA" /\ DeltasAre(t, x) => DeltasAre(Append(t, ln), x)
    <2> SUFFICES ASSUME ln.kind # "DELTA", DeltasAre(t, x)
                 PROVE  DeltasAre(Append(t, ln), x)
      OBVIOUS
    <2> DEFINE u == Append(t, ln)
               Long(w) == {j \in OfIn(w, "DELTA") : ~IsShort(w[j])}
    <2>1. Long(u) = Long(t) /\ \A i \in Long(t) : u[i] = t[i]
      BY <1>1
    <2>2. x = {Delta(Bound(t[i].value.lower, 0), Bound(t[i].value.upper, 1000)) :
                 i \in Long(t)}
      BY DEF DeltasAre
    <2>3. x = {Delta(Bound(u[i].value.lower, 0), Bound(u[i].value.upper, 1000)) :
                 i \in Long(u)}
      <3> HIDE DEF u, Long
      <3> QED BY <2>1, <2>2
    <2> QED BY <2>3 DEF DeltasAre
  <1> QED BY <1>2, <1>3, <1>4
(* A line of its kind becomes the last; one that cannot be read does not.  *)
LEMMA OwnLineLast ==
  ASSUME NEW t \in Seq(TextLine), NEW ln \in TextLine, NEW x
  PROVE  /\ ln.kind = "HYPOTHESIS" => SummaryIs(Append(t, ln), ln.value)
         /\ ln.kind = "CONFIDENCE" =>
              ConfidenceIs(Append(t, ln), IF ln.value = Garbled THEN 0 ELSE ln.value)
         /\ ln.kind = "VERDICT" /\ VerdictIs(t, x) =>
              VerdictIs(Append(t, ln), IF ln.value = Garbled THEN x ELSE ln.value)
         /\ ln.kind = "SCORE" /\ ScoreIs(t, x) =>
              ScoreIs(Append(t, ln), ReadUnit(ln.value, x))
         /\ ln.kind = "PREDICTION" /\ PredictionIs(t, x) =>
              PredictionIs(Append(t, ln), IF ln.value = Garbled THEN x ELSE ln.value)
  <1> DEFINE u == Append(t, ln)
  <1>1. OfIn(t, ln.kind) \in SUBSET (1..Len(t))
    BY DEF OfIn
  <1>2. ReadableIn(t, ln.kind) \in SUBSET (1..Len(t))
    BY DEF OfIn, ReadableIn
  <1>3. \A d : LastOf(u, OfIn(u, ln.kind), ln.value, d)
    BY <1>1, SameKind, LastRead
  <1>4. ln.value # Garbled => \A d : LastOf(u, ReadableIn(u, ln.kind), ln.value, d)
    BY <1>2, SameKind, LastRead
  <1>5. ln.value = Garbled =>
          \A v, d : LastOf(t, ReadableIn(t, ln.kind), v, d)
                      => LastOf(u, ReadableIn(u, ln.kind), v, d)
    BY <1>2, SameKind, LastKept
  <1> HIDE DEF u
  <1>6. ln.kind = "HYPOTHESIS" => SummaryIs(u, ln.value)
    BY <1>3 DEF SummaryIs
  <1>7. ln.kind = "CONFIDENCE" =>
          ConfidenceIs(u, IF ln.value = Garbled THEN 0 ELSE ln.value)
    BY <1>3 DEF ConfidenceIs
  <1>8. ln.kind = "VERDICT" /\ VerdictIs(t, x) =>
          VerdictIs(u, IF ln.value = Garbled THEN x ELSE ln.value)
    BY <1>4, <1>5 DEF VerdictIs
  <1>9. ln.kind = "SCORE" /\ ScoreIs(t, x) => ScoreIs(u, ReadUnit(ln.value, x))
    BY <1>4, <1>5 DEF ScoreIs, ReadUnit
  <1>10. ln.kind = "PREDICTION" /\ PredictionIs(t, x) =>
           PredictionIs(u, IF ln.value = Garbled THEN x ELSE ln.value)
    BY <1>4, <1>5 DEF PredictionIs
  <1> QED BY <1>6, <1>7, <1>8, <1>9, <1>10 DEF u

(* A line of its kind adds to a collection what it says.                   *)
LEMMA OwnLineSets ==
  ASSUME NEW t \in Seq(TextLine), NEW ln \in TextLine, NEW x, NEW y
  PROVE  /\ ln.kind = "CLAIM" /\ ClaimsAre(t, y, x) =>
              ClaimsAre(Append(t, ln), y,
                IF ln.value \cap y = {} THEN x
                ELSE x \cup {[line |-> Len(t) + 1,
                              supporting_finding_ids |-> ln.value \cap y]})
         /\ ln.kind = "CONTRADICTION" /\ ContradictionsAre(t, x, y) =>
              ContradictionsAre(Append(t, ln), x \cup {Len(t) + 1},
                IF ln.value = Garbled THEN y
                ELSE y \cup {[line |-> Len(t) + 1, finding |-> ln.value]})
  <1> DEFINE u == Append(t, ln)
             n == Len(t) + 1
  <1>1. /\ OfIn(u, ln.kind) = OfIn(t, ln.kind) \cup {n}
        /\ n \notin OfIn(t, ln.kind)
        /\ u[n] = ln
        /\ \A i \in OfIn(t, ln.kind) : u[i] = t[i]
    BY SameKind, LineAppended DEF OfIn
  <1> HIDE DEF u, n
  <1>2. ASSUME ln.kind = "CLAIM", ClaimsAre(t, y, x)
        PROVE  ClaimsAre(u, y, IF ln.value \cap y = {} THEN x
                 ELSE x \cup {[line |-> n, supporting_finding_ids |-> ln.value \cap y]})
    <2> DEFINE Cited(w) == {j \in OfIn(w, "CLAIM") : w[j].value \cap y # {}}
    <2>1. Cited(u) = Cited(t) \cup (IF ln.value \cap y = {} THEN {} ELSE {n})
      BY <1>1, <1>2
    <2>2. \A i \in Cited(t) : u[i] = t[i]
      BY <1>1, <1>2
    <2>3. x = {[line |-> i, supporting_finding_ids |-> t[i].value \cap y] : i \in Cited(t)}
      BY <1>2 DEF ClaimsAre
    <2>4. (IF ln.value \cap y = {} THEN x
           ELSE x \cup {[line |-> n, supporting_finding_ids |-> ln.value \cap y]})
            = {[line |-> i, supporting_finding_ids |-> u[i].value \cap y] : i \in Cited(u)}
      <3> HIDE DEF Cited
      <3> QED BY <1>1, <2>1, <2>2, <2>3
    <2> QED BY <2>4 DEF ClaimsAre
  <1>3. ASSUME ln.kind = "CONTRADICTION", ContradictionsAre(t, x, y)
        PROVE  ContradictionsAre(u, x \cup {n},
                 IF ln.value = Garbled THEN y
                 ELSE y \cup {[line |-> n, finding |-> ln.value]})
    <2> DEFINE WithNumber(w) == {j \in OfIn(w, "CONTRADICTION") : w[j].value # Garbled}
    <2>1. WithNumber(u) = WithNumber(t) \cup (IF ln.value = Garbled THEN {} ELSE {n})
      BY <1>1, <1>3
    <2>2. \A i \in WithNumber(t) : u[i] = t[i]
      BY <1>1, <1>3
    <2>3. /\ x = OfIn(t, "CONTRADICTION")
          /\ y = {[line |-> i, finding |-> t[i].value] : i \in WithNumber(t)}
      BY <1>3 DEF ContradictionsAre
    <2>4. (IF ln.value = Garbled THEN y ELSE y \cup {[line |-> n, finding |-> ln.value]})
            = {[line |-> i, finding |-> u[i].value] : i \in WithNumber(u)}
      <3> HIDE DEF WithNumber
      <3> QED BY <1>1, <2>1, <2>2, <2>3
    <2>5. x \cup {n} = OfIn(u, "CONTRADICTION")
      BY <1>1, <1>3, <2>3
    <2> QED BY <2>4, <2>5 DEF ContradictionsAre
  <1> QED BY <1>2, <1>3 DEF u, n

(* The same of a DELTA line with all its parts.                            *)
LEMMA OwnLineDelta ==
  ASSUME NEW t \in Seq(TextLine), NEW ln \in TextLine, NEW x,
         ln.kind = "DELTA", DeltasAre(t, x)
  PROVE  /\ IsShort(ln) => DeltasAre(Append(t, ln), x)
         /\ ~IsShort(ln) =>
              DeltasAre(Append(t, ln),
                x \cup {Delta(Bound(ln.value.lower, 0), Bound(ln.value.upper, 1000))})
  <1> DEFINE u == Append(t, ln)
             n == Len(t) + 1
             Long(w) == {j \in OfIn(w, "DELTA") : ~IsShort(w[j])}
             Bounds(w, i) == Delta(Bound(w[i].value.lower, 0), Bound(w[i].value.upper, 1000))
  <1>1. /\ OfIn(u, ln.kind) = OfIn(t, ln.kind) \cup {n}
        /\ n \notin OfIn(t, ln.kind)
        /\ u[n] = ln
        /\ \A i \in OfIn(t, ln.kind) : u[i] = t[i]
    BY SameKind, LineAppended DEF OfIn
  <1> HIDE DEF u, n
  <1>2. /\ IsShort(ln) => Long(u) = Long(t)
        /\ ~IsShort(ln) => Long(u) = Long(t) \cup {n}
    BY <1>1
  <1>3. \A i \in Long(t) : Bounds(u, i) = Bounds(t, i)
    BY <1>1
  <1>4. x = {Bounds(t, i) : i \in Long(t)}
    BY DEF DeltasAre
  <1>5. Bounds(u, n) = Delta(Bound(ln.value.lower, 0), Bound(ln.value.upper, 1000))
    BY <1>1
  <1>6. ASSUME IsShort(ln) PROVE DeltasAre(u, x)
    <2>1. x = {Bounds(u, i) : i \in Long(u)}
      <3> HIDE DEF Long, Bounds
      <3> QED BY <1>2, <1>3, <1>4, <1>6
    <2> QED BY <2>1 DEF DeltasAre
  <1>7. ASSUME ~IsShort(ln) PROVE DeltasAre(u, x \cup {Bounds(u, n)})
    <2> DEFINE after == x \cup {Bounds(u, n)}
    <2>1. after = {Bounds(u, i) : i \in Long(u)}
      <3> HIDE DEF Long, Bounds
      <3> QED BY <1>2, <1>3, <1>4, <1>7
    <2>2. DeltasAre(u, after)
      <3> HIDE DEF after
      <3> QED BY <2>1 DEF DeltasAre
    <2> QED BY <2>2
  <1> HIDE DEF Bounds
  <1> QED BY <1>5, <1>6, <1>7 DEF u

(***************************************************************************)
(* The invariant.                                                          *)
(***************************************************************************)

(* Before the first line every register has its default.                   *)
LEMMA EmptyText ==
  /\ <<>> \in Seq(TextLine)
  /\ SummaryIs(<<>>, Blank)
  /\ ConfidenceIs(<<>>, 0)
  /\ \A ids : ClaimsAre(<<>>, ids, {})
  /\ VerdictIs(<<>>, "contested")
  /\ ContradictionsAre(<<>>, {}, {})
  /\ ScoreIs(<<>>, 450)
  /\ DeltasAre(<<>>, {})
  /\ PredictionIs(<<>>, 300)
  <1>1. \A kind : OfIn(<<>>, kind) = {} /\ ReadableIn(<<>>, kind) = {}
    BY LenProperties DEF OfIn, ReadableIn
  <1>2. \A kind, d : /\ LastOf(<<>>, OfIn(<<>>, kind), d, d)
                    /\ LastOf(<<>>, ReadableIn(<<>>, kind), d, d)
    BY <1>1 DEF LastOf
  <1>3. SummaryIs(<<>>, Blank) /\ ConfidenceIs(<<>>, 0) /\ VerdictIs(<<>>, "contested")
    BY <1>2 DEF SummaryIs, ConfidenceIs, VerdictIs
  <1>4. ScoreIs(<<>>, 450) /\ PredictionIs(<<>>, 300)
    BY <1>2 DEF ScoreIs, PredictionIs, ReadUnit
  <1>5. (\A ids : ClaimsAre(<<>>, ids, {})) /\ DeltasAre(<<>>, {})
    BY <1>1 DEF ClaimsAre, DeltasAre
  <1>6. ContradictionsAre(<<>>, {}, {})
    BY <1>1 DEF ContradictionsAre
  <1> QED BY <1>3, <1>4, <1>5, <1>6

(* What reading a line does whatever its kind.                             *)
LEMMA LineRead ==
  ASSUME text \in Seq(TextLine), NEW kind, NEW value, NEW says,
         Reads(kind, value, says),
         [kind |-> kind, value |-> value, says |-> says] \in TextLine
  PROVE  /\ text' = Append(text, [kind |-> kind, value |-> value, says |-> says])
         /\ text' \in Seq(TextLine)
         /\ FindingIds' = FindingIds
         /\ Here = Len(text) + 1
  BY LineAppended DEF Reads, state, FindingIds, Here

(* A HYPOTHESIS line.                                                      *)
LEMMA ReadHypothesisKeeps ==
  ASSUME IInv, ReadHypothesis
  PROVE  IInv'
  <1>1. PICK says \in Phrases, value \in Phrases \cup {Blank} : 
          /\ Reads("HYPOTHESIS", value, IF value = Blank THEN {} ELSE says)
          /\ summary' = value
          /\ flat_summary' = value
    BY DEF ReadHypothesis
  <1> DEFINE ln == [kind |-> "HYPOTHESIS", value |-> value,
                    says |-> IF value = Blank THEN {} ELSE says]
  <1>2. ln \in TextLine
    BY RepliesAssumption DEF TextLine, LineOf
  <1>3. /\ text' = Append(text, ln) /\ text' \in Seq(TextLine)
        /\ FindingIds' = FindingIds /\ Here = Len(text) + 1
    BY <1>1, <1>2, LineRead DEF IInv
  <1>4. ln.kind = "HYPOTHESIS" /\ ln.value = value
    OBVIOUS
  <1> HIDE DEF ln
  <1>5. SummaryIs(text', summary') /\ SummaryIs(text', flat_summary')
    BY <1>1, <1>2, <1>3, <1>4, OwnLineLast DEF IInv, ReadHypothesis, reasoningLoop, flatLoop
  <1>6. ConfidenceIs(text', raw_confidence') /\ flat_confidence' = raw_confidence'
    BY <1>1, <1>2, <1>3, <1>4, OtherLineLast DEF IInv, ReadHypothesis, reasoningLoop, flatLoop
  <1>7. ClaimsAre(text', FindingIds', claims')
    BY <1>1, <1>2, <1>3, <1>4, OtherLineSets DEF IInv, ReadHypothesis, reasoningLoop
  <1>8. VerdictIs(text', verdict')
    BY <1>1, <1>2, <1>3, <1>4, OtherLineLast DEF IInv, ReadHypothesis, falsifierLoop
  <1>9. ContradictionsAre(text', contradictions', contested')
    BY <1>1, <1>2, <1>3, <1>4, OtherLineSets DEF IInv, ReadHypothesis, falsifierLoop
  <1>10. ScoreIs(text', score')
    BY <1>1, <1>2, <1>3, <1>4, OtherLineLast DEF IInv, ReadHypothesis, falsifierLoop
  <1>11. DeltasAre(text', deltas')
    BY <1>1, <1>2, <1>3, <1>4, OtherLineSets DEF IInv, ReadHypothesis, predictionLoop
  <1>12. PredictionIs(text', prediction_confidence')
    BY <1>1, <1>2, <1>3, <1>4, OtherLineLast DEF IInv, ReadHypothesis, predictionLoop
  <1> QED BY <1>3, <1>5, <1>6, <1>7, <1>8, <1>9, <1>10, <1>11, <1>12 DEF IInv

(* A CLAIM line.                                                           *)
LEMMA ReadClaimKeeps ==
  ASSUME IInv, ReadClaim
  PROVE  IInv'
  <1>1. PICK says \in Phrases, supports \in SupportLists : 
          /\ Reads("CLAIM", supports, says)
          /\ claims' = IF supports \cap FindingIds = {} THEN claims
                       ELSE claims \cup {[line |-> Here, supporting_finding_ids
                                              |-> supports \cap FindingIds]}
    BY DEF ReadClaim
  <1> DEFINE ln == [kind |-> "CLAIM", value |-> supports, says |-> says]
  <1>2. ln \in TextLine
    BY RepliesAssumption DEF TextLine, LineOf
  <1>3. /\ text' = Append(text, ln) /\ text' \in Seq(TextLine)
        /\ FindingIds' = FindingIds /\ Here = Len(text) + 1
    BY <1>1, <1>2, LineRead DEF IInv
  <1>4. ln.kind = "CLAIM" /\ ln.value = supports
    OBVIOUS
  <1> HIDE DEF ln
  <1>5. SummaryIs(text', summary') /\ SummaryIs(text', flat_summary')
    BY <1>1, <1>2, <1>3, <1>4, OtherLineLast DEF IInv, ReadClaim, reasoningLoop, flatLoop
  <1>6. ConfidenceIs(text', raw_confidence') /\ flat_confidence' = raw_confidence'
    BY <1>1, <1>2, <1>3, <1>4, OtherLineLast DEF IInv, ReadClaim, reasoningLoop, flatLoop
  <1>7. ClaimsAre(text', FindingIds', claims')
    <2> DEFINE after == IF ln.value \cap FindingIds = {} THEN claims
                        ELSE claims \cup {[line |-> Len(text) + 1,
                                           supporting_finding_ids |-> ln.value \cap FindingIds]}
    <2>1. text \in Seq(TextLine) /\ ClaimsAre(text, FindingIds, claims)
      BY DEF IInv
    <2>2. ClaimsAre(Append(text, ln), FindingIds, after)
      BY <1>2, <1>4, <2>1, OwnLineSets
    <2>3. claims' = after
      BY <1>1, <1>3, <1>4
    <2> HIDE DEF after
    <2> QED BY <1>3, <2>2, <2>3
  <1>8. VerdictIs(text', verdict')
    BY <1>1, <1>2, <1>3, <1>4, OtherLineLast DEF IInv, ReadClaim, falsifierLoop
  <1>9. ContradictionsAre(text', contradictions', contested')
    BY <1>1, <1>2, <1>3, <1>4, OtherLineSets DEF IInv, ReadClaim, falsifierLoop
  <1>10. ScoreIs(text', score')
    BY <1>1, <1>2, <1>3, <1>4, OtherLineLast DEF IInv, ReadClaim, falsifierLoop
  <1>11. DeltasAre(text', deltas')
    BY <1>1, <1>2, <1>3, <1>4, OtherLineSets DEF IInv, ReadClaim, predictionLoop
  <1>12. PredictionIs(text', prediction_confidence')
    BY <1>1, <1>2, <1>3, <1>4, OtherLineLast DEF IInv, ReadClaim, predictionLoop
  <1> QED BY <1>3, <1>5, <1>6, <1>7, <1>8, <1>9, <1>10, <1>11, <1>12 DEF IInv

(* A line with the confidence of the hypothesis.                           *)
LEMMA ReadConfidenceKeeps ==
  ASSUME IInv, ReadConfidence
  PROVE  IInv'
  <1>1. PICK x \in Numbers : 
          /\ Reads("CONFIDENCE", x, {})
          /\ raw_confidence' = (IF x = Garbled THEN 0 ELSE x)
          /\ flat_confidence' = (IF x = Garbled THEN 0 ELSE x)
    BY DEF ReadConfidence
  <1> DEFINE ln == [kind |-> "CONFIDENCE", value |-> x, says |-> {}]
  <1>2. ln \in TextLine
    BY RepliesAssumption DEF TextLine, LineOf
  <1>3. /\ text' = Append(text, ln) /\ text' \in Seq(TextLine)
        /\ FindingIds' = FindingIds /\ Here = Len(text) + 1
    BY <1>1, <1>2, LineRead DEF IInv
  <1>4. ln.kind = "CONFIDENCE" /\ ln.value = x
    OBVIOUS
  <1> HIDE DEF ln
  <1>5. SummaryIs(text', summary') /\ SummaryIs(text', flat_summary')
    BY <1>1, <1>2, <1>3, <1>4, OtherLineLast DEF IInv, ReadConfidence, reasoningLoop, flatLoop
  <1>6. ConfidenceIs(text', raw_confidence') /\ flat_confidence' = raw_confidence'
    BY <1>1, <1>2, <1>3, <1>4, OwnLineLast DEF IInv, ReadConfidence, reasoningLoop, flatLoop
  <1>7. ClaimsAre(text', FindingIds', claims')
    BY <1>1, <1>2, <1>3, <1>4, OtherLineSets DEF IInv, ReadConfidence, reasoningLoop
  <1>8. VerdictIs(text', verdict')
    BY <1>1, <1>2, <1>3, <1>4, OtherLineLast DEF IInv, ReadConfidence, falsifierLoop
  <1>9. ContradictionsAre(text', contradictions', contested')
    BY <1>1, <1>2, <1>3, <1>4, OtherLineSets DEF IInv, ReadConfidence, falsifierLoop
  <1>10. ScoreIs(text', score')
    BY <1>1, <1>2, <1>3, <1>4, OtherLineLast DEF IInv, ReadConfidence, falsifierLoop
  <1>11. DeltasAre(text', deltas')
    BY <1>1, <1>2, <1>3, <1>4, OtherLineSets DEF IInv, ReadConfidence, predictionLoop
  <1>12. PredictionIs(text', prediction_confidence')
    BY <1>1, <1>2, <1>3, <1>4, OtherLineLast DEF IInv, ReadConfidence, predictionLoop
  <1> QED BY <1>3, <1>5, <1>6, <1>7, <1>8, <1>9, <1>10, <1>11, <1>12 DEF IInv

(* A VERDICT line.                                                         *)
LEMMA ReadVerdictKeeps ==
  ASSUME IInv, ReadVerdict
  PROVE  IInv'
  <1>1. PICK word \in Verdicts \cup {Garbled} : 
          /\ Reads("VERDICT", word, {})
          /\ verdict' = IF word = Garbled THEN verdict ELSE word
    BY DEF ReadVerdict
  <1> DEFINE ln == [kind |-> "VERDICT", value |-> word, says |-> {}]
  <1>2. ln \in TextLine
    BY RepliesAssumption DEF TextLine, LineOf
  <1>3. /\ text' = Append(text, ln) /\ text' \in Seq(TextLine)
        /\ FindingIds' = FindingIds /\ Here = Len(text) + 1
    BY <1>1, <1>2, LineRead DEF IInv
  <1>4. ln.kind = "VERDICT" /\ ln.value = word
    OBVIOUS
  <1> HIDE DEF ln
  <1>5. SummaryIs(text', summary') /\ SummaryIs(text', flat_summary')
    BY <1>1, <1>2, <1>3, <1>4, OtherLineLast DEF IInv, ReadVerdict, reasoningLoop, flatLoop
  <1>6. ConfidenceIs(text', raw_confidence') /\ flat_confidence' = raw_confidence'
    BY <1>1, <1>2, <1>3, <1>4, OtherLineLast DEF IInv, ReadVerdict, reasoningLoop, flatLoop
  <1>7. ClaimsAre(text', FindingIds', claims')
    BY <1>1, <1>2, <1>3, <1>4, OtherLineSets DEF IInv, ReadVerdict, reasoningLoop
  <1>8. VerdictIs(text', verdict')
    BY <1>1, <1>2, <1>3, <1>4, OwnLineLast DEF IInv, ReadVerdict, falsifierLoop
  <1>9. ContradictionsAre(text', contradictions', contested')
    BY <1>1, <1>2, <1>3, <1>4, OtherLineSets DEF IInv, ReadVerdict, falsifierLoop
  <1>10. ScoreIs(text', score')
    BY <1>1, <1>2, <1>3, <1>4, OtherLineLast DEF IInv, ReadVerdict, falsifierLoop
  <1>11. DeltasAre(text', deltas')
    BY <1>1, <1>2, <1>3, <1>4, OtherLineSets DEF IInv, ReadVerdict, predictionLoop
  <1>12. PredictionIs(text', prediction_confidence')
    BY <1>1, <1>2, <1>3, <1>4, OtherLineLast DEF IInv, ReadVerdict, predictionLoop
  <1> QED BY <1>3, <1>5, <1>6, <1>7, <1>8, <1>9, <1>10, <1>11, <1>12 DEF IInv

(* A CONTRADICTION line.                                                   *)
LEMMA ReadContradictionKeeps ==
  ASSUME IInv, ReadContradiction
  PROVE  IInv'
  <1>1. PICK says \in Phrases, finding \in FindingNumbers : 
          /\ Reads("CONTRADICTION", finding, says)
          /\ contradictions' = contradictions \cup {Here}
          /\ contested' = IF finding = Garbled THEN contested
                          ELSE contested \cup {[line |-> Here, finding |-> finding]}
    BY DEF ReadContradiction
  <1> DEFINE ln == [kind |-> "CONTRADICTION", value |-> finding, says |-> says]
  <1>2. ln \in TextLine
    BY RepliesAssumption DEF TextLine, LineOf
  <1>3. /\ text' = Append(text, ln) /\ text' \in Seq(TextLine)
        /\ FindingIds' = FindingIds /\ Here = Len(text) + 1
    BY <1>1, <1>2, LineRead DEF IInv
  <1>4. ln.kind = "CONTRADICTION" /\ ln.value = finding
    OBVIOUS
  <1> HIDE DEF ln
  <1>5. SummaryIs(text', summary') /\ SummaryIs(text', flat_summary')
    BY <1>1, <1>2, <1>3, <1>4, OtherLineLast DEF IInv, ReadContradiction, reasoningLoop, flatLoop
  <1>6. ConfidenceIs(text', raw_confidence') /\ flat_confidence' = raw_confidence'
    BY <1>1, <1>2, <1>3, <1>4, OtherLineLast DEF IInv, ReadContradiction, reasoningLoop, flatLoop
  <1>7. ClaimsAre(text', FindingIds', claims')
    BY <1>1, <1>2, <1>3, <1>4, OtherLineSets DEF IInv, ReadContradiction, reasoningLoop
  <1>8. VerdictIs(text', verdict')
    BY <1>1, <1>2, <1>3, <1>4, OtherLineLast DEF IInv, ReadContradiction, falsifierLoop
  <1>9. ContradictionsAre(text', contradictions', contested')
    <2>1. text \in Seq(TextLine) /\ ContradictionsAre(text, contradictions, contested)
      BY DEF IInv
    <2>2. ContradictionsAre(Append(text, ln), contradictions \cup {Len(text) + 1},
            IF finding = Garbled THEN contested
            ELSE contested \cup {[line |-> Len(text) + 1, finding |-> finding]})
      BY <1>2, <1>4, <2>1, OwnLineSets
    <2> QED BY <1>1, <1>3, <2>2
  <1>10. ScoreIs(text', score')
    BY <1>1, <1>2, <1>3, <1>4, OtherLineLast DEF IInv, ReadContradiction, falsifierLoop
  <1>11. DeltasAre(text', deltas')
    BY <1>1, <1>2, <1>3, <1>4, OtherLineSets DEF IInv, ReadContradiction, predictionLoop
  <1>12. PredictionIs(text', prediction_confidence')
    BY <1>1, <1>2, <1>3, <1>4, OtherLineLast DEF IInv, ReadContradiction, predictionLoop
  <1> QED BY <1>3, <1>5, <1>6, <1>7, <1>8, <1>9, <1>10, <1>11, <1>12 DEF IInv

(* A FALSIFICATION_SCORE line.                                             *)
LEMMA ReadScoreKeeps ==
  ASSUME IInv, ReadScore
  PROVE  IInv'
  <1>1. PICK x \in Numbers : 
          /\ Reads("SCORE", x, {})
          /\ score' = ReadUnit(x, score)
    BY DEF ReadScore
  <1> DEFINE ln == [kind |-> "SCORE", value |-> x, says |-> {}]
  <1>2. ln \in TextLine
    BY RepliesAssumption DEF TextLine, LineOf
  <1>3. /\ text' = Append(text, ln) /\ text' \in Seq(TextLine)
        /\ FindingIds' = FindingIds /\ Here = Len(text) + 1
    BY <1>1, <1>2, LineRead DEF IInv
  <1>4. ln.kind = "SCORE" /\ ln.value = x
    OBVIOUS
  <1> HIDE DEF ln
  <1>5. SummaryIs(text', summary') /\ SummaryIs(text', flat_summary')
    BY <1>1, <1>2, <1>3, <1>4, OtherLineLast DEF IInv, ReadScore, reasoningLoop, flatLoop
  <1>6. ConfidenceIs(text', raw_confidence') /\ flat_confidence' = raw_confidence'
    BY <1>1, <1>2, <1>3, <1>4, OtherLineLast DEF IInv, ReadScore, reasoningLoop, flatLoop
  <1>7. ClaimsAre(text', FindingIds', claims')
    BY <1>1, <1>2, <1>3, <1>4, OtherLineSets DEF IInv, ReadScore, reasoningLoop
  <1>8. VerdictIs(text', verdict')
    BY <1>1, <1>2, <1>3, <1>4, OtherLineLast DEF IInv, ReadScore, falsifierLoop
  <1>9. ContradictionsAre(text', contradictions', contested')
    BY <1>1, <1>2, <1>3, <1>4, OtherLineSets DEF IInv, ReadScore, falsifierLoop
  <1>10. ScoreIs(text', score')
    BY <1>1, <1>2, <1>3, <1>4, OwnLineLast DEF IInv, ReadScore, falsifierLoop
  <1>11. DeltasAre(text', deltas')
    BY <1>1, <1>2, <1>3, <1>4, OtherLineSets DEF IInv, ReadScore, predictionLoop
  <1>12. PredictionIs(text', prediction_confidence')
    BY <1>1, <1>2, <1>3, <1>4, OtherLineLast DEF IInv, ReadScore, predictionLoop
  <1> QED BY <1>3, <1>5, <1>6, <1>7, <1>8, <1>9, <1>10, <1>11, <1>12 DEF IInv

(* A DELTA line.                                                           *)
LEMMA ReadDeltaKeeps ==
  ASSUME IInv, ReadDelta
  PROVE  IInv'
  <1>1. PICK parts \in DeltaParts : 
          /\ Reads("DELTA", parts, {})
          /\ deltas' = IF parts.short THEN deltas
                       ELSE deltas \cup {Delta(Bound(parts.lower, 0),
                                               Bound(parts.upper, 1000))}
    BY DEF ReadDelta
  <1> DEFINE ln == [kind |-> "DELTA", value |-> parts, says |-> {}]
  <1>2. ln \in TextLine
    BY RepliesAssumption DEF TextLine, LineOf
  <1>3. /\ text' = Append(text, ln) /\ text' \in Seq(TextLine)
        /\ FindingIds' = FindingIds /\ Here = Len(text) + 1
    BY <1>1, <1>2, LineRead DEF IInv
  <1>4. ln.kind = "DELTA" /\ ln.value = parts
    OBVIOUS
  <1> HIDE DEF ln
  <1>5. SummaryIs(text', summary') /\ SummaryIs(text', flat_summary')
    BY <1>1, <1>2, <1>3, <1>4, OtherLineLast DEF IInv, ReadDelta, reasoningLoop, flatLoop
  <1>6. ConfidenceIs(text', raw_confidence') /\ flat_confidence' = raw_confidence'
    BY <1>1, <1>2, <1>3, <1>4, OtherLineLast DEF IInv, ReadDelta, reasoningLoop, flatLoop
  <1>7. ClaimsAre(text', FindingIds', claims')
    BY <1>1, <1>2, <1>3, <1>4, OtherLineSets DEF IInv, ReadDelta, reasoningLoop
  <1>8. VerdictIs(text', verdict')
    BY <1>1, <1>2, <1>3, <1>4, OtherLineLast DEF IInv, ReadDelta, falsifierLoop
  <1>9. ContradictionsAre(text', contradictions', contested')
    BY <1>1, <1>2, <1>3, <1>4, OtherLineSets DEF IInv, ReadDelta, falsifierLoop
  <1>10. ScoreIs(text', score')
    BY <1>1, <1>2, <1>3, <1>4, OtherLineLast DEF IInv, ReadDelta, falsifierLoop
  <1>11. DeltasAre(text', deltas')
    <2>1. text \in Seq(TextLine) /\ DeltasAre(text, deltas)
      BY DEF IInv
    <2>2. /\ IsShort(ln) => DeltasAre(Append(text, ln), deltas)
          /\ ~IsShort(ln) =>
               DeltasAre(Append(text, ln),
                 deltas \cup {Delta(Bound(ln.value.lower, 0), Bound(ln.value.upper, 1000))})
      <3>1. ln.kind = "DELTA"
        BY <1>4
      <3> QED BY <1>2, <2>1, <3>1, OwnLineDelta
    <2>3. ln.value.short \in BOOLEAN
      BY <1>4, RepliesAssumption DEF DeltaPart
    <2>4. CASE IsShort(ln)
      <3>1. deltas' = deltas
        BY <1>1, <1>4, <2>4 DEF IsShort
      <3>2. DeltasAre(Append(text, ln), deltas)
        BY <2>4, <2>2
      <3> QED BY <1>3, <3>1, <3>2
    <2>5. CASE ~IsShort(ln)
      <3> DEFINE delta == Delta(Bound(ln.value.lower, 0), Bound(ln.value.upper, 1000))
      <3>1. deltas' = deltas \cup {delta}
        BY <1>1, <1>4, <2>5, <2>3 DEF IsShort
      <3>2. DeltasAre(Append(text, ln), deltas \cup {delta})
        BY <2>5, <2>2
      <3> HIDE DEF delta
      <3> QED BY <1>3, <3>1, <3>2
    <2> QED BY <2>4, <2>5
  <1>12. PredictionIs(text', prediction_confidence')
    BY <1>1, <1>2, <1>3, <1>4, OtherLineLast DEF IInv, ReadDelta, predictionLoop
  <1> QED BY <1>3, <1>5, <1>6, <1>7, <1>8, <1>9, <1>10, <1>11, <1>12 DEF IInv

(* A PREDICTION_CONFIDENCE line.                                           *)
LEMMA ReadPredictionKeeps ==
  ASSUME IInv, ReadPrediction
  PROVE  IInv'
  <1>1. PICK x \in Numbers : 
          /\ Reads("PREDICTION", x, {})
          /\ prediction_confidence' = (IF x = Garbled THEN prediction_confidence ELSE x)
    BY DEF ReadPrediction
  <1> DEFINE ln == [kind |-> "PREDICTION", value |-> x, says |-> {}]
  <1>2. ln \in TextLine
    BY RepliesAssumption DEF TextLine, LineOf
  <1>3. /\ text' = Append(text, ln) /\ text' \in Seq(TextLine)
        /\ FindingIds' = FindingIds /\ Here = Len(text) + 1
    BY <1>1, <1>2, LineRead DEF IInv
  <1>4. ln.kind = "PREDICTION" /\ ln.value = x
    OBVIOUS
  <1> HIDE DEF ln
  <1>5. SummaryIs(text', summary') /\ SummaryIs(text', flat_summary')
    BY <1>1, <1>2, <1>3, <1>4, OtherLineLast DEF IInv, ReadPrediction, reasoningLoop, flatLoop
  <1>6. ConfidenceIs(text', raw_confidence') /\ flat_confidence' = raw_confidence'
    BY <1>1, <1>2, <1>3, <1>4, OtherLineLast DEF IInv, ReadPrediction, reasoningLoop, flatLoop
  <1>7. ClaimsAre(text', FindingIds', claims')
    BY <1>1, <1>2, <1>3, <1>4, OtherLineSets DEF IInv, ReadPrediction, reasoningLoop
  <1>8. VerdictIs(text', verdict')
    BY <1>1, <1>2, <1>3, <1>4, OtherLineLast DEF IInv, ReadPrediction, falsifierLoop
  <1>9. ContradictionsAre(text', contradictions', contested')
    BY <1>1, <1>2, <1>3, <1>4, OtherLineSets DEF IInv, ReadPrediction, falsifierLoop
  <1>10. ScoreIs(text', score')
    BY <1>1, <1>2, <1>3, <1>4, OtherLineLast DEF IInv, ReadPrediction, falsifierLoop
  <1>11. DeltasAre(text', deltas')
    BY <1>1, <1>2, <1>3, <1>4, OtherLineSets DEF IInv, ReadPrediction, predictionLoop
  <1>12. PredictionIs(text', prediction_confidence')
    BY <1>1, <1>2, <1>3, <1>4, OwnLineLast DEF IInv, ReadPrediction, predictionLoop
  <1> QED BY <1>3, <1>5, <1>6, <1>7, <1>8, <1>9, <1>10, <1>11, <1>12 DEF IInv

(* Any other line.                                                         *)
LEMMA ReadOtherKeeps ==
  ASSUME IInv, ReadOther
  PROVE  IInv'
  <1>1. PICK says \in Phrases : Reads("OTHER", Blank, says)
    BY DEF ReadOther
  <1> DEFINE ln == [kind |-> "OTHER", value |-> Blank, says |-> says]
  <1>2. ln \in TextLine
    BY RepliesAssumption DEF TextLine, LineOf
  <1>3. /\ text' = Append(text, ln) /\ text' \in Seq(TextLine)
        /\ FindingIds' = FindingIds /\ Here = Len(text) + 1
    BY <1>1, <1>2, LineRead DEF IInv
  <1>4. ln.kind = "OTHER" /\ ln.value = Blank
    OBVIOUS
  <1> HIDE DEF ln
  <1>5. SummaryIs(text', summary') /\ SummaryIs(text', flat_summary')
    BY <1>1, <1>2, <1>3, <1>4, OtherLineLast DEF IInv, ReadOther, reasoningLoop, flatLoop
  <1>6. ConfidenceIs(text', raw_confidence') /\ flat_confidence' = raw_confidence'
    BY <1>1, <1>2, <1>3, <1>4, OtherLineLast DEF IInv, ReadOther, reasoningLoop, flatLoop
  <1>7. ClaimsAre(text', FindingIds', claims')
    BY <1>1, <1>2, <1>3, <1>4, OtherLineSets DEF IInv, ReadOther, reasoningLoop
  <1>8. VerdictIs(text', verdict')
    BY <1>1, <1>2, <1>3, <1>4, OtherLineLast DEF IInv, ReadOther, falsifierLoop
  <1>9. ContradictionsAre(text', contradictions', contested')
    BY <1>1, <1>2, <1>3, <1>4, OtherLineSets DEF IInv, ReadOther, falsifierLoop
  <1>10. ScoreIs(text', score')
    BY <1>1, <1>2, <1>3, <1>4, OtherLineLast DEF IInv, ReadOther, falsifierLoop
  <1>11. DeltasAre(text', deltas')
    BY <1>1, <1>2, <1>3, <1>4, OtherLineSets DEF IInv, ReadOther, predictionLoop
  <1>12. PredictionIs(text', prediction_confidence')
    BY <1>1, <1>2, <1>3, <1>4, OtherLineLast DEF IInv, ReadOther, predictionLoop
  <1> QED BY <1>3, <1>5, <1>6, <1>7, <1>8, <1>9, <1>10, <1>11, <1>12 DEF IInv
(* The agents that run before a text comes leave the registers alone.      *)
LEMMA PrepareKeeps ==
  ASSUME IInv, Prepare
  PROVE  IInv'
  <1>1. /\ text = <<>> /\ text' = text
        /\ summary' = summary /\ raw_confidence' = raw_confidence /\ claims' = claims
        /\ flat_summary' = flat_summary /\ flat_confidence' = flat_confidence
        /\ verdict' = verdict /\ contradictions' = contradictions
        /\ contested' = contested /\ score' = score /\ deltas' = deltas
        /\ prediction_confidence' = prediction_confidence
    BY DEF Prepare, reasoningLoop, flatLoop, falsifierLoop, predictionLoop
  <1>2. claims = {}
    <2>1. OfIn(<<>>, "CLAIM") = {}
      BY LenProperties DEF OfIn
    <2> QED BY <1>1, <2>1 DEF IInv, ClaimsAre
  <1>3. ClaimsAre(text', FindingIds', claims')
    <2>1. \A ids : ClaimsAre(text', ids, claims')
      BY <1>1, <1>2, EmptyText
    <2> QED BY <2>1
  <1> QED BY <1>1, <1>3 DEF IInv

(* The registers describe the text after every round of the loops.         *)
LEMMA IInvInductive ==
  /\ Init => IInv
  /\ IInv /\ [Next]_vars => IInv'
  <1>1. Init => IInv
    BY EmptyText DEF Init, IInv
  <1>2. ASSUME IInv, [Next]_vars PROVE IInv'
    <2>1. CASE Prepare
      BY <1>2, <2>1, PrepareKeeps
    <2>2. CASE ReadLine
      BY <1>2, <2>2, ReadHypothesisKeeps, ReadClaimKeeps, ReadConfidenceKeeps,
         ReadVerdictKeeps, ReadContradictionKeeps, ReadScoreKeeps, ReadDeltaKeeps,
         ReadPredictionKeeps, ReadOtherKeeps
      DEF ReadLine
    <2>3. CASE UNCHANGED vars
      BY <1>2, <2>3
      DEF vars, IInv, state, FindingIds, reasoningLoop, flatLoop, falsifierLoop,
          predictionLoop
    <2> QED BY <1>2, <2>1, <2>2, <2>3 DEF Next
  <1> QED BY <1>1, <1>2

(***************************************************************************)
(* What the loops return.                                                  *)
(***************************************************************************)

(* The lines of a kind, as Replies and as the registers are told by.       *)
LEMMA KindsOfText ==
  ASSUME IInv, NEW kind
  PROVE  /\ Of(kind) = OfIn(text, kind)
         /\ Readable(kind) = ReadableIn(text, kind)
         /\ Of(kind) \in SUBSET Nat /\ Readable(kind) \in SUBSET Nat
  <1>1. DOMAIN text = 1..Len(text) /\ Len(text) \in Nat
    BY LenProperties DEF IInv
  <1>2. Of(kind) = OfIn(text, kind) /\ Of(kind) \in SUBSET Nat
    BY <1>1 DEF Of, OfIn
  <1> QED BY <1>2 DEF Readable, ReadableIn

(* The default 0 or 300 is a clamped number.                               *)
LEMMA DefaultsClamped == Clamp(0) = 0 /\ Clamp(300) = 300
  BY ReadingAssumption DEF Clamp

(* _parse_claims and parse_hypothesis.                                     *)
LEMMA ClaimsAgree ==
  ASSUME IInv
  PROVE  ClaimsParsed /\ FlatParseAgrees
  <1>1. ValueOf(Of("HYPOTHESIS"), Blank) = summary
           /\ ValueOf(Of("HYPOTHESIS"), Blank) = flat_summary
    BY KindsOfText, LastIsValue DEF IInv, SummaryIs
  <1>2. Clamp(raw_confidence) = ReadUnit(ValueOf(Of("CONFIDENCE"), Garbled), 0)
    <2>1. PICK v : /\ LastOf(text, OfIn(text, "CONFIDENCE"), v, Garbled)
                   /\ raw_confidence = IF v = Garbled THEN 0 ELSE v
      BY DEF IInv, ConfidenceIs
    <2>2. ValueOf(Of("CONFIDENCE"), Garbled) = v
      BY <2>1, KindsOfText, LastIsValue
    <2> QED BY <2>1, <2>2, DefaultsClamped DEF ReadUnit
  <1>3. claims = GroundedClaims(reasoning_reply.claims)
    <2> DEFINE lines == Of("CLAIM")
               spoken == {[line |-> i, supports |-> text[i].value] : i \in lines}
               cited == {i \in lines : text[i].value \cap FindingIds # {}}
    <2>1. lines = OfIn(text, "CLAIM")
      BY KindsOfText
    <2>2. claims = {[line |-> i, supporting_finding_ids |-> text[i].value \cap FindingIds] :
                      i \in cited}
      BY <2>1 DEF IInv, ClaimsAre
    <2>3. GroundedClaims(spoken)
            = {[line |-> i, supporting_finding_ids |-> text[i].value \cap FindingIds] :
                 i \in cited}
      <3> DEFINE kept == {d \in spoken : d.supports \cap FindingIds # {}}
                 Grounds(c) == [line |-> c.line,
                                supporting_finding_ids |-> c.supports \cap FindingIds]
                 ground(i) == [line |-> i,
                               supporting_finding_ids |-> text[i].value \cap FindingIds]
                 record(i) == [line |-> i, supports |-> text[i].value]
      <3>1. \A i \in lines : Grounds(record(i)) = ground(i)
        OBVIOUS
      <3>2. ASSUME NEW c \in kept PROVE \E i \in cited : c = record(i)
        OBVIOUS
      <3>3. ASSUME NEW i \in cited PROVE record(i) \in kept
        OBVIOUS
      <3>4. GroundedClaims(spoken) = {Grounds(c) : c \in kept}
        BY DEF GroundedClaims
      <3>5. cited \subseteq lines
        OBVIOUS
      <3> HIDE DEF kept, record, ground, Grounds, cited, lines
      <3>6. {Grounds(c) : c \in kept} = {ground(i) : i \in cited}
        BY <3>1, <3>2, <3>3, <3>5
      <3> QED BY <3>4, <3>6 DEF ground
    <2>4. reasoning_reply.claims = spoken
      BY DEF reasoning_reply
    <2> HIDE DEF spoken, cited
    <2> QED BY <2>2, <2>3, <2>4
  <1>4. flat_confidence = raw_confidence
    BY DEF IInv
  <1> QED BY <1>1, <1>2, <1>3, <1>4 DEF ClaimsParsed, FlatParseAgrees, reasoning_reply

(* _parse_falsification.                                                   *)
LEMMA FalsificationAgrees ==
  ASSUME IInv
  PROVE  FalsificationParsed
  <1>1. verdict = IF falsifier_reply.verdict = Garbled THEN "contested"
                  ELSE falsifier_reply.verdict
    <2>1. PICK v : /\ LastOf(text, ReadableIn(text, "VERDICT"), v, Garbled)
                   /\ verdict = IF v = Garbled THEN "contested" ELSE v
      BY DEF IInv, VerdictIs
    <2>2. ValueOf(Readable("VERDICT"), Garbled) = v
      BY <2>1, KindsOfText, LastIsValue
    <2> QED BY <2>1, <2>2 DEF falsifier_reply
  <1>2. score = ReadUnit(falsifier_reply.falsification_score, 450)
    <2>1. PICK v : /\ LastOf(text, ReadableIn(text, "SCORE"), v, Garbled)
                   /\ score = ReadUnit(v, 450)
      BY DEF IInv, ScoreIs
    <2>2. ValueOf(Readable("SCORE"), Garbled) = v
      BY <2>1, KindsOfText, LastIsValue
    <2> QED BY <2>1, <2>2 DEF falsifier_reply
  <1>3. /\ contradictions = {c.line : c \in falsifier_reply.contradictions}
        /\ contested = {c \in falsifier_reply.contradictions : c.finding # Garbled}
    <2> DEFINE lines == Of("CONTRADICTION")
               spoken == {[line |-> i, finding |-> text[i].value] : i \in lines}
    <2>1. /\ contradictions = lines
          /\ contested = {[line |-> i, finding |-> text[i].value] :
                            i \in {j \in lines : text[j].value # Garbled}}
      BY KindsOfText DEF IInv, ContradictionsAre
    <2>2. /\ {c.line : c \in spoken} = lines
          /\ {c \in spoken : c.finding # Garbled}
               = {[line |-> i, finding |-> text[i].value] :
                    i \in {j \in lines : text[j].value # Garbled}}
      <3> DEFINE record(i) == [line |-> i, finding |-> text[i].value]
                 named == {j \in lines : text[j].value # Garbled}
      <3>1. \A i \in lines : record(i).line = i /\ record(i).finding = text[i].value
        OBVIOUS
      <3>2. spoken = {record(i) : i \in lines}
        OBVIOUS
      <3>3. named \subseteq lines /\ \A i \in lines : i \in named <=> text[i].value # Garbled
        OBVIOUS
      <3> HIDE DEF lines, spoken, record, named
      <3>4. {c.line : c \in spoken} = lines
        BY <3>1, <3>2
      <3>5. {c \in spoken : c.finding # Garbled} = {record(i) : i \in named}
        BY <3>1, <3>2, <3>3
      <3> QED BY <3>4, <3>5 DEF record, named
    <2>3. falsifier_reply.contradictions = spoken
      BY DEF falsifier_reply
    <2> HIDE DEF spoken, lines
    <2> QED BY <2>1, <2>2, <2>3
  <1> QED BY <1>1, <1>2, <1>3 DEF FalsificationParsed, ParseFalsification

(* _llm_predict.                                                           *)
LEMMA PredictionAgrees ==
  ASSUME IInv
  PROVE  PredictionParsed
  <1>1. Clamp(prediction_confidence) = ReadUnit(prediction_reply.prediction_confidence, 300)
    <2>1. PICK v : /\ LastOf(text, ReadableIn(text, "PREDICTION"), v, Garbled)
                   /\ prediction_confidence = IF v = Garbled THEN 300 ELSE v
      BY DEF IInv, PredictionIs
    <2>2. ValueOf(Readable("PREDICTION"), Garbled) = v
      BY <2>1, KindsOfText, LastIsValue
    <2> QED BY <2>1, <2>2, DefaultsClamped DEF ReadUnit, prediction_reply
  <1>2. deltas = {Delta(Bound(d.lower, 0), Bound(d.upper, 1000)) : d \in prediction_reply.deltas}
           /\ (deltas = {} <=> prediction_reply.deltas = {})
    <2> DEFINE long == {j \in Of("DELTA") : ~text[j].value.short}
               spoken == {[line |-> i, lower |-> text[i].value.lower,
                           upper |-> text[i].value.upper] : i \in long}
    <2>1. /\ Of("DELTA") = OfIn(text, "DELTA")
          /\ \A j \in Of("DELTA") : text[j].value.short \in BOOLEAN
      <3>1. Of("DELTA") = OfIn(text, "DELTA")
        BY KindsOfText
      <3>2. \A j \in OfIn(text, "DELTA") : text[j] \in TextLine /\ text[j].kind = "DELTA"
        BY ElementOfSeq DEF IInv, OfIn
      <3>3. \A ln \in TextLine : ln.kind = "DELTA" => ln.value \in DeltaPart
        BY RepliesAssumption DEF TextLine, LineOf
      <3> QED BY <3>1, <3>2, <3>3 DEF DeltaPart
    <2>2. long = {j \in OfIn(text, "DELTA") : ~IsShort(text[j])}
      BY <2>1 DEF IsShort
    <2>3. deltas = {Delta(Bound(text[i].value.lower, 0), Bound(text[i].value.upper, 1000)) :
                      i \in long}
      BY <2>2 DEF IInv, DeltasAre
    <2>4. prediction_reply.deltas = spoken
      BY DEF prediction_reply
    <2>5. {Delta(Bound(d.lower, 0), Bound(d.upper, 1000)) : d \in spoken}
            = {Delta(Bound(text[i].value.lower, 0), Bound(text[i].value.upper, 1000)) :
                 i \in long}
      <3> DEFINE record(i) == [line |-> i, lower |-> text[i].value.lower,
                               upper |-> text[i].value.upper]
                 Read(d) == Delta(Bound(d.lower, 0), Bound(d.upper, 1000))
      <3>1. \A i \in long : Read(record(i)) = Read(text[i].value)
        OBVIOUS
      <3>2. spoken = {record(i) : i \in long}
        OBVIOUS
      <3> HIDE DEF long, spoken, record, Read
      <3>3. {Read(d) : d \in spoken} = {Read(text[i].value) : i \in long}
        BY <3>1, <3>2
      <3> QED BY <3>3 DEF Read
    <2>6. deltas = {} <=> spoken = {}
      <3>1. deltas = {} <=> long = {}
        <4> HIDE DEF long
        <4> QED BY <2>3
      <3>2. spoken = {} <=> long = {}
        <4> HIDE DEF long
        <4> QED OBVIOUS
      <3> QED BY <3>1, <3>2
    <2> HIDE DEF spoken, long
    <2> QED BY <2>3, <2>4, <2>5, <2>6
  <1> QED BY <1>1, <1>2 DEF PredictionParsed, PredictedDeltas, ParsePrediction, Rule

(***************************************************************************)
(* The results.                                                            *)
(***************************************************************************)

(* For every text _parse_claims computes what reasoning_step makes of the  *)
(* reply the text stands for (agents/reasoning.py).                        *)
THEOREM ReasoningParserCorrect == Spec => []ClaimsParsed
  <1>1. Init => IInv
    BY IInvInductive
  <1>2. IInv /\ [Next]_vars => IInv'
    BY IInvInductive
  <1>3. IInv => ClaimsParsed
    BY ClaimsAgree
  <1> QED BY <1>1, <1>2, <1>3, PTL DEF Spec

(* On every text parse_hypothesis (agents/llm.py), from which the fallback *)
(* takes its confidence, agrees with _parse_claims.                        *)
THEOREM FlatParserAgrees == Spec => []FlatParseAgrees
  <1>1. Init => IInv
    BY IInvInductive
  <1>2. IInv /\ [Next]_vars => IInv'
    BY IInvInductive
  <1>3. IInv => FlatParseAgrees
    BY ClaimsAgree
  <1> QED BY <1>1, <1>2, <1>3, PTL DEF Spec

(* For every text the falsifier records what its last good lines say.      *)
THEOREM FalsifierParserCorrect == Spec => []FalsificationParsed
  <1>1. Init => IInv
    BY IInvInductive
  <1>2. IInv /\ [Next]_vars => IInv'
    BY IInvInductive
  <1>3. IInv => FalsificationParsed
    BY FalsificationAgrees
  <1> QED BY <1>1, <1>2, <1>3, PTL DEF Spec

(* For every text the simulator predicts what its complete lines say.      *)
THEOREM PredictionParserCorrect == Spec => []PredictionParsed
  <1>1. Init => IInv
    BY IInvInductive
  <1>2. IInv /\ [Next]_vars => IInv'
    BY IInvInductive
  <1>3. IInv => PredictionParsed
    BY PredictionAgrees
  <1> QED BY <1>1, <1>2, <1>3, PTL DEF Spec
=============================================================================
