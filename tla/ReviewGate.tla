----------------------------- MODULE ReviewGate -----------------------------
(***************************************************************************)
(* What the pipeline promises its operator, with nothing said of agents,   *)
(* replies or evidence: a decision is only taken on a hypothesis that has  *)
(* been reviewed, each hypothesis is decided at most once, and one whose   *)
(* review refuted it is escalated to a human and nothing else is.          *)
(***************************************************************************)
EXTENDS Naturals, Sequences

VARIABLES
  proposed,    \* number of hypotheses proposed; the current one has this number
  review,      \* verdict on the current hypothesis, or "none"
  decisions    \* what was decided, in order

vars == <<proposed, review, decisions>>

Decision == [of : Nat, escalated : BOOLEAN, needs_human : BOOLEAN]

Init ==
  /\ proposed = 0
  /\ review = "none"
  /\ decisions = <<>>

Propose ==
  /\ proposed' = proposed + 1
  /\ review' = "none"
  /\ UNCHANGED decisions

Review ==
  /\ proposed > 0
  /\ review = "none"
  /\ review' \in {"confirmed", "contested", "refuted"}
  /\ UNCHANGED <<proposed, decisions>>

Decide ==
  /\ review # "none"
  /\ \A i \in DOMAIN decisions : decisions[i].of < proposed
  /\ \E human \in BOOLEAN :
       /\ review = "refuted" => human
       /\ decisions' = Append(decisions, [of          |-> proposed,
                                          escalated   |-> review = "refuted",
                                          needs_human |-> human])
  /\ UNCHANGED <<proposed, review>>

Next == Propose \/ Review \/ Decide

Spec == Init /\ [][Next]_vars
=============================================================================
