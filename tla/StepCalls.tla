------------------------------ MODULE StepCalls ------------------------------
(***************************************************************************)
(* The step functions called directly, in any order and any number of      *)
(* times, as the unit tests, the examples and the benchmark do.            *)
(***************************************************************************)
EXTENDS Agents

CONSTANTS
  Triggers,
  MaxTrail      \* bound on the entries of the audit trail

ASSUME StepCallsAssumption == Triggers \subseteq Trigger /\ MaxTrail \in Nat

Init == \E t \in Triggers : new_state(t)

Next == Len(audit_trail) < MaxTrail /\ AnyCall

Spec == Init /\ [][Next]_state
=============================================================================
