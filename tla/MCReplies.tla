------------------------------ MODULE MCReplies ------------------------------
(* Instances of the parsers for TLC. *)
EXTENDS Replies, MCInputs

OneTrigger == {PaymentsAlert}
TwoPhrases == {NoSummary, ThermalSummary}
Cited == {{}, {0, 9}, {9}}
SomeNumbers == {420, 1700, -50, NaN, Garbled}
SomeFindings == {1, -1, Garbled}
Parts(short, lower, upper) == [short |-> short, lower |-> lower, upper |-> upper]
SomeParts ==
  {Parts(TRUE, 600, Garbled), Parts(FALSE, 600, 800), Parts(FALSE, NaN, Inf),
   Parts(FALSE, Garbled, -100)}
OneReply == {Hypothesized(ThermalSummary, {Line(1, {0})}, 550)}
=============================================================================
