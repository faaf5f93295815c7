--------------------------- MODULE MCDecisionGate ---------------------------
(* Model constants of DecisionGate for TLC. *)
EXTENDS DecisionGate

CONSTANTS t1, t2, p1, p2, accept, reject

TwoTasks == {t1, t2}
TwoPrompts == {p1, p2}
TwoDecisions == {accept, reject}
=============================================================================
