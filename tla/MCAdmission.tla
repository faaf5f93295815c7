----------------------------- MODULE MCAdmission -----------------------------
(* Model constants of Admission for TLC. *)
EXTENDS Admission

CONSTANTS t1, t2, t3

ThreeThreads == {t1, t2, t3}
=============================================================================
