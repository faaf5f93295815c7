-------------------------- MODULE MCAutomationInput --------------------------
(* Model constants of AutomationInput for TLC. *)
EXTENDS AutomationInput

CONSTANTS s1, s2

TwoSlots == {s1, s2}
=============================================================================
