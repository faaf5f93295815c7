-------------------------- MODULE AutomationEpoch --------------------------
(***************************************************************************)
(* The attachment epoch of crates/festerm-admission: the identity of one   *)
(* backend transport attachment, as operators on a record.  The atomic     *)
(* fields of the struct `AutomationEpoch` become the fields of the record. *)
(* Every caller of these operators holds the process-wide admission lock;  *)
(* module Admission shows, store by store, that each of them may therefore *)
(* be taken as one atomic step.                                            *)
(***************************************************************************)
EXTENDS Naturals

CONSTANT MaxGeneration      \* the largest value of the u64 generation counter

ASSUME MaxGenerationAssumption == MaxGeneration \in Nat

Generations == 0..MaxGeneration

Epochs == [generation : Generations, running : BOOLEAN, failed : BOOLEAN]

\* AutomationEpoch::new: no running attachment.
NewEpoch == [generation |-> 0, running |-> FALSE, failed |-> FALSE]

\* fail_closed: permanently disabled.
FailClosed(e) == [e EXCEPT !.failed = TRUE, !.running = FALSE]

\* transition_under_admission: clear `running`, stop there if disabled, and
\* otherwise take the next generation (checked_add) or fail closed.
TransitionUnderAdmission(e, running) ==
    IF e.failed
    THEN [e EXCEPT !.running = FALSE]
    ELSE IF e.generation = MaxGeneration
         THEN FailClosed(e)
         ELSE [e EXCEPT !.generation = @ + 1, !.running = running]

\* capture_under_admission: a generation may be captured only while running.
CanCapture(e) == ~e.failed /\ e.running

\* is_current: the captured generation g is still the running one.
IsCurrent(e, g) == ~e.failed /\ e.running /\ e.generation = g
=============================================================================
