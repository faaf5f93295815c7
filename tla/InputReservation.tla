-------------------------- MODULE InputReservation --------------------------
(***************************************************************************)
(* What an automation-input reservation promises the host and the backend, *)
(* without saying how: docs/adr/0065 and the doc comments of               *)
(* crates/festerm-session/src/automation_input.rs.                         *)
(*   - A reservation is open until it is either published or void, once.   *)
(*   - Only published bytes are delivered, at most once; the backend may   *)
(*     discard them instead.                                               *)
(*   - The commit result given to the host is the truth: success exactly   *)
(*     for a published reservation, an error only for a void one.          *)
(***************************************************************************)
CONSTANT Slots

VARIABLES
    phase,   \* what became of each reservation
    report   \* what the host has been told of it

Phases == {"absent", "open", "void", "published", "delivered", "discarded"}
Reports == {"none", "ok", "error"}

Init ==
    /\ phase = [s \in Slots |-> "absent"]
    /\ report = [s \in Slots |-> "none"]

Move(s, from, to) ==
    /\ phase[s] = from
    /\ phase' = [phase EXCEPT ![s] = to]
    /\ UNCHANGED report

Reserve(s) == Move(s, "absent", "open")
Publish(s) == Move(s, "open", "published")
Void(s) == Move(s, "open", "void")
Deliver(s) == Move(s, "published", "delivered")
Discard(s) == Move(s, "published", "discarded")

Report(s) ==
    /\ report[s] = "none"
    /\ phase[s] \notin {"absent", "open"}
    /\ report' = [report EXCEPT ![s] = IF phase[s] = "void" THEN "error" ELSE "ok"]
    /\ UNCHANGED phase

Next ==
    \E s \in Slots :
        \/ Reserve(s) \/ Publish(s) \/ Void(s) \/ Deliver(s) \/ Discard(s) \/ Report(s)

Spec == Init /\ [][Next]_<<phase, report>>
=============================================================================
