---------------------------- MODULE DecisionGate ----------------------------
(***************************************************************************)
(* The pause-and-resolve gate of crates/festerm-ssh/src/decision_gate.rs:  *)
(* a connection task puts up a prompt (host key, password) and waits for   *)
(* the user's decision; the GUI threads resolve, cancel or reject it.      *)
(* Everything done under the gate's mutex is one step.  A blocking waiter  *)
(* parks on the condition variable, an asynchronous one on tokio's Notify: *)
(* either way `woken` says that it was notified since it began to listen.  *)
(* A prompt is identified by its content, so a later prompt may equal an   *)
(* earlier one, and a GUI may answer a prompt that is long gone.           *)
(***************************************************************************)
CONSTANTS
    Tasks,       \* connection tasks that share the gate
    Prompts,     \* the contents of prompts
    Decisions,   \* the values a user can supply
    NoDecision,  \* Rust's None
    Emptied      \* what `take_from` leaves of a moved value (an empty String)

ASSUME DecisionAssumption ==
    NoDecision \notin Decisions /\ Emptied \notin Decisions /\ NoDecision # Emptied

VARIABLES
    secret,   \* the decision type is moved out (String) rather than copied
    gate,     \* GateState: Idle, Waiting(prompt), Resolved(value), Cancelled
    prompt,   \* the prompt of Waiting, kept by the DecisionWaiter
    value,    \* the value of Resolved, otherwise NoDecision
    pc,       \* the next step of each task
    woken,    \* the task was notified since it armed or parked
    result,   \* what the task's last wait returned
    shown,    \* the prompts the GUI has been sent
    given,    \* history: the decision accepted while the task had the gate
    ended     \* history: how the task's last wait ended

vars == <<secret, gate, prompt, value, pc, woken, result, shown, given, ended>>

\* Steps at which a task will hear a notification.
Listening == {"parked", "check", "await"}
\* From begin to the step that leaves the gate idle again.
Active == {"emit", "cancel", "discard", "wait", "arm", "finish"} \cup Listening

TypeOK ==
    /\ secret \in BOOLEAN
    /\ gate \in {"Idle", "Waiting", "Resolved", "Cancelled"}
    /\ prompt \in Prompts
    /\ value \in Decisions \cup {NoDecision, Emptied}
    /\ pc \in [Tasks -> {"idle"} \cup Active]
    /\ woken \in [Tasks -> BOOLEAN]
    /\ result \in [Tasks -> Decisions \cup {NoDecision}]
    /\ shown \subseteq Prompts
    /\ given \in [Tasks -> Decisions \cup {NoDecision}]
    /\ ended \in [Tasks -> {"normally", "timeout", "unshown"}]

Init ==
    /\ secret \in BOOLEAN
    /\ gate = "Idle"
    /\ prompt \in Prompts
    /\ value = NoDecision
    /\ pc = [t \in Tasks |-> "idle"]
    /\ woken = [t \in Tasks |-> FALSE]
    /\ result = [t \in Tasks |-> NoDecision]
    /\ shown = {}
    /\ given = [t \in Tasks |-> NoDecision]
    /\ ended = [t \in Tasks |-> "normally"]

-----------------------------------------------------------------------------

Goto(t, from, to) == pc[t] = from /\ pc' = [pc EXCEPT ![t] = to]

\* notify_waiters reaches the asynchronous listeners ...
NotifyWaiters == woken' = [t \in Tasks |-> woken[t] \/ pc[t] \in {"check", "await"}]

\* ... and, after notify_all, so does a thread parked on the condition variable.
NotifyAll == woken' = [t \in Tasks |-> woken[t] \/ pc[t] \in Listening]

\* DecisionValue::take_from: what a resolved value leaves in the slot.
TakeFrom(v) == IF secret THEN Emptied ELSE v

Reset == gate' = "Idle" /\ value' = NoDecision

-----------------------------------------------------------------------------
(* The connection task. *)

\* begin: only an idle gate takes a prompt.  (On any other gate it returns an
\* error and changes nothing.)
Begin(t, p) ==
    /\ gate = "Idle"
    /\ Goto(t, "idle", "emit")
    /\ gate' = "Waiting"
    /\ prompt' = p
    /\ result' = [result EXCEPT ![t] = NoDecision]
    /\ given' = [given EXCEPT ![t] = NoDecision]
    /\ ended' = [ended EXCEPT ![t] = "normally"]
    /\ UNCHANGED <<secret, value, woken, shown>>

\* The caller of begin sends the prompt to the GUI and goes on to wait, ...
Emit(t) ==
    /\ Goto(t, "emit", "wait")
    /\ shown' = shown \cup {prompt}
    /\ UNCHANGED <<secret, gate, prompt, value, woken, result, given, ended>>

\* ... or finds the event queue full, cancels its own prompt, ...
EmitFull(t) ==
    /\ Goto(t, "emit", "cancel")
    /\ ended' = [ended EXCEPT ![t] = "unshown"]
    /\ UNCHANGED <<secret, gate, prompt, value, woken, result, shown, given>>

CancelOwn(t) ==
    /\ Goto(t, "cancel", "discard")
    /\ IF gate = "Waiting"
       THEN gate' = "Cancelled" /\ NotifyAll
       ELSE UNCHANGED <<gate, woken>>
    /\ UNCHANGED <<secret, prompt, value, result, shown, given, ended>>

\* ... and resets the gate with a wait_for_decision that does not wait.
DiscardOwn(t) ==
    /\ Goto(t, "discard", "idle")
    /\ Reset
    /\ NotifyWaiters
    /\ UNCHANGED <<secret, prompt, result, shown, given, ended>>

\* The end of wait_for_decision: take the value and reset, in one section.
Leave(t, from, how) ==
    /\ Goto(t, from, "idle")
    /\ result' = [result EXCEPT ![t] = IF gate = "Resolved" THEN value ELSE NoDecision]
    /\ ended' = [ended EXCEPT ![t] = how]
    /\ Reset
    /\ NotifyWaiters
    /\ UNCHANGED <<secret, prompt, shown, given>>

\* wait_for_decision: an answer that is already there is taken at once, ...
WaitAnswered(t) == gate # "Waiting" /\ Leave(t, "wait", "normally")

\* ... otherwise the thread parks on the condition variable, ...
Park(t) ==
    /\ gate = "Waiting"
    /\ Goto(t, "wait", "parked")
    /\ woken' = [woken EXCEPT ![t] = FALSE]
    /\ UNCHANGED <<secret, gate, prompt, value, result, shown, given, ended>>

\* ... until it is notified of a change or the timeout has passed.
ParkedWakes(t) == woken[t] /\ gate # "Waiting" /\ Leave(t, "parked", "normally")
ParkedTimesOut(t) == Leave(t, "parked", IF gate = "Waiting" THEN "timeout" ELSE "normally")

\* wait_for_decision_async: create the Notified future ...
WaitAsync(t) ==
    /\ Goto(t, "wait", "arm")
    /\ UNCHANGED <<secret, gate, prompt, value, woken, result, shown, given, ended>>

Arm(t) ==
    /\ Goto(t, "arm", "check")
    /\ woken' = [woken EXCEPT ![t] = FALSE]
    /\ UNCHANGED <<secret, gate, prompt, value, result, shown, given, ended>>

\* ... then look at the state under the lock ...
Check(t) ==
    /\ Goto(t, "check", IF gate = "Waiting" THEN "await" ELSE "finish")
    /\ result' = [result EXCEPT ![t] = IF gate = "Resolved" THEN value ELSE @]
    /\ value' = IF gate = "Resolved" THEN TakeFrom(value) ELSE value
    /\ UNCHANGED <<secret, gate, prompt, woken, shown, given, ended>>

\* ... and await the notification.
AwaitWakes(t) ==
    /\ woken[t]
    /\ Goto(t, "await", "arm")
    /\ UNCHANGED <<secret, gate, prompt, value, woken, result, shown, given, ended>>

\* tokio::time::timeout polls the wait before the clock, so it can give up
\* only at the await; a notification after that poll comes too late.
AwaitTimesOut(t) ==
    /\ Goto(t, "await", "finish")
    /\ ended' = [ended EXCEPT ![t] = "timeout"]
    /\ UNCHANGED <<secret, gate, prompt, value, woken, result, shown, given>>

\* The reset of wait_for_decision_async is a critical section of its own.
Finish(t) ==
    /\ Goto(t, "finish", "idle")
    /\ Reset
    /\ NotifyAll
    /\ UNCHANGED <<secret, prompt, result, shown, given, ended>>

-----------------------------------------------------------------------------
(* The GUI threads. *)

\* resolve: the first answer to the pending prompt is taken.  Every other one
\* is an error that changes nothing.
Resolve(p, d) ==
    /\ p \in shown
    /\ gate = "Waiting" /\ prompt = p
    /\ gate' = "Resolved"
    /\ value' = d
    /\ given' = [t \in Tasks |-> IF pc[t] \in Active THEN d ELSE given[t]]
    /\ NotifyAll
    /\ UNCHANGED <<secret, prompt, pc, result, shown, ended>>

\* Mutant of Withdraw: nobody is notified of a withdrawn prompt.
Withdraw_Silent ==
    /\ gate' = "Cancelled"
    /\ UNCHANGED <<secret, prompt, value, pc, woken, result, shown, given, ended>>

Withdraw ==
    /\ gate' = "Cancelled"
    /\ NotifyAll
    /\ UNCHANGED <<secret, prompt, value, pc, result, shown, given, ended>>

\* cancel: the user dismisses the pending prompt.
Cancel(p) == p \in shown /\ gate = "Waiting" /\ prompt = p /\ Withdraw

\* Mutant of RejectPending: shutdown also withdraws a prompt that was answered.
RejectPending_Answered == gate \in {"Waiting", "Resolved"} /\ Withdraw

\* reject_pending: shutdown withdraws whatever is pending.
RejectPending == gate = "Waiting" /\ Withdraw

-----------------------------------------------------------------------------

\* A task's own steps once it has begun, without the clock.
Proceed(t) ==
    \/ Emit(t) \/ EmitFull(t) \/ CancelOwn(t) \/ DiscardOwn(t)
    \/ WaitAnswered(t) \/ Park(t) \/ ParkedWakes(t)
    \/ WaitAsync(t) \/ Arm(t) \/ Check(t) \/ AwaitWakes(t) \/ Finish(t)

Timeout(t) == ParkedTimesOut(t) \/ AwaitTimesOut(t)

Next ==
    \/ \E t \in Tasks : Proceed(t) \/ Timeout(t) \/ \E p \in Prompts : Begin(t, p)
    \/ \E p \in Prompts : Cancel(p) \/ \E d \in Decisions : Resolve(p, d)
    \/ RejectPending

Spec == Init /\ [][Next]_vars

\* Tasks are scheduled; no fairness is assumed of the user or of the clock.
FairSpec == Spec /\ \A t \in Tasks : WF_vars(Proceed(t))

-----------------------------------------------------------------------------
(* Properties. *)

\* The gate serves one task at a time and is handed back idle: a task that
\* asks after another has left always finds it free (decision_gate.rs:79-83).
OneWaiter ==
    /\ \A t, u \in Tasks : pc[t] \in Active /\ pc[u] \in Active => t = u
    /\ gate = "Idle" <=> \A t \in Tasks : pc[t] = "idle"

\* A wait returns the decision the user was told was accepted.  It can miss
\* one only by timing out at that moment or because the prompt never reached
\* the GUI, and then it returns None: it never makes a decision up
\* (decision_gate.rs:138-144 and 169-195).
AnswerIsTheUsers ==
    \A t \in Tasks :
        pc[t] = "idle" =>
            \/ result[t] = given[t]
            \/ result[t] = NoDecision /\ ended[t] \in {"timeout", "unshown"}

\* A decision made between the check of the state and the await, or between
\* the timeout's check and the parking, is not slept through
\* (decision_gate.rs:172-184).
NoLostWakeup ==
    \A t \in Tasks : pc[t] \in {"parked", "await"} /\ gate # "Waiting" => woken[t]

\* A password the task has taken is in the task's hands only
\* (decision_gate.rs:19-21).
PasswordHasOneHolder ==
    \A t \in Tasks :
        secret /\ value \in Decisions /\ pc[t] \in Active => result[t] = NoDecision

\* Once the prompt is answered or withdrawn the task returns, without help
\* from the timeout (decision_gate.rs:97-99 and 162-165).
AnsweredWaitReturns ==
    \A t \in Tasks : (pc[t] \in Active /\ gate # "Waiting") ~> (pc[t] = "idle")

-----------------------------------------------------------------------------
(* The inductive invariant behind the safety properties. *)

\* Which values go with which gate, and what the task has seen of them.
GateInv ==
    /\ value # NoDecision <=> gate = "Resolved"
    /\ \A t \in Tasks :
          /\ pc[t] \in Active \ {"finish"} => result[t] = NoDecision
          /\ pc[t] \in Active \ {"finish"} =>
                IF gate = "Resolved" THEN value = given[t] ELSE given[t] = NoDecision
          /\ pc[t] = "finish" =>
                IF ended[t] = "timeout"
                THEN result[t] = NoDecision
                ELSE result[t] = given[t] /\ gate # "Waiting"
          /\ pc[t] = "finish" /\ secret /\ value \in Decisions => result[t] = NoDecision
          /\ pc[t] \in Active \ {"finish", "cancel", "discard"} => ended[t] = "normally"
          /\ pc[t] \in {"cancel", "discard"} => ended[t] = "unshown"
          /\ pc[t] = "discard" => gate # "Waiting"

DecisionInv == OneWaiter /\ GateInv /\ NoLostWakeup /\ AnswerIsTheUsers
=============================================================================
