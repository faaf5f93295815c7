--------------------------- MODULE AutomationInput ---------------------------
(***************************************************************************)
(* The automation-input reservation of                                     *)
(* crates/festerm-session/src/automation_input.rs: a slot shared by the    *)
(* host, which commits it under the admission guard, and a backend, which  *)
(* polls it in its ordered command queue.  One action per atomic access to *)
(* the slot's state, per clock read and per authority callback, so that    *)
(* either side may be descheduled between any two of them.                 *)
(***************************************************************************)
EXTENDS AutomationEpoch

CONSTANTS
    Slots,       \* the reservations
    NoSlot,
    Lifetime,    \* RESERVATION_LIFETIME, in clock ticks
    MaxTime      \* bound on the clock

ASSUME SlotAssumption == NoSlot \notin Slots
ASSUME TimeAssumption == Lifetime \in Nat \ {0} /\ MaxTime \in Nat

VARIABLES
    now,        \* the monotonic clock (Instant)
    epoch,      \* the backend's AutomationEpoch
    guard,      \* the slot whose commit holds the admission guard, or NoSlot
    poisoned,   \* the admission mutex is poisoned
    state,      \* Slot.state
    deadline,   \* Slot.deadline
    bound,      \* Slot.attachment_generation
    pc,         \* the host's next step with each reservation
    outcome,    \* the result its commit is about to return or has returned
    poll,       \* the backend's next step with the pending half
    accepted,   \* history: the authority callback returned Ok
    begunAt,    \* history: when the slot was taken (COMMITTING)
    claimedAt   \* history: when admission was claimed (CLAIMED)

slotVars == <<state, deadline, bound>>
hostVars == <<pc, outcome>>
history == <<accepted, begunAt, claimedAt>>
vars == <<now, epoch, guard, poisoned, slotVars, hostVars, poll, history>>

Open == {"PENDING", "COMMITTING", "CLAIMED"}
States == {"absent", "READY", "CANCELLED", "TAKEN"} \cup Open

\* Program points of commit_using, in order; the caller holds the guard.
Committing == {"check_early", "take", "check_taken", "callback", "check_accepted",
               "claim", "check_claimed", "publish", "abandon", "unwind"}
HostSteps == {"absent", "held", "drop", "return", "done"} \cup Committing
Errors == {"ClosedOrExpired", "Refused", "LostAfterCommit"}
Outcomes == Errors \cup {"none", "Ok", "Dropped", "Panicked"}
PollSteps == {"absent", "queued", "expire", "load", "gone"}

TypeOK ==
    /\ now \in Nat
    /\ epoch \in Epochs
    /\ guard \in Slots \cup {NoSlot}
    /\ poisoned \in BOOLEAN
    /\ state \in [Slots -> States]
    /\ deadline \in [Slots -> Nat]
    /\ bound \in [Slots -> Generations]
    /\ pc \in [Slots -> HostSteps]
    /\ outcome \in [Slots -> Outcomes]
    /\ poll \in [Slots -> PollSteps]
    /\ accepted \in [Slots -> BOOLEAN]
    /\ begunAt \in [Slots -> Nat]
    /\ claimedAt \in [Slots -> Nat]

Init ==
    /\ now = 0
    /\ epoch = NewEpoch
    /\ guard = NoSlot
    /\ poisoned = FALSE
    /\ state = [s \in Slots |-> "absent"]
    /\ deadline = [s \in Slots |-> 0]
    /\ bound = [s \in Slots |-> 0]
    /\ pc = [s \in Slots |-> "absent"]
    /\ outcome = [s \in Slots |-> "none"]
    /\ poll = [s \in Slots |-> "absent"]
    /\ accepted = [s \in Slots |-> FALSE]
    /\ begunAt = [s \in Slots |-> 0]
    /\ claimedAt = [s \in Slots |-> 0]

-----------------------------------------------------------------------------
(* The shared slot. *)

Expired(s) == now >= deadline[s]

\* Mutant of CancelOpen: cancel_open stores CANCELLED unconditionally.
CancelOpen_Any(s) == state' = [state EXCEPT ![s] = "CANCELLED"]

\* Slot::cancel_open: the compare-exchange loop cancels an open slot and
\* leaves a resolved one alone.
CancelOpen(s) ==
    state' = [state EXCEPT ![s] = IF @ \in Open THEN "CANCELLED" ELSE @]

HostGoto(s, from, to) == pc[s] = from /\ pc' = [pc EXCEPT ![s] = to]
PollGoto(s, from, to) == poll[s] = from /\ poll' = [poll EXCEPT ![s] = to]
Result(s, r) == outcome' = [outcome EXCEPT ![s] = r]

-----------------------------------------------------------------------------
(* The host. *)

\* automation_input_slot, followed by the enqueueing of the pending half.  A
\* busy or poisoned admission lock, or an attachment that is not running,
\* refuses the reservation and leaves nothing behind.
Reserve(s) ==
    /\ state[s] = "absent"
    /\ guard = NoSlot /\ ~poisoned
    /\ CanCapture(epoch)
    /\ now + Lifetime <= MaxTime                    \* bound of the model
    /\ state' = [state EXCEPT ![s] = "PENDING"]
    /\ deadline' = [deadline EXCEPT ![s] = now + Lifetime]
    /\ bound' = [bound EXCEPT ![s] = epoch.generation]
    /\ HostGoto(s, "absent", "held")
    /\ poll' = [poll EXCEPT ![s] = "queued"]
    /\ UNCHANGED <<now, epoch, guard, poisoned, outcome, history>>

\* The host gives up a reservation without committing it.
DropReserved(s) ==
    /\ HostGoto(s, "held", "drop")
    /\ Result(s, "Dropped")
    /\ UNCHANGED <<now, epoch, guard, poisoned, slotVars, poll, history>>

\* Mutant of BeginCommit: matches_attachment asks for a running attachment and
\* not for the generation that was captured.
BeginCommit_AnyAttachment(s) ==
    /\ pc[s] = "held"
    /\ IF guard = NoSlot /\ ~poisoned
       THEN /\ guard' = s
            /\ IF CanCapture(epoch)
               THEN HostGoto(s, "held", "check_early") /\ UNCHANGED outcome
               ELSE HostGoto(s, "held", "drop") /\ Result(s, "Refused")
       ELSE HostGoto(s, "held", "drop") /\ Result(s, "Refused") /\ UNCHANGED guard
    /\ UNCHANGED <<now, epoch, poisoned, slotVars, poll, history>>

\* The caller takes the admission guard, which it keeps until the commit has
\* returned, and checks matches_attachment.  A mismatch, a busy lock and a
\* poisoned one are all refusals.
BeginCommit(s) ==
    /\ pc[s] = "held"
    /\ IF guard = NoSlot /\ ~poisoned
       THEN /\ guard' = s
            /\ IF IsCurrent(epoch, bound[s])
               THEN HostGoto(s, "held", "check_early") /\ UNCHANGED outcome
               ELSE HostGoto(s, "held", "drop") /\ Result(s, "Refused")
       ELSE HostGoto(s, "held", "drop") /\ Result(s, "Refused") /\ UNCHANGED guard
    /\ UNCHANGED <<now, epoch, poisoned, slotVars, poll, history>>

\* `if now() >= deadline`: go on, or abandon the commit with result r.
CheckClock(s, from, to, r) ==
    /\ HostGoto(s, from, IF Expired(s) THEN "abandon" ELSE to)
    /\ IF Expired(s) THEN Result(s, r) ELSE UNCHANGED outcome
    /\ UNCHANGED <<now, epoch, guard, poisoned, slotVars, poll, history>>

CheckEarly(s) == CheckClock(s, "check_early", "take", "ClosedOrExpired")
\* Mutant of CheckTaken: no clock check between taking the slot and the
\* callback.
CheckTaken_Skipped(s) ==
    /\ HostGoto(s, "check_taken", "callback")
    /\ UNCHANGED <<now, epoch, guard, poisoned, slotVars, outcome, poll, history>>

CheckTaken(s) == CheckClock(s, "check_taken", "callback", "ClosedOrExpired")
CheckAccepted(s) == CheckClock(s, "check_accepted", "claim", "LostAfterCommit")
CheckClaimed(s) == CheckClock(s, "check_claimed", "publish", "LostAfterCommit")

\* compare_exchange(old, new): go on, or return r if the slot was closed.
CompareExchange(s, old, new, from, to, r) ==
    /\ HostGoto(s, from, IF state[s] = old THEN to ELSE "drop")
    /\ state' = [state EXCEPT ![s] = IF @ = old THEN new ELSE @]
    /\ IF state[s] = old THEN UNCHANGED outcome ELSE Result(s, r)
    /\ UNCHANGED <<now, epoch, guard, poisoned, deadline, bound, poll, accepted>>

Take(s) ==
    /\ CompareExchange(s, "PENDING", "COMMITTING", "take", "check_taken", "ClosedOrExpired")
    /\ begunAt' = [begunAt EXCEPT ![s] = now]
    /\ UNCHANGED claimedAt

Claim(s) ==
    /\ CompareExchange(s, "COMMITTING", "CLAIMED", "claim", "check_claimed", "LostAfterCommit")
    /\ claimedAt' = [claimedAt EXCEPT ![s] = now]
    /\ UNCHANGED begunAt

\* Mutant of Publish: the last check of the clock is repeated after
\* publication.
Publish_Pessimist(s) ==
    /\ HostGoto(s, "publish", "drop")
    /\ state' = [state EXCEPT ![s] = IF @ = "CLAIMED" THEN "READY" ELSE @]
    /\ Result(s, IF state[s] = "CLAIMED" /\ ~Expired(s) THEN "Ok" ELSE "LostAfterCommit")
    /\ UNCHANGED <<now, epoch, guard, poisoned, deadline, bound, poll, history>>

\* The last compare_exchange decides between Ok and LostAfterCommit.
Publish(s) ==
    /\ HostGoto(s, "publish", "drop")
    /\ state' = [state EXCEPT ![s] = IF @ = "CLAIMED" THEN "READY" ELSE @]
    /\ Result(s, IF state[s] = "CLAIMED" THEN "Ok" ELSE "LostAfterCommit")
    /\ UNCHANGED <<now, epoch, guard, poisoned, deadline, bound, poll, history>>

\* The authority callback returns Ok, returns Err, or panics.
CallbackAccepts(s) ==
    /\ HostGoto(s, "callback", "check_accepted")
    /\ accepted' = [accepted EXCEPT ![s] = TRUE]
    /\ UNCHANGED <<now, epoch, guard, poisoned, slotVars, outcome, poll, begunAt, claimedAt>>

CallbackRefuses(s) ==
    /\ HostGoto(s, "callback", "abandon")
    /\ Result(s, "Refused")
    /\ UNCHANGED <<now, epoch, guard, poisoned, slotVars, poll, history>>

CallbackPanics(s) ==
    /\ HostGoto(s, "callback", "unwind")
    /\ Result(s, "Panicked")
    /\ UNCHANGED <<now, epoch, guard, poisoned, slotVars, poll, history>>

\* The explicit cancel_open of a failed commit.
Abandon(s) ==
    /\ HostGoto(s, "abandon", "drop")
    /\ CancelOpen(s)
    /\ UNCHANGED <<now, epoch, guard, poisoned, deadline, bound, outcome, poll, history>>

\* Unwinding drops the reservation and then the guard, which poisons the lock.
Unwind(s) ==
    /\ HostGoto(s, "unwind", "done")
    /\ CancelOpen(s)
    /\ guard' = NoSlot
    /\ poisoned' = TRUE
    /\ UNCHANGED <<now, epoch, deadline, bound, outcome, poll, history>>

\* Drop for ReservedAutomationInput, on every path out of commit_using.
Drop(s) ==
    /\ HostGoto(s, "drop", "return")
    /\ CancelOpen(s)
    /\ UNCHANGED <<now, epoch, guard, poisoned, deadline, bound, outcome, poll, history>>

\* The caller has the result and lets go of the guard if it has it.
Return(s) ==
    /\ HostGoto(s, "return", "done")
    /\ guard' = IF guard = s THEN NoSlot ELSE guard
    /\ UNCHANGED <<now, epoch, poisoned, slotVars, outcome, poll, history>>

-----------------------------------------------------------------------------
(* The backend. *)

\* Mutant of PollClock: poll does not look at the deadline.
PollClock_Never(s) ==
    /\ PollGoto(s, "queued", "load")
    /\ UNCHANGED <<now, epoch, guard, poisoned, slotVars, hostVars, history>>

\* PendingAutomationInput::poll: read the clock, expire, load.
PollClock(s) ==
    /\ PollGoto(s, "queued", IF Expired(s) THEN "expire" ELSE "load")
    /\ UNCHANGED <<now, epoch, guard, poisoned, slotVars, hostVars, history>>

PollExpire(s) ==
    /\ PollGoto(s, "expire", "load")
    /\ CancelOpen(s)
    /\ UNCHANGED <<now, epoch, guard, poisoned, deadline, bound, hostVars, history>>

\* Open: still pending.  READY: taken, the bytes go to the transport.
\* Otherwise cancelled: the backend lets go of the pending half.
PollLoad(s) ==
    /\ PollGoto(s, "load", IF state[s] \in Open THEN "queued" ELSE "gone")
    /\ state' = [state EXCEPT ![s] = IF @ = "READY" THEN "TAKEN" ELSE @]
    /\ UNCHANGED <<now, epoch, guard, poisoned, deadline, bound, hostVars, history>>

\* Drop for PendingAutomationInput: the backend stops or discards the entry.
DropPending(s) ==
    /\ PollGoto(s, "queued", "gone")
    /\ CancelOpen(s)
    /\ UNCHANGED <<now, epoch, guard, poisoned, deadline, bound, hostVars, history>>

\* A lifecycle change of the backend: AutomationEpoch::transition waits for
\* the guard, or fails closed once the lock is poisoned.
Transition(r) ==
    /\ guard = NoSlot
    /\ epoch' = IF poisoned THEN FailClosed(epoch) ELSE TransitionUnderAdmission(epoch, r)
    /\ UNCHANGED <<now, guard, poisoned, slotVars, hostVars, poll, history>>

Tick ==
    /\ now < MaxTime
    /\ now' = now + 1
    /\ UNCHANGED <<epoch, guard, poisoned, slotVars, hostVars, poll, history>>

-----------------------------------------------------------------------------

\* The steps of a commit that has begun and of a drop.
Commit(s) ==
    \/ CheckEarly(s) \/ Take(s) \/ CheckTaken(s)
    \/ CallbackAccepts(s) \/ CallbackRefuses(s) \/ CallbackPanics(s)
    \/ CheckAccepted(s) \/ Claim(s) \/ CheckClaimed(s) \/ Publish(s)
    \/ Abandon(s) \/ Unwind(s) \/ Drop(s) \/ Return(s)

Poll(s) == PollClock(s) \/ PollExpire(s) \/ PollLoad(s)

Next ==
    \/ \E s \in Slots :
          Reserve(s) \/ DropReserved(s) \/ BeginCommit(s) \/ Commit(s)
              \/ Poll(s) \/ DropPending(s)
    \/ \E r \in BOOLEAN : Transition(r)
    \/ Tick

Spec == Init /\ [][Next]_vars

\* Time passes and the backend polls the pending half it holds; the callback
\* is bounded, so a commit that has begun goes on.
FairSpec ==
    /\ Spec
    /\ WF_vars(Tick)
    /\ \A s \in Slots : WF_vars(Poll(s)) /\ WF_vars(Commit(s))

-----------------------------------------------------------------------------
(* Properties. *)

\* An error tells the host the truth: the bytes will not become ready, so they
\* were not and will never be sent ("the bytes will not become ready",
\* automation_input.rs:193-195), whichever of the clock, the receiver and the
\* callback failed the commit.
ErrorMeansUnsent ==
    \A s \in Slots :
        (pc[s] = "done" /\ outcome[s] \in Errors \cup {"Dropped", "Panicked"})
            => state[s] = "CANCELLED"

\* The backend takes bytes only if the authority callback accepted them, and
\* then the host is, or is about to be, told Ok (automation_input.rs:226-252).
SentOnlyIfAdmitted ==
    \A s \in Slots : state[s] = "TAKEN" => accepted[s] /\ outcome[s] = "Ok"

\* Descheduling at any point cannot turn a late claim into an admission: what
\* became ready was claimed before its deadline (automation_input.rs:241-246),
\* and the authority callback ran only for a slot taken before its deadline
\* (automation_input.rs:220-225).
TimelyAdmission ==
    \A s \in Slots :
        /\ state[s] \in {"READY", "TAKEN"} => claimedAt[s] < deadline[s]
        /\ accepted[s] => begunAt[s] < deadline[s]

\* From the callback's acceptance to the publication of the bytes, the guard
\* keeps the attachment the reservation was bound to: nothing is published
\* for an attachment that has been replaced (automation_input.rs:172-186).
PublishedForBoundAttachment ==
    [][\A s \in Slots :
          (state'[s] = "READY" /\ state[s] # "READY") => IsCurrent(epoch, bound[s])]_vars

\* The queue position is not blocked for ever: a reservation is resolved even
\* if the host never commits it (RESERVATION_LIFETIME and poll_at).
OpenIsResolved == \A s \in Slots : (state[s] \in Open) ~> (state[s] \notin Open)

\* The admission guard taken for a commit is given back on every path.
GuardIsReturned == \A s \in Slots : (guard = s) ~> (guard # s)

-----------------------------------------------------------------------------
(* The inductive invariant behind the safety properties. *)

\* The guard belongs to the one commit that is under way, and poisoning left
\* nobody inside it.
GuardInv ==
    /\ \A s \in Slots : pc[s] \in Committing => guard = s
    /\ guard # NoSlot => pc[guard] \in Committing \cup {"drop", "return"}
    /\ poisoned => guard = NoSlot

\* How far the host has got bounds what the slot can be, whatever the backend
\* has done to it meanwhile.
StateInv(s) ==
    /\ pc[s] = "absent" <=> state[s] = "absent"
    /\ pc[s] \in {"held", "check_early", "take"} => state[s] \in {"PENDING", "CANCELLED"}
    /\ pc[s] \in {"check_taken", "callback", "check_accepted", "claim"}
          => state[s] \in {"COMMITTING", "CANCELLED"}
    /\ pc[s] \in {"check_claimed", "publish"} => state[s] \in {"CLAIMED", "CANCELLED"}
    /\ pc[s] \in {"abandon", "unwind"} => state[s] \in Open \cup {"CANCELLED"}
    /\ (pc[s] = "drop" /\ outcome[s] # "Ok") => state[s] \in Open \cup {"CANCELLED"}
    /\ (pc[s] \in {"return", "done"} /\ outcome[s] # "Ok") => state[s] = "CANCELLED"
    /\ outcome[s] = "Ok" => pc[s] \in {"drop", "return", "done"} /\ state[s] \in {"READY", "TAKEN"}

\* The result is set where commit_using sets it.
OutcomeInv(s) ==
    /\ pc[s] \in {"absent", "held"} \cup (Committing \ {"abandon", "unwind"}) => outcome[s] = "none"
    /\ pc[s] = "abandon" => outcome[s] \in Errors
    /\ pc[s] = "unwind" => outcome[s] = "Panicked"
    /\ outcome[s] = "Panicked" => pc[s] \in {"unwind", "done"}

\* Acceptance and the two timestamps, in the order commit_using obtains them.
TimeInv(s) ==
    /\ pc[s] \in {"absent", "held", "check_early", "take", "check_taken", "callback"} => ~accepted[s]
    /\ pc[s] \in {"check_accepted", "claim", "check_claimed", "publish"} => accepted[s]
    /\ outcome[s] = "Ok" => accepted[s] /\ claimedAt[s] < deadline[s]
    /\ pc[s] = "check_taken" => begunAt[s] <= now
    /\ (pc[s] = "callback" \/ accepted[s]) => begunAt[s] < deadline[s]
    /\ pc[s] = "check_claimed" => claimedAt[s] <= now
    /\ pc[s] = "publish" => claimedAt[s] < deadline[s]

\* Only the backend's half decides between a published and a discarded slot,
\* and it never lets go of an open one.
PollInv(s) ==
    /\ poll[s] = "absent" <=> state[s] = "absent"
    /\ poll[s] = "gone" => state[s] \notin Open
    /\ state[s] = "TAKEN" => poll[s] = "gone"

\* A commit under way is for the attachment the reservation is bound to.
AttachmentInv(s) == pc[s] \in Committing => IsCurrent(epoch, bound[s])

ProtocolInv ==
    /\ GuardInv
    /\ \A s \in Slots :
          StateInv(s) /\ OutcomeInv(s) /\ TimeInv(s) /\ PollInv(s) /\ AttachmentInv(s)

-----------------------------------------------------------------------------
(* The reservation contract this protocol implements. *)

phaseBar == [s \in Slots |->
    CASE state[s] = "absent" -> "absent"
      [] state[s] \in Open -> "open"
      [] state[s] = "CANCELLED" -> "void"
      [] state[s] = "TAKEN" -> "delivered"
      [] OTHER -> IF poll[s] = "gone" THEN "discarded" ELSE "published"]

reportBar == [s \in Slots |->
    CASE pc[s] = "done" /\ outcome[s] = "Ok" -> "ok"
      [] pc[s] = "done" /\ outcome[s] \in Errors -> "error"
      [] OTHER -> "none"]

Contract == INSTANCE InputReservation WITH phase <- phaseBar, report <- reportBar

\* The compare-exchange protocol implements the reservation contract.
ImplementsContract == Contract!Spec
=============================================================================
