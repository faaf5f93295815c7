# Verification of fesTerm's session and automation core

fesTerm is a terminal application in Rust: local shells, SSH and serial
sessions, a session daemon, file transfer, documents, and an automation
interface through which programs may observe and type into a user's sessions.
This directory holds TLA+ models of the parts of it whose correctness depends on
the order in which threads, tasks, the clock and the operating system act, TLC
configurations that check them on small instances, and TLAPS proofs of the main
results for every value of their parameters.

`PROJECT.json` maps every definition that models code to the lines it models.
Source paths below are relative to `src/`.

## 1. The system

### Components, their state and their operations

| component | state | operations | hard part |
|---|---|---|---|
| admission boundary, `crates/festerm-admission` | one process-wide mutex; per attachment a generation, `running`, `failed` (atomics) | lock, try-lock, transition, capture, is_current | three atomics read and written one at a time; exhaustion; poisoning |
| input reservation, `crates/festerm-session/src/automation_input.rs` | an atomic slot state, a deadline, the bound generation | reserve, commit, drop of either half, poll | compare-exchange races of host, backend and clock; a callback in the middle |
| local PTY, `crates/festerm-pty` | lifecycle under a lock, cancel and termination flags, a command queue, an event queue, two completion channels | start, send, resize, shutdown, drop; control worker; reader worker | four kinds of threads and a child process ending in any order |
| SSH decision gate, `crates/festerm-ssh/src/decision_gate.rs` | Idle, Waiting, Resolved, Cancelled under a mutex; a condition variable and a `Notify` | begin, resolve, cancel, reject_pending, blocking and async wait | lost wake-ups, timeout against a late answer, secrets |
| SSH worker, `crates/festerm-ssh/src/lib.rs` | lifecycle and epoch, three atomic flags, the verified fingerprint, a command queue with a pending reservation, the reconnect planner, the manual retry count | connect, review the key, authenticate, run, lose, reconnect, probe, shut down | reconnect against shutdown, exchanges of abandoned attempts, what is queued across a reconnect |
| session daemon, `crates/festerm-sessiond` | sessions, attachments, lifecycle journal | attach, take over, restart | crash between journal and effect |
| automation broker, `crates/festerm-automation` | clients, targets, proposals, grants in three slots, registrations and enrollments, runs, budgets, leases, requests, receipts | some forty methods of one single-threaded value | decisions that come back after the picture they were made on has changed; cuts through trees of runs |
| answers to clients, `crates/festerm-automation/src/outbound.rs`, `app/festerm/src/automation` | the pairing of a client, a bounded queue of frames and what each is bound to | pair, answer, queue, check, write in pieces, complete, forget, remove a peer | withdrawal against a write in progress |
| SFTP, serial, documents, iOS lock, configuration, secret store, tunnels, platform crates, user interfaces, mobile front ends | see `PROJECT.json` | | not modelled, reasons there |

### How they interact

A backend (local PTY, SSH, serial) owns an *attachment epoch*. It *transitions*
the epoch on every lifecycle change, before it publishes the change. Automation
captures the running generation, prepares something, and checks under the
admission lock that the generation is still current before it discloses or
admits anything; it keeps the guard through the effect. To type into a session
it reserves a place in the backend's ordinary command queue: the backend gets
one half of the reservation, the host the other. The host commits its half
under the guard with an authority callback into the broker; the backend polls
its half and may send the bytes only once they are READY. A local PTY has a
control worker, which takes commands, writes to the terminal, escalates signals
and reaps the child, and a reader worker, which publishes output through a
bounded event queue. An SSH connection task pauses at the decision gate while
the user looks at a host key or types a password; the SSH worker polls one
command queue wherever it is, and puts its connect deadline off while a review
is on the screen. The broker belongs to the application's controller thread.
Native dialogs freeze what the user is shown and bring the decision back any
number of broker calls later. An answer to a client is committed in the broker,
queued as a frame, and written by the client's reply thread, which asks before
every piece, under the admission lock, whether the frame is still valid.

### What makes each part correct

- Admission: what is disclosed is current at the instant of disclosure; what is
  stale stays stale; a poisoned lock is the end; the guard always comes back.
- Reservation: the result the host gets is the truth about the bytes; nothing
  is sent that was not admitted, in time, for the attachment it was meant for;
  every reservation is resolved.
- Local PTY: automation is shut out before a stop can be seen; the reported
  result, the lifecycle and the signals agree; output is complete, in order and
  its stalls are announced; input keeps its order; a stopped session ends.
- Decision gate: one waiter; a decision is never invented, duplicated, lost or
  slept through.
- SSH worker: automation only into a live shell; input and fingerprint belong to
  the transport in use; a reconnect request is answered; retries are bounded; a
  shutdown ends the worker wherever it is.
- Broker: a client holds what was agreed to in the state it is in, no longer than
  what it was given for lives; a run never outlives its authority and open work
  never its run; accounts nest and are never refunded; a start key stands for one
  run; what leaves the application was found authorized, and no revocation comes
  between that check and the write.

The hazards these properties are for are listed, each at its line, in
`PROJECT.json`; where a property stops short of one, or excepts it, the entry says
so.

## 2. Modules

| module | models | granularity |
|---|---|---|
| `AutomationEpoch` | the epoch as a record with the operations that callers perform under the lock | one operator per method |
| `Admission` | threads that transition, capture and disclose through the lock | one step per atomic load, store and lock operation |
| `InputReservation` | the contract of a reservation: open, then published or void, once; delivered or discarded; the truth reported | abstract specification |
| `AutomationInput` | both halves of reservations against the clock, the guard and the epoch | one step per compare-exchange, load, clock read and callback |
| `DecisionGate` | tasks and GUI threads at one gate | one step per critical section, arming and await |
| `LocalPty` | callers, control worker, reader worker and child of one session | one step per access to shared state |
| `PtyOutput` | producers and consumer of the event queue | one step per critical section |
| `PtyInput` | the command queue, the pending reservation and the control worker | one step per receive, write and poll |
| `Broker` | the broker value and its internal steps (expire, revoke, cut, invalidate) as operators on a record | one operator per internal method |
| `BrokerGrants` | connections, targets, proposals, native decisions, registrations, enrollments, revocation, expiry, takeover | one action per public method |
| `BrokerRuns` | runs, budgets, starts, leases, requests, completion and cancellation, on top of `BrokerGrants` | one action per public method |
| `BrokerDelivery` | the broker composed with the outbound queue and the reply thread | one step per broker method, queue operation, check and write of a piece |
| `SshWorker` | the worker, the key exchanges and the application thread of one SSH session | one step per access to shared state |
| `*_proofs` | the theorems of the module they extend; `PtyQueues_proofs` those of `PtyInput` and `PtyOutput`, `Broker_proofs` those about the broker's authority, `BrokerRuns_proofs` those about its work and about `BrokerDelivery` | |
| `MC*` | model values and starting states for TLC | |

`PtyOutput`, `PtyInput` and `SshWorker` need no model values, so their
configurations name them directly.

### Correspondence

**Admission.** A thread's `pc` names its next atomic access. `StartTransition`,
`StartCapture` and `StartDisclosure` are the calls of `transition`, `capture` and
the pattern "lock, `is_current`, effect" the crate prescribes. `Lock`,
`LockPoisoned` and `TryLockBusy` are the outcomes of the two lock functions.
`ClearRunning` to `SetRunning` are the lines of `transition_under_admission`;
`FailStore` and `FailStoreRunning` are the two stores of `fail_closed`, with the
guard (exhaustion) and without it (poison). `Panic` is a panic of the protected
code. `entry` is a history variable: the epoch the present owner found.
`MaxGeneration` stands for `u64::MAX`. That the guard cannot leave its thread is
enforced by the type system and assumed.

**AutomationInput.** `pc` walks through `commit_using`: four clock checks
(`CheckEarly`, `CheckTaken`, `CheckAccepted`, `CheckClaimed`), three
compare-exchanges (`Take`, `Claim`, `Publish`), the callback, the explicit
`cancel_open` of a failed commit and the one in `Drop`. `poll` walks through
`poll_at`. `cancel_open` is one step, because its compare-exchange loop has one
successful exchange at most and is otherwise a load. Sizes, the controller
number and the pointer comparison of `matches_attachment` are left out: they are
constant for a slot. The epoch is used through `AutomationEpoch`; that its
operations may be taken as atomic under the guard is what `Admission` shows.
What the host does around a commit besides holding the guard
(`app/festerm/src/automation/presentation.rs`) is inside the callback's
nondeterministic answer.

**DecisionGate.** `secret` says whether the decision type is moved (`String`) or
copied. `woken` is what either notification mechanism remembers for a task since
it began to listen: a thread parked on the condition variable, or a `Notified`
future since its creation. `Emit`, `EmitFull`, `CancelOwn` and `DiscardOwn` are
what `request_host_key_verification` and `request_password_verification`
(`crates/festerm-ssh/src/lib.rs:2531-2611`) do between `begin` and the wait. The
two tasks are two handshakes: russh runs a handshake in a task of its own, so one
whose connection attempt was given up goes on waiting at the gate while the next
attempt asks for it. `given` and `ended` are history.

**LocalPty, PtyOutput, PtyInput.** The PTY session is modelled three times, each
time with one of its concerns in full and the others as nondeterminism: how it
ends, what becomes of its output, what becomes of its input. `LocalPty` splits
`request_stop` at the point where it lets go of the lifecycle, and every failure
path between its invalidation, its cancellation and its report.
`terminate_process_tree` belongs to the store before it, since it only swaps a
flag nobody else reads. `DrainTimesOut` stands for both arms of the wait for the
reader's report: the Disconnected one needs a reader that panicked, since every
return of `reader_worker` sends first, and fails the session likewise. Setting a lifecycle is one step: the code holds
`lifecycle_transition` around the epoch and the lifecycle. The child is external:
it exits at any time, may leave descendants that keep the terminal open, may
ignore SIGHUP and SIGTERM (`stubborn`) and may stop reading (`reads`).
In `PtyOutput` `log` records everything that entered the queue, and a chunk
carries whether it was stalled. `PtyInput` takes a reservation's slot as the
contract describes it, including that it can be published while the worker is
already waiting for its reader; the queue and the pending reservation are
released when the worker returns, as in the code.

**Broker, BrokerGrants, BrokerRuns.** The controller thread owns the `Broker`
value, so a public method is one action; the internal methods it chains are
operators from a broker record to the next, chained in the same order. Grants of
the three slots (ordinary, metadata, enrollment) are one set of records with
their slot; runs are a function on the ids that are retained. `tokens` holds
everything the application has frozen for a native decision and is never
emptied, so a decision may come late, twice or never. `closed` is history. A
refused call changes nothing beyond its leading `poll_expiry`, which is an action
of its own; the refusals that do leave a mark have actions of their own.
Discover and observe scopes are one set of sources; budgets count operations,
the bytes being charged by the same statements. A lease for direct
input is checked against the target its run is bound to.

**BrokerDelivery.** The host answers in two ways, and the frames differ in what
they are bound to. An ordinary answer (`Observe`: `execute`, `finish`, `send`,
`app/festerm/src/automation/mod.rs:3286-3322`) goes to a client the host has
paired (`Pair`). Its frame carries the targets and the end of the pairing and
`disclosure: None` (`ipc.rs:202`), so it does not depend on the grant or the run.
Only the metadata of an enrolled target (`Disclose`: `controller.rs:710-861`, the one
caller of `send_disclosure`) is bound to its grant, run and deadline (`IsLive`). Both
commit the disclosure in the broker and queue the frame (`Answer`, `SendFrame`); one
that cannot be queued closes the connection. `RetryCompletion` is the clean-up after
an answer was handed over. The reply thread takes a frame and, for each of `Pieces`
pieces, takes the admission lock and checks the frame (`CheckPiece`), and then
writes (`WritePiece`) or finds the pipe full (`WriteBlocks`) with the lock still
held: `checked`. A frame that fails a check or a write takes the connection with it
(`GiveUp`). `GuardFree` is a conjunct of every step that takes the lock: revocation,
disconnecting, closing a target or a connection, sending. The steps of the broker
that take no guard (`FreeGrantStep`, `FreeRunStep`: expiry, completion,
`cancel_start`, `human_takeover`, admission and charging) and the clock are free to
come between the check and the write. `RemovePeer` is the part of `poll` that
removes a peer: its connection is closed, its pairing has ended, or one of its
targets is gone. `wire` and `failed` are history.

**SshWorker.** `wpc` names the place in `ssh_worker` and below it; `polls` says
that the worker is inside `try_recv` there. Each place that polls commands
(connecting, setting up, a reconnect delay, the wait of a disconnected session,
the running loop) shares the actions of `try_recv` and differs in what it does
with the command. `shake` has the key exchange of the current attempt and one of
an abandoned attempt: russh spawns the exchange as a task of the worker's
single-threaded runtime, so it runs only while the worker awaits and is not
cancelled with the attempt. Its review holds the same gate and writes the same
fingerprint. `gate`, `res` and `attached` are what `DecisionGate`,
`AutomationInput` and `AutomationEpoch` have in detail. `old`, on a queued
command or a reservation, says that a newer transport has begun since; `tries`,
`skipped` and `overlapped` are history. Authentication and shell setup are the
one place `setup`, which succeeds, fails for good, is stopped, or ends with the
password prompt; probes and backoff delays take any time.

## 3. Runs

| run | instance | checks |
|---|---|---|
| `admission` | 3 threads, generations 0..2 | `DisclosureIsCurrent`, `StaleForever`, `GuardIsReturned` |
| `automation_input` | 2 reservations, lifetime 1, clock to 2, generations 0..2 | `ErrorMeansUnsent`, `TimelyAdmission`, `PublishedForBoundAttachment`, `ImplementsContract`, `OpenIsResolved` |
| `decision_gate` | 2 tasks, 2 prompts, 2 decisions | `AnswerIsTheUsers`, `AnsweredWaitReturns` |
| `broker_grants` | 1 client, 1 session, 2 generations, up to 3 proposals, up to 6 registration ids; 5 starting states | `GrantInv`, `PendingIsCurrent`, `LiveGrantsAreConsented`, `StandingDecisionSawTheGrant`, `ControlFollowsReview`, `NewestCandidateWins` |
| `broker_runs` | 1 client, 1 session, 4 operations, 2 retained runs; 5 starting states | `RunInv`, `RunningIsAuthorized`, `BudgetsNest`, `CancelledStartStops`, `OutcomeIsFinal`, `StartsOnce` |
| `broker_delivery` | 1 client, 1 queue slot, 2 pieces; from a client that may be paired and from one with an enrolled target's metadata | `StreamStaysFramed`, `EveryPieceIsAuthorized` |
| `ssh_worker` | 1 queue slot, 1 automatic and 2 manual attempts, with and without a policy | `WorkerInv`, `RequestIsPending`, `FingerprintIsTheTransports`, `RetriesAreBounded`, `InputReachesItsShell`, `ShutdownEnds` |
| `local_pty` | 2 callers, a child that reads, obedient or hung up | `StopInv`, `ResultMatchesLifecycle`, `GroupIsSignalled`, `ShutdownCompletes` |
| `local_pty_final` | 1 caller | `ShutdownIsFinal`, violated |
| `local_pty_escalation` | 1 caller, a stubborn child | `EscalationIsBounded`, violated |
| `pty_output` | 2 slots, 4 chunks, 3 other events | `OutputInv`, `NoUnexplainedGap`, `EmitReturns` |
| `pty_input` | 2 slots, 4 commands | `InputInv`, `NothingOvertakes`, `QueueAdvances` |

The invariants that the proofs establish for every instance (`TypeOK`,
`AdmissionInv`, `TransitionIsAtomic`, `PoisonRefusesForever`, `ProtocolInv`,
`SentOnlyIfAdmitted`, `OneWaiter`, `GateInv`, `NoLostWakeup`,
`PasswordHasOneHolder`) are not repeated in the runs; section 4 has them. An
invariant whose name ends in `Inv` includes the types of its module.

### What the results mean

- `TransitionIsAtomic` justifies the operators of `AutomationEpoch` wherever they
  are used as one step.
- `DisclosureIsCurrent` needs the comparison of generations; dropping the test of
  `running` alone changes nothing under the lock, because every transition,
  including the one to "not running", takes a new generation or fails closed.
- `ErrorMeansUnsent` covers the results `ClosedOrExpired`, `Refused` and
  `LostAfterCommit` as well as a dropped reservation and a panicking callback.
  Ok does not promise delivery: the backend may discard published bytes when its
  session ends, which `ImplementsContract` permits and `AutomationIsExact`
  (a conjunct of `InputInv`) limits to that case.
- `AnswerIsTheUsers` states the exact exception of the async wait: an answer
  accepted after the timeout's last poll is lost, and the waiter then returns
  None, never another value.
- `ResultMatchesLifecycle` excludes the race below through the history variable
  `raced`; every other interleaving of write failure, exit, read failure and
  timeout leaves a lifecycle that agrees with the result.
- `DepthIsExact`, in `OutputInv`, includes that the high watermark can exceed the capacity by one,
  since the consumer takes an event before it counts it.
- `LiveGrantsAreConsented` and `StandingDecisionSawTheGrant` are stated over grants
  and not over the revision numbers the code compares: a path that changed a
  grant and forgot to move a revision would violate them.
- `EveryPieceIsAuthorized` has two halves. When a piece is checked, the client is
  connected, the targets are current and the time has not run out; metadata is
  under the client's very grant, and its run, which may have completed and been
  forgotten, has not failed or been stopped. When the piece is written, that check
  has been made under the lock that is still held, and the client, the targets and
  the grant are the same, unless the grant's time has run out in between. What is
  not promised: expiry and the unguarded cuts are not ordered with the write, as
  `broker.rs:2636-2637`, `docs/automation-design.md:1250-1253`,
  `docs/milestone-progress.md:419-421` and ADR 0065 (218-221) say, so the last piece
  may follow the deadline or the end of its run; and an ordinary answer outlives a
  revocation of its grant up to the end of the pairing, since only the removal of
  the peer or of a target stops it.
- `QueueAdvances` has one exception, which is the finding of `local_pty_escalation`
  seen from the queue: a worker inside a write to a terminal that nobody reads
  takes nothing more.
- `PublishedForBoundAttachment` is checked with a third generation, so that an
  attachment is not only withdrawn but replaced by another running one.
- `InputReachesItsShell` is exact for automation. For typed input it has one
  exception, which is reachable: input that was queued before a reconnect behind
  a reservation is normally refused by the polls of the new attempt, but if the
  admission lock is busy at all of them it is written to the new shell.
- `FingerprintIsTheTransports` has one exception, also reachable: the review of an
  attempt that timed out goes on, and its decision, if it comes while a later
  transport is in use, replaces or clears that transport's fingerprint.
- `RetriesAreBounded`: the policy's attempts and the manual ones add up for one
  outage, since both can follow a manual reconnect, and are not multiplied.
- `ShutdownEnds` holds with a full command queue because every poll looks at the
  flag first; `Poll_QueueOnly` shows that the command alone would not do.

### Where code and documents disagree

1. `local_pty_final`: `request_stop` reads the lifecycle, lets go of the lock, and
   then stores Stopping. If the child exits in between, the control worker stores
   Exited and reports AlreadyStopped; the late store of Stopping replaces Exited
   and nothing replaces it again. `shutdown` has returned Ok, and `lifecycle()`
   stays at a value that is not terminal.
2. `local_pty_escalation`: the escalation from SIGHUP to SIGTERM and SIGKILL runs
   in the loop of the control worker, which also writes input, blocking. A client
   that ignores SIGHUP and does not read keeps the worker in the write, and the
   escalation that `docs/gui-design.md` calls bounded does not happen.

Reading `SshWorker` against its comments gave four more disagreements, which
the model reproduces and no run is devoted to:

3. When the manual retries are spent, the session is Disconnected with
   `reconnecting` still set (`crates/festerm-ssh/src/lib.rs:4499`; only
   `Established` and a stop clear it), so `reconnect_available()` is false and
   typing is refused as if a reconnect were under way, although
   `crates/festerm-session/src/lib.rs:221-224` says that a reconnect "remains
   available from this state". `try_reconnect` itself does accept it.
4. A loss whose automatic attempts are all used up ends in Failed (line 4518), for
   `manual_recovery_attempts` is 0, although the comment at line 4412 says that
   transport loss "must never be terminal by itself".
5. The planner's reset at line 4449 is meant to make the next loss start "from a
   clean state", but `connection_established` leaves a planner that is Exhausted
   as it is: after one exhaustion and a manual reconnect, no later loss is
   recovered automatically.
6. A host-key review of an abandoned attempt holds the gate; the next attempt's
   `begin` is refused, the key counts as rejected, and the session fails for good
   as HostTrust without a rejection by anybody.

### Bounds

Three threads in `Admission` give a writer, another writer and an observer at the
same lock; two generations let the counter run out with a token of each age
outstanding. In `AutomationInput` a lifetime of one tick and a clock of two let
every check fall before, at and after the deadline; two reservations contend for
the guard; generations up to two give an attachment, its withdrawal and a successor
(405,802 states). At the gate a third task or prompt adds no new relation between a
waiter, another task and an answer. Two callers are needed for two threads to
interleave in `request_stop`. Two slots let a notice and a foreign event fill the
queue a stalled chunk waits for; four chunks or commands let the queue fill and
drain more than once.

`broker_grants` starts with an attached session and a client that is about to
connect, connected, or enrolled, with part of its registration ids and proposals
used. The states trade proposals against registration ids, so that every kind of
review can be overtaken by every other within the bounds. The same properties
were checked once with an enrolled client and three proposals left (416,734
states).
`broker_runs` starts from five states built with the module's own operators: a
call before and after it starts a workflow, a workflow inside a workflow, plain
input, and an enrolled target's metadata. The broker reaches them by admitting
and charging the same runs; starting there leaves the whole allowance of steps
to what happens next. Registration ids are used up there, since
`broker_grants` has the registrations. The states of a client without grants are not followed
there: it can admit, charge and read nothing more. What still succeeds without a grant
(`forget_run`, `settle_request`, a disconnect, a takeover by the human) is therefore
not explored after the loss of the last grant; the theorems of section 4 cover it. `broker_delivery` starts with a connected client that has asked for nothing and
with one that holds the metadata grant of its enrolled target; one slot and two
pieces make the queue full while a frame is half written, and the clock reaches the
end of pairing and grant at every point, between a check and its write too (66,646
states). One client is enough for
these: the broker keeps no state in which two clients meet except the global
account and the owner of a target, and the takeover by the human changes the
latter as another client's lease would.

In `ssh_worker` one queue slot makes the queue full behind a reservation and
behind a command; two manual attempts give a retry and a last one; one automatic
attempt gives Waiting, Connecting and Exhausted. At most one abandoned exchange
is followed, one reservation exists at a time, and the application does nothing
after its shutdown. The safety properties were also checked with two slots.
In `local_pty` each of two threads makes one call, with every pair of calls up
to which thread makes which.

Bounds on counters appear as `MaxGeneration`, `MaxTime`, `MaxChunks`, `MaxOthers`,
`MaxItems`, `MaxRegistrationMints` and `MaxOwnershipMints`. Symmetry is not used:
nearly every run checks liveness. `CHECK_DEADLOCK FALSE` is given for the PTY and
SSH models, which really end, and for the broker, whose clock and identifiers
are bounded.

### Fairness

- `Admission`: a thread inside a call is scheduled. Nobody is obliged to call.
- `AutomationInput`: time passes, the backend polls the half it holds (the control
  worker's loop does so in every round), and a commit that has begun goes on,
  since its callback "must perform only bounded broker admission".
- `DecisionGate`: tasks are scheduled; neither the user nor the clock has to act.
- `LocalPty`: the control worker and the callers are scheduled; a write returns if
  the terminal is read or closed; a killed child, or a signalled one that obeys,
  exits; an escalation that is possible in every round falls due, as each round
  takes POLL_INTERVAL (strong fairness, since the worker leaves the step between
  rounds). Nothing is assumed of the consumer, the reader or descendants.
- `PtyOutput`: the reader and the application's event loop run.
- `SshWorker`: the worker's thread is scheduled and its polls come round, one weak
  fairness over all that it does by itself. Nothing is assumed of the network,
  the remote, the user or the application, so `ShutdownEnds` cannot lean on them.
- The broker runs check safety only.
- `PtyInput`: the worker runs and a reservation expires, which is
  `OpenIsResolved` of `AutomationInput`. A write returns if the terminal takes what
  is written (`reads`); nothing obliges it to, and it may turn at any time.

## 4. Proofs

All proofs are for arbitrary constants under the named assumptions in the modules
(distinct "nobody" values, a natural counter bound, a positive lifetime).

**Admission.** None of the properties is inductive. `AdmissionInv` adds that
exactly the owner is inside the lock (`LockInv`), what the owner has done so far
to the epoch it found, by program point (`OwnerInv`), and that captured
generations lie behind the counter, strictly behind one that is about to be
declared running (`TokenInv`; without the strictness, a transition that has
incremented the generation could revive a token of that generation).
`DisclosureSafe`, `TransitionAtomic` and `PoisonIsFinal` follow from it, and
`StaleIsFinal` is proved step by step from it.

**AutomationInput.** `ProtocolInv` is a conjunction of what the guard protects
(`GuardInv`), which slot states each program point allows whatever the backend
did (`StateInv`), where results are set (`OutcomeInv`), the order of acceptance
and clock reads (`TimeInv`), what the pending half may still do (`PollInv`) and
that a commit is for its attachment (`AttachmentInv`). Each conjunct is preserved
by its own lemma. The five safety results follow; `Refinement` maps every step
to a step of `InputReservation` or to a stutter, with the slot state and the
poller's position as the abstract phase.

**DecisionGate.** The inductive invariant is `OneWaiter`, `GateInv` (which values
go with which gate, and what the task at the gate has seen), `NoLostWakeup` and
`AnswerIsTheUsers`, together with the types.

**LocalPty.** The properties speak of the end of a session, and what makes them
true is carried there over several steps. `SessionInv` says by whom: a caller past
the lifecycle, and a Shutdown in the queue, have made the epoch invalid
(`StopPath`); the control worker's result is decided, published and taken once
(`VerdictInv`); the lifecycle it has stored fits the result it is heading for, in
the absence of the race of section 3 (`LifecycleInv`); whoever stops the worker has
signalled the group (`SignalInv`). The proof is for any number of callers, each
making any call, and any nature of the child.

**PtyInput.** Commands leave the queue in the order they were numbered, so one
number, `taken`, divides them. `OrderInv` says what has become of each: queued
(`QueueInv`), undecided or handed over (`SlotInv`), written in order (`WrittenInv`),
committed and not lost (`CommittedInv`), accounted for while the worker is not
stopping (`AccountedInv`). The last is what `NothingOvertakes` needs: an earlier
command that is neither written nor void would have to be the pending one.

**PtyOutput.** `EventInv` adds to the properties what the reader, with a chunk in
its hands, knows of the end of the log: all chunks before it are there
(`ReaderInv`), and a chunk that was held up is tried again only after a notice that
no output has followed (`NoticeInv`, `Announced`).

**SshWorker.** Each property has a strengthening of its own in `SshInv`:
`AttachedInv` (the epoch runs only between three program points of the running
loop), `RequestIsPending` itself, `ExchangeInv` (which program points a key exchange
of the current attempt can outlive), `TriesInv` (every attempt, and the one that is
due, has been paid for by the planner or by a manual retry; a planner that has
given up counts with all its attempts, since a manual retry does not give them
back), and `QueueAge`, `TokenAge` and `HandAge` (old commands are only ahead of the
first complete poll). The types are proved in six parts, so that an action is
looked at only where it writes.

**Broker.** The theorems are about `RunsSpec`, every public method of the broker
with runs and without; a behaviour of `GrantSpec` is one of `RunsSpec`. A method is a
chain of internal operators (expire, revoke, cut, mint, install), so the invariant is
a predicate of a broker value, `Good(s)`: each operator is shown once to keep it, and
what it may change is stated as a relation between two values (`Revoked`, `Weaker`,
`Polled`, `Follows`, `Worked`). `Good` holds the four invariants and their reasons:
a slot has one grant (`GrantsOK`); ids grow, so that an association is as old as its
registration's last revision (`RegistrationsOK`); a pending proposal carries the
revisions of now (`PendingOK`); what a review or decision saw is what the client
holds while the slot's revision has not moved (`DecisionsOK`, `Saw`). `BrokerInv` adds
what the application still holds: closed references lie behind the attachment or the
high-water mark (`ClosedOK`), and a review or candidate that may come back late is
no newer than its registration (`TokensOK`). Of the three decisions, the proof that
consents cover the grants afterwards is the longest: each installs one grant and has
to answer for the two others. The two action properties come from `Steady`, what
every method but `approve` and `approve_controller_enrollment` leaves alone.

The work rests on the authority and has an invariant of its own, `RunsOK(s)`: runs
form trees of at most three levels under one client, a child younger than its parent
and running only while that is (`TreeOK`); grants are told apart by their epochs
(`EpochsOK`); a running run lies within the grant of its epoch (`CoveredOK`); requests,
leases and receipts belong to retained runs (`RequestsOK`, `LeasesOK`, `StartsOK`); what
has ended is marked for the frames on their way (`DeliveryOK`). None of the properties
is inductive without the others: that cancelling a call stops its workflow needs the
receipt, which needs the retained run, which needs the tree. `Later(n, s)` is what no
method undoes (outcomes, receipts, withdrawals of delivery, ids), and `Goes(n, s)`, a
good value later than `s`, composes along the chain of a method; a handful of relations
say how a step may change the work (`Stops` of a cut, `Left` of a disconnect, `Paper`
of proposals and registrations, `Busy` of charges and requests, `Admits` of a new run).
`RunInv`, `RunningIsAuthorized` and `CancelledStartStops` are read off the invariant,
`OutcomeIsFinal` and `StartsOnce` off `Later`.

`BudgetsNest` compares sums over sets of runs, grants and clients (`BudgetsOK`, a
conjunct of `RunsOK`). A sum is a fold, and the provers cannot apply the library's
induction rule for finite sets; in its place stands `MinimalSubset`, that a family of
subsets of a finite set has a minimal one, with the family of counterexamples for the
induction hypothesis. From it follow the facts the argument uses: a term can be taken
out (`SumTakesOut`), fewer or smaller terms make no larger sum (`TotalIsBounded`), one
term larger by one makes a sum at most one larger (`TotalGrowsByOne`). Every step is
then of one of three kinds. `Frugal`: no account is lowered, except that runs go, and
that a client's account is opened anew when no grant of it is left; a new grant has
an epoch no run has, so it starts with nothing spent under it. `Billed`: a charge
adds one to the application, the client, the grant and each run of a `Chain`, which
holds at most one child of any run, so every sum grows by at most one. `Room`: the
charge made on admission leaves the account above one operation for the new run.

`DeliveryInv` adds the connections. `ChannelOK` says of one of them that its frames,
waiting or half sent, are for a connected client or on a closed channel, that the
grant metadata was read under, while it stands, is a metadata grant of that client and
ends with the frame (`FrameOK`, `Bound`), that the id of a request which has not been
answered is not in use (`IdsOK`), and where in a frame the stream stands (`StreamOK`,
`Halfway`). A broker step passes it by `ChannelStays`, which needs only `Later` and that
a client who leaves has a closed channel; the steps of the writer thread are lemmas on
sequences (`PieceIsFramed` counts modulo `Pieces`). `CheckedOK` is what makes the write
follow from the check: while a writer holds the lock, what its check found is true, or
the grant's time is over (`Passed`). A guarded step cannot come then. For the others
`FreeStepKeepsChecks` goes through the methods that take no guard: they keep the
clients and the attachments, and take away a grant of metadata only by expiry, that is,
at or after the end of its frame; `TimeGoesOn` is the clock. `ValidIsAuthorized` is the
first half of `EveryPieceIsAuthorized`: the frame's own flags, epoch and deadline are
enough for the client, the grant and the run. `WorkStaysAuthorizedInDelivery` carries the
properties of the work over to the composition.

Of the constants these proofs assume that the bounds are natural numbers, that there is
a connection and a session, that a run's deadline is an instant and connections are
finitely many (`RunAssumption`; a `ConnectionId` is a 16-byte instance and a 64-bit
number), and that the queue has a slot and a frame a piece (`DeliveryAssumption`).

Some definitions were put in another form for the proofs, with the same meaning:
the sets `RevokeSlots` computes have names of their own, `EnrollmentMetadataSources`
is a union, `OutputIsComplete` counts from the log's chunks. `ControlFollowsReview`
now speaks of the control a grant gives rather than of the grant, so that it also
holds while runs are charged to it. `Released`, `Charged` and `Effected` name updates
that were nested in others, and the sums of `BudgetsNest` are over functions
(`SumFunctionOnSet`). `MayAdmit` now also has the bounds on a spec's budget that
`admit_in_slot` checks, without which a run could be admitted overdrawn.

**Only model-checked.**

- Liveness (`GuardIsReturned`, `OpenIsResolved`, `AnsweredWaitReturns`, `ShutdownEnds`,
  `ShutdownCompletes`, `EmitReturns`, `QueueAdvances`): fairness and `ENABLED` are out of
  the prover's reach.
- `ShutdownIsFinal` and `EscalationIsBounded`, which the code does not satisfy.

## 5. Not modelled

`PROJECT.json` lists every component. Left out for good: rendering and user
interface, parsing and configuration (data, no interleaving), the terminal
emulator (a function of bytes over large grids), operating-system bindings,
vendored libraries. These are by far the larger part of the repository's lines;
what is modelled is the part whose correctness depends on order.

Inside the modelled components: byte counts and message texts; the metrics other
than the event queue's depth; the Windows job object, whose termination acts as
the first signal does on Unix; in the broker, the presentation state that some
methods also touch (`presentation.rs`), disclosed bytes, overflow of the 64-bit
identifiers and revisions, the limits of 128 starts and of proposals over all
clients, and the privacy flag of a frame and the flag of its association; in the SSH worker, resizes, remote
reads, port forwards, the liveness cadence and the SFTP worker. The duration of
calls is not modelled: two overlapping `shutdown` calls of a local PTY can take
the sum of their timeouts (`crates/festerm-pty/src/lib.rs:1373`), and lifecycle
events that are dropped or reordered on their way to the application
(`lib.rs:938`) are not followed.

## 6. Plan

1. `Presentation`: `app/festerm/src/automation/presentation.rs` and the broker's
   presentation hooks, composed with `BrokerRuns` and, through the callback of a
   commit, with `AutomationInput`.
2. Port forwarding of the SSH worker: pending connections, in-flight limit, the
   generation check of its commands, teardown.
3. `Sessiond`: attach, takeover and the lifecycle journal with crash and restart.
4. SFTP transfers, document undo, the iOS lock, the serial backend as a further
   instance of the queue modules.
5. A composition of `LocalPty` with the event queue that follows lifecycle events
   to the application.
