------------------------------ MODULE SshWorker ------------------------------
(***************************************************************************)
(* The worker of an SSH session, crates/festerm-ssh/src/lib.rs: connection *)
(* attempts and their host-key check, automatic and manual reconnection,   *)
(* the running channel, and the end; against the application thread that   *)
(* types, reserves automation input, asks for a reconnect and shuts down.  *)
(*                                                                         *)
(* A step of the application is one access to the state it shares with the *)
(* worker; a step of the worker is one such access, or a stretch without   *)
(* one.  The worker's runtime has one thread (new_current_thread), so the  *)
(* key exchange, which russh spawns as a task, runs only where the worker  *)
(* awaits; it is not cancelled with the attempt that started it.           *)
(* DecisionGate, AutomationInput and AutomationEpoch have the details of   *)
(* what is one variable here: gate, res and attached.  Resizes, remote     *)
(* reads, port forwards and output do not change this state.               *)
(***************************************************************************)
EXTENDS Naturals, Sequences

CONSTANTS
    Capacity,     \* of the command queue
    MaxAttempts,  \* maximum_attempts of the reconnect policy
    ManualMax     \* MANUAL_RECONNECT_MAX_ATTEMPTS

ASSUME SshAssumption ==
    Capacity \in Nat \ {0} /\ MaxAttempts \in Nat \ {0} /\ ManualMax \in Nat \ {0}

VARIABLES
    \* WorkerShared
    lifecycle, attached, reconnecting, requested, shutdown,
    verified,     \* whose key the fingerprint is: "none", "own", "orphan" or "old"
    \* commands
    queue,        \* of [kind, old]; old: sent before the current transport began
    pend,         \* the receiver holds the reservation (pending_input)
    res,          \* the reservation: [slot, fresh, old]; fresh: its token is current
    \* key exchanges: of the current attempt, and of one that was abandoned
    gate,         \* the host-key gate: "idle", "waiting", "accepted", "rejected"
    shake,        \* each exchange: "none", "kex" or "review"
    outcome,      \* what the connection future has for the worker
    \* the worker
    wpc, polls,   \* where it is, and whether it is inside try_recv there
    held,         \* the connect deadline was put off at the last poll
    hand,         \* the input it is writing
    planner,      \* ReconnectPlanner, "Off" without a policy: [state, attempt]
    manual,       \* manual_recovery_attempts
    \* the application thread
    gpc,
    \* history
    tries,        \* transports begun since one was established or asked for
    skipped,      \* no poll of this transport has emptied the queue yet
    overlapped    \* an abandoned exchange has decided during this transport

flags == <<reconnecting, requested, shutdown>>
epoch == <<lifecycle, attached, res>>
commands == <<queue, pend>>
exchange == <<shake, outcome, verified, overlapped>>
keys == <<gate, exchange>>
plan == <<planner, manual, tries>>
loop == <<wpc, polls, held, hand>>
still == <<reconnecting, requested, commands, exchange, held, hand, skipped>>
vars == <<flags, epoch, commands, keys, plan, loop, gpc, skipped>>

NoReservation == [slot |-> "none", fresh |-> FALSE, old |-> FALSE]
NoHand == [kind |-> "none", old |-> FALSE]
Kinds == {"Input", "AutomationInput", "Reconnect", "Shutdown"}
PreRunning == {"start", "connect", "setup", "delay"}
Exchanges == {"own", "orphan"}

\* Types.
TypeOK ==
    /\ lifecycle \in {"Starting", "Running", "Stopping", "Disconnected", "Exited", "Failed",
                      "Stopped"}
    /\ attached \in BOOLEAN /\ reconnecting \in BOOLEAN /\ requested \in BOOLEAN
    /\ shutdown \in BOOLEAN /\ pend \in BOOLEAN /\ polls \in BOOLEAN /\ held \in BOOLEAN
    /\ skipped \in BOOLEAN /\ overlapped \in BOOLEAN
    /\ verified \in {"none", "old"} \cup Exchanges
    /\ queue \in Seq([kind : Kinds, old : BOOLEAN]) /\ Len(queue) <= Capacity
    /\ res \in [slot : {"none", "open", "ready", "void"}, fresh : BOOLEAN, old : BOOLEAN]
    /\ gate \in {"idle", "waiting", "accepted", "rejected"}
    /\ shake \in [Exchanges -> {"none", "kex", "review"}]
    /\ outcome \in {"none", "ok", "rejected", "failed"}
    /\ wpc \in PreRunning \cup {"begin", "established", "announce", "serve", "write", "select",
                                "restop", "lost", "exited", "retry", "manual", "mark", "clear",
                                "restart", "stop", "halt", "done", "end"}
    /\ hand \in [kind : {"none", "Input", "AutomationInput"}, old : BOOLEAN]
    /\ planner \in [state : {"Off", "Idle", "Waiting", "Connecting", "Exhausted", "Cancelled"},
                    attempt : 0 .. MaxAttempts]
    /\ manual \in 0 .. ManualMax
    /\ gpc \in {"idle", "typed", "reserved", "cas", "request", "undo", "close", "last", "closed"}
    /\ tries \in Nat

\* SshSession::start returns with the worker spawned; a policy is optional.
Init ==
    /\ lifecycle = "Starting" /\ attached = FALSE
    /\ reconnecting = FALSE /\ requested = FALSE /\ shutdown = FALSE /\ verified = "none"
    /\ queue = <<>> /\ pend = FALSE /\ res = NoReservation
    /\ gate = "idle" /\ shake = [h \in Exchanges |-> "none"] /\ outcome = "none"
    /\ wpc = "begin" /\ polls = FALSE /\ held = FALSE /\ hand = NoHand
    /\ planner \in [state : {"Off", "Idle"}, attempt : {0}] /\ manual = 0
    /\ gpc = "idle"
    /\ tries = 0 /\ skipped = FALSE /\ overlapped = FALSE

-----------------------------------------------------------------------------
(* WorkerShared and the gate. *)

\* A transition of the automation epoch makes every token stale.
Transition(running) == attached' = running /\ res' = [res EXCEPT !.fresh = FALSE]

\* set_lifecycle: the epoch runs only in Running, and never after a shutdown.
SetLifecycle(l) == lifecycle' = l /\ Transition(l = "Running" /\ ~shutdown)

\* invalidate_automation_epoch
Invalidate == Transition(FALSE) /\ UNCHANGED lifecycle

\* reject_pending answers a review that is waiting.
RejectPending == gate' = IF gate = "waiting" THEN "rejected" ELSE gate

-----------------------------------------------------------------------------
(* The application thread.  It does nothing more once it has shut down.     *)

GuiGoto(from, to) == gpc = from /\ gpc' = to
GuiOnly == UNCHANGED <<keys, plan, loop, skipped>>

\* try_send on the bounded queue, whose receiver goes with the worker.
CanSend == Len(queue) < Capacity /\ wpc # "end"
Send(kind) == queue' = Append(queue, [kind |-> kind, old |-> FALSE])

\* try_send_input: looks at the flag, then sends.
Type ==
    /\ GuiGoto("idle", "typed") /\ ~shutdown /\ ~reconnecting
    /\ GuiOnly /\ UNCHANGED <<flags, epoch, commands>>

SendTyped ==
    /\ GuiGoto("typed", "idle")
    /\ IF CanSend THEN Send("Input") ELSE UNCHANGED queue
    /\ GuiOnly /\ UNCHANGED <<flags, epoch, pend>>

\* reserve_automation_input binds the reservation to the current attachment; then
\* the flag or the queue may refuse it.  One reservation at a time.
Reserve ==
    /\ GuiGoto("idle", "reserved") /\ attached /\ res = NoReservation
    /\ res' = [slot |-> "open", fresh |-> TRUE, old |-> FALSE]
    /\ GuiOnly /\ UNCHANGED <<flags, lifecycle, attached, commands>>

SendReserved ==
    /\ GuiGoto("reserved", "idle")
    /\ \/ CanSend /\ Send("AutomationInput") /\ UNCHANGED res
       \/ (reconnecting \/ ~CanSend) /\ res' = NoReservation /\ UNCHANGED queue
    /\ GuiOnly /\ UNCHANGED <<flags, lifecycle, attached, pend>>

\* The host commits while its token is current, or the reservation is dropped
\* or expires (InputReservation).
Resolve(to) ==
    /\ res.slot = "open" /\ gpc # "reserved"
    /\ to = "ready" => res.fresh
    /\ res' = [res EXCEPT !.slot = to]
    /\ GuiOnly /\ UNCHANGED <<flags, lifecycle, attached, commands, gpc>>

\* try_reconnect: the lifecycle, the compare-exchange, the queue, and the
\* flag again if the queue did not take it.
AskReconnect ==
    /\ GuiGoto("idle", "cas") /\ ~shutdown /\ lifecycle \in {"Running", "Disconnected"}
    /\ GuiOnly /\ UNCHANGED <<flags, epoch, commands>>

RequestReconnect ==
    /\ GuiGoto("cas", IF requested THEN "idle" ELSE "request")
    /\ requested' = TRUE
    /\ GuiOnly /\ UNCHANGED <<reconnecting, shutdown, epoch, commands>>

SendReconnect ==
    /\ GuiGoto("request", IF CanSend THEN "idle" ELSE "undo")
    /\ IF CanSend THEN Send("Reconnect") ELSE UNCHANGED queue
    /\ GuiOnly /\ UNCHANGED <<flags, epoch, pend>>

\* Mutant of ClearReconnectRequest: a request that found the queue full leaves
\* the flag set.
ClearReconnectRequest_Forgets ==
    /\ GuiGoto("undo", "idle")
    /\ GuiOnly /\ UNCHANGED <<flags, epoch, commands>>

ClearReconnectRequest ==
    /\ GuiGoto("undo", "idle")
    /\ requested' = FALSE
    /\ GuiOnly /\ UNCHANGED <<reconnecting, shutdown, epoch, commands>>

\* SshSession::try_shutdown, also from Drop: the gate, request_shutdown, the
\* queue, which may be full.
TryShutdown ==
    /\ GuiGoto("idle", "close")
    /\ RejectPending
    /\ UNCHANGED <<flags, epoch, commands, plan, loop, skipped, exchange>>

RequestShutdown ==
    /\ GuiGoto("close", "last")
    /\ shutdown' = TRUE /\ Invalidate
    /\ GuiOnly /\ UNCHANGED <<reconnecting, requested, commands>>

SendShutdown ==
    /\ GuiGoto("last", "closed")
    /\ IF CanSend THEN Send("Shutdown") ELSE UNCHANGED queue
    /\ GuiOnly /\ UNCHANGED <<flags, epoch, pend>>

Application ==
    \/ Type \/ SendTyped \/ Reserve \/ SendReserved \/ \E to \in {"ready", "void"} : Resolve(to)
    \/ AskReconnect \/ RequestReconnect \/ SendReconnect \/ ClearReconnectRequest
    \/ TryShutdown \/ RequestShutdown \/ SendShutdown

-----------------------------------------------------------------------------
(* Key exchanges: check_server_key in the task that russh has spawned.      *)

\* The worker awaits something.
Awaits ==
    ~polls /\ wpc \in (PreRunning \ {"start"}) \cup {"manual", "write", "select", "restop", "lost",
                                                    "exited", "halt"}
KeysOnly == UNCHANGED <<flags, epoch, commands, plan, loop, gpc, skipped>>

\* The end of an exchange; nobody waits for that of an abandoned one.
Ends(h, r) ==
    /\ shake' = [shake EXCEPT ![h] = "none"]
    /\ outcome' = IF h = "own" THEN r ELSE outcome

\* The fingerprint is written, by whichever exchange has come so far.
Records(h, whose) == verified' = whose /\ overlapped' = (overlapped \/ h = "orphan")

\* The key is the expected one; the rest of the exchange may still fail.
KeyIsExpected(h) ==
    /\ Awaits /\ shake[h] = "kex"
    /\ Records(h, h) /\ \E r \in {"ok", "failed"} : Ends(h, r)
    /\ KeysOnly /\ UNCHANGED gate

\* It is not: a review begins, if the gate is free ...
ReviewBegins(h) ==
    /\ Awaits /\ shake[h] = "kex" /\ gate = "idle"
    /\ gate' = "waiting" /\ shake' = [shake EXCEPT ![h] = "review"]
    /\ KeysOnly /\ UNCHANGED <<outcome, verified, overlapped>>

\* ... and the prompt can be shown; otherwise the key counts as rejected.
ReviewRefused(h) ==
    /\ Awaits /\ shake[h] = "kex"
    /\ Ends(h, "rejected")
    /\ KeysOnly /\ UNCHANGED <<gate, verified, overlapped>>

ExchangeFails(h) ==
    /\ Awaits /\ shake[h] = "kex"
    /\ Ends(h, "failed")
    /\ KeysOnly /\ UNCHANGED <<gate, verified, overlapped>>

\* The user answers the prompt on the screen, whosever it is.
Answer ==
    /\ gate = "waiting" /\ gate' \in {"accepted", "rejected"}
    /\ KeysOnly /\ UNCHANGED exchange

\* The waiter takes the answer, or none within HOST_KEY_DECISION_TIMEOUT.
ReviewEnds(h) ==
    /\ Awaits /\ shake[h] = "review"
    /\ gate' = "idle"
    /\ IF gate = "accepted"
       THEN Records(h, h) /\ \E r \in {"ok", "failed"} : Ends(h, r)
       ELSE Records(h, "none") /\ Ends(h, "rejected")
    /\ KeysOnly

KeyExchange ==
    \/ Answer
    \/ \E h \in Exchanges : KeyIsExpected(h) \/ ReviewBegins(h) \/ ReviewRefused(h)
                               \/ ExchangeFails(h) \/ ReviewEnds(h)

-----------------------------------------------------------------------------
(* try_recv.  What it returns is handled where the worker is.               *)

WorkerOnly == UNCHANGED <<gpc, exchange>>

\* A reservation that was voided, or whose attachment is gone, is let go; ...
DiscardPending ==
    /\ polls /\ pend /\ (res.slot = "void" \/ ~res.fresh)
    /\ pend' = FALSE /\ res' = NoReservation
    /\ WorkerOnly /\ UNCHANGED <<flags, lifecycle, attached, queue, gate, plan, loop, skipped>>

\* ... one that is open holds back what is behind it, and so does any other
\* while somebody has the admission lock; the poll ends, as with an empty queue.
Blocked == pend /\ res.slot # "void"
NoCommand == ~pend /\ queue = <<>>

PollEnds ==
    /\ polls /\ (Blocked \/ NoCommand)
    /\ polls' = FALSE
    /\ wpc' = CASE wpc = "start" -> "connect" [] wpc = "serve" -> "select" [] OTHER -> wpc
    /\ shake' = IF wpc = "start" THEN [shake EXCEPT !["own"] = "kex"] ELSE shake
    /\ outcome' = IF wpc = "start" THEN "none" ELSE outcome
    /\ skipped' = (skipped /\ Blocked)
    /\ UNCHANGED <<flags, epoch, commands, gate, verified, overlapped, plan, held, hand, gpc>>

TakeAutomation ==
    /\ polls /\ ~pend /\ queue # <<>> /\ Head(queue).kind = "AutomationInput"
    /\ pend' = TRUE /\ queue' = Tail(queue)
    /\ WorkerOnly /\ UNCHANGED <<flags, epoch, gate, plan, loop, skipped>>

\* Mutant of TakeReady: the attachment of a committed reservation is not looked
\* at.
TakeReady_AnyAttachment ==
    /\ polls /\ wpc = "serve" /\ pend /\ res.slot = "ready"
    /\ pend' = FALSE /\ res' = NoReservation
    /\ hand' = [kind |-> "AutomationInput", old |-> res.old]
    /\ wpc' = "write" /\ polls' = FALSE
    /\ WorkerOnly /\ UNCHANGED <<flags, lifecycle, attached, queue, gate, plan, held, skipped>>

\* Committed automation bytes of the current attachment, to be written.
TakeReady ==
    /\ polls /\ wpc = "serve" /\ pend /\ res.slot = "ready" /\ res.fresh
    /\ pend' = FALSE /\ res' = NoReservation
    /\ hand' = [kind |-> "AutomationInput", old |-> res.old]
    /\ wpc' = "write" /\ polls' = FALSE
    /\ WorkerOnly /\ UNCHANGED <<flags, lifecycle, attached, queue, gate, plan, held, skipped>>

\* The command at the head of the queue.
Receive(kind) ==
    /\ polls /\ ~pend /\ queue # <<>> /\ Head(queue).kind = kind
    /\ queue' = Tail(queue) /\ UNCHANGED <<pend, skipped, held>>
    /\ WorkerOnly

\* Typed input is written in Running and refused otherwise.
ReceiveInput ==
    /\ Receive("Input")
    /\ IF wpc = "serve" THEN wpc' = "write" /\ hand' = Head(queue) ELSE UNCHANGED <<wpc, hand>>
    /\ polls' = (wpc \in PreRunning)
    /\ UNCHANGED <<flags, epoch, gate, plan>>

\* A reconnect is refused while connecting, ...
ReceiveReconnectEarly ==
    /\ wpc \in PreRunning /\ Receive("Reconnect")
    /\ requested' = FALSE
    /\ UNCHANGED <<reconnecting, shutdown, epoch, gate, plan, wpc, polls, hand>>

\* ... ends the wait of a disconnected session, which clears the flag at once, ...
ReceiveReconnectManual ==
    /\ wpc = "manual" /\ Receive("Reconnect")
    /\ requested' = FALSE
    /\ wpc' = "mark" /\ polls' = FALSE /\ manual' = 1 /\ tries' = 0
    /\ UNCHANGED <<reconnecting, shutdown, epoch, gate, planner, hand>>

\* ... and ends a running one, which is shut out of automation first.
ReceiveReconnectRunning ==
    /\ wpc = "serve" /\ Receive("Reconnect")
    /\ Invalidate
    /\ wpc' = "restop" /\ polls' = FALSE /\ manual' = 1 /\ tries' = 0
    /\ UNCHANGED <<flags, gate, planner, hand>>

\* Where a stop leads: the shutdown of an attempt or of an automatic delay
\* also clears `reconnecting`.
StopAt == IF wpc \in {"start", "connect", "setup"} \/ planner.state = "Waiting" THEN "stop" ELSE "halt"

\* The flag is set or a Shutdown received: the gate is freed, and Stopping
\* announced unless the session is disconnected.
NoticeShutdown ==
    /\ RejectPending
    /\ IF wpc = "manual" THEN UNCHANGED epoch ELSE SetLifecycle("Stopping")
    /\ wpc' = StopAt /\ polls' = FALSE /\ hand' = NoHand

ReceiveShutdown ==
    /\ Receive("Shutdown")
    /\ NoticeShutdown
    /\ UNCHANGED <<flags, plan>>

\* Mutant of Poll: only the Shutdown command is looked at, which a full queue
\* does not take.
Poll_QueueOnly ==
    /\ ~polls /\ wpc \in PreRunning \cup {"serve", "manual"}
    /\ held' = IF wpc = "connect" THEN gate = "waiting" ELSE held
    /\ polls' = TRUE /\ UNCHANGED <<gate, epoch, wpc, hand>>
    /\ WorkerOnly /\ UNCHANGED <<flags, commands, plan, skipped>>

\* A poll begins with the flag.  It is in the running loop and in the wait for
\* a manual reconnect that every command is preceded by a look at it.  While
\* connecting, the poll puts the deadline off if a review is on the screen.
Poll ==
    /\ ~polls /\ wpc \in PreRunning \cup {"serve", "manual"}
    /\ held' = IF wpc = "connect" THEN gate = "waiting" ELSE held
    /\ IF shutdown THEN NoticeShutdown
                   ELSE polls' = TRUE /\ UNCHANGED <<gate, epoch, wpc, hand>>
    /\ WorkerOnly /\ UNCHANGED <<flags, commands, plan, skipped>>

TryRecv ==
    \/ Poll \/ PollEnds \/ DiscardPending \/ TakeAutomation \/ TakeReady \/ ReceiveInput
    \/ ReceiveReconnectEarly \/ ReceiveReconnectManual \/ ReceiveReconnectRunning \/ ReceiveShutdown

-----------------------------------------------------------------------------
(* ssh_worker: attempts. *)

\* A step of the worker from one place to another, outside try_recv.
Goto(from, to) ==
    /\ wpc = from /\ ~polls /\ wpc' = to
    /\ UNCHANGED <<polls, gpc, shutdown, gate>>

\* One that changes nothing else, and one that announces a lifecycle.
Moves(from, to) == Goto(from, to) /\ UNCHANGED <<epoch, plan, still>>
Announces(from, to, l) == Goto(from, to) /\ SetLifecycle(l) /\ UNCHANGED <<plan, still>>

\* Mutant of BeginTransport: the fingerprint of the last transport is kept.
BeginTransport_KeepsFingerprint ==
    /\ Goto("begin", "start")
    /\ attached' = FALSE /\ res' = [res EXCEPT !.fresh = FALSE, !.old = (res.slot # "none")]
    /\ verified' = (IF verified = "none" THEN "none" ELSE "old") /\ overlapped' = FALSE
    /\ queue' = [n \in DOMAIN queue |-> [queue[n] EXCEPT !.old = TRUE]]
    /\ tries' = tries + 1 /\ skipped' = TRUE /\ held' = FALSE
    /\ UNCHANGED <<reconnecting, requested, lifecycle, pend, shake, outcome, planner, manual, hand>>

\* begin_transport, and the start of establish_connection.  What is queued
\* from here on is old.
BeginTransport ==
    /\ Goto("begin", "start")
    /\ attached' = FALSE /\ res' = [res EXCEPT !.fresh = FALSE, !.old = (res.slot # "none")]
    /\ verified' = "none" /\ overlapped' = FALSE
    /\ queue' = [n \in DOMAIN queue |-> [queue[n] EXCEPT !.old = TRUE]]
    /\ tries' = tries + 1 /\ skipped' = TRUE /\ held' = FALSE
    /\ UNCHANGED <<reconnecting, requested, lifecycle, pend, shake, outcome, planner, manual, hand>>

Connected == Moves("connect", "setup") /\ outcome = "ok"

\* A rejected key, failed authentication and a refused shell are final.
FailsForGood ==
    /\ Goto(wpc, "done")
    /\ (wpc = "connect" /\ outcome = "rejected") \/ wpc = "setup"
    /\ SetLifecycle("Failed") /\ UNCHANGED <<plan, still>>

ConnectFails == Moves("connect", "retry") /\ outcome = "failed"

\* The deadline, unless it was put off at the last poll.  An exchange that has
\* been spawned goes on without its attempt (at most one does in the model).
ConnectTimesOut ==
    /\ Goto("connect", "retry") /\ ~held
    /\ shake["orphan"] = "none" \/ shake["own"] = "none"
    /\ \/ shake' = [h \in Exchanges |-> IF h = "own" THEN "none"
                                        ELSE IF shake["own"] = "none" THEN shake["orphan"]
                                        ELSE shake["own"]]
       \/ shake["own"] = "kex" /\ shake' = [shake EXCEPT !["own"] = "none"]
    /\ UNCHANGED <<reconnecting, requested, epoch, commands, outcome, verified, overlapped, plan,
                   held, hand, skipped>>

\* The password prompt was withdrawn, timed out or could not be shown.
PromptEnds == Announces("setup", "stop", "Stopped")

SetupSucceeds == Moves("setup", "established")

\* ReconnectPlanner::connection_established leaves every other state alone.
Established ==
    /\ Goto("established", "announce")
    /\ manual' = 0 /\ tries' = 0 /\ reconnecting' = FALSE
    /\ planner' = IF planner.state = "Connecting" THEN [state |-> "Idle", attempt |-> 0] ELSE planner
    /\ UNCHANGED <<requested, epoch, commands, exchange, held, hand, skipped>>

Announce == Announces("announce", "serve", "Running")

-----------------------------------------------------------------------------
(* The running channel. *)

WriteSucceeds ==
    /\ Goto("write", "serve")
    /\ hand' = NoHand
    /\ UNCHANGED <<reconnecting, requested, epoch, commands, exchange, plan, held, skipped>>

\* A failed write is announced as Failed, and then treated as a loss.
WriteFails ==
    /\ Goto("write", "lost")
    /\ SetLifecycle("Failed") /\ hand' = NoHand
    /\ UNCHANGED <<reconnecting, requested, commands, exchange, plan, held, skipped>>

\* wait_for_running_ssh_operation looks at the flag while it writes.
WriteIsCut ==
    /\ wpc = "write" /\ shutdown
    /\ NoticeShutdown
    /\ WorkerOnly /\ UNCHANGED <<flags, commands, plan, held, skipped>>

\* Output, a successful probe or nothing: the next poll.
Tick == Moves("select", "serve")

\* Mutant of ChannelEnds: the end of the channel does not invalidate the epoch.
ChannelEnds_StaysAttached ==
    /\ \E to \in {"exited", "lost"} : Goto("select", to)
    /\ UNCHANGED <<epoch, plan, still>>

\* The shell exits; or the channel ends or the liveness probe fails.
ChannelEnds ==
    /\ \E to \in {"exited", "lost"} : Goto("select", to)
    /\ Invalidate
    /\ UNCHANGED <<plan, still>>

Exited == Announces("exited", "done", "Exited")

-----------------------------------------------------------------------------
(* Reconnection. *)

\* Mutant of CanSchedule: the last attempt is taken for one before the last.
CanSchedule_OneMore ==
    \/ planner.state = "Idle"
    \/ planner.state = "Connecting" /\ planner.attempt <= MaxAttempts

\* reconnect_action_for_failure, for a transport failure.
CanSchedule ==
    \/ planner.state = "Idle"
    \/ planner.state = "Connecting" /\ planner.attempt < MaxAttempts

\* schedule_reconnect, up to its first store: another attempt is due ...
Schedule ==
    /\ \E from \in {"lost", "retry"} : Goto(from, "mark")
    /\ CanSchedule
    /\ planner' = [state |-> "Waiting", attempt |-> planner.attempt + 1]
    /\ UNCHANGED <<epoch, manual, tries, still>>

Exhaust ==
    planner' = IF planner.state = "Connecting" THEN [state |-> "Exhausted", attempt |-> 0] ELSE planner

\* ... or none is: an attempt that followed a manual reconnect is repeated a
\* number of times, ...
RetryManually ==
    /\ Goto("retry", "delay") /\ ~CanSchedule /\ Exhaust
    /\ manual \in 1 .. ManualMax - 1 /\ manual' = manual + 1
    /\ UNCHANGED <<epoch, tries, still>>

\* ... after which, as after a loss, the session waits for the user; ...
Disconnect ==
    /\ \E from \in {"lost", "retry"} : Goto(from, "manual")
    /\ ~CanSchedule /\ Exhaust
    /\ wpc = "retry" => manual = ManualMax
    /\ SetLifecycle("Disconnected")
    /\ UNCHANGED <<manual, tries, still>>

\* ... any other failed attempt is the end.
GiveUp ==
    /\ Goto("retry", "done") /\ ~CanSchedule /\ Exhaust
    /\ manual = 0
    /\ SetLifecycle("Failed")
    /\ UNCHANGED <<manual, tries, still>>

\* A running session that reconnects is stopped first.
StopForReconnect == Announces("restop", "mark", "Stopped")

\* set_reconnecting(true), clear_reconnect_request, set_lifecycle(Starting).
MarkReconnecting ==
    /\ Goto("mark", "clear")
    /\ reconnecting' = TRUE
    /\ UNCHANGED <<requested, epoch, commands, exchange, plan, held, hand, skipped>>

ClearRequest ==
    /\ Goto("clear", "restart")
    /\ requested' = FALSE
    /\ UNCHANGED <<reconnecting, epoch, commands, exchange, plan, held, hand, skipped>>

Restart == Announces("restart", IF planner.state = "Waiting" THEN "delay" ELSE "begin", "Starting")

DelayElapses ==
    /\ Goto("delay", "begin")
    /\ planner' = IF planner.state = "Waiting" THEN [planner EXCEPT !.state = "Connecting"] ELSE planner
    /\ UNCHANGED <<epoch, manual, tries, still>>

\* The end of a session that was shut down.
Stop ==
    /\ \E from \in {"stop", "halt"} : Goto(from, "done")
    /\ reconnecting' = (reconnecting /\ wpc = "halt")
    /\ planner' = IF planner.state = "Waiting" THEN [planner EXCEPT !.state = "Cancelled"] ELSE planner
    /\ SetLifecycle("Stopped")
    /\ UNCHANGED <<requested, commands, exchange, manual, tries, held, hand, skipped>>

\* The receiver and the runtime with its tasks go with the worker.
Return ==
    /\ wpc = "done" /\ wpc' = "end"
    /\ queue' = <<>> /\ pend' = FALSE /\ res' = NoReservation
    /\ gate' = "idle" /\ shake' = [h \in Exchanges |-> "none"] /\ outcome' = "none"
    /\ UNCHANGED <<flags, lifecycle, attached, verified, overlapped, plan, polls, held, hand, gpc, skipped>>

-----------------------------------------------------------------------------

\* What the worker does by itself, and what it does when the network or a
\* timer lets it.
Worker ==
    \/ TryRecv \/ BeginTransport \/ Connected \/ ConnectFails \/ Established \/ Announce
    \/ WriteIsCut \/ Tick \/ Exited
    \/ Schedule \/ RetryManually \/ Disconnect \/ GiveUp \/ StopForReconnect
    \/ MarkReconnecting \/ ClearRequest \/ Restart \/ Stop \/ Return

Network ==
    \/ FailsForGood \/ ConnectTimesOut \/ PromptEnds \/ SetupSucceeds
    \/ WriteSucceeds \/ WriteFails \/ ChannelEnds \/ DelayElapses

Next == Application \/ KeyExchange \/ Worker \/ Network

Spec == Init /\ [][Next]_vars

\* The worker's thread is scheduled and its polls come round.  Nothing is
\* assumed of the network, the user or the application.
FairSpec == Spec /\ WF_vars(Worker)

-----------------------------------------------------------------------------
(* Properties. *)

\* Automation is admitted only to a running shell: every path out of the loop
\* (exit, loss, failed write, failed probe, reconnect, shutdown) and a Running
\* announced after a shutdown has invalidated the epoch before the application
\* can see it.  With the types.
WorkerInv ==
    /\ TypeOK
    /\ attached => lifecycle = "Running" /\ ~shutdown /\ wpc \in {"serve", "write", "select"}

\* Input reaches the shell it was meant for: automation bytes are never written
\* to a later transport than they were reserved on, and typed input only if
\* the admission lock was busy at every poll of the new attempt, so that the
\* queue could not be emptied (try_recv, process_commands_before_running).
InputReachesItsShell ==
    [][wpc = "write" /\ wpc' = "serve" /\ hand.old => hand.kind = "Input" /\ skipped]_vars

\* A reconnect request does not get stuck: while the flag is set, and further
\* requests are refused, somebody is about to clear it: the application, the
\* command in the queue, or the worker that has taken it.
RequestIsPending ==
    requested => \/ gpc \in {"request", "undo"}
                 \/ \E n \in DOMAIN queue : queue[n].kind = "Reconnect"
                 \/ wpc \in {"restop", "mark", "clear", "done", "end"}

\* The fingerprint that the application reads is that of the transport in use,
\* or none before its key is verified; only an abandoned exchange that comes to
\* its decision late can write another one (check_server_key, begin_transport).
FingerprintIsTheTransports ==
    ~overlapped =>
        /\ verified \in {"none", "own"}
        /\ wpc \in {"setup", "established", "announce", "serve", "write", "select"} => verified = "own"

\* An unreachable host is tried a bounded number of times for each connection
\* that was up or asked for: the automatic policy and the manual retries add
\* up, but neither restarts the other (schedule_reconnect, ssh_worker).
RetriesAreBounded == tries <= MaxAttempts + ManualMax

\* A session that is shut down ends, wherever it is: connecting, waiting for a
\* decision, in a write that the remote does not take, disconnected.
ShutdownEnds == shutdown ~> (wpc = "end")
=============================================================================
