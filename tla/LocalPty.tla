------------------------------ MODULE LocalPty ------------------------------
(***************************************************************************)
(* The life of a local shell session, crates/festerm-pty/src/lib.rs: the   *)
(* application threads that stop it, the control worker that owns the      *)
(* child process, the reader worker that owns its output, and the child.   *)
(* A step is one access to the state they share (the lifecycle with the    *)
(* epoch under lifecycle_transition, the cancel flag, a channel), so that  *)
(* the others may act between any two; terminate_process_tree, which swaps *)
(* a flag of its own, goes with the store before it.                       *)
(* The order of queued input is the subject of PtyInput, the               *)
(* bounded event queue that of PtyOutput; here an input is received at     *)
(* any time and the reader's event queue is full for any length of time.   *)
(***************************************************************************)
EXTENDS Naturals

CONSTANTS
    Callers,     \* application threads that hold the session
    MayCall,     \* what each of them may call, once
    Natures      \* the kinds of child process considered

ASSUME NatureAssumption == Natures \subseteq [hangup : BOOLEAN, stubborn : BOOLEAN, reads : BOOLEAN]

VARIABLES
    \* the child process (external)
    nature,      \* whether its profile asks for SIGHUP first (hangup_on_shutdown),
                 \* and whether it ignores SIGHUP and SIGTERM and goes on reading
    alive,       \* the child has not exited
    slave,       \* some process still holds the terminal open
    signals,     \* the signals sent to the process group
    \* Shared
    lifecycle,   \* the session's SessionLifecycle
    live,        \* automation_epoch is running
    cancel,      \* the cancel flag
    terminated,  \* the termination_requested flag
    queued,      \* a Shutdown command is in the command queue
    dropped,     \* the LocalPtySession is gone, and its queue ends with it
    done,        \* what the reader put in its completion channel
    completion,  \* what the control worker put in the completion channel
    cached,      \* Shared.completion, the result kept for later callers
    \* the threads
    cpc,         \* control worker: next step
    stopping,    \* control worker: local flag
    failure,     \* control worker: worker_failure is set
    phase,       \* control worker: how far the hangup has escalated
    verdict,     \* control worker: the result it is about to report
    rpc,         \* reader worker: next step
    apc,         \* each caller: next step
    mode,        \* each caller: what it has called, or "none"
    result,      \* what the last shutdown returned
    raced        \* history: request_stop overwrote the end of the session

childVars == <<nature, alive, slave, signals>>
locals == <<stopping, failure, phase, verdict>>
controlVars == <<cpc, locals>>
callerVars == <<apc, mode, result>>
channels == <<queued, dropped, done, completion, cached>>
vars == <<childVars, lifecycle, live, cancel, terminated, channels,
          controlVars, rpc, callerVars, raced>>

Terminal == {"Exited", "Failed", "Stopped"}         \* is_terminal
Results == {"Stopped", "AlreadyStopped", "Err"}
Modes == {"shutdown", "try_shutdown", "drop"}

TypeOK ==
    /\ alive \in BOOLEAN /\ slave \in BOOLEAN
    /\ nature \in Natures
    /\ signals \subseteq {"HUP", "TERM", "KILL"}
    /\ lifecycle \in {"Running", "Stopping"} \cup Terminal
    /\ live \in BOOLEAN /\ cancel \in BOOLEAN /\ terminated \in BOOLEAN
    /\ queued \in BOOLEAN /\ dropped \in BOOLEAN
    /\ stopping \in BOOLEAN /\ failure \in BOOLEAN /\ raced \in BOOLEAN
    /\ done \in {"none", "ok", "err"}
    /\ completion \in {"none", "taken"} \cup Results
    /\ cached \in {"none"} \cup Results
    /\ cpc \in {"top", "receive", "write", "failing", "child", "reaped", "unobserved",
                "drain", "settle", "complete", "end"}
    /\ verdict \in {"none"} \cup Results
    /\ phase \in 0..2
    /\ rpc \in {"read", "emit", "ended", "failed", "reporting", "end"}
    /\ apc \in [Callers -> {"idle", "load", "mark", "cancel", "terminate", "send", "wait",
                          "returned"}]
    /\ mode \in [Callers -> Modes \cup {"none"}]
    /\ result \in {"none", "TimedOut"} \cup Results

\* The state in which start_with_notifier returns the session: it has set
\* Starting and then Running, and spawned both workers.
Init ==
    /\ nature \in Natures
    /\ alive = TRUE /\ slave = TRUE /\ signals = {}
    /\ lifecycle = "Running" /\ live = TRUE
    /\ cancel = FALSE /\ terminated = FALSE
    /\ queued = FALSE /\ dropped = FALSE
    /\ done = "none" /\ completion = "none" /\ cached = "none"
    /\ cpc = "top" /\ stopping = FALSE /\ failure = FALSE /\ phase = 0 /\ verdict = "none"
    /\ rpc = "read"
    /\ apc = [c \in Callers |-> "idle"]
    /\ mode = [c \in Callers |-> "none"]
    /\ result = "none"
    /\ raced = FALSE

-----------------------------------------------------------------------------
(* Shared. *)

\* set_lifecycle, for every lifecycle but Running: the automation epoch is
\* invalidated and the lifecycle stored under lifecycle_transition.
SetLifecycle(l) == lifecycle' = l /\ live' = FALSE

\* ProcessTree::terminate: what the process group is sent first.
FirstSignal == IF nature.hangup THEN "HUP" ELSE "TERM"

\* terminate_process_tree: the first call signals the process group.
TerminateProcessTree ==
    /\ terminated' = TRUE
    /\ signals' = IF terminated THEN signals ELSE signals \cup {FirstSignal}
    /\ UNCHANGED <<nature, alive, slave>>

-----------------------------------------------------------------------------
(* The application: shutdown, try_shutdown and Drop. *)

CallerGoto(c, from, to) == apc[c] = from /\ apc' = [apc EXCEPT ![c] = to]

\* Any thread may stop the session; Drop needs it for itself.
Call(c, m) ==
    /\ ~dropped /\ m \in MayCall[c]
    /\ \A d \in Callers : mode[d] = "none" \/ "drop" \notin {m, mode[d]}
    /\ CallerGoto(c, "idle", "load")
    /\ mode' = [mode EXCEPT ![c] = m]
    /\ UNCHANGED <<childVars, lifecycle, live, cancel, terminated, channels, controlVars, rpc,
                   result, raced>>

\* request_stop reads the lifecycle under its lock and lets go of the lock ...
LoadLifecycle(c) ==
    /\ CallerGoto(c, "load", CASE lifecycle = "Stopped" -> "send"
                               [] lifecycle = "Running" -> "mark"
                               [] OTHER -> "cancel")
    /\ UNCHANGED <<childVars, lifecycle, live, cancel, terminated, channels, controlVars, rpc,
                   mode, result, raced>>

\* ... before it stores Stopping, whatever the lifecycle has become meanwhile.
MarkStopping(c) ==
    /\ CallerGoto(c, "mark", "cancel")
    /\ SetLifecycle("Stopping")
    /\ raced' = (raced \/ lifecycle \in Terminal)
    /\ UNCHANGED <<childVars, cancel, terminated, channels, controlVars, rpc, mode, result>>

StoreCancel(c) ==
    /\ CallerGoto(c, "cancel", "terminate")
    /\ cancel' = TRUE
    /\ UNCHANGED <<childVars, lifecycle, live, terminated, channels, controlVars, rpc, mode,
                   result, raced>>

TerminateFromCaller(c) ==
    /\ CallerGoto(c, "terminate", "send")
    /\ TerminateProcessTree
    /\ UNCHANGED <<lifecycle, live, cancel, channels, controlVars, rpc, mode, result, raced>>

\* send_command(Shutdown), whose failure (queue full or closed) is ignored.
\* After Drop the queue ends.
SendShutdown(c) ==
    /\ CallerGoto(c, "send", IF mode[c] = "shutdown" THEN "wait" ELSE "returned")
    /\ \/ queued' = TRUE /\ cpc # "end"
       \/ UNCHANGED queued
    /\ dropped' = (mode[c] = "drop")
    /\ mode' = [mode EXCEPT ![c] = IF @ = "shutdown" THEN @ ELSE "none"]
    /\ UNCHANGED <<childVars, lifecycle, live, cancel, terminated, done, completion,
                   cached, controlVars, rpc, result, raced>>

\* The bounded wait of shutdown: a result kept by an earlier caller, the
\* result of the worker, or a timeout.
WaitReturns(c) ==
    /\ CallerGoto(c, "wait", "returned")
    /\ \/ /\ cached # "none"
          /\ result' = cached
          /\ UNCHANGED <<completion, cached>>
       \/ /\ cached = "none" /\ completion \in Results
          /\ result' = completion
          /\ cached' = completion
          /\ completion' = "taken"
       \/ /\ cached = "none" /\ completion = "none"
          /\ result' = "TimedOut"
          /\ UNCHANGED <<completion, cached>>
    /\ mode' = [mode EXCEPT ![c] = "none"]
    /\ UNCHANGED <<childVars, lifecycle, live, cancel, terminated, queued, dropped, done,
                   controlVars, rpc, raced>>

-----------------------------------------------------------------------------
(* The control worker. *)

ControlGoto(from, to) == cpc = from /\ cpc' = to

\* The top of the loop notices a cancellation.
LoopTop ==
    /\ ControlGoto("top", "receive")
    /\ IF cancel
       THEN stopping' = TRUE /\ TerminateProcessTree
       ELSE UNCHANGED <<stopping, childVars, terminated>>
    /\ UNCHANGED <<lifecycle, live, cancel, channels, failure, phase, verdict, rpc, callerVars, raced>>

\* A step that touches nothing but the program counter.
ControlMoves(from, to) ==
    /\ ControlGoto(from, to)
    /\ UNCHANGED <<childVars, lifecycle, live, cancel, terminated, channels, locals, rpc,
                   callerVars, raced>>

\* receive_command: an input to write, ...
ReceiveInput == ~stopping /\ ControlMoves("receive", "write")

\* ... nothing within POLL_INTERVAL (or a resize, a reservation that is still
\* pending, an input that comes too late), ...
ReceiveNothing == ControlMoves("receive", "child")

\* ... a Shutdown, or the end of the queue, which also invalidates the epoch.
ReceiveStop ==
    /\ ControlGoto("receive", "child")
    /\ queued \/ dropped
    /\ queued' = FALSE
    /\ live' = (live /\ queued)
    /\ stopping' = TRUE
    /\ cancel' = TRUE
    /\ TerminateProcessTree
    /\ UNCHANGED <<lifecycle, dropped, done, completion, cached, failure, phase, verdict, rpc,
                   callerVars, raced>>

\* write_all blocks until the terminal is read or closed.
WriteSucceeds == ControlMoves("write", "child")

\* A failed write ends the session: fail, then cancel and terminate.
WriteFails ==
    /\ ControlGoto("write", "failing")
    /\ SetLifecycle("Failed")
    /\ failure' = TRUE
    /\ UNCHANGED <<childVars, cancel, terminated, channels, stopping, phase, verdict, rpc,
                   callerVars, raced>>

WriteFailed ==
    /\ ControlGoto("failing", "child")
    /\ stopping' = TRUE
    /\ cancel' = TRUE
    /\ TerminateProcessTree
    /\ UNCHANGED <<lifecycle, live, channels, failure, phase, verdict, rpc, callerVars, raced>>

\* child.try_wait: the child has exited ...
Reap ==
    /\ ~alive
    /\ ControlGoto("child", "reaped")
    /\ IF stopping THEN UNCHANGED <<lifecycle, live>> ELSE SetLifecycle("Exited")
    /\ UNCHANGED <<childVars, cancel, terminated, channels, locals, rpc, callerVars, raced>>

\* Mutant of Reaped: descendants of a shell that exited are left alone.
Reaped_Leaves ==
    /\ ControlGoto("reaped", "drain")
    /\ UNCHANGED <<childVars, lifecycle, live, cancel, terminated, channels, locals, rpc, callerVars, raced>>

\* (and what it left of its process group is terminated) ...
Reaped ==
    /\ ControlGoto("reaped", "drain")
    /\ TerminateProcessTree
    /\ UNCHANGED <<lifecycle, live, cancel, channels, locals, rpc, callerVars, raced>>

\* ... or it runs on; a hangup is followed by SIGTERM and SIGKILL in time, ...
StillRunning == alive /\ ControlMoves("child", "top")

\* Mutant of Escalate: the escalation ends with SIGTERM.
Escalate_Once ==
    /\ alive /\ stopping /\ nature.hangup /\ phase = 0
    /\ ControlGoto("child", "top")
    /\ phase' = 1
    /\ signals' = signals \cup {"TERM"}
    /\ UNCHANGED <<nature, alive, slave, lifecycle, live, cancel, terminated,
                   channels, stopping, failure, verdict, rpc, callerVars, raced>>

Escalate ==
    /\ alive /\ stopping /\ nature.hangup
    /\ ControlGoto("child", "top")
    /\ \E next \in (phase + 1)..2 :
          /\ phase' = next
          /\ signals' = signals \cup {IF next = 1 THEN "TERM" ELSE "KILL"}
    /\ UNCHANGED <<nature, alive, slave, lifecycle, live, cancel, terminated,
                   channels, stopping, failure, verdict, rpc, callerVars, raced>>

\* ... or it cannot be observed.
TryWaitFails ==
    /\ ControlGoto("child", "unobserved")
    /\ verdict' = "Err"
    /\ SetLifecycle("Failed")
    /\ UNCHANGED <<childVars, cancel, terminated, channels, stopping, failure, phase, rpc,
                   callerVars, raced>>

TryWaitFailed ==
    /\ ControlGoto("unobserved", "complete")
    /\ cancel' = TRUE
    /\ TerminateProcessTree
    /\ UNCHANGED <<lifecycle, live, channels, locals, rpc, callerVars, raced>>

\* After the loop, an earlier failure or the reader's report decides, ...
Decides(to, r) ==
    /\ ControlGoto("drain", to)
    /\ verdict' = r
    /\ UNCHANGED <<childVars, lifecycle, live, terminated, channels, stopping, failure, phase,
                   rpc, callerVars, raced>>

DrainFailed == failure /\ Decides("complete", "Err") /\ UNCHANGED cancel

\* Mutant of DrainReported: the cancel flag is not looked at again after the
\* reader has reported.
DrainReported_Local ==
    /\ ~failure /\ done # "none"
    /\ CASE done = "err" -> Decides("settle", "Err")
         [] done = "ok" /\ cancel -> Decides("settle", "Stopped")
         [] OTHER -> Decides("complete", "Stopped")
    /\ UNCHANGED cancel

DrainReported ==
    /\ ~failure /\ done # "none"
    /\ CASE done = "err" -> Decides("settle", "Err")
         [] done = "ok" /\ (stopping \/ cancel) -> Decides("settle", "Stopped")
         [] OTHER -> Decides("complete", "AlreadyStopped")
    /\ UNCHANGED cancel

\* ... or READER_STOP_TIMEOUT passes.  The third outcome of the wait, a reader
\* that is gone without a report, takes a panic of the reader: every return of
\* reader_worker sends first.
DrainTimesOut ==
    /\ ~failure /\ done = "none"
    /\ Decides("settle", "Err")
    /\ cancel' = TRUE

Settle ==
    /\ ControlGoto("settle", "complete")
    /\ SetLifecycle(IF verdict = "Stopped" THEN "Stopped" ELSE "Failed")
    /\ UNCHANGED <<childVars, cancel, terminated, channels, locals, rpc, callerVars, raced>>

Complete ==
    /\ ControlGoto("complete", "end")
    /\ completion' = verdict
    /\ UNCHANGED <<childVars, lifecycle, live, cancel, terminated, queued, dropped, done, cached,
                   locals, rpc, callerVars, raced>>

-----------------------------------------------------------------------------
(* The reader worker. *)

ReaderGoto(from, to) == rpc = from /\ rpc' = to

\* A chunk of output: published, or dropped once the session is cancelled.
ReadOutput ==
    /\ slave
    /\ ReaderGoto("read", IF cancel THEN "read" ELSE "emit")
    /\ UNCHANGED <<childVars, lifecycle, live, cancel, terminated, channels, controlVars,
                   callerVars, raced>>

\* emit_output ends when there is room in the event queue or on cancellation.
EmitReturns ==
    /\ ReaderGoto("emit", "read")
    /\ UNCHANGED <<childVars, lifecycle, live, cancel, terminated, channels, controlVars,
                   callerVars, raced>>

\* The end of the output invalidates the epoch before it is reported.
ReadEnd ==
    /\ ~slave
    /\ ReaderGoto("read", "ended")
    /\ live' = FALSE
    /\ UNCHANGED <<childVars, lifecycle, cancel, terminated, channels, controlVars, callerVars,
                   raced>>

ReportEnd ==
    /\ ReaderGoto("ended", "end")
    /\ done' = "ok"
    /\ UNCHANGED <<childVars, lifecycle, live, cancel, terminated, queued, dropped, completion,
                   cached, controlVars, callerVars, raced>>

\* Mutant of ReadFails: a failed read cancels the session before it invalidates
\* the epoch.
ReadFails_CancelFirst ==
    /\ ReaderGoto("read", IF cancel THEN "ended" ELSE "failed")
    /\ cancel' = TRUE
    /\ UNCHANGED <<childVars, lifecycle, live, terminated, channels, controlVars, callerVars, raced>>

\* A failed read is the end too if the session is already cancelled;
\* otherwise it invalidates, cancels and reports, in this order.
ReadFails ==
    /\ ReaderGoto("read", IF cancel THEN "ended" ELSE "failed")
    /\ live' = (live /\ cancel)
    /\ UNCHANGED <<childVars, lifecycle, cancel, terminated, channels, controlVars, callerVars,
                   raced>>

CancelFromReader ==
    /\ ReaderGoto("failed", "reporting")
    /\ cancel' = TRUE
    /\ UNCHANGED <<childVars, lifecycle, live, terminated, channels, controlVars, callerVars,
                   raced>>

ReportFailure ==
    /\ ReaderGoto("reporting", "end")
    /\ done' = "err"
    /\ UNCHANGED <<childVars, lifecycle, live, cancel, terminated, queued, dropped, completion,
                   cached, controlVars, callerVars, raced>>

-----------------------------------------------------------------------------
(* The child process (external). *)

\* It exits on its own or on a signal; descendants may keep the terminal.
ChildExits ==
    /\ alive
    /\ alive' = FALSE
    /\ slave' \in BOOLEAN
    /\ UNCHANGED <<nature, signals, lifecycle, live, cancel, terminated,
                   channels, controlVars, rpc, callerVars, raced>>

SlaveCloses ==
    /\ ~alive /\ slave
    /\ slave' = FALSE
    /\ UNCHANGED <<nature, alive, signals, lifecycle, live, cancel, terminated,
                   channels, controlVars, rpc, callerVars, raced>>

-----------------------------------------------------------------------------

\* The control worker's steps that do not wait for the child.
Control ==
    \/ LoopTop \/ ReceiveInput \/ ReceiveNothing \/ ReceiveStop
    \/ WriteFailed \/ Reap \/ Reaped \/ StillRunning \/ Escalate
    \/ TryWaitFails \/ TryWaitFailed
    \/ DrainFailed \/ DrainReported \/ DrainTimesOut \/ Settle \/ Complete

Write == WriteSucceeds \/ WriteFails

Reader ==
    \/ ReadOutput \/ EmitReturns
    \/ ReadEnd \/ ReportEnd \/ ReadFails \/ CancelFromReader \/ ReportFailure

CallerStep(c) ==
    \/ LoadLifecycle(c) \/ MarkStopping(c) \/ StoreCancel(c) \/ TerminateFromCaller(c)
    \/ SendShutdown(c) \/ WaitReturns(c)

Next ==
    \/ \E c \in Callers : CallerStep(c) \/ \E m \in Modes : Call(c, m)
    \/ Control \/ Write
    \/ Reader
    \/ ChildExits \/ SlaveCloses

Spec == Init /\ [][Next]_vars

\* The control worker is scheduled, and each round of its loop takes time, so
\* an escalation that is possible again and again falls due.  A write returns
\* if the terminal is read or closed.  A child that was killed, or signalled
\* when it obeys signals, exits.  A caller inside a call goes on.  Nothing is
\* assumed of the consumer of events or of what the child leaves behind.
FairSpec ==
    /\ Spec
    /\ WF_vars(Control)
    /\ SF_vars(Escalate)
    /\ \A c \in Callers : WF_vars(CallerStep(c))
    /\ WF_vars((nature.reads \/ ~slave) /\ Write)
    /\ WF_vars(("KILL" \in signals \/ (signals # {} /\ ~nature.stubborn)) /\ ChildExits)

-----------------------------------------------------------------------------
(* Properties. *)

\* Automation is admitted only to a session that nobody has begun to stop:
\* every path to cancel, to the end of the output and to the reaping of the
\* child has invalidated the epoch before (lib.rs:926-947, 1551 and 1582).
StopInvalidates ==
    live => /\ lifecycle = "Running"
            /\ ~cancel /\ ~stopping
            /\ rpc \in {"read", "emit"}
            /\ cpc \in {"top", "receive", "write", "child"}

\* Both: the variables have their types, and a stop invalidates first.
StopInv == TypeOK /\ StopInvalidates

\* The result the worker reports and the lifecycle it leaves agree, whichever
\* of the write, the child, the reader and the timeout ended the session, as
\* long as request_stop has not overwritten the lifecycle (lib.rs:1727-1758).
ResultMatchesLifecycle ==
    cpc = "end" /\ ~raced =>
        \A r \in Results :
            (completion = r \/ (completion = "taken" /\ cached = r)) =>
                lifecycle = CASE r = "Stopped" -> "Stopped"
                              [] r = "AlreadyStopped" -> "Exited"
                              [] r = "Err" -> "Failed"

\* The process group is signalled before the session is reported as ended,
\* even if the shell exited by itself; and it is killed only after it was
\* asked to hang up (lib.rs:1066-1079 and 1671-1705).
GroupIsSignalled ==
    /\ cpc = "end" => signals # {}
    /\ "KILL" \in signals => nature.hangup /\ "HUP" \in signals

\* A stopped session comes to its end: the child is signalled, escalated if
\* it asked for a hangup, reaped and reported, even if the reader is stuck
\* behind a full event queue.
ShutdownCompletes ==
    (cancel /\ nature.reads /\ (nature.hangup \/ ~nature.stubborn)) ~> (cpc = "end")

\* A shutdown that returned a result leaves a session that has ended.
ShutdownIsFinal == result \in {"Stopped", "AlreadyStopped"} => lifecycle \in Terminal

\* A client that ignores the hangup is killed in bounded time
\* (docs/gui-design.md:457-459), or the worker has given up on it.
EscalationIsBounded == ("HUP" \in signals) ~> (~alive \/ cpc = "end")
=============================================================================
