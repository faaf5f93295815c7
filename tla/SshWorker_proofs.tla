-------------------------- MODULE SshWorker_proofs --------------------------
(***************************************************************************)
(* Proofs about SshWorker, for any queue capacity and any bounds on the    *)
(* attempts.  The types are proved in six parts, so that a step has to be  *)
(* looked at only where it writes; each property has the strengthening of  *)
(* its own that makes it inductive.                                        *)
(***************************************************************************)
EXTENDS SshWorker, TLAPS

USE DEF flags, epoch, commands, exchange, keys, plan, loop, still

-----------------------------------------------------------------------------
(* The inductive invariant. *)

Lifecycles == {"Starting", "Running", "Stopping", "Disconnected", "Exited", "Failed", "Stopped"}
Slots == {"none", "open", "ready", "void"}
Commands == [kind : Kinds, old : BOOLEAN]
PlannerStates == {"Off", "Idle", "Waiting", "Connecting", "Exhausted", "Cancelled"}

\* The parts of TypeOK.
EpochType ==
    /\ lifecycle \in Lifecycles /\ attached \in BOOLEAN
    /\ res \in [slot : Slots, fresh : BOOLEAN, old : BOOLEAN]

FlagType ==
    /\ reconnecting \in BOOLEAN /\ requested \in BOOLEAN /\ shutdown \in BOOLEAN
    /\ gpc \in {"idle", "typed", "reserved", "cas", "request", "undo", "close", "last", "closed"}

CommandType == queue \in Seq(Commands) /\ Len(queue) <= Capacity /\ pend \in BOOLEAN

KeyType ==
    /\ gate \in {"idle", "waiting", "accepted", "rejected"}
    /\ shake \in [Exchanges -> {"none", "kex", "review"}]
    /\ outcome \in {"none", "ok", "rejected", "failed"}
    /\ verified \in {"none", "old"} \cup Exchanges /\ overlapped \in BOOLEAN

PlanType ==
    /\ planner \in [state : PlannerStates, attempt : 0 .. MaxAttempts]
    /\ manual \in 0 .. ManualMax /\ tries \in Nat

LoopType ==
    /\ wpc \in PreRunning \cup {"begin", "established", "announce", "serve", "write", "select",
                                "restop", "lost", "exited", "retry", "manual", "mark", "clear",
                                "restart", "stop", "halt", "done", "end"}
    /\ polls \in BOOLEAN /\ held \in BOOLEAN /\ skipped \in BOOLEAN
    /\ hand \in [kind : {"none", "Input", "AutomationInput"}, old : BOOLEAN]

\* The worker is inside try_recv only at the places that poll, and the planner
\* counts attempts only between a loss and what settles it.
PollsInv == polls => wpc \in PreRunning \cup {"serve", "manual"}
PlannerInv == planner.state \in {"Off", "Idle"} => planner.attempt = 0

\* The epoch runs only in the running loop.
AttachedInv == attached => lifecycle = "Running" /\ ~shutdown /\ wpc \in {"serve", "write", "select"}

\* The exchange of the current attempt is under way only while the worker waits
\* for it (or has stopped and not yet returned); an attempt that came through
\* has its fingerprint recorded.
ExchangeInv ==
    /\ shake["own"] # "none" => wpc \in {"connect", "stop", "done"} /\ outcome = "none"
    /\ wpc = "connect" /\ outcome = "ok" /\ ~overlapped => verified = "own"

\* Every transport begun, and the one that is due, was paid for by the first
\* attempt, by a manual retry or by an attempt of the planner.  A planner that
\* has given up counts with all of its attempts.
ManualPaid == IF manual = 0 THEN 1 ELSE manual
PlannerPaid ==
    CASE planner.state \in {"Waiting", "Connecting"} -> planner.attempt
      [] planner.state \in {"Exhausted", "Cancelled"} -> MaxAttempts
      [] OTHER -> 0
Due == IF wpc \in {"begin", "restop", "mark", "clear", "restart", "delay"} THEN 1 ELSE 0
TriesInv == tries + Due <= ManualPaid + PlannerPaid

\* What is queued is old only before the transport's first complete poll; a
\* token is never both current and older than the transport; and what the
\* worker writes is old only as InputReachesItsShell allows.
QueueAge == ~skipped => \A n \in 1 .. Len(queue) : ~queue[n].old
TokenAge == res.fresh => ~res.old
HandAge == wpc = "write" /\ hand.old => hand.kind = "Input" /\ skipped

\* What an assignment of FALSE leaves in a flag.
LEMMA FalseIsBoolean == \A x : x = FALSE => x \in BOOLEAN
OBVIOUS

\* The parts are the whole.
LEMMA TypeParts ==
    TypeOK <=> EpochType /\ FlagType /\ CommandType /\ KeyType /\ PlanType /\ LoopType
BY DEF TypeOK, EpochType, FlagType, CommandType, KeyType, PlanType, LoopType, Lifecycles, Slots,
       Commands, PlannerStates

-----------------------------------------------------------------------------
(* The command queue. *)

\* A command that is sent is the last one.
LEMMA SendEffect ==
    ASSUME CommandType, NEW k \in Kinds, CanSend, Send(k)
    PROVE  /\ queue' \in Seq(Commands) /\ Len(queue') = Len(queue) + 1 /\ Len(queue') <= Capacity
           /\ \A n \in 1 .. Len(queue) : queue'[n] = queue[n]
           /\ queue'[Len(queue) + 1] = [kind |-> k, old |-> FALSE]
<1>1. [kind |-> k, old |-> FALSE] \in Commands
  BY DEF Commands
<1>2. Len(queue) \in Nat /\ Len(queue) + 1 <= Capacity
  BY SshAssumption DEF CommandType, CanSend
<1> QED
  BY <1>1, <1>2 DEF CommandType, Send

\* A command that is taken is the first one.
LEMMA TakeEffect ==
    ASSUME CommandType, queue # <<>>, queue' = Tail(queue)
    PROVE  /\ queue' \in Seq(Commands) /\ Len(queue') = Len(queue) - 1 /\ Len(queue') <= Capacity
           /\ Len(queue) \in Nat \ {0} /\ Head(queue) = queue[1] /\ Head(queue) \in Commands
           /\ \A n \in 1 .. Len(queue') : queue'[n] = queue[n + 1]
<1>1. Len(queue) \in Nat \ {0}
  BY DEF CommandType
<1>2. Head(queue) = queue[1] /\ Head(queue) \in Commands
  BY <1>1 DEF CommandType
<1>3. queue' \in Seq(Commands) /\ Len(queue') = Len(queue) - 1
  BY <1>1 DEF CommandType
<1> QED
  BY <1>1, <1>2, <1>3, SshAssumption DEF CommandType

\* A new transport ages the commands and leaves them where they are.
LEMMA AgeEffect ==
    ASSUME CommandType, queue' = [n \in DOMAIN queue |-> [queue[n] EXCEPT !.old = TRUE]]
    PROVE  /\ queue' \in Seq(Commands) /\ Len(queue') = Len(queue)
           /\ \A n \in 1 .. Len(queue) : queue'[n].kind = queue[n].kind
<1>1. DOMAIN queue = 1 .. Len(queue) /\ Len(queue) \in Nat
  BY DEF CommandType
<1>2. \A n \in 1 .. Len(queue) : queue[n] \in Commands
  BY DEF CommandType
<1>3. \A n \in 1 .. Len(queue) : [queue[n] EXCEPT !.old = TRUE] \in Commands
  BY <1>2 DEF Commands
<1>4. queue' \in [1 .. Len(queue) -> Commands]
  BY <1>1, <1>3
<1>5. queue' \in Seq(Commands) /\ Len(queue') = Len(queue)
  BY <1>1, <1>4
<1>6. \A n \in 1 .. Len(queue) : queue'[n].kind = queue[n].kind
  BY <1>1, <1>2 DEF Commands
<1> QED
  BY <1>5, <1>6

\* The types of the queue, in the form the proofs need.
LEMMA Sizes ==
    ASSUME CommandType PROVE Len(queue) \in Nat /\ DOMAIN queue = 1 .. Len(queue)
BY DEF CommandType

\* The command taken from a queue of fresh commands is fresh.
LEMMA OldHead ==
    ASSUME CommandType, LoopType, QueueAge, queue # <<>>, queue' = Tail(queue)
    PROVE  Head(queue).old => skipped
<1> SUFFICES ASSUME ~skipped PROVE ~Head(queue).old
  BY DEF LoopType
<1>1. 1 \in 1 .. Len(queue) /\ Head(queue) = queue[1]
  BY TakeEffect
<1>2. ~queue[1].old
  BY <1>1 DEF QueueAge
<1> QED
  BY <1>1, <1>2

\* A reconnect command stays in the queue when another one is sent, ...
LEMMA RequestStays ==
    ASSUME CommandType, RequestIsPending, NEW k \in Kinds, CanSend, Send(k),
           requested' = requested, wpc' = wpc, gpc \notin {"request", "undo"}
    PROVE  RequestIsPending'
<1>1. queue' \in Seq(Commands) /\ Len(queue') = Len(queue) + 1
  BY SendEffect
<1>2. \A n \in 1 .. Len(queue) : queue'[n] = queue[n]
  BY SendEffect
<1>3. \A n \in DOMAIN queue : n \in DOMAIN queue' /\ queue'[n] = queue[n]
  BY <1>1, <1>2, Sizes
<1> QED
  BY <1>3 DEF RequestIsPending

\* ... and when another one is taken.
LEMMA RequestMoves ==
    ASSUME CommandType, RequestIsPending, queue # <<>>, queue' = Tail(queue),
           Head(queue).kind # "Reconnect", requested' = requested, gpc' = gpc,
           wpc \notin {"restop", "mark", "clear", "done", "end"}
    PROVE  RequestIsPending'
<1> SUFFICES ASSUME requested, gpc \notin {"request", "undo"}
             PROVE  \E n \in DOMAIN queue' : queue'[n].kind = "Reconnect"
  BY DEF RequestIsPending
<1>1. PICK n \in 1 .. Len(queue) : queue[n].kind = "Reconnect"
  BY Sizes DEF RequestIsPending
<1>2. n # 1 /\ Len(queue) \in Nat
  BY <1>1, TakeEffect
<1>3. n - 1 \in 1 .. Len(queue')
  BY <1>1, <1>2, TakeEffect
<1>4. queue'[n - 1] = queue[n]
  BY <1>1, <1>2, <1>3, TakeEffect
<1>5. n - 1 \in DOMAIN queue'
  BY <1>3, TakeEffect
<1> QED
  BY <1>1, <1>4, <1>5

-----------------------------------------------------------------------------
(* One step keeps the types. *)

\* A step keeps the lifecycle, the epoch and the reservation in their types.
LEMMA EpochStep == EpochType /\ FlagType /\ [Next]_vars => EpochType'
<1> SUFFICES ASSUME EpochType, FlagType, [Next]_vars PROVE EpochType'
  OBVIOUS
<1> USE FalseIsBoolean DEF EpochType, FlagType, Lifecycles, Slots
<1>1. ASSUME Reserve PROVE EpochType'
  BY <1>1 DEF Reserve, GuiGoto, NoReservation, GuiOnly
<1>2. ASSUME SendReserved PROVE EpochType'
  BY <1>2 DEF SendReserved, GuiGoto, CanSend, Send, NoReservation, GuiOnly
<1>3. ASSUME NEW to \in {"ready", "void"}, Resolve(to) PROVE EpochType'
  BY <1>3 DEF Resolve, GuiOnly
<1>4. ASSUME RequestShutdown PROVE EpochType'
  BY <1>4 DEF RequestShutdown, GuiGoto, Invalidate, GuiOnly, Transition
<1>5. ASSUME Poll PROVE EpochType'
  BY <1>5 DEF Poll, PreRunning, NoticeShutdown, WorkerOnly, RejectPending, SetLifecycle, StopAt,
     NoHand, Transition
<1>6. ASSUME DiscardPending PROVE EpochType'
  BY <1>6 DEF DiscardPending, NoReservation, WorkerOnly
<1>7. ASSUME TakeReady PROVE EpochType'
  BY <1>7 DEF TakeReady, NoReservation, WorkerOnly
<1>8. ASSUME ReceiveReconnectRunning PROVE EpochType'
  BY <1>8 DEF ReceiveReconnectRunning, Receive, Invalidate, WorkerOnly, Transition
<1>9. ASSUME ReceiveShutdown PROVE EpochType'
  BY <1>9 DEF ReceiveShutdown, Receive, NoticeShutdown, WorkerOnly, RejectPending, SetLifecycle,
     StopAt, NoHand, Transition
<1>10. ASSUME BeginTransport PROVE EpochType'
  BY <1>10 DEF BeginTransport, Goto
<1>11. ASSUME Announce PROVE EpochType'
  BY <1>11 DEF Announce, Announces, Goto, SetLifecycle, Transition
<1>12. ASSUME WriteIsCut PROVE EpochType'
  BY <1>12 DEF WriteIsCut, NoticeShutdown, WorkerOnly, RejectPending, SetLifecycle, StopAt,
     NoHand, Transition
<1>13. ASSUME Exited PROVE EpochType'
  BY <1>13 DEF Exited, Announces, Goto, SetLifecycle, Transition
<1>14. ASSUME Disconnect PROVE EpochType'
  BY <1>14 DEF Disconnect, Goto, CanSchedule, Exhaust, SetLifecycle, Transition
<1>15. ASSUME GiveUp PROVE EpochType'
  BY <1>15 DEF GiveUp, Goto, CanSchedule, Exhaust, SetLifecycle, Transition
<1>16. ASSUME StopForReconnect PROVE EpochType'
  BY <1>16 DEF StopForReconnect, Announces, Goto, SetLifecycle, Transition
<1>17. ASSUME Restart PROVE EpochType'
  BY <1>17 DEF Restart, Announces, Goto, SetLifecycle, Transition
<1>18. ASSUME Stop PROVE EpochType'
  BY <1>18 DEF Stop, Goto, SetLifecycle, Transition
<1>19. ASSUME Return PROVE EpochType'
  BY <1>19 DEF Return, NoReservation, Exchanges
<1>20. ASSUME FailsForGood PROVE EpochType'
  BY <1>20 DEF FailsForGood, Goto, SetLifecycle, Transition
<1>21. ASSUME PromptEnds PROVE EpochType'
  BY <1>21 DEF PromptEnds, Announces, Goto, SetLifecycle, Transition
<1>22. ASSUME WriteFails PROVE EpochType'
  BY <1>22 DEF WriteFails, Goto, SetLifecycle, NoHand, Transition
<1>23. ASSUME ChannelEnds PROVE EpochType'
  BY <1>23 DEF ChannelEnds, Goto, Invalidate, Transition
<1>24. ASSUME UNCHANGED <<lifecycle, attached, res>> PROVE EpochType'
  BY <1>24
<1>25. CASE Application
  BY <1>1, <1>2, <1>3, <1>4, <1>24, <1>25 DEF Application, Type, GuiGoto, GuiOnly, SendTyped,
     CanSend, Send, AskReconnect, RequestReconnect, SendReconnect, ClearReconnectRequest,
     TryShutdown, RejectPending, SendShutdown
<1>26. CASE KeyExchange
  BY <1>24, <1>26 DEF KeyExchange, Answer, KeysOnly, KeyIsExpected, Awaits, Records, Ends,
     PreRunning, ReviewBegins, ReviewRefused, ExchangeFails, ReviewEnds
<1>27. CASE TryRecv
  BY <1>5, <1>6, <1>7, <1>8, <1>9, <1>24, <1>27 DEF TryRecv, PollEnds, Blocked, NoCommand,
     TakeAutomation, WorkerOnly, ReceiveInput, Receive, PreRunning, ReceiveReconnectEarly,
     ReceiveReconnectManual
<1>28. CASE BeginTransport \/ Connected \/ ConnectFails \/ Established \/ Announce \/ WriteIsCut
   \/ Tick \/ Exited \/ Schedule \/ RetryManually \/ Disconnect \/ GiveUp \/ StopForReconnect \/
   MarkReconnecting \/ ClearRequest \/ Restart \/ Stop \/ Return
  BY <1>10, <1>11, <1>12, <1>13, <1>14, <1>15, <1>16, <1>17, <1>18, <1>19, <1>24, <1>28 DEF
     Connected, Moves, Goto, ConnectFails, Established, Tick, Schedule, CanSchedule,
     RetryManually, Exhaust, MarkReconnecting, ClearRequest
<1>29. CASE Network
  BY <1>20, <1>21, <1>22, <1>23, <1>24, <1>29 DEF Network, ConnectTimesOut, Goto, Exchanges,
     SetupSucceeds, Moves, WriteSucceeds, NoHand, DelayElapses
<1>30. CASE UNCHANGED vars
  BY <1>24, <1>30 DEF vars
<1> QED
  BY <1>25, <1>26, <1>27, <1>28, <1>29, <1>30 DEF Next, Worker

\* A step keeps the flags in their types.
LEMMA FlagStep == FlagType /\ [Next]_vars => FlagType'
<1> SUFFICES ASSUME FlagType, [Next]_vars PROVE FlagType'
  OBVIOUS
<1> USE FalseIsBoolean DEF FlagType
<1>1. ASSUME Type PROVE FlagType'
  BY <1>1 DEF Type, GuiGoto, GuiOnly
<1>2. ASSUME SendTyped PROVE FlagType'
  BY <1>2 DEF SendTyped, GuiGoto, GuiOnly
<1>3. ASSUME Reserve PROVE FlagType'
  BY <1>3 DEF Reserve, GuiGoto, NoReservation, GuiOnly
<1>4. ASSUME SendReserved PROVE FlagType'
  BY <1>4 DEF SendReserved, GuiGoto, NoReservation, GuiOnly
<1>5. ASSUME AskReconnect PROVE FlagType'
  BY <1>5 DEF AskReconnect, GuiGoto, GuiOnly
<1>6. ASSUME RequestReconnect PROVE FlagType'
  BY <1>6 DEF RequestReconnect, GuiGoto, GuiOnly
<1>7. ASSUME SendReconnect PROVE FlagType'
  BY <1>7 DEF SendReconnect, GuiGoto, GuiOnly
<1>8. ASSUME ClearReconnectRequest PROVE FlagType'
  BY <1>8 DEF ClearReconnectRequest, GuiGoto, GuiOnly
<1>9. ASSUME TryShutdown PROVE FlagType'
  BY <1>9 DEF TryShutdown, GuiGoto
<1>10. ASSUME RequestShutdown PROVE FlagType'
  BY <1>10 DEF RequestShutdown, GuiGoto, GuiOnly
<1>11. ASSUME SendShutdown PROVE FlagType'
  BY <1>11 DEF SendShutdown, GuiGoto, GuiOnly
<1>12. ASSUME ReceiveReconnectEarly PROVE FlagType'
  BY <1>12 DEF ReceiveReconnectEarly, PreRunning, Receive, WorkerOnly
<1>13. ASSUME ReceiveReconnectManual PROVE FlagType'
  BY <1>13 DEF ReceiveReconnectManual, Receive, WorkerOnly
<1>14. ASSUME Established PROVE FlagType'
  BY <1>14 DEF Established, Goto
<1>15. ASSUME MarkReconnecting PROVE FlagType'
  BY <1>15 DEF MarkReconnecting, Goto
<1>16. ASSUME ClearRequest PROVE FlagType'
  BY <1>16 DEF ClearRequest, Goto
<1>17. ASSUME Stop PROVE FlagType'
  BY <1>17 DEF Stop, Goto
<1>18. ASSUME UNCHANGED <<reconnecting, requested, shutdown, gpc>> PROVE FlagType'
  BY <1>18
<1>19. CASE Application
  BY <1>1, <1>2, <1>3, <1>4, <1>5, <1>6, <1>7, <1>8, <1>9, <1>10, <1>11, <1>18, <1>19 DEF
     Application, Resolve, GuiOnly
<1>20. CASE KeyExchange
  BY <1>18, <1>20 DEF KeyExchange, Answer, KeysOnly, KeyIsExpected, Awaits, Records, Ends,
     PreRunning, ReviewBegins, ReviewRefused, ExchangeFails, ReviewEnds
<1>21. CASE TryRecv
  BY <1>12, <1>13, <1>18, <1>21 DEF TryRecv, Poll, PreRunning, NoticeShutdown, WorkerOnly,
     StopAt, NoHand, PollEnds, Blocked, NoCommand, DiscardPending, NoReservation,
     TakeAutomation, TakeReady, ReceiveInput, Receive, ReceiveReconnectRunning, ReceiveShutdown
<1>22. CASE BeginTransport \/ Connected \/ ConnectFails \/ Established \/ Announce \/ WriteIsCut
   \/ Tick \/ Exited \/ Schedule \/ RetryManually \/ Disconnect \/ GiveUp \/ StopForReconnect \/
   MarkReconnecting \/ ClearRequest \/ Restart \/ Stop \/ Return
  BY <1>14, <1>15, <1>16, <1>17, <1>18, <1>22 DEF BeginTransport, Goto, Connected, Moves,
     ConnectFails, Announce, Announces, WriteIsCut, NoticeShutdown, WorkerOnly, StopAt, NoHand,
     Tick, Exited, Schedule, CanSchedule, RetryManually, Exhaust, Disconnect, GiveUp,
     StopForReconnect, Restart, Return, NoReservation, Exchanges
<1>23. CASE Network
  BY <1>18, <1>23 DEF Network, FailsForGood, Goto, ConnectTimesOut, Exchanges, PromptEnds,
     Announces, SetupSucceeds, Moves, WriteSucceeds, NoHand, WriteFails, ChannelEnds,
     DelayElapses
<1>24. CASE UNCHANGED vars
  BY <1>18, <1>24 DEF vars
<1> QED
  BY <1>19, <1>20, <1>21, <1>22, <1>23, <1>24 DEF Next, Worker

\* A step keeps the key exchanges in their types.
LEMMA KeyStep == KeyType /\ [Next]_vars => KeyType'
<1> SUFFICES ASSUME KeyType, [Next]_vars PROVE KeyType'
  OBVIOUS
<1> USE FalseIsBoolean DEF KeyType, Exchanges
<1>1. ASSUME TryShutdown PROVE KeyType'
  BY <1>1 DEF TryShutdown, GuiGoto, RejectPending
<1>2. ASSUME Answer PROVE KeyType'
  BY <1>2 DEF Answer, KeysOnly
<1>3. ASSUME NEW h \in Exchanges, KeyIsExpected(h) PROVE KeyType'
  BY <1>3 DEF KeyIsExpected, Awaits, Records, Ends, KeysOnly, PreRunning
<1>4. ASSUME NEW h \in Exchanges, ReviewBegins(h) PROVE KeyType'
  BY <1>4 DEF ReviewBegins, Awaits, KeysOnly, PreRunning
<1>5. ASSUME NEW h \in Exchanges, ReviewRefused(h) PROVE KeyType'
  BY <1>5 DEF ReviewRefused, Awaits, Ends, KeysOnly, PreRunning
<1>6. ASSUME NEW h \in Exchanges, ExchangeFails(h) PROVE KeyType'
  BY <1>6 DEF ExchangeFails, Awaits, Ends, KeysOnly, PreRunning
<1>7. ASSUME NEW h \in Exchanges, ReviewEnds(h) PROVE KeyType'
  BY <1>7 DEF ReviewEnds, Awaits, Records, Ends, KeysOnly, PreRunning
<1>8. ASSUME Poll PROVE KeyType'
  BY <1>8 DEF Poll, PreRunning, NoticeShutdown, WorkerOnly, RejectPending, StopAt, NoHand
<1>9. ASSUME PollEnds PROVE KeyType'
  BY <1>9 DEF PollEnds
<1>10. ASSUME ReceiveShutdown PROVE KeyType'
  BY <1>10 DEF ReceiveShutdown, Receive, NoticeShutdown, WorkerOnly, RejectPending, StopAt,
     NoHand
<1>11. ASSUME BeginTransport PROVE KeyType'
  BY <1>11 DEF BeginTransport, Goto
<1>12. ASSUME WriteIsCut PROVE KeyType'
  BY <1>12 DEF WriteIsCut, NoticeShutdown, WorkerOnly, RejectPending, StopAt, NoHand
<1>13. ASSUME Return PROVE KeyType'
  BY <1>13 DEF Return, NoReservation, Exchanges
<1>14. ASSUME ConnectTimesOut PROVE KeyType'
  BY <1>14 DEF ConnectTimesOut, Goto, Exchanges
<1>15. ASSUME UNCHANGED <<verified, gate, shake, outcome, overlapped>> PROVE KeyType'
  BY <1>15
<1>16. CASE Application
  BY <1>1, <1>15, <1>16 DEF Application, Type, GuiGoto, GuiOnly, SendTyped, CanSend, Send,
     Reserve, NoReservation, SendReserved, Resolve, AskReconnect, RequestReconnect,
     SendReconnect, ClearReconnectRequest, RequestShutdown, Invalidate, Transition, SendShutdown
<1>17. CASE KeyExchange
  BY <1>2, <1>3, <1>4, <1>5, <1>6, <1>7, <1>17 DEF KeyExchange
<1>18. CASE TryRecv
  BY <1>8, <1>9, <1>10, <1>15, <1>18 DEF TryRecv, DiscardPending, NoReservation, WorkerOnly,
     TakeAutomation, TakeReady, ReceiveInput, Receive, PreRunning, ReceiveReconnectEarly,
     ReceiveReconnectManual, ReceiveReconnectRunning, Invalidate, Transition
<1>19. CASE BeginTransport \/ Connected \/ ConnectFails \/ Established \/ Announce \/ WriteIsCut
   \/ Tick \/ Exited \/ Schedule \/ RetryManually \/ Disconnect \/ GiveUp \/ StopForReconnect \/
   MarkReconnecting \/ ClearRequest \/ Restart \/ Stop \/ Return
  BY <1>11, <1>12, <1>13, <1>15, <1>19 DEF Connected, Moves, Goto, ConnectFails, Established,
     Announce, Announces, Tick, Exited, Schedule, CanSchedule, RetryManually, Exhaust,
     Disconnect, GiveUp, StopForReconnect, MarkReconnecting, ClearRequest, Restart, Stop
<1>20. CASE Network
  BY <1>14, <1>15, <1>20 DEF Network, FailsForGood, Goto, PromptEnds, Announces, SetupSucceeds,
     Moves, WriteSucceeds, NoHand, WriteFails, ChannelEnds, Invalidate, Transition, DelayElapses
<1>21. CASE UNCHANGED vars
  BY <1>15, <1>21 DEF vars
<1> QED
  BY <1>16, <1>17, <1>18, <1>19, <1>20, <1>21 DEF Next, Worker

\* A step keeps the counters in their types; the planner never counts past its
\* bound.
LEMMA PlanStep == PlanType /\ PlannerInv /\ [Next]_vars => PlanType'
<1> SUFFICES ASSUME PlanType, PlannerInv, [Next]_vars PROVE PlanType'
  OBVIOUS
<1> USE SshAssumption DEF PlanType, PlannerStates, PlannerInv
<1>1. ASSUME ReceiveReconnectManual PROVE PlanType'
  BY <1>1 DEF ReceiveReconnectManual
<1>2. ASSUME ReceiveReconnectRunning PROVE PlanType'
  BY <1>2 DEF ReceiveReconnectRunning
<1>3. ASSUME BeginTransport PROVE PlanType'
  BY <1>3 DEF BeginTransport, Goto
<1>4. ASSUME Established PROVE PlanType'
  BY <1>4 DEF Established, Goto
<1>5. ASSUME Schedule PROVE PlanType'
  BY <1>5 DEF Schedule, Goto, CanSchedule
<1>6. ASSUME RetryManually PROVE PlanType'
  BY <1>6 DEF RetryManually, Goto, CanSchedule, Exhaust
<1>7. ASSUME Disconnect PROVE PlanType'
  BY <1>7 DEF Disconnect, Goto, CanSchedule, Exhaust
<1>8. ASSUME GiveUp PROVE PlanType'
  BY <1>8 DEF GiveUp, Goto, CanSchedule, Exhaust
<1>9. ASSUME Stop PROVE PlanType'
  BY <1>9 DEF Stop, Goto
<1>10. ASSUME DelayElapses PROVE PlanType'
  BY <1>10 DEF DelayElapses, Goto
<1>11. ASSUME UNCHANGED <<planner, manual, tries>> PROVE PlanType'
  BY <1>11
<1>12. CASE Application
  BY <1>11, <1>12 DEF Application, Type, GuiGoto, GuiOnly, SendTyped, CanSend, Send, Reserve,
     NoReservation, SendReserved, Resolve, AskReconnect, RequestReconnect, SendReconnect,
     ClearReconnectRequest, TryShutdown, RejectPending, RequestShutdown, SendShutdown
<1>13. CASE KeyExchange
  BY <1>11, <1>13 DEF KeyExchange, Answer, KeysOnly, KeyIsExpected, Awaits, Records, Ends,
     PreRunning, ReviewBegins, ReviewRefused, ExchangeFails, ReviewEnds
<1>14. CASE TryRecv
  BY <1>1, <1>2, <1>11, <1>14 DEF TryRecv, Poll, PreRunning, NoticeShutdown, WorkerOnly,
     RejectPending, StopAt, NoHand, PollEnds, Blocked, NoCommand, DiscardPending, NoReservation,
     TakeAutomation, TakeReady, ReceiveInput, ReceiveReconnectEarly, ReceiveShutdown
<1>15. CASE BeginTransport \/ Connected \/ ConnectFails \/ Established \/ Announce \/ WriteIsCut
   \/ Tick \/ Exited \/ Schedule \/ RetryManually \/ Disconnect \/ GiveUp \/ StopForReconnect \/
   MarkReconnecting \/ ClearRequest \/ Restart \/ Stop \/ Return
  BY <1>3, <1>4, <1>5, <1>6, <1>7, <1>8, <1>9, <1>11, <1>15 DEF Connected, Moves, Goto,
     ConnectFails, Announce, Announces, WriteIsCut, NoticeShutdown, WorkerOnly, RejectPending,
     StopAt, NoHand, Tick, Exited, StopForReconnect, MarkReconnecting, ClearRequest, Restart,
     Return, NoReservation, Exchanges
<1>16. CASE Network
  BY <1>10, <1>11, <1>16 DEF Network, FailsForGood, Goto, ConnectTimesOut, Exchanges,
     PromptEnds, Announces, SetupSucceeds, Moves, WriteSucceeds, NoHand, WriteFails, ChannelEnds
<1>17. CASE UNCHANGED vars
  BY <1>11, <1>17 DEF vars
<1> QED
  BY <1>12, <1>13, <1>14, <1>15, <1>16, <1>17 DEF Next, Worker

\* A step keeps the commands in their types and within the queue's capacity.
LEMMA CommandStep == CommandType /\ [Next]_vars => CommandType'
<1> SUFFICES ASSUME CommandType, [Next]_vars PROVE CommandType'
  OBVIOUS
<1>1. ASSUME SendTyped PROVE CommandType'
  <2>1. pend' = pend
    BY <1>1 DEF SendTyped
  <2>2. CASE CanSend
    <3>1. Send("Input")
      BY <1>1, <2>2, Zenon DEF SendTyped
    <3> QED
      BY <2>1, <2>2, <3>1, SendEffect DEF CommandType, Kinds
  <2>3. CASE ~CanSend
    BY <1>1, <2>1, <2>3 DEF SendTyped, CommandType
  <2> QED
    BY <2>2, <2>3
<1>2. ASSUME SendReserved PROVE CommandType'
  <2>1. pend' = pend
    BY <1>2 DEF SendReserved
  <2>2. CASE CanSend /\ Send("AutomationInput")
    BY <2>1, <2>2, SendEffect DEF CommandType, Kinds
  <2>3. CASE queue' = queue
    BY <2>1, <2>3 DEF CommandType
  <2> QED
    BY <1>2, <2>2, <2>3, Zenon DEF SendReserved
<1>3. ASSUME SendReconnect PROVE CommandType'
  <2>1. pend' = pend
    BY <1>3 DEF SendReconnect
  <2>2. CASE CanSend
    <3>1. Send("Reconnect")
      BY <1>3, <2>2, Zenon DEF SendReconnect
    <3> QED
      BY <2>1, <2>2, <3>1, SendEffect DEF CommandType, Kinds
  <2>3. CASE ~CanSend
    BY <1>3, <2>1, <2>3 DEF SendReconnect, CommandType
  <2> QED
    BY <2>2, <2>3
<1>4. ASSUME SendShutdown PROVE CommandType'
  <2>1. pend' = pend
    BY <1>4 DEF SendShutdown
  <2>2. CASE CanSend
    <3>1. Send("Shutdown")
      BY <1>4, <2>2, Zenon DEF SendShutdown
    <3> QED
      BY <2>1, <2>2, <3>1, SendEffect DEF CommandType, Kinds
  <2>3. CASE ~CanSend
    BY <1>4, <2>1, <2>3 DEF SendShutdown, CommandType
  <2> QED
    BY <2>2, <2>3
<1>5. ASSUME DiscardPending PROVE CommandType'
  BY <1>5, FalseIsBoolean DEF DiscardPending, CommandType
<1>6. ASSUME TakeAutomation PROVE CommandType'
  BY <1>6, TakeEffect DEF TakeAutomation, CommandType
<1>7. ASSUME TakeReady PROVE CommandType'
  BY <1>7, FalseIsBoolean DEF TakeReady, CommandType
<1>8. ASSUME ReceiveInput PROVE CommandType'
  BY <1>8, TakeEffect DEF ReceiveInput, Receive, CommandType
<1>9. ASSUME ReceiveReconnectEarly PROVE CommandType'
  BY <1>9, TakeEffect DEF ReceiveReconnectEarly, Receive, CommandType
<1>10. ASSUME ReceiveReconnectManual PROVE CommandType'
  BY <1>10, TakeEffect DEF ReceiveReconnectManual, Receive, CommandType
<1>11. ASSUME ReceiveReconnectRunning PROVE CommandType'
  BY <1>11, TakeEffect DEF ReceiveReconnectRunning, Receive, CommandType
<1>12. ASSUME ReceiveShutdown PROVE CommandType'
  BY <1>12, TakeEffect DEF ReceiveShutdown, Receive, CommandType
<1>13. ASSUME BeginTransport PROVE CommandType'
  BY <1>13, AgeEffect DEF BeginTransport, CommandType
<1>14. ASSUME Return PROVE CommandType'
  BY <1>14, SshAssumption, FalseIsBoolean DEF Return, CommandType
<1>15. ASSUME UNCHANGED <<queue, pend>> PROVE CommandType'
  BY <1>15 DEF CommandType
<1>16. CASE Application
  BY <1>1, <1>2, <1>3, <1>4, <1>15, <1>16 DEF Application, Type, GuiGoto, GuiOnly, Reserve,
     NoReservation, Resolve, AskReconnect, RequestReconnect, ClearReconnectRequest, TryShutdown,
     RejectPending, RequestShutdown, Invalidate, Transition
<1>17. CASE KeyExchange
  BY <1>15, <1>17 DEF KeyExchange, Answer, KeysOnly, KeyIsExpected, Awaits, Records, Ends,
     PreRunning, ReviewBegins, ReviewRefused, ExchangeFails, ReviewEnds
<1>18. CASE TryRecv
  BY <1>5, <1>6, <1>7, <1>8, <1>9, <1>10, <1>11, <1>12, <1>15, <1>18 DEF TryRecv, Poll,
     PreRunning, NoticeShutdown, WorkerOnly, RejectPending, SetLifecycle, StopAt, NoHand,
     Transition, PollEnds, Blocked, NoCommand
<1>19. CASE BeginTransport \/ Connected \/ ConnectFails \/ Established \/ Announce \/ WriteIsCut
   \/ Tick \/ Exited \/ Schedule \/ RetryManually \/ Disconnect \/ GiveUp \/ StopForReconnect \/
   MarkReconnecting \/ ClearRequest \/ Restart \/ Stop \/ Return
  BY <1>13, <1>14, <1>15, <1>19 DEF Connected, Moves, Goto, ConnectFails, Established, Announce,
     Announces, SetLifecycle, Transition, WriteIsCut, NoticeShutdown, WorkerOnly, RejectPending,
     StopAt, NoHand, Tick, Exited, Schedule, CanSchedule, RetryManually, Exhaust, Disconnect,
     GiveUp, StopForReconnect, MarkReconnecting, ClearRequest, Restart, Stop
<1>20. CASE Network
  BY <1>15, <1>20 DEF Network, FailsForGood, Goto, SetLifecycle, Transition, ConnectTimesOut,
     Exchanges, PromptEnds, Announces, SetupSucceeds, Moves, WriteSucceeds, NoHand, WriteFails,
     ChannelEnds, Invalidate, DelayElapses
<1>21. CASE UNCHANGED vars
  BY <1>15, <1>21 DEF vars
<1> QED
  BY <1>16, <1>17, <1>18, <1>19, <1>20, <1>21 DEF Next, Worker

\* A step keeps the worker's own variables in their types.
LEMMA LoopStep == LoopType /\ CommandType /\ EpochType /\ KeyType /\ [Next]_vars => LoopType'
<1> SUFFICES ASSUME LoopType, CommandType, EpochType, KeyType, [Next]_vars PROVE LoopType'
  OBVIOUS
<1> USE FalseIsBoolean DEF LoopType, PreRunning
<1>1. ASSUME Poll PROVE LoopType'
  <2>1. held' \in BOOLEAN
    BY <1>1 DEF Poll
  <2>2. CASE shutdown
    BY <1>1, <2>1, <2>2 DEF Poll, PreRunning, NoticeShutdown, StopAt, NoHand
  <2>3. CASE ~shutdown
    BY <1>1, <2>1, <2>3 DEF Poll, PreRunning
  <2> QED
    BY <2>2, <2>3
<1>2. ASSUME PollEnds PROVE LoopType'
  BY <1>2 DEF PollEnds, Blocked, NoCommand
<1>3. ASSUME TakeReady PROVE LoopType'
  <2>1. res.old \in BOOLEAN
    BY DEF EpochType
  <2> QED
    BY <1>3, <2>1 DEF TakeReady
<1>4. ASSUME ReceiveInput PROVE LoopType'
  <2>1. Head(queue).kind = "Input" /\ (hand' = hand \/ hand' = Head(queue))
    BY <1>4, Zenon DEF ReceiveInput, Receive
  <2>2. Head(queue) \in Commands
    BY <1>4, TakeEffect DEF ReceiveInput, Receive
  <2>3. hand' \in [kind : {"none", "Input", "AutomationInput"}, old : BOOLEAN]
    BY <2>1, <2>2 DEF Commands
  <2> QED
    BY <1>4, <2>3 DEF ReceiveInput, Receive
<1>5. ASSUME ReceiveReconnectManual PROVE LoopType'
  BY <1>5 DEF ReceiveReconnectManual, Receive, WorkerOnly
<1>6. ASSUME ReceiveReconnectRunning PROVE LoopType'
  BY <1>6 DEF ReceiveReconnectRunning, Receive, WorkerOnly
<1>7. ASSUME ReceiveShutdown PROVE LoopType'
  BY <1>7 DEF ReceiveShutdown, Receive, NoticeShutdown, WorkerOnly, StopAt, NoHand
<1>8. ASSUME BeginTransport PROVE LoopType'
  BY <1>8 DEF BeginTransport, Goto
<1>9. ASSUME Connected PROVE LoopType'
  BY <1>9 DEF Connected, Moves, Goto
<1>10. ASSUME ConnectFails PROVE LoopType'
  BY <1>10 DEF ConnectFails, Moves, Goto
<1>11. ASSUME Established PROVE LoopType'
  BY <1>11 DEF Established, Goto
<1>12. ASSUME Announce PROVE LoopType'
  BY <1>12 DEF Announce, Announces, Goto
<1>13. ASSUME WriteIsCut PROVE LoopType'
  BY <1>13 DEF WriteIsCut, NoticeShutdown, WorkerOnly, StopAt, NoHand
<1>14. ASSUME Tick PROVE LoopType'
  BY <1>14 DEF Tick, Moves, Goto
<1>15. ASSUME Exited PROVE LoopType'
  BY <1>15 DEF Exited, Announces, Goto
<1>16. ASSUME Schedule PROVE LoopType'
  BY <1>16 DEF Schedule, Goto
<1>17. ASSUME RetryManually PROVE LoopType'
  BY <1>17 DEF RetryManually, Goto
<1>18. ASSUME Disconnect PROVE LoopType'
  BY <1>18 DEF Disconnect, Goto
<1>19. ASSUME GiveUp PROVE LoopType'
  BY <1>19 DEF GiveUp, Goto
<1>20. ASSUME StopForReconnect PROVE LoopType'
  BY <1>20 DEF StopForReconnect, Announces, Goto
<1>21. ASSUME MarkReconnecting PROVE LoopType'
  BY <1>21 DEF MarkReconnecting, Goto
<1>22. ASSUME ClearRequest PROVE LoopType'
  BY <1>22 DEF ClearRequest, Goto
<1>23. ASSUME Restart PROVE LoopType'
  BY <1>23 DEF Restart, Announces, Goto
<1>24. ASSUME Stop PROVE LoopType'
  BY <1>24 DEF Stop, Goto
<1>25. ASSUME Return PROVE LoopType'
  BY <1>25 DEF Return, NoReservation, Exchanges
<1>26. ASSUME FailsForGood PROVE LoopType'
  BY <1>26 DEF FailsForGood, Goto
<1>27. ASSUME ConnectTimesOut PROVE LoopType'
  BY <1>27 DEF ConnectTimesOut, Goto, Exchanges
<1>28. ASSUME PromptEnds PROVE LoopType'
  BY <1>28 DEF PromptEnds, Announces, Goto
<1>29. ASSUME SetupSucceeds PROVE LoopType'
  BY <1>29 DEF SetupSucceeds, Moves, Goto
<1>30. ASSUME WriteSucceeds PROVE LoopType'
  BY <1>30 DEF WriteSucceeds, Goto, NoHand
<1>31. ASSUME WriteFails PROVE LoopType'
  BY <1>31 DEF WriteFails, Goto, NoHand
<1>32. ASSUME ChannelEnds PROVE LoopType'
  BY <1>32 DEF ChannelEnds, Goto
<1>33. ASSUME DelayElapses PROVE LoopType'
  BY <1>33 DEF DelayElapses, Goto
<1>34. ASSUME UNCHANGED <<wpc, polls, held, hand, skipped>> PROVE LoopType'
  BY <1>34
<1>35. CASE Application
  BY <1>34, <1>35 DEF Application, Type, GuiGoto, GuiOnly, SendTyped, CanSend, Send, Reserve,
     NoReservation, SendReserved, Resolve, AskReconnect, RequestReconnect, SendReconnect,
     ClearReconnectRequest, TryShutdown, RequestShutdown, SendShutdown
<1>36. CASE KeyExchange
  BY <1>34, <1>36 DEF KeyExchange, Answer, KeysOnly, KeyIsExpected, Awaits, Records, Ends,
     PreRunning, ReviewBegins, ReviewRefused, ExchangeFails, ReviewEnds
<1>37. CASE TryRecv
  BY <1>1, <1>2, <1>3, <1>4, <1>5, <1>6, <1>7, <1>34, <1>37 DEF TryRecv, DiscardPending,
     NoReservation, WorkerOnly, TakeAutomation, ReceiveReconnectEarly, PreRunning, Receive
<1>38. CASE BeginTransport \/ Connected \/ ConnectFails \/ Established \/ Announce \/ WriteIsCut
   \/ Tick \/ Exited \/ Schedule \/ RetryManually \/ Disconnect \/ GiveUp \/ StopForReconnect \/
   MarkReconnecting \/ ClearRequest \/ Restart \/ Stop \/ Return
  BY <1>8, <1>9, <1>10, <1>11, <1>12, <1>13, <1>14, <1>15, <1>16, <1>17, <1>18, <1>19, <1>20,
     <1>21, <1>22, <1>23, <1>24, <1>25, <1>38
<1>39. CASE Network
  BY <1>26, <1>27, <1>28, <1>29, <1>30, <1>31, <1>32, <1>33, <1>39 DEF Network
<1>40. CASE UNCHANGED vars
  BY <1>34, <1>40 DEF vars
<1> QED
  BY <1>35, <1>36, <1>37, <1>38, <1>39, <1>40 DEF Next, Worker

-----------------------------------------------------------------------------
(* One step keeps the rest. *)

\* A step leaves the worker inside try_recv only at a place that polls.
LEMMA PollsStep == LoopType /\ PollsInv /\ [Next]_vars => PollsInv'
<1> SUFFICES ASSUME LoopType, PollsInv, [Next]_vars PROVE PollsInv'
  OBVIOUS
<1> USE DEF LoopType, PollsInv, PreRunning
<1>1. ASSUME Poll PROVE PollsInv'
  BY <1>1 DEF Poll, PreRunning, NoticeShutdown, WorkerOnly, StopAt, NoHand
<1>2. ASSUME PollEnds PROVE PollsInv'
  BY <1>2 DEF PollEnds, Blocked, NoCommand
<1>3. ASSUME TakeReady PROVE PollsInv'
  BY <1>3 DEF TakeReady, NoReservation, WorkerOnly
<1>4. ASSUME ReceiveInput PROVE PollsInv'
  BY <1>4 DEF ReceiveInput, Receive, PreRunning, WorkerOnly
<1>5. ASSUME ReceiveReconnectManual PROVE PollsInv'
  BY <1>5 DEF ReceiveReconnectManual, Receive, WorkerOnly
<1>6. ASSUME ReceiveReconnectRunning PROVE PollsInv'
  BY <1>6 DEF ReceiveReconnectRunning, Receive, WorkerOnly
<1>7. ASSUME ReceiveShutdown PROVE PollsInv'
  BY <1>7 DEF ReceiveShutdown, Receive, NoticeShutdown, WorkerOnly, StopAt, NoHand
<1>8. ASSUME BeginTransport PROVE PollsInv'
  BY <1>8 DEF BeginTransport, Goto
<1>9. ASSUME Connected PROVE PollsInv'
  BY <1>9 DEF Connected, Moves, Goto
<1>10. ASSUME ConnectFails PROVE PollsInv'
  BY <1>10 DEF ConnectFails, Moves, Goto
<1>11. ASSUME Established PROVE PollsInv'
  BY <1>11 DEF Established, Goto
<1>12. ASSUME Announce PROVE PollsInv'
  BY <1>12 DEF Announce, Announces, Goto
<1>13. ASSUME WriteIsCut PROVE PollsInv'
  BY <1>13 DEF WriteIsCut, NoticeShutdown, WorkerOnly, StopAt, NoHand
<1>14. ASSUME Tick PROVE PollsInv'
  BY <1>14 DEF Tick, Moves, Goto
<1>15. ASSUME Exited PROVE PollsInv'
  BY <1>15 DEF Exited, Announces, Goto
<1>16. ASSUME Schedule PROVE PollsInv'
  BY <1>16 DEF Schedule, Goto
<1>17. ASSUME RetryManually PROVE PollsInv'
  BY <1>17 DEF RetryManually, Goto
<1>18. ASSUME Disconnect PROVE PollsInv'
  BY <1>18 DEF Disconnect, Goto
<1>19. ASSUME GiveUp PROVE PollsInv'
  BY <1>19 DEF GiveUp, Goto
<1>20. ASSUME StopForReconnect PROVE PollsInv'
  BY <1>20 DEF StopForReconnect, Announces, Goto
<1>21. ASSUME MarkReconnecting PROVE PollsInv'
  BY <1>21 DEF MarkReconnecting, Goto
<1>22. ASSUME ClearRequest PROVE PollsInv'
  BY <1>22 DEF ClearRequest, Goto
<1>23. ASSUME Restart PROVE PollsInv'
  BY <1>23 DEF Restart, Announces, Goto
<1>24. ASSUME Stop PROVE PollsInv'
  BY <1>24 DEF Stop, Goto
<1>25. ASSUME Return PROVE PollsInv'
  BY <1>25 DEF Return, NoReservation, Exchanges
<1>26. ASSUME FailsForGood PROVE PollsInv'
  BY <1>26 DEF FailsForGood, Goto
<1>27. ASSUME ConnectTimesOut PROVE PollsInv'
  BY <1>27 DEF ConnectTimesOut, Goto, Exchanges
<1>28. ASSUME PromptEnds PROVE PollsInv'
  BY <1>28 DEF PromptEnds, Announces, Goto
<1>29. ASSUME SetupSucceeds PROVE PollsInv'
  BY <1>29 DEF SetupSucceeds, Moves, Goto
<1>30. ASSUME WriteSucceeds PROVE PollsInv'
  BY <1>30 DEF WriteSucceeds, Goto, NoHand
<1>31. ASSUME WriteFails PROVE PollsInv'
  BY <1>31 DEF WriteFails, Goto, NoHand
<1>32. ASSUME ChannelEnds PROVE PollsInv'
  BY <1>32 DEF ChannelEnds, Goto
<1>33. ASSUME DelayElapses PROVE PollsInv'
  BY <1>33 DEF DelayElapses, Goto
<1>34. ASSUME UNCHANGED <<wpc, polls>> PROVE PollsInv'
  BY <1>34 DEF PollsInv
<1>35. CASE Application
  BY <1>34, <1>35 DEF Application, Type, GuiGoto, GuiOnly, SendTyped, CanSend, Send, Reserve,
     NoReservation, SendReserved, Resolve, AskReconnect, RequestReconnect, SendReconnect,
     ClearReconnectRequest, TryShutdown, RequestShutdown, SendShutdown
<1>36. CASE KeyExchange
  BY <1>34, <1>36 DEF KeyExchange, Answer, KeysOnly, KeyIsExpected, Awaits, Records, Ends,
     PreRunning, ReviewBegins, ReviewRefused, ExchangeFails, ReviewEnds
<1>37. CASE TryRecv
  BY <1>1, <1>2, <1>3, <1>4, <1>5, <1>6, <1>7, <1>34, <1>37 DEF TryRecv, DiscardPending,
     NoReservation, WorkerOnly, TakeAutomation, ReceiveReconnectEarly, PreRunning, Receive
<1>38. CASE BeginTransport \/ Connected \/ ConnectFails \/ Established \/ Announce \/ WriteIsCut
   \/ Tick \/ Exited \/ Schedule \/ RetryManually \/ Disconnect \/ GiveUp \/ StopForReconnect \/
   MarkReconnecting \/ ClearRequest \/ Restart \/ Stop \/ Return
  BY <1>8, <1>9, <1>10, <1>11, <1>12, <1>13, <1>14, <1>15, <1>16, <1>17, <1>18, <1>19, <1>20,
     <1>21, <1>22, <1>23, <1>24, <1>25, <1>38
<1>39. CASE Network
  BY <1>26, <1>27, <1>28, <1>29, <1>30, <1>31, <1>32, <1>33, <1>39 DEF Network
<1>40. CASE UNCHANGED vars
  BY <1>34, <1>40 DEF vars
<1> QED
  BY <1>35, <1>36, <1>37, <1>38, <1>39, <1>40 DEF Next, Worker

\* A step leaves an idle planner without an attempt.
LEMMA PlannerStep == PlanType /\ PlannerInv /\ [Next]_vars => PlannerInv'
<1> SUFFICES ASSUME PlanType, PlannerInv, [Next]_vars PROVE PlannerInv'
  OBVIOUS
<1> USE DEF PlanType, PlannerStates, PlannerInv
<1>1. ASSUME Established PROVE PlannerInv'
  BY <1>1 DEF Established, Goto
<1>2. ASSUME Schedule PROVE PlannerInv'
  BY <1>2 DEF Schedule, Goto, CanSchedule
<1>3. ASSUME RetryManually PROVE PlannerInv'
  BY <1>3 DEF RetryManually, Goto, CanSchedule, Exhaust
<1>4. ASSUME Disconnect PROVE PlannerInv'
  BY <1>4 DEF Disconnect, Goto, CanSchedule, Exhaust
<1>5. ASSUME GiveUp PROVE PlannerInv'
  BY <1>5 DEF GiveUp, Goto, CanSchedule, Exhaust
<1>6. ASSUME Stop PROVE PlannerInv'
  BY <1>6 DEF Stop, Goto
<1>7. ASSUME DelayElapses PROVE PlannerInv'
  BY <1>7 DEF DelayElapses, Goto
<1>8. ASSUME UNCHANGED <<planner>> PROVE PlannerInv'
  BY <1>8 DEF PlannerInv
<1>9. CASE Application
  BY <1>8, <1>9 DEF Application, Type, GuiGoto, GuiOnly, SendTyped, CanSend, Send, Reserve,
     NoReservation, SendReserved, Resolve, AskReconnect, RequestReconnect, SendReconnect,
     ClearReconnectRequest, TryShutdown, RequestShutdown, SendShutdown
<1>10. CASE KeyExchange
  BY <1>8, <1>10 DEF KeyExchange, Answer, KeysOnly, KeyIsExpected, Awaits, Records, Ends,
     PreRunning, ReviewBegins, ReviewRefused, ExchangeFails, ReviewEnds
<1>11. CASE TryRecv
  BY <1>8, <1>11 DEF TryRecv, Poll, PreRunning, NoticeShutdown, WorkerOnly, StopAt, NoHand,
     PollEnds, Blocked, NoCommand, DiscardPending, NoReservation, TakeAutomation, TakeReady,
     ReceiveInput, Receive, ReceiveReconnectEarly, ReceiveReconnectManual,
     ReceiveReconnectRunning, ReceiveShutdown
<1>12. CASE BeginTransport \/ Connected \/ ConnectFails \/ Established \/ Announce \/ WriteIsCut
   \/ Tick \/ Exited \/ Schedule \/ RetryManually \/ Disconnect \/ GiveUp \/ StopForReconnect \/
   MarkReconnecting \/ ClearRequest \/ Restart \/ Stop \/ Return
  BY <1>1, <1>2, <1>3, <1>4, <1>5, <1>6, <1>8, <1>12 DEF BeginTransport, Goto, Connected, Moves,
     ConnectFails, Announce, Announces, WriteIsCut, NoticeShutdown, WorkerOnly, StopAt, NoHand,
     Tick, Exited, StopForReconnect, MarkReconnecting, ClearRequest, Restart, Return,
     NoReservation, Exchanges
<1>13. CASE Network
  BY <1>7, <1>8, <1>13 DEF Network, FailsForGood, Goto, ConnectTimesOut, Exchanges, PromptEnds,
     Announces, SetupSucceeds, Moves, WriteSucceeds, NoHand, WriteFails, ChannelEnds
<1>14. CASE UNCHANGED vars
  BY <1>8, <1>14 DEF vars
<1> QED
  BY <1>9, <1>10, <1>11, <1>12, <1>13, <1>14 DEF Next, Worker

\* No step leaves the running loop with the epoch running, and none starts it
\* after a shutdown.
LEMMA AttachedStep == LoopType /\ EpochType /\ FlagType /\ PollsInv /\ AttachedInv /\ [Next]_vars => AttachedInv'
<1> SUFFICES ASSUME LoopType, EpochType, FlagType, PollsInv, AttachedInv, [Next]_vars PROVE AttachedInv'
  OBVIOUS
<1> USE DEF LoopType, PollsInv, PreRunning, AttachedInv
<1>1. ASSUME RequestShutdown PROVE AttachedInv'
  BY <1>1 DEF RequestShutdown, GuiGoto, Invalidate, GuiOnly, Transition
<1>2. ASSUME Poll PROVE AttachedInv'
  BY <1>2 DEF Poll, PreRunning, NoticeShutdown, WorkerOnly, SetLifecycle, StopAt, NoHand,
     Transition
<1>3. ASSUME PollEnds PROVE AttachedInv'
  BY <1>3 DEF PollEnds, Blocked, NoCommand
<1>4. ASSUME TakeReady PROVE AttachedInv'
  BY <1>4 DEF TakeReady, NoReservation, WorkerOnly
<1>5. ASSUME ReceiveInput PROVE AttachedInv'
  BY <1>5 DEF ReceiveInput, Receive, PreRunning, WorkerOnly
<1>6. ASSUME ReceiveReconnectManual PROVE AttachedInv'
  BY <1>6 DEF ReceiveReconnectManual, Receive, WorkerOnly
<1>7. ASSUME ReceiveReconnectRunning PROVE AttachedInv'
  BY <1>7 DEF ReceiveReconnectRunning, Receive, Invalidate, WorkerOnly, Transition
<1>8. ASSUME ReceiveShutdown PROVE AttachedInv'
  BY <1>8 DEF ReceiveShutdown, Receive, NoticeShutdown, WorkerOnly, SetLifecycle, StopAt,
     NoHand, Transition
<1>9. ASSUME BeginTransport PROVE AttachedInv'
  BY <1>9 DEF BeginTransport, Goto
<1>10. ASSUME Connected PROVE AttachedInv'
  BY <1>10 DEF Connected, Moves, Goto
<1>11. ASSUME ConnectFails PROVE AttachedInv'
  BY <1>11 DEF ConnectFails, Moves, Goto
<1>12. ASSUME Established PROVE AttachedInv'
  BY <1>12 DEF Established, Goto
<1>13. ASSUME Announce PROVE AttachedInv'
  BY <1>13 DEF Announce, Announces, Goto, SetLifecycle, Transition
<1>14. ASSUME WriteIsCut PROVE AttachedInv'
  BY <1>14 DEF WriteIsCut, NoticeShutdown, WorkerOnly, SetLifecycle, StopAt, NoHand, Transition
<1>15. ASSUME Tick PROVE AttachedInv'
  BY <1>15 DEF Tick, Moves, Goto
<1>16. ASSUME Exited PROVE AttachedInv'
  BY <1>16 DEF Exited, Announces, Goto, SetLifecycle, Transition
<1>17. ASSUME Schedule PROVE AttachedInv'
  BY <1>17 DEF Schedule, Goto
<1>18. ASSUME RetryManually PROVE AttachedInv'
  BY <1>18 DEF RetryManually, Goto
<1>19. ASSUME Disconnect PROVE AttachedInv'
  BY <1>19 DEF Disconnect, Goto, SetLifecycle, Transition
<1>20. ASSUME GiveUp PROVE AttachedInv'
  BY <1>20 DEF GiveUp, Goto, SetLifecycle, Transition
<1>21. ASSUME StopForReconnect PROVE AttachedInv'
  BY <1>21 DEF StopForReconnect, Announces, Goto, SetLifecycle, Transition
<1>22. ASSUME MarkReconnecting PROVE AttachedInv'
  BY <1>22 DEF MarkReconnecting, Goto
<1>23. ASSUME ClearRequest PROVE AttachedInv'
  BY <1>23 DEF ClearRequest, Goto
<1>24. ASSUME Restart PROVE AttachedInv'
  BY <1>24 DEF Restart, Announces, Goto, SetLifecycle, Transition
<1>25. ASSUME Stop PROVE AttachedInv'
  BY <1>25 DEF Stop, Goto, SetLifecycle, Transition
<1>26. ASSUME Return PROVE AttachedInv'
  BY <1>26 DEF Return, NoReservation, Exchanges
<1>27. ASSUME FailsForGood PROVE AttachedInv'
  BY <1>27 DEF FailsForGood, Goto, SetLifecycle, Transition
<1>28. ASSUME ConnectTimesOut PROVE AttachedInv'
  BY <1>28 DEF ConnectTimesOut, Goto, Exchanges
<1>29. ASSUME PromptEnds PROVE AttachedInv'
  BY <1>29 DEF PromptEnds, Announces, Goto, SetLifecycle, Transition
<1>30. ASSUME SetupSucceeds PROVE AttachedInv'
  BY <1>30 DEF SetupSucceeds, Moves, Goto
<1>31. ASSUME WriteSucceeds PROVE AttachedInv'
  BY <1>31 DEF WriteSucceeds, Goto, NoHand
<1>32. ASSUME WriteFails PROVE AttachedInv'
  BY <1>32 DEF WriteFails, Goto, SetLifecycle, NoHand, Transition
<1>33. ASSUME ChannelEnds PROVE AttachedInv'
  BY <1>33 DEF ChannelEnds, Goto, Invalidate, Transition
<1>34. ASSUME DelayElapses PROVE AttachedInv'
  BY <1>34 DEF DelayElapses, Goto
<1>35. ASSUME UNCHANGED <<lifecycle, attached, shutdown, wpc>> PROVE AttachedInv'
  BY <1>35
<1>36. CASE Application
  BY <1>1, <1>35, <1>36 DEF Application, Type, GuiGoto, GuiOnly, SendTyped, CanSend, Send,
     Reserve, NoReservation, SendReserved, Resolve, AskReconnect, RequestReconnect,
     SendReconnect, ClearReconnectRequest, TryShutdown, SendShutdown
<1>37. CASE KeyExchange
  BY <1>35, <1>37 DEF KeyExchange, Answer, KeysOnly, KeyIsExpected, Awaits, Records, Ends,
     PreRunning, ReviewBegins, ReviewRefused, ExchangeFails, ReviewEnds
<1>38. CASE TryRecv
  BY <1>2, <1>3, <1>4, <1>5, <1>6, <1>7, <1>8, <1>35, <1>38 DEF TryRecv, DiscardPending,
     NoReservation, WorkerOnly, TakeAutomation, ReceiveReconnectEarly, PreRunning, Receive
<1>39. CASE BeginTransport \/ Connected \/ ConnectFails \/ Established \/ Announce \/ WriteIsCut
   \/ Tick \/ Exited \/ Schedule \/ RetryManually \/ Disconnect \/ GiveUp \/ StopForReconnect \/
   MarkReconnecting \/ ClearRequest \/ Restart \/ Stop \/ Return
  BY <1>9, <1>10, <1>11, <1>12, <1>13, <1>14, <1>15, <1>16, <1>17, <1>18, <1>19, <1>20, <1>21,
     <1>22, <1>23, <1>24, <1>25, <1>26, <1>39
<1>40. CASE Network
  BY <1>27, <1>28, <1>29, <1>30, <1>31, <1>32, <1>33, <1>34, <1>40 DEF Network
<1>41. CASE UNCHANGED vars
  BY <1>35, <1>41 DEF vars
<1> QED
  BY <1>36, <1>37, <1>38, <1>39, <1>40, <1>41 DEF Next, Worker

\* A step leaves the own exchange to the worker that waits for it.
LEMMA ExchangeStep == KeyType /\ LoopType /\ PollsInv /\ ExchangeInv /\ [Next]_vars => ExchangeInv'
<1> SUFFICES ASSUME KeyType, LoopType, PollsInv, ExchangeInv, [Next]_vars PROVE ExchangeInv'
  OBVIOUS
<1> USE DEF KeyType, LoopType, PollsInv, PreRunning, Exchanges, ExchangeInv
<1>1. ASSUME NEW h \in Exchanges, KeyIsExpected(h) PROVE ExchangeInv'
  BY <1>1 DEF KeyIsExpected, Awaits, Records, Ends, KeysOnly, PreRunning
<1>2. ASSUME NEW h \in Exchanges, ReviewBegins(h) PROVE ExchangeInv'
  BY <1>2 DEF ReviewBegins, Awaits, KeysOnly, PreRunning
<1>3. ASSUME NEW h \in Exchanges, ReviewRefused(h) PROVE ExchangeInv'
  BY <1>3 DEF ReviewRefused, Awaits, Ends, KeysOnly, PreRunning
<1>4. ASSUME NEW h \in Exchanges, ExchangeFails(h) PROVE ExchangeInv'
  BY <1>4 DEF ExchangeFails, Awaits, Ends, KeysOnly, PreRunning
<1>5. ASSUME NEW h \in Exchanges, ReviewEnds(h) PROVE ExchangeInv'
  BY <1>5 DEF ReviewEnds, Awaits, Records, Ends, KeysOnly, PreRunning
<1>6. ASSUME Poll PROVE ExchangeInv'
  BY <1>6 DEF Poll, PreRunning, NoticeShutdown, WorkerOnly, StopAt, NoHand
<1>7. ASSUME PollEnds PROVE ExchangeInv'
  BY <1>7 DEF PollEnds, Blocked, NoCommand
<1>8. ASSUME TakeReady PROVE ExchangeInv'
  BY <1>8 DEF TakeReady, NoReservation, WorkerOnly
<1>9. ASSUME ReceiveInput PROVE ExchangeInv'
  BY <1>9 DEF ReceiveInput, Receive, PreRunning, WorkerOnly
<1>10. ASSUME ReceiveReconnectManual PROVE ExchangeInv'
  BY <1>10 DEF ReceiveReconnectManual, Receive, WorkerOnly
<1>11. ASSUME ReceiveReconnectRunning PROVE ExchangeInv'
  BY <1>11 DEF ReceiveReconnectRunning, Receive, WorkerOnly
<1>12. ASSUME ReceiveShutdown PROVE ExchangeInv'
  BY <1>12 DEF ReceiveShutdown, Receive, NoticeShutdown, WorkerOnly, StopAt, NoHand
<1>13. ASSUME BeginTransport PROVE ExchangeInv'
  BY <1>13 DEF BeginTransport, Goto
<1>14. ASSUME Connected PROVE ExchangeInv'
  BY <1>14 DEF Connected, Moves, Goto
<1>15. ASSUME ConnectFails PROVE ExchangeInv'
  BY <1>15 DEF ConnectFails, Moves, Goto
<1>16. ASSUME Established PROVE ExchangeInv'
  BY <1>16 DEF Established, Goto
<1>17. ASSUME Announce PROVE ExchangeInv'
  BY <1>17 DEF Announce, Announces, Goto
<1>18. ASSUME WriteIsCut PROVE ExchangeInv'
  BY <1>18 DEF WriteIsCut, NoticeShutdown, WorkerOnly, StopAt, NoHand
<1>19. ASSUME Tick PROVE ExchangeInv'
  BY <1>19 DEF Tick, Moves, Goto
<1>20. ASSUME Exited PROVE ExchangeInv'
  BY <1>20 DEF Exited, Announces, Goto
<1>21. ASSUME Schedule PROVE ExchangeInv'
  BY <1>21 DEF Schedule, Goto
<1>22. ASSUME RetryManually PROVE ExchangeInv'
  BY <1>22 DEF RetryManually, Goto
<1>23. ASSUME Disconnect PROVE ExchangeInv'
  BY <1>23 DEF Disconnect, Goto
<1>24. ASSUME GiveUp PROVE ExchangeInv'
  BY <1>24 DEF GiveUp, Goto
<1>25. ASSUME StopForReconnect PROVE ExchangeInv'
  BY <1>25 DEF StopForReconnect, Announces, Goto
<1>26. ASSUME MarkReconnecting PROVE ExchangeInv'
  BY <1>26 DEF MarkReconnecting, Goto
<1>27. ASSUME ClearRequest PROVE ExchangeInv'
  BY <1>27 DEF ClearRequest, Goto
<1>28. ASSUME Restart PROVE ExchangeInv'
  BY <1>28 DEF Restart, Announces, Goto
<1>29. ASSUME Stop PROVE ExchangeInv'
  BY <1>29 DEF Stop, Goto
<1>30. ASSUME Return PROVE ExchangeInv'
  BY <1>30 DEF Return, NoReservation, Exchanges
<1>31. ASSUME FailsForGood PROVE ExchangeInv'
  BY <1>31 DEF FailsForGood, Goto
<1>32. ASSUME ConnectTimesOut PROVE ExchangeInv'
  BY <1>32 DEF ConnectTimesOut, Goto, Exchanges
<1>33. ASSUME PromptEnds PROVE ExchangeInv'
  BY <1>33 DEF PromptEnds, Announces, Goto
<1>34. ASSUME SetupSucceeds PROVE ExchangeInv'
  BY <1>34 DEF SetupSucceeds, Moves, Goto
<1>35. ASSUME WriteSucceeds PROVE ExchangeInv'
  BY <1>35 DEF WriteSucceeds, Goto, NoHand
<1>36. ASSUME WriteFails PROVE ExchangeInv'
  BY <1>36 DEF WriteFails, Goto, NoHand
<1>37. ASSUME ChannelEnds PROVE ExchangeInv'
  BY <1>37 DEF ChannelEnds, Goto
<1>38. ASSUME DelayElapses PROVE ExchangeInv'
  BY <1>38 DEF DelayElapses, Goto
<1>39. ASSUME UNCHANGED <<verified, shake, outcome, wpc, overlapped>> PROVE ExchangeInv'
  BY <1>39
<1>40. CASE Application
  BY <1>39, <1>40 DEF Application, Type, GuiGoto, GuiOnly, SendTyped, CanSend, Send, Reserve,
     NoReservation, SendReserved, Resolve, AskReconnect, RequestReconnect, SendReconnect,
     ClearReconnectRequest, TryShutdown, RequestShutdown, SendShutdown
<1>41. CASE KeyExchange
  BY <1>1, <1>2, <1>3, <1>4, <1>5, <1>39, <1>41 DEF KeyExchange, Answer, KeysOnly
<1>42. CASE TryRecv
  BY <1>6, <1>7, <1>8, <1>9, <1>10, <1>11, <1>12, <1>39, <1>42 DEF TryRecv, DiscardPending,
     NoReservation, WorkerOnly, TakeAutomation, ReceiveReconnectEarly, PreRunning, Receive
<1>43. CASE BeginTransport \/ Connected \/ ConnectFails \/ Established \/ Announce \/ WriteIsCut
   \/ Tick \/ Exited \/ Schedule \/ RetryManually \/ Disconnect \/ GiveUp \/ StopForReconnect \/
   MarkReconnecting \/ ClearRequest \/ Restart \/ Stop \/ Return
  BY <1>13, <1>14, <1>15, <1>16, <1>17, <1>18, <1>19, <1>20, <1>21, <1>22, <1>23, <1>24, <1>25,
     <1>26, <1>27, <1>28, <1>29, <1>30, <1>43
<1>44. CASE Network
  BY <1>31, <1>32, <1>33, <1>34, <1>35, <1>36, <1>37, <1>38, <1>44 DEF Network
<1>45. CASE UNCHANGED vars
  BY <1>39, <1>45 DEF vars
<1> QED
  BY <1>40, <1>41, <1>42, <1>43, <1>44, <1>45 DEF Next, Worker

\* A step shows the application no other fingerprint than that of the
\* transport.
LEMMA FingerprintStep == KeyType /\ LoopType /\ PollsInv /\ ExchangeInv /\ FingerprintIsTheTransports /\ [Next]_vars => FingerprintIsTheTransports'
<1> SUFFICES ASSUME KeyType, LoopType, PollsInv, ExchangeInv, FingerprintIsTheTransports, [Next]_vars PROVE FingerprintIsTheTransports'
  OBVIOUS
<1> USE DEF KeyType, LoopType, PollsInv, PreRunning, Exchanges, ExchangeInv,
   FingerprintIsTheTransports
<1>1. ASSUME NEW h \in Exchanges, KeyIsExpected(h) PROVE FingerprintIsTheTransports'
  BY <1>1 DEF KeyIsExpected, Awaits, Records, Ends, KeysOnly, PreRunning
<1>2. ASSUME NEW h \in Exchanges, ReviewEnds(h) PROVE FingerprintIsTheTransports'
  BY <1>2 DEF ReviewEnds, Awaits, Records, Ends, KeysOnly, PreRunning
<1>3. ASSUME Poll PROVE FingerprintIsTheTransports'
  BY <1>3 DEF Poll, PreRunning, NoticeShutdown, WorkerOnly, StopAt, NoHand
<1>4. ASSUME PollEnds PROVE FingerprintIsTheTransports'
  BY <1>4 DEF PollEnds, Blocked, NoCommand
<1>5. ASSUME TakeReady PROVE FingerprintIsTheTransports'
  BY <1>5 DEF TakeReady, NoReservation, WorkerOnly
<1>6. ASSUME ReceiveInput PROVE FingerprintIsTheTransports'
  BY <1>6 DEF ReceiveInput, Receive, PreRunning, WorkerOnly
<1>7. ASSUME ReceiveReconnectManual PROVE FingerprintIsTheTransports'
  BY <1>7 DEF ReceiveReconnectManual, Receive, WorkerOnly
<1>8. ASSUME ReceiveReconnectRunning PROVE FingerprintIsTheTransports'
  BY <1>8 DEF ReceiveReconnectRunning, Receive, WorkerOnly
<1>9. ASSUME ReceiveShutdown PROVE FingerprintIsTheTransports'
  BY <1>9 DEF ReceiveShutdown, Receive, NoticeShutdown, WorkerOnly, StopAt, NoHand
<1>10. ASSUME BeginTransport PROVE FingerprintIsTheTransports'
  BY <1>10 DEF BeginTransport, Goto
<1>11. ASSUME Connected PROVE FingerprintIsTheTransports'
  BY <1>11 DEF Connected, Moves, Goto
<1>12. ASSUME ConnectFails PROVE FingerprintIsTheTransports'
  BY <1>12 DEF ConnectFails, Moves, Goto
<1>13. ASSUME Established PROVE FingerprintIsTheTransports'
  BY <1>13 DEF Established, Goto
<1>14. ASSUME Announce PROVE FingerprintIsTheTransports'
  BY <1>14 DEF Announce, Announces, Goto
<1>15. ASSUME WriteIsCut PROVE FingerprintIsTheTransports'
  BY <1>15 DEF WriteIsCut, NoticeShutdown, WorkerOnly, StopAt, NoHand
<1>16. ASSUME Tick PROVE FingerprintIsTheTransports'
  BY <1>16 DEF Tick, Moves, Goto
<1>17. ASSUME Exited PROVE FingerprintIsTheTransports'
  BY <1>17 DEF Exited, Announces, Goto
<1>18. ASSUME Schedule PROVE FingerprintIsTheTransports'
  BY <1>18 DEF Schedule, Goto
<1>19. ASSUME RetryManually PROVE FingerprintIsTheTransports'
  BY <1>19 DEF RetryManually, Goto
<1>20. ASSUME Disconnect PROVE FingerprintIsTheTransports'
  BY <1>20 DEF Disconnect, Goto
<1>21. ASSUME GiveUp PROVE FingerprintIsTheTransports'
  BY <1>21 DEF GiveUp, Goto
<1>22. ASSUME StopForReconnect PROVE FingerprintIsTheTransports'
  BY <1>22 DEF StopForReconnect, Announces, Goto
<1>23. ASSUME MarkReconnecting PROVE FingerprintIsTheTransports'
  BY <1>23 DEF MarkReconnecting, Goto
<1>24. ASSUME ClearRequest PROVE FingerprintIsTheTransports'
  BY <1>24 DEF ClearRequest, Goto
<1>25. ASSUME Restart PROVE FingerprintIsTheTransports'
  BY <1>25 DEF Restart, Announces, Goto
<1>26. ASSUME Stop PROVE FingerprintIsTheTransports'
  BY <1>26 DEF Stop, Goto
<1>27. ASSUME Return PROVE FingerprintIsTheTransports'
  BY <1>27 DEF Return, NoReservation, Exchanges
<1>28. ASSUME FailsForGood PROVE FingerprintIsTheTransports'
  BY <1>28 DEF FailsForGood, Goto
<1>29. ASSUME ConnectTimesOut PROVE FingerprintIsTheTransports'
  BY <1>29 DEF ConnectTimesOut, Goto, Exchanges
<1>30. ASSUME PromptEnds PROVE FingerprintIsTheTransports'
  BY <1>30 DEF PromptEnds, Announces, Goto
<1>31. ASSUME SetupSucceeds PROVE FingerprintIsTheTransports'
  BY <1>31 DEF SetupSucceeds, Moves, Goto
<1>32. ASSUME WriteSucceeds PROVE FingerprintIsTheTransports'
  BY <1>32 DEF WriteSucceeds, Goto, NoHand
<1>33. ASSUME WriteFails PROVE FingerprintIsTheTransports'
  BY <1>33 DEF WriteFails, Goto, NoHand
<1>34. ASSUME ChannelEnds PROVE FingerprintIsTheTransports'
  BY <1>34 DEF ChannelEnds, Goto
<1>35. ASSUME DelayElapses PROVE FingerprintIsTheTransports'
  BY <1>35 DEF DelayElapses, Goto
<1>36. ASSUME UNCHANGED <<verified, wpc, overlapped>> PROVE FingerprintIsTheTransports'
  BY <1>36
<1>37. CASE Application
  BY <1>36, <1>37 DEF Application, Type, GuiGoto, GuiOnly, SendTyped, CanSend, Send, Reserve,
     NoReservation, SendReserved, Resolve, AskReconnect, RequestReconnect, SendReconnect,
     ClearReconnectRequest, TryShutdown, RequestShutdown, SendShutdown
<1>38. CASE KeyExchange
  BY <1>1, <1>2, <1>36, <1>38 DEF KeyExchange, Answer, KeysOnly, ReviewBegins, Awaits,
     PreRunning, ReviewRefused, Ends, ExchangeFails
<1>39. CASE TryRecv
  BY <1>3, <1>4, <1>5, <1>6, <1>7, <1>8, <1>9, <1>36, <1>39 DEF TryRecv, DiscardPending,
     NoReservation, WorkerOnly, TakeAutomation, ReceiveReconnectEarly, PreRunning, Receive
<1>40. CASE BeginTransport \/ Connected \/ ConnectFails \/ Established \/ Announce \/ WriteIsCut
   \/ Tick \/ Exited \/ Schedule \/ RetryManually \/ Disconnect \/ GiveUp \/ StopForReconnect \/
   MarkReconnecting \/ ClearRequest \/ Restart \/ Stop \/ Return
  BY <1>10, <1>11, <1>12, <1>13, <1>14, <1>15, <1>16, <1>17, <1>18, <1>19, <1>20, <1>21, <1>22,
     <1>23, <1>24, <1>25, <1>26, <1>27, <1>40
<1>41. CASE Network
  BY <1>28, <1>29, <1>30, <1>31, <1>32, <1>33, <1>34, <1>35, <1>41 DEF Network
<1>42. CASE UNCHANGED vars
  BY <1>36, <1>42 DEF vars
<1> QED
  BY <1>37, <1>38, <1>39, <1>40, <1>41, <1>42 DEF Next, Worker

\* A step that makes a transport due pays for it.
LEMMA TriesStep == PlanType /\ LoopType /\ PollsInv /\ PlannerInv /\ TriesInv /\ [Next]_vars => TriesInv'
<1> SUFFICES ASSUME PlanType, LoopType, PollsInv, PlannerInv, TriesInv, [Next]_vars PROVE TriesInv'
  OBVIOUS
<1> USE SshAssumption DEF PlanType, PlannerStates, PlannerInv, PollsInv, PreRunning, LoopType,
   TriesInv, Due, ManualPaid, PlannerPaid
<1>1. ASSUME Poll PROVE TriesInv'
  BY <1>1 DEF Poll, PreRunning, NoticeShutdown, WorkerOnly, StopAt, NoHand
<1>2. ASSUME PollEnds PROVE TriesInv'
  BY <1>2 DEF PollEnds, Blocked, NoCommand
<1>3. ASSUME TakeReady PROVE TriesInv'
  BY <1>3 DEF TakeReady, NoReservation, WorkerOnly
<1>4. ASSUME ReceiveInput PROVE TriesInv'
  BY <1>4 DEF ReceiveInput, Receive, PreRunning, WorkerOnly
<1>5. ASSUME ReceiveReconnectManual PROVE TriesInv'
  BY <1>5 DEF ReceiveReconnectManual, Receive, WorkerOnly
<1>6. ASSUME ReceiveReconnectRunning PROVE TriesInv'
  BY <1>6 DEF ReceiveReconnectRunning, Receive, WorkerOnly
<1>7. ASSUME ReceiveShutdown PROVE TriesInv'
  BY <1>7 DEF ReceiveShutdown, Receive, NoticeShutdown, WorkerOnly, StopAt, NoHand
<1>8. ASSUME BeginTransport PROVE TriesInv'
  BY <1>8 DEF BeginTransport, Goto
<1>9. ASSUME Connected PROVE TriesInv'
  BY <1>9 DEF Connected, Moves, Goto
<1>10. ASSUME ConnectFails PROVE TriesInv'
  BY <1>10 DEF ConnectFails, Moves, Goto
<1>11. ASSUME Established PROVE TriesInv'
  BY <1>11 DEF Established, Goto
<1>12. ASSUME Announce PROVE TriesInv'
  BY <1>12 DEF Announce, Announces, Goto
<1>13. ASSUME WriteIsCut PROVE TriesInv'
  BY <1>13 DEF WriteIsCut, NoticeShutdown, WorkerOnly, StopAt, NoHand
<1>14. ASSUME Tick PROVE TriesInv'
  BY <1>14 DEF Tick, Moves, Goto
<1>15. ASSUME Exited PROVE TriesInv'
  BY <1>15 DEF Exited, Announces, Goto
<1>16. ASSUME Schedule PROVE TriesInv'
  BY <1>16 DEF Schedule, Goto, CanSchedule
<1>17. ASSUME RetryManually PROVE TriesInv'
  BY <1>17 DEF RetryManually, Goto, CanSchedule, Exhaust
<1>18. ASSUME Disconnect PROVE TriesInv'
  BY <1>18 DEF Disconnect, Goto, CanSchedule, Exhaust
<1>19. ASSUME GiveUp PROVE TriesInv'
  BY <1>19 DEF GiveUp, Goto, CanSchedule, Exhaust
<1>20. ASSUME StopForReconnect PROVE TriesInv'
  BY <1>20 DEF StopForReconnect, Announces, Goto
<1>21. ASSUME MarkReconnecting PROVE TriesInv'
  BY <1>21 DEF MarkReconnecting, Goto
<1>22. ASSUME ClearRequest PROVE TriesInv'
  BY <1>22 DEF ClearRequest, Goto
<1>23. ASSUME Restart PROVE TriesInv'
  BY <1>23 DEF Restart, Announces, Goto
<1>24. ASSUME Stop PROVE TriesInv'
  BY <1>24 DEF Stop, Goto
<1>25. ASSUME Return PROVE TriesInv'
  BY <1>25 DEF Return, NoReservation, Exchanges
<1>26. ASSUME FailsForGood PROVE TriesInv'
  BY <1>26 DEF FailsForGood, Goto
<1>27. ASSUME ConnectTimesOut PROVE TriesInv'
  BY <1>27 DEF ConnectTimesOut, Goto, Exchanges
<1>28. ASSUME PromptEnds PROVE TriesInv'
  BY <1>28 DEF PromptEnds, Announces, Goto
<1>29. ASSUME SetupSucceeds PROVE TriesInv'
  BY <1>29 DEF SetupSucceeds, Moves, Goto
<1>30. ASSUME WriteSucceeds PROVE TriesInv'
  BY <1>30 DEF WriteSucceeds, Goto, NoHand
<1>31. ASSUME WriteFails PROVE TriesInv'
  BY <1>31 DEF WriteFails, Goto, NoHand
<1>32. ASSUME ChannelEnds PROVE TriesInv'
  BY <1>32 DEF ChannelEnds, Goto
<1>33. ASSUME DelayElapses PROVE TriesInv'
  BY <1>33 DEF DelayElapses, Goto
<1>34. ASSUME UNCHANGED <<wpc, planner, manual, tries>> PROVE TriesInv'
  BY <1>34
<1>35. CASE Application
  BY <1>34, <1>35 DEF Application, Type, GuiGoto, GuiOnly, SendTyped, CanSend, Send, Reserve,
     NoReservation, SendReserved, Resolve, AskReconnect, RequestReconnect, SendReconnect,
     ClearReconnectRequest, TryShutdown, RequestShutdown, SendShutdown
<1>36. CASE KeyExchange
  BY <1>34, <1>36 DEF KeyExchange, Answer, KeysOnly, KeyIsExpected, Awaits, Records, Ends,
     PreRunning, ReviewBegins, ReviewRefused, ExchangeFails, ReviewEnds
<1>37. CASE TryRecv
  BY <1>1, <1>2, <1>3, <1>4, <1>5, <1>6, <1>7, <1>34, <1>37 DEF TryRecv, DiscardPending,
     NoReservation, WorkerOnly, TakeAutomation, ReceiveReconnectEarly, PreRunning, Receive
<1>38. CASE BeginTransport \/ Connected \/ ConnectFails \/ Established \/ Announce \/ WriteIsCut
   \/ Tick \/ Exited \/ Schedule \/ RetryManually \/ Disconnect \/ GiveUp \/ StopForReconnect \/
   MarkReconnecting \/ ClearRequest \/ Restart \/ Stop \/ Return
  BY <1>8, <1>9, <1>10, <1>11, <1>12, <1>13, <1>14, <1>15, <1>16, <1>17, <1>18, <1>19, <1>20,
     <1>21, <1>22, <1>23, <1>24, <1>25, <1>38
<1>39. CASE Network
  BY <1>26, <1>27, <1>28, <1>29, <1>30, <1>31, <1>32, <1>33, <1>39 DEF Network
<1>40. CASE UNCHANGED vars
  BY <1>34, <1>40 DEF vars
<1> QED
  BY <1>35, <1>36, <1>37, <1>38, <1>39, <1>40 DEF Next, Worker

\* A step leaves no current token older than the transport.
LEMMA TokenStep == EpochType /\ TokenAge /\ [Next]_vars => TokenAge'
<1> SUFFICES ASSUME EpochType, TokenAge, [Next]_vars PROVE TokenAge'
  OBVIOUS
<1> USE DEF EpochType, Slots, TokenAge
<1>1. ASSUME Reserve PROVE TokenAge'
  BY <1>1 DEF Reserve, GuiGoto, NoReservation, GuiOnly
<1>2. ASSUME SendReserved PROVE TokenAge'
  BY <1>2 DEF SendReserved, GuiGoto, CanSend, Send, NoReservation, GuiOnly
<1>3. ASSUME NEW to \in {"ready", "void"}, Resolve(to) PROVE TokenAge'
  BY <1>3 DEF Resolve, GuiOnly
<1>4. ASSUME RequestShutdown PROVE TokenAge'
  BY <1>4 DEF RequestShutdown, GuiGoto, Invalidate, GuiOnly, Transition
<1>5. ASSUME Poll PROVE TokenAge'
  BY <1>5 DEF Poll, PreRunning, NoticeShutdown, WorkerOnly, RejectPending, SetLifecycle, StopAt,
     NoHand, Transition
<1>6. ASSUME DiscardPending PROVE TokenAge'
  BY <1>6 DEF DiscardPending, NoReservation, WorkerOnly
<1>7. ASSUME TakeReady PROVE TokenAge'
  BY <1>7 DEF TakeReady, NoReservation, WorkerOnly
<1>8. ASSUME ReceiveReconnectRunning PROVE TokenAge'
  BY <1>8 DEF ReceiveReconnectRunning, Receive, Invalidate, WorkerOnly, Transition
<1>9. ASSUME ReceiveShutdown PROVE TokenAge'
  BY <1>9 DEF ReceiveShutdown, Receive, NoticeShutdown, WorkerOnly, RejectPending, SetLifecycle,
     StopAt, NoHand, Transition
<1>10. ASSUME BeginTransport PROVE TokenAge'
  BY <1>10 DEF BeginTransport, Goto
<1>11. ASSUME Announce PROVE TokenAge'
  BY <1>11 DEF Announce, Announces, Goto, SetLifecycle, Transition
<1>12. ASSUME WriteIsCut PROVE TokenAge'
  BY <1>12 DEF WriteIsCut, NoticeShutdown, WorkerOnly, RejectPending, SetLifecycle, StopAt,
     NoHand, Transition
<1>13. ASSUME Exited PROVE TokenAge'
  BY <1>13 DEF Exited, Announces, Goto, SetLifecycle, Transition
<1>14. ASSUME Disconnect PROVE TokenAge'
  BY <1>14 DEF Disconnect, Goto, CanSchedule, Exhaust, SetLifecycle, Transition
<1>15. ASSUME GiveUp PROVE TokenAge'
  BY <1>15 DEF GiveUp, Goto, CanSchedule, Exhaust, SetLifecycle, Transition
<1>16. ASSUME StopForReconnect PROVE TokenAge'
  BY <1>16 DEF StopForReconnect, Announces, Goto, SetLifecycle, Transition
<1>17. ASSUME Restart PROVE TokenAge'
  BY <1>17 DEF Restart, Announces, Goto, SetLifecycle, Transition
<1>18. ASSUME Stop PROVE TokenAge'
  BY <1>18 DEF Stop, Goto, SetLifecycle, Transition
<1>19. ASSUME Return PROVE TokenAge'
  BY <1>19 DEF Return, NoReservation, Exchanges
<1>20. ASSUME FailsForGood PROVE TokenAge'
  BY <1>20 DEF FailsForGood, Goto, SetLifecycle, Transition
<1>21. ASSUME PromptEnds PROVE TokenAge'
  BY <1>21 DEF PromptEnds, Announces, Goto, SetLifecycle, Transition
<1>22. ASSUME WriteFails PROVE TokenAge'
  BY <1>22 DEF WriteFails, Goto, SetLifecycle, NoHand, Transition
<1>23. ASSUME ChannelEnds PROVE TokenAge'
  BY <1>23 DEF ChannelEnds, Goto, Invalidate, Transition
<1>24. ASSUME UNCHANGED <<res>> PROVE TokenAge'
  BY <1>24
<1>25. CASE Application
  BY <1>1, <1>2, <1>3, <1>4, <1>24, <1>25 DEF Application, Type, GuiGoto, GuiOnly, SendTyped,
     CanSend, Send, AskReconnect, RequestReconnect, SendReconnect, ClearReconnectRequest,
     TryShutdown, RejectPending, SendShutdown
<1>26. CASE KeyExchange
  BY <1>24, <1>26 DEF KeyExchange, Answer, KeysOnly, KeyIsExpected, Awaits, Records, Ends,
     PreRunning, ReviewBegins, ReviewRefused, ExchangeFails, ReviewEnds
<1>27. CASE TryRecv
  BY <1>5, <1>6, <1>7, <1>8, <1>9, <1>24, <1>27 DEF TryRecv, PollEnds, Blocked, NoCommand,
     TakeAutomation, WorkerOnly, ReceiveInput, Receive, PreRunning, ReceiveReconnectEarly,
     ReceiveReconnectManual
<1>28. CASE BeginTransport \/ Connected \/ ConnectFails \/ Established \/ Announce \/ WriteIsCut
   \/ Tick \/ Exited \/ Schedule \/ RetryManually \/ Disconnect \/ GiveUp \/ StopForReconnect \/
   MarkReconnecting \/ ClearRequest \/ Restart \/ Stop \/ Return
  BY <1>10, <1>11, <1>12, <1>13, <1>14, <1>15, <1>16, <1>17, <1>18, <1>19, <1>24, <1>28 DEF
     Connected, Moves, Goto, ConnectFails, Established, Tick, Schedule, CanSchedule,
     RetryManually, Exhaust, MarkReconnecting, ClearRequest
<1>29. CASE Network
  BY <1>20, <1>21, <1>22, <1>23, <1>24, <1>29 DEF Network, ConnectTimesOut, Goto, Exchanges,
     SetupSucceeds, Moves, WriteSucceeds, NoHand, DelayElapses
<1>30. CASE UNCHANGED vars
  BY <1>24, <1>30 DEF vars
<1> QED
  BY <1>25, <1>26, <1>27, <1>28, <1>29, <1>30 DEF Next, Worker

\* A step leaves old commands in the queue only of a transport that has not
\* emptied it.
LEMMA QueueAgeStep == CommandType /\ LoopType /\ QueueAge /\ [Next]_vars => QueueAge'
<1> SUFFICES ASSUME CommandType, LoopType, QueueAge, [Next]_vars PROVE QueueAge'
  OBVIOUS
<1>1. ASSUME SendTyped PROVE QueueAge'
  <2>1. skipped' = skipped
    BY <1>1 DEF SendTyped, GuiOnly
  <2>2. CASE CanSend /\ Send("Input")
    BY <2>1, <2>2, SendEffect, Sizes DEF QueueAge, Kinds
  <2>3. CASE queue' = queue
    BY <2>1, <2>3 DEF QueueAge
  <2> QED
    BY <1>1, <2>2, <2>3, Zenon DEF SendTyped
<1>2. ASSUME SendReserved PROVE QueueAge'
  <2>1. skipped' = skipped
    BY <1>2 DEF SendReserved, GuiOnly
  <2>2. CASE CanSend /\ Send("AutomationInput")
    BY <2>1, <2>2, SendEffect, Sizes DEF QueueAge, Kinds
  <2>3. CASE queue' = queue
    BY <2>1, <2>3 DEF QueueAge
  <2> QED
    BY <1>2, <2>2, <2>3, Zenon DEF SendReserved
<1>3. ASSUME SendReconnect PROVE QueueAge'
  <2>1. skipped' = skipped
    BY <1>3 DEF SendReconnect, GuiOnly
  <2>2. CASE CanSend /\ Send("Reconnect")
    BY <2>1, <2>2, SendEffect, Sizes DEF QueueAge, Kinds
  <2>3. CASE queue' = queue
    BY <2>1, <2>3 DEF QueueAge
  <2> QED
    BY <1>3, <2>2, <2>3, Zenon DEF SendReconnect
<1>4. ASSUME SendShutdown PROVE QueueAge'
  <2>1. skipped' = skipped
    BY <1>4 DEF SendShutdown, GuiOnly
  <2>2. CASE CanSend /\ Send("Shutdown")
    BY <2>1, <2>2, SendEffect, Sizes DEF QueueAge, Kinds
  <2>3. CASE queue' = queue
    BY <2>1, <2>3 DEF QueueAge
  <2> QED
    BY <1>4, <2>2, <2>3, Zenon DEF SendShutdown
<1>5. ASSUME PollEnds PROVE QueueAge'
  <2>1. queue' = queue
    BY <1>5 DEF PollEnds
  <2>2. ~skipped' => ~skipped \/ queue = <<>>
    BY <1>5, Zenon DEF PollEnds, NoCommand
  <2> QED
    BY <2>1, <2>2 DEF QueueAge
<1>6. ASSUME TakeAutomation PROVE QueueAge'
  <2>1. queue # <<>> /\ queue' = Tail(queue) /\ skipped' = skipped
    BY <1>6 DEF TakeAutomation
  <2> QED
    BY <2>1, TakeEffect DEF QueueAge
<1>7. ASSUME ReceiveInput PROVE QueueAge'
  <2>1. queue # <<>> /\ queue' = Tail(queue) /\ skipped' = skipped
    BY <1>7 DEF ReceiveInput, Receive
  <2> QED
    BY <2>1, TakeEffect DEF QueueAge
<1>8. ASSUME ReceiveReconnectEarly PROVE QueueAge'
  <2>1. queue # <<>> /\ queue' = Tail(queue) /\ skipped' = skipped
    BY <1>8 DEF ReceiveReconnectEarly, Receive
  <2> QED
    BY <2>1, TakeEffect DEF QueueAge
<1>9. ASSUME ReceiveReconnectManual PROVE QueueAge'
  <2>1. queue # <<>> /\ queue' = Tail(queue) /\ skipped' = skipped
    BY <1>9 DEF ReceiveReconnectManual, Receive
  <2> QED
    BY <2>1, TakeEffect DEF QueueAge
<1>10. ASSUME ReceiveReconnectRunning PROVE QueueAge'
  <2>1. queue # <<>> /\ queue' = Tail(queue) /\ skipped' = skipped
    BY <1>10 DEF ReceiveReconnectRunning, Receive
  <2> QED
    BY <2>1, TakeEffect DEF QueueAge
<1>11. ASSUME ReceiveShutdown PROVE QueueAge'
  <2>1. queue # <<>> /\ queue' = Tail(queue) /\ skipped' = skipped
    BY <1>11 DEF ReceiveShutdown, Receive
  <2> QED
    BY <2>1, TakeEffect DEF QueueAge
<1>12. ASSUME BeginTransport PROVE QueueAge'
  BY <1>12 DEF BeginTransport, QueueAge
<1>13. ASSUME Return PROVE QueueAge'
  BY <1>13 DEF Return, QueueAge
<1>14. ASSUME UNCHANGED <<queue, skipped>> PROVE QueueAge'
  BY <1>14 DEF QueueAge
<1>15. CASE Application
  BY <1>1, <1>2, <1>3, <1>4, <1>14, <1>15 DEF Application, Type, GuiGoto, GuiOnly, Reserve,
     NoReservation, Resolve, AskReconnect, RequestReconnect, ClearReconnectRequest, TryShutdown,
     RejectPending, RequestShutdown, Invalidate, Transition
<1>16. CASE KeyExchange
  BY <1>14, <1>16 DEF KeyExchange, Answer, KeysOnly, KeyIsExpected, Awaits, Records, Ends,
     PreRunning, ReviewBegins, ReviewRefused, ExchangeFails, ReviewEnds
<1>17. CASE TryRecv
  BY <1>5, <1>6, <1>7, <1>8, <1>9, <1>10, <1>11, <1>14, <1>17 DEF TryRecv, Poll, PreRunning,
     NoticeShutdown, WorkerOnly, RejectPending, SetLifecycle, StopAt, NoHand, Transition,
     DiscardPending, NoReservation, TakeReady
<1>18. CASE BeginTransport \/ Connected \/ ConnectFails \/ Established \/ Announce \/ WriteIsCut
   \/ Tick \/ Exited \/ Schedule \/ RetryManually \/ Disconnect \/ GiveUp \/ StopForReconnect \/
   MarkReconnecting \/ ClearRequest \/ Restart \/ Stop \/ Return
  BY <1>12, <1>13, <1>14, <1>18 DEF Connected, Moves, Goto, ConnectFails, Established, Announce,
     Announces, SetLifecycle, Transition, WriteIsCut, NoticeShutdown, WorkerOnly, RejectPending,
     StopAt, NoHand, Tick, Exited, Schedule, CanSchedule, RetryManually, Exhaust, Disconnect,
     GiveUp, StopForReconnect, MarkReconnecting, ClearRequest, Restart, Stop
<1>19. CASE Network
  BY <1>14, <1>19 DEF Network, FailsForGood, Goto, SetLifecycle, Transition, ConnectTimesOut,
     Exchanges, PromptEnds, Announces, SetupSucceeds, Moves, WriteSucceeds, NoHand, WriteFails,
     ChannelEnds, Invalidate, DelayElapses
<1>20. CASE UNCHANGED vars
  BY <1>14, <1>20 DEF vars
<1> QED
  BY <1>15, <1>16, <1>17, <1>18, <1>19, <1>20 DEF Next, Worker

\* A step gives the worker only input that is meant for its shell, or typed
\* input that no poll has reached.
LEMMA HandStep == CommandType /\ EpochType /\ LoopType /\ PollsInv /\ QueueAge /\ TokenAge /\ HandAge /\ [Next]_vars => HandAge'
<1> SUFFICES ASSUME CommandType, EpochType, LoopType, PollsInv, QueueAge, TokenAge, HandAge, [Next]_vars PROVE HandAge'
  OBVIOUS
<1> USE DEF LoopType, PollsInv, PreRunning, TokenAge, HandAge
<1>1. ASSUME Poll PROVE HandAge'
  BY <1>1 DEF Poll, PreRunning, NoticeShutdown, WorkerOnly, StopAt, NoHand
<1>2. ASSUME PollEnds PROVE HandAge'
  BY <1>2 DEF PollEnds, Blocked, NoCommand
<1>3. ASSUME TakeReady PROVE HandAge'
  BY <1>3 DEF TakeReady, NoReservation, WorkerOnly
<1>4. ASSUME ReceiveInput PROVE HandAge'
  <2>1. Head(queue).kind = "Input" /\ queue # <<>> /\ queue' = Tail(queue) /\ skipped' = skipped
    BY <1>4 DEF ReceiveInput, Receive
  <2>2. Head(queue).old => skipped
    BY <2>1, OldHead
  <2>3. CASE wpc = "serve"
    BY <1>4, <2>1, <2>2, <2>3 DEF ReceiveInput
  <2>4. CASE wpc # "serve"
    BY <1>4, <2>4 DEF ReceiveInput, Receive
  <2> QED
    BY <2>3, <2>4
<1>5. ASSUME ReceiveReconnectManual PROVE HandAge'
  BY <1>5 DEF ReceiveReconnectManual, Receive, WorkerOnly
<1>6. ASSUME ReceiveReconnectRunning PROVE HandAge'
  BY <1>6 DEF ReceiveReconnectRunning, Receive, WorkerOnly
<1>7. ASSUME ReceiveShutdown PROVE HandAge'
  BY <1>7 DEF ReceiveShutdown, Receive, NoticeShutdown, WorkerOnly, StopAt, NoHand
<1>8. ASSUME BeginTransport PROVE HandAge'
  BY <1>8 DEF BeginTransport, Goto
<1>9. ASSUME Connected PROVE HandAge'
  BY <1>9 DEF Connected, Moves, Goto
<1>10. ASSUME ConnectFails PROVE HandAge'
  BY <1>10 DEF ConnectFails, Moves, Goto
<1>11. ASSUME Established PROVE HandAge'
  BY <1>11 DEF Established, Goto
<1>12. ASSUME Announce PROVE HandAge'
  BY <1>12 DEF Announce, Announces, Goto
<1>13. ASSUME WriteIsCut PROVE HandAge'
  BY <1>13 DEF WriteIsCut, NoticeShutdown, WorkerOnly, StopAt, NoHand
<1>14. ASSUME Tick PROVE HandAge'
  BY <1>14 DEF Tick, Moves, Goto
<1>15. ASSUME Exited PROVE HandAge'
  BY <1>15 DEF Exited, Announces, Goto
<1>16. ASSUME Schedule PROVE HandAge'
  BY <1>16 DEF Schedule, Goto
<1>17. ASSUME RetryManually PROVE HandAge'
  BY <1>17 DEF RetryManually, Goto
<1>18. ASSUME Disconnect PROVE HandAge'
  BY <1>18 DEF Disconnect, Goto
<1>19. ASSUME GiveUp PROVE HandAge'
  BY <1>19 DEF GiveUp, Goto
<1>20. ASSUME StopForReconnect PROVE HandAge'
  BY <1>20 DEF StopForReconnect, Announces, Goto
<1>21. ASSUME MarkReconnecting PROVE HandAge'
  BY <1>21 DEF MarkReconnecting, Goto
<1>22. ASSUME ClearRequest PROVE HandAge'
  BY <1>22 DEF ClearRequest, Goto
<1>23. ASSUME Restart PROVE HandAge'
  BY <1>23 DEF Restart, Announces, Goto
<1>24. ASSUME Stop PROVE HandAge'
  BY <1>24 DEF Stop, Goto
<1>25. ASSUME Return PROVE HandAge'
  BY <1>25 DEF Return, NoReservation, Exchanges
<1>26. ASSUME FailsForGood PROVE HandAge'
  BY <1>26 DEF FailsForGood, Goto
<1>27. ASSUME ConnectTimesOut PROVE HandAge'
  BY <1>27 DEF ConnectTimesOut, Goto, Exchanges
<1>28. ASSUME PromptEnds PROVE HandAge'
  BY <1>28 DEF PromptEnds, Announces, Goto
<1>29. ASSUME SetupSucceeds PROVE HandAge'
  BY <1>29 DEF SetupSucceeds, Moves, Goto
<1>30. ASSUME WriteSucceeds PROVE HandAge'
  BY <1>30 DEF WriteSucceeds, Goto, NoHand
<1>31. ASSUME WriteFails PROVE HandAge'
  BY <1>31 DEF WriteFails, Goto, NoHand
<1>32. ASSUME ChannelEnds PROVE HandAge'
  BY <1>32 DEF ChannelEnds, Goto
<1>33. ASSUME DelayElapses PROVE HandAge'
  BY <1>33 DEF DelayElapses, Goto
<1>34. ASSUME UNCHANGED <<wpc, hand, skipped>> PROVE HandAge'
  BY <1>34
<1>35. CASE Application
  BY <1>34, <1>35 DEF Application, Type, GuiGoto, GuiOnly, SendTyped, CanSend, Send, Reserve,
     NoReservation, SendReserved, Resolve, AskReconnect, RequestReconnect, SendReconnect,
     ClearReconnectRequest, TryShutdown, RequestShutdown, SendShutdown
<1>36. CASE KeyExchange
  BY <1>34, <1>36 DEF KeyExchange, Answer, KeysOnly, KeyIsExpected, Awaits, Records, Ends,
     PreRunning, ReviewBegins, ReviewRefused, ExchangeFails, ReviewEnds
<1>37. CASE TryRecv
  BY <1>1, <1>2, <1>3, <1>4, <1>5, <1>6, <1>7, <1>34, <1>37 DEF TryRecv, DiscardPending,
     NoReservation, WorkerOnly, TakeAutomation, ReceiveReconnectEarly, PreRunning, Receive
<1>38. CASE BeginTransport \/ Connected \/ ConnectFails \/ Established \/ Announce \/ WriteIsCut
   \/ Tick \/ Exited \/ Schedule \/ RetryManually \/ Disconnect \/ GiveUp \/ StopForReconnect \/
   MarkReconnecting \/ ClearRequest \/ Restart \/ Stop \/ Return
  BY <1>8, <1>9, <1>10, <1>11, <1>12, <1>13, <1>14, <1>15, <1>16, <1>17, <1>18, <1>19, <1>20,
     <1>21, <1>22, <1>23, <1>24, <1>25, <1>38
<1>39. CASE Network
  BY <1>26, <1>27, <1>28, <1>29, <1>30, <1>31, <1>32, <1>33, <1>39 DEF Network
<1>40. CASE UNCHANGED vars
  BY <1>34, <1>40 DEF vars
<1> QED
  BY <1>35, <1>36, <1>37, <1>38, <1>39, <1>40 DEF Next, Worker

\* A step that takes one reason to expect the flag to be cleared clears it, or
\* gives another.
LEMMA RequestStep == CommandType /\ LoopType /\ PollsInv /\ RequestIsPending /\ [Next]_vars => RequestIsPending'
<1> SUFFICES ASSUME CommandType, LoopType, PollsInv, RequestIsPending, [Next]_vars PROVE RequestIsPending'
  OBVIOUS
<1>1. ASSUME SendTyped PROVE RequestIsPending'
  <2>1. requested' = requested /\ wpc' = wpc /\ gpc \notin {"request", "undo"}
    BY <1>1 DEF SendTyped, GuiOnly, GuiGoto
  <2>2. CASE CanSend /\ Send("Input")
    BY <2>1, <2>2, RequestStays, SendEffect DEF Kinds
  <2>3. CASE queue' = queue
    BY <2>1, <2>3 DEF RequestIsPending
  <2> QED
    BY <1>1, <2>2, <2>3, Zenon DEF SendTyped
<1>2. ASSUME SendReserved PROVE RequestIsPending'
  <2>1. requested' = requested /\ wpc' = wpc /\ gpc \notin {"request", "undo"}
    BY <1>2 DEF SendReserved, GuiOnly, GuiGoto
  <2>2. CASE CanSend /\ Send("AutomationInput")
    BY <2>1, <2>2, RequestStays, SendEffect DEF Kinds
  <2>3. CASE queue' = queue
    BY <2>1, <2>3 DEF RequestIsPending
  <2> QED
    BY <1>2, <2>2, <2>3, Zenon DEF SendReserved
<1>3. ASSUME RequestReconnect PROVE RequestIsPending'
  <2>1. CASE requested
    <3>1. requested' = requested /\ queue' = queue /\ wpc' = wpc /\ gpc \notin {"request", "undo"}
      BY <1>3, <2>1 DEF RequestReconnect, GuiGoto, GuiOnly
    <3> QED
      BY <3>1 DEF RequestIsPending
  <2>2. CASE ~requested
    BY <1>3, <2>2 DEF RequestReconnect, GuiGoto, RequestIsPending
  <2> QED
    BY <2>1, <2>2
<1>4. ASSUME SendReconnect PROVE RequestIsPending'
  <2>1. CASE CanSend
    <3>1. Send("Reconnect")
      BY <1>4, <2>1, Zenon DEF SendReconnect
    <3>2. Len(queue) + 1 \in DOMAIN queue' /\ queue'[Len(queue) + 1].kind = "Reconnect"
      BY <2>1, <3>1, SendEffect, Sizes DEF Kinds
    <3> QED
      BY <3>2 DEF RequestIsPending
  <2>2. CASE ~CanSend
    BY <1>4, <2>2 DEF SendReconnect, GuiGoto, RequestIsPending
  <2> QED
    BY <2>1, <2>2
<1>5. ASSUME ClearReconnectRequest PROVE RequestIsPending'
  BY <1>5, Zenon DEF ClearReconnectRequest, RequestIsPending
<1>6. ASSUME SendShutdown PROVE RequestIsPending'
  <2>1. requested' = requested /\ wpc' = wpc /\ gpc \notin {"request", "undo"}
    BY <1>6 DEF SendShutdown, GuiOnly, GuiGoto
  <2>2. CASE CanSend /\ Send("Shutdown")
    BY <2>1, <2>2, RequestStays, SendEffect DEF Kinds
  <2>3. CASE queue' = queue
    BY <2>1, <2>3 DEF RequestIsPending
  <2> QED
    BY <1>6, <2>2, <2>3, Zenon DEF SendShutdown
<1>7. ASSUME TakeAutomation PROVE RequestIsPending'
  <2>1. queue # <<>> /\ queue' = Tail(queue) /\ Head(queue).kind # "Reconnect"
    BY <1>7 DEF TakeAutomation
  <2>2. requested' = requested /\ gpc' = gpc /\ wpc \notin {"restop", "mark", "clear", "done", "end"}
    BY <1>7 DEF TakeAutomation, WorkerOnly, PollsInv, PreRunning
  <2> QED
    BY <2>1, <2>2, RequestMoves
<1>8. ASSUME ReceiveInput PROVE RequestIsPending'
  <2>1. queue # <<>> /\ queue' = Tail(queue) /\ Head(queue).kind # "Reconnect"
    BY <1>8 DEF ReceiveInput, Receive
  <2>2. requested' = requested /\ gpc' = gpc /\ wpc \notin {"restop", "mark", "clear", "done", "end"}
    BY <1>8 DEF ReceiveInput, Receive, WorkerOnly, PollsInv, PreRunning
  <2> QED
    BY <2>1, <2>2, RequestMoves
<1>9. ASSUME ReceiveReconnectEarly PROVE RequestIsPending'
  BY <1>9, Zenon DEF ReceiveReconnectEarly, RequestIsPending
<1>10. ASSUME ReceiveReconnectManual PROVE RequestIsPending'
  BY <1>10, Zenon DEF ReceiveReconnectManual, RequestIsPending
<1>11. ASSUME ReceiveReconnectRunning PROVE RequestIsPending'
  BY <1>11 DEF ReceiveReconnectRunning, RequestIsPending
<1>12. ASSUME ReceiveShutdown PROVE RequestIsPending'
  <2>1. queue # <<>> /\ queue' = Tail(queue) /\ Head(queue).kind # "Reconnect"
    BY <1>12 DEF ReceiveShutdown, Receive
  <2>2. requested' = requested /\ gpc' = gpc /\ wpc \notin {"restop", "mark", "clear", "done", "end"}
    BY <1>12 DEF ReceiveShutdown, Receive, WorkerOnly, PollsInv, PreRunning
  <2> QED
    BY <2>1, <2>2, RequestMoves
<1>13. ASSUME BeginTransport PROVE RequestIsPending'
  <2>1. requested' = requested /\ gpc' = gpc /\ wpc = "begin"
    BY <1>13 DEF BeginTransport, Goto
  <2>2. \A n \in 1 .. Len(queue) : queue'[n].kind = queue[n].kind
    BY <1>13, AgeEffect DEF BeginTransport
  <2>3. Len(queue') = Len(queue) /\ queue' \in Seq(Commands)
    BY <1>13, AgeEffect DEF BeginTransport
  <2> QED
    BY <2>1, <2>2, <2>3, Sizes DEF RequestIsPending
<1>14. ASSUME ClearRequest PROVE RequestIsPending'
  BY <1>14, Zenon DEF ClearRequest, RequestIsPending
<1>15. ASSUME Return PROVE RequestIsPending'
  BY <1>15 DEF Return, RequestIsPending
<1>16. ASSUME UNCHANGED <<requested, queue>>,
          gpc \in {"request", "undo"} => gpc' = gpc,
          wpc \in {"restop", "mark", "clear", "done", "end"} =>
              wpc' \in {"restop", "mark", "clear", "done", "end"}
   PROVE  RequestIsPending'
  BY <1>16 DEF RequestIsPending
<1>17. CASE Application
  BY <1>1, <1>2, <1>3, <1>4, <1>5, <1>6, <1>16, <1>17 DEF Application, Type, GuiGoto, GuiOnly,
     Reserve, NoReservation, Resolve, AskReconnect, TryShutdown, RequestShutdown
<1>18. CASE KeyExchange
  BY <1>16, <1>18 DEF KeyExchange, Answer, KeysOnly, KeyIsExpected, Awaits, Records, Ends,
     PreRunning, ReviewBegins, ReviewRefused, ExchangeFails, ReviewEnds
<1>19. CASE TryRecv
  BY <1>7, <1>8, <1>9, <1>10, <1>11, <1>12, <1>16, <1>19 DEF TryRecv, Poll, PreRunning,
     NoticeShutdown, WorkerOnly, StopAt, NoHand, PollEnds, Blocked, NoCommand, DiscardPending,
     NoReservation, TakeReady
<1>20. CASE BeginTransport \/ Connected \/ ConnectFails \/ Established \/ Announce \/ WriteIsCut
   \/ Tick \/ Exited \/ Schedule \/ RetryManually \/ Disconnect \/ GiveUp \/ StopForReconnect \/
   MarkReconnecting \/ ClearRequest \/ Restart \/ Stop \/ Return
  BY <1>13, <1>14, <1>15, <1>16, <1>20 DEF Connected, Moves, Goto, ConnectFails, Established,
     Announce, Announces, WriteIsCut, NoticeShutdown, WorkerOnly, StopAt, NoHand, Tick, Exited,
     Schedule, RetryManually, Disconnect, GiveUp, StopForReconnect, MarkReconnecting, Restart,
     Stop
<1>21. CASE Network
  BY <1>16, <1>21 DEF Network, FailsForGood, Goto, ConnectTimesOut, Exchanges, PromptEnds,
     Announces, SetupSucceeds, Moves, WriteSucceeds, NoHand, WriteFails, ChannelEnds,
     DelayElapses
<1>22. CASE UNCHANGED vars
  BY <1>16, <1>22 DEF vars
<1> QED
  BY <1>17, <1>18, <1>19, <1>20, <1>21, <1>22 DEF Next, Worker

-----------------------------------------------------------------------------
(* Theorems. *)

\* All parts; each of the theorems below is one of them.
SshInv ==
    /\ TypeOK /\ PollsInv /\ PlannerInv /\ AttachedInv
    /\ ExchangeInv /\ FingerprintIsTheTransports
    /\ TriesInv /\ RequestIsPending
    /\ QueueAge /\ TokenAge /\ HandAge

\* A session starts in the invariant.
LEMMA InitSshInv == Init => SshInv
<1> SUFFICES ASSUME Init PROVE SshInv
  OBVIOUS
<1>1. EpochType /\ FlagType
  BY FalseIsBoolean DEF Init, EpochType, FlagType, Lifecycles, Slots, NoReservation
<1>2. CommandType
  BY SshAssumption, FalseIsBoolean DEF Init, CommandType
<1>3. KeyType
  BY FalseIsBoolean DEF Init, KeyType, Exchanges
<1>4. PlanType /\ PlannerInv
  BY SshAssumption DEF Init, PlanType, PlannerStates, PlannerInv
<1>5. LoopType
  BY FalseIsBoolean DEF Init, LoopType, PreRunning, NoHand
<1>6. PollsInv /\ AttachedInv /\ RequestIsPending
  BY DEF Init, PollsInv, AttachedInv, RequestIsPending
<1>7. ExchangeInv /\ FingerprintIsTheTransports
  BY DEF Init, ExchangeInv, FingerprintIsTheTransports, Exchanges
<1>8. TriesInv
  BY DEF Init, TriesInv, Due, ManualPaid, PlannerPaid
<1>9. QueueAge /\ TokenAge /\ HandAge
  BY DEF Init, QueueAge, TokenAge, HandAge, NoReservation
<1> QED
  BY <1>1, <1>2, <1>3, <1>4, <1>5, <1>6, <1>7, <1>8, <1>9, TypeParts DEF SshInv

\* Every step stays in it.
LEMMA SshStep == SshInv /\ [Next]_vars => SshInv'
<1> SUFFICES ASSUME SshInv, [Next]_vars PROVE SshInv'
  OBVIOUS
<1>1. EpochType /\ FlagType /\ CommandType /\ KeyType /\ PlanType /\ LoopType
  BY TypeParts DEF SshInv
<1>2. EpochType' /\ FlagType' /\ CommandType'
  BY <1>1, EpochStep, FlagStep, CommandStep
<1>3. KeyType' /\ PlanType' /\ LoopType'
  BY <1>1, KeyStep, PlanStep, LoopStep DEF SshInv
<1>4. TypeOK'
  BY <1>2, <1>3 DEF TypeOK, EpochType, FlagType, CommandType, KeyType, PlanType, LoopType,
                    Lifecycles, Slots, Commands, PlannerStates
<1>5. PollsInv' /\ PlannerInv' /\ AttachedInv'
  BY <1>1, PollsStep, PlannerStep, AttachedStep DEF SshInv
<1>6. ExchangeInv' /\ FingerprintIsTheTransports'
  BY <1>1, ExchangeStep, FingerprintStep DEF SshInv
<1>7. TriesInv' /\ RequestIsPending'
  BY <1>1, TriesStep, RequestStep DEF SshInv
<1>8. QueueAge' /\ TokenAge' /\ HandAge'
  BY <1>1, QueueAgeStep, TokenStep, HandStep DEF SshInv
<1> QED
  BY <1>4, <1>5, <1>6, <1>7, <1>8 DEF SshInv

\* The inductive invariant of the worker, with its application thread, its key
\* exchanges and its network.
THEOREM SshInvariant == Spec => []SshInv
<1>1. Init => SshInv
  BY InitSshInv
<1>2. SshInv /\ [Next]_vars => SshInv'
  BY SshStep
<1> QED
  BY <1>1, <1>2, PTL DEF Spec

\* Automation is admitted only to a running shell: every way out of the running
\* loop has invalidated the epoch, whatever the queue and the policy.
THEOREM AdmissionNeedsRunningShell == Spec => []WorkerInv
<1>1. SshInv => WorkerInv
  BY DEF SshInv, AttachedInv, WorkerInv
<1> QED
  BY <1>1, SshInvariant, PTL

\* The flag of a reconnect request is never set with nobody left to clear it.
THEOREM RequestsAreAnswered == Spec => []RequestIsPending
<1>1. SshInv => RequestIsPending
  BY DEF SshInv
<1> QED
  BY <1>1, SshInvariant, PTL

\* The application reads the fingerprint of the transport in use, or none,
\* unless an abandoned exchange has decided during this transport.
THEOREM FingerprintBelongs == Spec => []FingerprintIsTheTransports
<1>1. SshInv => FingerprintIsTheTransports
  BY DEF SshInv
<1> QED
  BY <1>1, SshInvariant, PTL

\* The automatic and the manual attempts add up to a bound, whatever they are
\* and however failures, losses and requests alternate.
THEOREM AttemptsAreBounded == Spec => []RetriesAreBounded
<1>1. SshInv => RetriesAreBounded
  <2> SUFFICES ASSUME SshInv PROVE RetriesAreBounded
    OBVIOUS
  <2>1. PlanType /\ TriesInv
    BY TypeParts DEF SshInv
  <2>2. ManualPaid \in Nat /\ ManualPaid <= ManualMax
    BY <2>1, SshAssumption DEF PlanType, ManualPaid
  <2>3. PlannerPaid \in Nat /\ PlannerPaid <= MaxAttempts
    BY <2>1, SshAssumption DEF PlanType, PlannerStates, PlannerPaid
  <2>4. Due \in Nat /\ tries \in Nat
    BY <2>1 DEF Due, PlanType
  <2> QED
    BY <2>1, <2>2, <2>3, <2>4, SshAssumption DEF TriesInv, RetriesAreBounded
<1> QED
  BY <1>1, SshInvariant, PTL

\* Input reaches the shell it was meant for: no step writes automation bytes of
\* an earlier transport, or typed input of one unless no poll could empty the
\* queue.
THEOREM InputIsForThisShell == Spec => InputReachesItsShell
<1>1. SshInv /\ [Next]_vars =>
        [wpc = "write" /\ wpc' = "serve" /\ hand.old => hand.kind = "Input" /\ skipped]_vars
  BY DEF SshInv, HandAge
<1> QED
  BY <1>1, SshInvariant, PTL DEF Spec, InputReachesItsShell
=============================================================================
