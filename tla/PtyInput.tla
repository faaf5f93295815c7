------------------------------ MODULE PtyInput ------------------------------
(***************************************************************************)
(* The ordered input of a local shell, crates/festerm-pty/src/lib.rs: what *)
(* the user types and what automation reserves share one bounded command   *)
(* queue, which the control worker empties in order.  A reservation at the *)
(* head of the queue holds back everything behind it until it is resolved. *)
(* The slot of a reservation is taken as the contract of InputReservation  *)
(* describes it: it is published or voided once, by another thread.        *)
(***************************************************************************)
EXTENDS Naturals, Sequences

CONSTANTS
    Capacity,    \* DEFAULT_COMMAND_QUEUE_CAPACITY
    MaxItems     \* bound on the commands sent

ASSUME CapacityAssumption == Capacity \in Nat \ {0} /\ MaxItems \in Nat

VARIABLES
    queue,      \* the command channel, by item number
    kind,       \* what each item is: a SessionCommand
    slot,       \* the phase of an automation item's reservation
    pending,    \* pending_automation_input: an item, or 0
    cpc,        \* the control worker's next step
    item,       \* the item being written
    stopping,   \* the control worker's local flag
    cancel,     \* the cancel flag
    written,    \* the items written to the terminal, in order
    reads       \* external: the terminal takes what is written to it, because its
                \* child reads it or because it is closed

control == <<pending, cpc, item, stopping>>
vars == <<queue, kind, slot, control, cancel, written, reads>>

Items == 1..MaxItems
Sent == DOMAIN kind
Kinds == {"Input", "AutomationInput", "Resize", "Shutdown"}

TypeOK ==
    /\ queue \in Seq(Items) /\ Len(queue) <= Capacity
    /\ kind \in Seq(Kinds) /\ Len(kind) <= MaxItems
    /\ slot \in [Items -> {"none", "open", "published", "void", "delivered", "discarded"}]
    /\ pending \in 0..MaxItems /\ item \in 0..MaxItems
    /\ cpc \in {"top", "receive", "write", "child", "drain", "end"}
    /\ stopping \in BOOLEAN /\ cancel \in BOOLEAN
    /\ written \in Seq(Items)
    /\ reads \in BOOLEAN

Init ==
    /\ queue = <<>> /\ kind = <<>> /\ written = <<>>
    /\ slot = [i \in Items |-> "none"]
    /\ pending = 0 /\ item = 0
    /\ cpc = "top" /\ stopping = FALSE /\ cancel = FALSE
    /\ reads = TRUE

-----------------------------------------------------------------------------
(* The application. *)

\* send_command of try_send_input, try_resize, reserve_automation_input and,
\* after it has cancelled the session, try_shutdown.  A full or closed queue refuses the command, and drops the pending half of
\* a reservation that nobody else has seen.
SendCommand(k) ==
    /\ Len(kind) < MaxItems                             \* bound of the model
    /\ k = "Shutdown" => cancel
    /\ cpc # "end" /\ Len(queue) < Capacity
    /\ kind' = Append(kind, k)
    /\ queue' = Append(queue, Len(kind) + 1)
    /\ slot' = [slot EXCEPT ![Len(kind) + 1] = IF k = "AutomationInput" THEN "open" ELSE @]
    /\ UNCHANGED <<control, cancel, written, reads>>

\* The reservation is committed, or it expires or is given up.
Resolve(i, phase) ==
    /\ slot[i] = "open"
    /\ slot' = [slot EXCEPT ![i] = phase]
    /\ UNCHANGED <<queue, kind, control, cancel, written, reads>>

Publish(i) == Resolve(i, "published")
Void(i) == Resolve(i, "void")

\* request_stop of another thread, or a failure of the reader worker.
Cancel ==
    /\ ~cancel
    /\ cancel' = TRUE
    /\ UNCHANGED <<queue, kind, slot, control, written, reads>>

-----------------------------------------------------------------------------
(* The control worker. *)

\* Dropping the pending halves of the reservations in I.
DropPending(I) ==
    slot' = [i \in Items |->
                IF i \in I /\ slot[i] = "open" THEN "void"
                ELSE IF i \in I /\ slot[i] = "published" THEN "discarded"
                ELSE slot[i]]

LoopTop ==
    /\ cpc = "top" /\ cpc' = "receive"
    /\ IF cancel
       THEN stopping' = TRUE /\ pending' = 0 /\ DropPending({pending})
       ELSE UNCHANGED <<stopping, pending, slot>>
    /\ UNCHANGED <<queue, kind, item, cancel, written, reads>>

\* Mutant of PollPending: a reservation that was voided stays pending.
PollPending_Keeps ==
    /\ cpc = "receive" /\ pending # 0
    /\ IF slot[pending] = "published"
       THEN /\ cpc' = IF stopping THEN "child" ELSE "write"
            /\ item' = pending
            /\ slot' = [slot EXCEPT ![pending] = "delivered"]
            /\ pending' = 0
       ELSE cpc' = "child" /\ UNCHANGED <<item, slot, pending>>
    /\ UNCHANGED <<queue, kind, stopping, cancel, written, reads>>

\* receive_command while a reservation is pending: poll it.
PollPending ==
    /\ cpc = "receive" /\ pending # 0
    /\ IF slot[pending] = "published"
       THEN /\ cpc' = IF stopping THEN "child" ELSE "write"
            /\ item' = pending
            /\ slot' = [slot EXCEPT ![pending] = "delivered"]
       ELSE cpc' = "child" /\ UNCHANGED <<item, slot>>
    /\ pending' = IF slot[pending] = "open" THEN pending ELSE 0
    /\ UNCHANGED <<queue, kind, stopping, cancel, written, reads>>

\* Mutant of Receive: a pending reservation does not hold back the queue.
Receive_Overtakes ==
    /\ cpc = "receive" /\ queue # <<>>
    /\ queue' = Tail(queue)
    /\ IF kind[Head(queue)] = "AutomationInput" /\ pending = 0
       THEN pending' = Head(queue) /\ cpc' = "child" /\ UNCHANGED item
       ELSE /\ item' = Head(queue)
            /\ cpc' = IF kind[Head(queue)] = "Input" /\ ~stopping THEN "write" ELSE "child"
            /\ UNCHANGED pending
    /\ stopping' = (stopping \/ kind[Head(queue)] = "Shutdown")
    /\ cancel' = (cancel \/ kind[Head(queue)] = "Shutdown")
    /\ UNCHANGED <<kind, slot, written, reads>>

\* receive_command otherwise: the next command, or a timeout.
Receive ==
    /\ cpc = "receive" /\ pending = 0 /\ queue # <<>>
    /\ queue' = Tail(queue)
    /\ IF kind[Head(queue)] = "AutomationInput"
       THEN pending' = Head(queue) /\ cpc' = "child" /\ UNCHANGED item
       ELSE /\ item' = Head(queue)
            /\ cpc' = IF kind[Head(queue)] = "Input" /\ ~stopping THEN "write" ELSE "child"
            /\ UNCHANGED pending
    /\ stopping' = (stopping \/ kind[Head(queue)] = "Shutdown")
    /\ cancel' = (cancel \/ kind[Head(queue)] = "Shutdown")
    /\ UNCHANGED <<kind, slot, written, reads>>

ReceiveNothing ==
    /\ cpc = "receive" /\ pending = 0 /\ queue = <<>>
    /\ cpc' = "child"
    /\ UNCHANGED <<queue, kind, slot, pending, item, stopping, cancel, written, reads>>

\* Mutant of WriteSucceeds: the bytes of an interrupted write are written
\* again.
WriteSucceeds_Twice ==
    /\ cpc = "write" /\ cpc' \in {"write", "child"}
    /\ Len(written) < MaxItems
    /\ written' = Append(written, item)
    /\ UNCHANGED <<queue, kind, slot, pending, item, stopping, cancel, reads>>

\* write_all blocks until the terminal has taken everything.
WriteSucceeds ==
    /\ cpc = "write" /\ cpc' = "child"
    /\ written' = Append(written, item)
    /\ UNCHANGED <<queue, kind, slot, pending, item, stopping, cancel, reads>>

WriteFails ==
    /\ cpc = "write" /\ cpc' = "child"
    /\ stopping' = TRUE /\ cancel' = TRUE
    /\ UNCHANGED <<queue, kind, slot, pending, item, written, reads>>

StillRunning ==
    /\ cpc = "child" /\ cpc' = "top"
    /\ UNCHANGED <<queue, kind, slot, pending, item, stopping, cancel, written, reads>>

\* The child has exited (or cannot be observed): the worker leaves the loop,
\* waits for the reader, and only then, when it returns, lets go of the queue
\* and of the pending reservation.
ChildExited ==
    /\ cpc = "child" /\ cpc' = "drain"
    /\ UNCHANGED <<queue, kind, slot, pending, item, stopping, cancel, written, reads>>

Return ==
    /\ cpc = "drain" /\ cpc' = "end"
    /\ queue' = <<>> /\ pending' = 0
    /\ DropPending({pending} \cup {queue[n] : n \in DOMAIN queue})
    /\ UNCHANGED <<kind, item, stopping, cancel, written, reads>>

-----------------------------------------------------------------------------
(* The terminal (external). *)

\* The child stops reading, and its terminal fills up; or it reads again, or
\* the last process that has the terminal open is gone.
TerminalTurns ==
    /\ reads' = ~reads
    /\ UNCHANGED <<queue, kind, slot, control, cancel, written>>

-----------------------------------------------------------------------------

\* The control worker's steps that wait for nobody.
Control ==
    \/ LoopTop \/ PollPending \/ Receive \/ ReceiveNothing
    \/ StillRunning \/ Return

Write == WriteSucceeds \/ WriteFails

Next ==
    \/ \E k \in Kinds : SendCommand(k)
    \/ \E i \in Items : Publish(i) \/ Void(i)
    \/ Cancel
    \/ Control \/ Write \/ ChildExited
    \/ TerminalTurns

Spec == Init /\ [][Next]_vars

\* The worker is scheduled, a reservation expires (OpenIsResolved of
\* AutomationInput), and write_all returns if the terminal goes on taking what
\* is written.  Nothing obliges the terminal to.
FairSpec ==
    /\ Spec
    /\ WF_vars(Control)
    /\ WF_vars(reads /\ Write)
    /\ \A i \in Items : WF_vars(Void(i))

-----------------------------------------------------------------------------
(* Properties. *)

\* Input keeps its place in the queue: nothing is written before an earlier
\* input, nor before an earlier reservation that might still be committed or
\* has been (lib.rs:1494-1522).
NothingOvertakes ==
    \A n \in DOMAIN written : \A i \in 1..(written[n] - 1) :
        \/ kind[i] \in {"Resize", "Shutdown"}
        \/ \E m \in 1..(n - 1) : written[m] = i
        \/ slot[i] = "void"

\* What automation writes was published before, once, and what was published
\* is written or, only if the session ends, discarded (lib.rs:1503-1506).
AutomationIsExact ==
    /\ \A m, n \in DOMAIN written : written[m] = written[n] => m = n
    /\ \A n \in DOMAIN written :
          kind[written[n]] = "AutomationInput" => slot[written[n]] = "delivered"
    /\ \A i \in Sent :
          slot[i] = "delivered" =>
              \/ \E n \in DOMAIN written : written[n] = i
              \/ cpc = "write" /\ item = i
              \/ cancel
    /\ \A i \in Sent : slot[i] = "discarded" => cancel \/ cpc = "end"

\* When the worker is gone no reservation is left open (lib.rs:312-316 of
\* automation_input.rs through the drop of the queue).
NoOrphanedReservation ==
    cpc = "end" => \A i \in Sent : slot[i] \notin {"open", "published"}

\* The types and the fate of every reservation: written once, discarded because
\* the session ends, or released with the worker.
InputInv == TypeOK /\ AutomationIsExact /\ NoOrphanedReservation

\* Every accepted command is taken from the queue: a reservation that nobody
\* commits does not block the input behind it for ever.  All that can hold the
\* queue back is a worker inside a write to a terminal that nobody reads
\* (lib.rs:1494-1522 and 1613).
QueueAdvances ==
    \A i \in Items : (\E n \in DOMAIN queue : queue[n] = i)
                         ~> \/ ~(\E n \in DOMAIN queue : queue[n] = i)
                            \/ cpc = "write" /\ ~reads
=============================================================================
