----------------------------- MODULE PtyOutput -----------------------------
(***************************************************************************)
(* The bounded event queue of crates/festerm-pty/src/lib.rs.  The reader   *)
(* worker publishes output chunks and blocks while the queue is full       *)
(* (emit_output); every other event is dropped when it does not fit        *)
(* (try_emit); the application takes events one at a time                  *)
(* (try_recv_event).  Producers send and count under the metrics lock; the *)
(* consumer takes an event first and corrects the count afterwards.        *)
(***************************************************************************)
EXTENDS Naturals, Sequences

CONSTANTS
    EventCapacity,   \* DEFAULT_EVENT_QUEUE_CAPACITY
    MaxChunks,       \* bound on the chunks the reader reads
    MaxOthers        \* bound on the other events

ASSUME EventAssumption == EventCapacity \in Nat \ {0} /\ MaxChunks \in Nat /\ MaxOthers \in Nat

VARIABLES
    events,     \* the event channel
    open,       \* its receiver exists
    depth,      \* metrics.event_queue_depth
    high,       \* metrics.event_queue_high_watermark
    taking,     \* try_recv_event has taken an event it has not yet counted
    cancelled,  \* the cancel flag
    rpc,        \* the reader's next step
    chunk,      \* the chunk in the reader's hands
    stalled,    \* backpressure_pending
    noticed,    \* backpressure_event_sent
    others,     \* how many other events there have been
    log         \* history: everything that entered the queue, in order

flow == <<events, depth, high, log>>
outputVars == <<flow, open, taking, cancelled, rpc, chunk, stalled, noticed, others>>

Notice == [kind |-> "Backpressure"]
Other == [kind |-> "Other"]
Output(n, late) == [kind |-> "Output", chunk |-> n, late |-> late]
Events == {Notice, Other} \cup {Output(n, late) : n \in 1..MaxChunks, late \in BOOLEAN}

OutputTypeOK ==
    /\ events \in Seq(Events) /\ Len(events) <= EventCapacity
    /\ open \in BOOLEAN /\ taking \in BOOLEAN /\ cancelled \in BOOLEAN
    /\ stalled \in BOOLEAN /\ noticed \in BOOLEAN
    /\ depth \in Nat /\ high \in Nat
    /\ rpc \in {"read", "check", "notice", "output"}
    /\ chunk \in 0..MaxChunks /\ others \in 0..MaxOthers
    /\ log \in Seq(Events)

OutputInit ==
    /\ events = <<>> /\ log = <<>>
    /\ open = TRUE /\ taking = FALSE /\ cancelled = FALSE
    /\ depth = 0 /\ high = 0
    /\ rpc = "read" /\ chunk = 0 /\ stalled = FALSE /\ noticed = FALSE
    /\ others = 0

-----------------------------------------------------------------------------

HasRoom == open /\ Len(events) < EventCapacity

\* A successful try_send, counted under the metrics lock.
Send(event) ==
    /\ events' = Append(events, event)
    /\ log' = Append(log, event)
    /\ depth' = depth + 1
    /\ high' = IF depth + 1 > high THEN depth + 1 ELSE high

\* try_emit: the event is dropped if it does not fit.
TryEmit(event) == IF HasRoom THEN Send(event) ELSE UNCHANGED flow

ReaderGoto(from, to) == rpc = from /\ rpc' = to

\* reader_worker: the next chunk goes to emit_output unless cancelled.
Read ==
    /\ chunk < MaxChunks
    /\ ReaderGoto("read", IF cancelled THEN "read" ELSE "check")
    /\ chunk' = chunk + 1
    /\ stalled' = FALSE /\ noticed' = FALSE
    /\ UNCHANGED <<flow, open, taking, cancelled, others>>

\* Mutant of Check: a notice that does not fit is retried without looking at
\* the cancel flag.
Check_NoticeFirst ==
    /\ ReaderGoto("check", CASE stalled /\ ~noticed -> "notice"
                             [] cancelled -> "read"
                             [] OTHER -> "output")
    /\ UNCHANGED <<flow, open, taking, cancelled, chunk, stalled, noticed, others>>

\* emit_output: the top of the retry loop.
Check ==
    /\ ReaderGoto("check", CASE cancelled -> "read"
                             [] stalled /\ ~noticed -> "notice"
                             [] OTHER -> "output")
    /\ UNCHANGED <<flow, open, taking, cancelled, chunk, stalled, noticed, others>>

\* Mutant of EmitNotice: a notice that does not fit is followed by the chunk.
EmitNotice_FallsThrough ==
    /\ ReaderGoto("notice", IF HasRoom THEN "check" ELSE "output")
    /\ TryEmit(Notice)
    /\ noticed' = HasRoom
    /\ UNCHANGED <<open, taking, cancelled, chunk, stalled, others>>

\* A stalled chunk is announced before it is tried again ...
EmitNotice ==
    /\ ReaderGoto("notice", "check")
    /\ TryEmit(Notice)
    /\ noticed' = HasRoom
    /\ UNCHANGED <<open, taking, cancelled, chunk, stalled, others>>

\* Mutant of EmitOutput: a chunk that does not fit is dropped.
EmitOutput_Drops ==
    /\ ReaderGoto("output", "read")
    /\ IF HasRoom THEN Send(Output(chunk, stalled)) ELSE UNCHANGED flow
    /\ UNCHANGED <<open, taking, cancelled, chunk, stalled, noticed, others>>

\* ... and a chunk that does not fit is stalled.  (Without a receiver there
\* is no consumer left, and the session is cancelled.)
EmitOutput ==
    /\ ReaderGoto("output", IF HasRoom \/ ~open THEN "read" ELSE "check")
    /\ IF HasRoom THEN Send(Output(chunk, stalled)) ELSE UNCHANGED flow
    /\ stalled' = (stalled \/ (open /\ ~HasRoom))
    /\ UNCHANGED <<open, taking, cancelled, chunk, noticed, others>>

\* Another thread emits a lifecycle, error or resize event.
EmitOther ==
    /\ others < MaxOthers
    /\ others' = others + 1
    /\ TryEmit(Other)
    /\ UNCHANGED <<open, taking, cancelled, rpc, chunk, stalled, noticed>>

\* try_recv_event, under the receiver lock: take an event, then count it.
TakeEvent ==
    /\ open /\ ~taking /\ events # <<>>
    /\ events' = Tail(events)
    /\ taking' = TRUE
    /\ UNCHANGED <<depth, high, log, open, cancelled, rpc, chunk, stalled, noticed, others>>

CountEvent ==
    /\ taking
    /\ taking' = FALSE
    /\ depth' = IF depth = 0 THEN 0 ELSE depth - 1      \* saturating_sub
    /\ UNCHANGED <<events, high, log, open, cancelled, rpc, chunk, stalled, noticed, others>>

\* The session is stopped, and its handle dropped after that.
RequestStop ==
    /\ ~cancelled
    /\ cancelled' = TRUE
    /\ UNCHANGED <<flow, open, taking, rpc, chunk, stalled, noticed, others>>

Close ==
    /\ cancelled /\ open /\ ~taking
    /\ open' = FALSE
    /\ events' = <<>>
    /\ UNCHANGED <<depth, high, log, taking, cancelled, rpc, chunk, stalled, noticed, others>>

-----------------------------------------------------------------------------

Reader == Read \/ Check \/ EmitNotice \/ EmitOutput
Consumer == TakeEvent \/ CountEvent

OutputNext == Reader \/ EmitOther \/ Consumer \/ RequestStop \/ Close

OutputSpec == OutputInit /\ [][OutputNext]_outputVars

\* The reader runs, and the application drains the events it is notified of.
\* The reader retries again and again, so it finds a slot that keeps becoming
\* free: other events are finitely many and cannot take them all.
OutputFairSpec == OutputSpec /\ WF_outputVars(Reader) /\ WF_outputVars(Consumer)

-----------------------------------------------------------------------------
(* Properties. *)

\* The depth the application sees counts the queued events and at most one
\* that is being handed over, so it never saturates at zero, and the high
\* watermark exceeds the capacity by one at most (lib.rs:965-986, 1350-1365).
DepthIsExact ==
    /\ open => depth = Len(events) + (IF taking THEN 1 ELSE 0)
    /\ high <= EventCapacity + 1

\* Output that was held up never resumes unannounced: a notice stands between
\* a stalled chunk and the output before it (lib.rs:1007-1012).
NoUnexplainedGap ==
    \A i \in DOMAIN log :
        (log[i].kind = "Output" /\ log[i].late) =>
            \E j \in 1..(i - 1) :
                /\ log[j].kind = "Backpressure"
                /\ \A k \in j..(i - 1) : log[k].kind # "Output"

\* Every chunk up to the n-th is among the events of l.
SentUpTo(n, l) == \A c \in 1..n : \E i \in DOMAIN l : l[i].kind = "Output" /\ l[i].chunk = c

\* No chunk is lost, repeated or reordered, however often it had to be
\* retried: the chunks sent are increasing and without a gap, and until the
\* session is cancelled they are all that were read (lib.rs:988-1051).
OutputIsComplete ==
    LET last == IF rpc = "read" THEN chunk ELSE chunk - 1
    IN  /\ \A i \in DOMAIN log : log[i].kind = "Output" =>
              /\ \A j \in DOMAIN log : log[j].kind = "Output" /\ j < i => log[j].chunk < log[i].chunk
              /\ SentUpTo(log[i].chunk, log)
              /\ log[i].chunk <= last
        /\ ~cancelled => SentUpTo(last, log)

\* The types, the metrics and the output itself, which belong together: the
\* depth is what the queue holds, and the queue holds every chunk once.
OutputInv == OutputTypeOK /\ DepthIsExact /\ OutputIsComplete

\* emit_output returns, since a full queue is drained or the session ends.
EmitReturns == (rpc # "read") ~> (rpc = "read")
=============================================================================
