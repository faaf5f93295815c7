--------------------------- MODULE BrokerDelivery ---------------------------
(***************************************************************************)
(* The broker composed with the connections that carry its answers: the    *)
(* application's thread commits a disclosure and queues a frame, the       *)
(* peer's writer thread sends it piece by piece, and before each piece     *)
(* asks again, under the admission lock, whether the frame is valid.       *)
(*                                                                         *)
(* The lock is held from the check to the end of the write.  It keeps out  *)
(* the broker calls that take the guard and the closing of connections.    *)
(* It does not keep out the others: poll_expiry, complete, human_takeover  *)
(* and the clock may come between a check and its write.                   *)
(*                                                                         *)
(* Two answers disclose something.  The answer to a paired client carries  *)
(* the targets and the end of the pairing and no DisclosureLiveness; only  *)
(* the metadata of an enrolled target is bound to its grant and run.  The  *)
(* replies that disclose nothing (refusals, pairing status), the privacy   *)
(* flag (in Admission), the epochs of the sessions (in AutomationEpoch)    *)
(* and the flag of the association are left out.                           *)
(***************************************************************************)
EXTENDS BrokerRuns, Sequences

CONSTANTS QueueSlots,  \* frames the outbound channel holds (4)
          Pieces       \* writes a frame takes

ASSUME DeliveryAssumption == QueueSlots \in Nat \ {0} /\ Pieces \in Nat \ {0}

VARIABLES
    paired,   \* connection -> the host's record of the approved pairing
    shut,     \* connections whose closed flag is set
    queue,    \* connection -> frames waiting
    writing,  \* connection -> the frame the writer thread holds, with the pieces left
    checked,  \* the connection whose writer holds the lock, its check passed
    wire,     \* history: connection -> the request ids of the pieces sent
    failed    \* history: the runs that ended other than by completing

ioVars == <<paired, shut, queue, writing, checked, wire>>
vars == <<grantVars, ioVars, failed>>

\* Mutant of GuardFree: a guarded call does not wait for the writer.
GuardFree_Ignored == TRUE

\* No writer is between its check and the end of its write.
GuardFree == checked = {}

-----------------------------------------------------------------------------
(* Answers. *)

\* The host approves what a client asked for: observing, no control, once per
\* connection, and not beside metadata.  The proposal is a step of its own.
Pair(p, t, lifetime) ==
    LET c == p.connection
    IN  /\ GuardFree
        /\ c \notin shut /\ paired[c] = {}
        /\ t.controls = {} /\ t.sources # {} /\ t.bindings \subseteq {"Discovery", "Observation"}
        /\ \A m \in SlotGrants(b, c, Metadata) : now >= m.expires
        /\ Approve(p, t, {}, lifetime)
        /\ paired' = [paired EXCEPT ![c] = {[targets |-> Resolve(b, t).sources,
                                             expires |-> now + lifetime]}]
        /\ UNCHANGED <<shut, queue, writing, checked, wire>>

\* DisclosureLiveness::is_live.  A run that answers with metadata is a root,
\* so the list of its ancestors' flags is empty.
IsLive(d) ==
    /\ now < d.deadline
    /\ \E g \in b.grants : g.epoch = d.epoch
    /\ d.run \notin b.undelivered

\* OutboundFrame::is_valid and the deadline of the frame.
IsValid(f) ==
    /\ now < f.expires
    /\ f.targets \subseteq Current(b)
    /\ \A d \in f.disclosure : IsLive(d)

\* A frame that cannot be queued closes the connection instead of waiting.
SendFrame(c, f) ==
    IF c \in shut \/ ~IsValid(f) \/ Len(queue[c]) = QueueSlots
    THEN shut' = shut \cup {c} /\ queue' = queue
    ELSE shut' = shut /\ queue' = [queue EXCEPT ![c] = Append(@, f)]

\* commit_disclosure and the send that follows.  The lock is taken for the
\* send, and for the commit of metadata too; what comes between, the clock or
\* the peer closing, ends in a closed connection either way.
Answer(q, f) ==
    /\ GuardFree
    /\ q.operation # "Control" /\ ~q.committed
    /\ CheckRequest(b, q)
    /\ b' = [b EXCEPT !.requests = (@ \ {q}) \cup {[q EXCEPT !.committed = TRUE]}]
    /\ SendFrame(b.runs[q.run].connection, f)
    /\ UNCHANGED <<now, tokens, closed, paired, writing, checked, wire>>

\* The answer to a paired client.
Observe(q) ==
    LET run == b.runs[q.run]
    IN  /\ run.slot = Ordinary /\ run.kind \in {"Discovery", "Observation"}
        /\ \E p \in paired[run.connection] :
              Answer(q, [id |-> q.id, expires |-> p.expires, targets |-> p.targets,
                         disclosure |-> {}])

\* The answer with an enrolled target's metadata, of a client not paired.
Disclose(q) ==
    LET run == b.runs[q.run]
    IN  /\ run.slot[1] = "Enrollment"
        /\ paired[run.connection] = {}
        /\ \E g \in SlotGrant(b, run.connection, run.slot) :
              Answer(q, [id |-> q.id, expires |-> g.expires, targets |-> g.sources,
                         disclosure |-> {[run |-> q.run, epoch |-> g.epoch,
                                          deadline |-> run.deadline]}])

\* The answer has been handed over: settle, complete and forget the run; a run
\* that cannot be forgotten costs the client its connection.
RetryCompletion(q) ==
    LET c       == b.runs[q.run].connection
        settled == PollExpiry([b EXCEPT !.requests = @ \ {q}])
        done    == IF CheckRun(settled, c, q.run) THEN Completed(settled, q.run, FALSE) ELSE settled
        kept    == \/ done.runs[q.run].state = "Running"
                   \/ \E r \in DOMAIN done.runs : q.run \in done.runs[r].parent
                   \/ \E x \in done.starts : x.run = q.run
    IN  /\ GuardFree
        /\ q.committed /\ q.operation # "Control"
        /\ b' = IF kept THEN Disconnected(done, c)
                ELSE [done EXCEPT !.runs = [r \in DOMAIN @ \ {q.run} |-> @[r]]]
        /\ shut' = IF kept THEN shut \cup {c} ELSE shut
        /\ UNCHANGED <<now, tokens, closed, paired, queue, writing, checked, wire>>

-----------------------------------------------------------------------------
(* The writer thread of a connection. *)

\* The next frame of the queue.
Take(c) ==
    /\ c \notin shut /\ writing[c] = {} /\ queue[c] # <<>>
    /\ writing' = [writing EXCEPT ![c] = {[frame |-> Head(queue[c]), left |-> Pieces]}]
    /\ queue' = [queue EXCEPT ![c] = Tail(@)]
    /\ UNCHANGED <<grantVars, paired, shut, checked, wire>>

\* The lock is taken and the frame found valid.
CheckPiece(c) ==
    /\ GuardFree /\ c \notin shut
    /\ \E w \in writing[c] : IsValid(w.frame)
    /\ checked' = {c}
    /\ UNCHANGED <<grantVars, paired, shut, queue, writing, wire>>

\* The write takes a piece, and the lock is released.
WritePiece(c) ==
    /\ c \in checked
    /\ \E w \in writing[c] :
          /\ wire' = [wire EXCEPT ![c] = Append(@, w.frame.id)]
          /\ writing' = [writing EXCEPT ![c] = IF w.left = 1 THEN {}
                                               ELSE {[w EXCEPT !.left = w.left - 1]}]
    /\ checked' = {}
    /\ UNCHANGED <<grantVars, paired, shut, queue>>

\* The write takes nothing: it would block, and is tried again later with a
\* check of its own, or it failed, and GiveUp follows.
WriteBlocks(c) ==
    /\ c \in checked
    /\ checked' = {}
    /\ UNCHANGED <<grantVars, paired, shut, queue, writing, wire>>

\* Mutant of GiveUp: the frame is dropped and the connection kept.
GiveUp_KeepsConnection(c) ==
    /\ GuardFree
    /\ writing[c] # {} /\ c \notin shut
    /\ writing' = [writing EXCEPT ![c] = {}]
    /\ UNCHANGED <<grantVars, paired, shut, queue, checked, wire>>

\* A check or a write has failed: the thread ends and closes the connection.
GiveUp(c) ==
    /\ GuardFree
    /\ writing[c] # {} /\ c \notin shut
    /\ shut' = shut \cup {c}
    /\ writing' = [writing EXCEPT ![c] = {}]
    /\ UNCHANGED <<grantVars, paired, queue, checked, wire>>

-----------------------------------------------------------------------------
(* Connections. *)

\* The peer goes away, or its reader ends.
PeerCloses(c) ==
    /\ GuardFree
    /\ c \in b.principals /\ c \notin shut
    /\ shut' = shut \cup {c}
    /\ UNCHANGED <<grantVars, paired, queue, writing, checked, wire>>

\* The application's poll removes a peer whose connection is closed, whose
\* pairing has ended or of whose targets one is gone.
RemovePeer(c) ==
    /\ GuardFree /\ c \in b.principals
    /\ \/ c \in shut
       \/ \E p \in paired[c] : now >= p.expires \/ ~(p.targets \subseteq Current(b))
    /\ b' = Disconnected(b, c)
    /\ shut' = shut \cup {c}
    /\ UNCHANGED <<now, tokens, closed, paired, queue, writing, checked, wire>>

\* Any other call of the broker, and time; a disconnect closes the channel
\* under the same guard.
BrokerStep ==
    /\ \/ GuardFree /\ (GuardedGrantStep \/ GuardedRunStep)
       \/ FreeGrantStep \/ FreeRunStep
    /\ shut' = shut \cup (b.principals \ b'.principals)
    /\ UNCHANGED <<paired, queue, writing, checked, wire>>

-----------------------------------------------------------------------------
DeliveryInit ==
    /\ shut = {} /\ checked = {} /\ failed = {}
    /\ paired = [c \in Connections |-> {}]
    /\ queue = [c \in Connections |-> <<>>]
    /\ writing = [c \in Connections |-> {}]
    /\ wire = [c \in Connections |-> <<>>]

Init == GrantInit /\ DeliveryInit

DeliveryStep ==
    \/ BrokerStep
    \/ \E p \in b.pending, t \in GrantRequests, l \in Lifetimes : Pair(p, t, l)
    \/ \E q \in b.requests : Observe(q) \/ Disclose(q) \/ RetryCompletion(q)
    \/ \E c \in Connections :
          \/ Take(c) \/ CheckPiece(c) \/ WritePiece(c) \/ WriteBlocks(c) \/ GiveUp(c)
          \/ PeerCloses(c) \/ RemovePeer(c)

Next ==
    /\ DeliveryStep
    /\ failed' = failed \cup {r \in DOMAIN b'.runs :
                                 b'.runs[r].state \notin {"Running", "Completed"}}

Spec == Init /\ [][Next]_vars

-----------------------------------------------------------------------------
(* Properties. *)

\* What a piece is checked against: the client is connected, the attachments
\* it speaks of are the current ones and its time has not run out.  Metadata
\* is under the client's very grant, still running, and its run has not been
\* stopped or failed, though it may be long forgotten.
Authorized(c, f) ==
    /\ c \in b.principals
    /\ f.targets \subseteq Current(b) /\ now < f.expires
    /\ \A d \in f.disclosure :
          /\ \E g \in GrantsOf(b, c) : g.epoch = d.epoch /\ now < g.expires
          /\ d.run \notin failed

\* What is still true when the piece is written: nothing but the end of the
\* grant's time can have come between.
StillAuthorized(c, f) ==
    /\ c \in b.principals
    /\ f.targets \subseteq Current(b)
    /\ \A d \in f.disclosure :
          \/ \E g \in GrantsOf(b, c) : g.epoch = d.epoch
          \/ now >= f.expires

\* No piece is written without a check that found it authorized, and no
\* disconnect, closed target or revocation, all of which take the guard, comes
\* between the check and the write (write_until, is_valid).  Expiry and the
\* completion of the run are not ordered with the write, and an answer to a
\* paired client does not depend on the grant, only on the pairing's end.
EveryPieceIsAuthorized ==
    [][\A c \in Connections : \A w \in writing[c] :
          /\ c \in checked' \ checked => Authorized(c, w.frame)
          /\ wire'[c] # wire[c] => c \in checked /\ StillAuthorized(c, w.frame)]_vars

\* The stream stays framed: the pieces of a frame are contiguous, and once a
\* frame is cut short nothing more is written on that connection.
StreamStaysFramed ==
    \A c \in Connections : \A i \in DOMAIN wire[c] :
        LET start == i - ((i - 1) % Pieces)
        IN  /\ \A j \in start .. i : wire[c][j] = wire[c][i]
            /\ (start > 1) => wire[c][start - 1] # wire[c][i]
=============================================================================
