-------------------------- MODULE PtyQueues_proofs --------------------------
(***************************************************************************)
(* Proofs about the two queues of a local PTY session, for any capacity.   *)
(*                                                                         *)
(* The command queue (PtyInput), for any number of commands.  The commands *)
(* leave it in the order of their numbers, so that one number, taken,      *)
(* separates those the worker has dealt with from those still queued; the  *)
(* invariants say what has become of every command on each side of it.     *)
(*                                                                         *)
(* The event queue (PtyOutput), for any number of events.  The log of what *)
(* entered it grows by one event at a time, so that each property of the   *)
(* log needs one more fact: what the reader, with a chunk in its hands,    *)
(* knows of the log's end.  ReaderInv and NoticeInv are those facts.       *)
(***************************************************************************)
EXTENDS PtyInput, PtyOutput, TLAPS


\* The number of commands the control worker has taken from the queue.
taken == Len(kind) - Len(queue)

\* The queue holds the commands after the last one taken, and that one is
\* what is pending or being written.
QueueInv ==
    /\ Len(queue) <= Len(kind)
    /\ \A n \in 1..Len(queue) : queue[n] = taken + n
    /\ pending # 0 => pending = taken /\ kind[pending] = "AutomationInput"
    /\ cpc = "write" => /\ item # 0 /\ item = taken /\ pending = 0 /\ ~stopping
                        /\ kind[item] \in {"Input", "AutomationInput"}
    /\ cpc = "end" => queue = <<>> /\ pending = 0
    /\ stopping => cancel

\* A reservation is undecided only in the queue or pending, and handed over
\* or discarded only after that.
SlotInv ==
    \A i \in Items :
        /\ slot[i] = "none" <=> (i > Len(kind) \/ kind[i] # "AutomationInput")
        /\ slot[i] \in {"open", "published"} => i > taken \/ i = pending
        /\ slot[i] \in {"delivered", "discarded"} => i <= taken /\ i # pending

\* What is written is in the order of the queue, and behind what is pending
\* or being written.
WrittenInv ==
    /\ \A m, n \in 1..Len(written) : m < n => written[m] < written[n]
    /\ \A n \in 1..Len(written) :
          /\ written[n] <= taken /\ written[n] # pending
          /\ cpc = "write" => written[n] < item
          /\ kind[written[n]] = "AutomationInput" => slot[written[n]] = "delivered"
    /\ cpc = "write" /\ kind[item] = "AutomationInput" => slot[item] = "delivered"

\* What has become of a reservation that was committed.
CommittedInv ==
    \A i \in 1..Len(kind) :
        /\ slot[i] = "delivered" => \/ \E n \in 1..Len(written) : written[n] = i
                                    \/ cpc = "write" /\ item = i
                                    \/ cancel
        /\ slot[i] = "discarded" => cancel \/ cpc = "end"

\* While the worker has not begun to stop, every command it has taken is
\* accounted for.
AccountedInv ==
    ~stopping /\ cpc # "end" =>
        \A i \in 1..taken :
            \/ kind[i] \in {"Resize", "Shutdown"}
            \/ \E n \in 1..Len(written) : written[n] = i
            \/ cpc = "write" /\ item = i
            \/ slot[i] = "void"
            \/ i = pending

\* NothingOvertakes, over the positions of what is written.
InOrder ==
    \A n \in 1..Len(written) : \A i \in 1..(written[n] - 1) :
        \/ kind[i] \in {"Resize", "Shutdown"}
        \/ \E m \in 1..(n - 1) : written[m] = i
        \/ slot[i] = "void"

\* What an assignment of FALSE leaves in a flag.
LEMMA FalseIsBoolean == \A x : x = FALSE => x \in BOOLEAN
OBVIOUS

\* The types, in the form the proofs need: lengths, numbers and positions.
LEMMA Numbers ==
    ASSUME TypeOK
    PROVE  /\ Len(kind) \in Nat /\ Len(queue) \in Nat /\ Len(written) \in Nat
           /\ pending \in Nat /\ item \in Nat
           /\ \A n \in 1..Len(written) : written[n] \in Items /\ written[n] \in Nat
<1>1. \A n \in 1..Len(written) : written[n] \in Items
  BY DEF TypeOK
<1>2. \A i \in Items : i \in Nat
  BY CapacityAssumption DEF Items
<1> QED
  BY <1>1, <1>2, CapacityAssumption DEF TypeOK

\* A command that was taken is one of those sent.
LEMMA TakenIsSent ==
    ASSUME TypeOK, QueueInv
    PROVE  /\ taken \in Nat /\ taken <= Len(kind) /\ taken + Len(queue) = Len(kind)
           /\ \A i \in 1..Len(kind) : i \in Items /\ i \in Nat
           /\ \A i \in 1..taken : i \in 1..Len(kind)
           /\ pending # 0 => pending \in 1..taken
<1>1. taken \in Nat /\ taken <= Len(kind) /\ taken + Len(queue) = Len(kind)
  BY Numbers DEF QueueInv, taken
<1>2. \A i \in 1..Len(kind) : i \in Items /\ i \in Nat
  BY Numbers, CapacityAssumption DEF Items, TypeOK
<1>3. \A i \in 1..taken : i \in 1..Len(kind)
  BY <1>1, Numbers
<1>4. pending # 0 => pending \in 1..taken
  BY <1>1, Numbers DEF QueueInv
<1> QED
  BY <1>1, <1>2, <1>3, <1>4

\* What a step does to the sequences, element by element: a command is added
\* behind the others, ...
LEMMA SendEffect ==
    ASSUME TypeOK, QueueInv, NEW k \in Kinds, SendCommand(k)
    PROVE  /\ Len(kind) + 1 \in Items /\ Len(kind') = Len(kind) + 1
           /\ Len(queue') = Len(queue) + 1 /\ taken' = taken
           /\ \A i \in 1..Len(kind) : kind'[i] = kind[i]
           /\ kind'[Len(kind) + 1] = k
           /\ \A n \in 1..Len(queue) : queue'[n] = queue[n]
           /\ queue'[Len(queue) + 1] = Len(kind) + 1
           /\ \A i \in Items : i # Len(kind) + 1 => slot'[i] = slot[i]
           /\ k # "AutomationInput" => slot' = slot
           /\ k = "AutomationInput" => slot'[Len(kind) + 1] = "open"
           /\ cpc # "end" /\ UNCHANGED <<pending, cpc, item, stopping, cancel, written>>
<1>1. kind \in Seq(Kinds) /\ queue \in Seq(Items) /\ Len(kind) \in Nat /\ Len(queue) \in Nat
  BY DEF TypeOK
<1>2. Len(kind) + 1 \in Items
  BY <1>1, CapacityAssumption DEF SendCommand, Items
<1>3. Len(kind') = Len(kind) + 1 /\ Len(queue') = Len(queue) + 1
  BY <1>1, <1>2 DEF SendCommand
<1>4. taken' = taken
  BY <1>1, <1>3 DEF taken
<1>5. /\ \A i \in 1..Len(kind) : kind'[i] = kind[i]
      /\ kind'[Len(kind) + 1] = k
      /\ \A n \in 1..Len(queue) : queue'[n] = queue[n]
      /\ queue'[Len(queue) + 1] = Len(kind) + 1
  BY <1>1, <1>2 DEF SendCommand
<1>6. /\ \A i \in Items : i # Len(kind) + 1 => slot'[i] = slot[i]
      /\ k # "AutomationInput" => slot' = slot
      /\ k = "AutomationInput" => slot'[Len(kind) + 1] = "open"
  BY <1>2 DEF SendCommand, TypeOK
<1>7. cpc # "end" /\ UNCHANGED <<pending, cpc, item, stopping, cancel, written>>
  BY DEF SendCommand, control
<1> QED
  BY <1>2, <1>3, <1>4, <1>5, <1>6, <1>7

\* ... the first one is taken, ...
LEMMA ReceiveEffect ==
    ASSUME TypeOK, QueueInv, Receive
    PROVE  /\ taken \in Nat /\ taken + 1 \in 1..Len(kind) /\ taken' = taken + 1
           /\ Head(queue) = taken + 1 /\ Len(queue') = Len(queue) - 1
           /\ \A n \in 1..Len(queue') : queue'[n] = queue[n + 1]
           /\ cpc = "receive" /\ pending = 0 /\ UNCHANGED <<kind, slot, written>>
           /\ kind[taken + 1] = "AutomationInput" =>
                 pending' = taken + 1 /\ cpc' = "child" /\ UNCHANGED item
           /\ kind[taken + 1] # "AutomationInput" => pending' = 0 /\ item' = taken + 1
           /\ cpc' = "write" <=> kind[taken + 1] = "Input" /\ ~stopping
           /\ cpc' # "write" => cpc' = "child"
<1>1. queue \in Seq(Items) /\ queue # <<>> /\ Len(queue) \in Nat /\ Len(queue) > 0 /\ Len(kind) \in Nat
  BY DEF TypeOK, Receive
<1>2. Len(queue') = Len(queue) - 1 /\ \A n \in 1..Len(queue') : queue'[n] = queue[n + 1]
  BY <1>1 DEF Receive
<1>3. Head(queue) = queue[1] /\ UNCHANGED <<kind, slot, written>> /\ cpc = "receive" /\ pending = 0
  BY <1>1 DEF Receive
<1>4. taken' = taken + 1
  BY <1>1, <1>2, <1>3 DEF taken
<1>5. Head(queue) = taken + 1
  BY <1>1, <1>3 DEF QueueInv
<1>6. taken \in Nat /\ taken + 1 \in 1..Len(kind)
  BY <1>1 DEF QueueInv, taken
<1>7. /\ kind[taken + 1] = "AutomationInput" =>
            pending' = taken + 1 /\ cpc' = "child" /\ UNCHANGED item
      /\ kind[taken + 1] # "AutomationInput" => pending' = 0 /\ item' = taken + 1
      /\ cpc' = "write" <=> kind[taken + 1] = "Input" /\ ~stopping
      /\ cpc' # "write" => cpc' = "child"
  BY <1>5, Zenon DEF Receive
<1> QED
  BY <1>2, <1>3, <1>4, <1>5, <1>6, <1>7

\* ... and an input is written behind what was written before.
LEMMA WriteEffect ==
    ASSUME TypeOK, QueueInv, WriteSucceeds
    PROVE  /\ Len(written) \in Nat /\ Len(written') = Len(written) + 1
           /\ \A n \in 1..Len(written) : n \in 1..Len(written') /\ written'[n] = written[n]
           /\ Len(written) + 1 \in 1..Len(written') /\ written'[Len(written) + 1] = item
           /\ \A n \in 1..Len(written') : n \in 1..Len(written) \/ n = Len(written) + 1
           /\ UNCHANGED <<queue, kind, slot, pending, item, stopping, cancel>> /\ taken' = taken
           /\ cpc = "write" /\ cpc' = "child"
<1>1. Len(written) \in Nat /\ Len(written') = Len(written) + 1
  BY DEF TypeOK, WriteSucceeds
<1>2. /\ \A n \in 1..Len(written) : written'[n] = written[n]
      /\ written'[Len(written) + 1] = item
  BY DEF TypeOK, WriteSucceeds
<1>3. UNCHANGED <<queue, kind, slot, pending, item, stopping, cancel>> /\ cpc = "write" /\ cpc' = "child"
  BY DEF WriteSucceeds
<1> QED
  BY <1>1, <1>2, <1>3 DEF taken

\* Polling settles the reservation that is pending, or leaves it open.
LEMMA PollEffect ==
    ASSUME TypeOK, QueueInv, PollPending
    PROVE  /\ pending \in Items /\ pending = taken /\ kind[pending] = "AutomationInput"
           /\ cpc = "receive" /\ UNCHANGED <<queue, kind, stopping, cancel, written>> /\ taken' = taken
           /\ \A i \in Items : i # pending => slot'[i] = slot[i]
           /\ slot[pending] = "published" => slot'[pending] = "delivered"
           /\ slot[pending] # "published" => slot'[pending] = slot[pending]
           /\ pending' = IF slot[pending] = "open" THEN pending ELSE 0
           /\ cpc' = "write" <=> slot[pending] = "published" /\ ~stopping
           /\ cpc' # "write" => cpc' = "child"
           /\ cpc' = "write" => item' = pending
<1>1. pending # 0 /\ cpc = "receive" /\ UNCHANGED <<queue, kind, stopping, cancel, written>>
  BY DEF PollPending
<1>2. pending \in Items /\ pending = taken /\ kind[pending] = "AutomationInput" /\ taken' = taken
  BY <1>1, TakenIsSent DEF QueueInv, taken
<1>3. /\ \A i \in Items : i # pending => slot'[i] = slot[i]
      /\ slot[pending] = "published" => slot'[pending] = "delivered"
      /\ slot[pending] # "published" => slot'[pending] = slot[pending]
  BY <1>2 DEF PollPending, TypeOK
<1>4. /\ pending' = IF slot[pending] = "open" THEN pending ELSE 0
      /\ cpc' = "write" <=> slot[pending] = "published" /\ ~stopping
      /\ cpc' # "write" => cpc' = "child"
      /\ cpc' = "write" => item' = pending
  BY Zenon DEF PollPending
<1> QED
  BY <1>1, <1>2, <1>3, <1>4

\* The top of the loop drops what is pending once the session is cancelled.
LEMMA TopEffect ==
    ASSUME TypeOK, QueueInv, LoopTop
    PROVE  /\ cpc = "top" /\ cpc' = "receive" /\ taken' = taken
           /\ UNCHANGED <<queue, kind, item, cancel, written>>
           /\ \A i \in Items : i # pending => slot'[i] = slot[i]
           /\ cancel => /\ stopping' /\ pending' = 0
                        /\ pending # 0 => slot'[pending] = CASE slot[pending] = "open" -> "void"
                                                 [] slot[pending] = "published" -> "discarded"
                                                 [] OTHER -> slot[pending]
           /\ ~cancel => UNCHANGED <<stopping, pending, slot>>
<1>1. cpc = "top" /\ cpc' = "receive" /\ taken' = taken /\ UNCHANGED <<queue, kind, item, cancel, written>>
  BY DEF LoopTop, taken
<1>2. CASE cancel
  <2>1. stopping' /\ pending' = 0 /\ DropPending({pending})
    BY <1>2, Zenon DEF LoopTop
  <2> QED
    BY <1>1, <1>2, <2>1, TakenIsSent DEF DropPending
<1>3. CASE ~cancel
  BY <1>1, <1>3, Zenon DEF LoopTop
<1> QED
  BY <1>2, <1>3

\* The worker that returns drops every reservation still undecided.
LEMMA ReturnEffect ==
    ASSUME TypeOK, QueueInv, SlotInv, Return
    PROVE  /\ cpc = "drain" /\ cpc' = "end" /\ queue' = <<>> /\ Len(queue') = 0 /\ pending' = 0
           /\ UNCHANGED <<kind, item, stopping, cancel, written>>
           /\ taken' = Len(kind)
           /\ \A i \in Items :
                 slot'[i] = CASE slot[i] = "open" -> "void"
                              [] slot[i] = "published" -> "discarded"
                              [] OTHER -> slot[i]
<1> DEFINE held == {pending} \cup {queue[n] : n \in DOMAIN queue}
<1>1. /\ cpc = "drain" /\ cpc' = "end" /\ queue' = <<>> /\ pending' = 0
      /\ UNCHANGED <<kind, item, stopping, cancel, written>>
      /\ DropPending(held)
  BY DEF Return
<1>2. Len(queue') = 0 /\ taken' = Len(kind)
  BY <1>1, Numbers DEF taken
<1>3. ASSUME NEW i \in Items, slot[i] \in {"open", "published"} PROVE i \in held
  <2>1. i > taken \/ i = pending
    BY <1>3 DEF SlotInv
  <2>2. i \in Nat /\ i <= Len(kind)
    BY <1>3, Numbers, CapacityAssumption DEF SlotInv, Items
  <2>3. ASSUME i > taken PROVE \E n \in 1..Len(queue) : queue[n] = i
    <3>1. i - taken \in 1..Len(queue) /\ taken + (i - taken) = i
      BY <2>2, <2>3, TakenIsSent, Numbers
    <3> QED
      BY <3>1 DEF QueueInv
  <2>4. 1..Len(queue) = DOMAIN queue
    BY DEF TypeOK
  <2> QED
    BY <2>1, <2>3, <2>4
<1> HIDE DEF held
<1>4. ASSUME NEW i \in Items
      PROVE  slot'[i] = CASE slot[i] = "open" -> "void"
                          [] slot[i] = "published" -> "discarded"
                          [] OTHER -> slot[i]
  BY <1>1, <1>3 DEF DropPending
<1> QED
  BY <1>1, <1>2, <1>4

-----------------------------------------------------------------------------
(* QueueInv. *)

\* QueueInv survives send_command.
LEMMA QueueSend == ASSUME TypeOK, QueueInv, NEW k \in Kinds, SendCommand(k) PROVE QueueInv'
<1>1. ASSUME NEW n \in 1..Len(queue') PROVE queue'[n] = taken' + n
  <2>1. CASE n \in 1..Len(queue)
    BY <2>1, SendEffect DEF QueueInv
  <2>2. CASE n = Len(queue) + 1
    <3>1. taken + (Len(queue) + 1) = Len(kind) + 1
      BY Numbers, TakenIsSent
    <3>2. queue'[n] = Len(kind) + 1 /\ taken' = taken
      BY <2>2, SendEffect
    <3> QED
      BY <2>2, <3>1, <3>2
  <2> QED
    BY <2>1, <2>2, SendEffect, Numbers
<1> QED
  BY <1>1, Numbers, SendEffect, TakenIsSent DEF QueueInv

\* QueueInv survives receive_command.
LEMMA QueueReceive == ASSUME TypeOK, QueueInv, Receive PROVE QueueInv'
<1>1. ASSUME NEW n \in 1..Len(queue') PROVE queue'[n] = taken' + n
  <2>1. n + 1 \in 1..Len(queue) /\ queue'[n] = queue[n + 1]
    BY ReceiveEffect, Numbers
  <2>2. queue[n + 1] = taken + (n + 1)
    BY <2>1 DEF QueueInv
  <2>3. taken \in Nat /\ n \in Nat /\ taken' = taken + 1
    BY ReceiveEffect
  <2> QED
    BY <2>1, <2>2, <2>3
<1>2. stopping' => cancel'
  BY Zenon DEF Receive, QueueInv
<1>3. cpc' = "write" => ~stopping'
  <2>1. cpc' = "write" => kind[Head(queue)] = "Input" /\ ~stopping
    BY ReceiveEffect
  <2> QED
    BY <2>1, Zenon DEF Receive
<1> QED
  BY <1>1, <1>2, <1>3, ReceiveEffect, TakenIsSent, Numbers DEF QueueInv

-----------------------------------------------------------------------------
(* SlotInv. *)

\* SlotInv survives send_command.
LEMMA SlotSend ==
    ASSUME TypeOK, QueueInv, SlotInv, NEW k \in Kinds, SendCommand(k) PROVE SlotInv'
<1> SUFFICES ASSUME NEW i \in Items
             PROVE  /\ slot'[i] = "none" <=> (i > Len(kind') \/ kind'[i] # "AutomationInput")
                    /\ slot'[i] \in {"open", "published"} => i > taken' \/ i = pending'
                    /\ slot'[i] \in {"delivered", "discarded"} => i <= taken' /\ i # pending'
  BY DEF SlotInv
<1>1. i \in Nat
  BY CapacityAssumption DEF Items
<1>2. CASE i = Len(kind) + 1
  BY <1>1, <1>2, SendEffect, TakenIsSent, Numbers DEF SlotInv
<1>3. CASE i > Len(kind) + 1
  BY <1>1, <1>3, SendEffect, Numbers DEF SlotInv
<1>4. CASE i \in 1..Len(kind)
  BY <1>1, <1>4, SendEffect, Numbers DEF SlotInv
<1> QED
  BY <1>1, <1>2, <1>3, <1>4, Numbers, CapacityAssumption DEF Items

\* SlotInv survives receive_command.
LEMMA SlotReceive == ASSUME TypeOK, QueueInv, SlotInv, Receive PROVE SlotInv'
<1> SUFFICES ASSUME NEW i \in Items
             PROVE  /\ slot[i] = "none" <=> (i > Len(kind) \/ kind[i] # "AutomationInput")
                    /\ slot[i] \in {"open", "published"} => i > taken + 1 \/ i = pending'
                    /\ slot[i] \in {"delivered", "discarded"} => i <= taken + 1 /\ i # pending'
  BY ReceiveEffect DEF SlotInv
<1>1. i \in Nat /\ i # 0 /\ taken \in Nat
  BY CapacityAssumption, ReceiveEffect DEF Items
<1>2. slot[i] \in {"open", "published"} => i > taken
  BY <1>1, ReceiveEffect DEF SlotInv
<1>3. CASE i = taken + 1
  BY <1>1, <1>2, <1>3, ReceiveEffect DEF SlotInv
<1>4. CASE i # taken + 1
  BY <1>1, <1>2, <1>4, ReceiveEffect DEF SlotInv
<1> QED
  BY <1>3, <1>4

\* SlotInv survives the top of the loop.
LEMMA SlotLoopTop == ASSUME TypeOK, QueueInv, SlotInv, LoopTop PROVE SlotInv'
<1>1. UNCHANGED <<queue, kind>> /\ taken' = taken
  BY DEF LoopTop, taken
<1>2. CASE ~cancel
  <2>1. UNCHANGED <<slot, pending>>
    BY <1>2, Zenon DEF LoopTop
  <2> QED
    BY <1>1, <2>1 DEF SlotInv
<1>3. CASE cancel
  <2>1. pending' = 0 /\ DropPending({pending})
    BY <1>3, Zenon DEF LoopTop
  <2>2. pending # 0 => pending = taken
    BY DEF QueueInv
  <2>3. taken \in Nat /\ pending \in Nat /\ Len(kind) \in Nat
    BY TakenIsSent, Numbers
  <2> SUFFICES ASSUME NEW i \in Items
               PROVE  /\ slot'[i] = "none" <=> (i > Len(kind) \/ kind[i] # "AutomationInput")
                      /\ slot'[i] \in {"open", "published"} => i > taken \/ i = 0
                      /\ slot'[i] \in {"delivered", "discarded"} => i <= taken /\ i # 0
    BY <1>1, <2>1 DEF SlotInv
  <2>4. i \in Nat /\ i # 0
    BY CapacityAssumption DEF Items
  <2>5. slot'[i] = IF i = pending /\ slot[i] = "open" THEN "void"
                   ELSE IF i = pending /\ slot[i] = "published" THEN "discarded" ELSE slot[i]
    BY <2>1 DEF DropPending
  <2>6. /\ slot[i] = "none" <=> (i > Len(kind) \/ kind[i] # "AutomationInput")
        /\ slot[i] \in {"open", "published"} => i > taken \/ i = pending
        /\ slot[i] \in {"delivered", "discarded"} => i <= taken /\ i # pending
    BY DEF SlotInv
  <2> QED
    BY <2>2, <2>3, <2>4, <2>5, <2>6
<1> QED
  BY <1>2, <1>3

\* SlotInv survives the worker's return.
LEMMA SlotReturn == ASSUME TypeOK, QueueInv, SlotInv, Return PROVE SlotInv'
<1> SUFFICES ASSUME NEW i \in Items
             PROVE  /\ slot'[i] = "none" <=> (i > Len(kind) \/ kind[i] # "AutomationInput")
                    /\ slot'[i] \in {"open", "published"} => i > Len(kind) \/ i = 0
                    /\ slot'[i] \in {"delivered", "discarded"} => i <= Len(kind) /\ i # 0
  BY ReturnEffect DEF SlotInv
<1>1. i \in Nat /\ i # 0
  BY CapacityAssumption DEF Items
<1>2. slot[i] = "none" <=> (i > Len(kind) \/ kind[i] # "AutomationInput")
  BY DEF SlotInv
<1>3. slot[i] # "none" => i <= Len(kind)
  BY <1>1, <1>2, Numbers
<1> QED
  BY <1>1, <1>2, <1>3, ReturnEffect

-----------------------------------------------------------------------------
(* WrittenInv. *)

\* WrittenInv survives send_command.
LEMMA WrittenSend ==
    ASSUME TypeOK, QueueInv, SlotInv, WrittenInv, NEW k \in Kinds, SendCommand(k) PROVE WrittenInv'
<1>1. \A n \in 1..Len(written) : written[n] \in 1..Len(kind) /\ written[n] # Len(kind) + 1
  BY Numbers, TakenIsSent, CapacityAssumption DEF WrittenInv, Items
<1>2. cpc = "write" => item \in 1..Len(kind) /\ item # Len(kind) + 1
  BY Numbers, TakenIsSent, SMTT(30) DEF QueueInv
<1>3. \A n \in 1..Len(written) : /\ kind'[written[n]] = kind[written[n]]
                                  /\ slot'[written[n]] = slot[written[n]]
  BY <1>1, SendEffect, Numbers
<1>4. cpc = "write" => kind'[item] = kind[item] /\ slot'[item] = slot[item]
  BY <1>2, SendEffect, TakenIsSent
<1> QED
  BY <1>3, <1>4, SendEffect DEF WrittenInv

\* WrittenInv survives receive_command.
LEMMA WrittenReceive ==
    ASSUME TypeOK, QueueInv, SlotInv, WrittenInv, Receive PROVE WrittenInv'
<1>1. pending' \in {0, taken + 1} /\ (cpc' = "write" => item' = taken + 1 /\ kind[item'] = "Input")
  BY ReceiveEffect
<1> QED
  BY <1>1, ReceiveEffect, Numbers DEF WrittenInv

\* WrittenInv survives a poll of the reservation.
LEMMA WrittenPoll ==
    ASSUME TypeOK, QueueInv, SlotInv, WrittenInv, PollPending PROVE WrittenInv'
<1>1. \A n \in 1..Len(written) : written[n] \in Items /\ written[n] # pending /\ written[n] < pending
  BY PollEffect, Numbers, TakenIsSent DEF WrittenInv
<1>2. pending' \in {0, pending} /\ (cpc' = "write" => item' = pending /\ slot'[pending] = "delivered")
  BY PollEffect
<1>3. \A n \in 1..Len(written) : slot'[written[n]] = slot[written[n]] /\ written[n] # pending'
  BY <1>1, <1>2, PollEffect, CapacityAssumption DEF Items
<1> QED
  BY <1>1, <1>2, <1>3, PollEffect, Numbers DEF WrittenInv

\* WrittenInv survives the top of the worker's loop.
LEMMA WrittenTop ==
    ASSUME TypeOK, QueueInv, SlotInv, WrittenInv, LoopTop PROVE WrittenInv'
<1>1. \A n \in 1..Len(written) : slot'[written[n]] = slot[written[n]] /\ written[n] \notin {0, pending}
  BY TopEffect, Numbers, CapacityAssumption DEF WrittenInv, Items
<1>2. pending' \in {0, pending}
  BY TopEffect
<1> QED
  BY <1>1, <1>2, TopEffect DEF WrittenInv

\* WrittenInv survives a write.
LEMMA WrittenWrite ==
    ASSUME TypeOK, QueueInv, SlotInv, WrittenInv, WriteSucceeds PROVE WrittenInv'
<1>1. ASSUME NEW m \in 1..Len(written'), NEW n \in 1..Len(written'), m < n
      PROVE  written'[m] < written'[n]
  <2>1. m \in 1..Len(written)
    BY <1>1, WriteEffect
  <2>2. CASE n \in 1..Len(written)
    BY <1>1, <2>1, <2>2, WriteEffect DEF WrittenInv
  <2>3. CASE n = Len(written) + 1
    BY <2>1, <2>3, WriteEffect DEF WrittenInv
  <2> QED
    BY <2>2, <2>3, WriteEffect
<1>2. ASSUME NEW n \in 1..Len(written')
      PROVE  /\ written'[n] <= taken /\ written'[n] # pending
             /\ kind[written'[n]] = "AutomationInput" => slot[written'[n]] = "delivered"
  <2>1. CASE n \in 1..Len(written)
    BY <2>1, WriteEffect DEF WrittenInv
  <2>2. CASE n = Len(written) + 1
    <3>1. item <= taken /\ item # pending
      BY WriteEffect, TakenIsSent DEF QueueInv
    <3>2. kind[item] = "AutomationInput" => slot[item] = "delivered"
      BY WriteEffect DEF WrittenInv
    <3> QED
      BY <2>2, <3>1, <3>2, WriteEffect
  <2> QED
    BY <2>1, <2>2, WriteEffect
<1> QED
  BY <1>1, <1>2, WriteEffect DEF WrittenInv

\* WrittenInv survives the worker's return.
LEMMA WrittenReturn ==
    ASSUME TypeOK, QueueInv, SlotInv, WrittenInv, Return PROVE WrittenInv'
<1>1. \A n \in 1..Len(written) : slot[written[n]] = "delivered" => slot'[written[n]] = "delivered"
  BY ReturnEffect, Numbers
<1>2. \A n \in 1..Len(written) : written[n] <= Len(kind) /\ written[n] # 0
  BY Numbers, TakenIsSent, CapacityAssumption DEF WrittenInv, Items
<1> QED
  BY <1>1, <1>2, ReturnEffect DEF WrittenInv

-----------------------------------------------------------------------------
(* CommittedInv. *)

\* CommittedInv survives send_command.
LEMMA CommittedSend ==
    ASSUME TypeOK, QueueInv, SlotInv, CommittedInv, NEW k \in Kinds, SendCommand(k) PROVE CommittedInv'
<1> SUFFICES ASSUME NEW i \in 1..Len(kind'), slot'[i] \in {"delivered", "discarded"}
             PROVE  i \in 1..Len(kind) /\ slot'[i] = slot[i]
  BY SendEffect DEF CommittedInv
<1>1. i # Len(kind) + 1
  <2> SUFFICES ASSUME i = Len(kind) + 1 PROVE slot'[i] \in {"none", "open"}
    OBVIOUS
  <2>1. slot[i] = "none"
    BY SendEffect, Numbers DEF SlotInv
  <2> QED
    BY <2>1, SendEffect
<1> QED
  BY <1>1, SendEffect, Numbers, TakenIsSent

\* CommittedInv survives a poll of the reservation.
LEMMA CommittedPoll ==
    ASSUME TypeOK, QueueInv, SlotInv, CommittedInv, PollPending PROVE CommittedInv'
<1> SUFFICES ASSUME NEW i \in 1..Len(kind)
             PROVE  /\ slot'[i] = "delivered" => \/ \E n \in 1..Len(written) : written[n] = i
                                                 \/ cpc' = "write" /\ item' = i
                                                 \/ cancel
                    /\ slot'[i] = "discarded" => cancel \/ cpc' = "end"
  BY PollEffect DEF CommittedInv
<1>1. i \in Items
  BY TakenIsSent
<1>2. CASE i # pending
  BY <1>1, <1>2, PollEffect DEF CommittedInv
<1>3. CASE i = pending
  <2>1. slot[i] \notin {"delivered", "discarded"}
    BY <1>1, <1>3 DEF SlotInv
  <2>2. CASE slot[i] = "published"
    <3>1. stopping => cancel
      BY DEF QueueInv
    <3> QED
      BY <1>3, <2>2, <3>1, PollEffect
  <2>3. CASE slot[i] # "published"
    BY <1>3, <2>1, <2>3, PollEffect
  <2> QED
    BY <2>2, <2>3
<1> QED
  BY <1>2, <1>3

\* CommittedInv survives the top of the worker's loop.
LEMMA CommittedTop ==
    ASSUME TypeOK, QueueInv, SlotInv, CommittedInv, LoopTop PROVE CommittedInv'
<1>1. \A i \in 1..Len(kind) : slot'[i] # slot[i] => cancel
  BY TopEffect
<1> QED
  BY <1>1, TopEffect DEF CommittedInv

\* CommittedInv survives a write.
LEMMA CommittedWrite ==
    ASSUME TypeOK, QueueInv, SlotInv, CommittedInv, WriteSucceeds PROVE CommittedInv'
<1> SUFFICES ASSUME NEW i \in 1..Len(kind), slot[i] = "delivered",
                    \/ \E n \in 1..Len(written) : written[n] = i
                    \/ item = i
             PROVE  \E n \in 1..Len(written') : written'[n] = i
  BY WriteEffect DEF CommittedInv
<1> QED
  BY WriteEffect

\* CommittedInv survives the worker's return.
LEMMA CommittedReturn ==
    ASSUME TypeOK, QueueInv, SlotInv, CommittedInv, Return PROVE CommittedInv'
<1>1. \A i \in 1..Len(kind) : slot'[i] = "delivered" => slot[i] = "delivered"
  BY ReturnEffect, TakenIsSent
<1> QED
  BY <1>1, ReturnEffect DEF CommittedInv

-----------------------------------------------------------------------------
(* AccountedInv and InOrder. *)

\* AccountedInv survives send_command.
LEMMA AccountedSend ==
    ASSUME TypeOK, QueueInv, SlotInv, AccountedInv, NEW k \in Kinds, SendCommand(k)
    PROVE  AccountedInv'
<1>1. \A i \in 1..taken : kind'[i] = kind[i] /\ slot'[i] = slot[i]
  BY SendEffect, TakenIsSent, Numbers
<1> QED
  BY <1>1, SendEffect DEF AccountedInv

\* AccountedInv survives a commit or a release by automation.
LEMMA AccountedResolve ==
    ASSUME TypeOK, QueueInv, AccountedInv, NEW i \in Items, Publish(i) \/ Void(i) PROVE AccountedInv'
<1>1. UNCHANGED <<queue, kind, pending, cpc, item, stopping, written>> /\ taken' = taken
  BY DEF Publish, Void, Resolve, control, taken
<1>2. \A j \in 1..taken : slot[j] = "void" => slot'[j] = "void"
  BY TakenIsSent DEF Publish, Void, Resolve, TypeOK
<1> QED
  BY <1>1, <1>2 DEF AccountedInv

\* AccountedInv survives a poll of the reservation.
LEMMA AccountedPoll ==
    ASSUME TypeOK, QueueInv, SlotInv, AccountedInv, PollPending PROVE AccountedInv'
<1> SUFFICES ASSUME ~stopping, NEW i \in 1..taken
             PROVE  \/ kind[i] \in {"Resize", "Shutdown"}
                    \/ \E n \in 1..Len(written) : written[n] = i
                    \/ cpc' = "write" /\ item' = i
                    \/ slot'[i] = "void"
                    \/ i = pending'
  BY PollEffect DEF AccountedInv
<1>1. i \in Items
  BY TakenIsSent
<1>2. CASE i # pending
  BY <1>1, <1>2, PollEffect DEF AccountedInv
<1>3. CASE i = pending
  <2>1. slot[i] \in {"open", "published", "void"}
    BY <1>1, <1>3, PollEffect, TakenIsSent, Numbers DEF SlotInv, TypeOK
  <2> QED
    BY <1>3, <2>1, PollEffect
<1> QED
  BY <1>2, <1>3

\* AccountedInv survives receive_command.
LEMMA AccountedReceive ==
    ASSUME TypeOK, QueueInv, SlotInv, AccountedInv, Receive PROVE AccountedInv'
<1>1. stopping => stopping'
  BY Zenon DEF Receive
<1> SUFFICES ASSUME ~stopping, NEW i \in 1..(taken + 1)
             PROVE  \/ kind[i] \in {"Resize", "Shutdown"}
                    \/ \E n \in 1..Len(written) : written[n] = i
                    \/ cpc' = "write" /\ item' = i
                    \/ slot[i] = "void"
                    \/ i = pending'
  BY <1>1, ReceiveEffect DEF AccountedInv
<1>2. CASE i = taken + 1
  <2>1. kind[i] \in Kinds
    BY <1>2, ReceiveEffect DEF TypeOK
  <2> QED
    BY <1>2, <2>1, ReceiveEffect DEF Kinds
<1>3. CASE i \in 1..taken
  BY <1>3, ReceiveEffect DEF AccountedInv
<1> QED
  BY <1>2, <1>3, ReceiveEffect

\* AccountedInv survives the top of the worker's loop.
LEMMA AccountedTop ==
    ASSUME TypeOK, QueueInv, AccountedInv, LoopTop PROVE AccountedInv'
<1>1. CASE cancel
  BY <1>1, TopEffect DEF AccountedInv
<1>2. CASE ~cancel
  BY <1>2, TopEffect DEF AccountedInv
<1> QED
  BY <1>1, <1>2

\* AccountedInv survives a write.
LEMMA AccountedWrite ==
    ASSUME TypeOK, QueueInv, AccountedInv, WriteSucceeds PROVE AccountedInv'
<1>1. \A i : (\E n \in 1..Len(written) : written[n] = i) \/ i = item
                => \E n \in 1..Len(written') : written'[n] = i
  BY WriteEffect
<1> QED
  BY <1>1, WriteEffect DEF AccountedInv

\* A step that writes nothing keeps the order if a void slot stays void.
LEMMA OrderKept ==
    ASSUME TypeOK, QueueInv, WrittenInv, InOrder, UNCHANGED written,
           \A i \in 1..Len(kind) : kind'[i] = kind[i] /\ (slot[i] = "void" => slot'[i] = "void")
    PROVE  InOrder'
<1>1. \A n \in 1..Len(written) : \A i \in 1..(written[n] - 1) : i \in 1..Len(kind)
  BY Numbers, TakenIsSent DEF WrittenInv
<1> QED
  BY <1>1 DEF InOrder

\* InOrder survives a write.
LEMMA OrderWrite ==
    ASSUME TypeOK, QueueInv, SlotInv, WrittenInv, AccountedInv, InOrder, WriteSucceeds
    PROVE  InOrder'
<1> SUFFICES ASSUME NEW n \in 1..Len(written'), NEW i \in 1..(written'[n] - 1)
             PROVE  \/ kind[i] \in {"Resize", "Shutdown"}
                    \/ \E m \in 1..(n - 1) : written'[m] = i
                    \/ slot[i] = "void"
  BY WriteEffect DEF InOrder
<1>1. CASE n \in 1..Len(written)
  <2>1. \A m \in 1..(n - 1) : m \in 1..Len(written)
    BY <1>1, Numbers
  <2> QED
    BY <1>1, <2>1, WriteEffect DEF InOrder
<1>2. CASE n = Len(written) + 1
  <2>1. i \in 1..taken /\ i # item /\ i # pending /\ ~stopping /\ cpc # "end"
    <3>1. item = taken /\ pending = 0 /\ ~stopping /\ cpc # "end"
      BY WriteEffect DEF QueueInv
    <3>2. i \in 1..(taken - 1)
      BY <1>2, <3>1, WriteEffect
    <3> QED
      BY <3>1, <3>2, TakenIsSent
  <2>2. 1..(n - 1) = 1..Len(written)
    BY <1>2, WriteEffect
  <2>3. \/ kind[i] \in {"Resize", "Shutdown"}
        \/ \E m \in 1..Len(written) : written[m] = i
        \/ slot[i] = "void"
    BY <2>1 DEF AccountedInv
  <2> QED
    BY <2>2, <2>3, WriteEffect
<1> QED
  BY <1>1, <1>2, WriteEffect

-----------------------------------------------------------------------------
(* One step. *)

\* A step keeps every variable in its type.
LEMMA TypeStep == TypeOK /\ QueueInv /\ [Next]_vars => TypeOK'
<1> SUFFICES ASSUME TypeOK, QueueInv, [Next]_vars PROVE TypeOK'
  OBVIOUS
<1> USE CapacityAssumption, FalseIsBoolean DEF TypeOK, Items, Kinds, QueueInv, taken, control
<1>1. ASSUME NEW k \in Kinds, SendCommand(k) PROVE TypeOK'
  BY <1>1 DEF SendCommand
<1>2. ASSUME NEW i \in Items, Publish(i) PROVE TypeOK'
  BY <1>2 DEF Publish, Resolve
<1>3. ASSUME NEW i \in Items, Void(i) PROVE TypeOK'
  BY <1>3 DEF Void, Resolve
<1>4. ASSUME Cancel PROVE TypeOK'
  BY <1>4 DEF Cancel
<1>5. ASSUME LoopTop PROVE TypeOK'
  <2>1. stopping' \in BOOLEAN /\ cancel' \in BOOLEAN /\ reads' \in BOOLEAN
    BY <1>5, Zenon DEF LoopTop
  <2>2. slot' \in [Items -> {"none", "open", "published", "void", "delivered", "discarded"}]
    BY <1>5 DEF LoopTop, DropPending
  <2>3. pending' \in 0..MaxItems /\ cpc' = "receive" /\ UNCHANGED <<queue, kind, item, written>>
    BY <1>5 DEF LoopTop
  <2> QED
    BY <2>1, <2>2, <2>3
<1>6. ASSUME PollPending PROVE TypeOK'
  BY <1>6 DEF PollPending
<1>7. ASSUME Receive PROVE TypeOK'
  BY <1>7, SMTT(30) DEF Receive
<1>8. ASSUME ReceiveNothing PROVE TypeOK'
  BY <1>8 DEF ReceiveNothing
<1>9. ASSUME WriteSucceeds PROVE TypeOK'
  BY <1>9 DEF WriteSucceeds
<1>10. ASSUME StillRunning PROVE TypeOK'
  BY <1>10 DEF StillRunning
<1>11. ASSUME Return PROVE TypeOK'
  BY <1>11 DEF Return, DropPending
<1>12. ASSUME WriteFails PROVE TypeOK'
  BY <1>12 DEF WriteFails
<1>13. ASSUME ChildExited PROVE TypeOK'
  BY <1>13 DEF ChildExited
<1>16. ASSUME TerminalTurns PROVE TypeOK'
  BY <1>16 DEF TerminalTurns
<1>14. CASE UNCHANGED vars
  BY <1>14 DEF vars
<1> HIDE DEF TypeOK, Items, Kinds, QueueInv, taken
<1>15. CASE Control
  BY <1>5, <1>6, <1>7, <1>8, <1>10, <1>11, <1>15 DEF Control
<1> QED
  BY <1>1, <1>2, <1>3, <1>4, <1>9, <1>12, <1>13, <1>14, <1>15, <1>16 DEF Next, Write

\* A step takes the next command, and only when nothing is pending.
LEMMA QueueStep == TypeOK /\ QueueInv /\ [Next]_vars => QueueInv'
<1> SUFFICES ASSUME TypeOK, QueueInv, [Next]_vars PROVE QueueInv'
  OBVIOUS
<1> USE CapacityAssumption DEF TypeOK, Items, Kinds, QueueInv, taken, control
<1>1. ASSUME NEW k \in Kinds, SendCommand(k) PROVE QueueInv'
  BY <1>1, QueueSend
<1>2. ASSUME NEW i \in Items, Publish(i) PROVE QueueInv'
  BY <1>2 DEF Publish, Resolve
<1>3. ASSUME NEW i \in Items, Void(i) PROVE QueueInv'
  BY <1>3 DEF Void, Resolve
<1>4. ASSUME Cancel PROVE QueueInv'
  BY <1>4 DEF Cancel
<1>5. ASSUME LoopTop PROVE QueueInv'
  BY <1>5 DEF LoopTop, DropPending
<1>6. ASSUME PollPending PROVE QueueInv'
  BY <1>6 DEF PollPending
<1>7. ASSUME Receive PROVE QueueInv'
  BY <1>7, QueueReceive
<1>8. ASSUME ReceiveNothing PROVE QueueInv'
  BY <1>8 DEF ReceiveNothing
<1>9. ASSUME WriteSucceeds PROVE QueueInv'
  BY <1>9 DEF WriteSucceeds
<1>10. ASSUME StillRunning PROVE QueueInv'
  BY <1>10 DEF StillRunning
<1>11. ASSUME Return PROVE QueueInv'
  BY <1>11 DEF Return, DropPending
<1>12. ASSUME WriteFails PROVE QueueInv'
  BY <1>12 DEF WriteFails
<1>13. ASSUME ChildExited PROVE QueueInv'
  BY <1>13 DEF ChildExited
<1>16. ASSUME TerminalTurns PROVE QueueInv'
  BY <1>16 DEF TerminalTurns
<1>14. CASE UNCHANGED vars
  BY <1>14 DEF vars
<1> HIDE DEF TypeOK, Items, Kinds, QueueInv, taken
<1>15. CASE Control
  BY <1>5, <1>6, <1>7, <1>8, <1>10, <1>11, <1>15 DEF Control
<1> QED
  BY <1>1, <1>2, <1>3, <1>4, <1>9, <1>12, <1>13, <1>14, <1>15, <1>16 DEF Next, Write

\* A step that takes, polls or drops a reservation decides it.
LEMMA SlotStep == TypeOK /\ QueueInv /\ SlotInv /\ [Next]_vars => SlotInv'
<1> SUFFICES ASSUME TypeOK, QueueInv, SlotInv, [Next]_vars PROVE SlotInv'
  OBVIOUS
<1> USE CapacityAssumption DEF TypeOK, Items, Kinds, QueueInv, SlotInv, taken, control
<1>1. ASSUME NEW k \in Kinds, SendCommand(k) PROVE SlotInv'
  BY <1>1, SlotSend
<1>2. ASSUME NEW i \in Items, Publish(i) PROVE SlotInv'
  BY <1>2 DEF Publish, Resolve
<1>3. ASSUME NEW i \in Items, Void(i) PROVE SlotInv'
  BY <1>3 DEF Void, Resolve
<1>4. ASSUME Cancel PROVE SlotInv'
  BY <1>4 DEF Cancel
<1>5. ASSUME LoopTop PROVE SlotInv'
  BY <1>5, SlotLoopTop
<1>6. ASSUME PollPending PROVE SlotInv'
  BY <1>6 DEF PollPending
<1>7. ASSUME Receive PROVE SlotInv'
  BY <1>7, SlotReceive
<1>8. ASSUME ReceiveNothing PROVE SlotInv'
  BY <1>8 DEF ReceiveNothing
<1>9. ASSUME WriteSucceeds PROVE SlotInv'
  BY <1>9 DEF WriteSucceeds
<1>10. ASSUME StillRunning PROVE SlotInv'
  BY <1>10 DEF StillRunning
<1>11. ASSUME Return PROVE SlotInv'
  BY <1>11, SlotReturn
<1>12. ASSUME WriteFails PROVE SlotInv'
  BY <1>12 DEF WriteFails
<1>13. ASSUME ChildExited PROVE SlotInv'
  BY <1>13 DEF ChildExited
<1>16. ASSUME TerminalTurns PROVE SlotInv'
  BY <1>16 DEF TerminalTurns
<1>14. CASE UNCHANGED vars
  BY <1>14 DEF vars
<1> HIDE DEF TypeOK, Items, Kinds, QueueInv, SlotInv, taken
<1>15. CASE Control
  BY <1>5, <1>6, <1>7, <1>8, <1>10, <1>11, <1>15 DEF Control
<1> QED
  BY <1>1, <1>2, <1>3, <1>4, <1>9, <1>12, <1>13, <1>14, <1>15, <1>16 DEF Next, Write

\* A step writes after everything written before.
LEMMA WrittenStep == TypeOK /\ QueueInv /\ SlotInv /\ WrittenInv /\ [Next]_vars => WrittenInv'
<1> SUFFICES ASSUME TypeOK, QueueInv, SlotInv, WrittenInv, [Next]_vars PROVE WrittenInv'
  OBVIOUS
<1> USE CapacityAssumption DEF TypeOK, Items, Kinds, QueueInv, SlotInv, WrittenInv, taken, control
<1>1. ASSUME NEW k \in Kinds, SendCommand(k) PROVE WrittenInv'
  BY <1>1, WrittenSend
<1>2. ASSUME NEW i \in Items, Publish(i) PROVE WrittenInv'
  BY <1>2 DEF Publish, Resolve
<1>3. ASSUME NEW i \in Items, Void(i) PROVE WrittenInv'
  BY <1>3 DEF Void, Resolve
<1>4. ASSUME Cancel PROVE WrittenInv'
  BY <1>4 DEF Cancel
<1>5. ASSUME LoopTop PROVE WrittenInv'
  BY <1>5, WrittenTop
<1>6. ASSUME PollPending PROVE WrittenInv'
  BY <1>6, WrittenPoll
<1>7. ASSUME Receive PROVE WrittenInv'
  BY <1>7, WrittenReceive
<1>8. ASSUME ReceiveNothing PROVE WrittenInv'
  BY <1>8 DEF ReceiveNothing
<1>9. ASSUME WriteSucceeds PROVE WrittenInv'
  BY <1>9, WrittenWrite
<1>10. ASSUME StillRunning PROVE WrittenInv'
  BY <1>10 DEF StillRunning
<1>11. ASSUME Return PROVE WrittenInv'
  BY <1>11, WrittenReturn
<1>12. ASSUME WriteFails PROVE WrittenInv'
  BY <1>12 DEF WriteFails
<1>13. ASSUME ChildExited PROVE WrittenInv'
  BY <1>13 DEF ChildExited
<1>16. ASSUME TerminalTurns PROVE WrittenInv'
  BY <1>16 DEF TerminalTurns
<1>14. CASE UNCHANGED vars
  BY <1>14 DEF vars
<1> HIDE DEF TypeOK, Items, Kinds, QueueInv, SlotInv, WrittenInv, taken
<1>15. CASE Control
  BY <1>5, <1>6, <1>7, <1>8, <1>10, <1>11, <1>15 DEF Control
<1> QED
  BY <1>1, <1>2, <1>3, <1>4, <1>9, <1>12, <1>13, <1>14, <1>15, <1>16 DEF Next, Write

\* A step writes a committed reservation, or the session is being cancelled.
LEMMA CommittedStep == TypeOK /\ QueueInv /\ SlotInv /\ CommittedInv /\ [Next]_vars => CommittedInv'
<1> SUFFICES ASSUME TypeOK, QueueInv, SlotInv, CommittedInv, [Next]_vars PROVE CommittedInv'
  OBVIOUS
<1> USE CapacityAssumption DEF TypeOK, Items, Kinds, QueueInv, SlotInv, CommittedInv, taken, control
<1>1. ASSUME NEW k \in Kinds, SendCommand(k) PROVE CommittedInv'
  BY <1>1, CommittedSend
<1>2. ASSUME NEW i \in Items, Publish(i) PROVE CommittedInv'
  BY <1>2 DEF Publish, Resolve
<1>3. ASSUME NEW i \in Items, Void(i) PROVE CommittedInv'
  BY <1>3 DEF Void, Resolve
<1>4. ASSUME Cancel PROVE CommittedInv'
  BY <1>4 DEF Cancel
<1>5. ASSUME LoopTop PROVE CommittedInv'
  BY <1>5, CommittedTop
<1>6. ASSUME PollPending PROVE CommittedInv'
  BY <1>6, CommittedPoll
<1>7. ASSUME Receive PROVE CommittedInv'
  BY <1>7 DEF Receive
<1>8. ASSUME ReceiveNothing PROVE CommittedInv'
  BY <1>8 DEF ReceiveNothing
<1>9. ASSUME WriteSucceeds PROVE CommittedInv'
  BY <1>9, CommittedWrite
<1>10. ASSUME StillRunning PROVE CommittedInv'
  BY <1>10 DEF StillRunning
<1>11. ASSUME Return PROVE CommittedInv'
  BY <1>11, CommittedReturn
<1>12. ASSUME WriteFails PROVE CommittedInv'
  BY <1>12 DEF WriteFails
<1>13. ASSUME ChildExited PROVE CommittedInv'
  BY <1>13 DEF ChildExited
<1>16. ASSUME TerminalTurns PROVE CommittedInv'
  BY <1>16 DEF TerminalTurns
<1>14. CASE UNCHANGED vars
  BY <1>14 DEF vars
<1> HIDE DEF TypeOK, Items, Kinds, QueueInv, SlotInv, CommittedInv, taken
<1>15. CASE Control
  BY <1>5, <1>6, <1>7, <1>8, <1>10, <1>11, <1>15 DEF Control
<1> QED
  BY <1>1, <1>2, <1>3, <1>4, <1>9, <1>12, <1>13, <1>14, <1>15, <1>16 DEF Next, Write

\* A step leaves no command unaccounted for.
LEMMA AccountedStep == TypeOK /\ QueueInv /\ SlotInv /\ AccountedInv /\ [Next]_vars => AccountedInv'
<1> SUFFICES ASSUME TypeOK, QueueInv, SlotInv, AccountedInv, [Next]_vars PROVE AccountedInv'
  OBVIOUS
<1> USE CapacityAssumption DEF TypeOK, Items, Kinds, QueueInv, SlotInv, AccountedInv, taken, control
<1>1. ASSUME NEW k \in Kinds, SendCommand(k) PROVE AccountedInv'
  BY <1>1, AccountedSend
<1>2. ASSUME NEW i \in Items, Publish(i) PROVE AccountedInv'
  BY <1>2, AccountedResolve
<1>3. ASSUME NEW i \in Items, Void(i) PROVE AccountedInv'
  BY <1>3, AccountedResolve
<1>4. ASSUME Cancel PROVE AccountedInv'
  BY <1>4 DEF Cancel
<1>5. ASSUME LoopTop PROVE AccountedInv'
  BY <1>5, AccountedTop
<1>6. ASSUME PollPending PROVE AccountedInv'
  BY <1>6, AccountedPoll
<1>7. ASSUME Receive PROVE AccountedInv'
  BY <1>7, AccountedReceive
<1>8. ASSUME ReceiveNothing PROVE AccountedInv'
  BY <1>8 DEF ReceiveNothing
<1>9. ASSUME WriteSucceeds PROVE AccountedInv'
  BY <1>9, AccountedWrite
<1>10. ASSUME StillRunning PROVE AccountedInv'
  BY <1>10 DEF StillRunning
<1>11. ASSUME Return PROVE AccountedInv'
  BY <1>11 DEF Return, DropPending
<1>12. ASSUME WriteFails PROVE AccountedInv'
  BY <1>12 DEF WriteFails
<1>13. ASSUME ChildExited PROVE AccountedInv'
  BY <1>13 DEF ChildExited
<1>16. ASSUME TerminalTurns PROVE AccountedInv'
  BY <1>16 DEF TerminalTurns
<1>14. CASE UNCHANGED vars
  BY <1>14 DEF vars
<1> HIDE DEF TypeOK, Items, Kinds, QueueInv, SlotInv, AccountedInv, taken
<1>15. CASE Control
  BY <1>5, <1>6, <1>7, <1>8, <1>10, <1>11, <1>15 DEF Control
<1> QED
  BY <1>1, <1>2, <1>3, <1>4, <1>9, <1>12, <1>13, <1>14, <1>15, <1>16 DEF Next, Write

\* A step writes a command only when all before it are accounted for.
LEMMA OrderStep ==
    TypeOK /\ QueueInv /\ SlotInv /\ WrittenInv /\ AccountedInv /\ InOrder /\ [Next]_vars => InOrder'
<1> SUFFICES ASSUME TypeOK, QueueInv, SlotInv, WrittenInv, AccountedInv, InOrder, [Next]_vars
             PROVE  InOrder'
  OBVIOUS
<1>1. CASE WriteSucceeds
  BY <1>1, OrderWrite
<1>2. ASSUME NEW k \in Kinds, SendCommand(k) PROVE InOrder'
  <2>1. \A i \in 1..Len(kind) : kind'[i] = kind[i] /\ slot'[i] = slot[i]
    BY <1>2, SendEffect, TakenIsSent, Numbers
  <2> QED
    BY <1>2, <2>1, SendEffect, OrderKept
<1>3. ASSUME NEW i \in Items, Publish(i) \/ Void(i) PROVE InOrder'
  <2>1. \A j \in 1..Len(kind) : slot[j] = "void" => slot'[j] = "void"
    BY <1>3, TakenIsSent DEF Publish, Void, Resolve, TypeOK
  <2> QED
    BY <1>3, <2>1, OrderKept DEF Publish, Void, Resolve
<1>4. CASE LoopTop
  <2>1. \A i \in 1..Len(kind) : slot[i] = "void" => slot'[i] = "void"
    BY <1>4, TopEffect, TakenIsSent
  <2> QED
    BY <1>4, <2>1, TopEffect, OrderKept
<1>5. CASE PollPending
  <2>1. \A i \in 1..Len(kind) : slot[i] = "void" => slot'[i] = "void"
    BY <1>5, PollEffect, TakenIsSent
  <2> QED
    BY <1>5, <2>1, PollEffect, OrderKept
<1>6. CASE Return
  <2>1. \A i \in 1..Len(kind) : slot[i] = "void" => slot'[i] = "void"
    BY <1>6, ReturnEffect, TakenIsSent
  <2> QED
    BY <1>6, <2>1, ReturnEffect, OrderKept
<1>7. CASE UNCHANGED <<kind, slot, written>>
  BY <1>7, OrderKept
<1>8. CASE Cancel \/ Receive \/ ReceiveNothing \/ StillRunning \/ WriteFails \/ ChildExited
           \/ TerminalTurns \/ UNCHANGED vars
  BY <1>7, <1>8 DEF Cancel, Receive, ReceiveNothing, StillRunning, WriteFails, ChildExited,
     TerminalTurns, vars
<1> QED
  BY <1>1, <1>2, <1>3, <1>4, <1>5, <1>6, <1>8 DEF Next, Control, Write

-----------------------------------------------------------------------------

\* The parts together: what the proofs below carry from step to step.
OrderInv ==
    /\ TypeOK /\ QueueInv /\ SlotInv /\ WrittenInv /\ CommittedInv /\ AccountedInv
    /\ InOrder

\* A session whose queue is empty and where nothing was written satisfies it.
LEMMA InitOrder == Init => OrderInv
<1> SUFFICES ASSUME Init PROVE OrderInv
  OBVIOUS
<1>1. TypeOK
  BY CapacityAssumption, FalseIsBoolean DEF Init, TypeOK, Items, Kinds
<1>2. QueueInv /\ SlotInv
  BY CapacityAssumption DEF Init, QueueInv, SlotInv, taken, Items
<1>3. WrittenInv /\ CommittedInv /\ AccountedInv /\ InOrder
  BY DEF Init, WrittenInv, CommittedInv, AccountedInv, InOrder, taken
<1> QED
  BY <1>1, <1>2, <1>3 DEF OrderInv

\* The inductive invariant holds in every reachable state of the input queue.
THEOREM OrderInvariant == Spec => []OrderInv
<1>1. OrderInv /\ [Next]_vars => OrderInv'
  BY TypeStep, QueueStep, SlotStep, WrittenStep, CommittedStep, AccountedStep, OrderStep
     DEF OrderInv
<1> QED
  BY <1>1, InitOrder, PTL DEF Spec

\* Input keeps its place: nothing is written before an earlier input or an
\* earlier reservation that may still be committed.
THEOREM InputKeepsItsPlace == Spec => []NothingOvertakes
<1>1. OrderInv => NothingOvertakes
  BY SMTT(30) DEF OrderInv, TypeOK, InOrder, NothingOvertakes
<1> QED
  BY <1>1, OrderInvariant, PTL

\* What automation writes was committed, and is written once; what was
\* committed is written unless the session ends; and the worker leaves no
\* reservation open.
THEOREM ReservationsAreHonoured == Spec => []InputInv
<1>1. OrderInv => InputInv
  <2> SUFFICES ASSUME OrderInv PROVE InputInv
    OBVIOUS
  <2>1. AutomationIsExact
    <3>1. TypeOK /\ WrittenInv /\ CommittedInv
      BY DEF OrderInv
    <3>2. DOMAIN written = 1..Len(written) /\ Sent = 1..Len(kind)
      BY <3>1 DEF TypeOK, Sent
    <3>3. ASSUME NEW m \in 1..Len(written), NEW n \in 1..Len(written), written[m] = written[n]
          PROVE  m = n
      <4>1. ~(m < n) /\ ~(n < m)
        BY <3>1, <3>3, Numbers DEF WrittenInv
      <4> QED
        BY <3>1, <4>1, Numbers
    <3> QED
      BY <3>1, <3>2, <3>3 DEF WrittenInv, CommittedInv, AutomationIsExact
  <2>2. NoOrphanedReservation
    <3> SUFFICES ASSUME cpc = "end", NEW i \in Sent PROVE slot[i] \notin {"open", "published"}
      BY DEF NoOrphanedReservation
    <3>1. TypeOK /\ QueueInv /\ SlotInv
      BY DEF OrderInv
    <3>2. queue = <<>> /\ pending = 0
      BY <3>1 DEF QueueInv
    <3>3. i \in 1..Len(kind) /\ i \in Items /\ i \in Nat /\ i # 0
      BY <3>1, TakenIsSent DEF TypeOK, Sent
    <3>4. taken = Len(kind)
      BY <3>1, <3>2, Numbers DEF taken
    <3> QED
      BY <3>1, <3>2, <3>3, <3>4, Numbers DEF SlotInv
  <2> QED
    BY <2>1, <2>2 DEF OrderInv, InputInv
<1> QED
  BY <1>1, OrderInvariant, PTL

-----------------------------------------------------------------------------
(* The event queue. *)


\* The last chunk that has left the reader's hands.
Last == IF rpc = "read" THEN chunk ELSE chunk - 1

\* The chunks in the log are increasing and without a gap.
LogInv ==
    \A i \in DOMAIN log : log[i].kind = "Output" =>
        /\ \A j \in DOMAIN log : log[j].kind = "Output" /\ j < i => log[j].chunk < log[i].chunk
        /\ SentUpTo(log[i].chunk, log)
        /\ log[i].chunk <= Last

\* While the reader tries to send a chunk, all chunks before it are in the
\* log; only a cancellation ends the attempts, and only it closes the queue.
ReaderInv ==
    /\ rpc # "read" => chunk # 0
    /\ rpc # "read" \/ ~cancelled => SentUpTo(Last, log)
    /\ ~open => cancelled

\* A notice is the last word of the log: no output came after it.
Announced ==
    \E j \in DOMAIN log :
        /\ log[j].kind = "Backpressure"
        /\ \A k \in DOMAIN log : k >= j => log[k].kind # "Output"

\* A stalled chunk is tried again only after its notice.
NoticeInv ==
    /\ rpc = "output" /\ stalled => noticed
    /\ noticed /\ rpc # "read" => Announced

-----------------------------------------------------------------------------
(* Events and the log. *)

\* The three kinds of event, told apart by their fields.
LEMMA EventFields ==
    /\ Notice \in Events /\ Notice.kind = "Backpressure"
    /\ Other \in Events /\ Other.kind = "Other"
    /\ \A n \in 1..MaxChunks, late \in BOOLEAN :
          /\ Output(n, late) \in Events /\ Output(n, late).kind = "Output"
          /\ Output(n, late).chunk = n /\ Output(n, late).late = late
<1>1. Notice \in Events /\ Notice.kind = "Backpressure"
  BY DEF Notice, Events
<1>2. Other \in Events /\ Other.kind = "Other"
  BY DEF Other, Events
<1>3. ASSUME NEW n \in 1..MaxChunks, NEW late \in BOOLEAN
      PROVE  /\ Output(n, late) \in Events /\ Output(n, late).kind = "Output"
             /\ Output(n, late).chunk = n /\ Output(n, late).late = late
  <2>1. Output(n, late) \in Events
    BY DEF Events
  <2>2. Output(n, late).kind = "Output" /\ Output(n, late).chunk = n /\ Output(n, late).late = late
    BY DEF Output
  <2> QED
    BY <2>1, <2>2
<1> QED
  BY <1>1, <1>2, <1>3

\* An output event of the log carries the number of a chunk.
LEMMA ChunkIsNumber ==
    ASSUME OutputTypeOK, NEW i \in DOMAIN log, log[i].kind = "Output" PROVE log[i].chunk \in 1..MaxChunks
<1>1. log[i] \in Events
  BY DEF OutputTypeOK
<1> QED
  BY <1>1 DEF Events, Notice, Other, Output

\* The types, in the form the proofs need.
LEMMA EventNumbers ==
    ASSUME OutputTypeOK
    PROVE  /\ Len(events) \in Nat /\ Len(log) \in Nat /\ DOMAIN log = 1..Len(log)
           /\ chunk \in Nat /\ depth \in Nat /\ high \in Nat
BY EventAssumption DEF OutputTypeOK

\* A successful try_send puts one event behind the others.
LEMMA EmitEffect ==
    ASSUME OutputTypeOK, NEW e \in Events, Send(e)
    PROVE  /\ events' \in Seq(Events) /\ Len(events') = Len(events) + 1
           /\ log' \in Seq(Events) /\ Len(log') = Len(log) + 1
           /\ \A i \in DOMAIN log : i \in DOMAIN log' /\ log'[i] = log[i] /\ i < Len(log) + 1
           /\ Len(log) + 1 \in DOMAIN log' /\ log'[Len(log) + 1] = e
           /\ \A i \in DOMAIN log' : i \in DOMAIN log \/ i = Len(log) + 1
<1>1. events' \in Seq(Events) /\ Len(events') = Len(events) + 1
  BY DEF OutputTypeOK, Send
<1>2. log' \in Seq(Events) /\ Len(log') = Len(log) + 1 /\ Len(log) \in Nat
  BY DEF OutputTypeOK, Send
<1>3. (\A i \in 1..Len(log) : log'[i] = log[i]) /\ log'[Len(log) + 1] = e
  BY DEF OutputTypeOK, Send
<1>4. DOMAIN log = 1..Len(log) /\ DOMAIN log' = 1..(Len(log) + 1)
  BY <1>2 DEF OutputTypeOK
<1> QED
  BY <1>1, <1>2, <1>3, <1>4

\* What was sent stays sent.
LEMMA SentStays ==
    ASSUME OutputTypeOK, NEW n, SentUpTo(n, log), log' = log \/ \E e \in Events : Send(e)
    PROVE  SentUpTo(n, log')
<1>1. \A i \in DOMAIN log : i \in DOMAIN log' /\ log'[i] = log[i]
  BY EmitEffect
<1> QED
  BY <1>1 DEF SentUpTo

\* A step leaves the log alone or appends one event to it; only the reader
\* appends output, the chunk in its hands.
LEMMA LogStep ==
    ASSUME OutputTypeOK, ReaderInv, [OutputNext]_outputVars
    PROVE  \/ log' = log
           \/ Send(Other) /\ UNCHANGED <<rpc, chunk, cancelled, stalled, noticed>>
           \/ Send(Notice) /\ rpc = "notice" /\ rpc' = "check" /\ UNCHANGED <<chunk, cancelled, stalled>>
           \/ /\ Send(Output(chunk, stalled)) /\ Output(chunk, stalled) \in Events
              /\ rpc = "output" /\ rpc' = "read" /\ chunk \in 1..MaxChunks
              /\ UNCHANGED <<chunk, cancelled, noticed>>
<1>1. CASE Read \/ Check \/ TakeEvent \/ CountEvent \/ RequestStop \/ Close \/ UNCHANGED outputVars
  BY <1>1 DEF Read, Check, TakeEvent, CountEvent, RequestStop, Close, outputVars, flow
<1>2. CASE EmitNotice
  BY <1>2 DEF EmitNotice, ReaderGoto, TryEmit, flow
<1>3. CASE EmitOther
  BY <1>3 DEF EmitOther, TryEmit, flow
<1>4. CASE EmitOutput
  <2>1. CASE HasRoom
    <3>1. rpc = "output" /\ chunk \in 1..MaxChunks
      BY <1>4, EventNumbers, EventAssumption DEF EmitOutput, ReaderGoto, ReaderInv, OutputTypeOK
    <3>2. Output(chunk, stalled) \in Events
      BY <3>1, EventFields DEF OutputTypeOK
    <3> QED
      BY <1>4, <2>1, <3>1, <3>2 DEF EmitOutput, ReaderGoto
  <2>2. CASE ~HasRoom
    BY <1>4, <2>2 DEF EmitOutput, flow
  <2> QED
    BY <2>1, <2>2
<1> QED
  BY <1>1, <1>2, <1>3, <1>4 DEF OutputNext, Reader, Consumer

-----------------------------------------------------------------------------
(* One step. *)

\* A step keeps every variable in its type.
LEMMA OutputTypeStep == OutputTypeOK /\ ReaderInv /\ [OutputNext]_outputVars => OutputTypeOK'
<1> SUFFICES ASSUME OutputTypeOK, ReaderInv, [OutputNext]_outputVars PROVE OutputTypeOK'
  OBVIOUS
<1>1. CASE Read
  BY <1>1, EventAssumption, FalseIsBoolean DEF Read, ReaderGoto, OutputTypeOK, flow
<1>2. CASE Check
  BY <1>2 DEF Check, ReaderGoto, OutputTypeOK, flow
<1>3. ASSUME NEW e \in Events, Send(e), HasRoom
      PROVE  /\ events' \in Seq(Events) /\ Len(events') <= EventCapacity
             /\ log' \in Seq(Events) /\ depth' \in Nat /\ high' \in Nat
  BY <1>3, EmitEffect, EventAssumption DEF Send, HasRoom, OutputTypeOK
<1>4. ASSUME NEW e \in Events, TryEmit(e)
      PROVE  /\ events' \in Seq(Events) /\ Len(events') <= EventCapacity
             /\ log' \in Seq(Events) /\ depth' \in Nat /\ high' \in Nat
  BY <1>3, <1>4 DEF TryEmit, OutputTypeOK, flow
<1>5. CASE EmitNotice
  <2>1. noticed' \in BOOLEAN
    BY <1>5 DEF EmitNotice, HasRoom, OutputTypeOK
  <2> QED
    BY <1>4, <1>5, <2>1, EventFields DEF EmitNotice, ReaderGoto, OutputTypeOK
<1>6. CASE EmitOutput
  <2>1. /\ events' \in Seq(Events) /\ Len(events') <= EventCapacity
        /\ log' \in Seq(Events) /\ depth' \in Nat /\ high' \in Nat
    <3>1. chunk \in 1..MaxChunks
      BY <1>6, EventAssumption DEF EmitOutput, ReaderGoto, ReaderInv, OutputTypeOK
    <3>2. Output(chunk, stalled) \in Events
      BY <3>1, EventFields DEF OutputTypeOK
    <3> QED
      BY <1>3, <1>6, <3>2 DEF EmitOutput, OutputTypeOK, flow
  <2>2. stalled' \in BOOLEAN
    BY <1>6 DEF EmitOutput, HasRoom, OutputTypeOK
  <2> QED
    BY <1>6, <2>1, <2>2 DEF EmitOutput, ReaderGoto, OutputTypeOK
<1>7. CASE EmitOther
  BY <1>4, <1>7, EventFields, EventAssumption DEF EmitOther, OutputTypeOK
<1>8. CASE TakeEvent
  <2>1. events' \in Seq(Events) /\ Len(events') <= EventCapacity
    BY <1>8, EventAssumption DEF TakeEvent, OutputTypeOK
  <2>2. taking' \in BOOLEAN /\ UNCHANGED <<depth, high, log, open, cancelled, rpc, chunk, stalled, noticed, others>>
    BY <1>8 DEF TakeEvent
  <2> QED
    BY <2>1, <2>2 DEF OutputTypeOK
<1>9. CASE CountEvent
  BY <1>9, FalseIsBoolean DEF CountEvent, OutputTypeOK
<1>10. CASE RequestStop
  BY <1>10 DEF RequestStop, OutputTypeOK, flow
<1>11. CASE Close
  BY <1>11, EventAssumption, FalseIsBoolean DEF Close, OutputTypeOK
<1>12. CASE UNCHANGED outputVars
  BY <1>12 DEF outputVars, flow, OutputTypeOK
<1> QED
  BY <1>1, <1>2, <1>5, <1>6, <1>7, <1>8, <1>9, <1>10, <1>11, <1>12 DEF OutputNext, Reader, Consumer

\* The consumer takes before it counts, and the producers count what they
\* send: a step keeps the depth exact.
LEMMA DepthStep == OutputTypeOK /\ DepthIsExact /\ ReaderInv /\ [OutputNext]_outputVars => DepthIsExact'
<1> SUFFICES ASSUME OutputTypeOK, DepthIsExact, ReaderInv, [OutputNext]_outputVars PROVE DepthIsExact'
  OBVIOUS
<1>1. ASSUME NEW e \in Events, Send(e), HasRoom, UNCHANGED <<open, taking>> PROVE DepthIsExact'
  <2>1. depth = Len(events) + (IF taking THEN 1 ELSE 0) /\ depth <= EventCapacity
    BY <1>1, EventNumbers, EventAssumption DEF DepthIsExact, HasRoom
  <2>2. depth' = depth + 1 /\ high' <= EventCapacity + 1
    BY <1>1, <2>1, EventNumbers, EventAssumption DEF DepthIsExact, Send
  <2>3. depth' = Len(events') + (IF taking' THEN 1 ELSE 0)
    BY <1>1, <2>1, <2>2, EmitEffect, EventNumbers
  <2> QED
    BY <2>2, <2>3 DEF DepthIsExact
<1>2. ASSUME UNCHANGED <<events, depth, high, open, taking>> PROVE DepthIsExact'
  BY <1>2 DEF DepthIsExact
<1>3. CASE Read \/ Check \/ RequestStop \/ UNCHANGED outputVars
  BY <1>2, <1>3 DEF Read, Check, RequestStop, outputVars, flow
<1>4. CASE EmitNotice \/ EmitOther
  BY <1>1, <1>2, <1>4, EventFields DEF EmitNotice, EmitOther, TryEmit, flow
<1>5. CASE EmitOutput
  <2>1. CASE HasRoom
    <3>1. chunk \in 1..MaxChunks
      BY <1>5, EventAssumption DEF EmitOutput, ReaderGoto, ReaderInv, OutputTypeOK
    <3>2. Output(chunk, stalled) \in Events
      BY <3>1, EventFields DEF OutputTypeOK
    <3> QED
      BY <1>1, <1>5, <2>1, <3>2 DEF EmitOutput
  <2>2. CASE ~HasRoom
    BY <1>2, <1>5, <2>2 DEF EmitOutput, flow
  <2> QED
    BY <2>1, <2>2
<1>6. CASE TakeEvent
  <2>1. Len(events') = Len(events) - 1 /\ open /\ ~taking /\ taking' /\ UNCHANGED <<depth, high, open>>
    BY <1>6 DEF TakeEvent, OutputTypeOK
  <2> QED
    BY <2>1, EventNumbers DEF DepthIsExact
<1>7. CASE CountEvent
  <2>1. taking /\ ~taking' /\ UNCHANGED <<events, high, open>>
    BY <1>7 DEF CountEvent
  <2>2. depth' = IF depth = 0 THEN 0 ELSE depth - 1
    BY <1>7 DEF CountEvent
  <2> QED
    BY <2>1, <2>2, EventNumbers DEF DepthIsExact
<1>8. CASE Close
  <2>1. ~open' /\ high' = high
    BY <1>8 DEF Close
  <2> QED
    BY <2>1 DEF DepthIsExact
<1> QED
  BY <1>3, <1>4, <1>5, <1>6, <1>7, <1>8 DEF OutputNext, Reader, Consumer

\* A step of the reader sends the chunk in its hands or, unless cancelled,
\* keeps trying.
LEMMA ReaderStep == OutputTypeOK /\ ReaderInv /\ [OutputNext]_outputVars => ReaderInv'
<1> SUFFICES ASSUME OutputTypeOK, ReaderInv, [OutputNext]_outputVars PROVE ReaderInv'
  OBVIOUS
<1>1. ASSUME NEW n, SentUpTo(n, log) PROVE SentUpTo(n, log')
  BY <1>1, LogStep, SentStays, EventFields
<1>2. CASE Read
  <2>1. rpc = "read" /\ chunk' = chunk + 1 /\ UNCHANGED <<cancelled, open, log>>
    BY <1>2 DEF Read, ReaderGoto, flow
  <2>2. CASE cancelled
    <3>1. rpc' = "read"
      BY <1>2, <2>2 DEF Read, ReaderGoto
    <3> QED
      BY <2>1, <2>2, <3>1 DEF ReaderInv
  <2>3. CASE ~cancelled
    <3>1. rpc' = "check" /\ chunk + 1 # 0 /\ (chunk + 1) - 1 = chunk
      BY <1>2, <2>3, EventNumbers DEF Read, ReaderGoto
    <3>2. Last = chunk /\ Last' = chunk
      BY <2>1, <3>1 DEF Last
    <3>3. SentUpTo(chunk, log')
      BY <1>1, <2>3, <3>2 DEF ReaderInv
    <3> QED
      BY <2>1, <2>3, <3>1, <3>2, <3>3 DEF ReaderInv
  <2> QED
    BY <2>2, <2>3
<1>3. CASE Check
  <2>1. rpc = "check" /\ rpc' \in {"read", "notice", "output"} /\ UNCHANGED <<chunk, cancelled, open>>
        /\ (rpc' = "read" => cancelled)
    BY <1>3 DEF Check, ReaderGoto
  <2>2. CASE rpc' = "read"
    BY <2>1, <2>2 DEF ReaderInv
  <2>3. CASE rpc' # "read"
    <3>1. Last' = Last
      BY <2>1, <2>3 DEF Last
    <3>2. SentUpTo(Last, log')
      BY <2>1, <3>1, <1>1 DEF ReaderInv
    <3> QED
      BY <2>1, <3>1, <3>2 DEF ReaderInv
  <2> QED
    BY <2>2, <2>3
<1>4. ASSUME UNCHANGED <<chunk, open>>, (rpc = "read") <=> (rpc' = "read"), cancelled => cancelled'
      PROVE  ReaderInv'
  <2>1. Last' = Last
    BY <1>4 DEF Last
  <2>2. rpc' # "read" \/ ~cancelled' => SentUpTo(Last', log')
    BY <1>1, <1>4, <2>1 DEF ReaderInv
  <2> QED
    BY <1>4, <2>1, <2>2 DEF ReaderInv
<1>5. CASE EmitNotice
  BY <1>4, <1>5 DEF EmitNotice, ReaderGoto
<1>6. CASE EmitOutput
  <2>1. rpc = "output" /\ chunk \in 1..MaxChunks /\ UNCHANGED <<chunk, cancelled, open>> /\ stalled \in BOOLEAN
    BY <1>6, EventAssumption DEF EmitOutput, ReaderGoto, ReaderInv, OutputTypeOK
  <2>2. CASE HasRoom
    <3>1. Send(Output(chunk, stalled)) /\ Output(chunk, stalled) \in Events /\ rpc' = "read"
          /\ Output(chunk, stalled).kind = "Output" /\ Output(chunk, stalled).chunk = chunk
      BY <1>6, <2>1, <2>2, EventFields DEF EmitOutput, ReaderGoto
    <3>2. SentUpTo(chunk - 1, log')
      BY <2>1, <1>1 DEF ReaderInv, Last
    <3>3. \E i \in DOMAIN log' : log'[i].kind = "Output" /\ log'[i].chunk = chunk
      BY <3>1, EmitEffect
    <3>4. SentUpTo(chunk, log')
      BY <2>1, <3>2, <3>3, EventAssumption DEF SentUpTo
    <3>5. Last' = chunk
      BY <2>1, <3>1 DEF Last
    <3> QED
      BY <2>1, <3>1, <3>4, <3>5 DEF ReaderInv
  <2>3. CASE ~HasRoom /\ open
    BY <1>4, <1>6, <2>1, <2>3 DEF EmitOutput, ReaderGoto
  <2>4. CASE ~open
    <3>1. cancelled /\ rpc' = "read"
      BY <1>6, <2>4 DEF EmitOutput, ReaderGoto, ReaderInv
    <3> QED
      BY <2>1, <3>1 DEF ReaderInv
  <2> QED
    BY <2>2, <2>3, <2>4
<1>7. CASE EmitOther \/ TakeEvent \/ CountEvent \/ UNCHANGED outputVars
  BY <1>4, <1>7 DEF EmitOther, TakeEvent, CountEvent, outputVars
<1>8. CASE RequestStop
  BY <1>4, <1>8 DEF RequestStop
<1>9. CASE Close
  <2>1. cancelled /\ UNCHANGED <<rpc, chunk, cancelled>>
    BY <1>9 DEF Close
  <2>2. Last' = Last
    BY <2>1 DEF Last
  <2> QED
    BY <1>1, <2>1, <2>2 DEF ReaderInv
<1> QED
  BY <1>2, <1>3, <1>5, <1>6, <1>7, <1>8, <1>9 DEF OutputNext, Reader, Consumer

\* A step appends the next chunk, if any.
LEMMA LogInvStep == OutputTypeOK /\ ReaderInv /\ LogInv /\ [OutputNext]_outputVars => LogInv'
<1> SUFFICES ASSUME OutputTypeOK, ReaderInv, LogInv, [OutputNext]_outputVars PROVE LogInv'
  OBVIOUS
<1>1. ASSUME NEW n, SentUpTo(n, log) PROVE SentUpTo(n, log')
  BY <1>1, LogStep, SentStays, EventFields
<1>2. Last \in Nat /\ Last' \in Nat /\ Last <= Last'
  <2>1. Last \in Nat
    BY EventNumbers DEF Last, ReaderInv
  <2>2. OutputTypeOK' /\ ReaderInv'
    BY OutputTypeStep, ReaderStep
  <2>3. chunk' \in Nat /\ Last' \in Nat
    <3>1. chunk' \in Nat /\ (rpc' # "read" => chunk' # 0)
      BY <2>2, EventAssumption DEF OutputTypeOK, ReaderInv
    <3>2. CASE rpc' = "read"
      BY <3>1, <3>2 DEF Last
    <3>3. CASE rpc' # "read"
      <4>1. \A n \in Nat : n # 0 => n - 1 \in Nat
        OBVIOUS
      <4>2. chunk' - 1 \in Nat
        BY <3>1, <3>3, <4>1
      <4> QED
        BY <3>1, <3>3, <4>2 DEF Last
    <3> QED
      BY <3>2, <3>3
  <2>4. CASE Read
    BY <2>1, <2>3, <2>4, EventNumbers DEF Read, ReaderGoto, Last
  <2>5. CASE Check \/ EmitNotice \/ EmitOutput
    BY <2>1, <2>3, <2>5, EventNumbers DEF Check, EmitNotice, EmitOutput, ReaderGoto, Last
  <2>6. CASE UNCHANGED <<rpc, chunk>>
    BY <2>1, <2>6 DEF Last
  <2> QED
    BY <2>1, <2>3, <2>4, <2>5, <2>6
       DEF OutputNext, Reader, Consumer, EmitOther, TakeEvent, CountEvent, RequestStop, Close, outputVars
<1>3. ASSUME NEW i \in DOMAIN log, log[i].kind = "Output"
      PROVE  /\ log[i].chunk \in Nat /\ log[i].chunk <= Last /\ log[i].chunk <= Last'
             /\ SentUpTo(log[i].chunk, log')
             /\ \A j \in DOMAIN log : log[j].kind = "Output" /\ j < i => log[j].chunk < log[i].chunk
  BY <1>1, <1>2, <1>3, ChunkIsNumber, EventAssumption DEF LogInv
<1>4. CASE log' = log
  BY <1>3, <1>4 DEF LogInv
<1>5. ASSUME NEW e \in Events, Send(e), e.kind # "Output" PROVE LogInv'
  <2> SUFFICES ASSUME NEW i \in DOMAIN log', log'[i].kind = "Output"
               PROVE  /\ \A j \in DOMAIN log' : log'[j].kind = "Output" /\ j < i => log'[j].chunk < log'[i].chunk
                      /\ SentUpTo(log[i].chunk, log')
                      /\ i \in DOMAIN log /\ log'[i].chunk <= Last'
    BY <1>5, EmitEffect DEF LogInv
  <2>1. i \in DOMAIN log /\ log'[i] = log[i] /\ log[i].kind = "Output"
    BY <1>5, EmitEffect
  <2>2. \A j \in DOMAIN log' : log'[j].kind = "Output" => j \in DOMAIN log /\ log'[j] = log[j] /\ log[j].kind = "Output"
    BY <1>5, EmitEffect
  <2> QED
    BY <1>3, <2>1, <2>2
<1>6. ASSUME Send(Output(chunk, stalled)), rpc = "output", rpc' = "read", chunk' = chunk,
             Output(chunk, stalled) \in Events, chunk \in 1..MaxChunks
      PROVE  LogInv'
  <2>1. Output(chunk, stalled).kind = "Output" /\ Output(chunk, stalled).chunk = chunk
    BY <1>6, EventFields DEF OutputTypeOK
  <2>2. Last = chunk - 1 /\ Last' = chunk /\ chunk \in Nat
    BY <1>6, EventNumbers DEF Last
  <2>3. SentUpTo(chunk, log')
    <3>1. ReaderInv' /\ rpc' = "read"
      BY <1>6, ReaderStep
    <3>2. SentUpTo(chunk - 1, log')
      BY <1>1, <1>6, <2>2 DEF ReaderInv
    <3>3. \E i \in DOMAIN log' : log'[i].kind = "Output" /\ log'[i].chunk = chunk
      BY <1>6, <2>1, EmitEffect
    <3> QED
      BY <2>2, <3>2, <3>3 DEF SentUpTo
  <2>4. ASSUME NEW i \in DOMAIN log, log[i].kind = "Output"
        PROVE  /\ i \in DOMAIN log' /\ log'[i] = log[i] /\ i < Len(log) + 1
               /\ log[i].chunk < chunk
    BY <1>3, <1>6, <2>2, <2>4, EmitEffect
  <2> SUFFICES ASSUME NEW i \in DOMAIN log', log'[i].kind = "Output"
               PROVE  /\ \A j \in DOMAIN log' :
                            log'[j].kind = "Output" /\ j < i => log'[j].chunk < log'[i].chunk
                      /\ SentUpTo(log'[i].chunk, log')
                      /\ log'[i].chunk <= Last'
    BY DEF LogInv
  <2>5. CASE i \in DOMAIN log
    <3>1. log'[i] = log[i] /\ i < Len(log) + 1 /\ i \in Nat
      BY <1>6, <2>5, EmitEffect, EventNumbers
    <3>2. \A j \in DOMAIN log' : j < i => j \in DOMAIN log /\ log'[j] = log[j]
      BY <1>6, <3>1, EmitEffect, EventNumbers
    <3> QED
      BY <1>3, <2>5, <3>1, <3>2
  <2>6. CASE i = Len(log) + 1
    <3>1. log'[i].chunk = chunk
      BY <1>6, <2>1, <2>6, EmitEffect
    <3>2. \A j \in DOMAIN log' : j < i => j \in DOMAIN log /\ log'[j] = log[j]
      BY <1>6, <2>6, EmitEffect, EventNumbers
    <3> QED
      BY <2>2, <2>3, <2>4, <3>1, <3>2
  <2> QED
    BY <1>6, <2>5, <2>6, EmitEffect
<1> QED
  BY <1>4, <1>5, <1>6, LogStep, EventFields

\* A notice stays the last word until the chunk it announces is sent.
LEMMA NoticeStep == OutputTypeOK /\ ReaderInv /\ NoticeInv /\ [OutputNext]_outputVars => NoticeInv'
<1> SUFFICES ASSUME OutputTypeOK, ReaderInv, NoticeInv, [OutputNext]_outputVars PROVE NoticeInv'
  OBVIOUS
<1>1. ASSUME NEW e \in Events, Send(e), e.kind # "Output", Announced PROVE Announced'
  BY <1>1, EmitEffect DEF Announced
<1>2. ASSUME Send(Notice) PROVE Announced'
  <2>1. \A k \in DOMAIN log' : k >= Len(log) + 1 => log'[k] = Notice
    BY <1>2, EventFields, EmitEffect, EventNumbers
  <2> QED
    BY <1>2, <2>1, EventFields, EmitEffect DEF Announced
<1>3. ASSUME log' = log, Announced PROVE Announced'
  BY <1>3 DEF Announced
<1>4. CASE Read
  <2>1. ~noticed' /\ rpc' # "output"
    BY <1>4 DEF Read, ReaderGoto
  <2> QED
    BY <2>1 DEF NoticeInv
<1>5. CASE Check
  <2>1. rpc = "check" /\ UNCHANGED <<stalled, noticed, log>>
    BY <1>5 DEF Check, ReaderGoto, flow
  <2>2. rpc' = "output" /\ stalled => noticed
    BY <1>5, Zenon DEF Check, ReaderGoto
  <2> QED
    BY <1>3, <2>1, <2>2 DEF NoticeInv
<1>6. CASE EmitNotice
  <2>1. rpc' = "check"
    BY <1>6 DEF EmitNotice, ReaderGoto
  <2>2. CASE HasRoom
    <3>1. Send(Notice)
      BY <1>6, <2>2 DEF EmitNotice, TryEmit
    <3> QED
      BY <1>2, <2>1, <3>1 DEF NoticeInv
  <2>3. CASE ~HasRoom
    <3>1. ~noticed'
      BY <1>6, <2>3 DEF EmitNotice
    <3> QED
      BY <2>1, <3>1 DEF NoticeInv
  <2> QED
    BY <2>2, <2>3
<1>7. CASE EmitOutput
  <2>1. rpc = "output" /\ rpc' # "output" /\ noticed' = noticed
    BY <1>7 DEF EmitOutput, ReaderGoto
  <2>2. rpc' # "read" => log' = log
    BY <1>7 DEF EmitOutput, ReaderGoto, flow
  <2> QED
    BY <1>3, <2>1, <2>2 DEF NoticeInv
<1>8. CASE EmitOther
  <2>1. UNCHANGED <<rpc, stalled, noticed>> /\ (log' = log \/ Send(Other))
    BY <1>8 DEF EmitOther, TryEmit, flow
  <2> QED
    BY <1>1, <1>3, <2>1, EventFields DEF NoticeInv
<1>9. CASE TakeEvent \/ CountEvent \/ RequestStop \/ Close \/ UNCHANGED outputVars
  <2>1. UNCHANGED <<rpc, stalled, noticed, log>>
    BY <1>9 DEF TakeEvent, CountEvent, RequestStop, Close, outputVars, flow
  <2> QED
    BY <1>3, <2>1 DEF NoticeInv
<1> QED
  BY <1>4, <1>5, <1>6, <1>7, <1>8, <1>9 DEF OutputNext, Reader, Consumer

\* Only a stalled chunk needs a notice before it, and it is sent behind one.
LEMMA GapStep == OutputTypeOK /\ ReaderInv /\ NoticeInv /\ NoUnexplainedGap /\ [OutputNext]_outputVars => NoUnexplainedGap'
<1> SUFFICES ASSUME OutputTypeOK, ReaderInv, NoticeInv, NoUnexplainedGap, [OutputNext]_outputVars
             PROVE  NoUnexplainedGap'
  OBVIOUS
<1>1. CASE log' = log
  BY <1>1 DEF NoUnexplainedGap
<1>2. ASSUME NEW e \in Events, Send(e), e.kind = "Output" /\ e.late => Announced
      PROVE  NoUnexplainedGap'
  <2> SUFFICES ASSUME NEW i \in DOMAIN log', log'[i].kind = "Output", log'[i].late
               PROVE  \E j \in 1..(i - 1) :
                         /\ log'[j].kind = "Backpressure"
                         /\ \A k \in j..(i - 1) : log'[k].kind # "Output"
    BY DEF NoUnexplainedGap
  <2>1. CASE i \in DOMAIN log
    <3>1. i \in 1..Len(log) /\ Len(log) \in Nat /\ log'[i] = log[i]
      BY <1>2, <2>1, EmitEffect, EventNumbers
    <3>2. PICK j \in 1..(i - 1) : /\ log[j].kind = "Backpressure"
                                  /\ \A k \in j..(i - 1) : log[k].kind # "Output"
      BY <2>1, <3>1 DEF NoUnexplainedGap
    <3>3. \A k \in 1..(i - 1) : k \in DOMAIN log /\ log'[k] = log[k]
      BY <1>2, <3>1, EmitEffect, EventNumbers, SMTT(30)
    <3>4. \A k \in j..(i - 1) : k \in 1..(i - 1)
      BY <3>1
    <3> QED
      BY <3>2, <3>3, <3>4
  <2>2. CASE i = Len(log) + 1
    <3>1. Announced /\ i - 1 = Len(log) /\ Len(log) \in Nat
      BY <1>2, <2>2, EmitEffect, EventNumbers
    <3>2. PICK j \in 1..Len(log) : /\ log[j].kind = "Backpressure"
                                   /\ \A k \in 1..Len(log) : k >= j => log[k].kind # "Output"
      BY <3>1, EventNumbers DEF Announced
    <3>3. \A k \in 1..Len(log) : log'[k] = log[k]
      BY <1>2, EmitEffect, EventNumbers
    <3>4. \A k \in j..Len(log) : k \in 1..Len(log) /\ k >= j
      BY <3>1
    <3> QED
      BY <3>1, <3>2, <3>3, <3>4
  <2> QED
    BY <1>2, <2>1, <2>2, EmitEffect
<1>3. ASSUME Send(Output(chunk, stalled)), Output(chunk, stalled) \in Events, rpc = "output",
             chunk \in 1..MaxChunks
      PROVE  NoUnexplainedGap'
  <2>1. Output(chunk, stalled).late = stalled
    BY <1>3, EventFields DEF OutputTypeOK
  <2>2. stalled => Announced
    BY <1>3 DEF NoticeInv
  <2> QED
    BY <1>2, <1>3, <2>1, <2>2
<1> QED
  BY <1>1, <1>2, <1>3, LogStep, EventFields

-----------------------------------------------------------------------------

\* The parts together: what the proofs below carry from step to step.
EventInv ==
    /\ OutputTypeOK /\ DepthIsExact /\ ReaderInv /\ LogInv /\ NoticeInv /\ NoUnexplainedGap

\* A queue nobody has used satisfies it.
LEMMA InitEvents == OutputInit => EventInv
<1> SUFFICES ASSUME OutputInit PROVE EventInv
  OBVIOUS
<1>1. OutputTypeOK
  BY EventAssumption, FalseIsBoolean DEF OutputInit, OutputTypeOK
<1>2. DepthIsExact
  BY EventAssumption DEF OutputInit, DepthIsExact
<1>3. ReaderInv /\ LogInv /\ NoticeInv /\ NoUnexplainedGap
  BY DEF OutputInit, ReaderInv, LogInv, NoticeInv, NoUnexplainedGap, Last, SentUpTo
<1> QED
  BY <1>1, <1>2, <1>3 DEF EventInv

\* The inductive invariant holds in every reachable state of the event queue.
THEOREM EventInvariant == OutputSpec => []EventInv
<1>1. EventInv /\ [OutputNext]_outputVars => EventInv'
  BY OutputTypeStep, DepthStep, ReaderStep, LogInvStep, NoticeStep, GapStep DEF EventInv
<1> QED
  BY <1>1, InitEvents, PTL DEF OutputSpec

\* The depth the application reads is exact, and no chunk is lost, repeated
\* or reordered before the session is cancelled.
THEOREM OutputIsWhole == OutputSpec => []OutputInv
<1>1. EventInv => OutputInv
  BY DEF EventInv, OutputInv, OutputIsComplete, LogInv, ReaderInv, Last
<1> QED
  BY <1>1, EventInvariant, PTL

\* Output that was held up resumes behind a notice.
THEOREM GapsAreExplained == OutputSpec => []NoUnexplainedGap
<1>1. EventInv => NoUnexplainedGap
  BY DEF EventInv
<1> QED
  BY <1>1, EventInvariant, PTL
=============================================================================
