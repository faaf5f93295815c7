--------------------------- MODULE LocalPty_proofs ---------------------------
(***************************************************************************)
(* Proofs about LocalPty, for any number of application threads, any calls *)
(* they make and any kind of child.  The properties of the end of a        *)
(* session are not inductive alone: a caller or a queued Shutdown carries  *)
(* the invalidation it made to the step that relies on it, and the control *)
(* worker its local flags.  StopPath, VerdictInv, LifecycleInv and         *)
(* SignalInv say what they carry.                                          *)
(***************************************************************************)
EXTENDS LocalPty, TLAPS

\* A caller that is past the lifecycle, and a Shutdown in the queue, have
\* found or made the epoch invalid (request_stop, lib.rs:899-924).
StopPath ==
    /\ \A c \in Callers :
          apc[c] \in {"cancel", "terminate", "send", "wait", "returned"} => ~live
    /\ queued => ~live

\* The control worker's result: when it is decided, when it is published, and
\* that the first caller to take it keeps it for the others.
VerdictInv ==
    /\ cpc = "unobserved" => verdict = "Err"
    /\ cpc = "settle" => verdict \in {"Stopped", "Err"}
    /\ cpc \in {"complete", "end"} => verdict \in Results
    /\ cpc # "end" => completion = "none" /\ cached = "none"
    /\ cpc = "end" => \/ completion = verdict /\ cached = "none"
                      \/ completion = "taken" /\ cached = verdict
    /\ failure => cpc # "settle" /\ (stopping \/ cpc = "failing")

\* The lifecycle that belongs to a result.
EndOf(r) == CASE r = "Stopped" -> "Stopped"
              [] r = "AlreadyStopped" -> "Exited"
              [] r = "Err" -> "Failed"

\* The lifecycle the control worker has stored on its way to each result, if
\* request_stop has not overwritten it.
LifecycleInv ==
    ~raced =>
        /\ failure => lifecycle = "Failed"
        /\ cpc = "unobserved" => lifecycle = "Failed"
        /\ cpc \in {"reaped", "drain"} /\ ~stopping => lifecycle = "Exited"
        /\ cpc \in {"complete", "end"} => lifecycle = EndOf(verdict)

\* Whoever stops the worker, or ends it, has terminated the process tree, and
\* the first signal stays the one the profile asks for.
SignalInv ==
    /\ stopping => terminated
    /\ cpc \in {"drain", "settle", "complete", "end"} => terminated
    /\ terminated => FirstSignal \in signals
    /\ "KILL" \in signals => nature.hangup /\ "HUP" \in signals

\* What an assignment of FALSE leaves in a flag.
LEMMA FalseIsBoolean == \A x : x = FALSE => x \in BOOLEAN
OBVIOUS

\* A step keeps every variable in its type.
LEMMA TypeStep == TypeOK /\ [Next]_vars => TypeOK'
<1> SUFFICES ASSUME TypeOK, [Next]_vars PROVE TypeOK'
  OBVIOUS
<1> USE NatureAssumption, FalseIsBoolean DEF TypeOK, Terminal, Results, Modes, FirstSignal, childVars, locals, controlVars, callerVars, channels
<1>1. ASSUME NEW c \in Callers, NEW m \in Modes, Call(c, m) PROVE TypeOK'
  BY <1>1 DEF Call, CallerGoto
<1>2. ASSUME NEW c \in Callers, LoadLifecycle(c) PROVE TypeOK'
  BY <1>2 DEF LoadLifecycle, CallerGoto
<1>3. ASSUME NEW c \in Callers, MarkStopping(c) PROVE TypeOK'
  BY <1>3 DEF MarkStopping, CallerGoto, SetLifecycle
<1>4. ASSUME NEW c \in Callers, StoreCancel(c) PROVE TypeOK'
  BY <1>4 DEF StoreCancel, CallerGoto
<1>5. ASSUME NEW c \in Callers, TerminateFromCaller(c) PROVE TypeOK'
  BY <1>5 DEF TerminateFromCaller, CallerGoto, TerminateProcessTree
<1>6. ASSUME NEW c \in Callers, SendShutdown(c) PROVE TypeOK'
  <2>1. mode' \in [Callers -> Modes \cup {"none"}]
    BY <1>6 DEF SendShutdown
  <2>2. queued' \in BOOLEAN /\ dropped' \in BOOLEAN
    BY <1>6, Zenon DEF SendShutdown
  <2>3. apc' \in [Callers -> {"idle", "load", "mark", "cancel", "terminate", "send", "wait",
                             "returned"}]
    BY <1>6 DEF SendShutdown, CallerGoto
  <2> QED
    BY <1>6, <2>1, <2>2, <2>3 DEF SendShutdown
<1>7. ASSUME NEW c \in Callers, WaitReturns(c) PROVE TypeOK'
  BY <1>7 DEF WaitReturns, CallerGoto
<1>8. ASSUME LoopTop PROVE TypeOK'
  <2>1. stopping' \in BOOLEAN /\ terminated' \in BOOLEAN /\ cancel' \in BOOLEAN
    BY <1>8, Zenon DEF LoopTop, TerminateProcessTree
  <2>2. signals' \subseteq {"HUP", "TERM", "KILL"}
    BY <1>8 DEF LoopTop, TerminateProcessTree
  <2>3. UNCHANGED <<nature, alive, slave>>
    BY <1>8 DEF LoopTop, TerminateProcessTree
  <2>4. cpc' = "receive" /\ UNCHANGED <<lifecycle, live, channels, failure, phase, verdict, rpc,
                                          callerVars, raced>>
    BY <1>8 DEF LoopTop, ControlGoto
  <2> QED
    BY <2>1, <2>2, <2>3, <2>4
<1>9. ASSUME ReceiveInput PROVE TypeOK'
  BY <1>9 DEF ReceiveInput, ControlMoves, ControlGoto
<1>10. ASSUME ReceiveNothing PROVE TypeOK'
  BY <1>10 DEF ReceiveNothing, ControlMoves, ControlGoto
<1>11. ASSUME ReceiveStop PROVE TypeOK'
  BY <1>11 DEF ReceiveStop, ControlGoto, TerminateProcessTree
<1>12. ASSUME WriteFailed PROVE TypeOK'
  BY <1>12 DEF WriteFailed, ControlGoto, TerminateProcessTree
<1>13. ASSUME Reap PROVE TypeOK'
  BY <1>13 DEF Reap, ControlGoto, SetLifecycle
<1>14. ASSUME Reaped PROVE TypeOK'
  BY <1>14 DEF Reaped, ControlGoto, TerminateProcessTree
<1>15. ASSUME StillRunning PROVE TypeOK'
  BY <1>15 DEF StillRunning, ControlMoves, ControlGoto
<1>16. ASSUME Escalate PROVE TypeOK'
  BY <1>16 DEF Escalate, ControlGoto
<1>17. ASSUME TryWaitFails PROVE TypeOK'
  BY <1>17 DEF TryWaitFails, ControlGoto, SetLifecycle
<1>18. ASSUME TryWaitFailed PROVE TypeOK'
  BY <1>18 DEF TryWaitFailed, ControlGoto, TerminateProcessTree
<1>19. ASSUME DrainFailed PROVE TypeOK'
  BY <1>19 DEF DrainFailed, Decides, ControlGoto
<1>20. ASSUME DrainReported PROVE TypeOK'
  BY <1>20 DEF DrainReported, Decides, ControlGoto
<1>21. ASSUME DrainTimesOut PROVE TypeOK'
  BY <1>21 DEF DrainTimesOut, Decides, ControlGoto
<1>22. ASSUME Settle PROVE TypeOK'
  BY <1>22 DEF Settle, ControlGoto, SetLifecycle
<1>23. ASSUME Complete PROVE TypeOK'
  BY <1>23 DEF Complete, ControlGoto
<1>24. ASSUME WriteSucceeds PROVE TypeOK'
  BY <1>24 DEF WriteSucceeds, ControlMoves, ControlGoto
<1>25. ASSUME WriteFails PROVE TypeOK'
  BY <1>25 DEF WriteFails, ControlGoto, SetLifecycle
<1>26. ASSUME ReadOutput PROVE TypeOK'
  BY <1>26 DEF ReadOutput, ReaderGoto
<1>27. ASSUME EmitReturns PROVE TypeOK'
  BY <1>27 DEF EmitReturns, ReaderGoto
<1>28. ASSUME ReadEnd PROVE TypeOK'
  BY <1>28 DEF ReadEnd, ReaderGoto
<1>29. ASSUME ReportEnd PROVE TypeOK'
  BY <1>29 DEF ReportEnd, ReaderGoto
<1>30. ASSUME ReadFails PROVE TypeOK'
  BY <1>30 DEF ReadFails, ReaderGoto
<1>31. ASSUME ReportFailure PROVE TypeOK'
  BY <1>31 DEF ReportFailure, ReaderGoto
<1>39. ASSUME CancelFromReader PROVE TypeOK'
  BY <1>39 DEF CancelFromReader, ReaderGoto
<1>32. ASSUME ChildExits PROVE TypeOK'
  BY <1>32 DEF ChildExits
<1>33. ASSUME SlaveCloses PROVE TypeOK'
  BY <1>33 DEF SlaveCloses
<1>34. CASE UNCHANGED vars
  BY <1>34 DEF vars
<1> HIDE DEF TypeOK, Terminal, Results, Modes, FirstSignal
<1>35. ASSUME NEW c \in Callers, CallerStep(c) PROVE TypeOK'
  BY <1>2, <1>3, <1>4, <1>5, <1>6, <1>7, <1>35 DEF CallerStep
<1>36. CASE Control
  BY <1>8, <1>9, <1>10, <1>11, <1>12, <1>13, <1>14, <1>15, <1>16, <1>17, <1>18, <1>19,
     <1>20, <1>21, <1>22, <1>23, <1>36 DEF Control
<1>37. CASE Write
  BY <1>24, <1>25, <1>37 DEF Write
<1>38. CASE Reader
  BY <1>26, <1>27, <1>28, <1>29, <1>30, <1>31, <1>38, <1>39 DEF Reader
<1> QED
  BY <1>1, <1>32, <1>33, <1>34, <1>35, <1>36, <1>37, <1>38 DEF Next

\* A step that cancels, stops, reaps or ends the output finds the epoch invalid.
LEMMA StopStep == TypeOK /\ StopInvalidates /\ StopPath /\ [Next]_vars => (StopInvalidates /\ StopPath)'
<1> SUFFICES ASSUME TypeOK, StopInvalidates, StopPath, [Next]_vars PROVE (StopInvalidates /\ StopPath)'
  OBVIOUS
<1> USE NatureAssumption DEF TypeOK, StopInvalidates, StopPath, Terminal, childVars, locals, controlVars, callerVars, channels
<1>1. ASSUME NEW c \in Callers, NEW m \in Modes, Call(c, m) PROVE (StopInvalidates /\ StopPath)'
  BY <1>1 DEF Call, CallerGoto
<1>2. ASSUME NEW c \in Callers, LoadLifecycle(c) PROVE (StopInvalidates /\ StopPath)'
  BY <1>2 DEF LoadLifecycle, CallerGoto
<1>3. ASSUME NEW c \in Callers, MarkStopping(c) PROVE (StopInvalidates /\ StopPath)'
  BY <1>3 DEF MarkStopping, CallerGoto, SetLifecycle
<1>4. ASSUME NEW c \in Callers, StoreCancel(c) PROVE (StopInvalidates /\ StopPath)'
  BY <1>4 DEF StoreCancel, CallerGoto
<1>5. ASSUME NEW c \in Callers, TerminateFromCaller(c) PROVE (StopInvalidates /\ StopPath)'
  BY <1>5 DEF TerminateFromCaller, CallerGoto, TerminateProcessTree
<1>6. ASSUME NEW c \in Callers, SendShutdown(c) PROVE (StopInvalidates /\ StopPath)'
  BY <1>6 DEF SendShutdown, CallerGoto
<1>7. ASSUME NEW c \in Callers, WaitReturns(c) PROVE (StopInvalidates /\ StopPath)'
  BY <1>7 DEF WaitReturns, CallerGoto
<1>8. ASSUME LoopTop PROVE (StopInvalidates /\ StopPath)'
  BY <1>8 DEF LoopTop, ControlGoto, TerminateProcessTree
<1>9. ASSUME ReceiveInput PROVE (StopInvalidates /\ StopPath)'
  BY <1>9 DEF ReceiveInput, ControlMoves, ControlGoto
<1>10. ASSUME ReceiveNothing PROVE (StopInvalidates /\ StopPath)'
  BY <1>10 DEF ReceiveNothing, ControlMoves, ControlGoto
<1>11. ASSUME ReceiveStop PROVE (StopInvalidates /\ StopPath)'
  BY <1>11 DEF ReceiveStop, ControlGoto, TerminateProcessTree
<1>12. ASSUME WriteFailed PROVE (StopInvalidates /\ StopPath)'
  BY <1>12 DEF WriteFailed, ControlGoto, TerminateProcessTree
<1>13. ASSUME Reap PROVE (StopInvalidates /\ StopPath)'
  BY <1>13 DEF Reap, ControlGoto, SetLifecycle
<1>14. ASSUME Reaped PROVE (StopInvalidates /\ StopPath)'
  BY <1>14 DEF Reaped, ControlGoto, TerminateProcessTree
<1>15. ASSUME StillRunning PROVE (StopInvalidates /\ StopPath)'
  BY <1>15 DEF StillRunning, ControlMoves, ControlGoto
<1>16. ASSUME Escalate PROVE (StopInvalidates /\ StopPath)'
  BY <1>16 DEF Escalate, ControlGoto
<1>17. ASSUME TryWaitFails PROVE (StopInvalidates /\ StopPath)'
  BY <1>17 DEF TryWaitFails, ControlGoto, SetLifecycle
<1>18. ASSUME TryWaitFailed PROVE (StopInvalidates /\ StopPath)'
  BY <1>18 DEF TryWaitFailed, ControlGoto, TerminateProcessTree
<1>19. ASSUME DrainFailed PROVE (StopInvalidates /\ StopPath)'
  BY <1>19 DEF DrainFailed, Decides, ControlGoto
<1>20. ASSUME DrainReported PROVE (StopInvalidates /\ StopPath)'
  BY <1>20 DEF DrainReported, Decides, ControlGoto
<1>21. ASSUME DrainTimesOut PROVE (StopInvalidates /\ StopPath)'
  BY <1>21 DEF DrainTimesOut, Decides, ControlGoto
<1>22. ASSUME Settle PROVE (StopInvalidates /\ StopPath)'
  BY <1>22 DEF Settle, ControlGoto, SetLifecycle
<1>23. ASSUME Complete PROVE (StopInvalidates /\ StopPath)'
  BY <1>23 DEF Complete, ControlGoto
<1>24. ASSUME WriteSucceeds PROVE (StopInvalidates /\ StopPath)'
  BY <1>24 DEF WriteSucceeds, ControlMoves, ControlGoto
<1>25. ASSUME WriteFails PROVE (StopInvalidates /\ StopPath)'
  BY <1>25 DEF WriteFails, ControlGoto, SetLifecycle
<1>26. ASSUME ReadOutput PROVE (StopInvalidates /\ StopPath)'
  BY <1>26 DEF ReadOutput, ReaderGoto
<1>27. ASSUME EmitReturns PROVE (StopInvalidates /\ StopPath)'
  BY <1>27 DEF EmitReturns, ReaderGoto
<1>28. ASSUME ReadEnd PROVE (StopInvalidates /\ StopPath)'
  BY <1>28 DEF ReadEnd, ReaderGoto
<1>29. ASSUME ReportEnd PROVE (StopInvalidates /\ StopPath)'
  BY <1>29 DEF ReportEnd, ReaderGoto
<1>30. ASSUME ReadFails PROVE (StopInvalidates /\ StopPath)'
  BY <1>30 DEF ReadFails, ReaderGoto
<1>31. ASSUME ReportFailure PROVE (StopInvalidates /\ StopPath)'
  BY <1>31 DEF ReportFailure, ReaderGoto
<1>39. ASSUME CancelFromReader PROVE (StopInvalidates /\ StopPath)'
  BY <1>39 DEF CancelFromReader, ReaderGoto
<1>32. ASSUME ChildExits PROVE (StopInvalidates /\ StopPath)'
  BY <1>32 DEF ChildExits
<1>33. ASSUME SlaveCloses PROVE (StopInvalidates /\ StopPath)'
  BY <1>33 DEF SlaveCloses
<1>34. CASE UNCHANGED vars
  BY <1>34 DEF vars
<1> HIDE DEF TypeOK, StopInvalidates, StopPath, Terminal
<1>35. ASSUME NEW c \in Callers, CallerStep(c) PROVE (StopInvalidates /\ StopPath)'
  BY <1>2, <1>3, <1>4, <1>5, <1>6, <1>7, <1>35 DEF CallerStep
<1>36. CASE Control
  BY <1>8, <1>9, <1>10, <1>11, <1>12, <1>13, <1>14, <1>15, <1>16, <1>17, <1>18, <1>19,
     <1>20, <1>21, <1>22, <1>23, <1>36 DEF Control
<1>37. CASE Write
  BY <1>24, <1>25, <1>37 DEF Write
<1>38. CASE Reader
  BY <1>26, <1>27, <1>28, <1>29, <1>30, <1>31, <1>38, <1>39 DEF Reader
<1> QED
  BY <1>1, <1>32, <1>33, <1>34, <1>35, <1>36, <1>37, <1>38 DEF Next

\* A step of the control worker decides its result once and publishes it once.
LEMMA VerdictStep == TypeOK /\ VerdictInv /\ [Next]_vars => VerdictInv'
<1> SUFFICES ASSUME TypeOK, VerdictInv, [Next]_vars PROVE VerdictInv'
  OBVIOUS
<1> USE NatureAssumption DEF TypeOK, VerdictInv, Results, childVars, locals, controlVars, callerVars, channels
<1>1. ASSUME NEW c \in Callers, NEW m \in Modes, Call(c, m) PROVE VerdictInv'
  BY <1>1 DEF Call, CallerGoto
<1>2. ASSUME NEW c \in Callers, LoadLifecycle(c) PROVE VerdictInv'
  BY <1>2 DEF LoadLifecycle, CallerGoto
<1>3. ASSUME NEW c \in Callers, MarkStopping(c) PROVE VerdictInv'
  BY <1>3 DEF MarkStopping, CallerGoto, SetLifecycle
<1>4. ASSUME NEW c \in Callers, StoreCancel(c) PROVE VerdictInv'
  BY <1>4 DEF StoreCancel, CallerGoto
<1>5. ASSUME NEW c \in Callers, TerminateFromCaller(c) PROVE VerdictInv'
  BY <1>5 DEF TerminateFromCaller, CallerGoto, TerminateProcessTree
<1>6. ASSUME NEW c \in Callers, SendShutdown(c) PROVE VerdictInv'
  BY <1>6 DEF SendShutdown, CallerGoto
<1>7. ASSUME NEW c \in Callers, WaitReturns(c) PROVE VerdictInv'
  BY <1>7 DEF WaitReturns, CallerGoto
<1>8. ASSUME LoopTop PROVE VerdictInv'
  BY <1>8 DEF LoopTop, ControlGoto, TerminateProcessTree
<1>9. ASSUME ReceiveInput PROVE VerdictInv'
  BY <1>9 DEF ReceiveInput, ControlMoves, ControlGoto
<1>10. ASSUME ReceiveNothing PROVE VerdictInv'
  BY <1>10 DEF ReceiveNothing, ControlMoves, ControlGoto
<1>11. ASSUME ReceiveStop PROVE VerdictInv'
  BY <1>11 DEF ReceiveStop, ControlGoto, TerminateProcessTree
<1>12. ASSUME WriteFailed PROVE VerdictInv'
  BY <1>12 DEF WriteFailed, ControlGoto, TerminateProcessTree
<1>13. ASSUME Reap PROVE VerdictInv'
  BY <1>13 DEF Reap, ControlGoto, SetLifecycle
<1>14. ASSUME Reaped PROVE VerdictInv'
  BY <1>14 DEF Reaped, ControlGoto, TerminateProcessTree
<1>15. ASSUME StillRunning PROVE VerdictInv'
  BY <1>15 DEF StillRunning, ControlMoves, ControlGoto
<1>16. ASSUME Escalate PROVE VerdictInv'
  BY <1>16 DEF Escalate, ControlGoto
<1>17. ASSUME TryWaitFails PROVE VerdictInv'
  BY <1>17 DEF TryWaitFails, ControlGoto, SetLifecycle
<1>18. ASSUME TryWaitFailed PROVE VerdictInv'
  BY <1>18 DEF TryWaitFailed, ControlGoto, TerminateProcessTree
<1>19. ASSUME DrainFailed PROVE VerdictInv'
  BY <1>19 DEF DrainFailed, Decides, ControlGoto
<1>20. ASSUME DrainReported PROVE VerdictInv'
  BY <1>20 DEF DrainReported, Decides, ControlGoto
<1>21. ASSUME DrainTimesOut PROVE VerdictInv'
  BY <1>21 DEF DrainTimesOut, Decides, ControlGoto
<1>22. ASSUME Settle PROVE VerdictInv'
  BY <1>22 DEF Settle, ControlGoto, SetLifecycle
<1>23. ASSUME Complete PROVE VerdictInv'
  BY <1>23 DEF Complete, ControlGoto
<1>24. ASSUME WriteSucceeds PROVE VerdictInv'
  BY <1>24 DEF WriteSucceeds, ControlMoves, ControlGoto
<1>25. ASSUME WriteFails PROVE VerdictInv'
  BY <1>25 DEF WriteFails, ControlGoto, SetLifecycle
<1>26. ASSUME ReadOutput PROVE VerdictInv'
  BY <1>26 DEF ReadOutput, ReaderGoto
<1>27. ASSUME EmitReturns PROVE VerdictInv'
  BY <1>27 DEF EmitReturns, ReaderGoto
<1>28. ASSUME ReadEnd PROVE VerdictInv'
  BY <1>28 DEF ReadEnd, ReaderGoto
<1>29. ASSUME ReportEnd PROVE VerdictInv'
  BY <1>29 DEF ReportEnd, ReaderGoto
<1>30. ASSUME ReadFails PROVE VerdictInv'
  BY <1>30 DEF ReadFails, ReaderGoto
<1>31. ASSUME ReportFailure PROVE VerdictInv'
  BY <1>31 DEF ReportFailure, ReaderGoto
<1>39. ASSUME CancelFromReader PROVE VerdictInv'
  BY <1>39 DEF CancelFromReader, ReaderGoto
<1>32. ASSUME ChildExits PROVE VerdictInv'
  BY <1>32 DEF ChildExits
<1>33. ASSUME SlaveCloses PROVE VerdictInv'
  BY <1>33 DEF SlaveCloses
<1>34. CASE UNCHANGED vars
  BY <1>34 DEF vars
<1> HIDE DEF TypeOK, VerdictInv, Results
<1>35. ASSUME NEW c \in Callers, CallerStep(c) PROVE VerdictInv'
  BY <1>2, <1>3, <1>4, <1>5, <1>6, <1>7, <1>35 DEF CallerStep
<1>36. CASE Control
  BY <1>8, <1>9, <1>10, <1>11, <1>12, <1>13, <1>14, <1>15, <1>16, <1>17, <1>18, <1>19,
     <1>20, <1>21, <1>22, <1>23, <1>36 DEF Control
<1>37. CASE Write
  BY <1>24, <1>25, <1>37 DEF Write
<1>38. CASE Reader
  BY <1>26, <1>27, <1>28, <1>29, <1>30, <1>31, <1>38, <1>39 DEF Reader
<1> QED
  BY <1>1, <1>32, <1>33, <1>34, <1>35, <1>36, <1>37, <1>38 DEF Next

\* A step keeps the lifecycle and the result on their way in agreement.
LEMMA LifecycleStep == TypeOK /\ VerdictInv /\ LifecycleInv /\ [Next]_vars => LifecycleInv'
<1> SUFFICES ASSUME TypeOK, VerdictInv, LifecycleInv, [Next]_vars PROVE LifecycleInv'
  OBVIOUS
<1> USE NatureAssumption DEF TypeOK, VerdictInv, LifecycleInv, EndOf, Results, Terminal, childVars, locals, controlVars, callerVars, channels
<1>1. ASSUME NEW c \in Callers, NEW m \in Modes, Call(c, m) PROVE LifecycleInv'
  BY <1>1 DEF Call, CallerGoto
<1>2. ASSUME NEW c \in Callers, LoadLifecycle(c) PROVE LifecycleInv'
  BY <1>2 DEF LoadLifecycle, CallerGoto
<1>3. ASSUME NEW c \in Callers, MarkStopping(c) PROVE LifecycleInv'
  BY <1>3 DEF MarkStopping, CallerGoto, SetLifecycle
<1>4. ASSUME NEW c \in Callers, StoreCancel(c) PROVE LifecycleInv'
  BY <1>4 DEF StoreCancel, CallerGoto
<1>5. ASSUME NEW c \in Callers, TerminateFromCaller(c) PROVE LifecycleInv'
  BY <1>5 DEF TerminateFromCaller, CallerGoto, TerminateProcessTree
<1>6. ASSUME NEW c \in Callers, SendShutdown(c) PROVE LifecycleInv'
  BY <1>6 DEF SendShutdown, CallerGoto
<1>7. ASSUME NEW c \in Callers, WaitReturns(c) PROVE LifecycleInv'
  BY <1>7 DEF WaitReturns, CallerGoto
<1>8. ASSUME LoopTop PROVE LifecycleInv'
  BY <1>8 DEF LoopTop, ControlGoto, TerminateProcessTree
<1>9. ASSUME ReceiveInput PROVE LifecycleInv'
  BY <1>9 DEF ReceiveInput, ControlMoves, ControlGoto
<1>10. ASSUME ReceiveNothing PROVE LifecycleInv'
  BY <1>10 DEF ReceiveNothing, ControlMoves, ControlGoto
<1>11. ASSUME ReceiveStop PROVE LifecycleInv'
  BY <1>11 DEF ReceiveStop, ControlGoto, TerminateProcessTree
<1>12. ASSUME WriteFailed PROVE LifecycleInv'
  BY <1>12 DEF WriteFailed, ControlGoto, TerminateProcessTree
<1>13. ASSUME Reap PROVE LifecycleInv'
  BY <1>13 DEF Reap, ControlGoto, SetLifecycle
<1>14. ASSUME Reaped PROVE LifecycleInv'
  BY <1>14 DEF Reaped, ControlGoto, TerminateProcessTree
<1>15. ASSUME StillRunning PROVE LifecycleInv'
  BY <1>15 DEF StillRunning, ControlMoves, ControlGoto
<1>16. ASSUME Escalate PROVE LifecycleInv'
  BY <1>16 DEF Escalate, ControlGoto
<1>17. ASSUME TryWaitFails PROVE LifecycleInv'
  BY <1>17 DEF TryWaitFails, ControlGoto, SetLifecycle
<1>18. ASSUME TryWaitFailed PROVE LifecycleInv'
  BY <1>18 DEF TryWaitFailed, ControlGoto, TerminateProcessTree
<1>19. ASSUME DrainFailed PROVE LifecycleInv'
  BY <1>19 DEF DrainFailed, Decides, ControlGoto
<1>20. ASSUME DrainReported PROVE LifecycleInv'
  BY <1>20 DEF DrainReported, Decides, ControlGoto
<1>21. ASSUME DrainTimesOut PROVE LifecycleInv'
  BY <1>21 DEF DrainTimesOut, Decides, ControlGoto
<1>22. ASSUME Settle PROVE LifecycleInv'
  BY <1>22 DEF Settle, ControlGoto, SetLifecycle
<1>23. ASSUME Complete PROVE LifecycleInv'
  BY <1>23 DEF Complete, ControlGoto
<1>24. ASSUME WriteSucceeds PROVE LifecycleInv'
  BY <1>24 DEF WriteSucceeds, ControlMoves, ControlGoto
<1>25. ASSUME WriteFails PROVE LifecycleInv'
  BY <1>25 DEF WriteFails, ControlGoto, SetLifecycle
<1>26. ASSUME ReadOutput PROVE LifecycleInv'
  BY <1>26 DEF ReadOutput, ReaderGoto
<1>27. ASSUME EmitReturns PROVE LifecycleInv'
  BY <1>27 DEF EmitReturns, ReaderGoto
<1>28. ASSUME ReadEnd PROVE LifecycleInv'
  BY <1>28 DEF ReadEnd, ReaderGoto
<1>29. ASSUME ReportEnd PROVE LifecycleInv'
  BY <1>29 DEF ReportEnd, ReaderGoto
<1>30. ASSUME ReadFails PROVE LifecycleInv'
  BY <1>30 DEF ReadFails, ReaderGoto
<1>31. ASSUME ReportFailure PROVE LifecycleInv'
  BY <1>31 DEF ReportFailure, ReaderGoto
<1>39. ASSUME CancelFromReader PROVE LifecycleInv'
  BY <1>39 DEF CancelFromReader, ReaderGoto
<1>32. ASSUME ChildExits PROVE LifecycleInv'
  BY <1>32 DEF ChildExits
<1>33. ASSUME SlaveCloses PROVE LifecycleInv'
  BY <1>33 DEF SlaveCloses
<1>34. CASE UNCHANGED vars
  BY <1>34 DEF vars
<1> HIDE DEF TypeOK, VerdictInv, LifecycleInv, EndOf, Results, Terminal
<1>35. ASSUME NEW c \in Callers, CallerStep(c) PROVE LifecycleInv'
  BY <1>2, <1>3, <1>4, <1>5, <1>6, <1>7, <1>35 DEF CallerStep
<1>36. CASE Control
  BY <1>8, <1>9, <1>10, <1>11, <1>12, <1>13, <1>14, <1>15, <1>16, <1>17, <1>18, <1>19,
     <1>20, <1>21, <1>22, <1>23, <1>36 DEF Control
<1>37. CASE Write
  BY <1>24, <1>25, <1>37 DEF Write
<1>38. CASE Reader
  BY <1>26, <1>27, <1>28, <1>29, <1>30, <1>31, <1>38, <1>39 DEF Reader
<1> QED
  BY <1>1, <1>32, <1>33, <1>34, <1>35, <1>36, <1>37, <1>38 DEF Next

\* A step signals the process group before the flags say so.
LEMMA SignalStep == TypeOK /\ SignalInv /\ [Next]_vars => SignalInv'
<1> SUFFICES ASSUME TypeOK, SignalInv, [Next]_vars PROVE SignalInv'
  OBVIOUS
<1> USE NatureAssumption DEF TypeOK, SignalInv, FirstSignal, childVars, locals, controlVars, callerVars, channels
<1>1. ASSUME NEW c \in Callers, NEW m \in Modes, Call(c, m) PROVE SignalInv'
  BY <1>1 DEF Call, CallerGoto
<1>2. ASSUME NEW c \in Callers, LoadLifecycle(c) PROVE SignalInv'
  BY <1>2 DEF LoadLifecycle, CallerGoto
<1>3. ASSUME NEW c \in Callers, MarkStopping(c) PROVE SignalInv'
  BY <1>3 DEF MarkStopping, CallerGoto, SetLifecycle
<1>4. ASSUME NEW c \in Callers, StoreCancel(c) PROVE SignalInv'
  BY <1>4 DEF StoreCancel, CallerGoto
<1>5. ASSUME NEW c \in Callers, TerminateFromCaller(c) PROVE SignalInv'
  BY <1>5 DEF TerminateFromCaller, CallerGoto, TerminateProcessTree
<1>6. ASSUME NEW c \in Callers, SendShutdown(c) PROVE SignalInv'
  BY <1>6 DEF SendShutdown, CallerGoto
<1>7. ASSUME NEW c \in Callers, WaitReturns(c) PROVE SignalInv'
  BY <1>7 DEF WaitReturns, CallerGoto
<1>8. ASSUME LoopTop PROVE SignalInv'
  BY <1>8 DEF LoopTop, ControlGoto, TerminateProcessTree
<1>9. ASSUME ReceiveInput PROVE SignalInv'
  BY <1>9 DEF ReceiveInput, ControlMoves, ControlGoto
<1>10. ASSUME ReceiveNothing PROVE SignalInv'
  BY <1>10 DEF ReceiveNothing, ControlMoves, ControlGoto
<1>11. ASSUME ReceiveStop PROVE SignalInv'
  BY <1>11 DEF ReceiveStop, ControlGoto, TerminateProcessTree
<1>12. ASSUME WriteFailed PROVE SignalInv'
  BY <1>12 DEF WriteFailed, ControlGoto, TerminateProcessTree
<1>13. ASSUME Reap PROVE SignalInv'
  BY <1>13 DEF Reap, ControlGoto, SetLifecycle
<1>14. ASSUME Reaped PROVE SignalInv'
  BY <1>14 DEF Reaped, ControlGoto, TerminateProcessTree
<1>15. ASSUME StillRunning PROVE SignalInv'
  BY <1>15 DEF StillRunning, ControlMoves, ControlGoto
<1>16. ASSUME Escalate PROVE SignalInv'
  BY <1>16 DEF Escalate, ControlGoto
<1>17. ASSUME TryWaitFails PROVE SignalInv'
  BY <1>17 DEF TryWaitFails, ControlGoto, SetLifecycle
<1>18. ASSUME TryWaitFailed PROVE SignalInv'
  BY <1>18 DEF TryWaitFailed, ControlGoto, TerminateProcessTree
<1>19. ASSUME DrainFailed PROVE SignalInv'
  BY <1>19 DEF DrainFailed, Decides, ControlGoto
<1>20. ASSUME DrainReported PROVE SignalInv'
  BY <1>20 DEF DrainReported, Decides, ControlGoto
<1>21. ASSUME DrainTimesOut PROVE SignalInv'
  BY <1>21 DEF DrainTimesOut, Decides, ControlGoto
<1>22. ASSUME Settle PROVE SignalInv'
  BY <1>22 DEF Settle, ControlGoto, SetLifecycle
<1>23. ASSUME Complete PROVE SignalInv'
  BY <1>23 DEF Complete, ControlGoto
<1>24. ASSUME WriteSucceeds PROVE SignalInv'
  BY <1>24 DEF WriteSucceeds, ControlMoves, ControlGoto
<1>25. ASSUME WriteFails PROVE SignalInv'
  BY <1>25 DEF WriteFails, ControlGoto, SetLifecycle
<1>26. ASSUME ReadOutput PROVE SignalInv'
  BY <1>26 DEF ReadOutput, ReaderGoto
<1>27. ASSUME EmitReturns PROVE SignalInv'
  BY <1>27 DEF EmitReturns, ReaderGoto
<1>28. ASSUME ReadEnd PROVE SignalInv'
  BY <1>28 DEF ReadEnd, ReaderGoto
<1>29. ASSUME ReportEnd PROVE SignalInv'
  BY <1>29 DEF ReportEnd, ReaderGoto
<1>30. ASSUME ReadFails PROVE SignalInv'
  BY <1>30 DEF ReadFails, ReaderGoto
<1>31. ASSUME ReportFailure PROVE SignalInv'
  BY <1>31 DEF ReportFailure, ReaderGoto
<1>39. ASSUME CancelFromReader PROVE SignalInv'
  BY <1>39 DEF CancelFromReader, ReaderGoto
<1>32. ASSUME ChildExits PROVE SignalInv'
  BY <1>32 DEF ChildExits
<1>33. ASSUME SlaveCloses PROVE SignalInv'
  BY <1>33 DEF SlaveCloses
<1>34. CASE UNCHANGED vars
  BY <1>34 DEF vars
<1> HIDE DEF TypeOK, SignalInv, FirstSignal
<1>35. ASSUME NEW c \in Callers, CallerStep(c) PROVE SignalInv'
  BY <1>2, <1>3, <1>4, <1>5, <1>6, <1>7, <1>35 DEF CallerStep
<1>36. CASE Control
  BY <1>8, <1>9, <1>10, <1>11, <1>12, <1>13, <1>14, <1>15, <1>16, <1>17, <1>18, <1>19,
     <1>20, <1>21, <1>22, <1>23, <1>36 DEF Control
<1>37. CASE Write
  BY <1>24, <1>25, <1>37 DEF Write
<1>38. CASE Reader
  BY <1>26, <1>27, <1>28, <1>29, <1>30, <1>31, <1>38, <1>39 DEF Reader
<1> QED
  BY <1>1, <1>32, <1>33, <1>34, <1>35, <1>36, <1>37, <1>38 DEF Next

-----------------------------------------------------------------------------

\* The five parts together: what the proofs below carry from step to step.
SessionInv == TypeOK /\ StopInvalidates /\ StopPath /\ VerdictInv /\ LifecycleInv /\ SignalInv

\* The state in which start_with_notifier returns satisfies all of them.
LEMMA InitSession == Init => SessionInv
<1> SUFFICES ASSUME Init PROVE SessionInv
  OBVIOUS
<1>1. TypeOK
  BY FalseIsBoolean DEF Init, TypeOK, Terminal, Results, Modes
<1>2. StopInvalidates /\ StopPath /\ VerdictInv /\ LifecycleInv /\ SignalInv
  BY DEF Init, StopInvalidates, StopPath, VerdictInv, LifecycleInv, SignalInv
<1> QED
  BY <1>1, <1>2 DEF SessionInv

\* The inductive invariant holds in every reachable state of a session.
THEOREM SessionInvariant == Spec => []SessionInv
<1>1. SessionInv /\ [Next]_vars => SessionInv'
  BY TypeStep, StopStep, VerdictStep, LifecycleStep, SignalStep DEF SessionInv
<1> QED
  BY <1>1, InitSession, PTL DEF Spec

\* Automation is admitted only to a session that nobody has begun to stop.
THEOREM StopInvalidatesFirst == Spec => []StopInv
<1>1. SessionInv => StopInv
  BY DEF SessionInv, StopInv
<1> QED
  BY <1>1, SessionInvariant, PTL

\* The reported result and the lifecycle agree, unless request_stop overwrote
\* the lifecycle.
THEOREM ResultIsTheLifecycles == Spec => []ResultMatchesLifecycle
<1>1. SessionInv => ResultMatchesLifecycle
  <2> SUFFICES ASSUME SessionInv, cpc = "end", ~raced, NEW r \in Results,
                      completion = r \/ (completion = "taken" /\ cached = r)
               PROVE  lifecycle = EndOf(r)
    BY DEF ResultMatchesLifecycle, EndOf
  <2>1. verdict = r
    BY DEF SessionInv, VerdictInv, Results
  <2> QED
    BY <2>1 DEF SessionInv, LifecycleInv
<1> QED
  BY <1>1, SessionInvariant, PTL

\* An ended session has had its process group signalled, and SIGKILL comes
\* only after the hangup that a profile asked for.
THEOREM GroupIsSignalledFirst == Spec => []GroupIsSignalled
<1>1. SessionInv => GroupIsSignalled
  BY DEF SessionInv, SignalInv, GroupIsSignalled
<1> QED
  BY <1>1, SessionInvariant, PTL
=============================================================================
