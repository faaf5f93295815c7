------------------------- MODULE DecisionGate_proofs -------------------------
(***************************************************************************)
(* Proofs about DecisionGate, for any tasks, prompts and decisions.  The   *)
(* types, OneWaiter, GateInv, NoLostWakeup and AnswerIsTheUsers are        *)
(* inductive together: each lemma below shows that a step keeps one of     *)
(* them, and DecisionInvariant joins them.                                 *)
(***************************************************************************)
EXTENDS DecisionGate, TLAPS

\* A step keeps every variable in its type; in particular a task never takes
\* the remains of a moved password for a decision.
LEMMA TypeStep == TypeOK /\ OneWaiter /\ GateInv /\ [Next]_vars => TypeOK'
<1> SUFFICES ASSUME TypeOK, OneWaiter, GateInv, [Next]_vars PROVE TypeOK'
  OBVIOUS
<1> USE DecisionAssumption DEF TypeOK, GateInv, Active, Listening
<1>1. ASSUME NEW t \in Tasks, NEW p \in Prompts, Begin(t, p) PROVE TypeOK'
  BY <1>1 DEF Begin, Goto
<1>2. ASSUME NEW t \in Tasks, Emit(t) PROVE TypeOK'
  BY <1>2 DEF Emit, Goto
<1>3. ASSUME NEW t \in Tasks, EmitFull(t) PROVE TypeOK'
  BY <1>3 DEF EmitFull, Goto
<1>4. ASSUME NEW t \in Tasks, CancelOwn(t) PROVE TypeOK'
  BY <1>4 DEF CancelOwn, Goto, NotifyAll
<1>5. ASSUME NEW t \in Tasks, DiscardOwn(t) PROVE TypeOK'
  BY <1>5 DEF DiscardOwn, Goto, Reset, NotifyWaiters
<1>6. ASSUME NEW t \in Tasks, WaitAnswered(t) PROVE TypeOK'
  BY <1>6 DEF WaitAnswered, Leave, Goto, Reset, NotifyWaiters
<1>7. ASSUME NEW t \in Tasks, Park(t) PROVE TypeOK'
  BY <1>7 DEF Park, Goto
<1>8. ASSUME NEW t \in Tasks, ParkedWakes(t) PROVE TypeOK'
  BY <1>8 DEF ParkedWakes, Leave, Goto, Reset, NotifyWaiters
<1>9. ASSUME NEW t \in Tasks, ParkedTimesOut(t) PROVE TypeOK'
  BY <1>9 DEF ParkedTimesOut, Leave, Goto, Reset, NotifyWaiters
<1>10. ASSUME NEW t \in Tasks, WaitAsync(t) PROVE TypeOK'
  BY <1>10 DEF WaitAsync, Goto
<1>11. ASSUME NEW t \in Tasks, Arm(t) PROVE TypeOK'
  BY <1>11 DEF Arm, Goto
<1>12. ASSUME NEW t \in Tasks, Check(t) PROVE TypeOK'
  BY <1>12 DEF Check, Goto, TakeFrom
<1>13. ASSUME NEW t \in Tasks, AwaitWakes(t) PROVE TypeOK'
  BY <1>13 DEF AwaitWakes, Goto
<1>14. ASSUME NEW t \in Tasks, AwaitTimesOut(t) PROVE TypeOK'
  BY <1>14 DEF AwaitTimesOut, Goto
<1>15. ASSUME NEW t \in Tasks, Finish(t) PROVE TypeOK'
  BY <1>15 DEF Finish, Goto, Reset, NotifyAll
<1>16. ASSUME NEW p \in Prompts, NEW d \in Decisions, Resolve(p, d) PROVE TypeOK'
  BY <1>16 DEF Resolve, NotifyAll
<1>17. ASSUME NEW p \in Prompts, Cancel(p) PROVE TypeOK'
  BY <1>17 DEF Cancel, Withdraw, NotifyAll
<1>18. ASSUME RejectPending PROVE TypeOK'
  BY <1>18 DEF RejectPending, Withdraw, NotifyAll
<1>19. CASE UNCHANGED vars
  BY <1>19 DEF vars
<1> HIDE DEF TypeOK, GateInv, Active, Listening
<1>20. ASSUME NEW t \in Tasks, Proceed(t) \/ Timeout(t) PROVE TypeOK'
  BY <1>2, <1>3, <1>4, <1>5, <1>6, <1>7, <1>8, <1>9, <1>10, <1>11, <1>12, <1>13, <1>14, <1>15,
     <1>20 DEF Proceed, Timeout
<1> QED
  BY <1>1, <1>16, <1>17, <1>18, <1>19, <1>20 DEF Next

\* A step never lets a second task in, and the last step of a wait is what
\* makes the gate idle.
LEMMA OneWaiterStep == TypeOK /\ OneWaiter /\ [Next]_vars => OneWaiter'
<1> SUFFICES ASSUME TypeOK, OneWaiter, [Next]_vars PROVE OneWaiter'
  OBVIOUS
<1> USE DecisionAssumption DEF TypeOK, OneWaiter, Active, Listening
<1>1. ASSUME NEW t \in Tasks, NEW p \in Prompts, Begin(t, p) PROVE OneWaiter'
  BY <1>1 DEF Begin, Goto
<1>2. ASSUME NEW t \in Tasks, Emit(t) PROVE OneWaiter'
  BY <1>2 DEF Emit, Goto
<1>3. ASSUME NEW t \in Tasks, EmitFull(t) PROVE OneWaiter'
  BY <1>3 DEF EmitFull, Goto
<1>4. ASSUME NEW t \in Tasks, CancelOwn(t) PROVE OneWaiter'
  BY <1>4 DEF CancelOwn, Goto, NotifyAll
<1>5. ASSUME NEW t \in Tasks, DiscardOwn(t) PROVE OneWaiter'
  BY <1>5 DEF DiscardOwn, Goto, Reset, NotifyWaiters
<1>6. ASSUME NEW t \in Tasks, WaitAnswered(t) PROVE OneWaiter'
  BY <1>6 DEF WaitAnswered, Leave, Goto, Reset, NotifyWaiters
<1>7. ASSUME NEW t \in Tasks, Park(t) PROVE OneWaiter'
  BY <1>7 DEF Park, Goto
<1>8. ASSUME NEW t \in Tasks, ParkedWakes(t) PROVE OneWaiter'
  BY <1>8 DEF ParkedWakes, Leave, Goto, Reset, NotifyWaiters
<1>9. ASSUME NEW t \in Tasks, ParkedTimesOut(t) PROVE OneWaiter'
  BY <1>9 DEF ParkedTimesOut, Leave, Goto, Reset, NotifyWaiters
<1>10. ASSUME NEW t \in Tasks, WaitAsync(t) PROVE OneWaiter'
  BY <1>10 DEF WaitAsync, Goto
<1>11. ASSUME NEW t \in Tasks, Arm(t) PROVE OneWaiter'
  BY <1>11 DEF Arm, Goto
<1>12. ASSUME NEW t \in Tasks, Check(t) PROVE OneWaiter'
  BY <1>12 DEF Check, Goto, TakeFrom
<1>13. ASSUME NEW t \in Tasks, AwaitWakes(t) PROVE OneWaiter'
  BY <1>13 DEF AwaitWakes, Goto
<1>14. ASSUME NEW t \in Tasks, AwaitTimesOut(t) PROVE OneWaiter'
  BY <1>14 DEF AwaitTimesOut, Goto
<1>15. ASSUME NEW t \in Tasks, Finish(t) PROVE OneWaiter'
  BY <1>15 DEF Finish, Goto, Reset, NotifyAll
<1>16. ASSUME NEW p \in Prompts, NEW d \in Decisions, Resolve(p, d) PROVE OneWaiter'
  BY <1>16 DEF Resolve, NotifyAll
<1>17. ASSUME NEW p \in Prompts, Cancel(p) PROVE OneWaiter'
  BY <1>17 DEF Cancel, Withdraw, NotifyAll
<1>18. ASSUME RejectPending PROVE OneWaiter'
  BY <1>18 DEF RejectPending, Withdraw, NotifyAll
<1>19. CASE UNCHANGED vars
  BY <1>19 DEF vars
<1> HIDE DEF TypeOK, OneWaiter, Active, Listening
<1>20. ASSUME NEW t \in Tasks, Proceed(t) \/ Timeout(t) PROVE OneWaiter'
  BY <1>2, <1>3, <1>4, <1>5, <1>6, <1>7, <1>8, <1>9, <1>10, <1>11, <1>12, <1>13, <1>14, <1>15,
     <1>20 DEF Proceed, Timeout
<1> QED
  BY <1>1, <1>16, <1>17, <1>18, <1>19, <1>20 DEF Next

\* A step keeps the stored value, the accepted decision and the task's result
\* in agreement.
LEMMA GateStep == TypeOK /\ OneWaiter /\ GateInv /\ [Next]_vars => GateInv'
<1> SUFFICES ASSUME TypeOK, OneWaiter, GateInv, [Next]_vars PROVE GateInv'
  OBVIOUS
<1> USE DecisionAssumption DEF TypeOK, OneWaiter, GateInv, Active, Listening
<1>1. ASSUME NEW t \in Tasks, NEW p \in Prompts, Begin(t, p) PROVE GateInv'
  BY <1>1 DEF Begin, Goto
<1>2. ASSUME NEW t \in Tasks, Emit(t) PROVE GateInv'
  BY <1>2 DEF Emit, Goto
<1>3. ASSUME NEW t \in Tasks, EmitFull(t) PROVE GateInv'
  BY <1>3 DEF EmitFull, Goto
<1>4. ASSUME NEW t \in Tasks, CancelOwn(t) PROVE GateInv'
  BY <1>4 DEF CancelOwn, Goto, NotifyAll
<1>5. ASSUME NEW t \in Tasks, DiscardOwn(t) PROVE GateInv'
  BY <1>5 DEF DiscardOwn, Goto, Reset, NotifyWaiters
<1>6. ASSUME NEW t \in Tasks, WaitAnswered(t) PROVE GateInv'
  BY <1>6 DEF WaitAnswered, Leave, Goto, Reset, NotifyWaiters
<1>7. ASSUME NEW t \in Tasks, Park(t) PROVE GateInv'
  BY <1>7 DEF Park, Goto
<1>8. ASSUME NEW t \in Tasks, ParkedWakes(t) PROVE GateInv'
  BY <1>8 DEF ParkedWakes, Leave, Goto, Reset, NotifyWaiters
<1>9. ASSUME NEW t \in Tasks, ParkedTimesOut(t) PROVE GateInv'
  BY <1>9 DEF ParkedTimesOut, Leave, Goto, Reset, NotifyWaiters
<1>10. ASSUME NEW t \in Tasks, WaitAsync(t) PROVE GateInv'
  BY <1>10 DEF WaitAsync, Goto
<1>11. ASSUME NEW t \in Tasks, Arm(t) PROVE GateInv'
  BY <1>11 DEF Arm, Goto
<1>12. ASSUME NEW t \in Tasks, Check(t) PROVE GateInv'
  BY <1>12 DEF Check, Goto, TakeFrom
<1>13. ASSUME NEW t \in Tasks, AwaitWakes(t) PROVE GateInv'
  BY <1>13 DEF AwaitWakes, Goto
<1>14. ASSUME NEW t \in Tasks, AwaitTimesOut(t) PROVE GateInv'
  BY <1>14 DEF AwaitTimesOut, Goto
<1>15. ASSUME NEW t \in Tasks, Finish(t) PROVE GateInv'
  BY <1>15 DEF Finish, Goto, Reset, NotifyAll
<1>16. ASSUME NEW p \in Prompts, NEW d \in Decisions, Resolve(p, d) PROVE GateInv'
  BY <1>16 DEF Resolve, NotifyAll
<1>17. ASSUME NEW p \in Prompts, Cancel(p) PROVE GateInv'
  BY <1>17 DEF Cancel, Withdraw, NotifyAll
<1>18. ASSUME RejectPending PROVE GateInv'
  BY <1>18 DEF RejectPending, Withdraw, NotifyAll
<1>19. CASE UNCHANGED vars
  BY <1>19 DEF vars
<1> HIDE DEF TypeOK, OneWaiter, GateInv, Active, Listening
<1>20. ASSUME NEW t \in Tasks, Proceed(t) \/ Timeout(t) PROVE GateInv'
  BY <1>2, <1>3, <1>4, <1>5, <1>6, <1>7, <1>8, <1>9, <1>10, <1>11, <1>12, <1>13, <1>14, <1>15,
     <1>20 DEF Proceed, Timeout
<1> QED
  BY <1>1, <1>16, <1>17, <1>18, <1>19, <1>20 DEF Next

\* A step that ends the waiting state notifies the task that is listening.
LEMMA WakeStep == TypeOK /\ OneWaiter /\ NoLostWakeup /\ [Next]_vars => NoLostWakeup'
<1> SUFFICES ASSUME TypeOK, OneWaiter, NoLostWakeup, [Next]_vars PROVE NoLostWakeup'
  OBVIOUS
<1> USE DecisionAssumption DEF TypeOK, OneWaiter, NoLostWakeup, Active, Listening
<1>1. ASSUME NEW t \in Tasks, NEW p \in Prompts, Begin(t, p) PROVE NoLostWakeup'
  BY <1>1 DEF Begin, Goto
<1>2. ASSUME NEW t \in Tasks, Emit(t) PROVE NoLostWakeup'
  BY <1>2 DEF Emit, Goto
<1>3. ASSUME NEW t \in Tasks, EmitFull(t) PROVE NoLostWakeup'
  BY <1>3 DEF EmitFull, Goto
<1>4. ASSUME NEW t \in Tasks, CancelOwn(t) PROVE NoLostWakeup'
  BY <1>4 DEF CancelOwn, Goto, NotifyAll
<1>5. ASSUME NEW t \in Tasks, DiscardOwn(t) PROVE NoLostWakeup'
  BY <1>5 DEF DiscardOwn, Goto, Reset, NotifyWaiters
<1>6. ASSUME NEW t \in Tasks, WaitAnswered(t) PROVE NoLostWakeup'
  BY <1>6 DEF WaitAnswered, Leave, Goto, Reset, NotifyWaiters
<1>7. ASSUME NEW t \in Tasks, Park(t) PROVE NoLostWakeup'
  BY <1>7 DEF Park, Goto
<1>8. ASSUME NEW t \in Tasks, ParkedWakes(t) PROVE NoLostWakeup'
  BY <1>8 DEF ParkedWakes, Leave, Goto, Reset, NotifyWaiters
<1>9. ASSUME NEW t \in Tasks, ParkedTimesOut(t) PROVE NoLostWakeup'
  BY <1>9 DEF ParkedTimesOut, Leave, Goto, Reset, NotifyWaiters
<1>10. ASSUME NEW t \in Tasks, WaitAsync(t) PROVE NoLostWakeup'
  BY <1>10 DEF WaitAsync, Goto
<1>11. ASSUME NEW t \in Tasks, Arm(t) PROVE NoLostWakeup'
  BY <1>11 DEF Arm, Goto
<1>12. ASSUME NEW t \in Tasks, Check(t) PROVE NoLostWakeup'
  BY <1>12 DEF Check, Goto, TakeFrom
<1>13. ASSUME NEW t \in Tasks, AwaitWakes(t) PROVE NoLostWakeup'
  BY <1>13 DEF AwaitWakes, Goto
<1>14. ASSUME NEW t \in Tasks, AwaitTimesOut(t) PROVE NoLostWakeup'
  BY <1>14 DEF AwaitTimesOut, Goto
<1>15. ASSUME NEW t \in Tasks, Finish(t) PROVE NoLostWakeup'
  BY <1>15 DEF Finish, Goto, Reset, NotifyAll
<1>16. ASSUME NEW p \in Prompts, NEW d \in Decisions, Resolve(p, d) PROVE NoLostWakeup'
  BY <1>16 DEF Resolve, NotifyAll
<1>17. ASSUME NEW p \in Prompts, Cancel(p) PROVE NoLostWakeup'
  BY <1>17 DEF Cancel, Withdraw, NotifyAll
<1>18. ASSUME RejectPending PROVE NoLostWakeup'
  BY <1>18 DEF RejectPending, Withdraw, NotifyAll
<1>19. CASE UNCHANGED vars
  BY <1>19 DEF vars
<1> HIDE DEF TypeOK, OneWaiter, NoLostWakeup, Active, Listening
<1>20. ASSUME NEW t \in Tasks, Proceed(t) \/ Timeout(t) PROVE NoLostWakeup'
  BY <1>2, <1>3, <1>4, <1>5, <1>6, <1>7, <1>8, <1>9, <1>10, <1>11, <1>12, <1>13, <1>14, <1>15,
     <1>20 DEF Proceed, Timeout
<1> QED
  BY <1>1, <1>16, <1>17, <1>18, <1>19, <1>20 DEF Next

\* A step that leaves the gate hands over the accepted decision.
LEMMA AnswerStep == TypeOK /\ OneWaiter /\ GateInv /\ AnswerIsTheUsers /\ [Next]_vars => AnswerIsTheUsers'
<1> SUFFICES ASSUME TypeOK, OneWaiter, GateInv, AnswerIsTheUsers, [Next]_vars PROVE AnswerIsTheUsers'
  OBVIOUS
<1> USE DecisionAssumption DEF TypeOK, OneWaiter, GateInv, AnswerIsTheUsers, Active, Listening
<1>1. ASSUME NEW t \in Tasks, NEW p \in Prompts, Begin(t, p) PROVE AnswerIsTheUsers'
  BY <1>1 DEF Begin, Goto
<1>2. ASSUME NEW t \in Tasks, Emit(t) PROVE AnswerIsTheUsers'
  BY <1>2 DEF Emit, Goto
<1>3. ASSUME NEW t \in Tasks, EmitFull(t) PROVE AnswerIsTheUsers'
  BY <1>3 DEF EmitFull, Goto
<1>4. ASSUME NEW t \in Tasks, CancelOwn(t) PROVE AnswerIsTheUsers'
  BY <1>4 DEF CancelOwn, Goto, NotifyAll
<1>5. ASSUME NEW t \in Tasks, DiscardOwn(t) PROVE AnswerIsTheUsers'
  BY <1>5 DEF DiscardOwn, Goto, Reset, NotifyWaiters
<1>6. ASSUME NEW t \in Tasks, WaitAnswered(t) PROVE AnswerIsTheUsers'
  BY <1>6 DEF WaitAnswered, Leave, Goto, Reset, NotifyWaiters
<1>7. ASSUME NEW t \in Tasks, Park(t) PROVE AnswerIsTheUsers'
  BY <1>7 DEF Park, Goto
<1>8. ASSUME NEW t \in Tasks, ParkedWakes(t) PROVE AnswerIsTheUsers'
  BY <1>8 DEF ParkedWakes, Leave, Goto, Reset, NotifyWaiters
<1>9. ASSUME NEW t \in Tasks, ParkedTimesOut(t) PROVE AnswerIsTheUsers'
  BY <1>9 DEF ParkedTimesOut, Leave, Goto, Reset, NotifyWaiters
<1>10. ASSUME NEW t \in Tasks, WaitAsync(t) PROVE AnswerIsTheUsers'
  BY <1>10 DEF WaitAsync, Goto
<1>11. ASSUME NEW t \in Tasks, Arm(t) PROVE AnswerIsTheUsers'
  BY <1>11 DEF Arm, Goto
<1>12. ASSUME NEW t \in Tasks, Check(t) PROVE AnswerIsTheUsers'
  BY <1>12 DEF Check, Goto, TakeFrom
<1>13. ASSUME NEW t \in Tasks, AwaitWakes(t) PROVE AnswerIsTheUsers'
  BY <1>13 DEF AwaitWakes, Goto
<1>14. ASSUME NEW t \in Tasks, AwaitTimesOut(t) PROVE AnswerIsTheUsers'
  BY <1>14 DEF AwaitTimesOut, Goto
<1>15. ASSUME NEW t \in Tasks, Finish(t) PROVE AnswerIsTheUsers'
  BY <1>15 DEF Finish, Goto, Reset, NotifyAll
<1>16. ASSUME NEW p \in Prompts, NEW d \in Decisions, Resolve(p, d) PROVE AnswerIsTheUsers'
  BY <1>16 DEF Resolve, NotifyAll
<1>17. ASSUME NEW p \in Prompts, Cancel(p) PROVE AnswerIsTheUsers'
  BY <1>17 DEF Cancel, Withdraw, NotifyAll
<1>18. ASSUME RejectPending PROVE AnswerIsTheUsers'
  BY <1>18 DEF RejectPending, Withdraw, NotifyAll
<1>19. CASE UNCHANGED vars
  BY <1>19 DEF vars
<1> HIDE DEF TypeOK, OneWaiter, GateInv, AnswerIsTheUsers, Active, Listening
<1>20. ASSUME NEW t \in Tasks, Proceed(t) \/ Timeout(t) PROVE AnswerIsTheUsers'
  BY <1>2, <1>3, <1>4, <1>5, <1>6, <1>7, <1>8, <1>9, <1>10, <1>11, <1>12, <1>13, <1>14, <1>15,
     <1>20 DEF Proceed, Timeout
<1> QED
  BY <1>1, <1>16, <1>17, <1>18, <1>19, <1>20 DEF Next

-----------------------------------------------------------------------------

\* The inductive invariant holds of a new gate.
LEMMA InitDecision == Init => TypeOK /\ DecisionInv
BY DecisionAssumption DEF Init, TypeOK, DecisionInv, OneWaiter, GateInv, NoLostWakeup,
   AnswerIsTheUsers, Active, Listening

\* The inductive invariant holds in every reachable state of the gate.
THEOREM DecisionInvariant == Spec => [](TypeOK /\ DecisionInv)
<1>1. TypeOK /\ DecisionInv /\ [Next]_vars => TypeOK' /\ DecisionInv'
  BY TypeStep, OneWaiterStep, GateStep, WakeStep, AnswerStep DEF DecisionInv
<1> QED
  BY <1>1, InitDecision, PTL DEF Spec

\* The variables of the gate keep their types.
THEOREM TypeCorrect == Spec => []TypeOK
BY DecisionInvariant, PTL

\* At most one task has the gate, and a gate nobody has is idle: begin never
\* fails for a task that asks after the others have left.
THEOREM GateIsExclusive == Spec => []OneWaiter
<1>1. DecisionInv => OneWaiter
  BY DEF DecisionInv
<1> QED
  BY <1>1, DecisionInvariant, PTL

\* A wait returns the accepted decision or, after a timeout or an unshown
\* prompt, None.
THEOREM AnswerIsGenuine == Spec => []AnswerIsTheUsers
<1>1. DecisionInv => AnswerIsTheUsers
  BY DEF DecisionInv
<1> QED
  BY <1>1, DecisionInvariant, PTL

\* No answer is slept through.
THEOREM WakeupIsNotLost == Spec => []NoLostWakeup
<1>1. DecisionInv => NoLostWakeup
  BY DEF DecisionInv
<1> QED
  BY <1>1, DecisionInvariant, PTL

\* A password the task has taken is not kept in the gate.
THEOREM PasswordIsMovedOut == Spec => []PasswordHasOneHolder
<1>1. DecisionInv => PasswordHasOneHolder
  BY DEF DecisionInv, GateInv, PasswordHasOneHolder
<1> QED
  BY <1>1, DecisionInvariant, PTL
=============================================================================
