----------------------- MODULE AutomationInput_proofs -----------------------
(***************************************************************************)
(* Proofs that the compare-exchange protocol of AutomationInput keeps its  *)
(* safety properties and implements the contract InputReservation, for     *)
(* every set of reservations, lifetime, clock bound and generation bound.  *)
(***************************************************************************)
EXTENDS AutomationInput, TLAPS

-----------------------------------------------------------------------------
(* The epoch operators stay inside Epochs. *)

\* The epoch's operations stay within its type.
LEMMA EpochClosed ==
    ASSUME NEW e \in Epochs, NEW r \in BOOLEAN
    PROVE  /\ FailClosed(e) \in Epochs
           /\ TransitionUnderAdmission(e, r) \in Epochs
  <1>1. /\ e.generation \in Generations /\ e.failed \in BOOLEAN
        /\ e = [generation |-> e.generation, running |-> e.running, failed |-> e.failed]
    BY DEF Epochs
  <1>2. FailClosed(e) \in Epochs
    BY <1>1 DEF FailClosed, Epochs
  <1>3. [e EXCEPT !.running = FALSE] \in Epochs
    BY <1>1 DEF Epochs
  <1>4. e.generation # MaxGeneration => e.generation + 1 \in Generations
    BY <1>1, MaxGenerationAssumption DEF Generations
  <1>5. e.generation # MaxGeneration
           => [e EXCEPT !.generation = @ + 1, !.running = r] \in Epochs
    BY <1>1, <1>4 DEF Epochs
  <1>6. QED
    BY <1>2, <1>3, <1>5 DEF TransitionUnderAdmission

-----------------------------------------------------------------------------
(* Type correctness. *)

\* The initial state is well typed.
LEMMA InitTypeOK == Init => TypeOK
  <1> SUFFICES ASSUME Init PROVE TypeOK
    OBVIOUS
  <1>1. 0 \in Generations
    BY MaxGenerationAssumption DEF Generations
  <1>2. NewEpoch \in Epochs
    BY <1>1 DEF NewEpoch, Epochs
  <1>3. QED
    BY <1>1, <1>2
       DEF Init, TypeOK, States, HostSteps, Outcomes, PollSteps

\* Every step keeps the variables in their types: in particular the generation
\* counter never leaves its range, although a transition always asks for the
\* next one.
LEMMA NextTypeOK == TypeOK /\ [Next]_vars => TypeOK'
  <1> SUFFICES ASSUME TypeOK, [Next]_vars PROVE TypeOK'
    OBVIOUS
  <1> USE DEF TypeOK, States, Open, HostSteps, Committing, Outcomes, Errors, PollSteps,
              HostGoto, PollGoto, Result, slotVars, hostVars, history
  <1>1. ASSUME NEW s \in Slots, Reserve(s) PROVE TypeOK'
    BY <1>1, TimeAssumption DEF Reserve, CanCapture, Epochs
  <1>2. ASSUME NEW s \in Slots, DropReserved(s) \/ BeginCommit(s) PROVE TypeOK'
    BY <1>2 DEF DropReserved, BeginCommit
  <1>3. ASSUME NEW s \in Slots, CheckEarly(s) \/ CheckTaken(s) \/ CheckAccepted(s) \/ CheckClaimed(s)
        PROVE  TypeOK'
    BY <1>3 DEF CheckEarly, CheckTaken, CheckAccepted, CheckClaimed, CheckClock
  <1>4. ASSUME NEW s \in Slots, Take(s) \/ Claim(s) PROVE TypeOK'
    BY <1>4 DEF Take, Claim, CompareExchange
  <1>5. ASSUME NEW s \in Slots, Publish(s) \/ Abandon(s) \/ Unwind(s) \/ Drop(s) \/ Return(s)
        PROVE  TypeOK'
    BY <1>5 DEF Publish, Abandon, Unwind, Drop, Return, CancelOpen
  <1>6. ASSUME NEW s \in Slots, CallbackAccepts(s) \/ CallbackRefuses(s) \/ CallbackPanics(s)
        PROVE  TypeOK'
    BY <1>6 DEF CallbackAccepts, CallbackRefuses, CallbackPanics
  <1>7. ASSUME NEW s \in Slots, Poll(s) \/ DropPending(s) PROVE TypeOK'
    BY <1>7 DEF Poll, PollClock, PollExpire, PollLoad, DropPending, CancelOpen
  <1>8. ASSUME NEW r \in BOOLEAN, Transition(r) PROVE TypeOK'
    BY <1>8, EpochClosed DEF Transition
  <1>9. CASE Tick
    BY <1>9 DEF Tick
  <1>10. CASE UNCHANGED vars
    BY <1>10 DEF vars
  <1>11. QED
    BY <1>1, <1>2, <1>3, <1>4, <1>5, <1>6, <1>7, <1>8, <1>9, <1>10 DEF Next, Commit

\* Every reachable state is well typed.
THEOREM TypeCorrect == Spec => []TypeOK
  BY InitTypeOK, NextTypeOK, PTL DEF Spec

-----------------------------------------------------------------------------
(* The inductive invariant, one part at a time. *)

\* The guard changes hands only when it is free, and a commit ends by giving it up.
LEMMA GuardStep ==
    ASSUME TypeOK, ProtocolInv, [Next]_vars
    PROVE  GuardInv'
  <1> USE DEF ProtocolInv, TypeOK, GuardInv
  <1> USE DEF HostGoto, PollGoto, Result, slotVars, hostVars, history, Open, Committing, Errors
  <1>1. ASSUME NEW s \in Slots, Reserve(s) PROVE GuardInv'
    BY <1>1, SlotAssumption DEF Reserve
  <1>2. ASSUME NEW s \in Slots, DropReserved(s) PROVE GuardInv'
    BY <1>2, SlotAssumption DEF DropReserved
  <1>3. ASSUME NEW s \in Slots, BeginCommit(s) PROVE GuardInv'
    BY <1>3, SlotAssumption DEF BeginCommit
  <1>4. ASSUME NEW s \in Slots, CheckEarly(s) PROVE GuardInv'
    BY <1>4, SlotAssumption DEF CheckEarly, CheckClock
  <1>5. ASSUME NEW s \in Slots, Take(s) PROVE GuardInv'
    BY <1>5, SlotAssumption DEF Take, CompareExchange
  <1>6. ASSUME NEW s \in Slots, CheckTaken(s) PROVE GuardInv'
    BY <1>6, SlotAssumption DEF CheckTaken, CheckClock
  <1>7. ASSUME NEW s \in Slots, CallbackAccepts(s) PROVE GuardInv'
    BY <1>7, SlotAssumption DEF CallbackAccepts
  <1>8. ASSUME NEW s \in Slots, CallbackRefuses(s) PROVE GuardInv'
    BY <1>8, SlotAssumption DEF CallbackRefuses
  <1>9. ASSUME NEW s \in Slots, CallbackPanics(s) PROVE GuardInv'
    BY <1>9, SlotAssumption DEF CallbackPanics
  <1>10. ASSUME NEW s \in Slots, CheckAccepted(s) PROVE GuardInv'
    BY <1>10, SlotAssumption DEF CheckAccepted, CheckClock
  <1>11. ASSUME NEW s \in Slots, Claim(s) PROVE GuardInv'
    BY <1>11, SlotAssumption DEF Claim, CompareExchange
  <1>12. ASSUME NEW s \in Slots, CheckClaimed(s) PROVE GuardInv'
    BY <1>12, SlotAssumption DEF CheckClaimed, CheckClock
  <1>13. ASSUME NEW s \in Slots, Publish(s) PROVE GuardInv'
    BY <1>13, SlotAssumption DEF Publish
  <1>14. ASSUME NEW s \in Slots, Abandon(s) PROVE GuardInv'
    BY <1>14, SlotAssumption DEF Abandon, CancelOpen
  <1>15. ASSUME NEW s \in Slots, Unwind(s) PROVE GuardInv'
    BY <1>15, SlotAssumption DEF Unwind, CancelOpen
  <1>16. ASSUME NEW s \in Slots, Drop(s) PROVE GuardInv'
    BY <1>16, SlotAssumption DEF Drop, CancelOpen
  <1>17. ASSUME NEW s \in Slots, Return(s) PROVE GuardInv'
    BY <1>17, SlotAssumption DEF Return
  <1>18. ASSUME NEW s \in Slots, PollClock(s) PROVE GuardInv'
    BY <1>18, SlotAssumption DEF PollClock
  <1>19. ASSUME NEW s \in Slots, PollExpire(s) PROVE GuardInv'
    BY <1>19, SlotAssumption DEF PollExpire, CancelOpen
  <1>20. ASSUME NEW s \in Slots, PollLoad(s) PROVE GuardInv'
    BY <1>20, SlotAssumption DEF PollLoad
  <1>21. ASSUME NEW s \in Slots, DropPending(s) PROVE GuardInv'
    BY <1>21, SlotAssumption DEF DropPending, CancelOpen
  <1>22. ASSUME NEW r \in BOOLEAN, Transition(r) PROVE GuardInv'
    BY <1>22, SlotAssumption DEF Transition
  <1>23. CASE Tick
    BY <1>23, SlotAssumption DEF Tick
  <1>24. CASE UNCHANGED vars
    BY <1>24 DEF vars
  <1>25. QED
    BY <1>1, <1>2, <1>3, <1>4, <1>5, <1>6, <1>7, <1>8, <1>9, <1>10, <1>11, <1>12, <1>13, <1>14,
       <1>15, <1>16, <1>17, <1>18, <1>19, <1>20, <1>21, <1>22, <1>23, <1>24 DEF Next, Commit,
       Poll

\* The slot's state follows the host's program point.
LEMMA StateStep ==
    ASSUME TypeOK, ProtocolInv, [Next]_vars, NEW t \in Slots
    PROVE  StateInv(t)'
  <1> USE DEF ProtocolInv, TypeOK, GuardInv, StateInv, OutcomeInv
  <1> USE DEF HostGoto, PollGoto, Result, slotVars, hostVars, history, Open, Committing, Errors
  <1>1. ASSUME NEW s \in Slots, Reserve(s) PROVE StateInv(t)'
    BY <1>1 DEF Reserve
  <1>2. ASSUME NEW s \in Slots, DropReserved(s) PROVE StateInv(t)'
    BY <1>2 DEF DropReserved
  <1>3. ASSUME NEW s \in Slots, BeginCommit(s) PROVE StateInv(t)'
    BY <1>3 DEF BeginCommit
  <1>4. ASSUME NEW s \in Slots, CheckEarly(s) PROVE StateInv(t)'
    BY <1>4 DEF CheckEarly, CheckClock
  <1>5. ASSUME NEW s \in Slots, Take(s) PROVE StateInv(t)'
    BY <1>5 DEF Take, CompareExchange
  <1>6. ASSUME NEW s \in Slots, CheckTaken(s) PROVE StateInv(t)'
    BY <1>6 DEF CheckTaken, CheckClock
  <1>7. ASSUME NEW s \in Slots, CallbackAccepts(s) PROVE StateInv(t)'
    BY <1>7 DEF CallbackAccepts
  <1>8. ASSUME NEW s \in Slots, CallbackRefuses(s) PROVE StateInv(t)'
    BY <1>8 DEF CallbackRefuses
  <1>9. ASSUME NEW s \in Slots, CallbackPanics(s) PROVE StateInv(t)'
    BY <1>9 DEF CallbackPanics
  <1>10. ASSUME NEW s \in Slots, CheckAccepted(s) PROVE StateInv(t)'
    BY <1>10 DEF CheckAccepted, CheckClock
  <1>11. ASSUME NEW s \in Slots, Claim(s) PROVE StateInv(t)'
    BY <1>11 DEF Claim, CompareExchange
  <1>12. ASSUME NEW s \in Slots, CheckClaimed(s) PROVE StateInv(t)'
    BY <1>12 DEF CheckClaimed, CheckClock
  <1>13. ASSUME NEW s \in Slots, Publish(s) PROVE StateInv(t)'
    BY <1>13 DEF Publish
  <1>14. ASSUME NEW s \in Slots, Abandon(s) PROVE StateInv(t)'
    BY <1>14 DEF Abandon, CancelOpen
  <1>15. ASSUME NEW s \in Slots, Unwind(s) PROVE StateInv(t)'
    BY <1>15 DEF Unwind, CancelOpen
  <1>16. ASSUME NEW s \in Slots, Drop(s) PROVE StateInv(t)'
    BY <1>16 DEF Drop, CancelOpen
  <1>17. ASSUME NEW s \in Slots, Return(s) PROVE StateInv(t)'
    BY <1>17 DEF Return
  <1>18. ASSUME NEW s \in Slots, PollClock(s) PROVE StateInv(t)'
    BY <1>18 DEF PollClock
  <1>19. ASSUME NEW s \in Slots, PollExpire(s) PROVE StateInv(t)'
    BY <1>19 DEF PollExpire, CancelOpen
  <1>20. ASSUME NEW s \in Slots, PollLoad(s) PROVE StateInv(t)'
    BY <1>20 DEF PollLoad
  <1>21. ASSUME NEW s \in Slots, DropPending(s) PROVE StateInv(t)'
    BY <1>21 DEF DropPending, CancelOpen
  <1>22. ASSUME NEW r \in BOOLEAN, Transition(r) PROVE StateInv(t)'
    BY <1>22 DEF Transition
  <1>23. CASE Tick
    BY <1>23 DEF Tick
  <1>24. CASE UNCHANGED vars
    BY <1>24 DEF vars
  <1>25. QED
    BY <1>1, <1>2, <1>3, <1>4, <1>5, <1>6, <1>7, <1>8, <1>9, <1>10, <1>11, <1>12, <1>13, <1>14,
       <1>15, <1>16, <1>17, <1>18, <1>19, <1>20, <1>21, <1>22, <1>23, <1>24 DEF Next, Commit,
       Poll

\* The result is set once, where the commit fails or succeeds.
LEMMA OutcomeStep ==
    ASSUME TypeOK, ProtocolInv, [Next]_vars, NEW t \in Slots
    PROVE  OutcomeInv(t)'
  <1> USE DEF ProtocolInv, TypeOK, GuardInv, StateInv, OutcomeInv
  <1> USE DEF HostGoto, PollGoto, Result, slotVars, hostVars, history, Open, Committing, Errors
  <1>1. ASSUME NEW s \in Slots, Reserve(s) PROVE OutcomeInv(t)'
    BY <1>1 DEF Reserve
  <1>2. ASSUME NEW s \in Slots, DropReserved(s) PROVE OutcomeInv(t)'
    BY <1>2 DEF DropReserved
  <1>3. ASSUME NEW s \in Slots, BeginCommit(s) PROVE OutcomeInv(t)'
    BY <1>3 DEF BeginCommit
  <1>4. ASSUME NEW s \in Slots, CheckEarly(s) PROVE OutcomeInv(t)'
    BY <1>4 DEF CheckEarly, CheckClock
  <1>5. ASSUME NEW s \in Slots, Take(s) PROVE OutcomeInv(t)'
    BY <1>5 DEF Take, CompareExchange
  <1>6. ASSUME NEW s \in Slots, CheckTaken(s) PROVE OutcomeInv(t)'
    BY <1>6 DEF CheckTaken, CheckClock
  <1>7. ASSUME NEW s \in Slots, CallbackAccepts(s) PROVE OutcomeInv(t)'
    BY <1>7 DEF CallbackAccepts
  <1>8. ASSUME NEW s \in Slots, CallbackRefuses(s) PROVE OutcomeInv(t)'
    BY <1>8 DEF CallbackRefuses
  <1>9. ASSUME NEW s \in Slots, CallbackPanics(s) PROVE OutcomeInv(t)'
    BY <1>9 DEF CallbackPanics
  <1>10. ASSUME NEW s \in Slots, CheckAccepted(s) PROVE OutcomeInv(t)'
    BY <1>10 DEF CheckAccepted, CheckClock
  <1>11. ASSUME NEW s \in Slots, Claim(s) PROVE OutcomeInv(t)'
    BY <1>11 DEF Claim, CompareExchange
  <1>12. ASSUME NEW s \in Slots, CheckClaimed(s) PROVE OutcomeInv(t)'
    BY <1>12 DEF CheckClaimed, CheckClock
  <1>13. ASSUME NEW s \in Slots, Publish(s) PROVE OutcomeInv(t)'
    BY <1>13 DEF Publish
  <1>14. ASSUME NEW s \in Slots, Abandon(s) PROVE OutcomeInv(t)'
    BY <1>14 DEF Abandon, CancelOpen
  <1>15. ASSUME NEW s \in Slots, Unwind(s) PROVE OutcomeInv(t)'
    BY <1>15 DEF Unwind, CancelOpen
  <1>16. ASSUME NEW s \in Slots, Drop(s) PROVE OutcomeInv(t)'
    BY <1>16 DEF Drop, CancelOpen
  <1>17. ASSUME NEW s \in Slots, Return(s) PROVE OutcomeInv(t)'
    BY <1>17 DEF Return
  <1>18. ASSUME NEW s \in Slots, PollClock(s) PROVE OutcomeInv(t)'
    BY <1>18 DEF PollClock
  <1>19. ASSUME NEW s \in Slots, PollExpire(s) PROVE OutcomeInv(t)'
    BY <1>19 DEF PollExpire, CancelOpen
  <1>20. ASSUME NEW s \in Slots, PollLoad(s) PROVE OutcomeInv(t)'
    BY <1>20 DEF PollLoad
  <1>21. ASSUME NEW s \in Slots, DropPending(s) PROVE OutcomeInv(t)'
    BY <1>21 DEF DropPending, CancelOpen
  <1>22. ASSUME NEW r \in BOOLEAN, Transition(r) PROVE OutcomeInv(t)'
    BY <1>22 DEF Transition
  <1>23. CASE Tick
    BY <1>23 DEF Tick
  <1>24. CASE UNCHANGED vars
    BY <1>24 DEF vars
  <1>25. QED
    BY <1>1, <1>2, <1>3, <1>4, <1>5, <1>6, <1>7, <1>8, <1>9, <1>10, <1>11, <1>12, <1>13, <1>14,
       <1>15, <1>16, <1>17, <1>18, <1>19, <1>20, <1>21, <1>22, <1>23, <1>24 DEF Next, Commit,
       Poll

\* A clock read that follows a claim proves the claim timely.
LEMMA TimeStep ==
    ASSUME TypeOK, ProtocolInv, [Next]_vars, NEW t \in Slots
    PROVE  TimeInv(t)'
  <1> USE DEF ProtocolInv, TypeOK, GuardInv, StateInv, OutcomeInv, TimeInv
  <1> USE DEF HostGoto, PollGoto, Result, slotVars, hostVars, history, Open, Committing, Errors
  <1>1. ASSUME NEW s \in Slots, Reserve(s) PROVE TimeInv(t)'
    BY <1>1 DEF Reserve, Expired
  <1>2. ASSUME NEW s \in Slots, DropReserved(s) PROVE TimeInv(t)'
    BY <1>2 DEF DropReserved, Expired
  <1>3. ASSUME NEW s \in Slots, BeginCommit(s) PROVE TimeInv(t)'
    BY <1>3 DEF BeginCommit, Expired
  <1>4. ASSUME NEW s \in Slots, CheckEarly(s) PROVE TimeInv(t)'
    BY <1>4 DEF CheckEarly, CheckClock, Expired
  <1>5. ASSUME NEW s \in Slots, Take(s) PROVE TimeInv(t)'
    BY <1>5 DEF Take, CompareExchange, Expired
  <1>6. ASSUME NEW s \in Slots, CheckTaken(s) PROVE TimeInv(t)'
    BY <1>6 DEF CheckTaken, CheckClock, Expired
  <1>7. ASSUME NEW s \in Slots, CallbackAccepts(s) PROVE TimeInv(t)'
    BY <1>7 DEF CallbackAccepts, Expired
  <1>8. ASSUME NEW s \in Slots, CallbackRefuses(s) PROVE TimeInv(t)'
    BY <1>8 DEF CallbackRefuses, Expired
  <1>9. ASSUME NEW s \in Slots, CallbackPanics(s) PROVE TimeInv(t)'
    BY <1>9 DEF CallbackPanics, Expired
  <1>10. ASSUME NEW s \in Slots, CheckAccepted(s) PROVE TimeInv(t)'
    BY <1>10 DEF CheckAccepted, CheckClock, Expired
  <1>11. ASSUME NEW s \in Slots, Claim(s) PROVE TimeInv(t)'
    BY <1>11 DEF Claim, CompareExchange, Expired
  <1>12. ASSUME NEW s \in Slots, CheckClaimed(s) PROVE TimeInv(t)'
    BY <1>12 DEF CheckClaimed, CheckClock, Expired
  <1>13. ASSUME NEW s \in Slots, Publish(s) PROVE TimeInv(t)'
    BY <1>13 DEF Publish, Expired
  <1>14. ASSUME NEW s \in Slots, Abandon(s) PROVE TimeInv(t)'
    BY <1>14 DEF Abandon, CancelOpen, Expired
  <1>15. ASSUME NEW s \in Slots, Unwind(s) PROVE TimeInv(t)'
    BY <1>15 DEF Unwind, CancelOpen, Expired
  <1>16. ASSUME NEW s \in Slots, Drop(s) PROVE TimeInv(t)'
    BY <1>16 DEF Drop, CancelOpen, Expired
  <1>17. ASSUME NEW s \in Slots, Return(s) PROVE TimeInv(t)'
    BY <1>17 DEF Return, Expired
  <1>18. ASSUME NEW s \in Slots, PollClock(s) PROVE TimeInv(t)'
    BY <1>18 DEF PollClock, Expired
  <1>19. ASSUME NEW s \in Slots, PollExpire(s) PROVE TimeInv(t)'
    BY <1>19 DEF PollExpire, CancelOpen, Expired
  <1>20. ASSUME NEW s \in Slots, PollLoad(s) PROVE TimeInv(t)'
    BY <1>20 DEF PollLoad, Expired
  <1>21. ASSUME NEW s \in Slots, DropPending(s) PROVE TimeInv(t)'
    BY <1>21 DEF DropPending, CancelOpen, Expired
  <1>22. ASSUME NEW r \in BOOLEAN, Transition(r) PROVE TimeInv(t)'
    BY <1>22 DEF Transition
  <1>23. CASE Tick
    BY <1>23 DEF Tick, Expired
  <1>24. CASE UNCHANGED vars
    BY <1>24 DEF vars
  <1>25. QED
    BY <1>1, <1>2, <1>3, <1>4, <1>5, <1>6, <1>7, <1>8, <1>9, <1>10, <1>11, <1>12, <1>13, <1>14,
       <1>15, <1>16, <1>17, <1>18, <1>19, <1>20, <1>21, <1>22, <1>23, <1>24 DEF Next, Commit,
       Poll

\* The backend lets go of a slot only once it is resolved.
LEMMA PollStep ==
    ASSUME TypeOK, ProtocolInv, [Next]_vars, NEW t \in Slots
    PROVE  PollInv(t)'
  <1> USE DEF ProtocolInv, TypeOK, GuardInv, StateInv, OutcomeInv, PollInv, PollSteps
  <1> USE DEF HostGoto, PollGoto, Result, slotVars, hostVars, history, Open, Committing, Errors
  <1>1. ASSUME NEW s \in Slots, Reserve(s) PROVE PollInv(t)'
    BY <1>1 DEF Reserve
  <1>2. ASSUME NEW s \in Slots, DropReserved(s) PROVE PollInv(t)'
    BY <1>2 DEF DropReserved
  <1>3. ASSUME NEW s \in Slots, BeginCommit(s) PROVE PollInv(t)'
    BY <1>3 DEF BeginCommit
  <1>4. ASSUME NEW s \in Slots, CheckEarly(s) PROVE PollInv(t)'
    BY <1>4 DEF CheckEarly, CheckClock
  <1>5. ASSUME NEW s \in Slots, Take(s) PROVE PollInv(t)'
    BY <1>5 DEF Take, CompareExchange
  <1>6. ASSUME NEW s \in Slots, CheckTaken(s) PROVE PollInv(t)'
    BY <1>6 DEF CheckTaken, CheckClock
  <1>7. ASSUME NEW s \in Slots, CallbackAccepts(s) PROVE PollInv(t)'
    BY <1>7 DEF CallbackAccepts
  <1>8. ASSUME NEW s \in Slots, CallbackRefuses(s) PROVE PollInv(t)'
    BY <1>8 DEF CallbackRefuses
  <1>9. ASSUME NEW s \in Slots, CallbackPanics(s) PROVE PollInv(t)'
    BY <1>9 DEF CallbackPanics
  <1>10. ASSUME NEW s \in Slots, CheckAccepted(s) PROVE PollInv(t)'
    BY <1>10 DEF CheckAccepted, CheckClock
  <1>11. ASSUME NEW s \in Slots, Claim(s) PROVE PollInv(t)'
    BY <1>11 DEF Claim, CompareExchange
  <1>12. ASSUME NEW s \in Slots, CheckClaimed(s) PROVE PollInv(t)'
    BY <1>12 DEF CheckClaimed, CheckClock
  <1>13. ASSUME NEW s \in Slots, Publish(s) PROVE PollInv(t)'
    BY <1>13 DEF Publish
  <1>14. ASSUME NEW s \in Slots, Abandon(s) PROVE PollInv(t)'
    BY <1>14 DEF Abandon, CancelOpen
  <1>15. ASSUME NEW s \in Slots, Unwind(s) PROVE PollInv(t)'
    BY <1>15 DEF Unwind, CancelOpen
  <1>16. ASSUME NEW s \in Slots, Drop(s) PROVE PollInv(t)'
    BY <1>16 DEF Drop, CancelOpen
  <1>17. ASSUME NEW s \in Slots, Return(s) PROVE PollInv(t)'
    BY <1>17 DEF Return
  <1>18. ASSUME NEW s \in Slots, PollClock(s) PROVE PollInv(t)'
    BY <1>18 DEF PollClock
  <1>19. ASSUME NEW s \in Slots, PollExpire(s) PROVE PollInv(t)'
    BY <1>19 DEF PollExpire, CancelOpen
  <1>20. ASSUME NEW s \in Slots, PollLoad(s) PROVE PollInv(t)'
    BY <1>20 DEF PollLoad
  <1>21. ASSUME NEW s \in Slots, DropPending(s) PROVE PollInv(t)'
    BY <1>21 DEF DropPending, CancelOpen
  <1>22. ASSUME NEW r \in BOOLEAN, Transition(r) PROVE PollInv(t)'
    BY <1>22 DEF Transition
  <1>23. CASE Tick
    BY <1>23 DEF Tick
  <1>24. CASE UNCHANGED vars
    BY <1>24 DEF vars
  <1>25. QED
    BY <1>1, <1>2, <1>3, <1>4, <1>5, <1>6, <1>7, <1>8, <1>9, <1>10, <1>11, <1>12, <1>13, <1>14,
       <1>15, <1>16, <1>17, <1>18, <1>19, <1>20, <1>21, <1>22, <1>23, <1>24 DEF Next, Commit,
       Poll

\* No transition happens while the guard is held.
LEMMA AttachmentStep ==
    ASSUME TypeOK, ProtocolInv, [Next]_vars, NEW t \in Slots
    PROVE  AttachmentInv(t)'
  <1> USE DEF ProtocolInv, TypeOK, GuardInv, AttachmentInv
  <1> USE DEF HostGoto, PollGoto, Result, slotVars, hostVars, history, Open, Committing, Errors
  <1>1. ASSUME NEW s \in Slots, Reserve(s) PROVE AttachmentInv(t)'
    BY <1>1, SlotAssumption DEF Reserve, IsCurrent
  <1>2. ASSUME NEW s \in Slots, DropReserved(s) PROVE AttachmentInv(t)'
    BY <1>2, SlotAssumption DEF DropReserved, IsCurrent
  <1>3. ASSUME NEW s \in Slots, BeginCommit(s) PROVE AttachmentInv(t)'
    BY <1>3, SlotAssumption DEF BeginCommit, IsCurrent
  <1>4. ASSUME NEW s \in Slots, CheckEarly(s) PROVE AttachmentInv(t)'
    BY <1>4, SlotAssumption DEF CheckEarly, CheckClock, IsCurrent
  <1>5. ASSUME NEW s \in Slots, Take(s) PROVE AttachmentInv(t)'
    BY <1>5, SlotAssumption DEF Take, CompareExchange, IsCurrent
  <1>6. ASSUME NEW s \in Slots, CheckTaken(s) PROVE AttachmentInv(t)'
    BY <1>6, SlotAssumption DEF CheckTaken, CheckClock, IsCurrent
  <1>7. ASSUME NEW s \in Slots, CallbackAccepts(s) PROVE AttachmentInv(t)'
    BY <1>7, SlotAssumption DEF CallbackAccepts, IsCurrent
  <1>8. ASSUME NEW s \in Slots, CallbackRefuses(s) PROVE AttachmentInv(t)'
    BY <1>8, SlotAssumption DEF CallbackRefuses, IsCurrent
  <1>9. ASSUME NEW s \in Slots, CallbackPanics(s) PROVE AttachmentInv(t)'
    BY <1>9, SlotAssumption DEF CallbackPanics, IsCurrent
  <1>10. ASSUME NEW s \in Slots, CheckAccepted(s) PROVE AttachmentInv(t)'
    BY <1>10, SlotAssumption DEF CheckAccepted, CheckClock, IsCurrent
  <1>11. ASSUME NEW s \in Slots, Claim(s) PROVE AttachmentInv(t)'
    BY <1>11, SlotAssumption DEF Claim, CompareExchange, IsCurrent
  <1>12. ASSUME NEW s \in Slots, CheckClaimed(s) PROVE AttachmentInv(t)'
    BY <1>12, SlotAssumption DEF CheckClaimed, CheckClock, IsCurrent
  <1>13. ASSUME NEW s \in Slots, Publish(s) PROVE AttachmentInv(t)'
    BY <1>13, SlotAssumption DEF Publish, IsCurrent
  <1>14. ASSUME NEW s \in Slots, Abandon(s) PROVE AttachmentInv(t)'
    BY <1>14, SlotAssumption DEF Abandon, CancelOpen, IsCurrent
  <1>15. ASSUME NEW s \in Slots, Unwind(s) PROVE AttachmentInv(t)'
    BY <1>15, SlotAssumption DEF Unwind, CancelOpen, IsCurrent
  <1>16. ASSUME NEW s \in Slots, Drop(s) PROVE AttachmentInv(t)'
    BY <1>16, SlotAssumption DEF Drop, CancelOpen, IsCurrent
  <1>17. ASSUME NEW s \in Slots, Return(s) PROVE AttachmentInv(t)'
    BY <1>17, SlotAssumption DEF Return, IsCurrent
  <1>18. ASSUME NEW s \in Slots, PollClock(s) PROVE AttachmentInv(t)'
    BY <1>18, SlotAssumption DEF PollClock, IsCurrent
  <1>19. ASSUME NEW s \in Slots, PollExpire(s) PROVE AttachmentInv(t)'
    BY <1>19, SlotAssumption DEF PollExpire, CancelOpen, IsCurrent
  <1>20. ASSUME NEW s \in Slots, PollLoad(s) PROVE AttachmentInv(t)'
    BY <1>20, SlotAssumption DEF PollLoad, IsCurrent
  <1>21. ASSUME NEW s \in Slots, DropPending(s) PROVE AttachmentInv(t)'
    BY <1>21, SlotAssumption DEF DropPending, CancelOpen, IsCurrent
  <1>22. ASSUME NEW r \in BOOLEAN, Transition(r) PROVE AttachmentInv(t)'
    BY <1>22, SlotAssumption DEF Transition
  <1>23. CASE Tick
    BY <1>23, SlotAssumption DEF Tick, IsCurrent
  <1>24. CASE UNCHANGED vars
    BY <1>24 DEF vars
  <1>25. QED
    BY <1>1, <1>2, <1>3, <1>4, <1>5, <1>6, <1>7, <1>8, <1>9, <1>10, <1>11, <1>12, <1>13, <1>14,
       <1>15, <1>16, <1>17, <1>18, <1>19, <1>20, <1>21, <1>22, <1>23, <1>24 DEF Next, Commit,
       Poll

\* The initial state satisfies the invariant.
LEMMA InitProtocolInv == Init => ProtocolInv
  BY SlotAssumption
     DEF Init, ProtocolInv, GuardInv, StateInv, OutcomeInv, TimeInv, PollInv, AttachmentInv,
         Committing, Open, Errors

\* ProtocolInv is an invariant: it is inductive together with TypeOK.
THEOREM ProtocolInvariant == Spec => []ProtocolInv
  <1>1. TypeOK /\ ProtocolInv /\ [Next]_vars => ProtocolInv'
    <2> SUFFICES ASSUME TypeOK, ProtocolInv, [Next]_vars PROVE ProtocolInv'
      OBVIOUS
    <2>1. GuardInv'
      BY GuardStep
    <2>2. ASSUME NEW t \in Slots
          PROVE  (StateInv(t) /\ OutcomeInv(t) /\ TimeInv(t) /\ PollInv(t) /\ AttachmentInv(t))'
      BY StateStep, OutcomeStep, TimeStep, PollStep, AttachmentStep
    <2>3. QED
      BY <2>1, <2>2 DEF ProtocolInv
  <1>2. QED
    BY InitProtocolInv, TypeCorrect, <1>1, PTL DEF Spec

-----------------------------------------------------------------------------
(* The safety properties. *)

\* Any result other than Ok means that the bytes were not and will not be sent.
THEOREM ErrorTruth == Spec => []ErrorMeansUnsent
  <1>1. ProtocolInv => ErrorMeansUnsent
    BY DEF ProtocolInv, StateInv, ErrorMeansUnsent, Errors
  <1>2. QED
    BY ProtocolInvariant, <1>1, PTL

\* Bytes reach the backend only after the authority callback accepted them.
THEOREM AdmittedBeforeSent == Spec => []SentOnlyIfAdmitted
  <1>1. TypeOK /\ ProtocolInv => SentOnlyIfAdmitted
    <2> SUFFICES ASSUME TypeOK, ProtocolInv, NEW s \in Slots, state[s] = "TAKEN"
                 PROVE  accepted[s] /\ outcome[s] = "Ok"
      BY DEF SentOnlyIfAdmitted
    <2>1. pc[s] \in {"drop", "return", "done"} /\ outcome[s] = "Ok"
      BY DEF ProtocolInv, StateInv, TypeOK, HostSteps, Committing, Open
    <2>2. QED
      BY <2>1 DEF ProtocolInv, TimeInv
  <1>2. QED
    BY ProtocolInvariant, TypeCorrect, <1>1, PTL

\* Neither side can be descheduled into admitting an expired reservation.
THEOREM AdmissionIsTimely == Spec => []TimelyAdmission
  <1>1. TypeOK /\ ProtocolInv => TimelyAdmission
    <2> SUFFICES ASSUME TypeOK, ProtocolInv, NEW s \in Slots
                 PROVE  /\ state[s] \in {"READY", "TAKEN"} => claimedAt[s] < deadline[s]
                        /\ accepted[s] => begunAt[s] < deadline[s]
      BY DEF TimelyAdmission
    <2>1. state[s] \in {"READY", "TAKEN"} => outcome[s] = "Ok"
      BY DEF ProtocolInv, StateInv, TypeOK, HostSteps, Committing, Open
    <2>2. QED
      BY <2>1 DEF ProtocolInv, TimeInv
  <1>2. QED
    BY ProtocolInvariant, TypeCorrect, <1>1, PTL

\* A step publishes bytes only for the attachment they were reserved for.
THEOREM PublicationIsBound == Spec => PublishedForBoundAttachment
  <1>1. TypeOK /\ ProtocolInv /\ [Next]_vars
          => [\A s \in Slots :
                (state'[s] = "READY" /\ state[s] # "READY") => IsCurrent(epoch, bound[s])]_vars
    <2> SUFFICES ASSUME TypeOK, ProtocolInv, [Next]_vars, NEW t \in Slots,
                        state'[t] = "READY", state[t] # "READY"
                 PROVE  IsCurrent(epoch, bound[t])
      OBVIOUS
    <2> USE DEF TypeOK, slotVars, hostVars, CancelOpen
    <2>1. PICK s \in Slots : Publish(s) /\ s = t
      BY DEF Next, Commit, Poll, vars, Reserve, DropReserved, BeginCommit, CheckEarly, CheckTaken,
             CheckAccepted, CheckClaimed, CheckClock, Take, Claim, CompareExchange, Publish,
             CallbackAccepts, CallbackRefuses, CallbackPanics, Abandon, Unwind, Drop, Return,
             PollClock, PollExpire, PollLoad, DropPending, Transition, Tick
    <2>2. QED
      BY <2>1 DEF Publish, HostGoto, ProtocolInv, AttachmentInv, Committing
  <1>2. QED
    BY ProtocolInvariant, TypeCorrect, <1>1, PTL DEF Spec, PublishedForBoundAttachment

-----------------------------------------------------------------------------
(* Refinement. *)

absVars == <<phaseBar, reportBar>>

\* A step that changes no reservation's phase or report is a stutter of the
\* contract.
LEMMA Stutter ==
    ASSUME \A t \in Slots : phaseBar'[t] = phaseBar[t] /\ reportBar'[t] = reportBar[t]
    PROVE  absVars' = absVars
  BY DEF absVars, phaseBar, reportBar

\* A step that takes one reservation from one phase to another, and leaves the
\* others and all reports alone, is a Move of the contract.
LEMMA MoveRefines ==
    ASSUME NEW s \in Slots, NEW from, NEW to,
           phaseBar[s] = from, phaseBar'[s] = to, reportBar' = reportBar,
           \A t \in Slots \ {s} : phaseBar'[t] = phaseBar[t]
    PROVE  Contract!Move(s, from, to)
  <1>1. phaseBar' = [t \in Slots |-> phaseBar'[t]] /\ phaseBar = [t \in Slots |-> phaseBar[t]]
    BY DEF phaseBar
  <1>2. phaseBar' = [phaseBar EXCEPT ![s] = to]
    BY <1>1
  <1>3. QED
    BY <1>2 DEF Contract!Move

\* cancel_open voids an open reservation and leaves a resolved one alone.
LEMMA CancelRefines ==
    ASSUME TypeOK, ProtocolInv, NEW s \in Slots, CancelOpen(s), reportBar' = reportBar,
           \A t \in Slots : poll'[t] = poll[t] \/ (t = s /\ poll'[t] # "gone" /\ poll[t] # "gone")
    PROVE  Contract!Void(s) \/ absVars' = absVars
  <1>1. CASE state[s] \in Open
    BY <1>1 DEF TypeOK, CancelOpen, Open, phaseBar, Contract!Void, Contract!Move
  <1>2. CASE state[s] \notin Open
    BY <1>2, Stutter DEF TypeOK, CancelOpen, Open, phaseBar
  <1>3. QED
    BY <1>1, <1>2

\* Every step of the protocol is a step of the contract or leaves it alone.
LEMMA StepRefines ==
    ASSUME TypeOK, ProtocolInv, [Next]_vars
    PROVE  [Contract!Next]_absVars
  <1> USE DEF TypeOK, HostGoto, PollGoto, Result, slotVars, hostVars
  <1>1. ASSUME NEW s \in Slots, Reserve(s) PROVE Contract!Reserve(s)
    <2>1. phaseBar[s] = "absent" /\ phaseBar'[s] = "open" /\ \A t \in Slots \ {s} : phaseBar'[t] = phaseBar[t]
      BY <1>1 DEF Reserve, phaseBar, Open
    <2>2. reportBar' = reportBar
      BY <1>1 DEF Reserve, reportBar
    <2>3. QED
      BY <2>1, <2>2, MoveRefines DEF Contract!Reserve
  <1>2. ASSUME NEW s \in Slots, DropReserved(s) PROVE absVars' = absVars
    BY <1>2, Stutter DEF DropReserved, phaseBar, reportBar
  <1>3. ASSUME NEW s \in Slots, BeginCommit(s) PROVE absVars' = absVars
    BY <1>3, Stutter DEF BeginCommit, phaseBar, reportBar
  <1>4. ASSUME NEW s \in Slots, CheckEarly(s) PROVE absVars' = absVars
    BY <1>4, Stutter DEF CheckEarly, CheckClock, phaseBar, reportBar
  <1>5. ASSUME NEW s \in Slots, CheckTaken(s) PROVE absVars' = absVars
    BY <1>5, Stutter DEF CheckTaken, CheckClock, phaseBar, reportBar
  <1>6. ASSUME NEW s \in Slots, CheckAccepted(s) PROVE absVars' = absVars
    BY <1>6, Stutter DEF CheckAccepted, CheckClock, phaseBar, reportBar
  <1>7. ASSUME NEW s \in Slots, CheckClaimed(s) PROVE absVars' = absVars
    BY <1>7, Stutter DEF CheckClaimed, CheckClock, phaseBar, reportBar
  <1>8. ASSUME NEW s \in Slots, Take(s) PROVE absVars' = absVars
    BY <1>8, Stutter DEF Take, CompareExchange, Open, phaseBar, reportBar
  <1>9. ASSUME NEW s \in Slots, Claim(s) PROVE absVars' = absVars
    BY <1>9, Stutter DEF Claim, CompareExchange, Open, phaseBar, reportBar
  <1>10. ASSUME NEW s \in Slots, CallbackAccepts(s) PROVE absVars' = absVars
    BY <1>10, Stutter DEF CallbackAccepts, phaseBar, reportBar
  <1>11. ASSUME NEW s \in Slots, CallbackRefuses(s) PROVE absVars' = absVars
    BY <1>11, Stutter DEF CallbackRefuses, phaseBar, reportBar
  <1>12. ASSUME NEW s \in Slots, CallbackPanics(s) PROVE absVars' = absVars
    BY <1>12, Stutter DEF CallbackPanics, phaseBar, reportBar
  <1>13. ASSUME NEW s \in Slots, PollClock(s) PROVE absVars' = absVars
    BY <1>13, Stutter DEF PollClock, phaseBar, reportBar
  <1>14. ASSUME NEW s \in Slots, Publish(s) PROVE Contract!Publish(s) \/ absVars' = absVars
    <2>1. CASE state[s] = "CLAIMED"
      <3>1. poll[s] # "gone"
        BY <2>1 DEF ProtocolInv, PollInv, Open
      <3>2. phaseBar[s] = "open" /\ phaseBar'[s] = "published" /\ \A t \in Slots \ {s} : phaseBar'[t] = phaseBar[t]
        BY <1>14, <2>1, <3>1 DEF Publish, phaseBar, Open
      <3>3. reportBar' = reportBar
        BY <1>14 DEF Publish, reportBar
      <3>4. QED
        BY <3>2, <3>3, MoveRefines DEF Contract!Publish
    <2>2. CASE state[s] # "CLAIMED"
      BY <1>14, <2>2, Stutter DEF Publish, phaseBar, reportBar
    <2>3. QED
      BY <2>1, <2>2
  <1>15. ASSUME NEW s \in Slots, Abandon(s) PROVE Contract!Void(s) \/ absVars' = absVars
    <2>1. reportBar' = reportBar
      BY <1>15 DEF Abandon, reportBar
    <2>2. QED
      BY <1>15, <2>1, CancelRefines DEF Abandon
  <1>16. ASSUME NEW s \in Slots, Unwind(s) PROVE Contract!Void(s) \/ absVars' = absVars
    <2>1. reportBar' = reportBar
      BY <1>16 DEF Unwind, reportBar, ProtocolInv, OutcomeInv, Errors
    <2>2. QED
      BY <1>16, <2>1, CancelRefines DEF Unwind
  <1>17. ASSUME NEW s \in Slots, Drop(s) PROVE Contract!Void(s) \/ absVars' = absVars
    <2>1. reportBar' = reportBar
      BY <1>17 DEF Drop, reportBar
    <2>2. QED
      BY <1>17, <2>1, CancelRefines DEF Drop
  <1>18. ASSUME NEW s \in Slots, PollExpire(s) PROVE Contract!Void(s) \/ absVars' = absVars
    <2>1. reportBar' = reportBar
      BY <1>18 DEF PollExpire, reportBar
    <2>2. QED
      BY <1>18, <2>1, CancelRefines DEF PollExpire
  <1>19. ASSUME NEW s \in Slots, Return(s) PROVE Contract!Report(s) \/ absVars' = absVars
    <2>1. phaseBar' = phaseBar
      BY <1>19 DEF Return, phaseBar
    <2>2. CASE outcome[s] \in {"none", "Dropped", "Panicked"}
      BY <1>19, <2>1, <2>2, Stutter DEF Return, reportBar, Errors
    <2>3. CASE outcome[s] \in Errors
      <3>1. phaseBar[s] = "void"
        BY <1>19, <2>3 DEF Return, ProtocolInv, StateInv, phaseBar, Errors, Open
      <3>2. QED
        BY <1>19, <2>1, <2>3, <3>1 DEF Return, Contract!Report, reportBar, Errors
    <2>4. CASE outcome[s] = "Ok"
      <3>1. phaseBar[s] \in {"published", "delivered", "discarded"}
        BY <1>19, <2>4 DEF Return, ProtocolInv, StateInv, phaseBar, Open
      <3>2. QED
        BY <1>19, <2>1, <2>4, <3>1 DEF Return, Contract!Report, reportBar, Errors
    <2>5. QED
      BY <2>2, <2>3, <2>4 DEF Outcomes
  <1>20. ASSUME NEW s \in Slots, PollLoad(s) PROVE Contract!Deliver(s) \/ absVars' = absVars
    <2>1. CASE state[s] = "READY"
      <3>1. phaseBar[s] = "published" /\ phaseBar'[s] = "delivered" /\ \A t \in Slots \ {s} : phaseBar'[t] = phaseBar[t]
        BY <1>20, <2>1 DEF PollLoad, phaseBar, Open
      <3>2. reportBar' = reportBar
        BY <1>20, <2>1 DEF PollLoad, reportBar
      <3>3. QED
        BY <3>1, <3>2, MoveRefines DEF Contract!Deliver
    <2>2. CASE state[s] # "READY"
      BY <1>20, <2>2, Stutter DEF PollLoad, phaseBar, reportBar, ProtocolInv, PollInv, Open, States
    <2>3. QED
      BY <2>1, <2>2
  <1>21. ASSUME NEW s \in Slots, DropPending(s)
        PROVE  Contract!Void(s) \/ Contract!Discard(s) \/ absVars' = absVars
    <2>1. CASE state[s] \in Open
      <3>1. phaseBar[s] = "open" /\ phaseBar'[s] = "void" /\ \A t \in Slots \ {s} : phaseBar'[t] = phaseBar[t]
        BY <1>21, <2>1 DEF DropPending, CancelOpen, phaseBar, Open
      <3>2. reportBar' = reportBar
        BY <1>21, <2>1 DEF DropPending, CancelOpen, reportBar
      <3>3. QED
        BY <3>1, <3>2, MoveRefines DEF Contract!Void
    <2>2. CASE state[s] = "READY"
      <3>1. phaseBar[s] = "published" /\ phaseBar'[s] = "discarded" /\ \A t \in Slots \ {s} : phaseBar'[t] = phaseBar[t]
        BY <1>21, <2>2 DEF DropPending, CancelOpen, phaseBar, Open
      <3>2. reportBar' = reportBar
        BY <1>21, <2>2 DEF DropPending, CancelOpen, reportBar
      <3>3. QED
        BY <3>1, <3>2, MoveRefines DEF Contract!Discard
    <2>3. CASE state[s] \notin Open \cup {"READY"}
      BY <1>21, <2>3, Stutter DEF DropPending, CancelOpen, phaseBar, reportBar, Open, States
    <2>4. QED
      BY <2>1, <2>2, <2>3
  <1>22. ASSUME NEW r \in BOOLEAN, Transition(r) PROVE absVars' = absVars
    BY <1>22, Stutter DEF Transition, phaseBar, reportBar
  <1>23. CASE Tick \/ UNCHANGED vars
    BY <1>23, Stutter DEF Tick, vars, phaseBar, reportBar
  <1>24. QED
    BY <1>1, <1>2, <1>3, <1>4, <1>5, <1>6, <1>7, <1>8, <1>9, <1>10, <1>11, <1>12, <1>13, <1>14,
       <1>15, <1>16, <1>17, <1>18, <1>19, <1>20, <1>21, <1>22, <1>23
       DEF Next, Commit, Poll, Contract!Next

\* The compare-exchange protocol implements the reservation contract: the host
\* is told the truth and published bytes are delivered at most once.
THEOREM Refinement == Spec => ImplementsContract
  <1>1. Init => Contract!Init
    <2> SUFFICES ASSUME Init PROVE Contract!Init
      OBVIOUS
    <2>1. \A s \in Slots : state[s] = "absent" /\ pc[s] = "absent"
      BY DEF Init
    <2>2. \A s \in Slots : phaseBar[s] = "absent" /\ reportBar[s] = "none"
      BY <2>1 DEF phaseBar, reportBar, Open
    <2>3. phaseBar = [s \in Slots |-> phaseBar[s]] /\ reportBar = [s \in Slots |-> reportBar[s]]
      BY DEF phaseBar, reportBar
    <2>4. QED
      BY <2>2, <2>3 DEF Contract!Init
  <1>2. TypeOK /\ ProtocolInv /\ [Next]_vars => [Contract!Next]_<<phaseBar, reportBar>>
    BY StepRefines DEF absVars
  <1>3. QED
    BY <1>1, <1>2, TypeCorrect, ProtocolInvariant, PTL DEF Spec, ImplementsContract, Contract!Spec
=============================================================================
