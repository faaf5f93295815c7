-------------------------- MODULE Admission_proofs --------------------------
(***************************************************************************)
(* Proofs that the admission lock makes the epoch's loads and stores atomic *)
(* for every number of threads and every generation bound.                 *)
(***************************************************************************)
EXTENDS Admission, TLAPS

\* Every step keeps the variables in their types; the counter stops at its bound.
LEMMA TypeStep ==
    ASSUME TypeOK, [Next]_vars
    PROVE  TypeOK'
  <1> USE DEF TypeOK, Goto, epochVars, lockVars, epoch, Epochs, Generations, Steps, Waiting, Guarded, TransitionSteps, CaptureSteps, DiscloseSteps, FailSteps
  <1>1. ASSUME NEW t \in Threads, StartTransition(t) PROVE TypeOK'
    BY <1>1 DEF StartTransition
  <1>2. ASSUME NEW t \in Threads, StartCapture(t) PROVE TypeOK'
    BY <1>2 DEF StartCapture, Jump
  <1>3. ASSUME NEW t \in Threads, StartDisclosure(t) PROVE TypeOK'
    BY <1>3 DEF StartDisclosure, Jump
  <1>4. ASSUME NEW t \in Threads, Lock(t) PROVE TypeOK'
    BY <1>4 DEF Lock, FirstStep
  <1>5. ASSUME NEW t \in Threads, LockPoisoned(t) PROVE TypeOK'
    BY <1>5 DEF LockPoisoned
  <1>6. ASSUME NEW t \in Threads, TryLockBusy(t) PROVE TypeOK'
    BY <1>6 DEF TryLockBusy, Jump
  <1>7. ASSUME NEW t \in Threads, Unlock(t) PROVE TypeOK'
    BY <1>7 DEF Unlock
  <1>8. ASSUME NEW t \in Threads, ClearRunning(t) PROVE TypeOK'
    BY <1>8 DEF ClearRunning
  <1>9. ASSUME NEW t \in Threads, CheckFailed(t) PROVE TypeOK'
    BY <1>9 DEF CheckFailed, Jump
  <1>10. ASSUME NEW t \in Threads, Advance(t) PROVE TypeOK'
    BY <1>10, MaxGenerationAssumption DEF Advance
  <1>11. ASSUME NEW t \in Threads, SetRunning(t) PROVE TypeOK'
    BY <1>11 DEF SetRunning
  <1>12. ASSUME NEW t \in Threads, FailStore(t) PROVE TypeOK'
    BY <1>12 DEF FailStore
  <1>13. ASSUME NEW t \in Threads, FailStoreRunning(t) PROVE TypeOK'
    BY <1>13 DEF FailStoreRunning
  <1>14. ASSUME NEW t \in Threads, CaptureFailed(t) PROVE TypeOK'
    BY <1>14 DEF CaptureFailed
  <1>15. ASSUME NEW t \in Threads, CaptureRunning(t) PROVE TypeOK'
    BY <1>15 DEF CaptureRunning, Jump
  <1>16. ASSUME NEW t \in Threads, CaptureGeneration(t) PROVE TypeOK'
    BY <1>16 DEF CaptureGeneration
  <1>17. ASSUME NEW t \in Threads, IsFailed(t) PROVE TypeOK'
    BY <1>17 DEF IsFailed, Jump
  <1>18. ASSUME NEW t \in Threads, IsRunning(t) PROVE TypeOK'
    BY <1>18 DEF IsRunning, Jump
  <1>19. ASSUME NEW t \in Threads, IsGeneration(t) PROVE TypeOK'
    BY <1>19 DEF IsGeneration, Jump
  <1>20. ASSUME NEW t \in Threads, Effect(t) PROVE TypeOK'
    BY <1>20 DEF Effect, Jump
  <1>21. ASSUME NEW t \in Threads, Panic(t) PROVE TypeOK'
    BY <1>21 DEF Panic
  <1>22. CASE UNCHANGED vars
    BY <1>22 DEF vars
  <1>23. QED
    BY <1>1, <1>2, <1>3, <1>4, <1>5, <1>6, <1>7, <1>8, <1>9, <1>10, <1>11, <1>12, <1>13,
       <1>14, <1>15, <1>16, <1>17, <1>18, <1>19, <1>20, <1>21, <1>22 DEF Next, Call,
       Continue

\* Every reachable state is well typed.
THEOREM TypeCorrect == Spec => []TypeOK
  <1>1. Init => TypeOK
    <2> SUFFICES ASSUME Init PROVE TypeOK
      OBVIOUS
    <2>1. NewEpoch \in Epochs /\ 0 \in Generations
      BY MaxGenerationAssumption DEF NewEpoch, Epochs, Generations
    <2>2. QED
      BY <2>1 DEF Init, TypeOK, NewEpoch, Steps
  <1>2. QED
    BY <1>1, TypeStep, PTL DEF Spec

\* The lock is granted only when it is free, and only its owner gives it up.
LEMMA LockStep ==
    ASSUME TypeOK, LockInv, [Next]_vars
    PROVE  LockInv'
  <1> USE DEF LockInv, TypeOK, Goto, lockVars, Steps, Waiting, Guarded, TransitionSteps, CaptureSteps, DiscloseSteps, FailSteps
  <1>1. ASSUME NEW t \in Threads, StartTransition(t) PROVE LockInv'
    BY <1>1, ThreadAssumption DEF StartTransition
  <1>2. ASSUME NEW t \in Threads, StartCapture(t) PROVE LockInv'
    BY <1>2, ThreadAssumption DEF StartCapture, Jump
  <1>3. ASSUME NEW t \in Threads, StartDisclosure(t) PROVE LockInv'
    BY <1>3, ThreadAssumption DEF StartDisclosure, Jump
  <1>4. ASSUME NEW t \in Threads, Lock(t) PROVE LockInv'
    BY <1>4, ThreadAssumption DEF Lock, FirstStep
  <1>5. ASSUME NEW t \in Threads, LockPoisoned(t) PROVE LockInv'
    BY <1>5, ThreadAssumption DEF LockPoisoned
  <1>6. ASSUME NEW t \in Threads, TryLockBusy(t) PROVE LockInv'
    BY <1>6, ThreadAssumption DEF TryLockBusy, Jump
  <1>7. ASSUME NEW t \in Threads, Unlock(t) PROVE LockInv'
    BY <1>7, ThreadAssumption DEF Unlock
  <1>8. ASSUME NEW t \in Threads, ClearRunning(t) PROVE LockInv'
    BY <1>8, ThreadAssumption DEF ClearRunning
  <1>9. ASSUME NEW t \in Threads, CheckFailed(t) PROVE LockInv'
    BY <1>9, ThreadAssumption DEF CheckFailed, Jump
  <1>10. ASSUME NEW t \in Threads, Advance(t) PROVE LockInv'
    BY <1>10, ThreadAssumption DEF Advance
  <1>11. ASSUME NEW t \in Threads, SetRunning(t) PROVE LockInv'
    BY <1>11, ThreadAssumption DEF SetRunning
  <1>12. ASSUME NEW t \in Threads, FailStore(t) PROVE LockInv'
    BY <1>12, ThreadAssumption DEF FailStore
  <1>13. ASSUME NEW t \in Threads, FailStoreRunning(t) PROVE LockInv'
    BY <1>13, ThreadAssumption DEF FailStoreRunning
  <1>14. ASSUME NEW t \in Threads, CaptureFailed(t) PROVE LockInv'
    BY <1>14, ThreadAssumption DEF CaptureFailed
  <1>15. ASSUME NEW t \in Threads, CaptureRunning(t) PROVE LockInv'
    BY <1>15, ThreadAssumption DEF CaptureRunning, Jump
  <1>16. ASSUME NEW t \in Threads, CaptureGeneration(t) PROVE LockInv'
    BY <1>16, ThreadAssumption DEF CaptureGeneration
  <1>17. ASSUME NEW t \in Threads, IsFailed(t) PROVE LockInv'
    BY <1>17, ThreadAssumption DEF IsFailed, Jump
  <1>18. ASSUME NEW t \in Threads, IsRunning(t) PROVE LockInv'
    BY <1>18, ThreadAssumption DEF IsRunning, Jump
  <1>19. ASSUME NEW t \in Threads, IsGeneration(t) PROVE LockInv'
    BY <1>19, ThreadAssumption DEF IsGeneration, Jump
  <1>20. ASSUME NEW t \in Threads, Effect(t) PROVE LockInv'
    BY <1>20, ThreadAssumption DEF Effect, Jump
  <1>21. ASSUME NEW t \in Threads, Panic(t) PROVE LockInv'
    BY <1>21, ThreadAssumption DEF Panic
  <1>22. CASE UNCHANGED vars
    BY <1>22, ThreadAssumption DEF vars
  <1>23. QED
    BY <1>1, <1>2, <1>3, <1>4, <1>5, <1>6, <1>7, <1>8, <1>9, <1>10, <1>11, <1>12, <1>13,
       <1>14, <1>15, <1>16, <1>17, <1>18, <1>19, <1>20, <1>21, <1>22 DEF Next, Call,
       Continue

\* A new generation is strictly ahead of every captured one.
LEMMA TokenStep ==
    ASSUME TypeOK, LockInv, TokenInv, [Next]_vars
    PROVE  TokenInv'
  <1> USE DEF LockInv, TokenInv, TypeOK, Goto, epochVars, lockVars, Generations, Steps, Waiting, Guarded, TransitionSteps, CaptureSteps, DiscloseSteps, FailSteps
  <1>1. ASSUME NEW t \in Threads, StartTransition(t) PROVE TokenInv'
    BY <1>1, TokenAssumption, MaxGenerationAssumption DEF StartTransition
  <1>2. ASSUME NEW t \in Threads, StartCapture(t) PROVE TokenInv'
    BY <1>2, TokenAssumption, MaxGenerationAssumption DEF StartCapture, Jump
  <1>3. ASSUME NEW t \in Threads, StartDisclosure(t) PROVE TokenInv'
    BY <1>3, TokenAssumption, MaxGenerationAssumption DEF StartDisclosure, Jump
  <1>4. ASSUME NEW t \in Threads, Lock(t) PROVE TokenInv'
    BY <1>4, TokenAssumption, MaxGenerationAssumption DEF Lock, FirstStep
  <1>5. ASSUME NEW t \in Threads, LockPoisoned(t) PROVE TokenInv'
    BY <1>5, TokenAssumption, MaxGenerationAssumption DEF LockPoisoned
  <1>6. ASSUME NEW t \in Threads, TryLockBusy(t) PROVE TokenInv'
    BY <1>6, TokenAssumption, MaxGenerationAssumption DEF TryLockBusy, Jump
  <1>7. ASSUME NEW t \in Threads, Unlock(t) PROVE TokenInv'
    BY <1>7, TokenAssumption, MaxGenerationAssumption DEF Unlock
  <1>8. ASSUME NEW t \in Threads, ClearRunning(t) PROVE TokenInv'
    BY <1>8, TokenAssumption, MaxGenerationAssumption DEF ClearRunning
  <1>9. ASSUME NEW t \in Threads, CheckFailed(t) PROVE TokenInv'
    BY <1>9, TokenAssumption, MaxGenerationAssumption DEF CheckFailed, Jump
  <1>10. ASSUME NEW t \in Threads, Advance(t) PROVE TokenInv'
    BY <1>10, TokenAssumption, MaxGenerationAssumption DEF Advance
  <1>11. ASSUME NEW t \in Threads, SetRunning(t) PROVE TokenInv'
    BY <1>11, TokenAssumption, MaxGenerationAssumption DEF SetRunning
  <1>12. ASSUME NEW t \in Threads, FailStore(t) PROVE TokenInv'
    BY <1>12, TokenAssumption, MaxGenerationAssumption DEF FailStore
  <1>13. ASSUME NEW t \in Threads, FailStoreRunning(t) PROVE TokenInv'
    BY <1>13, TokenAssumption, MaxGenerationAssumption DEF FailStoreRunning
  <1>14. ASSUME NEW t \in Threads, CaptureFailed(t) PROVE TokenInv'
    BY <1>14, TokenAssumption, MaxGenerationAssumption DEF CaptureFailed
  <1>15. ASSUME NEW t \in Threads, CaptureRunning(t) PROVE TokenInv'
    BY <1>15, TokenAssumption, MaxGenerationAssumption DEF CaptureRunning, Jump
  <1>16. ASSUME NEW t \in Threads, CaptureGeneration(t) PROVE TokenInv'
    BY <1>16, TokenAssumption, MaxGenerationAssumption DEF CaptureGeneration
  <1>17. ASSUME NEW t \in Threads, IsFailed(t) PROVE TokenInv'
    BY <1>17, TokenAssumption, MaxGenerationAssumption DEF IsFailed, Jump
  <1>18. ASSUME NEW t \in Threads, IsRunning(t) PROVE TokenInv'
    BY <1>18, TokenAssumption, MaxGenerationAssumption DEF IsRunning, Jump
  <1>19. ASSUME NEW t \in Threads, IsGeneration(t) PROVE TokenInv'
    BY <1>19, TokenAssumption, MaxGenerationAssumption DEF IsGeneration, Jump
  <1>20. ASSUME NEW t \in Threads, Effect(t) PROVE TokenInv'
    BY <1>20, TokenAssumption, MaxGenerationAssumption DEF Effect, Jump
  <1>21. ASSUME NEW t \in Threads, Panic(t) PROVE TokenInv'
    BY <1>21, TokenAssumption, MaxGenerationAssumption DEF Panic
  <1>22. CASE UNCHANGED vars
    BY <1>22, TokenAssumption, MaxGenerationAssumption DEF vars
  <1>23. QED
    BY <1>1, <1>2, <1>3, <1>4, <1>5, <1>6, <1>7, <1>8, <1>9, <1>10, <1>11, <1>12, <1>13,
       <1>14, <1>15, <1>16, <1>17, <1>18, <1>19, <1>20, <1>21, <1>22 DEF Next, Call,
       Continue

\* Nobody but the owner writes the epoch, except to fail it closed after poisoning.
LEMMA OwnerStep ==
    ASSUME TypeOK, LockInv, \A v \in Threads : OwnerInv(v), [Next]_vars, NEW u \in Threads
    PROVE  OwnerInv(u)'
  <1> USE DEF LockInv, OwnerInv, TypeOK, Goto, epochVars, lockVars, epoch, Epochs, Steps, Waiting, Guarded, TransitionSteps, CaptureSteps, DiscloseSteps, FailSteps
  <1>1. ASSUME NEW t \in Threads, StartTransition(t) PROVE OwnerInv(u)'
    BY <1>1, ThreadAssumption DEF StartTransition
  <1>2. ASSUME NEW t \in Threads, StartCapture(t) PROVE OwnerInv(u)'
    BY <1>2, ThreadAssumption DEF StartCapture, Jump
  <1>3. ASSUME NEW t \in Threads, StartDisclosure(t) PROVE OwnerInv(u)'
    BY <1>3, ThreadAssumption DEF StartDisclosure, Jump
  <1>4. ASSUME NEW t \in Threads, Lock(t) PROVE OwnerInv(u)'
    BY <1>4, ThreadAssumption DEF Lock, FirstStep
  <1>5. ASSUME NEW t \in Threads, LockPoisoned(t) PROVE OwnerInv(u)'
    BY <1>5, ThreadAssumption DEF LockPoisoned
  <1>6. ASSUME NEW t \in Threads, TryLockBusy(t) PROVE OwnerInv(u)'
    BY <1>6, ThreadAssumption DEF TryLockBusy, Jump
  <1>7. ASSUME NEW t \in Threads, Unlock(t) PROVE OwnerInv(u)'
    BY <1>7, ThreadAssumption DEF Unlock
  <1>8. ASSUME NEW t \in Threads, ClearRunning(t) PROVE OwnerInv(u)'
    BY <1>8, ThreadAssumption DEF ClearRunning
  <1>9. ASSUME NEW t \in Threads, CheckFailed(t) PROVE OwnerInv(u)'
    BY <1>9, ThreadAssumption DEF CheckFailed, Jump
  <1>10. ASSUME NEW t \in Threads, Advance(t) PROVE OwnerInv(u)'
    BY <1>10, ThreadAssumption DEF Advance
  <1>11. ASSUME NEW t \in Threads, SetRunning(t) PROVE OwnerInv(u)'
    BY <1>11, ThreadAssumption DEF SetRunning
  <1>12. ASSUME NEW t \in Threads, FailStore(t) PROVE OwnerInv(u)'
    BY <1>12, ThreadAssumption, ZenonT(40) DEF FailStore
  <1>13. ASSUME NEW t \in Threads, FailStoreRunning(t) PROVE OwnerInv(u)'
    BY <1>13, ThreadAssumption DEF FailStoreRunning
  <1>14. ASSUME NEW t \in Threads, CaptureFailed(t) PROVE OwnerInv(u)'
    BY <1>14, ThreadAssumption DEF CaptureFailed
  <1>15. ASSUME NEW t \in Threads, CaptureRunning(t) PROVE OwnerInv(u)'
    BY <1>15, ThreadAssumption DEF CaptureRunning, Jump
  <1>16. ASSUME NEW t \in Threads, CaptureGeneration(t) PROVE OwnerInv(u)'
    BY <1>16, ThreadAssumption DEF CaptureGeneration
  <1>17. ASSUME NEW t \in Threads, IsFailed(t) PROVE OwnerInv(u)'
    BY <1>17, ThreadAssumption DEF IsFailed, Jump
  <1>18. ASSUME NEW t \in Threads, IsRunning(t) PROVE OwnerInv(u)'
    BY <1>18, ThreadAssumption DEF IsRunning, Jump
  <1>19. ASSUME NEW t \in Threads, IsGeneration(t) PROVE OwnerInv(u)'
    BY <1>19, ThreadAssumption DEF IsGeneration, Jump
  <1>20. ASSUME NEW t \in Threads, Effect(t) PROVE OwnerInv(u)'
    BY <1>20, ThreadAssumption DEF Effect, Jump
  <1>21. ASSUME NEW t \in Threads, Panic(t) PROVE OwnerInv(u)'
    BY <1>21, ThreadAssumption DEF Panic
  <1>22. CASE UNCHANGED vars
    BY <1>22, ThreadAssumption DEF vars
  <1>23. QED
    BY <1>1, <1>2, <1>3, <1>4, <1>5, <1>6, <1>7, <1>8, <1>9, <1>10, <1>11, <1>12, <1>13,
       <1>14, <1>15, <1>16, <1>17, <1>18, <1>19, <1>20, <1>21, <1>22 DEF Next, Call,
       Continue

\* AdmissionInv is an invariant: it is inductive together with TypeOK.
THEOREM AdmissionInvariant == Spec => []AdmissionInv
  <1>1. Init => AdmissionInv
    BY ThreadAssumption
       DEF Init, AdmissionInv, LockInv, TokenInv, OwnerInv, Guarded, TransitionSteps, CaptureSteps,
           DiscloseSteps
  <1>2. TypeOK /\ AdmissionInv /\ [Next]_vars => AdmissionInv'
    BY LockStep, TokenStep, OwnerStep DEF AdmissionInv
  <1>3. QED
    BY <1>1, <1>2, TypeCorrect, PTL DEF Spec

-----------------------------------------------------------------------------
(* The safety properties. *)

\* What a thread discloses is current at the instant of the disclosure.
THEOREM DisclosureSafe == Spec => []DisclosureIsCurrent
  <1>1. AdmissionInv => DisclosureIsCurrent
    BY DEF AdmissionInv, OwnerInv, DisclosureIsCurrent, IsCurrent, epoch, DiscloseSteps
  <1>2. QED
    BY <1>1, AdmissionInvariant, PTL

\* The stores of a transition amount to one atomic step on the epoch.
THEOREM TransitionAtomic == Spec => []TransitionIsAtomic
  <1>1. TypeOK /\ AdmissionInv => TransitionIsAtomic
    <2> SUFFICES ASSUME TypeOK, AdmissionInv, NEW t \in Threads, pc[t] = "transition_done"
                 PROVE  epoch = TransitionUnderAdmission(entry, want[t])
      BY DEF TransitionIsAtomic
    <2> DEFINE e == entry
    <2>1. e = [generation |-> e.generation, running |-> e.running, failed |-> e.failed]
      BY DEF TypeOK, Epochs
    <2>2. e.failed \in BOOLEAN /\ failed \in BOOLEAN /\ running \in BOOLEAN /\ want[t] \in BOOLEAN
      BY DEF TypeOK, Epochs
    <2>3. CASE e.failed
      <3>1. generation = e.generation /\ running = FALSE /\ failed = e.failed
        BY <2>2, <2>3 DEF AdmissionInv, OwnerInv
      <3>2. TransitionUnderAdmission(e, want[t]) = [e EXCEPT !.running = FALSE]
        BY <2>3 DEF TransitionUnderAdmission
      <3>3. QED
        BY <3>1, <3>2, <2>1 DEF epoch
    <2>4. CASE ~e.failed /\ e.generation = MaxGeneration
      <3>1. generation = e.generation /\ running = FALSE /\ failed = TRUE
        BY <2>2, <2>4 DEF AdmissionInv, OwnerInv
      <3>2. TransitionUnderAdmission(e, want[t]) = [e EXCEPT !.failed = TRUE, !.running = FALSE]
        BY <2>4 DEF TransitionUnderAdmission, FailClosed
      <3>3. QED
        BY <3>1, <3>2, <2>1 DEF epoch
    <2>5. CASE ~e.failed /\ e.generation # MaxGeneration
      <3>1. generation = e.generation + 1 /\ running = want[t] /\ failed = e.failed
        BY <2>2, <2>5 DEF AdmissionInv, OwnerInv
      <3>2. TransitionUnderAdmission(e, want[t])
              = [e EXCEPT !.generation = @ + 1, !.running = want[t]]
        BY <2>5 DEF TransitionUnderAdmission
      <3>3. QED
        BY <3>1, <3>2, <2>1 DEF epoch
    <2>6. QED
      BY <2>3, <2>4, <2>5
  <1>2. QED
    BY <1>1, TypeCorrect, AdmissionInvariant, PTL

\* Once the lock is poisoned nothing is admitted or disclosed any more.
THEOREM PoisonIsFinal == Spec => []PoisonRefusesForever
  <1>1. AdmissionInv => PoisonRefusesForever
    BY ThreadAssumption DEF AdmissionInv, LockInv, PoisonRefusesForever
  <1>2. QED
    BY <1>1, AdmissionInvariant, PTL

\* No single store makes a stale generation current.
LEMMA StaleStep ==
    ASSUME TypeOK, AdmissionInv, [Next]_vars, NEW u \in Threads,
           token[u] # NoToken, ~IsCurrent(epoch, token[u])
    PROVE  ~IsCurrent(epoch', token[u])
  <1> USE DEF LockInv, TokenInv, AdmissionInv, OwnerInv, TypeOK, Goto, epochVars, lockVars, epoch, IsCurrent, Generations, Steps, Waiting, Guarded, TransitionSteps, CaptureSteps, DiscloseSteps, FailSteps
  <1>1. ASSUME NEW t \in Threads, StartTransition(t) PROVE ~IsCurrent(epoch', token[u])
    BY <1>1 DEF StartTransition
  <1>2. ASSUME NEW t \in Threads, StartCapture(t) PROVE ~IsCurrent(epoch', token[u])
    BY <1>2 DEF StartCapture, Jump
  <1>3. ASSUME NEW t \in Threads, StartDisclosure(t) PROVE ~IsCurrent(epoch', token[u])
    BY <1>3 DEF StartDisclosure, Jump
  <1>4. ASSUME NEW t \in Threads, Lock(t) PROVE ~IsCurrent(epoch', token[u])
    BY <1>4 DEF Lock, FirstStep
  <1>5. ASSUME NEW t \in Threads, LockPoisoned(t) PROVE ~IsCurrent(epoch', token[u])
    BY <1>5 DEF LockPoisoned
  <1>6. ASSUME NEW t \in Threads, TryLockBusy(t) PROVE ~IsCurrent(epoch', token[u])
    BY <1>6 DEF TryLockBusy, Jump
  <1>7. ASSUME NEW t \in Threads, Unlock(t) PROVE ~IsCurrent(epoch', token[u])
    BY <1>7 DEF Unlock
  <1>8. ASSUME NEW t \in Threads, ClearRunning(t) PROVE ~IsCurrent(epoch', token[u])
    BY <1>8 DEF ClearRunning
  <1>9. ASSUME NEW t \in Threads, CheckFailed(t) PROVE ~IsCurrent(epoch', token[u])
    BY <1>9 DEF CheckFailed, Jump
  <1>10. ASSUME NEW t \in Threads, Advance(t) PROVE ~IsCurrent(epoch', token[u])
    BY <1>10 DEF Advance
  <1>11. ASSUME NEW t \in Threads, SetRunning(t) PROVE ~IsCurrent(epoch', token[u])
    BY <1>11 DEF SetRunning
  <1>12. ASSUME NEW t \in Threads, FailStore(t) PROVE ~IsCurrent(epoch', token[u])
    BY <1>12 DEF FailStore
  <1>13. ASSUME NEW t \in Threads, FailStoreRunning(t) PROVE ~IsCurrent(epoch', token[u])
    BY <1>13 DEF FailStoreRunning
  <1>14. ASSUME NEW t \in Threads, CaptureFailed(t) PROVE ~IsCurrent(epoch', token[u])
    BY <1>14 DEF CaptureFailed
  <1>15. ASSUME NEW t \in Threads, CaptureRunning(t) PROVE ~IsCurrent(epoch', token[u])
    BY <1>15 DEF CaptureRunning, Jump
  <1>16. ASSUME NEW t \in Threads, CaptureGeneration(t) PROVE ~IsCurrent(epoch', token[u])
    BY <1>16 DEF CaptureGeneration
  <1>17. ASSUME NEW t \in Threads, IsFailed(t) PROVE ~IsCurrent(epoch', token[u])
    BY <1>17 DEF IsFailed, Jump
  <1>18. ASSUME NEW t \in Threads, IsRunning(t) PROVE ~IsCurrent(epoch', token[u])
    BY <1>18 DEF IsRunning, Jump
  <1>19. ASSUME NEW t \in Threads, IsGeneration(t) PROVE ~IsCurrent(epoch', token[u])
    BY <1>19 DEF IsGeneration, Jump
  <1>20. ASSUME NEW t \in Threads, Effect(t) PROVE ~IsCurrent(epoch', token[u])
    BY <1>20 DEF Effect, Jump
  <1>21. ASSUME NEW t \in Threads, Panic(t) PROVE ~IsCurrent(epoch', token[u])
    BY <1>21 DEF Panic
  <1>22. CASE UNCHANGED vars
    BY <1>22 DEF vars
  <1>23. QED
    BY <1>1, <1>2, <1>3, <1>4, <1>5, <1>6, <1>7, <1>8, <1>9, <1>10, <1>11, <1>12, <1>13,
       <1>14, <1>15, <1>16, <1>17, <1>18, <1>19, <1>20, <1>21, <1>22 DEF Next, Call,
       Continue

\* A generation that is no longer current never becomes current again.
THEOREM StaleIsFinal == Spec => StaleForever
  <1>1. TypeOK /\ AdmissionInv /\ [Next]_vars
          => [\A t \in Threads :
                (token'[t] = token[t] /\ token[t] # NoToken /\ ~IsCurrent(epoch, token[t]))
                    => ~IsCurrent(epoch', token[t])]_vars
    BY StaleStep
  <1>2. QED
    BY <1>1, TypeCorrect, AdmissionInvariant, PTL DEF Spec, StaleForever
=============================================================================
