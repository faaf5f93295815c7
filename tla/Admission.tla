------------------------------ MODULE Admission ------------------------------
(***************************************************************************)
(* crates/festerm-admission at the granularity of its atomic loads and     *)
(* stores.  Threads share one epoch and the process-wide admission mutex.  *)
(* A thread runs one of three operations at a time:                        *)
(*   - transition(running), as a backend does on every lifecycle change;   *)
(*   - capture(), as an observer does before it prepares a disclosure;     *)
(*   - a disclosure: take the lock, check is_current(token), and keep the  *)
(*     guard through the effect the check protects.                        *)
(* A panic while the guard is held poisons the mutex for the rest of the   *)
(* process.                                                                *)
(***************************************************************************)
EXTENDS AutomationEpoch

CONSTANTS Threads, NoThread, NoToken

ASSUME ThreadAssumption == NoThread \notin Threads
ASSUME TokenAssumption == NoToken \notin Generations

VARIABLES
    generation,  \* AutomationEpoch.generation
    running,     \* AutomationEpoch.running
    failed,      \* AutomationEpoch.failed
    owner,       \* the thread that holds AUTOMATION_ADMISSION, or NoThread
    poisoned,    \* the mutex's poison flag
    pc,          \* the next atomic step of each thread
    want,        \* the `running` argument of each thread's transition
    token,       \* the generation each thread captured last, or NoToken
    entry        \* history: the epoch when the current owner took the lock

vars == <<generation, running, failed, owner, poisoned, pc, want, token, entry>>

epoch == [generation |-> generation, running |-> running, failed |-> failed]

\* Steps of a thread that waits for the mutex, by operation.
Waiting == {"transition_lock", "capture_lock", "disclose_lock"}
\* Steps of a thread that has the guard.
TransitionSteps == {"clear_running", "check_failed", "advance", "set_running",
                    "transition_done"}
CaptureSteps == {"capture_failed", "capture_running", "capture_generation"}
DiscloseSteps == {"is_failed", "is_running", "is_generation", "effect"}
\* fail_closed, with the guard (exhaustion) or without it (poison).
FailSteps == {"exhausted", "exhausted_running", "poison", "poison_running"}
Guarded == TransitionSteps \cup CaptureSteps \cup DiscloseSteps
               \cup {"exhausted", "exhausted_running", "unlock"}
Steps == {"idle", "dead"} \cup Waiting \cup Guarded \cup FailSteps

TypeOK ==
    /\ generation \in Generations
    /\ running \in BOOLEAN
    /\ failed \in BOOLEAN
    /\ owner \in Threads \cup {NoThread}
    /\ poisoned \in BOOLEAN
    /\ pc \in [Threads -> Steps]
    /\ want \in [Threads -> BOOLEAN]
    /\ token \in [Threads -> Generations \cup {NoToken}]
    /\ entry \in Epochs

Init ==
    /\ generation = NewEpoch.generation
    /\ running = NewEpoch.running
    /\ failed = NewEpoch.failed
    /\ owner = NoThread
    /\ poisoned = FALSE
    /\ pc = [t \in Threads |-> "idle"]
    /\ want = [t \in Threads |-> FALSE]
    /\ token = [t \in Threads |-> NoToken]
    /\ entry = NewEpoch

epochVars == <<generation, running, failed>>
lockVars == <<owner, poisoned, entry>>

Goto(t, from, to) == pc[t] = from /\ pc' = [pc EXCEPT ![t] = to]

\* A step that only moves on: a load, or a call.
Jump(t, from, to) ==
    /\ Goto(t, from, to)
    /\ UNCHANGED <<epochVars, lockVars, want, token>>

-----------------------------------------------------------------------------
(* Calls and the mutex. *)

StartTransition(t) ==
    /\ Goto(t, "idle", "transition_lock")
    /\ \E r \in BOOLEAN : want' = [want EXCEPT ![t] = r]
    /\ UNCHANGED <<epochVars, lockVars, token>>

StartCapture(t) == Jump(t, "idle", "capture_lock")

StartDisclosure(t) == token[t] # NoToken /\ Jump(t, "idle", "disclose_lock")

FirstStep(waiting) ==
    CASE waiting = "transition_lock" -> "clear_running"
      [] waiting = "capture_lock" -> "capture_failed"
      [] OTHER -> "is_failed"

\* automation_admission_lock on a healthy mutex.
Lock(t) ==
    /\ pc[t] \in Waiting
    /\ owner = NoThread /\ ~poisoned
    /\ owner' = t
    /\ entry' = epoch
    /\ pc' = [pc EXCEPT ![t] = FirstStep(@)]
    /\ UNCHANGED <<epochVars, poisoned, want, token>>

\* A poisoned mutex is refused: transition and capture fail closed without
\* the guard, a disclosure is simply refused.
LockPoisoned(t) ==
    /\ pc[t] \in Waiting
    /\ owner = NoThread /\ poisoned
    /\ pc' = [pc EXCEPT ![t] = IF @ = "disclose_lock" THEN "idle" ELSE "poison"]
    /\ token' = [token EXCEPT ![t] = IF pc[t] = "capture_lock" THEN NoToken ELSE @]
    /\ UNCHANGED <<epochVars, lockVars, want>>

\* try_automation_admission_lock: a disclosure that would have to wait is
\* told Busy and gives up instead.
TryLockBusy(t) == owner # NoThread /\ Jump(t, "disclose_lock", "idle")

\* Dropping the guard.
Unlock(t) ==
    /\ pc[t] \in {"unlock", "transition_done"}
    /\ pc' = [pc EXCEPT ![t] = "idle"]
    /\ owner' = NoThread
    /\ UNCHANGED <<epochVars, poisoned, entry, want, token>>

-----------------------------------------------------------------------------
(* transition_under_admission, store by store. *)

ClearRunning(t) ==
    /\ Goto(t, "clear_running", "check_failed")
    /\ running' = FALSE
    /\ UNCHANGED <<generation, failed, lockVars, want, token>>

CheckFailed(t) == Jump(t, "check_failed", IF failed THEN "transition_done" ELSE "advance")

\* Mutant of Advance: the counter wraps around (wrapping_add).
Advance_Wraps(t) ==
    /\ Goto(t, "advance", "set_running")
    /\ generation' = (generation + 1) % (MaxGeneration + 1)
    /\ UNCHANGED <<running, failed, lockVars, want, token>>

Advance(t) ==
    /\ Goto(t, "advance", IF generation = MaxGeneration THEN "exhausted" ELSE "set_running")
    /\ generation' = IF generation = MaxGeneration THEN generation ELSE generation + 1
    /\ UNCHANGED <<running, failed, lockVars, want, token>>

SetRunning(t) ==
    /\ Goto(t, "set_running", "transition_done")
    /\ running' = want[t]
    /\ UNCHANGED <<generation, failed, lockVars, want, token>>

\* fail_closed: two stores.
FailStore(t) ==
    /\ Goto(t, "exhausted", "exhausted_running") \/ Goto(t, "poison", "poison_running")
    /\ failed' = TRUE
    /\ UNCHANGED <<generation, running, lockVars, want, token>>

FailStoreRunning(t) ==
    /\ Goto(t, "exhausted_running", "transition_done") \/ Goto(t, "poison_running", "idle")
    /\ running' = FALSE
    /\ UNCHANGED <<generation, failed, lockVars, want, token>>

-----------------------------------------------------------------------------
(* capture_under_admission, load by load. *)

CaptureFailed(t) ==
    /\ Goto(t, "capture_failed", IF failed THEN "unlock" ELSE "capture_running")
    /\ token' = [token EXCEPT ![t] = NoToken]
    /\ UNCHANGED <<epochVars, lockVars, want>>

CaptureRunning(t) ==
    Jump(t, "capture_running", IF running THEN "capture_generation" ELSE "unlock")

CaptureGeneration(t) ==
    /\ Goto(t, "capture_generation", "unlock")
    /\ token' = [token EXCEPT ![t] = generation]
    /\ UNCHANGED <<epochVars, lockVars, want>>

-----------------------------------------------------------------------------
(* is_current, load by load, and the effect it protects. *)

IsFailed(t) == Jump(t, "is_failed", IF failed THEN "unlock" ELSE "is_running")

\* Mutant of IsRunning: is_current waits for the attachment to run, under the
\* guard.
IsRunning_Spins(t) == Jump(t, "is_running", IF running THEN "is_generation" ELSE "is_running")

IsRunning(t) == Jump(t, "is_running", IF running THEN "is_generation" ELSE "unlock")

\* Mutant of IsGeneration: is_current does not compare the generation.
IsGeneration_Skipped(t) == Jump(t, "is_generation", "effect")

IsGeneration(t) ==
    Jump(t, "is_generation", IF generation = token[t] THEN "effect" ELSE "unlock")

Effect(t) == Jump(t, "effect", "unlock")

\* The protected code panics: unwinding drops the guard and poisons the mutex.
Panic(t) ==
    /\ Goto(t, "effect", "dead")
    /\ owner' = NoThread
    /\ poisoned' = TRUE
    /\ UNCHANGED <<epochVars, entry, want, token>>

-----------------------------------------------------------------------------

Call(t) == StartTransition(t) \/ StartCapture(t) \/ StartDisclosure(t)

\* The steps of a call once it has begun.
Continue(t) ==
    \/ Lock(t) \/ LockPoisoned(t) \/ TryLockBusy(t) \/ Unlock(t)
    \/ ClearRunning(t) \/ CheckFailed(t) \/ Advance(t) \/ SetRunning(t)
    \/ FailStore(t) \/ FailStoreRunning(t)
    \/ CaptureFailed(t) \/ CaptureRunning(t) \/ CaptureGeneration(t)
    \/ IsFailed(t) \/ IsRunning(t) \/ IsGeneration(t) \/ Effect(t)

Next == \E t \in Threads : Call(t) \/ Continue(t) \/ Panic(t)

Spec == Init /\ [][Next]_vars

\* A thread inside a call keeps running; no thread is obliged to call or panic.
FairSpec == Spec /\ \A t \in Threads : WF_vars(Continue(t))

-----------------------------------------------------------------------------
(* Properties. *)

\* At the instant of the effect the whole epoch agrees with the token, although
\* is_current reads its three atomics one at a time and a transition writes
\* them one at a time (lib.rs:176-180 against 139-150).
DisclosureIsCurrent ==
    \A t \in Threads : pc[t] = "effect" => IsCurrent(epoch, token[t])

\* Taken under the guard, the stores of transition_under_admission amount to
\* the single step TransitionUnderAdmission on the epoch the owner found: a
\* writer never works from a mixture of two transitions (lib.rs:139-150).
TransitionIsAtomic ==
    \A t \in Threads :
        pc[t] = "transition_done" => epoch = TransitionUnderAdmission(entry, want[t])

\* A generation that stopped being current never becomes current again, not
\* even between two stores of a later transition, at counter exhaustion or
\* after poisoning: "a non-reusable automation identity" (lib.rs:101-107).
StaleForever ==
    [][\A t \in Threads :
          (token'[t] = token[t] /\ token[t] # NoToken /\ ~IsCurrent(epoch, token[t]))
              => ~IsCurrent(epoch', token[t])]_vars

\* After a panic under the guard nothing is ever disclosed again
\* (lib.rs:69-71: a poisoned lock is never recovered).
PoisonRefusesForever == poisoned => \A t \in Threads : pc[t] \notin Guarded

\* Every holder of the process-wide lock gives it back (or dies and poisons
\* it): no operation waits for something while it holds the guard.
GuardIsReturned == \A t \in Threads : (owner = t) ~> (owner # t)

-----------------------------------------------------------------------------
(* The inductive invariant behind the safety properties. *)

\* Mutual exclusion: exactly the owner is inside the lock.
LockInv ==
    /\ \A t \in Threads : pc[t] \in Guarded <=> owner = t
    /\ poisoned => owner = NoThread
    /\ \A t \in Threads : pc[t] \in {"poison", "poison_running"} => poisoned

\* What the owner has done to the epoch it found, by program point.
OwnerInv(t) ==
    /\ pc[t] \in {"clear_running"} \cup CaptureSteps \cup DiscloseSteps
          => running = entry.running
    /\ pc[t] \in {"clear_running", "check_failed", "advance"} \cup CaptureSteps \cup DiscloseSteps
          => generation = entry.generation /\ failed = entry.failed
    /\ pc[t] \in {"check_failed", "advance", "set_running", "exhausted", "exhausted_running"}
          => ~running
    /\ pc[t] \in {"advance", "set_running", "exhausted"} => ~failed /\ ~entry.failed
    /\ pc[t] = "set_running"
          => entry.generation # MaxGeneration /\ generation = entry.generation + 1
    /\ pc[t] \in {"exhausted", "exhausted_running"}
          => generation = MaxGeneration /\ entry.generation = MaxGeneration /\ ~entry.failed
    /\ pc[t] = "exhausted_running" => failed
    /\ pc[t] = "transition_done" =>
          IF entry.failed \/ entry.generation = MaxGeneration
          THEN generation = entry.generation /\ failed /\ ~running
          ELSE generation = entry.generation + 1 /\ ~failed /\ running = want[t]
    /\ pc[t] \in {"is_running", "is_generation", "effect"} => ~failed
    /\ pc[t] \in {"is_generation", "effect"} => running
    /\ pc[t] = "effect" => generation = token[t]

\* Captured generations lie behind the counter, strictly behind one that a
\* transition is about to declare running.
TokenInv ==
    \A t \in Threads : token[t] # NoToken =>
        /\ token[t] <= generation
        /\ \A u \in Threads : pc[u] = "set_running" => token[t] < generation

AdmissionInv == LockInv /\ TokenInv /\ \A t \in Threads : OwnerInv(t)
=============================================================================
