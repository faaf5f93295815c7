\* Two slots: a notice and an event of another thread can fill the queue that
\* a stalled chunk waits for.  Fairness of both sides of the queue.
CONSTANTS
    EventCapacity = 2
    MaxChunks = 4
    MaxOthers = 3
SPECIFICATION OutputFairSpec
CHECK_DEADLOCK FALSE
INVARIANTS OutputInv NoUnexplainedGap
PROPERTY EmitReturns
