\* Three threads: a writer, a second writer and an observer can all be inside
\* the lock's queue.  Two generations, so that the counter is exhausted.
\* No symmetry, since progress is checked too.
CONSTANTS
    t1 = t1
    t2 = t2
    t3 = t3
    Threads <- ThreeThreads
    NoThread = NoThread
    NoToken = NoToken
    MaxGeneration = 2
SPECIFICATION FairSpec
INVARIANT DisclosureIsCurrent
PROPERTIES StaleForever GuardIsReturned
