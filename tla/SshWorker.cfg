\* One queue slot, so that it is full while a reservation is pending behind it;
\* one automatic attempt and two manual ones, with and without a policy.
CONSTANTS
    Capacity = 1
    MaxAttempts = 1
    ManualMax = 2
SPECIFICATION FairSpec
CHECK_DEADLOCK FALSE
INVARIANTS WorkerInv RequestIsPending FingerprintIsTheTransports RetriesAreBounded
PROPERTIES InputReachesItsShell ShutdownEnds
