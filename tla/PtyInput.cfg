\* Two queue slots and four commands: a reservation can be overtaken from
\* behind, and the queue fills and empties again.  Fairness of the worker and
\* of expiry.
CONSTANTS
    Capacity = 2
    MaxItems = 4
SPECIFICATION FairSpec
CHECK_DEADLOCK FALSE
INVARIANTS InputInv NothingOvertakes
PROPERTY QueueAdvances
