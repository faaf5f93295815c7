\* One caller and a child that exits by itself are enough for the race.
CONSTANTS
    c1 = c1
    c2 = c2
    Callers <- OneCaller
    MayCall <- Alone
    Natures <- Plain
SPECIFICATION Spec
CHECK_DEADLOCK FALSE
INVARIANT ShutdownIsFinal
