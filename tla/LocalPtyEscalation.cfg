\* One caller and a child that ignores SIGHUP and SIGTERM.
CONSTANTS
    c1 = c1
    c2 = c2
    Callers <- OneCaller
    MayCall <- Alone
    Natures <- Stubborn
SPECIFICATION FairSpec
CHECK_DEADLOCK FALSE
PROPERTY EscalationIsBounded
