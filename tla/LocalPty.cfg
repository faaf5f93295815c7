\* Two callers: two threads can race each other into request_stop, each with one
\* call.  A child that keeps reading its terminal: one that does not is
\* the subject of LocalPtyEscalation.  No symmetry: liveness is checked too.
CONSTANTS
    c1 = c1
    c2 = c2
    Callers <- TwoCallers
    MayCall <- Together
    Natures <- Reading
SPECIFICATION FairSpec
CHECK_DEADLOCK FALSE
INVARIANTS StopInv ResultMatchesLifecycle GroupIsSignalled
PROPERTY ShutdownCompletes
