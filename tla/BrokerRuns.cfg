\* Four operations in all, three for a workflow: every account runs out in some
\* behaviour.  Two retained runs, so that forgetting makes room.
SPECIFICATION MCSpec
CONSTANTS
    c1 = c1
    s1 = s1
    Connections = {c1}
    Sessions = {s1}
    Locals = {"l1"}
    MaxTime = 1
    GrantLifetime = 1
    Budget = 4
    GlobalBudget = 4
    MaxGeneration = 1
    GrantRequests = {}
    PendingPerConnection = 1
    ProposalsPerConnection = 1
    Registrations = 1
    MaxRegistrationMints = 2
    MaxOwnershipMints = 2
    RunSpecs <- MCRunSpecs
    Keys = {"k1"}
    RetainedRuns = 2
    ActiveRuns = 2
    ActiveWorkflows = 3
    RequestsPerRun = 1
CHECK_DEADLOCK FALSE
INVARIANTS RunInv RunningIsAuthorized BudgetsNest CancelledStartStops
PROPERTIES OutcomeIsFinal StartsOnce
