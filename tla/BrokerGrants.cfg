\* Two generations, so that a session is attached again; proposals and registration
\* ids enough, so that reviews are replaced and come back late.
SPECIFICATION MCSpec
CONSTANTS
    c1 = c1
    s1 = s1
    Connections = {c1}
    Sessions = {s1}
    Locals = {"l1"}
    MaxTime = 1
    GrantLifetime = 1
    Budget = 1
    GlobalBudget = 1
    MaxGeneration = 2
    GrantRequests <- MCRequests
    PendingPerConnection = 2
    ProposalsPerConnection = 3
    Registrations = 1
    MaxRegistrationMints = 6
    MaxOwnershipMints = 2
CHECK_DEADLOCK FALSE
INVARIANTS GrantInv PendingIsCurrent LiveGrantsAreConsented StandingDecisionSawTheGrant
PROPERTIES ControlFollowsReview NewestCandidateWins
