\* One slot and two pieces: the queue is full while a frame is half written.
\* The clock reaches the end of every grant, also between a check and a write.
\* Nothing obliges the client or the network to go on.
SPECIFICATION DeliverySpec
CONSTANTS
    c1 = c1
    s1 = s1
    Connections = {c1}
    Sessions = {s1}
    Locals = {}
    MaxTime = 1
    GrantLifetime = 1
    Budget = 3
    GlobalBudget = 3
    MaxGeneration = 1
    GrantRequests <- MCRequests
    PendingPerConnection = 1
    ProposalsPerConnection = 1
    Registrations = 1
    MaxRegistrationMints = 2
    MaxOwnershipMints = 1
    RunSpecs <- MCReadSpecs
    Keys = {}
    RetainedRuns = 2
    ActiveRuns = 2
    ActiveWorkflows = 3
    RequestsPerRun = 2
    QueueSlots = 1
    Pieces = 2
CHECK_DEADLOCK FALSE
INVARIANTS StreamStaysFramed
PROPERTIES EveryPieceIsAuthorized
