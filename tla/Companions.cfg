\* The components beside the flat loop, one at a time.
SPECIFICATION CompanionsSpec
CONSTANTS
    b1 = b1
    b2 = b2
    w1 = w1
    q1 = q1
    q2 = q2
    Parts = {"targeted", "hierarchical", "workers"}
    IssueTypes <- MCIssueTypes
    Agents <- MCAgents
    FallbackAgent = "dev-agent"
    NoAgent = "none"
    Definitions <- MCDefinitions
    MaxDepth = 2
    MaxRetries = 2
    MaxReverts = 3
    StartStates <- MCStartStates
    TargetFaults <- MCTargetFaults
    OrBeads <- MCOrBeads
    OrTypeOf <- MCOrTypeOf
    OrLimits = {1, 2}
    Synthesis = TRUE
    OrFaults = 1
    WkBeads <- MCWkBeads
    Requests <- MCRequests
    NativeRequests <- MCNativeRequests
    WkFaultKinds <- MCWkFaultKinds
    WkFaults = 1
INVARIANTS
    CompanionsTypeOK
    ReportMatchesStore
    AttemptsBounded
    OneWorkerPerBead
    OrchestratorBounded
    
    WorkersTracked
PROPERTIES
    TargetedRunEnds
    OrchestratorsFinish
    SweepSparesWorkers
    DeadWorkersAreFound
CHECK_DEADLOCK FALSE
