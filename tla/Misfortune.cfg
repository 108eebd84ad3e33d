SPECIFICATION Spec
CONSTANTS
    b1 = b1
    b2 = b2
    Beads <- MCBeads
    IssueTypes <- MCIssueTypes
    Agents <- MCAgents
    FallbackAgent = "dev-agent"
    NoAgent = "none"
    Definitions <- MCDefinitions
    MaxDepth = 3
    MaxRetries = 1
    MaxReverts = 3
    TypeOf <- ChoreAndBug
    RepoOf <- TwoRepos
    ThreadOf <- NoThreads
    NoThread = "none"
    Overlaps <- NoPairs
    Similar <- NoPairs
    DependsOn <- NoWaiting
    BlockedBy <- NoWaiting
    Admitted <- OnlySecond
    DeclaresFiles <- MCBeads
    Remote <- NoBeads
    InitialOwner <- DefaultOwners
    ReadOnlyAgents <- MCReadOnly
    MaxConcurrent = 2
    TopTier = 0
    Faults <- FaultKinds
    Limit <- Misfortunes
INVARIANTS
    RetriesBounded

    
