\* The records of beads: exchange, store switch, move, threads, observations.
SPECIFICATION RecordsSpec
CONSTANTS
    Parts = {"exchange", "switch", "move", "threads", "fold", "backfill"}
    WorldNames = {"authors", "reviewed", "comments", "fresh", "created",
                  "failing", "worktree", "held", "reopened", "two"}
    x1 = x1
    x2 = x2
    Clones <- MCClones
    ExBeads <- MCExBeads
    Worlds <- MCWorlds
    SwBeads = {"s1", "s2"}
    SwFirst = {"s1"}
    Daemon0 = "daemon"
    Command = "command"
    SwMaxWrites = 2
    SwMaxRuns = 2
    SwMaxFaults = 2
    Movers = {"first", "second"}
    MvMaxMoves = 2
    MvMaxWrites = 1
    MvMaxFaults = 1
    ThBeads = {1, 2, 3}
    ThSimilar = {1, 2, 3}
    ThFirst = {2, 3}
    ThMaxOps = 1
    ThMaxFaults = 1
    ObSources = {"github", "linear"}
    ObEvents = {"e1", "e2"}
    ObValues = {1, 2}
    ObMaxClock = 1
    ObMaxRows = 3
    ObClosures <- MCClosures
    ObBackfills = {"p1", "p2"}
    ObMaxRuns = 3
    ObMaxLost = 1
INVARIANTS
    RecordsTypeOK
    StampIdentifies
    SwitchKeepsBeads
    CopiesAccounted
    OneThread
    ViewIsJoin
    WitnessedOnce
PROPERTIES
    NothingReverts
    NamedArrives
    PublishedArrives
    MovedIsCopied
    FeatureHoldsWork
    FeatureOpens
    MergesWitnessed
CHECK_DEADLOCK FALSE
