\* The work queue: three beads, two scores, a first hold of one instant.
SPECIFICATION Spec
CONSTANTS
    k1 = k1
    k2 = k2
    k3 = k3
    Keys <- MCKeys
    Scores <- MCScores
    Base = 1
    BackoffMax = 3
    MaxRetries = 2
    Waits <- MCWaits
    MaxSlots = 2
    MaxClock = 3
SYMMETRY KeySymmetry
INVARIANTS
    QueueConsistent
PROPERTIES
    DispatchDrains
    ImplementsReadyQueue
