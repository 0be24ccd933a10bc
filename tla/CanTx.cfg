SPECIFICATION FairSpec
CONSTANTS
    Depth = 2
    Mailboxes = 2
    MaxFrames = 4
    MaxHandOvers = 3
INVARIANTS
    TypeOK
    Accounted
    InStep
    OkHasWitness
    CountedOnce
    InOrder
PROPERTIES
    Refines
    QueueDrains
