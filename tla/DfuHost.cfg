SPECIFICATION FairSpec
CONSTANTS
    Batch = 2
    SeqLimit = 6
    MaxChunks = 7
    MaxRuns = 3
INVARIANTS
    CompleteIsCommitted
PROPERTIES
    RunEnds
CHECK_DEADLOCK FALSE
