SPECIFICATION FairSpec
CONSTANTS
    Short = 2
    Long = 4
    Stats = 4
    Slow = 2
    Depth = 9
    ButtonFrames = 1
    Arriving = {"master_status", "master_measurements"}
INVARIANTS
    TypeOK
    PhaseAligned
    LeftoverBounded
    NoDropWithRoom
    CadenceBounded
    CadenceExact
PROPERTIES
    BroadcastResumes
