SPECIFICATION FairSpec
CONSTANTS
    Payload = {status, faults}
    Reader = {periodic, button}
    Parser = parser
    NoThread = none
    Other = other
    MaxMessages = 2
INVARIANTS
    TypeOK
    WholeSnapshot
    SnapshotsOrdered
PROPERTIES
    NeverBack
    Refines
    LockGranted
