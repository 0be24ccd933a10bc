SPECIFICATION Spec
CONSTANTS
    Depth = 2
    Mailboxes = 2
    MaxFrames = 4
    MaxHandOvers = 4
INVARIANTS
    SentOnce
