SPECIFICATION FairSpec
CONSTANTS
    Body = 2
    Delims = 2
    PacketSize = 3
    Depth = 2
    MaxMessages = 3
INVARIANTS
    TypeOK
    OnceInOrder
    IntactIsHanded
    MixedIsDamaged
PROPERTIES
    Drains
