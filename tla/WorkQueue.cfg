SPECIFICATION FairQueueSpec
INVARIANTS
    TypeOK
    OffIsPursued
    AlarmIsCurrent
    LitDuringTest
    NeverStuck
PROPERTIES
    BusComesBack
