SPECIFICATION Spec
CONSTANTS
    mcu_state = mcu_state
    protium_power = protium_power
    Kind <- MCKind
    ButtonFrames <- MCButtonFrames
    Width = 2
    MaxWindow = 2
    MaxReports = 3
    MaxPresses = 2
INVARIANTS
    TypeOK
    PrivateReported
CHECK_DEADLOCK FALSE
