SPECIFICATION Spec
CONSTANTS
    mcu_state = mcu_state
    protium_power = protium_power
    Kind <- MCKind
    ButtonFrames <- MCButtonFrames
    Width = 2
    MaxWindow = 2
    MaxReports = 1
    MaxPresses = 1
INVARIANTS
    AllExact
CHECK_DEADLOCK FALSE
