SPECIFICATION Spec
CONSTANTS
    Capacity = 2
    Shown = {"mcu_state", "protium_state"}
    MaxMessages = 2
    MaxFrames = 4
    MaxHandOvers = 3
    MaxPresses = 1
INVARIANTS
    QuietUpdate
