SPECIFICATION Spec
CONSTANTS
    Capacity = 2
    Shown = {"mcu_state", "protium_state"}
    MaxMessages = 2
    MaxFrames = 3
    MaxHandOvers = 4
    MaxPresses = 1
INVARIANTS
    CausalOrder
    SetbacksBounded
    InventedByButton
