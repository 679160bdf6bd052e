SPECIFICATION LinkSpec
CONSTANTS
    Mod = 8
    Depth = 2
    TxDepth = 1
    MaxSlot = 1
    Starts = {7}
    Sizes = {1, 2}
    Packets = 2
    Frames = 1
    Resets = 2
    Faults = 1
INVARIANTS Counted Whole
CHECK_DEADLOCK FALSE
