SPECIFICATION FairSpec
CONSTANTS
    Size = 5
    Frag = 2
    Probes = 3
    Reads = 3
    Polls = 3
    Loads = 2
INVARIANTS AllOrNothing Loaded
PROPERTIES Ends
CHECK_DEADLOCK FALSE
