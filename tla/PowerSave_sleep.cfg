SPECIFICATION FairSpec
CONSTANTS
    Confs <- OneSleeper
    Wakers = {"target"}
    Ops = 3
    Frames = 2
    Tims = 1
    Refusals = 1
    Missing = 1
    Crashes = 1
INVARIANTS Agree
PROPERTIES FrameWakes Returns Dozes
CHECK_DEADLOCK FALSE
