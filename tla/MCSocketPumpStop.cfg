SPECIFICATION FairSpec
CONSTANTS
    Task = {t1}
    Fd = {f1}
    Dir = {"read"}
    Slots = 1
    Slices = 1
    Ops = {"recv"}
    Calls = {"Socket", "Stop"}
    Nobody = Nobody
PROPERTIES
    StopReturns
CHECK_DEADLOCK FALSE
