SPECIFICATION FairSpec
CONSTANTS
    Task = {t1, t2}
    Fd = {f1}
    Dir = {"write"}
    Slots = 1
    Slices = 2
    Ops = {"send", "connect"}
    Calls = {"Socket", "Close", "Watch", "Destroy", "Stop"}
    Nobody = Nobody
INVARIANTS
    FiltersMatch
PROPERTIES
    ReadinessEndsWait
    DeadlineHolds
CHECK_DEADLOCK FALSE
