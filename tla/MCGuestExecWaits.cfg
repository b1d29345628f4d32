SPECIFICATION FairSpec
CONSTANTS
    MaxCtx = 3
    Signals = {s}
    NativeSig = s
    Sources = {1}
    ForbidMax = 1
    CallbackMax = 1
    CommandMax = 1
    RunQuantum = 2
    ContextQuantum = 2
    SweepMax = 2
    DelayTurns = 1
    Calls = {"Create", "Signal", "Wait", "Return", "Exit", "RemTask"}
INVARIANTS
    FlagsMatchStack
    ContinuationKept
    DoneMeansAlone
PROPERTIES
    SignalObserved
    AfterlifeServes
CHECK_DEADLOCK FALSE
