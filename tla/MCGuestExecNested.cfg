SPECIFICATION Spec
CONSTANTS
    MaxCtx = 3
    Signals = {s}
    NativeSig = s
    Sources = {}
    ForbidMax = 1
    CallbackMax = 1
    CommandMax = 1
    RunQuantum = 2
    ContextQuantum = 2
    SweepMax = 1
    DelayTurns = 1
    Calls = {"Create", "Reschedule", "Callback", "Hook", "Command", "Exit", "Return"}
INVARIANTS
    NeverReentered
    
    DomainTrue
CHECK_DEADLOCK FALSE
