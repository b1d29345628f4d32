SPECIFICATION FairSpec
CONSTANTS
    Task = {0, 1}
    Port = {p1, p2}
    Message = {m1}
    NBits = 2
    PublicMax = 1
    Calls = {"CreateMsgPort", "DeleteMsgPort", "PutMsg", "GetMsg", "Wait", "WaitPort", "Finish", "Semaphore", "Signal"}
INVARIANTS
    BitsExclusive
    WaiterCanWake
PROPERTIES
    MessageEndsWait
CHECK_DEADLOCK FALSE
