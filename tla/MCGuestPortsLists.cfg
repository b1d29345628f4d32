SPECIFICATION Spec
CONSTANTS
    Task = {0, 1}
    Port = {p1, p2}
    Message = {m1, m2, m3}
    NBits = 1
    PublicMax = 1
    Calls = {"CreateMsgPort", "PutMsg", "GetMsg", "ReplyMsg", "AddPort", "AllocSignal"}
PROPERTIES
    FifoSpec
CHECK_DEADLOCK FALSE
