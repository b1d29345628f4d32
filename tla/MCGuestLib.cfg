SPECIFICATION FairSpec
CONSTANTS
    c0 = c0
    c1 = c1
    la = la
    lb = lb
    None = None
    Context = {c0, c1}
    Root = c0
    Lib = {la, lb}
    Graphs <- Needs
    Cloning = {lb}
    SlotMax = 2
    OpensMax = 3
    HeapMax = 7
    HoldMax = 2
    Mortal = {c1}
    Preempt = FALSE

    
    
    
PROPERTIES
    CallsReturn
CHECK_DEADLOCK FALSE
