SPECIFICATION FairSpec
CONSTANTS
    la = la
    lb = lb
    lc = lc
    lr = lr
    Wild = Wild
    Pc <- MCPc
    Reg <- MCReg
    Val <- MCVal
    Programs <- MCPrograms
    Handler = lc
    Return = lr
    StackMax = 2
    NestMax = 2
    Quantum = 2
    InitialBlocks = 1
    MaxBlocks = 2
INVARIANTS
    LinksTrue
    FramePaired
PROPERTIES
    RunsTheProgram
    StopLands
    BlocksFinish
