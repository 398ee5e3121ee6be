SPECIFICATION FrontSpec
CONSTANTS
    w0 = w0
    w1 = w1
    Data <- MCData
    FIFO_DEPTH = 4
    REGISTER_OUTPUT = TRUE
    CS <- MCCS
    IP_SIZE = 32
    PARA = 4
    RESET_IP = 8
    LIMIT = 4
    Targets <- MCTargets
    Word <- MCWord
    WorkingSets <- MCWorkingSets
    LINES = 2
    ROB_SIZE = 5
    MISS_DEPTH = 16
    Code <- MCCode
    BPU_ITEM_CNT = 2
    DEPTH = 1
    Start = 0
    Returns <- MCReturns
    Handlers <- MCHandlers
INVARIANTS
    HeldSlotNotOverwritten
    NoAnswerLost DeliversStream
    AnswersHaveAPlace
    TakesProgramOrder OneItemPerBranch
PROPERTIES
    ImplementsQueue StepsAsFifoStep
    ImplementsMemory
    FrontEndGoesOn
CHECK_DEADLOCK TRUE
