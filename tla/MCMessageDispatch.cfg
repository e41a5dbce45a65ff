CONSTANTS
    f1 = f1
    r1 = r1
    r2 = r2
    NULL = NULL
    Function = {f1}
    Receiver = {r1, r2}
    Addr <- DistinctAddr
    MSG_MAX_MSG_IDS = 2
    SubIds = {0}
    PostIds = {0, 1}
    Block = {b1, b2}
    HeapCtx = {}
    CallerCtx = {}
    MaxMessages = 2
    Careful = TRUE
SPECIFICATION FairSpec
INVARIANTS DispatchExact DetachedNotCalled DispatchInv
PROPERTIES EveryMessageHandled LoopReturns
