CONSTANTS
    f1 = f1
    r1 = r1
    r2 = r2
    NULL = NULL
    Function = {f1}
    Receiver = {r1}
    Addr <- DistinctAddr
    MSG_MAX_MSG_IDS = 1
    SubIds = {0}
    PostIds = {0}
    Block = {b1, b2}
    HeapCtx = {}
    CallerCtx = {}
    MaxMessages = 2
    Careful = FALSE
SPECIFICATION FairSpec
INVARIANTS CursorNotDeleted
