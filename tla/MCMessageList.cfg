CONSTANTS
    f1 = f1
    r1 = r1
    r2 = r2
    NULL = NULL
    Function = {f1}
    Receiver = {}
    Addr <- DistinctAddr
    MSG_MAX_MSG_IDS = 1
    SubIds = {0}
    PostIds <- OneRowIds
    Block = {b1, b2, b3}
    HeapCtx = {c1, c2}
    CallerCtx = {s}
    MaxMessages = 2
    Careful = TRUE
SPECIFICATION Spec
INVARIANTS ListIsFifo BlocksAccounted ContextOwnership MessageInv
PROPERTIES ImplementsBus
