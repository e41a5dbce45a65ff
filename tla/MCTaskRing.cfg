CONSTANTS
    Task = {t1, t2}
    MaxNodes = 4
SPECIFICATION FairSpec
INVARIANTS BoundedWait RingInv
PROPERTIES EveryTaskRuns

CHECK_DEADLOCK FALSE
