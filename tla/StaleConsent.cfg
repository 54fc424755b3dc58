CONSTANTS
    p1 = p1
    p2 = p2
    Player <- MCPlayer
    RollbackEnabled = TRUE
    MaxPoints = 2
    SeqSteps = {1}
    Timers = {t0}
    InitTimers = t0
    MaxSeq = 8
SPECIFICATION LocalSpec
INVARIANTS PendingDecisionHasResponse
CHECK_DEADLOCK FALSE
