CONSTANTS
    p1 = p1
    p2 = p2
    a1 = a1
    a2 = a2
    Player <- MCPlayer
    ActionId <- MCActionId
    SentRequests <- MCSentRequests
    RollbackEnabled = TRUE
    MaxPoints = 2
    SeqSteps = {1, 2}
    Timers = {t0}
    InitTimers = t0
    MaxSeq = 4
    MaxRefused = 1
SPECIFICATION SessionSpec
SYMMETRY SessionSymmetry
INVARIANTS SessionTypeOK VersionsLeftOnce
PROPERTIES AtMostOncePromise
CHECK_DEADLOCK FALSE
