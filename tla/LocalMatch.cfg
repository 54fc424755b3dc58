CONSTANTS
    p1 = p1
    p2 = p2
    Player <- MCPlayer
    RollbackEnabled = TRUE
    MaxPoints = 2
    SeqSteps = {1, 2}
    Timers = {t0}
    InitTimers = t0
    MaxSeq = 8
SPECIFICATION LocalSpec
SYMMETRY PlayerSymmetry
INVARIANTS TypeOK PointsInOrder RewoundFutureStaysUndone RequestAnswerable PointsBounded
PROPERTIES RewindOnlyByConsent SeqNamesTheState
CHECK_DEADLOCK FALSE
