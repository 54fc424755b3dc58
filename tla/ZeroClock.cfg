CONSTANTS
    p1 = p1
    p2 = p2
    Player <- MCPlayer
    FirstSeat = p1
    RollbackEnabled = TRUE
    MaxPoints = 2
    SeqSteps = {1}
    GameTime = 2
    Grace = 1
    Timers <- TimerStates
    InitTimers <- FreshTimers
    MaxSeq = 5
SPECIFICATION TimersSpec
INVARIANTS ClockZeroLoses
CHECK_DEADLOCK FALSE
