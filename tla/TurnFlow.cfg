CONSTANTS
    p1 = p1
    p2 = p2
    d1 = d1
    d2 = d2
    e1 = e1
    l1 = l1
    c1 = c1
    l2 = l2
    b1 = b1
    b2 = b2
    b3 = b3
    block1 = block1
    block2 = block2
    NoBlock = NoBlock
    NoHost = NoHost
    Player <- MCPlayer
    Don <- MCDon
    DonOf <- MCDonOf
    Host <- MCHost
    HostOwner <- MCHostOwner
    FirstPlayer = p1
    Leader <- MCLeader
    Block <- MCBlock
    Asks = {block1}
    DeckSize = 2
    FieldLimit = 2
    MaxReferences = 1
    LifeSize = 2
    Rush = {c1}
    Blocker = {b1, b2, b3}
SPECIFICATION BattleSpec
SYMMETRY MCSymmetry
CONSTRAINT TwoSides
CHECK_DEADLOCK FALSE
INVARIANTS
    TypeOK
    DonConserved
    HandedOff
    EmptyDeckEnds
    BattleTypeOK
    AskedOfStanding
    BattlesAsk
PROPERTIES
    TurnsBeginWhole
    DamageIsPaidInLife
    CallsForeseen
