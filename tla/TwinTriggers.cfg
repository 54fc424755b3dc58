CONSTANTS
    p1 = p1
    p2 = p2
    d1 = d1
    d2 = d2
    e1 = e1
    l1 = l1
    c1 = c1
    c2 = c2
    l2 = l2
    block1 = block1
    block2 = block2
    NoBlock = NoBlock
    NoHost = NoHost
    Player <- MCPlayer
    Don <- MCDon
    DonOf <- MCDonOf
    Host <- MCHost
    HostOwner <- MCHostOwner
    FirstPlayer = p1
    Leader <- MCLeader
    Block <- MCBlock
    Asks = {block2}
    DeckSize = 2
    FieldLimit = 2
    MaxReferences = 1
SPECIFICATION Spec
SYMMETRY MCSymmetry
CHECK_DEADLOCK FALSE
INVARIANT TriggerOrderAnswerable
