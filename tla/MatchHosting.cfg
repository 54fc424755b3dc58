CONSTANTS
    acc1 = acc1
    acc2 = acc2
    d1 = d1
    d2 = d2
    c1 = c1
    c2 = c2
    NoAccount = NoAccount
    NoDeck = NoDeck
    Account <- MCAccount
    Deck <- MCDeck
    Caller <- MCCaller
    PlayerOrder <- MCPlayerOrder
    Submits <- MCSubmits
    MaxRounds = 1
SPECIFICATION Spec
INVARIANTS TypeOK PlaysOwnDeck ListsDecksPlayed SocketsOwnSeat RecordedResult
PROPERTIES RecordIsFinal SettledMatchStands LobbyStarts
CHECK_DEADLOCK FALSE
