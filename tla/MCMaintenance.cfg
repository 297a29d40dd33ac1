SPECIFICATION MCSpec
CONSTANTS
    IdBits = 3
    K = 1
    MaxTime = 6
    Grace = 4
    UnverifiedGrace = 3
    CheckInterval = 1
    ReverifyInterval = 1
    FindInterval = 4
    SkipCount = 0
    RouterInterval = 6
    CallTimeout = 1
    Delay = 1
    MaxLost = 1
    AnyId = AnyId
    a4 = a4
    a5 = a5
    Id <- MCId
    Prefix <- MCPrefix
    Address <- MCAddress
    Home <- MCHome
    Rumour <- MCRumour
    Routers = {4}
INVARIANTS
    UnheardGo
PROPERTIES
    AnswerersStay
