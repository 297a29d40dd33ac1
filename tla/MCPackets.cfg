SPECIFICATION PacketsSpec
CONSTANTS
    Value <- MCValue
    Foreign <- MCForeign
    Cap = 4
    Modulus = 16
    Fallback = "random"
    SenderPort = 5
    None = None
    Failed = Failed
INVARIANTS
    RoundTrip
    AuthorKnown
    PortAsMeant
CHECK_DEADLOCK FALSE
