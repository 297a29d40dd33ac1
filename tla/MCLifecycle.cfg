SPECIFICATION Spec
CONSTANTS
    Call = {"call"}
    Subscriber = {"s1", "s2"}
    EventCap = 2
    RecvCap = 1
    MaxEvents = 4
INVARIANTS
    NothingAfterReturn
    EventsReach
PROPERTIES
    ShutdownCompletes
CHECK_DEADLOCK FALSE
