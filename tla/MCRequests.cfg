SPECIFICATION Spec
CONSTANTS
    c1 = c1  c2 = c2  t1 = t1  t2 = t2  a1 = a1  a2 = a2  n1 = n1  n2 = n2
    Caller = {c1, c2}
    Spawned = {c1, c2}
    Tid = {t1, t2}
    Address = {a1, a2}
    NodeId = {n1, n2}
    Request <- MCRequest
    Response <- MCResponse
    Query = Query
    ErrorMsg = ErrorMsg
    Period = 1
    SendCap = 1
    RecvCap = 1
    NoId = NoId
    NoCall = NoCall
    NoEntry = NoEntry
    Empty = Empty
    Nobody = Nobody
SYMMETRY Interchangeable
INVARIANTS
    TypeOK
    RepliesBelong
    NotifyNeverWaits
PROPERTIES
    KeepsListening
