SPECIFICATION Spec
CONSTANTS
    IdBits = 3
    K = 1
    Address = {a1}
    Grace = 1
    UnverifiedGrace = 2
    MaxTime = 3
    Id <- MCId
    Prefix <- MCPrefix
INVARIANTS
    TypeOK
    OneRecordPerId
    TablesBounded
PROPERTIES
    LossNeedsFullClass
