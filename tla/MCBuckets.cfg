SPECIFICATION Spec
CONSTANTS
    IdBits = 3
    K = 2
    Time = {1, 2}
    Id <- MCId
    Prefix <- MCPrefix
INVARIANTS
    TypeOK
    LookupsFind
    TableBounded
PROPERTIES
    Implements
    AddReturns
