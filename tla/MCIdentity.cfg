SPECIFICATION Spec
CONSTANTS
    ip1 = ip1  ip2 = ip2
    id1 = id1  id2 = id2  both = both  neither = neither
    Ip = {ip1, ip2}
    NodeId = {id1, id2, both, neither}
    ValidFor <- Fits
    MinVotes = 2
    MaxVotes = 4
    NoIp = NoIp
INVARIANTS
    TypeOK
    StorageFits
PROPERTIES
    AdoptionEarned
    Settles
