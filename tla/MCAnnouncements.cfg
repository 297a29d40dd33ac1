SPECIFICATION Spec
CONSTANTS
    InfoHash = {h1, h2}
    Ip = {i4, i6}
    IPv4 = {i4}
    Port = {p1, p2}
    MaxTorrents = 1
    MaxPeers = 2
    MaxResponse = 1
    Freshness = 2
    Rotation = 2
    NoToken = NoToken
    MaxTime = 5
INVARIANTS
    TypeOK
    FreshestServed
    TokenServesOneInterval
PROPERTIES
    AnnouncedAskedBefore
