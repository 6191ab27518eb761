SPECIFICATION FairSpec
CONSTANTS
    SelfID = 1
    PeerID = 2
    OtherID = 3
    Conns = {c1}
    NoConn = NoConn
    Endpoints = {e1, e2}
    NoEndpoint = NoEndpoint
    MinBackoff = 1
    MaxBackoff = 3
INVARIANT FreshEndpointWakes
PROPERTIES Redials BrokenLeaves ShutdownEnds
CHECK_DEADLOCK FALSE
