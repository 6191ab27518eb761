SPECIFICATION MeshSpec
CONSTANTS
    SelfID = 1
    PeerID = 2
    OtherID = 3
    Conns = {c1}
    NoConn = NoConn
    Endpoints = {e1}
    NoEndpoint = NoEndpoint
    MinBackoff = 1
    MaxBackoff = 1
INVARIANT WaitIsFinal
CHECK_DEADLOCK FALSE
