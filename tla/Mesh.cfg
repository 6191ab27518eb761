SPECIFICATION MeshFairSpec
CONSTANTS
    SelfID = 5
    PeerID = 2
    OtherID = 3
    Conns = {c1}
    NoConn = NoConn
    Endpoints = {e1}
    NoEndpoint = NoEndpoint
    MinBackoff = 1
    MaxBackoff = 1
INVARIANTS MeshTypeOK DoneMeansQuiet
PROPERTIES ImplementsPeerLink ShutdownCompletes LatePumpsEnd
CHECK_DEADLOCK FALSE
