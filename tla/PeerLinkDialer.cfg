SPECIFICATION Spec
CONSTANTS
    SelfID = 1
    PeerID = 2
    OtherID = 3
    Conns = {c1, c2}
    NoConn = NoConn
    Endpoints = {e1}
    NoEndpoint = NoEndpoint
    MinBackoff = 1
    MaxBackoff = 1
SYMMETRY Symmetry
INVARIANTS TypeOK NoLostWakeup NoOrphanLink LiveTable PreferredSurvives
PROPERTIES SupersedeOnce
CHECK_DEADLOCK FALSE
