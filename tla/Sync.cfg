SPECIFICATION SyncSpec
CONSTANTS
    a1 = a1
    a2 = a2
    b1 = b1
    A = A
    B = B
    p1 = p1
    c1 = c1
    c2 = c2
    Peers = {p1}
    Others = {p2}
    Conns = {c1, c2}
    PeerOf <- MCPeerOf
    NoConn = NoConn
    Payloads = {a1, a2, b1}
    NumChunks <- MCNumChunks
    Events <- MCEvents
    Window = 1
    SendQueueSize = 1
    Ids = {A, B}
    HashOf <- MCHashOf
    Fields <- MCFields
    MaxPayloadBytes = 3
    Serial <- MCSerial
    ChunkSize = 1
    NoState = NoState
INVARIANTS TypeOK NoHole CleanMeansQueued AppliedInOrder DrainedIsSynced
PROPERTIES ImplementsDelivery
CHECK_DEADLOCK FALSE
