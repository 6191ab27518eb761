SPECIFICATION Spec
CONSTANTS
    a1 = a1
    a2 = a2
    b1 = b1
    x1 = x1
    y1 = y1
    A = A
    B = B
    Payloads = {a1, a2, b1, x1, y1}
    Ids = {A, B}
    HashOf <- MCHashOf
    Fields <- MCFields
    MaxPayloadBytes = 3
    Serial <- MCSerial
    ChunkSizes = {2, 3}
    StrayChunks <- MCStray
    NoState = NoState
INVARIANTS EntriesIncomplete NoFabrication RetransmissionHeals
