SPECIFICATION Spec
CONSTANTS
    t1 = t1
    t2 = t2
    png = png
    jpeg = jpeg
    garbage = garbage
    TextData = {}
    ImageData = {png}
    WireData = {jpeg, garbage}
    NoData = NoData
    Normal <- NormalImage
    Sendable = {png}
    Appliers = {a1, a2}
    TTL = 1
    ObservedCap = 1
    EventsCap = 1
    MaxCopies = 2
    MaxApplies = 3
SYMMETRY Symmetry
INVARIANTS TypeOK LedgerBalance NoEcho NoEchoEmitted
CHECK_DEADLOCK FALSE
