SPECIFICATION FairSpec
CONSTANTS
    t1 = t1
    t2 = t2
    png = png
    jpeg = jpeg
    garbage = garbage
    TextData = {t1, t2}
    ImageData = {png}
    WireData = {}
    NoData = NoData
    Normal <- NormalImage
    Sendable = {t1, png}
    Appliers = {a1}
    TTL = 1
    ObservedCap = 1
    EventsCap = 1
    MaxCopies = 2
    MaxApplies = 0
INVARIANT NewestWins
PROPERTIES NewestSettles StopsWhenDone
CHECK_DEADLOCK FALSE
