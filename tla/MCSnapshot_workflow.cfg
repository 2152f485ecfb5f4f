SPECIFICATION FairFileSpec
CONSTANTS
    w1 = w1
    w2 = w2
    i1 = i1
    i2 = i2
    i3 = i3
    i4 = i4
    None = None
    Empty = Empty
    Torn = Torn
    Json = Json
    FixedTmp = FixedTmp
    Writers <- TwoWriters
    Inodes <- FourInodes
    Locked = TRUE
    UniqueTmp = TRUE
    MaxVersion = 2
PROPERTIES ImplementsDurableMap PersistEnds
