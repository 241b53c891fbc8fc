SPECIFICATION MCSpec
CONSTANTS
    Focus = {"profile", "documents", "answers"}
    i1 = i1
    i2 = i2
    Ids = {i1, i2, i3}
    None = None
    Callers = {c1, c2, c3}
    Databases <- DatabasesDef
    Split <- SplitDef
    Batches <- BatchesDef
    LegacyDocs <- LegacyDocsDef
    LegacyChunks <- LegacyChunksDef
    Clients = {c1, c2}
    Contents = {"old", "new", "newer"}
    DocIds = {"d1", "d2", "d3"}
    MaxRequests = 3
INVARIANTS
    CallersAreServedAlike
    DocumentsAreConsistent
PROPERTIES
    CorruptStaysClosed
    ImplementsHistory
    EveryRequestEnds
CHECK_DEADLOCK FALSE
