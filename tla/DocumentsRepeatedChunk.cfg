SPECIFICATION MCSpec
CONSTANTS
    Focus = {"documents"}
    i1 = i1
    i2 = i2
    Ids = {i1, i2}
    None = None
    Callers = {c1}
    Databases <- DatabasesDef
    Split <- SplitDef
    Batches <- BatchesDef
    LegacyDocs <- LegacyDocsDef
    LegacyChunks <- LegacyChunksDef
    Clients = {c1, c2}
    Contents = {"old"}
    DocIds = {"d1"}
    MaxRequests = 2
INVARIANT RepeatedChunkIsReturned
CHECK_DEADLOCK FALSE
