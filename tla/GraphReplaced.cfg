SPECIFICATION MCSpec
CONSTANTS
    Focus = {"graph"}
    Tasks = {t1}
    Searches = {}
    Replacers = {c1, c2}
    Readers = {}
    MaxReplacements = 2
    Scopes <- ScopesDef
    Bodies <- BodiesDef
    Queries <- QueriesDef
    Anywhere = "anywhere"
    Savers = {c1, c2}
    MaxSaves = 2
    Graphs <- GraphsDef
    Batches <- BatchesDef
    Runs <- RunsDef
    StoredGraphs <- StoredGraphsDef
    StoredTasks <- StoredTasksDef
INVARIANT ScopeIsFullyReplaced
CHECK_DEADLOCK FALSE
