SPECIFICATION MCSpec
CONSTANTS
    Focus = {"planning"}
    Tasks = {t1}
    Searches = {}
    Replacers = {c1, c2}
    Readers = {}
    MaxReplacements = 3
    Scopes <- ScopesDef
    Bodies <- BodiesDef
    Queries <- QueriesDef
    Anywhere = "anywhere"
    Savers = {c1, c2}
    MaxSaves = 3
    Graphs <- GraphsDef
    Batches <- BatchesDef
    Runs <- RunsDef
    StoredGraphs <- StoredGraphsDef
    StoredTasks <- StoredTasksDef
INVARIANT DependenciesStayInGraph
CHECK_DEADLOCK FALSE
