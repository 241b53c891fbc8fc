SPECIFICATION MCSpec
CONSTANTS
    Focus = {"provider", "graph", "planning", "graph answers", "planning answers"}
    Tasks = {t1}
    Searches = {s1}
    Replacers = {c1, c2}
    Readers = {r1}
    MaxReplacements = 3
    Scopes <- ScopesDef
    Bodies <- BodiesDef
    Queries <- QueriesDef
    Anywhere = "anywhere"
    Savers = {c1, c2}
    MaxSaves = 3
    Graphs <- GraphsDef
    Batches <- BatchesDef
    Runs <- RunsDef
    StoredGraphs <- StoredGraphsDef
    StoredTasks <- StoredTasksDef
INVARIANT GraphIsConsistent
PROPERTIES
    GatePromisesTheProvider
    ReplacementTakesItsScope
    UndisturbedTraceIsExact
    IdentitiesLast
    EverythingSettles
CHECK_DEADLOCK FALSE
