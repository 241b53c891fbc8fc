SPECIFICATION MCSpec
CONSTANTS
    Focus = {"calls", "tree", "search", "reader", "trace"}
    Calls = {"c1"}
    Limit = 2
    MaxCrashes = 1
    Order <- OrderDef
    Queries = {"q1"}
    Fusions = {"f1"}
    MaxPages = 3
    Artifacts <- ArtifactsDef
    Iterations = {"it1", "it2"}
    Home <- HomeDef
    Kind <- KindDef
    Work = {"task", "twin"}
    Refs <- RefsDef
    Named <- NamedDef
    MaxWrites = 1
    NodeOrder <- NodeOrderDef
    EdgeOrder <- EdgeOrderDef
    Primary <- PrimaryDef
    Root = "n1"
    MaxDepths = {1, 2, 3}
INVARIANTS
    CallsEndWell
    TreeKeepsItsTabstop
    CursorsKeepTheirSearch
    SearchIsNotLost
    ReadingIsOfOneArtifact
    TraceIsBreadthFirst
    ViewIsTheTrace
PROPERTIES
    CallsAreAnswered
CHECK_DEADLOCK FALSE
