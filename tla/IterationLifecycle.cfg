SPECIFICATION MCSpec
CONSTANTS
    Focus = {"iterations", "closes", "tasks", "proposals"}
    MaxIteration = 3
    MaxDeaths = 1
    MaxFailures = 1
    MaxForces = 1
    Fields = {"f", "g"}
    Affected = {"f"}
    AreaOrder <- AreaOrderDef
    Authored <- AuthoredDef
    MaxEdits = 3
    MaxDerivations = 2
    MaxMoves = 2
    Runs = {r1, r2}
    Outcomes <- OutcomesDef
    Decisions = {"rejected"}
    Approvers = {p1, p2}
    MaxReviews = 1
    MaxDrafts = 1
    MaxApprovalDeaths = 1
    MaxOverwrites = 1
INVARIANTS
    IterationsAgree
    ProposalsAreEarned
PROPERTIES
    HistoryIsFinal
    EveryChangeIsPlanned
    NumbersKeepTheirWork
    DecisionsSurviveMining
    InterruptedWorkCompletes
CHECK_DEADLOCK FALSE
