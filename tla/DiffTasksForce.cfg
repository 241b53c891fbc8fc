SPECIFICATION MCSpec
CONSTANTS
    Focus = {"tasks"}
    MaxIteration = 3
    MaxDeaths = 1
    MaxFailures = 1
    MaxForces = 1
    Fields = {"f", "g"}
    Affected = {"f"}
    AreaOrder <- AreaOrderDef
    Authored = {}
    MaxEdits = 3
    MaxDerivations = 2
    MaxMoves = 2
    Runs = {r1, r2}
    Outcomes <- OutcomesDef
    Decisions = {"rejected"}
    Approvers = {p1, p2}
    MaxReviews = 1
    MaxDrafts = 1
    MaxApprovalDeaths = 1
    MaxOverwrites = 1
PROPERTIES
    WorkIsNotReplaced
CHECK_DEADLOCK FALSE
