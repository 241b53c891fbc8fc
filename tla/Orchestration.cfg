SPECIFICATION MCSpec
CONSTANTS
    Focus = {"run", "run by hand", "plan", "gates"}
    MaxQuestions = 2
    MaxConcerns = 1
    MaxRedos = 1
    MaxRecords = 0
    Recorded <- RecordedDef
    Tasks <- TasksDef
    Profiles = {"docs", "security"}
    LeftOut = LeftOut
    Refused = Refused
    Decisions = {"d1"}
    Questions = {"q1"}
    Promoted <- PromotedDef
    TaskGraphs <- TaskGraphsDef
INVARIANTS
    ReadyMeansEveryoneIsDone
    RuntimeIsConsistent
    PlansAreAccepted
    GatesHold
PROPERTIES
    RunsEnd
